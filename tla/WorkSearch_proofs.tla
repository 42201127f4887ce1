-------------------------- MODULE WorkSearch_proofs --------------------------
(***************************************************************************)
(* The search of work(): what its arithmetic makes sure of; and the calls  *)
(* of MCWork: the results of the operations, for every size and all inputs *)
(* its constants may name.                                                 *)
(***************************************************************************)
EXTENDS MCWork, Uint256_proofs

-----------------------------------------------------------------------------
(* The search.                                                             *)

(* The start is one of the hashed nonces, widened.                         *)
StartIsLow == Value(start) < Weight[Hashed]

(* From any start, 2^64 successive nonces meet every hashed nonce.         *)
LEMMA EveryHashed ==
  ASSUME TypeOK, StartIsLow, NEW v \in valid
  PROVE  \E n \in Number :
           /\ IsValid(n)
           /\ Value(start) <= Value(n) /\ Value(n) < Value(start) + Weight[Hashed]
<1>0. /\ v \in Tail8 /\ Value(v) \in Nat /\ Value(v) < Weight[Hashed]
      /\ Value(start) \in Nat /\ Weight[Hashed] \in Nat
  BY TailIs, ValueIs, WeightIs, Sizes DEF TypeOK
<1>1. CASE Value(v) >= Value(start)
  <2>1. IsValid(Widened(v))
    BY <1>0, HashedOfWidened DEF IsValid
  <2> QED BY <1>0, <1>1, <2>1, HashedOfWidened
<1>2. CASE Value(v) < Value(start)
  <2> DEFINE n == Widened(<<1>> \o v)
  <2>1. n \in Number /\ Value(n) = Value(v) + Weight[Hashed] /\ HashedNonce(n) = v
    BY <1>0, OneAbove
  <2> HIDE DEF n
  <2>2. IsValid(n)
    BY <2>1 DEF IsValid
  <2>3. Value(start) <= Value(n) /\ Value(n) < Value(start) + Weight[Hashed]
    BY <1>0, <1>2, <2>1 DEF StartIsLow
  <2> QED BY <2>1, <2>2, <2>3
<1> QED
  BY <1>0, <1>1, <1>2

(* The nonces from the start up to the present one are all invalid, and so *)
(* there are fewer than 2^64 of them: the sum never comes near 2^256.      *)
NoneSkipped ==
  valid # {} =>
    \A n \in Number : Value(start) <= Value(n) /\ Value(n) < Value(nonce) => ~IsValid(n)

FoundIsValid == found => IsValid(nonce)

SolutionIsNonce == found => solution = Btoc(HashedNonce(nonce))

SearchInv ==
  /\ TypeOK
  /\ StartIsLow
  /\ Value(start) <= Value(nonce) \/ valid = {}
  /\ SearchBounded
  /\ NoneSkipped
  /\ FoundIsValid
  /\ SolutionIsNonce

LEMMA InitSearch == Init => SearchInv
<1> SUFFICES ASSUME Init PROVE SearchInv
  OBVIOUS
<1>1. PICK s \in Tail8 : start = Widened(s)
  BY DEF Init
<1>2. /\ start \in Number /\ Value(start) \in Nat /\ Value(start) < Weight[Hashed]
      /\ Weight[Hashed] \in Nat
  BY <1>1, HashedOfWidened, TailIs, WeightIs, Sizes
<1>3. nonce = start /\ ~found /\ valid \in SUBSET Tail8
  BY DEF Init
<1>4. TypeOK /\ StartIsLow /\ FoundIsValid /\ SolutionIsNonce
  BY <1>2, <1>3 DEF TypeOK, StartIsLow, FoundIsValid, SolutionIsNonce, Init
<1>5. Value(start) <= Value(nonce) /\ SearchBounded
  <2>1. Weight[Hashed] > 0
    BY WeightIs, Sizes
  <2> QED BY <1>2, <1>3, <2>1 DEF SearchBounded
<1>6. NoneSkipped
  <2>1. \A n \in Number : Value(n) \in Nat
    BY ValueIs
  <2> QED BY <1>2, <1>3, <2>1 DEF NoneSkipped
<1> QED
  BY <1>4, <1>5, <1>6 DEF SearchInv

LEMMA SearchStep == SearchInv /\ [Next]_vars => SearchInv'
<1> SUFFICES ASSUME SearchInv, [Next]_vars PROVE SearchInv'
  OBVIOUS
<1>0. /\ TypeOK /\ StartIsLow /\ nonce \in Number
      /\ Value(start) \in Nat /\ Value(nonce) \in Nat /\ Weight[Hashed] \in Nat
  BY ValueIs, WeightIs, Sizes DEF SearchInv, TypeOK
<1>1. CASE Return
  BY <1>1
  DEF Return, SearchInv, TypeOK, StartIsLow, SearchBounded, NoneSkipped, FoundIsValid, IsValid, SolutionIsNonce
<1>2. CASE Advance
  <2>1. TypeOK' /\ StartIsLow' /\ FoundIsValid' /\ SolutionIsNonce'
    <3>1. nonce' \in Number
      BY <1>0, <1>2, AddIsSum, OneIs DEF Advance
    <3> QED BY <1>0, <1>2, <3>1
    DEF Advance, TypeOK, StartIsLow, FoundIsValid, SolutionIsNonce
  <2>2. CASE valid = {}
    BY <1>2, <2>1, <2>2 DEF Advance, SearchInv, SearchBounded, NoneSkipped
  <2>3. CASE valid # {}
    <3>1. ASSUME NEW n \in Number, Value(start) <= Value(n), Value(n) <= Value(nonce)
          PROVE  ~IsValid(n)
      <4>1. Value(n) \in Nat
        BY ValueIs
      <4>2. CASE Value(n) = Value(nonce)
        BY <1>0, <1>2, <4>2, OneNumberPerValue DEF Advance
      <4>3. CASE Value(n) < Value(nonce)
        BY <2>3, <3>1, <4>3 DEF SearchInv, NoneSkipped
      <4> QED BY <1>0, <3>1, <4>1, <4>2, <4>3
    <3>2. Value(nonce) + 1 < Value(start) + Weight[Hashed]
      <4>1. PICK v \in valid : TRUE
        BY <2>3
      <4>2. PICK n \in Number :
              /\ IsValid(n)
              /\ Value(start) <= Value(n) /\ Value(n) < Value(start) + Weight[Hashed]
        BY <1>0, <4>1, EveryHashed
      <4>3. Value(n) \in Nat
        BY ValueIs
      <4>4. ~(Value(n) <= Value(nonce))
        BY <3>1, <4>2
      <4> QED BY <1>0, <4>2, <4>3, <4>4
    <3>3. Value(nonce') = Value(nonce) + 1
      <4> DEFINE v == Value(nonce)
                 m == Weight[Size]
      <4>1. m \in Nat \ {0} /\ v + 1 \in Nat
        <5>1. m \in Nat \ {0}
          BY WeightIs, Sizes
        <5>2. v + 1 \in Nat
          BY <1>0
        <5> QED BY <5>1, <5>2
      <4>2. v + 1 < m
        BY <1>0, <3>2, <4>1, RoomAbove DEF StartIsLow
      <4>3. Value(nonce') = (v + 1) % m
        BY <1>0, <1>2, AddIsSum, OneIs DEF Advance
      <4> HIDE DEF v, m
      <4>4. (v + 1) % m = v + 1
        <5>1. v + 1 \in 0 .. m - 1 /\ 0 * m + (v + 1) = v + 1
          BY <4>1, <4>2
        <5> QED BY <4>1, <5>1, QuotientUnique
      <4> QED BY <4>3, <4>4 DEF v
    <3>4. (Value(start) <= Value(nonce))' /\ SearchBounded'
      BY <1>0, <1>2, <2>3, <3>2, <3>3 DEF Advance, SearchInv, SearchBounded
    <3>5. NoneSkipped'
      <4>1. \A n \in Number : Value(n) \in Nat
        BY ValueIs
      <4>2. \A n \in Number : Value(start) <= Value(n) /\ Value(n) < Value(nonce') => ~IsValid(n)
        BY <1>0, <3>1, <3>3, <4>1
      <4>3. valid' = valid /\ start' = start
        BY <1>2 DEF Advance
      <4> QED BY <4>2, <4>3 DEF NoneSkipped, IsValid
    <3> QED BY <2>1, <3>4, <3>5 DEF SearchInv
  <2> QED BY <2>2, <2>3
<1>3. CASE UNCHANGED vars
  BY <1>3
  DEF vars, SearchInv, TypeOK, StartIsLow, SearchBounded, NoneSkipped, FoundIsValid, IsValid,
      SolutionIsNonce
<1> QED
  BY <1>1, <1>2, <1>3 DEF Next

(* work() answers with the first valid nonce from its start, whatever the  *)
(* hash function and however many bytes a nonce has.                       *)
THEOREM FirstSolutionHolds == Spec => []FirstSolution
<1>1. SearchInv => FirstSolution
  <2> SUFFICES ASSUME SearchInv, found PROVE FirstSolution
    BY DEF FirstSolution
  <2>1. IsValid(nonce) /\ valid # {}
    BY DEF SearchInv, FoundIsValid, IsValid
  <2>2. Value(start) \in Nat /\ Value(nonce) \in Nat
    BY ValueIs DEF SearchInv, TypeOK
  <2>3. \A n \in Number : Value(n) \in Value(start) .. Value(nonce) - 1 => ~IsValid(n)
    BY <2>1, <2>2 DEF SearchInv, NoneSkipped
  <2> QED BY <2>1, <2>3 DEF FirstSolution
<1> QED
  BY <1>1, InitSearch, SearchStep, PTL DEF Spec

(* If there is a valid nonce, fewer than 2^64 are tried before it.         *)
THEOREM SearchBoundedHolds == Spec => []SearchBounded
<1>1. SearchInv => SearchBounded
  BY DEF SearchInv
<1> QED
  BY <1>1, InitSearch, SearchStep, PTL DEF Spec

(* The server takes the solution that work() has found for it, and of a    *)
(* text with a character that is no digit misreads one byte.               *)
THEOREM NonceComesBackHolds == Spec => []NonceComesBack
<1>1. SearchInv => NonceComesBack
  <2> SUFFICES ASSUME SearchInv, found PROVE NonceComesBack
    BY DEF NonceComesBack
  <2> DEFINE v == HashedNonce(nonce)
  <2>1. v \in Tail8 /\ v \in valid /\ solution = Btoc(v)
    BY DEF SearchInv, FoundIsValid, SolutionIsNonce, IsValid, TypeOK
  <2>2. ASSUME NEW garbage \in Garbage PROVE IsValid(Ctob(solution, garbage))
    BY <2>1, ReadBack DEF IsValid
  <2>3. ASSUME NEW garbage \in Garbage, NEW i \in 1 .. Len(solution), NEW j \in 1 .. Hashed,
               j # (i + 1) \div 2
        PROVE  HashedNonce(Ctob(Misspelt(solution, i), garbage))[j] = v[j]
    <3> HIDE DEF v
    <3> QED BY <2>1, <2>3, ReadBack
  <2> QED BY <2>2, <2>3 DEF NonceComesBack
<1> QED
  BY <1>1, InitSearch, SearchStep, PTL DEF Spec

-----------------------------------------------------------------------------
(* The calls of MCWork.                                                    *)

SmallFacts == INSTANCE Uint256_proofs
  WITH Size <- SmallSize, Width <- SmallWidth, Hashed <- 2

RealFacts == INSTANCE Uint256_proofs
  WITH Size <- RealSize, Width <- RealWidth, Hashed <- 8

LEMMA LongExponent ==
  /\ ExpBits \in Nat /\ 11 <= ExpBits /\ Two[ExpBits] \in Nat
  /\ Two[1] = 2 /\ Two[2] = 4 /\ Two[4] = 16 /\ Two[8] = 256
  /\ 2048 <= Two[ExpBits] /\ ExpBits + 24 <= Two[ExpBits]
<1>1. /\ ExpBits \in Nat /\ ExpBits >= 11 /\ Two[0] = 1 /\ Two[ExpBits] \in Nat
      /\ \A k \in 0 .. ExpBits - 1 : Two[k + 1] = 2 * Two[k]
  BY TwoIs, InputsAssumption DEF InputsAssumption
<1>2. Two[1] = 2 /\ Two[2] = 4 /\ Two[3] = 8 /\ Two[4] = 16
  <2>1. Two[0 + 1] = 2 * Two[0] /\ Two[1 + 1] = 2 * Two[1] /\ Two[2 + 1] = 2 * Two[2] /\ Two[3 + 1] = 2 * Two[3]
    BY <1>1
  <2> QED BY <1>1, <2>1
<1>3. Two[8] = 256
  <2>1. Two[4 + 1] = 2 * Two[4] /\ Two[5 + 1] = 2 * Two[5] /\ Two[6 + 1] = 2 * Two[6] /\ Two[7 + 1] = 2 * Two[7]
    BY <1>1
  <2> QED BY <1>2, <2>1
<1>4. Two[11] = 2048
  <2>1. Two[8 + 1] = 2 * Two[8] /\ Two[9 + 1] = 2 * Two[9] /\ Two[10 + 1] = 2 * Two[10]
    BY <1>1
  <2> QED BY <1>3, <2>1
<1>5. 2048 <= Two[ExpBits]
  <2>1. CASE ExpBits = 11
    BY <1>4, <2>1
  <2>2. CASE ExpBits > 11
    <3>1. Two[11] < Two[ExpBits]
      BY <1>1, <2>2, TwoLess
    <3> QED BY <1>1, <1>4, <3>1
  <2> QED BY <1>1, <2>1, <2>2
<1>6. Two[ExpBits] = 2 * Two[ExpBits - 1] /\ ExpBits - 1 < Two[ExpBits - 1] /\ Two[ExpBits - 1] \in Nat
  <2>1. ExpBits - 1 \in 0 .. ExpBits - 1 /\ (ExpBits - 1) + 1 = ExpBits /\ ExpBits - 1 \in 0 .. ExpBits
    BY <1>1
  <2> QED BY <1>1, <2>1, TwoGrows
<1> QED
  BY <1>1, <1>2, <1>3, <1>5, <1>6

(* What the facts about numbers assume, for each of the two sizes.         *)
LEMMA RealFits ==
  /\ ExpBits \in Nat
  /\ Two \in [0 .. ExpBits -> Nat]
  /\ Two[0] = 1 /\ \A k \in 1 .. ExpBits : Two[k] = 2 * Two[k - 1]
  /\ RealWidth \in {1, 2, 4, 8} /\ RealSize \in Nat /\ 8 \in 1 .. RealSize - 1 /\ RealWidth <= ExpBits
  /\ RealFacts!Radix * RealWidth <= Two[ExpBits] /\ (RealSize + 3) * RealWidth <= Two[ExpBits]
<1>1. RealFacts!Radix = 256
  BY LongExponent DEF RealFacts!Radix, RealWidth
<1>2. /\ RealWidth \in {1, 2, 4, 8} /\ RealSize \in Nat /\ 8 \in 1 .. RealSize - 1 /\ RealWidth <= ExpBits
      /\ RealFacts!Radix * RealWidth <= Two[ExpBits] /\ (RealSize + 3) * RealWidth <= Two[ExpBits]
  BY <1>1, LongExponent DEF RealSize, RealWidth
<1> QED
  BY <1>2, PowersAssumption DEF PowersAssumption

LEMMA SmallFits ==
  /\ ExpBits \in Nat
  /\ Two \in [0 .. ExpBits -> Nat]
  /\ Two[0] = 1 /\ \A k \in 1 .. ExpBits : Two[k] = 2 * Two[k - 1]
  /\ SmallWidth \in {1, 2, 4, 8} /\ SmallSize \in Nat /\ 2 \in 1 .. SmallSize - 1 /\ SmallWidth <= ExpBits
  /\ SmallFacts!Radix * SmallWidth <= Two[ExpBits] /\ (SmallSize + 3) * SmallWidth <= Two[ExpBits]
<1>1. /\ SmallWidth \in {1, 2, 4, 8} /\ SmallSize \in Nat /\ SmallSize >= 3
      /\ SmallSize * SmallWidth <= ExpBits
  BY InputsAssumption DEF InputsAssumption
<1>2. SmallFacts!Radix * SmallWidth <= 2048 /\ SmallFacts!Radix * SmallWidth \in Nat
  BY <1>1, LongExponent DEF SmallFacts!Radix
<1>3. (SmallSize + 3) * SmallWidth <= ExpBits + 24 /\ (SmallSize + 3) * SmallWidth \in Nat
  BY <1>1, LongExponent
<1>4. /\ SmallWidth \in {1, 2, 4, 8} /\ SmallSize \in Nat /\ 2 \in 1 .. SmallSize - 1 /\ SmallWidth <= ExpBits
      /\ SmallFacts!Radix * SmallWidth <= Two[ExpBits] /\ (SmallSize + 3) * SmallWidth <= Two[ExpBits]
  BY <1>1, <1>2, <1>3, LongExponent
<1> QED
  BY <1>4, PowersAssumption DEF PowersAssumption

(* The operations of MCWork are those the facts are about.                 *)
LEMMA SmallSame ==
  /\ Small!Byte = SmallFacts!Byte /\ Small!Bits = SmallFacts!Bits
  /\ Small!Number = SmallFacts!Number /\ Small!Zero = SmallFacts!Zero
  /\ Small!Weight = SmallFacts!Weight
  /\ \A s : Small!Widened(s) = SmallFacts!Widened(s) /\ Small!Value(s) = SmallFacts!Value(s)
  /\ \A a, b : Small!Add(a, b) = SmallFacts!Add(a, b) /\ Small!Compare(a, b) = SmallFacts!Compare(a, b)
<1>1. /\ Small!Byte = SmallFacts!Byte /\ Small!Bits = SmallFacts!Bits
      /\ Small!Number = SmallFacts!Number /\ Small!Zero = SmallFacts!Zero
      /\ Small!Weight = SmallFacts!Weight
  BY Zenon DEF Small!Byte, Small!Bits, Small!Number, Small!Zero, Small!Weight, Small!Radix,
     SmallFacts!Byte, SmallFacts!Bits, SmallFacts!Number, SmallFacts!Zero, SmallFacts!Weight,
     SmallFacts!Radix
<1>2. ASSUME NEW s
      PROVE  Small!Widened(s) = SmallFacts!Widened(s) /\ Small!Value(s) = SmallFacts!Value(s)
  BY Zenon DEF Small!Widened, Small!Zero, Small!Value, Small!Low, Small!Weight, Small!Radix,
     SmallFacts!Widened, SmallFacts!Zero, SmallFacts!Value, SmallFacts!Low, SmallFacts!Weight,
     SmallFacts!Radix
<1>3. ASSUME NEW a, NEW b
      PROVE  Small!Add(a, b) = SmallFacts!Add(a, b) /\ Small!Compare(a, b) = SmallFacts!Compare(a, b)
  BY Zenon DEF Small!Add, Small!Compare, Small!Radix,
     SmallFacts!Add, SmallFacts!Compare, SmallFacts!Radix
<1> QED
  BY <1>1, <1>2, <1>3

LEMMA SmallSameShift ==
  \A res, a, s : Small!Sl(res, a, s) = SmallFacts!Sl(res, a, s)
BY Zenon DEF Small!Sl, Small!Or, Small!BitAt, Small!Carry, Small!Radix,
   SmallFacts!Sl, SmallFacts!Or, SmallFacts!BitAt, SmallFacts!Carry, SmallFacts!Radix

LEMMA SmallSameProduct ==
  \A a, b : Small!Mul(a, b) = SmallFacts!Mul(a, b)
BY ZenonT(60) DEF Small!Mul, Small!SetBits, Small!Bits, Small!Zero, Small!Add,
   Small!Sl, Small!Or, Small!BitAt, Small!Carry, Small!Radix, Small!Cardinality,
   SmallFacts!Mul, SmallFacts!SetBits, SmallFacts!Bits, SmallFacts!Zero, SmallFacts!Add,
   SmallFacts!Sl, SmallFacts!Or, SmallFacts!BitAt, SmallFacts!Carry, SmallFacts!Radix,
   SmallFacts!Cardinality

LEMMA RealSame ==
  /\ Real!Number = RealFacts!Number /\ Real!Zero = RealFacts!Zero /\ Real!One = RealFacts!One
  /\ Real!Running = RealFacts!Running
  /\ \A s : Real!Widened(s) = RealFacts!Widened(s) /\ Real!Placed(s) = RealFacts!Placed(s)
  /\ \A k : Real!Bit(k) = RealFacts!Bit(k) /\ Real!ShiftOf(k) = RealFacts!ShiftOf(k)
<1>1. /\ Real!Number = RealFacts!Number /\ Real!Zero = RealFacts!Zero /\ Real!One = RealFacts!One
      /\ Real!Running = RealFacts!Running
  BY Zenon DEF Real!Number, Real!Byte, Real!Radix, Real!Zero, Real!One, Real!Widened, Real!Running,
     RealFacts!Number, RealFacts!Byte, RealFacts!Radix, RealFacts!Zero, RealFacts!One,
     RealFacts!Widened, RealFacts!Running
<1>2. ASSUME NEW s
      PROVE  Real!Widened(s) = RealFacts!Widened(s) /\ Real!Placed(s) = RealFacts!Placed(s)
  BY Zenon DEF Real!Widened, Real!Zero, Real!Placed,
     RealFacts!Widened, RealFacts!Zero, RealFacts!Placed
<1>3. ASSUME NEW k
      PROVE  Real!Bit(k) = RealFacts!Bit(k) /\ Real!ShiftOf(k) = RealFacts!ShiftOf(k)
  BY Zenon DEF Real!Bit, Real!Bits, Real!ShiftOf, RealFacts!Bit, RealFacts!Bits, RealFacts!ShiftOf
<1> QED
  BY <1>1, <1>2, <1>3

LEMMA RealSameProduct ==
  \A a, b : Real!Mul(a, b) = RealFacts!Mul(a, b)
BY ZenonT(60) DEF Real!Mul, Real!SetBits, Real!Bits, Real!Zero, Real!Add,
   Real!Sl, Real!Or, Real!BitAt, Real!Carry, Real!Radix, Real!Cardinality,
   RealFacts!Mul, RealFacts!SetBits, RealFacts!Bits, RealFacts!Zero, RealFacts!Add,
   RealFacts!Sl, RealFacts!Or, RealFacts!BitAt, RealFacts!Carry, RealFacts!Radix,
   RealFacts!Cardinality

(* The loop of uint256_exp(), for a given turn of it.                      *)
LastOf(turn, base, one, e) ==
  LET after[n \in 0 .. ExpBits] ==
        IF n = 0 THEN [acc |-> base, temp |-> one, exp |-> e] ELSE turn[after[n - 1]]
  IN  after[ExpBits]

LEMMA RealSamePower ==
  \A base, e : Real!Exp(base, e) = RealFacts!Exp(base, e)
<1> DEFINE turn == [s \in Real!Running |-> IF s.exp > 1 THEN Real!Turn(s) ELSE s]
           factTurn == [s \in RealFacts!Running |-> IF s.exp > 1 THEN RealFacts!Turn(s) ELSE s]
<1> SUFFICES ASSUME NEW base, NEW e PROVE Real!Exp(base, e) = RealFacts!Exp(base, e)
  OBVIOUS
<1>1. \A s : Real!Turn(s) = RealFacts!Turn(s)
  BY RealSameProduct DEF Real!Turn, RealFacts!Turn
<1>2. turn = factTurn
  BY <1>1, RealSame
<1>3. Real!Exp(base, e)
        = IF e = 0 THEN Real!One
          ELSE Real!Mul(LastOf(turn, base, Real!One, e).acc, LastOf(turn, base, Real!One, e).temp)
  BY Zenon DEF Real!Exp, LastOf
<1>4. RealFacts!Exp(base, e)
        = IF e = 0 THEN RealFacts!One
          ELSE RealFacts!Mul(LastOf(factTurn, base, RealFacts!One, e).acc,
                             LastOf(factTurn, base, RealFacts!One, e).temp)
  BY Zenon DEF RealFacts!Exp, LastOf
<1> HIDE DEF turn, factTurn
<1> QED
  BY <1>2, <1>3, <1>4, RealSame, RealSameProduct

LEMMA RealSameTarget ==
  \A d : Real!GetTarget(d) = RealFacts!GetTarget(d)
BY RealSame, RealSameProduct, RealSamePower DEF Real!GetTarget, RealFacts!GetTarget

LEMMA RealSameText ==
  \A v, i, garbage :
    Real!Ctob(Real!Misspelt(Real!Btoc(v), i), garbage)
      = RealFacts!Ctob(RealFacts!Misspelt(RealFacts!Btoc(v), i), garbage)
<1>1. /\ \A k : Real!GetCharacter(k) = RealFacts!GetCharacter(k)
      /\ \A c, garbage : Real!GetVal(c, garbage) = RealFacts!GetVal(c, garbage)
  BY Zenon DEF Real!GetVal, Real!GetCharacter, Real!Digits,
     RealFacts!GetVal, RealFacts!GetCharacter, RealFacts!Digits
<1>2. \A v : Real!Btoc(v) = RealFacts!Btoc(v)
  BY <1>1 DEF Real!Btoc, RealFacts!Btoc
<1>3. \A t, i : Real!Misspelt(t, i) = RealFacts!Misspelt(t, i)
  BY Zenon DEF Real!Misspelt, RealFacts!Misspelt
<1>4. \A t, garbage : Real!Ctob(t, garbage) = RealFacts!Ctob(t, garbage)
  BY <1>1, RealSame DEF Real!Ctob, RealFacts!Ctob
<1> QED
  BY <1>2, <1>3, <1>4

LEMMA SmallNumbers ==
  \A s \in Xs \cup Ys : Small!Widened(s) \in Small!Number
<1> SUFFICES ASSUME NEW s \in Xs \cup Ys PROVE SmallFacts!Widened(s) \in SmallFacts!Number
  BY SmallSame
<1>1. SmallFacts!Numeral(s)
  BY InputsAssumption, SmallSame DEF InputsAssumption, SmallFacts!Numeral
<1> QED
  BY <1>1, SmallFits, SmallFacts!WidenedIs

LEMMA RealBytes ==
  /\ RealFacts!Byte = 0 .. 255 /\ RealFacts!Tail8 = [1 .. 8 -> 0 .. 255]
  /\ \A s \in Seq(0 .. 255) : Len(s) <= 32 => Real!Widened(s) \in Real!Number
<1>1. RealFacts!Byte = 0 .. 255
  BY LongExponent DEF RealFacts!Byte, RealFacts!Radix, RealWidth
<1>2. ASSUME NEW s \in Seq(0 .. 255), Len(s) <= 32 PROVE Real!Widened(s) \in Real!Number
  <2>1. RealFacts!Numeral(s)
    BY <1>1, <1>2 DEF RealFacts!Numeral, RealSize
  <2> QED BY <2>1, RealFits, RealSame, RealFacts!WidenedIs
<1> QED
  BY <1>1, <1>2 DEF RealFacts!Tail8

LEMMA JoinedLen ==
  \A S : \A s, t \in Seq(S) : s \o t \in Seq(S) /\ Len(s \o t) = Len(s) + Len(t)
OBVIOUS

LEMMA SeqIsFcn == \A S : \A s \in Seq(S) : s \in [1 .. Len(s) -> S]
OBVIOUS

LEMMA FourBytes ==
  ASSUME NEW S, NEW b \in S, NEW t \in Seq(S), Len(t) = 3
  PROVE  <<b>> \o t \in Seq(S) /\ Len(<<b>> \o t) = 4
<1>1. <<b>> \in Seq(S) /\ Len(<<b>>) = 1
  OBVIOUS
<1>2. <<b>> \o t \in Seq(S) /\ Len(<<b>> \o t) = Len(<<b>>) + Len(t)
  BY <1>1, JoinedLen, Zenon
<1>3. 1 + 3 = 4
  OBVIOUS
<1> QED
  BY <1>1, <1>2, <1>3, Zenon

LEMMA EightBytes ==
  ASSUME NEW S, NEW b \in S, NEW u \in Seq(S), Len(u) = 4, NEW t \in Seq(S), Len(t) = 3
  PROVE  u \o t \o <<b>> \in [1 .. 8 -> S]
<1> DEFINE last == <<b>>
           s == u \o t \o last
<1>1. u \o t \in Seq(S) /\ Len(u \o t) = Len(u) + Len(t)
  BY JoinedLen, Zenon
<1>2. last \in Seq(S) /\ Len(last) = 1
  OBVIOUS
<1>3. s \in Seq(S) /\ Len(s) = Len(u \o t) + Len(last)
  <2> HIDE DEF last
  <2> QED BY <1>1, <1>2, JoinedLen, Zenon
<1>4. 4 + 3 = 7 /\ 7 + 1 = 8
  OBVIOUS
<1>5. Len(s) = 8
  BY <1>1, <1>2, <1>3, <1>4, Zenon
<1>6. s \in [1 .. 8 -> S]
  BY <1>3, <1>5, SeqIsFcn, Zenon
<1> QED
  BY <1>6, Zenon DEF s, last

(* A difficulty, and the bytes of a nonce, from the sets of inputs.        *)
LEMMA RealNumbers ==
  ASSUME NEW c \in Coefficients
  PROVE  /\ \A e \in Exponents : Real!Widened(<<e>> \o c) \in Real!Number
         /\ \A e \in {0, 90, 255}, d \in Coefficients : <<e>> \o c \o d \o <<e>> \in RealFacts!Tail8
<1> DEFINE B == 0 .. 255
<1>1. \A k \in Coefficients : k \in Seq(B) /\ Len(k) = 3
  BY InputsAssumption DEF InputsAssumption
<1>2. /\ \A e \in Exponents : e \in B
      /\ \A e \in {0, 90, 255} : e \in B
  BY InputsAssumption DEF InputsAssumption
<1>3. RealFacts!Tail8 = [1 .. 8 -> B]
  BY RealBytes
<1>4. \A s \in Seq(B) : Len(s) = 4 => Real!Widened(s) \in Real!Number
  <2>1. 4 <= 32
    OBVIOUS
  <2>2. \A s \in Seq(B) : Len(s) <= 32 => Real!Widened(s) \in Real!Number
    BY RealBytes, Zenon
  <2> QED BY <2>1, <2>2, Zenon
<1> HIDE DEF B
<1>5. \A e \in B : <<e>> \o c \in Seq(B) /\ Len(<<e>> \o c) = 4
  BY <1>1, FourBytes, Zenon
<1>6. \A e \in B, d \in Coefficients : <<e>> \o c \o d \o <<e>> \in [1 .. 8 -> B]
  BY <1>1, <1>5, EightBytes, Zenon
<1>7. \A e \in Exponents : Real!Widened(<<e>> \o c) \in Real!Number
  BY <1>2, <1>4, <1>5, Zenon
<1>8. ASSUME NEW e \in {0, 90, 255}, NEW d \in Coefficients
      PROVE  <<e>> \o c \o d \o <<e>> \in RealFacts!Tail8
  <2>1. e \in B
    BY <1>2
  <2> QED BY <1>3, <1>6, <2>1, Zenon
<1> QED
  BY <1>7, <1>8

(* What a call left behind is what its operation makes of its operands.    *)
Made ==
  /\ call \in {"none", "sl", "add", "mul", "compare"} => x \in Small!Number /\ y \in Small!Number
  /\ call = "sl" => arg \in Shifts /\ result = Small!Sl(Small!Zero, x, arg)
  /\ call = "add" => result = Small!Add(x, y)
  /\ call = "mul" => result = Small!Mul(x, y)
  /\ call = "compare" => arg = Small!Compare(x, y)

MadeOfPowers ==
  call = "exp" => arg \in Powers /\ result = Real!Exp(Real!Widened(<<2>>), arg)

MadeOfDifficulty ==
  call = "getTarget" => x \in Real!Number /\ result = Real!GetTarget(x)

MadeOfText ==
  call = "convert" =>
    /\ arg \in {0, 1, 8, 16}
    /\ \E v \in RealFacts!Tail8, garbage \in {0, 255} :
         /\ x = Real!Widened(v)
         /\ result = Real!Ctob(Real!Misspelt(Real!Btoc(v), arg), garbage)

CallInv == Made /\ MadeOfPowers /\ MadeOfDifficulty /\ MadeOfText

LEMMA InitCall == MCInit => CallInv
BY SmallNumbers DEF MCInit, CallInv, Made, MadeOfPowers, MadeOfDifficulty, MadeOfText

LEMMA CallStep == CallInv /\ [MCNext]_<<vars, callVars>> => CallInv'
<1> SUFFICES ASSUME CallInv, [MCNext]_<<vars, callVars>> PROVE CallInv'
  OBVIOUS
<1> USE DEF Made, MadeOfPowers, MadeOfDifficulty, MadeOfText
<1>1. CASE UNCHANGED callVars
  BY <1>1 DEF CallInv, callVars
<1>2. CASE CallSl
  BY <1>2 DEF CallInv, CallSl
<1>3. CASE CallAdd
  BY <1>3 DEF CallInv, CallAdd
<1>4. CASE CallMul
  BY <1>4 DEF CallInv, CallMul
<1>5. CASE CallCompare
  BY <1>5 DEF CallInv, CallCompare
<1>6. CASE CallExp
  BY <1>6 DEF CallInv, CallExp
<1>7. CASE CallGetTarget
  BY <1>7, RealNumbers DEF CallInv, CallGetTarget
<1>8. CASE CallConvert
  <2>1. PICK e \in {0, 90, 255}, c \in Coefficients, d \in Coefficients, garbage \in {0, 255} :
          /\ x' = Real!Widened(<<e>> \o c \o d \o <<e>>)
          /\ result' = Real!Ctob(Real!Misspelt(Real!Btoc(Real!HashedNonce(x')), arg'), garbage)
    BY <1>8 DEF CallConvert
  <2> DEFINE v == <<e>> \o c \o d \o <<e>>
  <2>2. v \in RealFacts!Tail8
    BY RealNumbers
  <2> HIDE DEF v
  <2>3. RealFacts!HashedNonce(RealFacts!Widened(v)) = v
    BY <2>2, RealFits, RealFacts!HashedOfWidened
  <2>4. Real!HashedNonce(Real!Widened(v)) = v
    <3>1. \A n : Real!HashedNonce(n) = RealFacts!HashedNonce(n)
      BY Zenon DEF Real!HashedNonce, RealFacts!HashedNonce
    <3> QED BY <2>3, <3>1, RealSame
  <2>5. /\ call' = "convert" /\ arg' \in {0, 1, 8, 16}
        /\ x' = Real!Widened(v)
        /\ result' = Real!Ctob(Real!Misspelt(Real!Btoc(v), arg'), garbage)
    BY <1>8, <2>1, <2>4 DEF CallConvert, v
  <2> QED BY <2>2, <2>5 DEF CallInv
<1> QED
  BY <1>1, <1>2, <1>3, <1>4, <1>5, <1>6, <1>7, <1>8 DEF MCNext, WorkStep, CallNext

LEMMA RealText ==
  ASSUME NEW v \in RealFacts!Tail8, NEW garbage, NEW j \in 0 .. 2 * 8
  PROVE  \A k \in 1 .. RealSize :
           j = 0 \/ k # RealSize - 8 + (j + 1) \div 2
             => Real!Ctob(Real!Misspelt(Real!Btoc(v), j), garbage)[k] = Real!Widened(v)[k]
<1>1. \A k \in 1 .. RealSize :
        j = 0 \/ k # RealSize - 8 + (j + 1) \div 2
          => RealFacts!Ctob(RealFacts!Misspelt(RealFacts!Btoc(v), j), garbage)[k]
               = RealFacts!Widened(v)[k]
  BY RealFits, RealFacts!TextIsNumber, Zenon
<1>2. Real!Ctob(Real!Misspelt(Real!Btoc(v), j), garbage)
        = RealFacts!Ctob(RealFacts!Misspelt(RealFacts!Btoc(v), j), garbage)
  BY RealSameText, Zenon
<1>3. Real!Widened(v) = RealFacts!Widened(v)
  BY RealSame, Zenon
<1> QED
  BY <1>1, <1>2, <1>3, Zenon

LEMMA CallInvHolds == MCSpec => []CallInv
BY InitCall, CallStep, PTL DEF MCSpec

(* uint256_exp() of two is one bit in its place, or zero, for every        *)
(* exponent of 32 bits: the products it takes are of powers of two, and of *)
(* those only the ones by whole bytes and half bytes meet a carry.         *)
THEOREM PowersOfTwoHolds == MCSpec => []PowersOfTwo
<1>1. CallInv => PowersOfTwo
  <2> SUFFICES ASSUME CallInv, call = "exp" PROVE result = Real!Bit(arg)
    BY DEF PowersOfTwo
  <2>1. arg \in Nat /\ arg < Two[ExpBits] /\ result = Real!Exp(Real!Widened(<<2>>), arg)
    BY InputsAssumption DEF InputsAssumption, CallInv, MadeOfPowers
  <2>2. RealFacts!Exp(RealFacts!Widened(<<2>>), arg) = RealFacts!Bit(arg)
    BY <2>1, RealFits, RealFacts!ExpIsPower, 8 > 1 DEF RealWidth
  <2> QED BY <2>1, <2>2, RealSame, RealSamePower
<1> QED
  BY <1>1, CallInvHolds, PTL

(* getTarget() puts the coefficient of every difficulty where its exponent *)
(* says.                                                                   *)
THEOREM TargetPlacedHolds == MCSpec => []TargetPlaced
<1>1. CallInv => TargetPlaced
  <2> SUFFICES ASSUME CallInv, call = "getTarget" PROVE result = Real!Placed(x)
    BY DEF TargetPlaced
  <2>1. x \in RealFacts!Number /\ result = Real!GetTarget(x)
    BY RealSame DEF CallInv, MadeOfDifficulty
  <2>2. RealFacts!GetTarget(x) = RealFacts!Placed(x)
    BY <2>1, RealFits, RealFacts!TargetIsPlaced, 8 > 1, 32 >= 4 DEF RealWidth, RealSize
  <2> QED BY <2>1, <2>2, RealSame, RealSameTarget
<1> QED
  BY <1>1, CallInvHolds, PTL

(* Sum, comparison, shift, product and text are exact where the server     *)
(* uses them.                                                              *)
THEOREM ExactWhereUsedHolds == MCSpec => []ExactWhereUsed
<1>1. ASSUME CallInv, call = "add"
      PROVE  Small!Value(result) = (Small!Value(x) + Small!Value(y)) % Modulus
  <2>1. x \in SmallFacts!Number /\ y \in SmallFacts!Number /\ result = SmallFacts!Add(x, y)
    BY <1>1, SmallSame DEF CallInv, Made
  <2>2. SmallFacts!Value(result)
          = (SmallFacts!Value(x) + SmallFacts!Value(y)) % SmallFacts!Weight[SmallSize]
    BY <2>1, SmallFits, SmallFacts!AddIsSum
  <2> QED BY <2>2, SmallSame DEF Modulus
<1>2. ASSUME CallInv, call = "compare"
      PROVE  /\ arg = 1 <=> Small!Value(x) > Small!Value(y)
             /\ arg = -1 <=> Small!Value(x) < Small!Value(y)
  <2>1. x \in SmallFacts!Number /\ y \in SmallFacts!Number /\ arg = SmallFacts!Compare(x, y)
    BY <1>2, SmallSame DEF CallInv, Made
  <2>2. /\ arg = 1 <=> SmallFacts!Value(x) > SmallFacts!Value(y)
        /\ arg = -1 <=> SmallFacts!Value(x) < SmallFacts!Value(y)
    BY <2>1, SmallFits, SmallFacts!CompareIsOrder
  <2> QED BY <2>2, SmallSame
<1>3. ASSUME CallInv, call = "sl", arg % SmallWidth \in {0, SmallWidth \div 2}
      PROVE  Small!Value(result) = (Small!Value(x) * Two[arg]) % Modulus
  <2>1. /\ x \in SmallFacts!Number /\ arg \in Shifts
        /\ result = SmallFacts!Sl(SmallFacts!Zero, x, arg)
    BY <1>3, SmallSame, SmallSameShift DEF CallInv, Made
  <2>2. arg \in Nat /\ arg < SmallFacts!Bits
    BY <2>1, SmallSame, InputsAssumption DEF InputsAssumption
  <2>3. SmallFacts!CarryRight(arg % SmallWidth)
    <3> DEFINE move == arg % SmallWidth
    <3>1. move \in {0, SmallWidth \div 2} /\ SmallWidth \in {1, 2, 4, 8}
      BY <1>3, SmallFits
    <3> HIDE DEF move
    <3>2. move \in Nat /\ (move = 0 \/ move + move = SmallWidth)
      BY <3>1
    <3> QED BY <3>2 DEF SmallFacts!CarryRight, move
  <2>4. SmallFacts!Bits <= ExpBits
    BY InputsAssumption DEF InputsAssumption, SmallFacts!Bits
  <2>5. SmallFacts!Value(SmallFacts!Sl(SmallFacts!Zero, x, arg))
          = (SmallFacts!Value(x) * Two[arg]) % SmallFacts!Weight[SmallSize]
    BY <2>1, <2>2, <2>3, <2>4, SmallFits, SmallFacts!ShiftIsTimesTwo
  <2> QED BY <2>1, <2>5, SmallSame DEF Modulus
<1>4. ASSUME CallInv, call = "mul", NEW k \in 0 .. SmallSize - 1, Small!Value(y) = Small!Weight[k]
      PROVE  Small!Value(result) = (Small!Value(x) * Small!Value(y)) % Modulus
  <2>1. x \in SmallFacts!Number /\ y \in SmallFacts!Number /\ result = SmallFacts!Mul(x, y)
    BY <1>4, SmallSame, SmallSameProduct DEF CallInv, Made
  <2>2. k \in Nat /\ k < SmallSize /\ SmallFacts!Value(y) = SmallFacts!Weight[k]
    BY <1>4, SmallFits, SmallSame
  <2>3. SmallFacts!Value(SmallFacts!Mul(x, y))
          = (SmallFacts!Value(x) * SmallFacts!Value(y)) % SmallFacts!Weight[SmallSize]
    BY <2>1, <2>2, SmallFits, SmallFacts!MulByPower
  <2> QED BY <2>1, <2>3, SmallSame DEF Modulus
<1>5. ASSUME CallInv, call = "convert", NEW i \in 1 .. RealSize,
             arg = 0 \/ i # 24 + (arg + 1) \div 2
      PROVE  result[i] = x[i]
  <2>1. PICK v \in RealFacts!Tail8, garbage \in {0, 255} :
          /\ x = Real!Widened(v)
          /\ result = Real!Ctob(Real!Misspelt(Real!Btoc(v), arg), garbage)
    BY <1>5 DEF CallInv, MadeOfText
  <2>2. arg \in 0 .. 2 * 8
    BY <1>5 DEF CallInv, MadeOfText
  <2>3. i \in 1 .. RealSize /\ (arg = 0 \/ i # RealSize - 8 + (arg + 1) \div 2)
    BY <1>5 DEF RealSize
  <2>4. Real!Ctob(Real!Misspelt(Real!Btoc(v), arg), garbage)[i] = Real!Widened(v)[i]
    BY <2>2, <2>3, RealText
  <2> QED BY <2>1, <2>4, Zenon
<1>6. CallInv => ExactWhereUsed
  BY <1>1, <1>2, <1>3, <1>4, <1>5 DEF ExactWhereUsed
<1> QED
  BY <1>6, CallInvHolds, PTL

=============================================================================
