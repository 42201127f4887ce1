------------------------------- MODULE MCWork -------------------------------
(***************************************************************************)
(* The computation of work().  Either WorkSearch runs (call is "work"), or *)
(* one operation of Uint256 is called on inputs from small sets and its    *)
(* result compared with the arithmetic the operation is named for.  Shift, *)
(* sum, product and comparison are called on numbers of SmallSize bytes of *)
(* SmallWidth bits, short enough for TLC's integers; the powers of two,    *)
(* the targets and the conversions on numbers of the code's size.          *)
(***************************************************************************)
EXTENDS WorkSearch

CONSTANTS
  SmallSize, SmallWidth,
  Xs, Ys,      (* low bytes of the small operands: tuples of bytes         *)
  Shifts,      (* shift counts                                             *)
  Powers,      (* exponents of two                                         *)
  Exponents,   (* the difficulty byte that holds the exponent              *)
  Coefficients (* the three bytes after it                                 *)

VARIABLES call, x, y, arg, result

callVars == <<call, x, y, arg, result>>

Small == INSTANCE Uint256 WITH Size <- SmallSize, Width <- SmallWidth, Hashed <- 2

RealSize == 32

RealWidth == 8

Real == INSTANCE Uint256 WITH Size <- RealSize, Width <- RealWidth, Hashed <- 8

(* Numbers of both sizes fit the exponent, and the inputs are numbers of   *)
(* their size.                                                             *)
ASSUME InputsAssumption ==
  /\ ExpBits >= 11
  /\ SmallWidth \in {1, 2, 4, 8} /\ SmallSize \in Nat /\ SmallSize >= 3
  /\ SmallSize * SmallWidth <= ExpBits
  /\ \A s \in Xs \cup Ys : s \in Seq(Small!Byte) /\ Len(s) <= SmallSize
  /\ \A k \in Shifts : k \in Nat /\ k < Small!Bits
  /\ \A k \in Powers : k \in Nat /\ k < Two[ExpBits]
  /\ \A e \in Exponents : e \in 0 .. 255
  /\ \A c \in Coefficients : c \in Seq(0 .. 255) /\ Len(c) = 3

MCInit ==
  /\ arg = 0 /\ result = <<>>
  /\ \/ Init /\ call = "work" /\ x = <<>> /\ y = <<>>
     \/ /\ valid = {} /\ start = Zero /\ nonce = Zero
        /\ found = FALSE /\ solution = <<>>
        /\ call = "none"
        /\ x \in {Small!Widened(s) : s \in Xs}
        /\ y \in {Small!Widened(s) : s \in Ys}

WorkStep == call = "work" /\ Next /\ UNCHANGED callVars

(* The calls that choose their own operands.                               *)
Fresh == call = "none" /\ x = Small!Zero /\ y = Small!Zero

CallSl ==
  /\ call = "none" /\ y = Small!Zero
  /\ arg' \in Shifts
  /\ result' = Small!Sl(Small!Zero, x, arg')
  /\ call' = "sl"
  /\ UNCHANGED <<x, y>>

CallAdd ==
  /\ call = "none"
  /\ result' = Small!Add(x, y)
  /\ call' = "add"
  /\ UNCHANGED <<x, y, arg>>

CallMul ==
  /\ call = "none"
  /\ result' = Small!Mul(x, y)
  /\ call' = "mul"
  /\ UNCHANGED <<x, y, arg>>

CallCompare ==
  /\ call = "none"
  /\ call' = "compare"
  /\ arg' = Small!Compare(x, y)
  /\ UNCHANGED <<x, y, result>>

CallExp ==
  /\ Fresh
  /\ arg' \in Powers
  /\ result' = Real!Exp(Real!Widened(<<2>>), arg')
  /\ call' = "exp"
  /\ UNCHANGED <<x, y>>

CallGetTarget ==
  /\ Fresh
  /\ \E e \in Exponents, c \in Coefficients :
       /\ x' = Real!Widened(<<e>> \o c)
       /\ result' = Real!GetTarget(x')
  /\ call' = "getTarget"
  /\ UNCHANGED <<y, arg>>

(* The eight bytes of a nonce, written as work() does and read back as the *)
(* SOLN branch does, one character having turned into no digit (arg # 0).  *)
CallConvert ==
  /\ Fresh
  /\ arg' \in {0, 1, 8, 16}
  /\ \E e \in {0, 90, 255}, c, d \in Coefficients, garbage \in {0, 255} :
       /\ x' = Real!Widened(<<e>> \o c \o d \o <<e>>)
       /\ LET text == Real!Btoc(Real!HashedNonce(x'))
          IN  result' = Real!Ctob(Real!Misspelt(text, arg'), garbage)
  /\ call' = "convert"
  /\ UNCHANGED y

CallNext ==
  \/ CallSl \/ CallAdd \/ CallMul \/ CallCompare
  \/ CallExp \/ CallGetTarget \/ CallConvert

MCNext == WorkStep \/ (CallNext /\ UNCHANGED vars)

MCSpec == MCInit /\ [][MCNext]_<<vars, callVars>> /\ WF_vars(WorkStep)

-----------------------------------------------------------------------------
Modulus == Small!Weight[SmallSize]

(* The functions of uint256.h and sha256_compare() are integer arithmetic  *)
(* modulo 2^256 and its order where the server uses them: sum and          *)
(* comparison everywhere; uint256_sl() where its carry mask and its carry  *)
(* shift agree, by whole bytes or whole bytes and half a byte;             *)
(* uint256_mul() by a power of the byte's base, as in getTarget().  The    *)
(* text of a number is that number's, but for a byte one of whose digits   *)
(* is none.                                                                *)
ExactWhereUsed ==
  /\ call = "add" => Small!Value(result) = (Small!Value(x) + Small!Value(y)) % Modulus
  /\ call = "compare" =>
       /\ arg = 1 <=> Small!Value(x) > Small!Value(y)
       /\ arg = -1 <=> Small!Value(x) < Small!Value(y)
  /\ call = "sl" /\ arg % SmallWidth \in {0, SmallWidth \div 2}
       => Small!Value(result) = (Small!Value(x) * Two[arg]) % Modulus
  /\ call = "mul" /\ (\E k \in 0 .. SmallSize - 1 : Small!Value(y) = Small!Weight[k])
       => Small!Value(result) = (Small!Value(x) * Small!Value(y)) % Modulus
  /\ call = "convert" =>
       \A i \in 1 .. RealSize : arg = 0 \/ i # 24 + (arg + 1) \div 2 => result[i] = x[i]

(* uint256_exp() of two is one bit, at the place the exponent says, and    *)
(* zero beyond 256: no square it takes meets the faulty carry.             *)
PowersOfTwo == call = "exp" => result = Real!Bit(arg)

(* getTarget() puts the three bytes of the coefficient exponent - 3 bytes  *)
(* from the right, cut off on the left; an exponent below 3, or one that   *)
(* moves them out of the number, makes the target 0, which no hash is      *)
(* below.                                                                  *)
TargetPlaced == call = "getTarget" => result = Real!Placed(x)

(* The test of uint256_sl() calls it a shift left.                         *)
ShiftsLeft == call = "sl" => Small!Value(result) = (Small!Value(x) * Two[arg]) % Modulus

-----------------------------------------------------------------------------
(* Values for the runs.                                                    *)

PowersOf2 == [k \in 0 .. 30 |-> 2 ^ k]

(* Numbers of four bytes, the upper two empty or full, and those with only *)
(* edge values in them.                                                    *)
Uppers == {<<a, b, c, d>> : a, b \in {0, Small!Radix - 1}, c, d \in Small!Byte}

Edges == {<<a, b, c, d>> : a, b, c, d \in {0, 1, Small!Radix - 1}}

EveryShift == 0 .. Small!Bits - 1

PastTheEnd == 0 .. Real!Bits + RealWidth

EveryExponent == 0 .. Real!Radix - 1

EdgeCoefficients ==
  {<<a, b, c>> : a, b \in {0, Real!Radix - 1}, c \in {1, Real!Radix - 1}}
    \cup {<<Real!Radix \div 2, 3, Real!Radix \div 2 + 1>>}

(* Every number of one byte, where only the shift is called.               *)
EveryByte == {<<b>> : b \in Small!Byte}

OneNumber == {<<>>}

NoCall == {}

=============================================================================
