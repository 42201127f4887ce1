---------------------------- MODULE Sha256_proofs ----------------------------
(***************************************************************************)
(* sha256_update() loses nothing, for blocks and messages of any length.   *)
(***************************************************************************)
EXTENDS Sha256, SequenceTheorems, WellFoundedInduction, TLAPS

(* Until sha256_final() all bytes about are bytes of the message, or what  *)
(* the block held before it.                                               *)
Filling ==
  /\ final => input = <<>>
  /\ ~final =>
       /\ data \in Seq(Data) /\ Len(data) = Block
       /\ datalen \in 0 .. Block - 1
       /\ hashed \in Seq(Data) /\ input \in Seq(Data) /\ message \in Seq(Data)

FillingInv == Filling /\ NothingLost

-----------------------------------------------------------------------------
(* Arithmetic.                                                             *)

(* Induction over the numbers is done with least elements.                 *)
LEMMA Least ==
  ASSUME NEW T \in SUBSET Nat, T # {}
  PROVE  \E x \in T : \A y \in T : x <= y
<1> DEFINE R == OpToRel(<, Nat)
<1>1. IsWellFoundedOn(R, Nat)
  BY NatLessThanWellFounded
<1>2. \A x, y \in Nat : x < y => <<x, y>> \in R
  BY DEF OpToRel
<1> HIDE DEF R
<1>3. PICK x \in T : \A y \in T : ~(<<y, x>> \in R)
  BY <1>1, WFMin
<1>4. \A y \in T : x <= y
  <2> SUFFICES ASSUME NEW y \in T PROVE x <= y
    OBVIOUS
  <2>1. x \in Nat /\ y \in Nat /\ ~(y < x)
    BY <1>2, <1>3
  <2> QED BY <2>1
<1> QED
  BY <1>4

(* Division with quotient and remainder.                                   *)
LEMMA Divides ==
  ASSUME NEW a \in Nat, NEW b \in Nat \ {0}
  PROVE  /\ a \div b \in Nat /\ a % b \in 0 .. b - 1
         /\ a = (a \div b) * b + (a % b)
OBVIOUS

LEMMA QuotientUnique ==
  ASSUME NEW b \in Nat \ {0}, NEW q \in Nat, NEW r \in 0 .. b - 1
  PROVE  (q * b + r) \div b = q /\ (q * b + r) % b = r
<1>1. q * b + r \in Nat
  OBVIOUS
<1> DEFINE p == (q * b + r) \div b
           t == (q * b + r) % b
<1>2. /\ p \in Nat /\ t \in 0 .. b - 1
      /\ q * b + r = p * b + t
  BY <1>1, Divides
<1> HIDE DEF p, t
<1>3. ~(q > p)
  <2> SUFFICES ASSUME q > p PROVE FALSE
    OBVIOUS
  <2>1. PICK d \in Nat \ {0} : q = p + d
    BY <1>2, q - p \in Nat \ {0}, q = p + (q - p)
  <2>2. t = d * b + r /\ d * b >= b /\ d * b \in Nat
    BY <1>2, <2>1
  <2> QED BY <1>2, <2>2
<1>4. ~(p > q)
  <2> SUFFICES ASSUME p > q PROVE FALSE
    OBVIOUS
  <2>1. PICK d \in Nat \ {0} : p = q + d
    BY <1>2, p - q \in Nat \ {0}, p = q + (p - q)
  <2>2. r = d * b + t /\ d * b >= b /\ d * b \in Nat
    BY <1>2, <2>1
  <2> QED BY <1>2, <2>2
<1>6. q = p
  BY <1>2, <1>3, <1>4
<1>7. t = r
  BY <1>2, <1>6
<1> QED
  BY <1>6, <1>7 DEF p, t

Division(a, b, d, e) == d \in Nat /\ e \in 0 .. b - 1 /\ a = d * b + e

LEMMA Quotients == \A a \in Nat : \A b \in Nat \ {0} : Division(a, b, a \div b, a % b)
BY Divides DEF Division

LEMMA OnlyQuotient ==
  \A a \in Nat : \A b \in Nat \ {0} : \A d, e :
    Division(a, b, d, e) => a \div b = d /\ a % b = e
<1> SUFFICES ASSUME NEW a \in Nat, NEW b \in Nat \ {0}, NEW d, NEW e, Division(a, b, d, e)
             PROVE  a \div b = d /\ a % b = e
  OBVIOUS
<1>1. d \in Nat /\ e \in 0 .. b - 1 /\ a = d * b + e
  BY DEF Division
<1> QED
  BY <1>1, QuotientUnique

(* A sum may be reduced on the way.                                        *)
LEMMA ModSum ==
  ASSUME NEW a \in Nat, NEW c \in Nat, NEW m \in Nat \ {0}
  PROVE  ((a % m) + c) % m = (a + c) % m
<1> DEFINE q == a \div m
           r == a % m
<1>1. q \in Nat /\ r \in Nat /\ a = q * m + r
  BY Divides
<1> HIDE DEF q, r
<1> DEFINE p == (r + c) \div m
           t == (r + c) % m
<1>2. p \in Nat /\ t \in 0 .. m - 1 /\ r + c = p * m + t
  BY <1>1, r + c \in Nat, Divides
<1> HIDE DEF p, t
<1>3. a + c = (q + p) * m + t
  BY <1>1, <1>2
<1>4. (a + c) % m = t
  <2>1. q + p \in Nat
    BY <1>1, <1>2
  <2>2. ((q + p) * m + t) % m = t
    BY <1>2, <2>1, QuotientUnique
  <2> QED BY <1>3, <2>2
<1> QED
  BY <1>4 DEF t, r

(* The digit of weight w of a number survives its reduction by a multiple  *)
(* of the weight of the next digit.                                        *)
NextDivides(m, w, b) == \E u \in Nat \ {0} : m = (b * u) * w

SameDigit(x, m, w, b) == ((x % m) \div w) % b = (x \div w) % b

LEMMA DigitOfMod ==
  \A x \in Nat : \A m, w, b \in Nat \ {0} : NextDivides(m, w, b) => SameDigit(x, m, w, b)
<1> SUFFICES ASSUME NEW x \in Nat, NEW m \in Nat \ {0}, NEW w \in Nat \ {0}, NEW b \in Nat \ {0},
                    NextDivides(m, w, b)
             PROVE  ((x % m) \div w) % b = (x \div w) % b
  BY DEF SameDigit
<1>1. PICK u \in Nat \ {0} : m = (b * u) * w
  BY DEF NextDivides
<1> DEFINE q == x \div m
           r == x % m
<1>0. Division(x, m, q, r)
  BY Quotients
<1> HIDE DEF q, r
<1>2. q \in Nat /\ r \in Nat /\ x = q * m + r
  BY <1>0 DEF Division
<1> DEFINE p == r \div w
           t == r % w
<1>3. p \in Nat /\ t \in 0 .. w - 1 /\ r = p * w + t
  BY <1>2, Divides
<1> HIDE DEF p, t
<1>4. x = (q * (b * u) + p) * w + t
  <2>1. q * m = (q * (b * u)) * w
    BY <1>1, <1>2
  <2> QED BY <1>2, <1>3, <2>1
<1>5. q * (b * u) + p \in Nat
  BY <1>2, <1>3
<1>6. x \div w = q * (b * u) + p
  BY <1>3, <1>4, <1>5, QuotientUnique
<1>7. (q * (b * u) + p) % b = p % b
  <2> DEFINE e == p \div b
             f == p % b
  <2>1. e \in Nat /\ f \in 0 .. b - 1 /\ p = e * b + f
    BY <1>3, Divides
  <2> HIDE DEF e, f
  <2>2. q * (b * u) + p = (q * u + e) * b + f /\ q * u + e \in Nat
    BY <1>2, <2>1
  <2>3. (q * (b * u) + p) % b = f
    <3> DEFINE y == q * (b * u) + p
    <3>1. y \in Nat /\ Division(y, b, q * u + e, f)
      BY <1>5, <2>1, <2>2 DEF Division
    <3> HIDE DEF y
    <3>2. y % b = f
      BY <3>1, OnlyQuotient
    <3> QED BY <3>2 DEF y
  <2> QED BY <2>3 DEF f
<1> QED
  BY <1>6, <1>7 DEF p, r

-----------------------------------------------------------------------------
(* The powers.                                                             *)

PowersUpTo(b, e, g) ==
  g = [i \in 0 .. e |-> IF i = 0 THEN 1 ELSE b * g[i - 1]]

(* The recursion has a solution on any stretch of exponents.               *)
LEMMA PowersExist ==
  ASSUME NEW b \in Nat \ {0}, NEW e \in Nat
  PROVE  \E g \in [0 .. e -> Nat \ {0}] : PowersUpTo(b, e, g)
<1> DEFINE Without == {n \in Nat : ~\E g \in [0 .. n -> Nat \ {0}] : PowersUpTo(b, n, g)}
<1> SUFFICES ASSUME Without # {} PROVE FALSE
  OBVIOUS
<1>1. PICK n \in Without : \A k \in Without : n <= k
  BY Least, Without \in SUBSET Nat
<1>2. n # 0
  <2>1. [i \in 0 .. 0 |-> 1] \in [0 .. 0 -> Nat \ {0}]
    OBVIOUS
  <2>2. PowersUpTo(b, 0, [i \in 0 .. 0 |-> 1])
    BY DEF PowersUpTo
  <2> QED BY <2>1, <2>2
<1>3. n - 1 \in Nat /\ n - 1 \notin Without
  <2>1. n \in Nat /\ n - 1 \in Nat /\ ~(n <= n - 1)
    BY <1>2
  <2> HIDE DEF Without
  <2> QED BY <1>1, <2>1
<1>4. PICK g \in [0 .. n - 1 -> Nat \ {0}] : PowersUpTo(b, n - 1, g)
  BY <1>3
<1> DEFINE h == [i \in 0 .. n |-> IF i = n THEN b * g[n - 1] ELSE g[i]]
<1>5. h \in [0 .. n -> Nat \ {0}]
  <2>1. g[n - 1] \in Nat \ {0} /\ b * g[n - 1] \in Nat \ {0}
    BY <1>3, <1>4
  <2>2. \A i \in 0 .. n : i # n => g[i] \in Nat \ {0}
    BY <1>3, <1>4
  <2> QED BY <2>1, <2>2
<1>6. \A i \in 0 .. n : h[i] = IF i = 0 THEN 1 ELSE b * h[i - 1]
  <2> SUFFICES ASSUME NEW i \in 0 .. n PROVE h[i] = IF i = 0 THEN 1 ELSE b * h[i - 1]
    OBVIOUS
  <2>1. CASE i = n
    BY <1>2, <1>3, <2>1
  <2>2. CASE i # n
    <3>1. i \in 0 .. n - 1 /\ h[i] = g[i]
      BY <1>1, <2>2
    <3>2. i # 0 => i - 1 \in 0 .. n - 1 /\ h[i - 1] = g[i - 1]
      BY <1>1, <2>2
    <3>3. g[i] = IF i = 0 THEN 1 ELSE b * g[i - 1]
      BY <1>4, <3>1 DEF PowersUpTo
    <3> QED BY <3>1, <3>2, <3>3
  <2> QED BY <2>1, <2>2
<1>7. PowersUpTo(b, n, h)
  BY <1>6 DEF PowersUpTo
<1> QED
  BY <1>1, <1>5, <1>7

LEMMA PowersAre ==
  ASSUME NEW b \in Nat \ {0}, NEW e \in Nat
  PROVE  /\ Powers(b, e) \in [0 .. e -> Nat \ {0}]
         /\ Powers(b, e)[0] = 1
         /\ \A i \in 1 .. e : Powers(b, e)[i] = b * Powers(b, e)[i - 1]
<1> DEFINE power == CHOOSE g : PowersUpTo(b, e, g)
<1>1. Powers(b, e) = power
  BY DEF Powers, PowersUpTo
<1>2. PowersUpTo(b, e, power)
  BY PowersExist
<1> HIDE DEF power
<1>3. power = [i \in 0 .. e |-> IF i = 0 THEN 1 ELSE b * power[i - 1]]
  BY <1>2 DEF PowersUpTo
<1>4. power[0] = 1 /\ \A i \in 1 .. e : power[i] = b * power[i - 1]
  BY <1>3
<1> DEFINE Odd == {n \in Nat : n \in 0 .. e /\ power[n] \notin Nat \ {0}}
<1>5. Odd = {}
  <2> SUFFICES ASSUME Odd # {} PROVE FALSE
    OBVIOUS
  <2>1. PICK n \in Odd : \A k \in Odd : n <= k
    BY Least, Odd \in SUBSET Nat
  <2>2. n # 0
    BY <1>4
  <2>3. n - 1 \in 0 .. e /\ n - 1 \in Nat /\ n - 1 \notin Odd /\ n \in 1 .. e
    BY <2>1, <2>2
  <2>4. power[n] = b * power[n - 1] /\ power[n - 1] \in Nat \ {0}
    BY <1>4, <2>3
  <2> QED BY <2>1, <2>4
<1>6. power \in [0 .. e -> Nat \ {0}]
  <2>1. \A n \in 0 .. e : power[n] \in Nat \ {0}
    BY <1>5
  <2>2. power = [i \in 0 .. e |-> power[i]]
    BY <1>3
  <2> QED BY <2>1, <2>2
<1> QED
  BY <1>1, <1>4, <1>6

LEMMA BaseIs == Base \in Nat \ {0}
BY PowersAre, Sha256Assumption DEF Base, Sha256Assumption

LEMMA WeightIs ==
  /\ Weight \in [0 .. LenBytes -> Nat \ {0}]
  /\ LenModulus \in Nat \ {0}
  /\ \A i \in 1 .. LenBytes : Weight[i] = Base * Weight[i - 1]
<1>0. LenBytes \in Nat /\ LenBytes \in 0 .. LenBytes
  BY Sha256Assumption DEF Sha256Assumption
<1>1. /\ Weight \in [0 .. LenBytes -> Nat \ {0}]
      /\ \A i \in 1 .. LenBytes : Weight[i] = Base * Weight[i - 1]
  BY <1>0, PowersAre, BaseIs DEF Weight
<1> QED
  BY <1>0, <1>1 DEF LenModulus

(* The length field is worth the product of its upper and lower part.      *)
LEMMA WeightsMultiply ==
  ASSUME NEW i \in 0 .. LenBytes
  PROVE  LenModulus = Weight[LenBytes - i] * Weight[i]
<1> DEFINE Off == {k \in Nat : k \in 0 .. LenBytes /\ LenModulus # Weight[LenBytes - k] * Weight[k]}
<1> SUFFICES ASSUME Off # {} PROVE FALSE
  BY Off = {}, i \in Nat
<1>0. LenBytes \in Nat /\ Base \in Nat \ {0}
  BY BaseIs, Sha256Assumption DEF Sha256Assumption
<1>1. PICK k \in Off : \A j \in Off : k <= j
  BY Least, Off \in SUBSET Nat
<1>2. k # 0
  <2>1. Weight[0] = 1
    BY <1>0, PowersAre DEF Weight
  <2>2. Weight[LenBytes] \in Nat
    BY <1>0, WeightIs
  <2> QED BY <1>0, <2>1, <2>2 DEF LenModulus
<1>3. k - 1 \in 0 .. LenBytes /\ k - 1 \notin Off /\ k \in 1 .. LenBytes
  BY <1>0, <1>1, <1>2
<1>4. LenModulus = Weight[LenBytes - (k - 1)] * Weight[k - 1]
  BY <1>3
<1>5. /\ Weight[k] = Base * Weight[k - 1]
      /\ Weight[LenBytes - k + 1] = Base * Weight[LenBytes - k]
  BY <1>0, <1>3, WeightIs, LenBytes - k + 1 \in 1 .. LenBytes, (LenBytes - k + 1) - 1 = LenBytes - k
<1>6. /\ LenBytes - (k - 1) = LenBytes - k + 1
      /\ Weight[k - 1] \in Nat /\ Weight[LenBytes - k] \in Nat
  BY <1>0, <1>3, WeightIs
<1>7. LenModulus = Weight[LenBytes - k] * Weight[k]
  BY <1>0, <1>4, <1>5, <1>6
<1> QED
  BY <1>1, <1>7

(* The length field holds the number of bits as far as it goes: reducing   *)
(* the number beforehand changes nothing.                                  *)
LEMMA LenFieldOfMod ==
  ASSUME NEW x \in Nat
  PROVE  LenField(x % LenModulus) = LenField(x)
<1>0. LenBytes \in Nat /\ Base \in Nat \ {0}
  BY BaseIs, Sha256Assumption DEF Sha256Assumption
<1>1. ASSUME NEW i \in 1 .. LenBytes
      PROVE  ((x % LenModulus) \div Weight[LenBytes - i]) % Base
               = (x \div Weight[LenBytes - i]) % Base
  <2> DEFINE w == Weight[LenBytes - i]
             u == Weight[i - 1]
  <2>1. w \in Nat \ {0} /\ u \in Nat \ {0}
    BY <1>0, WeightIs
  <2>2. LenModulus = w * (Base * u)
    BY <1>0, WeightIs, WeightsMultiply
  <2> HIDE DEF w, u
  <2>3. LenModulus = (Base * u) * w
    BY <1>0, <2>1, <2>2
  <2>4. LenModulus \in Nat \ {0} /\ NextDivides(LenModulus, w, Base)
    BY <1>0, <2>1, <2>3 DEF NextDivides
  <2>5. SameDigit(x, LenModulus, w, Base)
    BY <1>0, <2>1, <2>4, DigitOfMod
  <2> QED BY <2>5 DEF w, SameDigit
<1> QED
  BY <1>1 DEF LenField

-----------------------------------------------------------------------------
(* Sequences of bytes.                                                     *)

LEMMA BlockSize == Block \in Nat \ {0}
BY Sha256Assumption DEF Sha256Assumption

(* Concatenation under names of its own, to apply its laws by.             *)
Bytes == Seq(Data)

Numeric == Seq(Nat)

Cat(a, b) == a \o b

LEMMA CatBytes ==
  \A a, b, c \in Bytes : Cat(Cat(a, b), c) = Cat(a, Cat(b, c)) /\ Cat(a, b) \in Bytes
<1>1. \A a, b, c \in Bytes : Cat(Cat(a, b), c) = Cat(a, Cat(b, c))
  BY ConcatAssociative, SMTT(60) DEF Bytes, Cat
<1>2. \A a, b \in Bytes : Cat(a, b) \in Bytes
  BY ConcatProperties DEF Bytes, Cat
<1> QED
  BY <1>1, <1>2

(* A byte stored behind the first n of a block makes them n + 1.           *)
LEMMA StoreByte ==
  ASSUME NEW b \in Seq(Data), NEW n \in 0 .. Len(b) - 1, NEW x \in Data
  PROVE  LET c == [b EXCEPT ![n + 1] = x]
         IN  /\ c \in Seq(Data) /\ Len(c) = Len(b)
             /\ SubSeq(c, 1, n + 1) = SubSeq(b, 1, n) \o <<x>>
<1> DEFINE c == [b EXCEPT ![n + 1] = x]
<1>0. Len(b) \in Nat /\ n + 1 \in 1 .. Len(b) /\ n \in Int
  BY LenProperties
<1>1. /\ c \in Seq(Data) /\ Len(c) = Len(b)
      /\ \A j \in 1 .. Len(b) : c[j] = IF j = n + 1 THEN x ELSE b[j]
  BY <1>0, ExceptSeq
<1>2. \A j \in 1 .. n : c[j] = b[j] /\ b[j] \in Data
  BY <1>0, <1>1, ElementOfSeq
<1>3. SubSeq(c, 1, n + 1) = SubSeq(c, 1, n) \o <<c[n + 1]>>
  BY <1>0, <1>1, SubSeqRecursiveSecond, n + 1 \in 1 .. Len(c), 1 \in 1 .. Len(c), (n + 1) - 1 = n
<1>4. SubSeq(c, 1, n) = SubSeq(b, 1, n)
  <2>1. /\ SubSeq(c, 1, n) \in Seq(Data) /\ Len(SubSeq(c, 1, n)) = IF 1 <= n THEN n - 1 + 1 ELSE 0
        /\ \A i \in 1 .. n - 1 + 1 : SubSeq(c, 1, n)[i] = c[1 + i - 1]
    BY <1>0, <1>2, SubSeqProperties
  <2>2. /\ SubSeq(b, 1, n) \in Seq(Data) /\ Len(SubSeq(b, 1, n)) = IF 1 <= n THEN n - 1 + 1 ELSE 0
        /\ \A i \in 1 .. n - 1 + 1 : SubSeq(b, 1, n)[i] = b[1 + i - 1]
    BY <1>0, <1>2, SubSeqProperties
  <2> QED
    BY <1>0, <1>2, <2>1, <2>2, SeqEqual
<1> QED
  BY <1>0, <1>1, <1>3, <1>4

(* A byte moves from the front of one sequence to the back of another.     *)
LEMMA MoveByte ==
  \A s, t, u \in Bytes :
    u # <<>> => Cat(Cat(s, Cat(t, <<Head(u)>>)), Tail(u)) = Cat(Cat(s, t), u)
<1> SUFFICES ASSUME NEW s \in Bytes, NEW t \in Bytes, NEW u \in Bytes, u # <<>>
             PROVE  Cat(Cat(s, Cat(t, <<Head(u)>>)), Tail(u)) = Cat(Cat(s, t), u)
  OBVIOUS
<1>1. <<Head(u)>> \in Bytes /\ Tail(u) \in Bytes /\ Cat(<<Head(u)>>, Tail(u)) = u
  BY HeadTailProperties, SubSeqRecursiveFirst, SubSeqFull, TailIsSubSeq, EmptySeq, LenProperties
  DEF Bytes, Cat
<1>2. PICK h \in Bytes, r \in Bytes : h = <<Head(u)>> /\ r = Tail(u)
  BY <1>1
<1>3. Cat(s, Cat(t, h)) = Cat(Cat(s, t), h) /\ Cat(s, t) \in Bytes
  BY CatBytes
<1>4. Cat(Cat(Cat(s, t), h), r) = Cat(Cat(s, t), Cat(h, r))
  BY <1>3, CatBytes
<1> QED
  BY <1>1, <1>2, <1>3, <1>4

-----------------------------------------------------------------------------

LEMMA UpdateStep ==
  ASSUME FillingInv, NEW n \in 1 .. MaxLen, NEW s \in [1 .. n -> Data], Update(s)
  PROVE  FillingInv'
<1> USE DEF FillingInv, Filling, NothingLost, Update
<1>1. s \in Seq(Data)
  BY Sha256Assumption, SeqDef DEF Sha256Assumption
<1>2. message \o s \in Seq(Data)
  BY <1>1, ConcatProperties
<1>3. SubSeq(data, 1, datalen) \in Seq(Data)
  BY BlockSize, SubSeqProperties, ElementOfSeq
<1>4. hashed \o SubSeq(data, 1, datalen) \in Seq(Data)
  BY <1>3, ConcatProperties
<1>5. hashed \o SubSeq(data, 1, datalen) = message
  BY <1>4, ConcatEmptySeq
<1> QED
  BY <1>1, <1>2, <1>5

LEMMA AbsorbStep == FillingInv /\ Absorb => FillingInv'
<1> SUFFICES ASSUME FillingInv, Absorb PROVE FillingInv'
  OBVIOUS
<1> USE DEF FillingInv, Filling, NothingLost
<1> DEFINE front == SubSeq(data, 1, datalen)
           x == Head(input)
<1>0. ~final /\ input # <<>> /\ ~final'
  BY DEF Absorb
<1>1. front \in Seq(Data)
  BY <1>0, BlockSize, SubSeqProperties, ElementOfSeq
<1>2. x \in Data /\ Tail(input) \in Seq(Data)
  BY <1>0, HeadTailProperties
<1>3. /\ data' \in Seq(Data) /\ Len(data') = Block
      /\ SubSeq(data', 1, datalen + 1) = front \o <<x>>
  BY <1>0, <1>2, StoreByte, BlockSize DEF Absorb
<1>4. hashed \o (front \o <<x>>) \o Tail(input) = message
  <2>1. (hashed \o front) \o input = message
    BY <1>0
  <2>2. hashed \o (front \o <<Head(input)>>) \o Tail(input) = hashed \o front \o input
    <3>1. hashed \in Bytes /\ front \in Bytes /\ input \in Bytes /\ input # <<>>
      BY <1>0, <1>1 DEF Bytes
    <3>2. Cat(Cat(hashed, Cat(front, <<Head(input)>>)), Tail(input)) = Cat(Cat(hashed, front), input)
      <4> HIDE DEF front, x, FillingInv, Filling, NothingLost
      <4> QED BY <3>1, MoveByte
    <3> QED BY <3>2 DEF Cat
  <2> QED BY <2>1, <2>2
<1>5. CASE datalen + 1 = Block
  <2>1. hashed' = hashed \o data' /\ datalen' = 0
    BY <1>5 DEF Absorb
  <2>2. data' = front \o <<x>>
    BY <1>3, <1>5, SubSeqFull
  <2>3. hashed' \in Seq(Data)
    BY <1>0, <1>3, <2>1, ConcatProperties
  <2>4. SubSeq(data', 1, 0) = <<>>
    BY SubSeqEmpty
  <2>5. hashed' \o SubSeq(data', 1, datalen') = hashed'
    BY <2>1, <2>3, <2>4, ConcatEmptySeq
  <2>6. hashed' \o SubSeq(data', 1, datalen') \o input' = message'
    BY <1>4, <2>1, <2>2, <2>5 DEF Absorb
  <2>7. ~final' /\ input' \in Seq(Data) /\ message' \in Seq(Data)
    BY <1>0, <1>2 DEF Absorb
  <2>8. datalen' \in 0 .. Block - 1
    BY <2>1, BlockSize
  <2> HIDE DEF front, x
  <2> QED
    BY <1>3, <2>3, <2>6, <2>7, <2>8
<1>6. CASE datalen + 1 # Block
  <2>1. hashed' = hashed /\ datalen' = datalen + 1 /\ datalen' \in 0 .. Block - 1
    BY <1>0, <1>6, BlockSize DEF Absorb
  <2>2. hashed' \o SubSeq(data', 1, datalen') \o input' = message'
    BY <1>3, <1>4, <2>1 DEF Absorb
  <2> QED
    BY <1>0, <1>2, <1>3, <2>1, <2>2 DEF Absorb
<1> QED
  BY <1>5, <1>6

LEMMA InitFilling == Init => FillingInv
<1> SUFFICES ASSUME Init PROVE FillingInv
  OBVIOUS
<1>1. data \in Seq(Data) /\ Len(data) = Block
  BY BlockSize DEF Init
<1>2. SubSeq(data, 1, 0) = <<>>
  BY SubSeqEmpty
<1> QED
  BY <1>1, <1>2, BlockSize, EmptySeq, ConcatEmptySeq DEF Init, FillingInv, Filling, NothingLost

LEMMA FillingStep == FillingInv /\ [Next]_vars => FillingInv'
<1> SUFFICES ASSUME FillingInv, [Next]_vars PROVE FillingInv'
  OBVIOUS
<1>1. ASSUME NEW n \in 1 .. MaxLen, NEW s \in [1 .. n -> Data], Update(s) PROVE FillingInv'
  BY <1>1, UpdateStep
<1>2. CASE Absorb
  BY <1>2, AbsorbStep
<1>3. CASE Final
  BY <1>3 DEF Final, FillingInv, Filling, NothingLost
<1>4. CASE UNCHANGED vars
  BY <1>4 DEF vars, FillingInv, Filling, NothingLost
<1> QED
  BY <1>1, <1>2, <1>3, <1>4 DEF Next

(* sha256_update(), called as often and with whatever lengths one likes,   *)
(* leaves the message cut into blocks: nothing is lost or doubled.         *)
THEOREM NothingLostHolds == Spec => []NothingLost
<1>1. FillingInv => NothingLost
  BY DEF FillingInv
<1> QED
  BY <1>1, InitFilling, FillingStep, PTL DEF Spec

-----------------------------------------------------------------------------
(* The padding.                                                            *)

(* bitlen counts the bits of the whole blocks hashed so far.               *)
Counting ==
  ~final => /\ Len(hashed) % Block = 0
            /\ bitlen = (Len(hashed) * ByteBits) % LenModulus

PaddingInv == FillingInv /\ Counting /\ HashesThePaddedMessage

LEMMA CountingStep == FillingInv /\ Counting /\ Absorb => Counting'
<1> SUFFICES ASSUME FillingInv, Counting, Absorb PROVE Counting'
  OBVIOUS
<1>0. /\ ~final /\ final' = final /\ hashed \in Seq(Data)
      /\ Len(hashed) % Block = 0 /\ bitlen = (Len(hashed) * ByteBits) % LenModulus
  BY DEF FillingInv, Filling, Counting, Absorb
<1>1. CASE datalen + 1 # Block
  BY <1>0, <1>1 DEF Absorb, Counting
<1>2. CASE datalen + 1 = Block
  <2>1. hashed' = hashed \o data' /\ bitlen' = (bitlen + Block * ByteBits) % LenModulus
    BY <1>2 DEF Absorb
  <2>2. data' \in Seq(Data) /\ Len(data') = Block
    BY AbsorbStep, <1>0 DEF FillingInv, Filling
  <2>3. Len(hashed') = Len(hashed) + Block /\ Len(hashed) \in Nat
    BY <1>0, <2>1, <2>2, ConcatProperties, LenProperties
  <2>4. Block \in Nat \ {0} /\ ByteBits \in Nat /\ LenModulus \in Nat \ {0}
    BY BlockSize, WeightIs, Sha256Assumption DEF Sha256Assumption
  <2>5. Len(hashed') % Block = 0
    <3> DEFINE q == Len(hashed) \div Block
    <3>1. q \in Nat /\ Len(hashed) = q * Block + 0
      BY <1>0, <2>3, <2>4, Divides
    <3> HIDE DEF q
    <3>2. Len(hashed') = (q + 1) * Block + 0 /\ q + 1 \in Nat /\ 0 \in 0 .. Block - 1
      BY <2>3, <2>4, <3>1
    <3> QED BY <2>4, <3>2, QuotientUnique
  <2>6. bitlen' = (Len(hashed') * ByteBits) % LenModulus
    <3> DEFINE a == Len(hashed) * ByteBits
               c == Block * ByteBits
    <3>1. a \in Nat /\ c \in Nat /\ a + c = Len(hashed') * ByteBits
      BY <2>3, <2>4
    <3> HIDE DEF a, c
    <3>2. ((a % LenModulus) + c) % LenModulus = (a + c) % LenModulus
      BY <2>4, <3>1, ModSum
    <3>3. bitlen' = ((a % LenModulus) + c) % LenModulus
      BY <1>0, <2>1 DEF a, c
    <3> QED BY <3>1, <3>2, <3>3
  <2> QED
    BY <2>5, <2>6 DEF Counting
<1> QED
  BY <1>1, <1>2

(* The same of sequences of numbers, among which the mark and the length   *)
(* are.                                                                    *)
LEMMA Numbers ==
  ASSUME NEW a \in Seq(Nat), NEW b \in Seq(Nat)
  PROVE  /\ a \o b \in Seq(Nat) /\ Len(a \o b) = Len(a) + Len(b)
         /\ \A i \in 1 .. Len(a) + Len(b) :
              (a \o b)[i] = IF i <= Len(a) THEN a[i] ELSE b[i - Len(a)]
BY ConcatProperties

LEMMA CatAssociative == \A a, b, c \in Numeric : Cat(Cat(a, b), c) = Cat(a, Cat(b, c))
BY ConcatAssociative, SMTT(60) DEF Numeric, Cat

LEMMA CatNumeric == \A a, b \in Numeric : Cat(a, b) \in Numeric
BY ConcatProperties DEF Numeric, Cat

LEMMA Regroup ==
  \A a, b, c, d, e \in Numeric :
    Cat(a, Cat(Cat(Cat(b, c), d), e)) = Cat(Cat(Cat(Cat(a, b), c), d), e)
<1> SUFFICES ASSUME NEW a \in Numeric, NEW b \in Numeric, NEW c \in Numeric,
                    NEW d \in Numeric, NEW e \in Numeric
             PROVE  Cat(a, Cat(Cat(Cat(b, c), d), e)) = Cat(Cat(Cat(Cat(a, b), c), d), e)
  OBVIOUS
<1>1. Cat(b, c) \in Numeric /\ Cat(Cat(b, c), d) \in Numeric
  BY CatNumeric
<1>2. Cat(a, Cat(Cat(Cat(b, c), d), e)) = Cat(Cat(a, Cat(Cat(b, c), d)), e)
  BY <1>1, CatAssociative
<1>3. Cat(a, Cat(Cat(b, c), d)) = Cat(Cat(a, Cat(b, c)), d)
  BY <1>1, CatAssociative
<1>4. Cat(a, Cat(b, c)) = Cat(Cat(a, b), c)
  BY CatAssociative
<1> QED
  BY <1>2, <1>3, <1>4

LEMMA DataNumbers == ASSUME NEW s \in Seq(Data) PROVE s \in Seq(Nat)
<1>1. Data \subseteq Nat
  BY BaseIs, Sha256Assumption DEF Sha256Assumption
<1>2. Len(s) \in Nat /\ s \in [1 .. Len(s) -> Data]
  BY LenProperties
<1>3. s \in [1 .. Len(s) -> Nat]
  BY <1>1, <1>2
<1> QED
  BY <1>2, <1>3, SeqDef

LEMMA ZerosAre ==
  ASSUME NEW k \in Nat
  PROVE  Zeros(k) \in Seq(Nat) /\ Len(Zeros(k)) = k
BY DEF Zeros

LEMMA ZerosJoin ==
  ASSUME NEW k \in Nat, NEW l \in Nat
  PROVE  Zeros(k) \o Zeros(l) = Zeros(k + l)
<1>1. /\ Zeros(k) \in Seq(Nat) /\ Len(Zeros(k)) = k
      /\ Zeros(l) \in Seq(Nat) /\ Len(Zeros(l)) = l
      /\ Zeros(k + l) \in Seq(Nat) /\ Len(Zeros(k + l)) = k + l
  BY ZerosAre
<1>2. /\ Zeros(k) \o Zeros(l) \in Seq(Nat)
      /\ Len(Zeros(k) \o Zeros(l)) = k + l
      /\ \A i \in 1 .. k + l :
           (Zeros(k) \o Zeros(l))[i] = IF i <= k THEN Zeros(k)[i] ELSE Zeros(l)[i - k]
  <2> DEFINE a == Zeros(k)
             b == Zeros(l)
  <2>1. a \in Seq(Nat) /\ b \in Seq(Nat) /\ Len(a) = k /\ Len(b) = l
    BY <1>1
  <2> HIDE DEF a, b
  <2>2. /\ a \o b \in Seq(Nat) /\ Len(a \o b) = Len(a) + Len(b)
        /\ \A i \in 1 .. Len(a) + Len(b) :
             (a \o b)[i] = IF i <= Len(a) THEN a[i] ELSE b[i - Len(a)]
    BY <2>1, Numbers
  <2> QED BY <2>1, <2>2 DEF a, b
<1>3. \A i \in 1 .. k + l : (Zeros(k) \o Zeros(l))[i] = Zeros(k + l)[i]
  BY <1>2 DEF Zeros
<1> QED
  BY <1>1, <1>2, <1>3, SeqEqual

(* The number of zeros the standard asks for is the only one that will do. *)
LEMMA ZerosNeeded ==
  ASSUME NEW c \in Nat, NEW k \in 0 .. Block - 1, (c + k) % Block = 0
  PROVE  \A j \in 0 .. Block - 1 : (c + j) % Block = 0 => j = k
<1> SUFFICES ASSUME NEW j \in 0 .. Block - 1, (c + j) % Block = 0
             PROVE  j = k
  OBVIOUS
<1>0. Block \in Nat \ {0}
  BY BlockSize
<1> DEFINE p == (c + k) \div Block
           q == (c + j) \div Block
<1>1. /\ p \in Nat /\ c + k = p * Block + 0
      /\ q \in Nat /\ c + j = q * Block + 0
  BY <1>0, Divides, c + k \in Nat, c + j \in Nat
<1> HIDE DEF p, q
<1>2. CASE p = q
  BY <1>0, <1>1, <1>2
<1>3. CASE p > q
  <2>1. PICK d \in Nat \ {0} : p = q + d
    BY <1>1, <1>3, p - q \in Nat \ {0}, p = q + (p - q)
  <2>2. k = j + d * Block /\ d * Block >= Block /\ d * Block \in Nat
    BY <1>0, <1>1, <2>1
  <2> QED BY <1>0, <2>2
<1>4. CASE q > p
  <2>1. PICK d \in Nat \ {0} : q = p + d
    BY <1>1, <1>4, q - p \in Nat \ {0}, q = p + (q - p)
  <2>2. j = k + d * Block /\ d * Block >= Block /\ d * Block \in Nat
    BY <1>0, <1>1, <2>1
  <2> QED BY <1>0, <2>2
<1> QED
  BY <1>1, <1>2, <1>3, <1>4

LEMMA LenFieldIs ==
  ASSUME NEW x \in Nat
  PROVE  LenField(x) \in Seq(Nat) /\ Len(LenField(x)) = LenBytes
<1>1. LenBytes \in Nat /\ Base \in Nat \ {0}
  BY BaseIs, Sha256Assumption DEF Sha256Assumption
<1>2. \A i \in 1 .. LenBytes : (x \div Weight[LenBytes - i]) % Base \in Nat
  <2> SUFFICES ASSUME NEW i \in 1 .. LenBytes
               PROVE  (x \div Weight[LenBytes - i]) % Base \in Nat
    OBVIOUS
  <2>1. Weight[LenBytes - i] \in Nat \ {0}
    BY <1>1, WeightIs
  <2>2. x \div Weight[LenBytes - i] \in Nat
    BY <2>1, Divides
  <2> QED BY <1>1, <2>2, Divides
<1> QED
  BY <1>1, <1>2 DEF LenField

LEMMA Marked ==
  /\ Mark \in Nat /\ <<Mark>> \in Seq(Nat)
  /\ \A s \in Seq(Data) : s \o <<Mark>> \in Seq(Nat)
<1>1. Mark \in Nat /\ Data \subseteq Nat
  BY BaseIs, Divides, Sha256Assumption DEF Mark, Sha256Assumption
<1> DEFINE mark == <<Mark>>
<1>2. mark \in Seq(Nat)
  BY <1>1
<1> HIDE DEF mark
<1>3. \A s \in Seq(Data) : s \o mark \in Seq(Nat)
  BY <1>2, DataNumbers, Numbers
<1> QED
  BY <1>1, <1>2, <1>3 DEF mark

(* Either way sha256_final() pads, what follows the message is the mark,   *)
(* as many zeros as fill the block, or a second one, and the length.       *)
LEMMA PaddedIs ==
  ASSUME FillingInv, Counting, ~final, input = <<>>
  PROVE  LET k == IF datalen < Block - LenBytes THEN Block - LenBytes - datalen - 1
                  ELSE Block - datalen - 1 + (Block - LenBytes)
         IN  /\ k \in 0 .. Block - 1
             /\ (Len(message) + 1 + k + LenBytes) % Block = 0
             /\ Padded(datalen) = SubSeq(data, 1, datalen) \o <<Mark>> \o Zeros(k)
<1> DEFINE k == IF datalen < Block - LenBytes THEN Block - LenBytes - datalen - 1
                ELSE Block - datalen - 1 + (Block - LenBytes)
           front == SubSeq(data, 1, datalen)
<1>0. /\ Block \in Nat \ {0} /\ LenBytes \in Nat \ {0} /\ LenBytes < Block
      /\ datalen \in 0 .. Block - 1
  BY Sha256Assumption DEF Sha256Assumption, FillingInv, Filling
<1>1. k \in 0 .. Block - 1
  BY <1>0
<1>2. front \in Seq(Data) /\ Len(front) = datalen
  BY <1>0, SubSeqProperties, ElementOfSeq DEF FillingInv, Filling
<1>3. Len(message) = Len(hashed) + datalen /\ Len(hashed) \in Nat
  <2>1. hashed \in Seq(Data) /\ hashed \o front \in Seq(Data)
    BY <1>2, ConcatProperties DEF FillingInv, Filling
  <2>2. message = hashed \o front
    BY <2>1, ConcatEmptySeq DEF FillingInv, NothingLost
  <2> QED BY <1>2, <2>1, <2>2, ConcatProperties, LenProperties
<1>4. (Len(message) + 1 + k + LenBytes) % Block = 0
  <2> DEFINE q == Len(hashed) \div Block
  <2>1. q \in Nat /\ Len(hashed) = q * Block + 0
    BY <1>0, <1>3, Divides DEF Counting
  <2> HIDE DEF q
  <2>2. PICK d \in {1, 2} : Len(message) + 1 + k + LenBytes = Len(hashed) + d * Block
    BY <1>0, <1>3
  <2>3. Len(message) + 1 + k + LenBytes = (q + d) * Block + 0 /\ q + d \in Nat
    BY <1>0, <2>1, <2>2
  <2>4. 0 \in 0 .. Block - 1
    BY <1>0
  <2>5. ((q + d) * Block + 0) % Block = 0
    BY <1>0, <2>3, <2>4, QuotientUnique
  <2> QED BY <2>3, <2>5
<1>5. Padded(datalen) = front \o <<Mark>> \o Zeros(k)
  <2>1. CASE datalen < Block - LenBytes
    BY <2>1 DEF Padded
  <2>2. CASE ~(datalen < Block - LenBytes)
    <3> DEFINE a == Zeros(Block - datalen - 1)
               b == Zeros(Block - LenBytes)
    <3>1. a \o b = Zeros(k)
      <4>1. Block - datalen - 1 \in Nat /\ Block - LenBytes \in Nat
        BY <1>0
      <4>2. a \o b = Zeros((Block - datalen - 1) + (Block - LenBytes))
        BY <4>1, ZerosJoin
      <4>3. k = (Block - datalen - 1) + (Block - LenBytes)
        BY <2>2
      <4> QED BY <4>2, <4>3
    <3>2. a \in Seq(Nat) /\ b \in Seq(Nat)
      BY <1>0, ZerosAre
    <3>3. front \o <<Mark>> \in Seq(Nat)
      BY <1>2, Marked
    <3>4. Padded(datalen) = ((front \o <<Mark>>) \o a) \o b
      BY <2>2 DEF Padded
    <3> DEFINE marked == front \o <<Mark>>
    <3>5. marked \in Seq(Nat) /\ Padded(datalen) = (marked \o a) \o b
      BY <3>3, <3>4
    <3> HIDE DEF a, b, marked
    <3>6. Cat(Cat(marked, a), b) = Cat(marked, Cat(a, b))
      BY <3>2, <3>5, CatAssociative DEF Numeric
    <3> QED BY <3>1, <3>5, <3>6 DEF marked, Cat
  <2> QED BY <2>1, <2>2
<1> QED
  BY <1>1, <1>4, <1>5

(* sha256_final() hashes the padded message.                               *)
LEMMA FinalStep == FillingInv /\ Counting /\ Final => HashesThePaddedMessage'
<1> SUFFICES ASSUME FillingInv, Counting, Final PROVE hashed' = Padding(message')
  BY DEF HashesThePaddedMessage
<1> DEFINE front == SubSeq(data, 1, datalen)
           k == IF datalen < Block - LenBytes THEN Block - LenBytes - datalen - 1
                ELSE Block - datalen - 1 + (Block - LenBytes)
           length == LenField(Len(message) * ByteBits)
<1>0. /\ ~final /\ input = <<>> /\ message' = message
      /\ bitlen' = (bitlen + datalen * ByteBits) % LenModulus
      /\ hashed' = hashed \o (Padded(datalen) \o LenField(bitlen'))
  BY DEF Final
<1>1. /\ front \in Seq(Data) /\ Len(front) = datalen /\ hashed \in Seq(Data)
      /\ datalen \in Nat /\ Len(hashed) \in Nat
  BY <1>0, BlockSize, SubSeqProperties, ElementOfSeq, LenProperties DEF FillingInv, Filling
<1>2. message = hashed \o front
  BY <1>0, <1>1, ConcatProperties, ConcatEmptySeq DEF FillingInv, NothingLost
<1>3. Len(message) = Len(hashed) + datalen
  BY <1>1, <1>2, ConcatProperties
<1>4. LenField(bitlen') = length
  <2> DEFINE a == Len(hashed) * ByteBits
             c == datalen * ByteBits
  <2>1. ByteBits \in Nat /\ LenModulus \in Nat \ {0}
    BY WeightIs, Sha256Assumption DEF Sha256Assumption
  <2>2. a \in Nat /\ c \in Nat /\ a + c = Len(message) * ByteBits
    BY <1>1, <1>3, <2>1
  <2>3. bitlen' = ((a % LenModulus) + c) % LenModulus
    BY <1>0 DEF Counting
  <2> HIDE DEF a, c
  <2>4. bitlen' = (a + c) % LenModulus
    BY <2>1, <2>2, <2>3, ModSum
  <2>5. LenField((a + c) % LenModulus) = LenField(a + c)
    BY <2>2, LenFieldOfMod, a + c \in Nat
  <2> QED BY <2>2, <2>4, <2>5
<1>5. /\ k \in 0 .. Block - 1
      /\ (Len(message) + 1 + k + LenBytes) % Block = 0
      /\ Padded(datalen) = front \o <<Mark>> \o Zeros(k)
  BY <1>0, PaddedIs
<1>6. Padding(message) = message \o <<Mark>> \o Zeros(k) \o length
  <2> DEFINE Fits(z) == (Len(message) + 1 + z + LenBytes) % Block = 0
             zeros == CHOOSE z \in 0 .. Block - 1 : Fits(z)
  <2>1. zeros \in 0 .. Block - 1 /\ Fits(zeros)
    BY <1>5
  <2>2. /\ LenBytes \in Nat /\ Block \in Nat /\ Len(message) + 1 + LenBytes \in Nat
        /\ \A z \in 0 .. Block - 1 :
             Len(message) + 1 + z + LenBytes = (Len(message) + 1 + LenBytes) + z
    BY <1>1, <1>3, Sha256Assumption DEF Sha256Assumption
  <2> HIDE DEF zeros, k
  <2>3. zeros = k
    BY <1>5, <2>1, <2>2, ZerosNeeded
  <2> QED BY <2>3 DEF Padding, zeros
<1>7. /\ message \in Seq(Nat) /\ hashed \in Seq(Nat) /\ front \in Seq(Nat)
      /\ <<Mark>> \in Seq(Nat) /\ Zeros(k) \in Seq(Nat) /\ length \in Seq(Nat)
  <2>2. hashed \in Seq(Nat) /\ front \in Seq(Nat)
    BY <1>1, DataNumbers
  <2>3. message \in Seq(Nat)
    BY <1>2, <2>2, ConcatProperties
  <2>4. length \in Seq(Nat)
    BY <1>1, <1>3, LenFieldIs, Sha256Assumption DEF Sha256Assumption
  <2>5. Zeros(k) \in Seq(Nat)
    <3>1. k \in Nat
      BY <1>5, BlockSize
    <3> HIDE DEF k
    <3> QED BY <3>1, ZerosAre
  <2> QED BY <2>2, <2>3, <2>4, <2>5, Marked
<1>8. /\ hashed' = hashed \o (((front \o <<Mark>>) \o Zeros(k)) \o length)
      /\ Padding(message) = (((hashed \o front) \o <<Mark>>) \o Zeros(k)) \o length
  BY <1>0, <1>2, <1>4, <1>5, <1>6
<1> HIDE DEF front, length, k
<1>9. /\ hashed \in Numeric /\ front \in Numeric
      /\ <<Mark>> \in Numeric /\ Zeros(k) \in Numeric /\ length \in Numeric
  BY <1>7 DEF Numeric
<1>10. Cat(hashed, Cat(Cat(Cat(front, <<Mark>>), Zeros(k)), length))
         = Cat(Cat(Cat(Cat(hashed, front), <<Mark>>), Zeros(k)), length)
  BY <1>9, Regroup
<1> QED
  BY <1>0, <1>8, <1>10 DEF Cat

(* What goes into the state in the end is the message as the standard pads *)
(* it, for messages and blocks of any length and however the message was   *)
(* cut up by the calls.                                                    *)
THEOREM HashesThePaddedMessageHolds == Spec => []HashesThePaddedMessage
<1>1. Init => PaddingInv
  <2> SUFFICES ASSUME Init PROVE PaddingInv
    OBVIOUS
  <2>1. ~final /\ Len(hashed) = 0 /\ bitlen = 0
    BY EmptySeq DEF Init
  <2>2. ByteBits \in Nat /\ LenModulus \in Nat \ {0} /\ Block \in Nat \ {0}
    BY WeightIs, BlockSize, Sha256Assumption DEF Sha256Assumption
  <2>3. 0 % Block = 0 /\ 0 % LenModulus = 0 /\ 0 * ByteBits = 0
    BY <2>2
  <2> QED
    BY <2>1, <2>3, InitFilling DEF PaddingInv, Counting, HashesThePaddedMessage
<1>2. PaddingInv /\ [Next]_vars => PaddingInv'
  <2> SUFFICES ASSUME PaddingInv, [Next]_vars PROVE PaddingInv'
    OBVIOUS
  <2>1. FillingInv'
    BY FillingStep DEF PaddingInv
  <2>2. ASSUME NEW n \in 1 .. MaxLen, NEW s \in [1 .. n -> Data], Update(s)
        PROVE  Counting' /\ HashesThePaddedMessage'
    BY <2>2 DEF Update, PaddingInv, Counting, HashesThePaddedMessage
  <2>3. CASE Absorb
    <3>1. ~final /\ final' = final
      BY <2>3 DEF Absorb, PaddingInv, FillingInv, Filling
    <3> QED
      BY <2>1, <2>3, <3>1, CountingStep DEF PaddingInv, HashesThePaddedMessage
  <2>4. CASE Final
    <3>1. Counting'
      BY <2>4 DEF Final, Counting
    <3> QED
      BY <2>1, <2>4, <3>1, FinalStep DEF PaddingInv
  <2>5. CASE UNCHANGED vars
    BY <2>1, <2>5 DEF vars, PaddingInv, Counting, HashesThePaddedMessage, Padding, LenField, Zeros
  <2> QED
    BY <2>1, <2>2, <2>3, <2>4, <2>5 DEF Next, PaddingInv
<1>3. PaddingInv => HashesThePaddedMessage
  BY DEF PaddingInv
<1> QED
  BY <1>1, <1>2, <1>3, PTL DEF Spec

=============================================================================
