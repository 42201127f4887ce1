--------------------------- MODULE Uint256_proofs ---------------------------
(***************************************************************************)
(* The arithmetic of uint256.h, the target of server2.c made with it, the  *)
(* comparison of sha256.c and the text of a number, for numbers of any     *)
(* size.                                                                   *)
(***************************************************************************)
EXTENDS Uint256, FiniteSetTheorems, WellFoundedInduction, TLAPS

-----------------------------------------------------------------------------
(* Induction over the places of a number.                                  *)

LEMMA Least ==
  ASSUME NEW T \in SUBSET Nat, T # {}
  PROVE  \E x \in T : \A y \in T : x <= y
<1> DEFINE R == OpToRel(<, Nat)
<1>1. IsWellFoundedOn(R, Nat)
  BY NatLessThanWellFounded
<1>2. \A x, y \in Nat : x < y => <<x, y>> \in R
  BY DEF OpToRel
<1> HIDE DEF R
<1>3. PICK x \in T : \A y \in T : ~(<<y, x>> \in R)
  BY <1>1, WFMin
<1>4. \A y \in T : x <= y
  <2> SUFFICES ASSUME NEW y \in T PROVE x <= y
    OBVIOUS
  <2>1. x \in Nat /\ y \in Nat /\ ~(y < x)
    BY <1>2, <1>3
  <2> QED BY <2>1
<1> QED
  BY <1>4

(* The numbers up to n that have a property, given as their set.           *)
Inductive(n, P) == 0 \in P /\ \A k \in 1 .. n : k - 1 \in P => k \in P

LEMMA Climb == \A n \in Nat : \A P : Inductive(n, P) => \A k \in 0 .. n : k \in P
<1> SUFFICES ASSUME NEW n \in Nat, NEW P, Inductive(n, P),
                    NEW m \in 0 .. n, m \notin P
             PROVE  FALSE
  OBVIOUS
<1> DEFINE Out == {k \in Nat : k \in 0 .. n /\ k \notin P}
<1>1. m \in Out /\ Out \in SUBSET Nat
  OBVIOUS
<1>2. PICK k \in Out : \A j \in Out : k <= j
  BY <1>1, Least
<1>3. k # 0
  BY DEF Inductive
<1>4. k - 1 \in Nat /\ k - 1 \in 0 .. n /\ k \in 1 .. n /\ ~(k <= k - 1)
  BY <1>3
<1>5. k - 1 \in P
  BY <1>2, <1>4
<1> QED
  BY <1>4, <1>5 DEF Inductive

(* A function defined by recursion over 0 .. n.                            *)
RecursionOf(n, e, step, f) ==
  f = [k \in 0 .. n |-> IF k = 0 THEN e ELSE step[<<k, f[k - 1]>>]]

LEMMA RecursionInto ==
  ASSUME NEW S, NEW n \in Nat, NEW e \in S, NEW step \in [(1 .. n) \X S -> S]
  PROVE  \E g \in [0 .. n -> S] : RecursionOf(n, e, step, g)
<1> DEFINE P == {m \in 0 .. n : \E g \in [0 .. m -> S] : RecursionOf(m, e, step, g)}
<1>1. 0 \in P
  <2>1. [k \in 0 .. 0 |-> e] \in [0 .. 0 -> S]
    OBVIOUS
  <2>2. RecursionOf(0, e, step, [k \in 0 .. 0 |-> e])
    BY DEF RecursionOf
  <2> QED BY <2>1, <2>2
<1>2. ASSUME NEW m \in 1 .. n, m - 1 \in P PROVE m \in P
  <2>1. PICK g \in [0 .. m - 1 -> S] : RecursionOf(m - 1, e, step, g)
    BY <1>2
  <2>2. m - 1 \in 0 .. m - 1 /\ m \in 0 .. n /\ g[m - 1] \in S
    OBVIOUS
  <2>3. step[<<m, g[m - 1]>>] \in S
    BY <2>2
  <2> DEFINE h == [k \in 0 .. m |-> IF k = m THEN step[<<m, g[m - 1]>>] ELSE g[k]]
  <2>4. h \in [0 .. m -> S]
    <3>1. \A k \in 0 .. m : k # m => k \in 0 .. m - 1
      OBVIOUS
    <3> QED BY <2>3, <3>1
  <2>5. \A k \in 0 .. m : h[k] = IF k = 0 THEN e ELSE step[<<k, h[k - 1]>>]
    <3> SUFFICES ASSUME NEW k \in 0 .. m
                 PROVE  h[k] = IF k = 0 THEN e ELSE step[<<k, h[k - 1]>>]
      OBVIOUS
    <3>1. CASE k = m
      <4>1. k # 0 /\ m - 1 \in 0 .. m /\ m - 1 # m
        BY <3>1
      <4> QED BY <3>1, <4>1
    <3>2. CASE k # m
      <4>1. k \in 0 .. m - 1 /\ h[k] = g[k]
        BY <3>2
      <4>2. k # 0 => k - 1 \in 0 .. m /\ k - 1 # m /\ h[k - 1] = g[k - 1]
        BY <3>2
      <4>3. g[k] = IF k = 0 THEN e ELSE step[<<k, g[k - 1]>>]
        BY <2>1, <4>1 DEF RecursionOf
      <4> QED BY <4>1, <4>2, <4>3
    <3> QED BY <3>1, <3>2
  <2> HIDE DEF h
  <2>6. RecursionOf(m, e, step, h)
    <3>1. h = [k \in 0 .. m |-> h[k]]
      BY <2>4
    <3> QED BY <2>5, <3>1 DEF RecursionOf
  <2> QED BY <2>2, <2>4, <2>6
<1> HIDE DEF P
<1>3. n \in P
  BY <1>1, <1>2, Climb, n \in 0 .. n DEF Inductive
<1> QED
  BY <1>3 DEF P

LEMMA RecursionExists ==
  ASSUME NEW n \in Nat, NEW e \in Nat, NEW step \in [(1 .. n) \X Nat -> Nat]
  PROVE  \E g \in [0 .. n -> Nat] : RecursionOf(n, e, step, g)
BY RecursionInto

-----------------------------------------------------------------------------
(* Weights.                                                                *)

LEMMA TwoIs ==
  /\ ExpBits \in Nat /\ Two[0] = 1
  /\ \A k \in 0 .. ExpBits : Two[k] \in Nat
  /\ \A k \in 0 .. ExpBits - 1 : Two[k + 1] = 2 * Two[k]
<1>1. /\ ExpBits \in Nat /\ Two \in [0 .. ExpBits -> Nat] /\ Two[0] = 1
      /\ \A k \in 1 .. ExpBits : Two[k] = 2 * Two[k - 1]
  BY PowersAssumption DEF PowersAssumption
<1>2. ASSUME NEW k \in 0 .. ExpBits - 1 PROVE Two[k + 1] = 2 * Two[k]
  <2>1. k + 1 \in 1 .. ExpBits /\ (k + 1) - 1 = k
    BY <1>1
  <2> QED BY <1>1, <2>1
<1> QED
  BY <1>1, <1>2

(* The powers within a byte.                                               *)
LEMMA SmallPowers ==
  /\ Width \in Nat /\ Width <= ExpBits /\ ExpBits \in Nat
  /\ Width = 1 => Radix = 2
  /\ Width = 2 => Radix = 4 /\ Two[1] = 2
  /\ Width = 4 => Radix = 16 /\ Two[1] = 2 /\ Two[2] = 4 /\ Two[3] = 8
  /\ Width = 8 => /\ Radix = 256 /\ Two[1] = 2 /\ Two[2] = 4 /\ Two[3] = 8
                  /\ Two[4] = 16 /\ Two[5] = 32 /\ Two[6] = 64 /\ Two[7] = 128
  /\ Width \in {1, 2, 4, 8} /\ Two[0] = 1
<1>1. /\ Width \in {1, 2, 4, 8} /\ Width <= ExpBits /\ ExpBits \in Nat /\ Two[0] = 1
      /\ \A k \in 0 .. ExpBits - 1 : Two[k + 1] = 2 * Two[k]
  BY Uint256Assumption, TwoIs DEF Uint256Assumption
<1>2. Two[1] = 2
  BY <1>1, Two[0 + 1] = 2 * Two[0]
<1>3. Width >= 2 => Two[2] = 4
  <2> SUFFICES ASSUME Width >= 2 PROVE Two[2] = 4
    OBVIOUS
  <2>1. Two[1 + 1] = 2 * Two[1]
    BY <1>1
  <2> QED BY <1>2, <2>1
<1>4. Width >= 4 => Two[3] = 8 /\ Two[4] = 16
  <2> SUFFICES ASSUME Width >= 4 PROVE Two[3] = 8 /\ Two[4] = 16
    OBVIOUS
  <2>1. Two[2 + 1] = 2 * Two[2] /\ Two[3 + 1] = 2 * Two[3]
    BY <1>1
  <2> QED BY <1>1, <1>3, <2>1
<1>5. Width = 8 => Two[5] = 32 /\ Two[6] = 64 /\ Two[7] = 128 /\ Two[8] = 256
  <2> SUFFICES ASSUME Width = 8
               PROVE  Two[5] = 32 /\ Two[6] = 64 /\ Two[7] = 128 /\ Two[8] = 256
    OBVIOUS
  <2>1. Two[4 + 1] = 2 * Two[4] /\ Two[5 + 1] = 2 * Two[5]
    BY <1>1
  <2>2. Two[6 + 1] = 2 * Two[6] /\ Two[7 + 1] = 2 * Two[7]
    BY <1>1
  <2> QED BY <1>4, <2>1, <2>2
<1> QED
  BY <1>1, <1>2, <1>3, <1>4, <1>5 DEF Radix

LEMMA Sizes ==
  /\ Radix \in Nat /\ Radix >= 2 /\ Radix <= 256
  /\ Size \in Nat /\ Hashed \in Nat
  /\ 1 <= Hashed /\ Hashed + 1 <= Size
<1>1. Radix \in {2, 4, 16, 256}
  BY SmallPowers
<1> QED
  BY <1>1, Uint256Assumption DEF Uint256Assumption

WeightsAre(g) == g = [k \in 0 .. Size |-> IF k = 0 THEN 1 ELSE Radix * g[k - 1]]

LEMMA WeightIs ==
  /\ Weight \in [0 .. Size -> Nat \ {0}]
  /\ Weight[0] = 1
  /\ \A k \in 1 .. Size : Weight[k] = Radix * Weight[k - 1]
<1>1. WeightsAre(Weight)
  <2> DEFINE step == [p \in (1 .. Size) \X Nat |-> Radix * p[2]]
  <2>1. step \in [(1 .. Size) \X Nat -> Nat]
    BY Sizes
  <2>2. \A k \in 1 .. Size : \A x \in Nat : step[<<k, x>>] = Radix * x
    OBVIOUS
  <2> HIDE DEF step
  <2>3. PICK g \in [0 .. Size -> Nat] : RecursionOf(Size, 1, step, g)
    BY <2>1, Sizes, RecursionExists
  <2>4. \A k \in 0 .. Size : k # 0 => step[<<k, g[k - 1]>>] = Radix * g[k - 1]
    <3> SUFFICES ASSUME NEW k \in 0 .. Size, k # 0
                 PROVE  step[<<k, g[k - 1]>>] = Radix * g[k - 1]
      OBVIOUS
    <3>1. k \in 1 .. Size /\ k - 1 \in 0 .. Size
      BY Sizes
    <3> QED BY <2>2, <3>1
  <2>5. WeightsAre(g)
    BY <2>3, <2>4 DEF RecursionOf, WeightsAre
  <2> QED BY <2>5 DEF Weight, WeightsAre
<1>0. Weight = [k \in 0 .. Size |-> Weight[k]]
  BY <1>1, Sizes DEF WeightsAre
<1>2. /\ Weight[0] = 1
      /\ \A k \in 1 .. Size : Weight[k] = Radix * Weight[k - 1]
  <2>1. 0 \in 0 .. Size /\ \A k \in 1 .. Size : k \in 0 .. Size /\ k # 0
    BY Sizes
  <2>2. \A k \in 0 .. Size : Weight[k] = IF k = 0 THEN 1 ELSE Radix * Weight[k - 1]
    BY <1>1, ZenonT(20) DEF WeightsAre
  <2> QED BY <2>1, <2>2
<1> DEFINE P == {k \in 0 .. Size : Weight[k] \in Nat \ {0}}
<1>3. Inductive(Size, P)
  <2>1. 0 \in P
    BY <1>2, Sizes
  <2>2. ASSUME NEW k \in 1 .. Size, k - 1 \in P PROVE k \in P
    <3>1. Weight[k - 1] \in Nat \ {0} /\ k \in 0 .. Size
      BY <2>2, Sizes
    <3>2. Radix * Weight[k - 1] \in Nat \ {0}
      BY <3>1, Sizes
    <3> QED BY <1>2, <3>1, <3>2
  <2> QED BY <2>1, <2>2 DEF Inductive
<1>4. \A k \in 0 .. Size : Weight[k] \in Nat \ {0}
  BY <1>3, Climb, Sizes
<1> QED
  BY <1>0, <1>2, <1>4

(* There are at least twice as many numbers as hashed nonces.              *)
LEMMA RoomAbove == 2 * Weight[Hashed] <= Weight[Size]
<1> DEFINE P == {k \in 0 .. Size : k >= Hashed + 1 => 2 * Weight[Hashed] <= Weight[k]}
<1>1. Inductive(Size, P)
  <2>1. 0 \in P
    BY Sizes
  <2>2. ASSUME NEW k \in 1 .. Size, k - 1 \in P PROVE k \in P
    <3>1. /\ Weight[k] = Radix * Weight[k - 1] /\ Weight[k - 1] \in Nat \ {0}
          /\ Weight[Hashed] \in Nat /\ k \in 0 .. Size
      BY Sizes, WeightIs
    <3>2. Radix * Weight[k - 1] >= 2 * Weight[k - 1]
      BY <3>1, Sizes
    <3>3. CASE k >= Hashed + 2
      BY <2>2, <3>1, <3>2, <3>3, Sizes
    <3>4. CASE k <= Hashed + 1
      <4>1. k = Hashed + 1 => k - 1 = Hashed
        BY Sizes
      <4> QED BY <3>1, <3>2, <3>4, <4>1, Sizes
    <3> QED BY <3>3, <3>4, Sizes
  <2> QED BY <2>1, <2>2 DEF Inductive
<1>2. Size \in P
  BY <1>1, Climb, Sizes
<1> QED
  BY <1>2, Sizes

-----------------------------------------------------------------------------
(* Values.                                                                 *)

(* Sequences that have a value, and the byte at place k from the right.    *)
Numeral(s) == s \in Seq(Byte) /\ Len(s) <= Size

Place(s, k) == s[Len(s) - k + 1]

LowsAre(s, g) ==
  g = [k \in 0 .. Len(s) |->
         IF k = 0 THEN 0 ELSE g[k - 1] + s[Len(s) - k + 1] * Weight[k - 1]]

LEMMA PlaceIs ==
  ASSUME NEW s, Numeral(s)
  PROVE  /\ Len(s) \in Nat /\ Len(s) <= Size
         /\ \A k \in 1 .. Len(s) : Place(s, k) \in Nat /\ Place(s, k) < Radix
<1>1. Len(s) \in Nat /\ Len(s) <= Size /\ \A i \in 1 .. Len(s) : s[i] \in Byte
  BY DEF Numeral
<1>2. ASSUME NEW k \in 1 .. Len(s) PROVE Place(s, k) \in Byte
  <2>1. Len(s) - k + 1 \in 1 .. Len(s)
    BY <1>1
  <2> QED BY <1>1, <2>1 DEF Place
<1> QED
  BY <1>1, <1>2, Sizes DEF Byte

(* A byte of weight w on top of fewer than w.                              *)
LEMMA Stack ==
  ASSUME NEW w \in Nat \ {0}, NEW x \in Nat, x < w, NEW d \in Nat, d < Radix
  PROVE  x + d * w \in Nat /\ x + d * w < Radix * w
<1>1. PICK r \in Nat : Radix = d + 1 + r
  BY Sizes, Radix - (d + 1) \in Nat, Radix = d + 1 + (Radix - (d + 1))
<1>2. Radix * w = d * w + w + r * w
  BY <1>1
<1>3. d * w \in Nat /\ r * w \in Nat
  BY <1>1
<1> QED
  BY <1>2, <1>3

LEMMA LowIs ==
  ASSUME NEW s, Numeral(s)
  PROVE  /\ Low(s) \in [0 .. Len(s) -> Nat]
         /\ Low(s)[0] = 0
         /\ \A k \in 1 .. Len(s) : Low(s)[k] = Low(s)[k - 1] + Place(s, k) * Weight[k - 1]
         /\ \A k \in 0 .. Len(s) : Low(s)[k] < Weight[k]
<1> DEFINE n == Len(s)
           low == CHOOSE g : LowsAre(s, g)
<1>0. n \in Nat /\ n <= Size
  BY PlaceIs
<1>1. Low(s) = low
  BY DEF Low, LowsAre
<1>2. LowsAre(s, low)
  <2> DEFINE step == [p \in (1 .. n) \X Nat |-> p[2] + Place(s, p[1]) * Weight[p[1] - 1]]
  <2>0. \A k \in 1 .. n : Place(s, k) * Weight[k - 1] \in Nat
    <3> SUFFICES ASSUME NEW k \in 1 .. n PROVE Place(s, k) * Weight[k - 1] \in Nat
      OBVIOUS
    <3>1. k - 1 \in 0 .. Size
      BY <1>0, Sizes
    <3> QED BY <3>1, PlaceIs, WeightIs
  <2>1. step \in [(1 .. n) \X Nat -> Nat]
    BY <2>0
  <2>2. \A k \in 1 .. n : \A x \in Nat : step[<<k, x>>] = x + Place(s, k) * Weight[k - 1]
    OBVIOUS
  <2> HIDE DEF step
  <2>3. PICK g \in [0 .. n -> Nat] : RecursionOf(n, 0, step, g)
    BY <1>0, <2>1, RecursionExists
  <2>4. \A k \in 0 .. n : k # 0 => step[<<k, g[k - 1]>>] = g[k - 1] + s[n - k + 1] * Weight[k - 1]
    <3> SUFFICES ASSUME NEW k \in 0 .. n, k # 0
                 PROVE  step[<<k, g[k - 1]>>] = g[k - 1] + s[n - k + 1] * Weight[k - 1]
      OBVIOUS
    <3>1. k \in 1 .. n /\ k - 1 \in 0 .. n
      BY <1>0
    <3> QED BY <2>2, <3>1 DEF Place
  <2>5. LowsAre(s, g)
    BY <2>3, <2>4 DEF RecursionOf, LowsAre
  <2> QED BY <2>5
<1> HIDE DEF low
<1>3. low = [k \in 0 .. n |-> low[k]]
  BY <1>2 DEF LowsAre
<1>4. /\ low[0] = 0
      /\ \A k \in 1 .. n : low[k] = low[k - 1] + Place(s, k) * Weight[k - 1]
  <2>1. 0 \in 0 .. n /\ \A k \in 1 .. n : k \in 0 .. n /\ k # 0
    BY <1>0
  <2>2. \A k \in 0 .. n :
          low[k] = IF k = 0 THEN 0 ELSE low[k - 1] + Place(s, k) * Weight[k - 1]
    BY <1>2, ZenonT(20) DEF LowsAre, Place
  <2> QED BY <2>1, <2>2
<1> DEFINE P == {k \in 0 .. n : low[k] \in Nat /\ low[k] < Weight[k]}
<1>5. Inductive(n, P)
  <2>1. 0 \in P
    BY <1>0, <1>4, WeightIs
  <2>2. ASSUME NEW k \in 1 .. n, k - 1 \in P PROVE k \in P
    <3> DEFINE w == Weight[k - 1]
               x == low[k - 1]
               d == Place(s, k)
    <3>1. k \in 1 .. Size /\ k - 1 \in 0 .. Size /\ k \in 0 .. n
      BY <1>0, Sizes
    <3>2. w \in Nat \ {0} /\ Weight[k] = Radix * w
      BY <3>1, WeightIs
    <3>3. x \in Nat /\ x < w
      BY <2>2
    <3>4. d \in Nat /\ d < Radix
      BY PlaceIs
    <3>5. low[k] = x + d * w
      BY <1>4
    <3> HIDE DEF w, x, d
    <3>6. x + d * w \in Nat /\ x + d * w < Radix * w
      BY <3>2, <3>3, <3>4, Stack
    <3> QED BY <3>1, <3>2, <3>5, <3>6
  <2> QED BY <2>1, <2>2 DEF Inductive
<1>6. \A k \in 0 .. n : low[k] \in Nat /\ low[k] < Weight[k]
  BY <1>0, <1>5, Climb
<1> QED
  BY <1>1, <1>3, <1>4, <1>6

(* Only the last j bytes count for the value of the last j.                *)
LEMMA SameLow ==
  ASSUME NEW s, NEW t, Numeral(s), Numeral(t),
         NEW j \in Nat, j <= Len(s), j <= Len(t),
         \A k \in 1 .. j : Place(s, k) = Place(t, k)
  PROVE  Low(s)[j] = Low(t)[j]
<1> DEFINE P == {k \in 0 .. j : Low(s)[k] = Low(t)[k]}
<1>1. Inductive(j, P)
  <2>1. 0 \in P
    BY LowIs
  <2>2. ASSUME NEW k \in 1 .. j, k - 1 \in P PROVE k \in P
    <3>1. k \in 1 .. Len(s) /\ k \in 1 .. Len(t) /\ k \in 0 .. j
      BY PlaceIs
    <3>2. Low(s)[k - 1] = Low(t)[k - 1] /\ Place(s, k) = Place(t, k)
      BY <2>2
    <3>3. Low(s)[k] = Low(s)[k - 1] + Place(s, k) * Weight[k - 1]
      BY <3>1, LowIs
    <3>4. Low(t)[k] = Low(t)[k - 1] + Place(t, k) * Weight[k - 1]
      BY <3>1, LowIs
    <3> QED BY <3>1, <3>2, <3>3, <3>4
  <2> QED BY <2>1, <2>2 DEF Inductive
<1> QED
  BY <1>1, Climb

LEMMA NumberIs ==
  ASSUME NEW n \in Number
  PROVE  Numeral(n) /\ Len(n) = Size
BY Sizes DEF Number, Numeral

LEMMA ValueIs ==
  ASSUME NEW n \in Number
  PROVE  Value(n) = Low(n)[Size] /\ Value(n) \in Nat /\ Value(n) < Weight[Size]
BY NumberIs, LowIs, Sizes DEF Value

LEMMA WidenedIs ==
  ASSUME NEW s, Numeral(s)
  PROVE  /\ Widened(s) \in Number
         /\ \A k \in 1 .. Len(s) : Place(Widened(s), k) = Place(s, k)
         /\ \A k \in Len(s) + 1 .. Size : Place(Widened(s), k) = 0
<1> DEFINE u == Size - Len(s)
<1>0. /\ Len(s) \in Nat /\ s \in Seq(Byte) /\ u \in Nat /\ u <= Size /\ Len(s) = Size - u
      /\ Size \in Nat /\ 0 \in Byte
  BY PlaceIs, Sizes DEF Numeral, Byte
<1> HIDE DEF u
<1>1. Zero \in Seq(Byte) /\ Len(Zero) = Size /\ \A i \in 1 .. Size : Zero[i] = 0
  BY <1>0 DEF Zero
<1>2. /\ SubSeq(Zero, 1, u) \in Seq(Byte) /\ Len(SubSeq(Zero, 1, u)) = u
      /\ \A i \in 1 .. u : SubSeq(Zero, 1, u)[i] = 0
  BY <1>0, <1>1
<1>3. Widened(s) = SubSeq(Zero, 1, u) \o s
  BY DEF Widened, u
<1>4. /\ Widened(s) \in Seq(Byte) /\ Len(Widened(s)) = Size
      /\ \A i \in 1 .. u : Widened(s)[i] = 0
      /\ \A i \in u + 1 .. Size : Widened(s)[i] = s[i - u]
  BY <1>0, <1>2, <1>3
<1>5. Widened(s) \in Number
  BY <1>0, <1>4 DEF Number
<1>6. ASSUME NEW k \in 1 .. Len(s) PROVE Place(Widened(s), k) = Place(s, k)
  <2> DEFINE i == Size - k + 1
  <2>1. i \in u + 1 .. Size /\ i - u = Len(s) - k + 1
    BY <1>0
  <2>2. Place(Widened(s), k) = Widened(s)[i]
    BY <1>4 DEF Place
  <2> HIDE DEF i
  <2> QED BY <1>4, <2>1, <2>2 DEF Place
<1>7. ASSUME NEW k \in Len(s) + 1 .. Size PROVE Place(Widened(s), k) = 0
  <2>1. Size - k + 1 \in 1 .. u
    BY <1>0
  <2> QED BY <1>4, <2>1 DEF Place
<1> QED
  BY <1>5, <1>6, <1>7

(* Leading zeros do not count.                                             *)
LEMMA ValueOfWidened ==
  ASSUME NEW s, Numeral(s)
  PROVE  Value(Widened(s)) = Value(s)
<1> DEFINE n == Widened(s)
           P == {k \in 0 .. Size : k >= Len(s) => Low(n)[k] = Low(s)[Len(s)]}
<1>0. n \in Number /\ Numeral(n) /\ Len(n) = Size /\ Size \in Nat /\ Len(s) \in Nat /\ Len(s) <= Size
  BY WidenedIs, NumberIs, PlaceIs, Sizes
<1>1. Low(n)[Len(s)] = Low(s)[Len(s)]
  BY <1>0, WidenedIs, SameLow
<1>2. Inductive(Size, P)
  <2>1. 0 \in P
    BY <1>0, <1>1
  <2>2. ASSUME NEW k \in 1 .. Size, k - 1 \in P PROVE k \in P
    <3>1. CASE k <= Len(s)
      <4>1. k >= Len(s) => k = Len(s)
        BY <1>0, <3>1
      <4> QED BY <1>0, <1>1, <4>1
    <3>2. CASE k > Len(s)
      <4>1. k \in Len(s) + 1 .. Size /\ k - 1 >= Len(s) /\ k \in 1 .. Len(n) /\ k - 1 \in 0 .. Len(n)
        BY <1>0, <3>2
      <4>2. Low(n)[k] = Low(n)[k - 1] + Place(n, k) * Weight[k - 1]
        BY <1>0, <4>1, LowIs
      <4>3. Place(n, k) = 0 /\ Weight[k - 1] \in Nat /\ Low(n)[k - 1] \in Nat
        BY <1>0, <4>1, WidenedIs, WeightIs, LowIs
      <4>4. Low(n)[k] = Low(n)[k - 1]
        BY <4>2, <4>3
      <4> QED BY <2>2, <4>1, <4>4
    <3> QED BY <1>0, <3>1, <3>2
  <2> QED BY <2>1, <2>2 DEF Inductive
<1>3. Size \in P
  BY <1>0, <1>2, Climb
<1> QED
  BY <1>0, <1>3 DEF Value

-----------------------------------------------------------------------------
(* Order.                                                                  *)

LEMMA Outweighs ==
  ASSUME NEW w \in Nat \ {0}, NEW x \in Nat, x < w, NEW y \in Nat,
         NEW d \in Nat, NEW e \in Nat, d < e
  PROVE  x + d * w < y + e * w
<1>1. PICK r \in Nat : e = d + 1 + r
  BY e - (d + 1) \in Nat, e = d + 1 + (e - (d + 1))
<1>2. e * w = d * w + w + r * w
  BY <1>1
<1>3. d * w \in Nat /\ r * w \in Nat
  BY <1>1
<1> QED
  BY <1>2, <1>3

(* The same bytes in the same places.                                      *)
SameAt(n, a, b) ==
  /\ a = [i \in 1 .. n |-> a[i]] /\ b = [i \in 1 .. n |-> b[i]]
  /\ \A i \in 1 .. n : a[i] = b[i]

LEMMA SameBytes == \A n, a, b : SameAt(n, a, b) => a = b
<1> SUFFICES ASSUME NEW n, NEW a, NEW b, SameAt(n, a, b) PROVE a = b
  OBVIOUS
<1>1. /\ a = [i \in 1 .. n |-> a[i]] /\ b = [i \in 1 .. n |-> b[i]]
      /\ \A i \in 1 .. n : a[i] = b[i]
  BY DEF SameAt
<1>2. [i \in 1 .. n |-> a[i]] = [i \in 1 .. n |-> b[i]]
  BY <1>1
<1> QED
  BY <1>1, <1>2, Zenon

(* The first byte that differs decides.                                    *)
LEMMA FirstDecides ==
  ASSUME NEW a \in Number, NEW b \in Number, NEW i \in 1 .. Size,
         a[i] < b[i], \A j \in 1 .. i - 1 : a[j] = b[j]
  PROVE  Value(a) < Value(b)
<1> DEFINE p == Size - i + 1
           P == {k \in 0 .. Size : k >= p => Low(a)[k] < Low(b)[k]}
<1>0. /\ Numeral(a) /\ Len(a) = Size /\ Numeral(b) /\ Len(b) = Size /\ Size \in Nat
      /\ p \in 1 .. Size /\ Size - p + 1 = i
  BY NumberIs, Sizes
<1> HIDE DEF p
<1>1. Place(a, p) < Place(b, p)
  BY <1>0 DEF Place
<1>2. ASSUME NEW k \in p + 1 .. Size PROVE Place(a, k) = Place(b, k)
  <2>1. Size - k + 1 \in 1 .. i - 1
    BY <1>0
  <2> QED BY <1>0, <2>1 DEF Place
<1>3. Inductive(Size, P)
  <2>1. 0 \in P
    BY <1>0
  <2>2. ASSUME NEW k \in 1 .. Size, k - 1 \in P PROVE k \in P
    <3> DEFINE w == Weight[k - 1]
               x == Low(a)[k - 1]
               y == Low(b)[k - 1]
               d == Place(a, k)
               e == Place(b, k)
    <3>1. /\ w \in Nat \ {0} /\ x \in Nat /\ x < w /\ y \in Nat
          /\ d \in Nat /\ e \in Nat
          /\ Low(a)[k] = x + d * w /\ Low(b)[k] = y + e * w
      <4>1. k - 1 \in 0 .. Size /\ k \in 0 .. Size
        BY <1>0
      <4> QED BY <1>0, <4>1, LowIs, WeightIs, PlaceIs
    <3>2. k > p => x < y /\ d = e
      BY <1>0, <1>2, <2>2
    <3>3. k = p => d < e
      BY <1>1
    <3> HIDE DEF w, x, y, d, e
    <3>4. k > p => x + d * w < y + e * w
      <4>1. d * w \in Nat
        BY <3>1
      <4> QED BY <3>1, <3>2, <4>1
    <3>5. k = p => x + d * w < y + e * w
      BY <3>1, <3>3, Outweighs
    <3> QED BY <1>0, <3>1, <3>4, <3>5
  <2> QED BY <2>1, <2>2 DEF Inductive
<1>4. Low(a)[Size] < Low(b)[Size]
  BY <1>0, <1>3, Climb
<1> QED
  BY <1>4, ValueIs

(* sha256_compare() is the order of the numbers the digests stand for, and *)
(* calls only equal digests equal: isvalid() tells which hash is below the *)
(* target whatever the number of bytes.                                    *)
THEOREM CompareIsOrder ==
  \A a, b \in Number :
    /\ Compare(a, b) = -1 <=> Value(a) < Value(b)
    /\ Compare(a, b) = 0 <=> a = b
    /\ Compare(a, b) = 1 <=> Value(a) > Value(b)
<1> SUFFICES ASSUME NEW a \in Number, NEW b \in Number
             PROVE  /\ Compare(a, b) = -1 <=> Value(a) < Value(b)
                    /\ Compare(a, b) = 0 <=> a = b
                    /\ Compare(a, b) = 1 <=> Value(a) > Value(b)
  OBVIOUS
<1> DEFINE differ == {i \in 1 .. Size : a[i] # b[i]}
           first == CHOOSE i \in differ : \A j \in differ : i <= j
<1>0. Value(a) \in Nat /\ Value(b) \in Nat /\ Size \in Nat
  BY ValueIs, Sizes
<1>1. Compare(a, b) = IF differ = {} THEN 0 ELSE IF a[first] < b[first] THEN -1 ELSE 1
  BY DEF Compare
<1>2. CASE differ = {}
  <2>1. \A i \in 1 .. Size : a[i] = b[i]
    BY <1>2
  <2>2. a = b
    <3>1. a \in [1 .. Size -> Byte] /\ b \in [1 .. Size -> Byte]
      BY DEF Number
    <3>2. SameAt(Size, a, b)
      BY <2>1, <3>1 DEF SameAt
    <3> QED BY <3>2, SameBytes
  <2> QED BY <1>0, <1>1, <1>2, <2>2
<1>3. CASE differ # {}
  <2>1. first \in differ /\ \A j \in differ : first <= j
    <3>1. differ \in SUBSET Nat
      BY <1>0
    <3>2. \E i \in differ : \A j \in differ : i <= j
      BY <1>3, <3>1, Least
    <3> QED BY <3>2
  <2>2. Compare(a, b) = IF a[first] < b[first] THEN -1 ELSE 1
    BY <1>1, <1>3
  <2> HIDE DEF first
  <2>3. /\ first \in 1 .. Size /\ a[first] # b[first]
        /\ \A j \in 1 .. first - 1 : a[j] = b[j]
    <3>1. \A j \in 1 .. first - 1 : j \in 1 .. Size /\ ~(first <= j)
      BY <1>0, <2>1
    <3> QED BY <2>1, <3>1
  <2>4. a[first] \in Nat /\ b[first] \in Nat
    BY <2>3, Sizes DEF Number, Byte
  <2>5. a # b
    BY <2>3
  <2>6. CASE a[first] < b[first]
    <3>1. Value(a) < Value(b)
      BY <2>3, <2>6, FirstDecides
    <3> QED BY <1>0, <2>2, <2>5, <2>6, <3>1
  <2>7. CASE b[first] < a[first]
    <3>1. Value(b) < Value(a)
      BY <2>3, <2>7, FirstDecides
    <3>2. ~(a[first] < b[first])
      BY <2>4, <2>7
    <3> QED BY <1>0, <2>2, <2>5, <3>1, <3>2
  <2> QED BY <2>3, <2>4, <2>6, <2>7
<1> QED
  BY <1>2, <1>3

LEMMA OneNumberPerValue ==
  ASSUME NEW a \in Number, NEW b \in Number, Value(a) = Value(b)
  PROVE  a = b
<1>1. Value(a) \in Nat /\ Value(b) \in Nat
  BY ValueIs
<1>2. Compare(a, b) # -1 /\ Compare(a, b) # 1
  BY <1>1, CompareIsOrder
<1>3. Compare(a, b) \in {-1, 0, 1}
  BY DEF Compare
<1> QED
  BY <1>2, <1>3, CompareIsOrder

-----------------------------------------------------------------------------
(* Sums.                                                                   *)

(* Division with quotient and remainder.                                   *)
LEMMA Divides ==
  ASSUME NEW a \in Nat, NEW b \in Nat \ {0}
  PROVE  /\ a \div b \in Nat /\ a % b \in 0 .. b - 1
         /\ a = (a \div b) * b + (a % b)
OBVIOUS

LEMMA QuotientUnique ==
  ASSUME NEW b \in Nat \ {0}, NEW q \in Nat, NEW r \in 0 .. b - 1
  PROVE  (q * b + r) \div b = q /\ (q * b + r) % b = r
<1>1. q * b + r \in Nat
  OBVIOUS
<1> DEFINE p == (q * b + r) \div b
           t == (q * b + r) % b
<1>2. /\ p \in Nat /\ t \in 0 .. b - 1
      /\ q * b + r = p * b + t
  BY <1>1, Divides
<1> HIDE DEF p, t
<1>3. ~(q > p)
  <2> SUFFICES ASSUME q > p PROVE FALSE
    OBVIOUS
  <2>1. PICK d \in Nat \ {0} : q = p + d
    BY <1>2, q - p \in Nat \ {0}, q = p + (q - p)
  <2>2. t = d * b + r /\ d * b >= b /\ d * b \in Nat
    BY <1>2, <2>1
  <2> QED BY <1>2, <2>2
<1>4. ~(p > q)
  <2> SUFFICES ASSUME p > q PROVE FALSE
    OBVIOUS
  <2>1. PICK d \in Nat \ {0} : p = q + d
    BY <1>2, p - q \in Nat \ {0}, p = q + (p - q)
  <2>2. r = d * b + t /\ d * b >= b /\ d * b \in Nat
    BY <1>2, <2>1
  <2> QED BY <1>2, <2>2
<1>6. q = p
  BY <1>2, <1>3, <1>4
<1>7. t = r
  BY <1>2, <1>6
<1> QED
  BY <1>6, <1>7 DEF p, t

Division(a, b, d, e) == d \in Nat /\ e \in 0 .. b - 1 /\ a = d * b + e

LEMMA Quotients == \A a \in Nat : \A b \in Nat \ {0} : Division(a, b, a \div b, a % b)
BY Divides DEF Division

LEMMA OnlyQuotient ==
  \A a \in Nat : \A b \in Nat \ {0} : \A d, e :
    Division(a, b, d, e) => a \div b = d /\ a % b = e
<1> SUFFICES ASSUME NEW a \in Nat, NEW b \in Nat \ {0}, NEW d, NEW e, Division(a, b, d, e)
             PROVE  a \div b = d /\ a % b = e
  OBVIOUS
<1>1. d \in Nat /\ e \in 0 .. b - 1 /\ a = d * b + e
  BY DEF Division
<1> QED
  BY <1>1, QuotientUnique

(* The sums of uint256_add() before they are cut to a byte.                *)
TempsAre(a, b, g) ==
  g = [i \in 1 .. Size |-> a[i] + b[i] + (IF i = Size THEN 0 ELSE g[i + 1] \div Radix)]

Temp(a, b) == CHOOSE g : TempsAre(a, b, g)

(* What place k passes on to the next.                                     *)
CarryOf(a, b, k) == IF k = 0 THEN 0 ELSE Temp(a, b)[Size - k + 1] \div Radix

LEMMA TempIs ==
  ASSUME NEW a \in Number, NEW b \in Number
  PROVE  /\ \A k \in 1 .. Size : Temp(a, b)[Size - k + 1] \in Nat
         /\ \A k \in 1 .. Size :
              Temp(a, b)[Size - k + 1] = Place(a, k) + Place(b, k) + CarryOf(a, b, k - 1)
<1>0. /\ Numeral(a) /\ Len(a) = Size /\ Numeral(b) /\ Len(b) = Size
      /\ Size \in Nat /\ Radix \in Nat \ {0}
  BY NumberIs, Sizes
<1> DEFINE temp == Temp(a, b)
<1>1. TempsAre(a, b, temp)
  <2> DEFINE step == [p \in (1 .. Size) \X Nat |-> Place(a, p[1]) + Place(b, p[1]) + (p[2] \div Radix)]
  <2>1. step \in [(1 .. Size) \X Nat -> Nat]
    <3>1. \A k \in 1 .. Size : Place(a, k) \in Nat /\ Place(b, k) \in Nat
      BY <1>0, PlaceIs
    <3>2. \A x \in Nat : x \div Radix \in Nat
      BY <1>0
    <3> QED BY <3>1, <3>2
  <2>2. \A k \in 1 .. Size : \A x \in Nat :
          step[<<k, x>>] = Place(a, k) + Place(b, k) + (x \div Radix)
    OBVIOUS
  <2> HIDE DEF step
  <2>3. PICK f \in [0 .. Size -> Nat] : RecursionOf(Size, 0, step, f)
    BY <1>0, <2>1, RecursionExists
  <2> DEFINE g == [i \in 1 .. Size |-> f[Size - i + 1]]
  <2>4. ASSUME NEW i \in 1 .. Size
        PROVE  g[i] = a[i] + b[i] + (IF i = Size THEN 0 ELSE g[i + 1] \div Radix)
    <3> DEFINE k == Size - i + 1
    <3>1. /\ k \in 1 .. Size /\ k \in 0 .. Size /\ k - 1 \in 0 .. Size /\ Size - k + 1 = i
          /\ k - 1 = Size - i /\ g[i] = f[k] /\ (i = Size <=> k - 1 = 0)
      BY <1>0
    <3>2. i # Size => i + 1 \in 1 .. Size /\ g[i + 1] = f[k - 1]
      <4>1. i # Size => i + 1 \in 1 .. Size /\ Size - (i + 1) + 1 = k - 1
        BY <1>0
      <4> QED BY <4>1
    <3> HIDE DEF k, g
    <3>3. f[k] = step[<<k, f[k - 1]>>] /\ f[0] = 0
      <4>1. k # 0 /\ 0 \in 0 .. Size
        BY <1>0, <3>1
      <4>2. \A j \in 0 .. Size : f[j] = IF j = 0 THEN 0 ELSE step[<<j, f[j - 1]>>]
        BY <2>3, ZenonT(20) DEF RecursionOf
      <4> QED BY <3>1, <4>1, <4>2
    <3>4. f[k] = Place(a, k) + Place(b, k) + (f[k - 1] \div Radix)
      BY <2>2, <3>1, <3>3
    <3>5. Place(a, k) = a[i] /\ Place(b, k) = b[i]
      BY <1>0, <3>1 DEF Place
    <3>6. 0 \div Radix = 0
      BY <1>0
    <3> QED BY <3>1, <3>2, <3>3, <3>4, <3>5, <3>6
  <2>5. TempsAre(a, b, g)
    <3>1. g = [i \in 1 .. Size |-> g[i]]
      OBVIOUS
    <3> HIDE DEF g
    <3> QED BY <2>4, <3>1 DEF TempsAre
  <2> QED BY <2>5 DEF Temp
<1> HIDE DEF temp
<1>2. ASSUME NEW k \in 1 .. Size
      PROVE  temp[Size - k + 1] = Place(a, k) + Place(b, k) + CarryOf(a, b, k - 1)
  <2> DEFINE i == Size - k + 1
  <2>1. i \in 1 .. Size /\ (i = Size <=> k - 1 = 0) /\ i + 1 = Size - (k - 1) + 1
    BY <1>0
  <2>2. Place(a, k) = a[i] /\ Place(b, k) = b[i]
    BY <1>0 DEF Place
  <2>3. CarryOf(a, b, k - 1) = IF k - 1 = 0 THEN 0 ELSE temp[Size - (k - 1) + 1] \div Radix
    BY DEF CarryOf, temp
  <2> HIDE DEF i
  <2>4. temp[i] = a[i] + b[i] + (IF i = Size THEN 0 ELSE temp[i + 1] \div Radix)
    BY <1>1, <2>1, ZenonT(20) DEF TempsAre
  <2>5. temp[i] = Place(a, k) + Place(b, k) + CarryOf(a, b, k - 1)
    BY <2>1, <2>2, <2>3, <2>4
  <2> QED BY <2>5 DEF i
<1> DEFINE P == {k \in 0 .. Size : k # 0 => temp[Size - k + 1] \in Nat}
<1>3. Inductive(Size, P)
  <2>1. 0 \in P
    BY <1>0
  <2>2. ASSUME NEW k \in 1 .. Size, k - 1 \in P PROVE k \in P
    <3>1. CarryOf(a, b, k - 1) \in Nat
      <4>1. CASE k - 1 = 0
        BY <4>1 DEF CarryOf
      <4>2. CASE k - 1 # 0
        <5> DEFINE t == temp[Size - (k - 1) + 1]
        <5>1. t \in Nat
          BY <2>2, <4>2
        <5>2. CarryOf(a, b, k - 1) = t \div Radix
          BY <4>2 DEF CarryOf, temp
        <5> HIDE DEF t
        <5> QED BY <1>0, <5>1, <5>2
      <4> QED BY <4>1, <4>2
    <3>2. Place(a, k) \in Nat /\ Place(b, k) \in Nat /\ k \in 0 .. Size
      BY <1>0, PlaceIs
    <3> QED BY <1>2, <3>1, <3>2
  <2> QED BY <2>1, <2>2 DEF Inductive
<1>4. \A k \in 0 .. Size : k # 0 => temp[Size - k + 1] \in Nat
  BY <1>0, <1>3, Climb
<1>5. \A k \in 1 .. Size : k \in 0 .. Size /\ k # 0
  BY <1>0
<1> QED
  BY <1>2, <1>4, <1>5 DEF temp

(* Each place keeps its sum modulo the base and passes the rest on.        *)
LEMMA AddIs ==
  ASSUME NEW a \in Number, NEW b \in Number
  PROVE  /\ Add(a, b) \in Number
         /\ CarryOf(a, b, 0) = 0
         /\ \A k \in 1 .. Size :
              /\ CarryOf(a, b, k) \in Nat /\ CarryOf(a, b, k - 1) \in Nat
              /\ Place(a, k) + Place(b, k) + CarryOf(a, b, k - 1)
                   = CarryOf(a, b, k) * Radix + Place(Add(a, b), k)
<1> DEFINE temp == Temp(a, b)
<1>0. Size \in Nat /\ Radix \in Nat \ {0}
  BY Sizes
<1>1. Add(a, b) = [i \in 1 .. Size |-> temp[i] % Radix]
  BY DEF Add, Temp, TempsAre
<1>2. \A i \in 1 .. Size : temp[i] \in Nat
  <2> SUFFICES ASSUME NEW i \in 1 .. Size PROVE temp[i] \in Nat
    OBVIOUS
  <2>1. Size - i + 1 \in 1 .. Size /\ Size - (Size - i + 1) + 1 = i
    BY <1>0
  <2> QED BY <2>1, TempIs
<1>3. Add(a, b) \in Number
  <2>1. \A i \in 1 .. Size : temp[i] % Radix \in Byte
    BY <1>0, <1>2 DEF Byte
  <2> QED BY <1>1, <2>1 DEF Number
<1>4. CarryOf(a, b, 0) = 0
  BY DEF CarryOf
<1>5. ASSUME NEW k \in 0 .. Size PROVE CarryOf(a, b, k) \in Nat
  <2>1. CASE k = 0
    BY <1>4, <2>1
  <2>2. CASE k # 0
    <3> DEFINE t == temp[Size - k + 1]
    <3>1. Size - k + 1 \in 1 .. Size
      BY <1>0, <2>2
    <3>2. t \in Nat /\ CarryOf(a, b, k) = t \div Radix
      BY <1>2, <2>2, <3>1 DEF CarryOf
    <3> HIDE DEF t
    <3> QED BY <1>0, <3>2
  <2> QED BY <2>1, <2>2
<1>6. ASSUME NEW k \in 1 .. Size
      PROVE  Place(a, k) + Place(b, k) + CarryOf(a, b, k - 1)
               = CarryOf(a, b, k) * Radix + Place(Add(a, b), k)
  <2> DEFINE t == temp[Size - k + 1]
  <2>1. Size - k + 1 \in 1 .. Size /\ k # 0
    BY <1>0
  <2>2. Place(Add(a, b), k) = t % Radix
    <3>1. Len(Add(a, b)) = Size
      BY <1>3, NumberIs
    <3> QED BY <1>1, <2>1, <3>1 DEF Place
  <2>3. CarryOf(a, b, k) = t \div Radix
    BY <2>1 DEF CarryOf
  <2>4. t = Place(a, k) + Place(b, k) + CarryOf(a, b, k - 1) /\ t \in Nat
    BY TempIs
  <2> HIDE DEF t
  <2>5. t = (t \div Radix) * Radix + (t % Radix)
    BY <1>0, <2>4, Divides
  <2> QED BY <2>2, <2>3, <2>4, <2>5
<1>7. \A k \in 1 .. Size : k \in 0 .. Size /\ k - 1 \in 0 .. Size
  BY <1>0
<1> QED
  BY <1>3, <1>4, <1>5, <1>6, <1>7

(* One place: w is its weight, x, y and z the values below it, d, e and h  *)
(* its bytes, c and g the carry into it and out of it.                     *)
Carried(w, x, y, z, d, e, h, c, g) ==
  /\ w \in Nat /\ x \in Nat /\ y \in Nat /\ z \in Nat
  /\ d \in Nat /\ e \in Nat /\ h \in Nat /\ c \in Nat /\ g \in Nat
  /\ z + c * w = x + y
  /\ d + e + c = g * Radix + h

CarriedUp(w, x, y, z, d, e, h, g) ==
  (z + h * w) + g * (Radix * w) = (x + d * w) + (y + e * w)

LEMMA CarryUp ==
  \A w, x, y, z, d, e, h, c, g :
    Carried(w, x, y, z, d, e, h, c, g) => CarriedUp(w, x, y, z, d, e, h, g)
<1> SUFFICES ASSUME NEW w, NEW x, NEW y, NEW z, NEW d, NEW e, NEW h, NEW c, NEW g,
                    Carried(w, x, y, z, d, e, h, c, g)
             PROVE  CarriedUp(w, x, y, z, d, e, h, g)
  OBVIOUS
<1>0. /\ Radix \in Nat
      /\ w \in Nat /\ x \in Nat /\ y \in Nat /\ z \in Nat
      /\ d \in Nat /\ e \in Nat /\ h \in Nat /\ c \in Nat /\ g \in Nat
  BY Sizes DEF Carried
<1>1. z + c * w = x + y /\ d + e + c = g * Radix + h
  BY DEF Carried
<1>2. (d + e + c) * w = d * w + e * w + c * w
  BY <1>0
<1>3. (g * Radix + h) * w = g * (Radix * w) + h * w
  BY <1>0
<1>4. g * (Radix * w) + h * w = d * w + e * w + c * w
  BY <1>1, <1>2, <1>3
<1>5. g * (Radix * w) \in Nat /\ h * w \in Nat /\ d * w \in Nat /\ e * w \in Nat /\ c * w \in Nat
  BY <1>0
<1>6. (z + h * w) + g * (Radix * w) = (x + d * w) + (y + e * w)
  BY <1>0, <1>1, <1>4, <1>5
<1> QED
  BY <1>6 DEF CarriedUp

(* uint256_add() is addition modulo 2^256: every carry reaches its byte,   *)
(* over any number of bytes, and only the last is lost.                    *)
THEOREM AddIsSum ==
  \A a, b \in Number :
    /\ Add(a, b) \in Number
    /\ Value(Add(a, b)) = (Value(a) + Value(b)) % Weight[Size]
<1> SUFFICES ASSUME NEW a \in Number, NEW b \in Number
             PROVE  /\ Add(a, b) \in Number
                    /\ Value(Add(a, b)) = (Value(a) + Value(b)) % Weight[Size]
  OBVIOUS
<1> DEFINE s == Add(a, b)
           carry(k) == CarryOf(a, b, k)
           P == {k \in 0 .. Size :
                   Low(s)[k] + carry(k) * Weight[k] = Low(a)[k] + Low(b)[k]}
<1>0. /\ s \in Number /\ Numeral(s) /\ Len(s) = Size
      /\ Numeral(a) /\ Len(a) = Size /\ Numeral(b) /\ Len(b) = Size /\ Size \in Nat
      /\ Size \in 1 .. Size
  BY AddIs, NumberIs, Sizes
<1>1. Inductive(Size, P)
  <2>1. 0 \in P
    <3>1. Low(s)[0] = 0 /\ Low(a)[0] = 0 /\ Low(b)[0] = 0
      BY <1>0, LowIs
    <3>2. carry(0) = 0 /\ Weight[0] = 1
      BY AddIs, WeightIs
    <3> QED BY <1>0, <3>1, <3>2
  <2>2. ASSUME NEW k \in 1 .. Size, k - 1 \in P PROVE k \in P
    <3> DEFINE w == Weight[k - 1]
               x == Low(a)[k - 1]
               y == Low(b)[k - 1]
               z == Low(s)[k - 1]
               d == Place(a, k)
               e == Place(b, k)
               h == Place(s, k)
               c == carry(k - 1)
               g == carry(k)
    <3>1. /\ w \in Nat /\ x \in Nat /\ y \in Nat /\ z \in Nat
          /\ d \in Nat /\ e \in Nat /\ h \in Nat
      <4>1. k - 1 \in 0 .. Size
        BY <1>0
      <4> QED BY <1>0, <4>1, LowIs, WeightIs, PlaceIs
    <3>2. c \in Nat /\ g \in Nat /\ d + e + c = g * Radix + h
      BY AddIs
    <3>3. z + c * w = x + y
      BY <2>2
    <3>4. /\ Low(a)[k] = x + d * w /\ Low(b)[k] = y + e * w /\ Low(s)[k] = z + h * w
          /\ Weight[k] = Radix * w
      BY <1>0, LowIs, WeightIs
    <3> HIDE DEF w, x, y, z, d, e, h, c
    <3>5. (z + h * w) + g * (Radix * w) = (x + d * w) + (y + e * w)
      <4> HIDE DEF g
      <4>1. Carried(w, x, y, z, d, e, h, c, g)
        BY <3>1, <3>2, <3>3 DEF Carried
      <4>2. CarriedUp(w, x, y, z, d, e, h, g)
        BY <4>1, CarryUp
      <4> QED BY <4>2 DEF CarriedUp
    <3>6. k \in 0 .. Size
      BY <1>0
    <3> QED BY <3>4, <3>5, <3>6
  <2> QED BY <2>1, <2>2 DEF Inductive
<1>2. Low(s)[Size] + carry(Size) * Weight[Size] = Low(a)[Size] + Low(b)[Size]
  BY <1>0, <1>1, Climb
<1> DEFINE m == Weight[Size]
           v == Value(s)
           g == carry(Size)
<1>3. /\ v + g * m = Value(a) + Value(b)
      /\ v \in 0 .. m - 1 /\ g \in Nat /\ m \in Nat \ {0}
  <2>1. m \in Nat \ {0} /\ g \in Nat
    BY <1>0, WeightIs, AddIs
  <2>2. v = Low(s)[Size] /\ v \in Nat /\ v < m
    BY <1>0, ValueIs
  <2>3. Value(a) = Low(a)[Size] /\ Value(b) = Low(b)[Size]
    BY ValueIs
  <2> QED BY <1>2, <2>1, <2>2, <2>3
<1> HIDE DEF m, v, g
<1>4. (Value(a) + Value(b)) % m = v
  <2>1. (g * m + v) % m = v
    BY <1>3, QuotientUnique
  <2>2. g * m \in Nat /\ v \in Nat
    BY <1>3
  <2>3. v + g * m = g * m + v
    BY <2>2
  <2> QED BY <1>3, <2>1, <2>3
<1> QED
  BY <1>0, <1>4 DEF m, v

LEMMA OneIs == One \in Number /\ Value(One) = 1
<1> DEFINE s == <<1>>
<1>1. Numeral(s) /\ Len(s) = 1 /\ Place(s, 1) = 1
  BY Sizes DEF Numeral, Place, Byte
<1> HIDE DEF s
<1>2. Low(s)[1] = Low(s)[0] + Place(s, 1) * Weight[0] /\ Low(s)[0] = 0 /\ Weight[0] = 1
  <2>1. \A k \in 1 .. 1 : Low(s)[k] = Low(s)[k - 1] + Place(s, k) * Weight[k - 1]
    BY <1>1, LowIs
  <2>2. 1 \in 1 .. 1 /\ 1 - 1 = 0
    OBVIOUS
  <2> QED BY <1>1, <2>1, <2>2, LowIs, WeightIs
<1>3. Value(s) = 1
  BY <1>1, <1>2 DEF Value
<1> QED
  BY <1>1, <1>3, WidenedIs, ValueOfWidened DEF One, s

-----------------------------------------------------------------------------
(* The bytes hashed.                                                       *)

LEMMA TailIs ==
  ASSUME NEW v \in Tail8
  PROVE  Numeral(v) /\ Len(v) = Hashed /\ Value(v) \in Nat /\ Value(v) < Weight[Hashed]
<1>1. Numeral(v) /\ Len(v) = Hashed /\ Hashed \in 0 .. Len(v)
  BY Sizes DEF Tail8, Numeral
<1> QED
  BY <1>1, LowIs DEF Value

LEMMA HashedIs ==
  ASSUME NEW n \in Number, NEW v \in Tail8,
         \A k \in 1 .. Hashed : Place(n, k) = Place(v, k)
  PROVE  HashedNonce(n) = v
<1> DEFINE t == HashedNonce(n)
<1>0. Size \in Nat /\ Hashed \in Nat /\ Hashed <= Size /\ Len(n) = Size /\ n \in Seq(Byte) /\ Len(v) = Hashed
  BY Sizes, NumberIs, TailIs DEF Numeral
<1>1. /\ t \in Seq(Byte) /\ Len(t) = Hashed
      /\ \A i \in 1 .. Hashed : t[i] = n[Size - Hashed + i]
  <2> DEFINE from == Size - Hashed + 1
  <2>1. from \in 1 .. Size + 1 /\ Size - from + 1 = Hashed
    BY <1>0
  <2>2. t = SubSeq(n, from, Size)
    BY DEF HashedNonce
  <2>3. \A i \in 1 .. Hashed : from + i - 1 = Size - Hashed + i
    BY <1>0
  <2> HIDE DEF from, t
  <2>4. t \in Seq(Byte) /\ Len(t) = Hashed
    BY <1>0, <2>1, <2>2
  <2>5. \A i \in 1 .. Hashed : t[i] = n[from + i - 1]
    BY <1>0, <2>1, <2>2
  <2> QED BY <2>3, <2>4, <2>5
<1> HIDE DEF t
<1>2. ASSUME NEW i \in 1 .. Hashed PROVE t[i] = v[i]
  <2> DEFINE k == Hashed - i + 1
  <2>1. k \in 1 .. Hashed /\ Size - k + 1 = Size - Hashed + i /\ Hashed - k + 1 = i
    BY <1>0
  <2>2. Place(n, k) = n[Size - k + 1] /\ Place(v, k) = v[Hashed - k + 1]
    BY <1>0 DEF Place
  <2> HIDE DEF k
  <2>3. Place(n, k) = n[Size - Hashed + i] /\ Place(v, k) = v[i]
    BY <2>1, <2>2
  <2> QED BY <1>1, <2>1, <2>3
<1>3. t \in [1 .. Hashed -> Byte] /\ v \in [1 .. Hashed -> Byte]
  BY <1>1 DEF Tail8
<1>4. SameAt(Hashed, t, v)
  BY <1>2, <1>3 DEF SameAt
<1> QED
  BY <1>4, SameBytes DEF t

(* The same bytes are hashed of a nonce that is 2^64 higher.               *)
LEMMA OneAbove ==
  ASSUME NEW v \in Tail8
  PROVE  /\ Widened(<<1>> \o v) \in Number
         /\ Value(Widened(<<1>> \o v)) = Value(v) + Weight[Hashed]
         /\ HashedNonce(Widened(<<1>> \o v)) = v
<1> DEFINE s == <<1>> \o v
<1>0. Hashed \in Nat /\ Numeral(v) /\ Len(v) = Hashed /\ Hashed + 1 <= Size /\ v \in Seq(Byte)
  BY Sizes, TailIs DEF Numeral
<1>1. /\ s \in Seq(Byte) /\ Len(s) = Hashed + 1 /\ s[1] = 1
      /\ \A i \in 1 .. Hashed : s[i + 1] = v[i]
  <2>1. <<1>> \in Seq(Byte) /\ Len(<<1>>) = 1 /\ <<1>>[1] = 1
    BY Sizes DEF Byte
  <2> QED BY <1>0, <2>1
<1> HIDE DEF s
<1>2. Numeral(s)
  BY <1>0, <1>1 DEF Numeral
<1>3. Place(s, Hashed + 1) = 1
  <2>1. (Hashed + 1) - (Hashed + 1) + 1 = 1
    BY <1>0
  <2> QED BY <1>1, <2>1 DEF Place
<1>4. ASSUME NEW k \in 1 .. Hashed PROVE Place(s, k) = Place(v, k)
  <2> DEFINE i == Hashed - k + 1
  <2>1. i \in 1 .. Hashed /\ Hashed + 1 - k + 1 = i + 1
    BY <1>0
  <2>2. Place(s, k) = s[i + 1] /\ Place(v, k) = v[i]
    BY <1>0, <1>1, <2>1 DEF Place
  <2> HIDE DEF i
  <2> QED BY <1>1, <2>1, <2>2
<1>5. Value(s) = Value(v) + Weight[Hashed]
  <2>1. Low(s)[Hashed] = Low(v)[Hashed]
    BY <1>0, <1>1, <1>2, <1>4, SameLow
  <2>2. Hashed + 1 \in 1 .. Len(s) /\ (Hashed + 1) - 1 = Hashed
    BY <1>0, <1>1
  <2>3. Low(s)[Hashed + 1] = Low(s)[Hashed] + Place(s, Hashed + 1) * Weight[Hashed]
    BY <1>2, <2>2, LowIs
  <2>4. Weight[Hashed] \in Nat
    BY WeightIs, Sizes
  <2> QED BY <1>0, <1>1, <1>3, <2>1, <2>3, <2>4 DEF Value
<1>6. \A k \in 1 .. Hashed : Place(Widened(s), k) = Place(v, k)
  BY <1>0, <1>1, <1>2, <1>4, WidenedIs
<1> QED
  BY <1>2, <1>5, <1>6, WidenedIs, ValueOfWidened, HashedIs DEF s

LEMMA HashedOfWidened ==
  ASSUME NEW v \in Tail8
  PROVE  Widened(v) \in Number /\ HashedNonce(Widened(v)) = v /\ Value(Widened(v)) = Value(v)
BY TailIs, WidenedIs, HashedIs, ValueOfWidened

-----------------------------------------------------------------------------
(* The text of a nonce.                                                    *)

LEMMA FcnIsSeq ==
  ASSUME NEW m \in Nat, NEW S, NEW f \in [1 .. m -> S]
  PROVE  f \in Seq(S) /\ Len(f) = m
OBVIOUS

(* The last bytes are those put there, whatever their values.              *)
LEMMA LastBytes ==
  ASSUME NEW S, NEW t \in [1 .. Hashed -> S]
  PROVE  HashedNonce(Widened(t)) = t
<1> DEFINE T == S \cup {0}
           u == Size - Hashed
           n == Widened(t)
           r == HashedNonce(n)
<1>0. /\ Size \in Nat /\ Hashed \in Nat /\ u \in Nat /\ u <= Size
      /\ t \in Seq(T) /\ Len(t) = Hashed /\ Size = u + Hashed
  BY Sizes, FcnIsSeq
<1> HIDE DEF u
<1>1. Zero \in Seq(T) /\ Len(Zero) = Size
  <2>1. Zero \in [1 .. Size -> T]
    BY DEF Zero
  <2> QED BY <1>0, <2>1, FcnIsSeq
<1> HIDE DEF T
<1>2. SubSeq(Zero, 1, u) \in Seq(T) /\ Len(SubSeq(Zero, 1, u)) = u
  BY <1>0, <1>1
<1>3. n = SubSeq(Zero, 1, u) \o t
  BY <1>0 DEF Widened, u
<1>4. /\ n \in Seq(T) /\ Len(n) = Size
      /\ \A i \in 1 .. Hashed : n[u + i] = t[i]
  <2> HIDE DEF n
  <2>1. \A i \in 1 .. Hashed : u + i \in u + 1 .. u + Hashed /\ (u + i) - u = i
    BY <1>0
  <2>2. \A k \in u + 1 .. u + Hashed : n[k] = t[k - u]
    BY <1>0, <1>2, <1>3
  <2>3. n \in Seq(T)
    BY <1>0, <1>2, <1>3
  <2>4. Len(n) = Size
    BY <1>0, <1>2, <1>3
  <2>5. \A i \in 1 .. Hashed : n[u + i] = t[i]
    BY <2>1, <2>2
  <2> QED BY <2>3, <2>4, <2>5
<1> HIDE DEF n
<1>5. /\ r \in Seq(T) /\ Len(r) = Hashed
      /\ \A i \in 1 .. Hashed : r[i] = n[u + i]
  <2> DEFINE from == Size - Hashed + 1
  <2>1. from \in 1 .. Size + 1 /\ Size - from + 1 = Hashed /\ from = u + 1
    BY <1>0
  <2>2. r = SubSeq(n, from, Size)
    BY DEF HashedNonce
  <2>3. \A i \in 1 .. Hashed : from + i - 1 = u + i
    BY <1>0, <2>1
  <2> HIDE DEF from, r
  <2>4. r \in Seq(T) /\ Len(r) = Hashed
    BY <1>0, <1>4, <2>1, <2>2
  <2>5. \A i \in 1 .. Hashed : r[i] = n[from + i - 1]
    BY <1>0, <1>4, <2>1, <2>2
  <2> QED BY <2>3, <2>4, <2>5
<1> HIDE DEF r
<1>6. r \in [1 .. Hashed -> T] /\ t \in [1 .. Hashed -> T]
  BY <1>0, <1>5
<1>7. \A i \in 1 .. Hashed : r[i] = t[i]
  BY <1>4, <1>5
<1>8. r = t
  <2>1. SameAt(Hashed, r, t)
    BY <1>6, <1>7 DEF SameAt
  <2> QED BY <2>1, SameBytes
<1> QED
  BY <1>8 DEF r, n

LEMMA Halves ==
  ASSUME NEW j \in Nat
  PROVE  /\ (2 * j) \div 2 = j /\ (2 * j) % 2 = 0
         /\ (2 * j + 1) \div 2 = j /\ (2 * j + 1) % 2 = 1
OBVIOUS

(* getval() undoes getcharacter().                                         *)
LEMMA DigitsDiffer ==
  ASSUME NEW m \in 0 .. 15, NEW n \in 0 .. 15, Digits[m + 1] = Digits[n + 1]
  PROVE  m = n
BY DEF Digits

LEMMA GetValIs ==
  ASSUME NEW n \in 0 .. 15, NEW garbage
  PROVE  GetVal(GetCharacter(n), garbage) = n
<1> DEFINE places == {m \in 0 .. 15 : Digits[m + 1] = GetCharacter(n)}
<1>1. places = {n}
  BY DigitsDiffer DEF GetCharacter
<1>2. GetVal(GetCharacter(n), garbage) = CHOOSE m \in places : TRUE
  BY <1>1 DEF GetVal
<1> QED
  BY <1>1, <1>2

(* Both digits of a byte.                                                  *)
LEMMA PairIs ==
  ASSUME NEW b \in Byte, NEW garbage
  PROVE  (GetVal(GetCharacter(b \div 16), garbage) * 16
           + GetVal(GetCharacter(b % 16), garbage)) % 256 = b
<1>1. b \in Nat /\ b <= 255
  BY Sizes DEF Byte
<1>2. b \div 16 \in 0 .. 15 /\ b % 16 \in 0 .. 15 /\ ((b \div 16) * 16 + (b % 16)) % 256 = b
  BY <1>1
<1> QED
  BY <1>2, GetValIs

(* The byte that ctob() makes of pair j.                                   *)
Pair(text, j, garbage) ==
  (GetVal(text[2 * j - 1], garbage) * 16 + GetVal(text[2 * j], garbage)) % 256

LEMMA CtobIs ==
  ASSUME NEW text, NEW S, text \in [1 .. 2 * Hashed -> S], NEW garbage
  PROVE  HashedNonce(Ctob(text, garbage)) = [j \in 1 .. Hashed |-> Pair(text, j, garbage)]
<1> DEFINE t == [j \in 1 .. Hashed |-> Pair(text, j, garbage)]
<1>1. Len(text) = 2 * Hashed /\ Len(text) \div 2 = Hashed
  BY Sizes, FcnIsSeq, Halves
<1>2. Ctob(text, garbage) = Widened(t)
  BY <1>1 DEF Ctob, Pair
<1>3. t \in [1 .. Hashed -> {t[j] : j \in 1 .. Hashed}]
  OBVIOUS
<1> HIDE DEF t
<1>4. HashedNonce(Widened(t)) = t
  BY <1>3, LastBytes
<1> QED
  BY <1>2, <1>4 DEF t

(* The digits that work() writes of the bytes hashed.                      *)
LEMMA BtocIs ==
  ASSUME NEW v \in Tail8
  PROVE  /\ Btoc(v) \in [1 .. 2 * Hashed -> {Btoc(v)[k] : k \in 1 .. 2 * Hashed}]
         /\ \A garbage : \A j \in 1 .. Hashed : Pair(Btoc(v), j, garbage) = v[j]
<1> DEFINE digit(k) == LET byte == v[(k + 1) \div 2]
                       IN  GetCharacter(IF k % 2 = 1 THEN byte \div 16 ELSE byte % 16)
<1>0. Len(v) = Hashed /\ Hashed \in Nat
  BY TailIs, Sizes
<1>1. Btoc(v) = [k \in 1 .. 2 * Hashed |-> digit(k)]
  BY <1>0 DEF Btoc
<1>2. ASSUME NEW j \in 1 .. Hashed, NEW garbage PROVE Pair(Btoc(v), j, garbage) = v[j]
  <2>1. /\ 2 * j - 1 \in 1 .. 2 * Hashed /\ 2 * j \in 1 .. 2 * Hashed /\ j \in Nat
        /\ (2 * j - 1) + 1 = 2 * j /\ 2 * j - 1 = 2 * (j - 1) + 1 /\ j - 1 \in Nat
    BY <1>0
  <2>2. /\ ((2 * j - 1) + 1) \div 2 = j /\ (2 * j - 1) % 2 = 1
        /\ (2 * j + 1) \div 2 = j /\ (2 * j) % 2 = 0
    BY <2>1, Halves
  <2>3. /\ digit(2 * j - 1) = GetCharacter(v[j] \div 16)
        /\ digit(2 * j) = GetCharacter(v[j] % 16)
    BY <2>2
  <2>4. /\ Btoc(v)[2 * j - 1] = GetCharacter(v[j] \div 16)
        /\ Btoc(v)[2 * j] = GetCharacter(v[j] % 16)
    <3> HIDE DEF digit
    <3> QED BY <1>1, <2>1, <2>3
  <2>5. v[j] \in Byte
    BY DEF Tail8
  <2> QED BY <2>4, <2>5, PairIs DEF Pair
<1> QED
  BY <1>1, <1>2

(* The solution read back, with a character in place i that is no digit:   *)
(* the bytes of other places come back as they were.                       *)
LEMMA ReadBack ==
  ASSUME NEW v \in Tail8, NEW garbage
  PROVE  /\ HashedNonce(Ctob(Btoc(v), garbage)) = v
         /\ \A i \in 1 .. Len(Btoc(v)), j \in 1 .. Hashed :
              j # (i + 1) \div 2 => HashedNonce(Ctob(Misspelt(Btoc(v), i), garbage))[j] = v[j]
<1> DEFINE text == Btoc(v)
           S == {text[k] : k \in 1 .. 2 * Hashed}
           U == S \cup {"?"}
<1>0. Hashed \in Nat /\ text \in [1 .. 2 * Hashed -> S] /\ Len(text) = 2 * Hashed
  BY BtocIs, Sizes, FcnIsSeq
<1>1. HashedNonce(Ctob(text, garbage)) = v
  <2> DEFINE t == [j \in 1 .. Hashed |-> Pair(text, j, garbage)]
  <2>1. HashedNonce(Ctob(text, garbage)) = t
    BY <1>0, CtobIs
  <2>2. \A j \in 1 .. Hashed : t[j] = v[j]
    BY BtocIs
  <2>3. t \in [1 .. Hashed -> Byte] /\ v \in [1 .. Hashed -> Byte]
    <3>1. v \in [1 .. Hashed -> Byte]
      BY DEF Tail8
    <3>2. \A j \in 1 .. Hashed : Pair(text, j, garbage) \in Byte
      BY <3>1, BtocIs
    <3> QED BY <3>1, <3>2
  <2> HIDE DEF t
  <2>4. t = v
    <3>1. SameAt(Hashed, t, v)
      BY <2>2, <2>3 DEF SameAt
    <3> QED BY <3>1, SameBytes
  <2> QED BY <2>1, <2>4
<1>2. ASSUME NEW i \in 1 .. Len(text), NEW j \in 1 .. Hashed, j # (i + 1) \div 2
      PROVE  HashedNonce(Ctob(Misspelt(text, i), garbage))[j] = v[j]
  <2> DEFINE bad == Misspelt(text, i)
  <2>1. /\ bad \in [1 .. 2 * Hashed -> U]
        /\ \A k \in 1 .. 2 * Hashed : k # i => bad[k] = text[k]
    BY <1>0 DEF Misspelt
  <2> HIDE DEF bad, S, U
  <2>2. HashedNonce(Ctob(bad, garbage))[j] = Pair(bad, j, garbage)
    <3>1. HashedNonce(Ctob(bad, garbage)) = [k \in 1 .. Hashed |-> Pair(bad, k, garbage)]
      BY <2>1, CtobIs
    <3> QED BY <3>1
  <2>3. /\ 2 * j - 1 \in 1 .. 2 * Hashed /\ 2 * j \in 1 .. 2 * Hashed
        /\ 2 * j - 1 # i /\ 2 * j # i
    <3>1. j \in Nat /\ (2 * j - 1) + 1 = 2 * j
      BY <1>0
    <3>2. ((2 * j - 1) + 1) \div 2 = j /\ (2 * j + 1) \div 2 = j
      BY <3>1, Halves
    <3>3. 2 * j - 1 # i /\ 2 * j # i
      BY <1>2, <3>2
    <3> QED BY <1>0, <3>3
  <2>4. Pair(bad, j, garbage) = Pair(text, j, garbage)
    BY <2>1, <2>3 DEF Pair
  <2>5. Pair(text, j, garbage) = v[j]
    BY BtocIs
  <2> QED BY <2>2, <2>4, <2>5 DEF bad
<1> QED
  BY <1>1, <1>2

(* The bytes of a number whose last ones are t.                            *)
LEMMA WidenedAt ==
  ASSUME NEW S, NEW t \in [1 .. Hashed -> S]
  PROVE  \A k \in 1 .. Size :
           Widened(t)[k] = IF k <= Size - Hashed THEN 0 ELSE t[k - (Size - Hashed)]
<1> DEFINE T == S \cup {0}
           u == Size - Hashed
           z == SubSeq(Zero, 1, u)
<1>0. Size \in Nat /\ Hashed \in Nat /\ u \in Nat /\ u <= Size /\ u + Hashed = Size
  BY Sizes
<1>1. t \in Seq(T) /\ Len(t) = Hashed
  BY <1>0, FcnIsSeq
<1>2. Zero \in Seq(T) /\ Len(Zero) = Size /\ \A i \in 1 .. Size : Zero[i] = 0
  BY <1>0 DEF Zero
<1>3. Widened(t) = z \o t
  BY <1>1 DEF Widened
<1> HIDE DEF T, u
<1>4. z \in Seq(T) /\ Len(z) = u /\ \A i \in 1 .. u : z[i] = 0
  BY <1>0, <1>2
<1> HIDE DEF z
<1>5. /\ \A k \in 1 .. u : Widened(t)[k] = 0
      /\ \A k \in u + 1 .. u + Hashed : Widened(t)[k] = t[k - u]
  <2> DEFINE n == Widened(t)
  <2>1. n = z \o t
    BY <1>3
  <2> HIDE DEF n
  <2>2. \A k \in 1 .. u : n[k] = z[k]
    BY <1>0, <1>1, <1>4, <2>1
  <2>3. \A k \in u + 1 .. u + Hashed : n[k] = t[k - u]
    BY <1>0, <1>1, <1>4, <2>1
  <2> QED BY <1>4, <2>2, <2>3 DEF n
<1>6. ASSUME NEW k \in 1 .. Size PROVE Widened(t)[k] = IF k <= u THEN 0 ELSE t[k - u]
  <2>1. CASE k <= u
    <3>1. k \in 1 .. u
      BY <1>0, <2>1
    <3> QED BY <1>5, <2>1, <3>1
  <2>2. CASE ~(k <= u)
    <3>1. k \in u + 1 .. u + Hashed
      BY <1>0, <2>2
    <3> QED BY <1>5, <2>2, <3>1
  <2> QED BY <2>1, <2>2
<1> QED
  BY <1>6 DEF u

(* The text of the bytes hashed is read as the number they are of, but for *)
(* the byte one of whose digits is none.                                   *)
THEOREM TextIsNumber ==
  ASSUME NEW v \in Tail8, NEW garbage, NEW i \in 0 .. 2 * Hashed
  PROVE  \A k \in 1 .. Size :
           i = 0 \/ k # Size - Hashed + (i + 1) \div 2
             => Ctob(Misspelt(Btoc(v), i), garbage)[k] = Widened(v)[k]
<1> DEFINE text == Btoc(v)
           bad == Misspelt(text, i)
           t == [j \in 1 .. Hashed |-> Pair(bad, j, garbage)]
           S == {t[j] : j \in 1 .. Hashed}
           u == Size - Hashed
           h == (i + 1) \div 2
<1>0. /\ Hashed \in Nat /\ Size \in Nat /\ u \in Nat /\ u + Hashed = Size /\ i \in Nat
      /\ Len(text) = 2 * Hashed
  BY BtocIs, Sizes, FcnIsSeq
<1>1. bad = [k \in 1 .. 2 * Hashed |-> IF k = i THEN "?" ELSE text[k]]
  BY <1>0 DEF Misspelt
<1>2. Len(bad) = 2 * Hashed /\ Len(bad) \div 2 = Hashed
  <2>1. bad \in [1 .. 2 * Hashed -> {text[k] : k \in 1 .. 2 * Hashed} \cup {"?"}]
    BY <1>1
  <2>2. Len(bad) = 2 * Hashed
    BY <1>0, <2>1, FcnIsSeq
  <2> QED BY <1>0, <2>2, Halves
<1>3. Ctob(bad, garbage) = Widened(t)
  BY <1>2 DEF Ctob, Pair
<1>4. t \in [1 .. Hashed -> S]
  OBVIOUS
<1>5. \A k \in 1 .. Size :
        /\ Widened(t)[k] = IF k <= u THEN 0 ELSE t[k - u]
        /\ Widened(v)[k] = IF k <= u THEN 0 ELSE v[k - u]
  <2> HIDE DEF t, S
  <2>1. v \in [1 .. Hashed -> Byte]
    BY DEF Tail8
  <2> QED BY <1>4, <2>1, WidenedAt
<1>6. ASSUME NEW j \in 1 .. Hashed, i = 0 \/ j # h PROVE t[j] = v[j]
  <2>1. /\ 2 * j - 1 \in 1 .. 2 * Hashed /\ 2 * j \in 1 .. 2 * Hashed
        /\ 2 * j - 1 # i /\ 2 * j # i
    <3>1. j \in Nat /\ (2 * j - 1) + 1 = 2 * j /\ 2 * j - 1 # 0 /\ 2 * j # 0
      BY <1>0
    <3>2. ((2 * j - 1) + 1) \div 2 = j /\ (2 * j + 1) \div 2 = j
      BY <3>1, Halves
    <3>3. 2 * j - 1 # i /\ 2 * j # i
      BY <1>6, <3>1, <3>2
    <3> QED BY <1>0, <3>3
  <2>2. bad[2 * j - 1] = text[2 * j - 1] /\ bad[2 * j] = text[2 * j]
    BY <1>1, <2>1
  <2> HIDE DEF bad
  <2>3. t[j] = Pair(text, j, garbage)
    BY <2>2 DEF Pair
  <2> QED BY <2>3, BtocIs
<1> SUFFICES ASSUME NEW k \in 1 .. Size, i = 0 \/ k # u + h
             PROVE  Ctob(bad, garbage)[k] = Widened(v)[k]
  OBVIOUS
<1>7. CASE k <= u
  BY <1>3, <1>5, <1>7
<1>8. CASE ~(k <= u)
  <2> DEFINE j == k - u
  <2>1. j \in 1 .. Hashed
    BY <1>0, <1>8
  <2>2. i = 0 \/ j # h
    <3>1. h \in Nat
      BY <1>0
    <3> HIDE DEF h, u
    <3> QED BY <1>0, <3>1
  <2> HIDE DEF j, t, h
  <2>3. t[j] = v[j]
    BY <1>6, <2>1, <2>2
  <2> QED BY <1>3, <1>5, <1>8, <2>3 DEF j
<1> QED
  BY <1>7, <1>8

-----------------------------------------------------------------------------
(* Powers of two, and the bits of a byte.                                  *)

LEMMA TwoGrows ==
  /\ \A k \in 0 .. ExpBits : Two[k] \in Nat \ {0}
  /\ \A k \in 0 .. ExpBits : k < Two[k]
<1> DEFINE P == {k \in 0 .. ExpBits : Two[k] \in Nat \ {0} /\ k < Two[k]}
<1>1. Inductive(ExpBits, P)
  <2>1. 0 \in P
    BY TwoIs
  <2>2. ASSUME NEW k \in 1 .. ExpBits, k - 1 \in P PROVE k \in P
    <3>1. k - 1 \in 0 .. ExpBits - 1 /\ (k - 1) + 1 = k /\ k \in 0 .. ExpBits
      BY TwoIs
    <3>2. Two[k] = 2 * Two[k - 1] /\ Two[k - 1] \in Nat \ {0} /\ k - 1 < Two[k - 1]
      BY <2>2, <3>1, TwoIs
    <3> QED BY <3>1, <3>2
  <2> QED BY <2>1, <2>2 DEF Inductive
<1> QED
  BY <1>1, Climb, TwoIs

LEMMA TwoSum ==
  \A i, j \in Nat : i + j <= ExpBits => Two[i + j] = Two[i] * Two[j]
<1> SUFFICES ASSUME NEW i \in Nat, NEW n \in Nat, i + n <= ExpBits
             PROVE  Two[i + n] = Two[i] * Two[n]
  OBVIOUS
<1> DEFINE P == {k \in 0 .. n : Two[i + k] = Two[i] * Two[k]}
<1>1. Inductive(n, P)
  <2>1. 0 \in P
    <3>1. i \in 0 .. ExpBits
      BY TwoIs
    <3> QED BY <3>1, TwoIs
  <2>2. ASSUME NEW k \in 1 .. n, k - 1 \in P PROVE k \in P
    <3>1. /\ i + (k - 1) \in 0 .. ExpBits - 1 /\ (i + (k - 1)) + 1 = i + k
          /\ k - 1 \in 0 .. ExpBits - 1 /\ (k - 1) + 1 = k /\ i \in 0 .. ExpBits
      BY TwoIs
    <3>2. Two[i + k] = 2 * Two[i + (k - 1)] /\ Two[k] = 2 * Two[k - 1]
      BY <3>1, TwoIs
    <3>3. Two[i + (k - 1)] = Two[i] * Two[k - 1]
      BY <2>2
    <3>4. Two[i] \in Nat /\ Two[k - 1] \in Nat
      BY <3>1, TwoIs
    <3>5. 2 * (Two[i] * Two[k - 1]) = Two[i] * (2 * Two[k - 1])
      BY <3>4
    <3> QED BY <3>2, <3>3, <3>5
  <2> QED BY <2>1, <2>2 DEF Inductive
<1> QED
  BY <1>1, Climb

Splits(m, i, j) == i \in Nat /\ j \in Nat /\ m = i + j /\ m <= ExpBits

LEMMA TwoSplit ==
  \A m, i, j : Splits(m, i, j) =>
    /\ Two[m] = Two[i] * Two[j]
    /\ Two[m] \in Nat \ {0} /\ Two[i] \in Nat \ {0} /\ Two[j] \in Nat \ {0} /\ j < Two[j]
<1> SUFFICES ASSUME NEW m, NEW i, NEW j, Splits(m, i, j)
             PROVE  /\ Two[m] = Two[i] * Two[j]
                    /\ Two[m] \in Nat \ {0} /\ Two[i] \in Nat \ {0} /\ Two[j] \in Nat \ {0} /\ j < Two[j]
  OBVIOUS
<1>1. i \in Nat /\ j \in Nat /\ m = i + j /\ i + j <= ExpBits
  BY DEF Splits
<1>2. m \in 0 .. ExpBits /\ i \in 0 .. ExpBits /\ j \in 0 .. ExpBits
  BY <1>1, TwoIs
<1> QED
  BY <1>1, <1>2, TwoSum, TwoGrows

(* A number up to its place k + 1 is what it is up to place k, and the bit *)
(* between.                                                                *)
LEMMA NextBit ==
  ASSUME NEW x \in Nat, NEW k \in 0 .. ExpBits - 1
  PROVE  /\ BitAt(x, k) \in {0, 1}
         /\ x % Two[k + 1] = (x % Two[k]) + BitAt(x, k) * Two[k]
<1> DEFINE w == Two[k]
           q == x \div w
           r == x % w
           b == q % 2
           h == q \div 2
<1>1. w \in Nat \ {0} /\ Two[k + 1] = 2 * w
  BY TwoGrows, TwoIs
<1>2. q \in Nat /\ r \in 0 .. w - 1 /\ x = q * w + r
  BY <1>1, Divides
<1>3. BitAt(x, k) = b
  BY DEF BitAt
<1> HIDE DEF q, r, w
<1>4. h \in Nat /\ b \in {0, 1} /\ q = h * 2 + b
  BY <1>2
<1> HIDE DEF h, b
<1>5. x = h * (2 * w) + (b * w + r)
  <2>1. q * w = h * (2 * w) + b * w
    BY <1>1, <1>4
  <2> QED BY <1>1, <1>2, <1>4, <2>1
<1>6. b * w + r \in 0 .. 2 * w - 1
  BY <1>1, <1>2, <1>4
<1>7. x % (2 * w) = b * w + r
  <2>1. Division(x, 2 * w, h, b * w + r) /\ 2 * w \in Nat \ {0}
    BY <1>1, <1>4, <1>5, <1>6 DEF Division
  <2> QED BY <2>1, OnlyQuotient
<1> QED
  BY <1>1, <1>2, <1>3, <1>4, <1>7 DEF r, w

(* The bits of a power of two.                                             *)
LEMMA BitOfPower ==
  \A m, k \in Nat : m <= ExpBits /\ k <= ExpBits =>
    BitAt(Two[m], k) = IF m = k THEN 1 ELSE 0
<1> SUFFICES ASSUME NEW m \in Nat, NEW k \in Nat, m <= ExpBits, k <= ExpBits
             PROVE  BitAt(Two[m], k) = IF m = k THEN 1 ELSE 0
  OBVIOUS
<1>0. Two[m] \in Nat \ {0} /\ Two[k] \in Nat \ {0}
  BY TwoGrows
<1>1. CASE m >= k
  <2> DEFINE d == m - k
  <2>1. d \in Nat /\ k + d = m /\ d <= ExpBits
    BY <1>1, TwoIs
  <2> HIDE DEF d
  <2>2. Two[m] = Two[k] * Two[d] /\ Two[d] \in Nat
    <3>1. Splits(m, k, d)
      BY <2>1 DEF Splits
    <3> QED BY <3>1, <2>1, TwoSplit
  <2>3. Two[m] = Two[d] * Two[k] + 0 /\ 0 \in 0 .. Two[k] - 1
    BY <1>0, <2>2
  <2>4. Two[m] \div Two[k] = Two[d]
    BY <1>0, <2>2, <2>3, QuotientUnique
  <2>5. d = 0 => Two[d] % 2 = 1
    BY TwoIs
  <2>6. d # 0 => Two[d] % 2 = 0
    <3> SUFFICES ASSUME d # 0 PROVE Two[d] % 2 = 0
      OBVIOUS
    <3>1. d - 1 \in 0 .. ExpBits - 1 /\ (d - 1) + 1 = d
      BY <2>1, TwoIs
    <3>2. Two[d] = 2 * Two[d - 1] /\ Two[d - 1] \in Nat
      BY <3>1, TwoIs
    <3> QED BY <3>2
  <2> QED BY <2>1, <2>4, <2>5, <2>6 DEF BitAt
<1>2. CASE m < k
  <2> DEFINE d == k - m
  <2>1. d \in Nat /\ d # 0 /\ m + d = k /\ d <= ExpBits
    BY <1>2, TwoIs
  <2> HIDE DEF d
  <2>2. Two[k] = Two[m] * Two[d] /\ Two[d] \in Nat /\ d < Two[d]
    <3>1. Splits(k, m, d)
      BY <2>1 DEF Splits
    <3> QED BY <3>1, <2>1, TwoSplit
  <2>3. Two[m] < Two[k]
    BY <1>0, <2>1, <2>2
  <2>4. Two[m] \div Two[k] = 0
    BY <1>0, <2>3, QuotientUnique, Two[m] = 0 * Two[k] + Two[m], Two[m] \in 0 .. Two[k] - 1
  <2> QED BY <1>2, <2>4 DEF BitAt
<1> QED
  BY <1>1, <1>2

(* The bits of two bytes up to place k.                                    *)
OrsAre(x, y, g) ==
  g = [k \in 0 .. Width |->
         IF k = 0 THEN 0
         ELSE g[k - 1] + (IF BitAt(x, k - 1) + BitAt(y, k - 1) = 0 THEN 0 ELSE Two[k - 1])]

OrLow(x, y) == CHOOSE g : OrsAre(x, y, g)

LEMMA OrIs ==
  ASSUME NEW x \in Nat, NEW y \in Nat
  PROVE  /\ Or(x, y) = OrLow(x, y)[Width]
         /\ OrLow(x, y)[0] = 0
         /\ \A k \in 0 .. Width - 1 :
              OrLow(x, y)[k + 1] = OrLow(x, y)[k]
                + (IF BitAt(x, k) + BitAt(y, k) = 0 THEN 0 ELSE Two[k])
         /\ \A k \in 0 .. Width : OrLow(x, y)[k] \in Nat /\ OrLow(x, y)[k] < Two[k]
<1> DEFINE low == OrLow(x, y)
           bit(k) == IF BitAt(x, k) + BitAt(y, k) = 0 THEN 0 ELSE Two[k]
<1>0. Width \in Nat /\ Width <= ExpBits /\ ExpBits \in Nat
  BY SmallPowers
<1>1. \A k \in 0 .. Width : Two[k] \in Nat /\ bit(k) \in Nat /\ bit(k) <= Two[k]
  BY <1>0, TwoIs
<1> HIDE DEF bit
<1>2. OrsAre(x, y, low)
  <2> DEFINE step == [p \in (1 .. Width) \X Nat |-> p[2] + bit(p[1] - 1)]
  <2>1. step \in [(1 .. Width) \X Nat -> Nat]
    <3>1. \A k \in 1 .. Width : bit(k - 1) \in Nat
      BY <1>0, <1>1
    <3> QED BY <3>1
  <2>2. \A k \in 1 .. Width : \A z \in Nat : step[<<k, z>>] = z + bit(k - 1)
    OBVIOUS
  <2> HIDE DEF step
  <2>3. PICK g \in [0 .. Width -> Nat] : RecursionOf(Width, 0, step, g)
    BY <1>0, <2>1, RecursionExists
  <2>4. \A k \in 0 .. Width : k # 0 => step[<<k, g[k - 1]>>] = g[k - 1] + bit(k - 1)
    <3> SUFFICES ASSUME NEW k \in 0 .. Width, k # 0
                 PROVE  step[<<k, g[k - 1]>>] = g[k - 1] + bit(k - 1)
      OBVIOUS
    <3>1. k \in 1 .. Width /\ k - 1 \in 0 .. Width
      BY <1>0
    <3> QED BY <2>2, <3>1
  <2>5. OrsAre(x, y, g)
    BY <2>3, <2>4 DEF RecursionOf, OrsAre, bit
  <2> QED BY <2>5 DEF OrLow
<1>3. Or(x, y) = low[Width]
  BY DEF Or, OrLow, OrsAre
<1> HIDE DEF low
<1>4. \A k \in 0 .. Width : low[k] = IF k = 0 THEN 0 ELSE low[k - 1] + bit(k - 1)
  BY <1>2, ZenonT(20) DEF OrsAre, bit
<1>5. low[0] = 0
  BY <1>0, <1>4
<1>6. \A k \in 0 .. Width - 1 : low[k + 1] = low[k] + bit(k)
  <2> SUFFICES ASSUME NEW k \in 0 .. Width - 1 PROVE low[k + 1] = low[k] + bit(k)
    OBVIOUS
  <2>1. k + 1 \in 0 .. Width /\ k + 1 # 0 /\ (k + 1) - 1 = k
    BY <1>0
  <2> QED BY <1>4, <2>1
<1> DEFINE P == {k \in 0 .. Width : low[k] \in Nat /\ low[k] < Two[k]}
<1>7. Inductive(Width, P)
  <2>1. 0 \in P
    BY <1>0, <1>5, TwoIs
  <2>2. ASSUME NEW k \in 1 .. Width, k - 1 \in P PROVE k \in P
    <3>1. k - 1 \in 0 .. Width - 1 /\ (k - 1) + 1 = k /\ k - 1 \in 0 .. ExpBits - 1 /\ k - 1 \in 0 .. Width
      BY <1>0
    <3>2. low[k] = low[k - 1] + bit(k - 1) /\ Two[k] = 2 * Two[k - 1]
      BY <1>6, <3>1, TwoIs
    <3>3. low[k - 1] \in Nat /\ low[k - 1] < Two[k - 1]
      BY <2>2
    <3>4. bit(k - 1) \in Nat /\ bit(k - 1) <= Two[k - 1] /\ Two[k - 1] \in Nat
      BY <1>1, <3>1
    <3> QED BY <3>2, <3>3, <3>4
  <2> QED BY <2>1, <2>2 DEF Inductive
<1>8. \A k \in 0 .. Width : low[k] \in Nat /\ low[k] < Two[k]
  BY <1>0, <1>7, Climb
<1> QED
  BY <1>3, <1>5, <1>6, <1>8 DEF low, bit

(* Bytes with no bit in common: one is a multiple of a power of two that   *)
(* the other is below.                                                     *)
LEMMA OrSum ==
  ASSUME NEW h \in 0 .. Width, NEW u \in Nat, NEW q \in Nat,
         q < Two[h], u * Two[h] < Radix
  PROVE  Or(u * Two[h], q) = u * Two[h] + q
<1> DEFINE p == u * Two[h]
           low == OrLow(p, q)
           P == {k \in 0 .. Width : low[k] = (p % Two[k]) + (q % Two[k])}
<1>0. /\ Width \in Nat /\ Width <= ExpBits /\ ExpBits \in Nat /\ h \in 0 .. ExpBits
      /\ Two[h] \in Nat \ {0} /\ p \in Nat
  <2>1. Width \in Nat /\ Width <= ExpBits /\ ExpBits \in Nat /\ h \in 0 .. ExpBits
    BY SmallPowers
  <2> QED BY <2>1, TwoGrows
<1>1. ASSUME NEW k \in 0 .. Width - 1 PROVE BitAt(p, k) = 0 \/ BitAt(q, k) = 0
  <2>0. k \in Nat /\ k <= ExpBits /\ Two[k] \in Nat \ {0}
    BY <1>0, TwoGrows
  <2>1. CASE k < h
    <3> DEFINE d == h - k - 1
    <3>1. d \in Nat /\ k + 1 \in Nat /\ (k + 1) + d = h /\ d \in 0 .. ExpBits /\ k \in 0 .. ExpBits - 1
      BY <1>0, <2>1
    <3> HIDE DEF d
    <3>2. Two[h] = Two[k + 1] * Two[d] /\ Two[k + 1] = 2 * Two[k] /\ Two[d] \in Nat
      <4>1. Splits(h, k + 1, d)
        BY <1>0, <3>1 DEF Splits
      <4> QED BY <4>1, <1>0, <3>1, TwoSplit, TwoIs
    <3>3. p = (2 * (u * Two[d])) * Two[k] + 0
      <4>1. u * ((2 * Two[k]) * Two[d]) = (2 * (u * Two[d])) * Two[k]
        BY <2>0, <3>2
      <4>2. p = u * ((2 * Two[k]) * Two[d])
        BY <3>2
      <4> QED BY <1>0, <4>1, <4>2
    <3>4. u * Two[d] \in Nat /\ 0 \in 0 .. Two[k] - 1
      BY <2>0, <3>2
    <3> DEFINE v == u * Two[d]
    <3>5. v \in Nat /\ p = (2 * v) * Two[k] + 0
      BY <3>3, <3>4
    <3> HIDE DEF v, p
    <3>6. p \div Two[k] = 2 * v
      BY <2>0, <3>4, <3>5, QuotientUnique, 2 * v \in Nat
    <3> QED BY <3>5, <3>6 DEF BitAt
  <2>2. CASE k >= h
    <3> DEFINE d == k - h
    <3>1. d \in Nat /\ h + d = k /\ d \in 0 .. ExpBits
      BY <1>0, <2>2
    <3> HIDE DEF d
    <3>2. Two[k] = Two[h] * Two[d] /\ Two[d] \in Nat \ {0}
      <4>1. Splits(k, h, d)
        BY <1>0, <3>1, <2>0 DEF Splits
      <4> QED BY <4>1, <1>0, <3>1, <2>0, TwoSplit
    <3>3. Two[h] <= Two[k]
      BY <1>0, <3>2
    <3>4. q = 0 * Two[k] + q /\ q \in 0 .. Two[k] - 1
      BY <1>0, <2>0, <3>3
    <3>5. q \div Two[k] = 0
      BY <2>0, <3>4, QuotientUnique
    <3> QED BY <3>5 DEF BitAt
  <2> QED BY <1>0, <2>1, <2>2
<1>2. p % Two[0] = 0 /\ q % Two[0] = 0
  BY <1>0, TwoIs
<1> HIDE DEF p
<1>3. Inductive(Width, P)
  <2>1. 0 \in P
    BY <1>0, <1>2, OrIs
  <2>2. ASSUME NEW k \in 1 .. Width, k - 1 \in P PROVE k \in P
    <3> DEFINE j == k - 1
    <3>1. j \in 0 .. Width - 1 /\ j + 1 = k /\ j \in 0 .. ExpBits - 1 /\ k \in 0 .. Width /\ j \in 0 .. Width
      BY <1>0
    <3>2. low[j] = (p % Two[j]) + (q % Two[j])
      BY <2>2
    <3> HIDE DEF j
    <3>3. low[k] = low[j] + (IF BitAt(p, j) + BitAt(q, j) = 0 THEN 0 ELSE Two[j])
      BY <1>0, <3>1, OrIs
    <3>4. /\ BitAt(p, j) \in {0, 1} /\ p % Two[k] = (p % Two[j]) + BitAt(p, j) * Two[j]
          /\ BitAt(q, j) \in {0, 1} /\ q % Two[k] = (q % Two[j]) + BitAt(q, j) * Two[j]
      BY <1>0, <3>1, NextBit
    <3>5. Two[j] \in Nat \ {0} /\ p % Two[j] \in Nat /\ q % Two[j] \in Nat
      <4>1. Two[j] \in Nat \ {0}
        BY <1>0, <3>1, j \in 0 .. ExpBits, TwoGrows
      <4>2. p % Two[j] \in 0 .. Two[j] - 1
        BY <1>0, <4>1, Divides
      <4>3. q % Two[j] \in 0 .. Two[j] - 1
        BY <4>1, Divides
      <4> QED BY <4>1, <4>2, <4>3
    <3> DEFINE bp == BitAt(p, j)
               bq == BitAt(q, j)
               w == Two[j]
               rp == p % Two[j]
               rq == q % Two[j]
    <3>6. bp \in {0, 1} /\ bq \in {0, 1} /\ (bp = 0 \/ bq = 0) /\ w \in Nat /\ rp \in Nat /\ rq \in Nat
      BY <1>1, <3>1, <3>4, <3>5
    <3>7. /\ low[k] = (rp + rq) + (IF bp + bq = 0 THEN 0 ELSE w)
          /\ p % Two[k] = rp + bp * w /\ q % Two[k] = rq + bq * w
      <4>1. low[k] = ((p % Two[j]) + (q % Two[j]))
                       + (IF BitAt(p, j) + BitAt(q, j) = 0 THEN 0 ELSE Two[j])
        BY <3>2, <3>3
      <4> QED BY <3>4, <4>1
    <3> HIDE DEF bp, bq, w, rp, rq, low
    <3>8. (rp + rq) + (IF bp + bq = 0 THEN 0 ELSE w) = (rp + bp * w) + (rq + bq * w)
      BY <3>6
    <3> QED BY <3>1, <3>7, <3>8
  <2> QED BY <2>1, <2>2 DEF Inductive
<1>4. low[Width] = (p % Radix) + (q % Radix)
  <2>1. Width \in P
    BY <1>0, <1>3, Climb
  <2> QED BY <2>1 DEF Radix
<1>5. Two[h] <= Radix
  <2> DEFINE d == Width - h
  <2>1. d \in Nat /\ h + d = Width /\ d \in 0 .. ExpBits
    BY <1>0
  <2> HIDE DEF d
  <2>2. Radix = Two[h] * Two[d] /\ Two[d] \in Nat \ {0}
    <3>1. Splits(Width, h, d)
      BY <1>0, <2>1 DEF Splits
    <3> QED BY <3>1, <1>0, <2>1, TwoSplit DEF Radix
  <2> QED BY <1>0, <2>2
<1>6. p % Radix = p /\ q % Radix = q
  <2>1. p \in Nat /\ p < Radix /\ q < Radix
    BY <1>0, <1>5, Sizes DEF p
  <2>2. Division(p, Radix, 0, p) /\ Division(q, Radix, 0, q) /\ Radix \in Nat \ {0}
    BY <2>1, Sizes DEF Division
  <2> QED BY <2>1, <2>2, OnlyQuotient
<1>7. Or(p, q) = low[Width]
  BY <1>0, OrIs
<1>8. Or(p, q) = p + q
  BY <1>4, <1>6, <1>7
<1> QED
  BY <1>8 DEF p

-----------------------------------------------------------------------------
(* Shifts.                                                                 *)

LEMMA TwoLess ==
  \A m, n \in Nat : m < n /\ n <= ExpBits => Two[m] < Two[n]
<1> SUFFICES ASSUME NEW m \in Nat, NEW n \in Nat, m < n, n <= ExpBits PROVE Two[m] < Two[n]
  OBVIOUS
<1> DEFINE d == n - m
<1>1. Splits(n, m, d) /\ d >= 1
  BY DEF Splits
<1> HIDE DEF d
<1>2. /\ Two[n] = Two[m] * Two[d] /\ d < Two[d]
      /\ Two[m] \in Nat \ {0} /\ Two[d] \in Nat /\ d \in Nat
  BY <1>1, TwoSplit DEF Splits
<1>3. Two[d] >= 2
  BY <1>1, <1>2
<1> QED
  BY <1>2, <1>3

(* The byte and the bit in it that hold place s of a number.               *)
LEMMA PlaceOfBit ==
  ASSUME NEW s \in Nat
  PROVE  /\ s \div Width \in Nat /\ s % Width \in 0 .. Width - 1
         /\ s = Width * (s \div Width) + (s % Width)
         /\ s < Bits <=> s \div Width < Size
         /\ Width \in Nat /\ Width >= 1 /\ Bits \in Nat /\ Width + Width <= Bits
         /\ Size \in Nat /\ Size >= 2
<1>1. Width \in {1, 2, 4, 8} /\ Size \in Nat /\ Size >= 2 /\ Bits = Size * Width
  BY SmallPowers, Sizes DEF Bits
<1>2. CASE Width = 1
  BY <1>1, <1>2
<1>3. CASE Width = 2
  BY <1>1, <1>3
<1>4. CASE Width = 4
  BY <1>1, <1>4
<1>5. CASE Width = 8
  BY <1>1, <1>5
<1> QED
  BY <1>1, <1>2, <1>3, <1>4, <1>5

(* The only division of a place into byte and bit.                         *)
LEMMA OnlyPlace ==
  ASSUME NEW c \in Nat, NEW m \in 0 .. Width - 1
  PROVE  (Width * c + m) \div Width = c /\ (Width * c + m) % Width = m
<1>1. Width \in {1, 2, 4, 8}
  BY SmallPowers
<1>2. CASE Width = 1
  BY <1>2
<1>3. CASE Width = 2
  BY <1>3
<1>4. CASE Width = 4
  BY <1>4
<1>5. CASE Width = 8
  BY <1>5
<1> QED
  BY <1>1, <1>2, <1>3, <1>4, <1>5

LEMMA SamePlaces ==
  ASSUME NEW a \in Number, NEW b \in Number,
         \A k \in 1 .. Size : Place(a, k) = Place(b, k)
  PROVE  a = b
<1>1. Len(a) = Size /\ Len(b) = Size /\ Size \in Nat
  BY NumberIs, Sizes
<1>2. ASSUME NEW i \in 1 .. Size PROVE a[i] = b[i]
  <2>1. Size - i + 1 \in 1 .. Size /\ Size - (Size - i + 1) + 1 = i
    BY <1>1
  <2>2. Place(a, Size - i + 1) = Place(b, Size - i + 1)
    BY <2>1
  <2> QED BY <1>1, <2>1, <2>2 DEF Place
<1>3. a = [i \in 1 .. Size |-> a[i]] /\ b = [i \in 1 .. Size |-> b[i]]
  BY DEF Number
<1>4. SameAt(Size, a, b)
  BY <1>2, <1>3 DEF SameAt
<1> QED
  BY <1>4, SameBytes

LEMMA ZeroIs == Zero \in Number /\ \A k \in 1 .. Size : Place(Zero, k) = 0
<1>1. Zero \in Number /\ Len(Zero) = Size /\ Size \in Nat
  BY Sizes DEF Zero, Number, Byte
<1>2. ASSUME NEW k \in 1 .. Size PROVE Place(Zero, k) = 0
  <2>1. Size - k + 1 \in 1 .. Size
    BY <1>1
  <2> QED BY <1>1, <2>1 DEF Place, Zero
<1> QED
  BY <1>1, <1>2

LEMMA OrByte ==
  ASSUME NEW x \in Nat, NEW y \in Nat
  PROVE  Or(x, y) \in Byte
<1>1. Width \in 0 .. Width
  BY SmallPowers
<1>2. Or(x, y) \in Nat /\ Or(x, y) < Radix
  BY <1>1, OrIs DEF Radix
<1> QED
  BY <1>2, Sizes DEF Byte

LEMMA OrNothing ==
  ASSUME NEW x \in Byte
  PROVE  Or(x, 0) = x
<1>1. x \in Nat /\ x < Radix /\ Two[0] = 1 /\ 0 \in 0 .. Width /\ x * Two[0] = x
  BY Sizes, SmallPowers DEF Byte
<1>2. x * Two[0] < Radix /\ 0 < Two[0]
  BY <1>1
<1>3. Or(x * Two[0], 0) = x * Two[0] + 0
  BY <1>1, <1>2, OrSum
<1> QED
  BY <1>1, <1>3

LEMMA CarryIsNat ==
  ASSUME NEW x \in Nat, NEW move \in 0 .. Width
  PROVE  Carry(x, move) \in Nat
<1>1. Width - move \in 0 .. ExpBits /\ move \in 0 .. ExpBits
  BY SmallPowers
<1>2. Two[Width - move] \in Nat \ {0} /\ Two[move] \in Nat \ {0}
  BY <1>1, TwoGrows
<1> DEFINE w == Two[Width - move]
           q == x \div w
           r == x % w
<1>w. w \in Nat \ {0}
  BY <1>2
<1> HIDE DEF w
<1>3. q \in Nat /\ r \in Nat /\ x = q * w + r
  BY <1>w, Divides
<1>4. q * w \in Nat
  BY <1>w, <1>3
<1> HIDE DEF q, r
<1>5. x - r \in Nat
  BY <1>3, <1>4
<1>6. (x - r) \div Two[move] \in Nat
  BY <1>2, <1>5, Divides
<1> QED
  BY <1>6 DEF Carry, r, w

(* What is carried into the byte in place k, and what it becomes, as many  *)
(* bytes higher as the shift says.                                         *)
CarriedInto(a, move, k) ==
  IF k = 1 \/ move = 0 THEN 0 ELSE Carry(Place(a, k - 1), move)

ByteShifted(a, move, k) == Or((Place(a, k) * Two[move]) % Radix, CarriedInto(a, move, k))

LEMMA ByteShiftedIs ==
  ASSUME NEW a \in Number, NEW move \in 0 .. Width, NEW k \in 1 .. Size
  PROVE  /\ ByteShifted(a, move, k) \in Byte
         /\ (Place(a, k) * Two[move]) % Radix \in Byte
<1>0. Numeral(a) /\ Len(a) = Size /\ Size \in Nat /\ move \in 0 .. ExpBits
  BY NumberIs, Sizes, SmallPowers
<1>1. Place(a, k) \in Nat /\ Two[move] \in Nat /\ Radix \in Nat \ {0}
  BY <1>0, PlaceIs, TwoIs, Sizes
<1>2. Place(a, k) * Two[move] \in Nat
  BY <1>1
<1>3. (Place(a, k) * Two[move]) % Radix \in 0 .. Radix - 1
  BY <1>1, <1>2, Divides
<1>4. k # 1 => Place(a, k - 1) \in Nat
  <2> SUFFICES ASSUME k # 1 PROVE Place(a, k - 1) \in Nat
    OBVIOUS
  <2>1. k - 1 \in 1 .. Len(a)
    BY <1>0
  <2> QED BY <1>0, <2>1, PlaceIs
<1>5. CarriedInto(a, move, k) \in Nat
  BY <1>4, CarryIsNat DEF CarriedInto
<1>6. ByteShifted(a, move, k) \in Byte
  BY <1>1, <1>3, <1>5, OrByte DEF ByteShifted
<1> QED
  BY <1>3, <1>6 DEF Byte

LEMMA Joined ==
  ASSUME NEW S, NEW s \in Seq(S), NEW t \in Seq(S)
  PROVE  /\ s \o t \in Seq(S) /\ Len(s \o t) = Len(s) + Len(t)
         /\ \A i \in 1 .. Len(s) : (s \o t)[i] = s[i]
         /\ \A i \in Len(s) + 1 .. Len(s) + Len(t) : (s \o t)[i] = t[i - Len(s)]
OBVIOUS

LEMMA SlIs ==
  ASSUME NEW res \in Number, NEW a \in Number, NEW s \in Nat, s < Bits
  PROVE  /\ Sl(res, a, s) \in Number
         /\ \A k \in 1 .. s \div Width : Place(Sl(res, a, s), k) = Place(res, k)
         /\ \A k \in 1 .. Size - s \div Width :
              Place(Sl(res, a, s), k + s \div Width) = ByteShifted(a, s % Width, k)
<1> DEFINE b == s \div Width
           move == s % Width
           n == Size - b
           carryInto(j) == IF j = Size \/ move = 0 THEN 0 ELSE Carry(a[j + 1], move)
           shifted == [i \in 1 .. n |-> Or((a[i + b] * Two[move]) % Radix, carryInto(i + b))]
           low == SubSeq(res, n + 1, Size)
           z == Sl(res, a, s)
<1>1. z = shifted \o low
  BY DEF Sl
<1>2. /\ b \in Nat /\ b < Size /\ Size \in Nat /\ move \in 0 .. Width
      /\ n \in Nat /\ n >= 1 /\ n + b = Size
      /\ Len(res) = Size /\ res \in Seq(Byte) /\ Len(a) = Size
  <2>1. Len(res) = Size /\ res \in Seq(Byte) /\ Len(a) = Size
    BY NumberIs DEF Numeral
  <2>2. /\ b \in Nat /\ b < Size /\ Size \in Nat /\ move \in 0 .. Width - 1 /\ Width \in Nat
    BY PlaceOfBit
  <2> HIDE DEF b, move
  <2> QED BY <2>1, <2>2
<1> HIDE DEF b, move, n
<1>3. ASSUME NEW i \in 1 .. n PROVE shifted[i] = ByteShifted(a, move, n - i + 1)
  <2> DEFINE k == n - i + 1
  <2>1. /\ k \in Nat /\ i \in Nat /\ k + i = n + 1
        /\ Size - k + 1 = i + b /\ Size - (k - 1) + 1 = (i + b) + 1
        /\ i + b = Size <=> k = 1
    BY <1>2
  <2> HIDE DEF k
  <2>2. Place(a, k) = a[i + b] /\ Place(a, k - 1) = a[(i + b) + 1]
    BY <1>2, <2>1 DEF Place
  <2>3. carryInto(i + b) = CarriedInto(a, move, k)
    BY <2>1, <2>2 DEF CarriedInto
  <2>4. shifted[i] = Or((a[i + b] * Two[move]) % Radix, carryInto(i + b))
    OBVIOUS
  <2> HIDE DEF shifted, carryInto
  <2>5. shifted[i] = ByteShifted(a, move, k)
    BY <2>2, <2>3, <2>4 DEF ByteShifted
  <2> QED BY <2>5 DEF k
<1>4. ASSUME NEW k \in 1 .. n PROVE ByteShifted(a, move, k) \in Byte
  <2>1. k \in 1 .. Size
    BY <1>2
  <2> QED BY <1>2, <2>1, ByteShiftedIs
<1>5. shifted \in Seq(Byte) /\ Len(shifted) = n
  <2>1. \A i \in 1 .. n : n - i + 1 \in 1 .. n
    BY <1>2
  <2>2. \A i \in 1 .. n : shifted[i] \in Byte
    BY <1>3, <1>4, <2>1
  <2>3. shifted = [i \in 1 .. n |-> shifted[i]]
    OBVIOUS
  <2> HIDE DEF shifted
  <2>4. shifted \in [1 .. n -> Byte]
    BY <2>2, <2>3
  <2> QED BY <1>2, <2>4, FcnIsSeq
<1> HIDE DEF shifted
<1>6. low \in Seq(Byte) /\ Len(low) = b /\ \A i \in 1 .. b : low[i] = res[n + i]
  <2>1. /\ n + 1 \in 1 .. Size + 1 /\ Size - (n + 1) + 1 = b
    BY <1>2
  <2>2. low \in Seq(Byte) /\ Len(low) = Size - (n + 1) + 1
    BY <1>2
  <2>3. \A i \in 1 .. b : low[i] = res[(n + 1) + i - 1]
    BY <1>2, <2>1
  <2> QED BY <1>2, <2>1, <2>2, <2>3
<1> HIDE DEF low
<1>7. /\ z \in Seq(Byte) /\ Len(z) = Size
      /\ \A i \in 1 .. n : z[i] = shifted[i]
      /\ \A i \in n + 1 .. Size : z[i] = low[i - n]
  <2>1. n \in Nat /\ b \in Nat /\ n + b = Size
    BY <1>2
  <2>2. shifted \in Seq(Byte) /\ Len(shifted) = n /\ low \in Seq(Byte) /\ Len(low) = b
    BY <1>5, <1>6
  <2> HIDE DEF z
  <2>3. /\ z \in Seq(Byte) /\ Len(z) = n + b
        /\ \A i \in 1 .. n : z[i] = shifted[i]
        /\ \A i \in n + 1 .. n + b : z[i] = low[i - n]
    BY <1>1, <2>2, Joined
  <2> QED BY <2>1, <2>3
<1>8. z \in Number
  BY <1>2, <1>7 DEF Number
<1>9. ASSUME NEW k \in 1 .. b PROVE Place(z, k) = Place(res, k)
  <2> DEFINE i == Size - k + 1
  <2>1. i \in n + 1 .. Size /\ i - n \in 1 .. b /\ n + (i - n) = i
    BY <1>2
  <2> HIDE DEF i
  <2>2. z[i] = res[i]
    BY <1>6, <1>7, <2>1
  <2> QED BY <1>2, <1>7, <2>2 DEF Place, i
<1>10. ASSUME NEW k \in 1 .. n PROVE Place(z, k + b) = ByteShifted(a, move, k)
  <2> DEFINE i == n - k + 1
  <2>1. i \in 1 .. n /\ n - i + 1 = k /\ Size - (k + b) + 1 = i
    BY <1>2
  <2> HIDE DEF i
  <2>2. z[i] = ByteShifted(a, move, k)
    BY <1>3, <1>7, <2>1
  <2> QED BY <1>7, <2>1, <2>2 DEF Place
<1> HIDE DEF z
<1> QED
  BY <1>8, <1>9, <1>10 DEF z, b, n, move

-----------------------------------------------------------------------------
(* Products by a number with no bit or one.                                *)

LEMMA AddZero ==
  ASSUME NEW x \in Number
  PROVE  Add(Zero, x) = x
<1>1. Value(Zero) = 0
  <2> DEFINE P == {k \in 0 .. Size : Low(Zero)[k] = 0}
  <2>1. Numeral(Zero) /\ Len(Zero) = Size /\ Size \in Nat
    BY ZeroIs, NumberIs, Sizes
  <2>2. Inductive(Size, P)
    <3>1. 0 \in P
      BY <2>1, LowIs
    <3>2. ASSUME NEW k \in 1 .. Size, k - 1 \in P PROVE k \in P
      <4>1. Low(Zero)[k] = Low(Zero)[k - 1] + Place(Zero, k) * Weight[k - 1]
        BY <2>1, LowIs
      <4>2. Low(Zero)[k - 1] = 0 /\ Place(Zero, k) = 0 /\ Weight[k - 1] \in Nat
        <5>1. k - 1 \in 0 .. Size
          BY <2>1
        <5> QED BY <3>2, <5>1, ZeroIs, WeightIs
      <4> QED BY <4>1, <4>2
    <3> QED BY <3>1, <3>2 DEF Inductive
  <2>3. Low(Zero)[Size] = 0
    BY <2>1, <2>2, Climb
  <2> QED BY <2>3, ZeroIs, ValueIs
<1>2. /\ Add(Zero, x) \in Number
      /\ Value(Add(Zero, x)) = (Value(Zero) + Value(x)) % Weight[Size]
  BY ZeroIs, AddIsSum
<1>3. Value(x) \in Nat /\ Value(x) < Weight[Size] /\ Weight[Size] \in Nat \ {0}
  BY ValueIs, WeightIs, Sizes
<1>4. Division(Value(x), Weight[Size], 0, Value(x))
  BY <1>3 DEF Division
<1>5. Value(x) % Weight[Size] = Value(x)
  BY <1>3, <1>4, OnlyQuotient
<1>6. Value(Add(Zero, x)) = Value(x)
  BY <1>1, <1>2, <1>3, <1>5
<1> QED
  BY <1>2, <1>6, OneNumberPerValue

(* The n-th bit of b that is set, and what the loop has after n of them.   *)
SetBit(b, n) ==
  CHOOSE k \in SetBits(b) : Cardinality({j \in SetBits(b) : j < k}) = n - 1

Shifting(a, k, s) ==
  [temp |-> Sl(s.temp, a, k), acc |-> Add(s.acc, Sl(s.temp, a, k))]

Empty == [temp |-> Zero, acc |-> Zero]

SumsAre(a, b, g) ==
  g = [n \in 0 .. Cardinality(SetBits(b)) |->
         IF n = 0 THEN Empty ELSE Shifting(a, SetBit(b, n), g[n - 1])]

LEMMA MulIs ==
  ASSUME NEW a, NEW b
  PROVE  Mul(a, b) = (CHOOSE g : SumsAre(a, b, g))[Cardinality(SetBits(b))].acc
BY DEF Mul, SumsAre, SetBit, Shifting, Empty

LEMMA MulNone ==
  ASSUME NEW a, NEW b, SetBits(b) = {}
  PROVE  Mul(a, b) = Zero
<1> DEFINE g == CHOOSE h : SumsAre(a, b, h)
<1>1. Cardinality(SetBits(b)) = 0
  BY FS_EmptySet
<1>2. SumsAre(a, b, g)
  <2>1. SumsAre(a, b, [n \in 0 .. 0 |-> Empty])
    BY <1>1 DEF SumsAre
  <2> QED BY <2>1
<1> HIDE DEF g
<1>3. g[0] = Empty
  BY <1>1, <1>2, 0 \in 0 .. 0 DEF SumsAre
<1> QED
  BY <1>1, <1>3, MulIs DEF g, Empty

LEMMA MulOne ==
  ASSUME NEW a \in Number, NEW b, NEW k \in Nat, k < Bits, SetBits(b) = {k}
  PROVE  Mul(a, b) = Sl(Zero, a, k)
<1> DEFINE g == CHOOSE h : SumsAre(a, b, h)
           z == Sl(Zero, a, k)
<1>1. Cardinality(SetBits(b)) = 1
  BY FS_Singleton
<1>2. SetBit(b, 1) = k
  <2>1. {j \in {k} : j < k} = {}
    OBVIOUS
  <2>2. Cardinality({j \in {k} : j < k}) = 1 - 1
    BY <2>1, FS_EmptySet
  <2>3. SetBit(b, 1) = CHOOSE i \in {k} : Cardinality({j \in {k} : j < i}) = 1 - 1
    BY DEF SetBit
  <2> QED BY <2>2, <2>3
<1>3. SumsAre(a, b, g)
  <2> DEFINE h == [n \in 0 .. 1 |-> IF n = 0 THEN Empty ELSE Shifting(a, k, Empty)]
  <2>1. h = [n \in 0 .. 1 |-> IF n = 0 THEN Empty ELSE Shifting(a, SetBit(b, n), h[n - 1])]
    <3>1. \A n \in 0 .. 1 : n # 0 => n = 1 /\ n - 1 = 0
      OBVIOUS
    <3>2. h[0] = Empty
      OBVIOUS
    <3>3. \A n \in 0 .. 1 : n # 0 => Shifting(a, SetBit(b, n), h[n - 1]) = Shifting(a, k, Empty)
      BY <1>2, <3>1, <3>2
    <3> QED BY <3>3
  <2> HIDE DEF h
  <2>2. SumsAre(a, b, h)
    BY <1>1, <2>1 DEF SumsAre
  <2> QED BY <2>2
<1> HIDE DEF g
<1>4. g[1].acc = Add(Zero, z)
  <2>1. \A n \in 0 .. 1 : g[n] = IF n = 0 THEN Empty ELSE Shifting(a, SetBit(b, n), g[n - 1])
    BY <1>1, <1>3, ZenonT(20) DEF SumsAre
  <2>2. g[0] = Empty /\ g[1] = Shifting(a, k, g[0])
    BY <1>2, <2>1, 0 \in 0 .. 1, 1 \in 0 .. 1, 1 - 1 = 0
  <2> QED BY <2>2 DEF Shifting, Empty
<1>5. z \in Number
  BY ZeroIs, SlIs
<1> QED
  BY <1>1, <1>4, <1>5, AddZero, MulIs DEF g

-----------------------------------------------------------------------------
(* Numbers of one bit.                                                     *)

LEMMA BitIs ==
  ASSUME NEW k \in Nat
  PROVE  /\ Bit(k) \in Number
         /\ \A p \in 1 .. Size :
              Place(Bit(k), p) = IF k < Bits /\ p = k \div Width + 1 THEN Two[k % Width] ELSE 0
<1>1. /\ k \div Width \in Nat /\ k % Width \in 0 .. Width - 1 /\ Size \in Nat
      /\ Width \in Nat /\ Width <= ExpBits /\ ExpBits \in Nat
  BY PlaceOfBit, SmallPowers
<1>2. Two[k % Width] \in Byte
  <2> DEFINE m == k % Width
  <2>1. m \in Nat /\ m < Width /\ m \in 0 .. ExpBits
    BY <1>1
  <2> HIDE DEF m
  <2>2. Two[m] < Radix /\ Two[m] \in Nat
    BY <1>1, <2>1, TwoLess, TwoIs DEF Radix
  <2> QED BY <2>2, Sizes DEF Byte, m
<1>3. Bit(k) \in Number
  BY <1>2, Sizes DEF Bit, Number, Byte
<1>4. ASSUME NEW p \in 1 .. Size
      PROVE  Place(Bit(k), p) = IF k < Bits /\ p = k \div Width + 1 THEN Two[k % Width] ELSE 0
  <2> DEFINE i == Size - p + 1
             c == k \div Width
  <2>1. i \in 1 .. Size /\ (i = Size - c <=> p = c + 1)
    BY <1>1
  <2>2. Place(Bit(k), p) = Bit(k)[i]
    BY <1>3, NumberIs DEF Place
  <2> HIDE DEF i, c
  <2>3. Bit(k)[i] = IF k < Bits /\ i = Size - c THEN Two[k % Width] ELSE 0
    BY <2>1 DEF Bit, c
  <2>4. Place(Bit(k), p) = IF k < Bits /\ p = c + 1 THEN Two[k % Width] ELSE 0
    BY <2>1, <2>2, <2>3
  <2> QED BY <2>4 DEF c
<1> QED
  BY <1>3, <1>4

LEMMA BitBeyond ==
  ASSUME NEW k \in Nat, k >= Bits
  PROVE  Bit(k) = Zero
<1>1. ~(k < Bits)
  BY PlaceOfBit
<1> QED
  BY <1>1 DEF Bit, Zero

LEMMA SetBitsOfBit ==
  ASSUME NEW k \in Nat
  PROVE  SetBits(Bit(k)) = IF k < Bits THEN {k} ELSE {}
<1>0. Width \in Nat /\ Width <= ExpBits /\ ExpBits \in Nat /\ Bits \in Nat /\ Size \in Nat
  BY PlaceOfBit, SmallPowers
<1>1. ASSUME NEW j \in 0 .. Bits - 1
      PROVE  BitAt(Bit(k)[Size - j \div Width], j % Width) = 1 <=> (k < Bits /\ j = k)
  <2> DEFINE c == j \div Width
             m == j % Width
             d == k \div Width
             n == k % Width
  <2>1. /\ c \in Nat /\ c < Size /\ m \in 0 .. Width - 1 /\ j = Width * c + m
        /\ d \in Nat /\ n \in 0 .. Width - 1 /\ k = Width * d + n
    <3>1. j \in Nat /\ j < Bits
      BY <1>0
    <3> QED BY <3>1, PlaceOfBit
  <2> HIDE DEF c, m
  <2>2. Size - c \in 1 .. Size
    BY <1>0, <2>1
  <2>3. Bit(k)[Size - c] = IF k < Bits /\ Size - c = Size - d THEN Two[n] ELSE 0
    BY <2>2 DEF Bit
  <2> HIDE DEF d, n
  <2>4. Size - c = Size - d <=> c = d
    BY <1>0, <2>1
  <2>5. BitAt(0, m) = 0
    <3>1. m \in 0 .. ExpBits
      BY <1>0, <2>1
    <3>2. Two[m] \in Nat \ {0}
      BY <3>1, TwoGrows
    <3>3. 0 \div Two[m] = 0
      BY <3>2, QuotientUnique, 0 = 0 * Two[m] + 0, 0 \in 0 .. Two[m] - 1
    <3> QED BY <3>3 DEF BitAt
  <2>6. BitAt(Two[n], m) = IF n = m THEN 1 ELSE 0
    BY <1>0, <2>1, BitOfPower
  <2>7. j = k <=> c = d /\ m = n
    <3>1. j = k => c = d /\ m = n
      BY DEF c, d, m, n
    <3> QED BY <2>1, <3>1
  <2>8. BitAt(Bit(k)[Size - c], m) = 1 <=> (k < Bits /\ j = k)
    <3>1. CASE k < Bits /\ c = d
      BY <2>3, <2>4, <2>6, <2>7, <3>1
    <3>2. CASE ~(k < Bits /\ c = d)
      BY <2>3, <2>4, <2>5, <2>7, <3>2
    <3> QED BY <3>1, <3>2
  <2> QED BY <2>8 DEF c, m
<1>2. k < Bits => k \in 0 .. Bits - 1
  BY <1>0
<1>3. SetBits(Bit(k)) = {j \in 0 .. Bits - 1 : k < Bits /\ j = k}
  BY <1>1 DEF SetBits
<1> QED
  BY <1>2, <1>3

(* Places add up, with a carry when the places within a byte do.           *)
LEMMA PlacesAdd ==
  ASSUME NEW K \in Nat, NEW j \in Nat, NEW e \in Nat, NEW r \in 0 .. Width - 1,
         (K % Width) + (j % Width) = Width * e + r
  PROVE  /\ (K + j) \div Width = (K \div Width) + (j \div Width) + e
         /\ (K + j) % Width = r
<1> DEFINE c == K \div Width
           b == j \div Width
           k0 == K % Width
           m == j % Width
<1>1. /\ c \in Nat /\ b \in Nat /\ K = Width * c + k0 /\ j = Width * b + m
      /\ k0 \in Nat /\ m \in Nat /\ Width \in Nat \ {0}
  BY PlaceOfBit
<1>2. k0 + m = Width * e + r
  OBVIOUS
<1> HIDE DEF c, b, k0, m
<1>3. K + j = ((c + b) + e) * Width + r
  <2>1. ((c + b) + e) * Width = Width * c + Width * b + Width * e
    BY <1>1
  <2>2. Width * c \in Nat /\ Width * b \in Nat /\ Width * e \in Nat
    BY <1>1
  <2> QED BY <1>1, <1>2, <2>1, <2>2
<1>4. Division(K + j, Width, (c + b) + e, r)
  BY <1>1, <1>3 DEF Division
<1>5. (K + j) \div Width = (c + b) + e /\ (K + j) % Width = r
  BY <1>1, <1>4, OnlyQuotient
<1> QED
  BY <1>5 DEF c, b

(* A shift moves nothing into an empty byte, a bit that stays in its byte  *)
(* is moved and carries nothing, and the bit half way up, moved by half a  *)
(* byte, is carried.                                                       *)
LEMMA CarryNothing ==
  ASSUME NEW move \in 0 .. Width
  PROVE  Carry(0, move) = 0
<1>1. Width - move \in 0 .. ExpBits /\ move \in 0 .. ExpBits
  BY SmallPowers
<1>2. Two[Width - move] \in Nat \ {0} /\ Two[move] \in Nat \ {0}
  BY <1>1, TwoGrows
<1>3. 0 % Two[Width - move] = 0
  BY <1>2, OnlyQuotient, Division(0, Two[Width - move], 0, 0) DEF Division
<1>4. 0 \div Two[move] = 0
  BY <1>2, QuotientUnique, 0 = 0 * Two[move] + 0, 0 \in 0 .. Two[move] - 1
<1> QED
  BY <1>3, <1>4 DEF Carry

LEMMA BitStays ==
  ASSUME NEW k \in Nat, NEW move \in Nat, k + move < Width
  PROVE  /\ Carry(Two[k], move) = 0
         /\ (Two[k] * Two[move]) % Radix = Two[k + move]
<1>0. Width \in Nat /\ Width <= ExpBits /\ ExpBits \in Nat
  BY SmallPowers
<1>1. Splits(k + move, k, move)
  BY <1>0 DEF Splits
<1>2. /\ Two[k + move] = Two[k] * Two[move]
      /\ Two[k + move] \in Nat /\ Two[k] \in Nat /\ Two[move] \in Nat \ {0}
  BY <1>1, TwoSplit
<1> DEFINE w == Width - move
<1>3. w \in Nat /\ k < w /\ w <= ExpBits
  BY <1>0
<1> HIDE DEF w
<1>4. Two[k] < Two[w] /\ Two[w] \in Nat \ {0}
  BY <1>3, TwoLess, TwoGrows
<1>5. Two[k] % Two[w] = Two[k]
  BY <1>2, <1>4, OnlyQuotient, Division(Two[k], Two[w], 0, Two[k]) DEF Division
<1>6. 0 \div Two[move] = 0
  BY <1>2, QuotientUnique, 0 = 0 * Two[move] + 0, 0 \in 0 .. Two[move] - 1
<1>7. Carry(Two[k], move) = 0
  BY <1>2, <1>5, <1>6 DEF Carry, w
<1>8. Two[k + move] < Radix
  BY <1>0, TwoLess DEF Radix
<1>9. Two[k + move] % Radix = Two[k + move]
  <2>0. Radix \in Nat \ {0}
    BY Sizes
  <2>1. Division(Two[k + move], Radix, 0, Two[k + move])
    BY <2>0, <1>2, <1>8 DEF Division
  <2> QED BY <2>0, <2>1, <1>2, OnlyQuotient
<1> QED
  BY <1>2, <1>7, <1>9

LEMMA BitCarried ==
  ASSUME NEW k \in Nat, k + k = Width
  PROVE  /\ Carry(Two[k], k) = 1
         /\ (Two[k] * Two[k]) % Radix = 0
<1>0. Width \in Nat /\ Width <= ExpBits /\ ExpBits \in Nat /\ Width - k = k
  BY SmallPowers
<1>1. Splits(Width, k, k)
  BY <1>0 DEF Splits
<1>2. Radix = Two[k] * Two[k] /\ Two[k] \in Nat \ {0}
  BY <1>1, TwoSplit DEF Radix
<1>3. Two[k] % Two[k] = 0 /\ Two[k] \div Two[k] = 1
  BY <1>2, OnlyQuotient, Division(Two[k], Two[k], 1, 0) DEF Division
<1>4. Radix % Radix = 0
  BY Sizes, OnlyQuotient, Division(Radix, Radix, 1, 0) DEF Division
<1> QED
  BY <1>0, <1>2, <1>3, <1>4 DEF Carry

(* What becomes of each byte of a number of one bit.                       *)
Meets(K, j) ==
  \/ (K % Width) + (j % Width) < Width
  \/ K % Width = j % Width /\ (K % Width) + (j % Width) = Width

LEMMA ByteOfShiftedBit ==
  ASSUME NEW K \in Nat, NEW j \in Nat, Meets(K, j)
  PROVE  \E e \in Nat, r \in 0 .. Width - 1 :
           /\ (K % Width) + (j % Width) = Width * e + r
           /\ \A k \in 1 .. Size :
                ByteShifted(Bit(K), j % Width, k)
                  = IF K < Bits /\ k = K \div Width + 1 + e THEN Two[r] ELSE 0
<1> DEFINE c == K \div Width
           k0 == K % Width
           m == j % Width
           in(k) == K < Bits /\ k = c + 1
<1>1. /\ c \in Nat /\ k0 \in Nat /\ m \in Nat /\ k0 < Width /\ m < Width /\ m \in 0 .. Width
      /\ Width \in Nat /\ Width <= ExpBits /\ ExpBits \in Nat /\ Size \in Nat
  BY PlaceOfBit, SmallPowers
<1>2. \A k \in 1 .. Size : Place(Bit(K), k) = IF in(k) THEN Two[k0] ELSE 0
  BY BitIs
<1>3. Two[k0] \in Nat /\ Two[m] \in Nat /\ 0 * Two[m] = 0 /\ 0 % Radix = 0
  <2>1. k0 \in 0 .. ExpBits /\ m \in 0 .. ExpBits
    BY <1>1
  <2>2. Two[k0] \in Nat /\ Two[m] \in Nat
    BY <2>1, TwoIs
  <2>3. Radix \in Nat \ {0}
    BY Sizes
  <2>4. 0 % Radix = 0
    BY <2>3, OnlyQuotient, Division(0, Radix, 0, 0) DEF Division
  <2> QED BY <2>2, <2>4
<1>4. Carry(0, m) = 0
  BY <1>1, CarryNothing
<1>5. \A k \in 1 .. Size : k # 1 =>
        k - 1 \in 1 .. Size /\ Place(Bit(K), k - 1) = IF in(k - 1) THEN Two[k0] ELSE 0
  <2> SUFFICES ASSUME NEW k \in 1 .. Size, k # 1
               PROVE  k - 1 \in 1 .. Size /\ Place(Bit(K), k - 1) = IF in(k - 1) THEN Two[k0] ELSE 0
    OBVIOUS
  <2>1. k - 1 \in 1 .. Size
    BY <1>1
  <2> QED BY <1>2, <2>1
<1> HIDE DEF c, k0, m
<1>6. CASE k0 + m < Width
  <2>1. Carry(Two[k0], m) = 0 /\ (Two[k0] * Two[m]) % Radix = Two[k0 + m]
    BY <1>1, <1>6, BitStays
  <2>2. k0 + m \in 0 .. Width - 1 /\ k0 + m \in Nat /\ k0 + m = Width * 0 + (k0 + m)
    BY <1>1, <1>6
  <2>3. Two[k0 + m] \in Byte /\ 0 \in Byte
    <3>1. Two[k0 + m] < Two[Width] /\ Two[k0 + m] \in Nat
      BY <1>1, <1>6, <2>2, TwoLess, TwoIs, k0 + m \in 0 .. ExpBits
    <3> QED BY <3>1, Sizes DEF Byte, Radix
  <2>4. ASSUME NEW k \in 1 .. Size
        PROVE  ByteShifted(Bit(K), m, k) = IF K < Bits /\ k = c + 1 + 0 THEN Two[k0 + m] ELSE 0
    <3>1. CarriedInto(Bit(K), m, k) = 0
      <4>1. k # 1 => Carry(Place(Bit(K), k - 1), m) = 0
        BY <1>4, <1>5, <2>1
      <4> QED BY <4>1 DEF CarriedInto
    <3>2. (Place(Bit(K), k) * Two[m]) % Radix = IF in(k) THEN Two[k0 + m] ELSE 0
      BY <1>2, <1>3, <2>1
    <3>3. in(k) <=> K < Bits /\ k = c + 1 + 0
      BY <1>1
    <3> DEFINE v == (Place(Bit(K), k) * Two[m]) % Radix
    <3>4. v \in Byte
      BY <2>3, <3>2
    <3>5. ByteShifted(Bit(K), m, k) = Or(v, 0)
      BY <3>1 DEF ByteShifted
    <3> HIDE DEF v, in
    <3>6. Or(v, 0) = v
      BY <3>4, OrNothing
    <3> QED BY <3>2, <3>3, <3>5, <3>6 DEF v
  <2> DEFINE r == k0 + m
  <2>5. 0 \in Nat /\ r \in 0 .. Width - 1 /\ k0 + m = Width * 0 + r
    BY <2>2
  <2>6. \A k \in 1 .. Size :
          ByteShifted(Bit(K), m, k) = IF K < Bits /\ k = c + 1 + 0 THEN Two[r] ELSE 0
    BY <2>4
  <2> HIDE DEF r, in
  <2> QED BY <2>5, <2>6 DEF c, k0, m
<1>7. CASE k0 = m /\ k0 + m = Width
  <2>1. Carry(Two[k0], m) = 1 /\ (Two[k0] * Two[m]) % Radix = 0
    BY <1>1, <1>7, BitCarried
  <2>2. 0 \in 0 .. Width - 1 /\ m # 0 /\ k0 + m = Width * 1 + 0 /\ Two[0] = 1
    BY <1>1, <1>7, TwoIs
  <2>3. Or(0, 0) = 0 /\ Or(0, 1) = 1
    <3>1. 0 \in Byte /\ 0 \in 0 .. Width
      BY <1>1, Sizes DEF Byte
    <3>2. Or(0, 0) = 0
      BY <3>1, OrNothing
    <3>3. Width \in 0 .. Width /\ 0 * Two[Width] = 0 /\ 1 < Two[Width] /\ 0 < Radix
      BY <1>1, Sizes DEF Radix
    <3>4. Or(0 * Two[Width], 1) = 0 * Two[Width] + 1
      BY <3>3, OrSum
    <3> QED BY <3>2, <3>3, <3>4
  <2>4. ASSUME NEW k \in 1 .. Size
        PROVE  ByteShifted(Bit(K), m, k) = IF K < Bits /\ k = c + 1 + 1 THEN Two[0] ELSE 0
    <3> DEFINE up == K < Bits /\ k = c + 1 + 1
    <3>1. CarriedInto(Bit(K), m, k) = IF up THEN 1 ELSE 0
      <4>1. CASE k = 1
        BY <1>1, <4>1 DEF CarriedInto
      <4>2. CASE k # 1
        <5>1. in(k - 1) <=> up
          BY <1>1
        <5>2. Place(Bit(K), k - 1) = IF in(k - 1) THEN Two[k0] ELSE 0
          BY <1>5, <4>2
        <5>3. CarriedInto(Bit(K), m, k) = Carry(Place(Bit(K), k - 1), m)
          BY <2>2, <4>2 DEF CarriedInto
        <5> HIDE DEF in, up
        <5> QED BY <1>4, <2>1, <5>1, <5>2, <5>3
      <4> QED BY <4>1, <4>2
    <3>2. (Place(Bit(K), k) * Two[m]) % Radix = 0
      BY <1>2, <1>3, <2>1
    <3> HIDE DEF up, in
    <3>3. ByteShifted(Bit(K), m, k) = Or(0, CarriedInto(Bit(K), m, k))
      BY <3>2 DEF ByteShifted
    <3>4. ByteShifted(Bit(K), m, k) = IF up THEN 1 ELSE 0
      BY <2>3, <3>1, <3>3
    <3> QED BY <2>2, <3>4 DEF up
  <2>5. \A k \in 1 .. Size :
          ByteShifted(Bit(K), m, k) = IF K < Bits /\ k = c + 1 + 1 THEN Two[0] ELSE 0
    BY <2>4
  <2> QED BY <2>2, <2>5 DEF c, k0, m
<1>8. Meets(K, j) => k0 + m < Width \/ (k0 = m /\ k0 + m = Width)
  BY DEF Meets, k0, m
<1> QED
  BY <1>6, <1>7, <1>8

(* uint256_sl() moves a bit, where its carry does no harm.                 *)
LEMMA ShiftOfBit ==
  ASSUME NEW K \in Nat, NEW j \in Nat, j < Bits, Meets(K, j)
  PROVE  Sl(Zero, Bit(K), j) = Bit(K + j)
<1> DEFINE c == K \div Width
           b == j \div Width
           z == Sl(Zero, Bit(K), j)
<1>1. PICK e \in Nat, r \in 0 .. Width - 1 :
        /\ (K % Width) + (j % Width) = Width * e + r
        /\ \A k \in 1 .. Size :
             ByteShifted(Bit(K), j % Width, k)
               = IF K < Bits /\ k = c + 1 + e THEN Two[r] ELSE 0
  BY ByteOfShiftedBit
<1>2. K + j \in Nat /\ (K + j) \div Width = c + b + e /\ (K + j) % Width = r
  BY <1>1, PlacesAdd
<1>3. /\ z \in Number
      /\ \A k \in 1 .. b : Place(z, k) = 0
      /\ \A k \in 1 .. Size - b : Place(z, k + b) = ByteShifted(Bit(K), j % Width, k)
  <2>1. Bit(K) \in Number
    BY BitIs
  <2>2. /\ z \in Number
        /\ \A k \in 1 .. b : Place(z, k) = Place(Zero, k)
        /\ \A k \in 1 .. Size - b : Place(z, k + b) = ByteShifted(Bit(K), j % Width, k)
    BY <2>1, ZeroIs, SlIs
  <2>3. b \in Nat /\ b < Size /\ Size \in Nat
    BY PlaceOfBit
  <2>4. \A k \in 1 .. b : k \in 1 .. Size
    BY <2>3
  <2> QED BY <2>2, <2>4, ZeroIs
<1>4. /\ Bit(K + j) \in Number
      /\ \A p \in 1 .. Size :
           Place(Bit(K + j), p) = IF K + j < Bits /\ p = c + b + e + 1 THEN Two[r] ELSE 0
  BY <1>2, BitIs
<1>5. /\ c \in Nat /\ b \in Nat /\ b < Size /\ Size \in Nat /\ Bits \in Nat
      /\ K + j < Bits <=> c + b + e < Size
  BY <1>2, PlaceOfBit
<1> HIDE DEF c, b, z
<1>6. ASSUME NEW p \in 1 .. Size PROVE Place(z, p) = Place(Bit(K + j), p)
  <2>1. CASE p <= b
    <3>1. p \in 1 .. b /\ p # c + b + e + 1
      BY <1>5, <2>1
    <3> QED BY <1>3, <1>4, <3>1
  <2>2. CASE p > b
    <3> DEFINE k == p - b
    <3>1. k \in 1 .. Size - b /\ k + b = p /\ k \in 1 .. Size
      BY <1>5, <2>2
    <3>2. (k = c + 1 + e) <=> (p = c + b + e + 1)
      BY <1>5
    <3>3. p = c + b + e + 1 => K + j < Bits
      BY <1>5
    <3>4. K + j < Bits => K < Bits
      BY <1>5
    <3> HIDE DEF k
    <3>5. Place(z, p) = IF K < Bits /\ k = c + 1 + e THEN Two[r] ELSE 0
      BY <1>1, <1>3, <3>1
    <3>6. Place(Bit(K + j), p) = IF K + j < Bits /\ p = c + b + e + 1 THEN Two[r] ELSE 0
      BY <1>4
    <3> QED BY <3>2, <3>3, <3>4, <3>5, <3>6
  <2> QED BY <1>5, <2>1, <2>2
<1>7. z = Bit(K + j)
  BY <1>3, <1>4, <1>6, SamePlaces
<1> QED
  BY <1>7 DEF z

(* How a power of two stands to the width of a byte.                       *)
LEMMA PowersAndWidth ==
  ASSUME NEW n \in 0 .. ExpBits
  PROVE  /\ Two[n] < Width => 2 * Two[n] <= Width
         /\ Two[n] >= Width => Two[n] % Width = 0
<1>1. PICK w \in Nat : w <= ExpBits /\ Width = Two[w]
  <2>1. /\ Width \in {1, 2, 4, 8} /\ Width <= ExpBits /\ ExpBits \in Nat /\ Two[0] = 1
        /\ Width = 2 => Two[1] = 2
        /\ Width = 4 => Two[1] = 2 /\ Two[2] = 4
        /\ Width = 8 => Two[1] = 2 /\ Two[2] = 4 /\ Two[3] = 8
    BY SmallPowers
  <2> QED BY <2>1
<1>0. n \in Nat /\ n <= ExpBits /\ ExpBits \in Nat /\ Two[n] \in Nat /\ Two[w] \in Nat \ {0}
  BY <1>1, TwoIs, TwoGrows
<1>2. CASE n < w
  <2> DEFINE d == w - n - 1
  <2>1. Splits(w, n + 1, d) /\ n \in 0 .. ExpBits - 1
    BY <1>0, <1>1, <1>2 DEF Splits
  <2> HIDE DEF d
  <2>2. Two[w] = Two[n + 1] * Two[d] /\ Two[d] \in Nat \ {0} /\ Two[n + 1] \in Nat /\ Two[n + 1] = 2 * Two[n]
    BY <2>1, TwoSplit, TwoIs
  <2>3. Two[n + 1] <= Two[w] /\ Two[n] < Two[w]
    BY <1>0, <1>1, <1>2, <2>2, TwoLess
  <2> QED BY <1>0, <1>1, <2>2, <2>3
<1>3. CASE n >= w
  <2> DEFINE d == n - w
  <2>1. Splits(n, w, d)
    BY <1>0, <1>1, <1>3 DEF Splits
  <2> HIDE DEF d
  <2>2. Two[n] = Two[w] * Two[d] /\ Two[d] \in Nat \ {0}
    BY <2>1, TwoSplit
  <2>3. Two[n] >= Two[w]
    BY <1>0, <2>2
  <2>4. Two[n] % Two[w] = 0
    BY <1>0, <2>2, OnlyQuotient, Division(Two[n], Two[w], Two[d], 0) DEF Division
  <2> QED BY <1>0, <1>1, <2>3, <2>4
<1> QED
  BY <1>0, <1>1, <1>2, <1>3

LEMMA RestOf ==
  \A s \in Nat : s % Width \in Nat /\ s % Width < Width /\ Width \in Nat /\ Width >= 1
<1> SUFFICES ASSUME NEW s \in Nat
             PROVE  s % Width \in Nat /\ s % Width < Width /\ Width \in Nat /\ Width >= 1
  OBVIOUS
<1>1. s % Width \in 0 .. Width - 1 /\ Width \in Nat /\ Width >= 1
  BY PlaceOfBit
<1> QED
  BY <1>1

LEMMA PowerMeets ==
  ASSUME NEW K \in Nat, NEW t \in Nat, t <= K,
         K < Width => 2 * K <= Width, K >= Width => K % Width = 0
  PROVE  Meets(K, t)
<1>1. t % Width \in Nat /\ t % Width < Width /\ Width \in Nat /\ Width >= 1
  BY RestOf
<1>2. CASE K >= Width
  <2>1. (K % Width) + (t % Width) < Width
    BY <1>1, <1>2
  <2> QED BY <2>1 DEF Meets
<1>3. CASE K < Width
  <2>1. Width \in Nat \ {0} /\ t < Width
    BY <1>1, <1>3
  <2>2. K % Width = K
    BY <1>3, <2>1, OnlyQuotient, Division(K, Width, 0, K) DEF Division
  <2>3. t % Width = t
    BY <2>1, OnlyQuotient, Division(t, Width, 0, t) DEF Division
  <2>4. K + t < Width \/ (K = t /\ K + t = Width)
    BY <1>1, <1>3
  <2> QED BY <2>2, <2>3, <2>4 DEF Meets
<1> QED
  BY <1>1, <1>2, <1>3

(* The products that uint256_exp() takes.                                  *)
LEMMA ProductOfBits ==
  ASSUME NEW n \in 0 .. ExpBits, NEW t \in Nat, t <= Two[n]
  PROVE  Mul(Bit(Two[n]), Bit(t)) = Bit(Two[n] + t)
<1> DEFINE K == Two[n]
<1>0. K \in Nat
  BY TwoIs
<1>1. Bit(K) \in Number /\ Bits \in Nat
  BY <1>0, BitIs, PlaceOfBit
<1>2. CASE t < Bits
  <2>1. Meets(K, t)
    BY <1>0, PowersAndWidth, PowerMeets
  <2>2. SetBits(Bit(t)) = {t}
    BY <1>2, SetBitsOfBit
  <2>3. Mul(Bit(K), Bit(t)) = Sl(Zero, Bit(K), t)
    BY <1>1, <1>2, <2>2, MulOne
  <2>4. Sl(Zero, Bit(K), t) = Bit(K + t)
    BY <1>0, <1>2, <2>1, ShiftOfBit
  <2> QED BY <2>3, <2>4
<1>3. CASE t >= Bits
  <2>1. SetBits(Bit(t)) = {}
    BY <1>1, <1>3, SetBitsOfBit
  <2>2. Mul(Bit(K), Bit(t)) = Zero
    BY <2>1, MulNone
  <2>3. K + t \in Nat /\ K + t >= Bits
    BY <1>0, <1>1, <1>3
  <2> QED BY <2>2, <2>3, BitBeyond
<1> QED
  BY <1>1, <1>2, <1>3

-----------------------------------------------------------------------------
(* Powers of two.                                                          *)

LEMMA WidenedBit ==
  ASSUME NEW k \in 0 .. Width - 1
  PROVE  Widened(<<Two[k]>>) = Bit(k)
<1> DEFINE s == <<Two[k]>>
<1>1. /\ k \in Nat /\ k < Width /\ Width \in Nat /\ Width <= ExpBits /\ ExpBits \in Nat
      /\ Size \in Nat /\ Size >= 2 /\ k < Bits
  <2>1. Width \in Nat /\ Width <= ExpBits /\ ExpBits \in Nat
    BY SmallPowers
  <2>2. Bits \in Nat /\ Width + Width <= Bits /\ Size \in Nat /\ Size >= 2
    BY PlaceOfBit, 0 \in Nat
  <2> QED BY <2>1, <2>2
<1>2. Two[k] \in Byte
  <2>1. Two[k] < Radix /\ Two[k] \in Nat
    BY <1>1, TwoLess, TwoIs, k \in 0 .. ExpBits DEF Radix
  <2> QED BY <2>1, Sizes DEF Byte
<1>3. k \div Width = 0 /\ k % Width = k
  BY OnlyPlace, <1>1, Width * 0 + k = k, 0 \in Nat
<1>4. Numeral(s) /\ Len(s) = 1 /\ Place(s, 1) = Two[k]
  BY <1>1, <1>2 DEF Numeral, Place
<1> HIDE DEF s
<1>5. /\ Widened(s) \in Number
      /\ \A p \in 1 .. Size : Place(Widened(s), p) = IF p = 1 THEN Two[k] ELSE 0
  <2>1. /\ Widened(s) \in Number
        /\ \A p \in 1 .. Len(s) : Place(Widened(s), p) = Place(s, p)
        /\ \A p \in Len(s) + 1 .. Size : Place(Widened(s), p) = 0
    BY <1>4, WidenedIs
  <2>2. /\ 1 \in 1 .. Len(s)
        /\ \A p \in 1 .. Size : p = 1 \/ p \in Len(s) + 1 .. Size
    BY <1>1, <1>4
  <2> QED BY <1>4, <2>1, <2>2
<1>6. /\ Bit(k) \in Number
      /\ \A p \in 1 .. Size : Place(Bit(k), p) = IF p = 1 THEN Two[k] ELSE 0
  BY <1>1, <1>3, BitIs
<1>7. Widened(s) = Bit(k)
  BY <1>5, <1>6, SamePlaces
<1> QED
  BY <1>7 DEF s

(* What the loop of uint256_exp() can hold on the way to two to the e: the *)
(* running square is the bit K, the factors set aside are a lower bit t.   *)
AtPower(e, s, m, t) ==
  /\ t < Two[m] /\ s.exp >= 1 /\ t + Two[m] * s.exp = e
  /\ s.acc = Bit(Two[m]) /\ s.temp = Bit(t)

OnTheWay(e) == {s \in Running : \E m \in 0 .. ExpBits, t \in Nat : AtPower(e, s, m, t)}

LEMMA TurnStays ==
  ASSUME NEW e \in Nat, e < Two[ExpBits], NEW s \in OnTheWay(e), s.exp > 1
  PROVE  Turn(s) \in OnTheWay(e) /\ 2 * Turn(s).exp <= s.exp
<1>1. s \in Running /\ s.exp \in Nat
  BY DEF OnTheWay, Running
<1>2. PICK m \in 0 .. ExpBits, t \in Nat : AtPower(e, s, m, t)
  BY DEF OnTheWay
<1> DEFINE K == Two[m]
           x == s.exp
           h == x \div 2
           b == x % 2
           u == IF b = 0 THEN t ELSE K + t
<1>3. K \in Nat \ {0} /\ ExpBits \in Nat /\ m \in Nat /\ m <= ExpBits /\ Two[ExpBits] \in Nat
  BY TwoGrows, TwoIs
<1>4. x \in Nat /\ x >= 2 /\ t < K /\ t + K * x = e
  BY <1>1, <1>2 DEF AtPower
<1>5. h \in Nat /\ h >= 1 /\ 2 * h <= x /\ b \in {0, 1} /\ x = 2 * h + b
  BY <1>4
<1>6. Turn(s) = [acc |-> Mul(s.acc, s.acc),
                 temp |-> IF b = 0 THEN s.temp ELSE Mul(s.acc, s.temp), exp |-> h]
  BY DEF Turn
<1> HIDE DEF K, x, h, b
<1>7. m < ExpBits
  <2>1. K * 2 <= K * x
    BY <1>3, <1>4
  <2>2. K * 2 < Two[ExpBits]
    <3>1. K * x \in Nat
      BY <1>3, <1>4
    <3> QED BY <1>3, <1>4, <2>1, <3>1
  <2>3. K < Two[ExpBits]
    BY <1>3, <2>2
  <2> QED BY <1>3, <2>3 DEF K
<1>8. m + 1 \in 0 .. ExpBits /\ Two[m + 1] = K + K
  <2>1. m \in 0 .. ExpBits - 1
    BY <1>3, <1>7
  <2>2. Two[m + 1] = 2 * K
    BY <2>1, TwoIs DEF K
  <2> QED BY <1>3, <1>7, <2>2
<1>9. s.acc = Bit(K) /\ s.temp = Bit(t)
  BY <1>2 DEF AtPower, K
<1>10. Mul(Bit(K), Bit(K)) = Bit(K + K) /\ Mul(Bit(K), Bit(t)) = Bit(K + t)
  BY <1>3, <1>4, ProductOfBits DEF K
<1>11. u \in Nat /\ u < K + K /\ u + (K + K) * h = e
  <2>1. CASE b = 0
    <3>1. K * x = (K + K) * h
      BY <1>3, <1>5, <2>1
    <3> QED BY <1>3, <1>4, <2>1, <3>1
  <2>2. CASE b = 1
    <3>1. K * x = (K + K) * h + K
      BY <1>3, <1>5, <2>2
    <3>2. (K + K) * h \in Nat
      BY <1>3, <1>5
    <3> QED BY <1>3, <1>4, <2>2, <3>1, <3>2
  <2> QED BY <1>5, <2>1, <2>2
<1>12. Turn(s).acc = Bit(K + K) /\ Turn(s).temp = Bit(u) /\ Turn(s).exp = h
  <2>1. Turn(s).acc = Mul(s.acc, s.acc) /\ Turn(s).exp = h
        /\ Turn(s).temp = IF b = 0 THEN s.temp ELSE Mul(s.acc, s.temp)
    BY <1>6
  <2>2. b = 0 => Turn(s).temp = Bit(u)
    BY <1>9, <2>1
  <2>3. b # 0 => Turn(s).temp = Bit(u)
    BY <1>9, <1>10, <2>1
  <2> QED BY <1>9, <1>10, <2>1, <2>2, <2>3
<1> HIDE DEF u
<1>13. Turn(s) \in Running
  <2>1. Bit(K + K) \in Number /\ Bit(u) \in Number
    BY <1>3, <1>11, BitIs, K + K \in Nat
  <2>2. Turn(s) = [acc |-> Bit(K + K), temp |-> Bit(u), exp |-> h]
    BY <1>6, <1>12
  <2> QED BY <1>5, <2>1, <2>2 DEF Running
<1>14. AtPower(e, Turn(s), m + 1, u)
  BY <1>5, <1>8, <1>11, <1>12 DEF AtPower
<1>15. Turn(s) \in OnTheWay(e)
  BY <1>8, <1>11, <1>13, <1>14 DEF OnTheWay
<1> QED
  BY <1>5, <1>12, <1>15 DEF x

(* The states of the loop, one turn after the other.                       *)
Begun(e) == [acc |-> Widened(<<2>>), temp |-> One, exp |-> e]

TurnOf == [s \in Running |-> IF s.exp > 1 THEN Turn(s) ELSE s]

AftersAre(e, g) ==
  g = [n \in 0 .. ExpBits |-> IF n = 0 THEN Begun(e) ELSE TurnOf[g[n - 1]]]

LEMMA TwoAndOne ==
  ASSUME Width > 1
  PROVE  Widened(<<2>>) = Bit(1) /\ One = Bit(0)
<1>1. 1 \in 0 .. Width - 1 /\ 0 \in 0 .. Width - 1 /\ Two[0] = 1 /\ Two[1] = 2
  BY SmallPowers
<1> QED
  BY <1>1, WidenedBit DEF One

LEMMA AftersExist ==
  ASSUME Width > 1, NEW e \in Nat, 1 <= e, e < Two[ExpBits]
  PROVE  \E g \in [0 .. ExpBits -> OnTheWay(e)] : AftersAre(e, g)
<1> DEFINE S == OnTheWay(e)
           step == [p \in (1 .. ExpBits) \X S |-> TurnOf[p[2]]]
<1>1. Begun(e) \in S
  <2>1. Two[0] = 1 /\ 0 \in 0 .. ExpBits /\ 0 + 1 * e = e
    BY TwoIs
  <2>4. Begun(e) = [acc |-> Bit(1), temp |-> Bit(0), exp |-> e]
    BY TwoAndOne DEF Begun
  <2>2. Begun(e) \in Running
    BY <2>4, BitIs DEF Running
  <2>3. AtPower(e, Begun(e), 0, 0)
    BY <2>1, <2>4 DEF AtPower
  <2> QED BY <2>1, <2>2, <2>3 DEF OnTheWay
<1>2. \A s \in S : TurnOf[s] \in S
  <2> SUFFICES ASSUME NEW s \in S PROVE TurnOf[s] \in S
    OBVIOUS
  <2>1. s \in Running /\ TurnOf[s] = IF s.exp > 1 THEN Turn(s) ELSE s
    BY DEF TurnOf, OnTheWay
  <2>2. s.exp > 1 => Turn(s) \in S
    BY TurnStays
  <2> QED BY <2>1, <2>2
<1> HIDE DEF S
<1>3. step \in [(1 .. ExpBits) \X S -> S]
  BY <1>2
<1>4. \A k \in 1 .. ExpBits : \A s \in S : step[<<k, s>>] = TurnOf[s]
  OBVIOUS
<1> HIDE DEF step
<1>5. PICK g \in [0 .. ExpBits -> S] : RecursionOf(ExpBits, Begun(e), step, g)
  BY <1>1, <1>3, TwoIs, RecursionInto
<1>6. \A k \in 0 .. ExpBits : k # 0 => step[<<k, g[k - 1]>>] = TurnOf[g[k - 1]]
  <2> SUFFICES ASSUME NEW k \in 0 .. ExpBits, k # 0
               PROVE  step[<<k, g[k - 1]>>] = TurnOf[g[k - 1]]
    OBVIOUS
  <2>1. k \in 1 .. ExpBits /\ k - 1 \in 0 .. ExpBits
    BY TwoIs
  <2> QED BY <1>4, <2>1
<1>7. AftersAre(e, g)
  BY <1>5, <1>6 DEF RecursionOf, AftersAre
<1> QED
  BY <1>7 DEF S

LEMMA LastTurn ==
  ASSUME Width > 1, NEW e \in Nat, 1 <= e, e < Two[ExpBits], NEW g, AftersAre(e, g)
  PROVE  g[ExpBits] \in OnTheWay(e) /\ g[ExpBits].exp = 1
<1> DEFINE P == {n \in 0 .. ExpBits :
                   /\ g[n] \in OnTheWay(e)
                   /\ g[n].exp = 1 \/ g[n].exp * Two[n] <= e}
<1>0. ExpBits \in Nat /\ Two[0] = 1
  BY TwoIs
<1>1. \A n \in 0 .. ExpBits : g[n] = IF n = 0 THEN Begun(e) ELSE TurnOf[g[n - 1]]
  BY ZenonT(20) DEF AftersAre
<1>2. \A s \in OnTheWay(e) : s \in Running /\ s.exp \in Nat /\ s.exp >= 1
  BY DEF OnTheWay, Running, AtPower
<1>3. Inductive(ExpBits, P)
  <2>1. 0 \in P
    <3>1. PICK h \in [0 .. ExpBits -> OnTheWay(e)] : AftersAre(e, h)
      BY AftersExist
    <3>2. \A n \in 0 .. ExpBits : h[n] = IF n = 0 THEN Begun(e) ELSE TurnOf[h[n - 1]]
      BY <3>1, ZenonT(20) DEF AftersAre
    <3>3. 0 \in 0 .. ExpBits /\ g[0] = Begun(e) /\ h[0] = Begun(e) /\ h[0] \in OnTheWay(e)
      BY <1>0, <1>1, <3>2
    <3>4. Begun(e).exp * Two[0] <= e
      BY <1>0 DEF Begun
    <3> QED BY <3>3, <3>4
  <2>2. ASSUME NEW n \in 1 .. ExpBits, n - 1 \in P PROVE n \in P
    <3> DEFINE s == g[n - 1]
               w == Two[n - 1]
    <3>1. /\ n \in 0 .. ExpBits /\ n - 1 \in 0 .. ExpBits - 1 /\ n - 1 \in 0 .. ExpBits
          /\ n # 0 /\ (n - 1) + 1 = n
      BY <1>0
    <3>2. s \in OnTheWay(e) /\ (s.exp = 1 \/ s.exp * w <= e) /\ g[n] = TurnOf[s]
      BY <1>1, <2>2, <3>1
    <3>3. w \in Nat /\ Two[n] = 2 * w
      BY <3>1, TwoIs
    <3> HIDE DEF s, w
    <3>4. s \in Running /\ s.exp \in Nat /\ s.exp >= 1
      BY <1>2, <3>2
    <3>5. g[n] = IF s.exp > 1 THEN Turn(s) ELSE s
      BY <3>2, <3>4 DEF TurnOf
    <3>6. CASE s.exp > 1
      <4>1. g[n] = Turn(s) /\ Turn(s) \in OnTheWay(e) /\ 2 * Turn(s).exp <= s.exp
        BY <3>2, <3>5, <3>6, TurnStays
      <4> DEFINE y == Turn(s).exp
                 x == s.exp
      <4>2. y \in Nat /\ x \in Nat /\ 2 * y <= x /\ x * w <= e
        BY <1>2, <3>2, <3>4, <3>6, <4>1
      <4> HIDE DEF x, y
      <4>3. (2 * y) * w <= x * w
        BY <3>3, <4>2
      <4>4. y * (2 * w) = (2 * y) * w
        BY <3>3, <4>2
      <4>5. y * (2 * w) <= e
        <5>1. (2 * y) * w \in Nat /\ x * w \in Nat
          BY <3>3, <4>2
        <5> QED BY <4>2, <4>3, <4>4, <5>1
      <4>6. g[n].exp * Two[n] <= e
        BY <3>3, <4>1, <4>5 DEF y
      <4> QED BY <3>1, <4>1, <4>6
    <3>7. CASE s.exp = 1
      BY <3>1, <3>2, <3>5, <3>7
    <3> QED BY <3>4, <3>6, <3>7
  <2> QED BY <2>1, <2>2 DEF Inductive
<1>4. ExpBits \in P
  BY <1>0, <1>3, Climb
<1> DEFINE x == g[ExpBits].exp
           w == Two[ExpBits]
<1>5. g[ExpBits] \in OnTheWay(e) /\ x \in Nat /\ x >= 1 /\ (x = 1 \/ x * w <= e) /\ w \in Nat
  BY <1>0, <1>2, <1>4, TwoIs
<1>6. e < w
  OBVIOUS
<1> HIDE DEF x, w
<1>7. w <= x * w
  BY <1>5
<1>8. x * w \in Nat
  BY <1>5
<1> QED
  BY <1>5, <1>6, <1>7, <1>8 DEF x

(* uint256_exp() of two, in bytes of more than one bit, is the bit at the  *)
(* place the exponent says, and zero beyond the number: in none of the     *)
(* squares it takes, and in no product, does the carry of uint256_sl() go  *)
(* wrong.                                                                  *)
THEOREM ExpIsPower ==
  ASSUME Width > 1, NEW e \in Nat, e < Two[ExpBits]
  PROVE  Exp(Widened(<<2>>), e) = Bit(e)
<1>2. CASE e = 0
  BY <1>2, TwoAndOne DEF Exp
<1>3. CASE e # 0
  <2> DEFINE g == CHOOSE h : AftersAre(e, h)
             last == g[ExpBits]
  <2>1. e >= 1
    BY <1>3
  <2>2. AftersAre(e, g)
    BY <2>1, AftersExist
  <2>3. Exp(Widened(<<2>>), e) = Mul(last.acc, last.temp)
    BY <1>3 DEF Exp, AftersAre, Begun, TurnOf
  <2> HIDE DEF g
  <2>4. last \in OnTheWay(e) /\ last.exp = 1
    BY <2>1, <2>2, LastTurn
  <2>5. PICK m \in 0 .. ExpBits, t \in Nat : AtPower(e, last, m, t)
    BY <2>4 DEF OnTheWay
  <2>6. /\ t < Two[m] /\ last.acc = Bit(Two[m]) /\ last.temp = Bit(t)
        /\ t + Two[m] * 1 = e /\ Two[m] \in Nat
    BY <2>4, <2>5, TwoIs DEF AtPower
  <2>7. Mul(Bit(Two[m]), Bit(t)) = Bit(Two[m] + t)
    BY <2>6, ProductOfBits
  <2>8. Two[m] + t = e
    BY <2>6
  <2> QED BY <2>3, <2>6, <2>7, <2>8
<1> QED
  BY <1>2, <1>3

-----------------------------------------------------------------------------
(* The target.                                                             *)

LEMMA BelowZero ==
  ASSUME NEW n \in Nat \ {0}, NEW i \in 1 .. n
  PROVE  (0 - i) % n = n - i
OBVIOUS

LEMMA ProductOrder ==
  ASSUME NEW i \in Nat, NEW j \in Nat, i <= j
  PROVE  i * Width \in Nat /\ j * Width \in Nat /\ i * Width <= j * Width
         /\ (j - i) * Width = j * Width - i * Width
<1>1. Width \in {1, 2, 4, 8}
  BY SmallPowers
<1> QED
  BY <1>1

(* The exponent of two: whole bytes, or out of the number.                 *)
LEMMA ShiftOfIs ==
  ASSUME NEW e \in Byte
  PROVE  /\ ShiftOf(e) \in Nat /\ ShiftOf(e) < Two[ExpBits]
         /\ e >= 3 => ShiftOf(e) = (e - 3) * Width
         /\ e < 3 => ShiftOf(e) >= Bits
<1> DEFINE n == Two[ExpBits]
<1>1. /\ e \in Nat /\ e < Radix /\ Radix \in Nat /\ Size \in Nat /\ Width \in {1, 2, 4, 8}
      /\ n \in Nat \ {0} /\ Radix * Width <= n /\ (Size + 3) * Width <= n
      /\ Bits = Size * Width
  BY Sizes, SmallPowers, TwoGrows, TwoIs, Uint256Assumption, ExpBits \in 0 .. ExpBits
     DEF Byte, Bits, Uint256Assumption
<1>2. ShiftOf(e) = ((e - 3) * Width) % n
  BY DEF ShiftOf
<1> HIDE DEF n
<1>3. CASE e >= 3
  <2> DEFINE v == (e - 3) * Width
  <2>1. v \in Nat /\ v < n
    <3>1. e - 3 \in Nat /\ e - 3 < Radix
      BY <1>1, <1>3
    <3>2. (e - 3) * Width \in Nat /\ (e - 3) * Width < Radix * Width
      BY <1>1, <3>1
    <3>3. Radix * Width \in Nat
      BY <1>1
    <3> HIDE DEF v
    <3> QED BY <1>1, <3>2, <3>3 DEF v
  <2> HIDE DEF v
  <2>2. v % n = v
    BY <1>1, <2>1, OnlyQuotient, Division(v, n, 0, v) DEF Division
  <2>3. ShiftOf(e) = v
    BY <1>2, <2>2 DEF v
  <2>4. ShiftOf(e) \in Nat /\ ShiftOf(e) < n /\ ~(e < 3)
    BY <1>1, <1>3, <2>1, <2>3
  <2> QED BY <2>3, <2>4 DEF v, n
<1>4. CASE e < 3
  <2> DEFINE i == (3 - e) * Width
  <2>1. i \in Nat /\ i >= 1 /\ i <= 3 * Width /\ (e - 3) * Width = 0 - i
    BY <1>1, <1>4
  <2>2. Bits + 3 * Width <= n /\ Bits \in Nat /\ 3 * Width \in Nat
    BY <1>1
  <2> HIDE DEF i
  <2>3. i \in 1 .. n
    BY <1>1, <2>1, <2>2
  <2>4. (0 - i) % n = n - i
    BY <1>1, <2>3, BelowZero
  <2>5. ShiftOf(e) = n - i
    BY <1>2, <2>1, <2>4
  <2>6. n - i \in Nat /\ n - i < n /\ n - i >= Bits
    BY <1>1, <2>1, <2>2, <2>3
  <2> QED BY <1>1, <1>4, <2>5, <2>6 DEF n
<1> QED
  BY <1>1, <1>3, <1>4

(* A shift by whole bytes.                                                 *)
LEMMA WholeBytes ==
  ASSUME NEW a \in Number, NEW q \in Nat, q < Size
  PROVE  /\ Sl(Zero, a, q * Width) \in Number
         /\ \A p \in 1 .. Size :
              Place(Sl(Zero, a, q * Width), p) = IF p <= q THEN 0 ELSE Place(a, p - q)
<1> DEFINE s == q * Width
           z == Sl(Zero, a, s)
<1>0. Width \in {1, 2, 4, 8} /\ Two[0] = 1 /\ Size \in Nat /\ Bits = Size * Width
  BY SmallPowers, Sizes DEF Bits
<1>1. s \in Nat /\ s < Bits /\ s = Width * q + 0 /\ 0 \in 0 .. Width - 1
  BY <1>0
<1>2. s \div Width = q /\ s % Width = 0
  BY <1>1, OnlyPlace
<1> HIDE DEF s
<1>3. /\ z \in Number
      /\ \A k \in 1 .. q : Place(z, k) = Place(Zero, k)
      /\ \A k \in 1 .. Size - q : Place(z, k + q) = ByteShifted(a, 0, k)
  <2> DEFINE b == s \div Width
             move == s % Width
  <2>1. /\ z \in Number
        /\ \A k \in 1 .. b : Place(z, k) = Place(Zero, k)
        /\ \A k \in 1 .. Size - b : Place(z, k + b) = ByteShifted(a, move, k)
    BY <1>1, ZeroIs, SlIs
  <2>2. b = q /\ move = 0
    BY <1>2
  <2> HIDE DEF b, move, z
  <2> QED BY <2>1, <2>2
<1>4. ASSUME NEW k \in 1 .. Size PROVE ByteShifted(a, 0, k) = Place(a, k)
  <2>1. Place(a, k) \in Nat /\ Place(a, k) < Radix /\ Radix \in Nat \ {0}
    BY <1>0, NumberIs, PlaceIs, Sizes
  <2>2. (Place(a, k) * Two[0]) % Radix = Place(a, k)
    <3> DEFINE x == Place(a, k)
    <3>1. x \in Nat /\ x < Radix /\ x * Two[0] = x
      BY <1>0, <2>1
    <3> HIDE DEF x
    <3>2. x % Radix = x
      BY <2>1, <3>1, OnlyQuotient, Division(x, Radix, 0, x) DEF Division
    <3>3. (x * Two[0]) % Radix = x
      BY <3>1, <3>2
    <3> QED BY <3>3 DEF x
  <2>3. CarriedInto(a, 0, k) = 0
    BY DEF CarriedInto
  <2>4. Place(a, k) \in Byte
    BY <2>1 DEF Byte
  <2> QED BY <2>2, <2>3, <2>4, OrNothing DEF ByteShifted
<1> HIDE DEF z
<1>5. ASSUME NEW p \in 1 .. Size
      PROVE  Place(z, p) = IF p <= q THEN 0 ELSE Place(a, p - q)
  <2>1. CASE p <= q
    <3>1. p \in 1 .. q
      BY <1>0, <2>1
    <3> QED BY <1>3, <2>1, <3>1, ZeroIs
  <2>2. CASE ~(p <= q)
    <3> DEFINE k == p - q
    <3>1. k \in 1 .. Size - q /\ k \in 1 .. Size /\ k + q = p
      BY <1>0, <2>2
    <3> HIDE DEF k
    <3>2. Place(z, p) = Place(a, k)
      BY <1>3, <1>4, <3>1
    <3> QED BY <2>2, <3>2 DEF k
  <2> QED BY <2>1, <2>2
<1> QED
  BY <1>3, <1>5 DEF z, s

(* A product with a power of the base: as many whole bytes.                *)
LEMMA TimesBytes ==
  ASSUME NEW a \in Number, NEW q \in Nat
  PROVE  /\ Mul(a, Bit(q * Width)) \in Number
         /\ \A p \in 1 .. Size :
              Place(Mul(a, Bit(q * Width)), p) = IF p <= q THEN 0 ELSE Place(a, p - q)
<1> DEFINE s == q * Width
<1>0. Width \in {1, 2, 4, 8} /\ Size \in Nat /\ Bits = Size * Width
  BY SmallPowers, Sizes DEF Bits
<1>1. s \in Nat /\ (s < Bits <=> q < Size)
  BY <1>0
<1>2. CASE q < Size
  <2> HIDE DEF s
  <2>1. SetBits(Bit(s)) = {s}
    BY <1>1, <1>2, SetBitsOfBit
  <2>2. Mul(a, Bit(s)) = Sl(Zero, a, s)
    BY <1>1, <1>2, <2>1, MulOne
  <2> QED BY <1>2, <2>2, WholeBytes DEF s
<1>3. CASE ~(q < Size)
  <2> HIDE DEF s
  <2>1. SetBits(Bit(s)) = {}
    BY <1>1, <1>3, SetBitsOfBit
  <2>2. Mul(a, Bit(s)) = Zero
    BY <2>1, MulNone
  <2>3. \A p \in 1 .. Size : p <= q
    BY <1>0, <1>3
  <2> QED BY <2>2, <2>3, ZeroIs DEF s
<1> QED
  BY <1>2, <1>3

(* getTarget() puts the three bytes of the coefficient exponent - 3 bytes  *)
(* from the right, cut off on the left; an exponent below 3, or one that   *)
(* moves them out of the number, makes the target 0.                       *)
THEOREM TargetIsPlaced ==
  ASSUME Width > 1, Size >= 4, NEW difficulty \in Number
  PROVE  GetTarget(difficulty) = Placed(difficulty)
<1> DEFINE d == difficulty
           e == d[Size - 3]
           c == SubSeq(d, Size - 2, Size)
           b == Widened(c)
           z == GetTarget(d)
           byte(j) == IF e >= 3 /\ j \in 1 .. 3 THEN d[Size - 3 + j] ELSE 0
           t == Placed(d)
<1>0. /\ Size \in Nat /\ Width \in {1, 2, 4, 8} /\ Size - 3 \in 1 .. Size
      /\ Bits = Size * Width /\ Bits \in Nat
  BY Sizes, SmallPowers DEF Bits
<1>1. d \in Number /\ d \in Seq(Byte) /\ Len(d) = Size /\ \A i \in 1 .. Size : d[i] \in Byte
  BY NumberIs DEF Number, Numeral
<1>2. e \in Byte /\ e \in Nat
  BY <1>0, <1>1, Sizes DEF Byte
<1>3. /\ c \in Seq(Byte) /\ Len(c) = 3 /\ Numeral(c)
      /\ \A i \in 1 .. 3 : c[i] = d[Size - 3 + i]
  <2>1. Size - 2 \in 1 .. Size + 1 /\ Size - (Size - 2) + 1 = 3
    BY <1>0
  <2>2. c \in Seq(Byte) /\ Len(c) = Size - (Size - 2) + 1
    BY <1>0, <1>1, <2>1
  <2>3. \A i \in 1 .. 3 : c[i] = d[(Size - 2) + i - 1] /\ (Size - 2) + i - 1 = Size - 3 + i
    BY <1>0, <1>1, <2>1
  <2>4. c \in Seq(Byte) /\ Len(c) = 3
    BY <2>1, <2>2
  <2> HIDE DEF c
  <2>5. Numeral(c)
    BY <1>0, <2>4 DEF Numeral
  <2> QED BY <2>3, <2>4, <2>5
<1>4. z = Mul(b, Bit(ShiftOf(e))) /\ ShiftOf(e) \in Nat
  <2>1. ShiftOf(e) \in Nat /\ ShiftOf(e) < Two[ExpBits]
    BY <1>2, ShiftOfIs
  <2> QED BY <2>1, ExpIsPower DEF GetTarget
<1>5. t = [i \in 1 .. Size |-> byte(e - (Size - i))]
  BY DEF Placed
<1> HIDE DEF c, e, z, t, d
<1>6. /\ b \in Number
      /\ \A k \in 1 .. Size : Place(b, k) = IF k <= 3 THEN d[Size - k + 1] ELSE 0
  <2>1. /\ b \in Number
        /\ \A k \in 1 .. Len(c) : Place(b, k) = Place(c, k)
        /\ \A k \in Len(c) + 1 .. Size : Place(b, k) = 0
    BY <1>3, WidenedIs
  <2>2. ASSUME NEW k \in 1 .. 3 PROVE Place(c, k) = d[Size - k + 1]
    <3>1. 3 - k + 1 \in 1 .. 3 /\ Size - 3 + (3 - k + 1) = Size - k + 1
      BY <1>0
    <3> QED BY <1>3, <3>1 DEF Place
  <2>3. ASSUME NEW k \in 1 .. Size PROVE Place(b, k) = IF k <= 3 THEN d[Size - k + 1] ELSE 0
    <3>1. CASE k <= 3
      <4>1. k \in 1 .. 3 /\ k \in 1 .. Len(c)
        BY <1>0, <1>3, <3>1
      <4> QED BY <2>1, <2>2, <3>1, <4>1
    <3>2. CASE ~(k <= 3)
      <4>1. k \in Len(c) + 1 .. Size
        BY <1>0, <1>3, <3>2
      <4> QED BY <2>1, <3>2, <4>1
    <3> QED BY <3>1, <3>2
  <2> QED BY <2>1, <2>3
<1> HIDE DEF b
<1>7. /\ t \in Number
      /\ \A p \in 1 .. Size : Place(t, p) = byte(e - p + 1)
  <2>1. \A j \in 1 .. 3 : d[Size - 3 + j] \in Byte
    <3>1. \A j \in 1 .. 3 : Size - 3 + j \in 1 .. Size
      BY <1>0
    <3> QED BY <1>1, <3>1
  <2>2. \A j : byte(j) \in Byte
    BY <2>1, Sizes DEF Byte
  <2> HIDE DEF byte
  <2>3. t \in Number /\ \A i \in 1 .. Size : t[i] = byte(e - (Size - i))
    BY <1>5, <2>2 DEF Number
  <2>4. ASSUME NEW p \in 1 .. Size PROVE Place(t, p) = byte(e - p + 1)
    <3>1. Size - p + 1 \in 1 .. Size /\ e - (Size - (Size - p + 1)) = e - p + 1
      BY <1>0, <1>2
    <3>2. Place(t, p) = t[Size - p + 1]
      BY <2>3, NumberIs DEF Place
    <3>3. t[Size - p + 1] = byte(e - (Size - (Size - p + 1)))
      BY <2>3, <3>1
    <3> QED BY <3>1, <3>2, <3>3
  <2> QED BY <2>3, <2>4
<1>8. z \in Number /\ \A p \in 1 .. Size : Place(z, p) = byte(e - p + 1)
  <2>1. CASE e >= 3
    <3> DEFINE q == e - 3
    <3>1. q \in Nat /\ ShiftOf(e) = q * Width
      BY <1>2, <2>1, ShiftOfIs
    <3>2. /\ z \in Number
          /\ \A p \in 1 .. Size : Place(z, p) = IF p <= q THEN 0 ELSE Place(b, p - q)
      BY <1>4, <1>6, <3>1, TimesBytes, SMTT(30)
    <3>3. ASSUME NEW p \in 1 .. Size PROVE Place(z, p) = byte(e - p + 1)
      <4>1. CASE p <= q
        <5>1. ~(e - p + 1 \in 1 .. 3)
          BY <1>2, <4>1
        <5> QED BY <3>2, <4>1, <5>1
      <4>2. CASE ~(p <= q)
        <5> DEFINE k == p - q
        <5>1. k \in 1 .. Size /\ k = p - q /\ e - p + 1 = 4 - k /\ Size - 3 + (4 - k) = Size - k + 1
          BY <1>0, <1>2, <2>1, <4>2
        <5> HIDE DEF k, q
        <5>2. Place(z, p) = Place(b, k)
          BY <3>2, <4>2, <5>1
        <5>3. k <= 3 <=> 4 - k \in 1 .. 3
          BY <5>1
        <5>4. byte(e - p + 1) = IF k <= 3 THEN d[Size - k + 1] ELSE 0
          BY <2>1, <5>1, <5>3
        <5> QED BY <1>6, <5>1, <5>2, <5>4
      <4> QED BY <4>1, <4>2
    <3> QED BY <3>2, <3>3
  <2>2. CASE ~(e >= 3)
    <3> DEFINE k == ShiftOf(e)
    <3>1. k >= Bits /\ k \in Nat
      BY <1>2, <1>4, <2>2, ShiftOfIs
    <3> HIDE DEF k
    <3>2. SetBits(Bit(k)) = {}
      BY <1>0, <3>1, SetBitsOfBit
    <3>3. z = Zero
      BY <1>4, <3>2, MulNone DEF k
    <3>4. \A p \in 1 .. Size : byte(e - p + 1) = 0
      BY <2>2
    <3> HIDE DEF byte
    <3> QED BY <3>3, <3>4, ZeroIs
  <2> QED BY <2>1, <2>2
<1>9. z = t
  <2> HIDE DEF byte
  <2> QED BY <1>7, <1>8, SamePlaces
<1> QED
  BY <1>9 DEF z, t, d

-----------------------------------------------------------------------------
(* What shifts and products by a power of the base are worth.              *)

LEMMA WeightSum ==
  \A i, j \in Nat : i + j <= Size => Weight[i + j] = Weight[i] * Weight[j]
<1> SUFFICES ASSUME NEW i \in Nat, NEW n \in Nat, i + n <= Size
             PROVE  Weight[i + n] = Weight[i] * Weight[n]
  OBVIOUS
<1> DEFINE P == {k \in 0 .. n : Weight[i + k] = Weight[i] * Weight[k]}
<1>0. Size \in Nat /\ i \in 0 .. Size /\ Weight[i] \in Nat /\ Radix \in Nat
  BY Sizes, WeightIs
<1>1. Inductive(n, P)
  <2>1. 0 \in P
    BY <1>0, WeightIs
  <2>2. ASSUME NEW k \in 1 .. n, k - 1 \in P PROVE k \in P
    <3>1. i + k \in 1 .. Size /\ (i + k) - 1 = i + (k - 1) /\ k \in 1 .. Size /\ k - 1 \in 0 .. Size
      BY <1>0
    <3>2. Weight[i + k] = Radix * Weight[i + (k - 1)] /\ Weight[k] = Radix * Weight[k - 1]
      BY <3>1, WeightIs
    <3>3. Weight[i + (k - 1)] = Weight[i] * Weight[k - 1] /\ Weight[k - 1] \in Nat
      BY <2>2, <3>1, WeightIs
    <3>4. Radix * (Weight[i] * Weight[k - 1]) = Weight[i] * (Radix * Weight[k - 1])
      BY <1>0, <3>3
    <3> QED BY <3>2, <3>3, <3>4
  <2> QED BY <2>1, <2>2 DEF Inductive
<1> QED
  BY <1>1, Climb

(* The value above place i.                                                *)
LEMMA LowSplits ==
  ASSUME NEW a \in Number, NEW i \in 0 .. Size
  PROVE  \E h \in Nat : Value(a) = Low(a)[i] + Weight[i] * h
<1> DEFINE P == {k \in 0 .. Size : k >= i => \E h \in Nat : Low(a)[k] = Low(a)[i] + Weight[i] * h}
<1>0. /\ Size \in Nat /\ Numeral(a) /\ Len(a) = Size /\ Low(a)[i] \in Nat /\ Weight[i] \in Nat
  BY Sizes, NumberIs, LowIs, WeightIs
<1>e. Low(a)[i] = Low(a)[i] + Weight[i] * 0
  BY <1>0
<1>1. Inductive(Size, P)
  <2>1. 0 \in P
    <3>1. 0 >= i => i = 0
      BY <1>0
    <3> QED BY <1>0, <1>e, <3>1
  <2>2. ASSUME NEW k \in 1 .. Size, k - 1 \in P PROVE k \in P
    <3>1. CASE k <= i
      <4>1. k >= i => k = i
        BY <1>0, <3>1
      <4> QED BY <1>0, <1>e, <4>1
    <3>2. CASE k > i
      <4>1. PICK h \in Nat : Low(a)[k - 1] = Low(a)[i] + Weight[i] * h
        BY <1>0, <2>2, <3>2
      <4> DEFINE j == k - 1 - i
                 x == Place(a, k)
                 w == Weight[i]
                 u == Weight[j]
                 y == Low(a)[i]
      <4>2. j \in Nat /\ i + j = k - 1 /\ i + j <= Size /\ j \in 0 .. Size /\ i \in Nat
        BY <1>0, <3>2
      <4>3. Low(a)[k] = Low(a)[k - 1] + x * Weight[k - 1] /\ x \in Nat
        BY <1>0, LowIs, PlaceIs
      <4>4. Weight[k - 1] = w * u /\ u \in Nat /\ w \in Nat /\ y \in Nat
        <5>1. Weight[i + j] = w * u
          BY <4>2, WeightSum
        <5>2. u \in Nat /\ w \in Nat
          BY <4>2, WeightIs
        <5>3. y \in Nat
          BY <1>0
        <5> QED BY <4>2, <5>1, <5>2, <5>3
      <4> HIDE DEF x, w, u, y, j
      <4>5. h + x * u \in Nat
        BY <4>3, <4>4
      <4>6. (y + w * h) + x * (w * u) = y + w * (h + x * u)
        <5>1. w * (h + x * u) = w * h + x * (w * u)
          BY <4>3, <4>4
        <5>2. w * h \in Nat /\ x * (w * u) \in Nat
          BY <4>3, <4>4
        <5> QED BY <4>4, <5>1, <5>2
      <4>7. Low(a)[k] = y + w * (h + x * u)
        BY <4>1, <4>3, <4>4, <4>6 DEF y, w
      <4>8. k \in 0 .. Size
        BY <1>0
      <4> QED BY <4>5, <4>7, <4>8 DEF y, w
    <3> QED BY <1>0, <3>1, <3>2
  <2> QED BY <2>1, <2>2 DEF Inductive
<1>2. \E h \in Nat : Low(a)[Size] = Low(a)[i] + Weight[i] * h
  BY <1>0, <1>1, Climb
<1> QED
  BY <1>2, ValueIs

(* Where the carry of uint256_sl() is right: by whole bytes, and by half a *)
(* byte more.                                                              *)
CarryRight(move) == move \in Nat /\ (move = 0 \/ move + move = Width)

(* What a place passes on to the next.                                     *)
PassedOn(a, move, k) ==
  IF k = 0 \/ move = 0 THEN 0 ELSE Carry(Place(a, k), move)

LEMMA ByteSum ==
  ASSUME NEW a \in Number, NEW move, CarryRight(move), NEW k \in 1 .. Size
  PROVE  /\ PassedOn(a, move, k) \in Nat /\ PassedOn(a, move, k - 1) \in Nat
         /\ PassedOn(a, move, k) < Two[move]
         /\ ByteShifted(a, move, k) + Radix * PassedOn(a, move, k)
              = Place(a, k) * Two[move] + PassedOn(a, move, k - 1)
<1> DEFINE x == Place(a, k)
           T == Two[move]
<1>0. /\ Size \in Nat /\ Width \in {1, 2, 4, 8} /\ Two[0] = 1 /\ move \in 0 .. Width /\ move \in Nat
      /\ Width <= ExpBits /\ ExpBits \in Nat /\ Radix \in Nat \ {0} /\ 0 \in Byte
      /\ \A j \in 1 .. Size : Place(a, j) \in Nat /\ Place(a, j) < Radix
  <2>1. Width \in {1, 2, 4, 8} /\ Width <= ExpBits /\ ExpBits \in Nat /\ Two[0] = 1
    BY SmallPowers
  <2>2. move \in 0 .. Width /\ move \in Nat
    BY <2>1 DEF CarryRight
  <2> QED BY <2>1, <2>2, Sizes, NumberIs, PlaceIs DEF Byte
<1>1. x \in Nat /\ x < Radix /\ k # 0
  BY <1>0
<1>2. k # 1 => k - 1 \in 1 .. Size /\ Place(a, k - 1) \in Nat /\ Place(a, k - 1) < Radix
  <2> SUFFICES ASSUME k # 1 PROVE k - 1 \in 1 .. Size /\ Place(a, k - 1) \in Nat /\ Place(a, k - 1) < Radix
    OBVIOUS
  <2>1. k - 1 \in 1 .. Size
    BY <1>0
  <2> QED BY <1>0, <2>1
<1>3. CarriedInto(a, move, k) = PassedOn(a, move, k - 1)
  <2>1. k = 1 <=> k - 1 = 0
    BY <1>0
  <2> QED BY <2>1 DEF CarriedInto, PassedOn
<1> HIDE DEF x
<1>4. CASE move = 0
  <2>1. T = 1 /\ x * T = x
    BY <1>0, <1>1, <1>4
  <2>2. x % Radix = x
    BY <1>0, <1>1, OnlyQuotient, Division(x, Radix, 0, x) DEF Division
  <2>3. PassedOn(a, move, k) = 0 /\ PassedOn(a, move, k - 1) = 0
    BY <1>4 DEF PassedOn
  <2>4. x \in Byte
    BY <1>0, <1>1 DEF Byte
  <2>5. ByteShifted(a, move, k) = x
    BY <1>3, <2>1, <2>2, <2>3, <2>4, OrNothing DEF ByteShifted, x
  <2> QED BY <1>0, <1>1, <1>4, <2>1, <2>3, <2>5 DEF x
<1>5. CASE move # 0
  <2>1. move + move = Width /\ Width - move = move /\ Splits(Width, move, move)
    BY <1>0, <1>5 DEF CarryRight, Splits
  <2>2. Radix = T * T /\ T \in Nat \ {0}
    BY <2>1, TwoSplit DEF Radix
  <2> HIDE DEF T
  <2>3. ASSUME NEW y \in Nat, y < Radix
        PROVE  /\ Carry(y, move) = y \div T /\ y \div T \in Nat /\ y \div T < T
               /\ y % T \in Nat /\ y % T < T /\ y = (y \div T) * T + (y % T)
    <3> DEFINE q == y \div T
               r == y % T
    <3>1. q \in Nat /\ r \in 0 .. T - 1 /\ y = q * T + r
      BY <2>2, Divides
    <3>2. Carry(y, move) = (y - r) \div T
      BY <2>1 DEF Carry, T
    <3> HIDE DEF q, r
    <3>3. y - r = q * T + 0 /\ 0 \in 0 .. T - 1
      <4>1. q * T \in Nat
        BY <2>2, <3>1
      <4> QED BY <2>2, <3>1, <4>1
    <3>4. (y - r) \div T = q
      BY <2>2, <3>1, <3>3, QuotientUnique
    <3>5. q < T
      <4> SUFFICES ASSUME q >= T PROVE FALSE
        BY <2>2, <3>1
      <4>1. q * T >= T * T /\ q * T \in Nat
        BY <2>2, <3>1
      <4> QED BY <2>2, <2>3, <3>1, <4>1
    <3> QED BY <2>2, <3>1, <3>2, <3>4, <3>5 DEF q, r
  <2> DEFINE q == x \div T
             r == x % T
             c == PassedOn(a, move, k - 1)
  <2>4. PassedOn(a, move, k) = q /\ q \in Nat /\ q < T /\ r \in Nat /\ r < T /\ x = q * T + r
    <3>1. PassedOn(a, move, k) = Carry(x, move)
      BY <1>1, <1>5 DEF PassedOn, x
    <3> QED BY <1>1, <2>3, <3>1
  <2>5. c \in Nat /\ c < T
    <3>1. CASE k = 1
      <4>1. c = 0
        BY <3>1 DEF PassedOn
      <4> QED BY <2>2, <4>1
    <3>2. CASE k # 1
      <4> DEFINE y == Place(a, k - 1)
      <4>1. y \in Nat /\ y < Radix /\ c = Carry(y, move)
        BY <1>0, <1>2, <1>5, <3>2 DEF PassedOn
      <4> HIDE DEF y, c
      <4> QED BY <2>3, <4>1
    <3> QED BY <3>1, <3>2
  <2>6. ByteShifted(a, move, k) = Or((x * T) % Radix, c)
    BY <1>3 DEF ByteShifted, x, T
  <2> HIDE DEF q, r, c
  <2>7. x * T = q * Radix + r * T /\ r * T \in Nat /\ r * T < Radix
    <3>1. (q * T + r) * T = q * (T * T) + r * T
      BY <2>2, <2>4
    <3>2. r * T < T * T /\ r * T \in Nat
      BY <2>2, <2>4
    <3> QED BY <2>2, <2>4, <3>1, <3>2
  <2>8. (x * T) % Radix = r * T
    <3>1. r * T \in 0 .. Radix - 1
      BY <1>0, <2>7
    <3> QED BY <1>0, <2>4, <2>7, <3>1, QuotientUnique
  <2>9. Or(r * T, c) = r * T + c
    BY <1>0, <2>4, <2>5, <2>7, OrSum DEF T
  <2>10. (r * T + c) + Radix * q = x * T + c
    <3>1. Radix * q = q * Radix /\ q * Radix \in Nat
      BY <1>0, <2>4
    <3> QED BY <2>5, <2>7, <3>1
  <2> QED BY <2>4, <2>5, <2>6, <2>8, <2>9, <2>10 DEF x, T, c
<1> QED
  BY <1>4, <1>5

(* One more place of the sum of a shifted number.                          *)
LEMMA ShiftUp ==
  ASSUME NEW u \in Nat, NEW v \in Nat, NEW T \in Nat, NEW R \in Nat,
         NEW x \in Nat, NEW p \in Nat, NEW q \in Nat, NEW c \in Nat,
         NEW low \in Nat, NEW bits \in Nat,
         bits + (u * v) * c = T * (u * low),
         p + R * q = x * T + c
  PROVE  (bits + p * (u * v)) + (R * (u * v)) * q = T * (u * (low + x * v))
<1> DEFINE w == u * v
<1>0. w \in Nat
  OBVIOUS
<1>1. T * (u * (low + x * v)) = T * (u * low) + (x * T) * w
  <2>1. u * (low + x * v) = u * low + x * (u * v)
    OBVIOUS
  <2>2. u * low \in Nat /\ x * w \in Nat
    BY <1>0
  <2> HIDE DEF w
  <2>3. T * (u * low + x * w) = T * (u * low) + (x * T) * w
    <3> DEFINE y == u * low
    <3>1. y \in Nat
      BY <2>2
    <3> HIDE DEF y
    <3>2. T * (y + x * w) = T * y + (x * T) * w
      BY <1>0, <3>1
    <3> QED BY <3>2 DEF y
  <2> QED BY <2>1, <2>3 DEF w
<1> HIDE DEF w
<1>2. (p + R * q) * w = p * w + (R * w) * q
  BY <1>0
<1>3. (x * T + c) * w = (x * T) * w + w * c
  BY <1>0
<1>4. p * w + (R * w) * q = (x * T) * w + w * c
  BY <1>2, <1>3
<1>5. p * w \in Nat /\ (R * w) * q \in Nat /\ (x * T) * w \in Nat /\ w * c \in Nat
  BY <1>0
<1>6. bits + w * c = T * (u * low)
  BY DEF w
<1>7. (bits + p * w) + (R * w) * q = T * (u * low) + (x * T) * w
  BY <1>4, <1>5, <1>6
<1> QED
  BY <1>1, <1>7 DEF w

(* uint256_sl() is a product modulo 2^256 where the carry is right.        *)
THEOREM ShiftIsProduct ==
  ASSUME NEW a \in Number, NEW s \in Nat, s < Bits, CarryRight(s % Width)
  PROVE  Value(Sl(Zero, a, s))
           = (Two[s % Width] * (Weight[s \div Width] * Value(a))) % Weight[Size]
<1> DEFINE b == s \div Width
           move == s % Width
           z == Sl(Zero, a, s)
           n == Size - b
           T == Two[move]
           u == Weight[b]
           out(k) == PassedOn(a, move, k)
           P == {k \in 0 .. n :
                   Low(z)[k + b] + Weight[k + b] * out(k) = T * (u * Low(a)[k])}
<1>0. /\ z \in Number
      /\ \A k \in 1 .. b : Place(z, k) = 0
      /\ \A k \in 1 .. n : Place(z, k + b) = ByteShifted(a, move, k)
  <2>1. /\ z \in Number
        /\ \A k \in 1 .. b : Place(z, k) = Place(Zero, k)
        /\ \A k \in 1 .. n : Place(z, k + b) = ByteShifted(a, move, k)
    BY ZeroIs, SlIs
  <2>2. b \in Nat /\ b < Size /\ Size \in Nat
    BY PlaceOfBit
  <2>3. \A k \in 1 .. b : k \in 1 .. Size
    BY <2>2
  <2> QED BY <2>1, <2>3, ZeroIs
<1>1. /\ b \in Nat /\ b < Size /\ Size \in Nat /\ n \in Nat /\ n >= 1 /\ n + b = Size
      /\ move \in Nat /\ move \in 0 .. ExpBits
  <2>1. b \in Nat /\ b < Size /\ Size \in Nat /\ move \in 0 .. Width - 1
    BY PlaceOfBit
  <2> HIDE DEF b, move
  <2>2. move \in 0 .. ExpBits
    BY <2>1, SmallPowers
  <2> QED BY <2>1, <2>2
<1>2. CarryRight(move)
  OBVIOUS
<1> HIDE DEF b, move, n, z
<1>3. /\ Numeral(z) /\ Len(z) = Size /\ Numeral(a) /\ Len(a) = Size
      /\ T \in Nat /\ u \in Nat /\ Radix \in Nat /\ b \in 0 .. Size
  BY <1>0, <1>1, NumberIs, TwoIs, WeightIs, Sizes
<1>4. Low(z)[b] = 0
  <2> DEFINE Q == {k \in 0 .. b : Low(z)[k] = 0}
  <2>1. Inductive(b, Q)
    <3>1. 0 \in Q
      BY <1>1, <1>3, LowIs
    <3>2. ASSUME NEW k \in 1 .. b, k - 1 \in Q PROVE k \in Q
      <4>1. k \in 1 .. Size /\ k - 1 \in 0 .. Size /\ k \in 0 .. b
        BY <1>1
      <4>2. Low(z)[k] = Low(z)[k - 1] + Place(z, k) * Weight[k - 1] /\ Weight[k - 1] \in Nat
        BY <1>3, <4>1, LowIs, WeightIs
      <4>3. Place(z, k) = 0 /\ Low(z)[k - 1] = 0
        BY <1>0, <3>2
      <4> QED BY <4>1, <4>2, <4>3
    <3> QED BY <3>1, <3>2 DEF Inductive
  <2> QED BY <1>1, <2>1, Climb
<1>5. Inductive(n, P)
  <2>1. 0 \in P
    <3>1. out(0) = 0 /\ Low(a)[0] = 0 /\ Weight[b] \in Nat
      BY <1>1, <1>3, LowIs, WeightIs DEF PassedOn
    <3>2. T * (u * 0) = 0 /\ Weight[b] * 0 = 0
      BY <1>3, <3>1
    <3> QED BY <1>1, <1>4, <3>1, <3>2
  <2>2. ASSUME NEW k \in 1 .. n, k - 1 \in P PROVE k \in P
    <3> DEFINE v == Weight[k - 1]
               x == Place(a, k)
               p == ByteShifted(a, move, k)
               q == out(k)
               c == out(k - 1)
               low == Low(a)[k - 1]
               bits == Low(z)[(k - 1) + b]
    <3>1. /\ k \in 1 .. Size /\ k - 1 \in 0 .. Size /\ k \in 0 .. n
          /\ k + b \in 1 .. Size /\ (k + b) - 1 = (k - 1) + b /\ (k - 1) + b \in 0 .. Size
          /\ b + (k - 1) = (k - 1) + b /\ k - 1 \in Nat /\ b + (k - 1) <= Size
      BY <1>1
    <3>2. /\ p \in Nat /\ q \in Nat /\ c \in Nat /\ p + Radix * q = x * T + c
      <4>1. p \in Byte
        BY <1>1, <3>1, ByteShiftedIs, SmallPowers DEF CarryRight, move
      <4>2. q \in Nat /\ c \in Nat /\ p + Radix * q = x * T + c
        BY <1>2, <3>1, ByteSum
      <4> QED BY <4>1, <4>2, Sizes DEF Byte
    <3>3. x \in Nat /\ low \in Nat /\ bits \in Nat /\ v \in Nat
      BY <1>3, <3>1, PlaceIs, LowIs, WeightIs
    <3>4. Weight[(k - 1) + b] = u * v /\ Weight[k + b] = Radix * (u * v)
      <4>1. Weight[b + (k - 1)] = Weight[b] * Weight[k - 1]
        BY <1>1, <3>1, WeightSum
      <4>2. Weight[k + b] = Radix * Weight[(k + b) - 1]
        BY <3>1, WeightIs
      <4> QED BY <3>1, <4>1, <4>2
    <3>5. Low(z)[k + b] = bits + p * (u * v)
      <4>1. Low(z)[k + b] = Low(z)[(k + b) - 1] + Place(z, k + b) * Weight[(k + b) - 1]
        BY <1>3, <3>1, LowIs
      <4>2. Place(z, k + b) = p
        BY <1>0
      <4> QED BY <3>1, <3>4, <4>1, <4>2
    <3>6. Low(a)[k] = low + x * v
      BY <1>3, <3>1, LowIs
    <3>7. bits + (u * v) * c = T * (u * low)
      BY <2>2, <3>4
    <3> HIDE DEF v, x, p, q, c, low, bits, T, u, out
    <3>8. (bits + p * (u * v)) + (Radix * (u * v)) * q = T * (u * (low + x * v))
      BY <1>3, <3>2, <3>3, <3>7, ShiftUp
    <3> QED BY <3>1, <3>4, <3>5, <3>6, <3>8 DEF q
  <2> QED BY <2>1, <2>2 DEF Inductive
<1> DEFINE m == Weight[Size]
           v == Value(z)
           g == out(n)
<1>6. v + m * g = T * (u * Low(a)[n])
  <2>1. n \in P
    <3> HIDE DEF P
    <3> QED BY <1>1, <1>5, Climb, n \in 0 .. n
  <2>2. v = Low(z)[Size]
    BY <1>0, ValueIs
  <2> QED BY <1>1, <2>1, <2>2
<1>7. PICK h \in Nat : Value(a) = Low(a)[n] + Weight[n] * h
  BY <1>1, LowSplits, n \in 0 .. Size
<1>8. /\ m = u * Weight[n] /\ m \in Nat \ {0} /\ Weight[n] \in Nat /\ Low(a)[n] \in Nat
      /\ v \in Nat /\ v < m /\ g \in Nat
  <2>1. n \in 0 .. Size /\ n \in 1 .. Size /\ b + n = Size /\ b + n <= Size
    BY <1>1
  <2>2. m = u * Weight[n]
    <3>1. b \in Nat /\ n \in Nat /\ Weight[b + n] = Weight[b] * Weight[n]
      BY <1>1, <2>1, WeightSum
    <3> QED BY <2>1, <3>1
  <2>3. g \in Nat
    BY <1>2, <2>1, ByteSum
  <2>4. m \in Nat \ {0} /\ Weight[n] \in Nat
    BY <1>1, <2>1, WeightIs, Size \in 0 .. Size
  <2>5. Low(a)[n] \in Nat
    BY <1>3, <2>1, LowIs
  <2>6. v \in Nat /\ v < m
    BY <1>0, ValueIs
  <2> QED BY <2>2, <2>3, <2>4, <2>5, <2>6
<1> DEFINE low == Low(a)[n]
           w == Weight[n]
           val == Value(a)
<1>9. (T * (u * val)) % m = v
  <2>1. /\ val = low + w * h /\ m = u * w /\ w \in Nat /\ low \in Nat
        /\ v + m * g = T * (u * low)
    BY <1>6, <1>7, <1>8
  <2> HIDE DEF T, u, m, v, g, low, w, val
  <2>2. T * (u * (low + w * h)) = T * (u * low) + (T * h) * m
    <3>1. u * (low + w * h) = u * low + m * h
      BY <1>3, <2>1
    <3> DEFINE y == u * low
    <3>2. y \in Nat /\ m \in Nat
      BY <1>3, <1>8, <2>1
    <3> HIDE DEF y
    <3>3. T * (y + m * h) = T * y + (T * h) * m
      BY <1>3, <3>2
    <3> QED BY <3>1, <3>3 DEF y
  <2>3. T * (u * val) = (g + T * h) * m + v
    <3>1. (g + T * h) * m = m * g + (T * h) * m
      BY <1>3, <1>8
    <3>2. m * g \in Nat /\ (T * h) * m \in Nat
      <4>1. m \in Nat /\ g \in Nat /\ T \in Nat /\ h \in Nat
        BY <1>3, <1>8
      <4> QED BY <4>1
    <3> QED BY <1>8, <2>1, <2>2, <3>1, <3>2
  <2>4. g + T * h \in Nat /\ v \in 0 .. m - 1
    BY <1>3, <1>8
  <2> DEFINE y == g + T * h
  <2>5. y \in Nat /\ T * (u * val) = y * m + v
    BY <2>3, <2>4
  <2> HIDE DEF y
  <2>6. (y * m + v) % m = v
    BY <1>8, <2>4, <2>5, QuotientUnique
  <2> QED BY <2>5, <2>6
<1> QED
  BY <1>9 DEF z, b, move

(* A power of the base is one bit.                                         *)
LEMMA ValueOfBit ==
  ASSUME NEW q \in Nat, q < Size
  PROVE  Bit(q * Width) \in Number /\ Value(Bit(q * Width)) = Weight[q]
<1> DEFINE z == Bit(q * Width)
           P == {k \in 0 .. Size : Low(z)[k] = IF k <= q THEN 0 ELSE Weight[q]}
<1>0. /\ Size \in Nat /\ q * Width \in Nat /\ q * Width < Bits
      /\ (q * Width) \div Width = q /\ (q * Width) % Width = 0 /\ Two[0] = 1
  <2>1. Width \in {1, 2, 4, 8} /\ Size \in Nat /\ Bits = Size * Width /\ Two[0] = 1
    BY SmallPowers, Sizes DEF Bits
  <2>2. q * Width = Width * q + 0 /\ q * Width \in Nat /\ q * Width < Bits /\ 0 \in 0 .. Width - 1
    BY <2>1
  <2>3. (Width * q + 0) \div Width = q /\ (Width * q + 0) % Width = 0
    BY <2>2, OnlyPlace
  <2> QED BY <2>1, <2>2, <2>3
<1>1. /\ z \in Number /\ Numeral(z) /\ Len(z) = Size
      /\ \A p \in 1 .. Size : Place(z, p) = IF p = q + 1 THEN 1 ELSE 0
  <2>1. /\ z \in Number
        /\ \A p \in 1 .. Size :
             Place(z, p) = IF q * Width < Bits /\ p = (q * Width) \div Width + 1
                           THEN Two[(q * Width) % Width] ELSE 0
    BY <1>0, BitIs
  <2> HIDE DEF z
  <2>2. \A p \in 1 .. Size : Place(z, p) = IF p = q + 1 THEN 1 ELSE 0
    BY <1>0, <2>1
  <2> QED BY <2>1, <2>2, NumberIs
<1> HIDE DEF z
<1>2. Inductive(Size, P)
  <2>1. 0 \in P
    BY <1>0, <1>1, LowIs
  <2>2. ASSUME NEW k \in 1 .. Size, k - 1 \in P PROVE k \in P
    <3>1. k \in 0 .. Size /\ k - 1 \in 0 .. Size
      BY <1>0
    <3>2. Low(z)[k] = Low(z)[k - 1] + Place(z, k) * Weight[k - 1] /\ Weight[k - 1] \in Nat
      BY <1>0, <1>1, <3>1, LowIs, WeightIs
    <3>3. Low(z)[k - 1] = IF k - 1 <= q THEN 0 ELSE Weight[q]
      BY <2>2
    <3>4. CASE k <= q
      BY <1>0, <1>1, <3>1, <3>2, <3>3, <3>4
    <3>5. CASE k = q + 1
      BY <1>0, <1>1, <3>1, <3>2, <3>3, <3>5
    <3>6. CASE k > q + 1
      <4>1. Weight[q] \in Nat
        BY <1>0, WeightIs, q \in 0 .. Size
      <4> QED BY <1>0, <1>1, <3>1, <3>2, <3>3, <3>6, <4>1
    <3> QED BY <3>4, <3>5, <3>6
  <2> QED BY <2>1, <2>2 DEF Inductive
<1>3. Low(z)[Size] = Weight[q]
  <2>1. Size \in P
    BY <1>0, <1>2, Climb
  <2> QED BY <1>0, <2>1
<1> QED
  BY <1>1, <1>3, ValueIs DEF z

(* uint256_mul() by a power of the base is a product modulo 2^256.         *)
THEOREM MulByPower ==
  ASSUME NEW a \in Number, NEW b \in Number, NEW q \in Nat, q < Size, Value(b) = Weight[q]
  PROVE  Value(Mul(a, b)) = (Value(a) * Value(b)) % Weight[Size]
<1> DEFINE s == q * Width
<1>0. b = Bit(s)
  BY ValueOfBit, OneNumberPerValue
<1>1. Size \in Nat /\ s \in Nat /\ s < Bits /\ s \div Width = q /\ s % Width = 0 /\ Two[0] = 1
  <2>1. Width \in {1, 2, 4, 8} /\ Size \in Nat /\ Bits = Size * Width /\ Two[0] = 1
    BY SmallPowers, Sizes DEF Bits
  <2>2. s = Width * q + 0 /\ s \in Nat /\ s < Bits /\ 0 \in 0 .. Width - 1
    BY <2>1
  <2>3. (Width * q + 0) \div Width = q /\ (Width * q + 0) % Width = 0
    BY <2>2, OnlyPlace
  <2> QED BY <2>1, <2>2, <2>3
<1> HIDE DEF s
<1>2. Mul(a, Bit(s)) = Sl(Zero, a, s)
  BY <1>1, SetBitsOfBit, MulOne
<1>3. CarryRight(s % Width)
  BY <1>1 DEF CarryRight
<1>4. Value(Sl(Zero, a, s)) = (Two[s % Width] * (Weight[s \div Width] * Value(a))) % Weight[Size]
  BY <1>1, <1>3, ShiftIsProduct
<1>5. Value(Sl(Zero, a, s)) = (1 * (Weight[q] * Value(a))) % Weight[Size]
  BY <1>1, <1>4
<1>6. 1 * (Weight[q] * Value(a)) = Value(a) * Weight[q]
  BY <1>1, WeightIs, ValueIs, q \in 0 .. Size
<1> QED
  BY <1>0, <1>2, <1>5, <1>6

(* Where the exponent reaches every bit of a number, the weights of its    *)
(* bytes are powers of two.                                                *)
LEMMA WeightIsTwo ==
  ASSUME Bits <= ExpBits, NEW q \in 0 .. Size
  PROVE  q * Width \in Nat /\ q * Width <= Bits /\ Weight[q] = Two[q * Width]
<1> DEFINE P == {k \in 0 .. Size : Weight[k] = Two[k * Width]}
<1>0. /\ Width \in {1, 2, 4, 8} /\ Size \in Nat /\ Bits = Size * Width /\ Two[0] = 1
      /\ ExpBits \in Nat /\ Radix = Two[Width]
  BY SmallPowers, Sizes, TwoIs DEF Bits, Radix
<1>1. \A k \in 0 .. Size : k * Width \in Nat /\ k * Width <= Bits
  BY <1>0
<1>2. Inductive(Size, P)
  <2>1. 0 \in P
    <3>1. 0 * Width = 0
      BY <1>0
    <3> QED BY <1>0, <3>1, WeightIs
  <2>2. ASSUME NEW k \in 1 .. Size, k - 1 \in P PROVE k \in P
    <3>1. /\ (k - 1) * Width \in Nat /\ Width \in Nat /\ Width + (k - 1) * Width = k * Width
          /\ k \in 0 .. Size /\ Width + (k - 1) * Width <= ExpBits
      BY <1>0, <1>1
    <3>2. Two[Width + (k - 1) * Width] = Two[Width] * Two[(k - 1) * Width]
      BY <3>1, TwoSum
    <3>3. Weight[k - 1] = Two[(k - 1) * Width]
      BY <2>2
    <3> QED BY <1>0, <3>1, <3>2, <3>3, WeightIs
  <2> QED BY <2>1, <2>2 DEF Inductive
<1> QED
  BY <1>0, <1>1, <1>2, Climb

(* There the shift is the product with a power of two.                     *)
LEMMA ShiftIsTimesTwo ==
  ASSUME Bits <= ExpBits, NEW a \in Number, NEW s \in Nat, s < Bits, CarryRight(s % Width)
  PROVE  Value(Sl(Zero, a, s)) = (Value(a) * Two[s]) % Weight[Size]
<1> DEFINE q == s \div Width
           move == s % Width
<1>0. /\ Width \in Nat \ {0} /\ Size \in Nat /\ Bits = Size * Width /\ ExpBits \in Nat
      /\ Value(a) \in Nat
  BY SmallPowers, Sizes, TwoIs, ValueIs DEF Bits
<1>1. q \in Nat /\ move \in Nat /\ s = q * Width + move
  <2>1. s \div Width \in Nat /\ s % Width \in 0 .. Width - 1 /\ s = (s \div Width) * Width + (s % Width)
    BY <1>0, Divides, Zenon
  <2> HIDE DEF q, move
  <2>2. q \in Nat /\ move \in 0 .. Width - 1 /\ s = q * Width + move
    BY <2>1, Zenon DEF q, move
  <2> QED BY <1>0, <2>2
<1>2. Value(Sl(Zero, a, s)) = (Two[move] * (Weight[q] * Value(a))) % Weight[Size]
  BY ShiftIsProduct
<1> HIDE DEF q, move
<1>3. q \in 0 .. Size
  <2>1. CASE q > Size
    <3>1. PICK d \in Nat : q = Size + d
      BY <1>0, <1>1, <2>1, q - Size \in Nat, q = Size + (q - Size)
    <3>2. q * Width = Bits + d * Width /\ d * Width \in Nat
      BY <1>0, <3>1
    <3> QED BY <1>0, <1>1, <3>2
  <2> QED BY <1>0, <1>1, <2>1
<1>4. q * Width \in Nat /\ Weight[q] = Two[q * Width]
  BY <1>3, WeightIsTwo
<1>5. move + q * Width = s /\ move + q * Width <= ExpBits
  BY <1>0, <1>1, <1>4
<1>6. Two[s] = Two[move] * Two[q * Width]
  BY <1>1, <1>4, <1>5, TwoSum
<1>7. Two[move] \in Nat /\ Weight[q] \in Nat
  <2>1. move \in 0 .. ExpBits
    BY <1>0, <1>1, <1>4, <1>5
  <2> QED BY <1>3, <2>1, TwoIs, WeightIs
<1>8. Two[move] * (Weight[q] * Value(a)) = Value(a) * (Two[move] * Weight[q])
  BY <1>0, <1>7
<1> QED
  BY <1>2, <1>4, <1>6, <1>8

=============================================================================
