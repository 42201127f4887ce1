------------------------------- MODULE Uint256 -------------------------------
(***************************************************************************)
(* Numbers as uint256.h keeps them, an array of Size bytes with the most   *)
(* significant first: its arithmetic, the difficulty that server2.c makes  *)
(* of it, the digest comparison of sha256.c, and the text of a number in a *)
(* message.  The C index i is the index i + 1 of the sequence.  Size and   *)
(* Width are 32 and 8 in the code: smaller ones let TLC compare every      *)
(* operation with the integer arithmetic it stands for.                    *)
(***************************************************************************)
EXTENDS Integers, Sequences, FiniteSets

CONSTANTS
  Size,     (* bytes in a number: 32                                       *)
  Width,    (* bits in a byte: 8                                           *)
  Hashed,   (* bytes of a nonce that are hashed: 8                         *)
  ExpBits,  (* bits in the uint32_t exponent: 32                           *)
  Two       (* the powers of two, from 0 to ExpBits                        *)

ASSUME PowersAssumption ==
  /\ ExpBits \in Nat
  /\ Two \in [0 .. ExpBits -> Nat]
  /\ Two[0] = 1 /\ \A k \in 1 .. ExpBits : Two[k] = 2 * Two[k - 1]

Radix == Two[Width]

Bits == Size * Width

(* The exponent holds every place of a bit, whatever byte names it, and    *)
(* wraps, below zero, to one that is out of the number.                    *)
ASSUME Uint256Assumption ==
  /\ Width \in {1, 2, 4, 8}
  /\ Size \in Nat
  /\ Hashed \in 1 .. Size - 1
  /\ Width <= ExpBits
  /\ Radix * Width <= Two[ExpBits] /\ (Size + 3) * Width <= Two[ExpBits]

Byte == 0 .. Radix - 1

Number == [1 .. Size -> Byte]

(* uint256_init().                                                         *)
Zero == [i \in 1 .. Size |-> 0]

(* The number whose low bytes are the sequence s.                          *)
Widened(s) == SubSeq(Zero, 1, Size - Len(s)) \o s

One == Widened(<<1>>)

(* Mutant: the carry of a byte does not reach the next one.                *)
AddBytewise(a, b) == [i \in 1 .. Size |-> (a[i] + b[i]) % Radix]

(* uint256_add(): from the last byte to the first; temp[i] is temp when    *)
(* byte i is stored.                                                       *)
Add(a, b) ==
  LET temp[i \in 1 .. Size] ==
        a[i] + b[i] + (IF i = Size THEN 0 ELSE temp[i + 1] \div Radix)
  IN  [i \in 1 .. Size |-> temp[i] % Radix]

(* isvalid(): what follows the seed in the bytes hashed.                   *)
HashedNonce(nonce) == SubSeq(nonce, Size - Hashed + 1, Size)

Tail8 == [1 .. Hashed -> Byte]

(* sha256_compare(): the first byte that differs decides.                  *)
Compare(d1, d2) ==
  LET differ == {i \in 1 .. Size : d1[i] # d2[i]}
  IN  IF differ = {} THEN 0
      ELSE LET first == CHOOSE i \in differ : \A j \in differ : i <= j
           IN  IF d1[first] < d2[first] THEN -1 ELSE 1

-----------------------------------------------------------------------------
(* uint256_sl(res, a, shift): the result written over what res held.  The  *)
(* bytes below the shift are left as they were.  The bits a byte passes on *)
(* to its neighbour are its top `move` bits, moved down by `move` (not by  *)
(* Width - move).                                                          *)

(* Mutant: the carry is dropped.                                           *)
CarryLost(byte, move) == 0

Carry(byte, move) == (byte - (byte % Two[Width - move])) \div Two[move]

(* The bit in place k, the lowest being 0.                                 *)
BitAt(byte, k) == (byte \div Two[k]) % 2

(* The bits of two bytes together.                                         *)
Or(x, y) ==
  LET low[k \in 0 .. Width] ==
        IF k = 0 THEN 0
        ELSE low[k - 1] + (IF BitAt(x, k - 1) + BitAt(y, k - 1) = 0 THEN 0 ELSE Two[k - 1])
  IN  low[Width]

Sl(res, a, shift) ==
  LET b == shift \div Width
      move == shift % Width
      carryInto(j) == IF j = Size \/ move = 0 THEN 0 ELSE Carry(a[j + 1], move)
      shifted == [i \in 1 .. Size - b |->
                    Or((a[i + b] * Two[move]) % Radix, carryInto(i + b))]
  IN  shifted \o SubSeq(res, Size - b + 1, Size)

(* The places of the bits of b that are set, the lowest being 0.           *)
SetBits(b) == {k \in 0 .. Bits - 1 : BitAt(b[Size - k \div Width], k % Width) = 1}

(* uint256_mul(): shift and add, the lowest bit of b first.  All shifts    *)
(* share temp, so each one leaves its low bytes to the next.               *)
Mul(a, b) ==
  LET places == SetBits(b)
      place(n) == CHOOSE k \in places : Cardinality({j \in places : j < k}) = n - 1
      sum[n \in 0 .. Cardinality(places)] ==
        IF n = 0 THEN [temp |-> Zero, acc |-> Zero]
        ELSE LET before == sum[n - 1]
                 shifted == Sl(before.temp, a, place(n))
             IN  [temp |-> shifted, acc |-> Add(before.acc, shifted)]
  IN  sum[Cardinality(places)].acc

(* The loop of uint256_exp(): acc is the running square, temp the factors  *)
(* set aside.                                                              *)
Running == [acc : Number, temp : Number, exp : Nat]

(* Mutant: the odd factor is not set aside.                                *)
TurnDropsFactor(s) == [acc |-> Mul(s.acc, s.acc), temp |-> s.temp, exp |-> s.exp \div 2]

Turn(s) ==
  [acc |-> Mul(s.acc, s.acc),
   temp |-> IF s.exp % 2 = 0 THEN s.temp ELSE Mul(s.acc, s.temp),
   exp |-> s.exp \div 2]

(* uint256_exp() with a result array other than its base.  The exponent is *)
(* down to 1 after no more turns than it has bits.                         *)
Exp(base, exp) ==
  LET turn == [s \in Running |-> IF s.exp > 1 THEN Turn(s) ELSE s]
      after[n \in 0 .. ExpBits] ==
        IF n = 0 THEN [acc |-> base, temp |-> One, exp |-> exp] ELSE turn[after[n - 1]]
      last == after[ExpBits]
  IN  IF exp = 0 THEN One ELSE Mul(last.acc, last.temp)

-----------------------------------------------------------------------------
(* getTarget(): difficulty is the 32-byte array ctob() makes of the eight  *)
(* digits, so its last four bytes are the exponent and the coefficient.    *)
(* The exponent is unsigned: below 3 it wraps.  (Size is at least 4.)      *)

(* Mutant: the exponent is used as it stands.                              *)
ShiftUnbiased(exponent) == exponent * Width

ShiftOf(exponent) == ((exponent - 3) * Width) % Two[ExpBits]

GetTarget(difficulty) ==
  LET b == Widened(SubSeq(difficulty, Size - 2, Size))
  IN  Mul(b, Exp(Widened(<<2>>), ShiftOf(difficulty[Size - 3])))

-----------------------------------------------------------------------------
(* The hexadecimal text of a number in a message.  A text is a sequence of *)
(* characters; two of them hold a byte.                                    *)

Digits == <<"0", "1", "2", "3", "4", "5", "6", "7", "8", "9", "a", "b", "c", "d", "e", "f">>

GetCharacter(number) == Digits[number + 1]

(* getval() returns nothing for a character that is no digit in lower      *)
(* case: the caller takes what happens to be there, cut to a byte.         *)
GetVal(character, garbage) ==
  LET places == {n \in 0 .. 15 : Digits[n + 1] = character}
  IN  IF places = {} THEN garbage ELSE CHOOSE n \in places : TRUE

(* Mutant: the first digit of a pair is the low one.                       *)
CtobSwapped(string, garbage) ==
  Widened([i \in 1 .. Len(string) \div 2 |->
         (GetVal(string[2 * i], garbage) * 16 + GetVal(string[2 * i - 1], garbage)) % 256])

(* ctob(): pairs of digits from the end of the text, into the last bytes.  *)
Ctob(string, garbage) ==
  Widened([i \in 1 .. Len(string) \div 2 |->
         (GetVal(string[2 * i - 1], garbage) * 16 + GetVal(string[2 * i], garbage)) % 256])

(* btoc(), as far as the bytes of the number go: work() asks for sixteen   *)
(* bytes where eight are left, and uses the first sixteen characters.      *)
Btoc(bytes) ==
  [i \in 1 .. 2 * Len(bytes) |->
     LET byte == bytes[(i + 1) \div 2]
     IN  GetCharacter(IF i % 2 = 1 THEN byte \div 16 ELSE byte % 16)]

(* The text with no digit in place i; as it is for i = 0.                  *)
Misspelt(text, i) == [k \in 1 .. Len(text) |-> IF k = i THEN "?" ELSE text[k]]

-----------------------------------------------------------------------------
(* The number a sequence of at most Size bytes stands for.                 *)

(* The powers of the base.                                                 *)
Weight[k \in 0 .. Size] == IF k = 0 THEN 1 ELSE Radix * Weight[k - 1]

(* The value of the last k bytes.                                          *)
Low(s) ==
  LET low[k \in 0 .. Len(s)] ==
        IF k = 0 THEN 0 ELSE low[k - 1] + s[Len(s) - k + 1] * Weight[k - 1]
  IN  low

Value(s) == Low(s)[Len(s)]

(* Two to the k: one bit, which is lost beyond the number.                 *)
Bit(k) ==
  [i \in 1 .. Size |->
     IF k < Bits /\ i = Size - k \div Width THEN Two[k % Width] ELSE 0]

(* The three bytes of the coefficient, exponent - 3 bytes from the right.  *)
Placed(difficulty) ==
  LET e == difficulty[Size - 3]
      coefficient(j) == difficulty[Size - 3 + j]
  IN  [i \in 1 .. Size |->
         LET j == e - (Size - i)
         IN  IF e >= 3 /\ j \in 1 .. 3 THEN coefficient(j) ELSE 0]

=============================================================================
