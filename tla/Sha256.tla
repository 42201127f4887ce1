------------------------------- MODULE Sha256 -------------------------------
(***************************************************************************)
(* The context of sha256.c: how sha256_update() cuts what it is given into *)
(* blocks, and how sha256_final() pads the last one.  sha256_transform()   *)
(* is any function that folds one block after another into the state, so   *)
(* the state is represented by the blocks that went into it, one behind    *)
(* the other.                                                              *)
(***************************************************************************)
EXTENDS Integers, Sequences

CONSTANTS
  Block,     (* bytes in a block: 64                                       *)
  LenBytes,  (* bytes for the length at the end of the last block: 8       *)
  ByteBits,  (* bits in a byte: 8                                          *)
  Data,      (* the bytes messages are made of                             *)
  MaxLen     (* bound: the length of a message                             *)

(* The powers of b up to b ^ e, as a function of the exponent.             *)
Powers(b, e) ==
  LET power[i \in 0 .. e] == IF i = 0 THEN 1 ELSE b * power[i - 1]
  IN  power

(* The values of a byte, and of the lower i bytes of the length field.     *)
Base == Powers(2, ByteBits)[ByteBits]

Weight == Powers(Base, LenBytes)

ASSUME Sha256Assumption ==
  /\ LenBytes \in Nat \ {0} /\ ByteBits \in Nat \ {0}
  /\ Block \in Nat /\ Block > LenBytes
  /\ Data \subseteq 0 .. Base - 1
  /\ MaxLen \in Nat

VARIABLES
  data,      (* the context: the block being filled ...                    *)
  datalen,   (* ... and how far it is filled                               *)
  bitlen,    (* the bits in the blocks before                              *)
  hashed,    (* the state, as the bytes that went into it                  *)
  input,     (* what the call of sha256_update() has still to read         *)
  final,     (* sha256_final() has returned                                *)
  message    (* auxiliary: all that sha256_update() was given              *)

vars == <<data, datalen, bitlen, hashed, input, final, message>>

(* bitlen has as many bits as the length field.                            *)
LenModulus == Weight[LenBytes]

Zeros(n) == [i \in 1 .. n |-> 0]

Mark == Base \div 2   (* 0x80 *)

(* sha256_init(): datalen and bitlen are set, data is left as it was.      *)
Init ==
  /\ data \in {[i \in 1 .. Block |-> b] : b \in Data}
  /\ datalen = 0
  /\ bitlen = 0
  /\ hashed = <<>>
  /\ input = <<>>
  /\ final = FALSE
  /\ message = <<>>

Update(s) ==
  /\ ~final /\ input = <<>>
  /\ Len(message \o s) <= MaxLen
  /\ input' = s
  /\ message' = message \o s
  /\ UNCHANGED <<data, datalen, bitlen, hashed, final>>

(* Mutant: a full block is compressed before its last byte is stored.      *)
AbsorbLate ==
  /\ input # <<>>
  /\ LET full == datalen = Block - 1
     IN  /\ hashed' = IF full THEN hashed \o data ELSE hashed
         /\ bitlen' = IF full THEN (bitlen + Block * ByteBits) % LenModulus ELSE bitlen
         /\ datalen' = IF full THEN 0 ELSE datalen + 1
  /\ data' = [data EXCEPT ![datalen + 1] = Head(input)]
  /\ input' = Tail(input)
  /\ UNCHANGED <<final, message>>

(* A turn of the loop of sha256_update(): one byte is put into the block,  *)
(* and a full block is folded into the state.                              *)
Absorb ==
  /\ input # <<>>
  /\ data' = [data EXCEPT ![datalen + 1] = Head(input)]
  /\ input' = Tail(input)
  /\ LET full == datalen + 1 = Block
     IN  /\ hashed' = IF full THEN hashed \o data' ELSE hashed
         /\ bitlen' = IF full THEN (bitlen + Block * ByteBits) % LenModulus ELSE bitlen
         /\ datalen' = IF full THEN 0 ELSE datalen + 1
  /\ UNCHANGED <<final, message>>

(* The length field, its most significant byte first.                      *)
LenField(bits) == [i \in 1 .. LenBytes |-> (bits \div Weight[LenBytes - i]) % Base]

(* Mutant: a block with room for the mark alone is taken to have room for  *)
(* the length.                                                             *)
PaddedTight(filled) ==
  LET marked == SubSeq(data, 1, filled) \o <<Mark>>
      room == Block - LenBytes
  IN  IF filled <= room
      THEN SubSeq(marked \o Zeros(room), 1, room)
      ELSE marked \o Zeros(Block - filled - 1) \o Zeros(room)

(* The last block up to its length field, or the last two.                 *)
Padded(filled) ==
  LET marked == SubSeq(data, 1, filled) \o <<Mark>>
      room == Block - LenBytes
  IN  IF filled < room
      THEN marked \o Zeros(room - filled - 1)
      ELSE marked \o Zeros(Block - filled - 1) \o Zeros(room)

(* sha256_final().                                                         *)
Final ==
  /\ ~final /\ input = <<>>
  /\ final' = TRUE
  /\ bitlen' = (bitlen + datalen * ByteBits) % LenModulus
  /\ LET bytes == Padded(datalen) \o LenField(bitlen')
     IN  /\ hashed' = hashed \o bytes
         /\ data' = SubSeq(bytes, Len(bytes) - Block + 1, Len(bytes))
  /\ UNCHANGED <<datalen, input, message>>

Next ==
  \/ \E n \in 1 .. MaxLen : \E s \in [1 .. n -> Data] : Update(s)
  \/ Absorb \/ Final

Spec == Init /\ [][Next]_vars

-----------------------------------------------------------------------------
(* Properties.                                                             *)

(* The state, the part of the block that is filled and what is still to be *)
(* read make the message, in whatever pieces it was given: nothing is lost *)
(* or doubled at the edge of a block, and no byte the buffer held before   *)
(* gets in.                                                                *)
NothingLost == ~final => hashed \o SubSeq(data, 1, datalen) \o input = message

(* FIPS 180-4 (5.1.1): the message, a mark, as few zeros as fill whole     *)
(* blocks, and the length in bits.                                         *)
Padding(m) ==
  LET zeros == CHOOSE k \in 0 .. Block - 1 : (Len(m) + 1 + k + LenBytes) % Block = 0
  IN  m \o <<Mark>> \o Zeros(zeros) \o LenField(Len(m) * ByteBits)

(* What is hashed in the end is the message as the standard pads it, which *)
(* two messages never share, however it was cut up by the calls.           *)
HashesThePaddedMessage == final => hashed = Padding(message)

=============================================================================
