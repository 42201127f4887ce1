------------------------------- MODULE Puzzle -------------------------------
(***************************************************************************)
(* work() of server2.c on one job at the code's own size: every nonce from *)
(* the start upwards is hashed by two passes of SHA-256, the turns of the  *)
(* loops of sha256_transform() as steps, and compared with the target.  A  *)
(* WORD is the sequence of its bits, the lowest first; a state is the      *)
(* sequence of its words.                                                  *)
(***************************************************************************)
EXTENDS Integers, SequencesExt

CONSTANTS
  Difficulty, Seed, Start   (* difficultyBYTE, seedBYTE, startBYTE         *)

VARIABLES
  target,
  nonce,
  pass,        (* the hash of isvalid() being made: 1 or 2                 *)
  state,       (* ctx->state                                               *)
  m,           (* the words of m[] set so far                              *)
  regs,        (* a to h, before the first round and after each            *)
  solution     (* the digits in the reply, once work() has returned        *)

vars == <<target, nonce, pass, state, m, regs, solution>>

WordBits == 32

Places == 1 .. WordBits

(* The word with the two halves given.                                     *)
WordOf(high, low) ==
  [i \in Places |-> IF i <= 16 THEN (low \div 2 ^ (i - 1)) % 2
                    ELSE (high \div 2 ^ (i - 17)) % 2]

RotRight(w, n) == [i \in Places |-> w[1 + ((i - 1 + n) % WordBits)]]

ShiftRight(w, n) == [i \in Places |-> IF i + n <= WordBits THEN w[i + n] ELSE 0]

Xor(x, y, z) == [i \in Places |-> (x[i] + y[i] + z[i]) % 2]

CH(x, y, z) == [i \in Places |-> IF x[i] = 1 THEN y[i] ELSE z[i]]

MAJ(x, y, z) == [i \in Places |-> (x[i] + y[i] + z[i]) \div 2]

EP0(x) == Xor(RotRight(x, 2), RotRight(x, 13), RotRight(x, 22))

EP1(x) == Xor(RotRight(x, 6), RotRight(x, 11), RotRight(x, 25))

SIG0(x) == Xor(RotRight(x, 7), RotRight(x, 18), ShiftRight(x, 3))

SIG1(x) == Xor(RotRight(x, 17), RotRight(x, 19), ShiftRight(x, 10))

(* The sum of a sequence of words, modulo 2^32.                            *)
Plus(ws) ==
  LET column(i) == FoldLeft(LAMBDA sum, w : sum + w[i], 0, ws)
      place(acc, i) == LET sum == acc.carry + column(i)
                       IN  [bits |-> Append(acc.bits, sum % 2), carry |-> sum \div 2]
  IN  FoldLeft(place, [bits |-> <<>>, carry |-> 0], [i \in Places |-> i]).bits

-----------------------------------------------------------------------------
(* The constants, as pairs of halves.                                      *)

Words(halves) == [i \in 1 .. Len(halves) \div 2 |-> WordOf(halves[2 * i - 1], halves[2 * i])]

K == Words(<<
  \h428a,\h2f98,\h7137,\h4491,\hb5c0,\hfbcf,\he9b5,\hdba5,\h3956,\hc25b,\h59f1,\h11f1,\h923f,\h82a4,\hab1c,\h5ed5,
  \hd807,\haa98,\h1283,\h5b01,\h2431,\h85be,\h550c,\h7dc3,\h72be,\h5d74,\h80de,\hb1fe,\h9bdc,\h06a7,\hc19b,\hf174,
  \he49b,\h69c1,\hefbe,\h4786,\h0fc1,\h9dc6,\h240c,\ha1cc,\h2de9,\h2c6f,\h4a74,\h84aa,\h5cb0,\ha9dc,\h76f9,\h88da,
  \h983e,\h5152,\ha831,\hc66d,\hb003,\h27c8,\hbf59,\h7fc7,\hc6e0,\h0bf3,\hd5a7,\h9147,\h06ca,\h6351,\h1429,\h2967,
  \h27b7,\h0a85,\h2e1b,\h2138,\h4d2c,\h6dfc,\h5338,\h0d13,\h650a,\h7354,\h766a,\h0abb,\h81c2,\hc92e,\h9272,\h2c85,
  \ha2bf,\he8a1,\ha81a,\h664b,\hc24b,\h8b70,\hc76c,\h51a3,\hd192,\he819,\hd699,\h0624,\hf40e,\h3585,\h106a,\ha070,
  \h19a4,\hc116,\h1e37,\h6c08,\h2748,\h774c,\h34b0,\hbcb5,\h391c,\h0cb3,\h4ed8,\haa4a,\h5b9c,\hca4f,\h682e,\h6ff3,
  \h748f,\h82ee,\h78a5,\h636f,\h84c8,\h7814,\h8cc7,\h0208,\h90be,\hfffa,\ha450,\h6ceb,\hbef9,\ha3f7,\hc671,\h78f2>>)

(* The state sha256_init() sets.                                           *)
InitialState == Words(<<\h6a09,\he667,\hbb67,\hae85,\h3c6e,\hf372,\ha54f,\hf53a,
                        \h510e,\h527f,\h9b05,\h688c,\h1f83,\hd9ab,\h5be0,\hcd19>>)

-----------------------------------------------------------------------------
(* The block of a message that fits one with its padding: the two that     *)
(* isvalid() hashes have 40 and 32 bytes.                                  *)

PaddedBlock(message) ==
  LET bits == 8 * Len(message)
  IN  message \o <<128>> \o [i \in 1 .. 61 - Len(message) |-> 0] \o <<bits \div 256, bits % 256>>

BlockWords(block) ==
  Words([i \in 1 .. 32 |-> block[2 * i - 1] * 256 + block[2 * i]])

(* The bytes sha256_final() makes of the state.                            *)
Bytes(words) ==
  LET value(w, low) == FoldLeft(LAMBDA n, p : 2 * n + w[low + 9 - p], 0, [p \in 1 .. 8 |-> p])
  IN  [n \in 1 .. 32 |-> value(words[1 + (n - 1) \div 4], 24 - 8 * ((n - 1) % 4))]

LOCAL Number == INSTANCE Uint256 WITH
                  Size <- 32, Width <- 8, Hashed <- 8,
                  ExpBits <- 30, Two <- [k \in 0 .. 30 |-> 2 ^ k]

FirstBlock(n) == BlockWords(PaddedBlock(Seed \o Number!HashedNonce(n)))

Init ==
  /\ target = Number!GetTarget(Difficulty)
  /\ nonce = Start /\ m = FirstBlock(nonce)
  /\ pass = 1
  /\ state = InitialState /\ regs = <<InitialState>>
  /\ solution = <<>>

(* A turn of the loop that fills m.                                        *)
Extend ==
  /\ Len(m) < 64
  /\ LET i == Len(m) + 1
     IN  m' = Append(m, Plus(<<SIG1(m[i - 2]), m[i - 7], SIG0(m[i - 15]), m[i - 16]>>))
  /\ UNCHANGED <<target, nonce, pass, state, regs, solution>>

T1(r, k, w) == Plus(<<r[8], EP1(r[5]), CH(r[5], r[6], r[7]), k, w>>)

T2(r) == Plus(<<EP0(r[1]), MAJ(r[1], r[2], r[3])>>)

(* Mutant: a is set before b, which then gets the new a.                   *)
RoundTooSoon(r, k, w) ==
  LET a == Plus(<<T1(r, k, w), T2(r)>>)
  IN  <<a, a, r[2], r[3], Plus(<<r[4], T1(r, k, w)>>), r[5], r[6], r[7]>>

(* A turn of the loop over a to h.                                         *)
Round(r, k, w) ==
  <<Plus(<<T1(r, k, w), T2(r)>>), r[1], r[2], r[3],
    Plus(<<r[4], T1(r, k, w)>>), r[5], r[6], r[7]>>

Turn ==
  /\ Len(m) = 64 /\ Len(regs) <= 64
  /\ regs' = Append(regs, Round(regs[Len(regs)], K[Len(regs)], m[Len(regs)]))
  /\ UNCHANGED <<target, nonce, pass, state, m, solution>>

Compressed == [j \in 1 .. 8 |-> Plus(<<state[j], regs[65][j]>>)]

(* The second pass is over the digest of the first.                       *)
HashAgain ==
  /\ pass = 1 /\ Len(regs) = 65
  /\ pass' = 2
  /\ regs' = <<InitialState>>
  /\ m' = BlockWords(PaddedBlock(Bytes(Compressed)))
  /\ UNCHANGED <<target, nonce, state, solution>>

(* sha256_compare() of the target and the second hash.                     *)
IsValid == Number!Compare(target, Bytes(Compressed)) = 1

(* valid != 1: the loop of work() goes on.                                 *)
TryNext ==
  /\ pass = 2 /\ Len(regs) = 65 /\ solution = <<>>
  /\ ~IsValid
  /\ nonce' = Number!Add(nonce, Number!One)
  /\ m' = FirstBlock(nonce')
  /\ pass' = 1 /\ regs' = <<InitialState>>
  /\ UNCHANGED <<target, state, solution>>

Return ==
  /\ pass = 2 /\ Len(regs) = 65 /\ solution = <<>>
  /\ IsValid
  /\ solution' = Number!Btoc(Number!HashedNonce(nonce))
  /\ UNCHANGED <<target, nonce, pass, state, m, regs>>

Next == Extend \/ Turn \/ HashAgain \/ TryNext \/ Return

=============================================================================
