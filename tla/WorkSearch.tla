------------------------------ MODULE WorkSearch ------------------------------
(***************************************************************************)
(* work() of server2.c: the search for a nonce whose hash is below the     *)
(* target, from the nonce the client gave, upwards by one.                 *)
(*                                                                         *)
(* The nonce is a number of 32 bytes; isvalid() hashes its last 8 only.    *)
(* Which of those make a valid hash with the client's seed and target is a *)
(* parameter: SHA-256 is taken as an arbitrary function.                   *)
(***************************************************************************)
EXTENDS Uint256

CONSTANT Garbage   (* what getval() may return for no digit: any byte         *)

ASSUME WorkSearchAssumption == Garbage \subseteq 0 .. 255

VARIABLES
  valid,   (* the hashed bytes whose hash with the job's seed is below the *)
           (* job's target                                                 *)
  start,   (* startBYTE, which ctob() made of 16 hexadecimal digits        *)
  nonce,
  found,   (* the loop has ended                                           *)
  solution (* the digits in the reply                                      *)

vars == <<valid, start, nonce, found, solution>>

(* Mutant: the whole nonce is hashed.                                      *)
IsValidWide(n) == n \in {Widened(v) : v \in valid}

(* isvalid(): only bytes 24 to 31 of the nonce reach the hash.             *)
IsValid(n) == HashedNonce(n) \in valid

Init ==
  /\ valid \in SUBSET Tail8
  /\ start \in {Widened(s) : s \in Tail8}
  /\ nonce = start
  /\ found = FALSE
  /\ solution = <<>>

(* valid == 1: the reply is written and work() returns.                    *)
Return ==
  /\ ~found
  /\ IsValid(nonce)
  /\ found' = TRUE
  /\ solution' = Btoc(HashedNonce(nonce))
  /\ UNCHANGED <<valid, start, nonce>>

(* Mutant: the nonce moves on by two hashes at a time.                     *)
AdvanceTwo ==
  /\ ~found
  /\ ~IsValid(nonce)
  /\ nonce' = Add(Add(nonce, One), One)
  /\ UNCHANGED <<valid, start, found, solution>>

(* valid != 1: the next nonce is tried.                                    *)
Advance ==
  /\ ~found
  /\ ~IsValid(nonce)
  /\ nonce' = Add(nonce, One)
  /\ UNCHANGED <<valid, start, found, solution>>

Next == Return \/ Advance

Spec == Init /\ [][Next]_vars /\ WF_vars(Next)

-----------------------------------------------------------------------------
(* Properties.                                                             *)

TypeOK ==
  /\ valid \subseteq Tail8
  /\ start \in Number /\ nonce \in Number
  /\ found \in BOOLEAN

(* The reply holds the first valid nonce from the client's start onwards,  *)
(* as numbers go: the carry of uint256_add() skips none on the way, and    *)
(* the search goes on past 64 ones to nonces whose hashed bytes begin at   *)
(* zero again.                                                             *)
FirstSolution ==
  found =>
    /\ IsValid(nonce)
    /\ \A n \in Number : Value(n) \in Value(start) .. Value(nonce) - 1 => ~IsValid(n)

(* A job that has a solution takes at most as many hashes as there are     *)
(* hashed nonces, 2^64, wherever it starts: uint256_add() never wraps.     *)
SearchBounded == valid # {} => Value(nonce) < Value(start) + Weight[Hashed]

(* The solution that work() wrote into a reply is valid when it comes back *)
(* as a SOLN, leading zeros and all: ctob() makes of it the bytes that     *)
(* isvalid() hashes.  A character that has turned into no digit changes    *)
(* its own byte alone, whatever getval() makes of it.                      *)
NonceComesBack ==
  found =>
    \A garbage \in Garbage :
      /\ IsValid(Ctob(solution, garbage))
      /\ \A i \in 1 .. Len(solution), j \in 1 .. Hashed :
           j # (i + 1) \div 2 =>
             HashedNonce(Ctob(Misspelt(solution, i), garbage))[j] = HashedNonce(nonce)[j]

(* work() returns for every job that has a solution.  (For the others its  *)
(* handler, its client slot and its work slot are taken for ever.)         *)
SolvableIsSolved == valid # {} ~> found

=============================================================================
