------------------------------ MODULE MCSha256 ------------------------------
(***************************************************************************)
(* Two instances side by side: the context of Sha256 with small blocks,    *)
(* and a job of Puzzle at its real size.  A behavior is of one or the      *)
(* other: target is empty in those of Sha256.                              *)
(***************************************************************************)
EXTENDS Sha256

VARIABLES target, nonce, pass, state, m, regs, solution

(* The job in log.txt, its start moved up to four nonces before the        *)
(* solution the log records for it.                                        *)
JobDifficulty == [i \in 1 .. 28 |-> 0] \o <<\h1d, \hff, \hff, \hff>>

JobSeed ==
  <<0, 0, 0, 0, \h19, \hd6, \h68, \h9c, \h08, \h5a, \he1, \h65, \h83, \h1e, \h93, \h4f,
    \hf7, \h63, \hae, \h46, \ha2, \h18, \ha6, \hc1, \h72, \hb3, \hf1, \hb6, \h0a, \h8c, \he2, \h6f>>

JobStart == [i \in 1 .. 24 |-> 0] \o <<\h10, 0, 0, 0, \h23, \hf6, \hc0, \h6e>>

Recorded == <<"1", "0", "0", "0", "0", "0", "0", "0", "2", "3", "f", "6", "c", "0", "7", "2">>

Job == INSTANCE Puzzle WITH Difficulty <- JobDifficulty, Seed <- JobSeed, Start <- JobStart

jobVars == <<target, nonce, pass, state, m, regs, solution>>

MCInit ==
  \/ /\ Init
     /\ target = <<>> /\ nonce = <<>> /\ pass = 0 /\ state = <<>>
     /\ m = <<>> /\ regs = <<>> /\ solution = <<>>
  \/ /\ data = [i \in 1 .. Block |-> 0]
     /\ datalen = 0 /\ bitlen = 0
     /\ hashed = <<>> /\ input = <<>> /\ message = <<>> /\ final = FALSE
     /\ Job!Init

MCNext ==
  \/ target = <<>> /\ Next /\ UNCHANGED jobVars
  \/ target # <<>> /\ Job!Next /\ UNCHANGED vars

MCSpec == MCInit /\ [][MCNext]_<<vars, jobVars>>

(* The whole of work(), from the difficulty's bytes to the reply's digits: *)
(* the job the repository's log records gets the solution recorded there,  *)
(* by way of the nonces before it, none of which will do.  (The search     *)
(* never passes it, so it ends there.)                                     *)
AnswersAsRecorded ==
  target # <<>> =>
    /\ solution # <<>> => solution = Recorded
    /\ nonce[32] <= \h72

=============================================================================
