------------------------------ MODULE SlotLimit ------------------------------
(***************************************************************************)
(* What a counter compared with a limit promises: a bounded number of      *)
(* users is admitted at any time.  The counters of server2.c are plain     *)
(* ints, so the promise ends with the first update that is lost to another *)
(* thread: from then on (corrupt) anyone may be admitted.                  *)
(***************************************************************************)
EXTENDS Integers, FiniteSets

CONSTANTS Users, Limit

VARIABLES admitted, corrupt

Init == admitted = {} /\ corrupt = FALSE

Admit(u) ==
  /\ u \notin admitted
  /\ corrupt \/ Cardinality(admitted) < Limit
  /\ admitted' = admitted \cup {u}
  /\ UNCHANGED corrupt

(* The store that gives a slot back may itself overwrite an update.        *)
Release(u) ==
  /\ u \in admitted
  /\ admitted' = admitted \ {u}
  /\ corrupt' \in {corrupt, TRUE}

Corrupt ==
  /\ corrupt' = TRUE
  /\ UNCHANGED admitted

Next == Corrupt \/ \E u \in Users : Admit(u) \/ Release(u)

Spec == Init /\ [][Next]_<<admitted, corrupt>>

=============================================================================
