---------------------------- MODULE Server_proofs ----------------------------
(***************************************************************************)
(* What holds of the threads of server2.c for any number of connections,   *)
(* any limits and any amount of traffic.                                   *)
(***************************************************************************)
EXTENDS Server, FiniteSetTheorems, TLAPS

(* Every variable keeps its type through every step of every thread.       *)
LEMMA TypeStep == TypeOK /\ [Next]_vars => TypeOK'
<1> SUFFICES ASSUME TypeOK, [Next]_vars PROVE TypeOK'
  OBVIOUS
<1> USE DEF TypeOK, PC, MainPC, HandlerPC, WorkPC, AdmittedPC, ClosedPC, counters, Goto, Load
<1>1. ASSUME AcceptFails PROVE TypeOK'
  BY <1>1 DEF AcceptFails, ProcessEnds
<1>2. ASSUME NEW c \in Conns, Accept(c) PROVE TypeOK'
  BY <1>2 DEF Accept
<1>3. ASSUME NEW c \in Conns, MainStep(c) PROVE TypeOK'
  <2>1. CASE CountClient(c) BY <2>1 DEF CountClient, StoreClient
  <2>2. CASE CheckLimit(c) BY <2>2 DEF CheckLimit
  <2>3. CASE Refuse(c) BY <2>3 DEF Refuse
  <2>4. CASE Uncount(c) BY <2>4 DEF Uncount, StoreClient
  <2>5. CASE Spawn(c) BY <2>5 DEF Spawn
  <2> QED BY <1>3, <2>1, <2>2, <2>3, <2>4, <2>5 DEF MainStep
<1>4. ASSUME NEW c \in Conns, RecvOther(c) \/ RecvWork(c) \/ RecvNul(c) PROVE TypeOK'
  BY <1>4, ServerAssumption DEF ServerAssumption, RecvOther, RecvWork, RecvNul
<1>5. ASSUME NEW c \in Conns, HandlerStep(c) PROVE TypeOK'
  <2>1. CASE HangUp(c) BY <2>1 DEF HangUp
  <2>2. CASE Forget(c) BY <2>2 DEF Forget, StoreClient
  <2>3. CASE ReadError(c) BY <2>3 DEF ReadError
  <2>4. CASE CountWork(c) BY <2>4 DEF CountWork, StoreWork
  <2>5. CASE CheckWork(c) BY <2>5 DEF CheckWork
  <2>6. CASE RejectWork(c) BY <2>6 DEF RejectWork
  <2>7. CASE UncountRejected(c) BY <2>7 DEF UncountRejected, StoreWork
  <2>8. CASE FindSolution(c) BY <2>8 DEF FindSolution
  <2>9. CASE UncountWork(c) BY <2>9 DEF UncountWork, StoreWork
  <2>10. CASE WriteReply(c) BY <2>10 DEF WriteReply
  <2> QED BY <1>5, <2>1, <2>2, <2>3, <2>4, <2>5, <2>6, <2>7, <2>8, <2>9, <2>10 DEF HandlerStep
<1>6. ASSUME NEW c \in Conns, ProcessStep(c) PROVE TypeOK'
  BY <1>6 DEF ProcessStep, SpawnFails, SigPipe, ProcessEnds
<1>7. ASSUME NEW c \in Conns, ClientStep(c) PROVE TypeOK'
  BY <1>7 DEF ClientStep, PeerCloses, PeerResets
<1>8. CASE UNCHANGED vars
  BY <1>8 DEF vars
<1> QED
  BY <1>1, <1>2, <1>3, <1>4, <1>5, <1>6, <1>7, <1>8 DEF Next

LEMMA InitType == Init => TypeOK
<1>1. Init => left \in [Conns -> 0 .. MaxChunks]
  BY ServerAssumption DEF ServerAssumption, Init
<1>2. Init => pc \in [Conns -> PC]
  BY DEF Init, PC
<1>3. Init => reg \in [Conns -> Int] /\ peer \in [Conns -> {"up", "fin", "rst"}]
  BY DEF Init
<1>4. Init => {up, clientRaced, workRaced} \subseteq BOOLEAN
  BY DEF Init
<1> QED BY <1>1, <1>2, <1>3, <1>4 DEF Init, TypeOK

(* In every run every variable has its type: no thread leaves the control  *)
(* points of the code, no client is taken to have sent more than it did.   *)
THEOREM TypeCorrect == SafetySpec => []TypeOK
BY InitType, TypeStep, PTL DEF SafetySpec

-----------------------------------------------------------------------------
(* client_num counts connections.                                          *)

(* A step that moves one connection between control points on the same     *)
(* side of the client_num++ ... client_num-- bracket leaves Counted alone. *)
LEMMA CountedUnmoved ==
  ASSUME TypeOK, NEW c \in Conns, NEW to, pc' = [pc EXCEPT ![c] = to],
         LET outside == {"idle", "counting", "refused", "gone"}
         IN  pc[c] \in outside <=> to \in outside
  PROVE  Counted' = Counted
BY DEF Counted, TypeOK

(* Every step stores client_num + 1 as a connection becomes counted,       *)
(* client_num - 1 as one ceases to be, or changes neither.                 *)
ClientUnchanged == UNCHANGED <<client_num, clientRaced>> /\ Counted' = Counted

ClientIn(c) == StoreClient(c, 1) /\ c \notin Counted /\ Counted' = Counted \cup {c}

ClientOut(c) == StoreClient(c, -1) /\ c \in Counted /\ Counted' = Counted \ {c}

LEMMA ClientSteps ==
  ASSUME TypeOK, [Next]_vars
  PROVE  ClientUnchanged \/ \E c \in Conns : ClientIn(c) \/ ClientOut(c)
<1> USE DEF counters, Goto
<1>1. CASE AcceptFails
  BY <1>1 DEF AcceptFails, ProcessEnds, ClientUnchanged, Counted
<1>2. ASSUME NEW c \in Conns, Accept(c) PROVE ClientUnchanged
  BY <1>2, CountedUnmoved DEF Accept, ClientUnchanged
<1>3. ASSUME NEW c \in Conns, MainStep(c) PROVE ClientUnchanged \/ ClientIn(c) \/ ClientOut(c)
  <2>1. CASE CountClient(c)
    BY <2>1 DEF CountClient, ClientIn, Counted, TypeOK
  <2>2. CASE CheckLimit(c)
    BY <2>2, CountedUnmoved DEF CheckLimit, ClientUnchanged
  <2>3. CASE Refuse(c)
    BY <2>3, CountedUnmoved DEF Refuse, ClientUnchanged
  <2>4. CASE Uncount(c)
    BY <2>4 DEF Uncount, ClientOut, Counted, TypeOK
  <2>5. CASE Spawn(c)
    BY <2>5, CountedUnmoved DEF Spawn, ClientUnchanged
  <2> QED BY <1>3, <2>1, <2>2, <2>3, <2>4, <2>5 DEF MainStep
<1>4. ASSUME NEW c \in Conns, RecvOther(c) \/ RecvWork(c) \/ RecvNul(c) PROVE ClientUnchanged
  BY <1>4, CountedUnmoved DEF RecvOther, RecvWork, RecvNul, ClientUnchanged
<1>5. ASSUME NEW c \in Conns, HandlerStep(c) PROVE ClientUnchanged \/ ClientOut(c)
  <2>1. CASE HangUp(c)
    BY <2>1, CountedUnmoved DEF HangUp, ClientUnchanged
  <2>2. CASE Forget(c)
    BY <2>2 DEF Forget, ClientOut, Counted, TypeOK
  <2>3. CASE ReadError(c)
    BY <2>3, CountedUnmoved DEF ReadError, ClientUnchanged
  <2>4. CASE CountWork(c)
    BY <2>4, CountedUnmoved DEF CountWork, StoreWork, ClientUnchanged
  <2>5. CASE CheckWork(c)
    BY <2>5, CountedUnmoved DEF CheckWork, ClientUnchanged
  <2>6. CASE RejectWork(c)
    BY <2>6, CountedUnmoved DEF RejectWork, ClientUnchanged
  <2>7. CASE UncountRejected(c)
    BY <2>7, CountedUnmoved DEF UncountRejected, StoreWork, ClientUnchanged
  <2>8. CASE FindSolution(c)
    BY <2>8, CountedUnmoved DEF FindSolution, ClientUnchanged
  <2>9. CASE UncountWork(c)
    BY <2>9, CountedUnmoved DEF UncountWork, StoreWork, ClientUnchanged
  <2>10. CASE WriteReply(c)
    BY <2>10, CountedUnmoved DEF WriteReply, ClientUnchanged
  <2> QED
    BY <1>5, <2>1, <2>2, <2>3, <2>4, <2>5, <2>6, <2>7, <2>8, <2>9, <2>10 DEF HandlerStep
<1>6. ASSUME NEW c \in Conns, ProcessStep(c) PROVE ClientUnchanged
  BY <1>6 DEF ProcessStep, SpawnFails, SigPipe, ProcessEnds, ClientUnchanged, Counted
<1>7. ASSUME NEW c \in Conns, ClientStep(c) PROVE ClientUnchanged
  BY <1>7 DEF ClientStep, PeerCloses, PeerResets, ClientUnchanged, Counted
<1>8. CASE UNCHANGED vars
  BY <1>8 DEF vars, ClientUnchanged, Counted
<1> QED
  BY <1>1, <1>2, <1>3, <1>4, <1>5, <1>6, <1>7, <1>8 DEF Next

LEMMA ClientAccountingStep ==
  TypeOK /\ ClientAccounting /\ [Next]_vars => ClientAccounting'
<1> SUFFICES ASSUME TypeOK, ClientAccounting, [Next]_vars, ~clientRaced'
             PROVE  client_num' = Cardinality(Counted')
  BY DEF ClientAccounting
<1>1. IsFiniteSet(Counted) /\ Cardinality(Counted) \in Nat
  BY ServerAssumption, FS_Subset, FS_CardinalityType DEF ServerAssumption, Counted
<1>2. CASE ClientUnchanged
  BY <1>2 DEF ClientUnchanged, ClientAccounting
<1>3. ASSUME NEW c \in Conns, ClientIn(c) PROVE client_num' = Cardinality(Counted')
  <2>1. client_num' = client_num + 1 /\ ~clientRaced
    BY <1>3 DEF ClientIn, StoreClient, TypeOK
  <2> QED BY <1>1, <1>3, <2>1, FS_AddElement DEF ClientIn, ClientAccounting
<1>4. ASSUME NEW c \in Conns, ClientOut(c) PROVE client_num' = Cardinality(Counted')
  <2>1. client_num' = client_num - 1 /\ ~clientRaced
    BY <1>4 DEF ClientOut, StoreClient, TypeOK
  <2> QED BY <1>1, <1>4, <2>1, FS_RemoveElement DEF ClientOut, ClientAccounting
<1> QED
  BY <1>2, <1>3, <1>4, ClientSteps

(* As long as no update has been lost, client_num counts the connections   *)
(* main() has counted and nobody has uncounted.                            *)
THEOREM ClientAccountingHolds == SafetySpec => []ClientAccounting
<1>1. Init => ClientAccounting
  BY FS_EmptySet DEF Init, ClientAccounting, Counted
<1> QED
  BY <1>1, TypeCorrect, ClientAccountingStep, PTL DEF SafetySpec

-----------------------------------------------------------------------------
(* client_num never passes its limit, whatever updates are lost: what a    *)
(* thread has loaded is below the limit by as much as the store needs, and *)
(* only main(), between count and verdict, leaves client_num at the limit. *)
OneAtATime ==
  \A c, d \in Conns : pc[c] \in MainPC /\ pc[d] \in MainPC => c = d

OverLimitPC == {"limit", "refuse", "uncount"}

RoomForNext ==
  (\A c \in Conns : pc[c] \notin OverLimitPC) => client_num < MAX_CLIENTS

LoadsInRange ==
  \A c \in Conns :
    /\ pc[c] = "counting" => reg[c] < MAX_CLIENTS
    /\ pc[c] \in {"uncount", "bye"} => reg[c] <= MAX_CLIENTS

CeilingInv ==
  /\ TypeOK
  /\ OneAtATime
  /\ ClientCeiling
  /\ RoomForNext
  /\ LoadsInRange

LEMMA CeilingStep == CeilingInv /\ [Next]_vars => CeilingInv'
<1> SUFFICES ASSUME CeilingInv, [Next]_vars PROVE CeilingInv'
  OBVIOUS
<1>0. TypeOK' /\ MAX_CLIENTS \in Nat
  BY TypeStep, ServerAssumption DEF CeilingInv, ServerAssumption
<1> DEFINE Rest == OneAtATime /\ ClientCeiling /\ RoomForNext /\ LoadsInRange
<1> SUFFICES Rest'
  BY <1>0 DEF CeilingInv
<1> USE <1>0 DEF CeilingInv, TypeOK, OneAtATime, ClientCeiling, RoomForNext, LoadsInRange,
                 OverLimitPC, MainPC, counters, Goto, Load
<1>1. CASE AcceptFails
  BY <1>1 DEF AcceptFails, ProcessEnds
<1>2. ASSUME NEW c \in Conns, Accept(c) PROVE Rest'
  BY <1>2 DEF Accept, MainIdle
<1>3. ASSUME NEW c \in Conns, MainStep(c) PROVE Rest'
  <2>1. CASE CountClient(c) BY <2>1 DEF CountClient, StoreClient
  <2>2. CASE CheckLimit(c) BY <2>2 DEF CheckLimit
  <2>3. CASE Refuse(c) BY <2>3 DEF Refuse
  <2>4. CASE Uncount(c) BY <2>4 DEF Uncount, StoreClient
  <2>5. CASE Spawn(c) BY <2>5 DEF Spawn
  <2> QED BY <1>3, <2>1, <2>2, <2>3, <2>4, <2>5 DEF MainStep
<1>4. ASSUME NEW c \in Conns, RecvOther(c) \/ RecvWork(c) \/ RecvNul(c) PROVE Rest'
  BY <1>4 DEF RecvOther, RecvWork, RecvNul
<1>5. ASSUME NEW c \in Conns, HandlerStep(c) PROVE Rest'
  <2>1. CASE HangUp(c) BY <2>1 DEF HangUp
  <2>2. CASE Forget(c) BY <2>2 DEF Forget, StoreClient
  <2>3. CASE ReadError(c) BY <2>3 DEF ReadError
  <2>4. CASE CountWork(c) BY <2>4 DEF CountWork, StoreWork
  <2>5. CASE CheckWork(c) BY <2>5 DEF CheckWork
  <2>6. CASE RejectWork(c) BY <2>6 DEF RejectWork
  <2>7. CASE UncountRejected(c) BY <2>7 DEF UncountRejected, StoreWork
  <2>8. CASE FindSolution(c) BY <2>8 DEF FindSolution
  <2>9. CASE UncountWork(c) BY <2>9 DEF UncountWork, StoreWork
  <2>10. CASE WriteReply(c) BY <2>10 DEF WriteReply
  <2> QED
    BY <1>5, <2>1, <2>2, <2>3, <2>4, <2>5, <2>6, <2>7, <2>8, <2>9, <2>10 DEF HandlerStep
<1>6. ASSUME NEW c \in Conns, ProcessStep(c) PROVE Rest'
  BY <1>6 DEF ProcessStep, SpawnFails, SigPipe, ProcessEnds
<1>7. ASSUME NEW c \in Conns, ClientStep(c) PROVE Rest'
  BY <1>7 DEF ClientStep, PeerCloses, PeerResets
<1>8. CASE UNCHANGED vars
  BY <1>8 DEF vars
<1> QED
  BY <1>1, <1>2, <1>3, <1>4, <1>5, <1>6, <1>7, <1>8 DEF Next

(* No interleaving of unlocked updates lifts client_num over MAX_CLIENTS.  *)
THEOREM ClientCeilingHolds == SafetySpec => []ClientCeiling
<1>1. Init => CeilingInv
  <2>1. Init => TypeOK
    BY InitType
  <2> QED
    BY <2>1, ServerAssumption
    DEF Init, CeilingInv, OneAtATime, ClientCeiling, RoomForNext, LoadsInRange, MainPC,
        ServerAssumption
<1>2. CeilingInv => ClientCeiling
  BY DEF CeilingInv
<1> QED
  BY <1>1, <1>2, CeilingStep, PTL DEF SafetySpec

-----------------------------------------------------------------------------
(* work_num counts jobs: the same argument for the WORK branch.            *)

LEMMA HoldersUnmoved ==
  ASSUME TypeOK, NEW c \in Conns, NEW to, pc' = [pc EXCEPT ![c] = to],
         pc[c] \in WorkPC <=> to \in WorkPC
  PROVE  Holders' = Holders
BY DEF Holders, TypeOK

WorkUnchanged == UNCHANGED <<work_num, workRaced>> /\ Holders' = Holders

WorkIn(c) == StoreWork(c, 1) /\ c \notin Holders /\ Holders' = Holders \cup {c}

WorkOut(c) == StoreWork(c, -1) /\ c \in Holders /\ Holders' = Holders \ {c}

(* Every step stores work_num + 1 as a connection enters the WORK branch,  *)
(* work_num - 1 as one leaves it, or changes neither.                      *)
LEMMA WorkSteps ==
  ASSUME TypeOK, [Next]_vars
  PROVE  WorkUnchanged \/ \E c \in Conns : WorkIn(c) \/ WorkOut(c)
<1> USE DEF counters, Goto, WorkPC
<1>1. CASE AcceptFails
  BY <1>1 DEF AcceptFails, ProcessEnds, WorkUnchanged, Holders
<1>2. ASSUME NEW c \in Conns, Accept(c) PROVE WorkUnchanged
  BY <1>2, HoldersUnmoved DEF Accept, WorkUnchanged
<1>3. ASSUME NEW c \in Conns, MainStep(c) PROVE WorkUnchanged
  <2>1. CASE CountClient(c)
    BY <2>1, HoldersUnmoved DEF CountClient, StoreClient, WorkUnchanged
  <2>2. CASE CheckLimit(c)
    BY <2>2, HoldersUnmoved DEF CheckLimit, WorkUnchanged
  <2>3. CASE Refuse(c)
    BY <2>3, HoldersUnmoved DEF Refuse, WorkUnchanged
  <2>4. CASE Uncount(c)
    BY <2>4, HoldersUnmoved DEF Uncount, StoreClient, WorkUnchanged
  <2>5. CASE Spawn(c)
    BY <2>5, HoldersUnmoved DEF Spawn, WorkUnchanged
  <2> QED BY <1>3, <2>1, <2>2, <2>3, <2>4, <2>5 DEF MainStep
<1>4. ASSUME NEW c \in Conns, RecvOther(c) \/ RecvWork(c) \/ RecvNul(c) PROVE WorkUnchanged
  BY <1>4, HoldersUnmoved DEF RecvOther, RecvWork, RecvNul, WorkUnchanged
<1>5. ASSUME NEW c \in Conns, HandlerStep(c) PROVE WorkUnchanged \/ WorkIn(c) \/ WorkOut(c)
  <2>1. CASE HangUp(c)
    BY <2>1, HoldersUnmoved DEF HangUp, WorkUnchanged
  <2>2. CASE Forget(c)
    BY <2>2, HoldersUnmoved DEF Forget, StoreClient, WorkUnchanged
  <2>3. CASE ReadError(c)
    BY <2>3, HoldersUnmoved DEF ReadError, WorkUnchanged
  <2>4. CASE CountWork(c)
    BY <2>4 DEF CountWork, WorkIn, Holders, TypeOK
  <2>5. CASE CheckWork(c)
    BY <2>5, HoldersUnmoved DEF CheckWork, WorkUnchanged
  <2>6. CASE RejectWork(c)
    BY <2>6, HoldersUnmoved DEF RejectWork, WorkUnchanged
  <2>7. CASE UncountRejected(c)
    BY <2>7 DEF UncountRejected, WorkOut, Holders, TypeOK
  <2>8. CASE FindSolution(c)
    BY <2>8, HoldersUnmoved DEF FindSolution, WorkUnchanged
  <2>9. CASE UncountWork(c)
    BY <2>9 DEF UncountWork, WorkOut, Holders, TypeOK
  <2>10. CASE WriteReply(c)
    BY <2>10, HoldersUnmoved DEF WriteReply, WorkUnchanged
  <2> QED
    BY <1>5, <2>1, <2>2, <2>3, <2>4, <2>5, <2>6, <2>7, <2>8, <2>9, <2>10 DEF HandlerStep
<1>6. ASSUME NEW c \in Conns, ProcessStep(c) PROVE WorkUnchanged
  BY <1>6 DEF ProcessStep, SpawnFails, SigPipe, ProcessEnds, WorkUnchanged, Holders
<1>7. ASSUME NEW c \in Conns, ClientStep(c) PROVE WorkUnchanged
  BY <1>7 DEF ClientStep, PeerCloses, PeerResets, WorkUnchanged, Holders
<1>8. CASE UNCHANGED vars
  BY <1>8 DEF vars, WorkUnchanged, Holders
<1> QED
  BY <1>1, <1>2, <1>3, <1>4, <1>5, <1>6, <1>7, <1>8 DEF Next

LEMMA WorkAccountingStep ==
  TypeOK /\ WorkAccounting /\ [Next]_vars => WorkAccounting'
<1> SUFFICES ASSUME TypeOK, WorkAccounting, [Next]_vars, ~workRaced'
             PROVE  work_num' = Cardinality(Holders')
  BY DEF WorkAccounting
<1>1. IsFiniteSet(Holders) /\ Cardinality(Holders) \in Nat
  BY ServerAssumption, FS_Subset, FS_CardinalityType DEF ServerAssumption, Holders
<1>2. CASE WorkUnchanged
  BY <1>2 DEF WorkUnchanged, WorkAccounting
<1>3. ASSUME NEW c \in Conns, WorkIn(c) PROVE work_num' = Cardinality(Holders')
  <2>1. work_num' = work_num + 1 /\ ~workRaced
    BY <1>3 DEF WorkIn, StoreWork, TypeOK
  <2> QED BY <1>1, <1>3, <2>1, FS_AddElement DEF WorkIn, WorkAccounting
<1>4. ASSUME NEW c \in Conns, WorkOut(c) PROVE work_num' = Cardinality(Holders')
  <2>1. work_num' = work_num - 1 /\ ~workRaced
    BY <1>4 DEF WorkOut, StoreWork, TypeOK
  <2> QED BY <1>1, <1>4, <2>1, FS_RemoveElement DEF WorkOut, WorkAccounting
<1> QED
  BY <1>2, <1>3, <1>4, WorkSteps

(* As long as no update has been lost, every job in the WORK branch is     *)
(* counted exactly once, and every way out of the branch uncounts it.      *)
THEOREM WorkAccountingHolds == SafetySpec => []WorkAccounting
<1>1. Init => WorkAccounting
  BY FS_EmptySet DEF Init, WorkAccounting, Holders, WorkPC
<1> QED
  BY <1>1, TypeCorrect, WorkAccountingStep, PTL DEF SafetySpec

-----------------------------------------------------------------------------
(* The limits as the abstract admission of SlotLimit.                      *)

ClientSlotsNext == [ClientSlots!Next]_<<Served, clientRaced>>

WorkSlotsNext == [WorkSlots!Next]_<<Working, workRaced>>

ServedPC == {"spawn", "bye"} \cup HandlerPC

(* A step that admits nobody and ends nobody's service is a stutter, or    *)
(* the loss of an update.                                                  *)
LEMMA ServedUnmoved ==
  ASSUME TypeOK, TypeOK', Served' = Served, clientRaced => clientRaced'
  PROVE  ClientSlotsNext
BY DEF ClientSlotsNext, ClientSlots!Next, ClientSlots!Corrupt, TypeOK

LEMMA ServedSame ==
  ASSUME TypeOK, NEW c \in Conns, NEW to, pc' = [pc EXCEPT ![c] = to],
         pc[c] \in ServedPC <=> to \in ServedPC
  PROVE  Served' = Served
BY DEF Served, ServedPC, TypeOK

LEMMA ServedLeaves ==
  ASSUME TypeOK, TypeOK', NEW c \in Conns, NEW to, pc' = [pc EXCEPT ![c] = to],
         pc[c] \in ServedPC, to \notin ServedPC, clientRaced => clientRaced'
  PROVE  ClientSlotsNext
<1>1. c \in Served /\ Served' = Served \ {c}
  BY DEF Served, ServedPC, TypeOK
<1>2. clientRaced' \in {clientRaced, TRUE}
  BY DEF TypeOK
<1> QED
  BY <1>1, <1>2 DEF ClientSlotsNext, ClientSlots!Next, ClientSlots!Release

(* The verdict of main() is the one step that admits.                      *)
LEMMA CheckLimitAdmits ==
  ASSUME TypeOK, TypeOK', ClientAccounting, NEW c \in Conns, CheckLimit(c)
  PROVE  ClientSlotsNext
<1> USE DEF CheckLimit, Goto, counters
<1>1. CASE client_num >= MAX_CLIENTS
  <2>1. Served' = Served
    BY <1>1, ServedSame DEF ServedPC, HandlerPC, WorkPC
  <2> QED BY <2>1, ServedUnmoved
<1>2. CASE ~(client_num >= MAX_CLIENTS)
  <2>1. c \notin Served /\ Served' = Served \cup {c}
    BY <1>2 DEF Served, HandlerPC, WorkPC, TypeOK
  <2>2. clientRaced \/ Cardinality(Served) < MAX_CLIENTS - 1
    <3> SUFFICES ASSUME ~clientRaced PROVE Cardinality(Served) < MAX_CLIENTS - 1
      OBVIOUS
    <3>1. Served \cup {c} \in SUBSET Counted
      BY DEF Served, Counted, HandlerPC, WorkPC
    <3>2. IsFiniteSet(Counted) /\ IsFiniteSet(Served)
      BY ServerAssumption, FS_Subset DEF ServerAssumption, Counted, Served
    <3>3. Cardinality(Served) + 1 <= Cardinality(Counted)
      BY <2>1, <3>1, <3>2, FS_AddElement, FS_Subset
    <3>4. Cardinality(Counted) < MAX_CLIENTS
      BY <1>2, ServerAssumption DEF ClientAccounting, TypeOK, ServerAssumption
    <3> QED
      BY <3>2, <3>3, <3>4, FS_CardinalityType, ServerAssumption DEF ServerAssumption
  <2>3. ClientSlots!Cardinality(Served) = Cardinality(Served)
    BY DEF ClientSlots!Cardinality, Cardinality
  <2>4. ClientSlots!Admit(c)
    BY <2>1, <2>2, <2>3 DEF ClientSlots!Admit
  <2> QED
    BY <2>4 DEF ClientSlotsNext, ClientSlots!Next
<1> QED
  BY <1>1, <1>2

LEMMA ServedStep ==
  TypeOK /\ ClientAccounting /\ [Next]_vars => ClientSlotsNext
<1> SUFFICES ASSUME TypeOK, ClientAccounting, [Next]_vars PROVE ClientSlotsNext
  OBVIOUS
<1>0. TypeOK'
  BY TypeStep
<1> USE <1>0 DEF counters, Goto, ServedPC, HandlerPC, WorkPC
<1>1. CASE AcceptFails
  BY <1>1, ServedUnmoved DEF AcceptFails, ProcessEnds, Served
<1>2. ASSUME NEW c \in Conns, Accept(c) PROVE ClientSlotsNext
  BY <1>2, ServedSame, ServedUnmoved DEF Accept
<1>3. ASSUME NEW c \in Conns, MainStep(c) PROVE ClientSlotsNext
  <2>1. CASE CountClient(c)
    BY <2>1, ServedSame, ServedUnmoved DEF CountClient, StoreClient
  <2>2. CASE CheckLimit(c)
    BY <2>2, CheckLimitAdmits
  <2>3. CASE Refuse(c)
    BY <2>3, ServedSame, ServedUnmoved DEF Refuse
  <2>4. CASE Uncount(c)
    BY <2>4, ServedSame, ServedUnmoved DEF Uncount, StoreClient
  <2>5. CASE Spawn(c)
    BY <2>5, ServedSame, ServedUnmoved DEF Spawn
  <2> QED BY <1>3, <2>1, <2>2, <2>3, <2>4, <2>5 DEF MainStep
<1>4. ASSUME NEW c \in Conns, RecvOther(c) \/ RecvWork(c) \/ RecvNul(c) PROVE ClientSlotsNext
  BY <1>4, ServedSame, ServedUnmoved DEF RecvOther, RecvWork, RecvNul
<1>5. ASSUME NEW c \in Conns, HandlerStep(c) PROVE ClientSlotsNext
  <2>1. CASE HangUp(c)
    BY <2>1, ServedSame, ServedUnmoved DEF HangUp
  <2>2. CASE Forget(c)
    BY <2>2, ServedLeaves DEF Forget, StoreClient
  <2>3. CASE ReadError(c)
    BY <2>3, ServedLeaves DEF ReadError
  <2>4. CASE CountWork(c)
    BY <2>4, ServedSame, ServedUnmoved DEF CountWork, StoreWork
  <2>5. CASE CheckWork(c)
    BY <2>5, ServedSame, ServedUnmoved DEF CheckWork
  <2>6. CASE RejectWork(c)
    BY <2>6, ServedSame, ServedUnmoved DEF RejectWork
  <2>7. CASE UncountRejected(c)
    <3>1. CASE Goto(c, "w_undo", "read")
      BY <2>7, <3>1, ServedSame, ServedUnmoved DEF UncountRejected, StoreWork
    <3>2. CASE Goto(c, "w_undo_exit", "leaked")
      BY <2>7, <3>2, ServedLeaves DEF UncountRejected, StoreWork
    <3> QED BY <2>7, <3>1, <3>2 DEF UncountRejected
  <2>8. CASE FindSolution(c)
    BY <2>8, ServedSame, ServedUnmoved DEF FindSolution
  <2>9. CASE UncountWork(c)
    BY <2>9, ServedSame, ServedUnmoved DEF UncountWork, StoreWork
  <2>10. CASE WriteReply(c)
    <3>1. CASE peer[c] = "rst"
      BY <2>10, <3>1, ServedLeaves DEF WriteReply
    <3>2. CASE peer[c] # "rst"
      BY <2>10, <3>2, ServedSame, ServedUnmoved DEF WriteReply
    <3> QED BY <3>1, <3>2
  <2> QED
    BY <1>5, <2>1, <2>2, <2>3, <2>4, <2>5, <2>6, <2>7, <2>8, <2>9, <2>10 DEF HandlerStep
<1>6. ASSUME NEW c \in Conns, ProcessStep(c) PROVE ClientSlotsNext
  BY <1>6, ServedUnmoved DEF ProcessStep, SpawnFails, SigPipe, ProcessEnds, Served
<1>7. ASSUME NEW c \in Conns, ClientStep(c) PROVE ClientSlotsNext
  BY <1>7, ServedUnmoved DEF ClientStep, PeerCloses, PeerResets, Served
<1>8. CASE UNCHANGED vars
  BY <1>8, ServedUnmoved DEF vars, Served
<1> QED
  BY <1>1, <1>2, <1>3, <1>4, <1>5, <1>6, <1>7, <1>8 DEF Next

(* Until the first lost update at most MAX_CLIENTS - 1 connections are     *)
(* served, one is admitted only while there is a slot, and a slot is freed *)
(* only by the end of a handler.                                           *)
THEOREM ServesWithinLimitHolds == SafetySpec => ServesWithinLimit
<1>1. Init => ClientSlots!Init
  BY DEF Init, ClientSlots!Init, Served, HandlerPC, WorkPC
<1>2. SafetySpec => [](TypeOK /\ ClientAccounting)
  BY TypeCorrect, ClientAccountingHolds, PTL
<1> QED
  BY <1>1, <1>2, ServedStep, PTL
  DEF SafetySpec, ServesWithinLimit, ClientSlots!Spec, ClientSlotsNext

-----------------------------------------------------------------------------
(* The same for work_num, whose users are the jobs inside work().          *)

LEMMA WorkingUnmoved ==
  ASSUME TypeOK, TypeOK', Working' = Working, workRaced => workRaced'
  PROVE  WorkSlotsNext
BY DEF WorkSlotsNext, WorkSlots!Next, WorkSlots!Corrupt, TypeOK

LEMMA WorkingSame ==
  ASSUME TypeOK, NEW c \in Conns, NEW to, pc' = [pc EXCEPT ![c] = to],
         pc[c] \in AdmittedPC <=> to \in AdmittedPC
  PROVE  Working' = Working
BY DEF Working, TypeOK

LEMMA WorkingLeaves ==
  ASSUME TypeOK, TypeOK', NEW c \in Conns, UncountWork(c)
  PROVE  WorkSlotsNext
<1>1. c \in Working /\ Working' = Working \ {c}
  BY DEF UncountWork, Goto, Working, AdmittedPC, TypeOK
<1>2. workRaced' \in {workRaced, TRUE}
  BY DEF UncountWork, StoreWork, TypeOK
<1> QED
  BY <1>1, <1>2 DEF WorkSlotsNext, WorkSlots!Next, WorkSlots!Release

(* The check of work_num is the one step that admits.                      *)
LEMMA CheckWorkAdmits ==
  ASSUME TypeOK, TypeOK', WorkAccounting, NEW c \in Conns, CheckWork(c)
  PROVE  WorkSlotsNext
<1>1. PICK to \in {"w_reject", "search", "stuck"} :
        /\ Goto(c, "w_limit", to)
        /\ to = "w_reject" \/ work_num < MAX_WORK
  BY ServerAssumption DEF CheckWork, TypeOK, ServerAssumption
<1>2. UNCHANGED workRaced
  BY DEF CheckWork, counters
<1>3. CASE to = "w_reject"
  <2>1. Working' = Working
    BY <1>1, <1>3, WorkingSame DEF Goto, AdmittedPC
  <2> QED BY <1>2, <2>1, WorkingUnmoved
<1>4. CASE to # "w_reject"
  <2>1. c \notin Working /\ Working' = Working \cup {c}
    BY <1>1, <1>4 DEF Goto, Working, AdmittedPC, TypeOK
  <2>2. workRaced \/ Cardinality(Working) < MAX_WORK - 1
    <3> SUFFICES ASSUME ~workRaced PROVE Cardinality(Working) < MAX_WORK - 1
      OBVIOUS
    <3>1. Working \cup {c} \in SUBSET Holders
      BY <1>1 DEF Goto, Working, Holders, AdmittedPC, WorkPC
    <3>2. IsFiniteSet(Holders) /\ IsFiniteSet(Working)
      BY ServerAssumption, FS_Subset DEF ServerAssumption, Holders, Working
    <3>3. Cardinality(Working) + 1 <= Cardinality(Holders)
      BY <2>1, <3>1, <3>2, FS_AddElement, FS_Subset
    <3>4. Cardinality(Holders) < MAX_WORK
      BY <1>1, <1>4 DEF WorkAccounting
    <3> QED
      BY <3>2, <3>3, <3>4, FS_CardinalityType, ServerAssumption DEF ServerAssumption
  <2>3. WorkSlots!Cardinality(Working) = Cardinality(Working)
    BY DEF WorkSlots!Cardinality, Cardinality
  <2>4. WorkSlots!Admit(c)
    BY <1>2, <2>1, <2>2, <2>3 DEF WorkSlots!Admit
  <2> QED
    BY <2>4 DEF WorkSlotsNext, WorkSlots!Next
<1> QED
  BY <1>3, <1>4

LEMMA WorkingStep ==
  TypeOK /\ WorkAccounting /\ [Next]_vars => WorkSlotsNext
<1> SUFFICES ASSUME TypeOK, WorkAccounting, [Next]_vars PROVE WorkSlotsNext
  OBVIOUS
<1>0. TypeOK'
  BY TypeStep
<1> USE <1>0 DEF counters, Goto, AdmittedPC
<1>1. CASE AcceptFails
  BY <1>1, WorkingUnmoved DEF AcceptFails, ProcessEnds, Working
<1>2. ASSUME NEW c \in Conns, Accept(c) PROVE WorkSlotsNext
  BY <1>2, WorkingSame, WorkingUnmoved DEF Accept
<1>3. ASSUME NEW c \in Conns, MainStep(c) PROVE WorkSlotsNext
  <2>1. CASE CountClient(c)
    BY <2>1, WorkingSame, WorkingUnmoved DEF CountClient, StoreClient
  <2>2. CASE CheckLimit(c)
    BY <2>2, WorkingSame, WorkingUnmoved DEF CheckLimit
  <2>3. CASE Refuse(c)
    BY <2>3, WorkingSame, WorkingUnmoved DEF Refuse
  <2>4. CASE Uncount(c)
    BY <2>4, WorkingSame, WorkingUnmoved DEF Uncount, StoreClient
  <2>5. CASE Spawn(c)
    BY <2>5, WorkingSame, WorkingUnmoved DEF Spawn
  <2> QED BY <1>3, <2>1, <2>2, <2>3, <2>4, <2>5 DEF MainStep
<1>4. ASSUME NEW c \in Conns, RecvOther(c) \/ RecvWork(c) \/ RecvNul(c) PROVE WorkSlotsNext
  BY <1>4, WorkingSame, WorkingUnmoved DEF RecvOther, RecvWork, RecvNul
<1>5. ASSUME NEW c \in Conns, HandlerStep(c) PROVE WorkSlotsNext
  <2>1. CASE HangUp(c)
    BY <2>1, WorkingSame, WorkingUnmoved DEF HangUp
  <2>2. CASE Forget(c)
    BY <2>2, WorkingSame, WorkingUnmoved DEF Forget, StoreClient
  <2>3. CASE ReadError(c)
    BY <2>3, WorkingSame, WorkingUnmoved DEF ReadError
  <2>4. CASE CountWork(c)
    BY <2>4, WorkingSame, WorkingUnmoved DEF CountWork, StoreWork
  <2>5. CASE CheckWork(c)
    BY <2>5, CheckWorkAdmits
  <2>6. CASE RejectWork(c)
    BY <2>6, WorkingSame, WorkingUnmoved DEF RejectWork
  <2>7. CASE UncountRejected(c)
    BY <2>7, WorkingSame, WorkingUnmoved DEF UncountRejected, StoreWork
  <2>8. CASE FindSolution(c)
    BY <2>8, WorkingSame, WorkingUnmoved DEF FindSolution
  <2>9. CASE UncountWork(c)
    BY <2>9, WorkingLeaves
  <2>10. CASE WriteReply(c)
    BY <2>10, WorkingSame, WorkingUnmoved DEF WriteReply
  <2> QED
    BY <1>5, <2>1, <2>2, <2>3, <2>4, <2>5, <2>6, <2>7, <2>8, <2>9, <2>10 DEF HandlerStep
<1>6. ASSUME NEW c \in Conns, ProcessStep(c) PROVE WorkSlotsNext
  BY <1>6, WorkingUnmoved DEF ProcessStep, SpawnFails, SigPipe, ProcessEnds, Working
<1>7. ASSUME NEW c \in Conns, ClientStep(c) PROVE WorkSlotsNext
  BY <1>7, WorkingUnmoved DEF ClientStep, PeerCloses, PeerResets, Working
<1>8. CASE UNCHANGED vars
  BY <1>8, WorkingUnmoved DEF vars, Working
<1> QED
  BY <1>1, <1>2, <1>3, <1>4, <1>5, <1>6, <1>7, <1>8 DEF Next

(* Until the first lost update at most MAX_WORK - 1 jobs run, and a job is *)
(* admitted only while there is a slot for it.                             *)
THEOREM WorksWithinLimitHolds == SafetySpec => WorksWithinLimit
<1>1. Init => WorkSlots!Init
  BY DEF Init, WorkSlots!Init, Working, AdmittedPC
<1>2. SafetySpec => [](TypeOK /\ WorkAccounting)
  BY TypeCorrect, WorkAccountingHolds, PTL
<1> QED
  BY <1>1, <1>2, WorkingStep, PTL
  DEF SafetySpec, WorksWithinLimit, WorkSlots!Spec, WorkSlotsNext

-----------------------------------------------------------------------------
(* Only a reset connection can take its client slot with it.               *)

LeakersAreReset ==
  \A c \in Conns : pc[c] \in {"leaked", "w_undo_exit"} => peer[c] = "rst"

LEMMA LeakersStep == TypeOK /\ LeakersAreReset /\ [Next]_vars => LeakersAreReset'
<1> SUFFICES ASSUME TypeOK, LeakersAreReset, [Next]_vars PROVE LeakersAreReset'
  OBVIOUS
<1> USE DEF TypeOK, LeakersAreReset, counters, Goto
<1>1. CASE AcceptFails
  BY <1>1 DEF AcceptFails, ProcessEnds
<1>2. ASSUME NEW c \in Conns, Accept(c) PROVE LeakersAreReset'
  BY <1>2 DEF Accept
<1>3. ASSUME NEW c \in Conns, MainStep(c) PROVE LeakersAreReset'
  BY <1>3 DEF MainStep, CountClient, CheckLimit, Refuse, Uncount, Spawn, StoreClient
<1>4. ASSUME NEW c \in Conns, RecvOther(c) \/ RecvWork(c) \/ RecvNul(c) PROVE LeakersAreReset'
  BY <1>4 DEF RecvOther, RecvWork, RecvNul
<1>5. ASSUME NEW c \in Conns, HandlerStep(c) PROVE LeakersAreReset'
  <2>1. CASE HangUp(c) \/ Forget(c) \/ ReadError(c) \/ WriteReply(c)
    BY <2>1 DEF HangUp, Forget, ReadError, WriteReply, StoreClient
  <2>2. CASE CountWork(c) \/ RejectWork(c) \/ FindSolution(c) \/ UncountWork(c)
    BY <2>2 DEF CountWork, RejectWork, FindSolution, UncountWork, StoreWork
  <2>3. CASE CheckWork(c)
    BY <2>3 DEF CheckWork
  <2>4. CASE UncountRejected(c)
    BY <2>4 DEF UncountRejected, StoreWork
  <2> QED BY <1>5, <2>1, <2>2, <2>3, <2>4 DEF HandlerStep
<1>6. ASSUME NEW c \in Conns, ProcessStep(c) PROVE LeakersAreReset'
  BY <1>6 DEF ProcessStep, SpawnFails, SigPipe, ProcessEnds
<1>7. ASSUME NEW c \in Conns, ClientStep(c) PROVE LeakersAreReset'
  BY <1>7 DEF ClientStep, PeerCloses, PeerResets
<1>8. CASE UNCHANGED vars
  BY <1>8 DEF vars
<1> QED
  BY <1>1, <1>2, <1>3, <1>4, <1>5, <1>6, <1>7, <1>8 DEF Next

(* A server whose clients all hung up in order has client_num back at 0.   *)
THEOREM OrderlyClientsLeaveNoTraceHolds == SafetySpec => []OrderlyClientsLeaveNoTrace
<1>1. Init => LeakersAreReset
  BY DEF Init, LeakersAreReset
<1>2. LeakersAreReset /\ ClientAccounting => OrderlyClientsLeaveNoTrace
  <2> SUFFICES ASSUME LeakersAreReset, ClientAccounting, ~clientRaced,
                      \A c \in Conns : /\ pc[c] \in {"idle", "refused", "gone", "leaked"}
                                       /\ peer[c] # "rst"
               PROVE  client_num = 0
    BY DEF OrderlyClientsLeaveNoTrace
  <2>1. Counted = {}
    BY DEF Counted, LeakersAreReset
  <2> QED BY <2>1, FS_EmptySet DEF ClientAccounting
<1> QED
  BY <1>1, <1>2, LeakersStep, TypeCorrect, ClientAccountingHolds, PTL DEF SafetySpec

-----------------------------------------------------------------------------
(* What the two refinements come to.                                       *)

AtMost(S, n) == IsFiniteSet(S) /\ Cardinality(S) <= n

LEMMA SlotTaken ==
  ASSUME NEW n \in Nat, NEW S, AtMost(S, n), Cardinality(S) < n, NEW u, u \notin S
  PROVE  AtMost(S \cup {u}, n)
<1>1. IsFiniteSet(S) /\ Cardinality(S) \in Nat
  BY FS_CardinalityType DEF AtMost
<1>2. IsFiniteSet(S \cup {u}) /\ Cardinality(S \cup {u}) = Cardinality(S) + 1
  BY <1>1, FS_AddElement
<1> QED
  BY <1>1, <1>2 DEF AtMost

LEMMA SlotGivenBack ==
  ASSUME NEW n \in Nat, NEW S, AtMost(S, n), NEW u \in S
  PROVE  AtMost(S \ {u}, n)
<1>1. IsFiniteSet(S) /\ Cardinality(S) \in Nat /\ Cardinality(S) <= n
  BY FS_CardinalityType DEF AtMost
<1>2. IsFiniteSet(S \ {u}) /\ Cardinality(S \ {u}) = Cardinality(S) - 1
  BY <1>1, FS_RemoveElement
<1> QED
  BY <1>1, <1>2 DEF AtMost

LEMMA ClientSlotsLimit == MAX_CLIENTS - 1 \in Nat
BY ServerAssumption DEF ServerAssumption

LEMMA WorkSlotsLimit == MAX_WORK - 1 \in Nat
BY ServerAssumption DEF ServerAssumption

ClientSlotsBounded == ~clientRaced => AtMost(Served, MAX_CLIENTS - 1)

WorkSlotsBounded == ~workRaced => AtMost(Working, MAX_WORK - 1)

(* As long as no update of its counter is lost, main() has at most         *)
(* MAX_CLIENTS - 1 connections served at a time, and the handlers work on  *)
(* at most MAX_WORK - 1 jobs: any run that is one of SlotLimit's keeps     *)
(* that, and the server's runs are.                                        *)
THEOREM UsersWithinLimits ==
  SafetySpec => [](/\ ~clientRaced => Cardinality(Served) <= MAX_CLIENTS - 1
                   /\ ~workRaced => Cardinality(Working) <= MAX_WORK - 1)
<1>1. ServesWithinLimit => [](~clientRaced => Cardinality(Served) <= MAX_CLIENTS - 1)
  <2>1. ClientSlots!Init => ClientSlotsBounded
    BY ClientSlotsLimit, FS_EmptySet DEF ClientSlots!Init, ClientSlotsBounded, AtMost
  <2>2. ASSUME ClientSlotsBounded, [ClientSlots!Next]_<<Served, clientRaced>> PROVE ClientSlotsBounded'
    <3> SUFFICES ASSUME ~clientRaced' PROVE AtMost(Served', MAX_CLIENTS - 1)
      BY DEF ClientSlotsBounded
    <3>1. CASE ClientSlots!Corrupt
      BY <3>1 DEF ClientSlots!Corrupt
    <3>2. ASSUME NEW c \in Conns, ClientSlots!Admit(c) PROVE AtMost(Served', MAX_CLIENTS - 1)
      <4>1. ~clientRaced /\ c \notin Served /\ Served' = Served \cup {c}
            /\ ClientSlots!Cardinality(Served) < MAX_CLIENTS - 1
        BY <3>2 DEF ClientSlots!Admit
      <4>2. ClientSlots!Cardinality(Served) = Cardinality(Served)
        BY DEF ClientSlots!Cardinality, Cardinality
      <4> QED BY <2>2, <4>1, <4>2, ClientSlotsLimit, SlotTaken DEF ClientSlotsBounded
    <3>3. ASSUME NEW c \in Conns, ClientSlots!Release(c) PROVE AtMost(Served', MAX_CLIENTS - 1)
      <4>1. c \in Served /\ Served' = Served \ {c}
        BY <3>3 DEF ClientSlots!Release
      <4>2. clientRaced' \in {clientRaced, TRUE}
        BY <3>3 DEF ClientSlots!Release
      <4>3. ~clientRaced
        BY <4>2
      <4> QED BY <2>2, <4>1, <4>3, ClientSlotsLimit, SlotGivenBack DEF ClientSlotsBounded
    <3>4. CASE UNCHANGED <<Served, clientRaced>>
      BY <2>2, <3>4 DEF ClientSlotsBounded
    <3> QED BY <2>2, <3>1, <3>2, <3>3, <3>4 DEF ClientSlots!Next
  <2>3. ClientSlotsBounded => (~clientRaced => Cardinality(Served) <= MAX_CLIENTS - 1)
    BY DEF ClientSlotsBounded, AtMost
  <2> QED
    BY <2>1, <2>2, <2>3, PTL DEF ServesWithinLimit, ClientSlots!Spec
<1>2. WorksWithinLimit => [](~workRaced => Cardinality(Working) <= MAX_WORK - 1)
  <2>1. WorkSlots!Init => WorkSlotsBounded
    BY WorkSlotsLimit, FS_EmptySet DEF WorkSlots!Init, WorkSlotsBounded, AtMost
  <2>2. ASSUME WorkSlotsBounded, [WorkSlots!Next]_<<Working, workRaced>> PROVE WorkSlotsBounded'
    <3> SUFFICES ASSUME ~workRaced' PROVE AtMost(Working', MAX_WORK - 1)
      BY DEF WorkSlotsBounded
    <3>1. CASE WorkSlots!Corrupt
      BY <3>1 DEF WorkSlots!Corrupt
    <3>2. ASSUME NEW c \in Conns, WorkSlots!Admit(c) PROVE AtMost(Working', MAX_WORK - 1)
      <4>1. ~workRaced /\ c \notin Working /\ Working' = Working \cup {c}
            /\ WorkSlots!Cardinality(Working) < MAX_WORK - 1
        BY <3>2 DEF WorkSlots!Admit
      <4>2. WorkSlots!Cardinality(Working) = Cardinality(Working)
        BY DEF WorkSlots!Cardinality, Cardinality
      <4> QED BY <2>2, <4>1, <4>2, WorkSlotsLimit, SlotTaken DEF WorkSlotsBounded
    <3>3. ASSUME NEW c \in Conns, WorkSlots!Release(c) PROVE AtMost(Working', MAX_WORK - 1)
      <4>1. c \in Working /\ Working' = Working \ {c}
        BY <3>3 DEF WorkSlots!Release
      <4>2. workRaced' \in {workRaced, TRUE}
        BY <3>3 DEF WorkSlots!Release
      <4>3. ~workRaced
        BY <4>2
      <4> QED BY <2>2, <4>1, <4>3, WorkSlotsLimit, SlotGivenBack DEF WorkSlotsBounded
    <3>4. CASE UNCHANGED <<Working, workRaced>>
      BY <2>2, <3>4 DEF WorkSlotsBounded
    <3> QED BY <2>2, <3>1, <3>2, <3>3, <3>4 DEF WorkSlots!Next
  <2>3. WorkSlotsBounded => (~workRaced => Cardinality(Working) <= MAX_WORK - 1)
    BY DEF WorkSlotsBounded, AtMost
  <2> QED
    BY <2>1, <2>2, <2>3, PTL DEF WorksWithinLimit, WorkSlots!Spec
<1> QED
  BY <1>1, <1>2, ServesWithinLimitHolds, WorksWithinLimitHolds, PTL

=============================================================================
