--------------------------- MODULE OneShot_proofs ---------------------------
(***************************************************************************)
(* What holds of server3.c for any number of connections and any limits.   *)
(* Of Server's arguments those about client_num become simpler here: its   *)
(* one writer is main().                                                   *)
(***************************************************************************)
EXTENDS OneShot, FiniteSetTheorems, TLAPS

LEMMA Bounds ==
  IsFiniteSet(Conns) /\ MAX_CLIENTS \in Nat \ {0} /\ MAX_WORK \in Nat \ {0}
BY OneShotAssumption DEF OneShotAssumption

(* TypeOK with no bound on client_num.                                     *)
Types ==
  /\ up \in BOOLEAN
  /\ pc \in [Conns -> PC]
  /\ reg \in [Conns -> Int]
  /\ client_num \in Int /\ work_num \in Int
  /\ peer \in [Conns -> {"up", "fin", "rst"}]
  /\ left \in [Conns -> 0 .. 1]
  /\ clientRaced \in BOOLEAN /\ workRaced \in BOOLEAN

LEMMA InitTypes == Init => Types
<1>1. Init => pc \in [Conns -> PC]
  BY DEF Init, S!Init, PC
<1>2. Init => left \in [Conns -> 0 .. 1] /\ reg \in [Conns -> Int]
  BY DEF Init, S!Init
<1>3. Init => peer \in [Conns -> {"up", "fin", "rst"}]
  BY DEF Init, S!Init
<1>4. Init => {up, clientRaced, workRaced} \subseteq BOOLEAN
  BY DEF Init, S!Init
<1> QED
  BY <1>1, <1>2, <1>3, <1>4 DEF Init, S!Init, Types

LEMMA TypesStep == Types /\ [Next]_vars => Types'
<1> SUFFICES ASSUME Types, [Next]_vars PROVE Types'
  OBVIOUS
<1> USE DEF Types, PC, S!MainPC, HandlerPC, ReturnedPC, local, S!counters, S!Goto, S!Load
<1>1. ASSUME MainFails PROVE Types'
  BY <1>1 DEF MainFails, S!AcceptFails, S!SpawnFails, S!ProcessEnds
<1>2. ASSUME NEW c \in Conns, MainStep(c) PROVE Types'
  <2>1. CASE Accept(c) BY <2>1 DEF Accept, S!Accept
  <2>2. CASE S!CountClient(c) BY <2>2 DEF S!CountClient, S!StoreClient
  <2>3. CASE S!CheckLimit(c) BY <2>3 DEF S!CheckLimit
  <2>4. CASE S!Refuse(c) BY <2>4 DEF S!Refuse
  <2>5. CASE S!Uncount(c) BY <2>5 DEF S!Uncount, S!StoreClient
  <2>6. CASE S!Spawn(c) BY <2>6 DEF S!Spawn
  <2> QED BY <1>2, <2>1, <2>2, <2>3, <2>4, <2>5, <2>6 DEF MainStep, S!MainStep
<1>3. ASSUME NEW c \in Conns, HandlerStep(c) PROVE Types'
  <2>1. CASE RecvOther(c) BY <2>1 DEF RecvOther
  <2>2. CASE RecvUnknown(c) BY <2>2 DEF RecvUnknown
  <2>3. CASE RecvWork(c) BY <2>3 DEF RecvWork
  <2>4. CASE CountWork(c) BY <2>4 DEF CountWork, S!CountWork, S!StoreWork
  <2>5. CASE CheckWork(c) BY <2>5 DEF CheckWork
  <2>6. CASE Echo(c) BY <2>6 DEF Echo
  <2>7. CASE FindSolution(c) BY <2>7 DEF FindSolution, S!FindSolution
  <2>8. CASE UncountWork(c) BY <2>8 DEF UncountWork, S!UncountWork, S!StoreWork
  <2>9. CASE WriteReply(c) BY <2>9 DEF WriteReply
  <2>10. CASE IOFails(c) BY <2>10 DEF IOFails, S!ProcessEnds
  <2> QED BY <1>3, <2>1, <2>2, <2>3, <2>4, <2>5, <2>6, <2>7, <2>8, <2>9, <2>10 DEF HandlerStep, Recv, HandlerRuns
<1>4. ASSUME NEW c \in Conns, PeerLeaves(c, "fin") \/ PeerLeaves(c, "rst") PROVE Types'
  BY <1>4 DEF PeerLeaves
<1>5. CASE UNCHANGED vars
  BY <1>5 DEF vars
<1> QED
  BY <1>1, <1>2, <1>3, <1>4, <1>5 DEF Next

LEMMA TypesAlways == Spec => []Types
BY InitTypes, TypesStep, PTL DEF Spec, SafetySpec

-----------------------------------------------------------------------------
(* What a handler's step does to client_num and to main(): nothing.        *)
LEMMA HandlerFrame ==
  ASSUME Types, NEW c \in Conns, HandlerStep(c)
  PROVE  /\ UNCHANGED <<client_num, clientRaced>>
         /\ \A d \in Conns :
              /\ pc'[d] # pc[d] => pc[d] \in HandlerPC /\ pc'[d] \in HandlerPC \cup ReturnedPC
              /\ reg'[d] # reg[d] => pc[d] \in HandlerPC
<1> USE DEF Types, HandlerPC, ReturnedPC, local, S!counters, S!Goto, S!Load
<1>1. CASE RecvOther(c) BY <1>1 DEF RecvOther
<1>2. CASE RecvUnknown(c) BY <1>2 DEF RecvUnknown
<1>3. CASE RecvWork(c) BY <1>3 DEF RecvWork
<1>4. CASE CountWork(c) BY <1>4 DEF CountWork, S!CountWork, S!StoreWork
<1>5. CASE CheckWork(c) BY <1>5 DEF CheckWork
<1>6. CASE Echo(c) BY <1>6 DEF Echo
<1>7. CASE FindSolution(c) BY <1>7 DEF FindSolution, S!FindSolution
<1>8. CASE UncountWork(c) BY <1>8 DEF UncountWork, S!UncountWork, S!StoreWork
<1>9. CASE WriteReply(c) BY <1>9 DEF WriteReply
<1>10. CASE IOFails(c) BY <1>10 DEF IOFails, S!ProcessEnds
<1> QED BY <1>1, <1>2, <1>3, <1>4, <1>5, <1>6, <1>7, <1>8, <1>9, <1>10 DEF HandlerStep, Recv, HandlerRuns

(* main() has stored an increment of client_num for the connection and not *)
(* taken it back.                                                          *)
Counted == {c \in Conns : pc[c] \notin {"idle", "counting", "refused"}}

OverLimitPC == {"limit", "refuse", "uncount"}

(* main() handles one connection at a time, what it has loaded is what     *)
(* client_num still holds, and client_num is exact.                        *)
MainInv ==
  /\ \A c, d \in Conns : pc[c] \in S!MainPC /\ pc[d] \in S!MainPC => c = d
  /\ \A c \in Conns : pc[c] \in {"counting", "uncount"} => reg[c] = client_num
  /\ ~clientRaced /\ client_num = Cardinality(Counted)
  /\ client_num <= MAX_CLIENTS
  /\ (\A c \in Conns : pc[c] \notin OverLimitPC) => client_num < MAX_CLIENTS

LEMMA InitMain == Init => MainInv
<1> SUFFICES ASSUME Init PROVE MainInv
  OBVIOUS
<1>1. Counted = {} /\ client_num = 0 /\ ~clientRaced /\ \A c \in Conns : pc[c] = "idle"
  BY DEF Init, S!Init, Counted
<1>2. Cardinality(Counted) = 0
  BY <1>1, FS_EmptySet
<1> QED
  BY <1>1, <1>2, Bounds DEF MainInv, S!MainPC, OverLimitPC

LEMMA CountedFinite ==
  /\ IsFiniteSet(Counted) /\ Cardinality(Counted) \in Nat
  /\ \A c : c \notin Counted => Cardinality(Counted \cup {c}) = Cardinality(Counted) + 1
  /\ \A c \in Counted : Cardinality(Counted \ {c}) = Cardinality(Counted) - 1
<1>1. IsFiniteSet(Counted)
  BY Bounds, FS_Subset DEF Counted
<1> QED
  BY <1>1, FS_CardinalityType, FS_AddElement, FS_RemoveElement

(* A step that leaves client_num, and what it counts, as they were.        *)
LEMMA MainFrame ==
  ASSUME Types, MainInv, UNCHANGED <<client_num, clientRaced>>,
         \A d \in Conns :
           /\ pc'[d] # pc[d] =>
                /\ pc[d] \notin {"idle", "counting", "refused"} \cup S!MainPC
                /\ pc'[d] \notin {"idle", "counting", "refused"} \cup S!MainPC
           /\ reg'[d] # reg[d] => pc[d] \notin S!MainPC
  PROVE  MainInv'
<1>1. Counted' = Counted
  BY DEF Counted
<1>2. \A d \in Conns : pc'[d] \in S!MainPC => pc'[d] = pc[d] /\ reg'[d] = reg[d]
  OBVIOUS
<1>3. \A d \in Conns : pc[d] \in S!MainPC => pc'[d] = pc[d]
  OBVIOUS
<1>4. \A c, d \in Conns : pc'[c] \in S!MainPC /\ pc'[d] \in S!MainPC => c = d
  BY <1>2 DEF MainInv
<1>5. \A c \in Conns : pc'[c] \in {"counting", "uncount"} => reg'[c] = client_num'
  BY <1>2 DEF MainInv, S!MainPC
<1>6. (\A c \in Conns : pc'[c] \notin OverLimitPC) => client_num' < MAX_CLIENTS
  BY <1>3 DEF MainInv, OverLimitPC, S!MainPC
<1> QED
  BY <1>1, <1>4, <1>5, <1>6 DEF MainInv

LEMMA MainStepKeeps ==
  ASSUME Types, MainInv, NEW c \in Conns, MainStep(c)
  PROVE  MainInv'
<1>0. pc \in [Conns -> PC] /\ reg \in [Conns -> Int] /\ client_num \in Int /\ MAX_CLIENTS \in Nat
  BY Bounds DEF Types
<1> USE DEF S!Goto, S!Load, S!counters
<1>1. CASE Accept(c)
  <2>1. /\ \A d \in Conns : pc[d] \notin S!MainPC
        /\ pc[c] = "idle" /\ pc' = [pc EXCEPT ![c] = "counting"]
        /\ reg' = [reg EXCEPT ![c] = client_num]
        /\ UNCHANGED <<client_num, clientRaced>>
    BY <1>1 DEF Accept, S!Accept, S!MainIdle
  <2>2. Counted' = Counted
    BY <1>0, <2>1 DEF Counted
  <2> QED BY <1>0, <2>1, <2>2 DEF MainInv, S!MainPC, OverLimitPC
<1>2. CASE S!CountClient(c)
  <2>1. /\ pc[c] = "counting" /\ pc' = [pc EXCEPT ![c] = "limit"]
        /\ client_num' = reg[c] + 1
        /\ clientRaced' = (clientRaced \/ client_num # reg[c])
        /\ reg' = [reg EXCEPT ![c] = 0]
    BY <1>2 DEF S!CountClient, S!StoreClient
  <2>2. client_num' = client_num + 1 /\ ~clientRaced'
    BY <2>1 DEF MainInv
  <2>3. c \notin Counted /\ Counted' = Counted \cup {c}
    BY <1>0, <2>1 DEF Counted
  <2>4. client_num' = Cardinality(Counted')
    BY <2>2, <2>3, CountedFinite DEF MainInv
  <2>5. \A d \in Conns : pc[d] \in S!MainPC => d = c
    BY <2>1 DEF MainInv, S!MainPC
  <2>6. client_num < MAX_CLIENTS
    BY <2>1, <2>5 DEF MainInv, S!MainPC, OverLimitPC
  <2>7. \A d \in Conns : pc'[d] \in S!MainPC => d = c
    BY <1>0, <2>1, <2>5
  <2>8. \A d \in Conns : pc'[d] \notin {"counting", "uncount"}
    BY <1>0, <2>1, <2>7 DEF S!MainPC
  <2>9. pc'[c] \in OverLimitPC
    BY <1>0, <2>1 DEF OverLimitPC
  <2> QED BY <1>0, <2>2, <2>4, <2>6, <2>7, <2>8, <2>9 DEF MainInv
<1>3. CASE S!CheckLimit(c)
  <2>1. /\ pc[c] = "limit"
        /\ pc' = [pc EXCEPT ![c] = IF client_num >= MAX_CLIENTS THEN "refuse" ELSE "spawn"]
        /\ UNCHANGED <<reg, client_num, clientRaced>>
    BY <1>3 DEF S!CheckLimit
  <2>2. Counted' = Counted
    BY <1>0, <2>1 DEF Counted
  <2> QED BY <1>0, <2>1, <2>2 DEF MainInv, S!MainPC, OverLimitPC
<1>4. CASE S!Refuse(c)
  <2>1. /\ pc[c] = "refuse" /\ pc' = [pc EXCEPT ![c] = "uncount"]
        /\ reg' = [reg EXCEPT ![c] = client_num]
        /\ UNCHANGED <<client_num, clientRaced>>
    BY <1>4 DEF S!Refuse
  <2>2. Counted' = Counted
    BY <1>0, <2>1 DEF Counted
  <2> QED BY <1>0, <2>1, <2>2 DEF MainInv, S!MainPC, OverLimitPC
<1>5. CASE S!Uncount(c)
  <2>1. /\ pc[c] = "uncount" /\ pc' = [pc EXCEPT ![c] = "refused"]
        /\ client_num' = reg[c] - 1
        /\ clientRaced' = (clientRaced \/ client_num # reg[c])
        /\ reg' = [reg EXCEPT ![c] = 0]
    BY <1>5 DEF S!Uncount, S!StoreClient
  <2>2. client_num' = client_num - 1 /\ ~clientRaced'
    BY <1>0, <2>1 DEF MainInv
  <2>3. c \in Counted /\ Counted' = Counted \ {c}
    BY <1>0, <2>1 DEF Counted
  <2>4. client_num' = Cardinality(Counted')
    BY <2>2, <2>3, CountedFinite DEF MainInv
  <2>5. \A d \in Conns : pc[d] \in S!MainPC => d = c
    BY <2>1 DEF MainInv, S!MainPC
  <2>6. \A d \in Conns : pc'[d] \notin S!MainPC
    BY <1>0, <2>1, <2>5 DEF S!MainPC
  <2>7. client_num' < MAX_CLIENTS
    BY <1>0, <2>2 DEF MainInv
  <2> QED BY <1>0, <2>2, <2>4, <2>6, <2>7 DEF MainInv, S!MainPC
<1>6. CASE S!Spawn(c)
  <2>1. /\ pc[c] = "spawn" /\ pc' = [pc EXCEPT ![c] = "read"]
        /\ UNCHANGED <<reg, client_num, clientRaced>>
    BY <1>6 DEF S!Spawn
  <2>2. Counted' = Counted
    BY <1>0, <2>1 DEF Counted
  <2> QED BY <1>0, <2>1, <2>2 DEF MainInv, S!MainPC, OverLimitPC
<1> QED
  BY <1>1, <1>2, <1>3, <1>4, <1>5, <1>6 DEF MainStep, S!MainStep

LEMMA MainInvStep == Types /\ MainInv /\ [Next]_vars => MainInv'
<1> SUFFICES ASSUME Types, MainInv, [Next]_vars PROVE MainInv'
  OBVIOUS
<1>1. ASSUME MainFails PROVE UNCHANGED <<pc, reg, client_num, clientRaced>>
  BY <1>1 DEF MainFails, S!AcceptFails, S!SpawnFails, S!ProcessEnds, S!counters
<1>2. ASSUME NEW c \in Conns, MainStep(c) PROVE MainInv'
  BY <1>2, MainStepKeeps
<1>3. ASSUME NEW c \in Conns, HandlerStep(c) PROVE MainInv'
  <2>1. /\ \A p \in HandlerPC \cup ReturnedPC :
             p \notin {"idle", "counting", "refused"} \cup S!MainPC
    BY DEF HandlerPC, ReturnedPC, S!MainPC
  <2> QED BY <1>3, <2>1, HandlerFrame, MainFrame
<1>4. ASSUME NEW c \in Conns, PeerLeaves(c, "fin") \/ PeerLeaves(c, "rst")
      PROVE  UNCHANGED <<pc, reg, client_num, clientRaced>>
  BY <1>4 DEF PeerLeaves
<1>5. ASSUME UNCHANGED vars PROVE UNCHANGED <<pc, reg, client_num, clientRaced>>
  BY <1>5 DEF vars
<1>6. CASE UNCHANGED <<pc, reg, client_num, clientRaced>>
  BY <1>6, MainFrame
<1> QED
  BY <1>1, <1>2, <1>3, <1>4, <1>5, <1>6 DEF Next

LEMMA MainAlways == Spec => []MainInv
BY TypesAlways, InitMain, MainInvStep, PTL DEF Spec, SafetySpec

(* Every variable has its type, and client_num stays in 0 .. MAX_CLIENTS.  *)
THEOREM OneShotTypeCorrect == Spec => []TypeOK
<1>1. Types /\ MainInv => TypeOK
  <2> SUFFICES ASSUME Types, MainInv PROVE TypeOK
    OBVIOUS
  <2>1. client_num \in 0 .. MAX_CLIENTS
    BY Bounds, CountedFinite DEF MainInv
  <2> QED BY <2>1 DEF Types, TypeOK
<1> QED
  BY <1>1, TypesAlways, MainAlways, PTL

(* main() being the one writer of client_num, no update of it is lost and  *)
(* fewer than MAX_CLIENTS connections are ever let in.                     *)
THEOREM OpenWithinLimitHolds == Spec => []OpenWithinLimit
<1>1. MainInv => OpenWithinLimit
  <2> SUFFICES ASSUME MainInv PROVE Cardinality(Open) < MAX_CLIENTS
    BY DEF MainInv, OpenWithinLimit
  <2>1. Open \subseteq Counted
    BY DEF Open, Counted, HandlerPC, ReturnedPC
  <2>2. Cardinality(Open) \in Nat /\ Cardinality(Open) <= Cardinality(Counted)
    BY <2>1, CountedFinite, FS_Subset, FS_CardinalityType
  <2>3. CASE \A c \in Conns : pc[c] \notin OverLimitPC
    BY <2>2, <2>3, CountedFinite, Bounds DEF MainInv
  <2>4. ASSUME NEW c \in Conns, pc[c] \in OverLimitPC PROVE Cardinality(Open) < MAX_CLIENTS
    <3>1. c \in Counted /\ c \notin Open
      BY <2>4 DEF Counted, Open, OverLimitPC, HandlerPC, ReturnedPC
    <3>2. Cardinality(Open) # Cardinality(Counted)
      BY <2>1, <3>1, CountedFinite, FS_Subset
    <3> QED BY <2>2, <3>2, CountedFinite, Bounds DEF MainInv
  <2> QED BY <2>3, <2>4
<1> QED
  BY <1>1, MainAlways, PTL

-----------------------------------------------------------------------------
(* Who is let in.                                                          *)

TurnedAway == {c \in Conns : pc[c] \in {"refuse", "uncount", "refused"}}

FirstInv == TurnedAway # {} => Cardinality(Open) = MAX_CLIENTS - 1

LEMMA OpenFinite == IsFiniteSet(Open) /\ Cardinality(Open) \in Nat
BY Bounds, FS_Subset, FS_CardinalityType DEF Open

(* While main() judges c, client_num is one more than it has let in.       *)
LEMMA JudgedAgainstOpen ==
  ASSUME Types, MainInv, NEW c \in Conns, pc[c] = "limit"
  PROVE  client_num = Cardinality(Open) + 1
<1>1. c \notin Open
  BY DEF Open, HandlerPC, ReturnedPC
<1>2. \A d \in Conns : pc[d] \in S!MainPC => d = c
  BY DEF MainInv, S!MainPC
<1>3. Counted = Open \cup {c}
  <2>1. Open \cup {c} \subseteq Counted
    BY DEF Open, Counted, HandlerPC, ReturnedPC
  <2>2. ASSUME NEW d \in Counted, d # c PROVE d \in Open
    <3>1. pc[d] \notin S!MainPC
      BY <1>2, <2>2 DEF Counted
    <3> QED BY <2>2, <3>1 DEF Types, PC, Open, Counted, S!MainPC, HandlerPC, ReturnedPC
  <2> QED BY <2>1, <2>2
<1> QED
  BY <1>1, <1>3, OpenFinite, FS_AddElement DEF MainInv

LEMMA FirstStep == Types /\ MainInv /\ FirstInv /\ [Next]_vars => FirstInv'
<1> SUFFICES ASSUME Types, MainInv, FirstInv, [Next]_vars PROVE FirstInv'
  OBVIOUS
<1>0. pc \in [Conns -> PC]
  BY DEF Types
<1>1. CASE Open' = Open /\ TurnedAway' = TurnedAway
  BY <1>1 DEF FirstInv
<1>2. ASSUME NEW c \in Conns, MainStep(c) PROVE FirstInv'
  <2>1. CASE S!CheckLimit(c)
    <3>1. /\ pc[c] = "limit" /\ c \notin Open /\ c \notin TurnedAway
          /\ client_num = Cardinality(Open) + 1
      BY <2>1, JudgedAgainstOpen
      DEF S!CheckLimit, S!Goto, Open, TurnedAway, HandlerPC, ReturnedPC
    <3>2. CASE client_num >= MAX_CLIENTS
      <4>1. pc' = [pc EXCEPT ![c] = "refuse"]
        BY <2>1, <3>2 DEF S!CheckLimit, S!Goto
      <4>2. Open' = Open
        BY <1>0, <3>1, <4>1 DEF Open, HandlerPC, ReturnedPC
      <4>3. Cardinality(Open) = MAX_CLIENTS - 1
        BY <3>1, <3>2, Bounds, OpenFinite DEF MainInv
      <4> QED BY <4>2, <4>3 DEF FirstInv
    <3>3. CASE ~(client_num >= MAX_CLIENTS)
      <4>1. pc' = [pc EXCEPT ![c] = "spawn"]
        BY <2>1, <3>3 DEF S!CheckLimit, S!Goto
      <4>2. TurnedAway' = TurnedAway
        BY <1>0, <3>1, <4>1 DEF TurnedAway
      <4>3. TurnedAway = {}
        <5>1. Cardinality(Open) # MAX_CLIENTS - 1
          BY <3>1, <3>3, Bounds, OpenFinite
        <5> QED BY <5>1 DEF FirstInv
      <4> QED BY <4>2, <4>3 DEF FirstInv
    <3> QED BY <3>2, <3>3
  <2>2. CASE ~S!CheckLimit(c)
    <3>1. Open' = Open /\ TurnedAway' = TurnedAway
      BY <1>0, <1>2, <2>2
      DEF MainStep, S!MainStep, Accept, S!Accept, S!CountClient, S!Refuse, S!Uncount, S!Spawn,
          S!Goto, Open, TurnedAway, HandlerPC, ReturnedPC
    <3> QED BY <1>1, <3>1
  <2> QED BY <2>1, <2>2
<1>3. ASSUME NEW c \in Conns, HandlerStep(c) PROVE Open' = Open /\ TurnedAway' = TurnedAway
  BY <1>3, HandlerFrame DEF Open, TurnedAway, HandlerPC, ReturnedPC
<1>4. ASSUME UNCHANGED pc PROVE Open' = Open /\ TurnedAway' = TurnedAway
  BY <1>4 DEF Open, TurnedAway
<1>5. MainFails => UNCHANGED pc
  BY DEF MainFails, S!AcceptFails, S!SpawnFails, S!ProcessEnds
<1>6. \A c \in Conns : PeerLeaves(c, "fin") \/ PeerLeaves(c, "rst") => UNCHANGED pc
  BY DEF PeerLeaves
<1>7. UNCHANGED vars => UNCHANGED pc
  BY DEF vars
<1> QED
  BY <1>1, <1>2, <1>3, <1>4, <1>5, <1>6, <1>7 DEF Next

(* Nobody is refused before MAX_CLIENTS - 1 connections have been let in,  *)
(* and nobody is let in after one has been refused.                        *)
THEOREM FirstComersOnlyHolds == Spec => []FirstComersOnly
<1>1. Init => FirstInv
  BY DEF Init, S!Init, FirstInv, TurnedAway
<1>2. FirstInv => FirstComersOnly
  BY DEF FirstInv, FirstComersOnly, TurnedAway
<1> QED
  BY <1>1, <1>2, TypesAlways, MainAlways, FirstStep, PTL DEF Spec, SafetySpec

-----------------------------------------------------------------------------
(* The jobs.                                                               *)

Kept == {c \in Conns : pc[c] = "kept"}

(* The increments of work_num not taken back, those of the WORKs sent back *)
(* included.                                                               *)
Holders == InBranch \cup Kept

WorkInv ==
  ~workRaced => work_num = Cardinality(Holders) /\ Cardinality(Working) < MAX_WORK

LEMMA WorkSetsFinite ==
  /\ IsFiniteSet(Holders) /\ IsFiniteSet(InBranch) /\ IsFiniteSet(Kept) /\ IsFiniteSet(Working)
  /\ {Cardinality(Holders), Cardinality(InBranch), Cardinality(Kept), Cardinality(Working)} \subseteq Nat
<1>1. Holders \subseteq Conns /\ Working \subseteq Conns /\ InBranch \subseteq Conns /\ Kept \subseteq Conns
  BY DEF Holders, InBranch, Kept, Working
<1>2. IsFiniteSet(Holders) /\ IsFiniteSet(InBranch) /\ IsFiniteSet(Kept) /\ IsFiniteSet(Working)
  BY <1>1, Bounds, FS_Subset
<1> QED
  BY <1>2, FS_CardinalityType

LEMMA InitWork == Init => WorkInv
<1> SUFFICES ASSUME Init PROVE WorkInv
  OBVIOUS
<1>1. Holders = {} /\ Working = {} /\ work_num = 0
  BY DEF Init, S!Init, Holders, InBranch, Working, Kept
<1>2. Cardinality({}) = 0
  BY FS_EmptySet
<1> QED
  BY <1>1, <1>2, Bounds DEF WorkInv

(* Every step stores work_num + 1 as a handler comes to hold a slot,       *)
(* work_num - 1 as it lets go, lets a job start below the limit, or does   *)
(* nothing of the kind.                                                    *)
SameSlots == UNCHANGED <<work_num, workRaced>> /\ Holders' = Holders

WorkUnchanged == SameSlots /\ Working' = Working

WorkIn(c) ==
  /\ S!StoreWork(c, 1) /\ c \notin Holders /\ Holders' = Holders \cup {c}
  /\ Working' = Working

WorkOut(c) ==
  /\ S!StoreWork(c, -1) /\ c \in Holders /\ Holders' = Holders \ {c}
  /\ Working' = Working \ {c}

JobStarts(c) ==
  /\ SameSlots /\ work_num < MAX_WORK
  /\ c \in Holders \ Working /\ Working' = Working \cup {c}

LEMMA WorkSteps ==
  ASSUME Types, [Next]_vars
  PROVE  \/ WorkUnchanged
         \/ \E c \in Conns : WorkIn(c) \/ WorkOut(c) \/ JobStarts(c)
<1>0. pc \in [Conns -> PC] /\ work_num \in Int /\ MAX_WORK \in Nat
  BY Bounds DEF Types
<1> USE DEF S!Goto, S!counters, S!Load, local, WorkUnchanged, SameSlots, Holders, InBranch, Kept, Working
<1>1. ASSUME MainFails PROVE WorkUnchanged
  BY <1>1 DEF MainFails, S!AcceptFails, S!SpawnFails, S!ProcessEnds
<1>2. ASSUME NEW c \in Conns, MainStep(c) PROVE WorkUnchanged
  <2>1. CASE Accept(c) BY <1>0, <2>1 DEF Accept, S!Accept
  <2>2. CASE S!CountClient(c) BY <1>0, <2>2 DEF S!CountClient, S!StoreClient
  <2>3. CASE S!CheckLimit(c) BY <1>0, <2>3 DEF S!CheckLimit
  <2>4. CASE S!Refuse(c) BY <1>0, <2>4 DEF S!Refuse
  <2>5. CASE S!Uncount(c) BY <1>0, <2>5 DEF S!Uncount, S!StoreClient
  <2>6. CASE S!Spawn(c) BY <1>0, <2>6 DEF S!Spawn
  <2> QED BY <1>2, <2>1, <2>2, <2>3, <2>4, <2>5, <2>6 DEF MainStep, S!MainStep
<1>3. ASSUME NEW c \in Conns, HandlerStep(c)
      PROVE  WorkUnchanged \/ WorkIn(c) \/ WorkOut(c) \/ JobStarts(c)
  <2>1. CASE RecvOther(c) BY <1>0, <2>1 DEF RecvOther
  <2>2. CASE RecvUnknown(c) BY <1>0, <2>2 DEF RecvUnknown
  <2>3. CASE RecvWork(c) BY <1>0, <2>3 DEF RecvWork
  <2>4. CASE CountWork(c) BY <1>0, <2>4 DEF CountWork, S!CountWork, WorkIn
  <2>5. CASE CheckWork(c)
    <3>1. pc[c] = "w_limit" /\ UNCHANGED <<work_num, workRaced>>
      BY <2>5 DEF CheckWork
    <3>2. CASE pc' = [pc EXCEPT ![c] = "w_echo"]
      BY <1>0, <3>1, <3>2
    <3>3. ASSUME NEW to \in {"search", "stuck"}, pc' = [pc EXCEPT ![c] = to], work_num < MAX_WORK
          PROVE  JobStarts(c)
      BY <1>0, <3>1, <3>3 DEF JobStarts
    <3>4. work_num >= MAX_WORK \/ work_num < MAX_WORK
      BY <1>0
    <3>5. \/ pc' = [pc EXCEPT ![c] = "w_echo"]
          \/ work_num < MAX_WORK /\ \E to \in {"search", "stuck"} : pc' = [pc EXCEPT ![c] = to]
      BY <2>5, <3>4 DEF CheckWork
    <3> QED BY <3>2, <3>3, <3>5
  <2>6. CASE Echo(c) BY <1>0, <2>6 DEF Echo
  <2>7. CASE FindSolution(c) BY <1>0, <2>7 DEF FindSolution, S!FindSolution
  <2>8. CASE UncountWork(c) BY <1>0, <2>8 DEF UncountWork, S!UncountWork, WorkOut
  <2>9. CASE WriteReply(c) BY <1>0, <2>9 DEF WriteReply
  <2>10. CASE IOFails(c) BY <2>10 DEF IOFails, S!ProcessEnds
  <2> QED BY <1>3, <2>1, <2>2, <2>3, <2>4, <2>5, <2>6, <2>7, <2>8, <2>9, <2>10 DEF HandlerStep, Recv, HandlerRuns
<1>4. ASSUME NEW c \in Conns, PeerLeaves(c, "fin") \/ PeerLeaves(c, "rst") PROVE WorkUnchanged
  BY <1>4 DEF PeerLeaves
<1>5. CASE UNCHANGED vars
  BY <1>5 DEF vars
<1> QED
  BY <1>1, <1>2, <1>3, <1>4, <1>5 DEF Next

LEMMA WorkInvStep == Types /\ WorkInv /\ [Next]_vars => WorkInv'
<1> SUFFICES ASSUME Types, WorkInv, [Next]_vars, ~workRaced'
             PROVE  work_num' = Cardinality(Holders') /\ Cardinality(Working') < MAX_WORK
  BY DEF WorkInv
<1>0. MAX_WORK \in Nat /\ work_num \in Int
  BY Bounds DEF Types
<1>1. CASE WorkUnchanged
  BY <1>1 DEF WorkUnchanged, SameSlots, WorkInv
<1>2. ASSUME NEW c \in Conns, WorkIn(c)
      PROVE  work_num' = Cardinality(Holders') /\ Cardinality(Working') < MAX_WORK
  <2>1. work_num' = work_num + 1 /\ ~workRaced
    BY <1>2 DEF WorkIn, S!StoreWork, Types
  <2>2. Cardinality(Holders') = Cardinality(Holders) + 1
    BY <1>2, WorkSetsFinite, FS_AddElement DEF WorkIn
  <2> QED BY <1>2, <2>1, <2>2 DEF WorkIn, WorkInv
<1>3. ASSUME NEW c \in Conns, WorkOut(c)
      PROVE  work_num' = Cardinality(Holders') /\ Cardinality(Working') < MAX_WORK
  <2>1. work_num' = work_num - 1 /\ ~workRaced
    BY <1>3 DEF WorkOut, S!StoreWork, Types
  <2>2. Cardinality(Holders') = Cardinality(Holders) - 1
    BY <1>3, WorkSetsFinite, FS_RemoveElement DEF WorkOut
  <2>3. Cardinality(Working') <= Cardinality(Working) /\ Cardinality(Working') \in Nat
    <3>1. Working' \subseteq Working
      BY <1>3 DEF WorkOut
    <3> QED BY <3>1, WorkSetsFinite, FS_Subset, FS_CardinalityType
  <2>4. Cardinality(Working') < MAX_WORK
    BY <1>0, <2>1, <2>3, WorkSetsFinite DEF WorkInv
  <2> QED BY <2>1, <2>2, <2>4 DEF WorkInv
<1>4. ASSUME NEW c \in Conns, JobStarts(c)
      PROVE  work_num' = Cardinality(Holders') /\ Cardinality(Working') < MAX_WORK
  <2>1. work_num' = Cardinality(Holders') /\ Cardinality(Holders) < MAX_WORK
    BY <1>4 DEF JobStarts, SameSlots, WorkInv
  <2>2. Working' \subseteq Holders
    BY <1>4 DEF JobStarts, Holders, InBranch
  <2>3. Cardinality(Working') \in Nat /\ Cardinality(Working') <= Cardinality(Holders)
    BY <2>2, WorkSetsFinite, FS_Subset, FS_CardinalityType
  <2> QED BY <1>0, <2>1, <2>3, WorkSetsFinite
<1> QED
  BY <1>1, <1>2, <1>3, <1>4, WorkSteps

(* Until an update of work_num is lost it counts the jobs in the branch    *)
(* and every WORK ever sent back, and fewer than MAX_WORK jobs run.        *)
THEOREM OneShotWorkAccountingHolds == Spec => []WorkAccounting
<1>1. WorkInv => WorkAccounting
  <2>1. InBranch \cap Kept = {}
    BY DEF InBranch, Kept, Working
  <2>2. Cardinality(Holders) = Cardinality(InBranch) + Cardinality(Kept) - Cardinality(InBranch \cap Kept)
    BY WorkSetsFinite, FS_Union DEF Holders
  <2>3. Cardinality(Holders) = Cardinality(InBranch) + Cardinality(Kept)
    <3>1. Cardinality(InBranch \cap Kept) = 0
      BY <2>1, FS_EmptySet
    <3> QED BY <2>2, <3>1, WorkSetsFinite
  <2> QED BY <2>3 DEF WorkInv, WorkAccounting, Kept
<1>2. Spec => []WorkInv
  BY TypesAlways, InitWork, WorkInvStep, PTL DEF Spec, SafetySpec
<1> QED
  BY <1>1, <1>2, PTL

=============================================================================
