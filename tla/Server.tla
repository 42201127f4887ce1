------------------------------- MODULE Server -------------------------------
(***************************************************************************)
(* The threads of server2.c: the accept loop of main() and one detached    *)
(* work_function() thread per admitted connection, sharing the two plain   *)
(* int counters client_num and work_num.                                   *)
(*                                                                         *)
(* Nothing locks the counters, so `x++` and `x--` are a load and a store.  *)
(* An action ends at each access of a shared counter; everything a thread  *)
(* does in between touches only its own connection and is part of the      *)
(* action that precedes or follows it.  pc[c] is the control point of the  *)
(* thread that works for connection c: main() until the handler has been   *)
(* spawned, the handler from then on.                                      *)
(***************************************************************************)
EXTENDS Integers, FiniteSets

CONSTANTS
  Conns,        (* the connections clients may open, each used once        *)
  MAX_CLIENTS,  (* 110 in server.h                                         *)
  MAX_WORK,     (* 12 in server.h                                          *)
  MaxChunks     (* bound: how many chunks of data one client ever sends    *)

ASSUME ServerAssumption ==
  /\ IsFiniteSet(Conns)
  /\ MAX_CLIENTS \in Nat \ {0}
  /\ MAX_WORK \in Nat \ {0}
  /\ MaxChunks \in Nat

VARIABLES
  up,           (* FALSE once the process has exited or was killed         *)
  pc,           (* control point, per connection                           *)
  reg,          (* the value a thread loaded for its pending ++ or --      *)
  client_num,   (* the shared counters                                     *)
  work_num,
  peer,         (* the remote end: "up", closed ("fin") or reset ("rst")   *)
  left,         (* chunks the client may still send                        *)
  clientRaced,  (* auxiliary: a store to client_num overwrote an update    *)
  workRaced     (* auxiliary: a store to work_num overwrote an update      *)

vars == <<up, pc, reg, client_num, work_num, peer, left, clientRaced, workRaced>>

-----------------------------------------------------------------------------
(* Control points.                                                         *)

(* main() has accepted the connection and not yet disposed of it.          *)
MainPC == {"counting", "limit", "refuse", "uncount", "spawn"}

(* The handler holds an increment of work_num it has not given back ...    *)
WorkPC == {"w_limit", "w_reject", "w_undo", "w_undo_exit", "search", "stuck", "w_dec"}

(* ... and of these, the ones that passed the check and run work().        *)
AdmittedPC == {"search", "stuck", "w_dec"}

(* The thread of the connection exists and its socket is open.             *)
HandlerPC == {"read", "write", "w_inc"} \cup WorkPC

ClosedPC == {"refused", "bye", "gone", "leaked"}

PC == {"idle"} \cup MainPC \cup HandlerPC \cup ClosedPC

Connected(c) == pc[c] \in MainPC \cup HandlerPC

MainIdle == \A c \in Conns : pc[c] \notin MainPC

-----------------------------------------------------------------------------

Goto(c, from, to) == /\ up
                     /\ pc[c] = from
                     /\ pc' = [pc EXCEPT ![c] = to]

Load(c, counter) == reg' = [reg EXCEPT ![c] = counter]

(* The second half of client_num++ or client_num--.                        *)
StoreClient(c, delta) ==
  /\ client_num' = reg[c] + delta
  /\ clientRaced' = (clientRaced \/ client_num # reg[c])
  /\ reg' = [reg EXCEPT ![c] = 0]
  /\ UNCHANGED <<up, work_num, workRaced, peer, left>>

(* The second half of work_num++ or work_num--.                            *)
StoreWork(c, delta) ==
  /\ work_num' = reg[c] + delta
  /\ workRaced' = (workRaced \/ work_num # reg[c])
  /\ reg' = [reg EXCEPT ![c] = 0]
  /\ UNCHANGED <<up, client_num, clientRaced, peer, left>>

counters == <<client_num, work_num, clientRaced, workRaced>>

(* exit(EXIT_FAILURE) in main(), or SIGPIPE: every thread stops.           *)
ProcessEnds ==
  /\ up' = FALSE
  /\ UNCHANGED <<pc, reg, counters, peer, left>>

-----------------------------------------------------------------------------
(* main(): the accept loop.                                                *)

(* A connection is accepted and client_num loaded for client_num++.        *)
Accept(c) ==
  /\ MainIdle
  /\ Goto(c, "idle", "counting")
  /\ Load(c, client_num)
  /\ UNCHANGED <<up, counters, peer, left>>

(* accept() returned a negative descriptor: main() exits.                  *)
AcceptFails == up /\ MainIdle /\ ProcessEnds

CountClient(c) == Goto(c, "counting", "limit") /\ StoreClient(c, 1)

(* Mutant: the limit itself is let in.                                     *)
CheckLimitOffByOne(c) ==
  /\ Goto(c, "limit", IF client_num > MAX_CLIENTS THEN "refuse" ELSE "spawn")
  /\ UNCHANGED <<up, reg, counters, peer, left>>

(* Mutant: main() waits for a slot instead of refusing.                    *)
CheckLimitWaits(c) ==
  /\ client_num < MAX_CLIENTS
  /\ Goto(c, "limit", "spawn")
  /\ UNCHANGED <<up, reg, counters, peer, left>>

CheckLimit(c) ==
  /\ Goto(c, "limit", IF client_num >= MAX_CLIENTS THEN "refuse" ELSE "spawn")
  /\ UNCHANGED <<up, reg, counters, peer, left>>

(* Mutant: `continue` without the decrement.                               *)
RefuseStillCounted(c) ==
  /\ Goto(c, "refuse", "refused")
  /\ UNCHANGED <<up, reg, counters, peer, left>>

(* The socket is closed before client_num is loaded for client_num--.      *)
Refuse(c) ==
  /\ Goto(c, "refuse", "uncount")
  /\ Load(c, client_num)
  /\ UNCHANGED <<up, counters, peer, left>>

Uncount(c) == Goto(c, "uncount", "refused") /\ StoreClient(c, -1)

(* pthread_create() and pthread_detach().                                  *)
Spawn(c) ==
  /\ Goto(c, "spawn", "read")
  /\ UNCHANGED <<up, reg, counters, peer, left>>

SpawnFails(c) == up /\ pc[c] = "spawn" /\ ProcessEnds

-----------------------------------------------------------------------------
(* work_function(): reading.                                               *)

(* Mutant: the empty read at end of file is taken for a chunk.             *)
RecvOtherAtEof(c) ==
  /\ Goto(c, "read", "write")
  /\ peer[c] # "rst"
  /\ left' = [left EXCEPT ![c] = @ - 1]
  /\ UNCHANGED <<up, reg, counters, peer>>

(* read() returned a chunk whose branch writes a reply and touches no      *)
(* counter: every branch but WORK.                                         *)
RecvOther(c) ==
  /\ Goto(c, "read", "write")
  /\ peer[c] # "rst"
  /\ left[c] > 0
  /\ left' = [left EXCEPT ![c] = @ - 1]
  /\ UNCHANGED <<up, reg, counters, peer>>

(* read() returned a WORK chunk; work_num is loaded for work_num++.        *)
RecvWork(c) ==
  /\ Goto(c, "read", "w_inc")
  /\ peer[c] # "rst"
  /\ left[c] > 0
  /\ left' = [left EXCEPT ![c] = @ - 1]
  /\ Load(c, work_num)
  /\ UNCHANGED <<up, counters, peer>>

(* Mutant: the handler ends as on an I/O error, without client_num--.      *)
HangUpStillCounted(c) ==
  /\ Goto(c, "read", "gone")
  /\ peer[c] # "up"
  /\ UNCHANGED <<up, reg, counters, peer, left>>

(* Mutant: end of file goes unnoticed, the loop answers the empty buffer.  *)
HangUpUnnoticed(c) ==
  /\ Goto(c, "read", "write")
  /\ peer[c] # "up"
  /\ UNCHANGED <<up, reg, counters, peer, left>>

(* buffer[0] == '\0': the socket is closed, then client_num loaded for     *)
(* client_num--.  That is end of file ...                                  *)
HangUp(c) ==
  /\ Goto(c, "read", "bye")
  /\ peer[c] # "up"
  /\ Load(c, client_num)
  /\ UNCHANGED <<up, counters, peer, left>>

(* ... and also a chunk that begins with a NUL byte.                       *)
RecvNul(c) ==
  /\ Goto(c, "read", "bye")
  /\ peer[c] # "rst"
  /\ left[c] > 0
  /\ left' = [left EXCEPT ![c] = @ - 1]
  /\ Load(c, client_num)
  /\ UNCHANGED <<up, counters, peer>>

Forget(c) == Goto(c, "bye", "gone") /\ StoreClient(c, -1)

(* read() failed: close and exit, client_num stays as it is.               *)
ReadError(c) ==
  /\ peer[c] = "rst"
  /\ Goto(c, "read", "leaked")
  /\ UNCHANGED <<up, reg, counters, peer, left>>

-----------------------------------------------------------------------------
(* work_function(): the WORK branch.                                       *)

CountWork(c) == Goto(c, "w_inc", "w_limit") /\ StoreWork(c, 1)

(* Mutant: one job more than the limit.                                    *)
CheckWorkOffByOne(c) ==
  /\ \E wellFormed, solvable \in BOOLEAN :
       Goto(c, "w_limit", IF work_num > MAX_WORK \/ ~wellFormed THEN "w_reject"
                          ELSE IF solvable THEN "search" ELSE "stuck")
  /\ UNCHANGED <<up, reg, counters, peer, left>>

(* A second read of work_num decides; a WORK of the wrong length is        *)
(* rejected whatever the counter says.  A job whose target no nonce meets  *)
(* never leaves work() ("stuck").                                          *)
CheckWork(c) ==
  /\ \E wellFormed, solvable \in BOOLEAN :
       Goto(c, "w_limit", IF work_num >= MAX_WORK \/ ~wellFormed THEN "w_reject"
                          ELSE IF solvable THEN "search" ELSE "stuck")
  /\ UNCHANGED <<up, reg, counters, peer, left>>

(* Mutant: the failed write is looked at first, as everywhere else.        *)
RejectWorkExitsEarly(c) ==
  /\ IF peer[c] = "rst" THEN Goto(c, "w_reject", "leaked") /\ UNCHANGED reg
                        ELSE Goto(c, "w_reject", "w_undo") /\ Load(c, work_num)
  /\ UNCHANGED <<up, counters, peer, left>>

(* The error reply is written before work_num is loaded for work_num--;    *)
(* whether write() failed is looked at after the decrement.                *)
RejectWork(c) ==
  /\ IF peer[c] = "rst" THEN Goto(c, "w_reject", "w_undo_exit")
                        ELSE Goto(c, "w_reject", "w_undo")
  /\ Load(c, work_num)
  /\ UNCHANGED <<up, counters, peer, left>>

UncountRejected(c) ==
  /\ Goto(c, "w_undo", "read") \/ Goto(c, "w_undo_exit", "leaked")
  /\ StoreWork(c, -1)

(* work() found a nonce and returned; work_num is loaded for work_num--.   *)
FindSolution(c) ==
  /\ Goto(c, "search", "w_dec")
  /\ Load(c, work_num)
  /\ UNCHANGED <<up, counters, peer, left>>

UncountWork(c) == Goto(c, "w_dec", "write") /\ StoreWork(c, -1)

-----------------------------------------------------------------------------
(* work_function(): writing the reply of any branch.                       *)

(* Mutant: a failed write() is tried again.                                *)
WriteReplyRetries(c) ==
  /\ Goto(c, "write", IF peer[c] = "rst" THEN "write" ELSE "read")
  /\ UNCHANGED <<up, reg, counters, peer, left>>

(* On a failed write() the handler closes and exits without client_num--.  *)
WriteReply(c) ==
  /\ Goto(c, "write", IF peer[c] = "rst" THEN "leaked" ELSE "read")
  /\ UNCHANGED <<up, reg, counters, peer, left>>

(* SIGPIPE is not handled: a write to a reset connection may kill all.     *)
SigPipe(c) ==
  /\ up
  /\ pc[c] \in {"write", "w_reject"}
  /\ peer[c] = "rst"
  /\ ProcessEnds

-----------------------------------------------------------------------------
(* The remote clients.                                                     *)

PeerCloses(c) ==
  /\ up /\ Connected(c) /\ peer[c] = "up"
  /\ peer' = [peer EXCEPT ![c] = "fin"]
  /\ UNCHANGED <<up, pc, reg, counters, left>>

PeerResets(c) ==
  /\ up /\ Connected(c) /\ peer[c] # "rst"
  /\ peer' = [peer EXCEPT ![c] = "rst"]
  /\ UNCHANGED <<up, pc, reg, counters, left>>

-----------------------------------------------------------------------------

Init ==
  /\ up = TRUE
  /\ pc = [c \in Conns |-> "idle"]
  /\ reg = [c \in Conns |-> 0]
  /\ client_num = 0
  /\ work_num = 0
  /\ peer = [c \in Conns |-> "up"]
  /\ left = [c \in Conns |-> MaxChunks]
  /\ clientRaced = FALSE
  /\ workRaced = FALSE

(* What main() does about connection c once it has been accepted.          *)
MainStep(c) ==
  \/ CountClient(c) \/ CheckLimit(c) \/ Refuse(c) \/ Uncount(c)
  \/ Spawn(c)

(* What a handler does without waiting for its client to send.             *)
HandlerStep(c) ==
  \/ HangUp(c) \/ Forget(c) \/ ReadError(c)
  \/ CountWork(c) \/ CheckWork(c) \/ RejectWork(c) \/ UncountRejected(c)
  \/ FindSolution(c) \/ UncountWork(c)
  \/ WriteReply(c)

(* The two events at which the process gives up.                           *)
ProcessStep(c) == SpawnFails(c) \/ SigPipe(c)

ClientStep(c) == PeerCloses(c) \/ PeerResets(c)

Next ==
  \/ AcceptFails
  \/ \E c \in Conns :
       \/ Accept(c) \/ MainStep(c)
       \/ RecvOther(c) \/ RecvWork(c) \/ RecvNul(c) \/ HandlerStep(c)
       \/ ProcessStep(c) \/ ClientStep(c)

(* The scheduler runs every thread: main() once it has a connection to     *)
(* dispose of, a handler whenever it is not waiting for data.  Nothing     *)
(* obliges a client to connect, send or leave, or the process to die.      *)
Fairness == \A c \in Conns : WF_vars(MainStep(c)) /\ WF_vars(HandlerStep(c))

SafetySpec == Init /\ [][Next]_vars

Spec == SafetySpec /\ Fairness

-----------------------------------------------------------------------------
(* Properties.                                                             *)

(* The increments of client_num stored and not yet taken back.             *)
Counted == {c \in Conns : pc[c] \notin {"idle", "counting", "refused", "gone"}}

(* The increments of work_num stored and not yet taken back.               *)
Holders == {c \in Conns : pc[c] \in WorkPC}

(* Connections main() has let in and whose handler has not ended.          *)
Served == {c \in Conns : pc[c] \in {"spawn", "bye"} \cup HandlerPC}

(* Connections whose handler is between the check of work_num and the      *)
(* decrement that follows work().                                          *)
Working == {c \in Conns : pc[c] \in AdmittedPC}

TypeOK ==
  /\ up \in BOOLEAN
  /\ pc \in [Conns -> PC]
  /\ reg \in [Conns -> Int]
  /\ client_num \in Int
  /\ work_num \in Int
  /\ peer \in [Conns -> {"up", "fin", "rst"}]
  /\ left \in [Conns -> 0 .. MaxChunks]
  /\ clientRaced \in BOOLEAN
  /\ workRaced \in BOOLEAN

(* Only main() increments client_num, and it takes back every increment    *)
(* that reaches the limit before it accepts again.  So however the         *)
(* unlocked decrements of the handlers interleave, a lost update never     *)
(* lifts client_num above MAX_CLIENTS.                                     *)
ClientCeiling == client_num <= MAX_CLIENTS

(* Every way through main() and work_function() pairs client_num++ with at *)
(* most one client_num--: as long as no update has been lost, client_num   *)
(* is the number of connections counted and not released, those that ended *)
(* on an I/O error and were never released included.                       *)
ClientAccounting == ~clientRaced => client_num = Cardinality(Counted)

(* Every way through the WORK branch, rejections and failed writes         *)
(* included, gives back the work_num++ it began with: as long as no update *)
(* has been lost, work_num counts the jobs in the branch.                  *)
WorkAccounting == ~workRaced => work_num = Cardinality(Holders)

(* The comment of the check in main(), read as what it is for: sockets are *)
(* closed at the limit, so fewer than MAX_CLIENTS connections are ever     *)
(* served.  A decrement that overwrites main()'s increment breaks it.      *)
ClientLimit == Cardinality(Served) < MAX_CLIENTS

(* The same comment, the other way: a socket is closed because the limit   *)
(* has been reached, so MAX_CLIENTS - 1 connections are being served then. *)
(* Handlers that end on an I/O error keep their slot and break it, without *)
(* any update being lost.                                                  *)
RefusedOnlyWhenFull ==
  [][\A c \in Conns : pc[c] = "limit" /\ pc'[c] = "refuse" /\ ~clientRaced
                       => Cardinality(Served) >= MAX_CLIENTS - 1]_vars

(* Both limits, as promises to whoever counts on them: until an update is  *)
(* lost, at most MAX_CLIENTS - 1 connections are served and at most        *)
(* MAX_WORK - 1 jobs run, each one off the constant's name.                *)
ClientSlots == INSTANCE SlotLimit
  WITH Users <- Conns, Limit <- MAX_CLIENTS - 1,
       admitted <- Served, corrupt <- clientRaced

WorkSlots == INSTANCE SlotLimit
  WITH Users <- Conns, Limit <- MAX_WORK - 1,
       admitted <- Working, corrupt <- workRaced

ServesWithinLimit == ClientSlots!Spec

WorksWithinLimit == WorkSlots!Spec

(* A client slot is lost for good only to a connection that was reset: if  *)
(* no peer ever resets, a server with no connection left has client_num    *)
(* back at zero (until an update is lost).                                 *)
OrderlyClientsLeaveNoTrace ==
  (/\ ~clientRaced
   /\ \A c \in Conns : pc[c] \in {"idle", "refused", "gone", "leaked"} /\ peer[c] # "rst")
     => client_num = 0

(* Every chunk that is read gets its reply, or its connection or the whole *)
(* server ends first; the one exception is a WORK whose target no nonce    *)
(* meets, which keeps its handler for ever.                                *)
EveryChunkAnswered ==
  \A c \in Conns :
    pc[c] \in HandlerPC \ {"read", "stuck"} ~> pc[c] \in {"read", "leaked", "stuck"} \/ ~up

(* A client that closes its end is noticed: its handler reads what was     *)
(* sent, then ends (unless the server stops or the handler is stuck).      *)
DepartureNoticed ==
  \A c \in Conns :
    peer[c] # "up" ~> pc[c] \in {"refused", "gone", "leaked", "stuck"} \/ ~up

(* main() disposes of every connection it accepts and returns to accept(). *)
MainReturns == ~MainIdle ~> MainIdle \/ ~up

=============================================================================
