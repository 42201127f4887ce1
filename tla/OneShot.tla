------------------------------- MODULE OneShot -------------------------------
(***************************************************************************)
(* server3.c, the variant of server2.c whose handler reads one message,    *)
(* answers it and returns, without close() and without client_num--; any   *)
(* failed read() or write() is an exit() of the process.  Its accept loop  *)
(* is line for line that of server2.c, so main() here is Server's.         *)
(***************************************************************************)
EXTENDS Integers, FiniteSets

CONSTANTS
  Conns,         (* connections, numbered in the order accept() gives them *)
  MAX_CLIENTS, MAX_WORK

VARIABLES up, pc, reg, client_num, work_num, peer, left, clientRaced, workRaced

vars == <<up, pc, reg, client_num, work_num, peer, left, clientRaced, workRaced>>

(* One message is all the handler ever reads of a connection.              *)
S == INSTANCE Server WITH MaxChunks <- 1

ASSUME OneShotAssumption ==
  /\ Conns \subseteq Nat /\ IsFiniteSet(Conns)
  /\ MAX_CLIENTS \in Nat \ {0}
  /\ MAX_WORK \in Nat \ {0}

-----------------------------------------------------------------------------
(* Control points beside those of Server's main(): the handler has         *)
(* returned, having given its job slot back ("ended") or not ("kept").     *)

HandlerPC == {"read", "write", "w_inc", "w_limit", "w_echo", "search", "stuck", "w_dec"}

ReturnedPC == {"ended", "kept"}

PC == {"idle", "refused"} \cup S!MainPC \cup HandlerPC \cup ReturnedPC

local == <<up, reg, client_num, work_num, clientRaced, workRaced, peer, left>>

Connected(c) == pc[c] \in S!MainPC \cup HandlerPC \cup ReturnedPC

-----------------------------------------------------------------------------
(* work_function().                                                        *)

(* The one message is read; its branch writes a reply.                     *)
RecvOther(c) ==
  /\ S!Goto(c, "read", "write")
  /\ peer[c] # "rst" /\ left[c] > 0
  /\ left' = [left EXCEPT ![c] = 0]
  /\ UNCHANGED <<up, reg, client_num, work_num, clientRaced, workRaced, peer>>

(* No branch for it: a message that is no command, ABRT included, or the   *)
(* empty read of a client that has gone.                                   *)
RecvUnknown(c) ==
  /\ S!Goto(c, "read", "ended")
  /\ peer[c] # "rst" /\ (left[c] > 0 \/ peer[c] = "fin")
  /\ left' = [left EXCEPT ![c] = 0]
  /\ UNCHANGED <<up, reg, client_num, work_num, clientRaced, workRaced, peer>>

RecvWork(c) ==
  /\ S!Goto(c, "read", "w_inc")
  /\ peer[c] # "rst" /\ left[c] > 0
  /\ left' = [left EXCEPT ![c] = 0]
  /\ S!Load(c, work_num)
  /\ UNCHANGED <<up, client_num, work_num, clientRaced, workRaced, peer>>

CountWork(c) == S!CountWork(c)

(* The length is not looked at.                                            *)
CheckWork(c) ==
  /\ \E solvable \in BOOLEAN :
       S!Goto(c, "w_limit", IF work_num >= MAX_WORK THEN "w_echo"
                            ELSE IF solvable THEN "search" ELSE "stuck")
  /\ UNCHANGED local

(* A WORK over the limit is sent back as it came; work_num stays.          *)
Echo(c) ==
  /\ S!Goto(c, "w_echo", "kept")
  /\ peer[c] # "rst"
  /\ UNCHANGED local

FindSolution(c) == S!FindSolution(c)

(* Mutant: the slot is not given back after the job either.                *)
UncountWorkNever(c) ==
  /\ S!Goto(c, "w_dec", "write")
  /\ UNCHANGED local

UncountWork(c) == S!UncountWork(c)

(* The reply is written and the thread ends; the socket stays open.        *)
WriteReply(c) ==
  /\ S!Goto(c, "write", "ended")
  /\ peer[c] # "rst"
  /\ UNCHANGED local

(* Mutant: a failed call ends the handler alone.                           *)
IOFailsReturns(c) ==
  /\ \E at \in {"read", "write", "w_echo"} : S!Goto(c, at, "ended")
  /\ peer[c] = "rst"
  /\ UNCHANGED local

(* exit(1), or SIGPIPE.                                                    *)
IOFails(c) ==
  /\ up
  /\ pc[c] \in {"read", "write", "w_echo"}
  /\ peer[c] = "rst"
  /\ S!ProcessEnds

-----------------------------------------------------------------------------

PeerLeaves(c, how) ==
  /\ up /\ Connected(c)
  /\ how = "fin" => peer[c] = "up"
  /\ peer[c] # "rst"
  /\ peer' = [peer EXCEPT ![c] = how]
  /\ UNCHANGED <<up, pc, reg, client_num, work_num, clientRaced, workRaced, left>>

Accept(c) == S!Accept(c) /\ \A d \in Conns : pc[d] = "idle" => c <= d

(* Mutant: the limit itself is let in.                                     *)
MainStepOffByOne(c) ==
  \/ Accept(c) \/ S!CountClient(c) \/ S!CheckLimitOffByOne(c)
  \/ S!Refuse(c) \/ S!Uncount(c) \/ S!Spawn(c)

(* Mutant: the limit is met one connection early.                          *)
MainStepOneEarly(c) ==
  \/ Accept(c) \/ S!CountClient(c) \/ S!Refuse(c) \/ S!Uncount(c) \/ S!Spawn(c)
  \/ /\ S!Goto(c, "limit", IF client_num + 1 >= MAX_CLIENTS THEN "refuse" ELSE "spawn")
     /\ UNCHANGED local

(* Mutant: a refused connection stays counted.                             *)
MainStepStillCounting(c) ==
  \/ Accept(c) \/ S!CountClient(c) \/ S!CheckLimit(c)
  \/ S!RefuseStillCounted(c) \/ S!Spawn(c)

(* main() between accept() and accept().                                   *)
MainStep(c) == Accept(c) \/ S!MainStep(c)

MainFails == S!AcceptFails \/ \E c \in Conns : S!SpawnFails(c)

(* read() waits for the client, or returns what it sent.                   *)
Recv(c) == RecvOther(c) \/ RecvUnknown(c) \/ RecvWork(c)

(* What a handler does without waiting for its client to send.             *)
HandlerRuns(c) ==
  \/ CountWork(c) \/ CheckWork(c) \/ Echo(c) \/ FindSolution(c) \/ UncountWork(c)
  \/ WriteReply(c) \/ IOFails(c)

HandlerStep(c) == Recv(c) \/ HandlerRuns(c)

Init == S!Init

Next ==
  \/ MainFails
  \/ \E c \in Conns :
       MainStep(c) \/ HandlerStep(c) \/ PeerLeaves(c, "fin") \/ PeerLeaves(c, "rst")

(* The scheduler runs every thread, as Server's Fairness says.             *)
Fairness == \A c \in Conns : WF_vars(S!MainStep(c)) /\ WF_vars(HandlerRuns(c))

SafetySpec == Init /\ [][Next]_vars

Spec == SafetySpec /\ Fairness

-----------------------------------------------------------------------------
(* Properties.                                                             *)

(* Connections main() has let in, those whose handler has returned too:    *)
(* their sockets are open for good.                                        *)
Open == {c \in Conns : pc[c] \in {"spawn"} \cup HandlerPC \cup ReturnedPC}

Working == {c \in Conns : pc[c] \in {"search", "stuck", "w_dec"}}

InBranch == {c \in Conns : pc[c] \in {"w_limit", "w_echo"}} \cup Working

TypeOK ==
  /\ up \in BOOLEAN
  /\ pc \in [Conns -> PC]
  /\ reg \in [Conns -> Int]
  /\ client_num \in 0 .. MAX_CLIENTS
  /\ work_num \in Int
  /\ peer \in [Conns -> {"up", "fin", "rst"}]
  /\ left \in [Conns -> 0 .. 1]
  /\ clientRaced \in BOOLEAN /\ workRaced \in BOOLEAN

(* main() alone updates client_num, so no update of it is ever lost: the   *)
(* limit server2.c can miss holds here in every interleaving.              *)
OpenWithinLimit ==
  /\ ~clientRaced
  /\ Cardinality(Open) < MAX_CLIENTS

(* The limit is met exactly, once and for good: nobody is refused before   *)
(* MAX_CLIENTS - 1 connections have been let in, and once somebody has     *)
(* been refused nobody is let in, whichever handlers have returned and     *)
(* whichever clients have left.                                            *)
FirstComersOnly ==
  (\E c \in Conns : pc[c] \in {"refuse", "uncount", "refused"})
    => Cardinality(Open) = MAX_CLIENTS - 1

(* One client can take the server from all others, and always does: if it  *)
(* resets its connection once its command has been read and before it has  *)
(* been answered, the handler comes to a write() that fails, with the      *)
(* search for the job in between if there is one, and ends the process.    *)
(* Only a job that has no solution keeps it from getting there.            *)
ResetEndsServer ==
  \A c \in Conns :
    peer[c] = "rst" /\ pc[c] \in HandlerPC \ {"read"} ~> ~up \/ pc[c] = "stuck"

(* Until an update of work_num is lost it counts the jobs in the branch    *)
(* and every WORK ever sent back, and fewer than MAX_WORK jobs run at a    *)
(* time.                                                                   *)
WorkAccounting ==
  ~workRaced =>
    /\ work_num = Cardinality(InBranch) + Cardinality({c \in Conns : pc[c] = "kept"})
    /\ Cardinality(Working) < MAX_WORK

=============================================================================
