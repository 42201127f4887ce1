------------------------------ MODULE JobQueue ------------------------------
(***************************************************************************)
(* The job queue of server2.c: add_to_queue(), called by the handlers (the *)
(* call is commented out at present), and do_work(), the thread that takes *)
(* the jobs.  Both use head, curr and the nodes without a lock, so what    *)
(* add_to_list() and pop_head() do in one step in JobList is taken apart   *)
(* here into their reads and writes of what is shared.                     *)
(***************************************************************************)
EXTENDS JobList

CONSTANTS MaxJobs   (* bound: the calls of add_to_queue()                  *)

VARIABLES
  adding,   (* of a client's handler: where it is in add_to_queue(), with  *)
            (* the head it passed and its new node                         *)
  worker,   (* where do_work() is, the client it will answer, the job it   *)
            (* worked on and the head it popped                            *)
  added,    (* calls of add_to_queue() that added a job and returned       *)
  failed,   (* ... and those for which malloc() had nothing to give        *)
  answers,  (* the clients answered, each with the client whose job it was *)
  overlap   (* auxiliary: an addition has overlapped another, or a job of  *)
            (* the worker's                                                *)

queue == <<adding, worker, added, failed, answers, overlap>>
allVars == <<vars, queue>>

Idle == [at |-> "idle", head |-> NULL, node |-> NULL]

Adding == {f \in Fds : adding[f].at # "idle"}

Waiting == [at |-> "wait", client |-> NULL, job |-> NULL, head |-> NULL]

-----------------------------------------------------------------------------
(* add_to_queue() of the handler of client f.                              *)

(* The call begins; head is read for the argument.                         *)
Call(f) ==
  /\ adding[f].at = "idle"
  /\ added + failed + Cardinality(Adding) < MaxJobs
  /\ overlap' = (overlap \/ Adding # {} \/ worker.at # "wait")

(* The node is allocated.                                                  *)
BeginAdd(f, n) ==
  /\ Call(f)
  /\ Allocate(n, f)
  /\ heap' = New(n)
  /\ adding' = [adding EXCEPT ![f] =
                  [at |-> IF head = NULL THEN "curr" ELSE "prev", head |-> head, node |-> n]]
  /\ UNCHANGED <<head, worker, added, failed, answers>>

(* malloc() fails, here or in create_list(): NULL is returned for a node.  *)
NoMemory(f) ==
  /\ heap.ok /\ Call(f)
  /\ adding' = [adding EXCEPT ![f] = [at |-> "return", head |-> head, node |-> NULL]]
  /\ UNCHANGED <<vars, worker, added, failed, answers>>

To(f, at) == adding' = [adding EXCEPT ![f].at = at]

(* Mutant: curr is left at the first node.                                 *)
SetCurrOnce(f) ==
  /\ heap.ok /\ adding[f].at = "curr"
  /\ heap' = [heap EXCEPT !.curr = IF @ = NULL THEN adding[f].node ELSE @]
  /\ To(f, "return")
  /\ UNCHANGED <<head, fd, worker, added, failed, answers, overlap>>

(* *curr = ptr, in create_list() the only step.                            *)
SetCurr(f) ==
  /\ heap.ok /\ adding[f].at = "curr"
  /\ heap' = [heap EXCEPT !.curr = adding[f].node]
  /\ To(f, "return")
  /\ UNCHANGED <<head, fd, worker, added, failed, answers, overlap>>

(* ptr->prev = *curr.                                                      *)
SetPrev(f) ==
  /\ heap.ok /\ adding[f].at = "prev"
  /\ heap' = [heap EXCEPT !.prev[adding[f].node] = heap.curr]
  /\ To(f, "next")
  /\ UNCHANGED <<head, fd, worker, added, failed, answers, overlap>>

(* ( *curr)->next = ptr.                                                   *)
SetNext(f) ==
  /\ heap.ok /\ adding[f].at = "next"
  /\ heap' = IF heap.curr \in heap.alive
             THEN [heap EXCEPT !.next[heap.curr] = adding[f].node] ELSE Fault
  /\ To(f, "curr")
  /\ UNCHANGED <<head, fd, worker, added, failed, answers, overlap>>

(* head is what add_to_list() returns: the new node, or NULL.              *)
EndAdd(f) ==
  /\ heap.ok /\ adding[f].at = "return"
  /\ head' = adding[f].node
  /\ IF adding[f].node = NULL THEN failed' = failed + 1 /\ UNCHANGED added
     ELSE added' = added + 1 /\ UNCHANGED failed
  /\ adding' = [adding EXCEPT ![f] = Idle]
  /\ UNCHANGED <<heap, fd, worker, answers, overlap>>

-----------------------------------------------------------------------------
(* do_work(), which spins while head is NULL.                              *)

(* curr_client = curr->info.                                               *)
TakeClient ==
  /\ heap.ok /\ worker.at = "wait" /\ head # NULL
  /\ IF heap.curr \in heap.alive
     THEN /\ worker' = [worker EXCEPT !.at = "work", !.client = fd[heap.curr]]
          /\ UNCHANGED heap
     ELSE heap' = Fault /\ UNCHANGED worker
  /\ overlap' = (overlap \/ Adding # {})
  /\ UNCHANGED <<head, fd, adding, added, failed, answers>>

(* work() on the job of head, which is read again.                         *)
Work ==
  /\ heap.ok /\ worker.at = "work"
  /\ IF head \in heap.alive
     THEN /\ worker' = [worker EXCEPT !.at = "pop", !.job = head]
          /\ UNCHANGED heap
     ELSE heap' = Fault /\ UNCHANGED worker
  /\ UNCHANGED <<head, fd, adding, added, failed, answers, overlap>>

PopTo(p) == worker' = [worker EXCEPT !.at = "store", !.head = p]

(* Mutant: the last node may be popped.                                    *)
PopLast ==
  /\ heap.ok /\ worker.at = "pop"
  /\ \/ head = NULL /\ PopTo(NULL) /\ UNCHANGED heap
     \/ /\ head \in heap.alive
        /\ heap' = [heap EXCEPT !.alive = @ \ {head}]
        /\ PopTo(heap.next[head])
  /\ UNCHANGED <<head, fd, adding, added, failed, answers, overlap>>

(* pop_head(), as far as free(): its argument is head as it is by then,    *)
(* and NULL for NULL.                                                      *)
Pop ==
  /\ heap.ok /\ worker.at = "pop"
  /\ IF head = NULL THEN PopTo(NULL) /\ UNCHANGED heap
     ELSE IF head \in heap.alive /\ heap.next[head] \in heap.alive
     THEN /\ heap' = [heap EXCEPT !.prev[heap.next[head]] = NULL, !.alive = @ \ {head}]
          /\ PopTo(heap.next[head])
     ELSE heap' = Fault /\ UNCHANGED worker
  /\ UNCHANGED <<head, fd, adding, added, failed, answers, overlap>>

(* ... and its result becomes head; the reply is written.                  *)
Answer ==
  /\ heap.ok /\ worker.at = "store"
  /\ head' = worker.head
  /\ answers' = Append(answers, <<worker.client, fd[worker.job]>>)
  /\ worker' = Waiting
  /\ UNCHANGED <<heap, fd, adding, added, failed, overlap>>

QueueInit ==
  /\ Init /\ fd \in {[n \in Nodes |-> f] : f \in Fds}
  /\ adding = [f \in Fds |-> Idle]
  /\ worker = Waiting
  /\ added = 0 /\ failed = 0 /\ answers = <<>> /\ overlap = FALSE

QueueNext ==
  \/ \E f \in Fds :
       \/ \E n \in Nodes : BeginAdd(f, n)
       \/ NoMemory(f)
       \/ SetPrev(f) \/ SetNext(f) \/ SetCurr(f) \/ EndAdd(f)
  \/ TakeClient \/ Work \/ Pop \/ Answer

QueueSpec == QueueInit /\ [][QueueNext]_allVars

-----------------------------------------------------------------------------
(* Properties.                                                             *)

(* The jobs linked in by calls that have not returned.                     *)
LinkedIn == {f \in Fds : adding[f].at \in {"curr", "return"} /\ adding[f].node # NULL}

(* The worker never gets to the job added last: however the steps fall, it *)
(* has answered fewer jobs than have been linked in, and once there has    *)
(* been a job, head is never NULL again.  To get to the end it would have  *)
(* to pop a node without a next one, which ends the process.  Nothing but  *)
(* a failed malloc() helps it, which makes head NULL while it works: it    *)
(* answers one job more for each.                                          *)
NewestJobUnanswered ==
  [][/\ answers' # <<>> => Len(answers') < added' + Cardinality(LinkedIn') + failed'
     /\ head # NULL /\ head' = NULL => failed' > 0]_allVars

(* Only additions that overlap each other, or the worker's use of head and *)
(* curr, let it get through a job at all, or let it take the client of one *)
(* job for that of another.                                                *)
UndisturbedWorkerFails ==
  ~overlap =>
    /\ answers = <<>>
    /\ worker.at = "pop" => worker.client = fd[worker.job]

=============================================================================
