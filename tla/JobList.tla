------------------------------- MODULE JobList -------------------------------
(***************************************************************************)
(* The job list of work.c, pointer by pointer, under one caller that keeps *)
(* head and curr as server2.c does: what add_to_list() and pop_head()      *)
(* return becomes head, as in add_to_queue() and do_work(); curr is passed *)
(* by address; delete_from_list() is passed head by value.                 *)
(*                                                                         *)
(* A node is the address malloc() gave it, and free() makes the address    *)
(* available again.  Following a pointer that is NULL or whose node has    *)
(* been freed ends the run (ok is FALSE).                                  *)
(***************************************************************************)
EXTENDS Integers, FiniteSets, SequencesExt

CONSTANTS
  Nodes,   (* the addresses malloc() has to give                           *)
  Fds,     (* the descriptors of the clients jobs come from                *)
  NULL

ASSUME JobListAssumption == IsFiniteSet(Nodes) /\ IsFiniteSet(Fds) /\ NULL \notin Nodes

VARIABLES
  head,
  heap,    (* alive, next, prev, curr, and ok                              *)
  fd       (* the client_fd of a node                                      *)

vars == <<head, heap, fd>>

Fault == [heap EXCEPT !.ok = FALSE]

(* malloc() and the fields of the new node.                                *)
New(n) ==
  [heap EXCEPT !.alive = @ \cup {n}, !.next[n] = NULL, !.prev[n] = NULL]

Allocate(n, f) ==
  /\ heap.ok
  /\ n \in Nodes \ heap.alive
  /\ fd' = [fd EXCEPT ![n] = f]

(* create_list(), which add_to_list() calls when head is NULL.             *)
CreateList(n, f) ==
  /\ head = NULL
  /\ Allocate(n, f)
  /\ heap' = [New(n) EXCEPT !.curr = n]
  /\ head' = n

(* Mutant: the node before is not told of the new one.                     *)
AddToBeginningUnlinked(n, f) ==
  /\ head # NULL
  /\ Allocate(n, f)
  /\ heap' = IF head \in heap.alive THEN [New(n) EXCEPT !.next[n] = head] ELSE Fault
  /\ head' = n

(* Mutant: the new node is linked to the node after head.                  *)
AddToBeginningSkips(n, f) ==
  /\ head # NULL
  /\ Allocate(n, f)
  /\ heap' = IF head \in heap.alive
             THEN [New(n) EXCEPT !.next[n] = heap.next[head], !.prev[head] = n]
             ELSE Fault
  /\ head' = n

(* add_to_list() with add_to_end false: the new head is returned.          *)
AddToBeginning(n, f) ==
  /\ head # NULL
  /\ Allocate(n, f)
  /\ heap' = IF head \in heap.alive
             THEN [New(n) EXCEPT !.next[n] = head, !.prev[head] = n]
             ELSE Fault
  /\ head' = n

(* add_to_list() with add_to_end true, as add_to_queue() calls it: the new *)
(* node is returned here too.                                              *)
AddToEnd(n, f) ==
  /\ head # NULL
  /\ Allocate(n, f)
  /\ heap' = IF heap.curr \in heap.alive
             THEN [New(n) EXCEPT !.prev[n] = heap.curr, !.next[heap.curr] = n, !.curr = n]
             ELSE Fault
  /\ head' = n

(* malloc() failed: add_to_list() returns NULL, and that becomes head.     *)
AddFails ==
  /\ heap.ok
  /\ head' = NULL
  /\ UNCHANGED <<heap, fd>>

(* Mutant: the head stays where it was.                                    *)
PopHeadStays ==
  /\ heap.ok /\ head # NULL
  /\ IF head \in heap.alive /\ heap.next[head] \in heap.alive
     THEN heap' = [heap EXCEPT !.prev[heap.next[head]] = NULL, !.alive = @ \ {head}]
     ELSE heap' = Fault
  /\ UNCHANGED <<head, fd>>

(* pop_head(): head->next is followed before anything is looked at, so the *)
(* test of the new head for NULL comes too late.                           *)
PopHead ==
  /\ heap.ok /\ head # NULL
  /\ IF head \in heap.alive /\ heap.next[head] \in heap.alive
     THEN /\ heap' = [heap EXCEPT !.prev[heap.next[head]] = NULL, !.alive = @ \ {head}]
          /\ head' = heap.next[head]
     ELSE heap' = Fault /\ UNCHANGED head
  /\ UNCHANGED fd

-----------------------------------------------------------------------------
(* delete_from_list(): the loop over the nodes of client f.  A state of    *)
(* the loop is the heap and the function's own copy of head.               *)

(* The nodes from p on, as the next pointers go (NULL after the last).     *)
Nth(h, p) ==
  LET nth[k \in 0 .. Cardinality(Nodes)] ==
        IF k = 0 THEN p
        ELSE IF nth[k - 1] \in h.alive THEN h.next[nth[k - 1]] ELSE NULL
  IN  nth

(* search_in_list(): the first node of client f and the one before it, or  *)
(* the freed node the search runs into.                                    *)
Search(h, p, f) ==
  LET nth == Nth(h, p)
      stops == {k \in 0 .. Cardinality(Nodes) :
                  nth[k] # NULL /\ (nth[k] \in h.alive => fd[nth[k]] = f)}
  IN  IF stops = {} THEN [found |-> NULL, before |-> NULL]
      ELSE LET k == Min(stops)
           IN  [found |-> nth[k], before |-> IF k = 0 THEN NULL ELSE nth[k - 1]]

(* Mutant: the node before keeps its link to the deleted one.              *)
UnlinkBackOnly(s, del, before) ==
  IF ~({del, s.heap.next[del]} \subseteq s.heap.alive)
  THEN [s EXCEPT !.heap.ok = FALSE]
  ELSE [s EXCEPT !.heap.prev[s.heap.next[del]] = s.heap.prev[del],
                 !.heap.alive = @ \ {del}]

(* One turn of the loop.  The node after del is followed whether or not    *)
(* there is one.                                                           *)
Unlink(s, del, before) ==
  LET after == s.heap.next[del]
      skipped == IF before = NULL THEN s.heap.next
                 ELSE [s.heap.next EXCEPT ![before] = after]
      isHead == del # s.heap.curr /\ del = s.head
  IN  IF ~({del, after} \subseteq s.heap.alive)
      THEN [s EXCEPT !.heap.next = skipped, !.heap.ok = FALSE]
      ELSE [head |-> IF isHead THEN after ELSE s.head,
            heap |-> [s.heap EXCEPT
                        !.next = skipped,
                        !.prev[after] = IF isHead THEN NULL ELSE s.heap.prev[del],
                        !.curr = IF del = @ THEN before ELSE @,
                        !.alive = @ \ {del}]]

Deleted(f) ==
  LET turn[k \in 0 .. Cardinality(Nodes)] ==
        IF k = 0 THEN [head |-> head, heap |-> heap]
        ELSE LET s == turn[k - 1]
                 hit == Search(s.heap, s.head, f)
             IN  IF ~s.heap.ok \/ hit.found = NULL THEN s
                 ELSE Unlink(s, hit.found, hit.before)
  IN  turn[Cardinality(Nodes)].heap

(* The caller's head is the value it passed, whatever became of the node.  *)
DeleteFromList(f) ==
  /\ heap.ok /\ head # NULL
  /\ heap' = IF head \in heap.alive THEN Deleted(f) ELSE Fault
  /\ UNCHANGED <<head, fd>>

-----------------------------------------------------------------------------

Init ==
  /\ head = NULL
  /\ heap = [alive |-> {}, next |-> [n \in Nodes |-> NULL],
             prev |-> [n \in Nodes |-> NULL], curr |-> NULL, ok |-> TRUE]
  /\ fd \in [Nodes -> Fds]

Next ==
  \/ \E n \in Nodes, f \in Fds :
       CreateList(n, f) \/ AddToBeginning(n, f) \/ AddToEnd(n, f)
  \/ AddFails \/ PopHead
  \/ \E f \in Fds : DeleteFromList(f)

Spec == Init /\ [][Next]_vars

-----------------------------------------------------------------------------
(* Properties.                                                             *)

Pointer == Nodes \cup {NULL}

(* head, while it points to a node.                                        *)
HeadLives == head \in heap.alive

(* The list from p on: its live nodes, up to NULL or a freed node.         *)
Seen(h, p) ==
  [k \in 1 .. Cardinality({i \in 0 .. Cardinality(Nodes) : Nth(h, p)[i] \in h.alive})
     |-> Nth(h, p)[k - 1]]

(* The list as the holder of head sees it.                                 *)
Visible == Seen(heap, head)

(* The elements of a sequence in their order, each also paired with itself.*)
Order(s) ==
  {e \in ToSet(s) \X ToSet(s) :
     \E i, j \in DOMAIN s : i <= j /\ e = <<s[i], s[j]>>}

TypeOK ==
  /\ head \in Pointer
  /\ heap \in [alive : SUBSET Nodes, next : [Nodes -> Pointer], prev : [Nodes -> Pointer],
               curr : Pointer, ok : BOOLEAN]
  /\ fd \in [Nodes -> Fds]

(* Whatever the caller did before, as long as its head has not been freed  *)
(* under it, the list from head is well formed: it ends, it ends in curr,  *)
(* and every node but the first points back to the one before it.          *)
ListShape ==
  /\ TypeOK
  /\ heap.ok /\ HeadLives =>
       /\ IsInjective(Visible)
       /\ Last(Visible) = heap.curr /\ heap.next[heap.curr] = NULL
       /\ \A k \in 2 .. Len(Visible) : heap.prev[Visible[k]] = Visible[k - 1]

(* With a head that has not been freed, NULL is followed in two cases      *)
(* only: the last node of the list is popped or deleted.  (Adding to a     *)
(* list and deleting inside it never does.)                                *)
FaultsOnlyAtTheEnd ==
  [][HeadLives /\ ~heap'.ok =>
       \/ PopHead /\ Len(Visible) = 1
       \/ \E f \in Fds : DeleteFromList(f) /\ fd[Last(Visible)] = f]_vars

(* The caller is left with a freed head by one call only, the deletion of  *)
(* the client whose node is the first: delete_from_list() moves its own    *)
(* copy of head on, not the caller's.                                      *)
HeadFreedOnlyByDelete ==
  [][HeadLives /\ heap'.ok /\ head' # NULL /\ head' \notin heap'.alive =>
       \E f \in Fds : DeleteFromList(f) /\ fd[head] = f]_vars

(* What the list is good for: a holder of a live head sees a node added to *)
(* the beginning before all others, sees the rest after a pop, and sees    *)
(* the nodes of a client gone, and only those, when they lie inside.  A    *)
(* node added to the end is all it sees: add_to_list() returns the new     *)
(* node for either end, and the nodes before it are lost to the caller.    *)
WorksAtTheFront ==
  [][HeadLives =>
       /\ \A n \in Nodes, f \in Fds :
            /\ AddToBeginning(n, f) => Visible' = <<n>> \o Visible
            /\ AddToEnd(n, f) => Visible' = <<n>>
       /\ PopHead /\ heap'.ok => Visible' = Tail(Visible)
       /\ \A f \in Fds :
            DeleteFromList(f) /\ fd[head] # f /\ fd[Last(Visible)] # f
              => Order(Visible') = {e \in Order(Visible) : f \notin {fd[e[1]], fd[e[2]]}}]_vars

=============================================================================
