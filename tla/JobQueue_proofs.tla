--------------------------- MODULE JobQueue_proofs ---------------------------
(***************************************************************************)
(* The job list of work.c and what becomes of the queue that server2.c     *)
(* makes of it, for any number of nodes, clients and jobs.                 *)
(*                                                                         *)
(* The list: while its holder's head lives, its nodes are a sequence       *)
(* (List), and every function leads from one such sequence to the next.    *)
(* The queue: nothing is known of the shape that racing additions give the *)
(* list, but links are counted, and every job popped has used one up.      *)
(***************************************************************************)
EXTENDS JobQueue, FiniteSetTheorems, WellFoundedInduction, TLAPS

LEMMA NoNode == NULL \notin Nodes
BY JobListAssumption DEF JobListAssumption

HeapType ==
  [alive : SUBSET Nodes, next : [Nodes -> Pointer], prev : [Nodes -> Pointer],
   curr : Pointer, ok : BOOLEAN]

-----------------------------------------------------------------------------
(* Induction over the numbers is done with least elements.                 *)
LEMMA Least ==
  ASSUME NEW T \in SUBSET Nat, T # {}
  PROVE  \E x \in T : \A y \in T : x <= y
<1> DEFINE R == OpToRel(<, Nat)
<1>1. IsWellFoundedOn(R, Nat)
  BY NatLessThanWellFounded
<1>2. \A x, y \in Nat : x < y => <<x, y>> \in R
  BY DEF OpToRel
<1> HIDE DEF R
<1>3. PICK x \in T : \A y \in T : ~(<<y, x>> \in R)
  BY <1>1, WFMin
<1>4. \A y \in T : x <= y
  <2> SUFFICES ASSUME NEW y \in T PROVE x <= y
    OBVIOUS
  <2>1. x \in Nat /\ y \in Nat /\ ~(y < x)
    BY <1>2, <1>3
  <2> QED BY <2>1
<1> QED
  BY <1>4

(* The first number that will not do, if not all will: the step of an      *)
(* induction, for the numbers up to n that are not in Good.                *)
LEMMA Failing ==
  ASSUME NEW n \in Nat, NEW Good, 0 \in Good, ~(0 .. n \subseteq Good)
  PROVE  \E k \in 1 .. n : k \notin Good /\ k - 1 \in Good /\ k - 1 \in 0 .. n
<1> DEFINE Bad == {k \in Nat : k \in 0 .. n /\ k \notin Good}
<1>1. Bad \in SUBSET Nat /\ Bad # {}
  OBVIOUS
<1>2. PICK k \in Bad : \A j \in Bad : k <= j
  BY <1>1, Least
<1>3. k \in 1 .. n /\ k \notin Good
  OBVIOUS
<1>4. k - 1 \in 0 .. n /\ k - 1 \in Nat /\ ~(k <= k - 1)
  BY <1>3
<1>5. k - 1 \notin Bad
  <2> HIDE DEF Bad
  <2> QED BY <1>2, <1>4
<1> QED
  BY <1>3, <1>4, <1>5

(* q is p and what n applications of g make of it.                         *)
Applied(g, p, n, q) == q[0] = p /\ \A i \in 1 .. n : q[i] = g[q[i - 1]]

LEMMA Recursion ==
  ASSUME NEW S, NEW g \in [S -> S], NEW p \in S, NEW n \in Nat
  PROVE  \E q \in [0 .. n -> S] : Applied(g, p, n, q)
<1> DEFINE Follows(q, k) == q[0] = p /\ \A i \in 1 .. k : q[i] = g[q[i - 1]]
           Good == {k \in 0 .. n : \E q \in [0 .. k -> S] : Follows(q, k)}
<1>1. 0 \in Good
  <2>1. [i \in 0 .. 0 |-> p] \in [0 .. 0 -> S] /\ Follows([i \in 0 .. 0 |-> p], 0)
    OBVIOUS
  <2>2. \E q \in [0 .. 0 -> S] : Follows(q, 0)
    BY <2>1
  <2> HIDE DEF Follows
  <2> QED BY <2>2
<1>2. ASSUME NEW k \in 1 .. n, k - 1 \in Good PROVE k \in Good
  <2>1. PICK q \in [0 .. k - 1 -> S] : Follows(q, k - 1)
    BY <1>2
  <2> DEFINE r == [i \in 0 .. k |-> IF i = k THEN g[q[k - 1]] ELSE q[i]]
  <2>2. k \in Nat /\ k # 0 /\ k - 1 \in 0 .. k - 1
    OBVIOUS
  <2>3. r \in [0 .. k -> S]
    <3>1. g[q[k - 1]] \in S
      BY <2>1, <2>2
    <3>2. \A i \in 0 .. k : i # k => q[i] \in S
      BY <2>1, <2>2
    <3> QED BY <3>1, <3>2
  <2>4. r[0] = p
    BY <2>1, <2>2
  <2>5. ASSUME NEW i \in 1 .. k PROVE r[i] = g[r[i - 1]]
    <3>1. r[i - 1] = q[i - 1]
      BY <2>2, i - 1 \in 0 .. k, i - 1 # k
    <3>2. CASE i = k
      BY <2>2, <3>1, <3>2
    <3>3. CASE i # k
      <4>1. i \in 1 .. k - 1 /\ r[i] = q[i]
        BY <2>2, <3>3
      <4> QED BY <2>1, <3>1, <4>1
    <3> QED BY <3>2, <3>3
  <2> HIDE DEF r
  <2>6. Follows(r, k)
    BY <2>4, <2>5
  <2> QED BY <2>3, <2>6
<1>3. 0 .. n \subseteq Good
  <2> HIDE DEF Good
  <2> QED BY <1>1, <1>2, Failing
<1>4. n \in Good
  <2> HIDE DEF Good
  <2> QED BY <1>3
<1> QED
  BY <1>4 DEF Applied

(* As many nodes as there can be.                                          *)
N == Cardinality(Nodes)

LEMMA NIs == N \in Nat
BY JobListAssumption, FS_CardinalityType DEF JobListAssumption, N

(* What Nth() is.                                                          *)
LEMMA NthIs ==
  ASSUME NEW h \in HeapType, NEW p \in Pointer
  PROVE  /\ Nth(h, p) \in [0 .. N -> Pointer]
         /\ Nth(h, p)[0] = p
         /\ \A k \in 1 .. N :
              Nth(h, p)[k] = IF Nth(h, p)[k - 1] \in h.alive
                             THEN h.next[Nth(h, p)[k - 1]] ELSE NULL
<1> DEFINE Is(q) == q = [k \in 0 .. Cardinality(Nodes) |->
                           IF k = 0 THEN p
                           ELSE IF q[k - 1] \in h.alive THEN h.next[q[k - 1]] ELSE NULL]
<1>1. PICK g \in [Pointer -> Pointer] :
        \A x \in Pointer : g[x] = IF x \in h.alive THEN h.next[x] ELSE NULL
  <2>1. [x \in Pointer |-> IF x \in h.alive THEN h.next[x] ELSE NULL] \in [Pointer -> Pointer]
    BY DEF HeapType, Pointer
  <2> QED BY <2>1
<1>2. N \in Nat /\ N = Cardinality(Nodes)
  BY NIs DEF N
<1>3. PICK q \in [0 .. N -> Pointer] : q[0] = p /\ \A k \in 1 .. N : q[k] = g[q[k - 1]]
  <2>1. \E q \in [0 .. N -> Pointer] : Applied(g, p, N, q)
    BY <1>2, Recursion
  <2> QED BY <2>1 DEF Applied
<1>4. Is(q)
  <2>1. ASSUME NEW k \in 0 .. N
        PROVE  q[k] = IF k = 0 THEN p
                      ELSE IF q[k - 1] \in h.alive THEN h.next[q[k - 1]] ELSE NULL
    <3>1. CASE k = 0
      BY <1>3, <3>1
    <3>2. CASE k # 0
      <4>1. k \in 1 .. N /\ k - 1 \in 0 .. N
        BY <1>2, <3>2
      <4>2. q[k] = g[q[k - 1]] /\ q[k - 1] \in Pointer
        BY <1>3, <4>1
      <4> QED BY <1>1, <3>2, <4>2
    <3> QED BY <3>1, <3>2
  <2> QED BY <1>2, <1>3, <2>1
<1> DEFINE nth == CHOOSE r : Is(r)
<1>5. Is(nth)
  BY <1>4
<1>6. Nth(h, p) = nth
  BY DEF Nth
<1> HIDE DEF nth
<1>7. nth = [k \in 0 .. N |->
               IF k = 0 THEN p
               ELSE IF nth[k - 1] \in h.alive THEN h.next[nth[k - 1]] ELSE NULL]
  BY <1>2, <1>5
<1>8. nth[0] = p /\ \A k \in 1 .. N : nth[k] = IF nth[k - 1] \in h.alive THEN h.next[nth[k - 1]] ELSE NULL
  BY <1>2, <1>7
<1>9. \A k \in 0 .. N : nth[k] \in Pointer
  BY <1>2, <1>7 DEF HeapType, Pointer
<1>10. nth \in [0 .. N -> Pointer]
  <2>1. nth = [k \in 0 .. N |-> nth[k]]
    BY <1>7
  <2> QED BY <1>9, <2>1
<1> QED
  BY <1>6, <1>8, <1>10

(* s holds the m nodes of the list from p on, linked both ways.            *)
List(h, p, s, m) ==
  /\ m \in Nat \ {0} /\ s \in [1 .. m -> h.alive]
  /\ \A i, j \in 1 .. m : s[i] = s[j] => i = j
  /\ s[1] = p
  /\ \A k \in 1 .. m - 1 : h.next[s[k]] = s[k + 1] /\ h.prev[s[k + 1]] = s[k]
  /\ h.next[s[m]] = NULL /\ h.curr = s[m]

LEMMA ListTypes ==
  ASSUME NEW h \in HeapType, NEW p, NEW m, NEW s, List(h, p, s, m)
  PROVE  /\ m \in Nat \ {0} /\ m <= N /\ N \in Nat /\ p \in h.alive /\ p \in Pointer
         /\ \A k \in 1 .. m : s[k] \in h.alive /\ s[k] \in Nodes /\ s[k] # NULL
<1>1. m \in Nat \ {0} /\ s \in [1 .. m -> h.alive] /\ p = s[1]
  BY DEF List
<1>2. \A k \in 1 .. m : s[k] \in h.alive /\ s[k] \in Nodes /\ s[k] # NULL
  BY <1>1, NoNode DEF HeapType
<1>3. s \in Injection(1 .. m, Nodes)
  <2>1. s \in [1 .. m -> Nodes]
    BY <1>1 DEF HeapType
  <2> QED BY <2>1 DEF List, Injection, IsInjective
<1>4. Cardinality(1 .. m) = m
  BY <1>1, FS_Interval
<1>5. Cardinality(1 .. m) <= Cardinality(Nodes)
  BY <1>3, JobListAssumption, FS_Injection DEF JobListAssumption
<1>6. p \in h.alive /\ p \in Pointer
  BY <1>1, <1>2 DEF Pointer
<1> QED
  BY <1>1, <1>2, <1>4, <1>5, <1>6, NIs DEF N

(* Following the next pointers leads through the list, then to NULL.       *)
LEMMA NthOfList ==
  ASSUME NEW h \in HeapType, NEW p, NEW m, NEW s, List(h, p, s, m)
  PROVE  \A k \in 0 .. N : Nth(h, p)[k] = IF k < m THEN s[k + 1] ELSE NULL
<1> DEFINE Good == {k \in 0 .. N : Nth(h, p)[k] = IF k < m THEN s[k + 1] ELSE NULL}
<1>0. /\ m \in Nat \ {0} /\ m <= N /\ N \in Nat /\ p \in Pointer
      /\ \A k \in 1 .. m : s[k] \in h.alive
  BY ListTypes
<1>1. 0 \in Good
  <2>1. Nth(h, p)[0] = p
    BY <1>0, NthIs
  <2>2. 0 \in 0 .. N /\ 0 < m /\ s[0 + 1] = p
    BY <1>0, 0 + 1 = 1 DEF List
  <2> QED BY <2>1, <2>2
<1>2. ASSUME NEW k \in 1 .. N, k - 1 \in Good PROVE k \in Good
  <2>1. Nth(h, p)[k] = IF Nth(h, p)[k - 1] \in h.alive THEN h.next[Nth(h, p)[k - 1]] ELSE NULL
    BY <1>0, NthIs
  <2>2. Nth(h, p)[k - 1] = IF k - 1 < m THEN s[k] ELSE NULL
    BY <1>0, <1>2, k - 1 + 1 = k
  <2>3. CASE k < m
    <3>1. k \in 1 .. m - 1 /\ k \in 1 .. m /\ k - 1 < m
      BY <1>0, <2>3
    <3>2. h.next[s[k]] = s[k + 1]
      BY <3>1 DEF List
    <3> QED BY <1>0, <2>1, <2>2, <2>3, <3>1, <3>2
  <2>4. CASE k = m
    <3>1. h.next[s[m]] = NULL
      BY DEF List
    <3> QED BY <1>0, <2>1, <2>2, <2>4, <3>1
  <2>5. CASE k > m
    <3>1. NULL \notin h.alive
      BY NoNode DEF HeapType
    <3> QED BY <1>0, <2>1, <2>2, <2>5, <3>1
  <2> QED BY <1>0, <2>3, <2>4, <2>5
<1>3. 0 .. N \subseteq Good
  <2> HIDE DEF Good
  <2> QED BY <1>0, <1>1, <1>2, Failing
<1> QED
  BY <1>3

(* What the holder of p sees is the list.                                  *)
LEMMA SeenOfList ==
  ASSUME NEW h \in HeapType, NEW p, NEW m, NEW s, List(h, p, s, m)
  PROVE  Seen(h, p) = s
<1> DEFINE live == {i \in 0 .. Cardinality(Nodes) : Nth(h, p)[i] \in h.alive}
<1>0. /\ m \in Nat \ {0} /\ m <= N /\ N \in Nat /\ N = Cardinality(Nodes)
      /\ \A k \in 1 .. m : s[k] \in h.alive
      /\ s \in [1 .. m -> h.alive] /\ NULL \notin h.alive
  <2>1. m \in Nat \ {0} /\ m <= N /\ N \in Nat /\ \A k \in 1 .. m : s[k] \in h.alive
    BY ListTypes
  <2>2. N = Cardinality(Nodes) /\ s \in [1 .. m -> h.alive]
    BY DEF N, List
  <2>3. NULL \notin h.alive
    BY NoNode DEF HeapType
  <2> QED BY <2>1, <2>2, <2>3
<1>1. \A k \in 0 .. N : Nth(h, p)[k] = IF k < m THEN s[k + 1] ELSE NULL
  BY NthOfList
<1>2. live = 0 .. m - 1
  BY <1>0, <1>1
<1>3. Cardinality(live) = m
  <2>1. Cardinality(0 .. m - 1) = m
    BY <1>0, FS_Interval
  <2> QED BY <1>2, <2>1
<1>4. Seen(h, p) = [k \in 1 .. m |-> Nth(h, p)[k - 1]]
  BY <1>3 DEF Seen
<1>5. \A k \in 1 .. m : Nth(h, p)[k - 1] = s[k]
  BY <1>0, <1>1, \A k \in 1 .. m : k - 1 \in 0 .. N /\ k - 1 < m /\ k - 1 + 1 = k
<1> QED
  BY <1>0, <1>4, <1>5

LEMMA MinIs ==
  ASSUME NEW T \in SUBSET Nat, NEW x \in T, \A y \in T : x <= y
  PROVE  Min(T) = x
<1>1. Min(T) \in T /\ \A y \in T : Min(T) <= y
  BY DEF Min
<1>2. Min(T) \in Nat /\ x \in Nat /\ Min(T) <= x /\ x <= Min(T)
  BY <1>1
<1> QED
  BY <1>2

(* search_in_list() finds the first node of the client ...                 *)
LEMMA SearchFinds ==
  ASSUME NEW h \in HeapType, NEW p, NEW m, NEW s, List(h, p, s, m), NEW f \in Fds,
         NEW i \in 1 .. m, fd[s[i]] = f, \A j \in 1 .. i - 1 : fd[s[j]] # f
  PROVE  Search(h, p, f) = [found |-> s[i], before |-> IF i = 1 THEN NULL ELSE s[i - 1]]
<1> DEFINE stops == {k \in 0 .. Cardinality(Nodes) :
                       /\ Nth(h, p)[k] # NULL
                       /\ Nth(h, p)[k] \in h.alive => fd[Nth(h, p)[k]] = f}
<1>0. /\ m \in Nat \ {0} /\ m <= N /\ N \in Nat
      /\ \A k \in 1 .. m : s[k] \in h.alive /\ s[k] # NULL
  BY ListTypes
<1>1. \A k \in 0 .. N : Nth(h, p)[k] = IF k < m THEN s[k + 1] ELSE NULL
  BY NthOfList
<1>2. \A k \in 0 .. N : k \in stops <=> k < m /\ fd[s[k + 1]] = f
  <2> SUFFICES ASSUME NEW k \in 0 .. N PROVE k \in stops <=> k < m /\ fd[s[k + 1]] = f
    OBVIOUS
  <2>1. CASE k < m
    <3>1. k + 1 \in 1 .. m
      BY <1>0, <2>1
    <3> QED BY <1>0, <1>1, <2>1, <3>1 DEF N
  <2>2. CASE ~(k < m)
    BY <1>1, <2>2
  <2> QED BY <2>1, <2>2
<1>3. i - 1 \in stops /\ \A k \in stops : i - 1 <= k
  <2>1. i - 1 \in 0 .. N /\ i - 1 < m /\ i - 1 + 1 = i
    BY <1>0
  <2>2. i - 1 \in stops
    BY <1>2, <2>1
  <2>3. ASSUME NEW k \in stops, k < i - 1 PROVE FALSE
    <3>1. k \in 0 .. N /\ k + 1 \in 1 .. i - 1
      BY <1>0, <2>3 DEF N
    <3>2. fd[s[k + 1]] = f
      BY <1>2, <3>1
    <3> QED BY <3>1, <3>2
  <2>4. \A k \in stops : k \in Int
    OBVIOUS
  <2> HIDE DEF stops
  <2> QED BY <2>1, <2>2, <2>3, <2>4
<1>4. Min(stops) = i - 1 /\ stops # {}
  <2>1. stops \in SUBSET Nat
    BY <1>0 DEF N
  <2> HIDE DEF stops
  <2> QED BY <1>3, <2>1, MinIs
<1>5. /\ Nth(h, p)[i - 1] = s[i]
      /\ i # 1 => Nth(h, p)[i - 1 - 1] = s[i - 1]
  <2>1. i - 1 \in 0 .. N /\ i - 1 < m /\ i - 1 + 1 = i
    BY <1>0
  <2>2. i # 1 => i - 1 - 1 \in 0 .. N /\ i - 1 - 1 < m /\ i - 1 - 1 + 1 = i - 1
    BY <1>0
  <2> QED BY <1>1, <2>1, <2>2
<1>6. Search(h, p, f) =
        IF stops = {} THEN [found |-> NULL, before |-> NULL]
        ELSE [found |-> Nth(h, p)[Min(stops)],
              before |-> IF Min(stops) = 0 THEN NULL ELSE Nth(h, p)[Min(stops) - 1]]
  BY DEF Search
<1>7. (i - 1 = 0) <=> (i = 1)
  OBVIOUS
<1> HIDE DEF stops
<1> QED
  BY <1>4, <1>5, <1>6, <1>7

(* ... if there is one.                                                    *)
LEMMA SearchFails ==
  ASSUME NEW h \in HeapType, NEW p, NEW m, NEW s, List(h, p, s, m), NEW f \in Fds,
         \A j \in 1 .. m : fd[s[j]] # f
  PROVE  Search(h, p, f).found = NULL
<1> DEFINE stops == {k \in 0 .. Cardinality(Nodes) :
                       /\ Nth(h, p)[k] # NULL
                       /\ Nth(h, p)[k] \in h.alive => fd[Nth(h, p)[k]] = f}
<1>0. /\ m \in Nat \ {0} /\ m <= N /\ N \in Nat
      /\ \A k \in 1 .. m : s[k] \in h.alive
  BY ListTypes
<1>1. \A k \in 0 .. N : Nth(h, p)[k] = IF k < m THEN s[k + 1] ELSE NULL
  BY NthOfList
<1>2. stops = {}
  <2> SUFFICES ASSUME NEW k \in stops PROVE FALSE
    OBVIOUS
  <2>1. k \in 0 .. N /\ k < m
    BY <1>1 DEF N
  <2>2. k + 1 \in 1 .. m /\ Nth(h, p)[k] = s[k + 1]
    BY <1>0, <1>1, <2>1
  <2> QED BY <1>0, <2>2
<1> QED
  BY <1>2 DEF Search

(* A list without its ith node.                                            *)
Without(s, m, i) == [k \in 1 .. m - 1 |-> IF k < i THEN s[k] ELSE s[k + 1]]

(* A state of the loop of delete_from_list().                              *)
LoopState == [head : Pointer, heap : HeapType]

LEMMA SearchTypes ==
  ASSUME NEW h \in HeapType, NEW p \in Pointer, NEW f \in Fds
  PROVE  Search(h, p, f).found \in Pointer /\ Search(h, p, f).before \in Pointer
<1> DEFINE stops == {k \in 0 .. Cardinality(Nodes) :
                       /\ Nth(h, p)[k] # NULL
                       /\ Nth(h, p)[k] \in h.alive => fd[Nth(h, p)[k]] = f}
<1>1. Search(h, p, f) =
        IF stops = {} THEN [found |-> NULL, before |-> NULL]
        ELSE [found |-> Nth(h, p)[Min(stops)],
              before |-> IF Min(stops) = 0 THEN NULL ELSE Nth(h, p)[Min(stops) - 1]]
  BY DEF Search
<1>2. \A k \in 0 .. N : Nth(h, p)[k] \in Pointer
  BY NthIs
<1>3. NULL \in Pointer
  BY DEF Pointer
<1>4. CASE stops # {}
  <2>1. PICK x \in stops : \A y \in stops : x <= y
    <3>1. stops \in SUBSET Nat
      BY NIs DEF N
    <3> HIDE DEF stops
    <3> QED BY <1>4, <3>1, Least
  <2>2. Min(stops) = x
    <3>1. stops \in SUBSET Nat
      BY NIs DEF N
    <3> HIDE DEF stops
    <3> QED BY <2>1, <3>1, MinIs
  <2>3. x \in 0 .. N /\ (x # 0 => x - 1 \in 0 .. N)
    BY NIs DEF N
  <2> HIDE DEF stops
  <2> QED BY <1>1, <1>2, <1>3, <1>4, <2>2, <2>3
<1> HIDE DEF stops
<1> QED
  BY <1>1, <1>3, <1>4

LEMMA UnlinkTypes ==
  ASSUME NEW x \in LoopState, NEW del \in Nodes, NEW before \in Pointer
  PROVE  Unlink(x, del, before) \in LoopState
<1>1. /\ x.head \in Pointer /\ x.heap \in HeapType /\ NULL \in Pointer
      /\ x.heap.next[del] \in Pointer /\ x.heap.prev[del] \in Pointer
  BY DEF LoopState, HeapType, Pointer
<1> DEFINE after == x.heap.next[del]
           skipped == IF before = NULL THEN x.heap.next
                      ELSE [x.heap.next EXCEPT ![before] = after]
           isHead == del # x.heap.curr /\ del = x.head
<1>2. skipped \in [Nodes -> Pointer]
  BY <1>1 DEF HeapType
<1> HIDE DEF skipped
<1>3. CASE ~({del, after} \subseteq x.heap.alive)
  <2>1. Unlink(x, del, before) = [x EXCEPT !.heap.next = skipped, !.heap.ok = FALSE]
    BY <1>3 DEF Unlink, skipped
  <2>2. [x.heap EXCEPT !.next = skipped, !.ok = FALSE] \in HeapType
    BY <1>1, <1>2 DEF HeapType
  <2> QED BY <1>1, <2>1, <2>2 DEF LoopState
<1>4. CASE {del, after} \subseteq x.heap.alive
  <2> DEFINE heap1 == [x.heap EXCEPT
                         !.next = skipped,
                         !.prev[after] = IF isHead THEN NULL ELSE x.heap.prev[del],
                         !.curr = IF del = @ THEN before ELSE @,
                         !.alive = @ \ {del}]
  <2>1. Unlink(x, del, before) = [head |-> IF isHead THEN after ELSE x.head, heap |-> heap1]
    BY <1>4 DEF Unlink, skipped
  <2>2. heap1 \in HeapType
    BY <1>1, <1>2 DEF HeapType
  <2> HIDE DEF heap1
  <2> QED BY <1>1, <2>1, <2>2 DEF LoopState
<1> QED
  BY <1>3, <1>4

(* The last node cannot be unlinked: the node after it is followed.        *)
LEMMA UnlinkLast ==
  ASSUME NEW h \in HeapType, NEW p, NEW m, NEW s, List(h, p, s, m), NEW before \in Pointer
  PROVE  ~Unlink([head |-> p, heap |-> h], s[m], before).heap.ok
<1>1. h.next[s[m]] = NULL /\ NULL \notin h.alive
  BY NoNode DEF List, HeapType
<1> QED
  BY <1>1 DEF Unlink, HeapType

(* Any other is unlinked, and the rest is a list again.                    *)
LEMMA UnlinkInside ==
  ASSUME NEW h \in HeapType, NEW p, NEW m, NEW s, List(h, p, s, m), NEW i \in 1 .. m - 1
  PROVE  LET x == Unlink([head |-> p, heap |-> h], s[i], IF i = 1 THEN NULL ELSE s[i - 1])
         IN  /\ List(x.heap, x.head, Without(s, m, i), m - 1)
             /\ x.head = IF i = 1 THEN s[2] ELSE p
             /\ x.heap.alive = h.alive \ {s[i]}
             /\ x.heap.ok = h.ok /\ x.heap.curr = h.curr
<1> DEFINE del == s[i]
           before == IF i = 1 THEN NULL ELSE s[i - 1]
           after == s[i + 1]
           t == Without(s, m, i)
           x == Unlink([head |-> p, heap |-> h], del, before)
           skipped == IF i = 1 THEN h.next ELSE [h.next EXCEPT ![s[i - 1]] = after]
<1>0. /\ m \in Nat \ {0} /\ i \in 1 .. m /\ i + 1 \in 1 .. m /\ i # m /\ m - 1 \in Nat \ {0}
      /\ \A k \in 1 .. m : s[k] \in h.alive /\ s[k] \in Nodes /\ s[k] # NULL
      /\ \A j, k \in 1 .. m : s[j] = s[k] => j = k
      /\ s[1] = p /\ h.curr = s[m] /\ h.next[s[m]] = NULL
      /\ \A k \in 1 .. m - 1 : h.next[s[k]] = s[k + 1] /\ h.prev[s[k + 1]] = s[k]
  <2>1. /\ m \in Nat \ {0}
        /\ \A k \in 1 .. m : s[k] \in h.alive /\ s[k] \in Nodes /\ s[k] # NULL
    BY ListTypes
  <2> QED BY <2>1 DEF List
<1>1. /\ h.next[del] = after /\ {del, after} \subseteq h.alive
      /\ del # h.curr /\ (del = p <=> i = 1)
      /\ i # 1 => before # NULL /\ i - 1 \in 1 .. m /\ h.prev[del] = s[i - 1]
  <2>1. i # 1 => i - 1 \in 1 .. m - 1 /\ i - 1 + 1 = i
    BY <1>0
  <2> QED BY <1>0, <2>1
<1>2. /\ x.head = IF i = 1 THEN after ELSE p
      /\ x.heap.next = skipped
      /\ x.heap.prev = [h.prev EXCEPT ![after] = IF i = 1 THEN NULL ELSE h.prev[del]]
      /\ x.heap.curr = h.curr /\ x.heap.ok = h.ok /\ x.heap.alive = h.alive \ {del}
  BY <1>1 DEF Unlink, HeapType
<1>3. \A k \in 1 .. m - 1 : t[k] = IF k < i THEN s[k] ELSE s[k + 1]
  BY DEF Without
<1>4. /\ \A k \in 1 .. m - 1 : t[k] \in h.alive \ {del}
      /\ t \in [1 .. m - 1 -> h.alive \ {del}]
  <2>1. ASSUME NEW k \in 1 .. m - 1 PROVE t[k] \in h.alive \ {del}
    BY <1>0, <1>3
  <2> QED BY <2>1 DEF Without
<1>5. \A j, k \in 1 .. m - 1 : t[j] = t[k] => j = k
  BY <1>0, <1>3
<1>6. t[1] = x.head
  BY <1>0, <1>2, <1>3
<1>7. t[m - 1] = s[m] /\ x.heap.next[s[m]] = NULL
  <2>1. t[m - 1] = s[m]
    BY <1>0, <1>3
  <2>2. i # 1 => s[i - 1] # s[m]
    BY <1>0, <1>1
  <2> QED BY <1>0, <1>2, <2>1, <2>2 DEF HeapType
<1>8. ASSUME NEW k \in 1 .. m - 2
      PROVE  x.heap.next[t[k]] = t[k + 1] /\ x.heap.prev[t[k + 1]] = t[k]
  <2>0. k \in 1 .. m - 1 /\ k + 1 \in 1 .. m - 1
    BY <1>0
  <2>1. CASE k + 1 < i
    <3>1. t[k] = s[k] /\ t[k + 1] = s[k + 1] /\ k \in 1 .. m /\ k + 1 \in 1 .. m /\ k # i - 1
      BY <1>0, <1>3, <2>0, <2>1
    <3>2. (i # 1 => s[k] # s[i - 1]) /\ s[k + 1] # after
      BY <1>0, <1>1, <2>1, <3>1
    <3>3. x.heap.next[s[k]] = s[k + 1]
      BY <1>0, <1>2, <2>0, <3>1, <3>2 DEF HeapType
    <3>4. x.heap.prev[s[k + 1]] = s[k]
      BY <1>0, <1>2, <2>0, <3>1, <3>2 DEF HeapType
    <3> QED BY <3>1, <3>3, <3>4
  <2>2. CASE k + 1 = i
    <3>1. i # 1 /\ k = i - 1 /\ t[k] = s[i - 1] /\ t[k + 1] = after
      BY <1>0, <1>3, <2>0, <2>2
    <3>2. x.heap.next[s[i - 1]] = after
      BY <1>0, <1>1, <1>2, <3>1 DEF HeapType
    <3>3. x.heap.prev[after] = s[i - 1]
      BY <1>0, <1>1, <1>2, <3>1 DEF HeapType
    <3> QED BY <3>1, <3>2, <3>3
  <2>3. CASE k + 1 > i
    <3>1. /\ t[k] = s[k + 1] /\ t[k + 1] = s[k + 1 + 1] /\ k + 1 \in 1 .. m /\ k + 1 + 1 \in 1 .. m
          /\ k + 1 \in 1 .. m - 1
      BY <1>0, <1>3, <2>0, <2>3
    <3>2. (i # 1 => s[k + 1] # s[i - 1]) /\ s[k + 1 + 1] # after
      BY <1>0, <1>1, <2>3, <3>1
    <3>3. x.heap.next[s[k + 1]] = s[k + 1 + 1]
      BY <1>0, <1>2, <3>1, <3>2 DEF HeapType
    <3>4. x.heap.prev[s[k + 1 + 1]] = s[k + 1]
      BY <1>0, <1>2, <3>1, <3>2 DEF HeapType
    <3> QED BY <3>1, <3>3, <3>4
  <2> QED BY <1>0, <2>0, <2>1, <2>2, <2>3
<1>9. List(x.heap, x.head, t, m - 1)
  <2>1. \A k \in 1 .. (m - 1) - 1 : x.heap.next[t[k]] = t[k + 1] /\ x.heap.prev[t[k + 1]] = t[k]
    <3>1. (m - 1) - 1 = m - 2
      BY <1>0
    <3> HIDE DEF x, t
    <3> QED BY <1>8, <3>1
  <2> HIDE DEF x, t
  <2> QED BY <1>0, <1>2, <1>4, <1>5, <1>6, <1>7, <2>1 DEF List
<1> QED
  BY <1>2, <1>9

-----------------------------------------------------------------------------
(* The loop of delete_from_list().                                         *)

(* One turn: unlink the first node of the client, if there is one.         *)
Turn(f, x) ==
  LET hit == Search(x.heap, x.head, f)
  IN  IF ~x.heap.ok \/ hit.found = NULL THEN x ELSE Unlink(x, hit.found, hit.before)

LEMMA TurnTypes ==
  ASSUME NEW f \in Fds, NEW x \in LoopState
  PROVE  Turn(f, x) \in LoopState
<1>1. x.heap \in HeapType /\ x.head \in Pointer
  BY DEF LoopState
<1>2. /\ Search(x.heap, x.head, f).found \in Pointer
      /\ Search(x.heap, x.head, f).before \in Pointer
  BY <1>1, SearchTypes
<1>3. CASE Search(x.heap, x.head, f).found # NULL
  <2>1. Search(x.heap, x.head, f).found \in Nodes
    BY <1>2, <1>3 DEF Pointer
  <2>2. Unlink(x, Search(x.heap, x.head, f).found, Search(x.heap, x.head, f).before) \in LoopState
    BY <1>2, <2>1, UnlinkTypes
  <2> QED BY <2>2 DEF Turn
<1> QED
  BY <1>3 DEF Turn

(* The loop makes N turns (or fewer: a turn with nothing to do is none).   *)
LEMMA DeletedIs ==
  ASSUME NEW f \in Fds, head \in Pointer, heap \in HeapType
  PROVE  \E turn \in [0 .. N -> LoopState] :
           /\ turn[0] = [head |-> head, heap |-> heap]
           /\ \A k \in 1 .. N : turn[k] = Turn(f, turn[k - 1])
           /\ Deleted(f) = turn[N].heap
<1> DEFINE start == [head |-> head, heap |-> heap]
           Is(q) == q = [k \in 0 .. Cardinality(Nodes) |->
                           IF k = 0 THEN start
                           ELSE LET s == q[k - 1]
                                    hit == Search(s.heap, s.head, f)
                                IN  IF ~s.heap.ok \/ hit.found = NULL THEN s
                                    ELSE Unlink(s, hit.found, hit.before)]
<1>1. PICK g \in [LoopState -> LoopState] : \A x \in LoopState : g[x] = Turn(f, x)
  <2>1. [x \in LoopState |-> Turn(f, x)] \in [LoopState -> LoopState]
    BY TurnTypes
  <2> QED BY <2>1
<1>2. N \in Nat /\ N = Cardinality(Nodes) /\ start \in LoopState
  BY NIs DEF N, LoopState
<1>3. PICK q \in [0 .. N -> LoopState] : q[0] = start /\ \A k \in 1 .. N : q[k] = g[q[k - 1]]
  <2>1. PICK st \in LoopState : st = start
    BY <1>2
  <2>2. \E q \in [0 .. N -> LoopState] : Applied(g, st, N, q)
    BY <1>2, Recursion
  <2> QED BY <2>1, <2>2 DEF Applied
<1> HIDE DEF start
<1>4. Is(q)
  <2>1. ASSUME NEW k \in 0 .. N
        PROVE  q[k] = IF k = 0 THEN start ELSE Turn(f, q[k - 1])
    <3>1. CASE k = 0
      BY <1>3, <3>1
    <3>2. CASE k # 0
      <4>1. k \in 1 .. N /\ k - 1 \in 0 .. N
        BY <1>2, <3>2
      <4>2. q[k] = g[q[k - 1]] /\ q[k - 1] \in LoopState
        BY <1>3, <4>1
      <4> QED BY <1>1, <3>2, <4>2
    <3> QED BY <3>1, <3>2
  <2> QED BY <1>2, <1>3, <2>1 DEF Turn
<1> DEFINE turn == CHOOSE r : Is(r)
<1>5. Is(turn)
  BY <1>4
<1>6. Deleted(f) = turn[Cardinality(Nodes)].heap
  BY DEF Deleted, start
<1> HIDE DEF turn
<1>7. turn = [k \in 0 .. N |-> IF k = 0 THEN start ELSE Turn(f, turn[k - 1])]
  BY <1>2, <1>5 DEF Turn
<1>8. turn[0] = start /\ \A k \in 1 .. N : turn[k] = Turn(f, turn[k - 1])
  BY <1>2, <1>7
<1>9. \A k \in 0 .. N : turn[k] \in LoopState
  <2> DEFINE Good == {k \in 0 .. N : turn[k] \in LoopState}
  <2>1. 0 \in Good
    BY <1>2, <1>8
  <2>2. ASSUME NEW k \in 1 .. N, k - 1 \in Good PROVE k \in Good
    BY <1>8, <2>2, TurnTypes
  <2>3. 0 .. N \subseteq Good
    <3> HIDE DEF Good
    <3> QED BY <1>2, <2>1, <2>2, Failing
  <2> QED BY <2>3
<1>10. turn \in [0 .. N -> LoopState]
  <2>1. turn = [k \in 0 .. N |-> turn[k]]
    BY <1>7
  <2> QED BY <1>9, <2>1
<1> QED
  BY <1>2, <1>6, <1>8, <1>10 DEF start

(* The nodes of other clients, in their order.                             *)
Kept(s, f) == {e \in Order(s) : f \notin {fd[e[1]], fd[e[2]]}}

(* a comes no later than b in a sequence of length m.                      *)
InOrder(s, m) ==
  \A a, b : <<a, b>> \in Order(s) <=> \E i, j \in 1 .. m : i <= j /\ a = s[i] /\ b = s[j]

LEMMA OrderIs ==
  ASSUME NEW m \in Nat, NEW s, DOMAIN s = 1 .. m
  PROVE  InOrder(s, m)
<1>1. ToSet(s) = {s[i] : i \in 1 .. m}
  BY DEF ToSet
<1>2. \A i \in 1 .. m : s[i] \in ToSet(s)
  BY <1>1
<1>3. ASSUME NEW a, NEW b
      PROVE  <<a, b>> \in Order(s) <=> \E i, j \in 1 .. m : i <= j /\ a = s[i] /\ b = s[j]
  <2>1. <<a, b>> \in Order(s) <=>
          /\ a \in ToSet(s) /\ b \in ToSet(s)
          /\ \E i, j \in 1 .. m : i <= j /\ <<a, b>> = <<s[i], s[j]>>
    BY DEF Order
  <2> QED BY <1>2, <2>1
<1> QED
  BY <1>3 DEF InOrder

LEMMA OrderPairs ==
  ASSUME NEW s, NEW e \in Order(s)
  PROVE  \E a, b \in ToSet(s) : e = <<a, b>>
BY DEF Order

(* Taking a node of f out leaves the others in their order.                *)
LEMMA KeptWithout ==
  ASSUME NEW m \in Nat, NEW s, DOMAIN s = 1 .. m, NEW i \in 1 .. m, NEW f, fd[s[i]] = f
  PROVE  Kept(Without(s, m, i), f) = Kept(s, f)
<1> DEFINE t == Without(s, m, i)
<1>1. InOrder(s, m) /\ InOrder(t, m - 1)
  <2>1. m - 1 \in Nat /\ DOMAIN t = 1 .. m - 1
    BY DEF Without
  <2> HIDE DEF t
  <2> QED BY <2>1, OrderIs
<1>2. \A k \in 1 .. m - 1 : t[k] = IF k < i THEN s[k] ELSE s[k + 1]
  BY DEF Without
<1> HIDE DEF t
<1>3. ASSUME NEW a, NEW b, <<a, b>> \in Order(t) PROVE <<a, b>> \in Order(s)
  <2>1. PICK j \in 1 .. m - 1, k \in 1 .. m - 1 : j <= k /\ a = t[j] /\ b = t[k]
    BY <1>1, <1>3 DEF InOrder
  <2>2. PICK j1 \in 1 .. m, k1 \in 1 .. m :
          j1 = (IF j < i THEN j ELSE j + 1) /\ k1 = (IF k < i THEN k ELSE k + 1)
    OBVIOUS
  <2>3. j1 <= k1 /\ a = s[j1] /\ b = s[k1]
    BY <1>2, <2>1, <2>2
  <2> QED BY <1>1, <2>3 DEF InOrder
<1>4. ASSUME NEW a, NEW b, <<a, b>> \in Order(s), fd[a] # f, fd[b] # f
      PROVE  <<a, b>> \in Order(t)
  <2>1. PICK j \in 1 .. m, k \in 1 .. m : j <= k /\ a = s[j] /\ b = s[k]
    BY <1>1, <1>4 DEF InOrder
  <2>2. j # i /\ k # i
    BY <1>4, <2>1
  <2>3. PICK j1 \in 1 .. m - 1, k1 \in 1 .. m - 1 :
          j1 = (IF j < i THEN j ELSE j - 1) /\ k1 = (IF k < i THEN k ELSE k - 1)
    BY <2>2
  <2>4. j1 <= k1 /\ a = t[j1] /\ b = t[k1]
    <3>1. j1 <= k1
      BY <2>1, <2>2, <2>3
    <3>2. t[j1] = s[j]
      BY <1>2, <2>2, <2>3, j - 1 + 1 = j
    <3>3. t[k1] = s[k]
      BY <1>2, <2>2, <2>3, k - 1 + 1 = k
    <3> QED BY <2>1, <3>1, <3>2, <3>3
  <2> QED BY <1>1, <2>4 DEF InOrder
<1>5. ASSUME NEW e PROVE e \in Kept(t, f) <=> e \in Kept(s, f)
  <2>1. ASSUME e \in Kept(t, f) PROVE e \in Kept(s, f)
    <3>1. PICK a, b : e = <<a, b>>
      BY <2>1, OrderPairs DEF Kept
    <3> QED BY <1>3, <2>1, <3>1 DEF Kept
  <2>2. ASSUME e \in Kept(s, f) PROVE e \in Kept(t, f)
    <3>1. PICK a, b : e = <<a, b>>
      BY <2>2, OrderPairs DEF Kept
    <3>2. fd[a] # f /\ fd[b] # f /\ <<a, b>> \in Order(s)
      BY <2>2, <3>1 DEF Kept
    <3> QED BY <1>4, <3>1, <3>2 DEF Kept
  <2> QED BY <2>1, <2>2
<1> QED
  BY <1>5 DEF t

(* What k turns leave of a list of m nodes that started at head: nothing   *)
(* to go on with, if the last node was to be deleted, or a list of the     *)
(* others, in their order.                                                 *)
Remainder(f, x, t, l, s) ==
  /\ x.heap.ok /\ List(x.heap, x.head, t, l)
  /\ Kept(t, f) = Kept(s, f)
  /\ x.head = head \/ (fd[head] = f /\ head \notin x.heap.alive)

Left(f, x, k, s, m) ==
  \/ ~x.heap.ok /\ fd[s[m]] = f
  \/ \E t, l :
       /\ Remainder(f, x, t, l, s) /\ x.heap.curr = s[m]
       /\ l = m - k \/ \A j \in 1 .. l : fd[t[j]] # f

LEMMA TurnStep ==
  ASSUME NEW f \in Fds, NEW m \in Nat, NEW s, NEW x \in LoopState, NEW k \in Nat \ {0},
         Left(f, x, k - 1, s, m)
  PROVE  Left(f, Turn(f, x), k, s, m)
<1>1. CASE ~x.heap.ok
  BY <1>1 DEF Turn, Left, Remainder
<1>2. CASE x.heap.ok
  <2>1. PICK t, l :
          /\ Remainder(f, x, t, l, s) /\ x.heap.curr = s[m]
          /\ l = m - (k - 1) \/ \A j \in 1 .. l : fd[t[j]] # f
    BY <1>2 DEF Left
  <2>2. List(x.heap, x.head, t, l) /\ x.heap \in HeapType /\ x.head \in Pointer
    BY <2>1 DEF Remainder, LoopState
  <2>3. l \in Nat \ {0} /\ \A j \in 1 .. l : t[j] \in Nodes /\ t[j] # NULL /\ t[j] \in x.heap.alive
    BY <2>2, ListTypes
  <2>4. CASE \A j \in 1 .. l : fd[t[j]] # f
    <3>1. Turn(f, x) = x
      BY <2>2, <2>4, SearchFails DEF Turn
    <3> QED BY <2>1, <2>4, <3>1 DEF Left
  <2>5. CASE ~\A j \in 1 .. l : fd[t[j]] # f
    <3> DEFINE hits == {j \in Nat : j \in 1 .. l /\ fd[t[j]] = f}
    <3>1. PICK i \in hits : \A j \in hits : i <= j
      <4>1. hits \in SUBSET Nat /\ hits # {}
        BY <2>3, <2>5
      <4> HIDE DEF hits
      <4> QED BY <4>1, Least
    <3>2. i \in 1 .. l /\ fd[t[i]] = f
      OBVIOUS
    <3>3. \A j \in 1 .. i - 1 : fd[t[j]] # f
      <4> SUFFICES ASSUME NEW j \in 1 .. i - 1, fd[t[j]] = f PROVE FALSE
        OBVIOUS
      <4>1. j \in hits /\ ~(i <= j)
        BY <2>3, <3>2
      <4> HIDE DEF hits
      <4> QED BY <3>1, <4>1
    <3> HIDE DEF hits
    <3> DEFINE before == IF i = 1 THEN NULL ELSE t[i - 1]
    <3>4. Search(x.heap, x.head, f) = [found |-> t[i], before |-> before]
      BY <2>2, <3>2, <3>3, SearchFinds
    <3>5. x = [head |-> x.head, heap |-> x.heap]
      BY DEF LoopState
    <3>6. /\ before \in Pointer
          /\ Turn(f, x) = Unlink([head |-> x.head, heap |-> x.heap], t[i], before)
      <4>1. before \in Pointer
        BY <2>3, <3>2, i # 1 => i - 1 \in 1 .. l DEF Pointer
      <4>2. t[i] # NULL
        BY <2>3, <3>2
      <4> HIDE DEF before
      <4>3. Turn(f, x) = Unlink(x, t[i], before)
        BY <1>2, <3>4, <4>2 DEF Turn
      <4> QED BY <3>5, <4>1, <4>3
    <3>7. CASE i = l
      <4>1. ~Turn(f, x).heap.ok
        <5> HIDE DEF before
        <5> QED BY <2>2, <3>6, <3>7, UnlinkLast
      <4>2. fd[s[m]] = f
        BY <2>1, <2>2, <3>2, <3>7 DEF List
      <4> QED BY <4>1, <4>2 DEF Left
    <3>8. CASE i # l
      <4>1. i \in 1 .. l - 1
        BY <2>3, <3>2, <3>8
      <4> DEFINE y == Turn(f, x)
                 u == Without(t, l, i)
      <4>2. /\ List(y.heap, y.head, u, l - 1)
            /\ y.head = IF i = 1 THEN t[2] ELSE x.head
            /\ y.heap.alive = x.heap.alive \ {t[i]}
            /\ y.heap.ok = x.heap.ok /\ y.heap.curr = x.heap.curr
        BY <2>2, <3>6, <4>1, UnlinkInside
      <4>3. Kept(u, f) = Kept(s, f)
        <5>1. l \in Nat /\ DOMAIN t = 1 .. l
          BY <2>2 DEF List
        <5>2. Kept(Without(t, l, i), f) = Kept(t, f)
          <6> HIDE DEF u, y, before
          <6> QED BY <3>2, <5>1, KeptWithout
        <5> QED BY <2>1, <5>2 DEF Remainder
      <4>4. y.head = head \/ (fd[head] = f /\ head \notin y.heap.alive)
        <5>1. CASE i # 1 \/ x.head # head
          BY <2>1, <2>3, <3>2, <4>1, <4>2, <5>1, 2 \in 1 .. l DEF Remainder
        <5>2. CASE i = 1 /\ x.head = head
          BY <2>2, <3>2, <4>2, <5>2 DEF List
        <5> QED BY <5>1, <5>2
      <4>5. l - 1 = m - k \/ \A j \in 1 .. l - 1 : fd[u[j]] # f
        BY <2>1, <2>3, <2>5
      <4> HIDE DEF y, u
      <4>6. Remainder(f, y, u, l - 1, s) /\ y.heap.curr = s[m]
        BY <1>2, <2>1, <4>2, <4>3, <4>4 DEF Remainder
      <4>7. Left(f, y, k, s, m)
        BY <4>5, <4>6 DEF Left
      <4> QED BY <4>7 DEF y
    <3> QED BY <3>7, <3>8
  <2> QED BY <2>4, <2>5
<1> QED
  BY <1>1, <1>2

(* What becomes of a list that starts at head.                             *)
LEMMA Deletion ==
  ASSUME NEW f \in Fds, head \in Pointer, heap \in HeapType, heap.ok,
         NEW m, NEW s, List(heap, head, s, m)
  PROVE  /\ Deleted(f) \in HeapType
         /\ \/ ~Deleted(f).ok /\ fd[s[m]] = f
            \/ \E t, l, x :
                 /\ x.heap = Deleted(f) /\ Remainder(f, x, t, l, s)
                 /\ \A j \in 1 .. l : fd[t[j]] # f
<1>1. PICK turn \in [0 .. N -> LoopState] :
        /\ turn[0] = [head |-> head, heap |-> heap]
        /\ \A k \in 1 .. N : turn[k] = Turn(f, turn[k - 1])
        /\ Deleted(f) = turn[N].heap
  BY DeletedIs
<1>2. m \in Nat \ {0} /\ m <= N /\ N \in Nat
  BY ListTypes
<1> DEFINE Good == {k \in 0 .. N : Left(f, turn[k], k, s, m)}
<1>3. 0 \in Good
  <2>1. Remainder(f, turn[0], s, m, s) /\ turn[0].heap.curr = s[m]
    BY <1>1 DEF Remainder, List
  <2> QED BY <1>2, <2>1, m = m - 0 DEF Left
<1>4. ASSUME NEW k \in 1 .. N, k - 1 \in Good PROVE k \in Good
  <2>1. turn[k] = Turn(f, turn[k - 1]) /\ turn[k - 1] \in LoopState /\ k \in Nat \ {0}
    BY <1>1, <1>2, k - 1 \in 0 .. N
  <2> QED BY <1>2, <1>4, <2>1, TurnStep
<1>5. Left(f, turn[N], N, s, m)
  <2>1. 0 .. N \subseteq Good
    <3> HIDE DEF Good
    <3> QED BY <1>2, <1>3, <1>4, Failing
  <2> QED BY <1>2, <2>1
<1>6. Deleted(f) \in HeapType
  BY <1>1, <1>2 DEF LoopState
<1>7. CASE \E t, l :
        /\ Remainder(f, turn[N], t, l, s)
        /\ l = m - N \/ \A j \in 1 .. l : fd[t[j]] # f
  <2>1. PICK t, l :
          /\ Remainder(f, turn[N], t, l, s)
          /\ l = m - N \/ \A j \in 1 .. l : fd[t[j]] # f
    BY <1>7
  <2>2. l \in Nat \ {0}
    BY <2>1 DEF Remainder, List
  <2>3. \A j \in 1 .. l : fd[t[j]] # f
    BY <1>2, <2>1, <2>2
  <2> QED BY <1>1, <1>6, <2>1, <2>3
<1> QED
  BY <1>1, <1>5, <1>6, <1>7 DEF Left

-----------------------------------------------------------------------------
(* The actions.                                                            *)

(* While head lives, a list starts there.                                  *)
ListInv ==
  /\ TypeOK
  /\ heap.ok /\ HeadLives => \E m, s : List(heap, head, s, m)

LEMMA HeapTypes == TypeOK <=> head \in Pointer /\ heap \in HeapType /\ fd \in [Nodes -> Fds]
BY DEF TypeOK, HeapType

LEMMA CreateStep ==
  ASSUME TypeOK, NEW n \in Nodes, NEW f \in Fds, CreateList(n, f)
  PROVE  /\ TypeOK' /\ heap'.ok
         /\ List(heap', head', <<n>>, 1)
<1>1. heap.ok /\ heap \in HeapType /\ n \notin heap.alive /\ fd \in [Nodes -> Fds]
  BY HeapTypes DEF CreateList, Allocate
<1>2. /\ heap' = [heap EXCEPT !.alive = @ \cup {n}, !.next[n] = NULL, !.prev[n] = NULL, !.curr = n]
      /\ head' = n /\ fd' = [fd EXCEPT ![n] = f]
  BY DEF CreateList, Allocate, New
<1>3. heap' \in HeapType /\ head' \in Pointer
  BY <1>1, <1>2 DEF HeapType, Pointer
<1>4. heap'.ok /\ n \in heap'.alive /\ heap'.next[n] = NULL /\ heap'.curr = n
  BY <1>1, <1>2 DEF HeapType
<1>5. TypeOK'
  BY <1>1, <1>2, <1>3 DEF TypeOK, HeapType
<1>6. List(heap', n, <<n>>, 1)
  BY <1>4 DEF List
<1> QED
  BY <1>2, <1>4, <1>5, <1>6

LEMMA BeginningStep ==
  ASSUME TypeOK, NEW n \in Nodes, NEW f \in Fds, AddToBeginning(n, f)
  PROVE  /\ TypeOK'
         /\ \A m, s : List(heap, head, s, m) =>
              heap'.ok /\ List(heap', head', <<n>> \o s, m + 1)
<1>1. heap.ok /\ heap \in HeapType /\ n \notin heap.alive /\ fd \in [Nodes -> Fds] /\ head \in Nodes
  BY HeapTypes DEF AddToBeginning, Allocate, Pointer
<1>2. /\ heap' = IF head \in heap.alive
                 THEN [heap EXCEPT !.alive = @ \cup {n}, !.next[n] = head,
                                   !.prev = [@ EXCEPT ![n] = NULL, ![head] = n]]
                 ELSE [heap EXCEPT !.ok = FALSE]
      /\ head' = n /\ fd' = [fd EXCEPT ![n] = f]
  BY <1>1 DEF AddToBeginning, Allocate, New, Fault, HeapType
<1>3. heap' \in HeapType /\ head' \in Pointer
  BY <1>1, <1>2 DEF HeapType, Pointer
<1>4. TypeOK'
  BY <1>1, <1>2, <1>3 DEF TypeOK, HeapType
<1>5. ASSUME NEW m, NEW s, List(heap, head, s, m)
      PROVE  heap'.ok /\ List(heap', head', <<n>> \o s, m + 1)
  <2>0. /\ m \in Nat \ {0} /\ head \in heap.alive /\ m + 1 \in Nat \ {0}
        /\ \A k \in 1 .. m : s[k] \in heap.alive /\ s[k] \in Nodes /\ s[k] # NULL
    BY <1>1, <1>5, ListTypes
  <2>1. /\ s \in [1 .. m -> heap.alive] /\ s[1] = head
        /\ \A i, j \in 1 .. m : s[i] = s[j] => i = j
        /\ \A k \in 1 .. m - 1 : heap.next[s[k]] = s[k + 1] /\ heap.prev[s[k + 1]] = s[k]
        /\ heap.next[s[m]] = NULL /\ heap.curr = s[m]
    BY <1>5 DEF List
  <2>2. /\ heap'.ok /\ heap'.alive = heap.alive \cup {n} /\ heap'.curr = heap.curr
        /\ heap'.next = [heap.next EXCEPT ![n] = head]
        /\ heap'.prev = [heap.prev EXCEPT ![n] = NULL, ![head] = n]
    BY <1>1, <1>2, <2>0 DEF HeapType
  <2> DEFINE t == <<n>> \o s
  <2>3. /\ t \in [1 .. m + 1 -> heap'.alive]
        /\ \A k \in 1 .. m + 1 : t[k] = IF k = 1 THEN n ELSE s[k - 1]
    <3>1. s \in Seq(heap'.alive) /\ Len(s) = m /\ <<n>> \in Seq(heap'.alive) /\ Len(<<n>>) = 1
      BY <2>0, <2>1, <2>2
    <3>2. t \in Seq(heap'.alive) /\ Len(t) = m + 1
      BY <2>0, <3>1
    <3>3. \A k \in 1 .. m + 1 : t[k] = IF k = 1 THEN n ELSE s[k - 1]
      BY <2>0, <3>1
    <3> HIDE DEF t
    <3> QED BY <2>0, <3>2, <3>3
  <2> HIDE DEF t
  <2>4. \A i, j \in 1 .. m + 1 : t[i] = t[j] => i = j
    <3> SUFFICES ASSUME NEW i \in 1 .. m + 1, NEW j \in 1 .. m + 1, t[i] = t[j] PROVE i = j
      OBVIOUS
    <3>1. i # 1 => i - 1 \in 1 .. m /\ t[i] = s[i - 1] /\ t[i] # n
      BY <1>1, <2>0, <2>3
    <3>2. j # 1 => j - 1 \in 1 .. m /\ t[j] = s[j - 1] /\ t[j] # n
      BY <1>1, <2>0, <2>3
    <3>3. (i = 1 => t[i] = n) /\ (j = 1 => t[j] = n)
      BY <2>0, <2>3
    <3>4. i # 1 /\ j # 1 => i - 1 = j - 1
      BY <2>1, <3>1, <3>2
    <3> QED BY <3>1, <3>2, <3>3, <3>4
  <2>5. ASSUME NEW k \in 1 .. (m + 1) - 1
        PROVE  heap'.next[t[k]] = t[k + 1] /\ heap'.prev[t[k + 1]] = t[k]
    <3>1. k \in 1 .. m /\ t[k + 1] = s[k] /\ s[k] \in Nodes /\ s[k] # n
      BY <1>1, <2>0, <2>3
    <3>2. CASE k = 1
      <4>1. t[k] = n /\ t[k + 1] = head
        BY <2>0, <2>1, <2>3, <3>1, <3>2
      <4> QED BY <1>1, <2>2, <3>1, <4>1 DEF HeapType
    <3>3. CASE k # 1
      <4>1. k - 1 \in 1 .. m - 1 /\ k - 1 \in 1 .. m /\ k - 1 + 1 = k /\ t[k] = s[k - 1]
        BY <2>0, <2>3, <3>1, <3>3
      <4>2. s[k - 1] # n /\ s[k - 1] \in Nodes /\ s[k] # head
        BY <1>1, <2>0, <2>1, <3>1, <3>3, <4>1, 1 \in 1 .. m
      <4>3. heap.next[s[k - 1]] = s[k] /\ heap.prev[s[k]] = s[k - 1]
        BY <2>1, <4>1
      <4> QED BY <1>1, <2>2, <3>1, <4>1, <4>2, <4>3 DEF HeapType
    <3> QED BY <3>2, <3>3
  <2>6. /\ t[1] = n /\ t[m + 1] = s[m]
        /\ heap'.next[t[m + 1]] = NULL /\ heap'.curr = t[m + 1]
    <3>1. t[1] = n /\ t[m + 1] = s[m] /\ s[m] # n /\ s[m] \in Nodes
      BY <1>1, <2>0, <2>3, m + 1 - 1 = m
    <3> QED BY <1>1, <2>1, <2>2, <3>1 DEF HeapType
  <2>7. List(heap', n, t, m + 1)
    BY <2>0, <2>3, <2>4, <2>5, <2>6 DEF List
  <2> QED BY <1>2, <2>2, <2>7 DEF t
<1> QED
  BY <1>4, <1>5

LEMMA EndStep ==
  ASSUME TypeOK, NEW n \in Nodes, NEW f \in Fds, AddToEnd(n, f)
  PROVE  /\ TypeOK'
         /\ heap'.ok => List(heap', head', <<n>>, 1)
         /\ heap.curr \in heap.alive => heap'.ok
<1>0. heap \in HeapType /\ fd \in [Nodes -> Fds]
  BY HeapTypes
<1>1. heap.ok /\ heap \in HeapType /\ n \notin heap.alive /\ fd \in [Nodes -> Fds]
  BY <1>0 DEF AddToEnd, Allocate
<1>2. head' = n /\ fd' = [fd EXCEPT ![n] = f]
  BY DEF AddToEnd, Allocate
<1>3. CASE heap.curr \in heap.alive
  <2>1. heap' = [heap EXCEPT !.alive = @ \cup {n}, !.prev[n] = heap.curr,
                             !.next = [@ EXCEPT ![n] = NULL, ![heap.curr] = n], !.curr = n]
    BY <1>1, <1>3 DEF AddToEnd, New, HeapType
  <2>2. heap' \in HeapType /\ head' \in Pointer
    BY <1>1, <1>2, <1>3, <2>1 DEF HeapType, Pointer
  <2>3. TypeOK'
    BY <1>1, <1>2, <2>2 DEF TypeOK, HeapType
  <2>4. heap'.ok /\ n \in heap'.alive /\ heap'.next[n] = NULL /\ heap'.curr = n
    BY <1>1, <1>3, <2>1 DEF HeapType
  <2>5. List(heap', n, <<n>>, 1)
    BY <2>4 DEF List
  <2> QED BY <1>2, <2>3, <2>4, <2>5
<1>4. CASE heap.curr \notin heap.alive
  <2>1. heap' = [heap EXCEPT !.ok = FALSE]
    BY <1>4 DEF AddToEnd, Fault
  <2>2. heap' \in HeapType /\ head' \in Pointer /\ ~heap'.ok
    BY <1>1, <1>2, <2>1 DEF HeapType, Pointer
  <2>3. TypeOK'
    BY <1>1, <1>2, <2>2 DEF TypeOK, HeapType
  <2> QED BY <1>4, <2>2, <2>3
<1> QED
  BY <1>3, <1>4

LEMMA PopStep ==
  ASSUME TypeOK, PopHead
  PROVE  /\ TypeOK'
         /\ heap'.ok => HeadLives
         /\ \A m, s : List(heap, head, s, m) =>
              IF m = 1 THEN ~heap'.ok ELSE heap'.ok /\ List(heap', head', Tail(s), m - 1)
<1>1. heap.ok /\ heap \in HeapType /\ head \in Nodes /\ fd' = fd
  BY HeapTypes DEF PopHead, Pointer
<1> DEFINE fine == head \in heap.alive /\ heap.next[head] \in heap.alive
<1>2. CASE ~fine
  <2>1. heap' = [heap EXCEPT !.ok = FALSE] /\ head' = head
    BY <1>2 DEF PopHead, Fault
  <2>2. heap' \in HeapType /\ ~heap'.ok
    BY <1>1, <2>1 DEF HeapType
  <2>3. TypeOK'
    BY <1>1, <2>1, <2>2 DEF TypeOK, HeapType
  <2>4. ASSUME NEW m, NEW s, List(heap, head, s, m) PROVE m = 1
    <3>1. m \in Nat \ {0} /\ head \in heap.alive /\ \A k \in 1 .. m : s[k] \in heap.alive
      BY <1>1, <2>4, ListTypes
    <3>2. m # 1 => heap.next[s[1]] = s[2] /\ s[1] = head /\ 2 \in 1 .. m
      BY <2>4, <3>1, 1 + 1 = 2 DEF List
    <3> QED BY <1>2, <3>1, <3>2
  <2> QED BY <2>2, <2>3, <2>4
<1>3. CASE fine
  <2>1. /\ heap' = [heap EXCEPT !.prev[heap.next[head]] = NULL, !.alive = @ \ {head}]
        /\ head' = heap.next[head]
    BY <1>3 DEF PopHead
  <2>2. /\ heap' \in HeapType /\ head' \in Pointer /\ heap'.ok
        /\ heap'.alive = heap.alive \ {head} /\ heap'.next = heap.next /\ heap'.curr = heap.curr
        /\ heap'.prev = [heap.prev EXCEPT ![heap.next[head]] = NULL]
    BY <1>1, <1>3, <2>1 DEF HeapType, Pointer
  <2>3. TypeOK'
    BY <1>1, <2>1, <2>2, HeapTypes DEF TypeOK, HeapType
  <2>4. ASSUME NEW m, NEW s, List(heap, head, s, m)
        PROVE  m # 1 /\ List(heap', head', Tail(s), m - 1)
    <3>1. /\ m \in Nat \ {0} /\ head \in heap.alive
          /\ \A k \in 1 .. m : s[k] \in heap.alive /\ s[k] \in Nodes /\ s[k] # NULL
      BY <1>1, <2>4, ListTypes
    <3>2. /\ s \in [1 .. m -> heap.alive] /\ s[1] = head
          /\ \A i, j \in 1 .. m : s[i] = s[j] => i = j
          /\ \A k \in 1 .. m - 1 : heap.next[s[k]] = s[k + 1] /\ heap.prev[s[k + 1]] = s[k]
          /\ heap.next[s[m]] = NULL /\ heap.curr = s[m]
      BY <2>4 DEF List
    <3>3. m # 1
      <4>1. NULL \notin heap.alive
        BY <1>1, NoNode DEF HeapType
      <4> QED BY <1>3, <3>2, <4>1
    <3>4. m - 1 \in Nat \ {0} /\ 1 \in 1 .. m - 1 /\ 1 \in 1 .. m /\ 2 \in 1 .. m
      BY <3>1, <3>3
    <3>5. head' = s[2]
      BY <2>1, <3>2, <3>4, 1 + 1 = 2
    <3> DEFINE t == Tail(s)
    <3>6. t = [k \in 1 .. m - 1 |-> s[k + 1]]
      <4>1. s \in Seq(heap.alive) /\ Len(s) = m /\ s # <<>>
        BY <3>1, <3>2
      <4>2. t \in Seq(heap.alive) /\ Len(t) = m - 1
        BY <3>1, <4>1
      <4>3. \A k \in 1 .. m - 1 : t[k] = s[k + 1]
        BY <3>1, <4>1
      <4>4. t = [k \in 1 .. m - 1 |-> t[k]]
        <5> HIDE DEF t
        <5> QED BY <3>4, <4>2
      <4> HIDE DEF t
      <4> QED BY <4>3, <4>4
    <3> HIDE DEF t
    <3>7. \A k \in 1 .. m - 1 : k + 1 \in 1 .. m /\ k + 1 # 1 /\ t[k] = s[k + 1]
      BY <3>1, <3>6
    <3>8. /\ \A k \in 1 .. m - 1 : t[k] \in heap'.alive
          /\ t \in [1 .. m - 1 -> heap'.alive]
      <4>1. ASSUME NEW k \in 1 .. m - 1 PROVE s[k + 1] \in heap'.alive
        <5>1. k + 1 \in 1 .. m /\ k + 1 # 1
          BY <3>7
        <5> QED BY <2>2, <3>1, <3>2, <3>4, <5>1
      <4> QED BY <3>6, <4>1
    <3>9. \A i, j \in 1 .. m - 1 : t[i] = t[j] => i = j
      <4> SUFFICES ASSUME NEW i \in 1 .. m - 1, NEW j \in 1 .. m - 1, t[i] = t[j] PROVE i = j
        OBVIOUS
      <4>1. i + 1 = j + 1
        BY <3>2, <3>7
      <4> QED BY <3>1, <4>1
    <3>10. ASSUME NEW k \in 1 .. (m - 1) - 1
           PROVE  heap'.next[t[k]] = t[k + 1] /\ heap'.prev[t[k + 1]] = t[k]
      <4>1. /\ k \in 1 .. m - 1 /\ k + 1 \in 1 .. m - 1
            /\ t[k] = s[k + 1] /\ t[k + 1] = s[k + 1 + 1] /\ k + 1 + 1 \in 1 .. m /\ k + 1 + 1 # 2
        BY <3>1, <3>7
      <4>2. heap.next[s[k + 1]] = s[k + 1 + 1] /\ heap.prev[s[k + 1 + 1]] = s[k + 1]
        BY <3>2, <4>1
      <4>3. s[k + 1 + 1] # heap.next[head]
        BY <2>1, <3>2, <3>4, <3>5, <4>1
      <4>4. s[k + 1 + 1] \in Nodes
        BY <3>1, <4>1
      <4> QED BY <1>1, <2>2, <4>1, <4>2, <4>3, <4>4 DEF HeapType
    <3>11. t[1] = head' /\ t[m - 1] = s[m]
      BY <3>1, <3>4, <3>5, <3>7, 1 + 1 = 2, m - 1 + 1 = m
    <3>12. List(heap', head', t, m - 1)
      BY <2>2, <3>2, <3>4, <3>8, <3>9, <3>10, <3>11 DEF List
    <3> QED BY <3>3, <3>12 DEF t
  <2> QED BY <1>3, <2>2, <2>3, <2>4 DEF HeadLives
<1> QED
  BY <1>2, <1>3

LEMMA DeleteStep ==
  ASSUME TypeOK, NEW f \in Fds, DeleteFromList(f)
  PROVE  /\ TypeOK'
         /\ heap'.ok => HeadLives
         /\ \A m, s : List(heap, head, s, m) =>
              \/ ~heap'.ok /\ fd[s[m]] = f
              \/ heap'.ok /\ head' \notin heap'.alive /\ fd[head] = f
              \/ heap'.ok /\ \E l, t : List(heap', head', t, l) /\ Order(t) = Kept(s, f)
<1>1. heap.ok /\ heap \in HeapType /\ head \in Pointer /\ fd' = fd /\ head' = head
  BY HeapTypes DEF DeleteFromList
<1>2. CASE head \notin heap.alive
  <2>1. heap' = [heap EXCEPT !.ok = FALSE]
    BY <1>2 DEF DeleteFromList, Fault
  <2>2. heap' \in HeapType /\ ~heap'.ok
    BY <1>1, <2>1 DEF HeapType
  <2>3. TypeOK'
    BY <1>1, <2>2 DEF TypeOK, HeapType
  <2>4. ASSUME NEW m, NEW s, List(heap, head, s, m) PROVE FALSE
    BY <1>1, <1>2, <2>4, ListTypes
  <2> QED BY <2>2, <2>3, <2>4
<1>3. CASE head \in heap.alive
  <2>1. heap' = Deleted(f)
    BY <1>3 DEF DeleteFromList
  <2>2. Deleted(f) \in HeapType
    <3>1. PICK turn \in [0 .. N -> LoopState] : Deleted(f) = turn[N].heap
      BY <1>1, DeletedIs
    <3> QED BY <3>1, NIs DEF LoopState
  <2>3. TypeOK'
    BY <1>1, <2>1, <2>2 DEF TypeOK, HeapType
  <2>4. ASSUME NEW m, NEW s, List(heap, head, s, m)
        PROVE  \/ ~heap'.ok /\ fd[s[m]] = f
               \/ heap'.ok /\ head' \notin heap'.alive /\ fd[head] = f
               \/ heap'.ok /\ \E l, t : List(heap', head', t, l) /\ Order(t) = Kept(s, f)
    <3>1. CASE ~Deleted(f).ok /\ fd[s[m]] = f
      BY <2>1, <3>1
    <3>2. CASE \E t, l, x : /\ x.heap = Deleted(f) /\ Remainder(f, x, t, l, s)
                            /\ \A j \in 1 .. l : fd[t[j]] # f
      <4>1. PICK t, l, x : /\ x.heap = Deleted(f) /\ Remainder(f, x, t, l, s)
                           /\ \A j \in 1 .. l : fd[t[j]] # f
        BY <3>2
      <4>2. /\ heap'.ok /\ List(heap', x.head, t, l) /\ Kept(t, f) = Kept(s, f)
            /\ x.head = head \/ (fd[head] = f /\ head \notin heap'.alive)
        BY <2>1, <4>1 DEF Remainder
      <4>3. Kept(t, f) = Order(t)
        <5>1. ToSet(t) = {t[j] : j \in 1 .. l}
          BY <4>2 DEF List, ToSet
        <5>2. \A a \in ToSet(t) : fd[a] # f
          BY <4>1, <5>1
        <5>3. ASSUME NEW e \in Order(t) PROVE fd[e[1]] # f /\ fd[e[2]] # f
          BY <5>2, OrderPairs
        <5> QED BY <5>3 DEF Kept
      <4> QED BY <1>1, <4>2, <4>3
    <3> QED BY <1>1, <2>4, <3>1, <3>2, Deletion
  <2> QED BY <1>3, <2>3, <2>4 DEF HeadLives
<1> QED
  BY <1>2, <1>3

LEMMA InitList == Init => ListInv
<1> SUFFICES ASSUME Init PROVE ListInv
  OBVIOUS
<1>1. TypeOK
  BY DEF Init, TypeOK, Pointer
<1>2. ~HeadLives
  BY DEF Init, HeadLives
<1> QED
  BY <1>1, <1>2 DEF ListInv

LEMMA ListStep == ListInv /\ [Next]_vars => ListInv'
<1> SUFFICES ASSUME ListInv, [Next]_vars PROVE ListInv'
  OBVIOUS
<1>0. TypeOK /\ (heap.ok /\ HeadLives => \E m, s : List(heap, head, s, m))
  BY DEF ListInv
<1> DEFINE Held == \E m, s : List(heap', head', s, m)
<1> SUFFICES TypeOK' /\ (heap'.ok /\ head' \in heap'.alive => Held)
  BY DEF ListInv, HeadLives
<1>1. ASSUME NEW n \in Nodes, NEW f \in Fds, CreateList(n, f)
      PROVE  TypeOK' /\ Held
  BY <1>0, <1>1, CreateStep
<1>2. ASSUME NEW n \in Nodes, NEW f \in Fds, AddToBeginning(n, f)
      PROVE  TypeOK' /\ (heap'.ok => Held)
  <2>1. heap'.ok => HeadLives /\ heap.ok
    BY <1>2 DEF AddToBeginning, Allocate, HeadLives, Fault, TypeOK, ListInv
  <2> QED BY <1>0, <1>2, <2>1, BeginningStep
<1>3. ASSUME NEW n \in Nodes, NEW f \in Fds, AddToEnd(n, f)
      PROVE  TypeOK' /\ (heap'.ok => Held)
  BY <1>0, <1>3, EndStep
<1>4. CASE AddFails
  <2>1. head' = NULL /\ heap' = heap /\ fd' = fd /\ NULL \notin heap.alive
    BY <1>0, <1>4, HeapTypes, NoNode DEF AddFails, HeapType
  <2>2. TypeOK'
    BY <1>0, <2>1 DEF TypeOK, Pointer
  <2> QED BY <2>1, <2>2
<1>5. CASE PopHead
  <2>1. heap.ok
    BY <1>5 DEF PopHead
  <2>2. TypeOK' /\ (heap'.ok => HeadLives)
    BY <1>0, <1>5, PopStep
  <2>3. ASSUME heap'.ok PROVE Held
    <3>1. PICK m, s : List(heap, head, s, m)
      BY <1>0, <2>1, <2>2, <2>3
    <3> QED BY <1>0, <1>5, <2>3, <3>1, PopStep
  <2> QED BY <2>2, <2>3
<1>6. ASSUME NEW f \in Fds, DeleteFromList(f)
      PROVE  TypeOK' /\ (heap'.ok /\ head' \in heap'.alive => Held)
  <2>1. heap.ok
    BY <1>6 DEF DeleteFromList
  <2>2. TypeOK' /\ (heap'.ok => HeadLives)
    BY <1>0, <1>6, DeleteStep
  <2>3. ASSUME heap'.ok, head' \in heap'.alive PROVE Held
    <3>1. PICK m, s : List(heap, head, s, m)
      BY <1>0, <2>1, <2>2, <2>3
    <3>2. \E l, t : List(heap', head', t, l)
      BY <1>0, <1>6, <2>3, <3>1, DeleteStep
    <3> QED BY <3>2
  <2> QED BY <2>2, <2>3
<1>7. CASE UNCHANGED vars
  BY <1>0, <1>7 DEF vars, TypeOK, HeadLives
<1> QED
  BY <1>1, <1>2, <1>3, <1>4, <1>5, <1>6, <1>7 DEF Next

(* What the properties say of a list that is there.                        *)
LEMMA ListSeen ==
  ASSUME TypeOK, NEW m, NEW s, List(heap, head, s, m)
  PROVE  /\ Visible = s /\ Len(Visible) = m /\ Last(Visible) = s[m]
         /\ m \in Nat \ {0} /\ s[1] = head
<1>1. heap \in HeapType
  BY HeapTypes
<1>2. Visible = s
  BY <1>1, SeenOfList DEF Visible
<1>3. m \in Nat \ {0} /\ s \in [1 .. m -> heap.alive] /\ s[1] = head
  BY DEF List
<1>4. Len(s) = m
  BY <1>3
<1>5. Last(s) = s[m]
  BY <1>4 DEF Last
<1> QED
  BY <1>2, <1>3, <1>4, <1>5

LEMMA ListIs == ListInv => ListShape
<1> SUFFICES ASSUME ListInv, heap.ok, HeadLives
             PROVE  /\ IsInjective(Visible)
                    /\ Last(Visible) = heap.curr /\ heap.next[heap.curr] = NULL
                    /\ \A k \in 2 .. Len(Visible) : heap.prev[Visible[k]] = Visible[k - 1]
  BY DEF ListInv, ListShape
<1>1. PICK m, s : List(heap, head, s, m)
  BY DEF ListInv
<1>2. Visible = s /\ Len(Visible) = m /\ Last(Visible) = s[m] /\ m \in Nat \ {0}
  BY <1>1, ListSeen DEF ListInv
<1>3. IsInjective(s)
  BY <1>1 DEF List, IsInjective
<1>4. ASSUME NEW k \in 2 .. m PROVE heap.prev[s[k]] = s[k - 1]
  <2>1. k - 1 \in 1 .. m - 1 /\ k - 1 + 1 = k
    BY <1>2
  <2> QED BY <1>1, <2>1 DEF List
<1>5. s[m] = heap.curr /\ heap.next[heap.curr] = NULL
  BY <1>1 DEF List
<1> QED
  BY <1>2, <1>3, <1>4, <1>5

(* The list from a head that has not been freed is well formed, whatever   *)
(* calls of work.c the caller made before.                                 *)
THEOREM ListShapeHolds == Spec => []ListShape
BY InitList, ListStep, ListIs, PTL DEF Spec

(* NULL or a freed node is followed only when the last node of the list is *)
(* popped or deleted.                                                      *)
THEOREM FaultsOnlyAtTheEndHolds == Spec => FaultsOnlyAtTheEnd
<1> DEFINE Step == HeadLives /\ ~heap'.ok =>
                     \/ PopHead /\ Len(Visible) = 1
                     \/ \E f \in Fds : DeleteFromList(f) /\ fd[Last(Visible)] = f
<1>1. ListInv /\ [Next]_vars => [Step]_vars
  <2> SUFFICES ASSUME ListInv, Next, HeadLives, ~heap'.ok
               PROVE  \/ PopHead /\ Len(Visible) = 1
                      \/ \E f \in Fds : DeleteFromList(f) /\ fd[Last(Visible)] = f
    OBVIOUS
  <2>0. TypeOK /\ heap.ok
    BY DEF ListInv, Next, CreateList, AddToBeginning, AddToEnd, Allocate, AddFails, PopHead,
           DeleteFromList
  <2>1. PICK m, s : List(heap, head, s, m)
    BY <2>0 DEF ListInv
  <2>2. Len(Visible) = m /\ Last(Visible) = s[m]
    BY <2>0, <2>1, ListSeen
  <2>3. head # NULL /\ heap.curr \in heap.alive
    <3>1. NULL \notin heap.alive
      BY <2>0, HeapTypes, NoNode DEF HeapType
    <3>2. heap.curr \in heap.alive
      BY <2>0, <2>1, HeapTypes, ListTypes DEF List
    <3> QED BY <3>1, <3>2 DEF HeadLives
  <2>4. ASSUME NEW n \in Nodes, NEW f \in Fds
        PROVE  ~CreateList(n, f) /\ ~AddToBeginning(n, f) /\ ~AddToEnd(n, f)
    <3>1. ~CreateList(n, f)
      BY <2>3 DEF CreateList
    <3>2. ~AddToBeginning(n, f)
      BY <2>0, <2>1, BeginningStep
    <3>3. ~AddToEnd(n, f)
      BY <2>0, <2>3, EndStep
    <3> QED BY <3>1, <3>2, <3>3
  <2>5. ~AddFails
    BY <2>0 DEF AddFails
  <2>6. PopHead => m = 1
    BY <2>0, <2>1, PopStep
  <2>7. ASSUME NEW f \in Fds, DeleteFromList(f) PROVE fd[s[m]] = f
    BY <2>0, <2>1, <2>7, DeleteStep
  <2> QED BY <2>2, <2>4, <2>5, <2>6, <2>7 DEF Next
<1> QED
  BY <1>1, InitList, ListStep, PTL DEF Spec, FaultsOnlyAtTheEnd

(* Only the deletion of the client whose node is the first leaves the      *)
(* caller with a freed head.                                               *)
THEOREM HeadFreedOnlyByDeleteHolds == Spec => HeadFreedOnlyByDelete
<1> DEFINE Step == HeadLives /\ heap'.ok /\ head' # NULL /\ head' \notin heap'.alive =>
                     \E f \in Fds : DeleteFromList(f) /\ fd[head] = f
<1>1. ListInv /\ [Next]_vars => [Step]_vars
  <2> SUFFICES ASSUME ListInv, Next, HeadLives, heap'.ok, head' # NULL, head' \notin heap'.alive
               PROVE  \E f \in Fds : DeleteFromList(f) /\ fd[head] = f
    OBVIOUS
  <2>0. TypeOK /\ heap.ok
    BY DEF ListInv, Next, CreateList, AddToBeginning, AddToEnd, Allocate, AddFails, PopHead,
           DeleteFromList
  <2>1. PICK m, s : List(heap, head, s, m)
    BY <2>0 DEF ListInv
  <2>2. ~\E l, t : List(heap', head', t, l)
    BY DEF List
  <2>3. ASSUME NEW n \in Nodes, NEW f \in Fds
        PROVE  ~CreateList(n, f) /\ ~AddToBeginning(n, f) /\ ~AddToEnd(n, f)
    BY <2>0, <2>1, <2>2, CreateStep, BeginningStep, EndStep
  <2>4. ~AddFails
    BY DEF AddFails
  <2>5. ~PopHead
    BY <2>0, <2>1, <2>2, PopStep
  <2>6. ASSUME NEW f \in Fds, DeleteFromList(f) PROVE fd[head] = f
    <3>1. \/ heap'.ok /\ head' \notin heap'.alive /\ fd[head] = f
          \/ \E l, t : List(heap', head', t, l)
      BY <2>0, <2>1, <2>6, DeleteStep
    <3> QED BY <2>2, <3>1
  <2> QED BY <2>3, <2>4, <2>5, <2>6 DEF Next
<1> QED
  BY <1>1, InitList, ListStep, PTL DEF Spec, HeadFreedOnlyByDelete

(* At the front of the list the functions do what their names say.         *)
THEOREM WorksAtTheFrontHolds == Spec => WorksAtTheFront
<1> DEFINE Goes ==
      /\ \A n \in Nodes, f \in Fds :
           /\ AddToBeginning(n, f) => Visible' = <<n>> \o Visible
           /\ AddToEnd(n, f) => Visible' = <<n>>
      /\ PopHead /\ heap'.ok => Visible' = Tail(Visible)
      /\ \A f \in Fds :
           DeleteFromList(f) /\ fd[head] # f /\ fd[Last(Visible)] # f
             => Order(Visible') = {e \in Order(Visible) : f \notin {fd[e[1]], fd[e[2]]}}
<1>1. ListInv => [HeadLives => Goes]_vars
  <2> SUFFICES ASSUME ListInv, HeadLives PROVE Goes
    OBVIOUS
  <2>0. TypeOK
    BY DEF ListInv
  <2>1. ASSUME heap.ok
        PROVE  \E m, s : List(heap, head, s, m) /\ Visible = s /\ Last(Visible) = s[m]
                         /\ m \in Nat \ {0} /\ heap.curr \in heap.alive
    <3>1. PICK m, s : List(heap, head, s, m)
      BY <2>1 DEF ListInv
    <3>2. heap.curr \in heap.alive
      BY <2>0, <3>1, HeapTypes, ListTypes DEF List
    <3> QED BY <2>0, <3>1, <3>2, ListSeen
  <2>2. ASSUME TypeOK', NEW t, NEW l, List(heap', head', t, l) PROVE Visible' = t
    <3>1. heap' \in HeapType
      BY <2>2 DEF TypeOK, HeapType
    <3>2. Seen(heap', head') = t
      BY <2>2, <3>1, SeenOfList
    <3> QED BY <3>2 DEF Visible
  <2>3. ASSUME NEW n \in Nodes, NEW f \in Fds, AddToBeginning(n, f)
        PROVE  Visible' = <<n>> \o Visible
    <3>1. heap.ok
      BY <2>3 DEF AddToBeginning, Allocate
    <3>2. PICK m, s : List(heap, head, s, m) /\ Visible = s
      BY <2>1, <3>1
    <3>3. TypeOK' /\ List(heap', head', <<n>> \o s, m + 1)
      BY <2>0, <2>3, <3>2, BeginningStep
    <3> QED BY <2>2, <3>2, <3>3
  <2>4. ASSUME NEW n \in Nodes, NEW f \in Fds, AddToEnd(n, f)
        PROVE  Visible' = <<n>>
    <3>1. heap.ok
      BY <2>4 DEF AddToEnd, Allocate
    <3>2. heap.curr \in heap.alive
      BY <2>1, <3>1
    <3>3. TypeOK' /\ List(heap', head', <<n>>, 1)
      BY <2>0, <2>4, <3>2, EndStep
    <3> QED BY <2>2, <3>3
  <2>5. ASSUME PopHead, heap'.ok PROVE Visible' = Tail(Visible)
    <3>1. heap.ok
      BY <2>5 DEF PopHead
    <3>2. PICK m, s : List(heap, head, s, m) /\ Visible = s
      BY <2>1, <3>1
    <3>3. TypeOK' /\ List(heap', head', Tail(s), m - 1)
      BY <2>0, <2>5, <3>2, PopStep
    <3> QED BY <2>2, <3>2, <3>3
  <2>6. ASSUME NEW f \in Fds, DeleteFromList(f), fd[head] # f, fd[Last(Visible)] # f
        PROVE  Order(Visible') = Kept(Visible, f)
    <3>1. heap.ok
      BY <2>6 DEF DeleteFromList
    <3>2. PICK m, s : List(heap, head, s, m) /\ Visible = s /\ Last(Visible) = s[m]
      BY <2>1, <3>1
    <3>3. PICK l, t : List(heap', head', t, l) /\ Order(t) = Kept(s, f)
      BY <2>0, <2>6, <3>2, DeleteStep
    <3>4. TypeOK'
      BY <2>0, <2>6, DeleteStep
    <3> QED BY <2>2, <3>2, <3>3, <3>4
  <2> QED BY <2>3, <2>4, <2>5, <2>6 DEF Kept
<1> QED
  BY <1>1, InitList, ListStep, PTL DEF Spec, WorksAtTheFront

-----------------------------------------------------------------------------
(* The queue.                                                              *)

AddStates == {"idle", "curr", "prev", "next", "return"}

AddType == [at : AddStates, head : Pointer, node : Pointer]

WorkerType ==
  [at : {"wait", "work", "pop", "store"}, client : Fds \cup {NULL}, job : Pointer, head : Pointer]

QueueTypes ==
  /\ head \in Pointer /\ heap \in HeapType /\ fd \in [Nodes -> Fds]
  /\ adding \in [Fds -> AddType]
  /\ worker \in WorkerType
  /\ overlap \in BOOLEAN
  /\ \A f \in Fds : adding[f].at \in {"curr", "prev", "next"} => adding[f].node \in Nodes

LEMMA InitQueueTypes == QueueInit => QueueTypes
<1> SUFFICES ASSUME QueueInit PROVE QueueTypes
  OBVIOUS
<1>1. head \in Pointer /\ heap \in HeapType
  BY DEF QueueInit, Init, Pointer, HeapType
<1>2. fd \in [Nodes -> Fds]
  BY DEF QueueInit, Init
<1>3. Idle \in AddType /\ Waiting \in WorkerType
  BY DEF Idle, Waiting, AddType, WorkerType, AddStates, Pointer
<1>4. adding = [f \in Fds |-> Idle] /\ worker = Waiting /\ overlap = FALSE
  BY DEF QueueInit
<1>5. adding \in [Fds -> AddType] /\ worker \in WorkerType /\ overlap \in BOOLEAN
  BY <1>3, <1>4
<1>6. \A f \in Fds : adding[f].at = "idle"
  BY <1>4 DEF Idle
<1> QED
  BY <1>1, <1>2, <1>5, <1>6 DEF QueueTypes

(* What a step does to one node's record, or the worker's.                 *)
LEMMA QueueTypesStep == QueueTypes /\ [QueueNext]_allVars => QueueTypes'
<1> SUFFICES ASSUME QueueTypes, [QueueNext]_allVars PROVE QueueTypes'
  OBVIOUS
<1>0. /\ head \in Pointer /\ heap \in HeapType /\ fd \in [Nodes -> Fds]
      /\ adding \in [Fds -> AddType] /\ worker \in WorkerType /\ overlap \in BOOLEAN
      /\ Fault \in HeapType /\ NULL \in Pointer /\ Nodes \subseteq Pointer
  BY DEF QueueTypes, Fault, HeapType, Pointer
<1>1. ASSUME NEW f \in Fds, NEW n \in Nodes, BeginAdd(f, n) PROVE QueueTypes'
  <2>1. heap' \in HeapType /\ fd' \in [Nodes -> Fds]
    BY <1>0, <1>1 DEF BeginAdd, New, Allocate, HeapType, Pointer
  <2>2. adding' \in [Fds -> AddType]
    <3>1. [at |-> IF head = NULL THEN "curr" ELSE "prev", head |-> head, node |-> n] \in AddType
      BY <1>0 DEF AddType, AddStates
    <3> QED BY <1>0, <1>1, <3>1 DEF BeginAdd
  <2>3. \A g \in Fds : adding'[g].at \in {"curr", "prev", "next"} => adding'[g].node \in Nodes
    BY <1>0, <1>1 DEF BeginAdd, QueueTypes
  <2>4. overlap' \in BOOLEAN
    BY <1>1 DEF BeginAdd, Call
  <2>5. head' = head /\ worker' = worker
    BY <1>1 DEF BeginAdd
  <2> QED BY <1>0, <2>1, <2>2, <2>3, <2>4, <2>5 DEF QueueTypes
<1>2. ASSUME NEW f \in Fds, SetPrev(f) \/ SetNext(f) \/ SetCurr(f) PROVE QueueTypes'
  <2>1. adding[f].node \in Nodes
    BY <1>2 DEF SetPrev, SetNext, SetCurr, QueueTypes
  <2>2. heap' \in HeapType
    BY <1>0, <1>2, <2>1 DEF SetPrev, SetNext, SetCurr, HeapType
  <2>3. PICK at \in AddStates : adding' = [adding EXCEPT ![f].at = at]
    BY <1>2 DEF SetPrev, SetNext, SetCurr, To, AddStates
  <2>4. adding' \in [Fds -> AddType] /\ \A g \in Fds : adding'[g].node = adding[g].node
    BY <1>0, <2>3 DEF AddType
  <2>5. \A g \in Fds : adding'[g].at \in {"curr", "prev", "next"} => adding'[g].node \in Nodes
    BY <1>0, <2>1, <2>3, <2>4 DEF QueueTypes
  <2>6. UNCHANGED <<head, fd, worker, overlap>>
    BY <1>2 DEF SetPrev, SetNext, SetCurr
  <2> QED BY <1>0, <2>2, <2>4, <2>5, <2>6 DEF QueueTypes
<1>3. ASSUME NEW f \in Fds, EndAdd(f) PROVE QueueTypes'
  <2>1. Idle \in AddType /\ Idle.at = "idle"
    BY <1>0 DEF Idle, AddType, AddStates
  <2>2. head' = adding[f].node /\ adding' = [adding EXCEPT ![f] = Idle]
    BY <1>3 DEF EndAdd
  <2>3. head' \in Pointer
    BY <1>0, <2>2 DEF AddType
  <2>4. UNCHANGED <<heap, fd, worker, overlap>>
    BY <1>3 DEF EndAdd
  <2> QED BY <1>0, <2>1, <2>2, <2>3, <2>4 DEF QueueTypes
<1>4. CASE TakeClient \/ Work
  <2>1. /\ UNCHANGED <<head, fd, adding>>
        /\ heap' \in {heap, Fault} /\ overlap' \in BOOLEAN
    BY <1>0, <1>4 DEF TakeClient, Work
  <2>2. worker' \in WorkerType
    <3>1. CASE worker' = worker
      BY <1>0, <3>1
    <3>2. CASE TakeClient /\ heap.curr \in heap.alive
      <4>1. heap.curr \in Nodes
        BY <1>0, <3>2 DEF HeapType
      <4>2. fd[heap.curr] \in Fds
        BY <1>0, <4>1
      <4>3. worker' = [worker EXCEPT !.at = "work", !.client = fd[heap.curr]]
        BY <3>2 DEF TakeClient
      <4> QED BY <1>0, <4>2, <4>3 DEF WorkerType
    <3>3. CASE Work /\ head \in heap.alive
      <4>1. worker' = [worker EXCEPT !.at = "pop", !.job = head]
        BY <3>3 DEF Work
      <4> QED BY <1>0, <4>1 DEF WorkerType
    <3> QED BY <1>4, <3>1, <3>2, <3>3 DEF TakeClient, Work
  <2> QED BY <1>0, <2>1, <2>2 DEF QueueTypes
<1>5. CASE Pop
  <2>1. UNCHANGED <<head, fd, adding, overlap>>
    BY <1>5 DEF Pop
  <2>2. head \in heap.alive => heap.next[head] \in Pointer
    BY <1>0 DEF HeapType
  <2>3. heap' \in HeapType
    <3>1. CASE head \in heap.alive /\ heap.next[head] \in heap.alive
      <4>1. heap' = [heap EXCEPT !.prev[heap.next[head]] = NULL, !.alive = @ \ {head}]
        BY <1>0, <1>5, <3>1, NoNode DEF Pop, HeapType
      <4> QED BY <1>0, <4>1 DEF HeapType
    <3>2. CASE heap' \in {heap, Fault}
      BY <1>0, <3>2
    <3> QED BY <1>5, <3>1, <3>2 DEF Pop
  <2>4. worker' \in WorkerType
    BY <1>0, <1>5, <2>2 DEF Pop, PopTo, WorkerType
  <2> QED BY <1>0, <2>1, <2>3, <2>4 DEF QueueTypes
<1>6. CASE Answer
  <2>1. UNCHANGED <<heap, fd, adding, overlap>> /\ head' = worker.head /\ worker' = Waiting
    BY <1>6 DEF Answer
  <2>2. Waiting \in WorkerType /\ worker.head \in Pointer
    BY <1>0 DEF Waiting, WorkerType
  <2> QED BY <1>0, <2>1, <2>2 DEF QueueTypes
<1>7. ASSUME NEW f \in Fds, NoMemory(f) PROVE QueueTypes'
  <2>1. [at |-> "return", head |-> head, node |-> NULL] \in AddType
    BY <1>0 DEF AddType, AddStates
  <2>2. adding' = [adding EXCEPT ![f] = [at |-> "return", head |-> head, node |-> NULL]]
    BY <1>7 DEF NoMemory
  <2>3. adding' \in [Fds -> AddType]
    BY <1>0, <2>1, <2>2
  <2>4. \A g \in Fds : adding'[g].at \in {"curr", "prev", "next"} => adding'[g].node \in Nodes
    BY <1>0, <2>2 DEF QueueTypes
  <2>5. UNCHANGED <<head, heap, fd, worker>> /\ overlap' \in BOOLEAN
    BY <1>7 DEF NoMemory, Call, vars
  <2> QED BY <1>0, <2>3, <2>4, <2>5 DEF QueueTypes
<1>8. CASE UNCHANGED allVars
  BY <1>8 DEF allVars, vars, queue, QueueTypes
<1> QED
  BY <1>1, <1>2, <1>3, <1>4, <1>5, <1>6, <1>7, <1>8 DEF QueueNext

LEMMA QueueTypesAlways == QueueSpec => []QueueTypes
BY InitQueueTypes, QueueTypesStep, PTL DEF QueueSpec

-----------------------------------------------------------------------------
(* While nothing has overlapped, one thread at a time is at the queue, and *)
(* the list as head and curr have it is the node added last, or empty.     *)

Alone ==
  /\ \A f, g \in Fds : adding[f].at # "idle" /\ adding[g].at # "idle" => f = g
  /\ worker.at # "wait" => \A f \in Fds : adding[f].at = "idle"

LastNode(n) == n \in heap.alive /\ heap.next[n] = NULL

(* Between the calls ...                                                   *)
Settled ==
  (\A f \in Fds : adding[f].at = "idle") /\ head # NULL =>
    head = heap.curr /\ LastNode(head)

(* ... and within one.                                                     *)
Linking ==
  \A f \in Fds :
    LET a == adding[f] IN
    /\ a.at \in {"curr", "prev", "next"} => LastNode(a.node)
    /\ a.at \in {"prev", "next"} => heap.curr \in heap.alive /\ heap.curr # a.node
    /\ a.at = "return" /\ a.node # NULL => heap.curr = a.node /\ LastNode(a.node)

(* The worker holds the client of the one job there is.                    *)
OneJob ==
  /\ answers = <<>> /\ worker.at # "store"
  /\ worker.at # "wait" => head # NULL /\ worker.client = fd[head]
  /\ worker.at = "pop" => worker.job = head

Undisturbed == ~overlap => Alone /\ Settled /\ Linking /\ OneJob

LEMMA UndisturbedStep ==
  QueueTypes /\ Undisturbed /\ [QueueNext]_allVars => Undisturbed'
<1> SUFFICES ASSUME QueueTypes, Undisturbed, [QueueNext]_allVars, ~overlap'
             PROVE  Alone' /\ Settled' /\ Linking' /\ OneJob'
  BY DEF Undisturbed
<1>0. ~overlap /\ Alone /\ Settled /\ Linking /\ OneJob
  <2>1. ~overlap
    BY DEF QueueNext, BeginAdd, NoMemory, Call, SetPrev, SetNext, SetCurr, EndAdd, TakeClient,
           Work, Pop, Answer, allVars, queue
  <2> QED BY <2>1 DEF Undisturbed
<1>t. /\ head \in Pointer /\ heap \in HeapType /\ fd \in [Nodes -> Fds]
      /\ adding \in [Fds -> AddType] /\ worker \in WorkerType
      /\ \A f \in Fds : adding[f].at \in {"curr", "prev", "next"} => adding[f].node \in Nodes
      /\ NULL \notin heap.alive
  BY NoNode DEF QueueTypes, HeapType
<1>1. ASSUME NEW f \in Fds, NEW n \in Nodes, BeginAdd(f, n)
      PROVE  Alone' /\ Settled' /\ Linking' /\ OneJob'
  <2>1. /\ \A g \in Fds : adding[g].at = "idle"
        /\ worker.at = "wait" /\ worker' = worker /\ answers' = answers
        /\ head' = head /\ heap' = New(n) /\ n \notin heap.alive
    BY <1>1 DEF BeginAdd, Call, Adding, Allocate
  <2>2. /\ heap'.alive = heap.alive \cup {n} /\ heap'.next = [heap.next EXCEPT ![n] = NULL]
        /\ heap'.curr = heap.curr
    BY <1>t, <2>1 DEF New, HeapType
  <2>3. /\ adding'[f].at = IF head = NULL THEN "curr" ELSE "prev"
        /\ adding'[f].node = n
        /\ \A g \in Fds \ {f} : adding'[g] = adding[g]
    BY <1>t, <1>1 DEF BeginAdd
  <2>4. head # NULL => head = heap.curr /\ LastNode(head)
    BY <1>0, <2>1 DEF Settled
  <2>5. Alone'
    BY <2>1, <2>3 DEF Alone
  <2>6. Settled'
    BY <2>3 DEF Settled
  <2>7. heap'.next[n] = NULL /\ n \in heap'.alive
    BY <1>t, <2>2 DEF HeapType
  <2>8. Linking'
    BY <2>1, <2>2, <2>3, <2>4, <2>7 DEF Linking, LastNode
  <2>9. OneJob'
    BY <1>0, <2>1 DEF OneJob
  <2> QED BY <2>5, <2>6, <2>8, <2>9
<1>2. ASSUME NEW f \in Fds, SetPrev(f) \/ SetNext(f) \/ SetCurr(f)
      PROVE  Alone' /\ Settled' /\ Linking' /\ OneJob'
  <2>1. /\ adding[f].at \in {"curr", "prev", "next"} /\ adding[f].node \in Nodes
        /\ worker.at = "wait"
        /\ UNCHANGED <<head, fd, worker, answers>>
        /\ \A g \in Fds \ {f} : adding[g].at = "idle"
    BY <1>0, <1>t, <1>2 DEF SetPrev, SetNext, SetCurr, Alone
  <2>2. /\ LastNode(adding[f].node)
        /\ adding[f].at \in {"prev", "next"} =>
             heap.curr \in heap.alive /\ heap.curr # adding[f].node
    BY <1>0, <2>1 DEF Linking
  <2>3. /\ adding'[f].at # "idle" /\ adding'[f].node = adding[f].node
        /\ \A g \in Fds \ {f} : adding'[g] = adding[g]
    BY <1>t, <1>2 DEF SetPrev, SetNext, SetCurr, To, AddType
  <2>4. Alone' /\ Settled'
    BY <2>1, <2>3 DEF Alone, Settled
  <2>5. OneJob'
    BY <1>0, <2>1 DEF OneJob
  <2>6. CASE SetPrev(f)
    <3>1. /\ adding'[f].at = "next" /\ adding[f].at = "prev"
          /\ heap'.alive = heap.alive /\ heap'.next = heap.next /\ heap'.curr = heap.curr
      BY <1>t, <2>6 DEF SetPrev, To, AddType, HeapType
    <3>2. Linking'
      BY <2>1, <2>2, <2>3, <3>1 DEF Linking, LastNode
    <3> QED BY <2>4, <2>5, <3>2
  <2>7. CASE SetNext(f)
    <3>1. /\ adding'[f].at = "curr" /\ adding[f].at = "next"
          /\ heap'.alive = heap.alive /\ heap'.curr = heap.curr
          /\ heap'.next = [heap.next EXCEPT ![heap.curr] = adding[f].node]
      BY <1>t, <2>2, <2>7 DEF SetNext, To, AddType, HeapType
    <3>2. heap'.next[adding[f].node] = NULL
      BY <1>t, <2>1, <2>2, <3>1 DEF LastNode, HeapType
    <3>3. Linking'
      BY <2>1, <2>2, <2>3, <3>1, <3>2 DEF Linking, LastNode
    <3> QED BY <2>4, <2>5, <3>3
  <2>8. CASE SetCurr(f)
    <3>1. /\ adding'[f].at = "return" /\ heap'.curr = adding[f].node
          /\ heap'.alive = heap.alive /\ heap'.next = heap.next
      BY <1>t, <2>8 DEF SetCurr, To, AddType, HeapType
    <3>2. Linking'
      BY <2>1, <2>2, <2>3, <3>1 DEF Linking, LastNode
    <3> QED BY <2>4, <2>5, <3>2
  <2> QED BY <1>2, <2>6, <2>7, <2>8
<1>3. ASSUME NEW f \in Fds, EndAdd(f) PROVE Alone' /\ Settled' /\ Linking' /\ OneJob'
  <2>1. /\ adding[f].at = "return" /\ worker.at = "wait"
        /\ UNCHANGED <<heap, fd, worker, answers>> /\ head' = adding[f].node
        /\ \A g \in Fds \ {f} : adding[g].at = "idle"
    BY <1>0, <1>3 DEF EndAdd, Alone
  <2>2. \A g \in Fds : adding'[g].at = "idle"
    BY <1>t, <1>3, <2>1 DEF EndAdd, Idle
  <2>3. head' # NULL => LastNode(head') /\ heap.curr = head'
    BY <1>0, <2>1 DEF Linking
  <2>4. Alone' /\ Linking'
    BY <2>2 DEF Alone, Linking
  <2>5. Settled'
    BY <2>1, <2>3 DEF Settled, LastNode
  <2>6. OneJob'
    BY <1>0, <2>1 DEF OneJob
  <2> QED BY <2>4, <2>5, <2>6
<1>4. CASE TakeClient \/ Work
  <2>1. /\ \A f \in Fds : adding[f].at = "idle"
        /\ UNCHANGED <<head, fd, adding, answers>> /\ head # NULL
    BY <1>0, <1>4 DEF TakeClient, Work, Adding, Alone, OneJob
  <2>2. head = heap.curr /\ LastNode(head)
    BY <1>0, <2>1 DEF Settled
  <2>3. heap' = heap
    BY <1>4, <2>2 DEF TakeClient, Work, LastNode
  <2>4. Alone' /\ Settled' /\ Linking'
    BY <2>1, <2>2, <2>3 DEF Alone, Settled, Linking, LastNode
  <2>5. OneJob'
    <3>1. CASE TakeClient
      <4>1. worker'.at = "work" /\ worker'.client = fd[head]
        BY <1>t, <2>2, <3>1 DEF TakeClient, LastNode, WorkerType
      <4> QED BY <1>0, <2>1, <4>1 DEF OneJob
    <3>2. CASE Work
      <4>1. worker.at = "work" /\ worker'.at = "pop" /\ worker'.job = head /\ worker'.client = worker.client
        BY <1>t, <2>2, <3>2 DEF Work, LastNode, WorkerType
      <4> QED BY <1>0, <2>1, <4>1 DEF OneJob
    <3> QED BY <1>4, <3>1, <3>2
  <2> QED BY <2>4, <2>5
<1>5. CASE Pop
  <2>1. /\ \A f \in Fds : adding[f].at = "idle"
        /\ UNCHANGED <<head, fd, adding, answers>> /\ head # NULL
    BY <1>0, <1>5 DEF Pop, Alone, OneJob
  <2>2. head = heap.curr /\ LastNode(head)
    BY <1>0, <2>1 DEF Settled
  <2>3. heap' = Fault /\ worker' = worker
    BY <1>t, <1>5, <2>2 DEF Pop, LastNode
  <2>4. heap'.alive = heap.alive /\ heap'.next = heap.next /\ heap'.curr = heap.curr
    BY <1>t, <2>3 DEF Fault, HeapType
  <2> QED BY <1>0, <2>1, <2>2, <2>3, <2>4 DEF Alone, Settled, Linking, LastNode, OneJob
<1>6. CASE Answer
  BY <1>0, <1>6 DEF Answer, OneJob
<1>7. ASSUME NEW f \in Fds, NoMemory(f) PROVE Alone' /\ Settled' /\ Linking' /\ OneJob'
  <2>1. /\ \A g \in Fds : adding[g].at = "idle"
        /\ worker.at = "wait" /\ UNCHANGED <<worker, answers>>
    BY <1>7 DEF NoMemory, Call, Adding
  <2>2. /\ adding'[f].at = "return" /\ adding'[f].node = NULL
        /\ \A g \in Fds \ {f} : adding'[g] = adding[g]
    BY <1>t, <1>7 DEF NoMemory
  <2>3. Alone' /\ Settled' /\ Linking'
    BY <2>1, <2>2 DEF Alone, Settled, Linking
  <2>4. OneJob'
    BY <1>0, <2>1 DEF OneJob
  <2> QED BY <2>3, <2>4
<1>8. CASE UNCHANGED allVars
  BY <1>0, <1>8 DEF allVars, vars, queue, Alone, Settled, Linking, LastNode, OneJob
<1> QED
  BY <1>1, <1>2, <1>3, <1>4, <1>5, <1>6, <1>7, <1>8 DEF QueueNext

LEMMA InitUndisturbed == QueueInit => Undisturbed
<1> SUFFICES ASSUME QueueInit PROVE Undisturbed
  OBVIOUS
<1>1. /\ \A f \in Fds : adding[f].at = "idle"
      /\ worker.at = "wait" /\ answers = <<>>
  BY DEF QueueInit, Idle, Waiting
<1>2. head = NULL /\ heap.curr = NULL
  BY DEF QueueInit, Init
<1> QED
  BY <1>1, <1>2 DEF Undisturbed, Alone, Settled, Linking, OneJob

(* Without a race the worker gets through no job: the first it is given is *)
(* the last node of the list, and pop_head() of the last node follows      *)
(* NULL.  As far as it gets, it holds the right client.                    *)
THEOREM UndisturbedWorkerFailsHolds == QueueSpec => []UndisturbedWorkerFails
<1>1. Undisturbed => UndisturbedWorkerFails
  BY DEF Undisturbed, OneJob, UndisturbedWorkerFails
<1> QED
  BY <1>1, QueueTypesAlways, InitUndisturbed, UndisturbedStep, PTL DEF QueueSpec

-----------------------------------------------------------------------------
(* Each job the worker gets through takes a live node with a next one off  *)
(* the list, and such nodes come about only when an addition links its     *)
(* node behind another: once for each addition but the first.  Or else the *)
(* worker finds NULL for a head where there was a job: an addition has     *)
(* failed meanwhile.                                                       *)

Linked == added + Cardinality(LinkedIn)

Popped == Len(answers) + (IF worker.at = "store" THEN 1 ELSE 0)

Chained == {n \in heap.alive : heap.next[n] # NULL}

(* The worker is to pop NULL.                                              *)
Emptied == worker.at = "pop" /\ head = NULL

Due == IF Emptied THEN 1 ELSE 0

CountTypes ==
  /\ added \in Nat /\ failed \in Nat
  /\ answers \in Seq((Fds \cup {NULL}) \X Fds)
  /\ worker.at \in {"pop", "store"} => worker.job \in Nodes
  /\ Emptied \/ (worker.at = "store" /\ worker.head = NULL) => failed > 0

(* Before the first addition there is nothing, and head is NULL.           *)
Unused ==
  /\ Popped = 0 /\ Chained = {} /\ head = NULL /\ worker.at = "wait"
  /\ \A f \in Fds : adding[f].at \notin {"prev", "next"}

Behind ==
  /\ Linked = 0 => Unused
  /\ Linked > 0 => Popped + Cardinality(Chained) + Due < Linked + failed

CountInv == CountTypes /\ Behind

Counts ==
  /\ IsFiniteSet(LinkedIn) /\ Cardinality(LinkedIn) \in Nat
  /\ IsFiniteSet(Chained) /\ Cardinality(Chained) \in Nat
  /\ Linked \in Nat /\ Popped \in Nat /\ Len(answers) \in Nat /\ Due \in Nat

LEMMA CountsFinite == QueueTypes /\ CountTypes => Counts
<1> SUFFICES ASSUME QueueTypes, CountTypes PROVE Counts
  OBVIOUS
<1>1. IsFiniteSet(LinkedIn)
  BY JobListAssumption, FS_Subset DEF LinkedIn, JobListAssumption
<1>2. IsFiniteSet(Chained)
  <2>1. Chained \subseteq Nodes
    BY DEF Chained, QueueTypes, HeapType
  <2> QED BY <2>1, JobListAssumption, FS_Subset DEF JobListAssumption
<1>3. Len(answers) \in Nat
  BY DEF CountTypes
<1> QED
  BY <1>1, <1>2, <1>3, FS_CardinalityType DEF CountTypes, Counts, Linked, Popped, Due

LEMMA InitCount == QueueInit => CountInv
<1> SUFFICES ASSUME QueueInit PROVE CountInv
  OBVIOUS
<1>1. /\ \A f \in Fds : adding[f].at = "idle"
      /\ worker.at = "wait" /\ answers = <<>> /\ added = 0 /\ failed = 0
  BY DEF QueueInit, Idle, Waiting
<1>2. head = NULL /\ heap.alive = {}
  BY DEF QueueInit, Init
<1>3. LinkedIn = {} /\ Chained = {} /\ Popped = 0
  BY <1>1, <1>2 DEF LinkedIn, Chained, Popped
<1>4. Linked = 0
  BY <1>1, <1>3, FS_EmptySet DEF Linked
<1>5. Unused
  BY <1>1, <1>2, <1>3 DEF Unused
<1> QED
  BY <1>1, <1>4, <1>5 DEF CountInv, CountTypes, Behind, Emptied

(* The steps of add_to_queue().                                            *)
LEMMA CountAdd ==
  ASSUME QueueTypes, CountInv, NEW f \in Fds,
         \/ \E n \in Nodes : BeginAdd(f, n)
         \/ NoMemory(f)
         \/ SetPrev(f) \/ SetNext(f) \/ SetCurr(f) \/ EndAdd(f)
  PROVE  CountInv'
<1>t. /\ head \in Pointer /\ heap \in HeapType /\ adding \in [Fds -> AddType]
      /\ worker \in WorkerType /\ heap.alive \subseteq Nodes
      /\ \A g \in Fds : adding[g].at \in {"curr", "prev", "next"} => adding[g].node \in Nodes
  BY DEF QueueTypes, HeapType
<1>n. /\ IsFiniteSet(LinkedIn) /\ Cardinality(LinkedIn) \in Nat
      /\ IsFiniteSet(Chained) /\ Cardinality(Chained) \in Nat
      /\ Linked \in Nat /\ Popped \in Nat /\ Due \in Nat /\ added \in Nat /\ failed \in Nat
  BY CountsFinite DEF CountInv, CountTypes, Counts
<1>s. UNCHANGED <<worker, answers>> /\ Popped' = Popped
  BY DEF BeginAdd, NoMemory, SetPrev, SetNext, SetCurr, EndAdd, Popped
<1>h. ASSUME UNCHANGED <<head, added, failed>> PROVE CountTypes' /\ Due' = Due
  BY <1>h, <1>s DEF CountInv, CountTypes, Emptied, Due
<1>b. Behind
  BY DEF CountInv
<1>1. ASSUME NEW n \in Nodes, BeginAdd(f, n) PROVE CountInv'
  <2>1. /\ adding[f].at = "idle" /\ UNCHANGED <<head, added, failed>>
        /\ n \notin heap.alive
        /\ adding'[f].at = IF head = NULL THEN "curr" ELSE "prev"
        /\ \A g \in Fds \ {f} : adding'[g] = adding[g]
    BY <1>t, <1>1 DEF BeginAdd, Call, Allocate
  <2>2. heap'.alive = heap.alive \cup {n} /\ heap'.next = [heap.next EXCEPT ![n] = NULL]
    BY <1>t, <1>1 DEF BeginAdd, New, HeapType
  <2>3. Chained' = Chained
    BY <1>t, <2>1, <2>2 DEF Chained, HeapType
  <2>4. CASE head = NULL
    <3>1. LinkedIn' = LinkedIn \cup {f} /\ f \notin LinkedIn
      BY <1>1, <1>t, <2>1, <2>4, NoNode DEF LinkedIn, BeginAdd
    <3>2. Cardinality(LinkedIn') = Cardinality(LinkedIn) + 1
      BY <1>n, <3>1, FS_AddElement
    <3>3. Linked' = Linked + 1
      BY <1>n, <2>1, <3>2 DEF Linked
    <3>4. Popped + Cardinality(Chained) + Due < Linked + 1 + failed
      BY <1>b, <1>n, FS_EmptySet DEF Behind, Unused, Due, Emptied
    <3> QED
      BY <1>h, <1>n, <1>s, <2>1, <2>3, <3>3, <3>4 DEF CountInv, Behind
  <2>5. CASE head # NULL
    <3>1. LinkedIn' = LinkedIn
      BY <2>1, <2>5 DEF LinkedIn
    <3>2. Linked' = Linked
      BY <2>1, <3>1 DEF Linked
    <3>3. Linked > 0
      BY <1>b, <1>n, <2>5 DEF Behind, Unused
    <3> QED
      BY <1>b, <1>h, <1>s, <2>1, <2>3, <3>2, <3>3 DEF CountInv, Behind
  <2> QED
    BY <2>4, <2>5
<1>2. CASE SetPrev(f)
  <2>1. /\ UNCHANGED <<head, added, failed>> /\ adding[f].at = "prev" /\ adding'[f].at = "next"
        /\ heap'.alive = heap.alive /\ heap'.next = heap.next
        /\ \A g \in Fds \ {f} : adding'[g] = adding[g]
    BY <1>t, <1>2 DEF SetPrev, To, AddType, HeapType
  <2>2. LinkedIn' = LinkedIn /\ Chained' = Chained
    BY <2>1 DEF LinkedIn, Chained
  <2>3. Linked' = Linked /\ Linked > 0
    BY <1>b, <1>n, <2>1, <2>2 DEF Linked, Behind, Unused
  <2> QED
    BY <1>b, <1>h, <1>s, <2>1, <2>2, <2>3 DEF CountInv, Behind
<1>3. CASE SetNext(f)
  <2>1. /\ UNCHANGED <<head, added, failed>> /\ adding[f].at = "next" /\ adding'[f].at = "curr"
        /\ adding'[f].node \in Nodes
        /\ \A g \in Fds \ {f} : adding'[g] = adding[g]
    BY <1>t, <1>3 DEF SetNext, To, AddType
  <2>2. LinkedIn' = LinkedIn \cup {f} /\ f \notin LinkedIn
    BY <2>1, NoNode DEF LinkedIn
  <2>3. Linked' = Linked + 1
    <3>1. Cardinality(LinkedIn') = Cardinality(LinkedIn) + 1
      BY <1>n, <2>2, FS_AddElement
    <3> QED BY <1>n, <2>1, <3>1 DEF Linked
  <2>4. Popped + Cardinality(Chained) + Due < Linked + failed
    BY <1>b, <1>n, <2>1 DEF Behind, Unused
  <2>5. Chained' \subseteq Chained \cup {heap.curr}
    <3>1. CASE heap.curr \in heap.alive
      <4>1. /\ heap'.alive = heap.alive
            /\ heap'.next = [heap.next EXCEPT ![heap.curr] = adding[f].node]
        BY <1>t, <1>3, <3>1 DEF SetNext, HeapType
      <4> QED BY <1>t, <4>1 DEF Chained, HeapType
    <3>2. CASE heap.curr \notin heap.alive
      <4>1. heap'.alive = heap.alive /\ heap'.next = heap.next
        BY <1>t, <1>3, <3>2 DEF SetNext, Fault, HeapType
      <4> QED BY <4>1 DEF Chained
    <3> QED BY <3>1, <3>2
  <2>6. Cardinality(Chained') \in Nat /\ Cardinality(Chained') <= Cardinality(Chained) + 1
    <3>1. /\ IsFiniteSet(Chained \cup {heap.curr})
          /\ \/ Cardinality(Chained \cup {heap.curr}) = Cardinality(Chained)
             \/ Cardinality(Chained \cup {heap.curr}) = Cardinality(Chained) + 1
      BY <1>n, FS_AddElement, ZenonT(20)
    <3> QED BY <1>n, <2>5, <3>1, FS_Subset, FS_CardinalityType
  <2> QED
    BY <1>h, <1>n, <1>s, <2>1, <2>3, <2>4, <2>6 DEF CountInv, Behind
<1>4. CASE SetCurr(f)
  <2>1. /\ UNCHANGED <<head, added, failed>> /\ adding[f].at = "curr" /\ adding'[f].at = "return"
        /\ adding'[f].node = adding[f].node /\ adding[f].node \in Nodes
        /\ heap'.alive = heap.alive /\ heap'.next = heap.next
        /\ \A g \in Fds \ {f} : adding'[g] = adding[g]
    BY <1>t, <1>4 DEF SetCurr, To, AddType, HeapType
  <2>2. LinkedIn' = LinkedIn /\ Chained' = Chained /\ f \in LinkedIn
    BY <2>1, NoNode DEF LinkedIn, Chained
  <2>3. Linked' = Linked /\ Linked > 0
    BY <1>n, <2>1, <2>2, FS_EmptySet DEF Linked
  <2> QED
    BY <1>b, <1>h, <1>s, <2>1, <2>2, <2>3 DEF CountInv, Behind
<1>5. CASE EndAdd(f) /\ adding[f].node # NULL
  <2>1. /\ added' = added + 1 /\ failed' = failed /\ adding[f].at = "return"
        /\ adding'[f].at = "idle" /\ heap' = heap /\ head' # NULL
        /\ \A g \in Fds \ {f} : adding'[g] = adding[g]
    BY <1>t, <1>5 DEF EndAdd, Idle
  <2>2. LinkedIn' = LinkedIn \ {f} /\ Chained' = Chained /\ f \in LinkedIn
    BY <1>5, <2>1 DEF LinkedIn, Chained
  <2>3. /\ Cardinality(LinkedIn') = Cardinality(LinkedIn) - 1
        /\ Cardinality(LinkedIn') \in Nat
    BY <1>n, <2>2, FS_RemoveElement, FS_CardinalityType
  <2>4. Linked' = Linked /\ Linked' > 0
    BY <1>n, <2>1, <2>3 DEF Linked
  <2>5. Due' = 0 /\ CountTypes'
    BY <1>n, <1>s, <2>1 DEF CountInv, CountTypes, Emptied, Due
  <2> QED
    BY <1>b, <1>n, <1>s, <2>1, <2>2, <2>4, <2>5 DEF CountInv, Behind
<1>6. CASE EndAdd(f) /\ adding[f].node = NULL
  <2>1. /\ added' = added /\ failed' = failed + 1 /\ adding[f].at = "return"
        /\ adding'[f].at = "idle" /\ heap' = heap /\ head' = NULL
        /\ \A g \in Fds \ {f} : adding'[g] = adding[g]
    BY <1>t, <1>6 DEF EndAdd, Idle
  <2>2. LinkedIn' = LinkedIn /\ Chained' = Chained
    BY <1>6, <2>1 DEF LinkedIn, Chained
  <2>3. Linked' = Linked
    BY <2>1, <2>2 DEF Linked
  <2>4. Due' \in {0, 1} /\ CountTypes'
    BY <1>n, <1>s, <2>1 DEF CountInv, CountTypes, Emptied, Due
  <2>5. CASE Linked = 0
    BY <1>b, <1>s, <2>1, <2>2, <2>3, <2>4, <2>5 DEF CountInv, Behind, Unused
  <2>6. CASE Linked > 0
    BY <1>b, <1>n, <1>s, <2>1, <2>2, <2>3, <2>4, <2>6 DEF CountInv, Behind
  <2> QED
    BY <1>n, <2>5, <2>6
<1>7. CASE NoMemory(f)
  <2>1. /\ UNCHANGED <<head, heap, added, failed>>
        /\ adding[f].at = "idle" /\ adding'[f].at = "return" /\ adding'[f].node = NULL
        /\ \A g \in Fds \ {f} : adding'[g] = adding[g]
    BY <1>t, <1>7 DEF NoMemory, Call, vars
  <2>2. LinkedIn' = LinkedIn /\ Chained' = Chained
    BY <2>1 DEF LinkedIn, Chained
  <2>3. Linked' = Linked
    BY <2>1, <2>2 DEF Linked
  <2> QED
    BY <1>b, <1>h, <1>s, <2>1, <2>2, <2>3 DEF CountInv, Behind, Unused
<1> QED
  BY <1>1, <1>2, <1>3, <1>4, <1>5, <1>6, <1>7

(* The steps of do_work().                                                 *)
LEMMA CountWork ==
  ASSUME QueueTypes, CountInv, TakeClient \/ Work \/ Pop \/ Answer
  PROVE  CountInv'
<1>t. /\ head \in Pointer /\ heap \in HeapType /\ fd \in [Nodes -> Fds]
      /\ worker \in WorkerType /\ heap.alive \subseteq Nodes
  BY DEF QueueTypes, HeapType
<1>n. /\ IsFiniteSet(LinkedIn) /\ Cardinality(LinkedIn) \in Nat
      /\ IsFiniteSet(Chained) /\ Cardinality(Chained) \in Nat
      /\ Linked \in Nat /\ Popped \in Nat /\ Due \in Nat /\ Len(answers) \in Nat
      /\ added \in Nat /\ failed \in Nat
  BY CountsFinite DEF CountInv, CountTypes, Counts
<1>s. UNCHANGED <<adding, added, failed>> /\ LinkedIn' = LinkedIn /\ Linked' = Linked
  BY DEF TakeClient, Work, Pop, Answer, LinkedIn, Linked
<1>b. Behind
  BY DEF CountInv
<1>f. Fault.alive = heap.alive /\ Fault.next = heap.next
  BY <1>t DEF Fault, HeapType
<1>1. CASE TakeClient \/ Work
  <2>1. /\ heap'.alive = heap.alive /\ heap'.next = heap.next
        /\ UNCHANGED <<head, answers>>
    BY <1>f, <1>1 DEF TakeClient, Work
  <2>2. worker'.at # "store" /\ worker.at # "store"
    BY <1>t, <1>1 DEF TakeClient, Work, WorkerType
  <2>3. worker'.at = "pop" => worker'.job \in Nodes
    BY <1>t, <1>1 DEF TakeClient, Work, WorkerType
  <2>4. Chained' = Chained /\ Popped' = Popped
    BY <2>1, <2>2 DEF Chained, Popped
  <2>5. Emptied' => Emptied
    <3>1. CASE TakeClient
      BY <1>t, <2>1, <3>1 DEF TakeClient, Emptied, WorkerType
    <3>2. CASE Work
      BY <1>t, <2>1, <3>2, NoNode DEF Work, Emptied
    <3> QED BY <1>1, <3>1, <3>2
  <2>6. CountTypes'
    BY <1>s, <2>1, <2>2, <2>3, <2>5 DEF CountInv, CountTypes
  <2>7. Due' \in Nat /\ Due' <= Due
    BY <2>5 DEF Due
  <2>8. CASE Linked = 0
    <3>1. worker' = worker
      BY <1>b, <1>1, <2>8 DEF Behind, Unused, TakeClient, Work
    <3> QED
      BY <1>b, <1>s, <2>1, <2>4, <2>6, <2>8, <3>1 DEF CountInv, Behind, Unused
  <2>9. CASE Linked > 0
    BY <1>b, <1>n, <1>s, <2>4, <2>6, <2>7, <2>9 DEF CountInv, Behind
  <2> QED
    BY <1>n, <2>8, <2>9
<1>2. CASE Pop /\ head # NULL /\ ~(head \in heap.alive /\ heap.next[head] \in heap.alive)
  <2>1. UNCHANGED <<head, answers, worker>> /\ heap' = Fault
    BY <1>2 DEF Pop
  <2>2. Chained' = Chained /\ Popped' = Popped /\ Due' = Due
    BY <1>f, <2>1 DEF Chained, Popped, Due, Emptied
  <2> QED
    BY <1>b, <1>s, <2>1, <2>2 DEF CountInv, CountTypes, Behind, Unused, Emptied
<1>5. CASE Pop /\ head = NULL
  <2>1. /\ UNCHANGED <<head, heap, answers>> /\ worker.at = "pop"
        /\ worker'.at = "store" /\ worker'.head = NULL /\ worker'.job = worker.job
    BY <1>t, <1>5 DEF Pop, PopTo, WorkerType
  <2>2. Emptied /\ ~Emptied' /\ Due = 1 /\ Due' = 0
    BY <1>5, <2>1 DEF Emptied, Due
  <2>3. Chained' = Chained /\ Popped' = Popped + 1
    BY <1>n, <2>1 DEF Chained, Popped
  <2>4. CountTypes'
    BY <1>s, <2>1, <2>2 DEF CountInv, CountTypes
  <2>5. Linked > 0
    BY <1>b, <1>n, <2>1 DEF Behind, Unused
  <2> QED
    BY <1>b, <1>n, <1>s, <2>2, <2>3, <2>4, <2>5 DEF CountInv, Behind
<1>3. CASE Pop /\ head \in heap.alive /\ heap.next[head] \in heap.alive
  <2>1. /\ UNCHANGED <<head, answers>> /\ worker.at = "pop"
        /\ worker'.at = "store" /\ worker'.head = heap.next[head] /\ worker'.job = worker.job
    BY <1>t, <1>3, NoNode DEF Pop, PopTo, WorkerType
  <2>2. heap'.alive = heap.alive \ {head} /\ heap'.next = heap.next
    BY <1>t, <1>3, NoNode DEF Pop, HeapType
  <2>3. Chained' = Chained \ {head} /\ head \in Chained
    BY <1>t, <1>3, <2>2, NoNode DEF Chained
  <2>4. Popped' = Popped + 1
    BY <1>n, <2>1 DEF Popped
  <2>5. Cardinality(Chained') = Cardinality(Chained) - 1
    BY <1>n, <2>3, FS_RemoveElement
  <2>e. Due' = 0
    BY <2>1 DEF Due, Emptied
  <2>6. CountTypes'
    BY <1>s, <1>t, <1>3, <2>1, NoNode DEF CountInv, CountTypes, Emptied
  <2>7. Linked > 0 /\ Popped + Cardinality(Chained) < Linked + failed
    BY <1>b, <1>n, <2>3 DEF Behind, Unused
  <2>8. Popped' + Cardinality(Chained') + Due' < Linked' + failed'
    BY <1>n, <1>s, <2>4, <2>5, <2>7, <2>e
  <2> QED
    BY <1>n, <1>s, <2>6, <2>7, <2>8 DEF CountInv, Behind
<1>4. CASE Answer
  <2>1. /\ worker.at = "store" /\ worker'.at = "wait" /\ heap' = heap
        /\ answers' = Append(answers, <<worker.client, fd[worker.job]>>)
    BY <1>4 DEF Answer, Waiting
  <2>2. <<worker.client, fd[worker.job]>> \in (Fds \cup {NULL}) \X Fds
    BY <1>t, <2>1 DEF CountInv, CountTypes, WorkerType
  <2>3. /\ answers' \in Seq((Fds \cup {NULL}) \X Fds) /\ Len(answers') = Len(answers) + 1
    BY <2>1, <2>2 DEF CountInv, CountTypes
  <2>4. Chained' = Chained /\ Popped' = Popped /\ Popped > 0
    BY <1>n, <2>1, <2>3 DEF Chained, Popped
  <2>e. Due' = 0 /\ ~Emptied'
    BY <2>1 DEF Due, Emptied
  <2>5. CountTypes'
    BY <1>n, <1>s, <2>1, <2>3, <2>e DEF CountTypes
  <2>6. Behind'
    BY <1>b, <1>n, <1>s, <2>4, <2>e DEF Behind, Unused
  <2> QED
    BY <1>s, <2>5, <2>6 DEF CountInv
<1> QED
  BY <1>1, <1>2, <1>3, <1>4, <1>5

LEMMA CountStep == QueueTypes /\ CountInv /\ [QueueNext]_allVars => CountInv'
<1> SUFFICES ASSUME QueueTypes, CountInv, [QueueNext]_allVars PROVE CountInv'
  OBVIOUS
<1>1. CASE UNCHANGED allVars
  BY <1>1 DEF allVars, vars, queue, CountInv, CountTypes, Behind, Unused, Linked, LinkedIn,
              Popped, Chained, Due, Emptied
<1> QED
  BY <1>1, CountAdd, CountWork DEF QueueNext

(* However the steps of the handlers and the worker fall, the worker never *)
(* gets to the job added last, and head, once it points to a node, is      *)
(* never NULL again, but for what failed calls of malloc() let it do: each *)
(* may empty the list once, and let one job be answered without a pop.     *)
THEOREM NewestJobUnansweredHolds == QueueSpec => NewestJobUnanswered
<1> DEFINE A == /\ answers' # <<>> => Len(answers') < added' + Cardinality(LinkedIn') + failed'
                /\ head # NULL /\ head' = NULL => failed' > 0
<1>1. QueueTypes /\ CountInv /\ CountInv' /\ Counts' /\ [QueueNext]_allVars => [A]_allVars
  <2> SUFFICES ASSUME QueueTypes, CountInv, CountInv', Counts', QueueNext PROVE A
    BY DEF allVars, vars, queue
  <2>1. ASSUME answers' # <<>>
        PROVE  Len(answers') < added' + Cardinality(LinkedIn') + failed'
    <3>1. /\ Linked' \in Nat /\ Popped' \in Nat /\ Len(answers') \in Nat
          /\ Cardinality(Chained') \in Nat /\ Due' \in Nat /\ failed' \in Nat
      BY DEF Counts, CountInv, CountTypes
    <3>2. Len(answers') > 0 /\ Len(answers') <= Popped'
      BY <2>1, <3>1 DEF CountInv, CountTypes, Popped
    <3>3. Popped' + Cardinality(Chained') + Due' < Linked' + failed'
      BY <3>1, <3>2 DEF CountInv, Behind, Unused
    <3>4. Len(answers') < Linked' + failed'
      BY <3>1, <3>2, <3>3
    <3> QED
      BY <3>4 DEF Linked
  <2>2. ASSUME head # NULL, head' = NULL PROVE failed' > 0
    <3>1. CASE Answer
      <4>1. worker.at = "store" /\ worker.head = NULL /\ failed' = failed
        BY <2>2, <3>1 DEF Answer
      <4> QED BY <4>1 DEF CountInv, CountTypes
    <3>2. ASSUME NEW f \in Fds, EndAdd(f) PROVE failed' > 0
      <4>1. failed \in Nat /\ failed' = failed + 1
        BY <2>2, <3>2 DEF EndAdd, CountInv, CountTypes
      <4> QED BY <4>1
    <3>3. head' = head \/ Answer \/ \E f \in Fds : EndAdd(f)
      BY DEF QueueNext, BeginAdd, NoMemory, SetPrev, SetNext, SetCurr, TakeClient, Work, Pop, vars
    <3> QED
      BY <2>2, <3>1, <3>2, <3>3
  <2> QED
    BY <2>1, <2>2
<1>2. QueueSpec => []CountInv
  BY QueueTypesAlways, InitCount, CountStep, PTL DEF QueueSpec
<1>3. QueueTypes /\ CountInv => Counts
  BY CountsFinite DEF CountInv
<1> QED
  BY <1>1, <1>2, <1>3, QueueTypesAlways, PTL DEF QueueSpec, NewestJobUnanswered

=============================================================================
