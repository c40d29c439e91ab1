----------------------------- MODULE LinkedList -----------------------------
(***************************************************************************)
(* voxory::containers::list (include/containers/impl/list.h), the doubly   *)
(* linked list that keeps a container's registered iterators.  The heap is *)
(* a function from the allocated nodes to their fields, so a pointer to a  *)
(* freed node is one outside its domain; a list is its two ends and the    *)
(* number of its elements.  The operators return the heap or the list that *)
(* a call leaves behind.                                                   *)
(***************************************************************************)
EXTENDS Integers, FiniteSets

CONSTANTS Nodes,   \* addresses the allocator may hand out
          NoNode   \* nullptr

ASSUME ListAssumption == IsFiniteSet(Nodes) /\ NoNode \notin Nodes

EmptyHeap == [n \in {} |-> NoNode]
EmptyList == [first |-> NoNode, second |-> NoNode, size |-> 0]

\* Dereferencing a node is legal while it is allocated.
Alive(heap, n) == n \in DOMAIN heap

\* The k-th node that a walk along _next meets, from 0.
Walk(heap, l) ==
  LET at[k \in 0 .. Cardinality(Nodes)] ==
        IF k = 0 THEN l.first
        ELSE IF Alive(heap, at[k - 1]) THEN heap[at[k - 1]].next ELSE NoNode
  IN  at
Members(heap, l) ==
  {Walk(heap, l)[k] : k \in 0 .. Cardinality(Nodes)} \ {NoNode}

\* What a list promises between its calls: size() allocated nodes from first to
\* second, linked the same way in both directions.
WellFormed(heap, l) ==
  LET at == Walk(heap, l)
  IN  /\ l.size \in 0 .. Cardinality(Nodes) /\ at[l.size] = NoNode
      /\ \A k \in 0 .. l.size - 1 :
           /\ Alive(heap, at[k])
           /\ heap[at[k]].last = IF k = 0 THEN NoNode ELSE at[k - 1]
      /\ l.second = IF l.size = 0 THEN NoNode ELSE at[l.size - 1]

\* emplace_back, with the node n that the allocator gave.
HeapAfterEmplace(heap, l, n, v) ==
  [m \in DOMAIN heap \union {n} |->
     IF m = n THEN [data |-> v, next |-> NoNode, last |-> l.second]
     ELSE IF m = l.second THEN [heap[m] EXCEPT !.next = n] ELSE heap[m]]
AfterEmplace(l, n) ==
  [first |-> IF l.first = NoNode THEN n ELSE l.first,
   second |-> n, size |-> l.size + 1]

\* pop_at unlinks the node from its neighbours and frees it; a missing neighbour
\* makes the other one an end of this list, whichever list the node was in.
HeapAfterPop(heap, n) ==
  LET e == heap[n]
  IN  [m \in DOMAIN heap \ {n} |->
         [heap[m] EXCEPT !.next = IF m = e.last THEN e.next ELSE @,
                         !.last = IF m = e.next THEN e.last ELSE @]]
AfterPop_KeepsFirst(heap, l, n) ==
  [first |-> l.first,
   second |-> IF heap[n].next = NoNode THEN heap[n].last ELSE l.second,
   size |-> l.size - 1]
AfterPop(heap, l, n) ==
  [first |-> IF heap[n].last = NoNode THEN heap[n].next ELSE l.first,
   second |-> IF heap[n].next = NoNode THEN heap[n].last ELSE l.second,
   size |-> l.size - 1]
PopIsSafe(heap, n) ==
  /\ Alive(heap, n)
  /\ \A m \in {heap[n].last, heap[n].next} \ {NoNode} : Alive(heap, m)

\* clear frees every node the walk meets; the list is EmptyList afterwards.
HeapAfterClear(heap, l) ==
  [m \in DOMAIN heap \ Members(heap, l) |-> heap[m]]
ClearIsSafe(heap, l) == \A m \in Members(heap, l) : Alive(heap, m)
=============================================================================
