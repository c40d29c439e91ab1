--------------------------- MODULE DebugIterators ---------------------------
(***************************************************************************)
(* The registration of iterators with their container in a debug build:    *)
(* iterator_base_dbg and container_base_dbg (src/containers/               *)
(* containers_dbg.cpp) under the calls heap_array makes.  Threads create   *)
(* and destroy iterators of shared containers, as the tests do, and may    *)
(* destroy iterators while another thread clears, resizes or assigns their *)
(* container.  A step is one access to what the threads share.             *)
(***************************************************************************)
EXTENDS LinkedList

CONSTANTS
  Threads, Containers, Iterators,
  None,       \* no container, no iterator
  FreeMoves,  \* may the source of a move assignment have iterators?
  Asserts,    \* is DEBUG defined? DEBUG_ITERATORS is a macro of its own
  MaxMoves    \* bound: move assignments

ASSUME IteratorAssumption ==
  /\ FreeMoves \in BOOLEAN /\ Asserts \in BOOLEAN /\ MaxMoves \in Nat
  /\ None \notin Containers \union Iterators

VARIABLES
  locked,   \* container -> its spin lock _sl
  ver,      \* container -> _ver
  list,     \* container -> _list
  heap,     \* the allocated list nodes
  home,     \* iterator -> _container, None when it is not alive
  proxy,    \* iterator -> _proxy
  pc, job,  \* thread -> where it is, and in which call
  old_ver,  \* thread -> the version _lock read, 0 once it is compared
  cursor,   \* thread -> the node its walk has come to
  moves,    \* move assignments so far
  wild,     \* was a freed node or a dead iterator touched?
  aborted   \* did the assertion of _lock fail?

mem  == <<list, heap, home, proxy>>
vars == <<locked, ver, list, heap, home, proxy, pc, job, old_ver, cursor,
          moves, wild, aborted>>

NoJob == [op |-> "none", c |-> None, from |-> None, i |-> None]

\* The container a thread locks: the source, once a move assignment has cleaned
\* up its target.
Target(t) == IF job[t].op = "move" THEN job[t].from ELSE job[t].c

Holds(t, c) == \/ pc[t] \in {"assert", "locked", "raise", "unlock"} /\ c = Target(t)
               \/ pc[t] \in {"detach", "cleaned"} /\ c = job[t].c

Changes(c) == \E t \in Threads : /\ job[t].op \in {"clear", "invalidate", "move"}
                                 /\ c \in {job[t].c, job[t].from}
Enters(c)  == \E t \in Threads : job[t].op = "register" /\ job[t].c = c
Handled(i) == \E t \in Threads : job[t].i = i
Shared(c)  == \E i \in Iterators : home[i] = c

Init ==
  /\ locked = [c \in Containers |-> FALSE] /\ ver = [c \in Containers |-> 0]
  /\ list = [c \in Containers |-> EmptyList] /\ heap = EmptyHeap
  /\ home = [i \in Iterators |-> None] /\ proxy = [i \in Iterators |-> NoNode]
  /\ pc = [t \in Threads |-> "idle"] /\ job = [t \in Threads |-> NoJob]
  /\ old_ver = [t \in Threads |-> 0] /\ cursor = [t \in Threads |-> NoNode]
  /\ moves = 0 /\ wild = FALSE /\ aborted = FALSE

-----------------------------------------------------------------------------
(* Entering a call.  Only the destruction of an iterator may meet a call     *)
(* that changes its container; the caller keeps the others apart.            *)

Enter(t, call, at) ==
  /\ pc[t] = "idle"
  /\ job' = [job EXCEPT ![t] = call] /\ pc' = [pc EXCEPT ![t] = at]

\* begin(), end() or the copy of an iterator: _register_to_container.
Begin(t) ==
  \E c \in Containers, i \in Iterators :
    /\ home[i] = None /\ ~Changes(c)
    /\ Enter(t, [NoJob EXCEPT !.op = "register", !.c = c, !.i = i], "version")
    /\ home' = [home EXCEPT ![i] = c]
    /\ UNCHANGED <<locked, ver, list, heap, proxy, old_ver, cursor, moves,
                   wild, aborted>>

\* ~iterator: _release returns at once if nothing is registered.
End(t) ==
  \E i \in Iterators :
    /\ home[i] # None /\ ~Handled(i)
    /\ IF proxy[i] = NoNode
       THEN /\ pc[t] = "idle" /\ UNCHANGED <<pc, job>>
            /\ home' = [home EXCEPT ![i] = None]
       ELSE /\ Enter(t, [NoJob EXCEPT !.op = "release", !.c = home[i], !.i = i],
                     "version")
            /\ UNCHANGED home
    /\ UNCHANGED <<locked, ver, list, heap, proxy, old_ver, cursor, moves,
                   wild, aborted>>

\* clear(), and _cleanup where else a container that lives on calls it; resize()
\* and an assignment in place, which end in _invalidate_range.
Change(t) ==
  /\ \E c \in Containers :
       /\ ~Changes(c) /\ ~Enters(c)
       /\ \/ Enter(t, [NoJob EXCEPT !.op = "clear", !.c = c], "cleanup")
          \/ Enter(t, [NoJob EXCEPT !.op = "invalidate", !.c = c], "version")
  /\ UNCHANGED <<locked, ver, mem, old_ver, cursor, moves, wild, aborted>>

MoveAssign_NoCleanup(t) ==
  /\ moves < MaxMoves /\ moves' = moves + 1
  /\ \E c, from \in Containers :
       /\ c # from
       /\ \A d \in {c, from} : ~Changes(d) /\ ~Enters(d)
       /\ FreeMoves \/ ~Shared(from)
       /\ Enter(t, [NoJob EXCEPT !.op = "move", !.c = c, !.from = from], "version")
  /\ UNCHANGED <<locked, ver, mem, old_ver, cursor, wild, aborted>>

\* The move assignment c = std::move(from): _cleanup of c, then _move_proxies.  The
\* target may have iterators, and they may be destroyed meanwhile.
MoveAssign(t) ==
  /\ moves < MaxMoves /\ moves' = moves + 1
  /\ \E c, from \in Containers :
       /\ c # from
       /\ \A d \in {c, from} : ~Changes(d) /\ ~Enters(d)
       /\ FreeMoves \/ ~Shared(from)
       /\ Enter(t, [NoJob EXCEPT !.op = "move", !.c = c, !.from = from], "cleanup")
  /\ UNCHANGED <<locked, ver, mem, old_ver, cursor, wild, aborted>>

-----------------------------------------------------------------------------
(* container_base_dbg::_lock: the version, the lock, and in a build with     *)
(* DEBUG the assertion.                                                      *)

Goto(t, at) == pc' = [pc EXCEPT ![t] = at]

Version(t) ==
  /\ pc[t] = "version"
  /\ old_ver' = [old_ver EXCEPT ![t] = ver[Target(t)]]
  /\ Goto(t, "acquire")
  /\ UNCHANGED <<locked, ver, mem, job, cursor, moves, wild, aborted>>

Acquire_NoTest(t) ==
  /\ pc[t] = "acquire"
  /\ locked' = [locked EXCEPT ![Target(t)] = TRUE]
  /\ Goto(t, "assert")
  /\ UNCHANGED <<ver, mem, job, old_ver, cursor, moves, wild, aborted>>

Acquire(t) ==
  /\ pc[t] = "acquire"
  /\ ~locked[Target(t)]
  /\ locked' = [locked EXCEPT ![Target(t)] = TRUE]
  /\ Goto(t, "assert")
  /\ UNCHANGED <<ver, mem, job, old_ver, cursor, moves, wild, aborted>>

CheckVersion(t) ==
  /\ pc[t] = "assert"
  /\ aborted' = (Asserts /\ old_ver[t] # ver[Target(t)])
  /\ old_ver' = [old_ver EXCEPT ![t] = 0]
  /\ Goto(t, "locked")
  /\ cursor' = [cursor EXCEPT ![t] = IF job[t].op = "invalidate"
                                     THEN list[Target(t)].first ELSE NoNode]
  /\ UNCHANGED <<locked, ver, mem, job, moves, wild>>

-----------------------------------------------------------------------------
(* What is done under the lock.                                              *)

Register(t) ==
  LET c == job[t].c  i == job[t].i
  IN  /\ pc[t] = "locked" /\ job[t].op = "register"
      /\ \E n \in Nodes \ DOMAIN heap :
           /\ heap' = HeapAfterEmplace(heap, list[c], n, i)
           /\ list' = [list EXCEPT ![c] = AfterEmplace(@, n)]
           /\ proxy' = [proxy EXCEPT ![i] = n]
      /\ Goto(t, "unlock")
      /\ UNCHANGED <<locked, ver, home, job, old_ver, cursor, moves, wild, aborted>>

\* Unlinking a node: touching a freed one is the end of all guarantees.
Unlink(c, n) ==
  IF PopIsSafe(heap, n)
  THEN /\ heap' = HeapAfterPop(heap, n)
       /\ list' = [list EXCEPT ![c] = AfterPop(heap, @, n)]
       /\ UNCHANGED wild
  ELSE wild' = TRUE /\ UNCHANGED <<heap, list>>

\* _release under the lock: the node may have gone since _proxy was looked at.
Release_NoRecheck(t) ==
  LET i == job[t].i
  IN  /\ pc[t] = "locked" /\ job[t].op = "release"
      /\ Unlink(job[t].c, proxy[i])
      /\ proxy' = [proxy EXCEPT ![i] = NoNode]
      /\ Goto(t, "unlock")
      /\ UNCHANGED <<locked, ver, home, job, old_ver, cursor, moves, aborted>>

Release(t) ==
  LET i == job[t].i
  IN  /\ pc[t] = "locked" /\ job[t].op = "release"
      /\ IF proxy[i] = NoNode THEN UNCHANGED <<heap, list, wild>>
                              ELSE Unlink(job[t].c, proxy[i])
      /\ proxy' = [proxy EXCEPT ![i] = NoNode]
      /\ Goto(t, "unlock")
      /\ UNCHANGED <<locked, ver, home, job, old_ver, cursor, moves, aborted>>

\* One turn of the loop of _invalidate_range: the iterator stays if its pointer
\* is still in the range, and is cut off otherwise.
Invalidate(t) ==
  LET c == job[t].c  n == cursor[t]
  IN  /\ pc[t] = "locked" /\ job[t].op = "invalidate" /\ n # NoNode
      /\ IF ~Alive(heap, n) \/ home[heap[n].data] = None
         THEN wild' = TRUE /\ UNCHANGED <<heap, list, proxy, cursor>>
         ELSE /\ cursor' = [cursor EXCEPT ![t] = heap[n].next]
              /\ \/ UNCHANGED <<heap, list, proxy, wild>>
                 \/ /\ Unlink(c, n)
                    /\ proxy' = [proxy EXCEPT ![heap[n].data] = NoNode]
      /\ UNCHANGED <<locked, ver, home, pc, job, old_ver, moves, aborted>>

InvalidateDone(t) ==
  /\ pc[t] = "locked" /\ job[t].op = "invalidate" /\ cursor[t] = NoNode
  /\ Goto(t, "unlock")
  /\ UNCHANGED <<locked, ver, mem, job, old_ver, cursor, moves, wild, aborted>>

\* _move_proxies holds the lock of the source only: the target's list is cleared
\* and takes over the source's nodes.  Nobody else looks at the two lists meanwhile:
\* the calls that may come in are releases of iterators _release_proxy detached.
MoveProxies(t) ==
  LET c == job[t].c  from == job[t].from
  IN  /\ pc[t] = "locked" /\ job[t].op = "move"
      /\ IF ClearIsSafe(heap, list[c])
         THEN /\ heap' = HeapAfterClear(heap, list[c])
              /\ list' = [list EXCEPT ![c] = list[from], ![from] = EmptyList]
              /\ UNCHANGED wild
         ELSE wild' = TRUE /\ UNCHANGED <<heap, list>>
      /\ Goto(t, "raise")
      /\ UNCHANGED <<locked, ver, home, proxy, job, old_ver, cursor, moves, aborted>>

\* Then both versions go up; no call looks at more than one of them.
RaiseVersions(t) ==
  LET c == job[t].c  from == job[t].from
  IN  /\ pc[t] = "raise"
      /\ ver' = [ver EXCEPT ![c] = @ + 1, ![from] = @ + 1]
      /\ Goto(t, "unlock")
      /\ UNCHANGED <<locked, mem, job, old_ver, cursor, moves, wild, aborted>>

\* _unlock ends the call; a released iterator is gone with it.
Unlock(t) ==
  /\ pc[t] = "unlock"
  /\ locked' = [locked EXCEPT ![Target(t)] = FALSE]
  /\ home' = IF job[t].op = "release" THEN [home EXCEPT ![job[t].i] = None] ELSE home
  /\ Goto(t, "idle") /\ job' = [job EXCEPT ![t] = NoJob]
  /\ UNCHANGED <<ver, list, heap, proxy, old_ver, cursor, moves, wild, aborted>>

-----------------------------------------------------------------------------
(* _release_proxy, the lock taken by a lock_guard: no version is looked at.  *)

CleanupLock(t) ==
  /\ pc[t] = "cleanup" /\ ~locked[job[t].c]
  /\ locked' = [locked EXCEPT ![job[t].c] = TRUE]
  /\ cursor' = [cursor EXCEPT ![t] = list[job[t].c].first]
  /\ Goto(t, "detach")
  /\ UNCHANGED <<ver, mem, job, old_ver, moves, wild, aborted>>

Detach_KeepsProxy(t) ==
  LET n == cursor[t]
  IN  /\ pc[t] = "detach" /\ n # NoNode
      /\ IF ~Alive(heap, n) \/ home[heap[n].data] = None
         THEN wild' = TRUE /\ UNCHANGED cursor
         ELSE cursor' = [cursor EXCEPT ![t] = heap[n].next] /\ UNCHANGED wild
      /\ UNCHANGED <<locked, ver, mem, pc, job, old_ver, moves, aborted>>

Detach(t) ==
  LET n == cursor[t]
  IN  /\ pc[t] = "detach" /\ n # NoNode
      /\ IF ~Alive(heap, n) \/ home[heap[n].data] = None
         THEN wild' = TRUE /\ UNCHANGED <<proxy, cursor>>
         ELSE /\ proxy' = [proxy EXCEPT ![heap[n].data] = NoNode]
              /\ cursor' = [cursor EXCEPT ![t] = heap[n].next]
              /\ UNCHANGED wild
      /\ UNCHANGED <<locked, ver, list, heap, home, pc, job, old_ver, moves, aborted>>

ClearList_KeepsSize(t) ==
  LET c == job[t].c
  IN  /\ pc[t] = "detach" /\ cursor[t] = NoNode
      /\ IF ClearIsSafe(heap, list[c])
         THEN /\ heap' = HeapAfterClear(heap, list[c])
              /\ list' = [list EXCEPT ![c] = [EmptyList EXCEPT !.size = list[c].size]]
              /\ UNCHANGED wild
         ELSE wild' = TRUE /\ UNCHANGED <<heap, list>>
      /\ Goto(t, "cleaned")
      /\ UNCHANGED <<locked, ver, home, proxy, job, old_ver, cursor, moves, aborted>>

ClearList(t) ==
  LET c == job[t].c
  IN  /\ pc[t] = "detach" /\ cursor[t] = NoNode
      /\ IF ClearIsSafe(heap, list[c])
         THEN /\ heap' = HeapAfterClear(heap, list[c])
              /\ list' = [list EXCEPT ![c] = EmptyList]
              /\ UNCHANGED wild
         ELSE wild' = TRUE /\ UNCHANGED <<heap, list>>
      /\ Goto(t, "cleaned")
      /\ UNCHANGED <<locked, ver, home, proxy, job, old_ver, cursor, moves, aborted>>

\* The guard lets go; a move assignment goes on with the lock of its source.
CleanupUnlock(t) ==
  /\ pc[t] = "cleaned"
  /\ locked' = [locked EXCEPT ![job[t].c] = FALSE]
  /\ IF job[t].op = "move" THEN Goto(t, "version") /\ UNCHANGED job
     ELSE Goto(t, "idle") /\ job' = [job EXCEPT ![t] = NoJob]
  /\ UNCHANGED <<ver, mem, old_ver, cursor, moves, wild, aborted>>

-----------------------------------------------------------------------------
Call(t) == Begin(t) \/ End(t) \/ Change(t) \/ MoveAssign(t)

Step(t) ==
  \/ Version(t) \/ Acquire(t) \/ CheckVersion(t) \/ Unlock(t)
  \/ Register(t) \/ Release(t) \/ Invalidate(t) \/ InvalidateDone(t)
  \/ MoveProxies(t) \/ RaiseVersions(t)
  \/ CleanupLock(t) \/ Detach(t) \/ ClearList(t) \/ CleanupUnlock(t)

Running == ~wild /\ ~aborted

Next == Running /\ \E t \in Threads : Call(t) \/ Step(t)

Spec == Init /\ [][Next]_vars

-----------------------------------------------------------------------------
(* Properties.                                                              *)

\* The shape of the state; in particular the unsigned _size of a list stays within
\* the nodes there are, it neither wraps below 0 nor outgrows them (list.h:332-364).
Jobs == [op : {"none", "register", "release", "clear", "invalidate", "move"},
         c : Containers \union {None}, from : Containers \union {None},
         i : Iterators \union {None}]
TypeOK ==
  /\ locked \in [Containers -> BOOLEAN] /\ ver \in [Containers -> 0 .. 2 * MaxMoves]
  /\ \A c \in Containers : /\ list[c].size \in 0 .. Cardinality(Nodes)
                           /\ {list[c].first, list[c].second} \subseteq Nodes \union {NoNode}
  /\ DOMAIN heap \subseteq Nodes
  /\ \A n \in DOMAIN heap : heap[n].data \in Iterators
  /\ home \in [Iterators -> Containers \union {None}]
  /\ proxy \in [Iterators -> Nodes \union {NoNode}]
  /\ pc \in [Threads -> {"idle", "version", "acquire", "assert", "locked",
                         "raise", "unlock", "cleanup", "detach", "cleaned"}]
  /\ job \in [Threads -> Jobs]
  /\ old_ver \in [Threads -> 0 .. 2 * MaxMoves]
  /\ cursor \in [Threads -> Nodes \union {NoNode}]
  /\ moves \in 0 .. MaxMoves /\ wild \in BOOLEAN /\ aborted \in BOOLEAN

\* While nobody holds a container's lock its list is well formed and registers
\* exactly the live iterators that believe they are registered, each at the node
\* it points to: no registration is lost, doubled or left behind by a dead
\* iterator, however creation, destruction and clearing interleave
\* (containers_dbg.cpp:4-9, 69-87, heap_array.h:697-711).
RegisteredExactly ==
  \A c \in Containers : ~locked[c] =>
    /\ WellFormed(heap, list[c])
    /\ Members(heap, list[c]) = {proxy[i] : i \in {j \in Iterators : home[j] = c}}
                                  \ {NoNode}
    /\ \A i \in Iterators : home[i] = c /\ proxy[i] # NoNode => heap[proxy[i]].data = i

\* No call follows a pointer to a freed node or writes to a dead iterator, also
\* when an iterator is destroyed while its container is cleared or resized: the
\* second look at _proxy under the lock is what makes it so
\* (containers_dbg.cpp:69-79).
NoUseAfterFree == ~wild

\* _release_proxy leaves no iterator that believes it is registered, also not one
\* whose destructor waits for the lock; and the target of a move assignment, which
\* its old iterators are still destroyed with, stays without registrations until it
\* takes over the source's list, although _move_proxies holds no lock of the target
\* then (containers_dbg.cpp:4-9, 19-25, 69-79): no node is dropped with an iterator
\* that points to it.
Cleared(t) == \/ pc[t] = "cleaned"
              \/ job[t].op = "move" /\ pc[t] \in {"version", "acquire", "assert", "locked"}
ClearedIsUnused ==
  \A t \in Threads : Cleared(t) =>
    /\ list[job[t].c].size = 0
    /\ \A i \in Iterators : home[i] = job[t].c => proxy[i] = NoNode

\* A container's lock is taken exactly while one thread is between taking and
\* giving it back, and never while two are (containers_dbg.cpp:4-9, 27-37,
\* spin_lock.h:27-35).
OneHolder ==
  \A c \in Containers :
    /\ locked[c] <=> \E t \in Threads : Holds(t, c)
    /\ \A t, u \in Threads : Holds(t, c) /\ Holds(u, c) => t = u

\* A call that finds the version changed since it looked at it destroys an iterator
\* that the move assignment itself took off its target: under the lock it finds
\* nothing to do, so what the assertion of containers_dbg.cpp:31 reports then is no
\* harm.  No registration, no _invalidate_range and no release that still has a node
\* is ever overtaken by a move (containers_dbg.cpp:19-33, 69-79).
StaleVersionIsHarmless ==
  \A t \in Threads : pc[t] = "assert" /\ old_ver[t] # ver[Target(t)] =>
    job[t].op = "release" /\ proxy[job[t].i] = NoNode

\* containers_dbg.cpp:31, ASSERT_ABORT(old_ver == _ver.load(...)): no move takes
\* place between the moment a call looks at the version and the moment it holds
\* the lock.
VersionHolds == ~aborted
=============================================================================
