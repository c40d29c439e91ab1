------------------------ MODULE DebugIteratorsProofs ------------------------
(***************************************************************************)
(* The debug iterators, for any number of threads, containers, iterators   *)
(* and nodes: one thread holds a container's lock; and while containers    *)
(* that have iterators are not moved from, their lists register exactly    *)
(* the live iterators, nothing freed is used, and the assertion of _lock   *)
(* only fails where it does not matter.  The invariant names the sequence  *)
(* of nodes every list is, how far a cleanup has detached it, and what the *)
(* calls under way may rely on.                                            *)
(***************************************************************************)
EXTENDS DebugIterators, FiniteSetTheorems, TLAPS

PCs == {"idle", "version", "acquire", "assert", "locked", "raise", "unlock",
        "cleanup", "detach", "cleaned"}

\* A thread inside a call has a container to lock, and one in a move assignment
\* two.
CallsAreTyped ==
  /\ locked \in [Containers -> BOOLEAN]
  /\ pc \in [Threads -> PCs]
  /\ job \in [Threads -> Jobs]
  /\ home \in [Iterators -> Containers \union {None}]
  /\ \A t \in Threads : pc[t] # "idle" => job[t].c \in Containers
  /\ \A t \in Threads : job[t].op = "move" => job[t].from \in Containers

MutexInv == CallsAreTyped /\ OneHolder

-----------------------------------------------------------------------------
(* Three ways for a step to affect the holders of the locks.                *)

\* A step that changes neither a lock nor who holds it.
LEMMA HolderKept ==
  ASSUME OneHolder, locked' = locked,
         \A u \in Threads, c \in Containers : Holds(u, c)' <=> Holds(u, c)
  PROVE  OneHolder'
BY DEF OneHolder

\* A step in which a thread that holds no lock takes a free one.
LEMMA HolderAdded ==
  ASSUME NEW t \in Threads, NEW d \in Containers,
         locked \in [Containers -> BOOLEAN], OneHolder,
         ~locked[d], locked' = [locked EXCEPT ![d] = TRUE],
         \A u \in Threads \ {t}, c \in Containers : Holds(u, c)' <=> Holds(u, c),
         \A c \in Containers : ~Holds(t, c),
         \A c \in Containers : Holds(t, c)' <=> c = d
  PROVE  OneHolder'
<1> SUFFICES ASSUME NEW c \in Containers
             PROVE  /\ locked'[c] <=> \E u \in Threads : Holds(u, c)'
                    /\ \A u, v \in Threads : Holds(u, c)' /\ Holds(v, c)' => u = v
  BY DEF OneHolder
<1>1. CASE c = d
  <2>1. \A u \in Threads : ~Holds(u, d)
    BY DEF OneHolder
  <2>2. \A u \in Threads : Holds(u, c)' <=> u = t
    BY <1>1, <2>1
  <2>3. locked'[c] = TRUE
    BY <1>1
  <2> QED
    BY <2>2, <2>3
<1>2. CASE c # d
  <2>1. \A u \in Threads : Holds(u, c)' <=> Holds(u, c)
    BY <1>2
  <2>2. locked'[c] = locked[c]
    BY <1>2
  <2> QED
    BY <2>1, <2>2 DEF OneHolder
<1> QED
  BY <1>1, <1>2

\* A step in which the holder of a lock gives it back.
LEMMA HolderGone ==
  ASSUME NEW t \in Threads, NEW d \in Containers,
         locked \in [Containers -> BOOLEAN], OneHolder,
         locked' = [locked EXCEPT ![d] = FALSE],
         \A u \in Threads \ {t}, c \in Containers : Holds(u, c)' <=> Holds(u, c),
         \A c \in Containers : Holds(t, c) <=> c = d,
         \A c \in Containers : ~Holds(t, c)'
  PROVE  OneHolder'
<1> SUFFICES ASSUME NEW c \in Containers
             PROVE  /\ locked'[c] <=> \E u \in Threads : Holds(u, c)'
                    /\ \A u, v \in Threads : Holds(u, c)' /\ Holds(v, c)' => u = v
  BY DEF OneHolder
<1>1. CASE c = d
  <2>1. \A u \in Threads : Holds(u, d) => u = t
    BY DEF OneHolder
  <2>2. \A u \in Threads : ~Holds(u, c)'
    BY <1>1, <2>1
  <2>3. locked'[c] = FALSE
    BY <1>1
  <2> QED
    BY <2>2, <2>3
<1>2. CASE c # d
  <2>1. \A u \in Threads : Holds(u, c)' <=> Holds(u, c)
    BY <1>2
  <2>2. locked'[c] = locked[c]
    BY <1>2
  <2> QED
    BY <2>1, <2>2 DEF OneHolder
<1> QED
  BY <1>1, <1>2
-----------------------------------------------------------------------------
\* No call is in progress at the start.
LEMMA InitMutex == Init => MutexInv
<1> SUFFICES ASSUME Init PROVE MutexInv
  OBVIOUS
<1>1. NoJob \in Jobs
  BY DEF NoJob, Jobs
<1>2. CallsAreTyped
  BY <1>1 DEF Init, CallsAreTyped, PCs, NoJob
<1>3. OneHolder
  BY DEF Init, OneHolder, Holds
<1> QED
  BY <1>2, <1>3 DEF MutexInv

\* The typing of the calls survives every step.
LEMMA NextTyped ==
  ASSUME CallsAreTyped, Next
  PROVE  CallsAreTyped'
<1> USE DEF CallsAreTyped
<1> PICK t \in Threads : Call(t) \/ Step(t)
  BY DEF Next
<1> DEFINE Typed(j) == /\ j \in Jobs
                       /\ j.c \in Containers
                       /\ j.op = "move" => j.from \in Containers
<1>0. home' \in [Iterators -> Containers \union {None}]
  BY DEF Call, Step, Begin, End, Change, MoveAssign, Version, Acquire, CheckVersion,
         Register, Release, Invalidate, InvalidateDone, MoveProxies, RaiseVersions,
         Unlock, CleanupLock, Detach, ClearList, CleanupUnlock, mem
<1>1. ASSUME NEW j, Typed(j), NEW at \in PCs,
             job' = [job EXCEPT ![t] = j], pc' = [pc EXCEPT ![t] = at],
             locked' = locked
      PROVE  CallsAreTyped'
  BY <1>1, <1>0
<1>2. ASSUME NEW at \in PCs, pc[t] # "idle", pc' = [pc EXCEPT ![t] = at],
             job' = job, locked' \in [Containers -> BOOLEAN]
      PROVE  CallsAreTyped'
  BY <1>2, <1>0
<1>3. ASSUME pc' = [pc EXCEPT ![t] = "idle"], job' = [job EXCEPT ![t] = NoJob],
             locked' \in [Containers -> BOOLEAN]
      PROVE  CallsAreTyped'
  BY <1>3, <1>0 DEF NoJob, Jobs, PCs
<1>4. CASE End(t)
  <2>1. PICK i \in Iterators :
          /\ home[i] # None
          /\ \/ /\ UNCHANGED <<pc, job>>
                /\ home' = [home EXCEPT ![i] = None]
             \/ /\ Enter(t, [NoJob EXCEPT !.op = "release", !.c = home[i], !.i = i],
                         "version")
                /\ UNCHANGED home
    BY <1>4 DEF End
  <2>2. CASE /\ UNCHANGED <<pc, job>>
             /\ home' = [home EXCEPT ![i] = None]
    BY <1>4, <2>2, <1>0 DEF End
  <2>3. CASE /\ Enter(t, [NoJob EXCEPT !.op = "release", !.c = home[i], !.i = i],
                      "version")
             /\ UNCHANGED home
    <3>1. Typed([NoJob EXCEPT !.op = "release", !.c = home[i], !.i = i])
      BY <2>1 DEF NoJob, Jobs
    <3> QED
      BY <1>4, <2>3, <3>1, <1>1 DEF End, Enter, PCs
  <2> QED
    BY <2>1, <2>2, <2>3
<1>5. CASE Begin(t)
  <2>1. PICK c \in Containers, i \in Iterators :
          Enter(t, [NoJob EXCEPT !.op = "register", !.c = c, !.i = i], "version")
    BY <1>5 DEF Begin
  <2>2. Typed([NoJob EXCEPT !.op = "register", !.c = c, !.i = i])
    BY DEF NoJob, Jobs
  <2> QED
    BY <1>5, <2>1, <2>2, <1>1 DEF Begin, Enter, PCs
<1>7. CASE Change(t)
  <2>1. PICK c \in Containers :
          \/ Enter(t, [NoJob EXCEPT !.op = "clear", !.c = c], "cleanup")
          \/ Enter(t, [NoJob EXCEPT !.op = "invalidate", !.c = c], "version")
    BY <1>7 DEF Change
  <2>2. /\ Typed([NoJob EXCEPT !.op = "clear", !.c = c])
        /\ Typed([NoJob EXCEPT !.op = "invalidate", !.c = c])
    BY DEF NoJob, Jobs
  <2> QED
    BY <1>7, <2>1, <2>2, <1>1 DEF Change, Enter, PCs
<1>8. CASE MoveAssign(t)
  <2>1. PICK c, from \in Containers :
          Enter(t, [NoJob EXCEPT !.op = "move", !.c = c, !.from = from], "cleanup")
    BY <1>8 DEF MoveAssign
  <2>2. Typed([NoJob EXCEPT !.op = "move", !.c = c, !.from = from])
    BY DEF NoJob, Jobs
  <2> QED
    BY <1>8, <2>1, <2>2, <1>1 DEF MoveAssign, Enter, PCs
<1>9. CASE Version(t) \/ CheckVersion(t) \/ Register(t) \/ Release(t) \/ InvalidateDone(t)
  BY <1>9, <1>2 DEF Version, CheckVersion, Register, Release, InvalidateDone, Goto, PCs
<1>10. CASE Acquire(t) \/ CleanupLock(t)
  BY <1>10, <1>2 DEF Acquire, CleanupLock, Goto, PCs
<1>11. CASE MoveProxies(t) \/ RaiseVersions(t) \/ ClearList(t)
  BY <1>11, <1>2 DEF MoveProxies, RaiseVersions, ClearList, Goto, PCs
<1>12. CASE Invalidate(t) \/ Detach(t)
  BY <1>12, <1>0 DEF Invalidate, Detach
<1>13. CASE Unlock(t)
  BY <1>13, <1>3 DEF Unlock, Goto
<1>14. CASE CleanupUnlock(t)
  BY <1>14, <1>2, <1>3 DEF CleanupUnlock, Goto, PCs
<1> QED
  BY <1>4, <1>5, <1>7, <1>8, <1>9, <1>10, <1>11, <1>12, <1>13, <1>14 DEF Call, Step

\* Only taking and giving back a lock changes who holds it.
LEMMA NextHolder ==
  ASSUME MutexInv, Next
  PROVE  OneHolder'
<1> USE DEF MutexInv, CallsAreTyped
<1> PICK t \in Threads : Call(t) \/ Step(t)
  BY DEF Next
<1>1. ASSUME locked' = locked, NEW at, pc' = [pc EXCEPT ![t] = at], NEW j,
             job' = [job EXCEPT ![t] = j],
             \A c \in Containers : Holds(t, c)' <=> Holds(t, c)
      PROVE  OneHolder'
  <2>1. \A u \in Threads, c \in Containers : Holds(u, c)' <=> Holds(u, c)
    BY <1>1 DEF Holds, Target
  <2> QED
    BY <1>1, <2>1, HolderKept
<1>2. ASSUME locked' = locked, NEW at, pc' = [pc EXCEPT ![t] = at], job' = job,
             \A c \in Containers : Holds(t, c)' <=> Holds(t, c)
      PROVE  OneHolder'
  <2>1. \A u \in Threads, c \in Containers : Holds(u, c)' <=> Holds(u, c)
    BY <1>2 DEF Holds, Target
  <2> QED
    BY <1>2, <2>1, HolderKept
<1>3. ASSUME locked' = locked, pc' = pc, job' = job
      PROVE  OneHolder'
  <2>1. \A u \in Threads, c \in Containers : Holds(u, c)' <=> Holds(u, c)
    BY <1>3 DEF Holds, Target
  <2> QED
    BY <1>3, <2>1, HolderKept
<1>4. ASSUME NEW j, NEW at \in {"version", "cleanup"}, Enter(t, j, at), locked' = locked
      PROVE  OneHolder'
  <2>1. \A c \in Containers : ~Holds(t, c) /\ ~Holds(t, c)'
    BY <1>4 DEF Enter, Holds
  <2> QED
    BY <1>1, <1>4, <2>1 DEF Enter
<1>5. CASE Call(t)
  BY <1>5, <1>3, <1>4 DEF Call, Begin, End, Change, MoveAssign
<1>6. CASE Version(t)
  <2>1. \A c \in Containers : Holds(t, c)' <=> Holds(t, c)
    BY <1>6 DEF Version, Goto, Holds
  <2> QED
    BY <1>2, <1>6, <2>1 DEF Version, Goto
<1>7. CASE CheckVersion(t)
  <2>1. \A c \in Containers : Holds(t, c)' <=> Holds(t, c)
    BY <1>7 DEF CheckVersion, Goto, Holds, Target
  <2> QED
    BY <1>2, <1>7, <2>1 DEF CheckVersion, Goto
<1>8. CASE \/ Register(t) \/ Release(t) \/ InvalidateDone(t) \/ MoveProxies(t)
           \/ RaiseVersions(t)
  <2>1. PICK at \in {"raise", "unlock"} :
          /\ pc[t] \in {"locked", "raise"} /\ pc' = [pc EXCEPT ![t] = at]
          /\ UNCHANGED <<locked, job>>
    BY <1>8 DEF Register, Release, InvalidateDone, MoveProxies, RaiseVersions, Goto
  <2>2. \A c \in Containers : Holds(t, c)' <=> Holds(t, c)
    BY <2>1 DEF Holds, Target
  <2> QED
    BY <1>2, <2>1, <2>2
<1>9. CASE Invalidate(t) \/ Detach(t)
  BY <1>3, <1>9 DEF Invalidate, Detach
<1>10. CASE ClearList(t)
  <2>1. \A c \in Containers : Holds(t, c)' <=> Holds(t, c)
    BY <1>10 DEF ClearList, Goto, Holds
  <2> QED
    BY <1>2, <1>10, <2>1 DEF ClearList, Goto
<1>11. CASE Acquire(t)
  <2>1. /\ pc[t] = "acquire" /\ pc' = [pc EXCEPT ![t] = "assert"] /\ job' = job
        /\ ~locked[Target(t)] /\ locked' = [locked EXCEPT ![Target(t)] = TRUE]
    BY <1>11 DEF Acquire, Goto
  <2>2. Target(t) \in Containers
    BY <2>1 DEF Target
  <2>3. \A u \in Threads \ {t}, c \in Containers : Holds(u, c)' <=> Holds(u, c)
    BY <2>1 DEF Holds, Target
  <2>4. \A c \in Containers : ~Holds(t, c) /\ (Holds(t, c)' <=> c = Target(t))
    BY <2>1 DEF Holds, Target
  <2> QED
    BY <2>1, <2>2, <2>3, <2>4, HolderAdded
<1>12. CASE CleanupLock(t)
  <2>1. /\ pc[t] = "cleanup" /\ pc' = [pc EXCEPT ![t] = "detach"] /\ job' = job
        /\ ~locked[job[t].c] /\ locked' = [locked EXCEPT ![job[t].c] = TRUE]
    BY <1>12 DEF CleanupLock, Goto
  <2>2. job[t].c \in Containers
    BY <2>1
  <2>3. \A u \in Threads \ {t}, c \in Containers : Holds(u, c)' <=> Holds(u, c)
    BY <2>1 DEF Holds, Target
  <2>4. \A c \in Containers : ~Holds(t, c) /\ (Holds(t, c)' <=> c = job[t].c)
    BY <2>1 DEF Holds
  <2> QED
    BY <2>1, <2>2, <2>3, <2>4, HolderAdded
<1>13. CASE Unlock(t)
  <2>1. /\ pc[t] = "unlock" /\ pc' = [pc EXCEPT ![t] = "idle"]
        /\ job' = [job EXCEPT ![t] = NoJob]
        /\ locked' = [locked EXCEPT ![Target(t)] = FALSE]
    BY <1>13 DEF Unlock, Goto
  <2>2. Target(t) \in Containers
    BY <2>1 DEF Target
  <2>3. \A u \in Threads \ {t}, c \in Containers : Holds(u, c)' <=> Holds(u, c)
    BY <2>1 DEF Holds, Target
  <2>4. \A c \in Containers : (Holds(t, c) <=> c = Target(t)) /\ ~Holds(t, c)'
    BY <2>1 DEF Holds, Target
  <2> QED
    BY <2>1, <2>2, <2>3, <2>4, HolderGone
<1>14. CASE CleanupUnlock(t)
  <2>1. /\ pc[t] = "cleaned"
        /\ \/ pc' = [pc EXCEPT ![t] = "version"] /\ job' = job
           \/ pc' = [pc EXCEPT ![t] = "idle"] /\ job' = [job EXCEPT ![t] = NoJob]
        /\ locked' = [locked EXCEPT ![job[t].c] = FALSE]
    BY <1>14 DEF CleanupUnlock, Goto
  <2>2. job[t].c \in Containers
    BY <2>1
  <2>3. \A u \in Threads \ {t}, c \in Containers : Holds(u, c)' <=> Holds(u, c)
    BY <2>1 DEF Holds, Target
  <2>4. \A c \in Containers : (Holds(t, c) <=> c = job[t].c) /\ ~Holds(t, c)'
    BY <2>1 DEF Holds
  <2> QED
    BY <2>1, <2>2, <2>3, <2>4, HolderGone
<1> QED
  BY <1>5, <1>6, <1>7, <1>8, <1>9, <1>10, <1>11, <1>12, <1>13, <1>14 DEF Step

\* What a stuttering step leaves alone.
LEMMA StutterMutex == MutexInv /\ UNCHANGED vars => MutexInv'
BY DEF vars, MutexInv, CallsAreTyped, OneHolder, Holds, Target

\* The calls' own state is inductive together with mutual exclusion
\* (containers_dbg.cpp:4-9, 27-37).
THEOREM MutexInductive == Spec => []MutexInv
<1>1. MutexInv /\ [Next]_vars => MutexInv'
  BY NextTyped, NextHolder, StutterMutex DEF MutexInv
<1> QED
  BY InitMutex, <1>1, PTL DEF Spec

\* A container's lock is taken exactly while one thread is between taking and
\* giving it back (containers_dbg.cpp:4-9, 27-37, spin_lock.h:27-35), for any
\* number of threads, with or without moves of containers that have iterators.
THEOREM LockHasOneHolder == Spec => []OneHolder
BY MutexInductive, PTL DEF MutexInv

-----------------------------------------------------------------------------
\* The list l in the heap h is the sequence s of pairwise different nodes.
Chain(h, l, s) ==
  /\ l.size \in Nat /\ s \in [1 .. l.size -> Nodes]
  /\ \A j, k \in 1 .. l.size : s[j] = s[k] => j = k
  /\ l.first = IF l.size = 0 THEN NoNode ELSE s[1]
  /\ l.second = IF l.size = 0 THEN NoNode ELSE s[l.size]
  /\ \A k \in 1 .. l.size :
       /\ s[k] \in DOMAIN h
       /\ h[s[k]].next = IF k = l.size THEN NoNode ELSE s[k + 1]
       /\ h[s[k]].last = IF k = 1 THEN NoNode ELSE s[k - 1]

\* A heap maps allocated nodes to their fields.
IsHeap(h) ==
  /\ h = [n \in DOMAIN h |-> h[n]] /\ DOMAIN h \subseteq Nodes
  /\ \A n \in DOMAIN h : h[n] \in [data : Iterators, next : Nodes \union {NoNode},
                                   last : Nodes \union {NoNode}]

\* What the variables hold, the versions apart.
Kinds ==
  /\ list = [c \in Containers |-> list[c]] /\ IsHeap(heap)
  /\ proxy \in [Iterators -> Nodes \union {NoNode}]
  /\ cursor \in [Threads -> Nodes \union {NoNode}]
  /\ wild \in BOOLEAN /\ aborted \in BOOLEAN

\* A version counts the moves; it is one behind while a move is under way.
Versions ==
  /\ moves \in 0 .. MaxMoves
  /\ ver \in [Containers -> 0 .. MaxMoves] /\ old_ver \in [Threads -> 0 .. MaxMoves]
  /\ \A c \in Containers : ver[c] <= moves
  /\ \A t \in Threads : job[t].op = "move" /\ pc[t] # "unlock" =>
       ver[job[t].c] < moves /\ ver[job[t].from] < moves

Changer(t, c) == /\ job[t].op \in {"clear", "invalidate", "move"}
                 /\ c \in {job[t].c, job[t].from}

\* What a call that is under way may rely on.
CallInv(t) ==
  /\ pc[t] = "idle" <=> job[t].op = "none"
  /\ pc[t] \in {"cleanup", "detach", "cleaned"} => job[t].op \in {"clear", "move"}
  /\ IF job[t].op \in {"register", "release"}
     THEN job[t].i \in Iterators /\ home[job[t].i] = job[t].c
     ELSE job[t].i = None
  /\ job[t].op = "register" /\ pc[t] # "unlock" => proxy[job[t].i] = NoNode
  /\ job[t].op = "release" /\ pc[t] = "unlock" => proxy[job[t].i] = NoNode
  /\ job[t].op = "move" => job[t].c # job[t].from /\ ~Shared(job[t].from)
  /\ pc[t] = "raise" => job[t].op = "move"
\* What callers keep apart.
ApartInv(t, u) ==
  /\ job[t].i = job[u].i => t = u \/ job[t].i = None
  /\ \A c \in Containers : Changer(t, c) /\ Changer(u, c) => t = u
  /\ job[t].op = "register" => ~Changer(u, job[t].c)

CallsInv == /\ \A t \in Threads : CallInv(t)
            /\ \A t, u \in Threads : ApartInv(t, u)
            /\ \A i \in Iterators : home[i] = None => proxy[i] = NoNode

\* The nodes of c's list from position k on are those of the registered iterators.
Registered(c, s, k) ==
  /\ k \in 1 .. list[c].size + 1
  /\ \A j \in k .. list[c].size : LET i == heap[s[j]].data
                                  IN  home[i] = c /\ proxy[i] = s[j]
  /\ \A i \in Iterators : home[i] = c /\ proxy[i] # NoNode =>
       \E j \in k .. list[c].size : proxy[i] = s[j] /\ heap[s[j]].data = i

Detaching(t, c) == pc[t] = "detach" /\ job[t].c = c
Walking(t, c) == pc[t] = "locked" /\ job[t].op = "invalidate" /\ job[t].c = c

\* Where the walks along c's list have come to.
Cursors(c, s, k) ==
  /\ k # 1 => \E t \in Threads : Detaching(t, c)
  /\ \A t \in Threads : Detaching(t, c) =>
       cursor[t] = IF k = list[c].size + 1 THEN NoNode ELSE s[k]
  /\ \A t \in Threads : Walking(t, c) =>
       cursor[t] = NoNode \/ \E j \in 1 .. list[c].size : cursor[t] = s[j]

\* The lists are the sequences S, apart from each other, detached up to K.
Lists(S, K) ==
  /\ \A c \in Containers : /\ Chain(heap, list[c], S[c])
                           /\ Registered(c, S[c], K[c])
                           /\ Cursors(c, S[c], K[c])
  /\ \A c, d \in Containers : \A j \in 1 .. list[c].size, k \in 1 .. list[d].size :
       S[c][j] = S[d][k] => c = d
-----------------------------------------------------------------------------
(* Lists.  A walk is a recursive function, so first that it exists and what  *)
(* it is.                                                                    *)

\* A set of numbers up to N that is not empty has a least one.
LEMMA LeastNumber ==
  ASSUME NEW N \in Nat, NEW T \in SUBSET (0 .. N), T # {}
  PROVE  \E m \in T : \A k \in T : m <= k
<1> DEFINE S == 0 .. N
           Below == {0 .. m : m \in T}
<1>1. IsFiniteSet(S)
  BY FS_Interval
<1>2. IsWellFoundedOn(StrictSubsetOrdering(S), SUBSET S)
  BY <1>1, FS_FiniteSubsetsOfFinite, FS_StrictSubsetOrderingWellFounded
<1>3. Below \subseteq SUBSET S /\ Below # {}
  <2>1. \A m \in T : m \in 0 .. N /\ 0 .. m \in SUBSET S
    OBVIOUS
  <2>2. PICK m \in T : TRUE
    OBVIOUS
  <2>3. 0 .. m \in Below
    BY <2>2
  <2> QED
    BY <2>1, <2>3
<1>4. PICK x \in Below : \A y \in Below : ~ (<<y, x>> \in StrictSubsetOrdering(S))
  <2> HIDE DEF S, Below
  <2> QED
    BY <1>2, <1>3, WFMin
<1>5. PICK m \in T : x = 0 .. m
  BY <1>4
<1>6. ASSUME NEW k \in T, k < m
      PROVE  FALSE
  <2>1. 0 .. k \in Below /\ 0 .. k \subseteq x /\ 0 .. k # x
    <3>1. m \in x /\ m \notin 0 .. k
      BY <1>5, <1>6
    <3> QED
      BY <1>5, <1>6, <3>1
  <2> QED
    BY <1>3, <1>4, <2>1 DEF StrictSubsetOrdering
<1> QED
  BY <1>6

\* What the nodes met by a walk of N steps are.
IsWalk(f, h, l, N) ==
  f = [k \in 0 .. N |-> IF k = 0 THEN l.first
                        ELSE IF Alive(h, f[k - 1]) THEN h[f[k - 1]].next ELSE NoNode]

\* The nodes of a chain, one after the other, and nothing after them.
Along(l, s, N) == [k \in 0 .. N |-> IF k < l.size THEN s[k + 1] ELSE NoNode]

\* A chain's walk meets its nodes in order.
LEMMA ChainIsWalk ==
  ASSUME NEW h, DOMAIN h \subseteq Nodes, NEW l, NEW s, Chain(h, l, s), NEW N \in Nat
  PROVE  IsWalk(Along(l, s, N), h, l, N)
<1> DEFINE f == Along(l, s, N)
           g(k) == IF k = 0 THEN l.first
                   ELSE IF Alive(h, f[k - 1]) THEN h[f[k - 1]].next ELSE NoNode
<1>1. \A k \in 0 .. N : f[k] = IF k < l.size THEN s[k + 1] ELSE NoNode
  BY DEF Along
<1>2. ASSUME NEW k \in 0 .. N
      PROVE  f[k] = g(k)
  <2>1. CASE k = 0
    BY <1>1, <2>1 DEF Chain
  <2>2. CASE k # 0 /\ k <= l.size
    <3>1. /\ k - 1 \in 0 .. N /\ k - 1 < l.size /\ (k - 1) + 1 = k
          /\ k \in 1 .. l.size /\ l.size \in Nat
      BY <2>2 DEF Chain
    <3>2. f[k - 1] = s[k]
      BY <1>1, <3>1
    <3>3. Alive(h, s[k]) /\ h[s[k]].next = IF k = l.size THEN NoNode ELSE s[k + 1]
      BY <3>1 DEF Chain, Alive
    <3>4. k = l.size <=> ~(k < l.size)
      BY <3>1
    <3> QED
      BY <1>1, <2>2, <3>2, <3>3, <3>4
  <2>3. CASE k # 0 /\ ~(k <= l.size)
    <3>1. k - 1 \in 0 .. N /\ ~(k - 1 < l.size) /\ ~(k < l.size)
      BY <2>3 DEF Chain
    <3>2. f[k - 1] = NoNode /\ f[k] = NoNode
      BY <1>1, <3>1
    <3>3. ~Alive(h, NoNode)
      BY ListAssumption DEF Alive
    <3> QED
      BY <2>3, <3>2, <3>3
  <2> QED
    BY <2>1, <2>2, <2>3
<1>3. f = [k \in 0 .. N |-> f[k]]
  BY DEF Along
<1>4. f = [k \in 0 .. N |-> g(k)]
  <2> HIDE DEF f, g
  <2> QED
    BY <1>2, <1>3
<1> QED
  BY <1>4 DEF IsWalk

\* There is one walk only.
LEMMA WalkIsUnique ==
  ASSUME NEW h, NEW l, NEW N \in Nat, NEW f, IsWalk(f, h, l, N),
         NEW g, IsWalk(g, h, l, N)
  PROVE  f = g
<1> DEFINE T == {k \in 0 .. N : f[k] # g[k]}
<1>1. /\ \A k \in 0 .. N : f[k] = IF k = 0 THEN l.first
             ELSE IF Alive(h, f[k - 1]) THEN h[f[k - 1]].next ELSE NoNode
      /\ \A k \in 0 .. N : g[k] = IF k = 0 THEN l.first
             ELSE IF Alive(h, g[k - 1]) THEN h[g[k - 1]].next ELSE NoNode
      /\ f = [k \in 0 .. N |-> f[k]] /\ g = [k \in 0 .. N |-> g[k]]
  BY DEF IsWalk
<1>2. CASE T # {}
  <2>1. PICK m \in T : \A k \in T : m <= k
    BY <1>2, LeastNumber
  <2>2. m # 0
    BY <1>1
  <2>3. m - 1 \in 0 .. N /\ m - 1 \notin T
    BY <2>1, <2>2
  <2>4. f[m - 1] = g[m - 1]
    BY <2>3
  <2>5. m \in 0 .. N /\ f[m] # g[m]
    BY <2>1
  <2>6. f[m] = IF Alive(h, f[m - 1]) THEN h[f[m - 1]].next ELSE NoNode
    BY <1>1, <2>2, <2>5
  <2>7. g[m] = IF Alive(h, g[m - 1]) THEN h[g[m - 1]].next ELSE NoNode
    BY <1>1, <2>2, <2>5
  <2> QED
    BY <2>4, <2>5, <2>6, <2>7
<1>3. CASE T = {}
  <2>1. \A k \in 0 .. N : f[k] = g[k]
    BY <1>3
  <2> QED
    BY <1>1, <2>1
<1> QED
  BY <1>2, <1>3

\* So that is what Walk is.
LEMMA WalkAlong ==
  ASSUME NEW h, DOMAIN h \subseteq Nodes, NEW l, NEW s, Chain(h, l, s)
  PROVE  Walk(h, l) = Along(l, s, Cardinality(Nodes))
<1> DEFINE N == Cardinality(Nodes)
<1>0. N \in Nat
  BY ListAssumption, FS_CardinalityType
<1>1. IsWalk(Along(l, s, N), h, l, N)
  BY <1>0, ChainIsWalk
<1>2. Walk(h, l) = CHOOSE f : IsWalk(f, h, l, N)
  BY DEF Walk, IsWalk
<1>3. IsWalk(Walk(h, l), h, l, N)
  BY <1>1, <1>2
<1> QED
  BY <1>0, <1>1, <1>3, WalkIsUnique

\* A chain is no longer than there are nodes.
LEMMA ChainFits ==
  ASSUME NEW h, NEW l, NEW s, Chain(h, l, s)
  PROVE  l.size \in 0 .. Cardinality(Nodes)
<1>1. s \in Injection(1 .. l.size, Nodes)
  BY DEF Chain, Injection, IsInjective
<1>2. l.size \in Nat /\ Cardinality(1 .. l.size) = l.size
  BY FS_Interval DEF Chain
<1>3. Cardinality(1 .. l.size) <= Cardinality(Nodes) /\ Cardinality(Nodes) \in Nat
  BY <1>1, ListAssumption, FS_Injection, FS_CardinalityType
<1> QED
  BY <1>2, <1>3

\* A chain is well formed, and its members are its nodes.
LEMMA ChainIsWellFormed ==
  ASSUME NEW h, DOMAIN h \subseteq Nodes, NEW l, NEW s, Chain(h, l, s)
  PROVE  WellFormed(h, l) /\ Members(h, l) = {s[k] : k \in 1 .. l.size}
<1> DEFINE N == Cardinality(Nodes)  at == Walk(h, l)
<1>1. N \in Nat /\ l.size \in 0 .. N
  BY ListAssumption, FS_CardinalityType, ChainFits
<1>2. \A k \in 0 .. N : at[k] = IF k < l.size THEN s[k + 1] ELSE NoNode
  <2>1. at = Along(l, s, N)
    BY WalkAlong
  <2> HIDE DEF at, N
  <2> QED
    BY <2>1 DEF Along
<1>3. \A k \in 1 .. l.size : s[k] \in Nodes /\ k - 1 \in 0 .. N /\ at[k - 1] = s[k]
  BY <1>1, <1>2 DEF Chain
<1>4. at[l.size] = NoNode
  BY <1>1, <1>2
<1> HIDE DEF at, N
<1>5. ASSUME NEW k \in 0 .. l.size - 1
      PROVE  /\ Alive(h, at[k])
             /\ h[at[k]].last = IF k = 0 THEN NoNode ELSE at[k - 1]
  <2>1. /\ k + 1 \in 1 .. l.size /\ (k + 1) - 1 = k /\ (k = 0 <=> k + 1 = 1)
        /\ k # 0 => k \in 1 .. l.size
    BY <1>1
  <2>2. at[k] = s[k + 1] /\ (k # 0 => at[k - 1] = s[k])
    BY <1>3, <2>1
  <2> QED
    BY <2>1, <2>2 DEF Chain, Alive
<1>6. l.second = IF l.size = 0 THEN NoNode ELSE at[l.size - 1]
  <2>1. l.size # 0 => l.size \in 1 .. l.size
    BY <1>1
  <2> QED
    BY <1>3, <2>1 DEF Chain
<1>7. WellFormed(h, l)
  BY <1>1, <1>4, <1>5, <1>6 DEF WellFormed, at, N
<1>8. Members(h, l) = {s[k] : k \in 1 .. l.size}
  <2>1. Members(h, l) = {at[k] : k \in 0 .. N} \ {NoNode}
    BY DEF Members, at, N
  <2>2. ASSUME NEW k \in 0 .. N, at[k] # NoNode
        PROVE  \E j \in 1 .. l.size : at[k] = s[j]
    <3>1. k < l.size /\ at[k] = s[k + 1]
      BY <1>2, <2>2 DEF at, N
    <3>2. k + 1 \in 1 .. l.size
      BY <1>1, <3>1
    <3> QED
      BY <3>1, <3>2
  <2>3. \A k \in 1 .. l.size : s[k] # NoNode
    BY <1>3, ListAssumption
  <2> QED
    BY <1>3, <2>1, <2>2, <2>3
<1> QED
  BY <1>7, <1>8

-----------------------------------------------------------------------------
(* What the operations of a list make of a chain.                           *)

\* A node by its fields.
NodeIs(e, d, n, p) == e = [data |-> d, next |-> n, last |-> p]

\* The fields of such a node, and what an assignment to one of them leaves.
LEMMA NodeFields ==
  ASSUME NEW h, IsHeap(h), NEW n \in DOMAIN h
  PROVE  /\ NodeIs(h[n], h[n].data, h[n].next, h[n].last)
         /\ h[n].data \in Iterators /\ h[n].next \in Nodes \union {NoNode}
         /\ h[n].last \in Nodes \union {NoNode} /\ n \in Nodes /\ n # NoNode
<1>1. h[n] \in [data : Iterators, next : Nodes \union {NoNode},
                last : Nodes \union {NoNode}]
  BY DEF IsHeap
<1>2. n \in Nodes
  BY DEF IsHeap
<1> QED
  BY <1>1, <1>2, ListAssumption DEF NodeIs

\* A list whose nodes nobody touched is the chain it was.
LEMMA ChainElsewhere ==
  ASSUME NEW h, NEW l, NEW s, Chain(h, l, s), NEW g,
         \A k \in 1 .. l.size : s[k] \in DOMAIN g /\ g[s[k]] = h[s[k]]
  PROVE  Chain(g, l, s)
BY DEF Chain

\* emplace_back appends a node; the data of the others stays.
LEMMA EmplaceHeap ==
  ASSUME NEW h, IsHeap(h), NEW l, NEW s, Chain(h, l, s), NEW n \in Nodes \ DOMAIN h,
         NEW v \in Iterators
  PROVE  LET g == HeapAfterEmplace(h, l, n, v)
         IN  /\ IsHeap(g) /\ DOMAIN g = DOMAIN h \union {n}
             /\ NodeIs(g[n], v, NoNode, l.second)
             /\ \A m \in DOMAIN h : g[m].data = h[m].data
             /\ \A m \in DOMAIN h : m # l.second => g[m] = h[m]
             /\ l.size # 0 => NodeIs(g[l.second], h[l.second].data, n, h[l.second].last)
<1> DEFINE g == HeapAfterEmplace(h, l, n, v)
           e(m) == IF m = n THEN [data |-> v, next |-> NoNode, last |-> l.second]
                   ELSE IF m = l.second THEN [h[m] EXCEPT !.next = n] ELSE h[m]
<1>1. /\ g = [m \in DOMAIN h \union {n} |-> g[m]] /\ DOMAIN g = DOMAIN h \union {n}
      /\ \A m \in DOMAIN h \union {n} : g[m] = e(m)
  BY DEF HeapAfterEmplace
<1>2. NodeIs(g[n], v, NoNode, l.second)
  BY <1>1 DEF NodeIs
<1>3. l.second \in DOMAIN h \union {NoNode} /\ (l.size # 0 => l.second \in DOMAIN h)
  <2>1. l.size # 0 => l.size \in 1 .. l.size
    BY DEF Chain
  <2> QED
    BY <2>1 DEF Chain
<1>4. ASSUME NEW m \in DOMAIN h, m = l.second
      PROVE  NodeIs(g[m], h[m].data, n, h[m].last)
  <2> DEFINE d == h[m].data  x == h[m].next  p == h[m].last
  <2>1. NodeIs(h[m], d, x, p) /\ m # n
    BY NodeFields
  <2>2. g[m] = [h[m] EXCEPT !.next = n]
    BY <1>1, <1>4, <2>1
  <2> HIDE DEF d, x, p
  <2>3. g[m] = [data |-> d, next |-> n, last |-> p]
    BY <2>1, <2>2 DEF NodeIs
  <2> QED
    BY <2>3 DEF NodeIs, d, p
<1>5. \A m \in DOMAIN h : m # l.second => g[m] = h[m]
  BY <1>1
<1> HIDE DEF g
<1>6. ASSUME NEW m \in DOMAIN h
      PROVE  g[m].data = h[m].data
  <2>1. CASE m = l.second
    <3>1. NodeIs(g[m], h[m].data, n, h[m].last)
      BY <1>4, <2>1
    <3> QED
      BY <3>1 DEF NodeIs
  <2> QED
    BY <1>5, <2>1
<1>7. IsHeap(g)
  <2>1. l.second \in Nodes \union {NoNode} /\ DOMAIN g \subseteq Nodes
    BY <1>1, <1>3 DEF IsHeap
  <2>2. ASSUME NEW m \in DOMAIN g
        PROVE  g[m] \in [data : Iterators, next : Nodes \union {NoNode},
                         last : Nodes \union {NoNode}]
    <3>1. CASE m = n
      BY <1>2, <2>1, <3>1 DEF NodeIs
    <3>2. CASE m # n /\ m = l.second
      <4>1. m \in DOMAIN h
        BY <1>1, <2>2, <3>2
      <4>2. NodeIs(g[m], h[m].data, n, h[m].last)
        BY <1>4, <3>2, <4>1
      <4> QED
        BY <4>1, <4>2, NodeFields DEF NodeIs
    <3>3. CASE m # n /\ m # l.second
      BY <1>1, <1>5, <2>2, <3>3 DEF IsHeap
    <3> QED
      BY <3>1, <3>2, <3>3
  <2>3. g = [m \in DOMAIN g |-> g[m]]
    BY <1>1
  <2> QED
    BY <2>1, <2>2, <2>3 DEF IsHeap
<1>8. l.size # 0 => NodeIs(g[l.second], h[l.second].data, n, h[l.second].last)
  BY <1>3, <1>4
<1> QED
  BY <1>1, <1>2, <1>5, <1>6, <1>7, <1>8 DEF g

\* The nodes after emplace_back.
Appended(l, s, n) == [k \in 1 .. l.size + 1 |-> IF k = l.size + 1 THEN n ELSE s[k]]

\* emplace_back puts its node at the end of the chain.
LEMMA EmplaceChain ==
  ASSUME NEW h, IsHeap(h), NEW l, NEW s, Chain(h, l, s), NEW n \in Nodes \ DOMAIN h,
         NEW v \in Iterators
  PROVE  Chain(HeapAfterEmplace(h, l, n, v), AfterEmplace(l, n), Appended(l, s, n))
<1> DEFINE g == HeapAfterEmplace(h, l, n, v)  q == l.size + 1
           m == AfterEmplace(l, n)  a == Appended(l, s, n)
<1>1. /\ DOMAIN g = DOMAIN h \union {n} /\ NodeIs(g[n], v, NoNode, l.second)
      /\ \A x \in DOMAIN h : x # l.second => g[x] = h[x]
      /\ l.size # 0 => NodeIs(g[l.second], h[l.second].data, n, h[l.second].last)
  BY EmplaceHeap
<1>2. l.size \in Nat /\ q \in Nat \ {0} /\ q # l.size /\ q \in 1 .. q
      /\ \A k \in 1 .. q : k = q \/ k \in 1 .. l.size
  BY DEF Chain
<1>3. /\ m.size = q /\ m.second = n
      /\ m.first = IF l.first = NoNode THEN n ELSE l.first
  BY DEF AfterEmplace
<1>4. a[q] = n /\ \A k \in 1 .. l.size : a[k] = s[k] /\ k # q /\ k \in 1 .. q
  BY <1>2 DEF Appended
<1>5. /\ \A k \in 1 .. l.size : s[k] \in DOMAIN h /\ s[k] \in Nodes /\ s[k] # NoNode
                                /\ s[k] # n
      /\ n # NoNode /\ n \in Nodes
  <2>1. \A k \in 1 .. l.size : s[k] \in DOMAIN h
    BY DEF Chain
  <2>2. s \in [1 .. l.size -> Nodes]
    BY DEF Chain
  <2>3. \A k \in 1 .. l.size : s[k] \in Nodes
    BY <2>2
  <2> QED
    BY <2>1, <2>3, ListAssumption
<1>6. a \in [1 .. q -> Nodes]
  <2>1. a = [k \in 1 .. q |-> a[k]]
    BY DEF Appended
  <2>2. \A k \in 1 .. q : a[k] \in Nodes
    BY <1>2, <1>4, <1>5
  <2> HIDE DEF a, q
  <2> QED
    BY <2>1, <2>2
<1> HIDE DEF g, m, a, q
<1>7. \A j, k \in 1 .. q : a[j] = a[k] => j = k
  BY <1>2, <1>4, <1>5 DEF Chain
<1>8. m.first = a[1]
  <2>1. CASE l.size = 0
    <3>1. q = 1 /\ l.first = NoNode
      BY <2>1 DEF Chain, q
    <3> QED
      BY <1>3, <1>4, <3>1
  <2>2. CASE l.size # 0
    <3>1. 1 \in 1 .. l.size
      BY <1>2, <2>2
    <3>2. l.first = s[1]
      BY <2>2 DEF Chain
    <3> QED
      BY <1>3, <1>4, <1>5, <3>1, <3>2
  <2> QED
    BY <2>1, <2>2
<1>9. ASSUME NEW k \in 1 .. q
      PROVE  /\ a[k] \in DOMAIN g
             /\ g[a[k]].next = IF k = q THEN NoNode ELSE a[k + 1]
             /\ g[a[k]].last = IF k = 1 THEN NoNode ELSE a[k - 1]
  <2>1. CASE k = q
    <3>1. l.second = IF q = 1 THEN NoNode ELSE a[q - 1]
      <4>1. l.size = 0 <=> q = 1
        BY <1>2 DEF q
      <4>2. q # 1 => l.size \in 1 .. l.size /\ q - 1 = l.size
        BY <1>2 DEF q
      <4> QED
        BY <1>4, <4>1, <4>2 DEF Chain
    <3> QED
      BY <1>1, <1>4, <2>1, <3>1 DEF NodeIs
  <2>2. CASE k # q /\ k = l.size
    <3>1. /\ k \in 1 .. l.size /\ l.size # 0 /\ k + 1 = q
          /\ k # 1 => k - 1 \in 1 .. l.size
      BY <1>2, <2>2 DEF q
    <3>2. l.second = s[k] /\ h[s[k]].last = IF k = 1 THEN NoNode ELSE s[k - 1]
      BY <2>2, <3>1 DEF Chain
    <3>3. NodeIs(g[s[k]], h[s[k]].data, n, h[s[k]].last)
      BY <1>1, <3>1, <3>2
    <3>4. a[k] = s[k] /\ a[k + 1] = n /\ (k # 1 => a[k - 1] = s[k - 1])
      BY <1>4, <3>1
    <3>5. s[k] \in DOMAIN h
      BY <1>5, <3>1
    <3> QED
      BY <1>1, <2>2, <3>2, <3>3, <3>4, <3>5 DEF NodeIs
  <2>3. CASE k # q /\ k # l.size
    <3>1. /\ k \in 1 .. l.size /\ l.size # 0 /\ k + 1 \in 1 .. l.size
          /\ k # 1 => k - 1 \in 1 .. l.size
      BY <1>2, <2>3 DEF q
    <3>2. s[k] # l.second
      BY <1>2, <2>3, <3>1 DEF Chain
    <3>3. g[s[k]] = h[s[k]] /\ s[k] \in DOMAIN g
      BY <1>1, <1>5, <3>1, <3>2
    <3>4. a[k] = s[k] /\ a[k + 1] = s[k + 1] /\ (k # 1 => a[k - 1] = s[k - 1])
      BY <1>4, <3>1
    <3> QED
      BY <2>3, <3>1, <3>3, <3>4 DEF Chain
  <2> QED
    BY <2>1, <2>2, <2>3
<1> QED
  <2>1. q # 0 /\ m.size \in Nat
    BY <1>2, <1>3
  <2>2. m.second = a[q]
    BY <1>3, <1>4
  <2>3. Chain(g, m, a)
    BY <1>3, <1>6, <1>7, <1>8, <1>9, <2>1, <2>2 DEF Chain
  <2> QED
    BY <2>3 DEF g, m, a

\* pop_at takes one node out and links its neighbours; the data of the others stays.
LEMMA PopHeap ==
  ASSUME NEW h, IsHeap(h), NEW n \in DOMAIN h
  PROVE  LET g == HeapAfterPop(h, n)
         IN  /\ IsHeap(g) /\ DOMAIN g = DOMAIN h \ {n}
             /\ \A m \in DOMAIN g :
                  NodeIs(g[m], h[m].data, IF m = h[n].last THEN h[n].next ELSE h[m].next,
                         IF m = h[n].next THEN h[n].last ELSE h[m].last)
             /\ \A m \in DOMAIN g : m \notin {h[n].last, h[n].next} => g[m] = h[m]
<1> DEFINE g == HeapAfterPop(h, n)  p == h[n].last  x == h[n].next
           e(m) == [h[m] EXCEPT !.next = IF m = p THEN x ELSE @,
                                !.last = IF m = x THEN p ELSE @]
<1>1. /\ g = [m \in DOMAIN g |-> g[m]] /\ DOMAIN g = DOMAIN h \ {n}
      /\ \A m \in DOMAIN h \ {n} : g[m] = e(m)
  BY DEF HeapAfterPop
<1>2. p \in Nodes \union {NoNode} /\ x \in Nodes \union {NoNode}
  BY NodeFields
<1> HIDE DEF g, p, x
<1>3. ASSUME NEW m \in DOMAIN h \ {n}
      PROVE  NodeIs(g[m], h[m].data, IF m = p THEN x ELSE h[m].next,
                    IF m = x THEN p ELSE h[m].last)
  <2> DEFINE d == h[m].data  y == h[m].next  q == h[m].last
             y2 == IF m = p THEN x ELSE y  q2 == IF m = x THEN p ELSE q
  <2>1. h[m] = [data |-> d, next |-> y, last |-> q]
    BY NodeFields DEF NodeIs
  <2>2. g[m] = [[h[m] EXCEPT !.next = y2] EXCEPT !.last = q2]
    <3>1. g[m] = [h[m] EXCEPT !.next = IF m = p THEN x ELSE @,
                              !.last = IF m = x THEN p ELSE @]
      BY <1>1
    <3> QED
      BY <3>1
  <2> HIDE DEF d, y, q, y2, q2
  <2>3. [h[m] EXCEPT !.next = y2] = [data |-> d, next |-> y2, last |-> q]
    BY <2>1
  <2>4. g[m] = [data |-> d, next |-> y2, last |-> q2]
    BY <2>2, <2>3
  <2> QED
    BY <2>4 DEF NodeIs, d, y, q, y2, q2
<1>4. ASSUME NEW m \in DOMAIN g, m \notin {p, x}
      PROVE  g[m] = h[m]
  <2>1. m \in DOMAIN h \ {n}
    BY <1>1
  <2>2. NodeIs(g[m], h[m].data, h[m].next, h[m].last)
    BY <1>3, <1>4, <2>1
  <2>3. NodeIs(h[m], h[m].data, h[m].next, h[m].last)
    BY <2>1, NodeFields
  <2> QED
    BY <2>2, <2>3 DEF NodeIs
<1>5. ASSUME NEW m \in DOMAIN g
      PROVE  g[m] \in [data : Iterators, next : Nodes \union {NoNode},
                       last : Nodes \union {NoNode}]
  <2>1. NodeIs(g[m], h[m].data, IF m = p THEN x ELSE h[m].next,
               IF m = x THEN p ELSE h[m].last)
    BY <1>1, <1>3
  <2>2. /\ h[m].data \in Iterators
        /\ (IF m = p THEN x ELSE h[m].next) \in Nodes \union {NoNode}
        /\ (IF m = x THEN p ELSE h[m].last) \in Nodes \union {NoNode}
    BY <1>1, <1>2, NodeFields
  <2> HIDE DEF g
  <2> QED
    BY <2>1, <2>2 DEF NodeIs
<1>6. IsHeap(g)
  BY <1>1, <1>5 DEF IsHeap
<1> QED
  BY <1>1, <1>3, <1>4, <1>6 DEF g, p, x

\* The nodes after the one at position p was taken out.
Without(l, s, p) == [k \in 1 .. l.size - 1 |-> IF k < p THEN s[k] ELSE s[k + 1]]

\* A node in a chain has its neighbours in it, and only they point to it.
LEMMA Neighbours ==
  ASSUME NEW h, NEW l, NEW s, Chain(h, l, s), NEW p \in 1 .. l.size
  PROVE  /\ PopIsSafe(h, s[p])
         /\ \A k \in 1 .. l.size : /\ s[k] = h[s[p]].last <=> k = p - 1
                                   /\ s[k] = h[s[p]].next <=> k = p + 1
         /\ h[s[p]].last = NoNode <=> p = 1
         /\ h[s[p]].next = NoNode <=> p = l.size
<1>1. /\ s[p] \in DOMAIN h /\ l.size \in Nat
      /\ h[s[p]].next = IF p = l.size THEN NoNode ELSE s[p + 1]
      /\ h[s[p]].last = IF p = 1 THEN NoNode ELSE s[p - 1]
  BY DEF Chain
<1>2. \A k \in 1 .. l.size : s[k] \in Nodes /\ s[k] # NoNode /\ s[k] \in DOMAIN h
  BY ListAssumption DEF Chain
<1>3. /\ p # 1 => p - 1 \in 1 .. l.size
      /\ p # l.size => p + 1 \in 1 .. l.size
      /\ \A k \in 1 .. l.size : (k = p - 1 => p # 1) /\ (k = p + 1 => p # l.size)
  BY <1>1
<1>4. PopIsSafe(h, s[p])
  BY <1>1, <1>2, <1>3 DEF PopIsSafe, Alive
<1>5. /\ h[s[p]].last = NoNode <=> p = 1
      /\ h[s[p]].next = NoNode <=> p = l.size
  BY <1>1, <1>2, <1>3
<1>6. ASSUME NEW k \in 1 .. l.size
      PROVE  /\ s[k] = h[s[p]].last <=> k = p - 1
             /\ s[k] = h[s[p]].next <=> k = p + 1
  <2>1. \A j \in 1 .. l.size : s[k] = s[j] <=> k = j
    BY DEF Chain
  <2> QED
    BY <1>1, <1>2, <1>3, <2>1
<1> QED
  BY <1>4, <1>5, <1>6

\* Popping the node at position p of a chain.
LEMMA PopChain ==
  ASSUME NEW h, IsHeap(h), NEW l, NEW s, Chain(h, l, s), NEW p \in 1 .. l.size
  PROVE  Chain(HeapAfterPop(h, s[p]), AfterPop(h, l, s[p]), Without(l, s, p))
<1> DEFINE n == s[p]  g == HeapAfterPop(h, n)  m == AfterPop(h, l, n)
           w == Without(l, s, p)  N == l.size  q == N - 1
           from(k) == IF k < p THEN k ELSE k + 1
<1>1. /\ N \in Nat \ {0} /\ q \in Nat /\ p \in 1 .. N /\ n \in DOMAIN h
      /\ \A k \in 1 .. N : s[k] \in DOMAIN h /\ s[k] \in Nodes
      /\ \A j, k \in 1 .. N : s[j] = s[k] => j = k
      /\ l.first = s[1] /\ l.second = s[N]
      /\ \A k \in 1 .. N : /\ h[s[k]].next = IF k = N THEN NoNode ELSE s[k + 1]
                           /\ h[s[k]].last = IF k = 1 THEN NoNode ELSE s[k - 1]
  BY DEF Chain
<1>2. /\ \A k \in 1 .. N : /\ s[k] = h[n].last <=> k = p - 1
                           /\ s[k] = h[n].next <=> k = p + 1
      /\ h[n].last = NoNode <=> p = 1
      /\ h[n].next = NoNode <=> p = N
  BY Neighbours
<1>3. /\ DOMAIN g = DOMAIN h \ {n}
      /\ \A x \in DOMAIN g :
           /\ g[x].next = IF x = h[n].last THEN h[n].next ELSE h[x].next
           /\ g[x].last = IF x = h[n].next THEN h[n].last ELSE h[x].last
  <2>1. /\ DOMAIN g = DOMAIN h \ {n}
        /\ \A x \in DOMAIN g :
             NodeIs(g[x], h[x].data, IF x = h[n].last THEN h[n].next ELSE h[x].next,
                    IF x = h[n].next THEN h[n].last ELSE h[x].last)
    <3>1. n \in DOMAIN h
      BY <1>1
    <3> HIDE DEF n
    <3> QED
      BY <3>1, PopHeap
  <2> HIDE DEF g, n
  <2>2. ASSUME NEW x \in DOMAIN g
        PROVE  /\ g[x].next = IF x = h[n].last THEN h[n].next ELSE h[x].next
               /\ g[x].last = IF x = h[n].next THEN h[n].last ELSE h[x].last
    <3>1. NodeIs(g[x], h[x].data, IF x = h[n].last THEN h[n].next ELSE h[x].next,
                 IF x = h[n].next THEN h[n].last ELSE h[x].last)
      BY <2>1
    <3> QED
      BY <3>1 DEF NodeIs
  <2> QED
    BY <2>1, <2>2
<1>4. /\ m.size = q
      /\ m.first = IF h[n].last = NoNode THEN h[n].next ELSE l.first
      /\ m.second = IF h[n].next = NoNode THEN h[n].last ELSE l.second
  BY DEF AfterPop
<1>5. \A k \in 1 .. q : from(k) \in 1 .. N /\ from(k) # p /\ w[k] = s[from(k)]
  BY <1>1 DEF Without
<1>6. w \in [1 .. q -> Nodes]
  <2>1. w = [k \in 1 .. q |-> w[k]]
    BY DEF Without
  <2>2. \A k \in 1 .. q : w[k] \in Nodes
    BY <1>1, <1>5
  <2> HIDE DEF w, q
  <2> QED
    BY <2>1, <2>2
<1>7. n = s[p] /\ q = N - 1 /\ N = l.size
  OBVIOUS
<1> HIDE DEF n, g, m, w, N, q
<1>8. \A j, k \in 1 .. q : w[j] = w[k] => j = k
  <2>1. \A j, k \in 1 .. q : from(j) = from(k) => j = k
    BY <1>1, <1>7
  <2> QED
    BY <1>1, <1>5, <2>1
<1>9. m.first = IF q = 0 THEN NoNode ELSE w[1]
  <2>1. CASE q = 0
    <3>1. N = 1 /\ p = 1
      BY <1>1, <1>7, <2>1
    <3> QED
      BY <1>2, <1>4, <2>1, <3>1
  <2>2. CASE q # 0 /\ p = 1
    <3>1. 2 \in 1 .. N /\ from(1) = 2 /\ 1 \in 1 .. q /\ 1 + 1 = 2 /\ 1 \in 1 .. N /\ N # 1
      BY <1>1, <1>7, <2>2
    <3>2. h[n].next = s[2]
      BY <1>1, <1>7, <2>2, <3>1
    <3>3. w[1] = s[2]
      BY <1>5, <3>1
    <3> QED
      BY <1>2, <1>4, <2>2, <3>2, <3>3
  <2>3. CASE q # 0 /\ p # 1
    <3>1. from(1) = 1 /\ 1 \in 1 .. q
      BY <1>1, <1>7, <2>3
    <3> QED
      BY <1>1, <1>2, <1>4, <1>5, <2>3, <3>1
  <2> QED
    BY <2>1, <2>2, <2>3
<1>10. m.second = IF q = 0 THEN NoNode ELSE w[q]
  <2>1. CASE q = 0
    <3>1. N = 1 /\ p = 1
      BY <1>1, <1>7, <2>1
    <3> QED
      BY <1>2, <1>4, <2>1, <3>1
  <2>2. CASE q # 0 /\ p = N
    <3>1. q \in 1 .. N /\ from(q) = q /\ q \in 1 .. q /\ p - 1 = q /\ p # 1
      BY <1>1, <1>7, <2>2
    <3>2. h[n].last = s[q]
      BY <1>1, <1>7, <3>1
    <3> QED
      BY <1>2, <1>4, <1>5, <2>2, <3>1, <3>2
  <2>3. CASE q # 0 /\ p # N
    <3>1. from(q) = N /\ q \in 1 .. q
      BY <1>1, <1>7, <2>3
    <3> QED
      BY <1>1, <1>2, <1>4, <1>5, <2>3, <3>1
  <2> QED
    BY <2>1, <2>2, <2>3
<1>11. ASSUME NEW k \in 1 .. q
       PROVE  /\ w[k] \in DOMAIN g
              /\ g[w[k]].next = IF k = q THEN NoNode ELSE w[k + 1]
              /\ g[w[k]].last = IF k = 1 THEN NoNode ELSE w[k - 1]
  <2> DEFINE j == from(k)
  <2>1. j \in 1 .. N /\ j # p /\ w[k] = s[j]
    BY <1>5
  <2>2. w[k] \in DOMAIN g
    BY <1>1, <1>3, <1>7, <2>1
  <2>3. g[w[k]].next = IF k = q THEN NoNode ELSE w[k + 1]
    <3>1. g[w[k]].next = IF j = p - 1 THEN h[n].next ELSE h[s[j]].next
      BY <1>2, <1>3, <2>1, <2>2
    <3>2. CASE j = p - 1
      <4>1. /\ k = p - 1 /\ (k = q <=> p = N)
            /\ k # q => k + 1 \in 1 .. q /\ from(k + 1) = p + 1
        BY <1>1, <1>7, <3>2
      <4>2. h[n].next = IF p = N THEN NoNode ELSE s[p + 1]
        BY <1>1, <1>7
      <4>3. k # q => w[k + 1] = s[p + 1]
        BY <1>5, <4>1
      <4> QED
        BY <3>1, <3>2, <4>1, <4>2, <4>3
    <3>3. CASE j # p - 1
      <4>1. /\ k = q <=> j = N
            /\ k # q => k + 1 \in 1 .. q /\ from(k + 1) = j + 1
        BY <1>1, <1>7, <2>1, <3>3
      <4>2. h[s[j]].next = IF j = N THEN NoNode ELSE s[j + 1]
        BY <1>1, <2>1
      <4>3. k # q => w[k + 1] = s[j + 1]
        BY <1>5, <4>1
      <4> QED
        BY <3>1, <3>3, <4>1, <4>2, <4>3
    <3> QED
      BY <3>2, <3>3
  <2>4. g[w[k]].last = IF k = 1 THEN NoNode ELSE w[k - 1]
    <3>1. g[w[k]].last = IF j = p + 1 THEN h[n].last ELSE h[s[j]].last
      BY <1>2, <1>3, <2>1, <2>2
    <3>2. CASE j = p + 1
      <4>1. /\ k = p /\ (k = 1 <=> p = 1)
            /\ k # 1 => k - 1 \in 1 .. q /\ from(k - 1) = p - 1
        BY <1>1, <1>7, <3>2
      <4>2. h[n].last = IF p = 1 THEN NoNode ELSE s[p - 1]
        BY <1>1, <1>7
      <4>3. k # 1 => w[k - 1] = s[p - 1]
        BY <1>5, <4>1
      <4> QED
        BY <3>1, <3>2, <4>1, <4>2, <4>3
    <3>3. CASE j # p + 1
      <4>1. /\ k = 1 <=> j = 1
            /\ k # 1 => k - 1 \in 1 .. q /\ from(k - 1) = j - 1
        BY <1>1, <1>7, <2>1, <3>3
      <4>2. h[s[j]].last = IF j = 1 THEN NoNode ELSE s[j - 1]
        BY <1>1, <2>1
      <4>3. k # 1 => w[k - 1] = s[j - 1]
        BY <1>5, <4>1
      <4> QED
        BY <3>1, <3>3, <4>1, <4>2, <4>3
    <3> QED
      BY <3>2, <3>3
  <2> QED
    BY <2>2, <2>3, <2>4
<1> QED
  <2>1. Chain(g, m, w)
    BY <1>1, <1>4, <1>6, <1>8, <1>9, <1>10, <1>11 DEF Chain
  <2> QED
    BY <2>1 DEF g, m, w, n

\* clear of a chain frees its nodes and no other.
LEMMA ClearHeap ==
  ASSUME NEW h, IsHeap(h), NEW l, NEW s, Chain(h, l, s)
  PROVE  LET g == HeapAfterClear(h, l)
         IN  /\ ClearIsSafe(h, l)
             /\ IsHeap(g) /\ DOMAIN g = DOMAIN h \ {s[k] : k \in 1 .. l.size}
             /\ \A m \in DOMAIN g : g[m] = h[m]
<1> DEFINE g == HeapAfterClear(h, l)
<1>1. Members(h, l) = {s[k] : k \in 1 .. l.size}
  BY ChainIsWellFormed DEF IsHeap
<1>2. ClearIsSafe(h, l)
  BY <1>1 DEF ClearIsSafe, Chain, Alive
<1>3. /\ g = [m \in DOMAIN g |-> g[m]] /\ DOMAIN g = DOMAIN h \ {s[k] : k \in 1 .. l.size}
      /\ \A m \in DOMAIN g : g[m] = h[m]
  BY <1>1 DEF HeapAfterClear
<1> HIDE DEF g
<1>4. IsHeap(g)
  BY <1>3 DEF IsHeap
<1> QED
  BY <1>2, <1>3, <1>4 DEF g

\* The empty list is the empty chain, in whatever heap.
LEMMA EmptyChain == \A h, s : s \in [1 .. 0 -> Nodes] => Chain(h, EmptyList, s)
BY DEF Chain, EmptyList

-----------------------------------------------------------------------------
(* The calls.  Each step is one of three: a thread enters a call, goes on in *)
(* one, or leaves it; what the other threads rely on stays.                  *)

\* A thread in a call has a container that exists.
LEMMA CallHasContainer ==
  ASSUME CallsAreTyped, NEW t \in Threads, CallInv(t), job[t].op # "none"
  PROVE  /\ job[t].c \in Containers /\ job[t].c # None
         /\ job[t].op = "move" => job[t].from \in Containers /\ job[t].from # None
BY IteratorAssumption DEF CallsAreTyped, CallInv

\* A step of another thread.
LEMMA OtherCall ==
  ASSUME CallsAreTyped, NEW u \in Threads, CallInv(u),
         job'[u] = job[u], pc'[u] = pc[u],
         job[u].op \in {"register", "release"} =>
           /\ home'[job[u].i] = home[job[u].i]
           /\ proxy'[job[u].i] \in {proxy[job[u].i], NoNode},
         \A i \in Iterators : \/ home'[i] \in {home[i], None}
                              \/ ~Changer(u, home'[i])
  PROVE  CallInv(u)'
<1>1. CASE job[u].op = "move"
  <2>1. /\ job[u].c # None /\ job[u].from # None
        /\ Changer(u, job[u].c) /\ Changer(u, job[u].from)
    BY <1>1, CallHasContainer DEF Changer
  <2>2. \A i \in Iterators : home'[i] # job[u].from
    BY <1>1, <2>1 DEF CallInv, Shared
  <2> QED
    BY <1>1, <2>2 DEF CallInv, Shared
<1>2. CASE job[u].op # "move"
  BY <1>2 DEF CallInv
<1> QED
  BY <1>1, <1>2

\* Two threads that have not changed their calls keep out of each other's way.
LEMMA OtherPair ==
  ASSUME NEW t, NEW u, ApartInv(t, u), job'[t] = job[t], job'[u] = job[u]
  PROVE  ApartInv(t, u)'
BY DEF ApartInv, Changer

\* A thread enters a call.
LEMMA EnterCalls ==
  ASSUME CallsAreTyped, CallsInv, NEW t \in Threads, NEW j, NEW at, Enter(t, j, at),
         proxy' = proxy, CallInv(t)',
         \A u \in Threads \ {t} : ApartInv(t, u)' /\ ApartInv(u, t)',
         \A i \in Iterators : home'[i] # home[i] =>
           /\ home[i] = None
           /\ \A u \in Threads : ~Changer(u, home'[i])
  PROVE  CallsInv'
<1>1. /\ job' = [job EXCEPT ![t] = j] /\ pc' = [pc EXCEPT ![t] = at]
      /\ \A u \in Threads \ {t} : job'[u] = job[u] /\ pc'[u] = pc[u]
  BY DEF Enter, CallsAreTyped
<1>2. ASSUME NEW u \in Threads \ {t}
      PROVE  CallInv(u)'
  <2>1. CallInv(u)
    BY DEF CallsInv
  <2>2. ASSUME job[u].op \in {"register", "release"}
        PROVE  home'[job[u].i] = home[job[u].i]
    <3>1. job[u].i \in Iterators /\ home[job[u].i] = job[u].c /\ job[u].c # None
      BY <2>1, <2>2, CallHasContainer DEF CallInv
    <3> QED
      BY <3>1
  <2> QED
    BY <1>1, <2>1, <2>2, OtherCall
<1>3. \A u, v \in Threads : ApartInv(u, v)'
  <2>1. \A u, v \in Threads \ {t} : ApartInv(u, v)'
    BY <1>1, OtherPair DEF CallsInv
  <2>2. ApartInv(t, t)'
    <3>1. CallInv(t)'
      OBVIOUS
    <3>2. job'[t].op = "register" => ~Changer(t, job[t].c)'
      BY DEF Changer
    <3> QED
      BY <3>2 DEF ApartInv, Changer
  <2> QED
    BY <2>1, <2>2
<1>4. \A i \in Iterators : home'[i] = None => proxy'[i] = NoNode
  BY DEF CallsInv
<1> QED
  BY <1>2, <1>3, <1>4 DEF CallsInv

\* A thread goes on in its call; it may make a registration of its own or end any.
LEMMA GoOnCalls ==
  ASSUME CallsAreTyped, CallsInv, NEW t \in Threads, NEW at,
         pc' = [pc EXCEPT ![t] = at], pc[t] # "idle", job' = job, home' = home,
         CallInv(t)',
         \A i \in Iterators : proxy'[i] \in {proxy[i], NoNode} \/ i = job[t].i
  PROVE  CallsInv'
<1>1. \A u \in Threads \ {t} : pc'[u] = pc[u]
  BY DEF CallsAreTyped
<1>2. ASSUME NEW u \in Threads \ {t}
      PROVE  CallInv(u)'
  <2>1. CallInv(u) /\ ApartInv(u, t)
    BY DEF CallsInv
  <2>2. job[u].op \in {"register", "release"} =>
          job[u].i \in Iterators /\ job[u].i # job[t].i
    BY <2>1, IteratorAssumption DEF CallInv, ApartInv
  <2>3. \A i \in Iterators : home'[i] \in {home[i], None}
    OBVIOUS
  <2> QED
    BY <1>1, <2>1, <2>2, <2>3, OtherCall
<1>3. \A u, v \in Threads : ApartInv(u, v)'
  BY OtherPair DEF CallsInv
<1>4. ASSUME NEW i \in Iterators, home[i] = None
      PROVE  proxy'[i] = NoNode
  <2>1. CallInv(t) /\ job[t].op # "none" /\ proxy[i] = NoNode
    BY <1>4 DEF CallsInv, CallInv
  <2>2. i # job[t].i
    BY <1>4, <2>1, CallHasContainer, IteratorAssumption DEF CallInv
  <2> QED
    BY <2>1, <2>2
<1> QED
  BY <1>2, <1>3, <1>4 DEF CallsInv

\* A thread leaves its call; the iterator that it released is dead.
LEMMA LeaveCalls ==
  ASSUME CallsAreTyped, CallsInv, NEW t \in Threads,
         pc' = [pc EXCEPT ![t] = "idle"], job' = [job EXCEPT ![t] = NoJob],
         proxy' = proxy,
         home' \in [Iterators -> Containers \union {None}],
         \A i \in Iterators : home'[i] # home[i] =>
           i = job[t].i /\ home'[i] = None /\ proxy[i] = NoNode
  PROVE  CallsInv'
<1>1. /\ \A u \in Threads \ {t} : job'[u] = job[u] /\ pc'[u] = pc[u]
      /\ job'[t] = NoJob /\ pc'[t] = "idle"
  BY DEF CallsAreTyped
<1>2. ASSUME NEW u \in Threads \ {t}
      PROVE  CallInv(u)'
  <2>1. CallInv(u) /\ ApartInv(u, t)
    BY DEF CallsInv
  <2>2. job[u].op \in {"register", "release"} =>
          job[u].i \in Iterators /\ job[u].i # job[t].i
    BY <2>1, IteratorAssumption DEF CallInv, ApartInv
  <2>3. \A i \in Iterators : home'[i] \in {home[i], None}
    OBVIOUS
  <2> QED
    BY <1>1, <2>1, <2>2, <2>3, OtherCall
<1>3. CallInv(t)'
  BY <1>1 DEF CallInv, NoJob
<1>4. \A u, v \in Threads : ApartInv(u, v)'
  <2>1. \A u, v \in Threads \ {t} : ApartInv(u, v)'
    BY <1>1, OtherPair DEF CallsInv
  <2>2. \A u \in Threads : ApartInv(t, u)' /\ ApartInv(u, t)'
    <3> TAKE u \in Threads
    <3>1. job'[t].i = None /\ job'[t].op = "none"
      BY <1>1 DEF NoJob
    <3>2. \A c : ~Changer(t, c)'
      BY <3>1 DEF Changer
    <3> QED
      BY <3>1, <3>2 DEF ApartInv
  <2> QED
    BY <2>1, <2>2
<1>5. \A i \in Iterators : home'[i] = None => proxy'[i] = NoNode
  BY DEF CallsInv
<1> QED
  BY <1>2, <1>3, <1>4, <1>5 DEF CallsInv

\* The iterator of a call that is under way is alive.
LEMMA HandledIsAlive ==
  ASSUME CallsAreTyped, CallsInv, NEW u \in Threads, NEW i \in Iterators, job[u].i = i
  PROVE  home[i] # None
<1>1. CallInv(u)
  BY DEF CallsInv
<1>2. job[u].op \in {"register", "release"}
  BY <1>1, IteratorAssumption DEF CallInv
<1> QED
  BY <1>1, <1>2, CallHasContainer DEF CallInv

\* A new iterator is registered by one call, which no change of its container meets.
LEMMA BeginCalls ==
  ASSUME CallsAreTyped, CallsInv, NEW t \in Threads, Begin(t)
  PROVE  CallsInv'
<1>1. PICK c \in Containers, i \in Iterators :
        /\ home[i] = None /\ ~Changes(c)
        /\ Enter(t, [NoJob EXCEPT !.op = "register", !.c = c, !.i = i], "version")
        /\ home' = [home EXCEPT ![i] = c] /\ proxy' = proxy
  BY DEF Begin
<1> DEFINE j == [NoJob EXCEPT !.op = "register", !.c = c, !.i = i]
<1>2. Enter(t, j, "version") /\ j.op = "register" /\ j.c = c /\ j.i = i
  BY <1>1 DEF NoJob
<1> HIDE DEF j
<1>3. /\ job'[t] = j /\ pc'[t] = "version"
      /\ \A u \in Threads \ {t} : job'[u] = job[u]
  BY <1>2 DEF Enter, CallsAreTyped
<1>4. home'[i] = c /\ \A k \in Iterators \ {i} : home'[k] = home[k]
  BY <1>1 DEF CallsAreTyped
<1>5. proxy'[i] = NoNode /\ i # None /\ c # None
  BY <1>1, IteratorAssumption DEF CallsInv
<1>6. CallInv(t)'
  BY <1>2, <1>3, <1>4, <1>5 DEF CallInv
<1>7. \A u \in Threads : ~Changer(u, c)
  BY <1>1 DEF Changes, Changer
<1>8. ASSUME NEW u \in Threads \ {t}
      PROVE  ApartInv(t, u)' /\ ApartInv(u, t)'
  <2>1. job[u].i # i
    BY <1>1, HandledIsAlive
  <2>2. \A d \in Containers : ~Changer(t, d)'
    BY <1>2, <1>3 DEF Changer
  <2>3. ~Changer(t, job[u].c)'
    BY <1>2, <1>3 DEF Changer
  <2>4. ~Changer(u, c)'
    BY <1>3, <1>7 DEF Changer
  <2> QED
    BY <1>2, <1>3, <2>1, <2>2, <2>3, <2>4 DEF ApartInv
<1> QED
  BY <1>1, <1>2, <1>4, <1>6, <1>7, <1>8, EnterCalls

\* An iterator is destroyed once.
LEMMA EndCalls ==
  ASSUME CallsAreTyped, CallsInv, NEW t \in Threads, End(t)
  PROVE  CallsInv'
<1>1. PICK i \in Iterators :
        /\ home[i] # None /\ ~Handled(i) /\ proxy' = proxy
        /\ \/ /\ proxy[i] = NoNode /\ pc' = pc /\ job' = job
              /\ home' = [home EXCEPT ![i] = None]
           \/ /\ Enter(t, [NoJob EXCEPT !.op = "release", !.c = home[i], !.i = i],
                       "version")
              /\ home' = home
  BY DEF End
<1>2. \A u \in Threads : job[u].i # i
  BY <1>1 DEF Handled
<1>3. CASE /\ proxy[i] = NoNode /\ pc' = pc /\ job' = job
           /\ home' = [home EXCEPT ![i] = None]
  <2>1. home'[i] = None /\ \A k \in Iterators \ {i} : home'[k] = home[k]
    BY <1>3 DEF CallsAreTyped
  <2>2. ASSUME NEW u \in Threads
        PROVE  CallInv(u)'
    <3>1. CallInv(u)
      BY DEF CallsInv
    <3>2. job[u].op \in {"register", "release"} => home'[job[u].i] = home[job[u].i]
      BY <1>2, <2>1, <3>1 DEF CallInv
    <3>3. \A k \in Iterators : home'[k] \in {home[k], None}
      BY <2>1
    <3> QED
      BY <1>1, <1>3, <3>1, <3>2, <3>3, OtherCall
  <2>3. \A u, v \in Threads : ApartInv(u, v)'
    BY <1>3, OtherPair DEF CallsInv
  <2>4. \A k \in Iterators : home'[k] = None => proxy'[k] = NoNode
    BY <1>1, <1>3, <2>1 DEF CallsInv
  <2> QED
    BY <2>2, <2>3, <2>4 DEF CallsInv
<1>4. CASE /\ Enter(t, [NoJob EXCEPT !.op = "release", !.c = home[i], !.i = i], "version")
           /\ home' = home
  <2> DEFINE j == [NoJob EXCEPT !.op = "release", !.c = home[i], !.i = i]
  <2>1. Enter(t, j, "version") /\ j.op = "release" /\ j.c = home[i] /\ j.i = i
    BY <1>4 DEF NoJob
  <2> HIDE DEF j
  <2>2. /\ job'[t] = j /\ pc'[t] = "version"
        /\ \A u \in Threads \ {t} : job'[u] = job[u]
    BY <2>1 DEF Enter, CallsAreTyped
  <2>3. CallInv(t)'
    BY <1>4, <2>1, <2>2 DEF CallInv
  <2>4. ASSUME NEW u \in Threads \ {t}
        PROVE  ApartInv(t, u)' /\ ApartInv(u, t)'
    <3>1. \A d : ~Changer(t, d)'
      BY <2>1, <2>2 DEF Changer
    <3>2. ~Changer(t, job[u].c)'
      BY <2>1, <2>2 DEF Changer
    <3> QED
      BY <1>2, <2>1, <2>2, <3>1, <3>2 DEF ApartInv
  <2> QED
    BY <1>1, <1>4, <2>1, <2>3, <2>4, EnterCalls
<1> QED
  BY <1>1, <1>3, <1>4

\* A call that changes containers nobody else changes or enters.
LEMMA ChangerCalls ==
  ASSUME CallsAreTyped, CallsInv, NEW t \in Threads, NEW j, NEW at,
         Enter(t, j, at), home' = home, proxy' = proxy,
         j.op \in {"clear", "invalidate", "move"}, j.i = None, j.c \in Containers,
         at \in {"version", "cleanup"}, at = "cleanup" => j.op # "invalidate",
         \A d \in Containers : d \in {j.c, j.from} => ~Changes(d) /\ ~Enters(d),
         j.op = "move" => j.c # j.from /\ ~Shared(j.from)
  PROVE  CallsInv'
<1>1. /\ job'[t] = j /\ pc'[t] = at
      /\ \A u \in Threads \ {t} : job'[u] = job[u]
  BY DEF Enter, CallsAreTyped
<1>2. CallInv(t)'
  BY <1>1 DEF CallInv, Shared
<1>3. ASSUME NEW u \in Threads \ {t}
      PROVE  ApartInv(t, u)' /\ ApartInv(u, t)'
  <2>1. \A d \in Containers : Changer(t, d)' => ~Changer(u, d)'
    BY <1>1 DEF Changer, Changes
  <2>2. job[u].op = "register" => job[u].c \in Containers
    <3>1. CallInv(u)
      BY DEF CallsInv
    <3> QED
      BY <3>1, CallHasContainer
  <2>3. job[u].op = "register" => ~Changer(t, job[u].c)'
    BY <1>1, <2>2 DEF Changer, Enters
  <2> QED
    BY <1>1, <2>1, <2>3 DEF ApartInv
<1> QED
  BY <1>2, <1>3, EnterCalls

\* A change of a container starts while nobody else changes it or registers with it.
LEMMA ChangeCalls ==
  ASSUME ~FreeMoves, CallsAreTyped, CallsInv, NEW t \in Threads,
         Change(t) \/ MoveAssign(t)
  PROVE  CallsInv'
<1>1. CASE Change(t)
  <2>1. PICK c \in Containers :
          /\ ~Changes(c) /\ ~Enters(c) /\ home' = home /\ proxy' = proxy
          /\ \/ Enter(t, [NoJob EXCEPT !.op = "clear", !.c = c], "cleanup")
             \/ Enter(t, [NoJob EXCEPT !.op = "invalidate", !.c = c], "version")
    BY <1>1 DEF Change, mem
  <2> DEFINE x == [NoJob EXCEPT !.op = "clear", !.c = c]
             y == [NoJob EXCEPT !.op = "invalidate", !.c = c]
  <2>2. /\ x.op = "clear" /\ x.c = c /\ x.from = None /\ x.i = None
        /\ y.op = "invalidate" /\ y.c = c /\ y.from = None /\ y.i = None
        /\ Enter(t, x, "cleanup") \/ Enter(t, y, "version")
    BY <2>1 DEF NoJob
  <2> HIDE DEF x, y
  <2>3. \A d \in Containers : d \in {c, None} => ~Changes(d) /\ ~Enters(d)
    BY <2>1, IteratorAssumption
  <2> QED
    BY <2>1, <2>2, <2>3, ChangerCalls
<1>2. CASE MoveAssign(t)
  <2>1. PICK c, from \in Containers :
          /\ c # from /\ home' = home /\ proxy' = proxy
          /\ \A d \in {c, from} : ~Changes(d) /\ ~Enters(d)
          /\ ~Shared(from)
          /\ Enter(t, [NoJob EXCEPT !.op = "move", !.c = c, !.from = from], "cleanup")
    BY <1>2 DEF MoveAssign, mem
  <2> DEFINE j == [NoJob EXCEPT !.op = "move", !.c = c, !.from = from]
  <2>2. /\ Enter(t, j, "cleanup") /\ j.op = "move" /\ j.c = c /\ j.from = from
        /\ j.i = None
    BY <2>1 DEF NoJob
  <2> HIDE DEF j
  <2> QED
    BY <2>1, <2>2, ChangerCalls
<1> QED
  BY <1>1, <1>2

\* What the calls rely on stays so while they run.
LEMMA StepCalls ==
  ASSUME CallsAreTyped, CallsInv, proxy \in [Iterators -> Nodes \union {NoNode}],
         NEW t \in Threads, Step(t)
  PROVE  CallsInv'
<1>0. CallInv(t) /\ (job[t].op = "register" \/ job[t].op = "release" =>
                       job[t].i \in Iterators)
  BY DEF CallsInv, CallInv
<1>1. ASSUME NEW at \in PCs \ {"idle"}, pc' = [pc EXCEPT ![t] = at], pc[t] # "idle",
             job' = job, home' = home,
             \A i \in Iterators : proxy'[i] \in {proxy[i], NoNode} \/ i = job[t].i,
             at \in {"cleanup", "detach", "cleaned"} => job[t].op \in {"clear", "move"},
             at = "raise" => job[t].op = "move",
             job[t].op = "register" /\ at # "unlock" =>
               proxy'[job[t].i] = proxy[job[t].i] /\ pc[t] # "unlock",
             job[t].op = "release" /\ at = "unlock" => proxy'[job[t].i] = NoNode
      PROVE  CallsInv'
  <2>1. pc'[t] = at /\ job'[t] = job[t]
    BY <1>1 DEF CallsAreTyped
  <2>2. CallInv(t)'
    BY <1>0, <1>1, <2>1 DEF CallInv, Shared
  <2> QED
    BY <1>1, <2>2, GoOnCalls
<1>2. CASE Version(t) \/ Acquire(t) \/ CheckVersion(t)
  <2>1. PICK at \in {"acquire", "assert", "locked"} :
          /\ pc' = [pc EXCEPT ![t] = at] /\ pc[t] \notin {"idle", "unlock"}
          /\ job' = job /\ home' = home /\ proxy' = proxy
    BY <1>2 DEF Version, Acquire, CheckVersion, Goto, mem
  <2>2. /\ at \in PCs \ {"idle"}
        /\ at \notin {"cleanup", "detach", "cleaned", "raise", "unlock"}
    BY <2>1 DEF PCs
  <2> QED
    BY <1>1, <2>1, <2>2
<1>3. CASE Register(t)
  <2>1. /\ pc' = [pc EXCEPT ![t] = "unlock"] /\ pc[t] = "locked"
        /\ job' = job /\ home' = home /\ job[t].op = "register"
        /\ \E n : proxy' = [proxy EXCEPT ![job[t].i] = n]
    BY <1>3 DEF Register, Goto
  <2>2. "unlock" \in PCs \ {"idle"}
    BY DEF PCs
  <2>3. \A i \in Iterators : proxy'[i] \in {proxy[i], NoNode} \/ i = job[t].i
    BY <2>1
  <2> QED
    BY <1>1, <2>1, <2>2, <2>3
<1>4. CASE Release(t)
  <2>1. /\ pc' = [pc EXCEPT ![t] = "unlock"] /\ pc[t] = "locked"
        /\ job' = job /\ home' = home /\ job[t].op = "release"
        /\ proxy' = [proxy EXCEPT ![job[t].i] = NoNode]
    BY <1>4 DEF Release, Goto
  <2>2. "unlock" \in PCs \ {"idle"}
    BY DEF PCs
  <2>3. \A i \in Iterators : proxy'[i] \in {proxy[i], NoNode}
    BY <2>1
  <2> QED
    BY <1>0, <1>1, <2>1, <2>2, <2>3
<1>5. CASE InvalidateDone(t) \/ MoveProxies(t) \/ RaiseVersions(t)
  <2>1. PICK at \in {"raise", "unlock"} :
          /\ pc' = [pc EXCEPT ![t] = at] /\ pc[t] \in {"locked", "raise"}
          /\ job' = job /\ home' = home /\ job[t].op \in {"invalidate", "move"}
          /\ at = "raise" => job[t].op = "move"
          /\ proxy' = proxy
    BY <1>0, <1>5 DEF InvalidateDone, MoveProxies, RaiseVersions, CallInv, Goto, mem
  <2>2. at \in PCs \ {"idle"}
    BY <2>1 DEF PCs
  <2> QED
    BY <1>1, <2>1, <2>2
<1>6. CASE Invalidate(t) \/ Detach(t)
  <2>1. /\ pc' = pc /\ pc[t] \in {"locked", "detach"}
        /\ job' = job /\ home' = home
        /\ pc[t] = "locked" => job[t].op = "invalidate"
        /\ proxy' = proxy \/ \E i : proxy' = [proxy EXCEPT ![i] = NoNode]
    BY <1>6 DEF Invalidate, Detach
  <2>2. /\ pc[t] \in PCs \ {"idle"} /\ pc' = [pc EXCEPT ![t] = pc[t]]
        /\ pc[t] = "detach" => job[t].op \in {"clear", "move"}
    BY <1>0, <2>1 DEF CallsAreTyped, PCs, CallInv
  <2>3. \A i \in Iterators : proxy'[i] \in {proxy[i], NoNode}
    BY <2>1
  <2> QED
    BY <1>1, <2>1, <2>2, <2>3
<1>7. CASE CleanupLock(t) \/ ClearList(t)
  <2>1. PICK at \in {"detach", "cleaned"} :
          /\ pc' = [pc EXCEPT ![t] = at] /\ pc[t] \in {"cleanup", "detach"}
          /\ job' = job /\ home' = home /\ proxy' = proxy
    BY <1>7 DEF CleanupLock, ClearList, Goto, mem
  <2>2. at \in PCs \ {"idle"} /\ job[t].op \in {"clear", "move"}
    BY <1>0, <2>1 DEF PCs, CallInv
  <2> QED
    BY <1>1, <2>1, <2>2
<1>8. CASE CleanupUnlock(t)
  <2>1. /\ pc[t] = "cleaned" /\ home' = home /\ proxy' = proxy
        /\ \/ /\ job[t].op = "move" /\ pc' = [pc EXCEPT ![t] = "version"] /\ job' = job
           \/ pc' = [pc EXCEPT ![t] = "idle"] /\ job' = [job EXCEPT ![t] = NoJob]
    BY <1>8 DEF CleanupUnlock, Goto, mem
  <2>2. CASE job[t].op = "move" /\ pc' = [pc EXCEPT ![t] = "version"] /\ job' = job
    <3>1. "version" \in PCs \ {"idle"}
      BY DEF PCs
    <3> QED
      BY <1>1, <2>1, <2>2, <3>1
  <2>3. CASE pc' = [pc EXCEPT ![t] = "idle"] /\ job' = [job EXCEPT ![t] = NoJob]
    BY <2>1, <2>3, LeaveCalls DEF CallsAreTyped
  <2> QED
    BY <2>1, <2>2, <2>3
<1>9. CASE Unlock(t)
  <2>1. /\ pc[t] = "unlock" /\ proxy' = proxy
        /\ pc' = [pc EXCEPT ![t] = "idle"] /\ job' = [job EXCEPT ![t] = NoJob]
        /\ home' = IF job[t].op = "release" THEN [home EXCEPT ![job[t].i] = None] ELSE home
    BY <1>9 DEF Unlock, Goto
  <2>2. home' \in [Iterators -> Containers \union {None}]
    BY <2>1 DEF CallsAreTyped
  <2>3. ASSUME NEW i \in Iterators, home'[i] # home[i]
        PROVE  i = job[t].i /\ home'[i] = None /\ proxy[i] = NoNode
    <3>1. job[t].op = "release" /\ i = job[t].i /\ home'[i] = None
      BY <2>1, <2>3 DEF CallsAreTyped
    <3> QED
      BY <1>0, <2>1, <3>1 DEF CallInv
  <2> QED
    BY <2>1, <2>2, <2>3, LeaveCalls
<1> QED
  BY <1>2, <1>3, <1>4, <1>5, <1>6, <1>7, <1>8, <1>9 DEF Step

-----------------------------------------------------------------------------
(* The lists.                                                               *)

\* Changing one list, and nothing that the others consist of, leaves the others.
LEMMA OneListChanged ==
  ASSUME NEW S, NEW K, Lists(S, K), NEW c \in Containers, NEW s, NEW k,
         \A d \in Containers \ {c} : list'[d] = list[d],
         Chain(heap', list'[c], s), Registered(c, s, k)', Cursors(c, s, k)',
         \A d \in Containers \ {c} : \A j \in 1 .. list[d].size :
           /\ S[d][j] \in DOMAIN heap' /\ heap'[S[d][j]] = heap[S[d][j]]
           /\ \A m \in 1 .. list'[c].size : s[m] # S[d][j],
         home' = home, \A i \in Iterators : home[i] # c => proxy'[i] = proxy[i],
         \A d \in Containers \ {c} : \A j \in 1 .. list[d].size :
           heap[S[d][j]].data \in Iterators,
         \A d \in Containers \ {c} : Cursors(d, S[d], K[d])'
  PROVE  \E S2, K2 : Lists(S2, K2)'
<1> DEFINE S2 == [d \in Containers |-> IF d = c THEN s ELSE S[d]]
           K2 == [d \in Containers |-> IF d = c THEN k ELSE K[d]]
<1>1. /\ S2[c] = s /\ K2[c] = k
      /\ \A d \in Containers \ {c} : S2[d] = S[d] /\ K2[d] = K[d]
  OBVIOUS
<1> HIDE DEF S2, K2
<1>2. ASSUME NEW d \in Containers
      PROVE  /\ Chain(heap', list'[d], S2[d])
             /\ Registered(d, S2[d], K2[d])' /\ Cursors(d, S2[d], K2[d])'
  <2>1. CASE d = c
    BY <1>1, <2>1
  <2>2. CASE d # c
    <3>1. Chain(heap, list[d], S[d]) /\ Registered(d, S[d], K[d])
      BY DEF Lists
    <3>2. Chain(heap', list'[d], S[d])
      BY <2>2, <3>1, ChainElsewhere
    <3>3. Registered(d, S[d], K[d])'
      <4>1. \A j \in K[d] .. list[d].size : j \in 1 .. list[d].size
        <5>1. K[d] \in 1 .. list[d].size + 1
          BY <3>1 DEF Registered
        <5>2. list[d].size \in Nat
          BY <3>1 DEF Chain
        <5> QED
          BY <5>1, <5>2
      <4> QED
        BY <2>2, <3>1, <4>1 DEF Registered
    <3> QED
      BY <1>1, <2>2, <3>2, <3>3
  <2> QED
    BY <2>1, <2>2
<1>3. ASSUME NEW d \in Containers, NEW e \in Containers,
             NEW i \in 1 .. list'[d].size, NEW j \in 1 .. list'[e].size,
             S2[d][i] = S2[e][j]
      PROVE  d = e
  <2>1. CASE d = c \/ e = c
    BY <1>1, <1>3, <2>1
  <2>2. CASE d # c /\ e # c
    BY <1>1, <1>3, <2>2 DEF Lists
  <2> QED
    BY <2>1, <2>2
<1>4. Lists(S2, K2)'
  BY <1>2, <1>3 DEF Lists
<1> QED
  BY <1>4

\* Walks along a list that the step leaves alone.
LEMMA CursorsElsewhere ==
  ASSUME NEW c, NEW s, NEW k, Cursors(c, s, k), list'[c] = list[c],
         \A u \in Threads : /\ Detaching(u, c)' <=> Detaching(u, c)
                            /\ Walking(u, c)' => Walking(u, c)
                            /\ Detaching(u, c) \/ Walking(u, c) => cursor'[u] = cursor[u]
  PROVE  Cursors(c, s, k)'
BY DEF Cursors

\* Nobody walks along a list whose lock somebody holds without walking himself.
LEMMA HolderIsAlone ==
  ASSUME CallsAreTyped, OneHolder, NEW t \in Threads, NEW c \in Containers, Holds(t, c),
         NEW u \in Threads, Detaching(u, c) \/ Walking(u, c)
  PROVE  u = t
<1>1. Holds(u, c)
  BY DEF Holds, Detaching, Walking, Target
<1> QED
  BY <1>1 DEF OneHolder

\* A step that only moves on in calls, and may take iterators that are not
\* registered to or from a container.
LEMMA ListsStay ==
  ASSUME Kinds, NEW S, NEW K, Lists(S, K),
         list' = list, heap' = heap, proxy' = proxy,
         \A i \in Iterators : home'[i] = home[i] \/ proxy[i] = NoNode,
         \A c \in Containers : Cursors(c, S[c], K[c])'
  PROVE  \E S2, K2 : Lists(S2, K2)'
<1>1. ASSUME NEW c \in Containers
      PROVE  Chain(heap', list'[c], S[c]) /\ Registered(c, S[c], K[c])'
  <2>1. Chain(heap, list[c], S[c]) /\ Registered(c, S[c], K[c])
    BY DEF Lists
  <2>2. ASSUME NEW j \in K[c] .. list[c].size
        PROVE  /\ heap[S[c][j]].data \in Iterators /\ S[c][j] # NoNode
    <3>1. j \in 1 .. list[c].size
      BY <2>1 DEF Registered, Chain
    <3>2. S[c][j] \in DOMAIN heap /\ IsHeap(heap)
      BY <2>1, <3>1 DEF Chain, Kinds
    <3> QED
      BY <3>2, NodeFields
  <2>3. Registered(c, S[c], K[c])'
    BY <2>1, <2>2 DEF Registered
  <2> QED
    BY <2>1, <2>3
<1>2. Lists(S, K)'
  BY <1>1 DEF Lists
<1> QED
  BY <1>2

\* A step that neither begins nor ends a walk and touches no list.
LEMMA QuietLists ==
  ASSUME Kinds, NEW S, NEW K, Lists(S, K), NEW t \in Threads,
         list' = list, heap' = heap, proxy' = proxy, cursor' = cursor,
         \A i \in Iterators : home'[i] = home[i] \/ proxy[i] = NoNode,
         pc[t] # "detach", pc'[t] \notin {"detach", "locked"},
         \A u \in Threads \ {t} : pc'[u] = pc[u] /\ job'[u] = job[u]
  PROVE  \E S2, K2 : Lists(S2, K2)'
<1>1. ASSUME NEW c \in Containers
      PROVE  Cursors(c, S[c], K[c])'
  <2>1. \A u \in Threads : /\ Detaching(u, c)' <=> Detaching(u, c)
                           /\ Walking(u, c)' => Walking(u, c)
    BY DEF Detaching, Walking
  <2> QED
    BY <2>1, CursorsElsewhere DEF Lists
<1> QED
  BY <1>1, ListsStay

\* The steps of the calls that take, give back or wait for a lock.
LEMMA CallLists ==
  ASSUME CallsAreTyped, CallsInv, Kinds, NEW S, NEW K, Lists(S, K), NEW t \in Threads,
         \/ Call(t) \/ Version(t) \/ Acquire(t) \/ InvalidateDone(t)
         \/ RaiseVersions(t) \/ Unlock(t) \/ CleanupUnlock(t)
  PROVE  \E S2, K2 : Lists(S2, K2)'
<1>1. CASE Begin(t)
  <2>1. PICK i, c, j :
          /\ i \in Iterators /\ c \in Containers
          /\ home[i] = None /\ Enter(t, j, "version") /\ home' = [home EXCEPT ![i] = c]
          /\ UNCHANGED <<list, heap, proxy, cursor>>
    BY <1>1 DEF Begin
  <2>2. \A k \in Iterators : home'[k] = home[k] \/ proxy[k] = NoNode
    BY <2>1 DEF CallsInv
  <2> QED
    BY <2>1, <2>2, QuietLists DEF Enter, CallsAreTyped
<1>2. CASE End(t)
  <2>1. PICK i \in Iterators :
          /\ \/ proxy[i] = NoNode /\ pc[t] = "idle" /\ pc' = pc /\ job' = job
                /\ home' = [home EXCEPT ![i] = None]
             \/ home' = home /\ \E j : Enter(t, j, "version")
          /\ UNCHANGED <<list, heap, proxy, cursor>>
    BY <1>2 DEF End
  <2>2. \A k \in Iterators : home'[k] = home[k] \/ proxy[k] = NoNode
    BY <2>1 DEF CallsAreTyped
  <2> QED
    BY <2>1, <2>2, QuietLists DEF Enter, CallsAreTyped
<1>3. CASE Change(t) \/ MoveAssign(t)
  <2>1. /\ \E j : Enter(t, j, "version") \/ Enter(t, j, "cleanup")
        /\ UNCHANGED <<list, heap, proxy, home, cursor>>
    BY <1>3 DEF Change, MoveAssign, mem
  <2> QED
    BY <2>1, QuietLists DEF Enter, CallsAreTyped
<1>4. CASE Version(t) \/ Acquire(t) \/ InvalidateDone(t) \/ RaiseVersions(t)
  <2>1. PICK at \in {"acquire", "assert", "unlock"} :
          /\ pc[t] # "detach" /\ pc' = [pc EXCEPT ![t] = at] /\ job' = job
          /\ UNCHANGED <<list, heap, proxy, home, cursor>>
    BY <1>4 DEF Version, Acquire, InvalidateDone, RaiseVersions, Goto, mem
  <2> QED
    BY <2>1, QuietLists DEF CallsAreTyped
<1>5. CASE Unlock(t)
  <2>1. /\ pc[t] = "unlock" /\ pc' = [pc EXCEPT ![t] = "idle"]
        /\ job' = [job EXCEPT ![t] = NoJob]
        /\ home' = IF job[t].op = "release" THEN [home EXCEPT ![job[t].i] = None] ELSE home
        /\ UNCHANGED <<list, heap, proxy, cursor>>
    BY <1>5 DEF Unlock, Goto
  <2>2. ASSUME NEW k \in Iterators, home'[k] # home[k]
        PROVE  proxy[k] = NoNode
    <3>1. CallInv(t)
      BY DEF CallsInv
    <3>2. job[t].op = "release" /\ k = job[t].i
      BY <2>1, <2>2 DEF CallsAreTyped
    <3> QED
      BY <2>1, <3>1, <3>2 DEF CallInv
  <2> QED
    BY <2>1, <2>2, QuietLists DEF CallsAreTyped
<1>6. CASE CleanupUnlock(t)
  <2>1. PICK at \in {"version", "idle"} :
        /\ pc[t] = "cleaned" /\ pc' = [pc EXCEPT ![t] = at]
        /\ job' = job \/ job' = [job EXCEPT ![t] = NoJob]
        /\ UNCHANGED <<list, heap, proxy, home, cursor>>
    BY <1>6 DEF CleanupUnlock, Goto, mem
  <2> QED
    BY <2>1, QuietLists DEF CallsAreTyped
<1> QED
  BY <1>1, <1>2, <1>3, <1>4, <1>5, <1>6 DEF Call

\* The first node of a chain, or no node.
LEMMA FirstOf ==
  ASSUME NEW h, NEW l, NEW s, Chain(h, l, s)
  PROVE  /\ l.first = IF 1 = l.size + 1 THEN NoNode ELSE s[1]
         /\ l.first = NoNode \/ \E j \in 1 .. l.size : l.first = s[j]
<1>1. l.size \in Nat /\ (l.size = 0 <=> 1 = l.size + 1) /\ (l.size # 0 => 1 \in 1 .. l.size)
  BY DEF Chain
<1> QED
  BY <1>1 DEF Chain

\* The steps that begin a walk, at the first node.
LEMMA CheckVersionLists ==
  ASSUME CallsAreTyped, Kinds, NEW S, NEW K, Lists(S, K), NEW t \in Threads, CheckVersion(t)
  PROVE  \E S2, K2 : Lists(S2, K2)'
<1>1. /\ pc[t] = "assert" /\ pc' = [pc EXCEPT ![t] = "locked"] /\ job' = job
      /\ cursor' = [cursor EXCEPT ![t] = IF job[t].op = "invalidate"
                                         THEN list[Target(t)].first ELSE NoNode]
      /\ UNCHANGED <<list, heap, proxy, home>>
  BY DEF CheckVersion, Goto, mem
<1>2. pc'[t] = "locked" /\ \A u \in Threads \ {t} : pc'[u] = pc[u] /\ cursor'[u] = cursor[u]
  BY <1>1 DEF CallsAreTyped, Kinds
<1>3. ASSUME NEW c \in Containers
      PROVE  Cursors(c, S[c], K[c])'
  <2>1. Chain(heap, list[c], S[c]) /\ Cursors(c, S[c], K[c])
    BY DEF Lists
  <2>2. \A u \in Threads : Detaching(u, c)' <=> (Detaching(u, c) /\ u # t)
    BY <1>1, <1>2 DEF Detaching
  <2>3. ~Detaching(t, c) /\ \A u \in Threads \ {t} : Walking(u, c)' <=> Walking(u, c)
    BY <1>1, <1>2 DEF Walking, Detaching
  <2>4. Walking(t, c)' => cursor'[t] = list[c].first
    BY <1>1 DEF Walking, Kinds, Target
  <2>5. list[c].first = NoNode \/ \E j \in 1 .. list[c].size : list[c].first = S[c][j]
    BY <2>1, FirstOf
  <2> QED
    BY <1>1, <1>2, <2>1, <2>2, <2>3, <2>4, <2>5 DEF Cursors
<1> QED
  BY <1>1, <1>3, ListsStay

\* The walk of _release_proxy starts at the first node, with nothing detached.
LEMMA CleanupLockLists ==
  ASSUME CallsAreTyped, OneHolder, Kinds, NEW S, NEW K, Lists(S, K), NEW t \in Threads,
         CleanupLock(t)
  PROVE  \E S2, K2 : Lists(S2, K2)'
<1>1. /\ pc[t] = "cleanup" /\ ~locked[job[t].c]
      /\ pc' = [pc EXCEPT ![t] = "detach"] /\ job' = job
      /\ cursor' = [cursor EXCEPT ![t] = list[job[t].c].first]
      /\ UNCHANGED <<list, heap, proxy, home>>
  BY DEF CleanupLock, Goto, mem
<1>2. /\ pc'[t] = "detach" /\ cursor'[t] = list[job[t].c].first
      /\ \A u \in Threads \ {t} : pc'[u] = pc[u] /\ cursor'[u] = cursor[u]
  BY <1>1 DEF CallsAreTyped, Kinds
<1>3. ASSUME NEW c \in Containers
      PROVE  Cursors(c, S[c], K[c])'
  <2>1. Chain(heap, list[c], S[c]) /\ Cursors(c, S[c], K[c])
    BY DEF Lists
  <2>2. \A u \in Threads : Walking(u, c)' <=> Walking(u, c) /\ u # t
    BY <1>1, <1>2 DEF Walking
  <2>3. \A u \in Threads \ {t} : Detaching(u, c)' <=> Detaching(u, c)
    BY <1>1, <1>2 DEF Detaching
  <2>4. CASE job[t].c = c
    <3>1. \A u \in Threads : ~Detaching(u, c)
      BY <1>1, <2>4 DEF OneHolder, Holds, Detaching
    <3>2. K[c] = 1
      BY <2>1, <3>1 DEF Cursors
    <3>3. Detaching(t, c)' /\ cursor'[t] = IF K[c] = list[c].size + 1 THEN NoNode ELSE S[c][K[c]]
      BY <1>1, <1>2, <2>1, <2>4, <3>2, FirstOf DEF Detaching
    <3> QED
      BY <1>1, <1>2, <2>1, <2>2, <2>3, <3>1, <3>2, <3>3 DEF Cursors
  <2>5. CASE job[t].c # c
    <3>1. ~Detaching(t, c)' /\ ~Detaching(t, c)
      BY <1>1, <2>5 DEF Detaching
    <3> QED
      BY <1>1, <1>2, <2>1, <2>2, <2>3, <3>1 DEF Cursors
  <2> QED
    BY <2>4, <2>5
<1> QED
  BY <1>1, <1>3, ListsStay

\* The nodes of the lists are allocated and belong to iterators.
LEMMA ListedNodes ==
  ASSUME Kinds, NEW S, NEW K, Lists(S, K), NEW d \in Containers,
         NEW j \in 1 .. list[d].size
  PROVE  /\ S[d][j] \in DOMAIN heap /\ S[d][j] \in Nodes /\ S[d][j] # NoNode
         /\ heap[S[d][j]].data \in Iterators
<1>1. S[d][j] \in DOMAIN heap /\ IsHeap(heap)
  BY DEF Lists, Chain, Kinds
<1> QED
  BY <1>1, NodeFields

\* While a thread works on a list under its lock, nobody is clearing it.
LEMMA LockedIsWhole ==
  ASSUME CallsAreTyped, CallsInv, OneHolder, NEW S, NEW K, Lists(S, K),
         NEW t \in Threads, pc[t] = "locked"
  PROVE  /\ Target(t) \in Containers /\ K[Target(t)] = 1
         /\ \A u \in Threads : ~Detaching(u, Target(t))
         /\ \A u \in Threads : Walking(u, Target(t)) => u = t
<1> DEFINE c == Target(t)
<1>1. c \in Containers
  BY DEF CallsAreTyped, Target
<1>2. Holds(t, c)
  BY DEF Holds
<1>3. \A u \in Threads : Detaching(u, c) \/ Walking(u, c) => u = t
  BY <1>1, <1>2, HolderIsAlone
<1>4. \A u \in Threads : ~Detaching(u, c)
  BY <1>3 DEF Detaching
<1> HIDE DEF c
<1>5. Cursors(c, S[c], K[c])
  BY <1>1 DEF Lists
<1>6. K[c] = 1
  BY <1>4, <1>5 DEF Cursors
<1> QED
  BY <1>1, <1>3, <1>4, <1>6 DEF c

\* A new registration.
LEMMA RegisterLists ==
  ASSUME CallsAreTyped, CallsInv, OneHolder, Kinds, NEW S, NEW K, Lists(S, K),
         NEW t \in Threads, Register(t)
  PROVE  Kinds' /\ \E S2, K2 : Lists(S2, K2)'
<1>0. PICK c, i, l : c = job[t].c /\ i = job[t].i /\ l = list[job[t].c]
  OBVIOUS
<1>1. PICK n \in Nodes \ DOMAIN heap :
        /\ heap' = HeapAfterEmplace(heap, l, n, i)
        /\ list' = [list EXCEPT ![c] = AfterEmplace(l, n)]
        /\ proxy' = [proxy EXCEPT ![i] = n]
  BY <1>0 DEF Register
<1>2. /\ pc[t] = "locked" /\ job[t].op = "register" /\ pc' = [pc EXCEPT ![t] = "unlock"]
      /\ UNCHANGED <<home, job, cursor, wild, aborted>>
  BY DEF Register, Goto
<1>3. c = Target(t) /\ c \in Containers
  BY <1>0, <1>2 DEF Target, CallsAreTyped
<1>4. i \in Iterators /\ home[i] = c /\ proxy[i] = NoNode
  <2>1. CallInv(t)
    BY DEF CallsInv
  <2> QED
    BY <1>0, <1>2, <2>1 DEF CallInv
<1>5. /\ K[c] = 1 /\ \A u \in Threads : ~Detaching(u, c)
      /\ \A u \in Threads : Walking(u, c) => u = t
  BY <1>2, <1>3, LockedIsWhole
<1>6. /\ Chain(heap, l, S[c]) /\ Registered(c, S[c], 1) /\ IsHeap(heap)
      /\ l.size \in Nat
  <2>1. l = list[c]
    BY <1>0
  <2>2. Chain(heap, l, S[c]) /\ Registered(c, S[c], 1)
    BY <1>3, <1>5, <2>1 DEF Lists
  <2>3. IsHeap(heap)
    BY DEF Kinds
  <2>4. l.size \in Nat
    BY <2>2 DEF Chain
  <2> QED
    BY <2>2, <2>3, <2>4
<1> DEFINE s == Appended(l, S[c], n)
<1> HIDE DEF s
<1>7. /\ IsHeap(heap') /\ DOMAIN heap' = DOMAIN heap \union {n}
      /\ heap'[n].data = i
      /\ \A m \in DOMAIN heap : heap'[m].data = heap[m].data
      /\ \A m \in DOMAIN heap : m # l.second => heap'[m] = heap[m]
  <2>1. /\ IsHeap(heap') /\ DOMAIN heap' = DOMAIN heap \union {n}
        /\ NodeIs(heap'[n], i, NoNode, l.second)
        /\ \A m \in DOMAIN heap : heap'[m].data = heap[m].data
        /\ \A m \in DOMAIN heap : m # l.second => heap'[m] = heap[m]
    <3> DEFINE g == HeapAfterEmplace(heap, l, n, i)
    <3>0. /\ IsHeap(heap) /\ Chain(heap, l, S[c])
          /\ n \in Nodes \ DOMAIN heap /\ i \in Iterators
      BY <1>1, <1>4, <1>6, Zenon
    <3>1. /\ IsHeap(g) /\ DOMAIN g = DOMAIN heap \union {n}
          /\ NodeIs(g[n], i, NoNode, l.second)
          /\ \A m \in DOMAIN heap : g[m].data = heap[m].data
          /\ \A m \in DOMAIN heap : m # l.second => g[m] = heap[m]
          /\ l.size # 0 =>
               NodeIs(g[l.second], heap[l.second].data, n, heap[l.second].last)
      BY <3>0, EmplaceHeap, Zenon
    <3>2. heap' = g
      BY <1>1, Zenon
    <3> HIDE DEF g
    <3>3. IsHeap(heap')
      BY <3>1, <3>2, Zenon
    <3>4. DOMAIN heap' = DOMAIN heap \union {n} /\ NodeIs(heap'[n], i, NoNode, l.second)
      BY <3>1, <3>2, Zenon
    <3>5. \A m \in DOMAIN heap : heap'[m].data = heap[m].data
      BY <3>1, <3>2, Zenon
    <3>6. \A m \in DOMAIN heap : m # l.second => heap'[m] = heap[m]
      BY <3>1, <3>2, Zenon
    <3> QED
      BY <3>3, <3>4, <3>5, <3>6, Zenon
  <2> QED
    BY <2>1 DEF NodeIs
<1>8. /\ list'[c] = AfterEmplace(l, n)
      /\ \A d \in Containers \ {c} : list'[d] = list[d]
      /\ list' = [d \in Containers |-> list'[d]]
  BY <1>1, <1>3 DEF Kinds
<1>9. /\ proxy'[i] = n /\ \A k \in Iterators \ {i} : proxy'[k] = proxy[k]
      /\ proxy' \in [Iterators -> Nodes \union {NoNode}]
  BY <1>1, <1>4 DEF Kinds
<1>10. Kinds'
  BY <1>2, <1>7, <1>8, <1>9 DEF Kinds
<1>11. Chain(heap', list'[c], s)
  BY <1>1, <1>4, <1>6, <1>8, EmplaceChain DEF s
<1>12. /\ list'[c].size = l.size + 1 /\ s[l.size + 1] = n
       /\ \A j \in 1 .. l.size : s[j] = S[c][j]
       /\ \A j \in 1 .. l.size + 1 : j = l.size + 1 \/ j \in 1 .. l.size
       /\ l.size + 1 \in 1 .. l.size + 1
  BY <1>6, <1>8 DEF s, Appended, AfterEmplace
<1>13. \A j \in 1 .. l.size : /\ S[c][j] \in DOMAIN heap /\ S[c][j] # NoNode
                              /\ heap[S[c][j]].data \in Iterators
  BY <1>0, <1>3, ListedNodes
<1>14. Registered(c, s, 1)'
  <2>1. ASSUME NEW j \in 1 .. l.size + 1
        PROVE  home[heap'[s[j]].data] = c /\ proxy'[heap'[s[j]].data] = s[j]
    <3>1. CASE j = l.size + 1
      BY <1>4, <1>7, <1>9, <1>12, <3>1
    <3>2. CASE j \in 1 .. l.size
      <4> DEFINE k == heap[S[c][j]].data
      <4>1. home[k] = c /\ proxy[k] = S[c][j]
        BY <1>0, <1>6, <3>2 DEF Registered
      <4>2. k \in Iterators \ {i}
        BY <1>4, <1>13, <3>2, <4>1
      <4>3. heap'[s[j]].data = k
        BY <1>7, <1>12, <1>13, <3>2
      <4> HIDE DEF k
      <4> QED
        BY <1>9, <1>12, <3>2, <4>1, <4>2, <4>3
    <3> QED
      BY <1>12, <3>1, <3>2
  <2>2. ASSUME NEW k \in Iterators, home[k] = c, proxy'[k] # NoNode
        PROVE  \E j \in 1 .. l.size + 1 : proxy'[k] = s[j] /\ heap'[s[j]].data = k
    <3>1. CASE k = i
      BY <1>7, <1>9, <1>12, <3>1
    <3>2. CASE k # i
      <4>1. PICK j \in 1 .. l.size : proxy[k] = S[c][j] /\ heap[S[c][j]].data = k
        BY <1>0, <1>6, <1>9, <2>2, <3>2 DEF Registered
      <4>2. j \in 1 .. l.size + 1
        BY <1>6
      <4> QED
        BY <1>7, <1>9, <1>12, <1>13, <3>2, <4>1, <4>2
    <3> QED
      BY <3>1, <3>2
  <2>3. 1 \in 1 .. (l.size + 1) + 1
    BY <1>6
  <2> QED
    BY <1>2, <1>12, <2>1, <2>2, <2>3 DEF Registered
<1>15. Cursors(c, s, 1)'
  <2>1. \A u \in Threads : ~Detaching(u, c)' /\ ~Walking(u, c)'
    BY <1>2, <1>5 DEF Detaching, Walking, CallsAreTyped
  <2> QED
    BY <2>1 DEF Cursors
<1>16. ASSUME NEW d \in Containers \ {c}, NEW j \in 1 .. list[d].size
       PROVE  /\ S[d][j] \in DOMAIN heap' /\ heap'[S[d][j]] = heap[S[d][j]]
              /\ heap[S[d][j]].data \in Iterators
              /\ \A m \in 1 .. list'[c].size : s[m] # S[d][j]
  <2>1. /\ S[d][j] \in DOMAIN heap /\ S[d][j] # NoNode
        /\ heap[S[d][j]].data \in Iterators
    BY ListedNodes
  <2>2. \A m \in 1 .. l.size : S[c][m] # S[d][j]
    BY <1>0, <1>3, <1>16 DEF Lists
  <2>3. l.second = NoNode \/ \E m \in 1 .. l.size : l.second = S[c][m]
    <3>1. l.size # 0 => l.size \in 1 .. l.size
      BY <1>6
    <3> QED
      BY <1>6, <3>1 DEF Chain
  <2> QED
    BY <1>7, <1>12, <2>1, <2>2, <2>3
<1>17. \A d \in Containers \ {c} : Cursors(d, S[d], K[d])'
  <2> TAKE d \in Containers \ {c}
  <2>1. \A u \in Threads : /\ Detaching(u, d)' <=> Detaching(u, d)
                           /\ Walking(u, d)' => Walking(u, d)
    BY <1>2 DEF Detaching, Walking, CallsAreTyped
  <2> QED
    BY <1>2, <1>8, <2>1, CursorsElsewhere DEF Lists
<1>18. \A k \in Iterators : home[k] # c => proxy'[k] = proxy[k]
  BY <1>4, <1>9
<1>19. \E S2, K2 : Lists(S2, K2)'
  BY <1>2, <1>3, <1>8, <1>11, <1>14, <1>15, <1>16, <1>17, <1>18, OneListChanged
<1> QED
  BY <1>10, <1>19

\* The neighbours of a listed node are listed too.
LEMMA NeighboursListed ==
  ASSUME NEW h, NEW l, NEW s, Chain(h, l, s), NEW p \in 1 .. l.size
  PROVE  /\ h[s[p]].last = NoNode \/ \E k \in 1 .. l.size : h[s[p]].last = s[k]
         /\ IF p = l.size THEN h[s[p]].next = NoNode
                          ELSE p + 1 \in 1 .. l.size /\ h[s[p]].next = s[p + 1]
<1>1. /\ p # 1 => p - 1 \in 1 .. l.size
      /\ p # l.size => p + 1 \in 1 .. l.size
  BY DEF Chain
<1> QED
  BY <1>1 DEF Chain

\* The end of one registration.
LEMMA PoppedLists ==
  ASSUME Kinds, NEW S, NEW K, Lists(S, K), NEW c \in Containers, K[c] = 1,
         NEW l, l = list[c], NEW p \in 1 .. l.size, NEW n, n = S[c][p],
         heap' = HeapAfterPop(heap, n),
         list' = [list EXCEPT ![c] = AfterPop(heap, l, n)],
         proxy' = [proxy EXCEPT ![heap[n].data] = NoNode],
         UNCHANGED <<home, wild, aborted>>,
         cursor' \in [Threads -> Nodes \union {NoNode}],
         Cursors(c, Without(l, S[c], p), 1)',
         \A d \in Containers \ {c} : Cursors(d, S[d], K[d])'
  PROVE  Kinds' /\ \E S2, K2 : Lists(S2, K2)'
<1>0. PICK i : i = heap[n].data
  OBVIOUS
<1>1. /\ Chain(heap, l, S[c]) /\ Registered(c, S[c], 1) /\ IsHeap(heap)
      /\ l.size \in Nat /\ p \in 1 .. l.size
  BY <1>0 DEF Lists, Kinds, Chain
<1>2. /\ \A j \in 1 .. l.size : /\ S[c][j] \in DOMAIN heap /\ S[c][j] # NoNode
                                /\ heap[S[c][j]].data \in Iterators
                                /\ home[heap[S[c][j]].data] = c
                                /\ proxy[heap[S[c][j]].data] = S[c][j]
      /\ \A j, k \in 1 .. l.size : S[c][j] = S[c][k] => j = k
  <2>1. l = list[c]
    OBVIOUS
  <2>2. \A j \in 1 .. l.size : /\ S[c][j] \in DOMAIN heap /\ S[c][j] # NoNode
                              /\ heap[S[c][j]].data \in Iterators
    BY <2>1, ListedNodes
  <2>3. \A j \in 1 .. l.size : /\ home[heap[S[c][j]].data] = c
                              /\ proxy[heap[S[c][j]].data] = S[c][j]
    BY <1>1, <2>1 DEF Registered
  <2>4. \A j, k \in 1 .. l.size : S[c][j] = S[c][k] => j = k
    BY <1>1 DEF Chain
  <2> QED
    BY <2>2, <2>3, <2>4
<1>3. n \in DOMAIN heap /\ i \in Iterators /\ home[i] = c /\ proxy[i] = n
  BY <1>0, <1>1, <1>2
<1> DEFINE s == Without(l, S[c], p)  from(j) == IF j < p THEN j ELSE j + 1
<1>4. /\ IsHeap(heap') /\ DOMAIN heap' = DOMAIN heap \ {n}
      /\ \A m \in DOMAIN heap' : heap'[m].data = heap[m].data
      /\ \A m \in DOMAIN heap' : m \notin {heap[n].last, heap[n].next} => heap'[m] = heap[m]
  <2> DEFINE g == HeapAfterPop(heap, n)
  <2>1. /\ IsHeap(g) /\ DOMAIN g = DOMAIN heap \ {n}
        /\ \A m \in DOMAIN g :
             NodeIs(g[m], heap[m].data, IF m = heap[n].last THEN heap[n].next ELSE heap[m].next,
                    IF m = heap[n].next THEN heap[n].last ELSE heap[m].last)
        /\ \A m \in DOMAIN g : m \notin {heap[n].last, heap[n].next} => g[m] = heap[m]
    BY <1>1, <1>3, PopHeap
  <2>2. g = heap'
    OBVIOUS
  <2> HIDE DEF g
  <2>3. ASSUME NEW m \in DOMAIN g
        PROVE  g[m].data = heap[m].data
    <3>1. NodeIs(g[m], heap[m].data, IF m = heap[n].last THEN heap[n].next ELSE heap[m].next,
                 IF m = heap[n].next THEN heap[n].last ELSE heap[m].last)
      BY <2>1
    <3> QED
      BY <3>1 DEF NodeIs
  <2> QED
    BY <2>1, <2>2, <2>3
<1>5. /\ list'[c] = AfterPop(heap, l, n)
      /\ \A d \in Containers \ {c} : list'[d] = list[d]
      /\ list' = [d \in Containers |-> list'[d]]
  BY <1>0 DEF Kinds
<1>6. /\ proxy'[i] = NoNode /\ \A k \in Iterators \ {i} : proxy'[k] = proxy[k]
      /\ proxy' \in [Iterators -> Nodes \union {NoNode}]
  BY <1>0, <1>3 DEF Kinds
<1>7. Kinds'
  BY <1>4, <1>5, <1>6 DEF Kinds
<1>8. Chain(heap', list'[c], s)
  BY <1>1, <1>5, PopChain
<1>9. /\ list'[c].size = l.size - 1
      /\ \A j \in 1 .. l.size - 1 : /\ s[j] = S[c][from(j)]
                                    /\ from(j) \in 1 .. l.size /\ from(j) # p
  <2>1. list'[c].size = l.size - 1
    BY <1>5 DEF AfterPop
  <2>2. ASSUME NEW j \in 1 .. l.size - 1 PROVE s[j] = S[c][from(j)]
    BY DEF Without
  <2>3. ASSUME NEW j \in 1 .. l.size - 1 PROVE from(j) \in 1 .. l.size /\ from(j) # p
    BY <1>1
  <2> HIDE DEF s, from
  <2> QED
    BY <2>1, <2>2, <2>3
<1> HIDE DEF s, from
<1>10. Registered(c, s, 1)'
  <2>1. ASSUME NEW j \in 1 .. l.size - 1
        PROVE  home[heap'[s[j]].data] = c /\ proxy'[heap'[s[j]].data] = s[j]
    <3>1. s[j] # n /\ s[j] \in DOMAIN heap'
      BY <1>1, <1>2, <1>4, <1>9
    <3>2. heap'[s[j]].data = heap[s[j]].data
      BY <1>4, <3>1
    <3>3. heap[s[j]].data \in Iterators \ {i}
      BY <1>2, <1>3, <1>9, <3>1
    <3> QED
      BY <1>2, <1>6, <1>9, <3>2, <3>3
  <2>2. ASSUME NEW k \in Iterators, home[k] = c, proxy'[k] # NoNode
        PROVE  \E j \in 1 .. l.size - 1 : proxy'[k] = s[j] /\ heap'[s[j]].data = k
    <3>1. k # i
      BY <1>6, <2>2
    <3>2. PICK j \in 1 .. l.size : proxy[k] = S[c][j] /\ heap[S[c][j]].data = k
      BY <1>0, <1>1, <1>6, <2>2, <3>1 DEF Registered
    <3>3. j # p
      BY <1>0, <3>1, <3>2
    <3>4. PICK m \in 1 .. l.size - 1 : from(m) = j
      <4>1. j < p => j \in 1 .. l.size - 1 /\ from(j) = j
        BY <1>1, <3>3 DEF from
      <4>2. ~(j < p) => j - 1 \in 1 .. l.size - 1 /\ from(j - 1) = j
        BY <1>1, <3>3 DEF from
      <4> QED
        BY <4>1, <4>2
    <3>5. s[m] = S[c][j] /\ s[m] # n /\ s[m] \in DOMAIN heap'
      BY <1>1, <1>2, <1>4, <1>9, <3>3, <3>4
    <3>6. heap'[s[m]].data = k /\ proxy'[k] = s[m]
      BY <1>4, <1>6, <3>1, <3>2, <3>5
    <3> QED
      BY <3>6
  <2>3. 1 \in 1 .. (l.size - 1) + 1
    BY <1>1
  <2> QED
    BY <1>9, <2>1, <2>2, <2>3 DEF Registered
<1>11. Cursors(c, s, 1)'
  BY DEF s
<1>12. ASSUME NEW d \in Containers \ {c}, NEW j \in 1 .. list[d].size
       PROVE  /\ S[d][j] \in DOMAIN heap' /\ heap'[S[d][j]] = heap[S[d][j]]
              /\ heap[S[d][j]].data \in Iterators
              /\ \A m \in 1 .. list'[c].size : s[m] # S[d][j]
  <2>1. /\ S[d][j] \in DOMAIN heap /\ S[d][j] # NoNode
        /\ heap[S[d][j]].data \in Iterators
    BY ListedNodes
  <2>2. \A m \in 1 .. l.size : S[c][m] # S[d][j]
    BY <1>0, <1>12 DEF Lists
  <2>3. \A m \in {heap[n].last, heap[n].next} : m # S[d][j]
    BY <1>1, <2>1, <2>2, NeighboursListed
  <2> QED
    BY <1>1, <1>4, <1>9, <2>1, <2>2, <2>3
<1>13. \A k \in Iterators : home[k] # c => proxy'[k] = proxy[k]
  BY <1>3, <1>6
<1>14. \E S2, K2 : Lists(S2, K2)'
  <2>1. /\ \A d \in Containers \ {c} : list'[d] = list[d]
        /\ \A d \in Containers \ {c} : \A j \in 1 .. list[d].size :
             /\ S[d][j] \in DOMAIN heap' /\ heap'[S[d][j]] = heap[S[d][j]]
             /\ \A m \in 1 .. list'[c].size : s[m] # S[d][j]
        /\ \A d \in Containers \ {c} : \A j \in 1 .. list[d].size :
             heap[S[d][j]].data \in Iterators
    BY <1>5, <1>12
  <2>2. \A d \in Containers \ {c} : Cursors(d, S[d], K[d])'
    OBVIOUS
  <2>3. home' = home /\ \A k \in Iterators : home[k] # c => proxy'[k] = proxy[k]
    BY <1>13
  <2> QED
    BY <1>8, <1>10, <1>11, <2>1, <2>2, <2>3, OneListChanged
<1> QED
  BY <1>7, <1>14

\* The walks along other lists than the one a thread works on.
LEMMA OtherCursors ==
  ASSUME CallsAreTyped, NEW S, NEW K, Lists(S, K), NEW t \in Threads, pc[t] # "idle",
         job' = job, \A u \in Threads \ {t} : pc'[u] = pc[u] /\ cursor'[u] = cursor[u],
         pc'[t] # "locked" \/ pc[t] = "locked", pc'[t] # "detach" \/ pc[t] = "detach",
         \A d \in Containers \ {job[t].c} : list'[d] = list[d]
  PROVE  \A d \in Containers \ {job[t].c} : Cursors(d, S[d], K[d])'
<1> TAKE d \in Containers \ {job[t].c}
<1>1. \A u \in Threads : /\ Detaching(u, d)' <=> Detaching(u, d)
                         /\ Walking(u, d)' => Walking(u, d)
                         /\ Detaching(u, d) \/ Walking(u, d) => u # t
  BY DEF Detaching, Walking
<1> QED
  BY <1>1, CursorsElsewhere DEF Lists

\* An iterator takes its registration back.
LEMMA ReleaseLists ==
  ASSUME CallsAreTyped, CallsInv, OneHolder, Kinds, NEW S, NEW K, Lists(S, K),
         NEW t \in Threads, Release(t)
  PROVE  Kinds' /\ wild' = wild /\ \E S2, K2 : Lists(S2, K2)'
<1>0. PICK c, i, l : c = job[t].c /\ i = job[t].i /\ l = list[job[t].c]
  OBVIOUS
<1>1. /\ pc[t] = "locked" /\ job[t].op = "release" /\ pc' = [pc EXCEPT ![t] = "unlock"]
      /\ proxy' = [proxy EXCEPT ![i] = NoNode]
      /\ UNCHANGED <<home, job, cursor, aborted>>
      /\ IF proxy[i] = NoNode THEN UNCHANGED <<heap, list, wild>>
                              ELSE Unlink(c, proxy[i])
  BY <1>0 DEF Release, Goto
<1>2. c = Target(t) /\ c \in Containers
  BY <1>0, <1>1 DEF Target, CallsAreTyped
<1>3. i \in Iterators /\ home[i] = c
  <2>1. CallInv(t)
    BY DEF CallsInv
  <2> QED
    BY <1>0, <1>1, <2>1 DEF CallInv
<1>4. /\ K[c] = 1 /\ \A u \in Threads : ~Detaching(u, c)
      /\ \A u \in Threads : Walking(u, c) => u = t
  BY <1>1, <1>2, LockedIsWhole
<1>5. pc'[t] = "unlock" /\ \A u \in Threads \ {t} : pc'[u] = pc[u]
  BY <1>1 DEF CallsAreTyped
<1>6. CASE proxy[i] = NoNode
  <2>1. UNCHANGED <<heap, list, wild>>
    BY <1>1, <1>6
  <2>2. proxy' = proxy
    BY <1>1, <1>3, <1>6 DEF Kinds
  <2>3. Kinds'
    BY <1>1, <2>1, <2>2 DEF Kinds
  <2> QED
    BY <1>1, <1>5, <2>1, <2>2, <2>3, QuietLists
<1>7. CASE proxy[i] # NoNode
  <2>1. PICK p \in 1 .. l.size : proxy[i] = S[c][p] /\ heap[S[c][p]].data = i
    BY <1>0, <1>2, <1>3, <1>4, <1>7 DEF Lists, Registered
  <2>2. Chain(heap, l, S[c])
    BY <1>0, <1>2 DEF Lists
  <2>3. PICK n : n = proxy[i] /\ n = S[c][p]
    BY <2>1
  <2>4. PopIsSafe(heap, n)
    BY <2>2, <2>3, Neighbours
  <2>5. /\ heap' = HeapAfterPop(heap, n) /\ wild' = wild
        /\ list' = [list EXCEPT ![c] = AfterPop(heap, l, n)]
    BY <1>0, <1>1, <1>7, <2>3, <2>4 DEF Unlink
  <2>6. \A d \in Containers \ {c} : list'[d] = list[d]
    BY <2>5 DEF Kinds
  <2>7. \A d \in Containers \ {c} : Cursors(d, S[d], K[d])'
    BY <1>0, <1>1, <1>5, <2>6, OtherCursors
  <2>8. Cursors(c, Without(l, S[c], p), 1)'
    <3>1. \A u \in Threads : ~Detaching(u, c)' /\ ~Walking(u, c)'
      BY <1>1, <1>4, <1>5 DEF Detaching, Walking
    <3> QED
      BY <3>1 DEF Cursors
  <2>9. proxy' = [proxy EXCEPT ![heap[n].data] = NoNode]
    BY <1>1, <2>1, <2>3
  <2>10. cursor' \in [Threads -> Nodes \union {NoNode}]
    BY <1>1 DEF Kinds
  <2> QED
    BY <1>0, <1>1, <1>2, <1>4, <2>3, <2>5, <2>7, <2>8, <2>9, <2>10, PoppedLists
<1> QED
  BY <1>6, <1>7

\* One turn of _invalidate_range: an iterator stays or is cut off.
LEMMA InvalidateLists ==
  ASSUME CallsAreTyped, CallsInv, OneHolder, Kinds, NEW S, NEW K, Lists(S, K),
         NEW t \in Threads, Invalidate(t)
  PROVE  Kinds' /\ wild' = wild /\ \E S2, K2 : Lists(S2, K2)'
<1>0. PICK c, n, l : c = job[t].c /\ n = cursor[t] /\ l = list[job[t].c]
  OBVIOUS
<1>1. /\ pc[t] = "locked" /\ job[t].op = "invalidate" /\ n # NoNode
      /\ UNCHANGED <<home, pc, job, aborted>>
  BY <1>0 DEF Invalidate
<1>2. c = Target(t) /\ c \in Containers
  BY <1>0, <1>1 DEF Target, CallsAreTyped
<1>3. /\ K[c] = 1 /\ \A u \in Threads : ~Detaching(u, c)
      /\ \A u \in Threads : Walking(u, c) => u = t
      /\ Walking(t, c)
  BY <1>0, <1>1, <1>2, LockedIsWhole DEF Walking
<1>4. Chain(heap, l, S[c]) /\ Registered(c, S[c], 1) /\ Cursors(c, S[c], 1)
  BY <1>0, <1>2, <1>3 DEF Lists
<1>5. PICK p \in 1 .. l.size : n = S[c][p]
  BY <1>0, <1>1, <1>3, <1>4 DEF Cursors
<1>6. /\ Alive(heap, n) /\ heap[n].data \in Iterators
      /\ home[heap[n].data] = c /\ home[heap[n].data] # None
  <2>1. n \in DOMAIN heap /\ heap[n].data \in Iterators
    BY <1>0, <1>2, <1>5, ListedNodes
  <2>2. home[heap[n].data] = c
    <3>1. l = list[c] /\ p \in 1 .. list[c].size
      BY <1>0, <1>5
    <3>2. home[heap[S[c][p]].data] = c
      BY <1>4, <3>1 DEF Registered
    <3> QED
      BY <1>5, <3>2
  <2> QED
    BY <1>2, <2>1, <2>2, IteratorAssumption DEF Alive
<1>7. /\ cursor' = [cursor EXCEPT ![t] = heap[n].next]
      /\ \/ UNCHANGED <<heap, list, proxy, wild>>
         \/ Unlink(c, n) /\ proxy' = [proxy EXCEPT ![heap[n].data] = NoNode]
  BY <1>0, <1>6 DEF Invalidate
<1>8. IF p = l.size THEN heap[n].next = NoNode
                    ELSE p + 1 \in 1 .. l.size /\ heap[n].next = S[c][p + 1]
  BY <1>4, <1>5, NeighboursListed
<1>9. /\ cursor'[t] = heap[n].next /\ \A u \in Threads \ {t} : cursor'[u] = cursor[u]
      /\ cursor' \in [Threads -> Nodes \union {NoNode}]
  <2>1. heap[n].next \in Nodes \union {NoNode}
    BY <1>6, NodeFields DEF Kinds, Alive
  <2> QED
    BY <1>7, <2>1 DEF Kinds
<1>10. CASE UNCHANGED <<heap, list, proxy, wild>>
  <2>1. \A d \in Containers \ {c} : Cursors(d, S[d], K[d])'
    BY <1>0, <1>1, <1>9, <1>10, OtherCursors
  <2>2. Cursors(c, S[c], 1)'
    <3>1. \A u \in Threads : ~Detaching(u, c)' /\ (Walking(u, c)' => u = t)
      BY <1>1, <1>3 DEF Detaching, Walking
    <3>2. cursor'[t] = NoNode \/ \E j \in 1 .. l.size : cursor'[t] = S[c][j]
      BY <1>8, <1>9
    <3> QED
      BY <1>0, <1>10, <3>1, <3>2 DEF Cursors
  <2>3. \A d \in Containers : Cursors(d, S[d], K[d])'
    BY <1>3, <2>1, <2>2
  <2>4. Kinds'
    BY <1>1, <1>9, <1>10 DEF Kinds
  <2> QED
    BY <1>1, <1>10, <2>3, <2>4, ListsStay
<1>11. CASE Unlink(c, n) /\ proxy' = [proxy EXCEPT ![heap[n].data] = NoNode]
  <2>1. PopIsSafe(heap, n)
    BY <1>4, <1>5, Neighbours
  <2>2. /\ heap' = HeapAfterPop(heap, n) /\ wild' = wild
        /\ list' = [list EXCEPT ![c] = AfterPop(heap, l, n)]
    BY <1>0, <1>11, <2>1 DEF Unlink
  <2>3. /\ \A d \in Containers \ {c} : list'[d] = list[d]
        /\ list'[c].size = l.size - 1
    BY <1>2, <2>2 DEF Kinds, AfterPop
  <2>4. \A d \in Containers \ {c} : Cursors(d, S[d], K[d])'
    BY <1>0, <1>1, <1>9, <2>3, OtherCursors
  <2>5. Cursors(c, Without(l, S[c], p), 1)'
    <3>1. \A u \in Threads : ~Detaching(u, c)' /\ (Walking(u, c)' => u = t)
      BY <1>1, <1>3 DEF Detaching, Walking
    <3>2. \/ cursor'[t] = NoNode
          \/ \E j \in 1 .. l.size - 1 : cursor'[t] = Without(l, S[c], p)[j]
      <4>1. p # l.size => p \in 1 .. l.size - 1 /\ Without(l, S[c], p)[p] = S[c][p + 1]
        BY <1>4 DEF Without, Chain
      <4> QED
        BY <1>8, <1>9, <4>1
    <3> QED
      BY <2>3, <3>1, <3>2 DEF Cursors
  <2> QED
    BY <1>0, <1>1, <1>2, <1>3, <1>5, <1>9, <1>11, <2>2, <2>4, <2>5, PoppedLists
<1> QED
  BY <1>7, <1>10, <1>11

\* One turn of _release_proxy: an iterator is cut off, its node stays for now.
LEMMA DetachLists ==
  ASSUME CallsAreTyped, OneHolder, Kinds, NEW S, NEW K, Lists(S, K),
         NEW t \in Threads, Detach(t)
  PROVE  Kinds' /\ wild' = wild /\ \E S2, K2 : Lists(S2, K2)'
<1>0. PICK c, n, l, k : c = job[t].c /\ n = cursor[t] /\ l = list[job[t].c] /\ k = K[job[t].c]
  OBVIOUS
<1>1. /\ pc[t] = "detach" /\ n # NoNode
      /\ UNCHANGED <<list, heap, home, pc, job, aborted>>
  BY <1>0 DEF Detach
<1>2. c \in Containers /\ Holds(t, c) /\ Detaching(t, c)
  BY <1>0, <1>1 DEF CallsAreTyped, Holds, Detaching
<1>3. \A u \in Threads : Detaching(u, c) \/ Walking(u, c) => u = t
  BY <1>2, HolderIsAlone
<1>4. /\ Chain(heap, l, S[c]) /\ Registered(c, S[c], k) /\ Cursors(c, S[c], k)
      /\ l.size \in Nat /\ k \in 1 .. l.size + 1
  <2>1. l = list[c] /\ k = K[c]
    BY <1>0
  <2>2. Chain(heap, l, S[c]) /\ Registered(c, S[c], k) /\ Cursors(c, S[c], k)
    BY <1>2, <2>1 DEF Lists
  <2>3. k \in 1 .. l.size + 1
    BY <2>1, <2>2 DEF Registered
  <2>4. l.size \in Nat
    BY <2>2 DEF Chain
  <2> QED
    BY <2>2, <2>3, <2>4
<1>5. k \in 1 .. l.size /\ n = S[c][k]
  <2>1. n = IF k = l.size + 1 THEN NoNode ELSE S[c][k]
    BY <1>0, <1>2, <1>4 DEF Cursors
  <2> QED
    BY <1>1, <1>4, <2>1
<1>6. PICK i : i = heap[n].data
  OBVIOUS
<1>7. /\ Alive(heap, n) /\ i \in Iterators /\ home[i] = c /\ home[i] # None
      /\ proxy[i] = n
  <2>1. n \in DOMAIN heap /\ i \in Iterators
    BY <1>0, <1>2, <1>5, <1>6, ListedNodes
  <2>2. home[i] = c /\ proxy[i] = n
    <3>1. l = list[c] /\ k \in k .. l.size
      BY <1>0, <1>4, <1>5
    <3>2. home[heap[S[c][k]].data] = c /\ proxy[heap[S[c][k]].data] = S[c][k]
      BY <1>4, <3>1 DEF Registered
    <3> QED
      BY <1>5, <1>6, <3>2
  <2> QED
    BY <1>2, <2>1, <2>2, IteratorAssumption DEF Alive
<1>8. /\ proxy' = [proxy EXCEPT ![i] = NoNode] /\ wild' = wild
      /\ cursor' = [cursor EXCEPT ![t] = heap[n].next]
  BY <1>0, <1>6, <1>7 DEF Detach
<1>9. /\ proxy'[i] = NoNode /\ \A m \in Iterators \ {i} : proxy'[m] = proxy[m]
      /\ proxy' \in [Iterators -> Nodes \union {NoNode}]
      /\ cursor'[t] = heap[n].next /\ \A u \in Threads \ {t} : cursor'[u] = cursor[u]
      /\ cursor' \in [Threads -> Nodes \union {NoNode}]
  <2>1. heap[n].next \in Nodes \union {NoNode}
    BY <1>7, NodeFields DEF Kinds, Alive
  <2> QED
    BY <1>7, <1>8, <2>1 DEF Kinds
<1>10. Kinds'
  BY <1>1, <1>8, <1>9 DEF Kinds
<1>11. \A j \in k .. l.size : /\ j \in 1 .. l.size /\ heap[S[c][j]].data \in Iterators
                              /\ home[heap[S[c][j]].data] = c
                              /\ proxy[heap[S[c][j]].data] = S[c][j]
  <2>1. \A j \in k .. l.size : j \in 1 .. l.size
    BY <1>5
  <2> QED
    BY <1>0, <1>2, <1>4, <2>1, ListedNodes DEF Registered
<1>12. Registered(c, S[c], k + 1)'
  <2>1. k + 1 \in 1 .. l.size + 1 /\ \A j \in k + 1 .. l.size : j \in k .. l.size /\ j # k
    BY <1>4, <1>5
  <2>2. ASSUME NEW j \in k + 1 .. l.size
        PROVE  proxy'[heap[S[c][j]].data] = S[c][j]
    <3>1. j \in k .. l.size /\ S[c][j] # n
      BY <1>4, <1>5, <1>11, <2>1 DEF Chain
    <3>2. heap[S[c][j]].data \in Iterators \ {i} /\ proxy[heap[S[c][j]].data] = S[c][j]
      BY <1>7, <1>11, <3>1
    <3> QED
      BY <1>9, <3>2
  <2>3. ASSUME NEW m \in Iterators, home[m] = c, proxy'[m] # NoNode
        PROVE  \E j \in k + 1 .. l.size : proxy'[m] = S[c][j] /\ heap[S[c][j]].data = m
    <3>1. m # i
      BY <1>9, <2>3
    <3>2. PICK j \in k .. l.size : proxy[m] = S[c][j] /\ heap[S[c][j]].data = m
      BY <1>0, <1>4, <1>9, <2>3, <3>1 DEF Registered
    <3>3. j # k
      BY <1>5, <1>6, <3>1, <3>2
    <3>4. j \in k + 1 .. l.size
      BY <1>5, <3>3
    <3> QED
      BY <1>9, <3>1, <3>2, <3>4
  <2>4. \A j \in k + 1 .. l.size : home[heap[S[c][j]].data] = c
    BY <1>11, <2>1
  <2>5. list'[c] = l /\ heap' = heap /\ home' = home
    BY <1>0, <1>1
  <2>6. k + 1 \in 1 .. list'[c].size + 1
    BY <2>1, <2>5
  <2>7. ASSUME NEW j \in k + 1 .. list'[c].size
        PROVE  home'[heap'[S[c][j]].data] = c /\ proxy'[heap'[S[c][j]].data] = S[c][j]
    <3>1. j \in k + 1 .. l.size
      BY <2>5
    <3> QED
      BY <2>2, <2>4, <2>5, <3>1
  <2>8. ASSUME NEW m \in Iterators, home'[m] = c, proxy'[m] # NoNode
        PROVE  \E j \in k + 1 .. list'[c].size :
                 proxy'[m] = S[c][j] /\ heap'[S[c][j]].data = m
    <3>1. home[m] = c
      BY <2>5, <2>8
    <3>2. PICK j \in k + 1 .. l.size : proxy'[m] = S[c][j] /\ heap[S[c][j]].data = m
      BY <2>3, <2>8, <3>1
    <3> QED
      BY <2>5, <3>2
  <2> QED
    BY <2>6, <2>7, <2>8 DEF Registered
<1>13. Cursors(c, S[c], k + 1)'
  <2>1. \A u \in Threads : /\ Detaching(u, c)' <=> Detaching(u, c)
                           /\ ~Walking(u, c)'
    BY <1>1, <1>3 DEF Detaching, Walking
  <2>2. heap[n].next = IF k + 1 = l.size + 1 THEN NoNode ELSE S[c][k + 1]
    <3>1. k + 1 = l.size + 1 <=> k = l.size
      BY <1>4, <1>5
    <3> QED
      BY <1>4, <1>5, <3>1, NeighboursListed
  <2> QED
    BY <1>0, <1>1, <1>2, <1>3, <1>9, <2>1, <2>2 DEF Cursors
<1>14. \A d \in Containers \ {c} : Cursors(d, S[d], K[d])'
  BY <1>0, <1>1, <1>9, OtherCursors
<1>15. ASSUME NEW d \in Containers \ {c}, NEW j \in 1 .. list[d].size
       PROVE  /\ S[d][j] \in DOMAIN heap /\ heap[S[d][j]].data \in Iterators
              /\ \A m \in 1 .. list[c].size : S[c][m] # S[d][j]
  BY <1>2, <1>15, ListedNodes DEF Lists
<1>16. \A m \in Iterators : home[m] # c => proxy'[m] = proxy[m]
  BY <1>7, <1>9
<1>17. \E S2, K2 : Lists(S2, K2)'
  <2>1. Chain(heap', list'[c], S[c])
    BY <1>0, <1>1, <1>4
  <2> QED
    BY <1>1, <1>2, <1>12, <1>13, <1>14, <1>15, <1>16, <2>1, OneListChanged
<1> QED
  BY <1>8, <1>10, <1>17

\* _release_proxy frees the nodes, none of which an iterator points to any more.
LEMMA ClearListLists ==
  ASSUME CallsAreTyped, OneHolder, Kinds, NEW S, NEW K, Lists(S, K),
         NEW t \in Threads, ClearList(t)
  PROVE  Kinds' /\ wild' = wild /\ \E S2, K2 : Lists(S2, K2)'
<1>0. PICK c, l, k : c = job[t].c /\ l = list[job[t].c] /\ k = K[job[t].c]
  OBVIOUS
<1>1. /\ pc[t] = "detach" /\ cursor[t] = NoNode /\ pc' = [pc EXCEPT ![t] = "cleaned"]
      /\ UNCHANGED <<home, proxy, job, cursor, aborted>>
  BY DEF ClearList, Goto
<1>2. c \in Containers /\ Holds(t, c) /\ Detaching(t, c)
  BY <1>0, <1>1 DEF CallsAreTyped, Holds, Detaching
<1>3. \A u \in Threads : Detaching(u, c) \/ Walking(u, c) => u = t
  BY <1>2, HolderIsAlone
<1>4. /\ Chain(heap, l, S[c]) /\ Registered(c, S[c], k) /\ Cursors(c, S[c], k)
      /\ l.size \in Nat /\ k \in 1 .. l.size + 1 /\ IsHeap(heap)
  <2>1. l = list[c] /\ k = K[c]
    BY <1>0
  <2>2. Chain(heap, l, S[c]) /\ Registered(c, S[c], k) /\ Cursors(c, S[c], k)
    BY <1>2, <2>1 DEF Lists
  <2>3. k \in 1 .. l.size + 1
    BY <2>1, <2>2 DEF Registered
  <2>4. l.size \in Nat /\ IsHeap(heap)
    BY <2>2 DEF Chain, Kinds
  <2> QED
    BY <2>2, <2>3, <2>4
<1>5. k = l.size + 1
  <2>1. k \in 1 .. l.size => S[c][k] # NoNode
    BY <1>0, <1>2, ListedNodes
  <2>2. cursor[t] = IF k = l.size + 1 THEN NoNode ELSE S[c][k]
    BY <1>0, <1>2, <1>4 DEF Cursors
  <2> QED
    BY <1>1, <1>4, <2>1, <2>2
<1>6. \A i \in Iterators : home[i] = c => proxy[i] = NoNode
  <2>1. \A j : j \notin k .. l.size
    BY <1>4, <1>5
  <2> QED
    BY <1>0, <1>4, <2>1 DEF Registered
<1> DEFINE g == HeapAfterClear(heap, l)
<1>7. /\ ClearIsSafe(heap, l)
      /\ IsHeap(g) /\ DOMAIN g = DOMAIN heap \ {S[c][j] : j \in 1 .. l.size}
      /\ \A m \in DOMAIN g : g[m] = heap[m]
  BY <1>4, ClearHeap
<1>8. heap' = g /\ wild' = wild /\ list' = [list EXCEPT ![c] = EmptyList]
  BY <1>0, <1>7 DEF ClearList
<1> HIDE DEF g
<1>9. /\ list'[c] = EmptyList /\ list'[c].size = 0
      /\ \A d \in Containers \ {c} : list'[d] = list[d]
      /\ list' = [d \in Containers |-> list'[d]]
  BY <1>2, <1>8 DEF Kinds, EmptyList
<1>10. Kinds'
  BY <1>1, <1>7, <1>8, <1>9 DEF Kinds
<1> DEFINE s == [j \in 1 .. 0 |-> NoNode]
<1>11. Chain(heap', list'[c], s)
  <2>1. s \in [1 .. 0 -> Nodes]
    OBVIOUS
  <2> HIDE DEF s
  <2> QED
    BY <1>9, <2>1, EmptyChain
<1> HIDE DEF s
<1>12. Registered(c, s, 1)'
  BY <1>1, <1>6, <1>9 DEF Registered
<1>13. pc'[t] = "cleaned" /\ \A u \in Threads \ {t} : pc'[u] = pc[u]
  BY <1>1 DEF CallsAreTyped
<1>14. Cursors(c, s, 1)'
  <2>1. \A u \in Threads : ~Detaching(u, c)' /\ ~Walking(u, c)'
    BY <1>1, <1>3, <1>13 DEF Detaching, Walking
  <2> QED
    BY <2>1 DEF Cursors
<1>15. \A d \in Containers \ {c} : Cursors(d, S[d], K[d])'
  BY <1>0, <1>1, <1>9, <1>13, OtherCursors
<1>16. ASSUME NEW d \in Containers \ {c}, NEW j \in 1 .. list[d].size
       PROVE  /\ S[d][j] \in DOMAIN heap' /\ heap'[S[d][j]] = heap[S[d][j]]
              /\ heap[S[d][j]].data \in Iterators
              /\ \A m \in 1 .. list'[c].size : s[m] # S[d][j]
  <2>1. S[d][j] \in DOMAIN heap /\ heap[S[d][j]].data \in Iterators
    BY ListedNodes
  <2>2. \A m \in 1 .. l.size : S[c][m] # S[d][j]
    BY <1>0, <1>2, <1>16 DEF Lists
  <2>3. \A m : m \notin 1 .. list'[c].size
    BY <1>9
  <2> QED
    BY <1>7, <1>8, <2>1, <2>2, <2>3
<1>17. \E S2, K2 : Lists(S2, K2)'
  BY <1>1, <1>2, <1>9, <1>11, <1>12, <1>14, <1>15, <1>16, OneListChanged
<1> QED
  BY <1>8, <1>10, <1>17

\* A move from a container without iterators to one that is cleaned up moves no
\* node.
LEMMA MoveProxiesLists ==
  ASSUME CallsAreTyped, CallsInv, OneHolder, Kinds, NEW S, NEW K, Lists(S, K),
         NEW t \in Threads, MoveProxies(t), list[job[t].c].size = 0
  PROVE  /\ Kinds' /\ wild' = wild /\ \E S2, K2 : Lists(S2, K2)'
         /\ list'[job[t].c].size = 0
<1>0. PICK c, from : c = job[t].c /\ from = job[t].from
  OBVIOUS
<1>1. /\ pc[t] = "locked" /\ job[t].op = "move" /\ pc' = [pc EXCEPT ![t] = "raise"]
      /\ UNCHANGED <<home, proxy, job, cursor, aborted>>
  BY DEF MoveProxies, Goto
<1>2. c \in Containers /\ from \in Containers
  BY <1>0, <1>1 DEF CallsAreTyped
<1>3. c # from /\ ~Shared(from)
  <2>1. CallInv(t)
    BY DEF CallsInv
  <2> QED
    BY <1>0, <1>1, <2>1 DEF CallInv
<1>4. ASSUME NEW u \in Threads, NEW d \in {c, from}
      PROVE  ~Detaching(u, d) /\ ~Walking(u, d)
  <2>1. Changer(t, d)
    BY <1>0, <1>1 DEF Changer
  <2>2. CallInv(u) /\ ApartInv(u, t)
    BY DEF CallsInv
  <2>3. Detaching(u, d) \/ Walking(u, d) => Changer(u, d)
    BY <2>2 DEF Detaching, Walking, Changer, CallInv
  <2>4. Detaching(u, d) \/ Walking(u, d) => u = t
    BY <1>2, <2>1, <2>2, <2>3 DEF ApartInv
  <2> QED
    BY <1>1, <2>4 DEF Detaching, Walking
<1>5. ASSUME NEW d \in {c, from}
      PROVE  /\ K[d] = 1 /\ list[d].size = 0 /\ Chain(heap, list[d], S[d])
             /\ list[d].first = NoNode /\ list[d].second = NoNode
  <2>1. Chain(heap, list[d], S[d]) /\ Registered(d, S[d], K[d]) /\ Cursors(d, S[d], K[d])
    BY <1>2 DEF Lists
  <2>2. K[d] = 1
    BY <1>4, <2>1 DEF Cursors
  <2>3. \A j \in 1 .. list[d].size : heap[S[d][j]].data \in Iterators
    BY <1>2, ListedNodes
  <2>4. ASSUME d = from
        PROVE  list[d].size = 0
    <3>1. \A j : j \notin 1 .. list[d].size
      BY <1>3, <2>1, <2>2, <2>3, <2>4 DEF Registered, Shared
    <3> QED
      BY <2>1, <3>1 DEF Chain
  <2>5. list[d].size = 0
    BY <1>0, <2>4
  <2> QED
    BY <2>1, <2>2, <2>5 DEF Chain
<1>6. ClearIsSafe(heap, list[c]) /\ HeapAfterClear(heap, list[c]) = heap
  <2>1. Members(heap, list[c]) = {}
    <3>1. Members(heap, list[c]) = {S[c][j] : j \in 1 .. list[c].size}
      BY <1>5, ChainIsWellFormed DEF Kinds, IsHeap
    <3>2. \A j : j \notin 1 .. list[c].size
      BY <1>5
    <3> QED
      BY <3>1, <3>2
  <2> QED
    BY <2>1 DEF ClearIsSafe, HeapAfterClear, Kinds, IsHeap
<1>7. /\ heap' = heap /\ wild' = wild
      /\ list' = [list EXCEPT ![c] = list[from], ![from] = EmptyList]
  BY <1>0, <1>6 DEF MoveProxies
<1>8. /\ list'[c] = list[from] /\ list'[from] = EmptyList
      /\ \A d \in Containers \ {c, from} : list'[d] = list[d]
      /\ list' = [d \in Containers |-> list'[d]]
  BY <1>2, <1>3, <1>7 DEF Kinds
<1>9. Kinds'
  BY <1>1, <1>7, <1>8 DEF Kinds
<1>10. pc'[t] = "raise" /\ \A u \in Threads \ {t} : pc'[u] = pc[u]
  BY <1>1 DEF CallsAreTyped
<1>11. \A d \in Containers : list'[d].size = list[d].size
  <2>1. list'[c].size = 0 /\ list'[from].size = 0
    BY <1>5, <1>8 DEF EmptyList
  <2> QED
    BY <1>5, <1>8, <2>1
<1>12. ASSUME NEW d \in Containers
       PROVE  /\ Chain(heap', list'[d], S[d])
              /\ Registered(d, S[d], K[d])' /\ Cursors(d, S[d], K[d])'
  <2>0. Chain(heap, list[d], S[d]) /\ Registered(d, S[d], K[d]) /\ Cursors(d, S[d], K[d])
    BY DEF Lists
  <2>1. Chain(heap', list'[d], S[d])
    <3>1. CASE d \in {c, from}
      <4>1. /\ list'[d].size = 0 /\ list'[d].first = NoNode /\ list'[d].second = NoNode
        BY <1>5, <1>8, <3>1 DEF EmptyList
      <4>2. S[d] \in [1 .. 0 -> Nodes]
        BY <1>5, <3>1 DEF Chain
      <4> QED
        BY <4>1, <4>2 DEF Chain
    <3>2. CASE d \notin {c, from}
      BY <1>7, <1>8, <2>0, <3>2
    <3> QED
      BY <3>1, <3>2
  <2>2. Registered(d, S[d], K[d])'
    BY <1>1, <1>7, <1>11, <2>0 DEF Registered
  <2>3. \A u \in Threads : /\ Detaching(u, d)' <=> Detaching(u, d)
                           /\ Walking(u, d)' => Walking(u, d)
    BY <1>1, <1>10 DEF Detaching, Walking
  <2>4. Cursors(d, S[d], K[d])'
    BY <1>1, <1>11, <2>0, <2>3 DEF Cursors
  <2> QED
    BY <2>1, <2>2, <2>4
<1>13. Lists(S, K)'
  BY <1>11, <1>12 DEF Lists
<1>14. list'[job[t].c].size = 0
  <2>1. list[c].size = 0 /\ list'[c].size = list[c].size
    BY <1>2, <1>5, <1>11
  <2> QED
    BY <1>0, <2>1
<1> QED
  BY <1>7, <1>9, <1>13, <1>14

-----------------------------------------------------------------------------
(* The versions.                                                            *)

\* A step that counts no move, and in which no thread begins one.
LEMMA VersionsStay ==
  ASSUME Versions, moves' = moves, ver' = ver, old_ver' \in [Threads -> 0 .. MaxMoves],
         \A u \in Threads : job'[u].op = "move" /\ pc'[u] # "unlock" =>
           job'[u] = job[u] /\ pc[u] # "unlock"
  PROVE  Versions'
BY DEF Versions

\* A move assignment is counted first, so both its containers are one behind.
LEMMA MoveAssignVersions ==
  ASSUME CallsAreTyped, CallsInv, Versions, NEW t \in Threads, MoveAssign(t)
  PROVE  Versions'
<1>1. PICK c, from, j :
        /\ c \in Containers /\ from \in Containers
        /\ moves < MaxMoves /\ moves' = moves + 1 /\ ver' = ver /\ old_ver' = old_ver
        /\ Enter(t, j, "cleanup") /\ j.c = c /\ j.from = from
  <2>1. PICK c, from \in Containers :
          Enter(t, [NoJob EXCEPT !.op = "move", !.c = c, !.from = from], "cleanup")
    BY DEF MoveAssign
  <2> DEFINE j == [NoJob EXCEPT !.op = "move", !.c = c, !.from = from]
  <2>2. Enter(t, j, "cleanup") /\ j.c = c /\ j.from = from
    BY <2>1 DEF NoJob
  <2> HIDE DEF j
  <2> QED
    BY <2>2 DEF MoveAssign
<1>2. /\ job'[t] = j /\ pc'[t] = "cleanup"
      /\ \A u \in Threads \ {t} : job'[u] = job[u] /\ pc'[u] = pc[u]
  BY <1>1 DEF Enter, CallsAreTyped
<1>3. MaxMoves \in Nat /\ moves' \in 0 .. MaxMoves
  BY <1>1, IteratorAssumption DEF Versions
<1>4. \A d \in Containers : ver'[d] \in Nat /\ ver'[d] < moves'
  BY <1>1, <1>3 DEF Versions
<1>5. ASSUME NEW u \in Threads, job'[u].op = "move", pc'[u] # "unlock"
      PROVE  ver'[job'[u].c] < moves' /\ ver'[job'[u].from] < moves'
  <2>1. CASE u = t
    BY <1>1, <1>2, <1>4, <2>1
  <2>2. CASE u # t
    <3>1. job[u].c \in Containers /\ job[u].from \in Containers
      BY <1>2, <1>5, <2>2, CallHasContainer DEF CallsInv
    <3> QED
      BY <1>2, <1>4, <2>2, <3>1
  <2> QED
    BY <2>1, <2>2
<1> QED
  BY <1>1, <1>3, <1>4, <1>5 DEF Versions

\* What the move assignment has counted at its start it does at its end.
LEMMA RaiseVersionsCounts ==
  ASSUME CallsAreTyped, CallsInv, Versions, NEW t \in Threads, RaiseVersions(t)
  PROVE  Versions'
<1>0. PICK c, from : c = job[t].c /\ from = job[t].from
  OBVIOUS
<1>1. /\ job[t].op = "move" /\ pc[t] = "raise" /\ pc' = [pc EXCEPT ![t] = "unlock"]
      /\ job' = job /\ moves' = moves /\ old_ver' = old_ver
      /\ ver' = [ver EXCEPT ![c] = @ + 1, ![from] = @ + 1]
  BY <1>0 DEF RaiseVersions, Goto, CallsInv, CallInv
<1>2. /\ c \in Containers /\ from \in Containers /\ c # from
      /\ ver[c] < moves /\ ver[from] < moves
  <2>1. CallInv(t)
    BY DEF CallsInv
  <2> QED
    BY <1>0, <1>1, <2>1 DEF CallInv, CallsAreTyped, Versions
<1>3. MaxMoves \in Nat /\ moves \in 0 .. MaxMoves /\ \A d \in Containers : ver[d] \in Nat
  BY IteratorAssumption DEF Versions
<1>4. /\ \A d \in {c, from} : ver'[d] = ver[d] + 1 /\ ver'[d] \in Nat /\ ver'[d] <= moves
      /\ \A d \in Containers \ {c, from} : ver'[d] = ver[d]
      /\ ver' = [d \in Containers |-> ver'[d]]
  <2>1. ver \in [Containers -> 0 .. MaxMoves]
    BY DEF Versions
  <2>2. ver' = [d \in Containers |-> IF d \in {c, from} THEN ver[d] + 1 ELSE ver[d]]
    BY <1>1, <1>2, <2>1
  <2>3. /\ \A d \in {c, from} : ver'[d] = ver[d] + 1
        /\ \A d \in Containers \ {c, from} : ver'[d] = ver[d]
        /\ ver' = [d \in Containers |-> ver'[d]]
    BY <1>2, <2>2
  <2>4. moves \in Nat
    BY <1>3
  <2>5. \A d \in {c, from} : ver[d] + 1 \in Nat /\ ver[d] + 1 <= moves
    BY <1>2, <1>3, <2>4
  <2> QED
    BY <2>3, <2>5
<1>5. ver' \in [Containers -> 0 .. MaxMoves] /\ \A d \in Containers : ver'[d] <= moves
  <2>1. \A d \in Containers : ver'[d] \in 0 .. MaxMoves /\ ver'[d] <= moves
    BY <1>3, <1>4 DEF Versions
  <2> QED
    BY <1>4, <2>1
<1>6. ASSUME NEW u \in Threads, job'[u].op = "move", pc'[u] # "unlock"
      PROVE  ver'[job'[u].c] < moves' /\ ver'[job'[u].from] < moves'
  <2>1. u # t
    BY <1>1, <1>6 DEF CallsAreTyped
  <2>2. job[u].op = "move" /\ pc[u] # "unlock"
    BY <1>1, <1>6, <2>1 DEF CallsAreTyped
  <2>3. job[u].c \in Containers /\ job[u].from \in Containers
    BY <2>2, CallHasContainer DEF CallsInv
  <2>4. \A d \in {c, from} : d # job[u].c /\ d # job[u].from
    <3>1. ApartInv(u, t)
      BY DEF CallsInv
    <3> QED
      BY <1>0, <1>1, <1>2, <2>1, <2>2, <3>1 DEF ApartInv, Changer
  <2>5. ver[job[u].c] < moves /\ ver[job[u].from] < moves
    BY <2>2 DEF Versions
  <2> QED
    BY <1>1, <1>4, <2>3, <2>4, <2>5
<1> QED
  BY <1>1, <1>3, <1>5, <1>6 DEF Versions

\* No version ever outruns the moves.
LEMMA NextVersions ==
  ASSUME CallsAreTyped, CallsInv, Versions, NEW t \in Threads, Call(t) \/ Step(t)
  PROVE  Versions'
<1>1. CASE MoveAssign(t)
  BY <1>1, MoveAssignVersions
<1>2. CASE RaiseVersions(t)
  BY <1>2, RaiseVersionsCounts
<1>3. ASSUME NEW j, j.op # "move", NEW at, Enter(t, j, at), UNCHANGED <<moves, ver, old_ver>>
      PROVE  Versions'
  <2>1. \A u \in Threads : job'[u].op = "move" /\ pc'[u] # "unlock" =>
          job'[u] = job[u] /\ pc[u] # "unlock"
    BY <1>3 DEF Enter, CallsAreTyped
  <2> QED
    BY <1>3, <2>1, VersionsStay DEF Versions
<1>4. ASSUME NEW at, pc[t] # "unlock", pc' = [pc EXCEPT ![t] = at], job' = job,
             moves' = moves, ver' = ver, old_ver' \in [Threads -> 0 .. MaxMoves]
      PROVE  Versions'
  <2>1. \A u \in Threads : job'[u].op = "move" /\ pc'[u] # "unlock" =>
          job'[u] = job[u] /\ pc[u] # "unlock"
    BY <1>4 DEF CallsAreTyped
  <2> QED
    BY <1>4, <2>1, VersionsStay
<1>5. ASSUME job' = [job EXCEPT ![t] = NoJob], NEW at, pc' = [pc EXCEPT ![t] = at],
             UNCHANGED <<moves, ver, old_ver>>
      PROVE  Versions'
  <2>1. \A u \in Threads : job'[u].op = "move" /\ pc'[u] # "unlock" =>
          job'[u] = job[u] /\ pc[u] # "unlock"
    BY <1>5 DEF CallsAreTyped, NoJob
  <2> QED
    BY <1>5, <2>1, VersionsStay DEF Versions
<1>6. CASE Begin(t)
  <2>1. PICK c \in Containers, i \in Iterators :
          Enter(t, [NoJob EXCEPT !.op = "register", !.c = c, !.i = i], "version")
    BY <1>6 DEF Begin
  <2>2. [NoJob EXCEPT !.op = "register", !.c = c, !.i = i].op # "move"
    BY DEF NoJob
  <2>3. UNCHANGED <<moves, ver, old_ver>>
    BY <1>6 DEF Begin
  <2> QED
    BY <1>3, <2>1, <2>2, <2>3
<1>7. CASE End(t)
  <2>1. PICK i \in Iterators :
          \/ UNCHANGED <<pc, job>>
          \/ Enter(t, [NoJob EXCEPT !.op = "release", !.c = home[i], !.i = i], "version")
    BY <1>7 DEF End
  <2>2. [NoJob EXCEPT !.op = "release", !.c = home[i], !.i = i].op # "move"
    BY DEF NoJob
  <2>3. UNCHANGED <<moves, ver, old_ver>>
    BY <1>7 DEF End
  <2>4. CASE UNCHANGED <<pc, job>>
    BY <2>3, <2>4, VersionsStay DEF Versions
  <2> QED
    BY <1>3, <2>1, <2>2, <2>3, <2>4
<1>8. CASE Change(t)
  <2>1. PICK c \in Containers :
          \/ Enter(t, [NoJob EXCEPT !.op = "clear", !.c = c], "cleanup")
          \/ Enter(t, [NoJob EXCEPT !.op = "invalidate", !.c = c], "version")
    BY <1>8 DEF Change
  <2>2. /\ [NoJob EXCEPT !.op = "clear", !.c = c].op # "move"
        /\ [NoJob EXCEPT !.op = "invalidate", !.c = c].op # "move"
    BY DEF NoJob
  <2>3. UNCHANGED <<moves, ver, old_ver>>
    BY <1>8 DEF Change
  <2> QED
    BY <1>3, <2>1, <2>2, <2>3
<1>9. CASE Version(t)
  <2>1. /\ pc[t] = "version" /\ pc' = [pc EXCEPT ![t] = "acquire"] /\ job' = job
        /\ old_ver' = [old_ver EXCEPT ![t] = ver[Target(t)]] /\ UNCHANGED <<moves, ver>>
    BY <1>9 DEF Version, Goto
  <2>2. Target(t) \in Containers
    BY <2>1 DEF Target, CallsAreTyped
  <2>3. old_ver' \in [Threads -> 0 .. MaxMoves]
    BY <2>1, <2>2 DEF Versions
  <2> QED
    BY <1>4, <2>1, <2>3
<1>10. CASE CheckVersion(t)
  <2>1. /\ pc[t] = "assert" /\ pc' = [pc EXCEPT ![t] = "locked"] /\ job' = job
        /\ old_ver' = [old_ver EXCEPT ![t] = 0] /\ UNCHANGED <<moves, ver>>
    BY <1>10 DEF CheckVersion, Goto
  <2>2. old_ver' \in [Threads -> 0 .. MaxMoves]
    BY <2>1, IteratorAssumption DEF Versions
  <2> QED
    BY <1>4, <2>1, <2>2
<1>11. CASE \/ Acquire(t) \/ Register(t) \/ Release(t) \/ InvalidateDone(t)
            \/ MoveProxies(t) \/ CleanupLock(t) \/ ClearList(t)
  <2>1. /\ pc[t] # "unlock" /\ job' = job /\ \E at : pc' = [pc EXCEPT ![t] = at]
        /\ UNCHANGED <<moves, ver, old_ver>>
    BY <1>11 DEF Acquire, Register, Release, InvalidateDone, MoveProxies, CleanupLock,
       ClearList, Goto
  <2> QED
    BY <1>4, <2>1 DEF Versions
<1>12. CASE Invalidate(t) \/ Detach(t)
  BY <1>12, VersionsStay DEF Invalidate, Detach, Versions
<1>13. CASE Unlock(t) \/ CleanupUnlock(t)
  <2>1. /\ \/ job' = [job EXCEPT ![t] = NoJob]
           \/ (job' = job /\ pc[t] # "unlock")
        /\ \E at : pc' = [pc EXCEPT ![t] = at]
        /\ UNCHANGED <<moves, ver, old_ver>>
    BY <1>13 DEF Unlock, CleanupUnlock, Goto
  <2> QED
    BY <1>4, <1>5, <2>1 DEF Versions
<1> QED
  BY <1>1, <1>2, <1>6, <1>7, <1>8, <1>9, <1>10, <1>11, <1>12, <1>13 DEF Call, Step

\* A call that destroys an iterator which has been taken off its container.
Detached(t) == job[t].op = "release" /\ proxy[job[t].i] = NoNode

\* A version that has been looked at is still the container's, or does not matter.
Seen == \A t \in Threads : pc[t] \in {"acquire", "assert"} =>
          old_ver[t] = ver[Target(t)] \/ Detached(t)

\* A step of one thread leaves what the others have looked at.
LEMMA OthersDetached ==
  ASSUME CallsAreTyped, CallsInv, Kinds, NEW t \in Threads, Call(t) \/ Step(t),
         NEW u \in Threads \ {t}, Detached(u)
  PROVE  proxy'[job[u].i] = NoNode
<1>1. job[u].i \in Iterators /\ job[u].i # job[t].i /\ proxy[job[u].i] = NoNode
  BY IteratorAssumption DEF CallsInv, CallInv, ApartInv, Detached
<1>2. CASE proxy' = proxy
  BY <1>1, <1>2
<1>3. CASE Register(t) \/ Release(t)
  <2>1. \E n : proxy' = [proxy EXCEPT ![job[t].i] = n]
    BY <1>3 DEF Register, Release
  <2> QED
    BY <1>1, <2>1 DEF Kinds
<1>4. CASE Invalidate(t) \/ Detach(t)
  <2>1. proxy' = proxy \/ \E i : proxy' = [proxy EXCEPT ![i] = NoNode]
    BY <1>4 DEF Invalidate, Detach
  <2> QED
    BY <1>1, <2>1 DEF Kinds
<1>5. CASE Call(t)
  BY <1>2, <1>5 DEF Call, Begin, End, Change, MoveAssign, mem
<1>6. CASE \/ Version(t) \/ Acquire(t) \/ CheckVersion(t) \/ Unlock(t) \/ InvalidateDone(t)
           \/ MoveProxies(t) \/ RaiseVersions(t) \/ CleanupLock(t) \/ ClearList(t)
           \/ CleanupUnlock(t)
  BY <1>2, <1>6 DEF Version, Acquire, CheckVersion, Unlock, InvalidateDone, MoveProxies,
     RaiseVersions, CleanupLock, ClearList, CleanupUnlock, mem
<1> QED
  BY <1>3, <1>4, <1>5, <1>6 DEF Step

\* A step of the thread t changes what no other thread has looked at.
LEMMA SeenElsewhere ==
  ASSUME CallsAreTyped, CallsInv, Kinds, Seen, NEW t \in Threads, Call(t) \/ Step(t),
         \A u \in Threads \ {t} : /\ pc'[u] = pc[u] /\ job'[u] = job[u]
                                  /\ old_ver'[u] = old_ver[u],
         \A u \in Threads \ {t} : pc[u] \in {"acquire", "assert"} =>
           ver'[Target(u)] = ver[Target(u)] \/ Detached(u),
         pc'[t] \in {"acquire", "assert"} => old_ver'[t] = ver'[Target(t)'] \/ Detached(t)'
  PROVE  Seen'
<1>1. ASSUME NEW u \in Threads, pc'[u] \in {"acquire", "assert"}
      PROVE  old_ver'[u] = ver'[Target(u)'] \/ Detached(u)'
  <2>1. CASE u = t
    BY <1>1, <2>1
  <2>2. CASE u # t
    <3>1. Target(u)' = Target(u) /\ job'[u] = job[u]
      BY <2>2 DEF Target
    <3>2. Detached(u) => Detached(u)'
      BY <2>2, <3>1, OthersDetached DEF Detached
    <3> QED
      BY <1>1, <2>2, <3>1, <3>2 DEF Seen
  <2> QED
    BY <2>1, <2>2
<1> QED
  BY <1>1 DEF Seen

\* Who has looked at the version of a container that is being moved destroys an
\* iterator that is detached: it would have an iterator of the source, or change
\* one of the containers itself.
LEMMA RaiseVersionsSeen ==
  ASSUME CallsAreTyped, CallsInv, Kinds, Versions, Seen, NEW t \in Threads,
         RaiseVersions(t),
         \A i \in Iterators : home[i] = job[t].c => proxy[i] = NoNode
  PROVE  Seen'
<1>0. PICK c, from : c = job[t].c /\ from = job[t].from
  OBVIOUS
<1>1. /\ job[t].op = "move" /\ pc[t] = "raise" /\ pc' = [pc EXCEPT ![t] = "unlock"]
      /\ job' = job /\ old_ver' = old_ver
      /\ ver' = [ver EXCEPT ![c] = @ + 1, ![from] = @ + 1]
  BY <1>0 DEF RaiseVersions, Goto, CallsInv, CallInv
<1>2. \A d \in Containers \ {c, from} : ver'[d] = ver[d]
  BY <1>1 DEF Versions
<1>3. ~Shared(from)
  BY <1>0, <1>1 DEF CallsInv, CallInv
<1>4. ASSUME NEW u \in Threads \ {t}, pc[u] \in {"acquire", "assert"}
      PROVE  ver'[Target(u)] = ver[Target(u)] \/ Detached(u)
  <2>1. Target(u) \in Containers /\ job[u].op # "none"
    BY <1>4 DEF Target, CallsAreTyped, CallsInv, CallInv
  <2>2. CASE job[u].op = "release"
    <3>1. job[u].i \in Iterators /\ home[job[u].i] = Target(u)
      BY <2>2 DEF CallsInv, CallInv, Target
    <3>2. Target(u) # from
      BY <1>3, <3>1 DEF Shared
    <3>3. Target(u) = c => Detached(u)
      BY <1>0, <2>2, <3>1 DEF Detached
    <3> QED
      BY <1>2, <2>1, <3>2, <3>3
  <2>3. CASE job[u].op \in {"clear", "invalidate", "move"}
    <3>1. Changer(u, Target(u))
      BY <2>3 DEF Changer, Target
    <3>2. ~Changer(t, Target(u))
      BY <1>4, <2>1, <3>1 DEF CallsInv, ApartInv
    <3>3. Target(u) \notin {c, from}
      BY <1>0, <1>1, <3>2 DEF Changer
    <3> QED
      BY <1>2, <2>1, <3>3
  <2>4. CASE job[u].op = "register"
    <3>1. ApartInv(u, t) /\ Target(u) = job[u].c
      BY <2>4 DEF CallsInv, Target
    <3>2. ~Changer(t, Target(u))
      BY <2>4, <3>1 DEF ApartInv
    <3>3. Target(u) \notin {c, from}
      BY <1>0, <1>1, <3>2 DEF Changer
    <3> QED
      BY <1>2, <2>1, <3>3
  <2> QED
    BY <2>1, <2>2, <2>3, <2>4 DEF CallsAreTyped, Jobs
<1>5. /\ pc'[t] = "unlock"
      /\ \A u \in Threads \ {t} : pc'[u] = pc[u] /\ job'[u] = job[u]
                                /\ old_ver'[u] = old_ver[u]
  BY <1>1 DEF CallsAreTyped
<1>6. Step(t)
  BY DEF Step
<1> QED
  BY <1>4, <1>5, <1>6, SeenElsewhere

\* Every step leaves what the other calls have looked at.
LEMMA NextSeen ==
  ASSUME CallsAreTyped, CallsInv, Kinds, Versions, Seen, NEW t \in Threads,
         Call(t) \/ Step(t),
         RaiseVersions(t) => \A i \in Iterators : home[i] = job[t].c => proxy[i] = NoNode
  PROVE  Seen'
<1>1. CASE RaiseVersions(t)
  BY <1>1, RaiseVersionsSeen
<1>2. ASSUME NEW j, NEW at \in {"version", "cleanup"}, Enter(t, j, at),
             UNCHANGED <<ver, old_ver>>
      PROVE  Seen'
  <2>1. /\ pc'[t] \notin {"acquire", "assert"}
        /\ \A u \in Threads \ {t} : pc'[u] = pc[u] /\ job'[u] = job[u]
    BY <1>2 DEF Enter, CallsAreTyped
  <2> QED
    BY <1>2, <2>1, SeenElsewhere
<1>3. ASSUME UNCHANGED <<pc, job, ver, old_ver>>, pc[t] \notin {"acquire", "assert"}
      PROVE  Seen'
  BY <1>3, SeenElsewhere
<1>4. CASE Call(t)
  BY <1>2, <1>3, <1>4 DEF Call, Begin, End, Change, MoveAssign, Enter
<1>5. CASE Version(t)
  <2>1. /\ pc' = [pc EXCEPT ![t] = "acquire"] /\ job' = job /\ ver' = ver
        /\ old_ver' = [old_ver EXCEPT ![t] = ver[Target(t)]]
    BY <1>5 DEF Version, Goto
  <2>2. /\ old_ver'[t] = ver[Target(t)] /\ Target(t)' = Target(t)
        /\ \A u \in Threads \ {t} : pc'[u] = pc[u] /\ old_ver'[u] = old_ver[u]
    BY <2>1 DEF CallsAreTyped, Versions, Target
  <2> QED
    BY <2>1, <2>2, SeenElsewhere
<1>6. CASE Acquire(t)
  <2>1. /\ pc[t] = "acquire" /\ pc' = [pc EXCEPT ![t] = "assert"]
        /\ UNCHANGED <<job, ver, old_ver, proxy>>
    BY <1>6 DEF Acquire, Goto, mem
  <2>2. /\ Target(t)' = Target(t) /\ (Detached(t)' <=> Detached(t))
        /\ old_ver[t] = ver[Target(t)] \/ Detached(t)
        /\ \A u \in Threads \ {t} : pc'[u] = pc[u]
    BY <2>1 DEF CallsAreTyped, Seen, Target, Detached
  <2> QED
    BY <2>1, <2>2, SeenElsewhere
<1>7. CASE CheckVersion(t)
  <2>1. /\ pc' = [pc EXCEPT ![t] = "locked"] /\ job' = job /\ ver' = ver
        /\ old_ver' = [old_ver EXCEPT ![t] = 0]
    BY <1>7 DEF CheckVersion, Goto
  <2>2. /\ pc'[t] = "locked"
        /\ \A u \in Threads \ {t} : pc'[u] = pc[u] /\ old_ver'[u] = old_ver[u]
    BY <2>1 DEF CallsAreTyped, Versions
  <2> QED
    BY <2>1, <2>2, SeenElsewhere
<1>8. CASE \/ Register(t) \/ Release(t) \/ InvalidateDone(t) \/ MoveProxies(t)
           \/ CleanupLock(t) \/ ClearList(t) \/ Unlock(t) \/ CleanupUnlock(t)
  <2>1. /\ UNCHANGED <<ver, old_ver>>
        /\ \/ job' = job
           \/ job' = [job EXCEPT ![t] = NoJob]
        /\ \E at \in {"raise", "unlock", "detach", "cleaned", "version", "idle"} :
             pc' = [pc EXCEPT ![t] = at]
    BY <1>8 DEF Register, Release, InvalidateDone, MoveProxies, CleanupLock, ClearList,
       Unlock, CleanupUnlock, Goto
  <2>2. /\ pc'[t] \notin {"acquire", "assert"}
        /\ \A u \in Threads \ {t} : pc'[u] = pc[u] /\ job'[u] = job[u]
    BY <2>1 DEF CallsAreTyped
  <2> QED
    BY <2>1, <2>2, SeenElsewhere
<1>9. CASE Invalidate(t) \/ Detach(t)
  BY <1>3, <1>9 DEF Invalidate, Detach
<1> QED
  BY <1>1, <1>4, <1>5, <1>6, <1>7, <1>8, <1>9 DEF Step

-----------------------------------------------------------------------------
(* The invariant, put together.                                             *)

\* A thread has cleared the list of its container, and in a move assignment not
\* ended yet.
Emptied(t) == Cleared(t) \/ (job[t].op = "move" /\ pc[t] = "raise")

\* The lists of those containers are empty: a move hands over an empty list.
ClearedEmpty == \A t \in Threads : Emptied(t) => list[job[t].c].size = 0

RegistrationInv ==
  /\ MutexInv /\ Kinds /\ Versions /\ CallsInv /\ Seen /\ ClearedEmpty /\ ~wild
  /\ \E S, K : Lists(S, K)

\* A list's first node is a node.
LEMMA FirstIsNode ==
  ASSUME NEW S, NEW K, Lists(S, K), NEW c \in Containers
  PROVE  {list[c].first, list[c].second} \subseteq Nodes \union {NoNode}
<1>1. Chain(heap, list[c], S[c])
  BY DEF Lists
<1>2. list[c].size # 0 => 1 \in 1 .. list[c].size /\ list[c].size \in 1 .. list[c].size
  BY <1>1 DEF Chain
<1> QED
  BY <1>1, <1>2 DEF Chain

\* The steps that change no list, no heap and no proxy.
LEMMA OtherKinds ==
  ASSUME CallsAreTyped, Kinds, NEW S, NEW K, Lists(S, K), NEW t \in Threads,
         \/ Call(t) \/ Version(t) \/ Acquire(t) \/ InvalidateDone(t) \/ RaiseVersions(t)
         \/ Unlock(t) \/ CleanupUnlock(t) \/ CheckVersion(t) \/ CleanupLock(t)
  PROVE  Kinds' /\ wild' = wild
<1>1. UNCHANGED <<list, heap, proxy, wild>>
  BY DEF Call, Begin, End, Change, MoveAssign, Version, Acquire, InvalidateDone,
     RaiseVersions, Unlock, CleanupUnlock, CheckVersion, CleanupLock, mem
<1>2. aborted' \in BOOLEAN
  BY DEF Kinds, Call, Begin, End, Change, MoveAssign, Version, Acquire, InvalidateDone,
     RaiseVersions, Unlock, CleanupUnlock, CheckVersion, CleanupLock
<1>3. cursor' \in [Threads -> Nodes \union {NoNode}]
  <2>1. CASE CheckVersion(t)
    <3>1. Target(t) \in Containers
      BY <2>1 DEF CheckVersion, CallsAreTyped, Target
    <3>2. list[Target(t)].first \in Nodes \union {NoNode}
      BY <3>1, FirstIsNode
    <3> QED
      BY <2>1, <3>2 DEF CheckVersion, Kinds
  <2>2. CASE CleanupLock(t)
    <3>1. job[t].c \in Containers
      BY <2>2 DEF CleanupLock, CallsAreTyped
    <3>2. list[job[t].c].first \in Nodes \union {NoNode}
      BY <3>1, FirstIsNode
    <3> QED
      BY <2>2, <3>2 DEF CleanupLock, Kinds
  <2>3. CASE ~CheckVersion(t) /\ ~CleanupLock(t)
    <3>1. cursor' = cursor
      BY <2>3 DEF Call, Begin, End, Change, MoveAssign, Version, Acquire, InvalidateDone,
         RaiseVersions, Unlock, CleanupUnlock
    <3> QED
      BY <3>1 DEF Kinds
  <2> QED
    BY <2>1, <2>2, <2>3
<1> QED
  BY <1>1, <1>2, <1>3 DEF Kinds

\* No list holds a node at the start.
LEMMA InitRegistration == Init => RegistrationInv
<1> SUFFICES ASSUME Init PROVE RegistrationInv
  OBVIOUS
<1>1. MutexInv
  BY InitMutex
<1>2. Kinds
  BY DEF Init, Kinds, IsHeap, EmptyHeap
<1>3. Versions
  <2>1. 0 \in 0 .. MaxMoves
    BY IteratorAssumption
  <2>2. \A t \in Threads : job[t].op # "move"
    BY DEF Init, NoJob
  <2> QED
    BY <2>1, <2>2 DEF Init, Versions
<1>4. CallsInv
  BY DEF Init, CallsInv, CallInv, ApartInv, Changer, NoJob
<1>5. Seen
  BY DEF Init, Seen
<1>6. PICK s : s \in [1 .. 0 -> Nodes]
  <2>1. [k \in 1 .. 0 |-> NoNode] \in [1 .. 0 -> Nodes]
    OBVIOUS
  <2> QED
    BY <2>1
<1> DEFINE S == [c \in Containers |-> s]  K == [c \in Containers |-> 1]
<1>7. \A c \in Containers : list[c] = EmptyList /\ list[c].size = 0 /\ S[c] = s /\ K[c] = 1
  BY DEF Init, EmptyList
<1> HIDE DEF S, K
<1>8. ASSUME NEW c \in Containers
      PROVE  Chain(heap, list[c], S[c]) /\ Registered(c, S[c], K[c]) /\ Cursors(c, S[c], K[c])
  <2>1. Chain(heap, list[c], S[c])
    BY <1>6, <1>7, EmptyChain
  <2>2. 1 \in 1 .. list[c].size + 1 /\ \A j \in 1 .. list[c].size : FALSE
    BY <1>7
  <2>3. Registered(c, S[c], K[c])
    BY <1>7, <2>2 DEF Init, Registered
  <2>4. Cursors(c, S[c], K[c])
    BY <1>7, <2>2 DEF Init, Cursors, Detaching, Walking
  <2> QED
    BY <2>1, <2>3, <2>4
<1>9. Lists(S, K)
  <2>1. \A c \in Containers : \A j \in 1 .. list[c].size : FALSE
    BY <1>7
  <2> QED
    BY <1>8, <2>1 DEF Lists
<1>10. ClearedEmpty
  BY DEF Init, ClearedEmpty, Emptied, Cleared, NoJob
<1> QED
  BY <1>1, <1>2, <1>3, <1>4, <1>5, <1>9, <1>10 DEF RegistrationInv, Init

-----------------------------------------------------------------------------
(* What clearing a container leaves.                                        *)

\* A thread that has cleared a container is the only one to change it.
LEMMA ClearedIsApart ==
  ASSUME RegistrationInv, NEW t \in Threads, NEW u \in Threads, t # u, Emptied(u)
  PROVE  /\ job[u].c \in Containers
         /\ job[t].op \in {"register", "invalidate", "clear"} => job[t].c # job[u].c
         /\ job[t].op = "move" => job[u].c \notin {job[t].c, job[t].from}
<1>1. CallInv(u) /\ ApartInv(t, u) /\ job[u].c \in Containers
  BY CallHasContainer DEF RegistrationInv, MutexInv, CallsAreTyped, CallsInv, Emptied, Cleared
<1>2. Changer(u, job[u].c)
  BY <1>1 DEF CallInv, Emptied, Cleared, Changer
<1> QED
  BY <1>1, <1>2 DEF ApartInv, Changer

\* Nothing is registered with a container whose list is empty.
LEMMA EmptyIsUnused ==
  ASSUME RegistrationInv, NEW c \in Containers, list[c].size = 0,
         NEW i \in Iterators, home[i] = c
  PROVE  proxy[i] = NoNode
<1> PICK S, K : Lists(S, K)
  BY DEF RegistrationInv
<1>1. K[c] \in 1 .. 1 /\ ~ \E j \in K[c] .. 0 : TRUE
  BY DEF Lists, Registered
<1> QED
  BY <1>1 DEF Lists, Registered

\* A thread that enters a call.
LEMMA Entered ==
  ASSUME CallsAreTyped, NEW t \in Threads, NEW call, NEW at, Enter(t, call, at)
  PROVE  /\ job'[t] = call /\ pc'[t] = at
         /\ \A u \in Threads \ {t} : pc'[u] = pc[u] /\ job'[u] = job[u]
BY DEF CallsAreTyped, Enter

\* A step of one thread leaves the calls of the others alone.
LEMMA OwnCallOnly ==
  ASSUME CallsAreTyped, NEW t \in Threads, Call(t) \/ Step(t),
         NEW u \in Threads, t # u
  PROVE  pc'[u] = pc[u] /\ job'[u] = job[u]
<1>1. ASSUME NEW at, Goto(t, at) PROVE pc'[u] = pc[u]
  BY <1>1 DEF Goto, CallsAreTyped
<1>2. job' = [job EXCEPT ![t] = NoJob] => job'[u] = job[u]
  BY DEF CallsAreTyped
<1>3. ASSUME NEW call, NEW at, Enter(t, call, at) PROVE pc'[u] = pc[u] /\ job'[u] = job[u]
  BY <1>3, Entered
<1>4. CASE Begin(t) \/ End(t)
  BY <1>3, <1>4 DEF Begin, End
<1>5. CASE Change(t) \/ MoveAssign(t)
  BY <1>3, <1>5 DEF Change, MoveAssign
<1>6. CASE Version(t) \/ Acquire(t) \/ CheckVersion(t) \/ Register(t) \/ Release(t)
  BY <1>1, <1>6 DEF Version, Acquire, CheckVersion, Register, Release
<1>7. CASE \/ Invalidate(t) \/ InvalidateDone(t) \/ MoveProxies(t) \/ RaiseVersions(t)
           \/ Detach(t)
  BY <1>1, <1>7 DEF Invalidate, InvalidateDone, MoveProxies, RaiseVersions, Detach
<1>8. CASE Unlock(t) \/ CleanupLock(t) \/ ClearList(t) \/ CleanupUnlock(t)
  BY <1>1, <1>2, <1>8 DEF Unlock, CleanupLock, ClearList, CleanupUnlock
<1> QED
  BY <1>4, <1>5, <1>6, <1>7, <1>8 DEF Call, Step

\* The thread that makes a step was in the same call, if it has cleared a container.
LEMMA OwnCleared ==
  ASSUME RegistrationInv, NEW t \in Threads, Call(t) \/ Step(t), Emptied(t)',
         ~ClearList(t), ~MoveProxies(t)
  PROVE  Emptied(t) /\ job'[t] = job[t] /\ list' = list
<1> USE DEF RegistrationInv, MutexInv, CallsAreTyped
<1>1. CASE Call(t)
  <2>1. ~(Begin(t) \/ Change(t) \/ MoveAssign(t))
    <3>1. ~Begin(t)
      <4> SUFFICES ASSUME NEW c \in Containers, NEW i \in Iterators,
                          Enter(t, [NoJob EXCEPT !.op = "register", !.c = c, !.i = i],
                                "version")
                   PROVE  FALSE
        BY DEF Begin
      <4>0. CallsAreTyped
        OBVIOUS
      <4>1. /\ job'[t] = [NoJob EXCEPT !.op = "register", !.c = c, !.i = i]
            /\ pc'[t] = "version"
        BY <4>0, Entered, Zenon
      <4>2. job'[t].op = "register"
        BY <4>1 DEF NoJob
      <4> QED
        BY <4>1, <4>2 DEF Emptied, Cleared
    <3>2. ~Change(t)
      <4> SUFFICES ASSUME NEW c \in Containers,
                          \/ Enter(t, [NoJob EXCEPT !.op = "clear", !.c = c], "cleanup")
                          \/ Enter(t, [NoJob EXCEPT !.op = "invalidate", !.c = c], "version")
                   PROVE  FALSE
        BY DEF Change
      <4>0. CallsAreTyped
        OBVIOUS
      <4>1. CASE Enter(t, [NoJob EXCEPT !.op = "clear", !.c = c], "cleanup")
        <5>1. pc'[t] = "cleanup"
          BY <4>0, <4>1, Entered, Zenon
        <5> QED
          BY <5>1 DEF Emptied, Cleared
      <4>2. CASE Enter(t, [NoJob EXCEPT !.op = "invalidate", !.c = c], "version")
        <5>1. /\ job'[t] = [NoJob EXCEPT !.op = "invalidate", !.c = c]
              /\ pc'[t] = "version"
          BY <4>0, <4>2, Entered, Zenon
        <5>2. job'[t].op = "invalidate"
          BY <5>1 DEF NoJob
        <5> QED
          BY <5>1, <5>2 DEF Emptied, Cleared
      <4> QED
        BY <4>1, <4>2
    <3>3. ~MoveAssign(t)
      <4> SUFFICES ASSUME NEW c, NEW from,
                          Enter(t, [NoJob EXCEPT !.op = "move", !.c = c, !.from = from],
                                "cleanup")
                   PROVE  FALSE
        BY DEF MoveAssign
      <4>1. pc'[t] = "cleanup"
        BY Entered
      <4> QED
        BY <4>1 DEF Emptied, Cleared
    <3> QED
      BY <3>1, <3>2, <3>3
  <2>2. CASE End(t)
    <3>1. CASE UNCHANGED <<pc, job>>
      BY <2>2, <3>1 DEF End, Emptied, Cleared
    <3>2. CASE ~UNCHANGED <<pc, job>>
      BY <2>2, <3>2 DEF End, Enter, NoJob, Emptied, Cleared
    <3> QED
      BY <3>1, <3>2
  <2> QED
    BY <1>1, <2>1, <2>2 DEF Call
<1>2. CASE Version(t) \/ Acquire(t) \/ CheckVersion(t) \/ CleanupUnlock(t)
  <2>1. CASE Version(t) \/ Acquire(t) \/ CheckVersion(t)
    BY <2>1 DEF Version, Acquire, CheckVersion, Goto, Emptied, Cleared, mem
  <2>2. CASE CleanupUnlock(t)
    <3>1. pc[t] = "cleaned" /\ list' = list
      BY <2>2 DEF CleanupUnlock, mem
    <3>2. CASE job[t].op = "move"
      BY <2>2, <3>1, <3>2 DEF CleanupUnlock, Emptied, Cleared
    <3>3. CASE job[t].op # "move"
      <4>1. pc'[t] = "idle" /\ job'[t] = NoJob
        BY <2>2, <3>3 DEF CleanupUnlock, Goto
      <4> QED
        BY <4>1 DEF Emptied, Cleared, NoJob
    <3> QED
      BY <3>2, <3>3
  <2> QED
    BY <1>2, <2>1, <2>2
<1>3. ~(Register(t) \/ Release(t) \/ InvalidateDone(t) \/ RaiseVersions(t) \/ Unlock(t))
  BY DEF Register, Release, InvalidateDone, RaiseVersions, Unlock, Goto, Emptied, Cleared
<1>4. ~(CleanupLock(t) \/ Detach(t) \/ Invalidate(t))
  BY DEF CleanupLock, Detach, Invalidate, Goto, Emptied, Cleared
<1> QED
  BY <1>1, <1>2, <1>3, <1>4 DEF Step

\* Nobody else fills it.
LEMMA OthersCleared ==
  ASSUME RegistrationInv, NEW t \in Threads, Call(t) \/ Step(t),
         NEW u \in Threads, t # u, Emptied(u)'
  PROVE  list'[job'[u].c].size = 0
<1>1. pc'[u] = pc[u] /\ job'[u] = job[u]
  BY OwnCallOnly DEF RegistrationInv, MutexInv
<1>2. Emptied(u) /\ list[job[u].c].size = 0
  BY <1>1 DEF Emptied, Cleared, ClearedEmpty, RegistrationInv
<1>3. PICK d : d = job[u].c
  OBVIOUS
<1>4. /\ d \in Containers /\ list[d].size = 0
      /\ job[t].op \in {"register", "invalidate", "clear"} => job[t].c # d
      /\ job[t].op = "move" => d \notin {job[t].c, job[t].from}
  BY <1>2, <1>3, ClearedIsApart
<1>5. list = [c \in Containers |-> list[c]]
  BY DEF RegistrationInv, Kinds
<1>6. CASE list' = list
  BY <1>1, <1>3, <1>4, <1>6
<1>7. CASE Register(t) \/ Invalidate(t) \/ MoveProxies(t) \/ ClearList(t)
  <2>1. pc[t] = "detach" => job[t].op \in {"clear", "move"}
    BY DEF RegistrationInv, CallsInv, CallInv
  <2>2. list'[d] = list[d]
    BY <1>4, <1>5, <1>7, <2>1 DEF Register, Invalidate, MoveProxies, ClearList, Unlink
  <2> QED
    BY <1>1, <1>3, <1>4, <2>2
<1>8. CASE Release(t)
  <2>1. job[t].i \in Iterators /\ home[job[t].i] = job[t].c
    BY <1>8 DEF Release, RegistrationInv, CallsInv, CallInv
  <2>2. CASE job[t].c = d
    <3>1. proxy[job[t].i] = NoNode
      BY <1>4, <2>1, <2>2, EmptyIsUnused
    <3> QED
      BY <1>6, <1>8, <3>1 DEF Release
  <2>3. CASE job[t].c # d
    <3>1. list'[d] = list[d]
      BY <1>4, <1>5, <1>8, <2>3 DEF Release, Unlink
    <3> QED
      BY <1>1, <1>3, <1>4, <3>1
  <2> QED
    BY <2>2, <2>3
<1>9. CASE Call(t)
  BY <1>6, <1>9 DEF Call, Begin, End, Change, MoveAssign, mem
<1>10. CASE \/ Version(t) \/ Acquire(t) \/ CheckVersion(t) \/ Unlock(t) \/ InvalidateDone(t)
            \/ RaiseVersions(t) \/ CleanupLock(t) \/ Detach(t) \/ CleanupUnlock(t)
  BY <1>6, <1>10 DEF Version, Acquire, CheckVersion, Unlock, InvalidateDone,
     RaiseVersions, CleanupLock, Detach, CleanupUnlock, mem
<1> QED
  BY <1>7, <1>8, <1>9, <1>10 DEF Step

\* A container is cleared by its thread and stays so.
LEMMA NextCleared ==
  ASSUME RegistrationInv, Next, wild' = wild
  PROVE  ClearedEmpty'
<1> PICK t \in Threads : Call(t) \/ Step(t)
  BY DEF Next
<1> SUFFICES ASSUME NEW u \in Threads, Emptied(u)'
             PROVE  list'[job'[u].c].size = 0
  BY DEF ClearedEmpty
<1>1. CASE u # t
  BY <1>1, OthersCleared
<1>2. CASE u = t /\ ~ClearList(t) /\ ~MoveProxies(t)
  BY <1>2, OwnCleared DEF ClearedEmpty, RegistrationInv
<1>3. CASE u = t /\ ClearList(t)
  <2>1. ~wild' /\ list = [c \in Containers |-> list[c]] /\ job[t].c \in Containers
    BY <1>3 DEF RegistrationInv, MutexInv, CallsAreTyped, Kinds, ClearList
  <2>2. job' = job /\ list' = [list EXCEPT ![job[t].c] = EmptyList]
    BY <1>3, <2>1 DEF ClearList
  <2> QED
    BY <1>3, <2>1, <2>2 DEF EmptyList
<1>4. CASE u = t /\ MoveProxies(t)
  <2>1. PICK S, K : Lists(S, K)
    BY DEF RegistrationInv
  <2>2. job[t].op = "move" /\ pc[t] = "locked" /\ job' = job
    BY <1>4 DEF MoveProxies
  <2>3. list[job[t].c].size = 0
    BY <2>2 DEF RegistrationInv, ClearedEmpty, Emptied, Cleared
  <2>4. list'[job[t].c].size = 0
    BY <1>4, <2>1, <2>3, MoveProxiesLists DEF RegistrationInv, MutexInv
  <2> QED
    BY <1>4, <2>2, <2>4
<1> QED
  BY <1>1, <1>2, <1>3, <1>4

-----------------------------------------------------------------------------
(* The invariant is inductive.                                              *)

\* Every step keeps it, if no container with iterators is moved from.
LEMMA NextRegistration ==
  ASSUME ~FreeMoves, RegistrationInv, Next
  PROVE  RegistrationInv'
<1> USE DEF RegistrationInv, MutexInv
<1> PICK t \in Threads : Call(t) \/ Step(t)
  BY DEF Next
<1> PICK S, K : Lists(S, K)
  OBVIOUS
<1>1. MutexInv'
  BY NextTyped, NextHolder
<1>2. CallsInv'
  BY BeginCalls, EndCalls, ChangeCalls, StepCalls DEF Call, Kinds
<1>3. Versions'
  BY NextVersions
<1>4. Seen'
  <2>1. ASSUME RaiseVersions(t)
        PROVE  \A i \in Iterators : home[i] = job[t].c => proxy[i] = NoNode
    <3>1. job[t].op = "move" /\ pc[t] = "raise"
      BY <2>1 DEF RaiseVersions, CallsInv, CallInv
    <3>2. job[t].c \in Containers /\ list[job[t].c].size = 0
      BY <3>1 DEF CallsAreTyped, ClearedEmpty, Emptied
    <3> QED
      BY <3>2, EmptyIsUnused
  <2> QED
    BY <2>1, NextSeen
<1>5. Kinds' /\ wild' = wild /\ \E S2, K2 : Lists(S2, K2)'
  <2>1. CASE \/ Call(t) \/ Version(t) \/ Acquire(t) \/ InvalidateDone(t)
             \/ RaiseVersions(t) \/ Unlock(t) \/ CleanupUnlock(t)
    BY <2>1, OtherKinds, CallLists
  <2>2. CASE CheckVersion(t)
    BY <2>2, OtherKinds, CheckVersionLists
  <2>3. CASE CleanupLock(t)
    BY <2>3, OtherKinds, CleanupLockLists
  <2>4. CASE Register(t)
    BY <2>4, RegisterLists DEF Register
  <2>5. CASE Release(t) \/ Invalidate(t) \/ Detach(t) \/ ClearList(t)
    BY <2>5, ReleaseLists, InvalidateLists, DetachLists, ClearListLists
  <2>6. CASE MoveProxies(t)
    <3>1. list[job[t].c].size = 0
      BY <2>6 DEF MoveProxies, ClearedEmpty, Emptied, Cleared
    <3> QED
      BY <2>6, <3>1, MoveProxiesLists
  <2> QED
    BY <2>1, <2>2, <2>3, <2>4, <2>5, <2>6 DEF Step
<1>6. ClearedEmpty'
  BY <1>5, NextCleared
<1> QED
  BY <1>1, <1>2, <1>3, <1>4, <1>5, <1>6

\* What a stuttering step leaves alone.
LEMMA StutterRegistration ==
  ASSUME RegistrationInv, UNCHANGED vars
  PROVE  RegistrationInv'
<1> PICK S, K : Lists(S, K)
  BY DEF RegistrationInv
<1>1. MutexInv'
  BY StutterMutex DEF RegistrationInv
<1>2. Lists(S, K)'
  BY DEF vars, Lists, Registered, Cursors, Detaching, Walking
<1>3. CallsInv'
  BY DEF RegistrationInv, vars, CallsInv, CallInv, ApartInv, Changer, Shared
<1>4. Kinds' /\ Versions' /\ Seen' /\ ~wild'
  BY DEF RegistrationInv, vars, Kinds, Versions, Seen, Target, Detached
<1>5. ClearedEmpty'
  BY DEF RegistrationInv, vars, ClearedEmpty, Emptied, Cleared
<1> QED
  BY <1>1, <1>2, <1>3, <1>4, <1>5 DEF RegistrationInv

\* The lists, the calls under way and the walks along the lists keep in step
\* (containers_dbg.cpp:4-104), as long as no container with iterators is moved from.
THEOREM RegistrationInductive == ~FreeMoves => (Spec => []RegistrationInv)
<1> SUFFICES ASSUME ~FreeMoves PROVE Spec => []RegistrationInv
  OBVIOUS
<1>1. RegistrationInv /\ [Next]_vars => RegistrationInv'
  BY NextRegistration, StutterRegistration
<1> QED
  BY InitRegistration, <1>1, PTL DEF Spec

\* The invariant gives the state its shape.
LEMMA InvTyped ==
  ASSUME RegistrationInv
  PROVE  TypeOK
<1> PICK S, K : Lists(S, K)
  BY DEF RegistrationInv
<1>1. MaxMoves \in Nat /\ 0 .. MaxMoves \subseteq 0 .. 2 * MaxMoves
  BY IteratorAssumption
<1>2. ASSUME NEW c \in Containers
      PROVE  /\ list[c].size \in 0 .. Cardinality(Nodes)
             /\ {list[c].first, list[c].second} \subseteq Nodes \union {NoNode}
  <2>1. Chain(heap, list[c], S[c])
    BY DEF Lists
  <2> QED
    BY <2>1, ChainFits, FirstIsNode
<1>3. DOMAIN heap \subseteq Nodes /\ \A n \in DOMAIN heap : heap[n].data \in Iterators
  BY DEF RegistrationInv, Kinds, IsHeap
<1>4. /\ ver \in [Containers -> 0 .. 2 * MaxMoves]
      /\ old_ver \in [Threads -> 0 .. 2 * MaxMoves] /\ moves \in 0 .. MaxMoves
  BY <1>1 DEF RegistrationInv, Versions
<1> QED
  BY <1>2, <1>3, <1>4 DEF RegistrationInv, MutexInv, CallsAreTyped, Kinds, PCs, TypeOK

\* The state has its shape; in particular the unsigned _size of a list stays within
\* the nodes there are (list.h:332-364), for any number of threads, containers,
\* iterators and nodes.
THEOREM RegistrationTypeCorrect == ~FreeMoves => (Spec => []TypeOK)
<1>1. RegistrationInv => TypeOK
  BY InvTyped
<1> QED
  BY <1>1, RegistrationInductive, PTL

\* Nobody is detaching a list whose lock is free.
LEMMA InvRegistered ==
  ASSUME RegistrationInv
  PROVE  RegisteredExactly
<1> PICK S, K : Lists(S, K)
  BY DEF RegistrationInv
<1> SUFFICES ASSUME NEW c \in Containers, ~locked[c]
             PROVE  /\ WellFormed(heap, list[c])
                    /\ Members(heap, list[c]) =
                         {proxy[i] : i \in {j \in Iterators : home[j] = c}} \ {NoNode}
                    /\ \A i \in Iterators :
                         home[i] = c /\ proxy[i] # NoNode => heap[proxy[i]].data = i
  BY DEF RegisteredExactly
<1>1. Chain(heap, list[c], S[c]) /\ Registered(c, S[c], K[c]) /\ Cursors(c, S[c], K[c])
  BY DEF Lists
<1>2. K[c] = 1
  <2>1. \A t \in Threads : ~Detaching(t, c)
    BY DEF RegistrationInv, MutexInv, OneHolder, Detaching, Holds
  <2> QED
    BY <1>1, <2>1 DEF Cursors
<1>3. /\ WellFormed(heap, list[c])
      /\ Members(heap, list[c]) = {S[c][k] : k \in 1 .. list[c].size}
  BY <1>1, ChainIsWellFormed DEF RegistrationInv, Kinds, IsHeap
<1>4. ASSUME NEW j \in 1 .. list[c].size
      PROVE  \E i \in Iterators : home[i] = c /\ proxy[i] = S[c][j] /\ S[c][j] # NoNode
  <2>1. S[c][j] \in Nodes /\ S[c][j] \in DOMAIN heap
    BY <1>1 DEF Chain
  <2>2. heap[S[c][j]].data \in Iterators
    BY <2>1 DEF RegistrationInv, Kinds, IsHeap
  <2>3. home[heap[S[c][j]].data] = c /\ proxy[heap[S[c][j]].data] = S[c][j]
    BY <1>1, <1>2 DEF Registered
  <2> QED
    BY <2>1, <2>2, <2>3, ListAssumption
<1>5. ASSUME NEW i \in Iterators, home[i] = c, proxy[i] # NoNode
      PROVE  \E j \in 1 .. list[c].size : proxy[i] = S[c][j] /\ heap[S[c][j]].data = i
  BY <1>1, <1>2, <1>5 DEF Registered
<1>6. Members(heap, list[c]) =
        {proxy[i] : i \in {j \in Iterators : home[j] = c}} \ {NoNode}
  <2>1. \A n : n \in Members(heap, list[c]) =>
               n \in {proxy[i] : i \in {j \in Iterators : home[j] = c}} \ {NoNode}
    BY <1>3, <1>4
  <2>2. \A n : n \in {proxy[i] : i \in {j \in Iterators : home[j] = c}} \ {NoNode} =>
               n \in Members(heap, list[c])
    BY <1>3, <1>5
  <2> QED
    BY <2>1, <2>2
<1> QED
  BY <1>3, <1>5, <1>6

\* Whenever its lock is free, a container's list registers exactly the live
\* iterators that believe they are registered (containers_dbg.cpp:4-9, 69-87,
\* heap_array.h:697-711), however many threads there are.
THEOREM ListsRegisterExactly == ~FreeMoves => (Spec => []RegisteredExactly)
<1>1. RegistrationInv => RegisteredExactly
  BY InvRegistered
<1> QED
  BY <1>1, RegistrationInductive, PTL

\* No call follows a pointer to a freed node or writes to a dead iterator
\* (containers_dbg.cpp:69-79).
THEOREM NothingFreedIsUsed == ~FreeMoves => (Spec => []NoUseAfterFree)
<1>1. RegistrationInv => NoUseAfterFree
  BY DEF RegistrationInv, NoUseAfterFree
<1> QED
  BY <1>1, RegistrationInductive, PTL

\* A call that a move overtakes between its look at the version and its lock destroys
\* an iterator that the move took off its target; so the assertion of _lock
\* (containers_dbg.cpp:19-33, 69-79) reports no harm, however many threads there are.
THEOREM AlarmIsFalse == ~FreeMoves => (Spec => []StaleVersionIsHarmless)
<1>1. RegistrationInv => StaleVersionIsHarmless
  BY DEF RegistrationInv, Seen, Detached, StaleVersionIsHarmless
<1> QED
  BY <1>1, RegistrationInductive, PTL

\* _release_proxy leaves no iterator that believes it is registered, and the target
\* of a move assignment stays without registrations until it takes over the
\* source's list (containers_dbg.cpp:4-9, 19-25, 69-79), however many threads
\* destroy iterators meanwhile.
THEOREM ClearedContainersUnused == ~FreeMoves => (Spec => []ClearedIsUnused)
<1>1. RegistrationInv => ClearedIsUnused
  <2> SUFFICES ASSUME RegistrationInv, NEW t \in Threads, Cleared(t)
               PROVE  /\ list[job[t].c].size = 0
                      /\ \A i \in Iterators : home[i] = job[t].c => proxy[i] = NoNode
    BY DEF ClearedIsUnused
  <2>1. job[t].c \in Containers
    BY DEF RegistrationInv, MutexInv, CallsAreTyped, CallsInv, CallInv, Cleared
  <2>2. list[job[t].c].size = 0
    BY DEF RegistrationInv, ClearedEmpty, Emptied
  <2> QED
    BY <2>1, <2>2, EmptyIsUnused
<1> QED
  BY <1>1, RegistrationInductive, PTL
=============================================================================
