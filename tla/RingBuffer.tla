----------------------------- MODULE RingBuffer -----------------------------
(***************************************************************************)
(* voxory::containers::ring_buffer (include/containers/impl/ring_buffer.h) *)
(* down to its cells: which of them hold a constructed element, and where  *)
(* _first and _last point.  Several buffers are constructed, moved into    *)
(* each other and destroyed; their allocators are equal, and allocating no *)
(* cells gives a null pointer.  Pointers are offsets from _data.  The      *)
(* elements have a destructor, which does not throw.  The buffer is not    *)
(* meant for concurrent use, so each action is one whole call.             *)
(***************************************************************************)
EXTENDS Integers, Sequences, Functions

CONSTANTS
  Buffers,
  Capacities,  \* what the constructor may be given; 0 for the default one
  Throws,      \* what may throw of the element type: its copies, its moves
  Assignable,  \* can an element be assigned to?
  MaxCapacity, \* bound: reserve and growth go no further
  MaxPushes    \* bound: elements pushed; they are numbered 1, 2, ...

ASSUME BufferAssumption ==
  /\ Capacities \subseteq Nat /\ MaxCapacity \in Nat /\ MaxPushes \in Nat
  /\ Throws \subseteq {"copy", "move"} /\ Assignable \in BOOLEAN

VARIABLES
  rb,          \* each buffer: [store, first, last, size, capacity, overwrite]
  alive,       \* the buffers that are constructed
  pushed,      \* history: how many elements were pushed
  out,         \* what the last call on each buffer popped, or None
  wild,        \* buffers accessed outside: nothing holds afterwards
  spoiled,     \* history: the buffers whose fields no longer fit together
  lost         \* history: what the last call left with no one to destroy it

vars == <<rb, alive, pushed, out, wild, spoiled, lost>>

Raw  == 0   \* a cell without a constructed element
None == 0   \* std::nullopt
Elements == 1 .. MaxPushes
NoCells  == <<>>

\* The buffer right after its storage was allocated.
Fresh(capacity) ==
  [store |-> IF capacity = 0 THEN NoCells ELSE [c \in 0 .. capacity - 1 |-> Raw],
   first |-> 0, last |-> 0, size |-> 0, capacity |-> capacity,
   overwrite |-> TRUE]

-----------------------------------------------------------------------------
(* The private helpers.                                                     *)

\* _append, for a capacity that is not 0.
Offset(b, p, n) == (p + n) % b.capacity

\* What operator[] shows, oldest first; with a capacity of 0 it divides by 0.
Items(b) == [i \in 1 .. b.size |-> b.store[Offset(b, b.first, i - 1)]]

\* The cells from _first to _last, going round at the end of the capacity when
\* _last is not past _first; none when _size says empty.
Wrapped(b) == b.size > 0 /\ b.first >= b.last
Turn(b) == b.capacity - b.first
Span_NoWrap(b) ==
  IF b.size = 0 THEN <<>> ELSE [i \in 1 .. Turn(b) |-> b.first + i - 1]
Span(b) ==
  IF b.size = 0 THEN <<>>
  ELSE IF ~Wrapped(b) THEN [i \in 1 .. b.last - b.first |-> b.first + i - 1]
  ELSE [i \in 1 .. Turn(b) + b.last |->
          IF i <= Turn(b) THEN b.first + i - 1 ELSE i - Turn(b) - 1]

\* All these cells are there and hold an element.
HoldsAll(b, cells) == \A c \in cells : c \in DOMAIN b.store /\ b.store[c] # Raw

\* The loop from _first to the end of the capacity meets that end, and no cell
\* on its way is empty or not there.
Walkable(b) == /\ Wrapped(b) => b.first <= b.capacity
               /\ HoldsAll(b, Range(Span(b)))

Cells(b, p, n) == {Offset(b, p, i) : i \in 0 .. n - 1}
Destroy(b, cells) ==
  [c \in DOMAIN b.store |-> IF c \in cells THEN Raw ELSE b.store[c]]

\* _cleanup and _deallocate_buffer: a buffer without storage keeps its fields,
\* any other one is left without elements, storage and capacity.
Cleanup(b) ==
  IF b.store = NoCells THEN b
  ELSE [Fresh(0) EXCEPT !.overwrite = b.overwrite]

\* The elements _cleanup does not destroy before it frees their cells.
Left(b) == {b.store[c] : c \in DOMAIN b.store \ Range(Span(b))} \ {Raw}

\* The next n elements in the n cells from p on.
Write(b, p, n) ==
  LET at == [i \in 1 .. n |-> Offset(b, p, i - 1)]
  IN  [c \in DOMAIN b.store |->
         IF \E i \in 1 .. n : at[i] = c
         THEN pushed + (CHOOSE i \in 1 .. n : at[i] = c)
         ELSE b.store[c]]

\* _emplace_back_with_unused_capacity; _last may stand at the end.
UnusedCell(b) == IF b.last + 1 <= b.capacity THEN b.last ELSE 0
EmplaceUnused(b, v) ==
  [b EXCEPT !.store[UnusedCell(b)] = v,
            !.last = UnusedCell(b) + 1,
            !.size = @ + 1]

\* _emplace_back_overwrite.
EmplaceOverwrite_NoTurn(b, v) ==
  [b EXCEPT !.store[b.first] = v, !.last = b.first + 1, !.first = @ + 1]
EmplaceOverwrite_KeepsFirst(b, v) ==
  [b EXCEPT !.store[b.first] = v, !.last = b.first + 1]
EmplaceOverwrite(b, v) ==
  [b EXCEPT !.store[b.first] = v,
            !.last  = b.first + 1,
            !.first = IF b.first + 1 = b.capacity THEN 0 ELSE b.first + 1]

\* _calculate_grow.
Grow(c) == IF c = 0 THEN 4 ELSE IF c < 8 THEN 2 * c
           ELSE IF c < 64 THEN c + c \div 2 ELSE c + c \div 4

\* _reallocate into n cells, when every element arrives: _cleanup sets _size to
\* 0, and nothing sets it again.
Fits(b, n) == Walkable(b) /\ Len(Span(b)) <= n
Reallocate(b, n) ==
  [Fresh(n) EXCEPT
     !.store = [c \in DOMAIN Fresh(n).store |->
                  IF c < Len(Span(b)) THEN b.store[Span(b)[c + 1]] ELSE Raw],
     !.last = Len(Span(b)), !.overwrite = b.overwrite]

\* _reallocate copies with a guard when neither moving nor copying is safe.  If
\* the i-th copy throws, what was constructed on its side of the turn is
\* destroyed again; the copies made before the turn are not.
Guarded == Throws = {"copy", "move"}
LostCopies(b, i) ==
  IF Wrapped(b) /\ i > Turn(b)
  THEN {b.store[Span(b)[k]] : k \in 1 .. Turn(b)} ELSE {}
-----------------------------------------------------------------------------
Init ==
  /\ \E x \in Buffers, c \in Capacities :
       /\ alive = {x}
       /\ rb = [y \in Buffers |-> IF y = x THEN Fresh(c) ELSE Fresh(0)]
  /\ pushed = 0 /\ out = [x \in Buffers |-> None]
  /\ wild = {} /\ spoiled = {} /\ lost = {}

Ready(x) == wild = {} /\ x \in alive

\* The call goes through if it stays inside the buffer, and is wild otherwise.
Call(x, safe, result) ==
  IF safe THEN rb' = [rb EXCEPT ![x] = result] /\ UNCHANGED wild
          ELSE wild' = {x} /\ UNCHANGED rb

\* The next element, if the bound allows one.
PushNext == pushed < MaxPushes /\ pushed' = pushed + 1

\* What is constructed in these cells of b is constructed over.
BuriedIn(b, cells) == {b.store[c] : c \in cells \cap DOMAIN b.store} \ {Raw}

\* The storage is replaced, and then the call goes on.
Replace(x, n, result) ==
  /\ spoiled' = spoiled \union (IF rb[x].size > 0 THEN {x} ELSE {})
  /\ lost' = Left(rb[x])
  /\ Call(x, Fits(rb[x], n), result)

-----------------------------------------------------------------------------
(* The calls on one buffer.  An allocation, a construction or an assignment *)
(* that throws before anything has changed is no step.                      *)

PushUnused(x) ==
  /\ Ready(x) /\ PushNext
  /\ rb[x].size < rb[x].capacity
  /\ LET c == UnusedCell(rb[x])
     IN  /\ Call(x, c \in DOMAIN rb[x].store, EmplaceUnused(rb[x], pushed'))
         /\ lost' = BuriedIn(rb[x], {c})
  /\ out' = [out EXCEPT ![x] = None]
  /\ UNCHANGED <<alive, spoiled>>

\* A buffer of capacity 0 is full too: the write goes through a null _first.
\* With more elements than capacity nothing is written and the element is lost.
PushOverwrite(x) ==
  /\ Ready(x) /\ PushNext
  /\ rb[x].size >= rb[x].capacity /\ rb[x].overwrite
  /\ IF rb[x].size # rb[x].capacity THEN UNCHANGED <<rb, wild>>
     ELSE Call(x, HoldsAll(rb[x], {rb[x].first}),
               EmplaceOverwrite(rb[x], pushed'))
  /\ out' = [out EXCEPT ![x] = None]
  /\ lost' = {} /\ UNCHANGED <<alive, spoiled>>

\* What cannot be assigned to is destroyed and constructed anew, and the
\* construction throws.
PushOverwriteThrows(x) ==
  /\ Ready(x) /\ Throws # {} /\ ~Assignable
  /\ rb[x].size = rb[x].capacity /\ rb[x].overwrite
  /\ HoldsAll(rb[x], {rb[x].first})
  /\ rb' = [rb EXCEPT ![x].store[rb[x].first] = Raw]
  /\ spoiled' = spoiled \union {x}
  /\ out' = [out EXCEPT ![x] = None]
  /\ lost' = {} /\ UNCHANGED <<alive, pushed, wild>>

\* A construction that throws after the replacement leaves what Reserve leaves.
PushGrow(x) ==
  /\ Ready(x) /\ PushNext
  /\ rb[x].size >= rb[x].capacity /\ ~rb[x].overwrite
  /\ Grow(rb[x].capacity) <= MaxCapacity
  /\ Replace(x, Grow(rb[x].capacity),
             EmplaceUnused(Reallocate(rb[x], Grow(rb[x].capacity)), pushed'))
  /\ out' = [out EXCEPT ![x] = None]
  /\ UNCHANGED alive

TryPopFront_NoDestroy(x) ==
  /\ Ready(x)
  /\ IF rb[x].size = 0 THEN out' = [out EXCEPT ![x] = None] /\ UNCHANGED <<rb, wild>>
     ELSE /\ out' = [out EXCEPT ![x] = rb[x].store[rb[x].first]]
          /\ Call(x, HoldsAll(rb[x], {rb[x].first}),
                  [rb[x] EXCEPT !.size = @ - 1, !.first = Offset(rb[x], @, 1)])
  /\ lost' = {} /\ UNCHANGED <<alive, pushed, spoiled>>

\* The front cell is given up; _append then divides by the capacity.
PopSafe(b)  == b.capacity > 0 /\ HoldsAll(b, {b.first})
AfterPop(b) == [b EXCEPT !.store[b.first] = Raw, !.size = @ - 1,
                         !.first = Offset(b, b.first, 1)]

TryPopFront(x) ==
  /\ Ready(x)
  /\ IF rb[x].size = 0
     THEN out' = [out EXCEPT ![x] = None] /\ UNCHANGED <<rb, wild>>
     ELSE /\ Call(x, PopSafe(rb[x]), AfterPop(rb[x]))
          /\ out' = IF PopSafe(rb[x])
                    THEN [out EXCEPT ![x] = rb[x].store[rb[x].first]] ELSE out
  /\ lost' = {} /\ UNCHANGED <<alive, pushed, spoiled>>

\* Moving the element into the result throws after it was taken out: the caller
\* never sees it.
PopThrows(x) ==
  /\ Ready(x) /\ "move" \in Throws
  /\ rb[x].size > 0
  /\ Call(x, PopSafe(rb[x]), AfterPop(rb[x]))
  /\ out' = [out EXCEPT ![x] = None]
  /\ lost' = {} /\ UNCHANGED <<alive, pushed, spoiled>>

Clear(x) ==
  /\ Ready(x)
  /\ Call(x, Walkable(rb[x]),
          [rb[x] EXCEPT !.store = Destroy(rb[x], Range(Span(rb[x]))),
                        !.first = 0, !.last = 0, !.size = 0])
  /\ out' = [out EXCEPT ![x] = None]
  /\ lost' = {} /\ UNCHANGED <<alive, pushed, spoiled>>

\* The caller constructs n elements in the free cells, which it may, then
\* commits them.
CommitWrite(x) ==
  /\ Ready(x)
  /\ \E n \in 1 .. 2 :
       /\ rb[x].size + n <= rb[x].capacity /\ pushed + n <= MaxPushes
       /\ pushed' = pushed + n
       /\ LET cells == Cells(rb[x], rb[x].last, n)
          IN  /\ Call(x, cells \subseteq DOMAIN rb[x].store,
                      [rb[x] EXCEPT
                         !.store = Write(rb[x], rb[x].last, n),
                         !.last = Offset(rb[x], rb[x].last, n),
                         !.size = @ + n])
              /\ lost' = BuriedIn(rb[x], cells)
  /\ out' = [out EXCEPT ![x] = None]
  /\ UNCHANGED <<alive, spoiled>>

CommitRead(x) ==
  /\ Ready(x)
  /\ \E n \in 1 .. rb[x].size :
       IF rb[x].capacity = 0 THEN wild' = {x} /\ UNCHANGED rb
       ELSE LET cells == Cells(rb[x], rb[x].first, n)
            IN  Call(x, HoldsAll(rb[x], cells),
                     [rb[x] EXCEPT !.store = Destroy(rb[x], cells),
                                   !.first = Offset(rb[x], rb[x].first, n),
                                   !.size = @ - n])
  /\ out' = [out EXCEPT ![x] = None]
  /\ lost' = {} /\ UNCHANGED <<alive, pushed, spoiled>>

SetOverwrite(x) ==
  /\ Ready(x)
  /\ \E allow \in BOOLEAN : rb' = [rb EXCEPT ![x].overwrite = allow]
  /\ out' = [out EXCEPT ![x] = None]
  /\ lost' = {} /\ UNCHANGED <<alive, pushed, wild, spoiled>>

Reserve(x) ==
  /\ Ready(x)
  /\ \E n \in rb[x].capacity + 1 .. MaxCapacity :
       Replace(x, n, Reallocate(rb[x], n))
  /\ out' = [out EXCEPT ![x] = None]
  /\ UNCHANGED <<alive, pushed>>

ShrinkToFit(x) ==
  /\ Ready(x)
  /\ rb[x].size < rb[x].capacity
  /\ Replace(x, rb[x].size, Reallocate(rb[x], rb[x].size))
  /\ out' = [out EXCEPT ![x] = None]
  /\ UNCHANGED <<alive, pushed>>

\* One of the three calls above replaces the storage and the i-th copy throws:
\* the guard frees the new storage.
ReallocateThrows(x) ==
  /\ Ready(x) /\ Guarded /\ rb[x].size > 0
  /\ \/ rb[x].capacity < MaxCapacity /\ Fits(rb[x], MaxCapacity)
     \/ rb[x].size < rb[x].capacity /\ Fits(rb[x], rb[x].size)
  /\ \E i \in 1 .. Len(Span(rb[x])) :
       lost' = LostCopies(rb[x], i)
  /\ UNCHANGED <<rb, alive, pushed, out, wild, spoiled>>

-----------------------------------------------------------------------------
(* Whole buffers come, move and go.                                         *)

Construct(x) ==
  /\ wild = {} /\ x \notin alive
  /\ alive' = alive \union {x}
  /\ \E c \in Capacities : rb' = [rb EXCEPT ![x] = Fresh(c)]
  /\ spoiled' = spoiled \ {x}
  /\ out' = [out EXCEPT ![x] = None]
  /\ lost' = {} /\ UNCHANGED <<pushed, wild>>

\* What _storage gives away: its fields are exchanged for null, and _capacity is
\* not one of them.
Emptied_KeepsSize(b) == [b EXCEPT !.store = NoCells, !.first = 0, !.last = 0]
Emptied(b) ==
  [b EXCEPT !.store = NoCells, !.first = 0, !.last = 0, !.size = 0]

\* What the target has then: only the constructor takes the capacity too.
Taken(b, from) ==
  [b EXCEPT !.store = from.store, !.first = from.first,
            !.last = from.last, !.size = from.size]

MoveConstruct(x, y) ==
  /\ Ready(y) /\ x \notin alive
  /\ alive' = alive \union {x}
  /\ rb' = [rb EXCEPT ![x] = rb[y], ![y] = Emptied(rb[y])]
  /\ out' = [out EXCEPT ![x] = None]
  /\ spoiled' = (spoiled \ {x}) \union (IF y \in spoiled THEN {x} ELSE {})
                                 \union (IF rb[y].capacity > 0 THEN {y} ELSE {})
  /\ lost' = {} /\ UNCHANGED <<pushed, wild>>

MoveAssign(x, y) ==
  /\ Ready(x) /\ Ready(y) /\ x # y
  /\ IF Walkable(rb[x])
     THEN /\ rb' = [rb EXCEPT ![x] = Taken(Cleanup(rb[x]), rb[y]),
                              ![y] = Emptied(rb[y])]
          /\ spoiled' = spoiled \union {x, y}
          /\ lost' = Left(rb[x])
          /\ UNCHANGED wild
     ELSE wild' = {x} /\ lost' = {} /\ UNCHANGED <<rb, spoiled>>
  /\ out' = [out EXCEPT ![x] = None]
  /\ UNCHANGED <<alive, pushed>>

\* ~ring_buffer.
Destruct(x) ==
  /\ Ready(x)
  /\ Call(x, Walkable(rb[x]), Fresh(0))
  /\ alive' = alive \ {x}
  /\ lost' = Left(rb[x])
  /\ out' = [out EXCEPT ![x] = None]
  /\ UNCHANGED <<pushed, spoiled>>

Use(x) ==
  \/ PushUnused(x) \/ PushOverwrite(x) \/ PushOverwriteThrows(x) \/ PushGrow(x)
  \/ TryPopFront(x) \/ PopThrows(x) \/ Clear(x)
  \/ CommitWrite(x) \/ CommitRead(x) \/ SetOverwrite(x)
  \/ Reserve(x) \/ ShrinkToFit(x) \/ ReallocateThrows(x)

Next == \/ \E x \in Buffers : Use(x) \/ Construct(x) \/ Destruct(x)
        \/ \E x, y \in Buffers : MoveConstruct(x, y) \/ MoveAssign(x, y)

Spec == Init /\ [][Next]_vars

-----------------------------------------------------------------------------
(* Properties.                                                              *)

\* The fields are of their kinds; _first points to a cell of the storage, and _last
\* to one or one past the last, or both to the start of a storage of no cells.
TypeOK ==
  /\ \A x \in Buffers :
       /\ rb[x].capacity \in Nat /\ rb[x].size \in Nat
       /\ rb[x].first \in Nat /\ rb[x].last \in Nat
       /\ x \notin spoiled =>
            /\ rb[x].first \in {0} \union DOMAIN rb[x].store
            /\ rb[x].last \in 0 .. rb[x].capacity
       /\ rb[x].overwrite \in BOOLEAN
       /\ \A c \in DOMAIN rb[x].store : rb[x].store[c] \in Elements \union {Raw}
  /\ alive \subseteq Buffers /\ pushed \in 0 .. MaxPushes
  /\ out \in [Buffers -> Elements \union {None}]
  /\ wild \subseteq Buffers /\ spoiled \subseteq Buffers
  /\ lost \subseteq Elements

\* Sound(x): the elements of x are in the size() cells from _first on and in no
\* others, and the capacity is what was allocated.
Sound(x) ==
  /\ DOMAIN rb[x].store = 0 .. rb[x].capacity - 1
  /\ rb[x].size <= rb[x].capacity
  /\ {c \in DOMAIN rb[x].store : rb[x].store[c] # Raw}
       = Cells(rb[x], rb[x].first, rb[x].size)

\* Until a buffer holding elements has its storage replaced, takes part in a move
\* or is left with a hole by an element that throws, it is sound, wherever its
\* _first and _last stand, and no call on it leaves it; the one exception is a
\* push into a capacity of 0.  A buffer made by moving is as good as the one it
\* was made from (ring_buffer.h:70-77, 224-256, 308-316, 375-455, 899-996).
LiveExactly ==
  /\ \A x \in alive \ spoiled : Sound(x)
  /\ \A x \in wild \ spoiled : rb[x].capacity = 0

\* As long as it is sound each buffer is the bounded queue of its documentation,
\* from its construction on; it may lose an element only to a move that throws
\* (ring_buffer.h:55-57, 214-256, 290-316, 375-395).
Fifo(x) == INSTANCE BoundedFifo
             WITH Item <- Elements, None <- None, items <- Items(rb[x]),
                  capacity <- rb[x].capacity, overwrite <- rb[x].overwrite,
                  out <- out[x]
FifoUntilSpoiled ==
  [][\A x \in alive' \ (spoiled' \union wild') :
       IF x \in alive THEN [Fifo(x)!Next]_(Fifo(x)!vars)
       ELSE Fifo(x)!Init' \/ \E y \in alive : Items(rb[y]) = Items(rb'[x])]_vars

\* The calls that replace the storage.
Replaces(x) == Reserve(x) \/ ShrinkToFit(x) \/ PushGrow(x)

\* Replacing the storage of a sound buffer moves all elements to the start of the
\* new one, oldest first, also when they went round the end, and loses none.  If a
\* copy throws the old storage is as it was (the strong guarantee of :355, :507):
\* what is lost then are only the copies made of elements before the turn of a
\* buffer that goes round its end (ring_buffer.h:508-571).
ReplacedInOrder ==
  [][/\ \A x \in Buffers \ spoiled : Replaces(x) =>
          /\ wild' = {} /\ lost' = {}
          /\ \A i \in 1 .. rb[x].size : rb'[x].store[i - 1] = Items(rb[x])[i]
     /\ spoiled = {} /\ lost' # {} =>
          \E x \in alive : /\ rb' = rb /\ Wrapped(rb[x])
                           /\ lost' \subseteq Range(Items(rb[x]))]_vars

\* A buffer that was moved from holds nothing and leaves nothing to destroy: it
\* can be popped, cleared, assigned to and destroyed, and only filling it leaves
\* the buffer (ring_buffer.h:70-73, 101-125, 998-1009).
Hollow(b) == b.store = NoCells /\ b.capacity > 0
MovedFromIsInert ==
  [][\A x \in alive : Hollow(rb[x]) =>
       /\ rb[x].size = 0
       /\ x \in wild' => pushed' > pushed]_vars

\* ring_buffer.h:326-329, of reserve: "all existing elements are moved into the
\* new storage", "their logical order (iteration order) remains unchanged"; :347
\* says it of shrink_to_fit, and :214-215 of a full buffer that may not overwrite
\* that it grows: the elements are still there after the storage was replaced.
ReallocationKeepsElements ==
  [][\A x \in Buffers \ spoiled : Replaces(x) =>
       /\ rb[x].size <= rb'[x].size
       /\ \A i \in 1 .. rb[x].size : Items(rb'[x])[i] = Items(rb[x])[i]]_vars
=============================================================================
