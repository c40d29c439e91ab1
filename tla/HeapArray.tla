------------------------------ MODULE HeapArray ------------------------------
(***************************************************************************)
(* voxory::containers::heap_array (include/containers/impl/heap_array.h)   *)
(* with elements that own something: which cells of the storage hold a     *)
(* constructed element, what a call that throws leaves behind, and which   *)
(* elements are never destroyed.  Elements may throw when they are copied, *)
(* default constructed, moved or assigned.  Calls are not concurrent, so   *)
(* each action is one whole call; std::allocator is stateless, so the      *)
(* branches for unequal allocators are not taken.                          *)
(***************************************************************************)
EXTENDS Integers, Sequences

CONSTANTS
  Arrays,
  Values,      \* what the caller stores
  Kinds,       \* what an element type may fail to be noexcept in
  MaxCapacity  \* bound: no array is made larger

ASSUME ArrayAssumption ==
  /\ Kinds \subseteq {"copy", "default", "move", "assign"}
  /\ MaxCapacity \in Nat
  /\ "raw" \notin Values  \* no value looks like a cell without an element

VARIABLES
  arr,     \* array -> [cell, last, capacity]
  throws,  \* what the element type may throw from; the rest is noexcept
  did      \* the last call: what, on which, did it throw or leak?

vars == <<arr, throws, did>>

Raw     == "raw"      \* a cell without a constructed element
Moved   == "moved"    \* an element that was moved from
Default == "default"  \* an element as its default constructor makes it
Elements == Values \union {Moved, Default}

-----------------------------------------------------------------------------
(* Storage and elements.                                                    *)

\* Storage of this capacity with these elements at its start.
Storage(items, capacity) ==
  [cell |-> [i \in 0 .. capacity - 1 |->
               IF i < Len(items) THEN items[i + 1] ELSE Raw],
   last |-> Len(items), capacity |-> capacity]
Empty == Storage(<<>>, 0)

Items(x) == [i \in 1 .. x.last |-> x.cell[i - 1]]
Live(x)  == {i \in DOMAIN x.cell : x.cell[i] # Raw}

\* The n elements from position p on become v.
Put(x, p, n, v) ==
  [x EXCEPT !.cell = [i \in DOMAIN x.cell |->
                        IF i \in p .. p + n - 1 THEN v ELSE x.cell[i]]]

\* How many of n elements an uninitialized_* or *_assign_n call gets done: all,
\* or fewer if it throws on the way.
Done(n, kind) == IF kind \in throws THEN 0 .. n ELSE {n}

NothrowMove == "move" \notin throws

\* _cleanup destroys the elements before _last and frees the storage; what lives
\* beyond is lost.
CleanupLeaks(x) == Live(x) \ (0 .. x.last - 1) # {}

Did(op, a, b, threw, leaked) ==
  did' = [op |-> op, to |-> a, from |-> b, threw |-> threw, leaked |-> leaked]

Init ==
  /\ arr = [a \in Arrays |-> Empty]
  /\ throws \in SUBSET Kinds
  /\ \E a \in Arrays :
       did = [op |-> "none", to |-> a, from |-> a, threw |-> FALSE, leaked |-> FALSE]

-----------------------------------------------------------------------------
(* Constructors, clear, access.  An Empty array also stands for one that was *)
(* destroyed and may be constructed anew.                                    *)

\* An exception that leaves a noexcept function ends the program.
Terminate(a, b) == UNCHANGED arr /\ Did("terminate", a, b, TRUE, FALSE)

\* heap_array(count, val) undoes all it did if a copy throws.  heap_array(count)
\* is declared noexcept if copies are, which it makes none of.
Construct(a) ==
  /\ arr[a] = Empty
  /\ \E n \in 1 .. MaxCapacity :
       \/ \E v \in Values, k \in Done(n, "copy") :
            /\ arr' = [arr EXCEPT ![a] = IF k < n THEN Empty
                                         ELSE Storage([i \in 1 .. n |-> v], n)]
            /\ Did("construct", a, a, k < n, FALSE)
       \/ \E k \in Done(n, "default") :
            IF k < n /\ "copy" \notin throws THEN Terminate(a, a)
            ELSE /\ arr' = [arr EXCEPT ![a] =
                              IF k < n THEN Empty
                              ELSE Storage([i \in 1 .. n |-> Default], n)]
                 /\ Did("construct", a, a, k < n, FALSE)
  /\ UNCHANGED throws

CopyConstruct_Moves(a, b) ==
  /\ arr[a] = Empty /\ a # b
  /\ arr' = [arr EXCEPT ![a] = Storage(Items(arr[b]), arr[b].capacity),
                        ![b] = Put(arr[b], 0, arr[b].last, Moved)]
  /\ Did("copy", a, b, FALSE, FALSE)
  /\ UNCHANGED throws

\* heap_array(const heap_array&) allocates the source's capacity.  It is noexcept
\* if the allocator's copy is, whatever the elements do.
CopyConstruct(a, b) ==
  /\ arr[a] = Empty /\ a # b
  /\ \E k \in Done(arr[b].last, "copy") :
       IF k < arr[b].last THEN Terminate(a, b)
       ELSE /\ arr' = [arr EXCEPT ![a] = Storage(Items(arr[b]), arr[b].capacity)]
            /\ Did("copy", a, b, FALSE, FALSE)
  /\ UNCHANGED throws

\* heap_array(heap_array&&) takes the storage and leaves the source empty.
MoveConstruct_KeepsCapacity(a, b) ==
  /\ arr[a] = Empty /\ a # b
  /\ arr' = [arr EXCEPT ![a] = arr[b], ![b] = [Empty EXCEPT !.capacity = arr[b].capacity]]
  /\ Did("move", a, b, FALSE, FALSE)
  /\ UNCHANGED throws

MoveConstruct(a, b) ==
  /\ arr[a] = Empty /\ a # b
  /\ arr' = [arr EXCEPT ![a] = arr[b], ![b] = Empty]
  /\ Did("move", a, b, FALSE, FALSE)
  /\ UNCHANGED throws

\* clear() and the destructor.
Clear(a) ==
  /\ arr' = [arr EXCEPT ![a] = Empty]
  /\ Did("clear", a, a, FALSE, CleanupLeaks(arr[a]))
  /\ UNCHANGED throws

\* Through operator[], at() or an iterator.
Store(a) ==
  /\ \E i \in 0 .. arr[a].last - 1, v \in Values :
       arr' = [arr EXCEPT ![a].cell[i] = v]
  /\ Did("store", a, a, FALSE, FALSE)
  /\ UNCHANGED throws

-----------------------------------------------------------------------------
(* Growing and shrinking.                                                   *)

\* _reallocate moves the elements to new storage if that cannot throw, and
\* copies them otherwise; the old ones stay if a copy throws.
Reallocate_Moves(op, a, n) ==
  LET x == arr[a]
  IN  \E k \in Done(x.last, "move") :
        /\ arr' = [arr EXCEPT ![a] = IF k < x.last THEN Put(x, 0, k, Moved)
                                     ELSE Storage(Items(x), n)]
        /\ Did(op, a, a, k < x.last, FALSE)

Reallocate(op, a, n) ==
  LET x == arr[a]
  IN  \E k \in IF NothrowMove THEN {x.last} ELSE Done(x.last, "copy") :
        /\ arr' = [arr EXCEPT ![a] = IF k < x.last THEN x ELSE Storage(Items(x), n)]
        /\ Did(op, a, a, k < x.last, k = x.last /\ CleanupLeaks(x))

Reserve(a) ==
  /\ \E n \in arr[a].capacity + 1 .. MaxCapacity : Reallocate("reserve", a, n)
  /\ UNCHANGED throws

ShrinkToFit(a) ==
  /\ arr[a].last < arr[a].capacity
  /\ IF arr[a].last = 0
     THEN arr' = [arr EXCEPT ![a] = Empty] /\ Did("shrink", a, a, FALSE, CleanupLeaks(arr[a]))
     ELSE Reallocate("shrink", a, arr[a].last)
  /\ UNCHANGED throws

\* _resize_reallocate: as above, then new elements behind the old ones.  If a
\* default constructor throws, the guard frees the new storage but destroys
\* none of the elements that were already moved or copied there.
ResizeReallocate(a) ==
  LET x == arr[a]
  IN  /\ \E n \in x.capacity + 1 .. MaxCapacity :
           \/ \E k \in Done(n - x.last, "default") :
                IF k < n - x.last
                THEN /\ arr' = [arr EXCEPT ![a] = IF NothrowMove
                                                  THEN Put(x, 0, x.last, Moved) ELSE x]
                     /\ Did("resize", a, a, TRUE, x.last > 0)
                ELSE /\ arr' = [arr EXCEPT ![a] =
                                  Storage(Items(x) \o [i \in 1 .. k |-> Default], n)]
                     /\ Did("resize", a, a, FALSE, CleanupLeaks(x))
           \/ \* a copy throws
              /\ ~NothrowMove /\ "copy" \in throws /\ x.last > 0
              /\ UNCHANGED arr /\ Did("resize", a, a, TRUE, FALSE)
      /\ UNCHANGED throws

\* resize() within the capacity.
ResizeDown_KeepsElements(a) ==
  LET x == arr[a]
  IN  /\ \E n \in 0 .. x.last - 1 :
           arr' = [arr EXCEPT ![a] = [x EXCEPT !.last = n]]
      /\ Did("resize", a, a, FALSE, FALSE)
      /\ UNCHANGED throws

ResizeDown(a) ==
  LET x == arr[a]
  IN  /\ \E n \in 0 .. x.last - 1 :
           arr' = [arr EXCEPT ![a] = [Put(x, n, x.last - n, Raw) EXCEPT !.last = n]]
      /\ Did("resize", a, a, FALSE, FALSE)
      /\ UNCHANGED throws

ResizeUp(a) ==
  LET x == arr[a]
  IN  /\ \E n \in x.last + 1 .. x.capacity : \E k \in Done(n - x.last, "default") :
           /\ arr' = [arr EXCEPT ![a] =
                        IF k < n - x.last THEN x
                        ELSE [Put(x, x.last, k, Default) EXCEPT !.last = n]]
           /\ Did("resize", a, a, k < n - x.last, FALSE)
      /\ UNCHANGED throws

-----------------------------------------------------------------------------
(* Assignment.                                                              *)

MoveAssign_NoCleanup(a, b) ==
  /\ a # b
  /\ arr' = [arr EXCEPT ![a] = arr[b], ![b] = Empty]
  /\ Did("move", a, b, FALSE, arr[a].last > 0)
  /\ UNCHANGED throws

MoveAssign(a, b) ==
  /\ a # b
  /\ arr' = [arr EXCEPT ![a] = arr[b], ![b] = Empty]
  /\ Did("move", a, b, FALSE, CleanupLeaks(arr[a]))
  /\ UNCHANGED throws

\* _assign from a source without elements: a target of the same capacity is left
\* as it is, another gets new storage and its elements are not destroyed.
AssignEmpty(a, b) ==
  /\ a # b /\ arr[b].last = 0
  /\ IF arr[a].capacity = arr[b].capacity
     THEN UNCHANGED arr /\ Did("assign", a, b, FALSE, FALSE)
     ELSE /\ arr' = [arr EXCEPT ![a] = Storage(<<>>, arr[b].capacity)]
          /\ Did("assign", a, b, FALSE, Live(arr[a]) # {})
  /\ UNCHANGED throws

\* _clean_and_create_buffer_src, when there is nothing to assign to or no room.
\* The tag is handed on as an lvalue, so Tag is copy_tag& and never copy_tag: the
\* elements of the source are moved, a copy assignment or not.
AssignNew(a, b) ==
  LET x == arr[a]  y == arr[b]
  IN  /\ a # b /\ y.last > 0 /\ (x.last = 0 \/ y.last > x.capacity)
      /\ \E k \in Done(y.last, "move") :
           /\ arr' = [arr EXCEPT
                        ![a] = IF k < y.last THEN x ELSE Storage(Items(y), y.capacity),
                        ![b] = Put(y, 0, k, Moved)]
           /\ Did("assign", a, b, k < y.last, k = y.last /\ CleanupLeaks(x))
      /\ UNCHANGED throws

\* _assign in place.  If an assignment throws, assign_helper destroys the
\* elements it has assigned, and they still count as elements; copy_assign_n is
\* noexcept if copy construction is.
CopyOver_KeepsRest(x, y, n) ==
  [i \in DOMAIN x.cell |-> IF i < x.last /\ i < n THEN x.cell[i]
                           ELSE IF i < n THEN y.cell[i]
                           ELSE IF i < x.last THEN Raw ELSE x.cell[i]]
CopyOver(x, y, n) ==
  [i \in DOMAIN x.cell |->
     IF i < n THEN y.cell[i] ELSE IF i < x.last THEN Raw ELSE x.cell[i]]
AssignInPlace(a, b) ==
  LET x == arr[a]  y == arr[b]
      common == IF y.last < x.last THEN y.last ELSE x.last
  IN  /\ a # b /\ x.last > 0 /\ y.last \in 1 .. x.capacity
      /\ \/ \E k \in Done(common, "assign") \ {common} :
              IF "copy" \notin throws THEN Terminate(a, b)
              ELSE /\ arr' = [arr EXCEPT ![a] = Put(x, 0, k, Raw)]
                   /\ Did("assign", a, b, TRUE, FALSE)
         \/ \E k \in Done(y.last - common, "copy") :
              IF k < y.last - common
              THEN /\ arr' = [arr EXCEPT ![a].cell = CopyOver(x, y, common)]
                   /\ Did("assign", a, b, TRUE, FALSE)
              ELSE /\ arr' = [arr EXCEPT ![a].cell = CopyOver(x, y, y.last),
                                         ![a].last = y.last]
                   /\ Did("assign", a, b, FALSE, FALSE)
      /\ UNCHANGED throws

\* What _first and _last say of the storage is true.  Nothing is known of an array
\* of which it is not: the model stops there.
Sound == \A a \in Arrays : Live(arr[a]) = 0 .. arr[a].last - 1

Next ==
  /\ did.op # "terminate" /\ Sound
  /\ \E a \in Arrays :
       \/ Construct(a) \/ Clear(a) \/ Store(a) \/ Reserve(a) \/ ShrinkToFit(a)
       \/ ResizeReallocate(a) \/ ResizeDown(a) \/ ResizeUp(a)
       \/ \E b \in Arrays :
            \/ CopyConstruct(a, b) \/ MoveConstruct(a, b) \/ MoveAssign(a, b)
            \/ AssignEmpty(a, b) \/ AssignNew(a, b) \/ AssignInPlace(a, b)

Spec == Init /\ [][Next]_vars

-----------------------------------------------------------------------------
(* Properties.                                                              *)

\* The arrays' fields, and that _capacity is the size of the storage there is:
\* it is what deallocate is told, and what the next resize() relies on.
TypeOK ==
  /\ \A a \in Arrays : /\ arr[a].capacity \in 0 .. MaxCapacity
                       /\ arr[a].cell \in [0 .. arr[a].capacity - 1 -> Elements \union {Raw}]
                       /\ arr[a].last \in 0 .. arr[a].capacity
  /\ throws \subseteq Kinds
  /\ did \in [op : {"none", "construct", "copy", "move", "clear", "store", "reserve",
                    "shrink", "resize", "assign", "terminate"},
              to : Arrays, from : Arrays, threw : BOOLEAN, leaked : BOOLEAN]

\* The constructed cells of an array are those from _first to _last, also after a
\* call that threw, so that none is destroyed twice or used unconstructed later;
\* only an assignment in place that throws may leave it otherwise
\* (heap_array.h:417-512, 579-618, 654-695).
LiveExactly == Sound \/ (did.op = "assign" /\ did.threw /\ "assign" \in throws)

\* Elements are lost without being destroyed in two cases only: when resize()
\* throws out of its new storage, and in the assignment from an array without
\* elements to one of another capacity (heap_array.h:443-478, 635-645).
LeaksOnlyThere ==
  [][did'.leaked =>
       \/ did'.op = "resize" /\ did'.threw
       \/ did'.op = "assign" /\ arr[did'.from].last = 0]_vars

\* "if exception occurs during move: destroy new_data, leave old intact"
\* (heap_array.h:428, 458): a call that replaces the storage and throws leaves
\* the array as it was; resize() does so unless it had moved the elements.
OldLeftIntact ==
  [][did'.threw /\ did'.op \in {"reserve", "shrink", "resize"} =>
       \/ UNCHANGED arr
       \/ did'.op = "resize" /\ NothrowMove]_vars

\* The elements survive the replacement of their storage and the change of their
\* owner, in their order; a copy or assignment that does not throw delivers the
\* elements the source had, unless it had none (heap_array.h:237-301, 404-512,
\* 592-695).
ElementsArrive ==
  [][~did'.threw =>
       /\ did'.op \in {"reserve", "shrink", "move", "copy"} =>
            Items(arr'[did'.to]) = Items(arr[did'.from])
       /\ did'.op = "assign" /\ arr[did'.from].last > 0 =>
            Items(arr'[did'.to]) = Items(arr[did'.from])
       /\ did'.op = "resize" =>
            \A i \in DOMAIN Items(arr[did'.to]) \intersect DOMAIN Items(arr'[did'.to]) :
              Items(arr'[did'.to])[i] = Items(arr[did'.to])[i]]_vars

\* What a caller sees of the arrays and of the last call.
Shown    == [a \in Arrays |-> Items(arr[a])]
LastCall == [op |-> did.op, to |-> did.to, from |-> did.from, threw |-> did.threw]
Seqs == INSTANCE ElementSequences
          WITH items <- Shown, call <- LastCall, MaxLength <- MaxCapacity

\* To its callers an array is a sequence of elements.  A call leaves the arrays it
\* was not given alone, does to the elements what its name says, and leaves one of a
\* few things behind when it throws (heap_array.h:237-301, 404-512, 579-695).
IsASequence == Seqs!Spec

\* tests/core/containers/source/heap_array_test.cpp:87-101, copy_assignment: after
\* b = a the elements of a are still those of a.
SourceUntouched ==
  [][did'.op = "assign" => arr'[did'.from] = arr[did'.from]]_vars
=============================================================================
