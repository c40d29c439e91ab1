-------------------------- MODULE ElementSequences --------------------------
(***************************************************************************)
(* What a caller sees of voxory::containers::heap_array: sequences of      *)
(* elements, and of a call only whether it threw.  A call changes the      *)
(* arrays it is given and no other; one that returns leaves what its name  *)
(* says; one that throws leaves what is listed here and nothing else.      *)
(* HeapArray is shown to implement it.                                     *)
(***************************************************************************)
EXTENDS Integers, Sequences

CONSTANTS
  Arrays, Values,
  Moved, Default,  \* an element moved from, and one made by its constructor
  Raw,             \* no element: it was destroyed
  MaxLength

VARIABLES
  items,  \* array -> its elements
  call    \* the last call: which, on which arrays, did it throw?

vars == <<items, call>>

Called(op, a, b, threw) == call' = [op |-> op, to |-> a, from |-> b, threw |-> threw]

\* s cut or, with default elements, extended to n.
Resized(s, n) == [i \in 1 .. n |-> IF i \in DOMAIN s THEN s[i] ELSE Default]

\* s with v in place of its first k elements.
Spoilt(s, k, v) == [i \in DOMAIN s |-> IF i <= k THEN v ELSE s[i]]
AllMoved(s) == [i \in DOMAIN s |-> Moved]

Init ==
  /\ items = [a \in Arrays |-> <<>>]
  /\ \E a \in Arrays : call = [op |-> "none", to |-> a, from |-> a, threw |-> FALSE]

\* n elements of one value; a constructor that throws leaves none.
Construct(a) ==
  /\ items[a] = <<>>
  /\ \/ /\ \E n \in 1 .. MaxLength, e \in Values \union {Default} :
             items' = [items EXCEPT ![a] = [i \in 1 .. n |-> e]]
        /\ Called("construct", a, a, FALSE)
     \/ UNCHANGED items /\ Called("construct", a, a, TRUE)

Copy(a, b) == /\ a # b /\ items[a] = <<>>
              /\ items' = [items EXCEPT ![a] = items[b]]
              /\ Called("copy", a, b, FALSE)

Move(a, b) == /\ a # b
              /\ items' = [items EXCEPT ![a] = items[b], ![b] = <<>>]
              /\ Called("move", a, b, FALSE)

Clear(a) == items' = [items EXCEPT ![a] = <<>>] /\ Called("clear", a, a, FALSE)

Store(a) == /\ \E i \in DOMAIN items[a], v \in Values :
                 items' = [items EXCEPT ![a][i] = v]
            /\ Called("store", a, a, FALSE)

\* reserve and shrink_to_fit: the elements do not show them.
Replace(a) == /\ UNCHANGED items
              /\ \E op \in {"reserve", "shrink"}, threw \in BOOLEAN : Called(op, a, a, threw)

\* A resize that throws has changed nothing, or moved all elements away.
Resize(a) ==
  \/ /\ \E n \in 0 .. MaxLength : items' = [items EXCEPT ![a] = Resized(items[a], n)]
     /\ Called("resize", a, a, FALSE)
  \/ /\ \/ UNCHANGED items
        \/ items' = [items EXCEPT ![a] = AllMoved(items[a])]
     /\ Called("resize", a, a, TRUE)

\* The target gets the elements of the source, which keeps them or has all of them
\* moved from; a source without elements may leave the target as it is.
Assign(a, b) ==
  /\ a # b
  /\ \/ items' = [items EXCEPT ![a] = items[b]]
     \/ items' = [items EXCEPT ![a] = items[b], ![b] = AllMoved(items[b])]
     \/ items[b] = <<>> /\ UNCHANGED items
  /\ Called("assign", a, b, FALSE)

\* An assignment that throws has moved some elements out of the source, or
\* destroyed some of the target's, or assigned to all of the target's.
AssignThrows(a, b) ==
  /\ a # b
  /\ \/ \E k \in DOMAIN items[b] :
          items' = [items EXCEPT ![b] = Spoilt(items[b], k - 1, Moved)]
     \/ \E k \in DOMAIN items[a] :
          items' = [items EXCEPT ![a] = Spoilt(items[a], k - 1, Raw)]
     \/ /\ DOMAIN items[a] \subseteq DOMAIN items[b]
        /\ items' = [items EXCEPT ![a] = [i \in DOMAIN items[a] |-> items[b][i]]]
  /\ Called("assign", a, b, TRUE)

\* An exception out of a noexcept function.
Terminate(a, b) == UNCHANGED items /\ Called("terminate", a, b, TRUE)

Call(a, b) ==
  \/ Construct(a) \/ Clear(a) \/ Store(a) \/ Replace(a) \/ Resize(a)
  \/ Copy(a, b) \/ Move(a, b) \/ Assign(a, b) \/ AssignThrows(a, b)
  \/ Terminate(a, b)

Next == call.op # "terminate" /\ \E a, b \in Arrays : Call(a, b)

Spec == Init /\ [][Next]_vars
=============================================================================
