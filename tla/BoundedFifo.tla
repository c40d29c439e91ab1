---------------------------- MODULE BoundedFifo ----------------------------
(***************************************************************************)
(* What the comments of voxory::containers::ring_buffer promise: a first-  *)
(* in first-out queue of at most capacity items that either drops its      *)
(* oldest item or grows when it is full.  The ring buffer's operations on  *)
(* a buffer of fixed capacity are shown to implement it.                   *)
(***************************************************************************)
EXTENDS Integers, Sequences

CONSTANTS Item, None

VARIABLES
  items,      \* oldest first
  capacity,
  overwrite,  \* the policy when full
  out         \* what the last operation popped, or None

vars == <<items, capacity, overwrite, out>>

\* A full queue makes room by dropping its oldest item.
Room(q) == IF Len(q) < capacity THEN q ELSE Tail(q)

Init ==
  /\ items = <<>> /\ capacity \in Nat
  /\ overwrite = TRUE /\ out = None

Push(v) ==
  /\ Len(items) < capacity \/ (overwrite /\ items # <<>>)
  /\ items' = Append(Room(items), v)
  /\ out' = None /\ UNCHANGED <<capacity, overwrite>>

Pop ==
  /\ items # <<>>
  /\ out' = Head(items) /\ items' = Tail(items)
  /\ UNCHANGED <<capacity, overwrite>>

PopEmpty ==
  /\ items = <<>> /\ out' = None
  /\ UNCHANGED <<items, capacity, overwrite>>

\* n items at once, written or read in place.
PushMany(s) ==
  /\ Len(items) + Len(s) <= capacity
  /\ items' = items \o s
  /\ out' = None /\ UNCHANGED <<capacity, overwrite>>

PopMany(n) ==
  /\ items' = SubSeq(items, n + 1, Len(items))
  /\ out' = None /\ UNCHANGED <<capacity, overwrite>>

Clear == items' = <<>> /\ out' = None /\ UNCHANGED <<capacity, overwrite>>

SetOverwrite == /\ overwrite' \in BOOLEAN
                /\ out' = None /\ UNCHANGED <<items, capacity>>

\* The storage grows or shrinks around the items.
Resize ==
  /\ capacity' \in Nat /\ Len(items) <= capacity'
  /\ out' = None /\ UNCHANGED <<items, overwrite>>

PushGrow(v) ==
  /\ Len(items) = capacity /\ ~overwrite
  /\ capacity' \in Nat /\ capacity' > capacity
  /\ items' = Append(items, v)
  /\ out' = None /\ UNCHANGED overwrite

Next ==
  \/ Resize \/ \E v \in Item : PushGrow(v)
  \/ \E v \in Item : Push(v) \/ PushMany(<<v>>)
  \/ \E v, w \in Item : PushMany(<<v, w>>)
  \/ Pop \/ PopEmpty \/ Clear \/ SetOverwrite
  \/ \E n \in 1 .. Len(items) : PopMany(n)

Spec == Init /\ [][Next]_vars
=============================================================================
