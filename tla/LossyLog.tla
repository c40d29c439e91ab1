------------------------------ MODULE LossyLog ------------------------------
(***************************************************************************)
(* What a lossy channel between one writer and one reader promises, and    *)
(* what ChunkRing is shown to implement: items are numbered in the order   *)
(* they are published, the writer never waits, the newest Room items are   *)
(* kept, and the reader may take an item only when every earlier one was   *)
(* taken or has been pushed out.  Taking an item twice is a stutter, so    *)
(* the channel delivers at least once what it does not push out.           *)
(***************************************************************************)
EXTENDS Integers

CONSTANT Room   \* how many of the newest items are kept

VARIABLES
  published,   \* how many items were published
  taken        \* the numbers of the items the reader took

vars == <<published, taken>>

PushedOut(n) == n + Room <= published

Init == published = 0 /\ taken = {}

Publish == /\ published' = published + 1
           /\ UNCHANGED taken

Take(n) == /\ n < published
           /\ \A m \in 0 .. n - 1 : m \in taken \/ PushedOut(m)
           /\ taken' = taken \union {n}
           /\ UNCHANGED published

Next == Publish \/ \E n \in 0 .. published - 1 : Take(n)

Spec == Init /\ [][Next]_vars
=============================================================================
