--------------------------- MODULE HeapArrayProofs ---------------------------
(***************************************************************************)
(* Proofs about HeapArray for any number of arrays, any values and any     *)
(* capacity: what the fields of an array say of its storage is true after  *)
(* every call, and what becomes of the elements when a call throws.        *)
(***************************************************************************)
EXTENDS HeapArray, TLAPS

\* An array as the class declares it, over a storage of its capacity.
IsArray(x) ==
  /\ x = [cell |-> x.cell, last |-> x.last, capacity |-> x.capacity]
  /\ x.capacity \in 0 .. MaxCapacity
  /\ x.cell \in [0 .. x.capacity - 1 -> Elements \union {Raw}]
  /\ x.last \in 0 .. x.capacity

\* Its constructed cells are those before _last.
IsSound(x) == \A i \in 0 .. x.capacity - 1 : x.cell[i] = Raw <=> i >= x.last

Ops == {"none", "construct", "copy", "move", "clear", "store", "reserve",
        "shrink", "resize", "assign", "terminate"}
Calls == [op : Ops, to : Arrays, from : Arrays, threw : BOOLEAN, leaked : BOOLEAN]

ArraysInv == /\ arr = [a \in Arrays |-> arr[a]]
             /\ \A a \in Arrays : IsArray(arr[a])
IInv == ArraysInv /\ throws \subseteq Kinds /\ did \in Calls /\ LiveExactly

-----------------------------------------------------------------------------
(* The operators on one array.                                              *)

\* What can be stored is not a cell without an element.
LEMMA ElementsAreNotRaw == Raw \notin Elements
BY ArrayAssumption DEF Raw, Elements, Moved, Default

\* The constructed cells are the cells before _last, and none of them is lost.
LEMMA LiveCells ==
  ASSUME NEW x, IsArray(x)
  PROVE  /\ IsSound(x) <=> Live(x) = 0 .. x.last - 1
         /\ IsSound(x) => CleanupLeaks(x) = FALSE
BY DEF IsArray, IsSound, Live, CleanupLeaks

\* The elements of an array, as a sequence.
LEMMA ItemsOf ==
  ASSUME NEW x, IsArray(x), IsSound(x)
  PROVE  /\ Items(x) \in Seq(Elements) /\ Len(Items(x)) = x.last
         /\ DOMAIN Items(x) = 1 .. x.last
         /\ \A i \in 1 .. x.last : Items(x)[i] = x.cell[i - 1]
<1>1. /\ x.last \in Nat /\ x.capacity \in Nat /\ x.last <= x.capacity
      /\ x.cell \in [0 .. x.capacity - 1 -> Elements \union {Raw}]
  BY ArrayAssumption DEF IsArray
<1>2. ASSUME NEW i \in 1 .. x.last PROVE x.cell[i - 1] \in Elements
  <2>1. i - 1 \in 0 .. x.capacity - 1 /\ ~(i - 1 >= x.last)
    BY <1>1
  <2>2. x.cell[i - 1] # Raw
    BY <2>1 DEF IsSound
  <2> QED
    BY <1>1, <2>1, <2>2
<1>3. Items(x) = [i \in 1 .. x.last |-> x.cell[i - 1]]
  BY DEF Items
<1> QED
  BY <1>1, <1>2, <1>3

\* Storage made for a sequence of elements holds them, at its start.
LEMMA StorageIsSound ==
  ASSUME NEW s \in Seq(Elements), NEW n \in 0 .. MaxCapacity, Len(s) <= n
  PROVE  /\ IsArray(Storage(s, n)) /\ IsSound(Storage(s, n))
         /\ Items(Storage(s, n)) = s /\ Storage(s, n).last = Len(s)
<1> DEFINE x == Storage(s, n)
<1>1. /\ x = [cell |-> x.cell, last |-> x.last, capacity |-> x.capacity]
      /\ x.capacity = n /\ x.last = Len(s)
      /\ x.cell = [i \in 0 .. n - 1 |-> IF i < Len(s) THEN s[i + 1] ELSE Raw]
  BY DEF Storage
<1>2. \A i \in 0 .. n - 1 : i < Len(s) => s[i + 1] \in Elements
  BY ArrayAssumption
<1>3. IsArray(x) /\ IsSound(x)
  BY <1>1, <1>2, ElementsAreNotRaw, ArrayAssumption DEF IsArray, IsSound
<1>4. Items(x) = s
  <2>1. \A i \in 1 .. Len(s) : x.cell[i - 1] = s[i]
    BY <1>1, ArrayAssumption
  <2>2. s = [i \in 1 .. Len(s) |-> s[i]]
    OBVIOUS
  <2> HIDE DEF x
  <2> QED
    BY <1>1, <2>1, <2>2 DEF Items
<1> QED
  BY <1>1, <1>3, <1>4

\* An array without storage.
LEMMA EmptyIsSound == IsArray(Empty) /\ IsSound(Empty) /\ Items(Empty) = <<>>
<1>1. <<>> \in Seq(Elements) /\ Len(<<>>) = 0 /\ 0 \in 0 .. MaxCapacity
  BY ArrayAssumption
<1>2. Len(<<>>) <= 0
  BY <1>1
<1>3. /\ IsArray(Storage(<<>>, 0)) /\ IsSound(Storage(<<>>, 0))
      /\ Items(Storage(<<>>, 0)) = <<>>
  BY <1>1, <1>2, StorageIsSound, Zenon
<1> QED
  BY <1>3 DEF Empty

\* Nor has one that holds none any elements.
LEMMA NoItems == ASSUME NEW x, x.last = 0 PROVE Items(x) = <<>>
<1>1. Items(x) = [i \in 1 .. 0 |-> x.cell[i - 1]]
  BY DEF Items
<1>2. Items(Empty) = [i \in 1 .. 0 |-> Empty.cell[i - 1]]
  <2>1. Empty.last = 0
    BY DEF Empty, Storage
  <2> QED
    BY <2>1 DEF Items
<1>3. Items(x) = Items(Empty)
  BY <1>1, <1>2
<1> QED
  BY <1>3, EmptyIsSound

\* The same element n times.
LEMMA CopiesAreElements ==
  ASSUME NEW n \in Nat, NEW v \in Elements
  PROVE  [i \in 1 .. n |-> v] \in Seq(Elements) /\ Len([i \in 1 .. n |-> v]) = n
OBVIOUS

\* Replacing a field.
LEMMA WithField ==
  ASSUME NEW x, IsArray(x), NEW v
  PROVE  /\ [x EXCEPT !.cell = v] = [cell |-> v, last |-> x.last, capacity |-> x.capacity]
         /\ [x EXCEPT !.last = v] = [cell |-> x.cell, last |-> v, capacity |-> x.capacity]
<1> DEFINE c == x.cell  l == x.last  k == x.capacity
<1>1. x = [cell |-> c, last |-> l, capacity |-> k]
  BY DEF IsArray
<1> HIDE DEF c, l, k
<1>2. /\ [x EXCEPT !.cell = v] = [cell |-> v, last |-> l, capacity |-> k]
      /\ [x EXCEPT !.last = v] = [cell |-> c, last |-> v, capacity |-> k]
  BY <1>1
<1> QED
  BY <1>2 DEF c, l, k

\* Elements replaced by elements leave an array as sound as it was.
LEMMA PutKeepsSound ==
  ASSUME NEW x, IsArray(x), IsSound(x), NEW p \in Nat, NEW n \in Nat,
         p + n <= x.last, NEW v \in Elements
  PROVE  IsArray(Put(x, p, n, v)) /\ IsSound(Put(x, p, n, v))
<1> DEFINE y == Put(x, p, n, v)
<1>1. y.cell = [i \in 0 .. x.capacity - 1 |->
                  IF i \in p .. p + n - 1 THEN v ELSE x.cell[i]]
  BY WithField DEF IsArray, Put
<1>2. /\ y = [cell |-> y.cell, last |-> x.last, capacity |-> x.capacity]
      /\ y.last = x.last /\ y.capacity = x.capacity
  BY WithField DEF Put
<1>3. y.cell \in [0 .. x.capacity - 1 -> Elements \union {Raw}]
  BY <1>1 DEF IsArray
<1>4. IsArray(y)
  BY <1>2, <1>3 DEF IsArray
<1>5. IsSound(y)
  BY <1>1, <1>2, ElementsAreNotRaw DEF IsArray, IsSound
<1> QED
  BY <1>4, <1>5

\* A storage whose cells are rewritten up to some _last, and whose _last is set.
LEMMA RefilledIsSound ==
  ASSUME NEW x, IsArray(x), NEW c \in [0 .. x.capacity - 1 -> Elements \union {Raw}],
         NEW l \in 0 .. x.capacity,
         \A i \in 0 .. x.capacity - 1 : c[i] = Raw <=> i >= l
  PROVE  LET y == [cell |-> c, last |-> l, capacity |-> x.capacity]
         IN  IsArray(y) /\ IsSound(y)
BY DEF IsArray, IsSound

\* resize() within the capacity destroys elements at the end, or adds some.
LEMMA ResizedIsSound ==
  ASSUME NEW x, IsArray(x), IsSound(x), NEW n \in 0 .. x.capacity
  PROVE  LET y == IF n < x.last THEN [Put(x, n, x.last - n, Raw) EXCEPT !.last = n]
                  ELSE [Put(x, x.last, n - x.last, Default) EXCEPT !.last = n]
         IN  /\ IsArray(y) /\ IsSound(y) /\ y.last = n
             /\ \A i \in 0 .. x.last - 1 : i < n => y.cell[i] = x.cell[i]
             /\ \A i \in x.last .. n - 1 : y.cell[i] = Default
<1> DEFINE d == [i \in 0 .. x.capacity - 1 |->
                   IF i \in n .. n + (x.last - n) - 1 THEN Raw ELSE x.cell[i]]
           u == [i \in 0 .. x.capacity - 1 |->
                   IF i \in x.last .. x.last + (n - x.last) - 1 THEN Default ELSE x.cell[i]]
<1>1. /\ Put(x, n, x.last - n, Raw) = [cell |-> d, last |-> x.last, capacity |-> x.capacity]
      /\ Put(x, x.last, n - x.last, Default)
           = [cell |-> u, last |-> x.last, capacity |-> x.capacity]
  BY WithField DEF Put, IsArray
<1>2. /\ [Put(x, n, x.last - n, Raw) EXCEPT !.last = n]
           = [cell |-> d, last |-> n, capacity |-> x.capacity]
      /\ [Put(x, x.last, n - x.last, Default) EXCEPT !.last = n]
           = [cell |-> u, last |-> n, capacity |-> x.capacity]
  <2> HIDE DEF d, u
  <2> QED
    BY <1>1
<1>3. Default \in Elements
  BY DEF Elements
<1>4. n < x.last => /\ d \in [0 .. x.capacity - 1 -> Elements \union {Raw}]
                    /\ \A i \in 0 .. x.capacity - 1 : d[i] = Raw <=> i >= n
  BY DEF IsArray, IsSound
<1>5. ~(n < x.last) => /\ u \in [0 .. x.capacity - 1 -> Elements \union {Raw}]
                       /\ \A i \in 0 .. x.capacity - 1 : u[i] = Raw <=> i >= n
  BY <1>3, ElementsAreNotRaw DEF IsArray, IsSound
<1>6. \A i \in 0 .. x.last - 1 : i < n => d[i] = x.cell[i] /\ u[i] = x.cell[i]
  BY DEF IsArray
<1>7. \A i \in x.last .. n - 1 : ~(n < x.last) /\ u[i] = Default
  BY DEF IsArray
<1> DEFINE v == [cell |-> d, last |-> n, capacity |-> x.capacity]
           w == [cell |-> u, last |-> n, capacity |-> x.capacity]
<1> HIDE DEF d, u
<1>8. n < x.last => IsArray(v) /\ IsSound(v) /\ v.last = n /\ v.cell = d
  BY <1>4, RefilledIsSound
<1>9. ~(n < x.last) => IsArray(w) /\ IsSound(w) /\ w.last = n /\ w.cell = u
  BY <1>5, RefilledIsSound
<1> HIDE DEF v, w
<1> QED
  BY <1>2, <1>6, <1>7, <1>8, <1>9 DEF v, w

\* An assignment in place: the first n elements are the source's.
LEMMA CopiedOverIsSound ==
  ASSUME NEW x, IsArray(x), IsSound(x), NEW y, IsArray(y), IsSound(y),
         NEW n \in 0 .. y.last, n <= x.capacity
  PROVE  LET z == [cell |-> CopyOver(x, y, n), last |-> n, capacity |-> x.capacity]
         IN  IsArray(z) /\ IsSound(z) /\ (n = y.last => Items(z) = Items(y))
<1> DEFINE c == CopyOver(x, y, n)
<1>1. c = [i \in 0 .. x.capacity - 1 |-> IF i < n THEN y.cell[i]
                                         ELSE IF i < x.last THEN Raw ELSE x.cell[i]]
  BY DEF CopyOver, IsArray
<1>2. c \in [0 .. x.capacity - 1 -> Elements \union {Raw}]
  BY <1>1 DEF IsArray
<1>3. ASSUME NEW i \in 0 .. x.capacity - 1 PROVE c[i] = Raw <=> i >= n
  <2> HIDE DEF c
  <2>1. /\ x.last \in Nat /\ y.last \in Nat /\ n \in 0 .. y.last /\ y.last <= y.capacity
        /\ y.capacity \in Nat /\ x.capacity \in Nat
    BY ArrayAssumption DEF IsArray
  <2>2. CASE i < n
    <3>1. c[i] = y.cell[i]
      BY <1>1, <2>2
    <3>2. i \in 0 .. y.capacity - 1 /\ ~(i >= y.last) /\ ~(i >= n)
      BY <2>1, <2>2
    <3>3. y.cell[i] # Raw
      BY <3>2 DEF IsSound
    <3> QED
      BY <3>1, <3>2, <3>3
  <2>3. CASE ~(i < n)
    <3>1. c[i] = IF i < x.last THEN Raw ELSE x.cell[i]
      BY <1>1, <2>3
    <3>2. ~(i < x.last) => x.cell[i] = Raw
      BY <2>1 DEF IsSound
    <3>3. i >= n
      BY <2>1, <2>3
    <3> QED
      BY <3>1, <3>2, <3>3
  <2> QED
    BY <2>2, <2>3
<1>4. \A i \in 1 .. n : c[i - 1] = y.cell[i - 1]
  BY <1>1 DEF IsArray
<1>5. n \in 0 .. x.capacity
  BY DEF IsArray
<1> DEFINE z == [cell |-> c, last |-> n, capacity |-> x.capacity]
<1>6. IsArray(z) /\ IsSound(z)
  <2> HIDE DEF c
  <2> QED
    BY <1>2, <1>3, <1>5, RefilledIsSound
<1>7. n = y.last => Items(z) = Items(y)
  <2> HIDE DEF c
  <2> QED
    BY <1>4 DEF Items
<1> QED
  BY <1>6, <1>7

-----------------------------------------------------------------------------
(* What a step may do, apart from what is proved of its call.               *)

LeakStep == did'.leaked =>
              \/ did'.op = "resize" /\ did'.threw
              \/ did'.op = "assign" /\ arr[did'.from].last = 0
IntactStep == did'.threw /\ did'.op \in {"reserve", "shrink", "resize"} =>
                UNCHANGED arr \/ (did'.op = "resize" /\ NothrowMove)
ArriveStep ==
  ~did'.threw =>
    /\ did'.op \in {"reserve", "shrink", "move", "copy"} =>
         Items(arr'[did'.to]) = Items(arr[did'.from])
    /\ did'.op = "assign" /\ arr[did'.from].last > 0 =>
         Items(arr'[did'.to]) = Items(arr[did'.from])
    /\ did'.op = "resize" =>
         \A i \in DOMAIN Items(arr[did'.to]) \intersect DOMAIN Items(arr'[did'.to]) :
           Items(arr'[did'.to])[i] = Items(arr[did'.to])[i]

\* To its callers the call is one on sequences.
ShownStep == \E a, b \in Arrays : Seqs!Call(a, b)

\* The array that a failed assignment in place leaves behind is the only unsound one.
Fine == /\ ArraysInv' /\ throws' = throws /\ did' \in Calls
        /\ Sound' \/ (did'.op = "assign" /\ did'.threw /\ "assign" \in throws)
        /\ LeakStep /\ IntactStep /\ ArriveStep /\ ShownStep

Ready == ArraysInv /\ Sound

\* What a call leaves of itself.
LEMMA Recorded ==
  ASSUME NEW op \in Ops, NEW a \in Arrays, NEW b \in Arrays, NEW threw \in BOOLEAN,
         NEW leaked \in BOOLEAN, Did(op, a, b, threw, leaked)
  PROVE  /\ did' \in Calls /\ did'.op = op /\ did'.to = a /\ did'.from = b
         /\ did'.threw = threw /\ did'.leaked = leaked
BY DEF Did, Calls

\* Sound arrays, one by one.
LEMMA SoundArrays ==
  ASSUME ArraysInv
  PROVE  Sound <=> \A a \in Arrays : IsSound(arr[a])
BY LiveCells DEF ArraysInv, Sound

\* The same of the arrays after a step.
LEMMA SoundArraysNext ==
  ASSUME ArraysInv'
  PROVE  Sound' <=> \A a \in Arrays : IsSound(arr'[a])
BY LiveCells DEF ArraysInv, Sound

\* A step that replaces one array by a sound one.
LEMMA OneReplaced ==
  ASSUME Ready, NEW a \in Arrays, NEW y, IsArray(y), IsSound(y),
         arr' = [arr EXCEPT ![a] = y]
  PROVE  ArraysInv' /\ Sound' /\ arr'[a] = y
<1>1. ArraysInv' /\ arr'[a] = y
  BY DEF Ready, ArraysInv
<1>2. \A z \in Arrays : IsSound(arr'[z])
  BY SoundArrays DEF Ready, ArraysInv
<1> QED
  BY <1>1, <1>2, SoundArraysNext

\* A step that replaces two.
LEMMA TwoReplaced ==
  ASSUME Ready, NEW a \in Arrays, NEW b \in Arrays, a # b,
         NEW y, IsArray(y), IsSound(y), NEW z, IsArray(z), IsSound(z),
         arr' = [arr EXCEPT ![a] = y, ![b] = z]
  PROVE  ArraysInv' /\ Sound' /\ arr'[a] = y /\ arr'[b] = z
<1>1. ArraysInv' /\ arr'[a] = y /\ arr'[b] = z
  BY DEF Ready, ArraysInv
<1>2. \A c \in Arrays : IsSound(arr'[c])
  BY SoundArrays DEF Ready, ArraysInv
<1> QED
  BY <1>1, <1>2, SoundArraysNext

\* The arrays a call starts from.
LEMMA ReadyArray ==
  ASSUME Ready, NEW a \in Arrays
  PROVE  /\ IsArray(arr[a]) /\ IsSound(arr[a]) /\ CleanupLeaks(arr[a]) = FALSE
         /\ Items(arr[a]) \in Seq(Elements) /\ Len(Items(arr[a])) = arr[a].last
         /\ [arr EXCEPT ![a] = arr[a]] = arr
<1>1. IsArray(arr[a]) /\ IsSound(arr[a]) /\ [arr EXCEPT ![a] = arr[a]] = arr
  BY SoundArrays DEF Ready, ArraysInv
<1> QED
  BY <1>1, ItemsOf, LiveCells

\* The bounds of the indexes of an array.
LEMMA Sizes ==
  ASSUME Ready, NEW a \in Arrays
  PROVE  /\ arr[a].last \in Nat /\ arr[a].capacity \in Nat /\ MaxCapacity \in Nat
         /\ arr[a].last <= arr[a].capacity /\ arr[a].capacity <= MaxCapacity
<1>1. IsArray(arr[a])
  BY ReadyArray
<1> QED
  BY <1>1, ArrayAssumption DEF IsArray

\* A call that leaves the arrays alone.
LEMMA NothingReplaced ==
  ASSUME Ready, UNCHANGED arr PROVE ArraysInv' /\ Sound'
BY DEF Ready, ArraysInv, Sound

\* At most all of n elements are done.
LEMMA SomeDone == ASSUME NEW n \in Nat, NEW kind PROVE Done(n, kind) \subseteq 0 .. n
BY DEF Done
-----------------------------------------------------------------------------
(* What callers see: one lemma per outcome of a call.                       *)

\* What a call leaves of itself is what callers see of it.
LEMMA CallShown ==
  ASSUME NEW op, NEW a, NEW b, NEW threw, NEW leaked, Did(op, a, b, threw, leaked)
  PROVE  Seqs!Called(op, a, b, threw)
BY DEF Did, LastCall, Seqs!Called

\* A step that replaces one array.
LEMMA OneShown ==
  ASSUME Ready, NEW a \in Arrays, NEW y, arr' = [arr EXCEPT ![a] = y]
  PROVE  Shown' = [Shown EXCEPT ![a] = Items(y)] /\ Shown[a] = Items(arr[a])
<1>1. \A c \in Arrays : arr'[c] = IF c = a THEN y ELSE arr[c]
  BY DEF Ready, ArraysInv
<1>2. \A c \in Arrays : Shown'[c] = IF c = a THEN Items(y) ELSE Shown[c]
  BY <1>1 DEF Shown
<1> QED
  BY <1>2 DEF Shown

\* A step that replaces two.
LEMMA TwoShown ==
  ASSUME Ready, NEW a \in Arrays, NEW b \in Arrays, a # b, NEW y, NEW z,
         arr' = [arr EXCEPT ![a] = y, ![b] = z]
  PROVE  /\ Shown' = [Shown EXCEPT ![a] = Items(y), ![b] = Items(z)]
         /\ Shown[a] = Items(arr[a]) /\ Shown[b] = Items(arr[b])
<1>1. /\ arr'[a] = y /\ arr'[b] = z
      /\ \A c \in Arrays \ {a, b} : arr'[c] = arr[c]
  BY DEF Ready, ArraysInv
<1>2. \A c \in Arrays : Shown'[c] = Items(arr'[c]) /\ Shown[c] = Items(arr[c])
  BY DEF Shown
<1>3. Shown = [c \in Arrays |-> Shown[c]] /\ Shown' = [c \in Arrays |-> Shown'[c]]
  BY DEF Shown
<1> DEFINE p == Items(y)  q == Items(z)
<1>4. /\ Shown'[a] = p /\ Shown'[b] = q
      /\ \A c \in Arrays \ {a, b} : Shown'[c] = Shown[c]
  <2>1. Shown'[a] = p /\ Shown'[b] = q
    BY <1>1, <1>2, Zenon
  <2>2. \A c \in Arrays \ {a, b} : Shown'[c] = Shown[c]
    <3> HIDE DEF p, q
    <3> QED
      BY <1>1, <1>2
  <2> QED
    BY <2>1, <2>2
<1>5. Shown' = [Shown EXCEPT ![a] = p, ![b] = q]
  <2> HIDE DEF p, q
  <2> QED
    BY <1>3, <1>4
<1> QED
  BY <1>2, <1>5, Zenon

\* Calls that leave the arrays alone.
LEMMA NothingShown ==
  ASSUME Ready, NEW a \in Arrays, NEW b \in Arrays, UNCHANGED arr, NEW leaked,
         \/ Did("terminate", a, b, TRUE, leaked)
         \/ arr[a] = Empty /\ Did("construct", a, a, TRUE, leaked)
         \/ Did("resize", a, a, TRUE, leaked)
         \/ a # b /\ arr[b].last = 0 /\ Did("assign", a, b, FALSE, leaked)
  PROVE  ShownStep
<1>1. UNCHANGED Shown
  BY DEF Shown
<1>2. CASE Did("terminate", a, b, TRUE, leaked)
  <2>1. Seqs!Terminate(a, b)
    BY <1>1, <1>2, CallShown DEF Seqs!Terminate
  <2> QED
    BY <2>1 DEF ShownStep, Seqs!Call
<1>3. CASE arr[a] = Empty /\ Did("construct", a, a, TRUE, leaked)
  <2>1. Shown[a] = <<>>
    BY <1>3, EmptyIsSound DEF Shown
  <2>2. Seqs!Construct(a)
    BY <1>1, <1>3, <2>1, CallShown DEF Seqs!Construct
  <2> QED
    BY <2>2 DEF ShownStep, Seqs!Call
<1>4. CASE Did("resize", a, a, TRUE, leaked)
  <2>1. Seqs!Resize(a)
    BY <1>1, <1>4, CallShown DEF Seqs!Resize
  <2> QED
    BY <2>1 DEF ShownStep, Seqs!Call
<1>5. CASE a # b /\ arr[b].last = 0 /\ Did("assign", a, b, FALSE, leaked)
  <2>1. Shown[b] = <<>>
    BY <1>5, NoItems DEF Shown
  <2>2. Seqs!Assign(a, b)
    BY <1>1, <1>5, <2>1, CallShown DEF Seqs!Assign
  <2> QED
    BY <2>2 DEF ShownStep, Seqs!Call
<1> QED
  BY <1>2, <1>3, <1>4, <1>5

\* Construction of n equal elements.
LEMMA ConstructShown ==
  ASSUME Ready, NEW a \in Arrays, arr[a] = Empty, NEW n \in 1 .. MaxCapacity,
         NEW v \in Values \union {Default},
         arr' = [arr EXCEPT ![a] = Storage([i \in 1 .. n |-> v], n)],
         Did("construct", a, a, FALSE, FALSE)
  PROVE  ShownStep
<1> DEFINE s == [i \in 1 .. n |-> v]
<1>1. Items(Storage(s, n)) = s
  <2>1. s \in Seq(Elements) /\ Len(s) <= n /\ n \in 0 .. MaxCapacity
    BY CopiesAreElements, ArrayAssumption DEF Elements
  <2> HIDE DEF s
  <2> QED
    BY <2>1, StorageIsSound
<1>2. Shown' = [Shown EXCEPT ![a] = s] /\ Shown[a] = <<>>
  <2>1. Items(arr[a]) = <<>>
    BY EmptyIsSound
  <2>2. arr' = [arr EXCEPT ![a] = Storage(s, n)]
    OBVIOUS
  <2> HIDE DEF s
  <2> QED
    <3>1. /\ Shown' = [Shown EXCEPT ![a] = Items(Storage(s, n))]
          /\ Shown[a] = Items(arr[a])
      BY <2>2, OneShown, Zenon
    <3> QED
      BY <1>1, <2>1, <3>1, Zenon
<1>3. Seqs!Construct(a)
  BY <1>2, CallShown DEF Seqs!Construct
<1> QED
  BY <1>3 DEF ShownStep, Seqs!Call

\* The calls that give one array the elements of another or none, and those that
\* keep the elements.
LEMMA ItemsShown ==
  ASSUME Ready, NEW a \in Arrays, NEW b \in Arrays, NEW y, NEW leaked, NEW threw \in BOOLEAN,
         arr' = [arr EXCEPT ![a] = y],
         \/ a # b /\ arr[a] = Empty /\ Items(y) = Items(arr[b]) /\ Did("copy", a, b, FALSE, leaked)
         \/ a # b /\ Items(y) = Items(arr[b]) /\ Did("assign", a, b, FALSE, leaked)
         \/ Items(y) = <<>> /\ Did("clear", a, a, FALSE, leaked)
         \/ Items(y) = Items(arr[a]) /\ \E op \in {"reserve", "shrink"} :
                                         Did(op, a, a, threw, leaked)
  PROVE  ShownStep
<1>1. Shown' = [Shown EXCEPT ![a] = Items(y)] /\ Shown[b] = Items(arr[b])
  BY OneShown DEF Shown
<1>2. CASE /\ a # b /\ arr[a] = Empty /\ Items(y) = Items(arr[b])
           /\ Did("copy", a, b, FALSE, leaked)
  <2>1. Shown[a] = <<>>
    BY <1>2, EmptyIsSound DEF Shown
  <2>2. Seqs!Copy(a, b)
    BY <1>1, <1>2, <2>1, CallShown DEF Seqs!Copy
  <2> QED
    BY <2>2 DEF ShownStep, Seqs!Call
<1>3. CASE a # b /\ Items(y) = Items(arr[b]) /\ Did("assign", a, b, FALSE, leaked)
  <2>1. Seqs!Assign(a, b)
    BY <1>1, <1>3, CallShown DEF Seqs!Assign
  <2> QED
    BY <2>1 DEF ShownStep, Seqs!Call
<1>4. CASE Items(y) = <<>> /\ Did("clear", a, a, FALSE, leaked)
  <2>1. Seqs!Clear(a)
    BY <1>1, <1>4, CallShown DEF Seqs!Clear
  <2> QED
    BY <2>1 DEF ShownStep, Seqs!Call
<1>5. CASE Items(y) = Items(arr[a]) /\ \E op \in {"reserve", "shrink"} :
                                        Did(op, a, a, threw, leaked)
  <2>1. UNCHANGED Shown
    BY <1>1, <1>5 DEF Shown
  <2>2. Seqs!Replace(a)
    BY <1>5, <2>1, CallShown DEF Seqs!Replace
  <2> QED
    BY <2>2 DEF ShownStep, Seqs!Call
<1> QED
  BY <1>2, <1>3, <1>4, <1>5

\* The storage changes hands.
LEMMA MoveShown ==
  ASSUME Ready, NEW a \in Arrays, NEW b \in Arrays, a # b,
         arr' = [arr EXCEPT ![a] = arr[b], ![b] = Empty],
         Did("move", a, b, FALSE, FALSE)
  PROVE  ShownStep
<1>1. Shown' = [Shown EXCEPT ![a] = Shown[b], ![b] = <<>>]
  <2>1. /\ Shown' = [Shown EXCEPT ![a] = Items(arr[b]), ![b] = Items(Empty)]
        /\ Shown[a] = Items(arr[a]) /\ Shown[b] = Items(arr[b])
    BY TwoShown, Zenon
  <2> QED
    BY <2>1, EmptyIsSound, Zenon
<1>2. Seqs!Move(a, b)
  BY <1>1, CallShown DEF Seqs!Move
<1> QED
  BY <1>2 DEF ShownStep, Seqs!Call

\* The first k elements of an array become something else.
LEMMA PutShown ==
  ASSUME NEW x, IsArray(x), NEW k \in 0 .. x.last, NEW v
  PROVE  /\ Items(Put(x, 0, k, v)) = Seqs!Spoilt(Items(x), k, v)
         /\ k = x.last => Items(Put(x, 0, k, Moved)) = Seqs!AllMoved(Items(x))
<1> DEFINE c(w) == [i \in 0 .. x.capacity - 1 |-> IF i \in 0 .. 0 + k - 1 THEN w ELSE x.cell[i]]
<1>1. ASSUME NEW w
      PROVE  /\ Put(x, 0, k, w).last = x.last
             /\ \A i \in 1 .. x.last :
                  Put(x, 0, k, w).cell[i - 1] = IF i <= k THEN w ELSE x.cell[i - 1]
  <2>1. Put(x, 0, k, w) = [cell |-> c(w), last |-> x.last, capacity |-> x.capacity]
    BY WithField DEF Put, IsArray
  <2>2. x.last \in Nat /\ x.capacity \in Nat /\ x.last <= x.capacity
    BY ArrayAssumption DEF IsArray
  <2>3. \A i \in 1 .. x.last : c(w)[i - 1] = IF i <= k THEN w ELSE x.cell[i - 1]
    <3>1. ASSUME NEW i \in 1 .. x.last
          PROVE  i - 1 \in 0 .. x.capacity - 1 /\ (i - 1 \in 0 .. 0 + k - 1 <=> i <= k)
      BY <2>2
    <3> QED
      BY <3>1
  <2> HIDE DEF c
  <2> QED
    BY <2>1, <2>3
<1>2. ASSUME NEW w
      PROVE  Items(Put(x, 0, k, w)) = [i \in 1 .. x.last |-> IF i <= k THEN w ELSE Items(x)[i]]
  BY <1>1 DEF Items
<1>3. DOMAIN Items(x) = 1 .. x.last
  BY DEF Items
<1>4. Items(Put(x, 0, k, v)) = Seqs!Spoilt(Items(x), k, v)
  BY <1>2, <1>3 DEF Seqs!Spoilt
<1>5. ASSUME k = x.last PROVE Items(Put(x, 0, k, Moved)) = Seqs!AllMoved(Items(x))
  <2>1. x.last \in Nat /\ \A i \in 1 .. x.last : i <= k
    BY <1>5, ArrayAssumption DEF IsArray
  <2> QED
    BY <1>2, <1>3, <2>1 DEF Seqs!AllMoved
<1> QED
  BY <1>4, <1>5

\* A store through an iterator.
LEMMA StoreShown ==
  ASSUME Ready, NEW a \in Arrays, NEW i \in 0 .. arr[a].last - 1, NEW v \in Values, NEW y,
         y.last = arr[a].last, y.cell = [arr[a].cell EXCEPT ![i] = v],
         arr' = [arr EXCEPT ![a] = y], Did("store", a, a, FALSE, FALSE)
  PROVE  ShownStep
<1> DEFINE x == arr[a]  j == i + 1
<1>1. IsArray(x) /\ x.last \in Nat /\ x.capacity \in Nat /\ x.last <= x.capacity
  BY ReadyArray, Sizes
<1>2. j \in 1 .. x.last /\ \A l \in 1 .. x.last : /\ l - 1 \in 0 .. x.capacity - 1
                                                   /\ l - 1 = i <=> l = j
  BY <1>1
<1>3. \A l \in 1 .. x.last : y.cell[l - 1] = IF l = j THEN v ELSE x.cell[l - 1]
  BY <1>1, <1>2 DEF IsArray
<1>4. /\ Items(x) = [l \in 1 .. x.last |-> x.cell[l - 1]]
      /\ Items(y) = [l \in 1 .. x.last |-> y.cell[l - 1]]
  BY DEF Items
<1>5. Items(y) = [Items(x) EXCEPT ![j] = v]
  <2> DEFINE s == Items(x)  t == Items(y)  n == x.last
  <2>1. /\ s = [l \in 1 .. n |-> s[l]] /\ t = [l \in 1 .. n |-> t[l]]
        /\ \A l \in 1 .. n : t[l] = IF l = j THEN v ELSE s[l]
    BY <1>3, <1>4
  <2> HIDE DEF j, s, t, n
  <2>2. t = [s EXCEPT ![j] = v]
    BY <2>1
  <2> QED
    BY <2>2 DEF s, t
<1>6. /\ Shown' = [Shown EXCEPT ![a] = [Shown[a] EXCEPT ![j] = v]]
      /\ j \in DOMAIN Shown[a]
  <2>1. Shown' = [Shown EXCEPT ![a] = Items(y)] /\ Shown[a] = Items(x)
    BY OneShown, Zenon
  <2>2. DOMAIN Items(x) = 1 .. x.last
    BY <1>4
  <2> HIDE DEF j, x
  <2> QED
    BY <1>2, <1>5, <2>1, <2>2, Zenon
<1>7. Seqs!Store(a)
  <2> HIDE DEF j
  <2> QED
    BY <1>6, CallShown DEF Seqs!Store
<1> QED
  BY <1>7 DEF ShownStep, Seqs!Call

\* resize(), to fewer elements or to more.
LEMMA ResizeShown ==
  ASSUME Ready, NEW a \in Arrays, NEW n \in 0 .. MaxCapacity, NEW y, y.last = n,
         \A i \in 0 .. arr[a].last - 1 : i < n => y.cell[i] = arr[a].cell[i],
         \A i \in arr[a].last .. n - 1 : y.cell[i] = Default,
         arr' = [arr EXCEPT ![a] = y], Did("resize", a, a, FALSE, FALSE)
  PROVE  ShownStep
<1> DEFINE x == arr[a]
<1>1. x.last \in Nat /\ n \in Nat
  BY Sizes
<1>2. /\ Items(x) = [i \in 1 .. x.last |-> x.cell[i - 1]]
      /\ Items(y) = [i \in 1 .. n |-> y.cell[i - 1]]
  BY DEF Items
<1>3. ASSUME NEW i \in 1 .. n
      PROVE  y.cell[i - 1] = IF i \in 1 .. x.last THEN Items(x)[i] ELSE Default
  <2>1. CASE i \in 1 .. x.last
    <3>1. i - 1 \in 0 .. x.last - 1 /\ i - 1 < n
      BY <1>1, <2>1
    <3> QED
      BY <1>2, <2>1, <3>1
  <2>2. CASE i \notin 1 .. x.last
    <3>1. i - 1 \in x.last .. n - 1
      BY <1>1, <2>2
    <3> QED
      BY <2>2, <3>1
  <2> QED
    BY <2>1, <2>2
<1>4. Items(y) = Seqs!Resized(Items(x), n)
  <2>1. DOMAIN Items(x) = 1 .. x.last
    BY <1>2
  <2> HIDE DEF x
  <2> QED
    BY <1>2, <1>3, <2>1 DEF Seqs!Resized
<1>5. Shown' = [Shown EXCEPT ![a] = Seqs!Resized(Shown[a], n)]
  <2>1. Shown' = [Shown EXCEPT ![a] = Items(y)] /\ Shown[a] = Items(x)
    BY OneShown, Zenon
  <2> QED
    BY <1>4, <2>1, Zenon
<1>6. Seqs!Resize(a)
  BY <1>5, CallShown DEF Seqs!Resize
<1> QED
  BY <1>6 DEF ShownStep, Seqs!Call

\* A resize() that throws when its elements have left the old storage.
LEMMA ResizeMovedShown ==
  ASSUME Ready, NEW a \in Arrays, NEW leaked, Did("resize", a, a, TRUE, leaked),
         arr' = [arr EXCEPT ![a] = Put(arr[a], 0, arr[a].last, Moved)]
  PROVE  ShownStep
<1>1. Items(Put(arr[a], 0, arr[a].last, Moved)) = Seqs!AllMoved(Items(arr[a]))
  <2> DEFINE x == arr[a]  k == arr[a].last
  <2>1. IsArray(x) /\ k \in 0 .. x.last /\ k = x.last
    <3>1. IsArray(x)
      BY ReadyArray, Zenon
    <3>2. k \in Nat /\ k = x.last
      BY Sizes, Zenon
    <3> HIDE DEF k, x
    <3> QED
      BY <3>1, <3>2
  <2> HIDE DEF x, k
  <2>2. Items(Put(x, 0, k, Moved)) = Seqs!AllMoved(Items(x))
    BY <2>1, PutShown
  <2> QED
    BY <2>2 DEF x, k
<1>2. Shown' = [Shown EXCEPT ![a] = Seqs!AllMoved(Shown[a])]
  <2>1. /\ Shown' = [Shown EXCEPT ![a] = Items(Put(arr[a], 0, arr[a].last, Moved))]
        /\ Shown[a] = Items(arr[a])
    BY OneShown, Zenon
  <2> QED
    BY <1>1, <2>1, Zenon
<1>3. Seqs!Resize(a)
  BY <1>2, CallShown DEF Seqs!Resize
<1> QED
  BY <1>3 DEF ShownStep, Seqs!Call

\* An assignment into new storage, which moves the elements or some of them.
LEMMA AssignNewShown ==
  ASSUME Ready, NEW a \in Arrays, NEW b \in Arrays, a # b, NEW k \in 0 .. arr[b].last, NEW z,
         arr' = [arr EXCEPT ![a] = z, ![b] = Put(arr[b], 0, k, Moved)],
         \/ /\ k < arr[b].last /\ Items(z) = Items(arr[a])
            /\ Did("assign", a, b, TRUE, FALSE)
         \/ /\ k = arr[b].last /\ Items(z) = Items(arr[b])
            /\ Did("assign", a, b, FALSE, FALSE)
  PROVE  ShownStep
<1> DEFINE y == arr[b]
<1>1. IsArray(y) /\ y.last \in Nat
  BY ReadyArray, Sizes
<1>2. /\ Items(Put(y, 0, k, Moved)) = Seqs!Spoilt(Items(y), k, Moved)
      /\ k = y.last => Items(Put(y, 0, k, Moved)) = Seqs!AllMoved(Items(y))
  BY <1>1, PutShown
<1>3. /\ Shown' = [Shown EXCEPT ![a] = Items(z), ![b] = Items(Put(y, 0, k, Moved))]
      /\ Shown[a] = Items(arr[a]) /\ Shown[b] = Items(y)
  BY TwoShown, Zenon
<1>4. CASE /\ k < y.last /\ Items(z) = Items(arr[a])
           /\ Did("assign", a, b, TRUE, FALSE)
  <2>1. (k + 1) - 1 = k /\ k + 1 \in DOMAIN Shown[b]
    <3>1. k + 1 \in 1 .. y.last /\ (k + 1) - 1 = k
      BY <1>1, <1>4
    <3> QED
      BY <1>3, <3>1 DEF Items
  <2>2. Shown' = [Shown EXCEPT ![b] = Seqs!Spoilt(Shown[b], k, Moved)]
    <3>1. [Shown EXCEPT ![a] = Shown[a]] = Shown
      BY DEF Shown
    <3> QED
      BY <1>2, <1>3, <1>4, <3>1, Zenon
  <2>3. Seqs!AssignThrows(a, b)
    <3>1. \E j \in DOMAIN Shown[b] :
            Shown' = [Shown EXCEPT ![b] = Seqs!Spoilt(Shown[b], j - 1, Moved)]
      BY <2>1, <2>2, Zenon
    <3> QED
      BY <1>4, <3>1, CallShown DEF Seqs!AssignThrows
  <2> QED
    BY <2>3 DEF ShownStep, Seqs!Call
<1>5. CASE /\ k = y.last /\ Items(z) = Items(y)
           /\ Did("assign", a, b, FALSE, FALSE)
  <2>1. Shown' = [Shown EXCEPT ![a] = Shown[b], ![b] = Seqs!AllMoved(Shown[b])]
    BY <1>2, <1>3, <1>5, Zenon
  <2>2. Seqs!Assign(a, b)
    BY <1>5, <2>1, CallShown DEF Seqs!Assign
  <2> QED
    BY <2>2 DEF ShownStep, Seqs!Call
<1> QED
  BY <1>4, <1>5

\* An assignment in place that throws when it has assigned k elements, or when it
\* has assigned all there were and constructs more.
LEMMA AssignThrownShown ==
  ASSUME Ready, NEW a \in Arrays, NEW b \in Arrays, a # b, Did("assign", a, b, TRUE, FALSE), NEW y,
         arr' = [arr EXCEPT ![a] = y],
         \/ \E k \in 0 .. arr[a].last - 1 : y = Put(arr[a], 0, k, Raw)
         \/ /\ arr[a].last <= arr[b].last /\ y.last = arr[a].last
            /\ \A i \in 0 .. y.last - 1 : y.cell[i] = arr[b].cell[i]
  PROVE  ShownStep
<1> DEFINE x == arr[a]  z == arr[b]
<1>1. IsArray(x) /\ x.last \in Nat /\ z.last \in Nat
  BY ReadyArray, Sizes
<1>2. /\ Shown' = [Shown EXCEPT ![a] = Items(y)]
      /\ Shown[a] = Items(x) /\ Shown[b] = Items(z)
  BY OneShown DEF Shown
<1>3. DOMAIN Items(x) = 1 .. x.last /\ DOMAIN Items(z) = 1 .. z.last
  BY DEF Items
<1>4. ASSUME NEW k \in 0 .. x.last - 1, y = Put(x, 0, k, Raw)
      PROVE  ShownStep
  <2>1. k \in 0 .. x.last /\ (k + 1) - 1 = k /\ k + 1 \in 1 .. x.last
    BY <1>1
  <2>2. Items(y) = Seqs!Spoilt(Items(x), k, Raw)
    BY <1>1, <1>4, <2>1, PutShown
  <2>3. \E j \in DOMAIN Shown[a] :
          Shown' = [Shown EXCEPT ![a] = Seqs!Spoilt(Shown[a], j - 1, Raw)]
    <3> HIDE DEF x, z
    <3> QED
      BY <1>2, <1>3, <2>1, <2>2, Zenon
  <2>4. Seqs!AssignThrows(a, b)
    BY <2>3, CallShown DEF Seqs!AssignThrows
  <2> QED
    BY <2>4 DEF ShownStep, Seqs!Call
<1>5. CASE /\ x.last <= z.last /\ y.last = x.last
           /\ \A i \in 0 .. y.last - 1 : y.cell[i] = z.cell[i]
  <2>1. \A i \in 1 .. x.last : i \in 1 .. z.last /\ y.cell[i - 1] = z.cell[i - 1]
    <3>1. \A i \in 1 .. x.last : i \in 1 .. z.last /\ i - 1 \in 0 .. y.last - 1
      BY <1>1, <1>5
    <3> QED
      BY <1>5, <3>1
  <2>2. \A i \in 1 .. x.last : Items(z)[i] = y.cell[i - 1]
    BY <2>1 DEF Items
  <2>3. Items(y) = [i \in 1 .. x.last |-> Items(z)[i]]
    <3>1. Items(y) = [i \in 1 .. x.last |-> y.cell[i - 1]]
      BY <1>5 DEF Items
    <3> HIDE DEF x, z
    <3> QED
      BY <2>2, <3>1
  <2>4. DOMAIN Shown[a] = 1 .. x.last /\ DOMAIN Shown[b] = 1 .. z.last
    BY <1>2, <1>3, Zenon
  <2>5. /\ DOMAIN Shown[a] \subseteq DOMAIN Shown[b]
        /\ Shown' = [Shown EXCEPT ![a] = [i \in DOMAIN Shown[a] |-> Shown[b][i]]]
    <3>1. DOMAIN Shown[a] \subseteq DOMAIN Shown[b]
      <4> HIDE DEF x, z
      <4> QED
        BY <2>1, <2>4
    <3>2. Shown' = [Shown EXCEPT ![a] = [i \in DOMAIN Shown[a] |-> Shown[b][i]]]
      BY <1>2, <2>3, <2>4, Zenon
    <3> QED
      BY <3>1, <3>2
  <2>6. Seqs!AssignThrows(a, b)
    BY <2>5, CallShown DEF Seqs!AssignThrows
  <2> QED
    BY <2>6 DEF ShownStep, Seqs!Call
<1> QED
  BY <1>4, <1>5

-----------------------------------------------------------------------------
(* One lemma per call.                                                      *)

\* The constructors.
LEMMA ConstructIsFine == ASSUME Ready, NEW a \in Arrays, Construct(a) PROVE Fine
<1>1. \A v \in Values : v \in Elements
  BY DEF Elements
<1>2. Default \in Elements
  BY DEF Elements
<1>0. arr[a] = Empty
  BY DEF Construct
<1>3. ASSUME NEW n \in 1 .. MaxCapacity, NEW v \in Values \union {Default},
             NEW k \in 0 .. n,
             arr' = [arr EXCEPT ![a] = IF k < n THEN Empty
                                       ELSE Storage([i \in 1 .. n |-> v], n)],
             Did("construct", a, a, k < n, FALSE)
      PROVE  Fine
  <2>1. /\ IsArray(Storage([i \in 1 .. n |-> v], n))
        /\ IsSound(Storage([i \in 1 .. n |-> v], n))
    <3>1. v \in Elements
      BY <1>1, <1>2
    <3> QED
      BY <3>1, CopiesAreElements, StorageIsSound, ArrayAssumption
  <2>2. ArraysInv' /\ Sound'
    BY <1>3, <2>1, EmptyIsSound, OneReplaced
  <2>3. ShownStep
    <3>1. CASE k < n
      <4>1. (k < n) = TRUE
        BY <3>1
      <4>2. UNCHANGED arr
        BY <1>0, <1>3, <3>1, ReadyArray
      <4>3. Did("construct", a, a, TRUE, FALSE)
        BY <1>3, <4>1, Zenon
      <4> QED
        BY <1>0, <4>2, <4>3, NothingShown
    <3>2. CASE ~(k < n)
      <4>1. (k < n) = FALSE
        BY <3>2
      <4>2. arr' = [arr EXCEPT ![a] = Storage([i \in 1 .. n |-> v], n)]
        BY <1>3, <3>2
      <4>3. Did("construct", a, a, FALSE, FALSE)
        BY <1>3, <4>1, Zenon
      <4> QED
        BY <1>0, <4>2, <4>3, ConstructShown, Zenon
    <3> QED
      BY <3>1, <3>2
  <2> QED
    BY <1>3, <2>2, <2>3 DEF Fine, Did, Calls, Ops, LeakStep, IntactStep, ArriveStep, Construct
<1>4. ASSUME Terminate(a, a) PROVE Fine
  <2>1. ShownStep
    BY <1>4, NothingShown DEF Terminate
  <2> QED
    BY <1>4, <2>1, NothingReplaced
     DEF Fine, Terminate, Did, Calls, Ops, LeakStep, IntactStep, ArriveStep, Construct
<1>5. PICK n \in 1 .. MaxCapacity :
        \/ \E v \in Values, k \in Done(n, "copy") :
             /\ arr' = [arr EXCEPT ![a] = IF k < n THEN Empty
                                          ELSE Storage([i \in 1 .. n |-> v], n)]
             /\ Did("construct", a, a, k < n, FALSE)
        \/ \E k \in Done(n, "default") :
             \/ Terminate(a, a)
             \/ /\ arr' = [arr EXCEPT ![a] = IF k < n THEN Empty
                                    ELSE Storage([i \in 1 .. n |-> Default], n)]
                /\ Did("construct", a, a, k < n, FALSE)
  BY DEF Construct
<1>6. \A k \in Done(n, "copy") \union Done(n, "default") : k \in 0 .. n
  BY ArrayAssumption, SomeDone
<1> QED
  BY <1>1, <1>2, <1>3, <1>4, <1>5, <1>6, Zenon

\* heap_array(const heap_array&).
LEMMA CopyConstructIsFine ==
  ASSUME Ready, NEW a \in Arrays, NEW b \in Arrays, CopyConstruct(a, b) PROVE Fine
<1> DEFINE y == Storage(Items(arr[b]), arr[b].capacity)
<1>1. IsArray(y) /\ IsSound(y) /\ Items(y) = Items(arr[b])
  <2>1. /\ Items(arr[b]) \in Seq(Elements) /\ Len(Items(arr[b])) <= arr[b].capacity
        /\ arr[b].capacity \in 0 .. MaxCapacity
    <3>1. Items(arr[b]) \in Seq(Elements) /\ Len(Items(arr[b])) = arr[b].last
      BY ReadyArray, Zenon
    <3> QED
      BY <3>1, Sizes
  <2> QED
    BY <2>1, StorageIsSound, Zenon
<1>2. \/ Terminate(a, b)
      \/ arr' = [arr EXCEPT ![a] = y] /\ Did("copy", a, b, FALSE, FALSE)
  BY Zenon DEF CopyConstruct
<1>3. throws' = throws
  BY DEF CopyConstruct
<1>4. CASE Terminate(a, b)
  <2>1. ShownStep
    BY <1>4, NothingShown DEF Terminate
  <2> QED
    BY <1>3, <1>4, <2>1, NothingReplaced
     DEF Fine, Terminate, Did, Calls, Ops, LeakStep, IntactStep, ArriveStep
<1>5. CASE arr' = [arr EXCEPT ![a] = y] /\ Did("copy", a, b, FALSE, FALSE)
  <2>1. ArraysInv' /\ Sound' /\ arr'[a] = y
    BY <1>1, <1>5, OneReplaced
  <2>2. a # b /\ arr[a] = Empty
    BY DEF CopyConstruct
  <2> HIDE DEF y
  <2>3. ShownStep
    BY <1>1, <1>5, <2>2, ItemsShown
  <2> QED
    BY <1>1, <1>3, <1>5, <2>1, <2>3
       DEF Fine, Did, Calls, Ops, LeakStep, IntactStep, ArriveStep
<1> QED
  BY <1>2, <1>4, <1>5

\* The storage changes hands: heap_array(heap_array&&) and its assignment.
LEMMA MovesAreFine ==
  ASSUME Ready, NEW a \in Arrays, NEW b \in Arrays,
         MoveConstruct(a, b) \/ MoveAssign(a, b)
  PROVE  Fine
<1>1. /\ a # b /\ arr' = [arr EXCEPT ![a] = arr[b], ![b] = Empty] /\ throws' = throws
      /\ Did("move", a, b, FALSE, FALSE)
  BY ReadyArray DEF MoveConstruct, MoveAssign
<1>2. ArraysInv' /\ Sound' /\ arr'[a] = arr[b]
  <2>1. IsArray(arr[b]) /\ IsSound(arr[b]) /\ IsArray(Empty) /\ IsSound(Empty)
    BY ReadyArray, EmptyIsSound, Zenon
  <2>2. a # b /\ arr' = [arr EXCEPT ![a] = arr[b], ![b] = Empty]
    BY <1>1
  <2>3. ArraysInv' /\ Sound' /\ arr'[a] = arr[b] /\ arr'[b] = Empty
    BY <2>1, <2>2, TwoReplaced, Zenon
  <2> QED
    BY <2>3
<1>3. /\ did' \in Calls /\ did'.op = "move" /\ did'.to = a /\ did'.from = b
      /\ did'.threw = FALSE /\ did'.leaked = FALSE
  BY <1>1, Recorded DEF Ops
<1>4. ShownStep
  BY <1>1, MoveShown, Zenon
<1> QED
  BY <1>1, <1>2, <1>3, <1>4 DEF Fine, LeakStep, IntactStep, ArriveStep

\* clear(), and a store through an iterator.
LEMMA ClearIsFine == ASSUME Ready, NEW a \in Arrays, Clear(a) PROVE Fine
<1>1. ArraysInv' /\ Sound'
  BY EmptyIsSound, OneReplaced DEF Clear
<1>2. ShownStep
  BY EmptyIsSound, ItemsShown DEF Clear
<1> QED
  BY <1>1, <1>2, ReadyArray
     DEF Clear, Fine, Did, Calls, Ops, LeakStep, IntactStep, ArriveStep

\* Writing to an element changes no count.
LEMMA StoreIsFine == ASSUME Ready, NEW a \in Arrays, Store(a) PROVE Fine
<1> DEFINE x == arr[a]
<1>1. PICK i \in 0 .. x.last - 1, v \in Values : arr' = [arr EXCEPT ![a].cell[i] = v]
  BY DEF Store
<1> DEFINE c == [x.cell EXCEPT ![i] = v]
           y == [cell |-> c, last |-> x.last, capacity |-> x.capacity]
<1>2. IsArray(x) /\ IsSound(x) /\ v \in Elements
  BY ReadyArray DEF Elements
<1>3. IsArray(y) /\ IsSound(y)
  <2>1. c \in [0 .. x.capacity - 1 -> Elements \union {Raw}]
    BY <1>2 DEF IsArray
  <2>2. \A k \in 0 .. x.capacity - 1 : c[k] = Raw <=> k >= x.last
    BY <1>2, ElementsAreNotRaw DEF IsArray, IsSound
  <2>3. x.last \in 0 .. x.capacity
    BY <1>2 DEF IsArray
  <2> HIDE DEF c, x
  <2> QED
    BY <1>2, <2>1, <2>2, <2>3, RefilledIsSound
<1>4. arr' = [arr EXCEPT ![a] = y]
  <2>1. arr' = [arr EXCEPT ![a] = [x EXCEPT !.cell = c]]
    BY <1>1
  <2> QED
    BY <2>1, <1>2, WithField
<1>5. ArraysInv' /\ Sound'
  <2> HIDE DEF y
  <2> QED
    BY <1>3, <1>4, OneReplaced
<1>6. ShownStep
  <2>1. y.last = x.last /\ y.cell = [x.cell EXCEPT ![i] = v]
    OBVIOUS
  <2>2. Did("store", a, a, FALSE, FALSE)
    BY DEF Store
  <2> HIDE DEF y
  <2> QED
    BY <1>4, <2>1, <2>2, StoreShown
<1> QED
  BY <1>5, <1>6 DEF Store, Fine, Did, Calls, Ops, LeakStep, IntactStep, ArriveStep

\* _reallocate, for a call that asks for n cells.
LEMMA ReallocateIsFine ==
  ASSUME Ready, NEW a \in Arrays, NEW op \in {"reserve", "shrink"},
         NEW n \in arr[a].last .. MaxCapacity, Reallocate(op, a, n), throws' = throws
  PROVE  Fine
<1> DEFINE x == arr[a]  y == Storage(Items(x), n)
<1>1. /\ IsArray(x) /\ IsSound(x) /\ [arr EXCEPT ![a] = x] = arr /\ CleanupLeaks(x) = FALSE
      /\ Items(x) \in Seq(Elements) /\ Len(Items(x)) <= n /\ n \in 0 .. MaxCapacity
  <2>1. /\ IsArray(x) /\ IsSound(x) /\ [arr EXCEPT ![a] = x] = arr
        /\ CleanupLeaks(x) = FALSE
        /\ Items(x) \in Seq(Elements) /\ Len(Items(x)) = x.last
    BY ReadyArray, Zenon
  <2>2. x.last <= n /\ n \in 0 .. MaxCapacity
    BY Sizes
  <2> QED
    BY <2>1, <2>2
<1>2. IsArray(y) /\ IsSound(y) /\ Items(y) = Items(x)
  BY <1>1, StorageIsSound, Zenon
<1>3. \/ /\ arr' = [arr EXCEPT ![a] = x]
         /\ Did(op, a, a, TRUE, FALSE)
      \/ /\ arr' = [arr EXCEPT ![a] = y]
         /\ Did(op, a, a, FALSE, FALSE)
  <2>1. x.last \in Nat /\ \A k \in Done(x.last, "copy") : k \in 0 .. x.last
    BY Sizes, SomeDone
  <2>2. PICK k \in 0 .. x.last :
          /\ arr' = [arr EXCEPT ![a] = IF k < x.last THEN x ELSE y]
          /\ Did(op, a, a, k < x.last, k = x.last /\ CleanupLeaks(x))
    <3>1. \A k \in IF NothrowMove THEN {x.last} ELSE Done(x.last, "copy") : k \in 0 .. x.last
      BY <2>1
    <3> QED
      BY <3>1, Zenon DEF Reallocate
  <2>3. CASE k < x.last
    <3>1. (k < x.last) = TRUE /\ (k = x.last /\ CleanupLeaks(x)) = FALSE
      BY <2>1, <2>3
    <3> QED
      BY <2>2, <3>1, Zenon
  <2>4. CASE ~(k < x.last)
    <3>1. (k < x.last) = FALSE /\ (k = x.last /\ CleanupLeaks(x)) = FALSE
      BY <2>1, <2>4, <1>1
    <3> QED
      BY <2>2, <3>1, Zenon
  <2> QED
    BY <2>3, <2>4
<1> HIDE DEF y
<1>4. CASE /\ arr' = [arr EXCEPT ![a] = x]
           /\ Did(op, a, a, TRUE, FALSE)
  <2>1. UNCHANGED arr /\ ArraysInv' /\ Sound'
    BY <1>1, <1>4, NothingReplaced
  <2>2. ShownStep
    BY <1>4, ItemsShown
  <2> QED
    BY <1>4, <2>1, <2>2 DEF Fine, Did, Calls, Ops, LeakStep, IntactStep, ArriveStep
<1>5. CASE /\ arr' = [arr EXCEPT ![a] = y]
           /\ Did(op, a, a, FALSE, FALSE)
  <2>1. ArraysInv' /\ Sound' /\ arr'[a] = y
    BY <1>2, <1>5, OneReplaced
  <2>2. ShownStep
    BY <1>2, <1>5, ItemsShown
  <2> QED
    BY <1>2, <1>5, <2>1, <2>2 DEF Fine, Did, Calls, Ops, LeakStep, IntactStep, ArriveStep
<1> QED
  BY <1>3, <1>4, <1>5

\* reserve is a reallocation to the capacity asked for.
LEMMA ReserveIsFine == ASSUME Ready, NEW a \in Arrays, Reserve(a) PROVE Fine
<1>1. PICK n \in arr[a].capacity + 1 .. MaxCapacity : Reallocate("reserve", a, n)
  BY DEF Reserve
<1>2. n \in arr[a].last .. MaxCapacity
  BY Sizes
<1> QED
  BY <1>1, <1>2, ReallocateIsFine DEF Reserve

\* shrink_to_fit is one to the size, or gives all storage back.
LEMMA ShrinkIsFine == ASSUME Ready, NEW a \in Arrays, ShrinkToFit(a) PROVE Fine
<1>1. CASE arr[a].last = 0
  <2>1. /\ arr' = [arr EXCEPT ![a] = Empty] /\ throws' = throws
        /\ Did("shrink", a, a, FALSE, FALSE)
    BY <1>1, ReadyArray DEF ShrinkToFit
  <2>2. ArraysInv' /\ Sound' /\ arr'[a] = Empty
    BY <2>1, EmptyIsSound, OneReplaced
  <2>3. Items(arr[a]) = Items(Empty)
    BY <1>1 DEF Items, Empty, Storage
  <2>4. ShownStep
    BY <2>1, <2>3, ItemsShown
  <2> QED
    BY <2>1, <2>2, <2>3, <2>4 DEF Fine, Did, Calls, Ops, LeakStep, IntactStep, ArriveStep
<1>2. CASE arr[a].last # 0
  <2>1. Reallocate("shrink", a, arr[a].last) /\ throws' = throws
    BY <1>2 DEF ShrinkToFit
  <2>2. arr[a].last \in arr[a].last .. MaxCapacity
    BY Sizes
  <2> QED
    BY <2>1, <2>2, ReallocateIsFine
<1> QED
  BY <1>1, <1>2

\* What a resize keeps of the elements is said of the cells.
LEMMA PrefixArrives ==
  ASSUME NEW x, NEW y, x.last \in Nat, y.last \in Nat,
         \A i \in 0 .. x.last - 1 : i < y.last => y.cell[i] = x.cell[i]
  PROVE  \A i \in DOMAIN Items(x) \intersect DOMAIN Items(y) : Items(y)[i] = Items(x)[i]
<1> SUFFICES ASSUME NEW i \in 1 .. x.last, i \in 1 .. y.last
             PROVE  Items(y)[i] = Items(x)[i]
  BY DEF Items
<1>1. i - 1 \in 0 .. x.last - 1 /\ i - 1 < y.last
  OBVIOUS
<1> QED
  BY <1>1 DEF Items

\* resize() within the capacity, to fewer elements or to more.
LEMMA ResizeWithinIsFine ==
  ASSUME Ready, NEW a \in Arrays, ResizeDown(a) \/ ResizeUp(a) PROVE Fine
<1> DEFINE x == arr[a]
           y(n) == IF n < x.last THEN [Put(x, n, x.last - n, Raw) EXCEPT !.last = n]
                   ELSE [Put(x, x.last, n - x.last, Default) EXCEPT !.last = n]
<1>0. x.last \in Nat /\ x.capacity \in Nat /\ x.last <= x.capacity
  BY Sizes
<1>1. throws' = throws
  BY DEF ResizeDown, ResizeUp
<1>2. \/ /\ UNCHANGED arr
         /\ Did("resize", a, a, TRUE, FALSE)
      \/ \E n \in 0 .. x.capacity : /\ arr' = [arr EXCEPT ![a] = y(n)]
                                    /\ Did("resize", a, a, FALSE, FALSE)
  <2>1. CASE ResizeDown(a)
    <3>1. PICK n \in 0 .. x.last - 1 :
            arr' = [arr EXCEPT ![a] = [Put(x, n, x.last - n, Raw) EXCEPT !.last = n]]
      BY <2>1 DEF ResizeDown
    <3>2. n < x.last /\ n \in 0 .. x.capacity
      BY <1>0
    <3>3. Did("resize", a, a, FALSE, FALSE)
      BY <2>1 DEF ResizeDown
    <3> QED
      BY <3>1, <3>2, <3>3
  <2>2. CASE ResizeUp(a)
    <3>0. PICK n \in x.last + 1 .. x.capacity : \E k \in Done(n - x.last, "default") :
            /\ arr' = [arr EXCEPT ![a] =
                         IF k < n - x.last THEN x
                         ELSE [Put(x, x.last, k, Default) EXCEPT !.last = n]]
            /\ Did("resize", a, a, k < n - x.last, FALSE)
      BY <2>2, Zenon DEF ResizeUp
    <3>1. PICK k \in Done(n - x.last, "default") :
            /\ arr' = [arr EXCEPT ![a] =
                         IF k < n - x.last THEN x
                         ELSE [Put(x, x.last, k, Default) EXCEPT !.last = n]]
            /\ Did("resize", a, a, k < n - x.last, FALSE)
      BY <3>0
    <3>2. n \in 0 .. x.capacity /\ ~(n < x.last) /\ n - x.last \in Nat
      BY <1>0
    <3>3. k \in 0 .. n - x.last
      BY <3>2, SomeDone
    <3>4. CASE k < n - x.last
      <4>1. (k < n - x.last) = TRUE
        BY <3>4
      <4>2. UNCHANGED arr
        BY <3>1, <3>4, ReadyArray
      <4> QED
        BY <3>1, <4>1, <4>2, Zenon
    <3>5. CASE ~(k < n - x.last)
      <4>1. k = n - x.last /\ (k < n - x.last) = FALSE
        BY <3>2, <3>3, <3>5
      <4>2. arr' = [arr EXCEPT ![a] = y(n)]
        BY <3>1, <3>2, <3>5, <4>1
      <4>3. Did("resize", a, a, FALSE, FALSE)
        BY <3>1, <4>1, Zenon
      <4> QED
        BY <3>2, <4>2, <4>3
    <3> QED
      BY <3>4, <3>5
  <2> QED
    BY <2>1, <2>2
<1>3. CASE UNCHANGED arr /\ Did("resize", a, a, TRUE, FALSE)
  <2>1. ShownStep
    BY <1>3, NothingShown
  <2> QED
    BY <1>1, <1>3, <2>1, NothingReplaced
     DEF Fine, Did, Calls, Ops, LeakStep, IntactStep, ArriveStep
<1>4. ASSUME NEW n \in 0 .. x.capacity, arr' = [arr EXCEPT ![a] = y(n)],
             Did("resize", a, a, FALSE, FALSE)
      PROVE  Fine
  <2>1. /\ IsArray(y(n)) /\ IsSound(y(n)) /\ y(n).last = n
        /\ \A i \in 0 .. x.last - 1 : i < n => y(n).cell[i] = x.cell[i]
        /\ \A i \in x.last .. n - 1 : y(n).cell[i] = Default
    <3>1. IsArray(x) /\ IsSound(x)
      BY ReadyArray, Zenon
    <3> HIDE DEF x
    <3> QED
      BY <3>1, ResizedIsSound
  <2>2. ArraysInv' /\ Sound' /\ arr'[a] = y(n)
    <3> HIDE DEF y
    <3> QED
      BY <1>4, <2>1, OneReplaced
  <2>3. \A i \in DOMAIN Items(x) \intersect DOMAIN Items(arr'[a]) :
          Items(arr'[a])[i] = Items(x)[i]
    <3>1. n \in Nat /\ y(n).last \in Nat /\ x.last \in Nat
      BY <1>0, <2>1
    <3> HIDE DEF y, x
    <3> QED
      BY <3>1, <2>1, <2>2, PrefixArrives
  <2>4. ShownStep
    <3>1. n \in 0 .. MaxCapacity
      BY Sizes
    <3> HIDE DEF y
    <3> QED
      BY <1>4, <2>1, <3>1, ResizeShown
  <2> QED
    BY <1>1, <1>4, <2>2, <2>3, <2>4
       DEF Fine, Did, Calls, Ops, LeakStep, IntactStep, ArriveStep
<1> QED
  BY <1>2, <1>3, <1>4

\* Some elements moved from.
LEMMA MovedOutIsSound ==
  ASSUME Ready, NEW a \in Arrays, NEW k \in 0 .. arr[a].last
  PROVE  IsArray(Put(arr[a], 0, k, Moved)) /\ IsSound(Put(arr[a], 0, k, Moved))
<1>1. Moved \in Elements
  BY DEF Elements
<1>2. k \in Nat /\ 0 \in Nat /\ 0 + k <= arr[a].last
  BY Sizes
<1>3. IsArray(arr[a]) /\ IsSound(arr[a])
  BY ReadyArray
<1> QED
  BY <1>1, <1>2, <1>3, PutKeepsSound, Zenon

\* The elements of an array with default elements behind them.
LEMMA ExtendedIsSound ==
  ASSUME Ready, NEW a \in Arrays, NEW n \in arr[a].last .. MaxCapacity
  PROVE  LET y == Storage(Items(arr[a]) \o [i \in 1 .. n - arr[a].last |-> Default], n)
         IN  /\ IsArray(y) /\ IsSound(y) /\ y.last = n
             /\ \A i \in 0 .. arr[a].last - 1 : y.cell[i] = arr[a].cell[i]
             /\ \A i \in arr[a].last .. n - 1 : y.cell[i] = Default
<1> DEFINE x == arr[a]  s == Items(x)  t == [i \in 1 .. n - x.last |-> Default]
<1>1. x.last \in Nat /\ n \in 0 .. MaxCapacity /\ n - x.last \in Nat
  BY Sizes
<1>2. s \in Seq(Elements) /\ Len(s) = x.last
  BY ReadyArray, Zenon
<1>3. t \in Seq(Elements) /\ Len(t) = n - x.last
  <2>1. Default \in Elements
    BY DEF Elements
  <2> QED
    BY <1>1, <2>1, CopiesAreElements
<1>4. \A i \in 1 .. x.last : s[i] = x.cell[i - 1]
  BY ReadyArray, ItemsOf
<1>5. s \o t \in Seq(Elements) /\ Len(s \o t) = n /\ n <= n
  <2> HIDE DEF s, t, x
  <2>1. s \in Seq(Elements) /\ t \in Seq(Elements)
    BY <1>2, <1>3
  <2>2. s \o t \in Seq(Elements) /\ Len(s \o t) = Len(s) + Len(t)
    BY <2>1
  <2>3. x.last + (n - x.last) = n /\ n <= n
    BY <1>1
  <2> QED
    BY <1>2, <1>3, <2>2, <2>3, Zenon
<1>6. \A i \in 1 .. x.last : (s \o t)[i] = s[i]
  <2> HIDE DEF s, t, x
  <2> QED
    BY <1>1, <1>2, <1>3
<1>7. /\ IsArray(Storage(s \o t, n)) /\ IsSound(Storage(s \o t, n))
      /\ Storage(s \o t, n).last = n
  <2> HIDE DEF s, t, x
  <2> QED
    BY <1>1, <1>5, StorageIsSound
<1>8. \A i \in 0 .. x.last - 1 : Storage(s \o t, n).cell[i] = x.cell[i]
  <2>1. Storage(s \o t, n).cell
          = [i \in 0 .. n - 1 |-> IF i < Len(s \o t) THEN (s \o t)[i + 1] ELSE Raw]
    BY DEF Storage
  <2>2. \A i \in 0 .. x.last - 1 : /\ i \in 0 .. n - 1 /\ i < n
                                   /\ i + 1 \in 1 .. x.last /\ (i + 1) - 1 = i
    BY <1>1
  <2> HIDE DEF s, t, x
  <2> QED
    BY <1>4, <1>5, <1>6, <2>1, <2>2
<1>9. \A i \in x.last .. n - 1 : Storage(s \o t, n).cell[i] = Default
  <2>1. Storage(s \o t, n).cell
          = [i \in 0 .. n - 1 |-> IF i < Len(s \o t) THEN (s \o t)[i + 1] ELSE Raw]
    BY DEF Storage
  <2>2. ASSUME NEW i \in x.last .. n - 1
        PROVE  /\ i \in 0 .. n - 1 /\ i < n
               /\ i + 1 \in x.last + 1 .. n /\ (i + 1) - x.last \in 1 .. n - x.last
    BY <1>1
  <2>3. \A j \in 1 .. n - x.last : t[j] = Default
    OBVIOUS
  <2>4. \A i \in x.last + 1 .. n : (s \o t)[i] = t[i - x.last]
    <3> DEFINE m == x.last
    <3>1. /\ s \in Seq(Elements) /\ t \in Seq(Elements) /\ m \in Nat /\ n \in Nat
          /\ Len(s) = m /\ Len(t) = n - m
      BY <1>1, <1>2, <1>3
    <3> HIDE DEF s, t, x, m
    <3>2. \A i \in 1 .. Len(s) + Len(t) :
            (s \o t)[i] = IF i <= Len(s) THEN s[i] ELSE t[i - Len(s)]
      BY <3>1
    <3>3. \A i \in m + 1 .. n : i \in 1 .. Len(s) + Len(t) /\ ~(i <= Len(s))
      BY <3>1
    <3>4. \A i \in m + 1 .. n : (s \o t)[i] = t[i - m]
      BY <3>1, <3>2, <3>3
    <3> QED
      BY <3>4 DEF m
  <2> HIDE DEF s, t, x
  <2> QED
    BY <1>5, <2>1, <2>2, <2>3, <2>4
<1> QED
  BY <1>7, <1>8, <1>9

\* resize() beyond the capacity.
LEMMA ResizeBeyondIsFine ==
  ASSUME Ready, NEW a \in Arrays, ResizeReallocate(a) PROVE Fine
<1> DEFINE x == arr[a]
           y(n) == Storage(Items(x) \o [i \in 1 .. n - x.last |-> Default], n)
<1>0. /\ x.last \in Nat /\ x.capacity \in Nat /\ x.last <= x.capacity
      /\ [arr EXCEPT ![a] = x] = arr /\ CleanupLeaks(x) = FALSE
  BY Sizes, ReadyArray
<1>1. throws' = throws
  BY DEF ResizeReallocate
<1>2. PICK n \in x.capacity + 1 .. MaxCapacity :
        \/ \E k \in Done(n - x.last, "default") :
             IF k < n - x.last
             THEN /\ arr' = [arr EXCEPT ![a] = IF NothrowMove
                                               THEN Put(x, 0, x.last, Moved) ELSE x]
                  /\ Did("resize", a, a, TRUE, x.last > 0)
             ELSE /\ arr' = [arr EXCEPT ![a] =
                               Storage(Items(x) \o [i \in 1 .. k |-> Default], n)]
                  /\ Did("resize", a, a, FALSE, CleanupLeaks(x))
        \/ UNCHANGED arr /\ Did("resize", a, a, TRUE, FALSE)
  BY Zenon DEF ResizeReallocate
<1>3. n \in x.last .. MaxCapacity /\ n - x.last \in Nat
  BY <1>0, Sizes
<1>4. CASE UNCHANGED arr /\ Did("resize", a, a, TRUE, FALSE)
  <2>1. ShownStep
    BY <1>4, NothingShown
  <2> QED
    BY <1>1, <1>4, <2>1, NothingReplaced
     DEF Fine, Did, Calls, Ops, LeakStep, IntactStep, ArriveStep
<1>5. CASE /\ arr' = [arr EXCEPT ![a] = IF NothrowMove
                                        THEN Put(x, 0, x.last, Moved) ELSE x]
           /\ Did("resize", a, a, TRUE, x.last > 0)
  <2>1. IsArray(Put(x, 0, x.last, Moved)) /\ IsSound(Put(x, 0, x.last, Moved))
    BY <1>0, MovedOutIsSound
  <2>2. ArraysInv' /\ Sound' /\ (~NothrowMove => UNCHANGED arr)
    BY <1>0, <1>5, <2>1, ReadyArray, OneReplaced
  <2>3. ShownStep
    <3>1. CASE NothrowMove
      BY <1>5, <3>1, ResizeMovedShown
    <3>2. CASE ~NothrowMove
      BY <1>5, <2>2, <3>2, NothingShown
    <3> QED
      BY <3>1, <3>2
  <2> QED
    BY <1>1, <1>5, <2>2, <2>3 DEF Fine, Did, Calls, Ops, LeakStep, IntactStep, ArriveStep
<1>6. CASE arr' = [arr EXCEPT ![a] = y(n)] /\ Did("resize", a, a, FALSE, FALSE)
  <2>1. /\ IsArray(y(n)) /\ IsSound(y(n)) /\ y(n).last = n
        /\ \A i \in 0 .. x.last - 1 : y(n).cell[i] = x.cell[i]
        /\ \A i \in x.last .. n - 1 : y(n).cell[i] = Default
    BY <1>3, ExtendedIsSound
  <2>2. ArraysInv' /\ Sound' /\ arr'[a] = y(n)
    <3> HIDE DEF y
    <3> QED
      BY <1>6, <2>1, OneReplaced
  <2>3. \A i \in DOMAIN Items(x) \intersect DOMAIN Items(arr'[a]) :
          Items(arr'[a])[i] = Items(x)[i]
    <3>1. n \in Nat /\ y(n).last \in Nat
      BY <1>0, <1>3, <2>1
    <3> HIDE DEF y, x
    <3> QED
      BY <1>0, <3>1, <2>1, <2>2, PrefixArrives
  <2>4. ShownStep
    <3>1. n \in 0 .. MaxCapacity
      BY <1>0, <1>3
    <3> HIDE DEF y
    <3> QED
      BY <1>6, <2>1, <3>1, ResizeShown
  <2> QED
    BY <1>1, <1>6, <2>2, <2>3, <2>4
       DEF Fine, Did, Calls, Ops, LeakStep, IntactStep, ArriveStep
<1>7. ASSUME NEW k \in Done(n - x.last, "default"), ~(k < n - x.last)
      PROVE  k = n - x.last
  <2>1. k \in 0 .. n - x.last
    BY <1>3, <1>7, SomeDone
  <2> QED
    BY <1>3, <1>7, <2>1
<1> QED
  BY <1>0, <1>2, <1>4, <1>5, <1>6, <1>7, Zenon

\* Assignment from an array without elements.
LEMMA AssignEmptyIsFine ==
  ASSUME Ready, NEW a \in Arrays, NEW b \in Arrays, AssignEmpty(a, b) PROVE Fine
<1>1. throws' = throws /\ arr[b].last = 0 /\ a # b
  BY DEF AssignEmpty
<1>2. CASE UNCHANGED arr /\ Did("assign", a, b, FALSE, FALSE)
  <2>1. ShownStep
    BY <1>1, <1>2, NothingShown
  <2> QED
    BY <1>1, <1>2, <2>1, NothingReplaced
     DEF Fine, Did, Calls, Ops, LeakStep, IntactStep, ArriveStep
<1>3. CASE /\ arr' = [arr EXCEPT ![a] = Storage(<<>>, arr[b].capacity)]
           /\ Did("assign", a, b, FALSE, Live(arr[a]) # {})
  <2>1. <<>> \in Seq(Elements) /\ Len(<<>>) = 0
    OBVIOUS
  <2>2. arr[b].capacity \in 0 .. MaxCapacity /\ Len(<<>>) <= arr[b].capacity
    BY <2>1, Sizes
  <2>3. /\ IsArray(Storage(<<>>, arr[b].capacity))
        /\ IsSound(Storage(<<>>, arr[b].capacity))
        /\ Items(Storage(<<>>, arr[b].capacity)) = <<>>
    BY <2>1, <2>2, StorageIsSound, Zenon
  <2>4. ArraysInv' /\ Sound'
    BY <1>3, <2>3, OneReplaced
  <2>5. ShownStep
    <3>1. Items(Storage(<<>>, arr[b].capacity)) = Items(arr[b])
      BY <1>1, <2>3, NoItems, Zenon
    <3>2. PICK l : l = (Live(arr[a]) # {})
      OBVIOUS
    <3>3. Did("assign", a, b, FALSE, l)
      BY <1>3, <3>2, Zenon
    <3> QED
      BY <1>1, <1>3, <3>1, <3>3, ItemsShown
  <2> QED
    BY <1>1, <1>3, <2>4, <2>5 DEF Fine, Did, Calls, Ops, LeakStep, IntactStep, ArriveStep
<1> QED
  BY <1>2, <1>3, Zenon DEF AssignEmpty

\* Assignment into new storage.
LEMMA AssignNewIsFine ==
  ASSUME Ready, NEW a \in Arrays, NEW b \in Arrays, AssignNew(a, b) PROVE Fine
<1> DEFINE x == arr[a]  y == arr[b]  z == Storage(Items(y), y.capacity)
<1>0. y.last \in Nat /\ CleanupLeaks(x) = FALSE /\ a # b /\ y.last > 0 /\ throws' = throws
  <2>1. a # b /\ y.last > 0 /\ throws' = throws
    BY DEF AssignNew
  <2> QED
    BY <2>1, Sizes, ReadyArray
<1>1. PICK k \in 0 .. y.last :
        /\ arr' = [arr EXCEPT ![a] = IF k < y.last THEN x ELSE z,
                              ![b] = Put(y, 0, k, Moved)]
        /\ Did("assign", a, b, k < y.last, k = y.last /\ CleanupLeaks(x))
  <2>1. \A k \in Done(y.last, "move") : k \in 0 .. y.last
    BY <1>0, SomeDone
  <2> QED
    BY <2>1, Zenon DEF AssignNew
<1>2. IsArray(z) /\ IsSound(z) /\ Items(z) = Items(y)
  <2>1. Items(y) \in Seq(Elements) /\ Len(Items(y)) = y.last
    BY ReadyArray, Zenon
  <2>2. Len(Items(y)) <= y.capacity /\ y.capacity \in 0 .. MaxCapacity
    BY <2>1, Sizes
  <2> QED
    BY <2>1, <2>2, StorageIsSound, Zenon
<1>3. IsArray(Put(y, 0, k, Moved)) /\ IsSound(Put(y, 0, k, Moved))
  BY MovedOutIsSound
<1>4. IsArray(x) /\ IsSound(x)
  BY ReadyArray
<1>5. /\ ArraysInv' /\ Sound'
      /\ arr'[a] = IF k < y.last THEN x ELSE z
  <2> DEFINE v == IF k < y.last THEN x ELSE z
  <2>1. IsArray(v) /\ IsSound(v)
    BY <1>2, <1>4
  <2> HIDE DEF v, z
  <2>2. arr' = [arr EXCEPT ![a] = v, ![b] = Put(y, 0, k, Moved)]
    BY <1>1 DEF v
  <2>3. ArraysInv' /\ Sound' /\ arr'[a] = v
    BY <1>0, <1>3, <2>1, <2>2, TwoReplaced
  <2> QED
    BY <2>3 DEF v
<1>6. CASE k < y.last
  <2>1. (k < y.last) = TRUE /\ (k = y.last /\ CleanupLeaks(x)) = FALSE
    BY <1>0, <1>6
  <2>2. Did("assign", a, b, TRUE, FALSE)
    BY <1>1, <2>1, Zenon
  <2>3. ShownStep
    <3>1. arr' = [arr EXCEPT ![a] = x, ![b] = Put(y, 0, k, Moved)]
      BY <1>1, <1>6, Zenon
    <3> QED
      BY <1>0, <1>6, <2>2, <3>1, AssignNewShown, Zenon
  <2> QED
    BY <1>0, <1>5, <2>2, <2>3 DEF Fine, Did, Calls, Ops, LeakStep, IntactStep, ArriveStep
<1>7. CASE ~(k < y.last)
  <2>1. (k < y.last) = FALSE /\ (k = y.last /\ CleanupLeaks(x)) = FALSE
    BY <1>0, <1>7
  <2>2. Did("assign", a, b, FALSE, FALSE)
    BY <1>1, <2>1, Zenon
  <2>3. Items(arr'[a]) = Items(arr[b])
    BY <1>2, <1>5, <1>7
  <2>4. ShownStep
    <3>1. arr' = [arr EXCEPT ![a] = z, ![b] = Put(y, 0, k, Moved)]
      BY <1>1, <1>7, Zenon
    <3>2. k = y.last
      BY <1>0, <1>7
    <3> QED
      BY <1>0, <1>2, <2>2, <3>1, <3>2, AssignNewShown, Zenon
  <2> QED
    BY <1>0, <1>5, <2>2, <2>3, <2>4
       DEF Fine, Did, Calls, Ops, LeakStep, IntactStep, ArriveStep
<1> QED
  BY <1>6, <1>7

\* Assignment in place: only an assignment of elements that throws leaves the
\* target unsound.
LEMMA AssignInPlaceIsFine ==
  ASSUME Ready, NEW a \in Arrays, NEW b \in Arrays, AssignInPlace(a, b) PROVE Fine
<1> DEFINE x == arr[a]  y == arr[b]
           common == IF y.last < x.last THEN y.last ELSE x.last
           Over(n) == [cell |-> CopyOver(x, y, n), last |-> n, capacity |-> x.capacity]
<1>0. /\ x.last \in Nat /\ y.last \in Nat /\ x.capacity \in Nat /\ x.last <= x.capacity
      /\ IsArray(x) /\ IsSound(x) /\ IsArray(y) /\ IsSound(y)
  BY Sizes, ReadyArray
<1>1. /\ a # b /\ x.last > 0 /\ y.last \in 1 .. x.capacity /\ throws' = throws
      /\ \/ \E k \in Done(common, "assign") \ {common} :
              IF "copy" \notin throws THEN Terminate(a, b)
              ELSE /\ arr' = [arr EXCEPT ![a] = Put(x, 0, k, Raw)]
                   /\ Did("assign", a, b, TRUE, FALSE)
         \/ \E k \in Done(y.last - common, "copy") :
              IF k < y.last - common
              THEN /\ arr' = [arr EXCEPT ![a].cell = CopyOver(x, y, common)]
                   /\ Did("assign", a, b, TRUE, FALSE)
              ELSE /\ arr' = [arr EXCEPT ![a].cell = CopyOver(x, y, y.last),
                                         ![a].last = y.last]
                   /\ Did("assign", a, b, FALSE, FALSE)
  BY Zenon DEF AssignInPlace
<1>2. CASE Terminate(a, b)
  <2>1. ShownStep
    BY <1>2, NothingShown DEF Terminate
  <2> QED
    BY <1>1, <1>2, <2>1, NothingReplaced
     DEF Fine, Terminate, Did, Calls, Ops, LeakStep, IntactStep, ArriveStep
<1>3. ASSUME NEW k \in Done(common, "assign") \ {common},
             arr' = [arr EXCEPT ![a] = Put(x, 0, k, Raw)], Did("assign", a, b, TRUE, FALSE)
      PROVE  Fine
  <2>1. "assign" \in throws /\ k \in 0 .. common
    BY <1>0 DEF Done
  <2>2. IsArray(Put(x, 0, k, Raw))
    <3> DEFINE c == [i \in 0 .. x.capacity - 1 |->
                       IF i \in 0 .. 0 + k - 1 THEN Raw ELSE x.cell[i]]
    <3>1. Put(x, 0, k, Raw) = [cell |-> c, last |-> x.last, capacity |-> x.capacity]
      <4>1. DOMAIN x.cell = 0 .. x.capacity - 1
        BY <1>0 DEF IsArray
      <4>2. Put(x, 0, k, Raw) = [x EXCEPT !.cell = c]
        BY <4>1 DEF Put
      <4> HIDE DEF c, x
      <4> QED
        BY <1>0, <4>2, WithField
    <3>2. c \in [0 .. x.capacity - 1 -> Elements \union {Raw}]
      BY <1>0 DEF IsArray
    <3>3. x.capacity \in 0 .. MaxCapacity /\ x.last \in 0 .. x.capacity
      BY <1>0 DEF IsArray
    <3> HIDE DEF c, x
    <3> QED
      BY <3>1, <3>2, <3>3 DEF IsArray
  <2>3. ArraysInv'
    BY <1>3, <2>2 DEF Ready, ArraysInv
  <2>4. ShownStep
    <3>1. k \in 0 .. x.last - 1
      BY <1>0, <1>3, <2>1
    <3> QED
      BY <1>1, <1>3, <3>1, AssignThrownShown
  <2> QED
    BY <1>1, <1>3, <2>1, <2>3, <2>4
       DEF Fine, Did, Calls, Ops, LeakStep, IntactStep, ArriveStep
<1>4. ASSUME NEW n \in 1 .. y.last, n <= x.capacity, arr' = [arr EXCEPT ![a] = Over(n)],
             \/ n = x.last /\ Did("assign", a, b, TRUE, FALSE)
             \/ n = y.last /\ Did("assign", a, b, FALSE, FALSE)
      PROVE  Fine
  <2>1. /\ IsArray(Over(n)) /\ IsSound(Over(n))
        /\ n = y.last => Items(Over(n)) = Items(y)
    <3>1. n \in 0 .. y.last
      BY <1>0
    <3> QED
      BY <1>0, <1>4, <3>1, CopiedOverIsSound
  <2>2. ArraysInv' /\ Sound' /\ arr'[a] = Over(n)
    <3> HIDE DEF Over
    <3> QED
      BY <1>4, <2>1, OneReplaced
  <2>3. Over(n).last = n /\ \A i \in 0 .. n - 1 : Over(n).cell[i] = y.cell[i]
    BY <1>0, <1>4 DEF CopyOver, IsArray
  <2> HIDE DEF Over
  <2>4. CASE n = x.last /\ Did("assign", a, b, TRUE, FALSE)
    <3>1. x.last <= y.last
      BY <1>0, <2>4
    <3>2. ShownStep
      <4>1. Over(n).last = x.last /\ \A i \in 0 .. Over(n).last - 1 : Over(n).cell[i] = y.cell[i]
        BY <2>3, <2>4
      <4> QED
        BY <1>1, <1>4, <2>4, <3>1, <4>1, AssignThrownShown, Zenon
    <3> QED
      BY <1>1, <2>2, <2>4, <3>2 DEF Fine, Did, Calls, Ops, LeakStep, IntactStep, ArriveStep
  <2>5. CASE n = y.last /\ Did("assign", a, b, FALSE, FALSE)
    <3>1. ShownStep
      BY <1>1, <1>4, <2>1, <2>5, ItemsShown
    <3> QED
      BY <1>1, <2>1, <2>2, <2>5, <3>1
       DEF Fine, Did, Calls, Ops, LeakStep, IntactStep, ArriveStep
  <2> QED
    BY <1>4, <2>4, <2>5
<1>5. ASSUME NEW k \in Done(y.last - common, "copy"), k < y.last - common,
             arr' = [arr EXCEPT ![a].cell = CopyOver(x, y, common)],
             Did("assign", a, b, TRUE, FALSE)
      PROVE  Fine
  <2>1. common = x.last /\ common \in 1 .. y.last /\ common <= x.capacity
    <3>1. y.last - common \in Nat
      BY <1>0
    <3>2. k \in 0 .. y.last - common
      BY <3>1, SomeDone
    <3>3. common = (IF y.last < x.last THEN y.last ELSE x.last) /\ k < y.last - common
      BY <1>5
    <3>4. /\ x.last \in Nat /\ y.last \in Nat /\ x.capacity \in Nat /\ x.last <= x.capacity
          /\ x.last > 0
      BY <1>0, <1>1
    <3> HIDE DEF common, x, y
    <3>5. common = x.last /\ x.last < y.last
      BY <3>2, <3>3, <3>4
    <3> QED
      BY <3>4, <3>5
  <2>2. arr' = [arr EXCEPT ![a] = [x EXCEPT !.cell = CopyOver(x, y, common)]]
    BY <1>5
  <2>3. [x EXCEPT !.cell = CopyOver(x, y, common)] = Over(common)
    <3> HIDE DEF common
    <3>1. [x EXCEPT !.cell = CopyOver(x, y, common)]
            = [cell |-> CopyOver(x, y, common), last |-> x.last, capacity |-> x.capacity]
      BY <1>0, WithField
    <3> QED
      BY <2>1, <3>1, Zenon
  <2>4. arr' = [arr EXCEPT ![a] = Over(common)]
    <3> HIDE DEF common, Over
    <3> QED
      BY <2>2, <2>3, Zenon
  <2> QED
    BY <1>4, <1>5, <2>1, <2>4
<1>6. ASSUME arr' = [arr EXCEPT ![a].cell = CopyOver(x, y, y.last), ![a].last = y.last],
             Did("assign", a, b, FALSE, FALSE)
      PROVE  Fine
  <2>1. y.last \in 1 .. y.last /\ y.last <= x.capacity
    BY <1>0, <1>1
  <2>2. arr' = [arr EXCEPT ![a] = [[x EXCEPT !.cell = CopyOver(x, y, y.last)]
                                     EXCEPT !.last = y.last]]
    BY <1>6
  <2>3. [x EXCEPT !.cell = CopyOver(x, y, y.last)]
          = [cell |-> CopyOver(x, y, y.last), last |-> x.last, capacity |-> x.capacity]
    BY <1>0, WithField
  <2>4. [[x EXCEPT !.cell = CopyOver(x, y, y.last)] EXCEPT !.last = y.last] = Over(y.last)
    <3> DEFINE c == CopyOver(x, y, y.last)  l == x.last  m == y.last  k == x.capacity
    <3>1. [[cell |-> c, last |-> l, capacity |-> k] EXCEPT !.last = m]
            = [cell |-> c, last |-> m, capacity |-> k]
      <4> HIDE DEF c, l, m, k
      <4> QED
        OBVIOUS
    <3> QED
      BY <2>3, <3>1, Zenon
  <2>5. arr' = [arr EXCEPT ![a] = Over(y.last)]
    <3> HIDE DEF Over
    <3> QED
      BY <2>2, <2>4, Zenon
  <2> QED
    BY <1>4, <1>6, <2>1, <2>5
<1> QED
  BY <1>1, <1>2, <1>3, <1>5, <1>6, Zenon

-----------------------------------------------------------------------------
(* The specification.                                                       *)

\* The arrays are empty and no call was made.
LEMMA InitHolds == Init => IInv
<1> SUFFICES ASSUME Init PROVE IInv
  OBVIOUS
<1>1. ArraysInv /\ \A a \in Arrays : IsSound(arr[a])
  BY EmptyIsSound DEF Init, ArraysInv
<1>2. Sound
  BY <1>1, SoundArrays
<1>3. did \in Calls /\ throws \subseteq Kinds
  BY DEF Init, Calls, Ops
<1> QED
  BY <1>1, <1>2, <1>3 DEF IInv, LiveExactly

\* Every call is fine.
LEMMA NextIsFine == ASSUME IInv, Next PROVE Fine
<1>1. Ready
  BY DEF IInv, Next, Ready
<1>2. PICK a \in Arrays :
        \/ Construct(a) \/ Clear(a) \/ Store(a) \/ Reserve(a) \/ ShrinkToFit(a)
        \/ ResizeReallocate(a) \/ ResizeDown(a) \/ ResizeUp(a)
        \/ \E b \in Arrays :
             \/ CopyConstruct(a, b) \/ MoveConstruct(a, b) \/ MoveAssign(a, b)
             \/ AssignEmpty(a, b) \/ AssignNew(a, b) \/ AssignInPlace(a, b)
  BY DEF Next
<1>3. CASE Construct(a)
  BY <1>1, <1>3, ConstructIsFine
<1>4. CASE Clear(a)
  BY <1>1, <1>4, ClearIsFine
<1>5. CASE Store(a)
  BY <1>1, <1>5, StoreIsFine
<1>6. CASE Reserve(a)
  BY <1>1, <1>6, ReserveIsFine
<1>7. CASE ShrinkToFit(a)
  BY <1>1, <1>7, ShrinkIsFine
<1>8. CASE ResizeReallocate(a)
  BY <1>1, <1>8, ResizeBeyondIsFine
<1>9. CASE ResizeDown(a) \/ ResizeUp(a)
  BY <1>1, <1>9, ResizeWithinIsFine
<1>10. ASSUME NEW b \in Arrays, CopyConstruct(a, b) PROVE Fine
  BY <1>1, <1>10, CopyConstructIsFine
<1>11. ASSUME NEW b \in Arrays, MoveConstruct(a, b) \/ MoveAssign(a, b) PROVE Fine
  BY <1>1, <1>11, MovesAreFine
<1>12. ASSUME NEW b \in Arrays, AssignEmpty(a, b) PROVE Fine
  BY <1>1, <1>12, AssignEmptyIsFine
<1>13. ASSUME NEW b \in Arrays, AssignNew(a, b) PROVE Fine
  BY <1>1, <1>13, AssignNewIsFine
<1>14. ASSUME NEW b \in Arrays, AssignInPlace(a, b) PROVE Fine
  BY <1>1, <1>14, AssignInPlaceIsFine
<1> QED
  BY <1>2, <1>3, <1>4, <1>5, <1>6, <1>7, <1>8, <1>9, <1>10, <1>11, <1>12, <1>13, <1>14

\* A fine step keeps the invariant, and so does a stuttering one.
LEMMA StepHolds == IInv /\ [Next]_vars => IInv'
<1>1. ASSUME IInv, Next PROVE IInv'
  <2>1. Fine
    BY <1>1, NextIsFine
  <2> QED
    BY <1>1, <2>1 DEF IInv, Fine, LiveExactly
<1>2. ASSUME IInv, UNCHANGED vars PROVE IInv'
  BY <1>2 DEF IInv, vars, ArraysInv, LiveExactly, Sound
<1> QED
  BY <1>1, <1>2

\* The fields of an array are those of its storage, and the storage holds what they
\* say, through every call that returns or throws (heap_array.h:237-301, 404-695).
THEOREM ArraysInductive == Spec => []IInv
BY InitHolds, StepHolds, PTL DEF Spec

\* _capacity is the size of the storage there is, for any number of arrays of any
\* capacity: what deallocate is told and what resize() relies on.
THEOREM HeapArraysTypeCorrect == Spec => []TypeOK
<1>1. IInv => TypeOK
  BY DEF IInv, ArraysInv, IsArray, TypeOK, Calls, Ops
<1> QED
  BY <1>1, ArraysInductive, PTL

\* The constructed cells of an array are those from _first to _last, whichever of
\* the element's operations throw; only an assignment in place may leave it
\* otherwise (heap_array.h:417-512, 579-618, 654-695).
THEOREM LiveCellsExact == Spec => []LiveExactly
BY ArraysInductive, PTL DEF IInv

\* Elements are lost only where resize() throws out of its new storage and in the
\* assignment from an array without elements (heap_array.h:443-478, 635-645).
THEOREM LeaksNowhereElse == Spec => LeaksOnlyThere
<1>1. IInv /\ [Next]_vars =>
        [did'.leaked => \/ did'.op = "resize" /\ did'.threw
                        \/ did'.op = "assign" /\ arr[did'.from].last = 0]_vars
  BY NextIsFine DEF Fine, LeakStep
<1> QED
  BY <1>1, ArraysInductive, PTL DEF Spec, LeaksOnlyThere

\* A call that replaces the storage and throws leaves the old one intact, but for a
\* resize() that had moved the elements (heap_array.h:428, 458).
THEOREM ThrowLeavesOldIntact == Spec => OldLeftIntact
<1>1. IInv /\ [Next]_vars =>
        [did'.threw /\ did'.op \in {"reserve", "shrink", "resize"} =>
           \/ UNCHANGED arr
           \/ did'.op = "resize" /\ NothrowMove]_vars
  BY NextIsFine DEF Fine, IntactStep
<1> QED
  BY <1>1, ArraysInductive, PTL DEF Spec, OldLeftIntact

\* The elements survive the replacement of their storage, the change of their owner
\* and an assignment, in their order (heap_array.h:237-301, 404-512, 592-695).
THEOREM ElementsAlwaysArrive == Spec => ElementsArrive
<1>1. IInv /\ [Next]_vars => [ArriveStep]_vars
  BY NextIsFine DEF Fine
<1> QED
  BY <1>1, ArraysInductive, PTL DEF Spec, ElementsArrive, ArriveStep

\* heap_array implements sequences of elements: each call changes what callers see of
\* the arrays it is given as its name says, and if it throws as ElementSequences lists
\* (heap_array.h:237-301, 404-512, 579-695).
THEOREM ArraysAreSequences == Spec => IsASequence
<1>1. Init => Seqs!Init
  <2> SUFFICES ASSUME Init PROVE Seqs!Init
    OBVIOUS
  <2>1. Shown = [a \in Arrays |-> <<>>]
    BY EmptyIsSound DEF Init, Shown
  <2>2. \E a \in Arrays : LastCall = [op |-> "none", to |-> a, from |-> a, threw |-> FALSE]
    <3>1. PICK a \in Arrays :
            did = [op |-> "none", to |-> a, from |-> a, threw |-> FALSE, leaked |-> FALSE]
      BY DEF Init
    <3>2. LastCall = [op |-> "none", to |-> a, from |-> a, threw |-> FALSE]
      BY <3>1 DEF LastCall
    <3> QED
      BY <3>2
  <2> QED
    BY <2>1, <2>2 DEF Seqs!Init
<1>2. IInv /\ [Next]_vars => [Seqs!Next]_(Seqs!vars)
  <2>1. ASSUME IInv, Next PROVE Seqs!Next
    <3>1. LastCall.op # "terminate"
      BY <2>1 DEF Next, LastCall
    <3>2. ShownStep
      BY <2>1, NextIsFine DEF Fine
    <3> QED
      BY <3>1, <3>2 DEF ShownStep, Seqs!Next
  <2>2. ASSUME UNCHANGED vars PROVE UNCHANGED Seqs!vars
    BY <2>2 DEF vars, Shown, LastCall, Seqs!vars
  <2> QED
    BY <2>1, <2>2
<1> QED
  BY <1>1, <1>2, ArraysInductive, PTL DEF Spec, IsASequence, Seqs!Spec
=============================================================================
