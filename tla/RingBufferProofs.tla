-------------------------- MODULE RingBufferProofs --------------------------
(***************************************************************************)
(* Proofs about RingBuffer for any number of buffers of any capacities and *)
(* any number of pushed elements: a buffer that nothing has spoiled holds  *)
(* its elements where its fields say, is a first-in first-out queue and    *)
(* never leaves its storage.  First what each operation does to one        *)
(* buffer, then what each call does to all of them.                        *)
(***************************************************************************)
EXTENDS RingBuffer, TLAPS

\* A buffer by its fields: storage, _first, _last, _size, _capacity, policy.
Rec(s, f, l, n, c, o) ==
  [store |-> s, first |-> f, last |-> l, size |-> n, capacity |-> c, overwrite |-> o]

Cell == Elements \union {Raw}

\* Whatever became of a buffer, its fields are of their kinds; without cells it
\* holds nothing and points to the start.
Typed(b) ==
  /\ b = Rec(b.store, b.first, b.last, b.size, b.capacity, b.overwrite)
  /\ b.first \in Nat /\ b.last \in Nat /\ b.size \in Nat /\ b.capacity \in Nat
  /\ b.overwrite \in BOOLEAN
  /\ DOMAIN b.store \subseteq Nat /\ b.store \in [DOMAIN b.store -> Cell]
  /\ DOMAIN b.store = {} => b.first = 0 /\ b.last = 0 /\ b.size = 0

\* The cells met by n steps from p, as _append goes round.
In(b, p, n, c) == (p <= c /\ c < p + n) \/ c + b.capacity < p + n

\* _last is where _size cells from _first end: before the turn, after it, or at the
\* end of the storage of a buffer that was emptied there.
Closed(b) == \/ b.last = b.first + b.size
             \/ b.last = b.first + b.size - b.capacity
             \/ b.size = 0 /\ b.first = 0 /\ b.last = b.capacity

\* The fields fit together, and the elements are where they say.
Tidy(b) ==
  /\ DOMAIN b.store = 0 .. b.capacity - 1
  /\ b.size <= b.capacity /\ b.last <= b.capacity
  /\ b.first < b.capacity \/ b.first = 0
  /\ Closed(b)
  /\ \A c \in 0 .. b.capacity - 1 : b.store[c] # Raw <=> In(b, b.first, b.size, c)

-----------------------------------------------------------------------------
(* Positions.                                                               *)

\* One turn at most: _append subtracts the capacity once, or twice at its very end.
LEMMA Turned ==
  ASSUME NEW c \in Nat \ {0}, NEW m \in 0 .. 2 * c
  PROVE  m % c = IF m < c THEN m ELSE IF m < 2 * c THEN m - c ELSE 0
OBVIOUS

\* _append of at most one capacity, as a case distinction instead of a remainder.
LEMMA Offsets ==
  ASSUME NEW b, b.capacity \in Nat \ {0}, NEW p \in 0 .. b.capacity,
         NEW n \in 0 .. b.capacity
  PROVE  Offset(b, p, n) = IF p + n < b.capacity THEN p + n
                           ELSE IF p + n < 2 * b.capacity THEN p + n - b.capacity ELSE 0
<1> DEFINE c == b.capacity  m == p + n
<1>1. c \in Nat \ {0} /\ m \in 0 .. 2 * c
  OBVIOUS
<1>2. m % c = IF m < c THEN m ELSE IF m < 2 * c THEN m - c ELSE 0
  <2> HIDE DEF c, m
  <2> QED
    BY <1>1, Turned
<1>3. Offset(b, p, n) = m % c
  BY DEF Offset
<1> QED
  <2> HIDE DEF c, m
  <2>1. Offset(b, p, n) = IF m < c THEN m ELSE IF m < 2 * c THEN m - c ELSE 0
    BY <1>2, <1>3
  <2> QED
    BY <2>1 DEF c, m

\* The cells met by n steps are pairwise different and are those In names.
LEMMA CellsMet ==
  ASSUME NEW b, b.capacity \in Nat, NEW p \in 0 .. b.capacity, NEW n \in 0 .. b.capacity
  PROVE  /\ Cells(b, p, n) \subseteq 0 .. b.capacity - 1
         /\ \A c \in 0 .. b.capacity - 1 : c \in Cells(b, p, n) <=> In(b, p, n, c)
<1>1. CASE n = 0
  <2>1. Cells(b, p, n) = {}
    BY <1>1 DEF Cells
  <2>2. \A c \in 0 .. b.capacity - 1 : ~In(b, p, n, c)
    BY <1>1 DEF In
  <2> QED
    BY <2>1, <2>2
<1>2. CASE n # 0
  <2>0. b.capacity \in Nat \ {0}
    BY <1>2
  <2>1. \A i \in 0 .. n - 1 : Offset(b, p, i) = IF p + i < b.capacity THEN p + i
                                                ELSE p + i - b.capacity
    <3> TAKE i \in 0 .. n - 1
    <3>1. i \in 0 .. b.capacity /\ p + i < 2 * b.capacity
      BY <2>0
    <3> QED
      BY <2>0, <3>1, Offsets
  <2>2. Cells(b, p, n) \subseteq 0 .. b.capacity - 1
    BY <2>0, <2>1 DEF Cells
  <2>3. ASSUME NEW c \in 0 .. b.capacity - 1, c \in Cells(b, p, n)
        PROVE  In(b, p, n, c)
    <3>1. PICK i \in 0 .. n - 1 : c = Offset(b, p, i)
      BY <2>3 DEF Cells
    <3> QED
      BY <2>0, <2>1, <3>1 DEF In
  <2>4. ASSUME NEW c \in 0 .. b.capacity - 1, In(b, p, n, c)
        PROVE  c \in Cells(b, p, n)
    <3>1. CASE p <= c
      <4>1. c - p \in 0 .. n - 1 /\ p + (c - p) = c
        BY <2>4, <3>1, <2>0 DEF In
      <4>2. c = Offset(b, p, c - p)
        BY <4>1, <2>1
      <4> QED
        BY <4>1, <4>2 DEF Cells
    <3>2. CASE c < p
      <4>1. /\ c + b.capacity - p \in 0 .. n - 1
            /\ p + (c + b.capacity - p) = c + b.capacity
        BY <2>4, <3>2, <2>0 DEF In
      <4>2. c = Offset(b, p, c + b.capacity - p)
        BY <4>1, <2>1
      <4> QED
        BY <4>1, <4>2 DEF Cells
    <3> QED
      BY <3>1, <3>2
  <2> QED
    BY <2>2, <2>3, <2>4
<1> QED
  BY <1>1, <1>2

\* A cell without an element is no element.
LEMMA RawIsNoElement == Raw \notin Elements /\ Elements \subseteq Nat
BY BufferAssumption DEF Raw, Elements

\* Where the i-th element of a tidy buffer is.
At(b, i) == IF b.first + i - 1 < b.capacity THEN b.first + i - 1
            ELSE b.first + i - 1 - b.capacity

\* The elements of a tidy buffer are in its storage.
LEMMA ElementsAt ==
  ASSUME NEW b, Typed(b), Tidy(b), NEW i \in 1 .. b.size
  PROVE  /\ Offset(b, b.first, i - 1) = At(b, i)
         /\ At(b, i) \in 0 .. b.capacity - 1 /\ At(b, i) \in DOMAIN b.store
         /\ b.store[At(b, i)] \in Elements
<1>1. /\ b.capacity \in Nat \ {0} /\ b.first \in 0 .. b.capacity - 1
      /\ b.size \in 0 .. b.capacity /\ i - 1 \in 0 .. b.capacity
  BY DEF Typed, Tidy
<1>2. Offset(b, b.first, i - 1) = At(b, i) /\ At(b, i) \in 0 .. b.capacity - 1
  <2>1. b.first \in 0 .. b.capacity /\ b.first + (i - 1) < 2 * b.capacity
    BY <1>1
  <2> QED
    BY <1>1, <2>1, Offsets DEF At
<1>3. In(b, b.first, b.size, At(b, i))
  BY <1>1 DEF In, At
<1> QED
  BY <1>2, <1>3 DEF Tidy, Typed, Cell

\* The elements of a tidy buffer, oldest first.
LEMMA ItemsOf ==
  ASSUME NEW b, Typed(b), Tidy(b)
  PROVE  /\ Items(b) \in Seq(Elements) /\ Len(Items(b)) = b.size
         /\ DOMAIN Items(b) = 1 .. b.size
         /\ \A i \in 1 .. b.size : Items(b)[i] = b.store[At(b, i)]
<1>1. b.size \in Nat
  BY DEF Typed
<1>2. \A i \in 1 .. b.size : /\ b.store[Offset(b, b.first, i - 1)] = b.store[At(b, i)]
                             /\ b.store[Offset(b, b.first, i - 1)] \in Elements
  BY ElementsAt
<1> QED
  BY <1>1, <1>2 DEF Items

\* Two sequences of elements that agree are equal.
LEMMA SameElements ==
  ASSUME NEW s \in Seq(Elements), NEW t \in Seq(Elements), Len(s) = Len(t),
         \A i \in 1 .. Len(s) : s[i] = t[i]
  PROVE  s = t
OBVIOUS

\* All but the first.
LEMMA TailIsRest ==
  ASSUME NEW s \in Seq(Elements), s # <<>>
  PROVE  Tail(s) = SubSeq(s, 1 + 1, Len(s))
<1>1. 1 + 1 = 2
  OBVIOUS
<1> QED
  BY <1>1

\* A record's fields, and what the operations make of them.
LEMMA Fields ==
  ASSUME NEW s, NEW f, NEW l, NEW n, NEW c, NEW o
  PROVE  LET r == Rec(s, f, l, n, c, o)
         IN  /\ r.store = s /\ r.first = f /\ r.last = l /\ r.size = n
             /\ r.capacity = c /\ r.overwrite = o
             /\ r = Rec(r.store, r.first, r.last, r.size, r.capacity, r.overwrite)
BY DEF Rec

\* clear, commit_write and commit_read.
Cleared(b) ==
  [b EXCEPT !.store = Destroy(b, Range(Span(b))), !.first = 0, !.last = 0, !.size = 0]
Written(b, n) ==
  [b EXCEPT !.store = Write(b, b.last, n),
            !.last = Offset(b, b.last, n), !.size = @ + n]
Dropped(b, n) ==
  [b EXCEPT !.store = Destroy(b, Cells(b, b.first, n)),
            !.first = Offset(b, b.first, n), !.size = @ - n]

\* The operations, field by field.
LEMMA Results ==
  ASSUME NEW b, Typed(b), NEW v, NEW n, NEW o
  PROVE  /\ EmplaceUnused(b, v)
              = Rec([b.store EXCEPT ![UnusedCell(b)] = v], b.first, UnusedCell(b) + 1,
                    b.size + 1, b.capacity, b.overwrite)
         /\ EmplaceOverwrite(b, v)
              = Rec([b.store EXCEPT ![b.first] = v],
                    IF b.first + 1 = b.capacity THEN 0 ELSE b.first + 1, b.first + 1,
                    b.size, b.capacity, b.overwrite)
         /\ AfterPop(b)
              = Rec([b.store EXCEPT ![b.first] = Raw], Offset(b, b.first, 1), b.last,
                    b.size - 1, b.capacity, b.overwrite)
         /\ Cleared(b)
              = Rec(Destroy(b, Range(Span(b))), 0, 0, 0, b.capacity, b.overwrite)
         /\ Written(b, n)
              = Rec(Write(b, b.last, n), b.first, Offset(b, b.last, n), b.size + n,
                    b.capacity, b.overwrite)
         /\ Dropped(b, n)
              = Rec(Destroy(b, Cells(b, b.first, n)), Offset(b, b.first, n), b.last,
                    b.size - n, b.capacity, b.overwrite)
         /\ Emptied(b) = Rec(NoCells, 0, 0, 0, b.capacity, b.overwrite)
         /\ [b EXCEPT !.overwrite = o]
              = Rec(b.store, b.first, b.last, b.size, b.capacity, o)
<1> DEFINE st == b.store  f == b.first  l == b.last  m == b.size  c == b.capacity
           w == b.overwrite
<1>1. /\ b = [store |-> st, first |-> f, last |-> l, size |-> m, capacity |-> c,
              overwrite |-> w]
      /\ b.store = st /\ b.first = f /\ b.last = l /\ b.size = m /\ b.capacity = c
  BY DEF Typed, Rec
<1> HIDE DEF st, f, l, m, c, w
<1>2. EmplaceUnused(b, v)
        = Rec([st EXCEPT ![UnusedCell(b)] = v], f, UnusedCell(b) + 1, m + 1, c, w)
  <2>1. EmplaceUnused(b, v)
          = [[[b EXCEPT !.store[UnusedCell(b)] = v]
              EXCEPT !.last = UnusedCell(b) + 1]
              EXCEPT !.size = m + 1]
    BY <1>1 DEF EmplaceUnused
  <2>2. [b EXCEPT !.store[UnusedCell(b)] = v]
          = Rec([st EXCEPT ![UnusedCell(b)] = v], f, l, m, c, w)
    BY <1>1 DEF Rec
  <2>3. [Rec([st EXCEPT ![UnusedCell(b)] = v], f, l, m, c, w)
           EXCEPT !.last = UnusedCell(b) + 1]
          = Rec([st EXCEPT ![UnusedCell(b)] = v], f, UnusedCell(b) + 1, m, c, w)
    BY DEF Rec
  <2>4. [Rec([st EXCEPT ![UnusedCell(b)] = v], f, UnusedCell(b) + 1, m, c, w)
           EXCEPT !.size = m + 1]
          = Rec([st EXCEPT ![UnusedCell(b)] = v], f, UnusedCell(b) + 1, m + 1, c, w)
    BY DEF Rec
  <2> QED
    BY <2>1, <2>2, <2>3, <2>4
<1>3. EmplaceOverwrite(b, v)
        = Rec([st EXCEPT ![f] = v], IF f + 1 = c THEN 0 ELSE f + 1, f + 1, m, c, w)
  <2>1. EmplaceOverwrite(b, v)
          = [[[b EXCEPT !.store[f] = v]
              EXCEPT !.last = f + 1]
              EXCEPT !.first = IF f + 1 = c THEN 0 ELSE f + 1]
    BY <1>1 DEF EmplaceOverwrite
  <2>2. [b EXCEPT !.store[f] = v]
          = Rec([st EXCEPT ![f] = v], f, l, m, c, w)
    BY <1>1 DEF Rec
  <2>3. [Rec([st EXCEPT ![f] = v], f, l, m, c, w) EXCEPT !.last = f + 1]
          = Rec([st EXCEPT ![f] = v], f, f + 1, m, c, w)
    BY DEF Rec
  <2>4. [Rec([st EXCEPT ![f] = v], f, f + 1, m, c, w)
           EXCEPT !.first = IF f + 1 = c THEN 0 ELSE f + 1]
          = Rec([st EXCEPT ![f] = v], IF f + 1 = c THEN 0 ELSE f + 1, f + 1, m, c, w)
    BY DEF Rec
  <2> QED
    BY <2>1, <2>2, <2>3, <2>4
<1>4. AfterPop(b)
        = Rec([st EXCEPT ![f] = Raw], Offset(b, f, 1), l, m - 1, c, w)
  <2>1. AfterPop(b)
          = [[[b EXCEPT !.store[f] = Raw]
              EXCEPT !.size = m - 1]
              EXCEPT !.first = Offset(b, f, 1)]
    BY <1>1 DEF AfterPop
  <2>2. [b EXCEPT !.store[f] = Raw]
          = Rec([st EXCEPT ![f] = Raw], f, l, m, c, w)
    BY <1>1 DEF Rec
  <2>3. [Rec([st EXCEPT ![f] = Raw], f, l, m, c, w) EXCEPT !.size = m - 1]
          = Rec([st EXCEPT ![f] = Raw], f, l, m - 1, c, w)
    BY DEF Rec
  <2>4. [Rec([st EXCEPT ![f] = Raw], f, l, m - 1, c, w) EXCEPT !.first = Offset(b, f, 1)]
          = Rec([st EXCEPT ![f] = Raw], Offset(b, f, 1), l, m - 1, c, w)
    BY DEF Rec
  <2> QED
    BY <2>1, <2>2, <2>3, <2>4
<1>5. Cleared(b)
        = Rec(Destroy(b, Range(Span(b))), 0, 0, 0, c, w)
  <2>1. Cleared(b)
          = [[[[b EXCEPT !.store = Destroy(b, Range(Span(b)))]
              EXCEPT !.first = 0]
              EXCEPT !.last = 0]
              EXCEPT !.size = 0]
    BY <1>1 DEF Cleared
  <2>2. [b EXCEPT !.store = Destroy(b, Range(Span(b)))]
          = Rec(Destroy(b, Range(Span(b))), f, l, m, c, w)
    BY <1>1 DEF Rec
  <2>3. [Rec(Destroy(b, Range(Span(b))), f, l, m, c, w) EXCEPT !.first = 0]
          = Rec(Destroy(b, Range(Span(b))), 0, l, m, c, w)
    BY DEF Rec
  <2>4. [Rec(Destroy(b, Range(Span(b))), 0, l, m, c, w) EXCEPT !.last = 0]
          = Rec(Destroy(b, Range(Span(b))), 0, 0, m, c, w)
    BY DEF Rec
  <2>5. [Rec(Destroy(b, Range(Span(b))), 0, 0, m, c, w) EXCEPT !.size = 0]
          = Rec(Destroy(b, Range(Span(b))), 0, 0, 0, c, w)
    BY DEF Rec
  <2> QED
    BY <2>1, <2>2, <2>3, <2>4, <2>5
<1>6. Written(b, n)
        = Rec(Write(b, l, n), f, Offset(b, l, n), m + n, c, w)
  <2>1. Written(b, n)
          = [[[b EXCEPT !.store = Write(b, l, n)]
              EXCEPT !.last = Offset(b, l, n)]
              EXCEPT !.size = m + n]
    BY <1>1 DEF Written
  <2>2. [b EXCEPT !.store = Write(b, l, n)]
          = Rec(Write(b, l, n), f, l, m, c, w)
    BY <1>1 DEF Rec
  <2>3. [Rec(Write(b, l, n), f, l, m, c, w) EXCEPT !.last = Offset(b, l, n)]
          = Rec(Write(b, l, n), f, Offset(b, l, n), m, c, w)
    BY DEF Rec
  <2>4. [Rec(Write(b, l, n), f, Offset(b, l, n), m, c, w) EXCEPT !.size = m + n]
          = Rec(Write(b, l, n), f, Offset(b, l, n), m + n, c, w)
    BY DEF Rec
  <2> QED
    BY <2>1, <2>2, <2>3, <2>4
<1>7. Dropped(b, n)
        = Rec(Destroy(b, Cells(b, f, n)), Offset(b, f, n), l, m - n, c, w)
  <2>1. Dropped(b, n)
          = [[[b EXCEPT !.store = Destroy(b, Cells(b, f, n))]
              EXCEPT !.first = Offset(b, f, n)]
              EXCEPT !.size = m - n]
    BY <1>1 DEF Dropped
  <2>2. [b EXCEPT !.store = Destroy(b, Cells(b, f, n))]
          = Rec(Destroy(b, Cells(b, f, n)), f, l, m, c, w)
    BY <1>1 DEF Rec
  <2>3. [Rec(Destroy(b, Cells(b, f, n)), f, l, m, c, w) EXCEPT !.first = Offset(b, f, n)]
          = Rec(Destroy(b, Cells(b, f, n)), Offset(b, f, n), l, m, c, w)
    BY DEF Rec
  <2>4. [Rec(Destroy(b, Cells(b, f, n)), Offset(b, f, n), l, m, c, w) EXCEPT !.size = m - n]
          = Rec(Destroy(b, Cells(b, f, n)), Offset(b, f, n), l, m - n, c, w)
    BY DEF Rec
  <2> QED
    BY <2>1, <2>2, <2>3, <2>4
<1>8. Emptied(b)
        = Rec(NoCells, 0, 0, 0, c, w)
  <2>1. Emptied(b)
          = [[[[b EXCEPT !.store = NoCells]
              EXCEPT !.first = 0]
              EXCEPT !.last = 0]
              EXCEPT !.size = 0]
    BY <1>1 DEF Emptied
  <2>2. [b EXCEPT !.store = NoCells]
          = Rec(NoCells, f, l, m, c, w)
    BY <1>1 DEF Rec
  <2>3. [Rec(NoCells, f, l, m, c, w) EXCEPT !.first = 0]
          = Rec(NoCells, 0, l, m, c, w)
    BY DEF Rec
  <2>4. [Rec(NoCells, 0, l, m, c, w) EXCEPT !.last = 0]
          = Rec(NoCells, 0, 0, m, c, w)
    BY DEF Rec
  <2>5. [Rec(NoCells, 0, 0, m, c, w) EXCEPT !.size = 0]
          = Rec(NoCells, 0, 0, 0, c, w)
    BY DEF Rec
  <2> QED
    BY <2>1, <2>2, <2>3, <2>4, <2>5
<1>9. [b EXCEPT !.overwrite = o] = Rec(st, f, l, m, c, o)
  BY <1>1 DEF Rec
<1> QED
  BY <1>2, <1>3, <1>4, <1>5, <1>6, <1>7, <1>8, <1>9 DEF st, f, l, m, c, w

-----------------------------------------------------------------------------
(* What an operation makes of a buffer.                                     *)

\* A buffer put together from fields of the right kinds.
LEMMA TypedRec ==
  ASSUME NEW s, NEW f \in Nat, NEW l \in Nat, NEW n \in Nat, NEW c \in Nat,
         NEW o \in BOOLEAN, DOMAIN s \subseteq Nat, s \in [DOMAIN s -> Cell],
         DOMAIN s = {} => f = 0 /\ l = 0 /\ n = 0
  PROVE  Typed(Rec(s, f, l, n, c, o))
<1> DEFINE r == Rec(s, f, l, n, c, o)
<1>1. /\ r.store = s /\ r.first = f /\ r.last = l /\ r.size = n
      /\ r.capacity = c /\ r.overwrite = o
      /\ r = Rec(r.store, r.first, r.last, r.size, r.capacity, r.overwrite)
  BY Fields
<1> HIDE DEF r
<1> SUFFICES Typed(r)
  BY DEF r
<1>2. /\ r.first \in Nat /\ r.last \in Nat /\ r.size \in Nat /\ r.capacity \in Nat
      /\ r.overwrite \in BOOLEAN
  BY <1>1
<1>3. DOMAIN r.store \subseteq Nat /\ r.store \in [DOMAIN r.store -> Cell]
  BY <1>1
<1>4. DOMAIN r.store = {} => r.first = 0 /\ r.last = 0 /\ r.size = 0
  BY <1>1
<1> QED
  BY <1>1, <1>2, <1>3, <1>4 DEF Typed

\* A buffer without cells is the only one whose storage is null.
LEMMA NoCellsEmpty ==
  /\ DOMAIN NoCells = {} /\ NoCells \in [DOMAIN NoCells -> Cell]
  /\ \A b : Typed(b) => (b.store = NoCells <=> DOMAIN b.store = {})
<1>1. ASSUME NEW f, DOMAIN f = {}, f \in [DOMAIN f -> Cell] PROVE f = NoCells
  BY <1>1 DEF NoCells
<1>2. DOMAIN NoCells = {} /\ NoCells \in [DOMAIN NoCells -> Cell]
  BY DEF NoCells
<1>3. \A b : Typed(b) => b.store \in [DOMAIN b.store -> Cell]
  BY DEF Typed
<1> QED
  BY <1>1, <1>2, <1>3

\* The numbers of a buffer, without the rest.
LEMMA Sizes ==
  ASSUME NEW b, Typed(b)
  PROVE  /\ b.first \in Nat /\ b.last \in Nat /\ b.size \in Nat /\ b.capacity \in Nat
         /\ b.overwrite \in BOOLEAN
         /\ DOMAIN b.store \subseteq Nat /\ b.store \in [DOMAIN b.store -> Cell]
BY DEF Typed

\* The numbers of a tidy buffer.
LEMMA Layout ==
  ASSUME NEW b, Typed(b), Tidy(b)
  PROVE  /\ b.first \in Nat /\ b.last \in 0 .. b.capacity /\ b.size \in 0 .. b.capacity
         /\ b.capacity \in Nat /\ (b.first < b.capacity \/ b.first = 0)
         /\ Closed(b) /\ b.overwrite \in BOOLEAN
         /\ DOMAIN b.store = 0 .. b.capacity - 1
BY Sizes DEF Tidy

\* A new buffer is tidy and empty.
LEMMA FreshOne ==
  ASSUME NEW n \in Nat
  PROVE  /\ Typed(Fresh(n)) /\ Tidy(Fresh(n)) /\ Items(Fresh(n)) = <<>>
         /\ Fresh(n) = Rec(Fresh(n).store, 0, 0, 0, n, TRUE)
         /\ DOMAIN Fresh(n).store = 0 .. n - 1
         /\ \A c \in 0 .. n - 1 : Fresh(n).store[c] = Raw
<1> DEFINE r == Fresh(n)
<1>1. r = Rec(r.store, 0, 0, 0, n, TRUE)
  BY DEF Fresh, Rec
<1>2. r.store = IF n = 0 THEN NoCells ELSE [c \in 0 .. n - 1 |-> Raw]
  BY DEF Fresh
<1>3. /\ r.first = 0 /\ r.last = 0 /\ r.size = 0 /\ r.capacity = n
      /\ r.overwrite = TRUE
  BY DEF Fresh
<1> HIDE DEF r
<1>4. DOMAIN r.store = 0 .. n - 1 /\ \A c \in 0 .. n - 1 : r.store[c] = Raw
  BY <1>2, NoCellsEmpty
<1>5. r.store \in [DOMAIN r.store -> Cell]
  BY <1>2, NoCellsEmpty DEF Cell
<1>6. Typed(r)
  <2>1. DOMAIN r.store \subseteq Nat
    BY <1>4
  <2>2. Typed(Rec(r.store, 0, 0, 0, n, TRUE))
    BY <1>5, <2>1, TypedRec
  <2> QED
    BY <1>1, <2>2
<1>7. Tidy(r)
  BY <1>3, <1>4 DEF Tidy, Closed, In
<1>8. Items(r) = <<>>
  BY <1>3 DEF Items
<1> QED
  BY <1>1, <1>4, <1>6, <1>7, <1>8 DEF r

\* Whatever became of a buffer, a push into a cell of its storage leaves it one.
LEMMA EmplaceTyped ==
  ASSUME NEW b, Typed(b), NEW v \in Elements, UnusedCell(b) \in DOMAIN b.store
  PROVE  Typed(EmplaceUnused(b, v))
<1> DEFINE u == UnusedCell(b)  s == [b.store EXCEPT ![u] = v]
<1>1. EmplaceUnused(b, v) = Rec(s, b.first, u + 1, b.size + 1, b.capacity, b.overwrite)
  BY Results
<1>2. DOMAIN s = DOMAIN b.store /\ s \in [DOMAIN s -> Cell] /\ u \in Nat
  BY DEF Typed, Cell
<1>3. DOMAIN s # {} /\ DOMAIN s \subseteq Nat
  BY <1>2 DEF Typed
<1>4. /\ b.first \in Nat /\ u + 1 \in Nat /\ b.size + 1 \in Nat /\ b.capacity \in Nat
      /\ b.overwrite \in BOOLEAN
  BY <1>2 DEF Typed
<1> HIDE DEF s, u
<1>5. DOMAIN s = {} => b.first = 0 /\ u + 1 = 0 /\ b.size + 1 = 0
  BY <1>3
<1>6. Typed(Rec(s, b.first, u + 1, b.size + 1, b.capacity, b.overwrite))
  BY <1>2, <1>3, <1>4, <1>5, TypedRec, Zenon
<1> QED
  BY <1>1, <1>6, Zenon

\* A tidy buffer with room: the element goes behind the newest.
LEMMA EmplaceUnusedOne ==
  ASSUME NEW b, Typed(b), Tidy(b), b.size < b.capacity, NEW v \in Elements
  PROVE  LET r == EmplaceUnused(b, v)  u == UnusedCell(b)
         IN  /\ u \in DOMAIN b.store /\ b.store[u] = Raw
             /\ Typed(r) /\ Tidy(r) /\ Items(r) = Append(Items(b), v)
             /\ r.capacity = b.capacity /\ r.overwrite = b.overwrite
<1> DEFINE r == EmplaceUnused(b, v)  u == UnusedCell(b)
<1>0. /\ b.first \in Nat /\ b.last \in 0 .. b.capacity /\ b.size \in 0 .. b.capacity
      /\ b.capacity \in Nat \ {0} /\ b.first < b.capacity /\ Closed(b)
  BY Layout
<1>1. u = At(b, b.size + 1) /\ u \in 0 .. b.capacity - 1
  <2>1. u = At(b, b.size + 1)
    BY <1>0 DEF UnusedCell, At, Closed
  <2>2. u \in 0 .. b.capacity - 1
    BY <1>0 DEF UnusedCell
  <2> QED
    BY <2>1, <2>2
<1>2. ~In(b, b.first, b.size, u)
  <2>1. u = IF b.first + b.size < b.capacity THEN b.first + b.size
            ELSE b.first + b.size - b.capacity
    BY <1>0, <1>1 DEF At
  <2> HIDE DEF u
  <2> QED
    BY <1>0, <1>1, <2>1 DEF In
<1>3. u \in DOMAIN b.store /\ b.store[u] = Raw
  BY <1>1, <1>2 DEF Tidy
<1>4. Typed(r)
  BY <1>3, EmplaceTyped
<1>5. /\ r.store = [b.store EXCEPT ![u] = v] /\ r.first = b.first /\ r.last = u + 1
      /\ r.size = b.size + 1 /\ r.capacity = b.capacity /\ r.overwrite = b.overwrite
  <2>1. r = Rec([b.store EXCEPT ![u] = v], b.first, u + 1, b.size + 1, b.capacity,
                b.overwrite)
    BY Results
  <2> HIDE DEF r, u
  <2> QED
    BY <2>1, Fields
<1> HIDE DEF r, u
<1>6. r.last = r.first + r.size \/ r.last = r.first + r.size - r.capacity
  BY <1>0, <1>1, <1>5 DEF At
<1>7. Tidy(r)
  <2>1. ASSUME NEW c \in 0 .. r.capacity - 1
        PROVE  In(r, r.first, r.size, c) <=> In(b, b.first, b.size, c) \/ c = u
    BY <1>0, <1>1, <1>5 DEF In, At
  <2>2. \A c \in 0 .. r.capacity - 1 : r.store[c] = IF c = u THEN v ELSE b.store[c]
    BY <1>5, <1>3 DEF Tidy
  <2>3. v # Raw
    BY RawIsNoElement
  <2>4. \A c \in 0 .. r.capacity - 1 : r.store[c] # Raw <=> In(r, r.first, r.size, c)
    BY <1>5, <2>1, <2>2, <2>3 DEF Tidy
  <2>5. /\ DOMAIN r.store = 0 .. r.capacity - 1
        /\ r.size <= r.capacity /\ r.last <= r.capacity
        /\ r.first < r.capacity \/ r.first = 0
    BY <1>1, <1>5 DEF Tidy, Typed
  <2> QED
    BY <1>6, <2>4, <2>5 DEF Tidy, Closed
<1>8. Items(r) = Append(Items(b), v)
  <2>1. /\ Items(r) \in Seq(Elements) /\ Len(Items(r)) = b.size + 1
        /\ \A i \in 1 .. b.size + 1 : Items(r)[i] = r.store[At(r, i)]
    <3>1. /\ Items(r) \in Seq(Elements) /\ Len(Items(r)) = r.size
          /\ \A i \in 1 .. r.size : Items(r)[i] = r.store[At(r, i)]
      BY <1>4, <1>7, ItemsOf, Zenon
    <3>2. r.size = b.size + 1
      BY <1>5, Zenon
    <3> QED
      BY <3>1, <3>2, Zenon
  <2>2. /\ Items(b) \in Seq(Elements) /\ Len(Items(b)) = b.size
        /\ \A i \in 1 .. b.size : Items(b)[i] = b.store[At(b, i)]
    BY ItemsOf, Zenon
  <2>3. ASSUME NEW i \in 1 .. b.size PROVE Items(r)[i] = Items(b)[i]
    <3>1. At(r, i) = At(b, i)
      BY <1>5 DEF At
    <3>2. At(b, i) # u /\ At(b, i) \in DOMAIN b.store
      BY ElementsAt, <1>3, RawIsNoElement
    <3>3. b.size \in Nat /\ i \in 1 .. b.size + 1
      BY DEF Typed
    <3> QED
      BY <1>5, <2>1, <2>2, <3>1, <3>2, <3>3
  <2>4. Items(r)[b.size + 1] = v
    <3>1. At(r, b.size + 1) = u
      BY <1>1, <1>5 DEF At
    <3>2. b.size + 1 \in 1 .. b.size + 1
      BY DEF Typed
    <3>3. Items(r)[b.size + 1] = r.store[u]
      BY <2>1, <3>1, <3>2
    <3> QED
      BY <1>3, <1>5, <3>3
  <2>5. b.size \in Nat
    BY DEF Typed
  <2> HIDE DEF r
  <2> QED
    BY <2>1, <2>2, <2>3, <2>4, <2>5, SameElements
<1> QED
  BY <1>3, <1>4, <1>5, <1>7, <1>8 DEF r, u

\* So does a push over the oldest element,
LEMMA OverwriteTyped ==
  ASSUME NEW b, Typed(b), NEW v \in Elements, b.first \in DOMAIN b.store
  PROVE  Typed(EmplaceOverwrite(b, v))
<1> DEFINE s == [b.store EXCEPT ![b.first] = v]
           f == IF b.first + 1 = b.capacity THEN 0 ELSE b.first + 1
<1>1. EmplaceOverwrite(b, v) = Rec(s, f, b.first + 1, b.size, b.capacity, b.overwrite)
  BY Results
<1>2. DOMAIN s = DOMAIN b.store /\ s \in [DOMAIN s -> Cell]
  BY Sizes DEF Cell
<1>3. DOMAIN s # {} /\ DOMAIN s \subseteq Nat
  BY <1>2, Sizes
<1>4. /\ f \in Nat /\ b.first + 1 \in Nat /\ b.size \in Nat /\ b.capacity \in Nat
      /\ b.overwrite \in BOOLEAN
  BY Sizes
<1> HIDE DEF s, f
<1>5. Typed(Rec(s, f, b.first + 1, b.size, b.capacity, b.overwrite))
  BY <1>2, <1>3, <1>4, TypedRec
<1> QED
  BY <1>1, <1>5

\* After a push over the oldest element, each position holds what the next one held.
LEMMA NextPlace ==
  ASSUME NEW n \in Nat \ {0}, NEW p \in 0 .. n - 1, NEW i \in 1 .. n - 1,
         NEW q \in 0 .. n - 1, q = IF p + 1 = n THEN 0 ELSE p + 1
  PROVE  LET a == IF q + i - 1 < n THEN q + i - 1 ELSE q + i - 1 - n
         IN  /\ a = IF p + (i + 1) - 1 < n THEN p + (i + 1) - 1 ELSE p + (i + 1) - 1 - n
             /\ a # p /\ a \in 0 .. n - 1
<1>1. CASE p + 1 = n
  BY <1>1
<1>2. CASE p + 1 # n
  BY <1>2
<1> QED
  BY <1>1, <1>2

\* A full tidy buffer: the newest element takes the place of the oldest.
LEMMA OverwriteOne ==
  ASSUME NEW b, Typed(b), Tidy(b), b.size = b.capacity, b.capacity > 0,
         NEW v \in Elements
  PROVE  LET r == EmplaceOverwrite(b, v)
         IN  /\ Typed(r) /\ Tidy(r) /\ Items(r) = Append(Tail(Items(b)), v)
             /\ r.capacity = b.capacity /\ r.overwrite = b.overwrite
<1> DEFINE r == EmplaceOverwrite(b, v)  n == b.size
<1>1. /\ b.first \in 0 .. n - 1 /\ n \in Nat \ {0} /\ b.capacity = n
      /\ b.first \in DOMAIN b.store /\ DOMAIN b.store = 0 .. n - 1
  BY Layout
<1>2. Typed(r)
  BY <1>1, OverwriteTyped
<1>3. /\ r.store = [b.store EXCEPT ![b.first] = v] /\ r.last = b.first + 1
      /\ r.first = (IF b.first + 1 = n THEN 0 ELSE b.first + 1)
      /\ r.size = n /\ r.capacity = n /\ r.overwrite = b.overwrite
  <2>1. r = Rec([b.store EXCEPT ![b.first] = v],
                IF b.first + 1 = b.capacity THEN 0 ELSE b.first + 1, b.first + 1,
                n, b.capacity, b.overwrite)
    BY Results
  <2> HIDE DEF r, n
  <2> QED
    BY <1>1, <2>1, Fields
<1> HIDE DEF r
<1>4. \A c \in 0 .. n - 1 : In(b, b.first, n, c) /\ In(r, r.first, n, c)
  BY <1>1, <1>3 DEF In
<1>5. Tidy(r)
  <2>1. DOMAIN r.store = 0 .. n - 1 /\ Closed(r) /\ r.last <= n /\ r.first < n
    BY <1>1, <1>3 DEF Closed
  <2>2. \A c \in 0 .. n - 1 : b.store[c] # Raw
    BY <1>1, <1>4 DEF Tidy
  <2>3. \A c \in 0 .. n - 1 : r.store[c] # Raw
    BY <1>1, <1>3, <2>2, RawIsNoElement
  <2> QED
    BY <1>3, <1>4, <2>1, <2>3 DEF Tidy
<1>6. Items(r) = Append(Tail(Items(b)), v)
  <2>1. /\ Items(r) \in Seq(Elements) /\ Len(Items(r)) = n
        /\ \A i \in 1 .. n : Items(r)[i] = r.store[At(r, i)]
    <3>1. /\ Items(r) \in Seq(Elements) /\ Len(Items(r)) = r.size
          /\ \A i \in 1 .. r.size : Items(r)[i] = r.store[At(r, i)]
      BY <1>2, <1>5, ItemsOf, Zenon
    <3>2. r.size = n
      BY <1>3, Zenon
    <3> QED
      BY <3>1, <3>2, Zenon
  <2>2. /\ Items(b) \in Seq(Elements) /\ Len(Items(b)) = n
        /\ \A i \in 1 .. n : Items(b)[i] = b.store[At(b, i)]
    BY ItemsOf, Zenon
  <2>3. ASSUME NEW i \in 1 .. n - 1 PROVE Items(r)[i] = Items(b)[i + 1]
    <3>1. At(r, i) = At(b, i + 1) /\ At(r, i) # b.first /\ At(r, i) \in 0 .. n - 1
      <4> DEFINE p == b.first  q == r.first
      <4>1. /\ p \in 0 .. n - 1 /\ q \in 0 .. n - 1 /\ n \in Nat \ {0}
            /\ q = IF p + 1 = n THEN 0 ELSE p + 1
        BY <1>1, <1>3
      <4>2. At(r, i) = IF q + i - 1 < n THEN q + i - 1 ELSE q + i - 1 - n
        BY <1>3 DEF At
      <4>3. At(b, i + 1) = IF p + (i + 1) - 1 < n THEN p + (i + 1) - 1
                           ELSE p + (i + 1) - 1 - n
        BY <1>1 DEF At
      <4> HIDE DEF p, q, n
      <4>4. /\ At(r, i) = At(b, i + 1)
            /\ At(r, i) # p /\ At(r, i) \in 0 .. n - 1
        BY <4>1, <4>2, <4>3, NextPlace
      <4> QED
        BY <4>4 DEF p
    <3>2. i \in 1 .. n /\ i + 1 \in 1 .. n
      BY <1>1
    <3>3. r.store[At(r, i)] = b.store[At(r, i)]
      BY <1>1, <1>3, <3>1
    <3> QED
      BY <2>1, <2>2, <3>1, <3>2, <3>3
  <2>4. Items(r)[n] = v
    <3>1. At(r, n) = b.first /\ n \in 1 .. n
      BY <1>1, <1>3 DEF At
    <3> QED
      BY <1>1, <1>3, <2>1, <3>1
  <2>5. /\ Tail(Items(b)) \in Seq(Elements) /\ Len(Tail(Items(b))) = n - 1
        /\ \A i \in 1 .. n - 1 : Tail(Items(b))[i] = Items(b)[i + 1]
    BY <1>1, <2>2
  <2> HIDE DEF n
  <2> QED
    BY <1>1, <2>1, <2>3, <2>4, <2>5, SameElements
<1> QED
  BY <1>1, <1>2, <1>3, <1>5, <1>6 DEF r

\* giving up the n oldest,
LEMMA DropTyped ==
  ASSUME NEW b, Typed(b), b.capacity > 0, NEW n \in 1 .. b.size,
         HoldsAll(b, Cells(b, b.first, n))
  PROVE  Typed(Dropped(b, n))
<1> DEFINE s == Destroy(b, Cells(b, b.first, n))  f == Offset(b, b.first, n)
<1>1. Dropped(b, n) = Rec(s, f, b.last, b.size - n, b.capacity, b.overwrite)
  BY Results
<1>2. DOMAIN s = DOMAIN b.store /\ s \in [DOMAIN s -> Cell] /\ DOMAIN s \subseteq Nat
  BY Sizes DEF Destroy, Cell
<1>3. DOMAIN s # {}
  <2>1. Offset(b, b.first, 0) \in Cells(b, b.first, n)
    BY Sizes DEF Cells
  <2> QED
    BY <1>2, <2>1 DEF HoldsAll
<1>4. /\ f \in Nat /\ b.last \in Nat /\ b.size - n \in Nat /\ b.capacity \in Nat
      /\ b.overwrite \in BOOLEAN
  BY Sizes DEF Offset
<1> HIDE DEF s, f
<1> QED
  BY <1>1, <1>2, <1>3, <1>4, TypedRec

\* Giving up the n oldest elements leaves the others, in their order.
LEMMA DropOne ==
  ASSUME NEW b, Typed(b), Tidy(b), NEW n \in 1 .. b.size
  PROVE  LET r == Dropped(b, n)
         IN  /\ b.capacity > 0 /\ HoldsAll(b, Cells(b, b.first, n))
             /\ Typed(r) /\ Tidy(r)
             /\ Items(r) = SubSeq(Items(b), n + 1, Len(Items(b)))
             /\ r.capacity = b.capacity /\ r.overwrite = b.overwrite
<1> DEFINE r == Dropped(b, n)  c == b.capacity  m == b.size
<1>1. /\ b.first \in 0 .. c - 1 /\ m \in 1 .. c /\ c \in Nat \ {0} /\ n \in 1 .. m
      /\ DOMAIN b.store = 0 .. c - 1 /\ Closed(b) /\ b.last \in 0 .. c
  BY Layout
<1>2. /\ Cells(b, b.first, n) \subseteq 0 .. c - 1
      /\ \A k \in 0 .. c - 1 : k \in Cells(b, b.first, n) <=> In(b, b.first, n, k)
  <2>1. c \in Nat /\ b.first \in 0 .. c /\ n \in 0 .. c
    BY <1>1
  <2> QED
    BY <2>1, CellsMet
<1>3. \A k \in 0 .. c - 1 : In(b, b.first, n, k) => In(b, b.first, m, k)
  BY <1>1 DEF In
<1>4. HoldsAll(b, Cells(b, b.first, n))
  BY <1>1, <1>2, <1>3 DEF HoldsAll, Tidy
<1>5. Typed(r)
  BY <1>1, <1>4, DropTyped
<1>6. Offset(b, b.first, n) = IF b.first + n < c THEN b.first + n ELSE b.first + n - c
  <2>1. b.first + n < 2 * c /\ b.first \in 0 .. c /\ n \in 0 .. c
    BY <1>1
  <2> QED
    BY <1>1, <2>1, Offsets
<1>7. /\ r.store = Destroy(b, Cells(b, b.first, n)) /\ r.last = b.last
      /\ r.first = (IF b.first + n < c THEN b.first + n ELSE b.first + n - c)
      /\ r.size = m - n /\ r.capacity = c /\ r.overwrite = b.overwrite
  <2>1. r = Rec(Destroy(b, Cells(b, b.first, n)), Offset(b, b.first, n), b.last,
                m - n, c, b.overwrite)
    BY Results
  <2> HIDE DEF r, c, m
  <2> QED
    BY <1>6, <2>1, Fields
<1> HIDE DEF r
<1> DEFINE f == b.first  l == b.last  g == r.first
<1>0. /\ f \in Nat /\ g \in Nat /\ l \in Nat /\ m \in Nat /\ c \in Nat /\ n \in Nat
      /\ f < c /\ g < c /\ m <= c /\ n <= m /\ n >= 1 /\ l <= c
      /\ (f + n < c /\ g = f + n) \/ (f + n >= c /\ g = f + n - c)
      /\ (l = f + m \/ l = f + m - c)
  <2>1. /\ f \in Nat /\ l \in Nat /\ m \in Nat /\ c \in Nat /\ n \in Nat
        /\ f < c /\ m <= c /\ n <= m /\ n >= 1 /\ l <= c
    BY <1>1
  <2>2. l = f + m \/ l = f + m - c
    BY <1>1, <2>1 DEF Closed
  <2>3. g = IF f + n < c THEN f + n ELSE f + n - c
    BY <1>7
  <2> HIDE DEF f, l, g, m, c
  <2> QED
    BY <2>1, <2>2, <2>3
<1>names. /\ b.first = f /\ b.last = l /\ b.size = m /\ b.capacity = c
       /\ r.first = g /\ r.last = l /\ r.size = m - n /\ r.capacity = c
  BY <1>7
<1> HIDE DEF f, l, g, m, c
<1>8. \A k \in 0 .. c - 1 :
        In(r, g, m - n, k) <=> In(b, f, m, k) /\ ~In(b, f, n, k)
  BY <1>0, <1>names DEF In
<1>9. /\ DOMAIN r.store = 0 .. c - 1
      /\ \A k \in 0 .. c - 1 :
           r.store[k] = IF In(b, f, n, k) THEN Raw ELSE b.store[k]
  BY <1>names, <1>1, <1>2, <1>7 DEF Destroy
<1>10. Tidy(r)
  <2>0. Closed(r)
    BY <1>0, <1>names DEF Closed
  <2>1. r.last <= c /\ r.first < c /\ m - n <= c
    BY <1>0, <1>names
  <2>2. \A k \in 0 .. c - 1 : b.store[k] # Raw <=> In(b, f, m, k)
    BY <1>names DEF Tidy
  <2>3. \A k \in 0 .. c - 1 : r.store[k] # Raw <=> In(r, g, m - n, k)
    BY <1>8, <1>9, <2>2
  <2> QED
    BY <1>0, <1>names, <1>9, <2>0, <2>1, <2>3 DEF Tidy
<1>11. Items(r) = SubSeq(Items(b), n + 1, Len(Items(b)))
  <2>1. /\ Items(r) \in Seq(Elements) /\ Len(Items(r)) = m - n
        /\ \A i \in 1 .. m - n : Items(r)[i] = r.store[At(r, i)]
    <3>1. /\ Items(r) \in Seq(Elements) /\ Len(Items(r)) = r.size
          /\ \A i \in 1 .. r.size : Items(r)[i] = r.store[At(r, i)]
      BY <1>5, <1>10, ItemsOf, Zenon
    <3>2. r.size = m - n
      BY <1>names, Zenon
    <3> QED
      BY <3>1, <3>2, Zenon
  <2>2. /\ Items(b) \in Seq(Elements) /\ Len(Items(b)) = m
        /\ \A i \in 1 .. m : Items(b)[i] = b.store[At(b, i)]
    <3>1. /\ Items(b) \in Seq(Elements) /\ Len(Items(b)) = b.size
          /\ \A i \in 1 .. b.size : Items(b)[i] = b.store[At(b, i)]
      BY ItemsOf, Zenon
    <3>2. b.size = m
      BY <1>names, Zenon
    <3> QED
      BY <3>1, <3>2, Zenon
  <2>3. ASSUME NEW i \in 1 .. m - n PROVE Items(r)[i] = Items(b)[i + n]
    <3>1. At(r, i) = At(b, i + n) /\ At(r, i) \in 0 .. c - 1
      BY <1>0, <1>names DEF At
    <3>0. ~In(b, f, n, At(b, i + n))
      BY <1>0, <1>names DEF At, In
    <3>2. i + n \in 1 .. m
      BY <1>0
    <3> QED
      BY <1>9, <2>1, <2>2, <3>0, <3>1, <3>2
  <2> DEFINE q == SubSeq(Items(b), n + 1, m)
  <2>4. /\ q \in Seq(Elements) /\ Len(q) = m - n
        /\ \A i \in 1 .. m - n : q[i] = Items(b)[i + n]
    BY <1>0, <2>2
  <2> HIDE DEF q, m
  <2>5. Items(r) = q
    BY <2>1, <2>3, <2>4, SameElements
  <2> QED
    BY <2>2, <2>5 DEF q
<1> QED
  BY <1>1, <1>4, <1>5, <1>7, <1>10, <1>11 DEF r, c

\* popping one,
LEMMA PopTyped ==
  ASSUME NEW b, Typed(b), b.size > 0, PopSafe(b)
  PROVE  Typed(AfterPop(b)) /\ b.store[b.first] \in Elements
<1> DEFINE s == [b.store EXCEPT ![b.first] = Raw]  f == Offset(b, b.first, 1)
<1>1. AfterPop(b) = Rec(s, f, b.last, b.size - 1, b.capacity, b.overwrite)
  BY Results
<1>2. b.first \in DOMAIN b.store /\ b.store[b.first] # Raw
  BY DEF PopSafe, HoldsAll
<1>3. DOMAIN s = DOMAIN b.store /\ s \in [DOMAIN s -> Cell] /\ DOMAIN s \subseteq Nat
  BY Sizes DEF Cell
<1>4. DOMAIN s # {}
  BY <1>2, <1>3
<1>5. /\ f \in Nat /\ b.last \in Nat /\ b.size - 1 \in Nat /\ b.capacity \in Nat
      /\ b.overwrite \in BOOLEAN
  BY Sizes DEF Offset, PopSafe
<1>6. b.store[b.first] \in Elements
  BY <1>2, Sizes DEF Cell
<1> HIDE DEF s, f
<1> QED
  BY <1>1, <1>3, <1>4, <1>5, <1>6, TypedRec

\* Popping gives up one element, the oldest.
LEMMA PopOne ==
  ASSUME NEW b, Typed(b), Tidy(b), b.size > 0
  PROVE  LET r == AfterPop(b)
         IN  /\ PopSafe(b) /\ Typed(r) /\ Tidy(r) /\ Items(r) = Tail(Items(b))
             /\ Items(b) # <<>> /\ b.store[b.first] = Head(Items(b))
             /\ r.capacity = b.capacity /\ r.overwrite = b.overwrite
<1>1. /\ b.first \in 0 .. b.capacity - 1 /\ b.capacity \in Nat \ {0}
      /\ 1 \in 1 .. b.size /\ b.size \in Nat
  BY Layout
<1>2. Cells(b, b.first, 1) = {b.first}
  <2>1. Offset(b, b.first, 0) = b.first
    BY <1>1 DEF Offset
  <2> QED
    BY <2>1 DEF Cells
<1>3. AfterPop(b) = Dropped(b, 1)
  <2>1. Destroy(b, Cells(b, b.first, 1)) = [b.store EXCEPT ![b.first] = Raw]
    BY <1>2, Sizes DEF Destroy
  <2>2. AfterPop(b) = Rec([b.store EXCEPT ![b.first] = Raw], Offset(b, b.first, 1),
                          b.last, b.size - 1, b.capacity, b.overwrite)
    BY Results
  <2>3. Dropped(b, 1) = Rec(Destroy(b, Cells(b, b.first, 1)), Offset(b, b.first, 1),
                            b.last, b.size - 1, b.capacity, b.overwrite)
    BY Results
  <2> QED
    BY <2>1, <2>2, <2>3, Zenon
<1> DEFINE r == Dropped(b, 1)
<1>4. /\ b.capacity > 0 /\ HoldsAll(b, Cells(b, b.first, 1)) /\ Typed(r) /\ Tidy(r)
      /\ Items(r) = SubSeq(Items(b), 1 + 1, Len(Items(b)))
      /\ r.capacity = b.capacity /\ r.overwrite = b.overwrite
  BY <1>1, DropOne
<1> HIDE DEF r
<1>5. /\ Items(b) \in Seq(Elements) /\ Len(Items(b)) = b.size
      /\ Items(b)[1] = b.store[At(b, 1)]
  BY <1>1, ItemsOf
<1>6. At(b, 1) = b.first
  BY <1>1 DEF At
<1>7. SubSeq(Items(b), 2, Len(Items(b))) = Tail(Items(b)) /\ Items(b) # <<>>
  BY <1>1, <1>5
<1>8. AfterPop(b) = r
  BY <1>3 DEF r
<1>9. PopSafe(b)
  BY <1>2, <1>4 DEF PopSafe
<1>10. b.store[b.first] = Head(Items(b))
  BY <1>5, <1>6, <1>7
<1> QED
  BY <1>4, <1>7, <1>8, <1>9, <1>10

\* The cells between _first and _last of any buffer that can be walked hold elements.
LEMMA SpanTyped ==
  ASSUME NEW b, Typed(b), Walkable(b)
  PROVE  /\ Len(Span(b)) \in Nat /\ DOMAIN Span(b) = 1 .. Len(Span(b))
         /\ b.size = 0 => Len(Span(b)) = 0
         /\ \A i \in 1 .. Len(Span(b)) :
              Span(b)[i] \in DOMAIN b.store /\ b.store[Span(b)[i]] \in Elements
<1>1. /\ Len(Span(b)) \in Nat /\ DOMAIN Span(b) = 1 .. Len(Span(b))
      /\ b.size = 0 => Len(Span(b)) = 0
  <2>1. CASE b.size = 0
    BY <2>1 DEF Span
  <2>2. CASE b.size # 0 /\ ~Wrapped(b)
    <3>1. b.last - b.first \in Nat
      BY <2>2, Sizes DEF Wrapped
    <3> QED
      BY <2>2, <3>1 DEF Span
  <2>3. CASE b.size # 0 /\ Wrapped(b)
    <3>1. Turn(b) + b.last \in Nat
      BY <2>3, Sizes DEF Walkable, Turn
    <3> QED
      BY <2>3, <3>1 DEF Span
  <2> QED
    BY <2>1, <2>2, <2>3
<1>2. ASSUME NEW i \in 1 .. Len(Span(b))
      PROVE  Span(b)[i] \in DOMAIN b.store /\ b.store[Span(b)[i]] \in Elements
  <2>1. Span(b)[i] \in DOMAIN b.store /\ b.store[Span(b)[i]] # Raw
    BY <1>1 DEF Walkable, HoldsAll, Range
  <2> QED
    BY <2>1, Sizes DEF Cell
<1> QED
  BY <1>1, <1>2

\* In a tidy buffer these are the cells of its elements, oldest first, so that
\* _cleanup destroys all of them.
LEMMA SpanOne ==
  ASSUME NEW b, Typed(b), Tidy(b)
  PROVE  /\ Walkable(b) /\ Len(Span(b)) = b.size /\ Left(b) = {}
         /\ \A i \in 1 .. b.size : Span(b)[i] = At(b, i)
         /\ \A c \in 0 .. b.capacity - 1 : b.store[c] # Raw => c \in Range(Span(b))
<1>0. /\ b.first \in Nat /\ b.last \in 0 .. b.capacity /\ b.size \in 0 .. b.capacity
      /\ b.capacity \in Nat /\ (b.first < b.capacity \/ b.first = 0) /\ Closed(b)
      /\ DOMAIN b.store = 0 .. b.capacity - 1
  BY Layout
<1>1. /\ DOMAIN Span(b) = 1 .. b.size /\ Len(Span(b)) = b.size
      /\ \A i \in 1 .. b.size : Span(b)[i] = At(b, i)
      /\ Wrapped(b) => b.first <= b.capacity
  <2>1. CASE b.size = 0
    BY <2>1 DEF Span, Wrapped
  <2>2. CASE b.size # 0 /\ ~Wrapped(b)
    <3>1. b.last - b.first = b.size
      BY <1>0, <2>2 DEF Wrapped, Closed
    <3>2. \A i \in 1 .. b.size : At(b, i) = b.first + i - 1
      BY <1>0, <3>1 DEF At
    <3>3. Span(b) = [i \in 1 .. b.size |-> b.first + i - 1]
      BY <2>2, <3>1 DEF Span
    <3> QED
      BY <1>0, <2>2, <3>2, <3>3
  <2>3. CASE b.size # 0 /\ Wrapped(b)
    <3>1. Turn(b) + b.last = b.size /\ b.first < b.capacity
      BY <1>0, <2>3 DEF Wrapped, Closed, Turn
    <3>2. \A i \in 1 .. b.size :
            At(b, i) = IF i <= Turn(b) THEN b.first + i - 1 ELSE i - Turn(b) - 1
      BY <1>0, <3>1 DEF At, Turn
    <3>3. Span(b) = [i \in 1 .. b.size |->
                       IF i <= Turn(b) THEN b.first + i - 1 ELSE i - Turn(b) - 1]
      BY <2>3, <3>1 DEF Span
    <3> QED
      BY <1>0, <3>1, <3>2, <3>3
  <2> QED
    BY <2>1, <2>2, <2>3
<1>2. HoldsAll(b, Range(Span(b)))
  <2>1. \A i \in 1 .. b.size : Span(b)[i] \in DOMAIN b.store /\ b.store[Span(b)[i]] # Raw
    BY <1>1, ElementsAt, RawIsNoElement
  <2> QED
    BY <1>1, <2>1 DEF HoldsAll, Range
<1>3. ASSUME NEW c \in 0 .. b.capacity - 1, b.store[c] # Raw
      PROVE  c \in Range(Span(b))
  <2>1. In(b, b.first, b.size, c)
    BY <1>3 DEF Tidy
  <2>2. \E i \in 1 .. b.size : At(b, i) = c
    <3>1. CASE b.first <= c
      <4>1. PICK i \in Int : i = c - b.first + 1
        BY <1>0
      <4>2. c < b.first + b.size
        BY <1>0, <2>1, <3>1 DEF In
      <4>3. i \in 1 .. b.size
        BY <1>0, <3>1, <4>1, <4>2
      <4>4. b.first + i - 1 = c
        BY <1>0, <4>1
      <4>5. At(b, i) = c
        BY <1>0, <4>4 DEF At
      <4> QED
        BY <4>3, <4>5
    <3>2. CASE c < b.first
      <4>1. PICK i \in Int : i = c + b.capacity - b.first + 1
        BY <1>0
      <4>2. c + b.capacity < b.first + b.size
        BY <1>0, <2>1, <3>2 DEF In
      <4>3. i \in 1 .. b.size
        <5>1. /\ b.first \in Nat /\ b.capacity \in Nat /\ b.size \in Nat /\ c \in Nat
              /\ b.first < b.capacity
          BY <1>0
        <5>2. i >= 1
          BY <4>1, <5>1
        <5>3. i <= b.size
          BY <4>1, <4>2, <5>1
        <5> QED
          BY <5>1, <5>2, <5>3
      <4>4. b.first + i - 1 = c + b.capacity
        BY <1>0, <4>1
      <4>5. At(b, i) = c
        BY <1>0, <4>4 DEF At
      <4> QED
        BY <4>3, <4>5
    <3> QED
      BY <1>0, <3>1, <3>2
  <2> QED
    BY <1>1, <2>2 DEF Range
<1>4. Walkable(b)
  BY <1>1, <1>2 DEF Walkable
<1>5. Left(b) = {}
  BY <1>0, <1>3 DEF Left
<1> QED
  BY <1>1, <1>3, <1>4, <1>5

\* clear leaves the storage, without elements.
LEMMA ClearOne ==
  ASSUME NEW b, Typed(b)
  PROVE  LET r == Cleared(b)
         IN  /\ Typed(r) /\ r.capacity = b.capacity /\ r.overwrite = b.overwrite
             /\ Tidy(b) => Tidy(r) /\ Items(r) = <<>>
<1> DEFINE r == Cleared(b)  s == Destroy(b, Range(Span(b)))
<1>1. r = Rec(s, 0, 0, 0, b.capacity, b.overwrite)
  BY Results
<1>2. /\ DOMAIN s = DOMAIN b.store /\ s \in [DOMAIN s -> Cell] /\ DOMAIN s \subseteq Nat
      /\ \A c \in DOMAIN s : s[c] = IF c \in Range(Span(b)) THEN Raw ELSE b.store[c]
  BY Sizes DEF Destroy, Cell
<1> HIDE DEF r, s
<1>3. Typed(r)
  BY <1>1, <1>2, Sizes, TypedRec
<1>4. /\ r.store = s /\ r.first = 0 /\ r.last = 0 /\ r.size = 0
      /\ r.capacity = b.capacity /\ r.overwrite = b.overwrite
  BY <1>1, Fields
<1>5. ASSUME Tidy(b) PROVE Tidy(r) /\ Items(r) = <<>>
  <2>1. \A c \in 0 .. b.capacity - 1 : b.store[c] # Raw => c \in Range(Span(b))
    BY <1>5, SpanOne
  <2>2. DOMAIN s = 0 .. b.capacity - 1 /\ b.capacity \in Nat
    BY <1>2, <1>5, Layout
  <2>3. \A c \in 0 .. b.capacity - 1 : s[c] = Raw
    BY <1>2, <2>1, <2>2
  <2>4. \A c \in 0 .. b.capacity - 1 : ~In(r, 0, 0, c)
    BY <1>4, <2>2 DEF In
  <2>5. Tidy(r)
    BY <1>4, <2>2, <2>3, <2>4 DEF Tidy, Closed
  <2> QED
    BY <1>4, <2>5 DEF Items
<1> QED
  BY <1>3, <1>4, <1>5 DEF r

\* The elements that n pushes bring.
Brought(n) == [i \in 1 .. n |-> pushed + i]

\* The cells n elements go into from p on.
Places(b, p, n) == [i \in 1 .. n |-> Offset(b, p, i - 1)]

\* commit_write puts them into different cells.
LEMMA WriteCells ==
  ASSUME NEW b, Typed(b), pushed \in Nat, NEW n \in 1 .. 2, pushed + n <= MaxPushes,
         MaxPushes \in Nat, NEW p \in Nat
  PROVE  LET at == Places(b, p, n)  s == Write(b, p, n)
         IN  /\ DOMAIN s = DOMAIN b.store /\ s \in [DOMAIN s -> Cell]
             /\ \A c \in DOMAIN s : (\A i \in 1 .. n : at[i] # c) => s[c] = b.store[c]
             /\ (\A i, j \in 1 .. n : at[i] = at[j] => i = j) =>
                  \A i \in 1 .. n : at[i] \in DOMAIN s => s[at[i]] = pushed + i
<1> DEFINE at == Places(b, p, n)
           which(c) == CHOOSE i \in 1 .. n : at[i] = c
           s == Write(b, p, n)
<1>1. s = [c \in DOMAIN b.store |->
             IF \E i \in 1 .. n : at[i] = c THEN pushed + which(c) ELSE b.store[c]]
  BY DEF Write, Places
<1>2. \A c : (\E i \in 1 .. n : at[i] = c) => which(c) \in 1 .. n /\ at[which(c)] = c
  OBVIOUS
<1>3. \A i \in 1 .. n : pushed + i \in Cell
  BY DEF Cell, Elements
<1>4. b.store \in [DOMAIN b.store -> Cell]
  BY Sizes
<1> HIDE DEF at, which, s
<1>5. DOMAIN s = DOMAIN b.store /\ s \in [DOMAIN s -> Cell]
  BY <1>1, <1>2, <1>3, <1>4
<1>6. \A c \in DOMAIN s : (\A i \in 1 .. n : at[i] # c) => s[c] = b.store[c]
  BY <1>1
<1>7. ASSUME \A i, j \in 1 .. n : at[i] = at[j] => i = j, NEW i \in 1 .. n,
             at[i] \in DOMAIN s
      PROVE  s[at[i]] = pushed + i
  <2>1. which(at[i]) = i
    BY <1>2, <1>7
  <2> QED
    BY <1>1, <1>7, <2>1
<1> QED
  BY <1>5, <1>6, <1>7 DEF at, s

\* and writing n in place.
LEMMA WriteTyped ==
  ASSUME NEW b, Typed(b), pushed \in Nat, NEW n \in 1 .. 2, pushed + n <= MaxPushes,
         MaxPushes \in Nat, b.size + n <= b.capacity,
         Cells(b, b.last, n) \subseteq DOMAIN b.store
  PROVE  Typed(Written(b, n))
<1> DEFINE s == Write(b, b.last, n)  l == Offset(b, b.last, n)
<1>1. Written(b, n) = Rec(s, b.first, l, b.size + n, b.capacity, b.overwrite)
  BY Results
<1>2. DOMAIN s = DOMAIN b.store /\ s \in [DOMAIN s -> Cell] /\ DOMAIN s \subseteq Nat
  BY Sizes, WriteCells
<1>3. DOMAIN s # {}
  <2>1. Offset(b, b.last, 0) \in Cells(b, b.last, n)
    BY DEF Cells
  <2> QED
    BY <1>2, <2>1
<1>4. /\ b.first \in Nat /\ l \in Nat /\ b.size + n \in Nat /\ b.capacity \in Nat
      /\ b.overwrite \in BOOLEAN
  BY Sizes DEF Offset
<1> HIDE DEF s, l
<1> QED
  BY <1>1, <1>2, <1>3, <1>4, TypedRec

\* Written in place, the elements join the others behind the newest.
LEMMA WriteOne ==
  ASSUME NEW b, Typed(b), Tidy(b), pushed \in Nat, NEW n \in 1 .. 2,
         pushed + n <= MaxPushes, MaxPushes \in Nat, b.size + n <= b.capacity
  PROVE  LET r == Written(b, n)
         IN  /\ Cells(b, b.last, n) \subseteq DOMAIN b.store
             /\ \A c \in Cells(b, b.last, n) : b.store[c] = Raw
             /\ Typed(r) /\ Tidy(r) /\ Items(r) = Items(b) \o Brought(n)
             /\ r.capacity = b.capacity /\ r.overwrite = b.overwrite
<1> DEFINE r == Written(b, n)  f == b.first  l == b.last  m == b.size  c == b.capacity
           s == Write(b, l, n)  at == Places(b, l, n)
<1>0. /\ DOMAIN s = DOMAIN b.store
      /\ \A k \in DOMAIN s : (\A i \in 1 .. n : at[i] # k) => s[k] = b.store[k]
      /\ (\A i, j \in 1 .. n : at[i] = at[j] => i = j) =>
           \A i \in 1 .. n : at[i] \in DOMAIN s => s[at[i]] = pushed + i
  <2>1. l \in Nat
    BY Layout
  <2> QED
    BY <2>1, WriteCells
<1>1. /\ f \in Nat /\ l \in Nat /\ m \in Nat /\ c \in Nat \ {0} /\ n \in Nat
      /\ f < c /\ l <= c /\ m + n <= c
      /\ (l = f + m \/ l = f + m - c \/ (m = 0 /\ f = 0 /\ l = c))
  BY Layout DEF Closed
<1>2. /\ b.first = f /\ b.last = l /\ b.size = m /\ b.capacity = c
      /\ DOMAIN b.store = 0 .. c - 1
  BY Layout
<1>3. \A k \in 0 .. n : Offset(b, l, k) = IF l + k < c THEN l + k
                                          ELSE IF l + k < 2 * c THEN l + k - c ELSE 0
  <2>1. \A k \in 0 .. n : k \in 0 .. b.capacity /\ b.last \in 0 .. b.capacity
    BY <1>1
  <2> QED
    BY <1>1, <2>1, Offsets
<1> HIDE DEF f, l, m, c
<1>4. \A i \in 1 .. n : at[i] = At(b, m + i) /\ at[i] \in 0 .. c - 1
  <2> TAKE i \in 1 .. n
  <2>1. at[i] = Offset(b, l, i - 1) /\ i - 1 \in 0 .. n
    BY <1>1 DEF Places
  <2>2. Offset(b, l, i - 1) = IF l + (i - 1) < c THEN l + (i - 1) ELSE l + (i - 1) - c
    BY <1>1, <1>3, <2>1
  <2>3. At(b, m + i) = IF f + (m + i) - 1 < c THEN f + (m + i) - 1
                       ELSE f + (m + i) - 1 - c
    BY <1>2 DEF At
  <2> HIDE DEF at
  <2> QED
    BY <1>1, <2>1, <2>2, <2>3
<1>5. \A i, j \in 1 .. n : at[i] = at[j] => i = j
  <2>1. \A i \in 1 .. n : at[i] = IF l + (i - 1) < c THEN l + (i - 1) ELSE l + (i - 1) - c
    BY <1>1, <1>3 DEF Places
  <2> HIDE DEF at
  <2> QED
    BY <1>1, <2>1
<1>6. /\ Cells(b, l, n) \subseteq 0 .. c - 1
      /\ \A k \in 0 .. c - 1 : k \in Cells(b, l, n) <=> In(b, l, n, k)
  <2>1. b.capacity \in Nat /\ l \in 0 .. b.capacity /\ n \in 0 .. b.capacity
    BY <1>1, <1>2
  <2> QED
    BY <1>2, <2>1, CellsMet
<1>7. \A k \in 0 .. c - 1 : In(b, l, n, k) => ~In(b, f, m, k)
  BY <1>1, <1>2 DEF In
<1>8. \A k \in Cells(b, l, n) : b.store[k] = Raw
  BY <1>2, <1>6, <1>7 DEF Tidy
<1>9. Typed(r)
  BY <1>1, <1>2, <1>6, WriteTyped
<1>10. /\ r.store = s /\ r.first = f /\ r.last = Offset(b, l, n) /\ r.size = m + n
       /\ r.capacity = c /\ r.overwrite = b.overwrite
  <2>1. r = Rec(s, f, Offset(b, l, n), m + n, c, b.overwrite)
    BY Results DEF f, l, m, c
  <2> HIDE DEF r, s
  <2> QED
    BY <2>1, Fields
<1>11. /\ DOMAIN s = 0 .. c - 1
       /\ \A k \in 0 .. c - 1 : (\A i \in 1 .. n : at[i] # k) => s[k] = b.store[k]
       /\ \A i \in 1 .. n : s[at[i]] = pushed + i
  <2>3. \A i, j \in 1 .. n : at[i] = at[j] => i = j
    BY <1>5
  <2> HIDE DEF s, at
  <2>4. DOMAIN s = 0 .. c - 1 /\ \A i \in 1 .. n : at[i] \in DOMAIN s
    BY <1>2, <1>4, <1>0
  <2> QED
    BY <1>0, <2>3, <2>4
<1>12. Cells(b, l, n) = {at[i] : i \in 1 .. n}
  BY DEF Cells, Places
<1> HIDE DEF r, s, at
<1>13. Tidy(r)
  <2>1. Closed(r) /\ r.last <= c
    <3>1. r.last = IF l + n < c THEN l + n
                   ELSE IF l + n < 2 * c THEN l + n - c ELSE 0
      BY <1>1, <1>3, <1>10
    <3> QED
      BY <1>1, <1>10, <3>1 DEF Closed
  <2>2. \A k \in 0 .. c - 1 :
          In(r, f, m + n, k) <=> In(b, f, m, k) \/ In(b, l, n, k)
    BY <1>1, <1>2, <1>10 DEF In
  <2>3. \A k \in 0 .. c - 1 : b.store[k] # Raw <=> In(b, f, m, k)
    BY <1>2 DEF Tidy
  <2>4. \A i \in 1 .. n : pushed + i # Raw
    BY DEF Raw
  <2>5. ASSUME NEW k \in 0 .. c - 1 PROVE s[k] # Raw <=> In(r, f, m + n, k)
    <3>1. CASE k \in Cells(b, l, n)
      <4>1. PICK i \in 1 .. n : k = at[i]
        BY <1>12, <3>1
      <4> QED
        BY <1>6, <1>11, <2>2, <2>4, <3>1, <4>1
    <3>2. CASE k \notin Cells(b, l, n)
      <4>1. s[k] = b.store[k]
        BY <1>11, <1>12, <3>2
      <4> QED
        BY <1>6, <2>2, <2>3, <3>2, <4>1
    <3> QED
      BY <3>1, <3>2
  <2> QED
    BY <1>1, <1>10, <1>11, <2>1, <2>5 DEF Tidy
<1>14. Items(r) = Items(b) \o Brought(n)
  <2>1. /\ Items(r) \in Seq(Elements) /\ Len(Items(r)) = m + n
        /\ \A i \in 1 .. m + n : Items(r)[i] = s[At(r, i)]
    <3>1. /\ Items(r) \in Seq(Elements) /\ Len(Items(r)) = r.size
          /\ \A i \in 1 .. r.size : Items(r)[i] = r.store[At(r, i)]
      BY <1>9, <1>13, ItemsOf, Zenon
    <3>2. r.size = m + n /\ r.store = s
      BY <1>10, Zenon
    <3> QED
      BY <3>1, <3>2, Zenon
  <2>2. /\ Items(b) \in Seq(Elements) /\ Len(Items(b)) = m
        /\ \A i \in 1 .. m : Items(b)[i] = b.store[At(b, i)]
    BY <1>2, ItemsOf
  <2>3. \A i \in 1 .. m + n : At(r, i) = At(b, i)
    BY <1>2, <1>10 DEF At
  <2>4. ASSUME NEW i \in 1 .. m PROVE Items(r)[i] = Items(b)[i]
    <3>1. At(b, i) \in 0 .. c - 1 /\ b.store[At(b, i)] \in Elements
      BY <1>2, ElementsAt
    <3>2. \A k \in 1 .. n : at[k] # At(b, i)
      BY <1>8, <1>12, <3>1, RawIsNoElement
    <3>3. i \in 1 .. m + n
      BY <1>1
    <3> QED
      BY <1>11, <2>1, <2>2, <2>3, <3>1, <3>2, <3>3
  <2>5. ASSUME NEW i \in 1 .. n PROVE Items(r)[m + i] = pushed + i
    <3>1. m + i \in 1 .. m + n
      BY <1>1
    <3> QED
      BY <1>4, <1>11, <2>1, <2>3, <3>1
  <2>6. /\ Brought(n) \in Seq(Elements) /\ Len(Brought(n)) = n
        /\ \A i \in 1 .. n : Brought(n)[i] = pushed + i
    BY <1>1 DEF Brought, Elements
  <2> DEFINE q == Items(b) \o Brought(n)
  <2>7. /\ q \in Seq(Elements) /\ Len(q) = m + n
        /\ \A i \in 1 .. m : q[i] = Items(b)[i]
        /\ \A i \in 1 .. n : q[m + i] = Brought(n)[i]
    BY <1>1, <2>2, <2>6
  <2> HIDE DEF q
  <2>8. \A i \in 1 .. m + n : Items(r)[i] = q[i]
    <3> TAKE i \in 1 .. m + n
    <3>1. CASE i \in 1 .. m
      BY <2>4, <2>7, <3>1
    <3>2. CASE i \notin 1 .. m
      <4>1. i - m \in 1 .. n /\ i = m + (i - m)
        BY <1>1, <3>2
      <4>2. q[m + (i - m)] = pushed + (i - m) /\ Items(r)[m + (i - m)] = pushed + (i - m)
        BY <2>5, <2>6, <2>7, <4>1
      <4> QED
        BY <4>1, <4>2
    <3> QED
      BY <3>1, <3>2
  <2>9. Items(r) = q
    BY <2>1, <2>7, <2>8, SameElements
  <2> QED
    BY <2>9 DEF q
<1> QED
  BY <1>2, <1>6, <1>8, <1>9, <1>10, <1>13, <1>14 DEF r, l, c

\* The new storage of a buffer that can be walked and fits.
LEMMA ReallocTyped ==
  ASSUME NEW b, Typed(b), NEW n \in Nat, Fits(b, n)
  PROVE  LET r == Reallocate(b, n)
         IN  /\ Typed(r) /\ r.capacity = n /\ r.overwrite = b.overwrite
             /\ r.first = 0 /\ r.last = Len(Span(b)) /\ r.size = 0
             /\ DOMAIN r.store = 0 .. n - 1 /\ Len(Span(b)) \in 0 .. n
             /\ \A c \in 0 .. n - 1 :
                  r.store[c] = IF c < Len(Span(b)) THEN b.store[Span(b)[c + 1]] ELSE Raw
<1> DEFINE r == Reallocate(b, n)  m == Len(Span(b))
           s == [c \in DOMAIN Fresh(n).store |->
                   IF c < m THEN b.store[Span(b)[c + 1]] ELSE Raw]
<1>1. /\ m \in 0 .. n
      /\ \A i \in 1 .. m : b.store[Span(b)[i]] \in Elements
  <2>1. Walkable(b) /\ m <= n
    BY DEF Fits
  <2> QED
    BY <2>1, SpanTyped
<1>2. DOMAIN s = 0 .. n - 1
  BY FreshOne
<1>3. r = Rec(s, 0, m, 0, n, b.overwrite)
  <2> DEFINE d == Fresh(n)  ds == d.store  z == 0  y == TRUE  o == b.overwrite
  <2>1. d = Rec(ds, z, z, z, n, y)
    BY FreshOne
  <2>2. r = [[[d EXCEPT !.store = s] EXCEPT !.last = m] EXCEPT !.overwrite = o]
    BY DEF Reallocate
  <2> HIDE DEF r, s, m, d, ds, z, y, o
  <2>3. [d EXCEPT !.store = s] = Rec(s, z, z, z, n, y)
    BY <2>1 DEF Rec
  <2>4. [Rec(s, z, z, z, n, y) EXCEPT !.last = m] = Rec(s, z, m, z, n, y)
    BY DEF Rec
  <2>5. [Rec(s, z, m, z, n, y) EXCEPT !.overwrite = o] = Rec(s, z, m, z, n, o)
    BY DEF Rec
  <2>6. r = Rec(s, z, m, z, n, o)
    BY <2>2, <2>3, <2>4, <2>5
  <2> QED
    BY <2>6 DEF z, o
<1>4. \A c \in 0 .. n - 1 : s[c] = IF c < m THEN b.store[Span(b)[c + 1]] ELSE Raw
  BY <1>2
<1> HIDE DEF r, s, m
<1>5. s \in [DOMAIN s -> Cell]
  <2>1. \A c \in 0 .. n - 1 : s[c] \in Cell
    <3> TAKE c \in 0 .. n - 1
    <3>1. c < m => c + 1 \in 1 .. m
      BY <1>1
    <3> QED
      BY <1>1, <1>4, <3>1 DEF Cell
  <2>2. s = [c \in DOMAIN s |-> s[c]]
    BY DEF s
  <2> QED
    BY <1>2, <2>1, <2>2
<1>6. Typed(r)
  <2>1. DOMAIN s = {} => m = 0
    <3>1. CASE n = 0
      BY <1>1, <3>1
    <3>2. CASE n # 0
      <4>1. 0 \in DOMAIN s
        BY <1>2, <3>2
      <4> QED
        BY <4>1
    <3> QED
      BY <3>1, <3>2
  <2>2. DOMAIN s \subseteq Nat /\ m \in Nat /\ b.overwrite \in BOOLEAN
    BY <1>1, <1>2, Sizes
  <2> QED
    BY <1>3, <1>5, <2>1, <2>2, TypedRec
<1>7. /\ r.store = s /\ r.first = 0 /\ r.last = m /\ r.size = 0 /\ r.capacity = n
      /\ r.overwrite = b.overwrite
  BY <1>3, Fields
<1> QED
  BY <1>1, <1>2, <1>4, <1>6, <1>7 DEF r, m

\* Replacing the storage of a tidy buffer puts its elements at the start of the new
\* one; an empty buffer stays tidy.
LEMMA ReallocOne ==
  ASSUME NEW b, Typed(b), Tidy(b), NEW n \in Nat, b.size <= n
  PROVE  LET r == Reallocate(b, n)
         IN  /\ Fits(b, n)
             /\ \A i \in 1 .. b.size : r.store[i - 1] = Items(b)[i]
             /\ r.last = b.size
             /\ b.size = 0 => Tidy(r) /\ Items(r) = <<>> /\ Items(b) = <<>>
<1> DEFINE r == Reallocate(b, n)
<1>1. /\ Walkable(b) /\ Len(Span(b)) = b.size /\ b.size \in Nat
      /\ \A i \in 1 .. b.size : Span(b)[i] = At(b, i)
  BY SpanOne, Sizes
<1>2. Fits(b, n)
  BY <1>1 DEF Fits
<1>3. /\ Typed(r) /\ r.capacity = n /\ r.first = 0 /\ r.last = b.size /\ r.size = 0
      /\ DOMAIN r.store = 0 .. n - 1
      /\ \A c \in 0 .. n - 1 :
           r.store[c] = IF c < b.size THEN b.store[Span(b)[c + 1]] ELSE Raw
  BY <1>1, <1>2, ReallocTyped
<1> HIDE DEF r
<1>4. \A i \in 1 .. b.size : Items(b)[i] = b.store[At(b, i)]
  BY ItemsOf, Zenon
<1>5. ASSUME NEW i \in 1 .. b.size PROVE r.store[i - 1] = Items(b)[i]
  <2>1. i - 1 \in 0 .. n - 1 /\ i - 1 < b.size /\ (i - 1) + 1 = i
    BY <1>1
  <2>2. r.store[i - 1] = b.store[Span(b)[(i - 1) + 1]]
    BY <1>3, <2>1, Zenon
  <2>3. Span(b)[i] = At(b, i) /\ Items(b)[i] = b.store[At(b, i)]
    BY <1>1, <1>4, Zenon
  <2> QED
    BY <2>1, <2>2, <2>3, Zenon
<1>6. ASSUME b.size = 0 PROVE Tidy(r) /\ Items(r) = <<>> /\ Items(b) = <<>>
  <2>1. \A c \in 0 .. n - 1 : r.store[c] = Raw /\ ~In(r, 0, 0, c)
    BY <1>3, <1>6 DEF In
  <2>2. Tidy(r)
    BY <1>3, <1>6, <2>1 DEF Tidy, Closed
  <2> QED
    BY <1>3, <1>6, <2>2 DEF Items
<1> QED
  BY <1>2, <1>3, <1>5, <1>6 DEF r

\* The storage after growth has room.
LEMMA GrowGrows ==
  ASSUME NEW c \in Nat
  PROVE  Grow(c) \in Nat /\ Grow(c) > c
BY DEF Grow

\* Growth: the storage is replaced, then the element is put behind the others.
LEMMA GrownTyped ==
  ASSUME NEW b, Typed(b), NEW n \in Nat \ {0}, Fits(b, n), NEW v \in Elements
  PROVE  LET q == Reallocate(b, n)  r == EmplaceUnused(q, v)
         IN  /\ Typed(r) /\ r.capacity = n /\ r.overwrite = b.overwrite
             /\ Tidy(b) /\ b.size < n =>
                  /\ \A i \in 1 .. b.size : r.store[i - 1] = Items(b)[i]
                  /\ b.size = 0 => Tidy(r) /\ Items(r) = Append(Items(b), v)
<1> DEFINE q == Reallocate(b, n)  r == EmplaceUnused(q, v)
<1>1. /\ Typed(q) /\ q.capacity = n /\ q.overwrite = b.overwrite /\ q.size = 0
      /\ q.last \in 0 .. n /\ DOMAIN q.store = 0 .. n - 1
  BY ReallocTyped
<1> HIDE DEF q
<1>2. UnusedCell(q) \in 0 .. n - 1
  BY <1>1 DEF UnusedCell
<1>3. Typed(r)
  BY <1>1, <1>2, EmplaceTyped
<1>4. /\ r.store = [q.store EXCEPT ![UnusedCell(q)] = v] /\ r.capacity = n
      /\ r.overwrite = b.overwrite
  <2>1. r = Rec([q.store EXCEPT ![UnusedCell(q)] = v], q.first, UnusedCell(q) + 1,
                q.size + 1, q.capacity, q.overwrite)
    BY <1>1, Results
  <2> HIDE DEF r
  <2> QED
    BY <1>1, <2>1, Fields
<1>5. ASSUME Tidy(b), b.size < n
      PROVE  /\ \A i \in 1 .. b.size : r.store[i - 1] = Items(b)[i]
             /\ b.size = 0 => Tidy(r) /\ Items(r) = Append(Items(b), v)
  <2>1. b.size \in Nat
    BY Sizes
  <2>2. /\ \A i \in 1 .. b.size : q.store[i - 1] = Items(b)[i]
        /\ q.last = b.size
        /\ b.size = 0 => Tidy(q) /\ Items(q) = <<>> /\ Items(b) = <<>>
    BY <1>5, <2>1, ReallocOne DEF q
  <2>3. UnusedCell(q) = b.size
    BY <1>1, <1>5, <2>1, <2>2 DEF UnusedCell
  <2>4. ASSUME NEW i \in 1 .. b.size PROVE r.store[i - 1] = Items(b)[i]
    <3>1. i - 1 # UnusedCell(q) /\ i - 1 \in DOMAIN q.store
      BY <1>1, <1>5, <2>1, <2>3
    <3> QED
      BY <1>4, <2>2, <3>1
  <2>5. ASSUME b.size = 0 PROVE Tidy(r) /\ Items(r) = Append(Items(b), v)
    <3>1. q.size < q.capacity
      BY <1>1
    <3>2. Typed(q) /\ Tidy(q) /\ Items(q) = <<>> /\ Items(b) = <<>>
      BY <1>1, <2>2, <2>5
    <3>3. Tidy(r) /\ Items(r) = Append(Items(q), v)
      BY <3>1, <3>2, EmplaceUnusedOne
    <3> HIDE DEF r
    <3> QED
      BY <3>2, <3>3
  <2> QED
    BY <2>4, <2>5
<1> QED
  BY <1>3, <1>4, <1>5 DEF q, r

\* What a move leaves behind.
LEMMA EmptiedOne ==
  ASSUME NEW b, Typed(b)
  PROVE  LET r == Emptied(b)
         IN  /\ Typed(r) /\ r.capacity = b.capacity /\ r.overwrite = b.overwrite
             /\ Items(r) = <<>>
             /\ Tidy(b) /\ b.capacity = 0 => Tidy(r) /\ Items(b) = <<>>
<1> DEFINE r == Emptied(b)
<1>1. r = Rec(NoCells, 0, 0, 0, b.capacity, b.overwrite)
  BY Results
<1> HIDE DEF r
<1>2. DOMAIN NoCells \subseteq Nat
  BY NoCellsEmpty
<1>3. Typed(r)
  BY <1>1, <1>2, NoCellsEmpty, Sizes, TypedRec
<1>4. /\ r.store = NoCells /\ r.first = 0 /\ r.last = 0 /\ r.size = 0
      /\ r.capacity = b.capacity /\ r.overwrite = b.overwrite
  BY <1>1, Fields
<1>5. Items(r) = <<>>
  BY <1>4 DEF Items
<1>6. ASSUME Tidy(b), b.capacity = 0 PROVE Tidy(r) /\ Items(b) = <<>>
  <2>1. b.size = 0
    BY <1>6, Layout
  <2>2. DOMAIN r.store = 0 .. r.capacity - 1
    BY <1>4, <1>6, NoCellsEmpty
  <2>3. Tidy(r)
    BY <1>4, <1>6, <2>2 DEF Tidy, Closed
  <2> QED
    BY <2>1, <2>3 DEF Items
<1> QED
  BY <1>3, <1>4, <1>5, <1>6 DEF r

\* What an assignment makes of its target.
LEMMA TakenOne ==
  ASSUME NEW b, Typed(b), NEW d, Typed(d)
  PROVE  Typed(Taken(Cleanup(b), d))
<1> DEFINE k == Cleanup(b)
<1>1. Typed(k)
  <2>1. CASE b.store = NoCells
    BY <2>1 DEF Cleanup
  <2>2. CASE b.store # NoCells
    <3>1. k = [Fresh(0) EXCEPT !.overwrite = b.overwrite]
      BY <2>2 DEF Cleanup
    <3>2. Fresh(0) = Rec(NoCells, 0, 0, 0, 0, TRUE)
      BY DEF Fresh, Rec
    <3> HIDE DEF k
    <3>3. k = Rec(NoCells, 0, 0, 0, 0, b.overwrite)
      BY <3>1, <3>2 DEF Rec
    <3>4. DOMAIN NoCells \subseteq Nat
      BY NoCellsEmpty
    <3> QED
      BY <3>3, <3>4, NoCellsEmpty, Sizes, TypedRec
  <2> QED
    BY <2>1, <2>2
<1> HIDE DEF k
<1>2. Taken(k, d) = Rec(d.store, d.first, d.last, d.size, k.capacity, k.overwrite)
  <2> DEFINE ks == k.store  kf == k.first  kl == k.last  kn == k.size
             kc == k.capacity  ko == k.overwrite
             s == d.store  f == d.first  l == d.last  n == d.size
  <2>1. k = Rec(ks, kf, kl, kn, kc, ko)
    BY <1>1 DEF Typed
  <2>2. Taken(k, d) = [[[[k EXCEPT !.store = s] EXCEPT !.first = f] EXCEPT !.last = l]
                         EXCEPT !.size = n]
    BY DEF Taken
  <2> HIDE DEF ks, kf, kl, kn, kc, ko, s, f, l, n
  <2>3. [k EXCEPT !.store = s] = Rec(s, kf, kl, kn, kc, ko)
    BY <2>1 DEF Rec
  <2>4. [Rec(s, kf, kl, kn, kc, ko) EXCEPT !.first = f] = Rec(s, f, kl, kn, kc, ko)
    BY DEF Rec
  <2>5. [Rec(s, f, kl, kn, kc, ko) EXCEPT !.last = l] = Rec(s, f, l, kn, kc, ko)
    BY DEF Rec
  <2>6. [Rec(s, f, l, kn, kc, ko) EXCEPT !.size = n] = Rec(s, f, l, n, kc, ko)
    BY DEF Rec
  <2>7. Taken(k, d) = Rec(s, f, l, n, kc, ko)
    BY <2>2, <2>3, <2>4, <2>5, <2>6
  <2> QED
    BY <2>7 DEF s, f, l, n, kc, ko
<1>3. DOMAIN d.store = {} => d.first = 0 /\ d.last = 0 /\ d.size = 0
  BY DEF Typed
<1>4. k.capacity \in Nat /\ k.overwrite \in BOOLEAN
  BY <1>1, Sizes
<1>5. /\ d.first \in Nat /\ d.last \in Nat /\ d.size \in Nat
      /\ DOMAIN d.store \subseteq Nat /\ d.store \in [DOMAIN d.store -> Cell]
  BY Sizes
<1>6. Typed(Taken(k, d))
  <2>1. Typed(Rec(d.store, d.first, d.last, d.size, k.capacity, k.overwrite))
    BY <1>3, <1>4, <1>5, TypedRec, Zenon
  <2> QED
    BY <1>2, <2>1, Zenon
<1> QED
  BY <1>6 DEF k

-----------------------------------------------------------------------------
(* All buffers.                                                             *)

\* Every buffer has the fields of one, and a buffer nothing has spoiled is tidy; only
\* one without capacity was ever left by a call before it was spoiled.
BuffersInv ==
  /\ rb = [x \in Buffers |-> rb[x]]
  /\ \A x \in Buffers : Typed(rb[x]) /\ (x \notin spoiled => Tidy(rb[x]))
  /\ \A x \in wild \ spoiled : rb[x].capacity = 0
HistoryInv ==
  /\ alive \subseteq Buffers /\ wild \subseteq Buffers /\ spoiled \subseteq Buffers
  /\ pushed \in 0 .. MaxPushes /\ lost \subseteq Elements
  /\ out \in [Buffers -> Elements \union {None}]
IInv == BuffersInv /\ HistoryInv

Elsewhere(x) == \A y \in Buffers \ {x} : rb'[y] = rb[y] /\ out'[y] = out[y]
Inert(x) == Hollow(rb[x]) => x \notin wild' \/ pushed' > pushed
Loses(x) == spoiled = {} /\ lost' # {} =>
              /\ rb' = rb /\ Wrapped(rb[x]) /\ lost' \subseteq Range(Items(rb[x]))

\* What every call on a buffer does.
Step(x) ==
  /\ IInv' /\ Elsewhere(x) /\ Inert(x) /\ Loses(x)
  /\ wild' \subseteq {x} /\ alive' = alive /\ spoiled \subseteq spoiled'
  /\ x \notin spoiled' \union wild' => [Fifo(x)!Next]_(Fifo(x)!vars)

\* The buffer before a call.
LEMMA Before ==
  ASSUME IInv, NEW x \in Buffers
  PROVE  /\ Typed(rb[x]) /\ (x \notin spoiled => Tidy(rb[x]))
         /\ pushed \in Nat /\ MaxPushes \in Nat /\ pushed <= MaxPushes
         /\ pushed < MaxPushes => pushed + 1 \in Elements
         /\ out[x] \in Elements \union {None}
         /\ None \in Elements \union {None}
BY BufferAssumption DEF IInv, BuffersInv, HistoryInv, Elements

\* A call that stays inside its buffer.
LEMMA InsideStep ==
  ASSUME IInv, NEW x \in Buffers, NEW r, Typed(r), NEW o \in Elements \union {None},
         rb' = [rb EXCEPT ![x] = r], out' = [out EXCEPT ![x] = o], wild' = {},
         alive' \subseteq Buffers, spoiled \subseteq spoiled' \union {x},
         spoiled' \subseteq spoiled \union {x}, x \notin spoiled' => Tidy(r),
         pushed' \in 0 .. MaxPushes, lost' \subseteq Elements
  PROVE  IInv' /\ Elsewhere(x) /\ rb'[x] = r /\ out'[x] = o
<1>1. rb = [y \in Buffers |-> rb[y]] /\ out \in [Buffers -> Elements \union {None}]
  BY DEF IInv, BuffersInv, HistoryInv
<1>2. rb'[x] = r /\ rb' = [y \in Buffers |-> rb'[y]]
      /\ \A y \in Buffers \ {x} : rb'[y] = rb[y]
  BY <1>1
<1>3. out'[x] = o /\ out' \in [Buffers -> Elements \union {None}]
      /\ \A y \in Buffers \ {x} : out'[y] = out[y]
  BY <1>1
<1>4. \A y \in Buffers : Typed(rb'[y]) /\ (y \notin spoiled' => Tidy(rb'[y]))
  <2> TAKE y \in Buffers
  <2>1. CASE y = x
    BY <1>2, <2>1
  <2>2. CASE y # x
    BY <1>2, <2>2 DEF IInv, BuffersInv
  <2> QED
    BY <2>1, <2>2
<1>5. BuffersInv'
  BY <1>2, <1>4 DEF BuffersInv
<1>6. HistoryInv'
  BY <1>3 DEF IInv, HistoryInv
<1> QED
  BY <1>2, <1>3, <1>5, <1>6 DEF IInv, Elsewhere

\* A call that leaves its buffer changes none.
LEMMA OutsideStep ==
  ASSUME IInv, NEW x \in Buffers, NEW o \in Elements \union {None},
         rb' = rb, out' = [out EXCEPT ![x] = o], wild' = {x},
         alive' \subseteq Buffers, spoiled \subseteq spoiled',
         spoiled' \subseteq spoiled \union {x}, x \notin spoiled' => rb[x].capacity = 0,
         pushed' \in 0 .. MaxPushes, lost' \subseteq Elements
  PROVE  IInv' /\ Elsewhere(x)
<1>1. rb = [y \in Buffers |-> rb[y]] /\ out \in [Buffers -> Elements \union {None}]
  BY DEF IInv, BuffersInv, HistoryInv
<1>2. out' \in [Buffers -> Elements \union {None}]
      /\ \A y \in Buffers \ {x} : out'[y] = out[y]
  BY <1>1
<1>3. BuffersInv'
  BY DEF IInv, BuffersInv
<1>4. HistoryInv'
  BY <1>2 DEF IInv, HistoryInv
<1> QED
  BY <1>2, <1>3, <1>4 DEF IInv, Elsewhere

\* A buffer that says it is empty can be walked and replaced.
LEMMA EmptyFits ==
  ASSUME NEW b, b.size = 0
  PROVE  Walkable(b) /\ \A n \in Nat : Fits(b, n)
BY DEF Walkable, Wrapped, HoldsAll, Span, Range, Fits

\* A buffer that was moved from is empty.
LEMMA HollowIsEmpty ==
  ASSUME NEW b, Typed(b), Hollow(b)
  PROVE  b.size = 0
BY NoCellsEmpty DEF Typed, Hollow

\* What is constructed over, or not destroyed, are elements.
LEMMA BuriedElements ==
  ASSUME NEW b, Typed(b), NEW cells
  PROVE  BuriedIn(b, cells) \subseteq Elements /\ Left(b) \subseteq Elements
BY Sizes DEF BuriedIn, Left, Cell

-----------------------------------------------------------------------------
(* The calls.                                                               *)

\* push_back with room.
LEMMA PushUnusedStep ==
  ASSUME IInv, NEW x \in Buffers, PushUnused(x)
  PROVE  Step(x)
<1> DEFINE b == rb[x]  c == UnusedCell(b)  v == pushed'  r == EmplaceUnused(b, v)
<1>1. /\ Typed(b) /\ (x \notin spoiled => Tidy(b)) /\ v \in Elements /\ b.size < b.capacity
      /\ v = pushed + 1 /\ pushed \in Nat /\ v \in 0 .. MaxPushes
      /\ wild = {} /\ out' = [out EXCEPT ![x] = None] /\ alive' = alive
      /\ spoiled' = spoiled /\ lost' = BuriedIn(b, {c})
      /\ Call(x, c \in DOMAIN b.store, r) /\ None \in Elements \union {None}
      /\ alive \subseteq Buffers
  BY Before DEF PushUnused, PushNext, Ready, IInv, HistoryInv
<1>2. lost' \subseteq Elements
  BY <1>1, BuriedElements
<1>3. Tidy(b) => /\ c \in DOMAIN b.store /\ b.store[c] = Raw /\ Tidy(r)
                 /\ Items(r) = Append(Items(b), v)
                 /\ r.capacity = b.capacity /\ r.overwrite = b.overwrite
  BY <1>1, EmplaceUnusedOne
<1>4. Inert(x)
  BY <1>1 DEF Inert
<1>5. Loses(x)
  BY <1>1, <1>3 DEF Loses, BuriedIn
<1>6. CASE c \in DOMAIN b.store
  <2>1. rb' = [rb EXCEPT ![x] = r] /\ wild' = {}
    BY <1>1, <1>6 DEF Call
  <2>2. Typed(r)
    BY <1>1, <1>6, EmplaceTyped
  <2> HIDE DEF r, c
  <2>3. IInv' /\ Elsewhere(x) /\ rb'[x] = r /\ out'[x] = None
    BY <1>1, <1>2, <1>3, <2>1, <2>2, InsideStep
  <2>4. ASSUME x \notin spoiled PROVE Fifo(x)!Push(v)
    <3>1. Len(Items(b)) < b.capacity
      BY <1>1, <2>4, ItemsOf
    <3> QED
      BY <1>1, <1>3, <2>3, <2>4, <3>1 DEF Fifo!Push, Fifo!Room
  <2>5. x \notin spoiled' => [Fifo(x)!Next]_(Fifo(x)!vars)
    BY <1>1, <2>4 DEF Fifo!Next
  <2> QED
    BY <1>1, <1>4, <1>5, <2>1, <2>3, <2>5 DEF Step
<1>7. CASE c \notin DOMAIN b.store
  <2>1. rb' = rb /\ wild' = {x}
    BY <1>1, <1>7 DEF Call
  <2>2. x \in spoiled
    BY <1>1, <1>3, <1>7
  <2>3. IInv' /\ Elsewhere(x)
    BY <1>1, <1>2, <2>1, <2>2, OutsideStep
  <2> QED
    BY <1>1, <1>4, <1>5, <2>1, <2>2, <2>3 DEF Step
<1> QED
  BY <1>6, <1>7

\* push_back when full and overwriting: into a capacity of 0 it leaves the buffer.
LEMMA PushOverwriteStep ==
  ASSUME IInv, NEW x \in Buffers, PushOverwrite(x)
  PROVE  Step(x)
<1> DEFINE b == rb[x]  v == pushed'  r == EmplaceOverwrite(b, v)
           inside == HoldsAll(b, {b.first})
<1>1. /\ Typed(b) /\ (x \notin spoiled => Tidy(b)) /\ v \in Elements
      /\ b.size >= b.capacity /\ b.overwrite
      /\ v = pushed + 1 /\ pushed \in Nat /\ v \in 0 .. MaxPushes
      /\ wild = {} /\ out' = [out EXCEPT ![x] = None] /\ alive' = alive
      /\ spoiled' = spoiled /\ lost' = {} /\ None \in Elements \union {None}
      /\ alive \subseteq Buffers
      /\ IF b.size # b.capacity THEN UNCHANGED <<rb, wild>> ELSE Call(x, inside, r)
  BY Before DEF PushOverwrite, PushNext, Ready, IInv, HistoryInv
<1>2. Inert(x) /\ Loses(x)
  BY <1>1 DEF Inert, Loses
<1>3. Tidy(b) => /\ b.size = b.capacity /\ b.size \in Nat
                 /\ b.capacity > 0 =>
                      /\ inside /\ Tidy(r) /\ Items(b) # <<>>
                      /\ Len(Items(b)) = b.capacity
                      /\ Items(r) = Append(Tail(Items(b)), v)
                      /\ r.capacity = b.capacity /\ r.overwrite = b.overwrite
  <2> SUFFICES ASSUME Tidy(b)
               PROVE  /\ b.size = b.capacity /\ b.size \in Nat
                      /\ b.capacity > 0 =>
                           /\ inside /\ Tidy(r) /\ Items(b) # <<>>
                           /\ Len(Items(b)) = b.capacity
                           /\ Items(r) = Append(Tail(Items(b)), v)
                           /\ r.capacity = b.capacity /\ r.overwrite = b.overwrite
    OBVIOUS
  <2>1. b.size = b.capacity /\ b.size \in Nat
    BY <1>1, Layout
  <2>2. ASSUME b.capacity > 0 PROVE PopSafe(b) /\ Items(b) # <<>>
    BY <1>1, <2>1, <2>2, PopOne
  <2>3. ASSUME b.capacity > 0
        PROVE  /\ Tidy(r) /\ Items(r) = Append(Tail(Items(b)), v)
               /\ r.capacity = b.capacity /\ r.overwrite = b.overwrite
    BY <1>1, <2>1, <2>3, OverwriteOne
  <2>4. Len(Items(b)) = b.capacity
    BY <1>1, <2>1, ItemsOf
  <2> QED
    BY <2>1, <2>2, <2>3, <2>4 DEF PopSafe
<1>4. CASE b.size # b.capacity
  <2>1. rb' = rb /\ wild' = {} /\ x \in spoiled
    BY <1>1, <1>3, <1>4
  <2>2. rb' = [rb EXCEPT ![x] = b]
    BY <2>1 DEF IInv, BuffersInv
  <2> HIDE DEF b
  <2>3. IInv' /\ Elsewhere(x)
    BY <1>1, <2>1, <2>2, InsideStep
  <2> QED
    BY <1>1, <1>2, <2>1, <2>3 DEF Step
<1>5. CASE b.size = b.capacity /\ inside
  <2>1. rb' = [rb EXCEPT ![x] = r] /\ wild' = {}
    BY <1>1, <1>5 DEF Call
  <2>2. Typed(r)
    BY <1>1, <1>5, OverwriteTyped DEF HoldsAll
  <2>3. x \notin spoiled => b.capacity > 0
    <3>1. ASSUME x \notin spoiled, b.capacity = 0 PROVE FALSE
      <4>1. DOMAIN b.store = 0 .. 0 - 1
        BY <1>1, <3>1, Layout
      <4>2. b.first \in DOMAIN b.store
        BY <1>5 DEF HoldsAll
      <4> QED
        BY <4>1, <4>2
    <3>2. b.capacity \in Nat
      BY <1>1, Sizes
    <3> QED
      BY <3>1, <3>2
  <2> HIDE DEF r, inside
  <2>4. IInv' /\ Elsewhere(x) /\ rb'[x] = r /\ out'[x] = None
    BY <1>1, <1>3, <2>1, <2>2, <2>3, InsideStep
  <2>5. ASSUME x \notin spoiled PROVE Fifo(x)!Push(v)
    <3>1. ~(Len(Items(b)) < b.capacity)
      <4>1. Len(Items(b)) = b.capacity /\ b.capacity \in Nat
        BY <1>1, <1>3, <2>3, <2>5, Sizes
      <4> QED
        BY <4>1
    <3> QED
      BY <1>1, <1>3, <2>3, <2>4, <2>5, <3>1 DEF Fifo!Push, Fifo!Room
  <2>6. x \notin spoiled' => [Fifo(x)!Next]_(Fifo(x)!vars)
    BY <1>1, <2>5 DEF Fifo!Next
  <2> QED
    BY <1>1, <1>2, <2>1, <2>4, <2>6 DEF Step
<1>6. CASE b.size = b.capacity /\ ~inside
  <2>1. rb' = rb /\ wild' = {x}
    BY <1>1, <1>6 DEF Call
  <2>2. x \notin spoiled => b.capacity = 0
    <3> SUFFICES ASSUME x \notin spoiled, b.capacity # 0 PROVE FALSE
      OBVIOUS
    <3>1. b.capacity > 0 /\ Tidy(b)
      BY <1>1, Sizes
    <3> QED
      BY <1>3, <1>6, <3>1
  <2>3. IInv' /\ Elsewhere(x)
    BY <1>1, <2>1, <2>2, OutsideStep
  <2> QED
    BY <1>1, <1>2, <2>1, <2>3 DEF Step
<1> QED
  BY <1>4, <1>5, <1>6

\* The hole of an element that throws leaves the fields of a buffer.
LEMMA PushOverwriteThrowsStep ==
  ASSUME IInv, NEW x \in Buffers, PushOverwriteThrows(x)
  PROVE  Step(x)
<1> DEFINE b == rb[x]  r == [b EXCEPT !.store[b.first] = Raw]
           s == [b.store EXCEPT ![b.first] = Raw]
<1>1. /\ Typed(b) /\ pushed' = pushed /\ pushed \in 0 .. MaxPushes
      /\ wild = {} /\ wild' = {} /\ out' = [out EXCEPT ![x] = None] /\ alive' = alive
      /\ spoiled' = spoiled \union {x} /\ lost' = {} /\ None \in Elements \union {None}
      /\ alive \subseteq Buffers /\ b.first \in DOMAIN b.store
      /\ rb' = [rb EXCEPT ![x].store[b.first] = Raw]
  BY Before DEF PushOverwriteThrows, Ready, IInv, HistoryInv, HoldsAll
<1>2. Inert(x) /\ Loses(x)
  BY <1>1 DEF Inert, Loses
<1>3. r = Rec(s, b.first, b.last, b.size, b.capacity, b.overwrite)
  <2> DEFINE f == b.first  l == b.last  n == b.size  c == b.capacity  o == b.overwrite
             t == b.store
  <2>1. b = Rec(t, f, l, n, c, o) /\ b.first = f /\ b.store = t
    BY <1>1 DEF Typed
  <2> HIDE DEF b, f, l, n, c, o, t
  <2>2. r = Rec([t EXCEPT ![f] = Raw], f, l, n, c, o)
    BY <2>1 DEF Rec
  <2> QED
    BY <2>2 DEF f, l, n, c, o, t
<1>4. DOMAIN s = DOMAIN b.store /\ s \in [DOMAIN s -> Cell] /\ DOMAIN s \subseteq Nat
  BY <1>1, Sizes DEF Cell
<1>5. Typed(r)
  <2>1. /\ b.first \in Nat /\ b.last \in Nat /\ b.size \in Nat /\ b.capacity \in Nat
        /\ b.overwrite \in BOOLEAN
    BY <1>1, Sizes
  <2> HIDE DEF s, r
  <2> QED
    BY <1>1, <1>3, <1>4, <2>1, TypedRec
<1>6. rb' = [rb EXCEPT ![x] = r]
  BY <1>1 DEF IInv, BuffersInv
<1> HIDE DEF r
<1>7. IInv' /\ Elsewhere(x)
  BY <1>1, <1>5, <1>6, InsideStep
<1> QED
  BY <1>1, <1>2, <1>7 DEF Step

\* try_pop_front.
LEMMA TryPopFrontStep ==
  ASSUME IInv, NEW x \in Buffers, TryPopFront(x)
  PROVE  Step(x)
<1> DEFINE b == rb[x]  r == AfterPop(b)  e == b.store[b.first]
<1>1. /\ Typed(b) /\ (x \notin spoiled => Tidy(b))
      /\ pushed' = pushed /\ pushed \in 0 .. MaxPushes
      /\ wild = {} /\ alive' = alive /\ spoiled' = spoiled /\ lost' = {}
      /\ alive \subseteq Buffers /\ None \in Elements \union {None}
      /\ out \in [Buffers -> Elements \union {None}]
  BY Before DEF TryPopFront, Ready, IInv, HistoryInv
<1>2. /\ b.size = 0 => /\ out' = [out EXCEPT ![x] = None]
                       /\ rb' = rb /\ wild' = {}
      /\ b.size # 0 => /\ Call(x, PopSafe(b), r)
                       /\ out' = IF PopSafe(b) THEN [out EXCEPT ![x] = e] ELSE out
  BY <1>1 DEF TryPopFront
<1>3. Inert(x)
  BY <1>1, <1>2, HollowIsEmpty DEF Inert
<1>4. Loses(x)
  BY <1>1 DEF Loses
<1>5. CASE b.size = 0
  <2>1. rb' = [rb EXCEPT ![x] = b]
    BY <1>2, <1>5 DEF IInv, BuffersInv
  <2> HIDE DEF b
  <2>2. IInv' /\ Elsewhere(x) /\ rb'[x] = b /\ out'[x] = None
    BY <1>1, <1>2, <1>5, <2>1, InsideStep
  <2> USE DEF b
  <2>3. ASSUME x \notin spoiled PROVE Fifo(x)!PopEmpty
    <3>1. Items(b) = <<>>
      BY <1>5 DEF Items
    <3> QED
      BY <2>2, <3>1 DEF Fifo!PopEmpty
  <2> QED
    BY <1>1, <1>2, <1>3, <1>4, <1>5, <2>2, <2>3 DEF Step, Fifo!Next
<1>6. CASE b.size # 0 /\ PopSafe(b)
  <2>1. /\ rb' = [rb EXCEPT ![x] = r] /\ wild' = {} /\ out' = [out EXCEPT ![x] = e]
        /\ b.size > 0
    BY <1>1, <1>2, <1>6, Sizes DEF Call
  <2>2. Typed(r) /\ e \in Elements \union {None}
    BY <1>1, <1>6, <2>1, PopTyped
  <2>3. Tidy(b) => /\ Tidy(r) /\ Items(r) = Tail(Items(b)) /\ Items(b) # <<>>
                   /\ e = Head(Items(b))
                   /\ r.capacity = b.capacity /\ r.overwrite = b.overwrite
    BY <1>1, <2>1, PopOne
  <2> HIDE DEF r, e
  <2>4. IInv' /\ Elsewhere(x) /\ rb'[x] = r /\ out'[x] = e
    BY <1>1, <2>1, <2>2, <2>3, InsideStep
  <2>5. ASSUME x \notin spoiled PROVE Fifo(x)!Pop
    BY <1>1, <2>3, <2>4, <2>5 DEF Fifo!Pop
  <2>6. x \notin spoiled' => [Fifo(x)!Next]_(Fifo(x)!vars)
    BY <1>1, <2>5 DEF Fifo!Next
  <2> QED
    BY <1>1, <1>3, <1>4, <2>1, <2>4, <2>6 DEF Step
<1>7. CASE b.size # 0 /\ ~PopSafe(b)
  <2>1. rb' = rb /\ wild' = {x} /\ out' = [out EXCEPT ![x] = out[x]]
    BY <1>1, <1>2, <1>7 DEF Call
  <2>2. x \in spoiled
    BY <1>1, <1>7, PopOne, Sizes
  <2>3. out[x] \in Elements \union {None}
    BY <1>1
  <2>4. IInv' /\ Elsewhere(x)
    BY <1>1, <2>1, <2>2, <2>3, OutsideStep
  <2> QED
    BY <1>1, <1>3, <1>4, <2>1, <2>2, <2>4 DEF Step
<1> QED
  BY <1>5, <1>6, <1>7

\* It gives up the element also when handing it over throws.
LEMMA PopThrowsStep ==
  ASSUME IInv, NEW x \in Buffers, PopThrows(x)
  PROVE  Step(x)
<1> DEFINE b == rb[x]  r == AfterPop(b)
<1>1. /\ Typed(b) /\ (x \notin spoiled => Tidy(b)) /\ b.size > 0
      /\ pushed' = pushed /\ pushed \in 0 .. MaxPushes
      /\ wild = {} /\ alive' = alive /\ spoiled' = spoiled /\ lost' = {}
      /\ alive \subseteq Buffers /\ None \in Elements \union {None}
      /\ out' = [out EXCEPT ![x] = None] /\ Call(x, PopSafe(b), r)
  BY Before DEF PopThrows, Ready, IInv, HistoryInv
<1>2. Inert(x)
  BY <1>1, HollowIsEmpty DEF Inert
<1>3. Loses(x)
  BY <1>1 DEF Loses
<1>4. CASE PopSafe(b)
  <2>1. rb' = [rb EXCEPT ![x] = r] /\ wild' = {}
    BY <1>1, <1>4 DEF Call
  <2>2. Typed(r)
    BY <1>1, <1>4, PopTyped
  <2>3. Tidy(b) => /\ Tidy(r) /\ Items(r) = Tail(Items(b)) /\ Items(b) # <<>>
                   /\ r.capacity = b.capacity /\ r.overwrite = b.overwrite
    BY <1>1, PopOne
  <2> HIDE DEF r
  <2>4. IInv' /\ Elsewhere(x) /\ rb'[x] = r /\ out'[x] = None
    BY <1>1, <2>1, <2>2, <2>3, InsideStep
  <2>5. ASSUME x \notin spoiled PROVE Fifo(x)!PopMany(1) /\ 1 \in 1 .. Len(Items(rb[x]))
    <3>1. /\ Items(b) \in Seq(Elements) /\ Len(Items(b)) = b.size /\ b.size \in Nat
      BY <1>1, <2>5, ItemsOf, Sizes
    <3>2. Items(r) = SubSeq(Items(b), 1 + 1, Len(Items(b)))
      <4>1. Items(r) = Tail(Items(b)) /\ Items(b) # <<>>
        BY <1>1, <2>3, <2>5
      <4> QED
        BY <3>1, <4>1, TailIsRest
    <3> QED
      BY <1>1, <2>3, <2>4, <2>5, <3>1, <3>2 DEF Fifo!PopMany
  <2>6. x \notin spoiled' => [Fifo(x)!Next]_(Fifo(x)!vars)
    BY <1>1, <2>5 DEF Fifo!Next
  <2> QED
    BY <1>1, <1>2, <1>3, <2>1, <2>4, <2>6 DEF Step
<1>5. CASE ~PopSafe(b)
  <2>1. rb' = rb /\ wild' = {x}
    BY <1>1, <1>5 DEF Call
  <2>2. x \in spoiled
    BY <1>1, <1>5, PopOne
  <2>3. IInv' /\ Elsewhere(x)
    BY <1>1, <2>1, <2>2, OutsideStep
  <2> QED
    BY <1>1, <1>2, <1>3, <2>1, <2>2, <2>3 DEF Step
<1> QED
  BY <1>4, <1>5

\* clear.
LEMMA ClearStep ==
  ASSUME IInv, NEW x \in Buffers, Clear(x)
  PROVE  Step(x)
<1> DEFINE b == rb[x]  r == Cleared(b)
<1>1. /\ Typed(b) /\ (x \notin spoiled => Tidy(b))
      /\ pushed' = pushed /\ pushed \in 0 .. MaxPushes
      /\ wild = {} /\ alive' = alive /\ spoiled' = spoiled /\ lost' = {}
      /\ alive \subseteq Buffers /\ None \in Elements \union {None}
      /\ out' = [out EXCEPT ![x] = None] /\ Call(x, Walkable(b), r)
  BY Before DEF Clear, Cleared, Ready, IInv, HistoryInv
<1>2. Inert(x)
  BY <1>1, HollowIsEmpty, EmptyFits DEF Inert, Call
<1>3. Loses(x)
  BY <1>1 DEF Loses
<1>4. CASE Walkable(b)
  <2>1. rb' = [rb EXCEPT ![x] = r] /\ wild' = {}
    BY <1>1, <1>4 DEF Call
  <2>2. /\ Typed(r) /\ r.capacity = b.capacity /\ r.overwrite = b.overwrite
        /\ Tidy(b) => Tidy(r) /\ Items(r) = <<>>
    BY <1>1, ClearOne
  <2> HIDE DEF r
  <2>3. IInv' /\ Elsewhere(x) /\ rb'[x] = r /\ out'[x] = None
    BY <1>1, <2>1, <2>2, InsideStep
  <2>4. ASSUME x \notin spoiled PROVE Fifo(x)!Clear
    BY <1>1, <2>2, <2>3, <2>4 DEF Fifo!Clear
  <2>5. x \notin spoiled' => [Fifo(x)!Next]_(Fifo(x)!vars)
    BY <1>1, <2>4 DEF Fifo!Next
  <2> QED
    BY <1>1, <1>2, <1>3, <2>1, <2>3, <2>5 DEF Step
<1>5. CASE ~Walkable(b)
  <2>1. rb' = rb /\ wild' = {x}
    BY <1>1, <1>5 DEF Call
  <2>2. x \in spoiled
    BY <1>1, <1>5, SpanOne
  <2>3. IInv' /\ Elsewhere(x)
    BY <1>1, <2>1, <2>2, OutsideStep
  <2> QED
    BY <1>1, <1>2, <1>3, <2>1, <2>2, <2>3 DEF Step
<1> QED
  BY <1>4, <1>5

\* commit_write.
LEMMA CommitWriteStep ==
  ASSUME IInv, NEW x \in Buffers, CommitWrite(x)
  PROVE  Step(x)
<1> DEFINE b == rb[x]
<1>1. PICK n \in 1 .. 2 :
        /\ b.size + n <= b.capacity /\ pushed + n <= MaxPushes /\ pushed' = pushed + n
        /\ Call(x, Cells(b, b.last, n) \subseteq DOMAIN b.store, Written(b, n))
        /\ lost' = BuriedIn(b, Cells(b, b.last, n))
  BY DEF CommitWrite, Written
<1> DEFINE r == Written(b, n)  cells == Cells(b, b.last, n)
<1>2. /\ Typed(b) /\ (x \notin spoiled => Tidy(b))
      /\ pushed \in Nat /\ MaxPushes \in Nat /\ pushed' \in 0 .. MaxPushes
      /\ pushed' > pushed
      /\ wild = {} /\ alive' = alive /\ spoiled' = spoiled
      /\ alive \subseteq Buffers /\ None \in Elements \union {None}
      /\ out' = [out EXCEPT ![x] = None]
  BY <1>1, Before DEF CommitWrite, Ready, IInv, HistoryInv
<1>3. Inert(x)
  BY <1>2 DEF Inert
<1>4. lost' \subseteq Elements
  BY <1>1, <1>2, BuriedElements
<1>5. Tidy(b) => /\ cells \subseteq DOMAIN b.store /\ \A c \in cells : b.store[c] = Raw
                 /\ Tidy(r) /\ Items(r) = Items(b) \o Brought(n)
                 /\ r.capacity = b.capacity /\ r.overwrite = b.overwrite
  BY <1>1, <1>2, WriteOne
<1>6. Loses(x)
  <2>1. Tidy(b) => lost' = {}
    BY <1>1, <1>5 DEF BuriedIn
  <2> QED
    BY <1>2, <2>1 DEF Loses
<1>7. CASE cells \subseteq DOMAIN b.store
  <2>1. rb' = [rb EXCEPT ![x] = r] /\ wild' = {}
    BY <1>1, <1>2, <1>7 DEF Call
  <2>2. Typed(r)
    BY <1>1, <1>2, <1>7, WriteTyped
  <2> HIDE DEF r, cells
  <2>3. IInv' /\ Elsewhere(x) /\ rb'[x] = r /\ out'[x] = None
    BY <1>2, <1>4, <1>5, <2>1, <2>2, InsideStep
  <2>4. ASSUME x \notin spoiled PROVE Fifo(x)!PushMany(Brought(n))
    <3>1. Len(Items(b)) = b.size /\ Len(Brought(n)) = n
      BY <1>2, <2>4, ItemsOf DEF Brought
    <3> QED
      BY <1>1, <1>2, <1>5, <2>3, <2>4, <3>1 DEF Fifo!PushMany
  <2>5. \/ \E v \in Elements : Brought(n) = <<v>>
        \/ \E v, w \in Elements : Brought(n) = <<v, w>>
    <3>1. CASE n = 1
      <4>1. Brought(n) = <<pushed + 1>> /\ pushed + 1 \in Elements
        BY <1>1, <1>2, <3>1 DEF Brought, Elements
      <4> QED
        BY <4>1
    <3>2. CASE n = 2
      <4>1. /\ Brought(n) = <<pushed + 1, pushed + 2>>
            /\ pushed + 1 \in Elements /\ pushed + 2 \in Elements
        BY <1>1, <1>2, <3>2 DEF Brought, Elements
      <4> QED
        BY <4>1
    <3> QED
      BY <3>1, <3>2
  <2>6. x \notin spoiled' => [Fifo(x)!Next]_(Fifo(x)!vars)
    BY <1>2, <2>4, <2>5 DEF Fifo!Next
  <2> QED
    BY <1>2, <1>3, <1>6, <2>1, <2>3, <2>6 DEF Step
<1>8. CASE ~(cells \subseteq DOMAIN b.store)
  <2>1. rb' = rb /\ wild' = {x}
    BY <1>1, <1>8 DEF Call
  <2>2. x \in spoiled
    BY <1>2, <1>5, <1>8
  <2>3. IInv' /\ Elsewhere(x)
    BY <1>2, <1>4, <2>1, <2>2, OutsideStep
  <2> QED
    BY <1>2, <1>3, <1>6, <2>1, <2>2, <2>3 DEF Step
<1> QED
  BY <1>7, <1>8

\* commit_read.
LEMMA CommitReadStep ==
  ASSUME IInv, NEW x \in Buffers, CommitRead(x)
  PROVE  Step(x)
<1> DEFINE b == rb[x]
<1>1. PICK n \in 1 .. b.size :
        IF b.capacity = 0 THEN wild' = {x} /\ UNCHANGED rb
        ELSE Call(x, HoldsAll(b, Cells(b, b.first, n)), Dropped(b, n))
  BY DEF CommitRead, Dropped
<1> DEFINE r == Dropped(b, n)  held == HoldsAll(b, Cells(b, b.first, n))
<1>2. /\ Typed(b) /\ (x \notin spoiled => Tidy(b)) /\ b.size \in Nat
      /\ b.capacity \in Nat
      /\ pushed' = pushed /\ pushed \in 0 .. MaxPushes
      /\ wild = {} /\ alive' = alive /\ spoiled' = spoiled /\ lost' = {}
      /\ alive \subseteq Buffers /\ None \in Elements \union {None}
      /\ out' = [out EXCEPT ![x] = None]
  BY Before, Sizes DEF CommitRead, Ready, IInv, HistoryInv
<1>3. Inert(x)
  BY <1>1, <1>2, HollowIsEmpty DEF Inert
<1>4. Loses(x)
  BY <1>2 DEF Loses
<1>5. Tidy(b) => /\ b.capacity > 0 /\ held /\ Tidy(r)
                 /\ Items(r) = SubSeq(Items(b), n + 1, Len(Items(b)))
                 /\ r.capacity = b.capacity /\ r.overwrite = b.overwrite
  BY <1>1, <1>2, DropOne
<1>6. CASE b.capacity # 0 /\ held
  <2>1. rb' = [rb EXCEPT ![x] = r] /\ wild' = {}
    BY <1>1, <1>2, <1>6 DEF Call
  <2>2. Typed(r)
    BY <1>1, <1>2, <1>6, DropTyped
  <2> HIDE DEF r, held
  <2>3. IInv' /\ Elsewhere(x) /\ rb'[x] = r /\ out'[x] = None
    BY <1>2, <1>5, <2>1, <2>2, InsideStep
  <2>4. ASSUME x \notin spoiled PROVE Fifo(x)!PopMany(n) /\ n \in 1 .. Len(Items(b))
    <3>1. Len(Items(b)) = b.size
      BY <1>2, <2>4, ItemsOf
    <3> QED
      BY <1>1, <1>2, <1>5, <2>3, <2>4, <3>1 DEF Fifo!PopMany
  <2>5. x \notin spoiled' => [Fifo(x)!Next]_(Fifo(x)!vars)
    BY <1>2, <2>4 DEF Fifo!Next
  <2> QED
    BY <1>2, <1>3, <1>4, <2>1, <2>3, <2>5 DEF Step
<1>7. CASE b.capacity = 0 \/ ~held
  <2>1. rb' = rb /\ wild' = {x}
    BY <1>1, <1>7 DEF Call
  <2>2. x \in spoiled
    BY <1>2, <1>5, <1>7
  <2>3. IInv' /\ Elsewhere(x)
    BY <1>2, <2>1, <2>2, OutsideStep
  <2> QED
    BY <1>2, <1>3, <1>4, <2>1, <2>2, <2>3 DEF Step
<1> QED
  BY <1>6, <1>7

\* set_overwrite.
LEMMA SetOverwriteStep ==
  ASSUME IInv, NEW x \in Buffers, SetOverwrite(x)
  PROVE  Step(x)
<1> DEFINE b == rb[x]
<1>1. PICK allow \in BOOLEAN : rb' = [rb EXCEPT ![x].overwrite = allow]
  BY DEF SetOverwrite
<1> DEFINE r == [b EXCEPT !.overwrite = allow]
<1>2. /\ Typed(b) /\ (x \notin spoiled => Tidy(b))
      /\ pushed' = pushed /\ pushed \in 0 .. MaxPushes
      /\ wild = {} /\ wild' = {} /\ alive' = alive /\ spoiled' = spoiled /\ lost' = {}
      /\ alive \subseteq Buffers /\ None \in Elements \union {None}
      /\ out' = [out EXCEPT ![x] = None]
  BY Before DEF SetOverwrite, Ready, IInv, HistoryInv
<1>3. Inert(x) /\ Loses(x)
  BY <1>2 DEF Inert, Loses
<1>4. r = Rec(b.store, b.first, b.last, b.size, b.capacity, allow)
  BY <1>2, Results
<1>5. rb' = [rb EXCEPT ![x] = r]
  BY <1>1 DEF IInv, BuffersInv
<1> HIDE DEF r
<1>6. /\ r.store = b.store /\ r.first = b.first /\ r.last = b.last /\ r.size = b.size
      /\ r.capacity = b.capacity /\ r.overwrite = allow
  BY <1>4, Fields
<1>7. Typed(r)
  <2>1. DOMAIN b.store = {} => b.first = 0 /\ b.last = 0 /\ b.size = 0
    BY <1>2 DEF Typed
  <2>2. /\ b.first \in Nat /\ b.last \in Nat /\ b.size \in Nat /\ b.capacity \in Nat
        /\ DOMAIN b.store \subseteq Nat /\ b.store \in [DOMAIN b.store -> Cell]
    BY <1>2, Sizes
  <2> QED
    BY <1>4, <2>1, <2>2, TypedRec
<1>8. Tidy(b) => Tidy(r)
  BY <1>6 DEF Tidy, Closed, In
<1>9. Items(r) = Items(b)
  BY <1>6 DEF Items, Offset
<1>10. IInv' /\ Elsewhere(x) /\ rb'[x] = r /\ out'[x] = None
  BY <1>2, <1>5, <1>7, <1>8, InsideStep
<1>11. Fifo(x)!SetOverwrite
  BY <1>6, <1>9, <1>10 DEF Fifo!SetOverwrite
<1>12. [Fifo(x)!Next]_(Fifo(x)!vars)
  BY <1>11 DEF Fifo!Next
<1> QED
  BY <1>2, <1>3, <1>10, <1>12 DEF Step

\* The elements are where the replacement puts them, and nothing else became of them.
InOrder(x) ==
  /\ wild' = {} /\ lost' = {}
  /\ \A i \in 1 .. rb[x].size : rb'[x].store[i - 1] = Items(rb[x])[i]

\* Replacing the storage by one of n cells, which leaves r: what the three calls that
\* do so have in common.
LEMMA ReplaceStep ==
  ASSUME IInv, NEW x \in Buffers, wild = {}, NEW n \in Nat, NEW r, Replace(x, n, r),
         x \notin spoiled => rb[x].size <= n,
         Fits(rb[x], n) => Typed(r),
         Tidy(rb[x]) /\ rb[x].size = 0 => Tidy(r),
         Tidy(rb[x]) /\ rb[x].size <= n =>
           \A i \in 1 .. rb[x].size : r.store[i - 1] = Items(rb[x])[i],
         out' = [out EXCEPT ![x] = None], alive' = alive, pushed' \in 0 .. MaxPushes
  PROVE  /\ IInv' /\ Elsewhere(x) /\ Inert(x) /\ Loses(x)
         /\ wild' \subseteq {x} /\ spoiled \subseteq spoiled'
         /\ x \notin spoiled => InOrder(x)
         /\ x \notin spoiled' =>
              x \notin spoiled /\ rb[x].size = 0 /\ rb'[x] = r /\ out'[x] = None
<1> DEFINE b == rb[x]
<1>1. /\ Typed(b) /\ (x \notin spoiled => Tidy(b)) /\ b.size \in Nat
      /\ alive \subseteq Buffers /\ None \in Elements \union {None}
      /\ lost' = Left(b) /\ Call(x, Fits(b, n), r)
      /\ spoiled' = spoiled \union (IF b.size > 0 THEN {x} ELSE {})
  BY Before, Sizes DEF Replace, IInv, HistoryInv
<1>2. /\ spoiled \subseteq spoiled' /\ spoiled' \subseteq spoiled \union {x}
      /\ x \notin spoiled' => x \notin spoiled /\ b.size = 0
  BY <1>1
<1>3. Inert(x)
  BY <1>1, HollowIsEmpty, EmptyFits DEF Inert, Call
<1>4. lost' \subseteq Elements
  BY <1>1, BuriedElements
<1>5. x \notin spoiled => lost' = {} /\ Fits(b, n)
  BY <1>1, SpanOne, ReallocOne
<1>6. Loses(x)
  BY <1>5 DEF Loses
<1>7. CASE Fits(b, n)
  <2>1. rb' = [rb EXCEPT ![x] = r] /\ wild' = {}
    BY <1>1, <1>7 DEF Call
  <2>2. IInv' /\ Elsewhere(x) /\ rb'[x] = r /\ out'[x] = None
    BY <1>1, <1>2, <1>4, <1>7, <2>1, InsideStep
  <2>3. x \notin spoiled => InOrder(x)
    BY <1>1, <1>5, <2>1, <2>2 DEF InOrder
  <2> QED
    BY <1>2, <1>3, <1>6, <2>1, <2>2, <2>3
<1>8. CASE ~Fits(b, n)
  <2>1. rb' = rb /\ wild' = {x} /\ x \in spoiled
    BY <1>1, <1>5, <1>8 DEF Call
  <2>2. IInv' /\ Elsewhere(x)
    BY <1>1, <1>2, <1>4, <2>1, OutsideStep
  <2> QED
    BY <1>2, <1>3, <1>6, <2>1, <2>2
<1> QED
  BY <1>7, <1>8

\* reserve and shrink_to_fit.
LEMMA ResizeStep ==
  ASSUME IInv, NEW x \in Buffers, wild = {}, NEW n \in Nat,
         Replace(x, n, Reallocate(rb[x], n)), x \notin spoiled => rb[x].size <= n,
         out' = [out EXCEPT ![x] = None], alive' = alive, pushed' = pushed
  PROVE  Step(x) /\ (x \notin spoiled => InOrder(x))
<1> DEFINE b == rb[x]  r == Reallocate(b, n)
<1>1. /\ Typed(b) /\ (x \notin spoiled => Tidy(b)) /\ pushed' \in 0 .. MaxPushes
      /\ Replace(x, n, r)
  BY Before DEF IInv, HistoryInv
<1>2. Fits(b, n) => Typed(r) /\ r.capacity = n /\ r.overwrite = b.overwrite
  BY <1>1, ReallocTyped
<1>3. Tidy(b) /\ b.size <= n => \A i \in 1 .. b.size : r.store[i - 1] = Items(b)[i]
  BY <1>1, ReallocOne
<1>4. Tidy(b) /\ b.size = 0 =>
        Fits(b, n) /\ Tidy(r) /\ Items(r) = <<>> /\ Items(b) = <<>>
  <2> SUFFICES ASSUME Tidy(b), b.size = 0
               PROVE  Fits(b, n) /\ Tidy(r) /\ Items(r) = <<>> /\ Items(b) = <<>>
    OBVIOUS
  <2>1. b.size <= n
    OBVIOUS
  <2> QED
    BY <1>1, <2>1, ReallocOne
<1> HIDE DEF r
<1>5. /\ IInv' /\ Elsewhere(x) /\ Inert(x) /\ Loses(x)
      /\ wild' \subseteq {x} /\ spoiled \subseteq spoiled'
      /\ x \notin spoiled => InOrder(x)
      /\ x \notin spoiled' =>
           x \notin spoiled /\ b.size = 0 /\ rb'[x] = r /\ out'[x] = None
  BY <1>1, <1>2, <1>3, <1>4, ReplaceStep
<1>6. ASSUME x \notin spoiled' PROVE Fifo(x)!Resize
  <2>1. /\ Items(r) = <<>> /\ Items(b) = <<>> /\ rb'[x] = r /\ out'[x] = None
        /\ r.capacity = n /\ r.overwrite = b.overwrite
    BY <1>1, <1>2, <1>4, <1>5, <1>6
  <2> QED
    BY <2>1 DEF Fifo!Resize
<1>7. x \notin spoiled' \union wild' => [Fifo(x)!Next]_(Fifo(x)!vars)
  BY <1>6 DEF Fifo!Next
<1> QED
  BY <1>5, <1>7 DEF Step

\* reserve replaces the storage by a larger one, in order.
LEMMA ReserveStep ==
  ASSUME IInv, NEW x \in Buffers, Reserve(x)
  PROVE  Step(x) /\ (x \notin spoiled => InOrder(x))
<1>1. /\ Typed(rb[x]) /\ rb[x].size \in Nat /\ rb[x].capacity \in Nat
      /\ x \notin spoiled => rb[x].size <= rb[x].capacity
  BY Before, Sizes DEF Tidy
<1>2. PICK n \in rb[x].capacity + 1 .. MaxCapacity : Replace(x, n, Reallocate(rb[x], n))
  BY DEF Reserve
<1>3. n \in Nat /\ (x \notin spoiled => rb[x].size <= n)
  BY <1>1, BufferAssumption
<1>4. /\ wild = {} /\ out' = [out EXCEPT ![x] = None] /\ alive' = alive
      /\ pushed' = pushed
  BY DEF Reserve, Ready
<1> QED
  BY <1>2, <1>3, <1>4, ResizeStep

\* shrink_to_fit replaces it by one of the size, in order.
LEMMA ShrinkToFitStep ==
  ASSUME IInv, NEW x \in Buffers, ShrinkToFit(x)
  PROVE  Step(x) /\ (x \notin spoiled => InOrder(x))
<1> DEFINE n == rb[x].size
<1>1. n \in Nat /\ rb[x].size <= n
  BY Before, Sizes
<1>2. /\ wild = {} /\ out' = [out EXCEPT ![x] = None] /\ alive' = alive
      /\ pushed' = pushed /\ Replace(x, n, Reallocate(rb[x], n))
  BY DEF ShrinkToFit, Ready
<1> HIDE DEF n
<1> QED
  BY <1>1, <1>2, ResizeStep

\* push_back when full and not overwriting.
LEMMA PushGrowStep ==
  ASSUME IInv, NEW x \in Buffers, PushGrow(x)
  PROVE  Step(x) /\ (x \notin spoiled => InOrder(x))
<1> DEFINE b == rb[x]  v == pushed'  n == Grow(b.capacity)
           q == Reallocate(b, n)  r == EmplaceUnused(q, v)
<1>1. /\ Typed(b) /\ (x \notin spoiled => Tidy(b)) /\ v \in Elements
      /\ v \in 0 .. MaxPushes /\ b.size >= b.capacity /\ ~b.overwrite
      /\ b.size \in Nat /\ b.capacity \in Nat
      /\ wild = {} /\ out' = [out EXCEPT ![x] = None] /\ alive' = alive
      /\ Replace(x, n, r)
  BY Before, Sizes DEF PushGrow, PushNext, Ready
<1>2. n \in Nat /\ n > b.capacity /\ n \in Nat \ {0}
  BY <1>1, GrowGrows
<1> HIDE DEF n
<1>3. Tidy(b) => b.size = b.capacity /\ b.size < n /\ b.size <= n
  BY <1>1, <1>2 DEF Tidy
<1>4. Fits(b, n) => Typed(r) /\ r.capacity = n /\ r.overwrite = b.overwrite
  BY <1>1, <1>2, GrownTyped
<1>5. Tidy(b) => Fits(b, n)
  BY <1>1, <1>2, <1>3, ReallocOne
<1>6. Tidy(b) => /\ \A i \in 1 .. b.size : r.store[i - 1] = Items(b)[i]
                 /\ b.size = 0 => Tidy(r) /\ Items(r) = Append(Items(b), v)
  BY <1>1, <1>2, <1>3, <1>5, GrownTyped
<1> HIDE DEF r
<1>7. /\ IInv' /\ Elsewhere(x) /\ Inert(x) /\ Loses(x)
      /\ wild' \subseteq {x} /\ spoiled \subseteq spoiled'
      /\ x \notin spoiled => InOrder(x)
      /\ x \notin spoiled' =>
           x \notin spoiled /\ b.size = 0 /\ rb'[x] = r /\ out'[x] = None
  BY <1>1, <1>2, <1>3, <1>4, <1>6, ReplaceStep
<1>8. ASSUME x \notin spoiled' PROVE Fifo(x)!PushGrow(v)
  <2>1. /\ Tidy(b) /\ b.size = 0 /\ rb'[x] = r /\ out'[x] = None
        /\ Items(r) = Append(Items(b), v) /\ r.capacity = n /\ r.overwrite = b.overwrite
    BY <1>1, <1>4, <1>5, <1>6, <1>7, <1>8
  <2>2. Len(Items(b)) = b.capacity
    BY <1>1, <1>3, <2>1, ItemsOf
  <2> QED
    BY <1>1, <1>2, <2>1, <2>2 DEF Fifo!PushGrow
<1>9. x \notin spoiled' \union wild' => [Fifo(x)!Next]_(Fifo(x)!vars)
  BY <1>1, <1>8 DEF Fifo!Next
<1> QED
  BY <1>1, <1>7, <1>9 DEF Step

\* A copy throws while the storage is replaced: nothing has changed.
LEMMA ReallocateThrowsStep ==
  ASSUME IInv, NEW x \in Buffers, ReallocateThrows(x)
  PROVE  Step(x)
<1> DEFINE b == rb[x]
<1>1. /\ Typed(b) /\ (x \notin spoiled => Tidy(b)) /\ rb' = rb /\ alive' = alive
      /\ pushed' = pushed /\ out' = out /\ wild' = wild /\ spoiled' = spoiled
      /\ wild = {} /\ Walkable(b) /\ b.size > 0
  BY Before DEF ReallocateThrows, Ready, Fits
<1>2. PICK i \in 1 .. Len(Span(b)) : lost' = LostCopies(b, i)
  BY DEF ReallocateThrows
<1>3. /\ Len(Span(b)) \in Nat
      /\ \A k \in 1 .. Len(Span(b)) : b.store[Span(b)[k]] \in Elements
  BY <1>1, SpanTyped
<1>4. lost' # {} => /\ Wrapped(b) /\ lost' = {b.store[Span(b)[k]] : k \in 1 .. Turn(b)}
                    /\ 1 .. Turn(b) \subseteq 1 .. Len(Span(b))
  <2>1. Turn(b) \in Int
    BY <1>1, Sizes DEF Turn
  <2> QED
    BY <1>2, <1>3, <2>1 DEF LostCopies
<1>5. lost' \subseteq Elements
  BY <1>3, <1>4
<1>6. IInv'
  BY <1>1, <1>5 DEF IInv, BuffersInv, HistoryInv
<1>7. Elsewhere(x) /\ Inert(x)
  BY <1>1 DEF Elsewhere, Inert
<1>8. Loses(x)
  <2> SUFFICES ASSUME spoiled = {}, lost' # {}
               PROVE  rb' = rb /\ Wrapped(b) /\ lost' \subseteq Range(Items(b))
    BY DEF Loses
  <2>1. /\ Len(Span(b)) = b.size /\ \A k \in 1 .. b.size : Span(b)[k] = At(b, k)
        /\ DOMAIN Items(b) = 1 .. b.size
        /\ \A k \in 1 .. b.size : Items(b)[k] = b.store[At(b, k)]
    BY <1>1, SpanOne, ItemsOf
  <2>2. \A k \in 1 .. b.size : b.store[Span(b)[k]] \in Range(Items(b))
    BY <2>1 DEF Range
  <2> QED
    BY <1>1, <1>4, <2>1, <2>2
<1>9. [Fifo(x)!Next]_(Fifo(x)!vars)
  BY <1>1 DEF Fifo!vars, Items, Offset
<1> QED
  BY <1>1, <1>6, <1>7, <1>8, <1>9 DEF Step

-----------------------------------------------------------------------------
(* Whole buffers come, move and go.                                         *)

FifoStep ==
  \A x \in alive' \ (spoiled' \union wild') :
    IF x \in alive THEN [Fifo(x)!Next]_(Fifo(x)!vars)
    ELSE Fifo(x)!Init' \/ \E y \in alive : Items(rb[y]) = Items(rb'[x])
InertStep ==
  \A x \in alive : Hollow(rb[x]) => rb[x].size = 0 /\ (x \in wild' => pushed' > pushed)
LostStep ==
  spoiled = {} /\ lost' # {} => \E x \in alive : /\ rb' = rb /\ Wrapped(rb[x])
                                                 /\ lost' \subseteq Range(Items(rb[x]))
Fine == IInv' /\ FifoStep /\ InertStep /\ LostStep

\* A buffer no call touches rests.
LEMMA Rests ==
  ASSUME NEW y, rb'[y] = rb[y], out'[y] = out[y]
  PROVE  [Fifo(y)!Next]_(Fifo(y)!vars)
BY DEF Fifo!vars, Items, Offset

\* No buffer that was moved from holds anything.
LEMMA AllHollowEmpty ==
  ASSUME IInv
  PROVE  \A x \in alive : x \in Buffers /\ (Hollow(rb[x]) => rb[x].size = 0)
BY HollowIsEmpty DEF IInv, BuffersInv, HistoryInv

\* A new buffer is an empty queue.
LEMMA ConstructStep ==
  ASSUME IInv, NEW x \in Buffers, Construct(x)
  PROVE  Fine
<1>1. PICK c \in Capacities : rb' = [rb EXCEPT ![x] = Fresh(c)]
  BY DEF Construct
<1>2. /\ wild = {} /\ wild' = {} /\ x \notin alive /\ alive' = alive \union {x}
      /\ spoiled' = spoiled \ {x} /\ out' = [out EXCEPT ![x] = None] /\ lost' = {}
      /\ pushed' \in 0 .. MaxPushes /\ alive' \subseteq Buffers
      /\ None \in Elements \union {None}
  BY DEF Construct, IInv, HistoryInv
<1>3. c \in Nat
  BY BufferAssumption
<1> DEFINE r == Fresh(c)
<1>4. /\ Typed(r) /\ Tidy(r) /\ Items(r) = <<>>
      /\ r = Rec(r.store, 0, 0, 0, c, TRUE)
  BY <1>3, FreshOne
<1>5. r.capacity = c /\ r.overwrite = TRUE
  BY DEF Fresh
<1> HIDE DEF r
<1>6. rb' = [rb EXCEPT ![x] = r]
  BY <1>1 DEF r
<1>7. IInv' /\ Elsewhere(x) /\ rb'[x] = r /\ out'[x] = None
  BY <1>2, <1>4, <1>6, InsideStep
<1>8. Fifo(x)!Init'
  BY <1>3, <1>4, <1>5, <1>7 DEF Fifo!Init
<1>9. FifoStep
  <2> SUFFICES ASSUME NEW z \in alive' \ (spoiled' \union wild')
               PROVE  IF z \in alive THEN [Fifo(z)!Next]_(Fifo(z)!vars)
                      ELSE Fifo(z)!Init' \/ \E y \in alive : Items(rb[y]) = Items(rb'[z])
    BY DEF FifoStep
  <2>1. CASE z = x
    BY <1>2, <1>8, <2>1
  <2>2. CASE z # x
    <3>1. z \in alive /\ rb'[z] = rb[z] /\ out'[z] = out[z]
      BY <1>2, <1>7, <2>2 DEF Elsewhere
    <3> QED
      BY <3>1, Rests
  <2> QED
    BY <2>1, <2>2
<1>10. InertStep
  BY <1>2, AllHollowEmpty DEF InertStep
<1>11. LostStep
  BY <1>2 DEF LostStep
<1> QED
  BY <1>7, <1>9, <1>10, <1>11 DEF Fine

\* The destructor destroys all elements of a tidy buffer.
LEMMA DestructStep ==
  ASSUME IInv, NEW x \in Buffers, Destruct(x)
  PROVE  Fine
<1> DEFINE b == rb[x]  r == Fresh(0)
<1>1. /\ Typed(b) /\ (x \notin spoiled => Tidy(b)) /\ None \in Elements \union {None}
      /\ Call(x, Walkable(b), r) /\ wild = {} /\ alive' = alive \ {x}
      /\ alive' \subseteq Buffers /\ lost' = Left(b) /\ spoiled' = spoiled
      /\ out' = [out EXCEPT ![x] = None]
      /\ pushed' \in 0 .. MaxPushes
  BY Before DEF Destruct, Ready, IInv, HistoryInv
<1>2. Typed(r) /\ Tidy(r)
  BY FreshOne
<1>3. lost' \subseteq Elements
  BY <1>1, BuriedElements
<1>4. x \notin spoiled => Walkable(b) /\ lost' = {}
  BY <1>1, SpanOne
<1> HIDE DEF r
<1>5. IInv' /\ Elsewhere(x)
  <2>1. CASE Walkable(b)
    <3>1. rb' = [rb EXCEPT ![x] = r] /\ wild' = {}
      BY <1>1, <2>1 DEF Call
    <3> QED
      BY <1>1, <1>2, <1>3, <3>1, InsideStep
  <2>2. CASE ~Walkable(b)
    <3>1. rb' = rb /\ wild' = {x} /\ x \in spoiled
      BY <1>1, <1>4, <2>2 DEF Call
    <3> QED
      BY <1>1, <1>3, <3>1, OutsideStep
  <2> QED
    BY <2>1, <2>2
<1>6. FifoStep
  <2>1. \A z \in alive' : z \in alive /\ rb'[z] = rb[z] /\ out'[z] = out[z]
    BY <1>1, <1>5 DEF Elsewhere
  <2> QED
    BY <2>1, Rests DEF FifoStep
<1>7. InertStep
  <2>1. Hollow(b) => wild' = {}
    BY <1>1, HollowIsEmpty, EmptyFits DEF Call
  <2>2. wild' \subseteq {x}
    BY <1>1 DEF Call
  <2> QED
    BY <2>1, <2>2, AllHollowEmpty DEF InertStep
<1>8. LostStep
  BY <1>4 DEF LostStep
<1> QED
  BY <1>5, <1>6, <1>7, <1>8 DEF Fine

\* Two buffers change.
LEMMA TwoChanged ==
  ASSUME IInv, NEW x \in Buffers, NEW y \in Buffers, x # y,
         NEW r, Typed(r), NEW q, Typed(q),
         rb' = [rb EXCEPT ![x] = r, ![y] = q], out' = [out EXCEPT ![x] = None],
         wild' = {}, alive' \subseteq Buffers, spoiled \subseteq spoiled' \union {x},
         spoiled' \subseteq spoiled \union {x, y}, x \notin spoiled' => Tidy(r),
         y \notin spoiled' => Tidy(q), pushed' \in 0 .. MaxPushes, lost' \subseteq Elements
  PROVE  /\ IInv' /\ rb'[x] = r /\ rb'[y] = q /\ out'[y] = out[y]
         /\ \A z \in Buffers \ {x, y} : rb'[z] = rb[z] /\ out'[z] = out[z]
<1>1. rb = [z \in Buffers |-> rb[z]] /\ out \in [Buffers -> Elements \union {None}]
  BY DEF IInv, BuffersInv, HistoryInv
<1>2. /\ rb'[x] = r /\ rb'[y] = q /\ rb' = [z \in Buffers |-> rb'[z]]
      /\ \A z \in Buffers \ {x, y} : rb'[z] = rb[z]
  BY <1>1
<1>3. /\ out' \in [Buffers -> Elements \union {None}]
      /\ \A z \in Buffers \ {x} : out'[z] = out[z]
  BY <1>1
<1>4. \A z \in Buffers : Typed(rb'[z]) /\ (z \notin spoiled' => Tidy(rb'[z]))
  <2> TAKE z \in Buffers
  <2>1. CASE z = x
    BY <1>2, <2>1
  <2>2. CASE z = y
    BY <1>2, <2>2
  <2>3. CASE z \notin {x, y}
    BY <1>2, <2>3 DEF IInv, BuffersInv
  <2> QED
    BY <2>1, <2>2, <2>3
<1>5. BuffersInv'
  BY <1>2, <1>4 DEF BuffersInv
<1>6. spoiled' \subseteq Buffers
  BY DEF IInv, HistoryInv
<1>7. HistoryInv'
  BY <1>3, <1>6 DEF IInv, HistoryInv
<1> QED
  BY <1>2, <1>3, <1>5, <1>7 DEF IInv

\* The new buffer is what the source was; the source has no cells any more.
LEMMA MoveConstructStep ==
  ASSUME IInv, NEW x \in Buffers, NEW y \in Buffers, MoveConstruct(x, y)
  PROVE  Fine
<1> DEFINE b == rb[y]  q == Emptied(b)
<1>1. /\ Typed(b) /\ (y \notin spoiled => Tidy(b)) /\ y \in alive /\ x \notin alive
      /\ x # y /\ wild = {} /\ wild' = {} /\ alive' = alive \union {x}
      /\ alive' \subseteq Buffers /\ rb' = [rb EXCEPT ![x] = b, ![y] = q]
      /\ out' = [out EXCEPT ![x] = None] /\ lost' = {} /\ pushed' \in 0 .. MaxPushes
      /\ spoiled' = (spoiled \ {x}) \union (IF y \in spoiled THEN {x} ELSE {})
                                    \union (IF b.capacity > 0 THEN {y} ELSE {})
  BY Before DEF MoveConstruct, Ready, IInv, HistoryInv
<1>2. /\ spoiled \subseteq spoiled' \union {x} /\ spoiled' \subseteq spoiled \union {x, y}
      /\ x \notin spoiled' => y \notin spoiled
      /\ y \notin spoiled' => y \notin spoiled /\ ~(b.capacity > 0)
      /\ \A z \in alive \ {y} : z \in spoiled' <=> z \in spoiled
  BY <1>1
<1>3. b.capacity \in Nat
  BY <1>1, Sizes
<1>4. /\ Typed(q) /\ q.capacity = b.capacity /\ q.overwrite = b.overwrite
      /\ Items(q) = <<>>
      /\ y \notin spoiled' => Tidy(q) /\ Items(b) = <<>>
  BY <1>1, <1>2, <1>3, EmptiedOne
<1> HIDE DEF q
<1>5. /\ IInv' /\ rb'[x] = b /\ rb'[y] = q /\ out'[y] = out[y]
      /\ \A z \in Buffers \ {x, y} : rb'[z] = rb[z] /\ out'[z] = out[z]
  BY <1>1, <1>2, <1>4, TwoChanged
<1>6. FifoStep
  <2> SUFFICES ASSUME NEW z \in alive' \ (spoiled' \union wild')
               PROVE  IF z \in alive THEN [Fifo(z)!Next]_(Fifo(z)!vars)
                      ELSE Fifo(z)!Init' \/ \E w \in alive : Items(rb[w]) = Items(rb'[z])
    BY DEF FifoStep
  <2>1. CASE z = x
    BY <1>1, <1>5, <2>1
  <2>2. CASE z = y
    <3>1. Fifo(y)!vars' = Fifo(y)!vars
      BY <1>4, <1>5, <2>2 DEF Fifo!vars
    <3> QED
      BY <1>1, <2>2, <3>1
  <2>3. CASE z \notin {x, y}
    <3>1. z \in alive /\ rb'[z] = rb[z] /\ out'[z] = out[z]
      BY <1>1, <1>5, <2>3
    <3> QED
      BY <3>1, Rests
  <2> QED
    BY <2>1, <2>2, <2>3
<1>7. InertStep
  BY <1>1, AllHollowEmpty DEF InertStep
<1>8. LostStep
  BY <1>1 DEF LostStep
<1> QED
  BY <1>5, <1>6, <1>7, <1>8 DEF Fine

\* An assignment spoils both.
LEMMA MoveAssignStep ==
  ASSUME IInv, NEW x \in Buffers, NEW y \in Buffers, MoveAssign(x, y)
  PROVE  Fine
<1> DEFINE b == rb[x]  d == rb[y]  r == Taken(Cleanup(b), d)  q == Emptied(d)
<1>1. /\ Typed(b) /\ Typed(d) /\ (x \notin spoiled => Tidy(b))
      /\ x # y /\ wild = {} /\ alive' = alive /\ alive' \subseteq Buffers
      /\ out' = [out EXCEPT ![x] = None] /\ pushed' \in 0 .. MaxPushes
      /\ None \in Elements \union {None}
  BY Before DEF MoveAssign, Ready, IInv, HistoryInv
<1>2. IF Walkable(b)
      THEN /\ rb' = [rb EXCEPT ![x] = r, ![y] = q]
           /\ spoiled' = spoiled \union {x, y} /\ lost' = Left(b) /\ wild' = {}
      ELSE wild' = {x} /\ lost' = {} /\ rb' = rb /\ spoiled' = spoiled
  BY <1>1 DEF MoveAssign
<1>3. x \notin spoiled => Walkable(b) /\ Left(b) = {}
  BY <1>1, SpanOne
<1>4. InertStep
  <2>1. Hollow(b) => wild' = {}
    BY <1>1, <1>2, HollowIsEmpty, EmptyFits
  <2>2. wild' \subseteq {x}
    BY <1>2
  <2> QED
    BY <2>1, <2>2, AllHollowEmpty DEF InertStep
<1>5. LostStep
  BY <1>2, <1>3 DEF LostStep
<1>6. CASE Walkable(b)
  <2>1. Typed(r) /\ Typed(q) /\ Left(b) \subseteq Elements
    BY <1>1, TakenOne, EmptiedOne, BuriedElements
  <2> HIDE DEF r, q
  <2>2. /\ spoiled \subseteq spoiled' \union {x} /\ x \in spoiled' /\ y \in spoiled'
        /\ spoiled' \subseteq spoiled \union {x, y}
    BY <1>2, <1>6
  <2>3. /\ IInv'
        /\ \A z \in Buffers \ {x, y} : rb'[z] = rb[z] /\ out'[z] = out[z]
    <3>1. rb' = [rb EXCEPT ![x] = r, ![y] = q] /\ wild' = {} /\ lost' \subseteq Elements
      BY <1>2, <1>6, <2>1
    <3>2. /\ x # y /\ out' = [out EXCEPT ![x] = None] /\ alive' \subseteq Buffers
          /\ pushed' \in 0 .. MaxPushes
      BY <1>1
    <3>3. /\ x \notin spoiled' => Tidy(r)
          /\ y \notin spoiled' => Tidy(q)
          /\ spoiled \subseteq spoiled' \union {x}
          /\ spoiled' \subseteq spoiled \union {x, y}
      BY <2>2
    <3> QED
      BY <2>1, <3>1, <3>2, <3>3, TwoChanged
  <2>4. FifoStep
    <3>1. \A z \in alive' \ (spoiled' \union wild') :
            z \in alive /\ rb'[z] = rb[z] /\ out'[z] = out[z]
      BY <1>1, <2>2, <2>3
    <3> QED
      BY <3>1, Rests DEF FifoStep
  <2> QED
    BY <1>4, <1>5, <2>3, <2>4 DEF Fine
<1>7. CASE ~Walkable(b)
  <2>1. /\ wild' = {x} /\ lost' = {} /\ rb' = rb /\ spoiled' = spoiled
        /\ x \in spoiled
    BY <1>2, <1>3, <1>7
  <2>2. IInv' /\ Elsewhere(x)
    BY <1>1, <2>1, OutsideStep
  <2>3. FifoStep
    <3>1. \A z \in alive' \ (spoiled' \union wild') :
            z \in alive /\ rb'[z] = rb[z] /\ out'[z] = out[z]
      BY <1>1, <2>1, <2>2 DEF Elsewhere
    <3> QED
      BY <3>1, Rests DEF FifoStep
  <2> QED
    BY <1>4, <1>5, <2>2, <2>3 DEF Fine
<1> QED
  BY <1>6, <1>7

\* Every call on one buffer, and every call.
LEMMA UseStep ==
  ASSUME IInv, NEW x \in Buffers, Use(x)
  PROVE  Fine
<1>1. Step(x) /\ x \in alive
  <2>1. x \in alive
    BY DEF Use, PushUnused, PushOverwrite, PushOverwriteThrows, PushGrow, TryPopFront,
           PopThrows, Clear, CommitWrite, CommitRead, SetOverwrite, Reserve,
           ShrinkToFit, ReallocateThrows, Ready
  <2>2. Step(x)
    BY PushUnusedStep, PushOverwriteStep, PushOverwriteThrowsStep, PushGrowStep,
       TryPopFrontStep, PopThrowsStep, ClearStep, CommitWriteStep, CommitReadStep,
       SetOverwriteStep, ReserveStep, ShrinkToFitStep, ReallocateThrowsStep DEF Use
  <2> QED
    BY <2>1, <2>2
<1>2. FifoStep
  <2>1. ASSUME NEW z \in alive' \ (spoiled' \union wild')
        PROVE  z \in alive /\ [Fifo(z)!Next]_(Fifo(z)!vars)
    <3>1. z \in alive /\ z \in Buffers
      BY <1>1 DEF Step, IInv, HistoryInv
    <3>2. CASE z = x
      BY <1>1, <3>1, <3>2 DEF Step
    <3>3. CASE z # x
      <4>1. rb'[z] = rb[z] /\ out'[z] = out[z]
        BY <1>1, <3>1, <3>3 DEF Step, Elsewhere
      <4> QED
        BY <3>1, <4>1, Rests
    <3> QED
      BY <3>2, <3>3
  <2> QED
    BY <2>1 DEF FifoStep
<1>3. InertStep
  BY <1>1, AllHollowEmpty DEF InertStep, Step, Inert
<1>4. LostStep
  BY <1>1 DEF LostStep, Step, Loses
<1> QED
  BY <1>1, <1>2, <1>3, <1>4 DEF Fine, Step

\* What a step of the specification does to every buffer.
LEMMA NextStep ==
  ASSUME IInv, Next
  PROVE  Fine
<1>1. CASE \E x \in Buffers : Use(x) \/ Construct(x) \/ Destruct(x)
  BY <1>1, UseStep, ConstructStep, DestructStep
<1>2. CASE \E x, y \in Buffers : MoveConstruct(x, y) \/ MoveAssign(x, y)
  BY <1>2, MoveConstructStep, MoveAssignStep
<1> QED
  BY <1>1, <1>2 DEF Next

-----------------------------------------------------------------------------
(* The theorems.                                                            *)

\* The invariant: every buffer has the fields of one, and those that nothing has
\* spoiled are laid out as the class means them to be.
THEOREM BuffersInductive == Spec => []IInv
<1>1. Init => IInv
  <2> SUFFICES ASSUME Init PROVE IInv
    OBVIOUS
  <2>1. PICK x \in Buffers, c \in Capacities :
          /\ alive = {x}
          /\ rb = [y \in Buffers |-> IF y = x THEN Fresh(c) ELSE Fresh(0)]
    BY DEF Init
  <2>2. c \in Nat /\ MaxPushes \in Nat
    BY BufferAssumption
  <2>3. \A y \in Buffers : Typed(rb[y]) /\ Tidy(rb[y])
    BY <2>1, <2>2, FreshOne
  <2>4. BuffersInv
    BY <2>1, <2>3 DEF BuffersInv, Init
  <2>5. HistoryInv
    BY <2>1, <2>2 DEF HistoryInv, Init
  <2> QED
    BY <2>4, <2>5 DEF IInv
<1>2. IInv /\ [Next]_vars => IInv'
  <2> SUFFICES ASSUME IInv, [Next]_vars PROVE IInv'
    OBVIOUS
  <2>1. CASE Next
    BY <2>1, NextStep DEF Fine
  <2>2. CASE UNCHANGED vars
    BY <2>2 DEF vars, IInv, BuffersInv, HistoryInv
  <2> QED
    BY <2>1, <2>2
<1> QED
  BY <1>1, <1>2, PTL DEF Spec

\* The fields are of their kinds, and those of a buffer nothing has spoiled point into
\* its storage.
THEOREM BufferTypeCorrect == Spec => []TypeOK
<1>1. IInv => TypeOK
  <2> SUFFICES ASSUME IInv PROVE TypeOK
    OBVIOUS
  <2>1. ASSUME NEW x \in Buffers
        PROVE  /\ rb[x].capacity \in Nat /\ rb[x].size \in Nat
               /\ rb[x].first \in Nat /\ rb[x].last \in Nat
               /\ x \notin spoiled =>
                    /\ rb[x].first \in {0} \union DOMAIN rb[x].store
                    /\ rb[x].last \in 0 .. rb[x].capacity
               /\ rb[x].overwrite \in BOOLEAN
               /\ \A c \in DOMAIN rb[x].store : rb[x].store[c] \in Elements \union {Raw}
    <3>1. Typed(rb[x]) /\ (x \notin spoiled => Tidy(rb[x]))
      BY DEF IInv, BuffersInv
    <3>2. x \notin spoiled => /\ rb[x].first \in {0} \union DOMAIN rb[x].store
                              /\ rb[x].last \in 0 .. rb[x].capacity
      BY <3>1, Layout
    <3> QED
      BY <3>1, <3>2, Sizes DEF Cell
  <2> QED
    BY <2>1 DEF TypeOK, IInv, HistoryInv
<1> QED
  BY <1>1, BuffersInductive, PTL

\* The elements of a buffer nothing has spoiled are in the size() cells from _first on
\* and in no others, and only a push into a capacity of 0 leaves such a buffer.
THEOREM ElementsWhereTheyAre == Spec => []LiveExactly
<1>1. IInv => LiveExactly
  <2> SUFFICES ASSUME IInv PROVE LiveExactly
    OBVIOUS
  <2>1. ASSUME NEW x \in alive \ spoiled PROVE Sound(x)
    <3> DEFINE b == rb[x]
    <3>1. Typed(b) /\ Tidy(b)
      BY DEF IInv, BuffersInv, HistoryInv
    <3>2. /\ DOMAIN b.store = 0 .. b.capacity - 1 /\ b.size <= b.capacity
          /\ b.capacity \in Nat /\ b.first \in 0 .. b.capacity
          /\ b.size \in 0 .. b.capacity
      BY <3>1, Layout
    <3>3. /\ Cells(b, b.first, b.size) \subseteq 0 .. b.capacity - 1
          /\ \A c \in 0 .. b.capacity - 1 :
               c \in Cells(b, b.first, b.size) <=> In(b, b.first, b.size, c)
      BY <3>2, CellsMet
    <3>4. \A c \in 0 .. b.capacity - 1 : b.store[c] # Raw <=> In(b, b.first, b.size, c)
      BY <3>1 DEF Tidy
    <3>5. {c \in DOMAIN b.store : b.store[c] # Raw} = Cells(b, b.first, b.size)
      BY <3>2, <3>3, <3>4
    <3> QED
      BY <3>2, <3>5 DEF Sound
  <2> QED
    BY <2>1 DEF LiveExactly, IInv, BuffersInv
<1> QED
  BY <1>1, BuffersInductive, PTL

\* As long as nothing has spoiled it a buffer is the bounded queue of its
\* documentation, whatever is called on it and on the others.
THEOREM BufferIsAQueue == Spec => FifoUntilSpoiled
<1>1. IInv /\ [Next]_vars =>
        [\A x \in alive' \ (spoiled' \union wild') :
           IF x \in alive THEN [Fifo(x)!Next]_(Fifo(x)!vars)
           ELSE Fifo(x)!Init' \/ \E y \in alive : Items(rb[y]) = Items(rb'[x])]_vars
  BY NextStep DEF Fine, FifoStep
<1> QED
  BY <1>1, BuffersInductive, PTL DEF Spec, FifoUntilSpoiled

\* Replacing the storage keeps all elements in order and loses none; a copy that
\* throws leaves the old storage and loses copies of its elements only.
THEOREM StorageReplacedInOrder == Spec => ReplacedInOrder
<1>1. IInv /\ [Next]_vars =>
        [/\ \A x \in Buffers \ spoiled : Replaces(x) =>
              /\ wild' = {} /\ lost' = {}
              /\ \A i \in 1 .. rb[x].size : rb'[x].store[i - 1] = Items(rb[x])[i]
         /\ spoiled = {} /\ lost' # {} =>
              \E x \in alive : /\ rb' = rb /\ Wrapped(rb[x])
                               /\ lost' \subseteq Range(Items(rb[x]))]_vars
  <2> SUFFICES ASSUME IInv, Next
               PROVE  /\ \A x \in Buffers \ spoiled : Replaces(x) => InOrder(x)
                      /\ LostStep
    BY DEF InOrder, LostStep
  <2>1. \A x \in Buffers \ spoiled : Replaces(x) => InOrder(x)
    BY ReserveStep, ShrinkToFitStep, PushGrowStep DEF Replaces
  <2> QED
    BY <2>1, NextStep DEF Fine
<1> QED
  BY <1>1, BuffersInductive, PTL DEF Spec, ReplacedInOrder

\* A buffer that was moved from is empty and safe for every call but a push.
THEOREM MovedFromHoldsNothing == Spec => MovedFromIsInert
<1>1. IInv /\ [Next]_vars =>
        [\A x \in alive : Hollow(rb[x]) =>
           /\ rb[x].size = 0
           /\ x \in wild' => pushed' > pushed]_vars
  BY NextStep DEF Fine, InertStep
<1> QED
  BY <1>1, BuffersInductive, PTL DEF Spec, MovedFromIsInert
=============================================================================
