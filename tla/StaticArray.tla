----------------------------- MODULE StaticArray -----------------------------
(***************************************************************************)
(* voxory::containers::static_array (include/containers/impl/static_array. *)
(* h): N cells inside the object and _pair, two pointers that delimit the  *)
(* elements.  The constructors and assignments of the class take a         *)
(* static_array_base, whatever its N; the base is private, and the tests   *)
(* cast an array to it.  Two arrays of the same N are copied by the        *)
(* compiler's constructor and assignment instead, for rvalues too because  *)
(* the destructor is declared: they copy the bytes of the cells and the    *)
(* pointers, which then point into the other object.                       *)
(***************************************************************************)
EXTENDS Integers

CONSTANTS
  Objects,
  Capacities,  \* the values of N
  Values       \* what a caller writes


VARIABLES
  trivial,     \* are the elements trivially copyable, as an int is?
  alive,       \* the constructed objects
  capacity,    \* N of each, 0 when there is none
  data,        \* each object's own cells
  pair,        \* the object whose cells _pair delimits
  wild,        \* the objects of a call that touched what is no element
  shared,      \* history: objects that took part in a copy by the compiler
  lost         \* the objects whose cells went away with elements by the last call

vars == <<trivial, alive, capacity, data, pair, wild, shared, lost>>

Raw     == "raw"      \* no element
Image   == "image"    \* the bytes of an element that is elsewhere
Default == "default"  \* a default-constructed element
Moved   == "moved"    \* an element that was moved from
IsElement(c) == c \notin {Raw, Image}

ASSUME StaticArrayAssumption == /\ Capacities \subseteq Nat
                                /\ \A v \in Values : IsElement(v)

\* _construct_range without arguments, and a storage that went away.
AllDefault(n) == [i \in 1 .. n |-> Default]
Gone == AllDefault(0)

\* The first n cells that x shows through _pair are elements.
HoldsFirst(x, n) ==
  \A i \in 1 .. n : i \in DOMAIN data[pair[x]] /\ IsElement(data[pair[x]][i])
HoldsAll(x) == HoldsFirst(x, capacity[x])

\* What operator[] shows.
Shown(x) ==
  [i \in 1 .. capacity[x] |->
     IF i \in DOMAIN data[pair[x]] THEN data[pair[x]][i] ELSE Raw]

\* x has elements in its own cells, which no destructor of x will reach.
Stranded(x) == ~trivial /\ \E i \in DOMAIN data[x] : IsElement(data[x][i])

\* The object's cells in d after the first n elements that y shows went out.
TakenFrom(d, y, n, how) ==
  IF how = "copy" \/ trivial THEN d
  ELSE [d EXCEPT ![pair[y]] =
          [i \in DOMAIN @ |-> IF i <= n THEN Moved ELSE @[i]]]

Throwing == IF trivial THEN {} ELSE {"copy", "move"}

-----------------------------------------------------------------------------
Init ==
  /\ trivial \in BOOLEAN /\ alive = {}
  /\ capacity = [x \in Objects |-> 0]
  /\ data = [x \in Objects |-> Gone]
  /\ pair = [x \in Objects |-> x]
  /\ wild = {} /\ shared = {} /\ lost = {}

\* A call on these objects that is undefined.
GoesWild(objects) ==
  wild' = objects /\ UNCHANGED <<alive, capacity, data, pair, shared>>

\* static_array().  If an element throws nothing is left.
Construct(x) ==
  /\ wild = {} /\ x \notin alive
  /\ \E n \in Capacities : /\ capacity' = [capacity EXCEPT ![x] = n]
                           /\ data' = [data EXCEPT ![x] = AllDefault(n)]
  /\ pair' = [pair EXCEPT ![x] = x]
  /\ alive' = alive \union {x}
  /\ lost' = {} /\ UNCHANGED <<trivial, wild, shared>>

\* How many elements come from y when a new array has n cells.
FromSource_NoMin(n, y) == n
FromSource(n, y) == IF n <= capacity[y] THEN n ELSE capacity[y]

\* Its n cells when m elements came; the rest is default-constructed.
Filled_NoRest(n, m, cells) == [i \in 1 .. n |-> IF i <= m THEN cells[i] ELSE Raw]
Filled(n, m, cells) == [i \in 1 .. n |-> IF i <= m THEN cells[i] ELSE Default]

\* The constructors from a base.
ConstructFrom(x, y, how) ==
  /\ wild = {} /\ x \notin alive /\ y \in alive
  /\ \E n \in Capacities :
       LET m == FromSource(n, y)
       IN  IF ~HoldsFirst(y, m) THEN GoesWild({x, y})
           ELSE /\ data' = [TakenFrom(data, y, m, how) EXCEPT
                              ![x] = Filled(n, m, data[pair[y]])]
                /\ capacity' = [capacity EXCEPT ![x] = n]
                /\ pair' = [pair EXCEPT ![x] = x]
                /\ alive' = alive \union {x}
                /\ UNCHANGED <<wild, shared>>
  /\ lost' = {} /\ UNCHANGED trivial

\* An element throws: on the way from y, when those that arrived are destroyed
\* again, or when the rest is default-constructed, when they are not.
ConstructFromThrows(x, y, how) ==
  /\ wild = {} /\ x \notin alive /\ y \in alive /\ how \in Throwing
  /\ \E n \in Capacities :
       LET m == FromSource(n, y)
       IN  \E k \in 0 .. m :
             /\ k < n /\ HoldsFirst(y, m)
             /\ data' = TakenFrom(data, y, k, how)
             /\ lost' = IF k = m /\ m > 0 THEN {x} ELSE {}
  /\ UNCHANGED <<trivial, alive, capacity, pair, wild, shared>>

\* The assignments from a base, which compare addresses first: as many elements
\* as the target has are read, whatever the source has; k of them arrive before
\* one throws.
Assign(x, y, how) ==
  /\ wild = {} /\ x \in alive /\ y \in alive /\ x # y
  /\ IF ~(HoldsAll(x) /\ HoldsFirst(y, capacity[x])) THEN GoesWild({x, y})
     ELSE /\ \E k \in 0 .. capacity[x] :
               /\ how \in Throwing \/ k = capacity[x]
               /\ data' = TakenFrom(
                    [data EXCEPT ![pair[x]] =
                       [i \in DOMAIN @ |-> IF i <= k THEN data[pair[y]][i] ELSE @[i]]],
                    y, k, how)
          /\ UNCHANGED <<alive, capacity, pair, wild, shared>>
  /\ lost' = {} /\ UNCHANGED trivial

\* The bytes of y's cells.
Bytes(y) == IF trivial THEN data[y] ELSE [i \in 1 .. capacity[y] |-> Image]

\* static_array x = y, by the compiler.
CompilerCopy(x, y) ==
  /\ wild = {} /\ x \notin alive /\ y \in alive
  /\ data' = [data EXCEPT ![x] = Bytes(y)]
  /\ capacity' = [capacity EXCEPT ![x] = capacity[y]]
  /\ pair' = [pair EXCEPT ![x] = pair[y]]
  /\ alive' = alive \union {x} /\ shared' = shared \union {x, y}
  /\ lost' = {} /\ UNCHANGED <<trivial, wild>>

\* x = y, by the compiler.
CompilerAssign(x, y) ==
  /\ wild = {} /\ x \in alive /\ y \in alive /\ x # y
  /\ capacity[x] = capacity[y]
  /\ data' = [data EXCEPT ![x] = Bytes(y)]
  /\ pair' = [pair EXCEPT ![x] = pair[y]]
  /\ shared' = shared \union {x, y}
  /\ lost' = IF Stranded(x) THEN {x} ELSE {}
  /\ UNCHANGED <<trivial, alive, capacity, wild>>

\* std::swap: the compiler's copy and two of its assignments; the destructor of the
\* third object then destroys what x showed.
Swap_CellsOnly(x, y) ==
  /\ wild = {} /\ x \in alive /\ y \in alive /\ x # y
  /\ capacity[x] = capacity[y]
  /\ IF trivial
     THEN /\ data' = [data EXCEPT ![x] = data[y], ![y] = data[x]]
          /\ UNCHANGED <<pair, wild>>
     ELSE wild' = {x, y} /\ UNCHANGED <<data, pair>>
  /\ shared' = shared \union {x, y} /\ lost' = {}
  /\ UNCHANGED <<trivial, alive, capacity>>
Swap(x, y) ==
  /\ wild = {} /\ x \in alive /\ y \in alive /\ x # y
  /\ capacity[x] = capacity[y]
  /\ IF trivial
     THEN /\ data' = [data EXCEPT ![x] = data[y], ![y] = data[x]]
          /\ pair' = [pair EXCEPT ![x] = pair[y], ![y] = pair[x]]
          /\ UNCHANGED wild
     ELSE wild' = {x, y} /\ UNCHANGED <<data, pair>>
  /\ shared' = shared \union {x, y} /\ lost' = {}
  /\ UNCHANGED <<trivial, alive, capacity>>

\* a[i] = v
Write(x) ==
  /\ wild = {} /\ x \in alive
  /\ \E i \in 1 .. capacity[x], v \in Values :
       IF i \in DOMAIN data[pair[x]] /\ IsElement(data[pair[x]][i])
       THEN /\ data' = [data EXCEPT ![pair[x]][i] = v]
            /\ UNCHANGED <<alive, capacity, pair, wild, shared>>
       ELSE GoesWild({x})
  /\ lost' = {} /\ UNCHANGED trivial

\* ~static_array destroys what _pair delimits; then the cells of x are gone.
Destruct(x) ==
  /\ wild = {} /\ x \in alive
  /\ IF ~trivial /\ ~HoldsAll(x) THEN GoesWild({x}) /\ lost' = {}
     ELSE /\ alive' = alive \ {x}
          /\ capacity' = [capacity EXCEPT ![x] = 0]
          /\ data' = [data EXCEPT
               ![pair[x]] = IF trivial THEN @ ELSE [i \in DOMAIN @ |-> Raw],
               ![x] = Gone]
          /\ lost' = IF pair[x] # x /\ Stranded(x) THEN {x} ELSE {}
          /\ UNCHANGED <<pair, wild, shared>>
  /\ UNCHANGED trivial

Next ==
  \/ \E x \in Objects : Construct(x) \/ Write(x) \/ Destruct(x)
  \/ \E x, y \in Objects :
       \/ CompilerCopy(x, y) \/ CompilerAssign(x, y) \/ Swap(x, y)
       \/ \E how \in {"copy", "move"} :
            \/ ConstructFrom(x, y, how) \/ ConstructFromThrows(x, y, how)
            \/ Assign(x, y, how)

Spec == Init /\ [][Next]_vars

-----------------------------------------------------------------------------
(* Properties.                                                              *)

Cell == Values \union {Raw, Image, Default, Moved}

\* What lives has its N cells, which hold an element or, with elements that are not
\* trivial, an image or nothing.
TypeOK ==
  /\ trivial \in BOOLEAN
  /\ alive \subseteq Objects /\ shared \subseteq Objects
  /\ wild \subseteq Objects /\ lost \subseteq Objects
  /\ capacity \in [Objects -> Capacities \union {0}]
  /\ pair \in [Objects -> Objects]
  /\ \A x \in Objects : /\ DOMAIN data[x] = 1 .. capacity[x]
                        /\ \A i \in 1 .. capacity[x] : data[x][i] \in Cell
                        /\ x \notin alive => data[x] = Gone
  /\ trivial => \A x \in alive : \A i \in 1 .. capacity[x] : IsElement(data[x][i])

\* An array the compiler never copied delimits its own N cells, all of them
\* elements, after any constructions, assignments, moves and exceptions.  A call
\* leaves what it may touch only when an array is assigned from a smaller one, of
\* which it reads too much, or through a copy by the compiler
\* (static_array.h:230-302, 327-410).
OwnsItsElements ==
  /\ \A x \in alive \ shared : pair[x] = x /\ HoldsAll(x)
  /\ \/ wild = {} \/ wild \cap shared # {}
     \/ \E x, y \in wild \cap alive : capacity[y] < capacity[x]

\* A copy is a deep one (static_array_test.cpp:38-74): what an array shows changes
\* only by a call on it, or by a move out of it.  std::swap is no such call: two
\* arrays of ints that own their cells show after it what they showed before,
\* because the pointers go round with the cells (test :127-144 asserts just that).  Elements are lost only by a
\* constructor whose default-constructed rest throws, and by the compiler's copies
\* (static_array.h:238-302, 353-357, 412-413).
CallsOn(x) ==
  \/ Write(x) \/ \E y \in Objects : CompilerAssign(x, y)
  \/ \E y \in Objects, how \in {"copy", "move"} : Assign(x, y, how)
MovesFrom(x) ==
  \E y \in Objects : \/ ConstructFrom(y, x, "move") \/ Assign(y, x, "move")
                     \/ ConstructFromThrows(y, x, "move")
KeptApart ==
  [][/\ \A x \in (alive \intersect alive') \ shared :
          Shown(x)' # Shown(x) =>
            \/ CallsOn(x) \/ MovesFrom(x)
            \/ \E y \in shared : Swap(x, y) \/ Swap(y, x)
     /\ \A x \in lost' \ shared' :
          \E y \in Objects, how \in {"copy", "move"} : ConstructFromThrows(x, y, how)
    ]_vars
=============================================================================
