-------------------------- MODULE StaticArrayProofs --------------------------
(***************************************************************************)
(* Proofs about StaticArray for any number of arrays of any sizes: types,  *)
(* that an array the compiler never copied owns its elements, and that     *)
(* such arrays are apart.                                                  *)
(***************************************************************************)
EXTENDS StaticArray, TLAPS

\* d gives each object its cells.
CellsOf(d, cap) ==
  /\ d = [z \in Objects |-> d[z]]
  /\ \A z \in Objects : d[z] \in [1 .. cap[z] -> Cell]

\* All cells of z hold an element.
Whole(d, cap, z) == \A i \in 1 .. cap[z] : IsElement(d[z][i])

\* The kinds of the other variables; what is not alive has no cells.
KindInv ==
  /\ trivial \in BOOLEAN
  /\ alive \subseteq Objects /\ shared \subseteq Objects
  /\ wild \subseteq Objects /\ lost \subseteq Objects
  /\ capacity \in [Objects -> Capacities \union {0}]
  /\ pair \in [Objects -> Objects]
  /\ \A z \in Objects \ alive : capacity[z] = 0

\* Cells with bytes for elements are never raw; an array nobody shares is whole.
CellInv ==
  /\ CellsOf(data, capacity)
  /\ \A z \in alive : trivial \/ z \notin shared => Whole(data, capacity, z)

\* Only what the compiler copied points elsewhere, and to what took part in a copy.
AliasInv == \A z \in alive : pair[z] # z => z \in shared /\ pair[z] \in shared

\* What a call that goes wild went wild on.
WildInv == \/ wild = {} \/ wild \cap shared # {}
           \/ \E x, y \in wild \cap alive : capacity[y] < capacity[x]

IInv == KindInv /\ CellInv /\ AliasInv /\ WildInv

-----------------------------------------------------------------------------
(* The cells.                                                               *)

\* What may be in a cell.
LEMMA ElementsAreCells ==
  /\ \A v \in Values \union {Default, Moved} : IsElement(v) /\ v \in Cell
  /\ Raw \in Cell /\ Image \in Cell
BY StaticArrayAssumption DEF IsElement, Raw, Image, Default, Moved, Cell

\* The size of an array is a number.
LEMMA CapacitiesAreNaturals ==
  ASSUME KindInv, NEW z \in Objects PROVE capacity[z] \in Nat
<1>1. Capacities \subseteq Nat BY StaticArrayAssumption
<1>2. capacity[z] \in Capacities \union {0} BY DEF KindInv
<1>3. \A c \in Capacities \union {0} : c \in Nat
  <2>1. 0 \in Nat OBVIOUS
  <2> QED BY <1>1, <2>1, Zenon
<1> QED BY <1>2, <1>3

\* Moving elements out of an array leaves elements, and touches no other cells.
LEMMA TakenIsWhole ==
  ASSUME NEW d, NEW cap, CellsOf(d, cap), pair \in [Objects -> Objects],
         NEW y \in Objects, NEW n, NEW how
  PROVE  /\ CellsOf(TakenFrom(d, y, n, how), cap)
         /\ \A z \in Objects : \A i \in 1 .. cap[z] :
              IsElement(d[z][i]) => IsElement(TakenFrom(d, y, n, how)[z][i])
         /\ \A z \in Objects :
              z # pair[y] => TakenFrom(d, y, n, how)[z] = d[z]
<1> DEFINE t == [i \in 1 .. cap[pair[y]] |->
                   IF i <= n THEN Moved ELSE d[pair[y]][i]]
<1>1. DOMAIN d = Objects /\ pair[y] \in Objects BY DEF CellsOf
<1>2. DOMAIN d[pair[y]] = 1 .. cap[pair[y]] BY <1>1 DEF CellsOf
<1>3. t \in [1 .. cap[pair[y]] -> Cell]
  BY <1>1, ElementsAreCells DEF CellsOf
<1>4. TakenFrom(d, y, n, how) \in {d, [d EXCEPT ![pair[y]] = t]}
  BY <1>1, <1>2 DEF TakenFrom
<1>5. CASE TakenFrom(d, y, n, how) = d BY <1>5
<1>6. CASE TakenFrom(d, y, n, how) = [d EXCEPT ![pair[y]] = t]
  <2> DEFINE e == [d EXCEPT ![pair[y]] = t]
  <2>1. \A z \in Objects : e[z] = IF z = pair[y] THEN t ELSE d[z]
    BY <1>1
  <2>2. CellsOf(e, cap)
    <3>1. e = [z \in Objects |-> e[z]] BY <1>1
    <3>2. \A z \in Objects : e[z] \in [1 .. cap[z] -> Cell]
      BY <1>3, <2>1 DEF CellsOf
    <3> HIDE DEF e
    <3> QED BY <3>1, <3>2 DEF CellsOf
  <2>3. \A z \in Objects : \A i \in 1 .. cap[z] :
          IsElement(d[z][i]) => IsElement(e[z][i])
    BY <2>1, ElementsAreCells
  <2> HIDE DEF e
  <2>4. TakenFrom(d, y, n, how) = e BY <1>6 DEF e
  <2> QED BY <2>1, <2>2, <2>3, <2>4
<1> QED BY <1>4, <1>5, <1>6

-----------------------------------------------------------------------------
(* The steps.                                                               *)

\* A call that goes wild went wild on an array that was shared, or read too far.
LEMMA WildStep ==
  ASSUME IInv, NEW objects \in SUBSET Objects, wild = {}, GoesWild(objects),
         lost' = {}, trivial' = trivial,
         \/ objects \cap shared # {}
         \/ \E x, y \in objects \cap alive : capacity[y] < capacity[x]
  PROVE  IInv'
<1>1. /\ UNCHANGED <<trivial, alive, capacity, data, pair, shared>>
      /\ wild' = objects
  BY DEF GoesWild
<1> QED BY <1>1 DEF IInv, KindInv, CellInv, AliasInv, WildInv

\* An array that nobody shares shows its own cells, and they are elements.
LEMMA OwnedIsWhole ==
  ASSUME IInv, NEW x \in alive, x \notin shared
  PROVE  pair[x] = x /\ HoldsAll(x)
<1>1. pair[x] = x BY DEF IInv, AliasInv
<1>2. /\ Whole(data, capacity, x) /\ data[x] \in [1 .. capacity[x] -> Cell]
  BY DEF IInv, CellInv, CellsOf, KindInv
<1> QED BY <1>1, <1>2 DEF HoldsAll, HoldsFirst, Whole

\* A call that changes cells only.
LEMMA DataStep ==
  ASSUME IInv, UNCHANGED <<trivial, alive, capacity, pair, wild, shared>>,
         wild = {}, lost' \subseteq Objects, CellsOf(data', capacity),
         \A z \in alive : (trivial \/ z \notin shared) /\ Whole(data, capacity, z)
                          => Whole(data', capacity, z)
  PROVE  IInv'
<1>1. KindInv' BY DEF IInv, KindInv
<1>2. CellInv' BY DEF IInv, CellInv
<1>3. AliasInv' /\ WildInv' BY DEF IInv, AliasInv, WildInv
<1> QED BY <1>1, <1>2, <1>3 DEF IInv

\* A call that constructs x with the cells c and may change others before.
LEMMA NewStep ==
  ASSUME IInv, NEW x \in Objects, x \notin alive, NEW n \in Capacities,
         NEW d, CellsOf(d, capacity),
         \A z \in alive : Whole(data, capacity, z) => Whole(d, capacity, z),
         NEW c \in [1 .. n -> Cell], \A i \in 1 .. n : IsElement(c[i]),
         data' = [d EXCEPT ![x] = c], capacity' = [capacity EXCEPT ![x] = n],
         pair' = [pair EXCEPT ![x] = x], alive' = alive \union {x},
         UNCHANGED <<trivial, wild, shared>>, wild = {}, lost' \subseteq Objects
  PROVE  IInv'
<1>1. KindInv' BY DEF IInv, KindInv
<1>2. CellInv'
  <2>1. CellsOf(data', capacity')
    BY DEF IInv, CellsOf, KindInv
  <2>2. ASSUME NEW z \in alive', trivial' \/ z \notin shared'
        PROVE  Whole(data', capacity', z)
    <3>1. CASE z = x BY <3>1 DEF IInv, KindInv, CellsOf, Whole
    <3>2. CASE z # x
      <4>1. z \in alive /\ Whole(data, capacity, z)
        BY <2>2, <3>2 DEF IInv, CellInv
      <4>2. Whole(d, capacity, z) BY <4>1
      <4> QED BY <3>2, <4>1, <4>2 DEF IInv, KindInv, CellsOf, Whole
    <3> QED BY <3>1, <3>2
  <2> QED BY <2>1, <2>2 DEF CellInv
<1>3. AliasInv' BY DEF IInv, AliasInv, KindInv
<1> QED BY <1>1, <1>2, <1>3 DEF IInv, WildInv

\* A new array is whole, and touches no other.
LEMMA ConstructStep ==
  ASSUME IInv, NEW x \in Objects, Construct(x) PROVE IInv'
<1>1. PICK n \in Capacities :
        /\ capacity' = [capacity EXCEPT ![x] = n]
        /\ data' = [data EXCEPT ![x] = AllDefault(n)]
  BY DEF Construct
<1>2. /\ pair' = [pair EXCEPT ![x] = x] /\ alive' = alive \union {x}
      /\ lost' = {} /\ UNCHANGED <<trivial, wild, shared>> /\ wild = {}
      /\ x \notin alive
  BY DEF Construct
<1>3. /\ AllDefault(n) \in [1 .. n -> Cell]
      /\ \A i \in 1 .. n : IsElement(AllDefault(n)[i])
  BY ElementsAreCells DEF AllDefault
<1>4. CellsOf(data, capacity) BY DEF IInv, CellInv
<1>5. lost' \subseteq Objects BY <1>2
<1> HIDE DEF AllDefault
<1> QED BY <1>1, <1>2, <1>3, <1>4, <1>5, NewStep

\* Writing puts an element over an element.
LEMMA WriteStep ==
  ASSUME IInv, NEW x \in Objects, Write(x) PROVE IInv'
<1>1. /\ wild = {} /\ x \in alive /\ lost' = {} /\ trivial' = trivial
  BY DEF Write
<1>2. PICK i \in 1 .. capacity[x], v \in Values :
        IF i \in DOMAIN data[pair[x]] /\ IsElement(data[pair[x]][i])
        THEN /\ data' = [data EXCEPT ![pair[x]][i] = v]
             /\ UNCHANGED <<alive, capacity, pair, wild, shared>>
        ELSE GoesWild({x})
  BY DEF Write
<1>3. CASE i \in DOMAIN data[pair[x]] /\ IsElement(data[pair[x]][i])
  <2>1. /\ data' = [data EXCEPT ![pair[x]][i] = v]
        /\ UNCHANGED <<trivial, alive, capacity, pair, wild, shared>>
    BY <1>1, <1>2, <1>3
  <2>2. pair[x] \in Objects BY DEF IInv, KindInv
  <2>3. CellsOf(data', capacity)
    BY <1>3, <2>1, <2>2, ElementsAreCells DEF IInv, CellInv, CellsOf
  <2>4. \A z \in Objects : Whole(data, capacity, z) => Whole(data', capacity, z)
    BY <1>3, <2>1, <2>2, ElementsAreCells DEF IInv, CellInv, CellsOf, Whole
  <2>5. lost' \subseteq Objects BY <1>1
  <2>6. alive \subseteq Objects BY DEF IInv, KindInv
  <2> QED BY <1>1, <2>1, <2>3, <2>4, <2>5, <2>6, DataStep
<1>4. CASE ~(i \in DOMAIN data[pair[x]] /\ IsElement(data[pair[x]][i]))
  <2>1. x \in shared
    BY <1>1, <1>4, OwnedIsWhole DEF HoldsAll, HoldsFirst
  <2>2. GoesWild({x}) BY <1>2, <1>4
  <2> QED BY <1>1, <2>1, <2>2, WildStep
<1> QED BY <1>3, <1>4

\* What may come from another array, and how much of it.
LEMMA SourceFits ==
  ASSUME KindInv, NEW n \in Capacities, NEW y \in Objects
  PROVE  /\ n \in Nat /\ FromSource(n, y) \in Nat
         /\ FromSource(n, y) <= n /\ FromSource(n, y) <= capacity[y]
<1>1. n \in Nat BY StaticArrayAssumption
<1>2. capacity[y] \in Nat BY CapacitiesAreNaturals
<1> QED BY <1>1, <1>2 DEF FromSource

\* A new array filled from another one is whole.
LEMMA FilledIsWhole ==
  ASSUME IInv, NEW n \in Nat, NEW m \in Nat, NEW y \in Objects, HoldsFirst(y, m)
  PROVE  /\ Filled(n, m, data[pair[y]]) \in [1 .. n -> Cell]
         /\ \A i \in 1 .. n : IsElement(Filled(n, m, data[pair[y]])[i])
<1>1. pair[y] \in Objects /\ data[pair[y]] \in [1 .. capacity[pair[y]] -> Cell]
  BY DEF IInv, KindInv, CellInv, CellsOf
<1>2. \A i \in 1 .. n : i <= m => i \in 1 .. m OBVIOUS
<1>3. \A i \in 1 .. m : data[pair[y]][i] \in Cell /\ IsElement(data[pair[y]][i])
  BY <1>1 DEF HoldsFirst
<1> QED BY <1>2, <1>3, ElementsAreCells DEF Filled

\* A construction from another array reads what that one shows.
LEMMA ConstructFromStep ==
  ASSUME IInv, NEW x \in Objects, NEW y \in Objects, NEW how,
         ConstructFrom(x, y, how)
  PROVE  IInv'
<1>1. /\ wild = {} /\ x \notin alive /\ y \in alive /\ lost' = {}
      /\ trivial' = trivial
  BY DEF ConstructFrom
<1>2. PICK n \in Capacities :
        IF ~HoldsFirst(y, FromSource(n, y)) THEN GoesWild({x, y})
        ELSE /\ data' = [TakenFrom(data, y, FromSource(n, y), how) EXCEPT
                           ![x] = Filled(n, FromSource(n, y), data[pair[y]])]
             /\ capacity' = [capacity EXCEPT ![x] = n]
             /\ pair' = [pair EXCEPT ![x] = x]
             /\ alive' = alive \union {x}
             /\ UNCHANGED <<wild, shared>>
  BY DEF ConstructFrom
<1> DEFINE m == FromSource(n, y)
<1>3. n \in Nat /\ m \in Nat /\ m <= n /\ m <= capacity[y] /\ capacity[y] \in Nat
  BY SourceFits, CapacitiesAreNaturals DEF IInv
<1>4. CASE ~HoldsFirst(y, m)
  <2>1. y \in shared
    BY <1>1, <1>3, <1>4, OwnedIsWhole DEF HoldsAll, HoldsFirst
  <2>2. GoesWild({x, y}) BY <1>2, <1>4
  <2> QED BY <1>1, <2>1, <2>2, WildStep
<1>5. CASE HoldsFirst(y, m)
  <2> DEFINE d == TakenFrom(data, y, m, how)
             c == Filled(n, m, data[pair[y]])
  <2>1. /\ data' = [d EXCEPT ![x] = c] /\ capacity' = [capacity EXCEPT ![x] = n]
        /\ pair' = [pair EXCEPT ![x] = x] /\ alive' = alive \union {x}
        /\ UNCHANGED <<trivial, wild, shared>>
    BY <1>1, <1>2, <1>5
  <2>2. c \in [1 .. n -> Cell] /\ \A i \in 1 .. n : IsElement(c[i])
    BY <1>3, <1>5, FilledIsWhole
  <2>3. CellsOf(data, capacity) /\ pair \in [Objects -> Objects]
        /\ alive \subseteq Objects
    BY DEF IInv, CellInv, KindInv
  <2>4. /\ CellsOf(d, capacity)
        /\ \A z \in Objects : \A i \in 1 .. capacity[z] :
             IsElement(data[z][i]) => IsElement(d[z][i])
    BY <2>3, TakenIsWhole
  <2>5. \A z \in alive : Whole(data, capacity, z) => Whole(d, capacity, z)
    BY <2>3, <2>4 DEF Whole
  <2>6. lost' \subseteq Objects BY <1>1
  <2> HIDE DEF c, d
  <2> QED BY <1>1, <2>1, <2>2, <2>4, <2>5, <2>6, NewStep
<1> QED BY <1>4, <1>5

\* A construction that throws leaves moved-from elements, not holes.
LEMMA ConstructFromThrowsStep ==
  ASSUME IInv, NEW x \in Objects, NEW y \in Objects, NEW how,
         ConstructFromThrows(x, y, how)
  PROVE  IInv'
<1>1. /\ wild = {} /\ UNCHANGED <<trivial, alive, capacity, pair, wild, shared>>
  BY DEF ConstructFromThrows
<1>2. PICK k \in Int : data' = TakenFrom(data, y, k, how) /\ lost' \in {{x}, {}}
  BY DEF ConstructFromThrows
<1>3. CellsOf(data, capacity) /\ pair \in [Objects -> Objects]
      /\ alive \subseteq Objects
  BY DEF IInv, CellInv, KindInv
<1>4. /\ CellsOf(data', capacity)
      /\ \A z \in Objects : \A i \in 1 .. capacity[z] :
           IsElement(data[z][i]) => IsElement(data'[z][i])
  BY <1>2, <1>3, TakenIsWhole
<1>5. \A z \in alive : Whole(data, capacity, z) => Whole(data', capacity, z)
  BY <1>3, <1>4 DEF Whole
<1>6. lost' \subseteq Objects BY <1>2
<1> QED BY <1>1, <1>4, <1>5, <1>6, DataStep

\* An assignment either reads too far, or puts elements over elements.
LEMMA AssignStep ==
  ASSUME IInv, NEW x \in Objects, NEW y \in Objects, NEW how, Assign(x, y, how)
  PROVE  IInv'
<1>1. /\ wild = {} /\ x \in alive /\ y \in alive /\ lost' = {}
      /\ trivial' = trivial
  BY DEF Assign
<1>2. capacity[x] \in Nat /\ capacity[y] \in Nat
  BY CapacitiesAreNaturals DEF IInv
<1>3. CASE ~(HoldsAll(x) /\ HoldsFirst(y, capacity[x]))
  <2>1. GoesWild({x, y}) BY <1>3 DEF Assign
  <2>2. CASE x \in shared \/ y \in shared BY <1>1, <2>1, <2>2, WildStep
  <2>3. CASE x \notin shared /\ y \notin shared
    <3>1. HoldsAll(x) /\ HoldsAll(y) BY <1>1, <2>3, OwnedIsWhole
    <3>2. ~HoldsFirst(y, capacity[x]) BY <1>3, <3>1
    <3>3. capacity[y] < capacity[x]
      <4>1. CASE capacity[x] <= capacity[y]
        BY <1>2, <3>1, <3>2, <4>1 DEF HoldsAll, HoldsFirst
      <4> QED BY <1>2, <4>1
    <3> QED BY <1>1, <2>1, <3>3, WildStep
  <2> QED BY <2>2, <2>3
<1>4. CASE HoldsAll(x) /\ HoldsFirst(y, capacity[x])
  <2>1. UNCHANGED <<trivial, alive, capacity, pair, wild, shared>>
    BY <1>1, <1>4 DEF Assign
  <2>2. PICK k \in 0 .. capacity[x] :
          data' = TakenFrom(
            [data EXCEPT ![pair[x]] =
               [i \in DOMAIN @ |-> IF i <= k THEN data[pair[y]][i] ELSE @[i]]],
            y, k, how)
    BY <1>4 DEF Assign
  <2> DEFINE c == [i \in 1 .. capacity[pair[x]] |->
                     IF i <= k THEN data[pair[y]][i] ELSE data[pair[x]][i]]
             d == [data EXCEPT ![pair[x]] = c]
  <2>3. /\ CellsOf(data, capacity) /\ pair \in [Objects -> Objects]
        /\ alive \subseteq Objects /\ pair[x] \in Objects /\ pair[y] \in Objects
    BY DEF IInv, CellInv, KindInv
  <2>4. data' = TakenFrom(d, y, k, how)
    <3>1. DOMAIN data[pair[x]] = 1 .. capacity[pair[x]] /\ DOMAIN data = Objects
      BY <2>3 DEF CellsOf
    <3>2. d = [data EXCEPT ![pair[x]] =
                 [i \in DOMAIN @ |-> IF i <= k THEN data[pair[y]][i] ELSE @[i]]]
      BY <2>3, <3>1
    <3> HIDE DEF d
    <3> QED BY <2>2, <3>2
  <2>5. \A i \in 1 .. capacity[pair[x]] : i <= k =>
          data[pair[y]][i] \in Cell /\ IsElement(data[pair[y]][i])
    <3>1. \A i \in 1 .. capacity[x] :
            data[pair[y]][i] \in Cell /\ IsElement(data[pair[y]][i])
      BY <1>4, <2>3 DEF HoldsFirst, CellsOf
    <3> QED BY <1>2, <3>1
  <2>6. c \in [1 .. capacity[pair[x]] -> Cell] BY <2>3, <2>5 DEF CellsOf
  <2>7. \A z \in Objects : d[z] = IF z = pair[x] THEN c ELSE data[z]
    BY <2>3 DEF CellsOf
  <2>8. CellsOf(d, capacity)
    <3>1. d = [z \in Objects |-> d[z]] BY <2>3 DEF CellsOf
    <3>2. \A z \in Objects : d[z] \in [1 .. capacity[z] -> Cell]
      BY <2>3, <2>6, <2>7 DEF CellsOf
    <3> HIDE DEF d
    <3> QED BY <3>1, <3>2 DEF CellsOf
  <2>9. \A z \in Objects : \A i \in 1 .. capacity[z] :
          IsElement(data[z][i]) => IsElement(d[z][i])
    BY <2>5, <2>7
  <2> HIDE DEF d
  <2>10. /\ CellsOf(data', capacity)
         /\ \A z \in Objects : \A i \in 1 .. capacity[z] :
              IsElement(d[z][i]) => IsElement(data'[z][i])
    BY <2>3, <2>4, <2>8, TakenIsWhole
  <2>11. \A z \in alive : Whole(data, capacity, z) => Whole(data', capacity, z)
    BY <2>3, <2>9, <2>10 DEF Whole
  <2>12. lost' \subseteq Objects BY <1>1
  <2> QED BY <1>1, <2>1, <2>10, <2>11, <2>12, DataStep
<1> QED BY <1>3, <1>4

\* The bytes of trivial elements are elements.
LEMMA BytesAreCells ==
  ASSUME IInv, NEW y \in alive
  PROVE  /\ Bytes(y) \in [1 .. capacity[y] -> Cell]
         /\ trivial => \A i \in 1 .. capacity[y] : IsElement(Bytes(y)[i])
BY ElementsAreCells DEF IInv, KindInv, CellInv, CellsOf, Whole, Bytes

\* A copy by the compiler shares its source's pointers, and both say so.
LEMMA CompilerCopyStep ==
  ASSUME IInv, NEW x \in Objects, NEW y \in Objects, CompilerCopy(x, y)
  PROVE  IInv'
<1>1. /\ wild = {} /\ x \notin alive /\ y \in alive
      /\ data' = [data EXCEPT ![x] = Bytes(y)]
      /\ capacity' = [capacity EXCEPT ![x] = capacity[y]]
      /\ pair' = [pair EXCEPT ![x] = pair[y]]
      /\ alive' = alive \union {x} /\ shared' = shared \union {x, y}
      /\ lost' = {} /\ UNCHANGED <<trivial, wild>>
  BY DEF CompilerCopy
<1>2. KindInv' BY <1>1 DEF IInv, KindInv
<1>3. CellInv'
  <2> DEFINE c == Bytes(y)
  <2>1. /\ c \in [1 .. capacity[y] -> Cell]
        /\ trivial => \A i \in 1 .. capacity[y] : IsElement(c[i])
    BY <1>1, BytesAreCells
  <2>2. data' = [data EXCEPT ![x] = c] BY <1>1
  <2> HIDE DEF c
  <2>3. CellsOf(data', capacity')
    BY <1>1, <2>1, <2>2 DEF IInv, CellInv, CellsOf, KindInv
  <2>4. ASSUME NEW z \in alive', trivial' \/ z \notin shared'
        PROVE  Whole(data', capacity', z)
    <3>1. CASE z = x
      BY <1>1, <2>1, <2>2, <2>4, <3>1
         DEF IInv, CellInv, CellsOf, KindInv, Whole
    <3>2. CASE z # x
      <4>1. z \in alive /\ z \in Objects /\ Whole(data, capacity, z)
        BY <1>1, <2>4, <3>2 DEF IInv, CellInv, KindInv
      <4>2. data'[z] = data[z] /\ capacity'[z] = capacity[z]
        BY <1>1, <2>2, <3>2, <4>1 DEF IInv, CellInv, CellsOf, KindInv
      <4> QED BY <4>1, <4>2 DEF Whole
    <3> QED BY <3>1, <3>2
  <2> QED BY <2>3, <2>4 DEF CellInv
<1>4. AliasInv' BY <1>1 DEF IInv, AliasInv, KindInv
<1> QED BY <1>1, <1>2, <1>3, <1>4 DEF IInv, WildInv

\* So does an assignment by the compiler.
LEMMA CompilerAssignStep ==
  ASSUME IInv, NEW x \in Objects, NEW y \in Objects, CompilerAssign(x, y)
  PROVE  IInv'
<1>1. /\ wild = {} /\ x \in alive /\ y \in alive /\ x # y
      /\ capacity[x] = capacity[y]
      /\ data' = [data EXCEPT ![x] = Bytes(y)]
      /\ pair' = [pair EXCEPT ![x] = pair[y]]
      /\ shared' = shared \union {x, y} /\ lost' \in {{x}, {}}
      /\ UNCHANGED <<trivial, alive, capacity, wild>>
  BY DEF CompilerAssign
<1>2. KindInv' BY <1>1 DEF IInv, KindInv
<1>3. CellInv'
  <2> DEFINE c == Bytes(y)
  <2>1. /\ c \in [1 .. capacity[x] -> Cell]
        /\ trivial => \A i \in 1 .. capacity[x] : IsElement(c[i])
    BY <1>1, BytesAreCells
  <2>2. data' = [data EXCEPT ![x] = c] BY <1>1
  <2> HIDE DEF c
  <2>3. CellsOf(data', capacity')
    BY <1>1, <2>1, <2>2 DEF IInv, CellInv, CellsOf, KindInv
  <2>4. ASSUME NEW z \in alive', trivial' \/ z \notin shared'
        PROVE  Whole(data', capacity', z)
    BY <1>1, <2>1, <2>2, <2>4 DEF IInv, CellInv, CellsOf, KindInv, Whole
  <2> QED BY <2>3, <2>4 DEF CellInv
<1>4. AliasInv' BY <1>1 DEF IInv, AliasInv, KindInv
<1> QED BY <1>1, <1>2, <1>3, <1>4 DEF IInv, WildInv

\* std::swap exchanges bytes and pointers of two arrays that are shared from then on.
LEMMA SwapStep ==
  ASSUME IInv, NEW x \in Objects, NEW y \in Objects, Swap(x, y) PROVE IInv'
<1>1. /\ wild = {} /\ x \in alive /\ y \in alive /\ x # y
      /\ capacity[x] = capacity[y]
      /\ shared' = shared \union {x, y} /\ lost' = {}
      /\ UNCHANGED <<trivial, alive, capacity>>
  BY DEF Swap
<1>2. CASE trivial
  <2>1. /\ data' = [data EXCEPT ![x] = data[y], ![y] = data[x]]
        /\ pair' = [pair EXCEPT ![x] = pair[y], ![y] = pair[x]]
        /\ wild' = wild
    BY <1>2 DEF Swap
  <2>2. KindInv' BY <1>1, <2>1 DEF IInv, KindInv
  <2>3. CellInv'
    <3>1. CellsOf(data', capacity')
      BY <1>1, <2>1 DEF IInv, CellInv, CellsOf, KindInv
    <3>2. \A z \in alive : Whole(data, capacity, z)
      BY <1>2 DEF IInv, CellInv
    <3>3. \A z \in alive : Whole(data', capacity, z)
      BY <1>1, <2>1, <3>2 DEF IInv, CellInv, CellsOf, KindInv, Whole
    <3> QED BY <1>1, <3>1, <3>3 DEF CellInv
  <2>4. AliasInv' BY <1>1, <2>1 DEF IInv, AliasInv, KindInv
  <2> QED BY <1>1, <2>1, <2>2, <2>3, <2>4 DEF IInv, WildInv
<1>3. CASE ~trivial
  <2>1. wild' = {x, y} /\ UNCHANGED <<data, pair>> BY <1>3 DEF Swap
  <2>2. KindInv' BY <1>1, <2>1 DEF IInv, KindInv
  <2>3. CellInv' BY <1>1, <1>3, <2>1 DEF IInv, CellInv
  <2>4. AliasInv' BY <1>1, <2>1 DEF IInv, AliasInv
  <2>5. WildInv' BY <1>1, <2>1 DEF WildInv
  <2> QED BY <2>2, <2>3, <2>4, <2>5 DEF IInv
<1> QED BY <1>2, <1>3

\* A destructor leaves no cell of an array nobody shares without its element.
LEMMA DestructStep ==
  ASSUME IInv, NEW x \in Objects, Destruct(x) PROVE IInv'
<1>1. wild = {} /\ x \in alive /\ trivial' = trivial BY DEF Destruct
<1>2. CASE ~trivial /\ ~HoldsAll(x)
  <2>1. GoesWild({x}) /\ lost' = {} BY <1>2 DEF Destruct
  <2>2. x \in shared BY <1>1, <1>2, OwnedIsWhole
  <2> QED BY <1>1, <2>1, <2>2, WildStep
<1>3. CASE trivial \/ HoldsAll(x)
  <2>1. /\ alive' = alive \ {x} /\ capacity' = [capacity EXCEPT ![x] = 0]
        /\ data' = [data EXCEPT
             ![pair[x]] = IF trivial THEN @ ELSE [i \in DOMAIN @ |-> Raw],
             ![x] = Gone]
        /\ lost' \in {{x}, {}} /\ UNCHANGED <<pair, wild, shared>>
    BY <1>3 DEF Destruct
  <2>2. /\ pair[x] \in Objects
        /\ pair[x] # x => pair[x] \in shared
    BY <1>1 DEF IInv, KindInv, AliasInv
  <2>3. KindInv' BY <1>1, <2>1 DEF IInv, KindInv
  <2>4. CellInv'
    <3> DEFINE c == IF trivial THEN data[pair[x]]
                    ELSE [i \in 1 .. capacity[pair[x]] |-> Raw]
               g == Gone
    <3>1. c \in [1 .. capacity[pair[x]] -> Cell]
      <4>1. data[pair[x]] \in [1 .. capacity[pair[x]] -> Cell]
        BY <2>2 DEF IInv, CellInv, CellsOf
      <4>2. [i \in 1 .. capacity[pair[x]] |-> Raw]
              \in [1 .. capacity[pair[x]] -> Cell]
        BY ElementsAreCells
      <4> QED BY <4>1, <4>2
    <3>2. g \in [1 .. 0 -> Cell] BY DEF Gone, AllDefault
    <3>3. /\ data' = [z \in Objects |-> data'[z]]
          /\ \A z \in Objects : data'[z] = IF z = x THEN g
                                          ELSE IF z = pair[x] THEN c ELSE data[z]
      BY <2>1, <2>2 DEF IInv, CellInv, CellsOf
    <3> HIDE DEF c, g
    <3>4. \A z \in Objects : capacity'[z] = IF z = x THEN 0 ELSE capacity[z]
      BY <2>1 DEF IInv, KindInv
    <3>5. CellsOf(data', capacity')
      BY <3>1, <3>2, <3>3, <3>4 DEF IInv, CellInv, CellsOf
    <3>6. ASSUME NEW z \in alive', trivial' \/ z \notin shared'
          PROVE  Whole(data', capacity', z)
      <4>1. z \in Objects /\ z \in alive /\ z # x /\ Whole(data, capacity, z)
        BY <1>1, <2>1, <3>6 DEF IInv, KindInv, CellInv
      <4>2. data'[z] = data[z] /\ capacity'[z] = capacity[z]
        <5>1. CASE trivial
          <6>1. c = data[pair[x]] BY <5>1 DEF c
          <6> QED BY <3>3, <3>4, <4>1, <6>1
        <5>2. CASE ~trivial
          <6>1. z # pair[x] BY <1>1, <2>1, <2>2, <3>6, <4>1, <5>2
          <6> QED BY <3>3, <3>4, <4>1, <6>1
        <5> QED BY <5>1, <5>2
      <4> QED BY <4>1, <4>2 DEF Whole
    <3> QED BY <3>5, <3>6 DEF CellInv
  <2>5. AliasInv' BY <2>1 DEF IInv, AliasInv
  <2> QED BY <1>1, <2>1, <2>3, <2>4, <2>5 DEF IInv, WildInv
<1> QED BY <1>2, <1>3

-----------------------------------------------------------------------------
(* Theorems of the specification.                                           *)

\* The invariant holds in every state.
THEOREM ArraysInductive == Spec => []IInv
<1>1. Init => IInv
  <2> SUFFICES ASSUME Init PROVE IInv
    OBVIOUS
  <2>1. KindInv BY DEF Init, KindInv
  <2>2. Gone \in [1 .. 0 -> Cell] BY DEF Gone, AllDefault
  <2>3. CellInv BY <2>2 DEF Init, CellInv, CellsOf
  <2> QED BY <2>1, <2>3 DEF Init, IInv, AliasInv, WildInv
<1>2. IInv /\ [Next]_vars => IInv'
  <2> SUFFICES ASSUME IInv, [Next]_vars PROVE IInv'
    OBVIOUS
  <2>1. CASE UNCHANGED vars
    BY <2>1 DEF vars, IInv, KindInv, CellInv, AliasInv, WildInv
  <2>2. ASSUME NEW x \in Objects, Construct(x) \/ Write(x) \/ Destruct(x)
        PROVE  IInv'
    BY <2>2, ConstructStep, WriteStep, DestructStep
  <2>3. ASSUME NEW x \in Objects, NEW y \in Objects,
               CompilerCopy(x, y) \/ CompilerAssign(x, y) \/ Swap(x, y)
        PROVE  IInv'
    BY <2>3, CompilerCopyStep, CompilerAssignStep, SwapStep
  <2>4. ASSUME NEW x \in Objects, NEW y \in Objects, NEW how \in {"copy", "move"},
               \/ ConstructFrom(x, y, how) \/ ConstructFromThrows(x, y, how)
               \/ Assign(x, y, how)
        PROVE  IInv'
    BY <2>4, ConstructFromStep, ConstructFromThrowsStep, AssignStep
  <2> QED BY <2>1, <2>2, <2>3, <2>4 DEF Next
<1> QED BY <1>1, <1>2, PTL DEF Spec

\* The type invariant: each array that lives has its N cells, and with trivial
\* elements all of them hold one (static_array.h:215-236, 411-413).
THEOREM ArraysTypeCorrect == Spec => []TypeOK
<1>1. IInv => TypeOK
  <2> SUFFICES ASSUME IInv PROVE TypeOK
    OBVIOUS
  <2>1. ASSUME NEW x \in Objects
        PROVE  /\ DOMAIN data[x] = 1 .. capacity[x]
               /\ \A i \in 1 .. capacity[x] : data[x][i] \in Cell
    BY DEF IInv, CellInv, CellsOf
  <2>2. ASSUME NEW x \in Objects, x \notin alive PROVE data[x] = Gone
    <3>1. capacity[x] = 0 BY <2>2 DEF IInv, KindInv
    <3>2. data[x] \in [1 .. 0 -> Cell] BY <3>1 DEF IInv, CellInv, CellsOf
    <3>3. Gone = [i \in 1 .. 0 |-> Default] BY DEF Gone, AllDefault
    <3>4. 1 .. 0 = {} OBVIOUS
    <3>5. data[x] = [i \in 1 .. 0 |-> data[x][i]] BY <3>2
    <3> QED BY <3>3, <3>4, <3>5
  <2>3. trivial => \A x \in alive : \A i \in 1 .. capacity[x] : IsElement(data[x][i])
    BY DEF IInv, CellInv, Whole
  <2> QED BY <2>1, <2>2, <2>3 DEF IInv, KindInv, TypeOK
<1> QED BY ArraysInductive, <1>1, PTL

\* An array the compiler never copied owns its N elements, after any calls on any
\* arrays of any sizes; what a call may touch is left only for one of the two
\* reasons named (static_array.h:230-302, 327-410).
THEOREM ArraysOwnTheirElements == Spec => []OwnsItsElements
<1>1. IInv => OwnsItsElements
  <2> SUFFICES ASSUME IInv PROVE OwnsItsElements
    OBVIOUS
  <2>1. \A x \in alive \ shared : pair[x] = x /\ HoldsAll(x)
    BY OwnedIsWhole
  <2> QED BY <2>1 DEF OwnsItsElements, IInv, WildInv
<1> QED BY ArraysInductive, <1>1, PTL

-----------------------------------------------------------------------------
(* Arrays are apart.                                                        *)

\* An array whose cells, pointers and size stay shows what it showed.
LEMMA SameShown ==
  ASSUME NEW x, pair[x] = x, pair'[x] = x, capacity'[x] = capacity[x],
         data'[x] = data[x]
  PROVE  Shown(x)' = Shown(x)
BY DEF Shown

\* No other array's pointers lead to an array nobody shares.
LEMMA OthersPointElsewhere ==
  ASSUME IInv, NEW x \in alive \ shared, NEW z \in alive, z # x
  PROVE  pair[z] # x
BY DEF IInv, AliasInv

\* Only a move out of x takes elements from it.
LEMMA TakenElsewhere ==
  ASSUME IInv, NEW x \in alive \ shared, NEW y \in alive,
         NEW how \in {"copy", "move"}, how = "copy" \/ y # x,
         NEW d, CellsOf(d, capacity), NEW n
  PROVE  TakenFrom(d, y, n, how)[x] = d[x]
<1>1. CASE how = "copy"
  BY <1>1 DEF TakenFrom
<1>2. CASE y # x
  <2>1. pair[y] # x /\ x \in Objects /\ y \in Objects /\ pair \in [Objects -> Objects]
    BY <1>2, OthersPointElsewhere DEF IInv, KindInv
  <2> QED BY <2>1, TakenIsWhole
<1> QED BY <1>1, <1>2

\* Calls on one other object.
LEMMA OneObjectShown ==
  ASSUME IInv, NEW x \in (alive \intersect alive') \ shared, NEW z \in Objects,
         Construct(z) \/ Destruct(z) \/ Write(z), ~Write(x)
  PROVE  Shown(x)' = Shown(x)
<1>1. /\ x \in Objects /\ pair[x] = x /\ data = [o \in Objects |-> data[o]]
      /\ pair \in [Objects -> Objects] /\ capacity = [o \in Objects |-> capacity[o]]
  BY OwnedIsWhole DEF IInv, KindInv, CellInv, CellsOf
<1>2. CASE Construct(z)
  <2>1. z # x BY <1>2 DEF Construct
  <2> QED BY <1>1, <1>2, <2>1, SameShown DEF Construct
<1>3. CASE Write(z)
  <2>1. z # x /\ pair[z] # x /\ pair[z] \in Objects
    BY <1>1, <1>3, OthersPointElsewhere DEF Write
  <2>2. data'[x] = data[x] /\ UNCHANGED <<capacity, pair>>
    BY <1>1, <1>3, <2>1 DEF Write, GoesWild
  <2> QED BY <1>1, <2>2, SameShown
<1>4. CASE Destruct(z)
  <2>1. CASE ~trivial /\ ~HoldsAll(z)
    BY <1>1, <1>4, <2>1, SameShown DEF Destruct, GoesWild
  <2>2. CASE trivial \/ HoldsAll(z)
    <3>1. /\ z \in alive /\ alive' = alive \ {z} /\ pair' = pair
          /\ capacity' = [capacity EXCEPT ![z] = 0]
          /\ data' = [data EXCEPT
               ![pair[z]] = IF trivial THEN @ ELSE [i \in DOMAIN @ |-> Raw],
               ![z] = Gone]
      BY <1>4, <2>2 DEF Destruct
    <3>2. z # x /\ pair[z] # x
      BY <3>1, OthersPointElsewhere
    <3>3. data'[x] = data[x] /\ capacity'[x] = capacity[x]
      BY <1>1, <3>1, <3>2
    <3> QED BY <1>1, <3>1, <3>3, SameShown
  <2> QED BY <2>1, <2>2
<1> QED BY <1>2, <1>3, <1>4

\* The compiler's calls: std::swap of two arrays that own their cells exchanges
\* their cells and their pointers, and so nothing.
LEMMA CompilerShown ==
  ASSUME IInv, NEW x \in (alive \intersect alive') \ shared,
         NEW z \in Objects, NEW y \in Objects,
         CompilerCopy(z, y) \/ CompilerAssign(z, y) \/ Swap(z, y),
         ~CompilerAssign(x, y),
         ~ \E s \in shared : Swap(x, s) \/ Swap(s, x)
  PROVE  Shown(x)' = Shown(x)
<1>1. /\ x \in Objects /\ pair[x] = x /\ data = [o \in Objects |-> data[o]]
      /\ pair \in [Objects -> Objects] /\ capacity = [o \in Objects |-> capacity[o]]
  BY OwnedIsWhole DEF IInv, KindInv, CellInv, CellsOf
<1>2. CASE CompilerCopy(z, y)
  <2>1. z # x BY <1>2 DEF CompilerCopy
  <2> QED BY <1>1, <1>2, <2>1, SameShown DEF CompilerCopy
<1>3. CASE CompilerAssign(z, y)
  <2>1. z # x BY <1>3
  <2> QED BY <1>1, <1>3, <2>1, SameShown DEF CompilerAssign
<1>4. CASE Swap(z, y) /\ ~trivial
  BY <1>1, <1>4, SameShown DEF Swap
<1>5. CASE Swap(z, y) /\ trivial
  <2>1. /\ z \in alive /\ y \in alive /\ z # y /\ capacity[z] = capacity[y]
        /\ capacity' = capacity
        /\ data' = [data EXCEPT ![z] = data[y], ![y] = data[z]]
        /\ pair' = [pair EXCEPT ![z] = pair[y], ![y] = pair[z]]
    BY <1>5 DEF Swap
  <2>2. CASE x \notin {z, y}
    BY <1>1, <2>1, <2>2, SameShown
  <2>3. CASE x \in {z, y}
    <3>1. PICK o \in alive \ shared : o # x /\ {x, o} = {z, y}
      BY <1>5, <2>1, <2>3
    <3>2. pair[o] = o /\ o \in Objects
      BY <3>1, OwnedIsWhole DEF IInv, KindInv
    <3>3. data'[o] = data[x] /\ pair'[x] = o
      BY <1>1, <2>1, <3>1, <3>2
    <3> QED BY <1>1, <2>1, <3>3 DEF Shown
  <2> QED BY <2>2, <2>3
<1> QED BY <1>2, <1>3, <1>4, <1>5

\* The class's constructors and assignments, which read another array.
LEMMA FromAnotherShown ==
  ASSUME IInv, NEW x \in (alive \intersect alive') \ shared,
         NEW z \in Objects, NEW y \in Objects, NEW how \in {"copy", "move"},
         \/ ConstructFrom(z, y, how) \/ ConstructFromThrows(z, y, how)
         \/ Assign(z, y, how),
         ~Assign(x, y, how), ~MovesFrom(x)
  PROVE  Shown(x)' = Shown(x)
<1>1. /\ x \in Objects /\ pair[x] = x /\ data = [o \in Objects |-> data[o]]
      /\ pair \in [Objects -> Objects] /\ capacity = [o \in Objects |-> capacity[o]]
      /\ CellsOf(data, capacity)
  BY OwnedIsWhole DEF IInv, KindInv, CellInv, CellsOf
<1>2. how = "copy" \/ y # x
  BY DEF MovesFrom
<1>3. y \in alive
  BY DEF ConstructFrom, ConstructFromThrows, Assign
<1>4. ASSUME GoesWild({z, y}) PROVE Shown(x)' = Shown(x)
  BY <1>1, <1>4, SameShown DEF GoesWild
<1>5. CASE ConstructFrom(z, y, how)
  <2>1. z # x BY <1>5 DEF ConstructFrom
  <2>2. PICK n \in Capacities :
          \/ GoesWild({z, y})
          \/ /\ data' = [TakenFrom(data, y, FromSource(n, y), how) EXCEPT
                           ![z] = Filled(n, FromSource(n, y), data[pair[y]])]
             /\ capacity' = [capacity EXCEPT ![z] = n]
             /\ pair' = [pair EXCEPT ![z] = z]
    BY <1>5 DEF ConstructFrom
  <2>3. TakenFrom(data, y, FromSource(n, y), how)[x] = data[x]
    BY <1>1, <1>2, <1>3, TakenElsewhere
  <2>4. CASE ~GoesWild({z, y})
    <3> DEFINE d == TakenFrom(data, y, FromSource(n, y), how)
               c == Filled(n, FromSource(n, y), data[pair[y]])
    <3>1. /\ data' = [d EXCEPT ![z] = c] /\ capacity' = [capacity EXCEPT ![z] = n]
          /\ pair' = [pair EXCEPT ![z] = z]
      BY <2>2, <2>4
    <3>2. CellsOf(d, capacity)
      BY <1>1, TakenIsWhole
    <3> HIDE DEF d, c
    <3>3. data'[x] = d[x] /\ capacity'[x] = capacity[x] /\ pair'[x] = pair[x]
      BY <1>1, <2>1, <3>1, <3>2 DEF CellsOf
    <3> QED BY <1>1, <2>3, <3>3, SameShown DEF d
  <2> QED BY <1>4, <2>4
<1>6. CASE ConstructFromThrows(z, y, how)
  <2>1. PICK k : data' = TakenFrom(data, y, k, how)
    BY <1>6 DEF ConstructFromThrows
  <2>2. data'[x] = data[x]
    BY <1>1, <1>2, <1>3, <2>1, TakenElsewhere
  <2> QED BY <1>1, <1>6, <2>2, SameShown DEF ConstructFromThrows
<1>7. CASE Assign(z, y, how)
  <2>1. z # x /\ z \in alive /\ pair[z] # x
    <3>1. z # x BY <1>7
    <3>2. z \in alive BY <1>7 DEF Assign
    <3> QED BY <3>1, <3>2, OthersPointElsewhere
  <2>2. CASE GoesWild({z, y})
    BY <1>4, <2>2
  <2>3. CASE ~GoesWild({z, y})
    <3>1. /\ UNCHANGED <<capacity, pair>>
          /\ HoldsFirst(y, capacity[z])
          /\ \E k \in 0 .. capacity[z] :
               data' = TakenFrom(
                 [data EXCEPT ![pair[z]] =
                    [i \in DOMAIN @ |-> IF i <= k THEN data[pair[y]][i] ELSE @[i]]],
                 y, k, how)
      BY <1>7, <2>3 DEF Assign
    <3>2. PICK k \in 0 .. capacity[z] :
            data' = TakenFrom(
              [data EXCEPT ![pair[z]] =
                 [i \in DOMAIN @ |-> IF i <= k THEN data[pair[y]][i] ELSE @[i]]],
              y, k, how)
      BY <3>1
    <3> DEFINE c == [i \in DOMAIN data[pair[z]] |->
                       IF i <= k THEN data[pair[y]][i] ELSE data[pair[z]][i]]
               d == [data EXCEPT ![pair[z]] = c]
    <3>3. data' = TakenFrom(d, y, k, how)
      <4>1. d = [data EXCEPT ![pair[z]] =
                   [i \in DOMAIN @ |-> IF i <= k THEN data[pair[y]][i] ELSE @[i]]]
        BY <1>1
      <4> HIDE DEF d
      <4> QED BY <3>2, <4>1
    <3>4. d[x] = data[x]
      BY <1>1, <2>1
    <3>5. DOMAIN data[pair[z]] = 1 .. capacity[pair[z]] /\ pair[z] \in Objects
      BY <1>1, <2>1 DEF CellsOf
    <3>6. \A i \in 1 .. capacity[pair[z]] : i <= k => data[pair[y]][i] \in Cell
      <4>1. capacity[z] \in Nat
        BY CapacitiesAreNaturals DEF IInv
      <4>2. \A i \in 1 .. capacity[z] : data[pair[y]][i] \in Cell
        BY <1>1, <1>3, <3>1 DEF HoldsFirst, CellsOf
      <4> QED BY <4>1, <4>2
    <3>7. c \in [1 .. capacity[pair[z]] -> Cell]
      BY <1>1, <3>5, <3>6 DEF CellsOf
    <3>8. CellsOf(d, capacity)
      <4>1. d = [o \in Objects |-> d[o]]
        BY <1>1
      <4>2. \A o \in Objects : d[o] \in [1 .. capacity[o] -> Cell]
        BY <1>1, <3>7 DEF CellsOf
      <4> HIDE DEF d
      <4> QED BY <4>1, <4>2 DEF CellsOf
    <3> HIDE DEF d
    <3>9. data'[x] = data[x]
      BY <1>2, <1>3, <3>3, <3>4, <3>8, TakenElsewhere
    <3> QED BY <1>1, <3>1, <3>9, SameShown
  <2> QED BY <2>2, <2>3
<1> QED BY <1>5, <1>6, <1>7

\* Which calls leave elements that no destructor reaches.
LEMMA LostStep ==
  ASSUME IInv, Next, NEW x \in lost' \ shared'
  PROVE  \E y \in Objects, how \in {"copy", "move"} : ConstructFromThrows(x, y, how)
<1>1. ASSUME NEW z \in Objects, Construct(z) \/ Write(z) PROVE FALSE
  BY <1>1 DEF Construct, Write
<1>2. ASSUME NEW z \in Objects, Destruct(z) PROVE FALSE
  <2>1. z = x /\ pair[x] # x /\ x \in alive /\ shared' = shared
    BY <1>2 DEF Destruct
  <2> QED BY <2>1 DEF IInv, AliasInv
<1>3. ASSUME NEW z \in Objects, NEW y \in Objects,
             CompilerCopy(z, y) \/ CompilerAssign(z, y) \/ Swap(z, y)
      PROVE  FALSE
  BY <1>3 DEF CompilerCopy, CompilerAssign, Swap
<1>4. ASSUME NEW z \in Objects, NEW y \in Objects, NEW how \in {"copy", "move"},
             ConstructFrom(z, y, how) \/ Assign(z, y, how)
      PROVE  FALSE
  BY <1>4 DEF ConstructFrom, Assign
<1>5. ASSUME NEW z \in Objects, NEW y \in Objects, NEW how \in {"copy", "move"},
             ConstructFromThrows(z, y, how)
      PROVE  z = x
  BY <1>5 DEF ConstructFromThrows
<1> QED BY <1>1, <1>2, <1>3, <1>4, <1>5 DEF Next

\* A copy is deep: what an array shows changes only by a call on it or by a move out
\* of it, and elements are lost only where a constructor's rest throws, for arrays
\* the compiler never copied (static_array.h:238-302, 353-357, 412-413).
THEOREM ArraysAreApart == Spec => KeptApart
<1>1. IInv /\ [Next]_vars =>
        [/\ \A x \in (alive \intersect alive') \ shared :
              Shown(x)' # Shown(x) =>
                \/ CallsOn(x) \/ MovesFrom(x)
                \/ \E y \in shared : Swap(x, y) \/ Swap(y, x)
         /\ \A x \in lost' \ shared' :
              \E y \in Objects, how \in {"copy", "move"} :
                ConstructFromThrows(x, y, how)]_vars
  <2> SUFFICES ASSUME IInv, Next
               PROVE  /\ \A x \in (alive \intersect alive') \ shared :
                           Shown(x)' # Shown(x) =>
                             \/ CallsOn(x) \/ MovesFrom(x)
                             \/ \E y \in shared : Swap(x, y) \/ Swap(y, x)
                      /\ \A x \in lost' \ shared' :
                           \E y \in Objects, how \in {"copy", "move"} :
                             ConstructFromThrows(x, y, how)
    OBVIOUS
  <2>1. ASSUME NEW x \in (alive \intersect alive') \ shared, ~CallsOn(x), ~MovesFrom(x),
               ~ \E y \in shared : Swap(x, y) \/ Swap(y, x)
        PROVE  Shown(x)' = Shown(x)
    <3>1. ASSUME NEW z \in Objects, Construct(z) \/ Write(z) \/ Destruct(z)
          PROVE  Shown(x)' = Shown(x)
      BY <2>1, <3>1, OneObjectShown DEF CallsOn
    <3>2. ASSUME NEW z \in Objects, NEW y \in Objects,
                 CompilerCopy(z, y) \/ CompilerAssign(z, y) \/ Swap(z, y)
          PROVE  Shown(x)' = Shown(x)
      BY <2>1, <3>2, CompilerShown DEF CallsOn
    <3>3. ASSUME NEW z \in Objects, NEW y \in Objects, NEW how \in {"copy", "move"},
                 \/ ConstructFrom(z, y, how) \/ ConstructFromThrows(z, y, how)
                 \/ Assign(z, y, how)
          PROVE  Shown(x)' = Shown(x)
      BY <2>1, <3>3, FromAnotherShown DEF CallsOn
    <3> QED BY <3>1, <3>2, <3>3 DEF Next
  <2> QED BY <2>1, LostStep
<1> QED BY <1>1, ArraysInductive, PTL DEF Spec, KeptApart
=============================================================================
