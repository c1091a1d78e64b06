------------------------- MODULE TopologyOrderProofs -------------------------
(***************************************************************************)
(* Kahn's algorithm as the engine runs it is right over every topology:    *)
(* the walk visits each monitored device exactly once, and over an acyclic *)
(* topology it visits parents first.                                       *)
(***************************************************************************)
EXTENDS TopologyOrder, FiniteSetTheorems, SequenceTheorems, TLAPS

\* While the queue is worked off: indeg counts the edges from devices that are
\* still to be placed, and the queue holds exactly the unplaced ones without.
Counting ==
    ~done =>
        /\ \A d \in ids : indeg[d] = EdgesFrom(ids \ Placed, d)
        /\ ready = {d \in ids \ Placed : indeg[d] = 0}
        /\ \A d \in Placed : indeg[d] = 0

IInv ==
    /\ OrderTypeOK
    /\ Counting
    /\ ~done => ParentsFirst
    /\ WalkedOnce
    /\ AllWalked
    /\ AcyclicParentsFirst

-----------------------------------------------------------------------------
\* What the two parts of an edge count add up to.
LEMMA EdgesType ==
    ASSUME OrderTypeOK, NEW d \in ids, NEW S
    PROVE  /\ EdgesFrom(S, d) \in Nat
           /\ IsFiniteSet(backups[d] \cap S)
           /\ EdgesFrom(S, d) = 0 <=> (backups[d] \cup {primary[d]}) \cap S = {}
<1>1. IsFiniteSet(backups[d] \cap S)
  <2>1. IsFiniteSet(backups[d])
    BY DevicesAssumption, FS_Subset DEF OrderTypeOK
  <2> QED  BY <2>1, FS_Subset
<1>2. Cardinality(backups[d] \cap S) \in Nat
  BY <1>1, FS_CardinalityType
<1>3. Cardinality(backups[d] \cap S) = 0 <=> backups[d] \cap S = {}
  BY <1>1, FS_EmptySet
<1> QED  BY <1>1, <1>2, <1>3 DEF EdgesFrom

\* Placing n takes away exactly the edges that come from n.
LEMMA EdgesRemove ==
    ASSUME OrderTypeOK, NEW d \in ids, NEW S, NEW n \in S
    PROVE  EdgesFrom(S \ {n}, d) = EdgesFrom(S, d) - EdgesFrom({n}, d)
<1> DEFINE B == backups[d] \cap S
           b(T) == Cardinality(backups[d] \cap T)
           p(T) == IF primary[d] \in T THEN 1 ELSE 0
<1>1. IsFiniteSet(B) /\ b(S) \in Nat
  BY EdgesType, FS_CardinalityType
<1>2. b(S \ {n}) = b(S) - b({n})
  <2>1. CASE n \in backups[d]
    <3>1. backups[d] \cap (S \ {n}) = B \ {n} /\ n \in B
      BY <2>1
    <3>2. Cardinality(B \ {n}) = Cardinality(B) - 1
      BY <1>1, <3>1, FS_RemoveElement
    <3>3. backups[d] \cap {n} = {n} /\ Cardinality({n}) = 1
      BY <2>1, FS_Singleton
    <3> QED  BY <3>1, <3>2, <3>3
  <2>2. CASE n \notin backups[d]
    <3>1. backups[d] \cap (S \ {n}) = B /\ backups[d] \cap {n} = {}
      BY <2>2
    <3>2. b(S \ {n}) = b(S) /\ b({n}) = Cardinality({})
      BY <3>1
    <3>3. Cardinality({}) = 0
      BY FS_EmptySet
    <3> QED  BY <3>2, <3>3, <1>1
  <2> QED  BY <2>1, <2>2
<1>3. p(S \ {n}) = p(S) - p({n})
  OBVIOUS
<1>4. b({n}) \in Nat
  BY EdgesType, FS_CardinalityType
<1> QED  BY <1>1, <1>2, <1>3, <1>4 DEF EdgesFrom

LEMMA InitIInv == OrderInit => IInv
<1> SUFFICES ASSUME OrderInit PROVE IInv
  OBVIOUS
<1>1. Placed = {} /\ order = <<>> /\ ~done
  BY DEF OrderInit, Placed
<1>2. OrderTypeOK
  <2>1. /\ ids \in SUBSET Devices /\ primary \in [ids -> Devices \cup {None}]
        /\ backups \in [ids -> SUBSET Devices]
        /\ ready \in SUBSET ids /\ done \in BOOLEAN
    BY DEF OrderInit
  <2>3. order \in Seq(ids)
    BY <1>1
  <2>2. \A d \in ids : EdgesFrom(ids, d) \in Nat
    <3> TAKE d \in ids
    <3>1. IsFiniteSet(backups[d] \cap ids)
      BY <2>1, DevicesAssumption, FS_Subset
    <3> QED  BY <3>1, FS_CardinalityType DEF EdgesFrom
  <2> QED  BY <2>1, <2>2, <2>3 DEF OrderInit, OrderTypeOK
<1>3. Counting
  BY <1>1 DEF OrderInit, Counting
<1> QED  BY <1>1, <1>2, <1>3
         DEF IInv, ParentsFirst, WalkedOnce, AllWalked, AcyclicParentsFirst

LEMMA PlacePreserves ==
    ASSUME IInv, ~done, NEW n \in ready, Place(n)
    PROVE  IInv'
<1>1. /\ OrderTypeOK /\ UNCHANGED topology /\ done' = done
      /\ n \in ids /\ n \notin Placed /\ indeg[n] = 0
      /\ order \in Seq(ids) /\ order' = Append(order, n)
  BY DEF IInv, Counting, OrderTypeOK, Place
<1>2. /\ Len(order') = Len(order) + 1 /\ order'[Len(order) + 1] = n
      /\ \A i \in 1..Len(order) : order'[i] = order[i]
      /\ DOMAIN order' = 1..(Len(order) + 1) /\ DOMAIN order = 1..Len(order)
      /\ order' \in Seq(ids) /\ Len(order) \in Nat
  BY <1>1
<1>3. Placed' = Placed \cup {n}
  <2>1. DOMAIN order' = DOMAIN order \cup {Len(order) + 1}
    BY <1>2
  <2> QED  BY <1>2, <2>1 DEF Placed
<1>4. \A d \in ids : /\ indeg'[d] = indeg[d] - EdgesFrom({n}, d)
                     /\ indeg'[d] = EdgesFrom(ids \ Placed', d)
                     /\ EdgesFrom({n}, d) \in Nat
                     /\ indeg'[d] \in Nat
  <2> TAKE d \in ids
  <2>1. indeg[d] = EdgesFrom(ids \ Placed, d) /\ n \in ids \ Placed
    BY <1>1 DEF IInv, Counting
  <2>2. EdgesFrom((ids \ Placed) \ {n}, d) = indeg[d] - EdgesFrom({n}, d)
    BY <2>1, <1>1, EdgesRemove
  <2>3. (ids \ Placed) \ {n} = ids \ Placed'
    BY <1>3
  <2>4. indeg'[d] = indeg[d] - EdgesFrom({n}, d)
    BY <1>1 DEF Place
  <2>5. EdgesFrom({n}, d) \in Nat /\ EdgesFrom(ids \ Placed', d) \in Nat
    BY <1>1, EdgesType
  <2> QED  BY <2>2, <2>3, <2>4, <2>5
<1>5. \A S, d : EdgesFrom(S, d)' = EdgesFrom(S', d')
  BY <1>1 DEF EdgesFrom, topology
<1>6. indeg' \in [ids -> Nat]
  BY <1>4 DEF Place
<1>7. OrderTypeOK'
  BY <1>1, <1>2, <1>6 DEF OrderTypeOK, topology, Place
<1>8. Counting'
  <2>1. \A d \in ids : indeg'[d] = EdgesFrom(ids \ Placed, d)'
    BY <1>1, <1>4, <1>5 DEF topology
  <2>2. \A d \in Placed' : indeg'[d] = 0
    <3> TAKE d \in Placed'
    <3>1. d \in ids /\ indeg[d] = 0
      BY <1>1, <1>3 DEF IInv, Counting, Placed
    <3> QED  BY <3>1, <1>4
  <2>3. ready' = {d \in ids \ Placed' : indeg'[d] = 0}
    <3>1. ready = {d \in ids \ Placed : indeg[d] = 0}
      BY DEF IInv, Counting
    <3>2. \A d \in ids : indeg[d] \in Nat
      BY <1>1 DEF OrderTypeOK
    <3>3. \A d \in Placed : indeg[d] = 0
      BY DEF IInv, Counting
    <3>4. ready' = (ready \ {n}) \cup {d \in ids : indeg'[d] = 0 /\ indeg[d] > 0}
      BY DEF Place
    <3>5. \A d \in ids : indeg[d] = 0 => indeg'[d] = 0
      BY <1>4
    <3> QED  BY <1>3, <3>1, <3>2, <3>3, <3>4, <3>5, <1>1
  <2> QED  BY <2>1, <2>2, <2>3, <1>1 DEF Counting, topology
<1>9. ParentsOf(n) \cap (ids \ Placed) = {}
  <2>1. EdgesFrom(ids \ Placed, n) = 0
    BY <1>1 DEF IInv, Counting
  <2> QED  BY <2>1, <1>1, EdgesType DEF ParentsOf
<1>10. ParentsFirst'
  <2> SUFFICES ASSUME NEW i \in DOMAIN order', NEW p \in ParentsOf(order'[i])
               PROVE  \E j \in 1..(i - 1) : order'[j] = p
    BY <1>1 DEF ParentsFirst, ParentsOf, topology
  <2>1. CASE i \in 1..Len(order)
    <3>1. \E j \in 1..(i - 1) : order[j] = p
      BY <2>1, <1>2, <1>1 DEF IInv, ParentsFirst
    <3> QED  BY <3>1, <2>1, <1>2
  <2>2. CASE i = Len(order) + 1
    <3>1. p \in Placed
      BY <2>2, <1>2, <1>9 DEF ParentsOf
    <3> QED  BY <3>1, <2>2, <1>2 DEF Placed
  <2> QED  BY <2>1, <2>2, <1>2
<1>11. WalkedOnce'
  <2>1. \A i \in 1..Len(order) : order[i] # n
    BY <1>1, <1>2 DEF Placed
  <2> QED  BY <2>1, <1>2 DEF IInv, WalkedOnce
<1> QED  BY <1>1, <1>7, <1>8, <1>10, <1>11
         DEF IInv, AllWalked, AcyclicParentsFirst

LEMMA FinishPreserves ==
    ASSUME IInv, Finish
    PROVE  IInv'
<1>1. /\ OrderTypeOK /\ UNCHANGED <<topology, indeg, ready>>
      /\ ids' = ids /\ primary' = primary /\ backups' = backups
      /\ ~done /\ done' = TRUE /\ ready = {}
      /\ order \in Seq(ids) /\ Len(order) \in Nat
      /\ DOMAIN order = 1..Len(order)
  BY DEF IInv, OrderTypeOK, Finish, topology
<1> DEFINE L == ids \ Placed
<1>2. PICK rest \in SortedSeqs(L) : order' = order \o rest
  BY DEF Finish
<1>3. IsFiniteSet(L) /\ Cardinality(L) \in Nat
  BY <1>1, DevicesAssumption, FS_Subset, FS_CardinalityType DEF OrderTypeOK
<1>4. /\ rest \in Seq(L) /\ Len(rest) = Cardinality(L)
      /\ rest \in Seq(ids)
      /\ DOMAIN rest = 1..Cardinality(L)
      /\ \A i, j \in DOMAIN rest : i < j => rest[i] < rest[j]
      /\ L = {rest[i] : i \in DOMAIN rest}
  <2>1. rest \in [1..Cardinality(L) -> L]
    BY DEF SortedSeqs
  <2>2. rest \in Seq(L) /\ Len(rest) = Cardinality(L)
    <3> HIDE DEF L
    <3> DEFINE c == Cardinality(L)
    <3>1. c \in Nat /\ rest \in [1..c -> L]
      BY <2>1, <1>3
    <3> HIDE DEF c
    <3>2. rest \in Seq(L) /\ Len(rest) = c
      BY <3>1
    <3> QED  BY <3>2 DEF c
  <2>3. rest \in Seq(ids)
    <3>1. L \subseteq ids
      OBVIOUS
    <3> HIDE DEF L
    <3> QED  BY <2>2, <3>1
  <2>4. /\ \A i, j \in DOMAIN rest : i < j => rest[i] < rest[j]
        /\ L = {rest[i] : i \in DOMAIN rest}
    BY DEF SortedSeqs
  <2>5. DOMAIN rest = 1..Cardinality(L)
    BY <2>1
  <2> HIDE DEF L
  <2> QED  BY <2>2, <2>3, <2>4, <2>5
<1>5. /\ order' \in Seq(ids) /\ Len(order') = Len(order) + Len(rest)
      /\ DOMAIN order' = 1..(Len(order) + Len(rest))
      /\ \A i \in 1..Len(order) : order'[i] = order[i]
      /\ \A i \in 1..Len(rest) : order'[Len(order) + i] = rest[i]
  <2>1. order \in Seq(ids) /\ rest \in Seq(ids) /\ order' = order \o rest
    BY <1>1, <1>2, <1>4
  <2>2. /\ order' \in Seq(ids)
        /\ Len(order') = Len(order) + Len(rest)
        /\ \A i \in 1..(Len(order) + Len(rest)) :
              order'[i] = IF i <= Len(order) THEN order[i] ELSE rest[i - Len(order)]
    BY <2>1, ConcatProperties
  <2>3. Len(order) \in Nat /\ Len(rest) \in Nat
    BY <2>1
  <2>4. DOMAIN order' = 1..(Len(order) + Len(rest))
    BY <2>2
  <2>5. \A i \in 1..Len(order) : order'[i] = order[i]
    <3> TAKE i \in 1..Len(order)
    <3>1. i \in 1..(Len(order) + Len(rest)) /\ i <= Len(order)
      BY <2>3
    <3> QED  BY <3>1, <2>2
  <2>6. \A i \in 1..Len(rest) : order'[Len(order) + i] = rest[i]
    <3> TAKE i \in 1..Len(rest)
    <3>1. /\ Len(order) + i \in 1..(Len(order) + Len(rest))
          /\ ~(Len(order) + i <= Len(order)) /\ (Len(order) + i) - Len(order) = i
      BY <2>3
    <3> QED  BY <3>1, <2>2
  <2> QED  BY <2>2, <2>4, <2>5, <2>6
<1>6. OrderTypeOK'
  BY <1>1, <1>5 DEF OrderTypeOK
<1>7. Placed' = Placed \cup L
  <2>1. ASSUME NEW x \in Placed' PROVE x \in Placed \cup L
    <3>1. PICK i \in 1..(Len(order) + Len(rest)) : x = order'[i]
      BY <1>5 DEF Placed
    <3>2. CASE i \in 1..Len(order)
      BY <3>1, <3>2, <1>1, <1>5 DEF Placed
    <3>3. CASE i \notin 1..Len(order)
      <4>1. i - Len(order) \in 1..Len(rest) /\ i = Len(order) + (i - Len(order))
        BY <3>1, <3>3, <1>1, <1>4
      <4> QED  BY <3>1, <4>1, <1>5, <1>4
    <3> QED  BY <3>2, <3>3
  <2>2. ASSUME NEW x \in Placed PROVE x \in Placed'
    <3>1. PICK i \in 1..Len(order) : x = order[i]
      BY <1>1 DEF Placed
    <3>2. i \in DOMAIN order' /\ order'[i] = x
      <4>1. Len(order) \in Nat /\ Len(rest) \in Nat
        BY <1>1, <1>3, <1>4
      <4> QED  BY <3>1, <4>1, <1>5
    <3> QED  BY <3>2 DEF Placed
  <2>3. ASSUME NEW x \in L PROVE x \in Placed'
    <3>1. PICK i \in 1..Len(rest) : x = rest[i]
      BY <1>3, <1>4
    <3>2. Len(order) + i \in DOMAIN order' /\ order'[Len(order) + i] = x
      <4>1. Len(order) \in Nat /\ Len(rest) \in Nat
        BY <1>1, <1>3, <1>4
      <4> QED  BY <3>1, <4>1, <1>5
    <3> QED  BY <3>2 DEF Placed
  <2> QED  BY <2>1, <2>2, <2>3
<1>8. Placed \subseteq ids
  BY <1>1 DEF Placed
<1>9. AllWalked'
  BY <1>1, <1>7, <1>8 DEF AllWalked, topology
<1>10. WalkedOnce'
  <2> SUFFICES ASSUME NEW i \in DOMAIN order', NEW j \in DOMAIN order',
                      order'[i] = order'[j], i < j
               PROVE  FALSE
    <3>1. DOMAIN order' \subseteq Nat
      BY <1>1, <1>3, <1>4, <1>5
    <3>2. \A i, j \in DOMAIN order' : i = j \/ i < j \/ j < i
      BY <3>1
    <3> QED  BY <3>2 DEF WalkedOnce
  <2>1. i \in 1..(Len(order) + Len(rest)) /\ j \in 1..(Len(order) + Len(rest))
    BY <1>5
  <2>2. CASE j \in 1..Len(order)
    BY <2>1, <2>2, <1>1, <1>5 DEF IInv, WalkedOnce
  <2>3. CASE j \notin 1..Len(order)
    <3> DEFINE k == j - Len(order)
    <3>1. k \in 1..Len(rest) /\ j = Len(order) + k
      BY <2>1, <2>3, <1>1, <1>4
    <3>2. order'[j] = rest[k] /\ rest[k] \in L
      BY <3>1, <1>4, <1>5
    <3>3. CASE i \in 1..Len(order)
      <4>1. order'[i] \in Placed
        BY <3>3, <1>1, <1>5 DEF Placed
      <4> QED  BY <4>1, <3>2
    <3>4. CASE i \notin 1..Len(order)
      <4> DEFINE m == i - Len(order)
      <4>1. m \in 1..Len(rest) /\ i = Len(order) + m /\ m < k
        BY <2>1, <3>4, <3>1, <1>1, <1>4
      <4>2. order'[i] = rest[m] /\ rest[m] < rest[k]
        BY <4>1, <3>1, <1>4, <1>5
      <4>3. rest[m] \in Nat /\ rest[k] \in Nat
        BY <4>1, <3>1, <1>4, <1>1, DevicesAssumption DEF OrderTypeOK
      <4>4. rest[m] = rest[k]
        BY <4>2, <3>2
      <4> QED  BY <4>2, <4>3, <4>4
    <3> QED  BY <3>3, <3>4
  <2> QED  BY <2>2, <2>3
\* An acyclic topology leaves nothing over: the least unplaced device would be
\* in the queue.
<1>11. Acyclic => L = {}
  <2> SUFFICES ASSUME Acyclic, L # {} PROVE FALSE
    OBVIOUS
  <2>1. PICK d \in L : ParentsOf(d) \cap L = {}
    BY DEF Acyclic
  <2>2. (backups[d] \cup {primary[d]}) \cap L = {}
    BY <2>1 DEF ParentsOf
  <2>3. indeg[d] = 0
    BY <2>2, <1>1, EdgesType DEF IInv, Counting
  <2>4. d \in ready
    BY <2>3, <1>1 DEF IInv, Counting
  <2> QED  BY <2>4, <1>1
<1>12. AcyclicParentsFirst'
  <2> SUFFICES ASSUME Acyclic PROVE ParentsFirst'
    BY <1>1 DEF AcyclicParentsFirst, Acyclic, ParentsOf, topology
  <2>1. Cardinality(L) = 0
    BY <1>11, FS_EmptySet
  <2>2. order' = order
    <3>1. Len(rest) = 0
      BY <2>1, <1>4
    <3>2. rest = <<>>
      BY <3>1, <1>4
    <3> QED  BY <3>2, <1>1, <1>2
  <2> QED  BY <2>2, <1>1 DEF IInv, ParentsFirst, ParentsOf, topology
<1> QED  BY <1>1, <1>6, <1>9, <1>10, <1>12 DEF IInv, Counting

THEOREM IInvHolds == OrderSpec => []IInv
<1>1. IInv /\ [OrderNext]_orderVars => IInv'
  <2> SUFFICES ASSUME IInv, [OrderNext]_orderVars PROVE IInv'
    OBVIOUS
  <2>1. CASE PlaceAny
    BY <2>1, PlacePreserves DEF PlaceAny
  <2>2. CASE Finish
    BY <2>2, FinishPreserves
  <2>3. CASE UNCHANGED orderVars
    <3>1. UNCHANGED <<ids, primary, backups, indeg, ready, order, done>>
      BY <2>3 DEF orderVars
    <3>2. OrderTypeOK' /\ Counting'
      <4>1. OrderTypeOK'
        BY <3>1 DEF IInv, OrderTypeOK
      <4>2. Placed' = Placed
        BY <3>1 DEF Placed
      <4>3. \A d \in ids : EdgesFrom(ids \ Placed, d)' = EdgesFrom(ids \ Placed, d)
        BY <3>1, <4>2 DEF EdgesFrom
      <4> QED  BY <3>1, <4>1, <4>2, <4>3 DEF IInv, Counting
    <3>3. (~done => ParentsFirst)'
      BY <3>1 DEF IInv, ParentsFirst, ParentsOf
    <3>4. (WalkedOnce /\ AllWalked)'
      BY <3>1 DEF IInv, WalkedOnce, AllWalked, Placed
    <3>5. AcyclicParentsFirst'
      <4>1. Acyclic' => Acyclic
        BY <3>1 DEF Acyclic, ParentsOf
      <4>2. ParentsFirst => ParentsFirst'
        BY <3>1 DEF ParentsFirst, ParentsOf
      <4> QED  BY <4>1, <4>2, <3>1 DEF IInv, AcyclicParentsFirst
    <3> QED  BY <3>2, <3>3, <3>4, <3>5 DEF IInv
  <2> QED  BY <2>1, <2>2, <2>3 DEF OrderNext
<1> QED  BY InitIInv, <1>1, PTL DEF OrderSpec

\* The walk never repeats a device and, once built, misses none.
THEOREM WalkIsAPermutation == OrderSpec => []WalkIsWhole
BY IInvHolds, PTL DEF IInv, WalkIsWhole

\* Parents come before children over every acyclic topology.
THEOREM TopologicalOrder == OrderSpec => []AcyclicParentsFirst
BY IInvHolds, PTL DEF IInv

\* What the engine's walk relies on.
THEOREM WalkOrder == OrderSpec => []OrderIsTopological
BY WalkIsAPermutation, TopologicalOrder, PTL DEF OrderIsTopological
=============================================================================
