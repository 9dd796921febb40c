----------------------- MODULE DynamicBindingsProofs -----------------------
(***************************************************************************)
(* DynamicBindings for every table size, every number of threads, symbols  *)
(* and values, provided the table can hold all symbols that are bound:     *)
(* lemmas about the probes of the table, the inductive invariant, and the  *)
(* proof that every step implements one of SpecialVariables.               *)
(***************************************************************************)
EXTENDS DynamicBindings, FiniteSetTheorems, SequenceTheorems, NaturalsInduction,
        WellFoundedInduction, TLAPS

\* The table has a slot for every symbol that programs bind.
Fits == IsFiniteSet(Symbols) /\ Cardinality(Symbols) <= Size

\* A table whose probes work, with proper values in its entries.
GoodTable(tab, h) ==
  /\ Unique(tab) /\ Reachable(tab, h) /\ Counted(tab)
  /\ \A i \in Live(tab) : tab.slot[i].value \in Values

-----------------------------------------------------------------------------
(* Probes.                                                                 *)

\* A non-empty set of natural numbers has a least element.
LEMMA LeastNatural ==
  ASSUME NEW S \in SUBSET Nat, S # {}
  PROVE  \E m \in S : \A k \in S : m <= k
<1> DEFINE R == OpToRel(<, Nat)
<1>1. \A x, y \in Nat : <<y, x>> \in R <=> y < x
  BY DEF OpToRel
<1>2. IsWellFoundedOn(R, Nat)
  BY NatLessThanWellFounded
<1> HIDE DEF R
<1>3. \E m \in S : \A k \in S : ~(<<k, m>> \in R)
  BY <1>2, WFMin
<1>4. PICK m \in S : \A k \in S : ~(<<k, m>> \in R)
  BY <1>3
<1>5. ASSUME NEW k \in S PROVE m <= k
  <2>1. k \in Nat /\ m \in Nat
    OBVIOUS
  <2>2. ~(k < m)
    BY <1>1, <1>4, <2>1
  <2> QED BY <2>1, <2>2
<1> QED BY <1>5

\* The distance from a home tells slots apart.
LEMMA DistProperties ==
  ASSUME NEW home \in Slots, NEW i \in Slots, NEW j \in Slots
  PROVE  Dist(home, i) \in Nat /\ (Dist(home, i) = Dist(home, j) => i = j)
  BY SizeAssumption DEF Dist, Slots

\* Nearest picks the slot of a non-empty set that a probe meets first.
LEMMA NearestProperties ==
  ASSUME NEW home \in Slots, NEW S \in SUBSET Slots, S # {}
  PROVE  /\ Nearest(home, S) \in S
         /\ \A j \in S : Dist(home, Nearest(home, S)) <= Dist(home, j)
<1> DEFINE D == {Dist(home, i) : i \in S}
<1>1. D \in SUBSET Nat /\ D # {}
  BY DistProperties
<1>2. PICK m \in D : \A k \in D : m <= k
  BY <1>1, LeastNatural
<1>3. PICK i \in S : m = Dist(home, i)
  OBVIOUS
<1>4. \A j \in S : Dist(home, i) <= Dist(home, j)
  BY <1>2, <1>3
<1> QED BY <1>3, <1>4 DEF Nearest

\* A slot that comes before all others of a set is the nearest one.
LEMMA NearestIs ==
  ASSUME NEW home \in Slots, NEW S \in SUBSET Slots, NEW i \in S,
         \A j \in S : j # i => Dist(home, i) < Dist(home, j)
  PROVE  Nearest(home, S) = i
<1>1. Nearest(home, S) \in S /\ Dist(home, Nearest(home, S)) <= Dist(home, i)
  BY NearestProperties
<1>2. Dist(home, i) \in Nat /\ Dist(home, Nearest(home, S)) \in Nat
  BY <1>1, DistProperties
<1> QED BY <1>1, <1>2

\* A probe finds the slot of a symbol that has an entry.
LEMMA ProbeHit ==
  ASSUME NEW h \in [Symbols -> Slots], NEW tab \in Table, GoodTable(tab, h),
         NEW i \in Slots, NEW s \in Symbols, tab.slot[i].symbol = s
  PROVE  /\ i \in Stops(tab, s) /\ Nearest(h[s], Stops(tab, s)) = i
         /\ Found(tab, h[s], s) = {i}
<1>1. i \in Live(tab) /\ i \in Stops(tab, s) /\ Stops(tab, s) \in SUBSET Slots /\ h[s] \in Slots
  BY DEF Live, Stops
<1>2. ASSUME NEW j \in Stops(tab, s), j # i PROVE Dist(h[s], i) < Dist(h[s], j)
  <2>1. j \in Slots /\ tab.slot[j].symbol \in {Empty, s}
    BY DEF Stops
  <2>2. CASE tab.slot[j].symbol = s
    BY <1>1, <1>2, <2>1, <2>2 DEF GoodTable, Unique, Live
  <2>3. CASE tab.slot[j].symbol = Empty
    <3>1. ~(Dist(h[s], j) < Dist(h[s], i))
      BY <1>1, <2>1, <2>3 DEF GoodTable, Reachable
    <3>2. Dist(h[s], i) \in Nat /\ Dist(h[s], j) \in Nat /\ Dist(h[s], i) # Dist(h[s], j)
      BY <1>1, <1>2, <2>1, DistProperties
    <3> QED BY <3>1, <3>2
  <2> QED BY <2>1, <2>2, <2>3
<1>3. Nearest(h[s], Stops(tab, s)) = i
  BY <1>1, <1>2, NearestIs
<1> QED BY <1>1, <1>3 DEF Found

\* A probe finds nothing for a symbol without an entry.
LEMMA ProbeMiss ==
  ASSUME NEW tab \in Table, NEW s \in Symbols, NEW home,
         \A i \in Slots : tab.slot[i].symbol # s
  PROVE  Found(tab, home, s) = {}
  BY DEF Found, Stops

\* Two entries of a good table for one symbol are the same.
LEMMA EntriesUnique ==
  ASSUME NEW h, NEW tab \in Table, GoodTable(tab, h)
  PROVE  /\ Entries(tab) \subseteq [symbol : Symbols, value : Values]
         /\ \A e, f \in Entries(tab) : e.symbol = f.symbol => e = f
  BY DEF GoodTable, Unique, Entries, Live, Table, Entry

\* cl_tlv_get returns the value of the symbol's entry, or CL_TLV_ABSENT.
LEMMA GetEntries ==
  ASSUME NEW h \in [Symbols -> Slots], NEW tab \in Table, GoodTable(tab, h), NEW s \in Symbols
  PROVE  cl_tlv_get(tab, h[s], s) = Content(Entries(tab), s)
<1>1. CASE \E i \in Slots : tab.slot[i].symbol = s
  <2>1. PICK i \in Slots : tab.slot[i].symbol = s
    BY <1>1
  <2>2. cl_tlv_get(tab, h[s], s) = tab.slot[i].value
    BY <2>1, ProbeHit DEF cl_tlv_get
  <2>3. tab.slot[i] \in Entries(tab)
    BY <2>1 DEF Entries, Live
  <2>4. Content(Entries(tab), s) = tab.slot[i].value
    BY <2>1, <2>3, EntriesUnique DEF Content
  <2> QED BY <2>2, <2>4
<1>2. CASE \A i \in Slots : tab.slot[i].symbol # s
  <2>1. cl_tlv_get(tab, h[s], s) = Absent
    BY <1>2, ProbeMiss DEF cl_tlv_get
  <2>2. \A e \in Entries(tab) : e.symbol # s
    BY <1>2 DEF Entries, Live
  <2> QED BY <2>1, <2>2 DEF Content
<1> QED BY <1>1, <1>2

\* H has an entry for s; H with the entry replaced, or added; and without it.
Holds(H, s) == \E e \in H : e.symbol = s
Put(H, s, v) == {e \in H : e.symbol # s} \cup {[symbol |-> s, value |-> v]}
Drop(H, s) == {e \in H : e.symbol # s}

\* Storing where the symbol already has its entry.
LEMMA SetHit ==
  ASSUME NEW h \in [Symbols -> Slots], NEW tab \in Table, GoodTable(tab, h),
         NEW s \in Symbols, NEW v \in Values, \E i \in Slots : tab.slot[i].symbol = s,
         NEW new, new = cl_tlv_set(tab, h[s], s, v)
  PROVE  new \in Table /\ GoodTable(new, h) /\ Entries(new) = Put(Entries(tab), s, v)
<1> PICK i \in Slots : tab.slot[i].symbol = s
  OBVIOUS
<1>1. new = [tab EXCEPT !.slot[i].value = v]
  <2>1. Nearest(h[s], Stops(tab, s)) = i /\ Found(tab, h[s], s) # {}
    BY ProbeHit
  <2> QED BY <2>1 DEF cl_tlv_set
<1>2. /\ new \in Table /\ new.count = tab.count
      /\ new.slot[i] = [symbol |-> s, value |-> v]
      /\ \A j \in Slots : j # i => new.slot[j] = tab.slot[j]
  BY <1>1 DEF Table, Entry
<1>3. \A j \in Slots : new.slot[j].symbol = tab.slot[j].symbol
  BY <1>2
<1>4. Live(new) = Live(tab) /\ i \in Live(tab)
  BY <1>3 DEF Live
<1>5. GoodTable(new, h)
  <2>0. \A j \in Live(tab) : j \in Slots
    BY DEF Live
  <2>1. Unique(new)
    BY <1>3, <1>4, <2>0 DEF GoodTable, Unique
  <2>4. Counted(new)
    BY <1>2, <1>4 DEF GoodTable, Counted
  <2>2. Reachable(new, h)
    BY <1>3, <1>4 DEF GoodTable, Reachable, Live
  <2>3. \A j \in Live(new) : new.slot[j].value \in Values
    BY <1>2, <1>4 DEF GoodTable, Live
  <2> QED BY <2>1, <2>2, <2>3, <2>4 DEF GoodTable
<1>6. \A j \in Live(tab) : j # i => tab.slot[j].symbol # s
  BY <1>4 DEF GoodTable, Unique
<1>7. Entries(new) = Put(Entries(tab), s, v)
  BY <1>2, <1>4, <1>6 DEF Entries, Put, Live
<1> QED BY <1>2, <1>5, <1>7

\* Storing for a new symbol in a slot that no probe for it has to pass an empty
\* one to reach.
LEMMA InsertGood ==
  ASSUME NEW h \in [Symbols -> Slots], NEW tab \in Table, GoodTable(tab, h),
         NEW k \in Slots, NEW s \in Symbols, NEW v \in Values,
         \A i \in Slots : tab.slot[i].symbol # s,
         k \notin Live(tab),
         \A j \in Slots : Dist(h[s], j) < Dist(h[s], k) => tab.slot[j].symbol # Empty,
         NEW new, new = Insert(tab, k, s, v)
  PROVE  new \in Table /\ GoodTable(new, h) /\ Entries(new) = Put(Entries(tab), s, v)
<1>1. /\ new \in Table /\ new.count = tab.count + 1
      /\ new.slot[k] = [symbol |-> s, value |-> v]
      /\ \A j \in Slots : j # k => new.slot[j] = tab.slot[j]
  BY DEF Insert, Table, Entry
<1>2. Live(new) = Live(tab) \cup {k}
  BY <1>1 DEF Live
<1>3. Unique(new)
  BY <1>1, <1>2 DEF GoodTable, Unique, Live
<1>4. Reachable(new, h)
  <2> SUFFICES ASSUME NEW i \in Live(new), NEW j \in Slots,
                      Dist(h[new.slot[i].symbol], j) < Dist(h[new.slot[i].symbol], i)
               PROVE  new.slot[j].symbol # Empty
    BY DEF Reachable
  <2>1. CASE j = k
    BY <1>1, <2>1, KeyAssumption
  <2>2. CASE j # k /\ i = k
    BY <1>1, <2>2
  <2>3. CASE j # k /\ i # k
    BY <1>1, <1>2, <2>3 DEF GoodTable, Reachable, Live
  <2> QED BY <2>1, <2>2, <2>3
<1>5. Counted(new)
  <2>1. IsFiniteSet(Slots) /\ Live(tab) \in SUBSET Slots
    BY FS_Interval, SizeAssumption DEF Slots, Live
  <2>2. IsFiniteSet(Live(tab))
    BY <2>1, FS_Subset
  <2>3. Cardinality(Live(tab) \cup {k}) = Cardinality(Live(tab)) + 1
    BY <2>2, FS_AddElement
  <2> QED BY <1>1, <1>2, <2>3 DEF GoodTable, Counted
<1>6. Entries(new) = Put(Entries(tab), s, v)
  BY <1>1, <1>2 DEF Entries, Put, Live
<1>7. \A i \in Live(new) : new.slot[i].value \in Values
  BY <1>1, <1>2 DEF GoodTable, Live
<1> QED BY <1>1, <1>3, <1>4, <1>5, <1>6, <1>7 DEF GoodTable

\* A table that fits all symbols has room for one that has no entry.
LEMMA Room ==
  ASSUME Fits, NEW h \in [Symbols -> Slots], NEW tab \in Table, GoodTable(tab, h),
         NEW s \in Symbols, \A i \in Slots : tab.slot[i].symbol # s
  PROVE  \E i \in Slots : i \notin Live(tab)
<1> SUFFICES ASSUME Slots = Live(tab) PROVE FALSE
  BY DEF Live
<1> DEFINE f == [i \in Slots |-> tab.slot[i].symbol]
           T == Symbols \ {s}
<1>1. f \in [Slots -> T]
  BY DEF Live
<1>2. IsFiniteSet(Slots) /\ Cardinality(Slots) = Size
  BY FS_Interval, SizeAssumption DEF Slots
<1>3. IsFiniteSet(T) /\ Cardinality(T) = Cardinality(Symbols) - 1 /\ Cardinality(Symbols) \in Nat
  BY FS_RemoveElement, FS_CardinalityType DEF Fits
<1>4. Cardinality(T) < Cardinality(Slots)
  BY <1>2, <1>3, SizeAssumption DEF Fits
<1> HIDE DEF T, f
<1>5. PICK x, y \in Slots : x # y /\ f[x] = f[y]
  BY <1>1, <1>2, <1>3, <1>4, FS_PigeonHole
<1> QED BY <1>5 DEF f, GoodTable, Unique

\* cl_tlv_set gives the symbol its one entry, in a table that fits.
LEMMA SetEntries ==
  ASSUME Fits, NEW h \in [Symbols -> Slots], NEW tab \in Table, GoodTable(tab, h),
         NEW s \in Symbols, NEW v \in Values, NEW new, new = cl_tlv_set(tab, h[s], s, v)
  PROVE  new \in Table /\ GoodTable(new, h) /\ Entries(new) = Put(Entries(tab), s, v)
<1>1. CASE \E i \in Slots : tab.slot[i].symbol = s
  BY <1>1, SetHit
<1>2. CASE \A i \in Slots : tab.slot[i].symbol # s
  <2> DEFINE P == Passed(tab, h[s], s)
             Q == Stops(tab, s)
  <2>1. /\ Found(tab, h[s], s) = {} /\ h[s] \in Slots
        /\ P \in SUBSET Slots /\ Q \in SUBSET Slots
    BY <1>2, ProbeMiss DEF Passed, Stops
  <2>2. CASE P # {}
    <3> DEFINE k == Nearest(h[s], P)
    <3>1. k \in P
      BY <2>1, <2>2, NearestProperties
    <3>2. k \in Slots /\ k \notin Live(tab)
      BY <3>1, KeyAssumption DEF Passed, Live
    <3>3. ASSUME NEW j \in Slots, Dist(h[s], j) < Dist(h[s], k)
          PROVE  tab.slot[j].symbol # Empty
      <4>1. Dist(h[s], j) \in Nat /\ Dist(h[s], k) \in Nat
        BY <2>1, <3>2, DistProperties
      <4>2. j \notin Q
        BY <3>1, <3>3, <4>1 DEF Passed
      <4> QED BY <4>2 DEF Stops
    <3>4. new = Insert(tab, k, s, v)
      BY <2>1, <2>2 DEF cl_tlv_set
    <3> QED BY <1>2, <3>2, <3>3, <3>4, InsertGood
  <2>3. CASE P = {} /\ Q # {}
    <3> DEFINE k == Nearest(h[s], Q)
    <3>1. k \in Q /\ \A j \in Q : Dist(h[s], k) <= Dist(h[s], j)
      BY <2>1, <2>3, NearestProperties
    <3>2. k \in Slots /\ k \notin Live(tab)
      BY <1>2, <3>1, KeyAssumption DEF Stops, Live
    <3>3. ASSUME NEW j \in Slots, Dist(h[s], j) < Dist(h[s], k)
          PROVE  tab.slot[j].symbol # Empty
      <4>1. Dist(h[s], j) \in Nat /\ Dist(h[s], k) \in Nat
        BY <2>1, <3>2, DistProperties
      <4>2. j \notin Q
        BY <3>1, <3>3, <4>1
      <4> QED BY <4>2 DEF Stops
    <3>4. new = Insert(tab, k, s, v)
      BY <2>1, <2>3 DEF cl_tlv_set
    <3> QED BY <1>2, <3>2, <3>3, <3>4, InsertGood
  <2>4. CASE P = {} /\ Q = {}
    <3>1. PICK i \in Slots : i \notin Live(tab)
      BY <1>2, Room
    <3>2. tab.slot[i].symbol \in {Empty, Tombstone}
      BY <3>1 DEF Live, Table, Entry
    <3> QED BY <2>4, <3>1, <3>2 DEF Passed, Stops
  <2> QED BY <2>2, <2>3, <2>4
<1> QED BY <1>1, <1>2

\* cl_tlv_remove takes the entry of the symbol away, if it has one.
LEMMA RemoveEntries ==
  ASSUME NEW h \in [Symbols -> Slots], NEW tab \in Table, GoodTable(tab, h),
         NEW s \in Symbols, NEW new, new = cl_tlv_remove(tab, h[s], s)
  PROVE  new \in Table /\ GoodTable(new, h) /\ Entries(new) = Drop(Entries(tab), s)
<1>1. CASE \A i \in Slots : tab.slot[i].symbol # s
  <2>1. new = tab
    BY <1>1, ProbeMiss DEF cl_tlv_remove
  <2>2. Entries(tab) = Drop(Entries(tab), s)
    BY <1>1 DEF Entries, Drop, Live
  <2> QED BY <2>1, <2>2
<1>2. CASE \E i \in Slots : tab.slot[i].symbol = s
  <2>1. PICK i \in Slots : tab.slot[i].symbol = s
    BY <1>2
  <2>2. i \in Live(tab) /\ IsFiniteSet(Live(tab))
    <3>1. IsFiniteSet(Slots) /\ Live(tab) \in SUBSET Slots
      BY FS_Interval, SizeAssumption DEF Slots, Live
    <3> QED BY <2>1, <3>1, FS_Subset DEF Live
  <2>3. tab.count = Cardinality(Live(tab)) /\ tab.count \in Nat /\ tab.count > 0
    BY <2>2, FS_EmptySet, FS_CardinalityType DEF GoodTable, Counted
  <2>4. new = [slot  |-> [tab.slot EXCEPT ![i] = [symbol |-> Tombstone, value |-> Empty]],
               count |-> tab.count - 1]
    <3>1. Nearest(h[s], Stops(tab, s)) = i /\ Found(tab, h[s], s) # {}
      BY <2>1, ProbeHit
    <3> QED BY <2>3, <3>1 DEF cl_tlv_remove
  <2>5. /\ new \in Table /\ new.count = tab.count - 1
        /\ new.slot[i].symbol = Tombstone
        /\ \A j \in Slots : j # i => new.slot[j] = tab.slot[j]
    BY <2>3, <2>4 DEF Table, Entry
  <2>6. Live(new) = Live(tab) \ {i}
    BY <2>5, KeyAssumption DEF Live
  <2>7. Unique(new) /\ \A j \in Live(new) : new.slot[j].value \in Values
    BY <2>5, <2>6 DEF GoodTable, Unique, Live
  <2>8. Reachable(new, h)
    BY <2>5, <2>6, KeyAssumption DEF GoodTable, Reachable, Live
  <2>9. Counted(new)
    <3>1. Cardinality(Live(tab) \ {i}) = Cardinality(Live(tab)) - 1
      BY <2>2, FS_RemoveElement
    <3> QED BY <2>3, <2>5, <2>6, <3>1 DEF Counted
  <2>10. \A j \in Live(tab) : j # i => tab.slot[j].symbol # s
    BY <2>1, <2>2 DEF GoodTable, Unique
  <2>11. Entries(new) = Drop(Entries(tab), s)
    BY <2>1, <2>5, <2>6, <2>10 DEF Entries, Drop, Live
  <2> QED BY <2>5, <2>7, <2>8, <2>9, <2>11 DEF GoodTable
<1> QED BY <1>1, <1>2

\* The cleared table is good under any homes.
LEMMA EmptyTableGood ==
  ASSUME NEW h
  PROVE  EmptyTable \in Table /\ GoodTable(EmptyTable, h) /\ Entries(EmptyTable) = {}
<1>1. EmptyTable \in Table
  BY DEF EmptyTable, Table, Entry, Vacant
<1>2. Live(EmptyTable) = {}
  BY KeyAssumption DEF EmptyTable, Live, Vacant
<1>3. EmptyTable.count = 0 /\ Cardinality({}) = 0
  BY FS_EmptySet DEF EmptyTable
<1> QED BY <1>1, <1>2, <1>3 DEF GoodTable, Unique, Reachable, Counted, Entries

-----------------------------------------------------------------------------
(* Entries and the bindings they stand for.                                *)

\* Entries of which no two are for the same symbol.
Proper(H) == /\ H \subseteq [symbol : Symbols, value : Values]
             /\ \A e, f \in H : e.symbol = f.symbol => e = f

\* Content is the value of the one entry for a symbol.
LEMMA ContentIs ==
  ASSUME NEW H, Proper(H), NEW e \in H
  PROVE  Content(H, e.symbol) = e.value /\ e.value \in Values /\ e.symbol \in Symbols
  BY DEF Proper, Content

\* Content is a value if there is an entry, else CL_TLV_ABSENT.
LEMMA ContentType ==
  ASSUME NEW H, Proper(H), NEW s
  PROVE  /\ Content(H, s) \in Values \cup {Absent}
         /\ Content(H, s) # Absent <=> Holds(H, s)
  BY AbsentAssumption DEF Proper, Content, Holds

\* What Put changes.
LEMMA ContentPut ==
  ASSUME NEW H, Proper(H), NEW s \in Symbols, NEW v \in Values
  PROVE  /\ Proper(Put(H, s, v))
         /\ Content(Put(H, s, v), s) = v
         /\ \A x : x # s => Content(Put(H, s, v), x) = Content(H, x)
<1>1. Proper(Put(H, s, v))
  BY DEF Proper, Put
<1>2. [symbol |-> s, value |-> v] \in Put(H, s, v)
  BY DEF Put
<1>3. Content(Put(H, s, v), s) = v
  BY <1>1, <1>2, ContentIs
<1>4. ASSUME NEW x, x # s PROVE Content(Put(H, s, v), x) = Content(H, x)
  <2>1. \A e : e \in H /\ e.symbol = x <=> e \in Put(H, s, v) /\ e.symbol = x
    BY <1>4 DEF Put
  <2>2. CASE \E e \in H : e.symbol = x
    BY <1>1, <2>1, <2>2, ContentIs
  <2>3. CASE \A e \in H : e.symbol # x
    BY <2>1, <2>3 DEF Content
  <2> QED BY <2>2, <2>3
<1> QED BY <1>1, <1>3, <1>4

\* What Drop changes.
LEMMA ContentDrop ==
  ASSUME NEW H, Proper(H), NEW s \in Symbols
  PROVE  /\ Proper(Drop(H, s))
         /\ Content(Drop(H, s), s) = Absent
         /\ \A x : x # s => Content(Drop(H, s), x) = Content(H, x)
<1>1. Proper(Drop(H, s))
  BY DEF Proper, Drop
<1>2. Content(Drop(H, s), s) = Absent
  BY DEF Content, Drop
<1>4. ASSUME NEW x, x # s PROVE Content(Drop(H, s), x) = Content(H, x)
  <2>1. \A e : e \in H /\ e.symbol = x <=> e \in Drop(H, s) /\ e.symbol = x
    BY <1>4 DEF Drop
  <2>2. CASE \E e \in H : e.symbol = x
    BY <1>1, <2>1, <2>2, ContentIs
  <2>3. CASE \A e \in H : e.symbol # x
    BY <2>1, <2>3 DEF Content
  <2> QED BY <2>2, <2>3
<1> QED BY <1>1, <1>2, <1>4

\* Lowest picks the least number of a set.
LEMMA LowestIn ==
  ASSUME NEW S \in SUBSET Nat, S # {}
  PROVE  Lowest(S) \in S /\ \A k \in S : Lowest(S) <= k
  BY LeastNatural DEF Lowest

\* A number that is below all of a set is the one Lowest picks.
LEMMA LowestIs ==
  ASSUME NEW S \in SUBSET Nat, NEW m \in S, \A k \in S : m <= k
  PROVE  Lowest(S) = m
<1>1. Lowest(S) \in S /\ Lowest(S) <= m /\ m <= Lowest(S)
  BY LowestIn
<1>2. Lowest(S) \in Nat /\ m \in Nat
  BY <1>1
<1> QED BY <1>1, <1>2

\* The bindings that a stack and a set of entries stand for are a sequence.
Binding == [symbol : Symbols, value : Values \cup {Absent}]

\* A binding has a symbol, and a value or CL_TLV_ABSENT.
LEMMA BoundValueType ==
  ASSUME NEW d \in Seq(DynBinding), NEW H, Proper(H), NEW i \in 1 .. Len(d)
  PROVE  d[i].symbol \in Symbols /\ BoundValue(d, H, i) \in Values \cup {Absent}
<1>1. Len(d) \in Nat /\ \A j \in 1 .. Len(d) : d[j] \in DynBinding
  BY LenProperties, ElementOfSeq
<1>2. d[i].symbol \in Symbols
  BY <1>1 DEF DynBinding
<1>3. CASE Above(d, i) = {}
  BY <1>2, <1>3, ContentType DEF BoundValue
<1>4. CASE Above(d, i) # {}
  <2>1. Above(d, i) \in SUBSET Nat /\ \A j \in Above(d, i) : j \in 1 .. Len(d)
    BY <1>1 DEF Above
  <2>2. Lowest(Above(d, i)) \in 1 .. Len(d)
    BY <1>4, <2>1, LowestIn
  <2> QED BY <1>1, <1>2, <1>4, <2>2 DEF BoundValue, DynBinding
<1> QED BY <1>2, <1>3, <1>4

\* The first n bindings are a sequence of n bindings.
LEMMA BindingsSeq ==
  ASSUME NEW d \in Seq(DynBinding), NEW H, Proper(H), NEW n \in 0 .. Len(d)
  PROVE  /\ BindingsOf(d, H, n) \in Seq(Binding) /\ Len(BindingsOf(d, H, n)) = n
         /\ \A i \in 1 .. n : BindingsOf(d, H, n)[i] = [symbol |-> d[i].symbol, value |-> BoundValue(d, H, i)]
<1> DEFINE B == BindingsOf(d, H, n)
<1>1. n \in Nat /\ \A i \in 1 .. n : i \in 1 .. Len(d)
  BY LenProperties
<1>2. \A i \in 1 .. n : [symbol |-> d[i].symbol, value |-> BoundValue(d, H, i)] \in Binding
  BY <1>1, BoundValueType DEF Binding
<1>3. B \in [1 .. n -> Binding]
  BY <1>2 DEF BindingsOf
<1>4. \A i \in 1 .. n : B[i] = [symbol |-> d[i].symbol, value |-> BoundValue(d, H, i)]
  BY DEF BindingsOf
<1> HIDE DEF B
<1>5. B \in Seq(Binding)
  BY <1>1, <1>3, SeqDef
<1>6. Len(B) = n
  BY <1>1, <1>3, <1>5, LenProperties
<1> QED BY <1>4, <1>5, <1>6 DEF B

\* The topmost binding of a stack hides no other one: its saved value is what
\* the entries without it held.
LEMMA ShadowBindings ==
  ASSUME NEW d \in Seq(DynBinding), NEW H, NEW H2, NEW b \in DynBinding,
         b.old_value = Content(H, b.symbol),
         \A x : x # b.symbol => Content(H2, x) = Content(H, x)
  PROVE  \A i \in 1 .. Len(d) : BoundValue(Append(d, b), H2, i) = BoundValue(d, H, i)
<1> DEFINE n == Len(d)
           d2 == Append(d, b)
           s == b.symbol
<1>1. /\ n \in Nat /\ Len(d2) = n + 1 /\ d2[n + 1] = b
      /\ \A i \in 1 .. n : d2[i] = d[i]
  OBVIOUS
<1>2. \A x : x # s => Content(H2, x) = Content(H, x)
  OBVIOUS
<1> HIDE DEF d2, n
<1>3. ASSUME NEW i \in 1 .. n PROVE BoundValue(d2, H2, i) = BoundValue(d, H, i)
  <2>0. /\ Above(d, i) = {j \in i + 1 .. n : d[j].symbol = d[i].symbol}
        /\ Above(d2, i) = {j \in i + 1 .. n + 1 : d2[j].symbol = d[i].symbol}
    BY <1>1 DEF Above, n
  <2>1. CASE d[i].symbol # s
    <3>1. Above(d2, i) = Above(d, i)
      BY <1>1, <2>0, <2>1
    <3>2. CASE Above(d, i) = {}
      BY <1>1, <1>2, <2>1, <3>1, <3>2 DEF BoundValue
    <3>3. CASE Above(d, i) # {}
      <4>1. Above(d, i) \in SUBSET Nat /\ \A j \in Above(d, i) : j \in 1 .. n
        BY <1>1, <2>0
      <4>2. Lowest(Above(d, i)) \in 1 .. n
        BY <3>3, <4>1, LowestIn
      <4> QED BY <1>1, <3>1, <3>3, <4>2 DEF BoundValue
    <3> QED BY <3>2, <3>3
  <2>2. CASE d[i].symbol = s
    <3>1. Above(d2, i) = Above(d, i) \cup {n + 1}
      BY <1>1, <2>0, <2>2
    <3>2. Above(d, i) \in SUBSET Nat /\ \A j \in Above(d, i) : j \in 1 .. n
      BY <1>1, <2>0
    <3>3. CASE Above(d, i) = {}
      <4>1. Lowest(Above(d2, i)) = n + 1
        <5>1. Above(d2, i) = {n + 1} /\ n + 1 \in Nat
          BY <1>1, <3>1, <3>3
        <5> QED BY <5>1, LowestIn
      <4> QED BY <1>1, <2>2, <3>1, <3>3, <4>1 DEF BoundValue
    <3>4. CASE Above(d, i) # {}
      <4>1. Lowest(Above(d, i)) \in Above(d, i) /\ \A k \in Above(d, i) : Lowest(Above(d, i)) <= k
        BY <3>2, <3>4, LowestIn
      <4>2. Lowest(Above(d2, i)) = Lowest(Above(d, i))
        BY <1>1, <3>1, <3>2, <4>1, LowestIs
      <4> QED BY <1>1, <3>1, <3>2, <3>4, <4>1, <4>2 DEF BoundValue
    <3> QED BY <3>3, <3>4
  <2> QED BY <2>1, <2>2
<1> QED BY <1>3 DEF n, d2

\* A push leaves the values of the bindings below it alone: the value that the
\* shadowed binding had in the table is now on the stack.
LEMMA PushBindings ==
  ASSUME NEW d \in Seq(DynBinding), NEW H, Proper(H), NEW s \in Symbols, NEW v \in Values,
         NEW b \in DynBinding, b = [symbol |-> s, old_value |-> Content(H, s)]
  PROVE  BindingsOf(Append(d, b), Put(H, s, v), Len(d) + 1)
           = Append(BindingsOf(d, H, Len(d)), [symbol |-> s, value |-> v])
<1> DEFINE n == Len(d)
           d2 == Append(d, b)
           H2 == Put(H, s, v)
<1>1. /\ n \in Nat /\ Len(d2) = n + 1 /\ d2[n + 1] = b
      /\ \A i \in 1 .. n : d2[i] = d[i]
  OBVIOUS
<1>2. /\ Content(H2, s) = v
      /\ \A x : x # s => Content(H2, x) = Content(H, x)
  BY ContentPut
<1> HIDE DEF H2
<1>3. \A i \in 1 .. n : BoundValue(d2, H2, i) = BoundValue(d, H, i)
  BY <1>2, ShadowBindings
<1> HIDE DEF d2, n
<1>4. BoundValue(d2, H2, n + 1) = v
  BY <1>1, <1>2 DEF BoundValue, Above
<1> DEFINE e == [symbol |-> s, value |-> v]
           B == BindingsOf(d, H, n)
           B2 == BindingsOf(d2, H2, n + 1)
<1>5. /\ B \in Seq(Binding) /\ Len(B) = n
      /\ \A i \in 1 .. n : B[i] = [symbol |-> d[i].symbol, value |-> BoundValue(d, H, i)]
  BY <1>1, BindingsSeq DEF n
<1>6. d2 \in Seq(DynBinding) /\ Proper(H2)
  BY ContentPut DEF d2, H2
<1>7. /\ B2 \in Seq(Binding) /\ Len(B2) = n + 1
      /\ \A i \in 1 .. n + 1 : B2[i] = [symbol |-> d2[i].symbol, value |-> BoundValue(d2, H2, i)]
  <2>1. n + 1 \in 0 .. Len(d2)
    BY <1>1
  <2> QED BY <1>6, <2>1, BindingsSeq
<1>8. \A i \in 1 .. n : B2[i] = B[i]
  BY <1>1, <1>3, <1>5, <1>7
<1>9. B2[n + 1] = e
  BY <1>1, <1>4, <1>7
<1> HIDE DEF B, B2
<1>10. e \in Binding
  BY DEF Binding
<1> HIDE DEF e
<1>11. Append(B, e) \in Seq(Binding) /\ Len(Append(B, e)) = n + 1
       /\ (\A i \in 1 .. n : Append(B, e)[i] = B[i]) /\ Append(B, e)[n + 1] = e
  BY <1>1, <1>5, <1>10
<1>12. B2 = Append(B, e)
  <2>1. \A i \in 1 .. n + 1 : B2[i] = Append(B, e)[i]
    BY <1>1, <1>8, <1>9, <1>11
  <2> QED BY <1>7, <1>11, <2>1, SeqEqual
<1> QED BY <1>12 DEF n, d2, H2, B, B2, e

\* A stack is its lower part with the topmost binding appended.
LEMMA TopOfStack ==
  ASSUME NEW d \in Seq(DynBinding), Len(d) > 0
  PROVE  /\ SubSeq(d, 1, Len(d) - 1) \in Seq(DynBinding)
         /\ Len(SubSeq(d, 1, Len(d) - 1)) = Len(d) - 1
         /\ \A i \in 1 .. Len(d) - 1 : SubSeq(d, 1, Len(d) - 1)[i] = d[i]
         /\ d[Len(d)] \in DynBinding
         /\ d = Append(SubSeq(d, 1, Len(d) - 1), d[Len(d)])
<1> DEFINE n == Len(d)
           d2 == SubSeq(d, 1, n - 1)
           b == d[n]
<1>1. n \in Nat \ {0} /\ b \in DynBinding /\ \A i \in 1 .. n - 1 : d[i] \in DynBinding
  BY LenProperties, ElementOfSeq
<1>2. d2 \in Seq(DynBinding) /\ Len(d2) = n - 1 /\ \A i \in 1 .. n - 1 : d2[i] = d[i]
  <2> DEFINE k == n - 1
  <2>1. k \in Nat /\ \A i \in 1 .. k : d[i] \in DynBinding
    BY <1>1
  <2> HIDE DEF k
  <2>2. /\ SubSeq(d, 1, k) \in Seq(DynBinding) /\ Len(SubSeq(d, 1, k)) = k
        /\ \A i \in 1 .. k : SubSeq(d, 1, k)[i] = d[i]
    BY <2>1, SubSeqProperties
  <2> QED BY <2>2 DEF k
<1> HIDE DEF d2, b
<1>3. /\ Append(d2, b) \in Seq(DynBinding) /\ Len(Append(d2, b)) = n
      /\ Append(d2, b)[n] = b /\ \A i \in 1 .. n - 1 : Append(d2, b)[i] = d2[i]
  BY <1>1, <1>2
<1>4. \A i \in 1 .. n : Append(d2, b)[i] = d[i]
  BY <1>1, <1>2, <1>3 DEF b
<1>5. d = Append(d2, b)
  BY <1>3, <1>4, SeqEqual
<1> QED BY <1>1, <1>2, <1>5 DEF d2, b

\* A pop that puts the saved value back leaves the bindings below it alone.
LEMMA PopBindings ==
  ASSUME NEW d \in Seq(DynBinding), NEW H, NEW H2, Len(d) > 0,
         d[Len(d)].old_value = Content(H2, d[Len(d)].symbol),
         \A x : x # d[Len(d)].symbol => Content(H2, x) = Content(H, x),
         NEW m \in 0 .. Len(d) - 1
  PROVE  BindingsOf(SubSeq(d, 1, Len(d) - 1), H2, m) = BindingsOf(d, H, m)
<1> DEFINE n == Len(d)
           d2 == SubSeq(d, 1, n - 1)
           b == d[n]
<1>1. /\ d2 \in Seq(DynBinding) /\ Len(d2) = n - 1 /\ b \in DynBinding
      /\ d = Append(d2, b) /\ \A i \in 1 .. n - 1 : d2[i] = d[i]
  BY TopOfStack
<1>2. b.old_value = Content(H2, b.symbol) /\ \A x : x # b.symbol => Content(H, x) = Content(H2, x)
  OBVIOUS
<1> HIDE DEF d2, b
<1>3. \A i \in 1 .. n - 1 : BoundValue(d, H, i) = BoundValue(d2, H2, i)
  BY <1>1, <1>2, ShadowBindings
<1>4. n \in Nat
  BY LenProperties
<1>5. \A i \in 1 .. m : d2[i].symbol = d[i].symbol /\ BoundValue(d2, H2, i) = BoundValue(d, H, i)
  BY <1>1, <1>3, <1>4
<1> QED BY <1>5 DEF BindingsOf, d2

\* Discarding the bindings above a mark.
LEMMA ExitBindings ==
  ASSUME NEW d \in Seq(DynBinding), NEW H, Proper(H), NEW m \in 0 .. Len(d)
  PROVE  BindingsOf(d, H, m) = SubSeq(BindingsOf(d, H, Len(d)), 1, m)
<1> DEFINE B == BindingsOf(d, H, Len(d))
           C == BindingsOf(d, H, m)
           D == SubSeq(B, 1, m)
<1>1. Len(d) \in Nat /\ m \in Nat /\ Len(d) \in 0 .. Len(d)
  BY LenProperties
<1>2. /\ B \in Seq(Binding) /\ Len(B) = Len(d)
      /\ \A i \in 1 .. Len(d) : B[i] = [symbol |-> d[i].symbol, value |-> BoundValue(d, H, i)]
  BY <1>1, BindingsSeq
<1>3. /\ C \in Seq(Binding) /\ Len(C) = m
      /\ \A i \in 1 .. m : C[i] = [symbol |-> d[i].symbol, value |-> BoundValue(d, H, i)]
  BY <1>1, BindingsSeq
<1> HIDE DEF B, C
<1>4. \A i \in 1 .. m : B[i] \in Binding
  BY <1>1, <1>2, ElementOfSeq
<1>5. D \in Seq(Binding) /\ Len(D) = m /\ \A i \in 1 .. m : D[i] = B[i]
  BY <1>1, <1>4, SubSeqProperties
<1> HIDE DEF D
<1>6. C = D
  <2>1. \A i \in 1 .. m : C[i] = D[i]
    BY <1>1, <1>2, <1>3, <1>5
  <2> QED BY <1>3, <1>5, <2>1, SeqEqual
<1> QED BY <1>6 DEF B, C, D

\* The innermost binding of a symbol has the value held for the symbol.
LEMMA InnerBinding ==
  ASSUME NEW d \in Seq(DynBinding), NEW H, NEW k \in 1 .. Len(d), 
         \A j \in 1 .. Len(d) : d[j].symbol = d[k].symbol => j <= k
  PROVE  BoundValue(d, H, k) = Content(H, d[k].symbol)
<1>1. Len(d) \in Nat
  BY LenProperties
<1>2. Above(d, k) = {}
  BY <1>1 DEF Above
<1> QED BY <1>2 DEF BoundValue

\* A store into the entry of a bound symbol changes its innermost binding only.
LEMMA StoreBindings ==
  ASSUME NEW d \in Seq(DynBinding), NEW H, Proper(H), NEW s \in Symbols, NEW v \in Values,
         NEW k \in 1 .. Len(d), d[k].symbol = s,
         \A j \in 1 .. Len(d) : d[j].symbol = s => j <= k
  PROVE  BindingsOf(d, Put(H, s, v), Len(d)) = [BindingsOf(d, H, Len(d)) EXCEPT ![k].value = v]
<1> DEFINE H2 == Put(H, s, v)
           n == Len(d)
<1>1. n \in Nat
  BY LenProperties
<1>2. /\ Content(H2, s) = v
      /\ \A x : x # s => Content(H2, x) = Content(H, x)
  BY ContentPut
<1> HIDE DEF H2
<1>3. BoundValue(d, H2, k) = v
  BY <1>2, InnerBinding
<1>4. ASSUME NEW i \in 1 .. n, i # k PROVE BoundValue(d, H2, i) = BoundValue(d, H, i)
  <2>1. CASE d[i].symbol # s
    BY <1>2, <2>1 DEF BoundValue
  <2>2. CASE d[i].symbol = s
    <3>1. k \in Above(d, i)
      BY <1>1, <1>4, <2>2 DEF Above
    <3> QED BY <3>1 DEF BoundValue
  <2> QED BY <2>1, <2>2
<1> QED BY <1>3, <1>4 DEF BindingsOf, H2

-----------------------------------------------------------------------------
(* One thread: its stack d, the entries H held for it, the loop o it is in. *)

OnStack(d, s) == \E i \in 1 .. Len(d) : d[i].symbol = s

\* A value is held for exactly the symbols on the stack.
Matches(d, H) == \A s \in Symbols : Holds(H, s) <=> OnStack(d, s)

\* The outermost binding of a symbol, and no other, saved CL_TLV_ABSENT.
Saved(d) ==
  \A i \in 1 .. Len(d) :
    d[i].old_value = Absent <=> \A j \in 1 .. i - 1 : d[j].symbol # d[i].symbol

\* A restore stays above its mark, and a thread that swaps in a global cell has
\* no binding of its own that hides the cell.
LoopOK(d, o) == /\ o.pc = "restore" => o.mark <= Len(d)
                /\ o.pc \in {"reread", "swap"} => ~OnStack(d, o.symbol)

ThreadOK(d, H, o) == Proper(H) /\ Matches(d, H) /\ Saved(d) /\ LoopOK(d, o)

\* Put holds a value for s and for the symbols that had one.
LEMMA PutSymbols ==
  ASSUME NEW H, NEW s, NEW v
  PROVE  \A x : Holds(Put(H, s, v), x) <=> Holds(H, x) \/ x = s
<1> DEFINE n == [symbol |-> s, value |-> v]
<1>1. n.symbol = s /\ n \in Put(H, s, v)
  BY DEF Put
<1>2. \A e : e \in Put(H, s, v) <=> e = n \/ (e \in H /\ e.symbol # s)
  BY DEF Put
<1> HIDE DEF n
<1> QED BY <1>1, <1>2 DEF Holds

\* A binding is pushed.
LEMMA PushOK ==
  ASSUME NEW d \in Seq(DynBinding), NEW H, ThreadOK(d, H, Run), NEW s \in Symbols, NEW v \in Values,
         NEW b, b = [symbol |-> s, old_value |-> Content(H, s)]
  PROVE  b \in DynBinding /\ ThreadOK(Append(d, b), Put(H, s, v), Run)
<1> DEFINE n == Len(d)
           d2 == Append(d, b)
<1>1. b \in DynBinding
  BY ContentType DEF DynBinding, ThreadOK
<1>2. /\ n \in Nat /\ Len(d2) = n + 1 /\ d2[n + 1] = b
      /\ \A i \in 1 .. n : d2[i] = d[i]
  BY <1>1
<1> HIDE DEF n, d2
<1>3. Proper(Put(H, s, v))
  BY ContentPut DEF ThreadOK
<1>4. Matches(d2, Put(H, s, v))
  <2>1. \A x : OnStack(d2, x) <=> OnStack(d, x) \/ x = s
    BY <1>2 DEF OnStack, n
  <2> QED BY <2>1, PutSymbols DEF Matches, ThreadOK
<1>5. Saved(d2)
  <2> SUFFICES ASSUME NEW i \in 1 .. n + 1
               PROVE  d2[i].old_value = Absent <=> \A j \in 1 .. i - 1 : d2[j].symbol # d2[i].symbol
    BY <1>2 DEF Saved
  <2>1. CASE i \in 1 .. n
    <3>1. \A j \in 1 .. i - 1 : d2[j] = d[j]
      BY <1>2, <2>1
    <3> QED BY <1>2, <2>1, <3>1 DEF Saved, ThreadOK, n
  <2>2. CASE i = n + 1
    <3>1. Content(H, s) # Absent <=> OnStack(d, s)
      BY ContentType DEF ThreadOK, Matches
    <3>2. OnStack(d, s) <=> \E j \in 1 .. n : d2[j].symbol = s
      BY <1>2 DEF OnStack, n
    <3>3. 1 .. i - 1 = 1 .. n /\ d2[i].symbol = s /\ d2[i].old_value = Content(H, s)
      BY <1>2, <2>2
    <3> QED BY <3>1, <3>2, <3>3
  <2> QED BY <1>2, <2>1, <2>2
<1>6. LoopOK(d2, Run)
  BY DEF LoopOK, Run
<1> QED BY <1>1, <1>3, <1>4, <1>5, <1>6 DEF ThreadOK, d2

\* The topmost binding is popped and its saved value put back.
LEMMA PopOK ==
  ASSUME NEW d \in Seq(DynBinding), NEW H, NEW o, ThreadOK(d, H, o), Len(d) > 0,
         NEW b, b = d[Len(d)],
         NEW H2, H2 = IF b.old_value = Absent THEN Drop(H, b.symbol)
                      ELSE Put(H, b.symbol, b.old_value),
         NEW o2, LoopOK(SubSeq(d, 1, Len(d) - 1), o2)
  PROVE  /\ ThreadOK(SubSeq(d, 1, Len(d) - 1), H2, o2)
         /\ b.old_value = Content(H2, b.symbol)
         /\ \A x : x # b.symbol => Content(H2, x) = Content(H, x)
<1> DEFINE n == Len(d)
           d2 == SubSeq(d, 1, n - 1)
<1>1. /\ d2 \in Seq(DynBinding) /\ Len(d2) = n - 1 /\ b \in DynBinding
      /\ n \in Nat \ {0} /\ \A i \in 1 .. n - 1 : d2[i] = d[i]
  BY TopOfStack, LenProperties
<1>2. b.symbol \in Symbols /\ b.old_value \in Values \cup {Absent}
  BY <1>1 DEF DynBinding
<1> HIDE DEF d2
<1>3. /\ Proper(H2) /\ Content(H2, b.symbol) = b.old_value
      /\ \A x : x # b.symbol => Content(H2, x) = Content(H, x)
  <2>1. CASE b.old_value = Absent
    BY <1>2, <2>1, ContentDrop DEF ThreadOK
  <2>2. CASE b.old_value # Absent
    BY <1>2, <2>2, ContentPut DEF ThreadOK
  <2> QED BY <2>1, <2>2
<1>4. Matches(d2, H2)
  <2> SUFFICES ASSUME NEW x \in Symbols
               PROVE  Holds(H2, x) <=> OnStack(d2, x)
    BY DEF Matches
  <2>1. Holds(H2, x) <=> Content(H2, x) # Absent
    BY <1>3, ContentType
  <2>2. OnStack(d2, x) <=> \E i \in 1 .. n - 1 : d[i].symbol = x
    BY <1>1 DEF OnStack
  <2>3. CASE x = b.symbol
    <3>1. b.old_value = Absent <=> \A j \in 1 .. n - 1 : d[j].symbol # b.symbol
      BY <1>1 DEF ThreadOK, Saved
    <3> QED BY <1>3, <2>1, <2>2, <2>3, <3>1
  <2>4. CASE x # b.symbol
    <3>1. Content(H, x) # Absent <=> OnStack(d, x)
      BY ContentType DEF ThreadOK, Matches
    <3>2. OnStack(d, x) <=> \E i \in 1 .. n - 1 : d[i].symbol = x
      BY <1>1, <2>4 DEF OnStack
    <3> QED BY <1>3, <2>1, <2>2, <2>4, <3>1, <3>2
  <2> QED BY <2>3, <2>4
<1>5. Saved(d2)
  <2> SUFFICES ASSUME NEW i \in 1 .. n - 1
               PROVE  d2[i].old_value = Absent <=> \A j \in 1 .. i - 1 : d2[j].symbol # d2[i].symbol
    BY <1>1 DEF Saved
  <2>1. d2[i] = d[i] /\ i \in 1 .. Len(d) /\ \A j \in 1 .. i - 1 : d2[j] = d[j]
    BY <1>1
  <2> QED BY <2>1 DEF Saved, ThreadOK
<1> QED BY <1>3, <1>4, <1>5 DEF ThreadOK, d2

\* A bound symbol is assigned.
LEMMA StoreOK ==
  ASSUME NEW d, NEW H, NEW o, ThreadOK(d, H, o), NEW s \in Symbols, NEW v \in Values, OnStack(d, s)
  PROVE  ThreadOK(d, Put(H, s, v), o)
<1>1. Proper(Put(H, s, v))
  BY ContentPut DEF ThreadOK
<1>2. Matches(d, Put(H, s, v))
  BY PutSymbols DEF Matches, ThreadOK
<1> QED BY <1>1, <1>2 DEF ThreadOK

-----------------------------------------------------------------------------
(* The inductive invariant.                                                *)

\* Every probe of every table works.
Tables == \A t \in Threads : GoodTable(tlv[t], hash)

\* A collection has put every entry back before any loop begins.
Apart == (\E t \in Threads : live[t] # {}) => \A u \in Threads : op[u] = Run

IInv == /\ TypeOK /\ Tables /\ Apart
        /\ \A t \in Threads : ThreadOK(dyn_stack[t], Held(t), op[t])

\* tlv_entry_count is zero exactly when there is no entry.
LEMMA CountEntries ==
  ASSUME NEW h, NEW tab \in Table, GoodTable(tab, h)
  PROVE  tab.count = 0 <=> Entries(tab) = {}
<1>1. IsFiniteSet(Slots) /\ Live(tab) \in SUBSET Slots
  BY FS_Interval, SizeAssumption DEF Slots, Live
<1>2. IsFiniteSet(Live(tab))
  BY <1>1, FS_Subset
<1>3. tab.count = 0 <=> Live(tab) = {}
  BY <1>2, FS_EmptySet DEF GoodTable, Counted
<1>4. Live(tab) = {} <=> Entries(tab) = {}
  BY DEF Entries
<1> QED BY <1>3, <1>4

\* What the reads of a table return.
LEMMA ReadEntries ==
  ASSUME NEW tab \in Table, hash \in [Symbols -> Slots], GoodTable(tab, hash), NEW s \in Symbols, NEW cells
  PROVE  /\ cl_tlv_get(tab, hash[s], s) = Content(Entries(tab), s)
         /\ (tab.count > 0 /\ cl_tlv_get(tab, hash[s], s) # Absent) <=> Content(Entries(tab), s) # Absent
         /\ cl_symbol_value_on(tab, cells, s) =
              IF Content(Entries(tab), s) # Absent THEN Content(Entries(tab), s) ELSE cells[s]
<1>1. cl_tlv_get(tab, hash[s], s) = Content(Entries(tab), s)
  BY GetEntries
<1>2. tab.count = 0 => Content(Entries(tab), s) = Absent
  BY CountEntries DEF Content
<1>3. tab.count \in Nat
  BY DEF Table
<1>4. (tab.count > 0 /\ cl_tlv_get(tab, hash[s], s) # Absent) <=> Content(Entries(tab), s) # Absent
  BY <1>1, <1>2, <1>3
<1> QED BY <1>1, <1>4 DEF cl_symbol_value_on

-----------------------------------------------------------------------------
(* What the steps do to the table, the entries held and the bindings.      *)

\* The values of op: which fields a loop has.
LEMMA OpTypes ==
  /\ Run \in Op /\ Run.pc = "run"
  /\ \A m \in 0 .. MaxDyn, b \in BOOLEAN :
       Restore(m, b) \in Op /\ Restore(m, b).pc = "restore" /\ Restore(m, b).mark = m
  /\ \A pc \in {"reread", "swap"}, s \in Symbols, old, new \in Values :
       Cas(pc, s, old, new) \in Op /\ Cas(pc, s, old, new).pc = pc /\ Cas(pc, s, old, new).symbol = s
  /\ \A o \in Op : /\ o.pc = "restore" => o.mark \in 0 .. MaxDyn /\ o.touched \in BOOLEAN
                   /\ o.pc \in {"reread", "swap"} => o.symbol \in Symbols /\ o.old \in Values /\ o.new \in Values
<1>1. Run \in Op /\ Run.pc = "run"
  BY DEF Run, Op
<1>2. \A m \in 0 .. MaxDyn, b \in BOOLEAN :
        Restore(m, b) \in Op /\ Restore(m, b).pc = "restore" /\ Restore(m, b).mark = m
  BY DEF Op, Restore
<1>3. \A pc \in {"reread", "swap"}, s \in Symbols, old, new \in Values :
       Cas(pc, s, old, new) \in Op /\ Cas(pc, s, old, new).pc = pc /\ Cas(pc, s, old, new).symbol = s
  BY DEF Cas, Op
<1>4. ASSUME NEW o \in Op
      PROVE  /\ o.pc = "restore" => o.mark \in 0 .. MaxDyn /\ o.touched \in BOOLEAN
             /\ o.pc \in {"reread", "swap"} => o.symbol \in Symbols /\ o.old \in Values /\ o.new \in Values
  BY DEF Op, Run
<1> QED BY <1>1, <1>2, <1>3, <1>4

\* While a thread runs or is in a loop no entry awaits rehash.
LEMMA NoneAway ==
  ASSUME TypeOK, Apart, NEW t \in Threads,
         Running(t) \/ op[t].pc \in {"restore", "reread", "swap"}
  PROVE  /\ \A u \in Threads : live[u] = {} /\ Held(u) = Entries(tlv[u])
         /\ live' = live => Apart'
<1>1. op[t] = Run => op[t].pc = "run"
  BY OpTypes
<1>2. \A u \in Threads : live[u] = {}
  BY <1>1 DEF Apart, Running
<1> QED BY <1>2 DEF Held, Apart

\* What a running thread reads.
LEMMA RunningReads ==
  ASSUME TypeOK, Tables, Apart, NEW t \in Threads, Running(t), NEW s \in Symbols
  PROVE  /\ Get(t, s) = Content(Held(t), s)
         /\ (tlv[t].count > 0 /\ Get(t, s) # Absent) <=> Content(Held(t), s) # Absent
         /\ cl_symbol_value_on(tlv[t], value, s) =
              IF Content(Held(t), s) # Absent THEN Content(Held(t), s) ELSE value[s]
<1>1. Held(t) = Entries(tlv[t])
  BY NoneAway
<1>2. tlv[t] \in Table /\ hash \in [Symbols -> Slots] /\ GoodTable(tlv[t], hash)
  BY DEF TypeOK, Tables
<1>3. /\ cl_tlv_get(tlv[t], hash[s], s) = Content(Entries(tlv[t]), s)
      /\ (tlv[t].count > 0 /\ cl_tlv_get(tlv[t], hash[s], s) # Absent)
           <=> Content(Entries(tlv[t]), s) # Absent
      /\ cl_symbol_value_on(tlv[t], value, s) =
           IF Content(Entries(tlv[t]), s) # Absent THEN Content(Entries(tlv[t]), s) ELSE value[s]
  BY <1>2, ReadEntries
<1> QED BY <1>1, <1>3 DEF Get

\* A step that replaces the table of one thread by a good one.
LEMMA TableStep ==
  ASSUME TypeOK, Tables, NEW t \in Threads, NEW tab \in Table, GoodTable(tab, hash),
         hash' = hash, live' = live, tlv' = [tlv EXCEPT ![t] = tab]
  PROVE  /\ tlv' \in [Threads -> Table] /\ Tables'
         /\ Held(t)' = Entries(tab) \cup live[t]
         /\ \A u \in Threads : u # t => Held(u)' = Held(u)
<1>1. /\ tlv' \in [Threads -> Table] /\ tlv'[t] = tab
      /\ \A u \in Threads : u # t => tlv'[u] = tlv[u]
  BY DEF TypeOK
<1>2. Tables'
  BY <1>1 DEF Tables
<1> QED BY <1>1, <1>2 DEF Held

\* cl_tlv_set on the table of one thread.
LEMMA SetStep ==
  ASSUME Fits, TypeOK, Tables, NEW t \in Threads, NEW s \in Symbols, NEW v \in Values,
         hash' = hash, live' = live, Held(t) = Entries(tlv[t]), live[t] = {},
         tlv' = [tlv EXCEPT ![t] = cl_tlv_set(@, hash[s], s, v)]
  PROVE  /\ tlv' \in [Threads -> Table] /\ Tables'
         /\ Held(t)' = Put(Held(t), s, v)
         /\ \A u \in Threads : u # t => Held(u)' = Held(u)
<1> DEFINE tab == cl_tlv_set(tlv[t], hash[s], s, v)
<1>1. tlv[t] \in Table /\ hash \in [Symbols -> Slots] /\ GoodTable(tlv[t], hash)
  BY DEF TypeOK, Tables
<1>2. tab \in Table /\ GoodTable(tab, hash) /\ Entries(tab) = Put(Entries(tlv[t]), s, v)
  BY <1>1, SetEntries
<1>3. tlv' = [tlv EXCEPT ![t] = tab]
  OBVIOUS
<1> HIDE DEF tab
<1> QED BY <1>2, <1>3, TableStep

\* One pop of cl_dynbind_restore_to takes the entry away or puts the saved
\* value into it.
LEMMA RestoredStep ==
  ASSUME Fits, TypeOK, Tables, NEW t \in Threads, NEW b \in DynBinding,
         hash' = hash, live' = live, Held(t) = Entries(tlv[t]), live[t] = {},
         tlv' = [tlv EXCEPT ![t] = Restored(@, b)]
  PROVE  /\ tlv' \in [Threads -> Table] /\ Tables'
         /\ Held(t)' = IF b.old_value = Absent THEN Drop(Held(t), b.symbol)
                       ELSE Put(Held(t), b.symbol, b.old_value)
         /\ \A u \in Threads : u # t => Held(u)' = Held(u)
<1> DEFINE tab == Restored(tlv[t], b)
<1>1. tlv[t] \in Table /\ hash \in [Symbols -> Slots] /\ GoodTable(tlv[t], hash)
  BY DEF TypeOK, Tables
<1>2. b.symbol \in Symbols /\ b.old_value \in Values \cup {Absent}
  BY DEF DynBinding
<1>3. /\ tab \in Table /\ GoodTable(tab, hash)
      /\ Entries(tab) = IF b.old_value = Absent THEN Drop(Entries(tlv[t]), b.symbol)
                        ELSE Put(Entries(tlv[t]), b.symbol, b.old_value)
  <2>1. CASE b.old_value = Absent
    BY <1>1, <1>2, <2>1, RemoveEntries DEF Restored
  <2>2. CASE b.old_value # Absent
    BY <1>1, <1>2, <2>2, SetEntries DEF Restored
  <2> QED BY <2>1, <2>2
<1>4. tlv' = [tlv EXCEPT ![t] = tab]
  OBVIOUS
<1> HIDE DEF tab
<1> QED BY <1>3, <1>4, TableStep

\* The refresh of the package cache keeps it a package.
LEMMA SyncType ==
  ASSUME TypeOK, NEW t \in Threads, NEW cond, SyncIf(cond, t)
  PROVE  current_package' \in [Threads -> Packages]
  BY DEF SyncIf, cl_sync_current_package_from_dynamic, TypeOK

\* A step of thread t alone.
DepthOf(d, o) == IF o.pc = "restore" THEN o.mark ELSE Len(d)

StepOf(t, d, H, o) ==
  /\ dyn_stack' = [dyn_stack EXCEPT ![t] = d]
  /\ op' = [op EXCEPT ![t] = o]
  /\ Held(t)' = H
  /\ \A u \in Threads : u # t => Held(u)' = Held(u)

\* Such a step keeps the invariant if the thread's new state is good, and
\* changes the bindings of t only.
LEMMA StepOfThread ==
  ASSUME IInv, NEW t \in Threads, NEW d, NEW H, NEW o,
         StepOf(t, d, H, o), ThreadOK(d, H, o), TypeOK', Tables', Apart'
  PROVE  IInv' /\ Bindings' = [Bindings EXCEPT ![t] = BindingsOf(d, H, DepthOf(d, o))]
<1>1. /\ dyn_stack'[t] = d /\ op'[t] = o /\ Held(t)' = H
      /\ \A u \in Threads : u # t => dyn_stack'[u] = dyn_stack[u] /\ op'[u] = op[u] /\ Held(u)' = Held(u)
  BY DEF IInv, TypeOK, StepOf
<1>2. \A u \in Threads : ThreadOK(dyn_stack'[u], Held(u)', op'[u])
  BY <1>1 DEF IInv
<1>3. IInv'
  BY <1>2 DEF IInv
<1>4. \A u \in Threads : Bindings'[u] = IF u = t THEN BindingsOf(d, H, DepthOf(d, o)) ELSE Bindings[u]
  BY <1>1 DEF Bindings, Depth, DepthOf
<1>5. Bindings' = [Bindings EXCEPT ![t] = BindingsOf(d, H, DepthOf(d, o))]
  BY <1>4 DEF Bindings
<1> QED BY <1>3, <1>5

\* A non-empty set of indices has a greatest one.
LEMMA GreatestIndex ==
  ASSUME NEW n \in Nat, NEW S \in SUBSET (1 .. n), S # {}
  PROVE  \E m \in S : \A k \in S : k <= m
<1> DEFINE D == {n - i : i \in S}
<1>1. D \in SUBSET Nat /\ D # {}
  <2>1. \A i \in S : n - i \in Nat
    OBVIOUS
  <2> QED BY <2>1
<1>2. PICK x \in D : \A k \in D : x <= k
  BY <1>1, LeastNatural
<1>3. PICK m \in S : x = n - m
  OBVIOUS
<1>4. ASSUME NEW k \in S PROVE k <= m
  <2>1. n - m <= n - k
    BY <1>2, <1>3
  <2> QED BY <2>1
<1> QED BY <1>4

\* What the abstract specification sees of a thread that is not in a restore.
LEMMA Visible ==
  ASSUME IInv, NEW t \in Threads, op[t].pc # "restore", NEW s \in Symbols
  PROVE  /\ Bindings[t] = BindingsOf(dyn_stack[t], Held(t), Len(dyn_stack[t]))
         /\ Len(Bindings[t]) = Len(dyn_stack[t])
         /\ SV!Of(t, s) = {i \in 1 .. Len(dyn_stack[t]) : dyn_stack[t][i].symbol = s}
         /\ SV!Of(t, s) # {} <=> Content(Held(t), s) # Absent
         /\ SV!Of(t, s) # {} => SV!Inner(t, s) \in SV!Of(t, s) /\ \A j \in SV!Of(t, s) : j <= SV!Inner(t, s)
         /\ SV!Value(t, s) = IF Content(Held(t), s) # Absent THEN Content(Held(t), s) ELSE value[s]
<1> DEFINE d == dyn_stack[t]
           H == Held(t)
           B == BindingsOf(d, H, Len(d))
           S == {i \in 1 .. Len(d) : d[i].symbol = s}
<1>1. Bindings[t] = B
  BY DEF Bindings, Depth
<1>2. d \in Seq(DynBinding) /\ Len(d) \in Nat /\ ThreadOK(d, H, op[t])
  BY LenProperties DEF IInv, TypeOK
<1> HIDE DEF d, H
<1> HIDE DEF B
<1>3. /\ Len(B) = Len(d)
      /\ \A i \in 1 .. Len(d) : B[i].symbol = d[i].symbol /\ B[i].value = BoundValue(d, H, i)
  <2>1. Len(d) \in 0 .. Len(d)
    BY <1>2
  <2>2. /\ Len(B) = Len(d)
        /\ \A i \in 1 .. Len(d) : B[i] = [symbol |-> d[i].symbol, value |-> BoundValue(d, H, i)]
    BY <1>2, <2>1, BindingsSeq DEF ThreadOK, B
  <2>3. ASSUME NEW i \in 1 .. Len(d)
        PROVE  B[i].symbol = d[i].symbol /\ B[i].value = BoundValue(d, H, i)
    <3>1. B[i] = [symbol |-> d[i].symbol, value |-> BoundValue(d, H, i)]
      BY <2>2
    <3> QED BY <3>1
  <2> QED BY <2>2, <2>3
<1>4. SV!Of(t, s) = S
  <2>1. SV!Of(t, s) = {i \in 1 .. Len(B) : B[i].symbol = s}
    BY <1>1 DEF SV!Of
  <2> QED BY <1>3, <2>1
<1>5. S # {} <=> Content(H, s) # Absent
  <2>1. S # {} <=> OnStack(d, s)
    BY DEF OnStack
  <2>2. Holds(H, s) <=> OnStack(d, s)
    BY <1>2 DEF ThreadOK, Matches
  <2>3. Content(H, s) # Absent <=> Holds(H, s)
    BY <1>2, ContentType DEF ThreadOK
  <2> QED BY <2>1, <2>2, <2>3
<1>6. S # {} => SV!Inner(t, s) \in S /\ \A j \in S : j <= SV!Inner(t, s)
  <2>1. S # {} => \E m \in S : \A k \in S : k <= m
    BY <1>2, GreatestIndex
  <2> QED BY <1>4, <2>1 DEF SV!Inner
<1>7. SV!Value(t, s) = IF Content(H, s) # Absent THEN Content(H, s) ELSE value[s]
  <2>1. CASE S = {}
    BY <1>4, <1>5, <2>1 DEF SV!Value
  <2>2. CASE S # {}
    <3> DEFINE k == SV!Inner(t, s)
    <3>1. k \in 1 .. Len(d) /\ d[k].symbol = s /\ \A j \in 1 .. Len(d) : d[j].symbol = s => j <= k
      BY <1>6, <2>2
    <3>2. SV!Value(t, s) = B[k].value
      BY <1>1, <1>4, <2>2 DEF SV!Value
    <3> HIDE DEF k
    <3>3. B[k].value = BoundValue(d, H, k)
      BY <1>3, <3>1
    <3>4. BoundValue(d, H, k) = Content(H, s)
      BY <1>2, <3>1, InnerBinding
    <3> QED BY <1>5, <2>2, <3>2, <3>3, <3>4
  <2> QED BY <2>1, <2>2
<1> QED BY <1>1, <1>3, <1>4, <1>5, <1>6, <1>7 DEF d, H, B

-----------------------------------------------------------------------------
(* Each step keeps the invariant and is a step of SpecialVariables.        *)

\* OP_DYNBIND and OP_PROGV_BIND bind.
LEMMA PushStep ==
  ASSUME Fits, IInv, NEW t \in Threads, NEW s \in Symbols, NEW v \in Values,
         Running(t), Push(t, s, v), current_package' \in [Threads -> Packages]
  PROVE  IInv' /\ SV!Bind(t, s, v)
<1> DEFINE d == dyn_stack[t]
           H == Held(t)
           b == [symbol |-> s, old_value |-> Content(H, s)]
<1>1. TypeOK /\ Tables /\ Apart /\ ThreadOK(d, H, Run) /\ op[t] = Run /\ op[t].pc # "restore"
  BY OpTypes DEF IInv, Running
<1>2. /\ live[t] = {} /\ H = Entries(tlv[t]) /\ Get(t, s) = Content(H, s)
      /\ hash' = hash /\ live' = live /\ op' = op /\ value' = value /\ ret' = NoAnswer
      /\ Len(d) < MaxDyn /\ Apart'
  BY <1>1, NoneAway, RunningReads DEF Push
<1>3. d \in Seq(DynBinding) /\ Len(d) \in Nat
  BY <1>1, LenProperties DEF TypeOK
<1>4. /\ tlv' \in [Threads -> Table] /\ Tables' /\ Held(t)' = Put(H, s, v)
      /\ \A u \in Threads : u # t => Held(u)' = Held(u)
  BY <1>1, <1>2, SetStep DEF Push
<1>5. dyn_stack' = [dyn_stack EXCEPT ![t] = Append(d, b)]
  BY <1>2 DEF Push
<1> HIDE DEF d, H, b
<1>6. b \in DynBinding /\ ThreadOK(Append(d, b), Put(H, s, v), Run)
  BY <1>1, <1>3, PushOK DEF b
<1>7. Append(d, b) \in Seq(DynBinding) /\ Len(Append(d, b)) = Len(d) + 1
  BY <1>3, <1>6
<1>8. TypeOK'
  <2>1. dyn_stack' \in [Threads -> Seq(DynBinding)] /\ \A u \in Threads : Len(dyn_stack'[u]) <= MaxDyn
    BY <1>1, <1>2, <1>3, <1>5, <1>7, MaxDynAssumption DEF TypeOK
  <2> QED BY <1>1, <1>2, <1>4, <2>1 DEF TypeOK
<1>9. StepOf(t, Append(d, b), Put(H, s, v), Run)
  BY <1>1, <1>2, <1>4, <1>5 DEF StepOf, TypeOK
<1>10. /\ IInv'
       /\ Bindings' = [Bindings EXCEPT ![t] = BindingsOf(Append(d, b), Put(H, s, v), Len(d) + 1)]
  <2>1. DepthOf(Append(d, b), Run) = Len(d) + 1
    BY <1>7, OpTypes DEF DepthOf
  <2> QED BY <1>2, <1>4, <1>6, <1>8, <1>9, <2>1, StepOfThread
<1>11. BindingsOf(Append(d, b), Put(H, s, v), Len(d) + 1) = Append(Bindings[t], [symbol |-> s, value |-> v])
  <2>1. Bindings[t] = BindingsOf(d, H, Len(d))
    BY <1>1, Visible DEF d, H
  <2> QED BY <1>1, <1>3, <1>6, <2>1, PushBindings DEF ThreadOK, b
<1>12. Len(Bindings[t]) < MaxDyn
  BY <1>1, <1>2, Visible DEF d
<1> QED BY <1>2, <1>10, <1>11, <1>12 DEF SV!Bind

\* A step that leaves stacks, tables and entries alone and may begin, end or
\* continue a loop of thread t.
LEMMA LoopStep ==
  ASSUME IInv, NEW t \in Threads, NEW o, LoopOK(dyn_stack[t], o),
         UNCHANGED <<hash, tlv, dyn_stack, live>>, op' = [op EXCEPT ![t] = o], TypeOK', Apart'
  PROVE  /\ IInv'
         /\ Bindings' = [Bindings EXCEPT ![t] = BindingsOf(dyn_stack[t], Held(t), DepthOf(dyn_stack[t], o))]
<1>1. Tables' /\ \A u \in Threads : Held(u)' = Held(u)
  BY DEF IInv, Tables, Held
<1>2. ThreadOK(dyn_stack[t], Held(t), o)
  BY DEF IInv, ThreadOK
<1>3. StepOf(t, dyn_stack[t], Held(t), o)
  BY <1>1 DEF StepOf, IInv, TypeOK
<1> QED BY <1>1, <1>2, <1>3, StepOfThread

\* A step that keeps the depth of t keeps all bindings.
LEMMA SameDepth ==
  ASSUME IInv, NEW t \in Threads, NEW n, n = Depth(t)
  PROVE  [Bindings EXCEPT ![t] = BindingsOf(dyn_stack[t], Held(t), n)] = Bindings
<1>1. Bindings[t] = BindingsOf(dyn_stack[t], Held(t), n)
  BY DEF Bindings
<1> QED BY <1>1 DEF Bindings

\* The entry into cl_dynbind_restore_to is where the exit happens.
LEMMA RestoreToStep ==
  ASSUME IInv, NEW t \in Threads, NEW mark \in 0 .. MaxDyn, RestoreTo(t, mark)
  PROVE  IInv' /\ mark \in 0 .. Len(Bindings[t]) /\ SV!Exit(t, mark)
<1> DEFINE d == dyn_stack[t]
           o == Restore(mark, FALSE)
<1>1. /\ Running(t) /\ mark < Len(d) /\ op' = [op EXCEPT ![t] = o] /\ ret' = NoAnswer
      /\ UNCHANGED <<hash, tlv, dyn_stack, value, current_package, live>>
  BY DEF RestoreTo
<1>2. TypeOK /\ Apart' /\ op[t].pc # "restore" /\ Package \in Symbols
  BY <1>1, NoneAway, OpTypes, PackageAssumption DEF IInv, Running
<1>3. o \in Op /\ o.pc = "restore" /\ o.mark = mark
  BY OpTypes
<1>4. d \in Seq(DynBinding) /\ Len(d) \in Nat /\ Proper(Held(t))
  BY <1>2, LenProperties DEF TypeOK, IInv, ThreadOK
<1> HIDE DEF o
<1>5. TypeOK'
  BY <1>1, <1>2, <1>3 DEF TypeOK
<1>6. LoopOK(d, o)
  BY <1>1, <1>3, <1>4 DEF LoopOK
<1>7. IInv' /\ Bindings' = [Bindings EXCEPT ![t] = BindingsOf(d, Held(t), mark)]
  <2>1. DepthOf(d, o) = mark
    BY <1>3 DEF DepthOf
  <2> QED BY <1>1, <1>2, <1>5, <1>6, <2>1, LoopStep
<1>8. Bindings[t] = BindingsOf(d, Held(t), Len(d)) /\ Len(Bindings[t]) = Len(d)
  BY <1>2, Visible
<1>9. mark \in 0 .. Len(d)
  BY <1>1, <1>4
<1>10. BindingsOf(d, Held(t), mark) = SubSeq(Bindings[t], 1, mark)
  BY <1>4, <1>8, <1>9, ExitBindings
<1> QED BY <1>1, <1>7, <1>8, <1>9, <1>10 DEF SV!Exit

\* Each pop of cl_dynbind_restore_to shows in none of the bindings.
LEMMA RestorePopStep ==
  ASSUME Fits, IInv, NEW t \in Threads, RestorePop(t)
  PROVE  IInv' /\ SV!Silent
<1> DEFINE d == dyn_stack[t]
           H == Held(t)
           n == Len(d)
           b == d[n]
           o == Restore(op[t].mark, TouchedPackage(op[t].touched, b))
           H2 == IF b.old_value = Absent THEN Drop(H, b.symbol) ELSE Put(H, b.symbol, b.old_value)
           d2 == SubSeq(d, 1, n - 1)
<1>1. /\ op[t].pc = "restore" /\ n > op[t].mark /\ ret' = NoAnswer
      /\ UNCHANGED <<hash, value, current_package, live>>
      /\ op' = [op EXCEPT ![t] = o] /\ dyn_stack' = [dyn_stack EXCEPT ![t] = d2]
      /\ tlv' = [tlv EXCEPT ![t] = Restored(@, b)]
  BY DEF RestorePop
<1>2. TypeOK /\ Tables /\ Apart /\ ThreadOK(d, H, op[t])
  BY DEF IInv
<1>3. op[t].mark \in 0 .. MaxDyn /\ op[t].touched \in BOOLEAN
  BY <1>1, <1>2, OpTypes DEF TypeOK
<1>4. o \in Op /\ o.pc = "restore" /\ o.mark = op[t].mark
  <2>1. TouchedPackage(op[t].touched, b) \in BOOLEAN
    BY <1>3 DEF TouchedPackage
  <2> QED BY <1>3, <2>1, OpTypes
<1>5. d \in Seq(DynBinding) /\ n \in Nat /\ n <= MaxDyn /\ n > 0
  <2>1. d \in Seq(DynBinding) /\ n \in Nat /\ n <= MaxDyn
    BY <1>2, LenProperties DEF TypeOK
  <2> QED BY <1>1, <1>3, <2>1
<1>6. /\ d2 \in Seq(DynBinding) /\ Len(d2) = n - 1 /\ b \in DynBinding
  BY <1>5, TopOfStack
<1>7. live[t] = {} /\ H = Entries(tlv[t]) /\ Apart'
  BY <1>1, <1>2, NoneAway
<1>8. /\ tlv' \in [Threads -> Table] /\ Tables' /\ Held(t)' = H2
      /\ \A u \in Threads : u # t => Held(u)' = Held(u)
  BY <1>1, <1>2, <1>6, <1>7, RestoredStep
<1> HIDE DEF d, H, o, H2
<1>9. LoopOK(d2, o)
  BY <1>1, <1>3, <1>4, <1>5, <1>6 DEF LoopOK
<1>10. /\ ThreadOK(d2, H2, o) /\ b.old_value = Content(H2, b.symbol)
       /\ \A x : x # b.symbol => Content(H2, x) = Content(H, x)
  BY <1>2, <1>5, <1>9, PopOK DEF H2
<1>11. BindingsOf(d2, H2, op[t].mark) = BindingsOf(d, H, op[t].mark)
  <2>1. op[t].mark \in 0 .. n - 1
    BY <1>1, <1>3, <1>5
  <2> QED BY <1>5, <1>10, <2>1, PopBindings
<1> HIDE DEF d2
<1>12. TypeOK'
  <2>1. dyn_stack' \in [Threads -> Seq(DynBinding)] /\ \A u \in Threads : Len(dyn_stack'[u]) <= MaxDyn
    BY <1>1, <1>2, <1>5, <1>6, MaxDynAssumption DEF TypeOK
  <2>2. op' \in [Threads -> Op]
    BY <1>1, <1>2, <1>4 DEF TypeOK
  <2> QED BY <1>1, <1>2, <1>8, <2>1, <2>2 DEF TypeOK
<1>13. StepOf(t, d2, H2, o)
  BY <1>1, <1>8 DEF StepOf
<1>14. IInv' /\ Bindings' = [Bindings EXCEPT ![t] = BindingsOf(d, H, op[t].mark)]
  <2>1. DepthOf(d2, o) = op[t].mark
    BY <1>4 DEF DepthOf
  <2> QED BY <1>7, <1>8, <1>10, <1>11, <1>12, <1>13, <2>1, StepOfThread
<1>15. Bindings' = Bindings
  <2>1. op[t].mark = Depth(t)
    BY <1>1 DEF Depth
  <2> QED BY <1>14, <2>1, SameDepth DEF d, H
<1> QED BY <1>1, <1>14, <1>15 DEF SV!Silent

\* Nor does the end of its loop.
LEMMA RestoreDoneStep ==
  ASSUME IInv, NEW t \in Threads, RestoreDone(t)
  PROVE  IInv' /\ SV!Silent
<1>1. /\ op[t].pc = "restore" /\ Len(dyn_stack[t]) = op[t].mark /\ ret' = NoAnswer
      /\ UNCHANGED <<hash, tlv, dyn_stack, value, live>>
      /\ op' = [op EXCEPT ![t] = Run] /\ SyncIf(op[t].touched, t)
  BY DEF RestoreDone
<1>2. TypeOK /\ Apart' /\ current_package' \in [Threads -> Packages]
  BY <1>1, NoneAway, SyncType DEF IInv
<1>3. TypeOK'
  BY <1>1, <1>2, OpTypes DEF TypeOK
<1>4. LoopOK(dyn_stack[t], Run) /\ DepthOf(dyn_stack[t], Run) = Depth(t)
  BY <1>1, OpTypes DEF LoopOK, DepthOf, Depth
<1>5. IInv' /\ Bindings' = Bindings
  BY <1>1, <1>2, <1>3, <1>4, LoopStep, SameDepth
<1> QED BY <1>1, <1>5 DEF SV!Silent

\* Storing into the thread's own entry.
LEMMA OwnStoreStep ==
  ASSUME Fits, IInv, NEW t \in Threads, NEW s \in Symbols, NEW v \in Values, Running(t),
         Content(Held(t), s) # Absent,
         tlv' = [tlv EXCEPT ![t] = cl_tlv_set(@, hash[s], s, v)],
         UNCHANGED <<hash, dyn_stack, value, op, live>>,
         current_package' \in [Threads -> Packages], 
         ret' \in [thread : Threads, value : Values, stored : Values \cup {NoAnswer}] \cup {NoAnswer}
  PROVE  IInv' /\ SV!Store(t, s, v)
<1> DEFINE d == dyn_stack[t]
           H == Held(t)
           k == SV!Inner(t, s)
<1>1. TypeOK /\ Tables /\ Apart /\ ThreadOK(d, H, Run) /\ op[t] = Run /\ op[t].pc # "restore"
  BY OpTypes DEF IInv, Running
<1>2. live[t] = {} /\ H = Entries(tlv[t]) /\ Apart'
  BY <1>1, NoneAway
<1>3. d \in Seq(DynBinding) /\ Len(d) \in Nat
  BY <1>1, LenProperties DEF TypeOK
<1>4. /\ tlv' \in [Threads -> Table] /\ Tables' /\ Held(t)' = Put(H, s, v)
      /\ \A u \in Threads : u # t => Held(u)' = Held(u)
  BY <1>1, <1>2, SetStep
<1>5. /\ Bindings[t] = BindingsOf(d, H, Len(d)) /\ SV!Of(t, s) # {}
      /\ k \in 1 .. Len(d) /\ d[k].symbol = s /\ \A j \in 1 .. Len(d) : d[j].symbol = s => j <= k
  BY <1>1, Visible
<1>6. ThreadOK(d, Put(H, s, v), Run)
  BY <1>1, <1>5, StoreOK DEF OnStack
<1>7. TypeOK'
  BY <1>1, <1>4 DEF TypeOK
<1>8. StepOf(t, d, Put(H, s, v), Run)
  BY <1>1, <1>4 DEF StepOf, TypeOK
<1>9. IInv' /\ Bindings' = [Bindings EXCEPT ![t] = BindingsOf(d, Put(H, s, v), Len(d))]
  <2>1. DepthOf(d, Run) = Len(d)
    BY OpTypes DEF DepthOf
  <2> QED BY <1>2, <1>4, <1>6, <1>7, <1>8, <2>1, StepOfThread
<1> HIDE DEF k, d, H
<1>10. BindingsOf(d, Put(H, s, v), Len(d)) = [Bindings[t] EXCEPT ![k].value = v]
  BY <1>1, <1>3, <1>5, StoreBindings DEF ThreadOK
<1>11. Bindings' = [Bindings EXCEPT ![t][SV!Inner(t, s)].value = v]
  BY <1>9, <1>10 DEF k
<1> QED BY <1>5, <1>9, <1>11 DEF SV!Store

\* Storing into the global cell of a symbol that the thread has not bound.
LEMMA GlobalStoreStep ==
  ASSUME IInv, NEW t \in Threads, NEW s \in Symbols, NEW v \in Values,
         op[t].pc # "restore", Content(Held(t), s) = Absent, NEW o \in Op, o.pc = "run",
         value' = [value EXCEPT ![s] = v], op' = [op EXCEPT ![t] = o],
         UNCHANGED <<hash, tlv, dyn_stack, live>>, Apart',
         current_package' \in [Threads -> Packages],
         ret' \in [thread : Threads, value : Values, stored : Values \cup {NoAnswer}] \cup {NoAnswer}
  PROVE  IInv' /\ SV!Store(t, s, v)
<1>1. TypeOK'
  BY DEF IInv, TypeOK
<1>2. LoopOK(dyn_stack[t], o) /\ DepthOf(dyn_stack[t], o) = Depth(t)
  BY DEF LoopOK, DepthOf, Depth
<1>3. IInv' /\ Bindings' = Bindings
  BY <1>1, <1>2, LoopStep, SameDepth
<1>4. SV!Of(t, s) = {}
  BY Visible
<1> QED BY <1>3, <1>4 DEF SV!Store

\* cl_set_symbol_value assigns.
LEMMA SetValueStep ==
  ASSUME Fits, IInv, NEW t \in Threads, NEW s \in Symbols, NEW v \in Values, Running(t),
         cl_set_symbol_value(t, s, v), UNCHANGED <<hash, dyn_stack, op, live>>,
         current_package' \in [Threads -> Packages], ret' = NoAnswer
  PROVE  IInv' /\ SV!Assign(t, s, v)
<1>1. TypeOK /\ Tables /\ Apart /\ op[t] = Run /\ op[t].pc # "restore" /\ Run \in Op /\ Run.pc = "run"
  BY OpTypes DEF IInv, Running
<1>2. (tlv[t].count > 0 /\ Get(t, s) # Absent) <=> Content(Held(t), s) # Absent
  BY <1>1, RunningReads
<1>3. Apart' /\ op' = [op EXCEPT ![t] = Run]
  BY <1>1, NoneAway DEF TypeOK
<1>4. CASE Content(Held(t), s) # Absent
  BY <1>2, <1>4, OwnStoreStep DEF cl_set_symbol_value, SV!Assign
<1>5. CASE Content(Held(t), s) = Absent
  <2>1. value' = [value EXCEPT ![s] = v] /\ tlv' = tlv
    BY <1>2, <1>5 DEF cl_set_symbol_value
  <2>2. IInv' /\ SV!Store(t, s, v)
    BY <1>1, <1>3, <1>5, <2>1, GlobalStoreStep
  <2> QED BY <2>2 DEF SV!Assign
<1> QED BY <1>4, <1>5

\* A step that only returns something.
LEMMA ReadStep ==
  ASSUME IInv, UNCHANGED <<hash, tlv, dyn_stack, value, current_package, op, live>>,
         ret' \in [thread : Threads, value : Values, stored : Values \cup {NoAnswer}] \cup {NoAnswer}
  PROVE  IInv' /\ Bindings' = Bindings
<1>1. TypeOK' /\ Tables' /\ Apart' /\ \A u \in Threads : Held(u)' = Held(u)
  BY DEF IInv, TypeOK, Tables, Apart, Held
<1>2. IInv'
  BY <1>1 DEF IInv
<1> QED BY <1>1, <1>2 DEF Bindings, Depth

\* OP_GLOAD reads the value the thread sees.
LEMMA GloadStep ==
  ASSUME IInv, NEW t \in Threads, NEW s \in Symbols, Gload(t, s)
  PROVE  IInv' /\ SV!Read(t, s)
<1> DEFINE v == cl_symbol_value_on(tlv[t], value, s)
<1>1. TypeOK /\ Tables /\ Apart /\ op[t].pc # "restore" /\ Proper(Held(t))
  BY OpTypes DEF IInv, Running, Gload, ThreadOK
<1>2. v = IF Content(Held(t), s) # Absent THEN Content(Held(t), s) ELSE value[s]
  BY <1>1, RunningReads DEF Gload
<1>3. SV!Value(t, s) = v
  BY <1>1, <1>2, Visible
<1>4. v \in Values
  BY <1>1, <1>2, ContentType DEF TypeOK
<1> HIDE DEF v
<1>5. ret' = Returned(t, v, NoAnswer) /\ UNCHANGED <<hash, tlv, dyn_stack, value, current_package, op, live>>
  BY DEF Gload, v
<1>6. IInv' /\ Bindings' = Bindings
  BY <1>4, <1>5, ReadStep DEF Returned
<1> QED BY <1>3, <1>5, <1>6 DEF SV!Read, SV!Returned, Returned

\* cl_symbol_value_cas on the thread's own entry reads or swaps.
LEMMA CasLocalStep ==
  ASSUME Fits, IInv, NEW t \in Threads, NEW s \in Symbols, NEW old \in Values, NEW new \in Values,
         CasLocal(t, s, old, new)
  PROVE  IInv' /\ (SV!Read(t, s) \/ SV!Swap(t, s, new))
<1> DEFINE v == Get(t, s)
<1>1. TypeOK /\ Tables /\ Apart /\ op[t].pc # "restore" /\ Proper(Held(t)) /\ Running(t)
  BY OpTypes DEF IInv, Running, CasLocal, ThreadOK
<1>2. v = Content(Held(t), s) /\ v # Absent
  BY <1>1, RunningReads DEF CasLocal
<1>3. SV!Value(t, s) = v /\ v \in Values
  BY <1>1, <1>2, Visible, ContentType
<1> HIDE DEF v
<1>4. /\ ret' = Answer(t, v, old, new) /\ UNCHANGED <<hash, dyn_stack, value, current_package, op, live>>
      /\ tlv' = [tlv EXCEPT ![t] = IF v = old THEN cl_tlv_set(@, hash[s], s, new) ELSE @]
  BY DEF CasLocal, v
<1>5. CASE v = old
  <2>1. ret' = Returned(t, v, new) /\ tlv' = [tlv EXCEPT ![t] = cl_tlv_set(@, hash[s], s, new)]
    BY <1>4, <1>5 DEF Answer
  <2>2. ret' \in [thread : Threads, value : Values, stored : Values \cup {NoAnswer}]
    BY <1>3, <2>1 DEF Returned
  <2>3. current_package' \in [Threads -> Packages]
    BY <1>1, <1>4 DEF TypeOK
  <2>4. IInv' /\ SV!Store(t, s, new)
    BY <1>1, <1>2, <1>4, <2>1, <2>2, <2>3, OwnStoreStep
  <2> QED BY <1>3, <2>1, <2>4 DEF SV!Swap, SV!Returned, Returned
<1>6. CASE v # old
  <2>1. ret' = Returned(t, v, NoAnswer) /\ tlv' = tlv
    BY <1>1, <1>4, <1>6 DEF Answer, TypeOK
  <2>2. ret' \in [thread : Threads, value : Values, stored : Values \cup {NoAnswer}]
    BY <1>3, <2>1 DEF Returned
  <2>3. IInv' /\ Bindings' = Bindings
    BY <1>4, <2>1, <2>2, ReadStep
  <2> QED BY <1>3, <1>4, <2>1, <2>3 DEF SV!Read, SV!Returned, Returned
<1> QED BY <1>5, <1>6

\* The read that opens an iteration of cl_cas_cell is the answer, or shows in
\* nothing.
LEMMA CasReadStep ==
  ASSUME IInv, NEW t \in Threads, NEW s \in Symbols, NEW old \in Values, NEW new \in Values,
         op[t].pc # "restore", Content(Held(t), s) = Absent, CasRead(t, s, old, new), Apart'
  PROVE  IInv' /\ (SV!Silent \/ SV!Read(t, s))
<1>1. TypeOK /\ ~OnStack(dyn_stack[t], s) /\ Depth(t) = Len(dyn_stack[t])
  BY ContentType DEF IInv, ThreadOK, Matches, Depth
<1>2. SV!Value(t, s) = value[s]
  BY Visible
<1>3. UNCHANGED <<hash, tlv, dyn_stack, value, current_package, live>>
  BY DEF CasRead
<1>4. CASE value[s] = old
  <2> DEFINE o == Cas("swap", s, old, new)
  <2>1. op' = [op EXCEPT ![t] = o] /\ ret' = NoAnswer
    BY <1>4 DEF CasRead
  <2>2. o \in Op /\ o.pc = "swap" /\ o.symbol = s
    BY OpTypes
  <2> HIDE DEF o
  <2>3. TypeOK'
    BY <1>1, <1>3, <2>1, <2>2 DEF TypeOK
  <2>4. LoopOK(dyn_stack[t], o) /\ DepthOf(dyn_stack[t], o) = Depth(t)
    BY <1>1, <2>2 DEF LoopOK, DepthOf
  <2>5. IInv' /\ Bindings' = Bindings
    BY <1>3, <2>1, <2>3, <2>4, LoopStep, SameDepth
  <2> QED BY <1>3, <2>1, <2>5 DEF SV!Silent
<1>5. CASE value[s] # old
  <2>1. op' = [op EXCEPT ![t] = Run] /\ ret' = Returned(t, value[s], NoAnswer)
    BY <1>5 DEF CasRead, Answer
  <2>2. ret' \in [thread : Threads, value : Values, stored : Values \cup {NoAnswer}]
    BY <1>1, <2>1 DEF Returned, TypeOK
  <2>3. TypeOK'
    BY <1>1, <1>3, <2>1, <2>2, OpTypes DEF TypeOK
  <2>4. LoopOK(dyn_stack[t], Run) /\ DepthOf(dyn_stack[t], Run) = Depth(t)
    BY <1>1, OpTypes DEF LoopOK, DepthOf
  <2>5. IInv' /\ Bindings' = Bindings
    BY <1>3, <2>1, <2>3, <2>4, LoopStep, SameDepth
  <2> QED BY <1>2, <1>3, <2>1, <2>5 DEF SV!Read, SV!Returned, Returned
<1> QED BY <1>4, <1>5

\* A thread in the loop of cl_cas_cell has no binding of the symbol.
LEMMA CasLoop ==
  ASSUME IInv, NEW t \in Threads, op[t].pc \in {"reread", "swap"}
  PROVE  /\ op[t].symbol \in Symbols /\ op[t].old \in Values /\ op[t].new \in Values
         /\ op[t].pc # "restore" /\ Content(Held(t), op[t].symbol) = Absent
<1>1. op[t].symbol \in Symbols /\ op[t].old \in Values /\ op[t].new \in Values
  BY OpTypes DEF IInv, TypeOK
<1>2. ThreadOK(dyn_stack[t], Held(t), op[t])
  BY DEF IInv
<1>3. ~OnStack(dyn_stack[t], op[t].symbol)
  BY <1>2 DEF ThreadOK, LoopOK
<1>4. Content(Held(t), op[t].symbol) = Absent
  BY <1>1, <1>2, <1>3, ContentType DEF ThreadOK, Matches
<1> QED BY <1>1, <1>4

\* platform_atomic_cas swaps, or shows in nothing.
LEMMA CasSwapStep ==
  ASSUME IInv, NEW t \in Threads, CasSwap(t)
  PROVE  IInv' /\ (SV!Silent \/ \E s \in Symbols, v \in Values : SV!Swap(t, s, v))
<1> DEFINE s == op[t].symbol
           new == op[t].new
           old == op[t].old
<1>1. op[t].pc = "swap" /\ UNCHANGED <<hash, tlv, dyn_stack, current_package, live>>
  BY DEF CasSwap
<1>2. /\ s \in Symbols /\ old \in Values /\ new \in Values
      /\ op[t].pc # "restore" /\ Content(Held(t), s) = Absent
  BY <1>1, CasLoop
<1>3. TypeOK /\ Apart'
  BY <1>1, NoneAway DEF IInv
<1>4. SV!Value(t, s) = value[s]
  BY <1>2, Visible
<1>5. CASE value[s] = old
  <2>1. /\ value' = [value EXCEPT ![s] = new] /\ op' = [op EXCEPT ![t] = Run]
        /\ ret' = Returned(t, value[s], new)
    BY <1>5 DEF CasSwap, Answer
  <2> HIDE DEF s, new, old
  <2>2. /\ ret' \in [thread : Threads, value : Values, stored : Values \cup {NoAnswer}]
        /\ current_package' \in [Threads -> Packages]
    BY <1>1, <1>2, <1>3, <2>1 DEF Returned, TypeOK
  <2>3. IInv' /\ SV!Store(t, s, new)
    BY <1>1, <1>2, <1>3, <2>1, <2>2, OpTypes, GlobalStoreStep
  <2>4. SV!Swap(t, s, new)
    BY <1>4, <2>1, <2>3 DEF SV!Swap, SV!Returned, Returned
  <2> QED BY <1>2, <2>3, <2>4
<1>6. CASE value[s] # old
  <2> DEFINE o == Cas("reread", s, old, new)
  <2>1. op' = [op EXCEPT ![t] = o] /\ ret' = NoAnswer /\ value' = value
    BY <1>6 DEF CasSwap
  <2>2. o \in Op /\ o.pc = "reread" /\ o.symbol = s
    BY <1>2, OpTypes
  <2>3. ~OnStack(dyn_stack[t], s)
    BY <1>1 DEF IInv, ThreadOK, LoopOK
  <2> HIDE DEF o, s
  <2>4. TypeOK'
    BY <1>1, <1>3, <2>1, <2>2 DEF TypeOK
  <2>5. LoopOK(dyn_stack[t], o) /\ DepthOf(dyn_stack[t], o) = Depth(t)
    BY <1>2, <2>2, <2>3 DEF LoopOK, DepthOf, Depth
  <2>6. IInv' /\ Bindings' = Bindings
    BY <1>1, <1>3, <2>1, <2>4, <2>5, LoopStep, SameDepth
  <2> QED BY <2>1, <2>6 DEF SV!Silent
<1> QED BY <1>5, <1>6

\* A step that moves entries and leaves what is held for each thread alone.
LEMMA MoveStep ==
  ASSUME IInv, UNCHANGED <<dyn_stack, op>>, \A u \in Threads : Held(u)' = Held(u), TypeOK', Tables', Apart'
  PROVE  IInv' /\ Bindings' = Bindings
<1>1. IInv'
  BY DEF IInv
<1> QED BY <1>1 DEF Bindings, Depth

\* A collection that saves the entries and clears the tables loses none.
LEMMA CollectStep ==
  ASSUME IInv, Collect
  PROVE  IInv' /\ SV!Silent /\ \A u \in Threads : Held(u)' = Held(u)
<1>1. /\ \A u \in Threads : live[u] = {} /\ op[u] = Run
      /\ UNCHANGED <<dyn_stack, value, current_package, op>> /\ ret' = NoAnswer
      /\ hash' \in [Symbols -> Slots]
  BY DEF Collect, Running
<1>2. ASSUME NEW u \in Threads
      PROVE  /\ tlv'[u] \in Table /\ GoodTable(tlv'[u], hash')
             /\ live'[u] \in SUBSET [symbol : Symbols, value : Values]
             /\ Held(u)' = Held(u)
  <2>1. tlv[u] \in Table /\ GoodTable(tlv[u], hash)
    BY DEF IInv, TypeOK, Tables
  <2>2. /\ tlv'[u] = IF tlv[u].count = 0 THEN tlv[u] ELSE EmptyTable
        /\ live'[u] = IF tlv[u].count = 0 THEN {} ELSE Entries(tlv[u])
    BY DEF Collect
  <2>3. EmptyTable \in Table /\ GoodTable(EmptyTable, hash') /\ Entries(EmptyTable) = {}
    BY EmptyTableGood
  <2>4. Entries(tlv[u]) \subseteq [symbol : Symbols, value : Values]
    BY <2>1, EntriesUnique
  <2>5. tlv[u].count = 0 => Live(tlv[u]) = {} /\ GoodTable(tlv[u], hash')
    <3>1. tlv[u].count = 0 => Live(tlv[u]) = {}
      BY <2>1, CountEntries DEF Entries
    <3> QED BY <2>1, <3>1 DEF GoodTable, Unique, Reachable, Counted
  <2>6. Held(u)' = Held(u)
    BY <1>1, <2>2, <2>3 DEF Held
  <2> QED BY <2>1, <2>2, <2>3, <2>4, <2>5, <2>6
<1>3. TypeOK' /\ Tables' /\ Apart'
  <2>1. tlv' \in [Threads -> Table] /\ live' \in [Threads -> SUBSET [symbol : Symbols, value : Values]]
    BY <1>2 DEF Collect
  <2>2. TypeOK'
    BY <1>1, <2>1 DEF IInv, TypeOK
  <2> QED BY <1>1, <1>2, <2>2 DEF Tables, Apart
<1>4. IInv' /\ Bindings' = Bindings
  BY <1>1, <1>2, <1>3, MoveStep
<1> QED BY <1>1, <1>2, <1>4 DEF SV!Silent

\* cl_tlv_rehash puts an entry back.
LEMMA RehashStep ==
  ASSUME Fits, IInv, NEW t \in Threads, NEW e \in live[t], Rehash(t, e)
  PROVE  IInv' /\ SV!Silent /\ \A u \in Threads : Held(u)' = Held(u)
<1> DEFINE tab == cl_tlv_set(tlv[t], hash[e.symbol], e.symbol, e.value)
<1>1. /\ live' = [live EXCEPT ![t] = @ \ {e}] /\ tlv' = [tlv EXCEPT ![t] = tab]
      /\ ret' = NoAnswer /\ UNCHANGED <<hash, dyn_stack, value, current_package, op>>
  BY DEF Rehash
<1>2. TypeOK /\ Tables /\ Apart /\ Proper(Held(t))
  BY DEF IInv, ThreadOK
<1>3. e \in [symbol : Symbols, value : Values] /\ tlv[t] \in Table /\ GoodTable(tlv[t], hash)
  BY <1>2 DEF TypeOK, Tables
<1>4. tab \in Table /\ GoodTable(tab, hash) /\ Entries(tab) = Put(Entries(tlv[t]), e.symbol, e.value)
  BY <1>2, <1>3, SetEntries DEF TypeOK
<1> HIDE DEF tab
<1>5. /\ tlv' \in [Threads -> Table] /\ tlv'[t] = tab
      /\ live' \in [Threads -> SUBSET [symbol : Symbols, value : Values]] /\ live'[t] = live[t] \ {e}
      /\ \A u \in Threads : u # t => tlv'[u] = tlv[u] /\ live'[u] = live[u]
  BY <1>1, <1>2, <1>4 DEF TypeOK
<1>6. Held(t)' = Held(t)
  <2>1. e = [symbol |-> e.symbol, value |-> e.value]
    BY <1>3
  <2>2. \A f \in Entries(tlv[t]) : f.symbol = e.symbol => f = e
    BY <1>2 DEF Proper, Held
  <2>3. Put(Entries(tlv[t]), e.symbol, e.value) = Entries(tlv[t]) \cup {e}
    BY <2>1, <2>2 DEF Put
  <2> QED BY <1>4, <1>5, <2>3 DEF Held
<1>7. \A u \in Threads : Held(u)' = Held(u)
  BY <1>5, <1>6 DEF Held
<1>8. TypeOK' /\ Tables' /\ Apart'
  <2>1. TypeOK'
    BY <1>1, <1>2, <1>5 DEF TypeOK
  <2>2. Tables'
    BY <1>1, <1>2, <1>4, <1>5 DEF Tables
  <2>3. \A u \in Threads : op[u] = Run
    BY <1>2 DEF Apart
  <2> QED BY <1>1, <2>1, <2>2, <2>3 DEF Apart
<1>9. IInv' /\ Bindings' = Bindings
  BY <1>1, <1>7, <1>8, MoveStep
<1> QED BY <1>1, <1>7, <1>9 DEF SV!Silent

\* The invariant holds at the start, which is a start of SpecialVariables.
LEMMA InitOK == Init => IInv /\ SV!Init
<1> SUFFICES ASSUME Init PROVE IInv /\ SV!Init
  OBVIOUS
<1>1. TypeOK
  <2>1. EmptyTable \in Table
    BY EmptyTableGood
  <2>2. <<>> \in Seq(DynBinding) /\ Len(<<>>) = 0
    BY EmptySeq
  <2>3. Run \in Op
    BY OpTypes
  <2> QED BY <2>1, <2>2, <2>3, MaxDynAssumption DEF Init, TypeOK
<1>2. Tables /\ Apart /\ \A t \in Threads : Held(t) = {} /\ dyn_stack[t] = <<>> /\ op[t] = Run
  BY EmptyTableGood DEF Init, Tables, Apart, Held
<1>3. ThreadOK(<<>>, {}, Run)
  BY OpTypes DEF ThreadOK, Proper, Matches, Holds, OnStack, Saved, LoopOK
<1>4. IInv
  BY <1>1, <1>2, <1>3 DEF IInv
<1>5. \A t \in Threads : Bindings[t] = <<>>
  <2>1. <<>> \in Seq(DynBinding) /\ Len(<<>>) = 0 /\ Proper({})
    BY EmptySeq, <1>3 DEF ThreadOK
  <2>2. BindingsOf(<<>>, {}, 0) \in Seq(Binding) /\ Len(BindingsOf(<<>>, {}, 0)) = 0
    <3>1. 0 \in 0 .. Len(<<>>)
      BY <2>1
    <3> HIDE DEF Binding
    <3> QED BY <2>1, <3>1, BindingsSeq
  <2>3. BindingsOf(<<>>, {}, 0) = <<>>
    BY <2>2, EmptySeq
  <2> QED BY <1>2, <2>1, <2>3, OpTypes DEF Bindings, Depth
<1>6. SV!Init
  BY <1>5 DEF Init, SV!Init, Bindings
<1> QED BY <1>4, <1>6

\* The values programs store are values.
LEMMA StoredValues ==
  ASSUME NEW s \in Symbols
  PROVE  Stored[s] \subseteq Values /\ Stored[s] \cup {Unbound} \subseteq Values
  BY StoredAssumption, ValueAssumption

\* Every operation of a thread keeps the invariant and is a step of
\* SpecialVariables.
LEMMA ThreadStep ==
  ASSUME Fits, IInv, NEW t \in Threads, ThreadNext(t)
  PROVE  IInv' /\ SV!Next
<1>1. ASSUME NEW s \in Symbols, NEW v \in Stored[s], DynBind(t, s, v) PROVE IInv' /\ SV!Next
  <2>1. v \in Values /\ Running(t) /\ Push(t, s, v) /\ current_package' \in [Threads -> Packages]
    BY <1>1, StoredValues, SyncType DEF DynBind, IInv
  <2> QED BY <2>1, PushStep DEF SV!Next
<1>2. ASSUME NEW s \in Symbols, NEW v \in Stored[s] \cup {Unbound}, ProgvBind(t, s, v) PROVE IInv' /\ SV!Next
  <2>1. v \in Values /\ Running(t) /\ Push(t, s, v) /\ current_package' \in [Threads -> Packages]
    BY <1>2, StoredValues DEF ProgvBind, IInv, TypeOK
  <2> QED BY <2>1, PushStep DEF SV!Next
<1>3. ASSUME NEW s \in Symbols, NEW v \in Stored[s], Gstore(t, s, v) PROVE IInv' /\ SV!Next
  <2>1. v \in Values /\ current_package' \in [Threads -> Packages]
    BY <1>3, StoredValues, SyncType DEF Gstore, IInv
  <2>2. IInv' /\ SV!Assign(t, s, v)
    BY <1>3, <2>1, SetValueStep DEF Gstore
  <2> QED BY <2>1, <2>2 DEF SV!Next
<1>4. ASSUME NEW s \in Symbols, NEW v \in Stored[s] \cup {Unbound}, SetSymbolValue(t, s, v)
      PROVE  IInv' /\ SV!Next
  <2>1. v \in Values /\ current_package' \in [Threads -> Packages]
    BY <1>4, StoredValues DEF SetSymbolValue, IInv, TypeOK
  <2>2. IInv' /\ SV!Assign(t, s, v)
    BY <1>4, <2>1, SetValueStep DEF SetSymbolValue
  <2> QED BY <2>1, <2>2 DEF SV!Next
<1>5. ASSUME NEW s \in Symbols, Gload(t, s) PROVE IInv' /\ SV!Next
  BY <1>5, GloadStep DEF SV!Next
<1>6. ASSUME NEW s \in Symbols, NEW old \in Stored[s], NEW new \in Stored[s], CasLocal(t, s, old, new)
      PROVE  IInv' /\ SV!Next
  <2>1. old \in Values /\ new \in Values
    BY StoredValues
  <2> QED BY <1>6, <2>1, CasLocalStep DEF SV!Next
<1>7. ASSUME NEW s \in Symbols, NEW old \in Stored[s], NEW new \in Stored[s], CasGlobal(t, s, old, new)
      PROVE  IInv' /\ SV!Next
  <2>1. old \in Values /\ new \in Values /\ Running(t) /\ CasRead(t, s, old, new) /\ live' = live
    BY <1>7, StoredValues DEF CasGlobal, CasRead
  <2>2. TypeOK /\ Tables /\ Apart /\ Apart' /\ op[t].pc # "restore"
    BY <2>1, NoneAway, OpTypes DEF IInv, Running
  <2>3. Content(Held(t), s) = Absent
    BY <1>7, <2>1, <2>2, RunningReads DEF CasGlobal
  <2> QED BY <2>1, <2>2, <2>3, CasReadStep DEF SV!Next
<1>8. ASSUME NEW mark \in 0 .. MaxDyn, RestoreTo(t, mark) PROVE IInv' /\ SV!Next
  BY <1>8, RestoreToStep DEF SV!Next
<1>9. ASSUME RestorePop(t) PROVE IInv' /\ SV!Next
  BY <1>9, RestorePopStep DEF SV!Next
<1>10. ASSUME RestoreDone(t) PROVE IInv' /\ SV!Next
  BY <1>10, RestoreDoneStep DEF SV!Next
<1>11. ASSUME CasReread(t) PROVE IInv' /\ SV!Next
  <2>1. op[t].pc = "reread" /\ CasRead(t, op[t].symbol, op[t].old, op[t].new) /\ live' = live
    BY <1>11 DEF CasReread, CasRead
  <2>2. Apart'
    BY <2>1, NoneAway DEF IInv
  <2>3. /\ op[t].symbol \in Symbols /\ op[t].old \in Values /\ op[t].new \in Values
        /\ op[t].pc # "restore" /\ Content(Held(t), op[t].symbol) = Absent
    BY <2>1, CasLoop
  <2>4. IInv' /\ (SV!Silent \/ SV!Read(t, op[t].symbol))
    BY <2>1, <2>2, <2>3, CasReadStep
  <2> QED BY <2>3, <2>4 DEF SV!Next
<1>12. ASSUME CasSwap(t) PROVE IInv' /\ SV!Next
  BY <1>12, CasSwapStep DEF SV!Next
<1> QED BY <1>1, <1>2, <1>3, <1>4, <1>5, <1>6, <1>7, <1>8, <1>9, <1>10, <1>11, <1>12 DEF ThreadNext

\* So is every step of the system.
LEMMA NextStep ==
  ASSUME Fits, IInv, [Next]_vars
  PROVE  IInv' /\ [SV!Next]_SV!vars
<1>1. ASSUME NEW t \in Threads, ThreadNext(t) PROVE IInv' /\ SV!Next
  BY <1>1, ThreadStep
<1>2. ASSUME Collect PROVE IInv' /\ SV!Next
  BY <1>2, CollectStep DEF SV!Next
<1>3. ASSUME NEW t \in Threads, NEW e \in live[t], Rehash(t, e) PROVE IInv' /\ SV!Next
  BY <1>3, RehashStep DEF SV!Next
<1>4. CASE UNCHANGED vars
  <2>1. UNCHANGED <<hash, tlv, dyn_stack, value, current_package, ret, op, live>>
    BY <1>4 DEF vars
  <2>2. IInv' /\ Bindings' = Bindings
    BY <2>1, ReadStep DEF IInv, TypeOK
  <2> QED BY <2>1, <2>2 DEF SV!vars
<1> QED BY <1>1, <1>2, <1>3, <1>4 DEF Next

\* Tables, stacks and entries agree throughout (cl_tlv_set, cl_tlv_remove,
\* cl_dynbind_restore_to, cl_tlv_rehash).
THEOREM Invariance ==
  ASSUME Fits
  PROVE  Spec => []IInv
<1>1. Init => IInv
  BY InitOK
<1>2. IInv /\ [Next]_vars => IInv'
  BY NextStep
<1> QED BY <1>1, <1>2, PTL DEF Spec

\* The tables, stacks, restores and rehashes implement the binding stacks of
\* special variables: every read (OP_GLOAD) and every compare-and-swap
\* (cl_symbol_value_cas) returns the value of the innermost binding or the
\* global one, and an exit (cl_dynbind_restore_to) brings back the bindings
\* that were in force at its mark.
THEOREM Implementation ==
  ASSUME Fits
  PROVE  Spec => SpecialVariablesSpec
<1>1. Init => IInv /\ SV!Init
  BY InitOK
<1>2. IInv /\ [Next]_vars => IInv' /\ [SV!Next]_SV!vars
  BY NextStep
<1> QED BY <1>1, <1>2, Invariance, PTL DEF Spec, SpecialVariablesSpec, SV!Spec

\* What the runs check follows from the invariant: types, tables that their
\* probes can search (cl_tlv_get, cl_tlv_set), no entry left when no binding
\* form runs, and an entry for every variable on the stack.
LEMMA Consequences ==
  ASSUME IInv
  PROVE  TypeOK /\ TableOK /\ NoResidue /\ BindingInstalled
<1>1. TypeOK /\ Tables /\ Apart
  BY DEF IInv
<1>2. TableOK
  BY <1>1 DEF Tables, GoodTable, TableOK
<1>3. NoResidue
  <2> SUFFICES ASSUME NEW t \in Threads, dyn_stack[t] = <<>>
               PROVE  tlv[t].count = 0 /\ Live(tlv[t]) = {} /\ live[t] = {}
    BY DEF NoResidue
  <2>1. ThreadOK(<<>>, Held(t), op[t]) /\ Len(<<>>) = 0
    BY EmptySeq DEF IInv
  <2>2. \A s \in Symbols : ~Holds(Held(t), s)
    BY <2>1 DEF ThreadOK, Matches, OnStack
  <2>3. Held(t) = {}
    BY <2>1, <2>2 DEF ThreadOK, Proper, Holds
  <2>4. tlv[t] \in Table /\ GoodTable(tlv[t], hash) /\ Entries(tlv[t]) = {}
    BY <1>1, <2>3 DEF TypeOK, Tables, Held
  <2> QED BY <2>3, <2>4, CountEntries DEF Held, Entries
<1>4. BindingInstalled
  <2> SUFFICES ASSUME NEW t \in Threads, Running(t), NEW i \in 1 .. Len(dyn_stack[t])
               PROVE  Get(t, dyn_stack[t][i].symbol) # Absent
    BY DEF BindingInstalled
  <2> DEFINE s == dyn_stack[t][i].symbol
  <2>1. s \in Symbols
    <3>1. dyn_stack[t] \in Seq(DynBinding)
      BY <1>1 DEF TypeOK
    <3>2. dyn_stack[t][i] \in DynBinding
      BY <3>1, ElementOfSeq
    <3> QED BY <3>2 DEF DynBinding
  <2>2. ThreadOK(dyn_stack[t], Held(t), op[t]) /\ OnStack(dyn_stack[t], s)
    BY DEF IInv, OnStack
  <2> HIDE DEF s
  <2>3. Content(Held(t), s) # Absent
    BY <2>1, <2>2, ContentType DEF ThreadOK, Matches
  <2>4. Get(t, s) = Content(Held(t), s)
    BY <1>1, <2>1, RunningReads
  <2> QED BY <2>3, <2>4 DEF s
<1> QED BY <1>1, <1>2, <1>3, <1>4

\* The types of the state, the bound of dyn_stack included.
THEOREM TypeCorrect ==
  ASSUME Fits
  PROVE  Spec => []TypeOK
  BY Invariance, Consequences, PTL

\* Probes find what they should through tombstones and rehashes.
THEOREM TablesSound ==
  ASSUME Fits
  PROVE  Spec => []TableOK
  BY Invariance, Consequences, PTL

\* A thread without bindings has an empty table.
THEOREM NothingLeft ==
  ASSUME Fits
  PROVE  Spec => []NoResidue
  BY Invariance, Consequences, PTL

\* A binding form does install a thread-local value when the table fits the
\* symbols that are bound.
THEOREM Installed ==
  ASSUME Fits
  PROVE  Spec => []BindingInstalled
  BY Invariance, Consequences, PTL

-----------------------------------------------------------------------------
(* The package cache: which operations it may fall behind by.              *)

\* The cache of t is right, except while a restore that popped a binding of
\* *PACKAGE* has yet to refresh it.
Fresh(t) ==
  OnStack(dyn_stack[t], Package) /\ ~(op[t].pc = "restore" /\ op[t].touched)
    => (Content(Held(t), Package) \in Packages => current_package[t] = Content(Held(t), Package))

\* The steps that change a thread's binding of *PACKAGE* without a refresh:
\* PROGV, SET, (SETF SYMBOL-VALUE), MAKUNBOUND and COMPARE-AND-SWAP.
StoresUnsynced(t) ==
  \/ \E v \in Values : ProgvBind(t, Package, v) \/ SetSymbolValue(t, Package, v)
  \/ \E old, new \in Values : CasLocal(t, Package, old, new)

\* The refresh makes the cache what the thread now holds for *PACKAGE*.
LEMMA SyncFresh ==
  ASSUME IInv, IInv', NEW t \in Threads, hash' = hash, live'[t] = {},
         cl_sync_current_package_from_dynamic(t)
  PROVE  Fresh(t)'
<1> DEFINE v == cl_symbol_value_on(tlv'[t], value', Package)
<1>1. tlv'[t] \in Table /\ hash \in [Symbols -> Slots] /\ GoodTable(tlv'[t], hash) /\ Package \in Symbols
  BY PackageAssumption DEF IInv, TypeOK, Tables
<1>2. v = IF Content(Entries(tlv'[t]), Package) # Absent THEN Content(Entries(tlv'[t]), Package)
          ELSE value'[Package]
  BY <1>1, ReadEntries
<1>3. Held(t)' = Entries(tlv'[t])
  BY DEF Held
<1>4. current_package'[t] = IF v \in Packages THEN v ELSE current_package[t]
  BY DEF cl_sync_current_package_from_dynamic, IInv, TypeOK
<1> HIDE DEF v
<1>5. Absent \notin Packages
  BY ValueAssumption, AbsentAssumption
<1> QED BY <1>2, <1>3, <1>4, <1>5 DEF Fresh

\* A step that changes neither what t holds for *PACKAGE* nor its cache.
LEMMA SameFresh ==
  ASSUME NEW t \in Threads, Fresh(t),
         OnStack(dyn_stack[t], Package)' => OnStack(dyn_stack[t], Package),
         Content(Held(t), Package)' = Content(Held(t), Package),
         current_package'[t] = current_package[t],
         (op'[t].pc = "restore" /\ op'[t].touched) \/ ~(op[t].pc = "restore" /\ op[t].touched)
  PROVE  Fresh(t)'
  BY DEF Fresh

\* A store into the entry of another symbol.
LEMMA OtherSymbol ==
  ASSUME Fits, IInv, NEW t \in Threads, NEW s \in Symbols, NEW v \in Values, s # Package,
         Running(t), hash' = hash, live' = live, tlv' = [tlv EXCEPT ![t] = cl_tlv_set(@, hash[s], s, v)]
  PROVE  Content(Held(t), Package)' = Content(Held(t), Package)
<1>1. TypeOK /\ Tables /\ Apart /\ Proper(Held(t))
  BY DEF IInv, ThreadOK
<1>2. live[t] = {} /\ Held(t) = Entries(tlv[t])
  BY <1>1, NoneAway
<1>3. Held(t)' = Put(Held(t), s, v)
  BY <1>1, <1>2, SetStep
<1> QED BY <1>1, <1>3, ContentPut

\* Binding another variable than *PACKAGE* leaves the cache right.
LEMMA PushFresh ==
  ASSUME Fits, IInv, NEW t \in Threads, Fresh(t), NEW s \in Symbols, NEW v \in Values, s # Package,
         Running(t), Push(t, s, v), current_package' = current_package
  PROVE  Fresh(t)'
<1> DEFINE d == dyn_stack[t]
           b == [symbol |-> s, old_value |-> Get(t, s)]
<1>1. op'[t].pc # "restore" /\ op[t].pc # "restore"
  BY OpTypes DEF Running, Push
<1>2. Content(Held(t), Package)' = Content(Held(t), Package)
  BY OtherSymbol DEF Push
<1>3. d \in Seq(DynBinding) /\ dyn_stack'[t] = Append(d, b)
  BY DEF IInv, TypeOK, Push
<1>4. Get(t, s) = Content(Held(t), s) /\ Proper(Held(t))
  BY RunningReads DEF IInv, ThreadOK
<1>5. b \in DynBinding
  BY <1>4, ContentType DEF DynBinding
<1>6. b.symbol = s
  OBVIOUS
<1> HIDE DEF b, d
<1>7. OnStack(Append(d, b), Package) => OnStack(d, Package)
  <2>1. /\ Len(d) \in Nat /\ Len(Append(d, b)) = Len(d) + 1 /\ Append(d, b)[Len(d) + 1] = b
        /\ \A i \in 1 .. Len(d) : Append(d, b)[i] = d[i]
    BY <1>3, <1>5
  <2> QED BY <1>6, <2>1 DEF OnStack
<1> QED BY <1>1, <1>2, <1>3, <1>7, SameFresh DEF d

\* So does assigning one.
LEMMA StoreFresh ==
  ASSUME Fits, IInv, NEW t \in Threads, Fresh(t), NEW s \in Symbols, NEW v \in Values, s # Package,
         Running(t), cl_set_symbol_value(t, s, v), UNCHANGED <<hash, dyn_stack, op, live, current_package>>
  PROVE  Fresh(t)'
<1>1. Content(Held(t), Package)' = Content(Held(t), Package)
  <2>1. CASE tlv' = tlv
    BY <2>1 DEF Held
  <2>2. CASE tlv' = [tlv EXCEPT ![t] = cl_tlv_set(@, hash[s], s, v)]
    BY <2>2, OtherSymbol
  <2> QED BY <2>1, <2>2 DEF cl_set_symbol_value
<1> QED BY <1>1, SameFresh

\* A pop of cl_dynbind_restore_to leaves the cache right or marks it for refresh.
LEMMA PopFresh ==
  ASSUME Fits, IInv, NEW t \in Threads, Fresh(t), RestorePop(t)
  PROVE  Fresh(t)'
<1> DEFINE d == dyn_stack[t]
           H == Held(t)
           n == Len(d)
           b == d[n]
           d2 == SubSeq(d, 1, n - 1)
<1>1. /\ op[t].pc = "restore" /\ n > op[t].mark
      /\ UNCHANGED <<hash, live, current_package>> /\ dyn_stack' = [dyn_stack EXCEPT ![t] = d2]
      /\ op' = [op EXCEPT ![t] = Restore(op[t].mark, TouchedPackage(op[t].touched, b))]
      /\ tlv' = [tlv EXCEPT ![t] = Restored(@, b)]
  BY DEF RestorePop
<1>2. TypeOK /\ Tables /\ Apart /\ ThreadOK(d, H, op[t]) /\ d \in Seq(DynBinding) /\ n \in Nat
  BY LenProperties DEF IInv, TypeOK
<1>3. n > 0
  <2>1. op[t].mark \in 0 .. MaxDyn
    BY <1>1, <1>2, OpTypes DEF TypeOK
  <2> QED BY <1>1, <1>2, <2>1
<1>4. op'[t].pc = "restore" /\ op'[t].touched = TouchedPackage(op[t].touched, b) /\ dyn_stack'[t] = d2
  BY <1>1, <1>2 DEF Restore, TypeOK
<1>5. CASE TouchedPackage(op[t].touched, b)
  BY <1>4, <1>5 DEF Fresh
<1>6. CASE ~TouchedPackage(op[t].touched, b)
  <2>1. b.symbol # Package /\ ~op[t].touched
    BY <1>6 DEF TouchedPackage
  <2>2. /\ d2 \in Seq(DynBinding) /\ Len(d2) = n - 1 /\ b \in DynBinding
        /\ \A i \in 1 .. n - 1 : d2[i] = d[i]
    BY <1>2, <1>3, TopOfStack
  <2>3. live[t] = {} /\ H = Entries(tlv[t])
    BY <1>1, <1>2, NoneAway
  <2>4. Held(t)' = IF b.old_value = Absent THEN Drop(H, b.symbol) ELSE Put(H, b.symbol, b.old_value)
    BY <1>1, <1>2, <2>2, <2>3, RestoredStep
  <2> HIDE DEF d2, b, H, d
  <2>5. OnStack(d2, Package) => OnStack(d, Package)
    BY <1>2, <2>2 DEF OnStack
  <2>6. Content(Held(t)', Package) = Content(H, Package)
    <3>1. b.symbol \in Symbols /\ b.old_value \in Values \cup {Absent} /\ Proper(H)
      BY <1>2, <2>2 DEF DynBinding, ThreadOK
    <3>2. CASE b.old_value = Absent
      BY <2>1, <2>4, <3>1, <3>2, ContentDrop
    <3>3. CASE b.old_value # Absent
      BY <2>1, <2>4, <3>1, <3>3, ContentPut
    <3> QED BY <3>2, <3>3
  <2> QED BY <1>1, <1>4, <2>1, <2>5, <2>6, SameFresh DEF d, H
<1> QED BY <1>5, <1>6

\* Where the thread's own stack, entries and cache stay and its loop is no
\* restore, before and after.
LEMMA QuietFresh ==
  ASSUME NEW t \in Threads, Fresh(t), Held(t)' = Held(t), dyn_stack'[t] = dyn_stack[t],
         current_package'[t] = current_package[t], op[t].pc # "restore"
  PROVE  Fresh(t)'
  BY DEF Fresh

\* A step of t leaves the state of the other threads alone.
LEMMA OthersSame ==
  ASSUME TypeOK, NEW t \in Threads, ThreadNext(t), NEW u \in Threads, u # t
  PROVE  /\ dyn_stack'[u] = dyn_stack[u] /\ op'[u] = op[u] /\ Held(u)' = Held(u)
         /\ current_package'[u] = current_package[u]
<1> DEFINE Same == /\ dyn_stack'[u] = dyn_stack[u] /\ op'[u] = op[u] /\ tlv'[u] = tlv[u]
                   /\ live' = live /\ current_package'[u] = current_package[u]
<1>1. ASSUME NEW s \in Symbols, NEW v, DynBind(t, s, v) \/ ProgvBind(t, s, v) PROVE Same
  BY <1>1 DEF DynBind, ProgvBind, Push, SyncIf, cl_sync_current_package_from_dynamic, TypeOK
<1>2. ASSUME NEW s \in Symbols, NEW v, Gstore(t, s, v) \/ SetSymbolValue(t, s, v) PROVE Same
  BY <1>2 DEF Gstore, SetSymbolValue, cl_set_symbol_value, SyncIf,
              cl_sync_current_package_from_dynamic, TypeOK
<1>3. ASSUME NEW s \in Symbols, Gload(t, s) PROVE Same
  BY <1>3 DEF Gload
<1>4. ASSUME NEW s, NEW old, NEW new, CasLocal(t, s, old, new) \/ CasRead(t, s, old, new) PROVE Same
  BY <1>4 DEF CasLocal, CasRead, TypeOK
<1>5. ASSUME CasSwap(t) PROVE Same
  BY <1>5 DEF CasSwap, TypeOK
<1>6. ASSUME NEW mark, RestoreTo(t, mark) PROVE Same
  BY <1>6 DEF RestoreTo, TypeOK
<1>7. ASSUME RestorePop(t) PROVE Same
  BY <1>7 DEF RestorePop, TypeOK
<1>8. ASSUME RestoreDone(t) PROVE Same
  BY <1>8 DEF RestoreDone, SyncIf, cl_sync_current_package_from_dynamic, TypeOK
<1> HIDE DEF Same
<1>9. Same
  BY <1>1, <1>2, <1>3, <1>4, <1>5, <1>6, <1>7, <1>8 DEF ThreadNext, CasGlobal, CasReread
<1> QED BY <1>9 DEF Same, Held

\* Every other operation of a thread leaves its cache right.
LEMMA FreshStep ==
  ASSUME Fits, IInv, NEW t \in Threads, Fresh(t), ThreadNext(t), ~StoresUnsynced(t), IInv'
  PROVE  Fresh(t)'
<1>1. ASSUME Running(t), hash' = hash, live' = live, NEW s, s = Package, SyncIf(s = Package, t) PROVE Fresh(t)'
  BY <1>1, SyncFresh DEF Running, SyncIf
<1>2. ASSUME NEW s \in Symbols, NEW v \in Stored[s], DynBind(t, s, v) PROVE Fresh(t)'
  <2>1. CASE s = Package
    BY <1>1, <1>2, <2>1 DEF DynBind, Push
  <2>2. CASE s # Package
    BY <1>2, <2>2, StoredValues, PushFresh DEF DynBind, SyncIf
  <2> QED BY <2>1, <2>2
<1>3. ASSUME NEW s \in Symbols, NEW v \in Stored[s] \cup {Unbound}, ProgvBind(t, s, v) PROVE Fresh(t)'
  <2>1. v \in Values /\ s # Package
    BY <1>3, StoredValues DEF StoresUnsynced
  <2> QED BY <1>3, <2>1, PushFresh DEF ProgvBind
<1>4. ASSUME NEW s \in Symbols, NEW v \in Stored[s], Gstore(t, s, v) PROVE Fresh(t)'
  <2>1. CASE s = Package
    BY <1>1, <1>4, <2>1 DEF Gstore
  <2>2. CASE s # Package
    BY <1>4, <2>2, StoredValues, StoreFresh DEF Gstore, SyncIf
  <2> QED BY <2>1, <2>2
<1>5. ASSUME NEW s \in Symbols, NEW v \in Stored[s] \cup {Unbound}, SetSymbolValue(t, s, v) PROVE Fresh(t)'
  <2>1. v \in Values /\ s # Package
    BY <1>5, StoredValues DEF StoresUnsynced
  <2> QED BY <1>5, <2>1, StoreFresh DEF SetSymbolValue
<1>6. ASSUME NEW s \in Symbols, Gload(t, s) PROVE Fresh(t)'
  BY <1>6, QuietFresh, OpTypes DEF Gload, Held, Running
<1>7. ASSUME NEW s \in Symbols, NEW old \in Stored[s], NEW new \in Stored[s], CasLocal(t, s, old, new)
      PROVE  Fresh(t)'
  <2>0. s # Package
    BY <1>7, StoredValues DEF StoresUnsynced
  <2>1. Running(t) /\ s # Package /\ UNCHANGED <<hash, dyn_stack, op, live, current_package>>
    BY <1>7, <2>0 DEF CasLocal
  <2>2. Content(Held(t), Package)' = Content(Held(t), Package)
    <3>1. CASE Get(t, s) = old
      BY <1>7, <2>1, <3>1, StoredValues, OtherSymbol DEF CasLocal
    <3>2. CASE Get(t, s) # old
      <4>1. tlv' = tlv
        BY <1>7, <3>2 DEF CasLocal, IInv, TypeOK
      <4> QED BY <2>1, <4>1 DEF Held
    <3> QED BY <3>1, <3>2
  <2> QED BY <2>1, <2>2, SameFresh
<1>8. ASSUME NEW s, NEW old, NEW new, CasRead(t, s, old, new), op[t].pc # "restore" PROVE Fresh(t)'
  BY <1>8, QuietFresh DEF CasRead, Held
<1>9. ASSUME NEW s, NEW old, NEW new, CasGlobal(t, s, old, new) PROVE Fresh(t)'
  BY <1>8, <1>9, OpTypes DEF CasGlobal, Running
<1>10. ASSUME CasReread(t) PROVE Fresh(t)'
  BY <1>8, <1>10 DEF CasReread
<1>11. ASSUME CasSwap(t) PROVE Fresh(t)'
  BY <1>11, QuietFresh DEF CasSwap, Held
<1>12. ASSUME NEW mark, RestoreTo(t, mark) PROVE Fresh(t)'
  BY <1>12, QuietFresh, OpTypes DEF RestoreTo, Held, Running
<1>13. ASSUME RestorePop(t) PROVE Fresh(t)'
  BY <1>13, PopFresh
<1>14. ASSUME RestoreDone(t) PROVE Fresh(t)'
  <2>1. op[t].pc = "restore" /\ UNCHANGED <<hash, tlv, dyn_stack, live>> /\ SyncIf(op[t].touched, t)
    BY <1>14 DEF RestoreDone
  <2>2. live'[t] = {}
    BY <2>1, NoneAway DEF IInv
  <2>3. CASE op[t].touched
    BY <2>1, <2>2, <2>3, SyncFresh DEF SyncIf
  <2>4. CASE ~op[t].touched
    BY <2>1, <2>4, SameFresh DEF SyncIf, Held
  <2> QED BY <2>3, <2>4
<1> QED BY <1>2, <1>3, <1>4, <1>5, <1>6, <1>7, <1>9, <1>10, <1>11, <1>12, <1>13, <1>14 DEF ThreadNext

\* Every step leaves the cache of a thread right unless the thread stores so.
LEMMA PackageStep ==
  ASSUME Fits, IInv, IInv', [Next]_vars, NEW u \in Threads, Fresh(u), ~StoresUnsynced(u)
  PROVE  Fresh(u)'
<1>1. ASSUME NEW t \in Threads, ThreadNext(t) PROVE Fresh(u)'
  <2>1. CASE u = t
    BY <1>1, <2>1, FreshStep
  <2>2. CASE u # t
    <3>1. /\ dyn_stack'[u] = dyn_stack[u] /\ op'[u] = op[u] /\ Held(u)' = Held(u)
          /\ current_package'[u] = current_package[u]
      BY <1>1, <2>2, OthersSame DEF IInv
    <3> QED BY <3>1 DEF Fresh
  <2> QED BY <2>1, <2>2
<1>2. ASSUME Collect PROVE Fresh(u)'
  <2>1. Held(u)' = Held(u)
    BY <1>2, CollectStep
  <2> QED BY <1>2, <2>1 DEF Collect, Fresh
<1>3. ASSUME NEW t \in Threads, NEW e \in live[t], Rehash(t, e) PROVE Fresh(u)'
  <2>1. Held(u)' = Held(u)
    BY <1>3, RehashStep
  <2> QED BY <1>3, <2>1 DEF Rehash, Fresh
<1>4. ASSUME UNCHANGED vars PROVE Fresh(u)'
  BY <1>4 DEF vars, Fresh, Held
<1> QED BY <1>1, <1>2, <1>3, <1>4 DEF Next

\* A cache that is right is the package the thread sees as *PACKAGE*.
LEMMA FreshFollows ==
  ASSUME IInv, NEW t \in Threads, Fresh(t)
  PROVE  CacheFollows(t)
<1> SUFFICES ASSUME Running(t), \E i \in 1 .. Len(dyn_stack[t]) : dyn_stack[t][i].symbol = Package,
                    cl_symbol_value_on(tlv[t], value, Package) \in Packages
             PROVE  current_package[t] = cl_symbol_value_on(tlv[t], value, Package)
  BY DEF CacheFollows
<1>1. /\ TypeOK /\ Tables /\ Apart /\ Package \in Symbols /\ OnStack(dyn_stack[t], Package)
      /\ ThreadOK(dyn_stack[t], Held(t), op[t]) /\ op[t].pc # "restore"
  BY PackageAssumption, OpTypes DEF IInv, OnStack, Running
<1>2. Content(Held(t), Package) # Absent
  BY <1>1, ContentType DEF ThreadOK, Matches
<1>3. cl_symbol_value_on(tlv[t], value, Package) = Content(Held(t), Package)
  BY <1>1, <1>2, RunningReads
<1> QED BY <1>1, <1>3 DEF Fresh

\* The package the reader and INTERN use falls behind a thread's own binding of
\* *PACKAGE* by nothing but the thread's PROGV, SET, MAKUNBOUND or compare-and-
\* swap of *PACKAGE*: not by LET, SETQ, a C builtin, an exit past any number of
\* bindings, another thread's step or a collection.
THEOREM CacheFallsBehindOnlyBy ==
  ASSUME Fits
  PROVE  Spec => /\ [](\A t \in Threads : Fresh(t) => CacheFollows(t))
                 /\ [][\A t \in Threads : Fresh(t) /\ ~StoresUnsynced(t) => Fresh(t)']_vars
<1> DEFINE Follows == \A t \in Threads : Fresh(t) => CacheFollows(t)
           Kept == \A t \in Threads : Fresh(t) /\ ~StoresUnsynced(t) => Fresh(t)'
<1>1. IInv => Follows
  BY FreshFollows
<1>2. IInv /\ IInv' /\ [Next]_vars => [Kept]_vars
  BY PackageStep
<1> HIDE DEF Follows, Kept
<1>3. Spec => []Follows
  BY <1>1, Invariance, PTL
<1>4. Spec => [][Kept]_vars
  BY <1>2, Invariance, PTL DEF Spec
<1> QED BY <1>3, <1>4 DEF Follows, Kept
=============================================================================
