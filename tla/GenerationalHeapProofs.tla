----------------------- MODULE GenerationalHeapProofs -----------------------
(***************************************************************************)
(* GenerationalHeap for any threads, arena, page, chunk and mark stack:    *)
(* a mark phase reaches every object the program can reach, however often  *)
(* its stack overflows; sliding the survivors is a bijection that carries  *)
(* every path; so the collector is invisible.                              *)
(***************************************************************************)
EXTENDS GenerationalHeap, SequenceLemmas

\* Nobody runs between a minor collection that gave up and the compaction after
\* it.  It is so in a program of one thread; gh_refused shows what happens
\* otherwise.
Undisturbed == ~Interference \/ \A t, u \in Threads : t = u
-----------------------------------------------------------------------------
(***************************************************************************)
(* Recursive functions, and the ranks of the survivors.                    *)
(***************************************************************************)

\* F gives a function on M for each of n steps, and f is m, then what the steps
\* make of it.
Steps(F, n, M) == F \in [1..n -> [M -> M]]
Iterates(f, n, M, m, F) == f \in [0..n -> M] /\ f[0] = m /\ \A i \in 1..n : f[i] = F[i][f[i - 1]]

\* A function defined by recursion over 0..n exists: Walk, Drained and Path are
\* what their equations say.
LEMMA Recursion ==
  ASSUME NEW n \in Nat, NEW M, NEW m \in M, NEW F, Steps(F, n, M)
  PROVE  \E f : Iterates(f, n, M, m, F)
<1> USE DEF Steps
<1> DEFINE P == {k \in 0..n : \E f \in [0..k -> M] : f[0] = m /\ \A i \in 1..k : f[i] = F[i][f[i - 1]]}
<1>1. 0 \in P
  <2> DEFINE g == [i \in 0..0 |-> m]
  <2>1. g \in [0..0 -> M] /\ g[0] = m /\ \A i \in 1..0 : g[i] = F[i][g[i - 1]]
    OBVIOUS
  <2>2. 0 \in 0..n
    OBVIOUS
  <2> HIDE DEF g
  <2> QED BY <2>1, <2>2
<1>2. ASSUME NEW k \in 0..(n - 1), k \in P PROVE k + 1 \in P
  <2>1. PICK f \in [0..k -> M] : f[0] = m /\ \A i \in 1..k : f[i] = F[i][f[i - 1]]
    BY <1>2
  <2> DEFINE g == [i \in 0..(k + 1) |-> IF i = k + 1 THEN F[k + 1][f[k]] ELSE f[i]]
  <2>2. f[k] \in M /\ F[k + 1] \in [M -> M]
    OBVIOUS
  <2>3. g \in [0..(k + 1) -> M]
    BY <2>2
  <2>4. g[0] = m /\ \A i \in 1..k : g[i] = F[i][g[i - 1]]
    BY <2>1
  <2>5. g[k + 1] = F[k + 1][g[k]]
    OBVIOUS
  <2>6. \A i \in 1..(k + 1) : g[i] = F[i][g[i - 1]]
    <3> TAKE i \in 1..(k + 1)
    <3>1. i \in 1..k \/ i = k + 1
      OBVIOUS
    <3>2. (k + 1) - 1 = k
      OBVIOUS
    <3> HIDE DEF g
    <3> QED BY <2>4, <2>5, <3>1, <3>2
  <2>7. k + 1 \in 0..n
    OBVIOUS
  <2> HIDE DEF g
  <2> QED BY <2>3, <2>4, <2>6, <2>7
<1>3. n \in P
  <2> HIDE DEF P
  <2>1. 0..n \subseteq P
    BY <1>1, <1>2, UpTo
  <2> QED BY <2>1
<1> QED BY <1>3 DEF Iterates

\* The places of the survivors S after base: one each, all below n, none free.
Ranks(n, base, S) ==
  /\ IsFiniteSet(S) /\ Cardinality(S) \in Nat /\ base + Cardinality(S) <= n
  /\ \A a \in S : Forward(a, base, S) \in (base + 1)..(base + Cardinality(S))
  /\ \A a, c \in S : Forward(a, base, S) = Forward(c, base, S) => a = c
  /\ \A b \in (base + 1)..(base + Cardinality(S)) : \E a \in S : Forward(a, base, S) = b

\* The ranks of the survivors S count them: they fill the places after base.
LEMMA ForwardProperties ==
  ASSUME NEW n \in Nat, NEW base \in 0..n, NEW S \in SUBSET ((base + 1)..n)
  PROVE  Ranks(n, base, S)
<1> DEFINE below(a) == {b \in S : b <= a}
           N == Cardinality(S)
<1>1. IsFiniteSet((base + 1)..n) /\ Cardinality((base + 1)..n) = n - base
  <2>1. base + 1 \in Int /\ n \in Int
    OBVIOUS
  <2>2. IsFiniteSet((base + 1)..n) /\ Cardinality((base + 1)..n) = IF base + 1 > n THEN 0 ELSE n - (base + 1) + 1
    BY <2>1, FS_Interval
  <2> QED BY <2>2
<1>2. IsFiniteSet(S) /\ N \in Nat /\ N <= n - base
  BY <1>1, FS_Subset, FS_CardinalityType
<1>3. \A a \in S : IsFiniteSet(below(a)) /\ Cardinality(below(a)) \in 1..N
  <2> TAKE a \in S
  <2>1. below(a) \in SUBSET S /\ a \in below(a)
    OBVIOUS
  <2> HIDE DEF below
  <2>2. IsFiniteSet(below(a)) /\ Cardinality(below(a)) <= N /\ Cardinality(below(a)) \in Nat
    BY <1>2, <2>1, FS_Subset, FS_CardinalityType
  <2>3. Cardinality(below(a)) # 0
    BY <2>1, <2>2, FS_EmptySet
  <2> QED BY <1>2, <2>2, <2>3
<1>4. ASSUME NEW a \in S, NEW c \in S, a < c PROVE Cardinality(below(a)) # Cardinality(below(c))
  <2>1. below(a) \in SUBSET below(c) /\ c \in below(c) /\ c \notin below(a)
    <3>1. a \in Int /\ c \in Int /\ \A b \in S : b \in Int
      OBVIOUS
    <3>2. \A b \in S : b <= a => b <= c
      BY <1>4, <3>1
    <3>3. c <= c /\ ~(c <= a)
      BY <1>4, <3>1
    <3> QED BY <3>2, <3>3
  <2> HIDE DEF below
  <2>2. Cardinality(below(c)) = Cardinality(below(a)) => below(c) = below(a)
    BY <1>3, <2>1, FS_Subset
  <2> QED BY <2>1, <2>2
<1>5. \A a, c \in S : Cardinality(below(a)) = Cardinality(below(c)) => a = c
  <2> TAKE a, c \in S
  <2>1. a < c \/ c < a \/ a = c
    OBVIOUS
  <2> QED BY <1>4, <2>1
<1> HIDE DEF below
<1> DEFINE rank == [a \in S |-> Cardinality(below(a))]
<1>6. rank \in Injection(S, 1..N)
  BY <1>3, <1>5 DEF Injection, IsInjective
<1>7. IsFiniteSet(1..N) /\ Cardinality(1..N) = N
  <2>1. IsFiniteSet(1..N) /\ Cardinality(1..N) = IF 1 > N THEN 0 ELSE N - 1 + 1
    <3> HIDE DEF N
    <3>1. 1 \in Int /\ N \in Int
      BY <1>2
    <3> QED BY <3>1, FS_Interval
  <2> HIDE DEF N
  <2> QED BY <1>2, <2>1
<1>8. rank \in Surjection(S, 1..N)
  <2> HIDE DEF rank
  <2> QED BY <1>6, <1>7, FS_Injection
<1>9. \A k \in 1..N : \E a \in S : Cardinality(below(a)) = k
  BY <1>8 DEF Surjection
<1>10. \A a \in S : Forward(a, base, S) = base + Cardinality(below(a))
  BY DEF Forward, below
<1> HIDE DEF rank, N
<1>11. \A a \in S : Forward(a, base, S) \in (base + 1)..(base + N)
  BY <1>2, <1>3, <1>10
<1>12. \A a, c \in S : Forward(a, base, S) = Forward(c, base, S) => a = c
  <2> TAKE a, c \in S
  <2>1. Cardinality(below(a)) \in Nat /\ Cardinality(below(c)) \in Nat
    BY <1>3
  <2> QED BY <1>5, <1>10, <2>1
<1>13. ASSUME NEW b \in (base + 1)..(base + N) PROVE \E a \in S : Forward(a, base, S) = b
  <2>1. b - base \in 1..N
    BY <1>2
  <2>2. PICK a \in S : Cardinality(below(a)) = b - base
    BY <1>9, <2>1
  <2>3. Forward(a, base, S) = b
    BY <1>10, <2>2
  <2> QED BY <2>3
<1>14. /\ IsFiniteSet(S) /\ N \in Nat /\ base + N <= n
       /\ \A a \in S : Forward(a, base, S) \in (base + 1)..(base + N)
       /\ \A a, c \in S : Forward(a, base, S) = Forward(c, base, S) => a = c
       /\ \A b \in (base + 1)..(base + N) : \E a \in S : Forward(a, base, S) = b
  BY <1>2, <1>11, <1>12, <1>13
<1> QED BY ONLY <1>14 DEF N, Ranks
-----------------------------------------------------------------------------
(***************************************************************************)
(* The mark phase.                                                         *)
(***************************************************************************)
\* The units of the arena, and what a mark phase carries.
Cells == [kind : {"hole", "cons", "file", "string"}, next : 0..ArenaSize, slot : Slots \union {0}]

Markings == [marks : SUBSET Units, stack : Seq(Units), overflow : BOOLEAN, live : SUBSET Units,
             inuse : SUBSET (Slots \union {0})]

\* No unit in use refers past the bump front.
HeapShape ==
  /\ ArenaSize \in Nat /\ bump \in 0..ArenaSize /\ oldTop \in 0..bump /\ heap \in [Units -> Cells]
  /\ \A a \in 1..bump : heap[a].next \in 0..bump

\* Marks are on units in use, the survivors of a minor cycle are the marked
\* young objects, and only marked objects are on the stack.
Sane(m) ==
  /\ m \in Markings /\ m.marks \subseteq 1..bump /\ m.live = {a \in m.marks : a > oldTop}
  /\ \A i \in 1..Len(m.stack) : m.stack[i] \in m.marks

\* Object a is on the stack; its children are marked and its buffer is pinned.
Waiting(m, a) == \E i \in 1..Len(m.stack) : m.stack[i] = a
Scanned(m, a) ==
  heap[a].next \in m.marks \union {0} /\ (heap[a].kind = "string" => heap[a].slot \in m.inuse)

\* A mark phase forgets nothing.
Grows(m, n) == m.marks \subseteq n.marks /\ m.inuse \subseteq n.inuse /\ (m.overflow => n.overflow)

\* From m to n the mark phase only visited: what waited still waits, each new
\* object waits unless the stack overflowed, and each was pushed at most once.
Extends(m, n) ==
  /\ Grows(m, n)
  /\ \A a : Waiting(m, a) => Waiting(n, a)
  /\ \A a \in n.marks \ m.marks : n.overflow \/ Waiting(n, a)
  /\ Len(n.stack) + Cardinality(m.marks) <= Len(m.stack) + Cardinality(n.marks)

\* The fields of a marking.
LEMMA MarkingIs ==
  ASSUME NEW m \in Markings
  PROVE  /\ m.marks \in SUBSET Units /\ m.stack \in Seq(Units) /\ m.overflow \in BOOLEAN
         /\ m.live \in SUBSET Units /\ m.inuse \in SUBSET (Slots \union {0})
         /\ m = [marks |-> m.marks, stack |-> m.stack, overflow |-> m.overflow, live |-> m.live, inuse |-> m.inuse]
  BY DEF Markings

\* There are at most ArenaSize marked units.
LEMMA MarksFinite ==
  ASSUME HeapShape, NEW m \in Markings
  PROVE  IsFiniteSet(m.marks) /\ Cardinality(m.marks) \in 0..ArenaSize
<1>1. ArenaSize \in Int /\ 1 \in Int /\ ArenaSize \in Nat
  BY DEF HeapShape
<1>2. IsFiniteSet(Units) /\ Cardinality(Units) = IF 1 > ArenaSize THEN 0 ELSE ArenaSize - 1 + 1
  BY <1>1, FS_Interval DEF Units
<1>3. Cardinality(Units) = ArenaSize
  BY <1>1, <1>2
<1>4. m.marks \in SUBSET Units
  BY DEF Markings
<1>5. IsFiniteSet(m.marks) /\ Cardinality(m.marks) <= ArenaSize
  BY <1>2, <1>3, <1>4, FS_Subset
<1> QED BY <1>1, <1>5, FS_CardinalityType

\* gc_mark_visit of an object not marked yet.
LEMMA VisitIs ==
  ASSUME NEW m \in Markings, NEW a, a # 0, a \notin m.marks
  PROVE  Visit(m, a) =
           [marks |-> m.marks \union {a},
            stack |-> IF Len(m.stack) < MarkLimit THEN Append(m.stack, a) ELSE m.stack,
            overflow |-> m.overflow \/ Len(m.stack) >= MarkLimit,
            live |-> IF a > oldTop THEN m.live \union {a} ELSE m.live,
            inuse |-> m.inuse]
  BY DEF Visit, Markings

\* A visit may do nothing.
LEMMA SelfExtends ==
  ASSUME HeapShape, NEW m \in Markings
  PROVE  Extends(m, m)
  BY MarksFinite, MarkingIs DEF Extends, Grows

\* gc_mark_visit marks the object and keeps the mark phase sane, with a full
\* stack too.
LEMMA VisitStep ==
  ASSUME HeapShape, HeapConstants, NEW m, Sane(m), NEW a \in 0..bump, NEW n, n = Visit(m, a)
  PROVE  Sane(n) /\ Extends(m, n) /\ a \in n.marks \union {0}
<1>1. m \in Markings /\ m.stack \in Seq(Units) /\ Len(m.stack) \in Nat /\ m.marks \in SUBSET Units
      /\ bump \in Nat /\ MarkLimit \in Nat /\ oldTop \in Nat
  BY MarkingIs DEF Sane, HeapShape, HeapConstants
<1>2. CASE a = 0 \/ a \in m.marks
  <2>1. n = m
    BY <1>2 DEF Visit
  <2> QED BY <1>1, <1>2, <2>1, SelfExtends
<1>3. CASE a # 0 /\ a \notin m.marks
  <2>1. /\ n.marks = m.marks \union {a} /\ n.inuse = m.inuse
        /\ n.stack = IF Len(m.stack) < MarkLimit THEN Append(m.stack, a) ELSE m.stack
        /\ n.overflow = (m.overflow \/ Len(m.stack) >= MarkLimit)
        /\ n.live = IF a > oldTop THEN m.live \union {a} ELSE m.live
        /\ n = [marks |-> n.marks, stack |-> n.stack, overflow |-> n.overflow, live |-> n.live, inuse |-> n.inuse]
    <3> DEFINE s == IF Len(m.stack) < MarkLimit THEN Append(m.stack, a) ELSE m.stack
               o == m.overflow \/ Len(m.stack) >= MarkLimit
               l == IF a > oldTop THEN m.live \union {a} ELSE m.live
    <3>1. n = [marks |-> m.marks \union {a}, stack |-> s, overflow |-> o, live |-> l, inuse |-> m.inuse]
      BY <1>1, <1>3, VisitIs
    <3> HIDE DEF s, o, l
    <3>2. /\ n.marks = m.marks \union {a} /\ n.inuse = m.inuse /\ n.stack = s /\ n.overflow = o /\ n.live = l
          /\ n = [marks |-> n.marks, stack |-> n.stack, overflow |-> n.overflow, live |-> n.live, inuse |-> n.inuse]
      BY ONLY <3>1
    <3> QED BY ONLY <3>2 DEF s, o, l
  <2>2. a \in 1..bump /\ a \in Units
    BY <1>3 DEF HeapShape, Units
  <2>3. /\ n.stack \in Seq(Units) /\ Len(n.stack) \in Nat /\ Len(n.stack) <= Len(m.stack) + 1
        /\ \A i \in 1..Len(m.stack) : i \in 1..Len(n.stack) /\ n.stack[i] = m.stack[i]
        /\ \A i \in 1..Len(n.stack) : n.stack[i] = a \/ (i \in 1..Len(m.stack) /\ n.stack[i] = m.stack[i])
        /\ Len(m.stack) < MarkLimit => Len(n.stack) \in 1..Len(n.stack) /\ n.stack[Len(n.stack)] = a
    <3>1. PICK s : s = m.stack
      OBVIOUS
    <3>2. s \in Seq(Units) /\ a \in Units /\ n.stack = IF Len(s) < MarkLimit THEN Append(s, a) ELSE s
      BY <1>1, <2>1, <2>2, <3>1
    <3>3. CASE Len(s) < MarkLimit
      BY <3>1, <3>2, <3>3
    <3>4. CASE ~(Len(s) < MarkLimit)
      BY <3>1, <3>2, <3>4
    <3> QED BY <3>3, <3>4
  <2>4. n.live = {b \in n.marks : b > oldTop}
    BY <2>1 DEF Sane
  <2>5. n \in Markings
    <3>1. /\ n.marks \in SUBSET Units /\ n.overflow \in BOOLEAN /\ n.live \in SUBSET Units
          /\ n.inuse \in SUBSET (Slots \union {0})
      BY <1>1, <2>1, <2>2, <2>4, MarkingIs
    <3> QED BY <2>1, <2>3, <3>1 DEF Markings
  <2>6. Sane(n)
    <3>1. n.marks \subseteq 1..bump
      BY <2>1, <2>2 DEF Sane
    <3>2. \A i \in 1..Len(n.stack) : n.stack[i] \in n.marks
      BY <2>1, <2>3 DEF Sane
    <3> QED BY <2>4, <2>5, <3>1, <3>2 DEF Sane
  <2>7. Cardinality(n.marks) = Cardinality(m.marks) + 1 /\ Cardinality(m.marks) \in Nat
    <3>1. IsFiniteSet(m.marks) /\ Cardinality(m.marks) \in Nat
      BY <1>1, MarksFinite
    <3> QED BY ONLY <1>3, <2>1, <3>1, FS_AddElement
  <2>8. Extends(m, n)
    <3>1. Grows(m, n)
      BY <2>1 DEF Grows
    <3>2. \A b : Waiting(m, b) => Waiting(n, b)
      BY <2>3 DEF Waiting
    <3>3. \A b \in n.marks \ m.marks : n.overflow \/ Waiting(n, b)
      <4>1. n.overflow \/ Len(m.stack) < MarkLimit
        <5>1. Len(m.stack) < MarkLimit \/ Len(m.stack) >= MarkLimit
          BY <1>1
        <5> QED BY <2>1, <5>1, Zenon
      <4>2. n.overflow \/ Waiting(n, a)
        BY <2>3, <4>1 DEF Waiting
      <4> QED BY <2>1, <4>2
    <3>4. Len(n.stack) + Cardinality(m.marks) <= Len(m.stack) + Cardinality(n.marks)
      BY <1>1, <2>3, <2>7
    <3> QED BY <3>1, <3>2, <3>3, <3>4 DEF Extends
  <2> QED BY <2>1, <2>6, <2>8
<1> QED BY <1>2, <1>3

\* Visits add up.
LEMMA ExtendsTransitive ==
  ASSUME HeapShape, NEW k \in Markings, NEW m \in Markings, NEW n \in Markings, Extends(k, m), Extends(m, n)
  PROVE  Extends(k, n)
<1>1. /\ Cardinality(k.marks) \in Nat /\ Cardinality(m.marks) \in Nat /\ Cardinality(n.marks) \in Nat
      /\ Len(k.stack) \in Nat /\ Len(m.stack) \in Nat /\ Len(n.stack) \in Nat
  BY MarksFinite, MarkingIs
<1>2. Grows(k, n)
  BY DEF Extends, Grows
<1>3. \A a : Waiting(k, a) => Waiting(n, a)
  BY DEF Extends
<1>4. \A a \in n.marks \ k.marks : n.overflow \/ Waiting(n, a)
  BY DEF Extends, Grows
<1>5. Len(n.stack) + Cardinality(k.marks) <= Len(k.stack) + Cardinality(n.marks)
  <2>1. /\ Len(m.stack) + Cardinality(k.marks) <= Len(k.stack) + Cardinality(m.marks)
        /\ Len(n.stack) + Cardinality(m.marks) <= Len(m.stack) + Cardinality(n.marks)
    BY DEF Extends
  <2>2. \A a, b, c, d, e, f \in Nat : b + d <= a + e /\ c + e <= b + f => c + d <= a + f
    OBVIOUS
  <2> QED BY ONLY <1>1, <2>1, <2>2
<1> QED BY <1>2, <1>3, <1>4, <1>5 DEF Extends

\* An object that was scanned stays scanned.
LEMMA ScannedStays ==
  ASSUME NEW m, NEW n, Grows(m, n), NEW a, Scanned(m, a)
  PROVE  Scanned(n, a)
  BY DEF Scanned, Grows

\* gc_mark_children scans the object.
LEMMA ChildrenStep ==
  ASSUME HeapShape, HeapConstants, NEW m, Sane(m), NEW a \in 1..bump, NEW r, r = VisitChildren(m, a)
  PROVE  Sane(r) /\ Extends(m, r) /\ Scanned(r, a)
<1>1. PICK n : n = Visit(m, heap[a].next)
  OBVIOUS
<1>2. heap[a].next \in 0..bump /\ heap[a].slot \in Slots \union {0}
  BY DEF HeapShape, Cells, Units
<1>3. Sane(n) /\ Extends(m, n) /\ heap[a].next \in n.marks \union {0}
  BY <1>1, <1>2, VisitStep
<1>4. n \in Markings /\ n = [marks |-> n.marks, stack |-> n.stack, overflow |-> n.overflow, live |-> n.live, inuse |-> n.inuse]
  BY <1>3, MarkingIs DEF Sane
<1>5. PICK u : u = IF heap[a].kind = "string" THEN n.inuse \union {heap[a].slot} ELSE n.inuse
  OBVIOUS
<1>6. r = [n EXCEPT !.inuse = u]
  BY <1>1, <1>5 DEF VisitChildren
<1>7. r = [marks |-> n.marks, stack |-> n.stack, overflow |-> n.overflow, live |-> n.live, inuse |-> u]
  BY ONLY <1>4, <1>6
<1>8. /\ r.marks = n.marks /\ r.stack = n.stack /\ r.overflow = n.overflow /\ r.live = n.live /\ r.inuse = u
  BY ONLY <1>7
<1>9. n.inuse \subseteq u /\ u \in SUBSET (Slots \union {0})
  BY <1>2, <1>4, <1>5, MarkingIs
<1>10. r \in Markings
  BY <1>4, <1>7, <1>9, MarkingIs DEF Markings
<1>11. Sane(r)
  BY <1>3, <1>8, <1>10 DEF Sane
<1>12. Extends(m, r)
  BY <1>3, <1>8, <1>9 DEF Extends, Grows, Waiting
<1>13. Scanned(r, a)
  BY <1>3, <1>5, <1>8 DEF Scanned
<1> QED BY <1>11, <1>12, <1>13

\* A row of visits is a visit.
LEMMA Chain ==
  ASSUME HeapShape, NEW f, Sane(f[0]),
         \A i \in 1..ArenaSize : Sane(f[i - 1]) => Sane(f[i]) /\ Extends(f[i - 1], f[i])
  PROVE  \A i \in 0..ArenaSize : Sane(f[i]) /\ \A j \in 0..i : Extends(f[j], f[i])
<1> DEFINE P == {i \in 0..ArenaSize : Sane(f[i]) /\ \A j \in 0..i : f[j] \in Markings /\ Extends(f[j], f[i])}
<1>1. ArenaSize \in Nat
  BY DEF HeapShape
<1>2. 0 \in P
  BY <1>1, SelfExtends DEF Sane
<1>3. ASSUME NEW k \in 0..(ArenaSize - 1), k \in P PROVE k + 1 \in P
  <2>1. k + 1 \in 1..ArenaSize /\ (k + 1) - 1 = k /\ k + 1 \in 0..ArenaSize
    BY <1>1
  <2>2. Sane(f[k]) /\ \A j \in 0..k : f[j] \in Markings /\ Extends(f[j], f[k])
    BY <1>3
  <2>3. Sane(f[k + 1]) /\ Extends(f[k], f[k + 1])
    <3>1. Sane(f[(k + 1) - 1]) => Sane(f[k + 1]) /\ Extends(f[(k + 1) - 1], f[k + 1])
      BY <2>1
    <3> QED BY <2>1, <2>2, <3>1
  <2>4. ASSUME NEW j \in 0..(k + 1) PROVE f[j] \in Markings /\ Extends(f[j], f[k + 1])
    <3>1. CASE j = k + 1
      BY <2>3, <3>1, SelfExtends DEF Sane
    <3>2. CASE j # k + 1
      <4>1. j \in 0..k /\ j \in 0..ArenaSize
        BY <1>1, <3>2
      <4>2. f[j] \in Markings /\ Extends(f[j], f[k])
        BY <2>2, <4>1
      <4> QED BY <2>2, <2>3, <4>2, ExtendsTransitive DEF Sane
    <3> QED BY <3>1, <3>2
  <2> QED BY <2>1, <2>3, <2>4
<1>4. 0..ArenaSize \subseteq P
  <2> HIDE DEF P
  <2> QED BY <1>1, <1>2, <1>3, UpTo
<1> QED BY <1>4

\* gc_visit_roots, over the registers: each is marked.
LEMMA RootsWalked ==
  ASSUME HeapShape, HeapConstants, NEW m, Sane(m), NEW S \in SUBSET (0..bump), NEW n, n = Walk(m, S, Visit)
  PROVE  Sane(n) /\ Extends(m, n) /\ \A a \in S : a \in n.marks \union {0}
<1> DEFINE M == {k \in Markings : Sane(k)}
           next(k, i) == IF i \in S THEN Visit(k, i) ELSE k
           F == [i \in 1..ArenaSize |-> [k \in M |-> next(k, i)]]
           P(g) == g = [i \in 0..ArenaSize |-> IF i = 0 THEN m ELSE IF i \in S THEN Visit(g[i - 1], i) ELSE g[i - 1]]
<1>1. ArenaSize \in Nat /\ bump \in 0..ArenaSize
  BY DEF HeapShape
<1>2. \A i \in 1..ArenaSize : \A k : Sane(k) => Sane(next(k, i)) /\ Extends(k, next(k, i))
  <2> TAKE i \in 1..ArenaSize
  <2> TAKE k
  <2> HAVE Sane(k)
  <2>1. CASE i \in S
    <3>1. i \in 0..bump
      BY <1>1, <2>1
    <3> QED BY <2>1, <3>1, VisitStep
  <2>2. CASE i \notin S
    BY <2>2, SelfExtends DEF Sane
  <2> QED BY <2>1, <2>2
<1>3. \E g : P(g)
  <2>1. m \in M /\ F \in [1..ArenaSize -> [M -> M]]
    <3>1. \A i \in 1..ArenaSize : \A k \in M : next(k, i) \in M
      <4> HIDE DEF next
      <4> QED BY <1>2 DEF Sane
    <3> HIDE DEF next, M
    <3>2. F \in [1..ArenaSize -> [M -> M]]
      BY <3>1
    <3> QED BY <3>2 DEF M, Sane
  <2> HIDE DEF F, M
  <2>2. PICK f \in [0..ArenaSize -> M] : f[0] = m /\ \A i \in 1..ArenaSize : f[i] = F[i][f[i - 1]]
    <3> HIDE DEF P, next
    <3>1. PICK A \in Nat : A = ArenaSize
      BY <1>1
    <3>2. PICK N, G : N = M /\ G = F
      OBVIOUS
    <3>3. A \in Nat /\ m \in N /\ Steps(G, A, N)
      BY ONLY <2>1, <3>1, <3>2 DEF Steps
    <3>4. PICK f : Iterates(f, A, N, m, G)
      BY ONLY <3>3, Recursion, Zenon
    <3> QED BY ONLY <3>1, <3>2, <3>4 DEF Iterates
  <2>3. \A i \in 1..ArenaSize : i - 1 \in 0..ArenaSize /\ f[i - 1] \in M
    BY <1>1
  <2>4. \A i \in 1..ArenaSize : f[i] = next(f[i - 1], i)
    BY <2>2, <2>3 DEF F
  <2>5. \A i \in 0..ArenaSize : f[i] = IF i = 0 THEN m ELSE next(f[i - 1], i)
    <3> HIDE DEF next
    <3> QED BY <1>1, <2>2, <2>4
  <2>6. P(f)
    BY <2>5
  <2> QED BY <2>6
<1>4. PICK g : P(g) /\ n = g[ArenaSize]
  <2> DEFINE c == CHOOSE g : P(g)
  <2>1. n = c[ArenaSize]
    BY DEF Walk
  <2>2. P(c)
    <3> HIDE DEF P
    <3> QED BY <1>3, Zenon
  <2> HIDE DEF P, c
  <2> QED BY <2>1, <2>2
<1>5. g[0] = m /\ \A i \in 1..ArenaSize : g[i] = next(g[i - 1], i)
  BY <1>1, <1>4
<1> HIDE DEF P, F, M
<1>6. \A i \in 0..ArenaSize : Sane(g[i]) /\ \A j \in 0..i : Extends(g[j], g[i])
  <2> HIDE DEF next
  <2>1. \A i \in 1..ArenaSize : Sane(g[i - 1]) => Sane(g[i]) /\ Extends(g[i - 1], g[i])
    BY <1>2, <1>5
  <2> QED BY <1>5, <2>1, Chain
<1>7. Sane(n) /\ Extends(m, n)
  BY <1>1, <1>4, <1>5, <1>6
<1>8. ASSUME NEW a \in S, a # 0 PROVE a \in n.marks \union {0}
  <2>1. a \in 1..ArenaSize /\ a - 1 \in 0..ArenaSize /\ a \in 0..ArenaSize /\ a \in 1..bump
    BY <1>1, <1>8
  <2>2. Sane(g[a - 1]) /\ g[a] = Visit(g[a - 1], a) /\ Extends(g[a], n) /\ Extends(g[a - 1], n)
    BY <1>1, <1>4, <1>5, <1>6, <2>1
  <2>3. a \in g[a].marks \union {0}
    BY <2>1, <2>2, VisitStep
  <2> QED BY <2>2, <2>3 DEF Extends, Grows
<1> HIDE DEF next
<1> QED BY ONLY <1>7, <1>8

\* gen_walk_dirty_objects: each object on a dirty page is scanned.
LEMMA DirtyWalked ==
  ASSUME HeapShape, HeapConstants, NEW m, Sane(m), NEW S \in SUBSET (1..bump), NEW n, n = Walk(m, S, VisitChildren)
  PROVE  Sane(n) /\ Extends(m, n) /\ \A a \in S : Scanned(n, a)
<1> DEFINE M == {k \in Markings : Sane(k)}
           next(k, i) == IF i \in S THEN VisitChildren(k, i) ELSE k
           F == [i \in 1..ArenaSize |-> [k \in M |-> next(k, i)]]
           P(g) == g = [i \in 0..ArenaSize |-> IF i = 0 THEN m ELSE IF i \in S THEN VisitChildren(g[i - 1], i) ELSE g[i - 1]]
<1>1. ArenaSize \in Nat /\ bump \in 0..ArenaSize
  BY DEF HeapShape
<1>2. \A i \in 1..ArenaSize : \A k : Sane(k) => Sane(next(k, i)) /\ Extends(k, next(k, i))
  <2> TAKE i \in 1..ArenaSize
  <2> TAKE k
  <2> HAVE Sane(k)
  <2>1. CASE i \in S
    BY <1>1, <2>1, ChildrenStep
  <2>2. CASE i \notin S
    BY <2>2, SelfExtends DEF Sane
  <2> QED BY <2>1, <2>2
<1>3. \E g : P(g)
  <2>1. m \in M /\ F \in [1..ArenaSize -> [M -> M]]
    <3>1. \A i \in 1..ArenaSize : \A k \in M : next(k, i) \in M
      <4> HIDE DEF next
      <4> QED BY <1>2 DEF Sane
    <3> HIDE DEF next, M
    <3>2. F \in [1..ArenaSize -> [M -> M]]
      BY <3>1
    <3> QED BY <3>2 DEF M, Sane
  <2> HIDE DEF F, M
  <2>2. PICK f \in [0..ArenaSize -> M] : f[0] = m /\ \A i \in 1..ArenaSize : f[i] = F[i][f[i - 1]]
    <3> HIDE DEF P, next
    <3>1. PICK A \in Nat : A = ArenaSize
      BY <1>1
    <3>2. PICK N, G : N = M /\ G = F
      OBVIOUS
    <3>3. A \in Nat /\ m \in N /\ Steps(G, A, N)
      BY ONLY <2>1, <3>1, <3>2 DEF Steps
    <3>4. PICK f : Iterates(f, A, N, m, G)
      BY ONLY <3>3, Recursion, Zenon
    <3> QED BY ONLY <3>1, <3>2, <3>4 DEF Iterates
  <2>3. \A i \in 1..ArenaSize : i - 1 \in 0..ArenaSize /\ f[i - 1] \in M
    BY <1>1
  <2>4. \A i \in 1..ArenaSize : f[i] = next(f[i - 1], i)
    BY <2>2, <2>3 DEF F
  <2>5. \A i \in 0..ArenaSize : f[i] = IF i = 0 THEN m ELSE next(f[i - 1], i)
    <3> HIDE DEF next
    <3> QED BY <1>1, <2>2, <2>4
  <2>6. P(f)
    BY <2>5
  <2> QED BY <2>6
<1>4. PICK g : P(g) /\ n = g[ArenaSize]
  <2> DEFINE c == CHOOSE g : P(g)
  <2>1. n = c[ArenaSize]
    BY DEF Walk
  <2>2. P(c)
    <3> HIDE DEF P
    <3> QED BY <1>3, Zenon
  <2> HIDE DEF P, c
  <2> QED BY <2>1, <2>2
<1>5. g[0] = m /\ \A i \in 1..ArenaSize : g[i] = next(g[i - 1], i)
  BY <1>1, <1>4
<1> HIDE DEF P, F, M
<1>6. \A i \in 0..ArenaSize : Sane(g[i]) /\ \A j \in 0..i : Extends(g[j], g[i])
  <2> HIDE DEF next
  <2>1. \A i \in 1..ArenaSize : Sane(g[i - 1]) => Sane(g[i]) /\ Extends(g[i - 1], g[i])
    BY <1>2, <1>5
  <2> QED BY <1>5, <2>1, Chain
<1>7. Sane(n) /\ Extends(m, n)
  BY <1>1, <1>4, <1>5, <1>6
<1>8. ASSUME NEW a \in S PROVE Scanned(n, a)
  <2>1. a \in 1..ArenaSize /\ a - 1 \in 0..ArenaSize /\ a \in 0..ArenaSize /\ a \in 1..bump
    BY <1>1, <1>8
  <2>2. Sane(g[a - 1]) /\ g[a] = VisitChildren(g[a - 1], a) /\ Extends(g[a], n) /\ Extends(g[a - 1], n)
    BY <1>1, <1>4, <1>5, <1>6, <2>1
  <2>3. Scanned(g[a], a)
    BY <2>1, <2>2, ChildrenStep
  <2> QED BY <2>2, <2>3, ScannedStays DEF Extends
<1> HIDE DEF next
<1> QED BY ONLY <1>7, <1>8

\* The re-scan after an overflow: an object marked in the end is scanned, waits,
\* or was dropped by another overflow.
LEMMA MarkedWalked ==
  ASSUME HeapShape, HeapConstants, NEW m, Sane(m), NEW S \in SUBSET (1..bump), NEW n, n = Walk(m, S, VisitMarked)
  PROVE  Sane(n) /\ Extends(m, n) /\ \A a \in S : a \in n.marks => n.overflow \/ Waiting(n, a) \/ Scanned(n, a)
<1> DEFINE M == {k \in Markings : Sane(k)}
           next(k, i) == IF i \in S THEN VisitMarked(k, i) ELSE k
           F == [i \in 1..ArenaSize |-> [k \in M |-> next(k, i)]]
           P(g) == g = [i \in 0..ArenaSize |-> IF i = 0 THEN m ELSE IF i \in S THEN VisitMarked(g[i - 1], i) ELSE g[i - 1]]
<1>1. ArenaSize \in Nat /\ bump \in 0..ArenaSize
  BY DEF HeapShape
<1>2. \A i \in 1..ArenaSize : \A k : Sane(k) => Sane(next(k, i)) /\ Extends(k, next(k, i))
  <2> TAKE i \in 1..ArenaSize
  <2> TAKE k
  <2> HAVE Sane(k)
  <2>1. CASE i \in S
    BY <1>1, <2>1, ChildrenStep, SelfExtends DEF VisitMarked, Sane
  <2>2. CASE i \notin S
    BY <2>2, SelfExtends DEF Sane
  <2> QED BY <2>1, <2>2
<1>3. \E g : P(g)
  <2>1. m \in M /\ F \in [1..ArenaSize -> [M -> M]]
    <3>1. \A i \in 1..ArenaSize : \A k \in M : next(k, i) \in M
      <4> HIDE DEF next
      <4> QED BY <1>2 DEF Sane
    <3> HIDE DEF next, M
    <3>2. F \in [1..ArenaSize -> [M -> M]]
      BY <3>1
    <3> QED BY <3>2 DEF M, Sane
  <2> HIDE DEF F, M
  <2>2. PICK f \in [0..ArenaSize -> M] : f[0] = m /\ \A i \in 1..ArenaSize : f[i] = F[i][f[i - 1]]
    <3> HIDE DEF P, next
    <3>1. PICK A \in Nat : A = ArenaSize
      BY <1>1
    <3>2. PICK N, G : N = M /\ G = F
      OBVIOUS
    <3>3. A \in Nat /\ m \in N /\ Steps(G, A, N)
      BY ONLY <2>1, <3>1, <3>2 DEF Steps
    <3>4. PICK f : Iterates(f, A, N, m, G)
      BY ONLY <3>3, Recursion, Zenon
    <3> QED BY ONLY <3>1, <3>2, <3>4 DEF Iterates
  <2>3. \A i \in 1..ArenaSize : i - 1 \in 0..ArenaSize /\ f[i - 1] \in M
    BY <1>1
  <2>4. \A i \in 1..ArenaSize : f[i] = next(f[i - 1], i)
    BY <2>2, <2>3 DEF F
  <2>5. \A i \in 0..ArenaSize : f[i] = IF i = 0 THEN m ELSE next(f[i - 1], i)
    <3> HIDE DEF next
    <3> QED BY <1>1, <2>2, <2>4
  <2>6. P(f)
    BY <2>5
  <2> QED BY <2>6
<1>4. PICK g : P(g) /\ n = g[ArenaSize]
  <2> DEFINE c == CHOOSE g : P(g)
  <2>1. n = c[ArenaSize]
    BY DEF Walk
  <2>2. P(c)
    <3> HIDE DEF P
    <3> QED BY <1>3, Zenon
  <2> HIDE DEF P, c
  <2> QED BY <2>1, <2>2
<1>5. g[0] = m /\ \A i \in 1..ArenaSize : g[i] = next(g[i - 1], i)
  BY <1>1, <1>4
<1> HIDE DEF P, F, M
<1>6. \A i \in 0..ArenaSize : Sane(g[i]) /\ \A j \in 0..i : Extends(g[j], g[i])
  <2> HIDE DEF next
  <2>1. \A i \in 1..ArenaSize : Sane(g[i - 1]) => Sane(g[i]) /\ Extends(g[i - 1], g[i])
    BY <1>2, <1>5
  <2> QED BY <1>5, <2>1, Chain
<1>7. Sane(n) /\ Extends(m, n)
  BY <1>1, <1>4, <1>5, <1>6
<1>8. ASSUME NEW a \in S, a \in n.marks PROVE n.overflow \/ Waiting(n, a) \/ Scanned(n, a)
  <2>1. a \in 1..ArenaSize /\ a - 1 \in 0..ArenaSize /\ a \in 0..ArenaSize /\ a \in 1..bump
    BY <1>1, <1>8
  <2>2. Sane(g[a - 1]) /\ g[a] = VisitMarked(g[a - 1], a) /\ Extends(g[a], n) /\ Extends(g[a - 1], n)
    BY <1>1, <1>4, <1>5, <1>6, <2>1
  <2>3. CASE a \in g[a - 1].marks
    <3>1. Scanned(g[a], a)
      BY <2>1, <2>2, <2>3, ChildrenStep DEF VisitMarked
    <3> QED BY <2>2, <3>1, ScannedStays DEF Extends
  <2>4. CASE a \notin g[a - 1].marks
    BY <1>8, <2>2, <2>4 DEF Extends
  <2> QED BY <2>3, <2>4
<1> HIDE DEF next
<1> QED BY ONLY <1>7, <1>8

\* What a mark phase may not lose: a marked object of X is scanned, waits to be,
\* or the overflow flag calls for another pass.
Covered(m, X) == \A a \in m.marks \intersect X : m.overflow \/ Waiting(m, a) \/ Scanned(m, a)

\* Visits keep the cover.
LEMMA CoveredStays ==
  ASSUME NEW m, NEW n, NEW X, Extends(m, n), Covered(m, X)
  PROVE  Covered(n, X)
<1> SUFFICES ASSUME NEW a \in n.marks \intersect X PROVE n.overflow \/ Waiting(n, a) \/ Scanned(n, a)
  BY DEF Covered
<1>1. CASE a \in m.marks
  <2>1. m.overflow \/ Waiting(m, a) \/ Scanned(m, a)
    BY <1>1 DEF Covered
  <2>2. Grows(m, n) /\ (Waiting(m, a) => Waiting(n, a))
    BY DEF Extends
  <2> QED BY <2>1, <2>2, ScannedStays DEF Grows
<1>2. CASE a \notin m.marks
  BY <1>2 DEF Extends
<1> QED BY <1>1, <1>2

\* From m to n one object was taken from the stack and scanned.
Popped(m, n, X) ==
  /\ Sane(n) /\ Grows(m, n) /\ (Covered(m, X) => Covered(n, X))
  /\ Len(n.stack) + 1 + Cardinality(m.marks) <= Len(m.stack) + Cardinality(n.marks)

\* One turn of gc_mark_drain keeps the cover.
LEMMA PopStep ==
  ASSUME HeapShape, HeapConstants, NEW m, Sane(m), m.stack # <<>>, NEW X,
         NEW r, r = VisitChildren([m EXCEPT !.stack = Front(@)], Last(m.stack))
  PROVE  Popped(m, r, X)
<1>1. PICK s : s = m.stack
  OBVIOUS
<1>2. s \in Seq(Units) /\ s # <<>> /\ \A i \in 1..Len(s) : s[i] \in m.marks
  BY <1>1, MarkingIs DEF Sane
<1>3. PICK l : l = Len(s)
  OBVIOUS
<1>4. l \in Nat /\ l >= 1
  BY <1>2, <1>3
<1>5. PICK b : b = Front(s)
  OBVIOUS
<1>6. b \in Seq(Units) /\ Len(b) = l - 1 /\ \A i \in 1..(l - 1) : b[i] = s[i]
  <2>1. b = SubSeq(s, 1, l - 1)
    BY <1>3, <1>5 DEF Front
  <2> QED BY <1>2, <1>3, <1>4, <2>1
<1>7. PICK x : x = s[l]
  OBVIOUS
<1>8. x \in m.marks /\ x \in 1..bump
  BY <1>2, <1>3, <1>4, <1>7 DEF Sane
<1>9. PICK p : p = [m EXCEPT !.stack = b]
  OBVIOUS
<1>10. /\ p.marks = m.marks /\ p.stack = b /\ p.overflow = m.overflow /\ p.live = m.live /\ p.inuse = m.inuse
       /\ p \in Markings
  <2>1. m = [marks |-> m.marks, stack |-> m.stack, overflow |-> m.overflow, live |-> m.live, inuse |-> m.inuse]
    BY MarkingIs DEF Sane
  <2>2. p = [marks |-> m.marks, stack |-> b, overflow |-> m.overflow, live |-> m.live, inuse |-> m.inuse]
    BY ONLY <1>9, <2>1
  <2>3. p.marks = m.marks /\ p.stack = b /\ p.overflow = m.overflow /\ p.live = m.live /\ p.inuse = m.inuse
    BY ONLY <2>2
  <2> QED BY <1>6, <2>2, <2>3, MarkingIs DEF Sane, Markings
<1>11. r = VisitChildren(p, x)
  BY <1>1, <1>3, <1>5, <1>7, <1>9 DEF Last
<1>12. Sane(p)
  <2>1. \A i \in 1..(l - 1) : b[i] \in m.marks
    BY <1>2, <1>3, <1>4, <1>6
  <2> QED BY <1>4, <1>6, <1>10, <2>1 DEF Sane
<1>13. Sane(r) /\ Extends(p, r) /\ Scanned(r, x)
  BY <1>8, <1>11, <1>12, ChildrenStep
<1>14. Grows(m, r)
  BY <1>10, <1>13 DEF Extends, Grows
<1>15. ASSUME Covered(m, X), NEW a \in r.marks \intersect X PROVE r.overflow \/ Waiting(r, a) \/ Scanned(r, a)
  <2>1. CASE a \notin m.marks
    BY <1>10, <1>13, <2>1 DEF Extends
  <2>2. CASE a \in m.marks /\ (m.overflow \/ Scanned(m, a))
    BY <1>14, <2>2, ScannedStays DEF Grows
  <2>3. CASE Waiting(m, a)
    <3>1. PICK i \in 1..l : s[i] = a
      BY <1>1, <1>3, <2>3 DEF Waiting
    <3>2. CASE i = l
      BY <1>7, <1>13, <3>1, <3>2
    <3>3. CASE i # l
      <4>1. i \in 1..(l - 1) /\ b[i] = a
        BY <1>4, <1>6, <3>1, <3>3
      <4>2. Waiting(p, a)
        BY <1>6, <1>10, <4>1 DEF Waiting
      <4> QED BY <1>13, <4>2 DEF Extends
    <3> QED BY <3>2, <3>3
  <2> QED BY <1>15, <2>1, <2>2, <2>3 DEF Covered
<1>16. Len(r.stack) + 1 + Cardinality(m.marks) <= Len(m.stack) + Cardinality(r.marks)
  <2>1. Len(r.stack) \in Nat /\ Cardinality(m.marks) \in Nat /\ Cardinality(r.marks) \in Nat
    BY <1>13, MarksFinite, MarkingIs DEF Sane
  <2>2. Len(r.stack) + Cardinality(m.marks) <= (l - 1) + Cardinality(r.marks) /\ Len(m.stack) = l
    BY <1>1, <1>3, <1>6, <1>10, <1>13 DEF Extends
  <2>3. \A a, c, d \in Nat : a + c <= (l - 1) + d => a + 1 + c <= l + d
    BY <1>4
  <2> QED BY ONLY <2>1, <2>2, <2>3
<1> QED BY <1>13, <1>14, <1>15, <1>16 DEF Popped, Covered

\* gc_mark_drain empties the stack: ArenaSize turns are enough, because an
\* object is pushed once.
LEMMA DrainedProperties ==
  ASSUME HeapShape, HeapConstants, NEW m, Sane(m), Len(m.stack) <= Cardinality(m.marks), NEW X, Covered(m, X),
         NEW n, n = Drained(m)
  PROVE  Sane(n) /\ Grows(m, n) /\ n.stack = <<>> /\ Covered(n, X)
<1> DEFINE M == {k \in Markings : Sane(k)}
           next(k) == IF k.stack = <<>> THEN k ELSE VisitChildren([k EXCEPT !.stack = Front(@)], Last(k.stack))
           F == [i \in 1..ArenaSize |-> [k \in M |-> next(k)]]
           P(g) == g = [i \in 0..ArenaSize |-> IF i = 0 THEN m ELSE next(g[i - 1])]
<1>1. ArenaSize \in Nat /\ bump \in 0..ArenaSize
  BY DEF HeapShape
<1>2. \A k : Sane(k) => IF k.stack = <<>> THEN next(k) = k ELSE Popped(k, next(k), X)
  BY PopStep
<1>3. \E g : P(g)
  <2>1. m \in M /\ F \in [1..ArenaSize -> [M -> M]]
    <3>1. \A k \in M : next(k) \in M
      <4> HIDE DEF next
      <4> QED BY <1>2 DEF Sane, Popped
    <3> HIDE DEF next, M
    <3>2. F \in [1..ArenaSize -> [M -> M]]
      BY <3>1
    <3> QED BY <3>2 DEF M, Sane
  <2> HIDE DEF F, M
  <2>2. PICK f \in [0..ArenaSize -> M] : f[0] = m /\ \A i \in 1..ArenaSize : f[i] = F[i][f[i - 1]]
    <3> HIDE DEF P, next
    <3>1. PICK A \in Nat : A = ArenaSize
      BY <1>1
    <3>2. PICK N, G : N = M /\ G = F
      OBVIOUS
    <3>3. A \in Nat /\ m \in N /\ Steps(G, A, N)
      BY ONLY <2>1, <3>1, <3>2 DEF Steps
    <3>4. PICK f : Iterates(f, A, N, m, G)
      BY ONLY <3>3, Recursion, Zenon
    <3> QED BY ONLY <3>1, <3>2, <3>4 DEF Iterates
  <2>3. \A i \in 1..ArenaSize : i - 1 \in 0..ArenaSize /\ f[i - 1] \in M
    BY <1>1
  <2>4. \A i \in 1..ArenaSize : f[i] = next(f[i - 1])
    BY <2>2, <2>3 DEF F
  <2>5. \A i \in 0..ArenaSize : f[i] = IF i = 0 THEN m ELSE next(f[i - 1])
    <3> HIDE DEF next
    <3> QED BY <1>1, <2>2, <2>4
  <2>6. P(f)
    <3> HIDE DEF next
    <3> QED BY <2>5
  <2> QED BY <2>6
<1>4. PICK g : P(g) /\ n = g[ArenaSize]
  <2> DEFINE c == CHOOSE g : P(g)
  <2>1. n = c[ArenaSize]
    BY DEF Drained
  <2>2. P(c)
    <3> HIDE DEF P
    <3> QED BY <1>3, Zenon
  <2> HIDE DEF P, c
  <2> QED BY <2>1, <2>2
<1> HIDE DEF next
<1>5. g[0] = m /\ \A i \in 1..ArenaSize : g[i] = next(g[i - 1])
  BY <1>1, <1>4
<1> HIDE DEF P, F, M
<1> DEFINE Q == {i \in 0..ArenaSize :
                   /\ Sane(g[i]) /\ Grows(m, g[i]) /\ Covered(g[i], X)
                   /\ g[i].stack = <<>> \/ i + Len(g[i].stack) <= Cardinality(g[i].marks)}
<1>6. 0 \in Q
  <2>1. Len(m.stack) \in Nat
    BY MarkingIs DEF Sane
  <2>2. 0 + Len(m.stack) = Len(m.stack)
    BY ONLY <2>1
  <2>3. Grows(m, m)
    BY DEF Grows
  <2> QED BY <1>1, <1>5, <2>2, <2>3
<1>7. ASSUME NEW i \in 0..(ArenaSize - 1), i \in Q PROVE i + 1 \in Q
  <2>1. i + 1 \in 1..ArenaSize /\ i + 1 \in 0..ArenaSize /\ (i + 1) - 1 = i
    BY <1>1
  <2>2. g[i + 1] = next(g[i])
    <3>1. g[i + 1] = next(g[(i + 1) - 1])
      BY <1>5, <2>1
    <3> QED BY <2>1, <3>1
  <2>3. PICK k, r : k = g[i] /\ r = g[i + 1]
    OBVIOUS
  <2>4. /\ Sane(k) /\ Grows(m, k) /\ Covered(k, X)
        /\ k.stack = <<>> \/ i + Len(k.stack) <= Cardinality(k.marks)
    BY <1>7, <2>3
  <2>5. CASE k.stack = <<>>
    BY <1>2, <2>1, <2>2, <2>3, <2>4, <2>5
  <2>6. CASE k.stack # <<>>
    <3>1. Popped(k, r, X)
      BY <1>2, <2>2, <2>3, <2>4, <2>6
    <3>2. Grows(m, r)
      BY <2>4, <3>1 DEF Popped, Grows
    <3>3. /\ Len(r.stack) \in Nat /\ Len(k.stack) \in Nat
          /\ Cardinality(r.marks) \in Nat /\ Cardinality(k.marks) \in Nat /\ i \in Nat
      BY <2>4, <3>1, MarksFinite, MarkingIs DEF Sane, Popped
    <3>4. Len(r.stack) + 1 + Cardinality(k.marks) <= Len(k.stack) + Cardinality(r.marks)
      BY <3>1 DEF Popped
    <3>5. \A a, b, c, d \in Nat : a + 1 + c <= b + d /\ i + b <= c => (i + 1) + a <= d
      BY <3>3
    <3>6. (i + 1) + Len(r.stack) <= Cardinality(r.marks)
      BY ONLY <2>4, <2>6, <3>3, <3>4, <3>5
    <3> QED BY <2>1, <2>3, <2>4, <3>1, <3>2, <3>6 DEF Popped
  <2> QED BY <2>5, <2>6
<1>8. ArenaSize \in Q
  <2> HIDE DEF Q
  <2>1. 0..ArenaSize \subseteq Q
    BY <1>1, <1>6, <1>7, UpTo
  <2> QED BY <1>1, <2>1
<1>9. Sane(n) /\ Grows(m, n) /\ Covered(n, X) /\ (n.stack = <<>> \/ ArenaSize + Len(n.stack) <= Cardinality(n.marks))
  BY <1>4, <1>8
<1>10. n.stack = <<>>
  <2>1. n.stack \in Seq(Units) /\ Cardinality(n.marks) \in 0..ArenaSize
    BY <1>9, MarksFinite, MarkingIs DEF Sane
  <2>2. Len(n.stack) \in Nat /\ (Len(n.stack) = 0 => n.stack = <<>>)
    BY ONLY <2>1
  <2>3. ~(ArenaSize + Len(n.stack) <= Cardinality(n.marks)) \/ Len(n.stack) = 0
    BY <1>1, <2>1, <2>2
  <2> QED BY <1>9, <2>2, <2>3
<1> QED BY <1>9, <1>10
-----------------------------------------------------------------------------
(***************************************************************************)
(* The inductive invariant.                                                *)
(***************************************************************************)
\* Where a thread can be, and the wants and chunks it can have.
Labels == {"run", "minor", "minored", "refused", "compact", "compacted", "buffer", "buffer_gc", "buffer_retry"}
Allocating == {"minor", "minored", "refused", "compact", "compacted"}
Buffering == {"buffer", "buffer_gc", "buffer_retry"}
Wants == [kind : {"none", "cons", "file", "string"}, handle : Slots \union {0}]
Chunks == [cur : Nat, lim : Nat]

\* A reference: none, or a unit in use that holds an object.
IsObject(a) == a = 0 \/ (a \in 1..bump /\ heap[a].kind # "hole")

\* The types of the variables, with the young finalizable objects above old space.
TypesOK ==
  /\ bump \in 0..ArenaSize /\ oldTop \in 0..bump /\ heap \in [Units -> Cells]
  /\ marks \subseteq 1..bump /\ fin \subseteq (oldTop + 1)..bump
  /\ bufs \subseteq Slots /\ open \subseteq Slots
  /\ chunk \in [Threads -> Chunks] /\ pc \in [Threads -> Labels] /\ want \in [Threads -> Wants]

\* No reference dangles, from a unit in use or from a variable.
RefsOK ==
  /\ \A a \in 1..bump : IsObject(heap[a].next)
  /\ reg = [t \in Threads |-> reg[t]] /\ \A t \in Threads : IsObject(reg[t])
  /\ IsObject(glob)

\* Units past the bump front are empty.
FreeOK == \A a \in Units : a > bump => heap[a] = Hole

\* A chunk is a row of empty units above old space, apart from every other one.
ChunkOK(c) ==
  c.cur # 0 => /\ oldTop < c.cur /\ c.cur < c.lim /\ c.lim <= bump + 1
               /\ \A a \in c.cur..(c.lim - 1) : heap[a].kind = "hole"
Apart(c, d) == c.cur # 0 /\ d.cur # 0 => c.lim <= d.cur \/ d.lim <= c.cur
ChunksOK ==
  /\ \A t \in Threads : ChunkOK(chunk[t])
  /\ \A t, u \in Threads : t # u => Apart(chunk[t], chunk[u])

\* An old object on a clean page refers to old objects.
CleanOK == \A a \in 1..oldTop : Page(a) \notin dirty => heap[a].next <= oldTop

\* The world runs and no minor collection has just given up.
Quiet == ~Stopped /\ \A t \in Threads : pc[t] # "refused"

\* There is a write watch as soon as there is an old object, and the page old
\* space shares with the nursery is dirty.
EraOK ==
  Quiet => \/ oldTop = 0
           \/ watched /\ (oldTop % PageSize # 0 => oldTop \div PageSize \in dirty)

\* The sticky marks are those of old space; only a compaction clears them.
MarksOK ==
  /\ Quiet => marks \subseteq 1..oldTop
  /\ ~(Stopped /\ gc.kind = "compact") => 1..oldTop \subseteq marks

\* A stream has its handle or buffer and shares it with none, and neither with
\* a thread that has opened a file for a stream it has yet to make.
OwnsSlot(a) ==
  heap[a].slot # 0 => \/ heap[a].kind = "file" /\ heap[a].slot \in open
                      \/ heap[a].kind = "string" /\ heap[a].slot \in bufs
OwnSlot(a, b) == heap[a].slot # 0 /\ heap[a].kind = heap[b].kind => heap[a].slot # heap[b].slot
Awaits(t, a) == want[t].handle # 0 /\ heap[a].kind = "file" => heap[a].slot # want[t].handle

\* No two streams, dead ones included, have one handle or buffer.
SlotsOK ==
  /\ \A a \in Units : OwnsSlot(a)
  /\ \A a, b \in Units : a # b => OwnSlot(a, b)

\* The handle that waits for a stream is open and is nobody's else.
WantsOK ==
  /\ \A t \in Threads : want[t].handle # 0 => want[t].kind = "file" /\ want[t].handle \in open
  /\ \A t \in Threads : \A a \in Units : Awaits(t, a)
  /\ \A t, u \in Threads : t # u /\ want[t].handle # 0 => want[t].handle # want[u].handle

\* A thread in gcb_alloc_slow knows what it allocates; one that waits for a
\* buffer holds its string stream.
ThreadsOK ==
  \A t \in Threads :
    /\ pc[t] \in Allocating => want[t].kind # "none"
    /\ pc[t] \in Buffering => reg[t] # 0 /\ heap[reg[t]].kind = "string"

\* The objects whose children a collection must visit, those of the nursery in
\* a minor one; a collection in progress has lost none, has marked the roots,
\* and after the walk of the dirty pages has scanned the objects on them.
TracedSet == IF gc.kind = "minor" THEN (oldTop + 1)..bump ELSE 1..bump
CollectionOK ==
  /\ gc.by \in Threads /\ gc.kind \in {"minor", "compact"} /\ gc.phase \in {"trace", "dirty"}
  /\ gc = [by |-> gc.by, kind |-> gc.kind, phase |-> gc.phase, overflow |-> gc.overflow,
           live |-> gc.live, inuse |-> gc.inuse]
  /\ Sane(Marking) /\ Covered(Marking, TracedSet)
  /\ chunk = [t \in Threads |-> NoChunk]
  /\ glob \in marks \union {0} /\ \A t \in Threads : reg[t] \in marks \union {0}
  /\ gc.kind = "minor" => pc[gc.by] = "minor"
  /\ gc.kind = "compact" => pc[gc.by] \in {"refused", "compact", "buffer_gc", "run"}
  /\ gc.phase = "dirty" => gc.kind = "minor" /\ \A a \in DirtyObjects : Scanned(Marking, a)
TraceOK == IF Stopped THEN CollectionOK ELSE gc = NoCollection

\* The inductive invariant.
IInv ==
  /\ TypesOK /\ RefsOK /\ FreeOK /\ ChunksOK /\ CleanOK /\ EraOK /\ MarksOK
  /\ SlotsOK /\ WantsOK /\ ThreadsOK /\ TraceOK

-----------------------------------------------------------------------------
(***************************************************************************)
(* The steps of the program and of allocation.                             *)
(***************************************************************************)
\* What the assumption on the constants says.
LEMMA Constants ==
  /\ ArenaSize \in Nat /\ PageSize \in Nat /\ PageSize >= 1 /\ ChunkSize \in Nat /\ ChunkSize >= 1
  /\ MarkLimit \in Nat /\ NoThread \notin Threads /\ 0 \notin Slots
  /\ Slots \subseteq Nat
  BY HeapConstants

\* The invariant gives the shape that the mark phase needs.
LEMMA Shape ==
  ASSUME TypesOK, RefsOK
  PROVE  HeapShape
  BY Constants DEF TypesOK, RefsOK, IsObject, HeapShape

\* A step of the running program is taken with no collection given up.
LEMMA AtQuiet ==
  ASSUME Undisturbed, NEW t \in Threads, NEW l, l # "refused", At(t, l)
  PROVE  Quiet /\ pc[t] = l /\ ~Stopped
  BY DEF At, Quiet, Undisturbed

\* A step of the running program that moves no object.
LEMMA LightStep ==
  ASSUME IInv, Quiet, UNCHANGED <<heap, bump, marks, oldTop, dirty, watched, chunk, fin, bufs, gc>>,
         open \subseteq open', open' \subseteq Slots, pc' \in [Threads -> Labels], want' \in [Threads -> Wants],
         reg' = [t \in Threads |-> reg'[t]], \A t \in Threads : IsObject(reg'[t]), IsObject(glob'),
         WantsOK', ThreadsOK'
  PROVE  IInv'
<1>1. TypesOK'
  BY DEF IInv, TypesOK
<1>2. RefsOK'
  BY DEF IInv, RefsOK, IsObject
<1>3. FreeOK' /\ CleanOK'
  BY DEF IInv, FreeOK, CleanOK
<1>4. ChunksOK'
  BY DEF IInv, ChunksOK, ChunkOK, Apart
<1>5. ~Stopped /\ ~Stopped'
  BY DEF Quiet, Stopped
<1>6. EraOK' /\ MarksOK'
  BY <1>5 DEF IInv, EraOK, MarksOK, Quiet
<1>7. SlotsOK'
  BY DEF IInv, SlotsOK, OwnsSlot, OwnSlot
<1>8. TraceOK'
  BY <1>5 DEF IInv, TraceOK
<1> QED BY <1>1, <1>2, <1>3, <1>4, <1>6, <1>7, <1>8 DEF IInv

\* Escalate and Exhausted keep the invariant.
LEMMA EscalateStep ==
  ASSUME IInv, Undisturbed, NEW t \in Threads, Escalate(t) \/ Exhausted(t)
  PROVE  IInv'
<1>1. Quiet /\ pc[t] \in {"minored", "compacted"}
  BY AtQuiet DEF Escalate, Exhausted
<1>2. UNCHANGED <<heap, bump, marks, oldTop, dirty, watched, chunk, fin, reg, glob, bufs, open, gc>>
  BY DEF Escalate, Exhausted
<1>3. pc \in [Threads -> Labels] /\ want \in [Threads -> Wants]
  BY DEF IInv, TypesOK
<1>4. NoObject \in Wants /\ NoObject.handle = 0
  BY DEF NoObject, Wants
<1>5. \/ pc' = [pc EXCEPT ![t] = "compact"] /\ want' = want
      \/ pc' = [pc EXCEPT ![t] = "run"] /\ want' = [want EXCEPT ![t] = NoObject]
  BY DEF Escalate, Exhausted
<1>6. /\ pc' \in [Threads -> Labels] /\ want' \in [Threads -> Wants]
      /\ \A u \in Threads \ {t} : pc'[u] = pc[u] /\ want'[u] = want[u]
      /\ \/ pc'[t] = "compact" /\ want'[t] = want[t]
         \/ pc'[t] = "run" /\ want'[t] = NoObject
  BY <1>3, <1>4, <1>5 DEF Labels
<1>7. WantsOK'
  BY <1>2, <1>4, <1>6 DEF IInv, WantsOK, Awaits
<1>8. ThreadsOK'
  BY <1>1, <1>2, <1>6 DEF IInv, ThreadsOK, Allocating, Buffering
<1> QED BY <1>1, <1>2, <1>6, <1>7, <1>8, LightStep DEF IInv, RefsOK, TypesOK

\* Read keeps the invariant.
LEMMA ReadStep ==
  ASSUME IInv, Undisturbed, NEW t \in Threads, NEW a, IsObject(a), Read(t, a)
  PROVE  IInv'
<1>1. Quiet /\ pc[t] = "run"
  BY AtQuiet DEF Read
<1>2. UNCHANGED <<heap, bump, marks, oldTop, dirty, watched, chunk, fin, glob, bufs, open, gc, pc, want>>
  BY DEF Read, Keeps
<1>3. reg = [u \in Threads |-> reg[u]] /\ \A u \in Threads : IsObject(reg[u])
  BY DEF IInv, RefsOK
<1>4. /\ reg' = [u \in Threads |-> reg'[u]] /\ reg'[t] = a /\ \A u \in Threads \ {t} : reg'[u] = reg[u]
  BY <1>3 DEF Read
<1>5. WantsOK' /\ ThreadsOK'
  BY <1>1, <1>2, <1>4 DEF IInv, WantsOK, Awaits, ThreadsOK, Allocating, Buffering
<1> QED BY <1>1, <1>2, <1>3, <1>4, <1>5, LightStep DEF IInv, RefsOK, TypesOK

\* Share keeps the invariant.
LEMMA ShareStep ==
  ASSUME IInv, Undisturbed, NEW t \in Threads, Share(t)
  PROVE  IInv'
<1>1. Quiet /\ pc[t] = "run"
  BY AtQuiet DEF Share
<1>2. UNCHANGED <<heap, bump, marks, oldTop, dirty, watched, chunk, fin, reg, bufs, open, gc, pc, want>> /\ glob' = reg[t]
  BY DEF Share, Keeps
<1>3. WantsOK' /\ ThreadsOK'
  BY <1>2 DEF IInv, WantsOK, Awaits, ThreadsOK, Allocating, Buffering
<1> QED BY <1>1, <1>2, <1>3, LightStep DEF IInv, RefsOK, TypesOK

\* NoBuffer keeps the invariant.
LEMMA NoBufferStep ==
  ASSUME IInv, Undisturbed, NEW t \in Threads, NoBuffer(t)
  PROVE  IInv'
<1>1. Quiet /\ pc[t] \in Buffering
  BY AtQuiet DEF NoBuffer, Buffering
<1>2. UNCHANGED <<heap, bump, marks, oldTop, dirty, watched, chunk, fin, glob, bufs, open, gc, want>>
  BY DEF NoBuffer, Keeps
<1>3. reg = [u \in Threads |-> reg[u]] /\ (\A u \in Threads : IsObject(reg[u])) /\ pc \in [Threads -> Labels]
      /\ want \in [Threads -> Wants]
  BY DEF IInv, RefsOK, TypesOK
<1>4. /\ reg' = [u \in Threads |-> reg'[u]] /\ pc' \in [Threads -> Labels]
      /\ \A u \in Threads \ {t} : reg'[u] = reg[u] /\ pc'[u] = pc[u]
      /\ \/ pc'[t] = "buffer_gc" /\ reg'[t] = reg[t]
         \/ pc'[t] = "run" /\ reg'[t] = 0
  BY <1>3 DEF NoBuffer, Labels
<1>5. WantsOK'
  BY <1>2 DEF IInv, WantsOK, Awaits
<1>6. ThreadsOK'
  BY <1>1, <1>2, <1>4 DEF IInv, ThreadsOK, Allocating, Buffering
<1>7. \A u \in Threads : IsObject(reg'[u])
  BY <1>3, <1>4 DEF IsObject
<1> QED BY <1>1, <1>2, <1>3, <1>4, <1>5, <1>6, <1>7, LightStep DEF IInv, RefsOK, TypesOK

\* Division with a remainder.
LEMMA DivisionIs ==
  ASSUME NEW p \in Nat, p >= 1, NEW x \in Nat
  PROVE  \E d, r \in Nat : d = x \div p /\ r = x % p /\ r < p /\ x = p * d + r
<1>1. PICK d \in Int : d = x \div p
  OBVIOUS
<1>2. PICK r \in 0..(p - 1) : r = x % p
  OBVIOUS
<1>3. x = p * d + r
  BY <1>1, <1>2
<1>4. d >= 0
  <2> SUFFICES ASSUME d + 1 <= 0 PROVE FALSE
    OBVIOUS
  <2>1. p * (d + 1) <= 0
    OBVIOUS
  <2>2. p * (d + 1) = p * d + p
    OBVIOUS
  <2> QED BY <1>3, <2>1, <2>2
<1>5. d \in Nat /\ r \in Nat /\ r < p /\ x = p * d + r
  BY <1>2, <1>3, <1>4
<1> QED BY <1>1, <1>2, <1>5, Zenon

\* A quotient is the page between whose ends the number lies.
LEMMA DivisionBounds ==
  ASSUME NEW p \in Nat, p >= 1, NEW x \in Nat, NEW q \in Nat
  PROVE  /\ x \div p = q => q * p <= x /\ x < (q + 1) * p
         /\ q * p < x /\ x < (q + 1) * p => x \div p = q /\ x % p # 0
<1>1. PICK d, r \in Nat : d = x \div p /\ r = x % p /\ r < p /\ x = p * d + r
  BY DivisionIs
<1>3. x = p * d + r /\ r < p
  BY <1>1
<1>4. d = q => q * p <= x /\ x < (q + 1) * p
  BY <1>3
<1>5. ASSUME q * p < x, x < (q + 1) * p PROVE d = q /\ r # 0
  <2>1. ~(d < q)
    <3> SUFFICES ASSUME d + 1 <= q PROVE FALSE
      OBVIOUS
    <3>1. (d + 1) * p <= q * p
      OBVIOUS
    <3> QED BY <1>3, <1>5, <3>1
  <2>2. ~(q < d)
    <3> SUFFICES ASSUME q + 1 <= d PROVE FALSE
      OBVIOUS
    <3>1. (q + 1) * p <= d * p
      OBVIOUS
    <3> QED BY <1>3, <1>5, <3>1
  <2>3. d = q
    BY <2>1, <2>2
  <2> QED BY <1>3, <1>5, <2>3
<1> QED BY <1>1, <1>4, <1>5

\* A store into old space leaves its page dirty: the write watch notes it, or
\* the page is the shared one.
LEMMA TouchMarks ==
  ASSUME IInv, Quiet, NEW a, Touch(a), a \in 1..oldTop
  PROVE  Page(a) \in dirty'
<1>1. oldTop \in Nat /\ oldTop # 0 /\ a \in Nat /\ a - 1 \in Nat /\ a <= oldTop /\ PageSize \in Nat /\ PageSize >= 1
  BY Constants DEF IInv, TypesOK
<1>2. watched /\ (oldTop % PageSize # 0 => oldTop \div PageSize \in dirty)
  BY <1>1 DEF IInv, EraOK
<1>3. PICK q \in Nat : q = Page(a)
  <2>1. PICK d, r \in Nat : d = (a - 1) \div PageSize /\ r = (a - 1) % PageSize /\ r < PageSize /\ a - 1 = PageSize * d + r
    BY <1>1, DivisionIs
  <2> QED BY <2>1 DEF Page
<1>4. q * PageSize <= a - 1
  BY <1>1, <1>3, DivisionBounds DEF Page
<1>5. CASE (q + 1) * PageSize <= oldTop
  BY <1>2, <1>3, <1>5 DEF Touch
<1>6. CASE oldTop < (q + 1) * PageSize
  <2>1. PICK z \in Nat : z = q * PageSize
    BY <1>1
  <2>2. q * PageSize < oldTop
    <3>1. z <= a - 1
      BY <1>4, <2>1
    <3>2. z < oldTop
      BY ONLY <1>1, <2>1, <3>1
    <3> QED BY <2>1, <3>2
  <2>3. oldTop \div PageSize = q /\ oldTop % PageSize # 0
    BY <1>1, <1>6, <2>2, DivisionBounds
  <2> QED BY <1>2, <1>3, <2>3 DEF Touch
<1>7. (q + 1) * PageSize <= oldTop \/ oldTop < (q + 1) * PageSize
  <2>1. (q + 1) * PageSize \in Nat
    BY <1>1
  <2> QED BY <1>1, <2>1
<1> QED BY <1>5, <1>6, <1>7

\* A store into one cell of the running program, which keeps its kind.
LEMMA CellStep ==
  ASSUME IInv, Quiet, UNCHANGED <<bump, marks, oldTop, watched, chunk, fin, want, missed, gc, reg, glob>>,
         NEW x \in 1..bump, heap' \in [Units -> Cells], \A a \in Units \ {x} : heap'[a] = heap[a],
         heap'[x].kind = heap[x].kind, heap[x].kind # "hole", IsObject(heap'[x].next),
         heap'[x].next # heap[x].next => Touch(x), dirty \subseteq dirty',
         pc' \in [Threads -> Labels], bufs' \subseteq Slots, open' \subseteq Slots,
         SlotsOK', WantsOK', ThreadsOK', \A t \in Threads : pc'[t] # "refused"
  PROVE  IInv'
<1>1. bump \in Nat /\ oldTop \in Nat /\ oldTop <= bump /\ bump <= ArenaSize /\ ArenaSize \in Nat
  BY Constants DEF IInv, TypesOK
<1>2. x \in Units /\ \A a \in 1..bump : a \in Units
  BY <1>1 DEF Units
<1>3. \A a : IsObject(a) => IsObject(a)'
  BY <1>2 DEF IsObject
<1>4. TypesOK'
  BY DEF IInv, TypesOK
<1>5. RefsOK'
  <2>1. \A a \in 1..bump : IsObject(heap'[a].next)
    BY <1>2 DEF IInv, RefsOK
  <2> QED BY <1>3, <2>1 DEF IInv, RefsOK
<1>6. FreeOK'
  BY <1>1, <1>2 DEF IInv, FreeOK
<1>7. ChunksOK'
  <2>1. ASSUME NEW t \in Threads PROVE ChunkOK(chunk[t])'
    <3>1. chunk[t].cur \in Nat /\ chunk[t].lim \in Nat
      BY DEF IInv, TypesOK, Chunks
    <3>2. ChunkOK(chunk[t])
      BY DEF IInv, ChunksOK
    <3>3. CASE chunk[t].cur # 0
      <4>1. \A a \in chunk[t].cur..(chunk[t].lim - 1) : a \in Units /\ heap[a].kind = "hole" /\ heap'[a] = heap[a]
        BY <1>1, <3>1, <3>2, <3>3 DEF ChunkOK, Units
      <4> QED BY <3>2, <3>3, <4>1 DEF ChunkOK
    <3> QED BY <3>3 DEF ChunkOK
  <2> QED BY <2>1 DEF IInv, ChunksOK, Apart
<1>8. CleanOK'
  <2> SUFFICES ASSUME NEW a \in 1..oldTop, Page(a) \notin dirty' PROVE heap'[a].next <= oldTop
    BY DEF CleanOK
  <2>1. heap[a].next <= oldTop
    BY DEF IInv, CleanOK
  <2>2. CASE a = x /\ heap'[x].next # heap[x].next
    BY <2>2, TouchMarks
  <2>3. CASE a # x
    <3>1. a \in Units
      BY <1>1 DEF Units
    <3> QED BY <2>1, <2>3, <3>1
  <2> QED BY <2>1, <2>2, <2>3
<1>9. ~Stopped /\ ~Stopped'
  BY DEF Quiet, Stopped
<1>10. EraOK' /\ MarksOK'
  BY <1>9 DEF IInv, EraOK, MarksOK, Quiet
<1>11. TraceOK'
  BY <1>9 DEF IInv, TraceOK
<1> QED BY <1>4, <1>5, <1>6, <1>7, <1>8, <1>10, <1>11 DEF IInv

\* FirstFree finds a free slot when there is one.
LEMMA FirstFreeProperties ==
  ASSUME NEW used, used \subseteq Slots, used # Slots
  PROVE  FirstFree(used) \in Slots \ used /\ FirstFree(used) # 0
<1>1. Slots \ used \in SUBSET Nat /\ Slots \ used # {}
  BY Constants
<1>2. \E s \in Slots \ used : \A r \in Slots \ used : s <= r
  BY <1>1, LeastElement
<1>3. FirstFree(used) \in Slots \ used
  BY <1>2 DEF FirstFree
<1> QED BY <1>3, Constants

\* Write keeps the invariant.
LEMMA WriteStep ==
  ASSUME IInv, Undisturbed, NEW t \in Threads, Write(t)
  PROVE  IInv'
<1>1. Quiet /\ pc[t] = "run"
  BY AtQuiet DEF Write
<1>2. UNCHANGED <<bump, marks, oldTop, watched, chunk, fin, want, missed, gc, reg, glob, bufs, open, pc>>
  BY DEF Write, Keeps
<1>3. glob \in 1..bump /\ heap[glob].kind = "cons" /\ IsObject(reg[t]) /\ heap \in [Units -> Cells]
  BY DEF Write, IInv, RefsOK, IsObject, TypesOK
<1>4. glob \in Units /\ reg[t] \in 0..ArenaSize
  BY <1>3, Constants DEF IInv, TypesOK, Units, IsObject
<1>5. /\ heap' \in [Units -> Cells] /\ \A a \in Units \ {glob} : heap'[a] = heap[a]
      /\ heap'[glob].kind = heap[glob].kind /\ heap'[glob].slot = heap[glob].slot /\ heap'[glob].next = reg[t]
  BY <1>3, <1>4 DEF Write, Cells
<1>6. \A a \in Units : heap'[a].kind = heap[a].kind /\ heap'[a].slot = heap[a].slot
  BY <1>5
<1>7. SlotsOK'
  BY <1>2, <1>6 DEF IInv, SlotsOK, OwnsSlot, OwnSlot
<1>8. WantsOK'
  BY <1>2, <1>6 DEF IInv, WantsOK, Awaits
<1>9. ThreadsOK'
  <2>1. \A u \in Threads : IsObject(reg[u])
    BY DEF IInv, RefsOK
  <2>2. \A u \in Threads : reg[u] # 0 => reg[u] \in Units
    BY <2>1, Constants DEF IInv, TypesOK, Units, IsObject
  <2> QED BY <1>2, <1>6, <2>2 DEF IInv, ThreadsOK
<1>10. Touch(glob) /\ dirty \subseteq dirty'
  BY DEF Write, Touch
<1> QED BY <1>1, <1>2, <1>3, <1>5, <1>7, <1>8, <1>9, <1>10, CellStep DEF IInv, TypesOK, Quiet

\* TakeBuffer keeps the invariant.
LEMMA TakeBufferStep ==
  ASSUME IInv, Undisturbed, NEW t \in Threads, TakeBuffer(t)
  PROVE  IInv'
<1>1. Quiet /\ pc[t] \in Buffering
  BY AtQuiet DEF TakeBuffer, Buffering
<1>2. UNCHANGED <<bump, marks, oldTop, watched, chunk, fin, want, missed, gc, reg, glob, open>>
  BY DEF TakeBuffer, Keeps
<1>3. PICK f : f = FirstFree(bufs)
  OBVIOUS
<1>4. f \in Slots /\ f \notin bufs /\ f # 0 /\ bufs' = bufs \union {f} /\ bufs \subseteq Slots
  BY <1>3, FirstFreeProperties DEF TakeBuffer, IInv, TypesOK
<1>5. PICK x : x = reg[t]
  OBVIOUS
<1>6. x \in 1..bump /\ heap[x].kind = "string" /\ heap \in [Units -> Cells] /\ pc \in [Threads -> Labels] /\ IsObject(heap[x].next)
  BY <1>1, <1>5 DEF IInv, RefsOK, IsObject, TypesOK, ThreadsOK
<1>7. x \in Units
  BY <1>6, Constants DEF IInv, TypesOK, Units
<1>8. heap' = [heap EXCEPT ![x].slot = f]
  BY <1>3, <1>5 DEF TakeBuffer
<1>9. /\ heap' \in [Units -> Cells] /\ \A a \in Units \ {x} : heap'[a] = heap[a]
      /\ heap'[x].kind = heap[x].kind /\ heap'[x].slot = f /\ heap'[x].next = heap[x].next
  BY ONLY <1>4, <1>6, <1>7, <1>8 DEF Cells
<1>10. pc' \in [Threads -> Labels] /\ pc'[t] = "run" /\ \A u \in Threads \ {t} : pc'[u] = pc[u]
  BY <1>6 DEF TakeBuffer, Labels
<1>11. SlotsOK'
  <2>1. \A a \in Units : OwnsSlot(a)'
    BY <1>2, <1>4, <1>6, <1>9 DEF IInv, SlotsOK, OwnsSlot
  <2>2. \A a \in Units : heap[a].kind = "string" => heap[a].slot # f
    BY <1>4 DEF IInv, SlotsOK, OwnsSlot
  <2>3. \A a, b \in Units : a # b => OwnSlot(a, b)'
    BY <1>6, <1>9, <2>2 DEF IInv, SlotsOK, OwnSlot
  <2> QED BY <2>1, <2>3 DEF SlotsOK
<1>12. WantsOK'
  BY <1>2, <1>6, <1>9 DEF IInv, WantsOK, Awaits
<1>13. ThreadsOK'
  <2>1. \A u \in Threads : IsObject(reg[u])
    BY DEF IInv, RefsOK
  <2>2. \A u \in Threads : reg[u] # 0 => reg[u] \in Units
    BY <2>1, Constants DEF IInv, TypesOK, Units, IsObject
  <2>3. \A a \in Units : heap'[a].kind = heap[a].kind
    BY <1>9
  <2> QED BY <1>2, <1>10, <2>2, <2>3 DEF IInv, ThreadsOK, Allocating, Buffering
<1>14. dirty \subseteq dirty'
  BY DEF TakeBuffer, Touch
<1>15. \A u \in Threads : pc'[u] # "refused"
  BY <1>1, <1>10 DEF Quiet
<1> QED BY <1>1, <1>2, <1>4, <1>6, <1>9, <1>10, <1>11, <1>12, <1>13, <1>14, <1>15, CellStep DEF IInv, TypesOK

\* Close keeps the invariant.
LEMMA CloseStep ==
  ASSUME IInv, Undisturbed, NEW t \in Threads, Close(t)
  PROVE  IInv'
<1>1. Quiet /\ pc[t] = "run"
  BY AtQuiet DEF Close
<1>2. UNCHANGED <<bump, marks, oldTop, watched, chunk, fin, want, missed, gc, reg, glob, pc>>
  BY DEF Close, Keeps
<1>3. PICK x : x = reg[t]
  OBVIOUS
<1>4. x \in 1..bump /\ heap[x].kind # "hole" /\ heap[x].slot # 0 /\ heap \in [Units -> Cells] /\ pc \in [Threads -> Labels]
      /\ IsObject(heap[x].next)
  BY <1>3 DEF IInv, RefsOK, IsObject, TypesOK, Close
<1>5. x \in Units
  BY <1>4, Constants DEF IInv, TypesOK, Units
<1>6. heap' = [heap EXCEPT ![x].slot = 0]
  BY <1>3 DEF Close
<1>7. /\ heap' \in [Units -> Cells] /\ \A a \in Units \ {x} : heap'[a] = heap[a]
      /\ heap'[x].kind = heap[x].kind /\ heap'[x].slot = 0 /\ heap'[x].next = heap[x].next
  BY ONLY <1>4, <1>5, <1>6 DEF Cells
<1>8. /\ open' = IF heap[x].kind = "file" THEN open \ {heap[x].slot} ELSE open
      /\ bufs' = IF heap[x].kind = "string" THEN bufs \ {heap[x].slot} ELSE bufs
  BY <1>3 DEF Close
<1>9. open' \subseteq Slots /\ bufs' \subseteq Slots
  BY <1>8 DEF IInv, TypesOK
<1>10. SlotsOK'
  <2>1. ASSUME NEW a \in Units, a # x PROVE OwnsSlot(a)'
    <3>1. OwnsSlot(a) /\ OwnSlot(x, a) /\ heap'[a] = heap[a]
      BY <1>5, <1>7, <2>1 DEF IInv, SlotsOK
    <3> QED BY <1>4, <1>8, <3>1 DEF OwnsSlot, OwnSlot
  <2>2. OwnsSlot(x)'
    BY <1>7 DEF OwnsSlot
  <2>3. \A a, b \in Units : a # b => OwnSlot(a, b)'
    BY <1>7 DEF IInv, SlotsOK, OwnSlot
  <2> QED BY <2>1, <2>2, <2>3 DEF SlotsOK
<1>11. WantsOK'
  <2>1. \A u \in Threads : want[u].handle # 0 => want[u].kind = "file" /\ want[u].handle \in open'
    BY <1>5, <1>8 DEF IInv, WantsOK, Awaits
  <2>2. \A u \in Threads : \A a \in Units : Awaits(u, a)'
    BY <1>2, <1>7 DEF IInv, WantsOK, Awaits
  <2> QED BY <1>2, <2>1, <2>2 DEF IInv, WantsOK
<1>12. ThreadsOK'
  <2>1. \A u \in Threads : IsObject(reg[u])
    BY DEF IInv, RefsOK
  <2>2. \A u \in Threads : reg[u] # 0 => reg[u] \in Units
    BY <2>1, Constants DEF IInv, TypesOK, Units, IsObject
  <2>3. \A a \in Units : heap'[a].kind = heap[a].kind
    BY <1>7
  <2> QED BY <1>2, <2>2, <2>3 DEF IInv, ThreadsOK, Allocating, Buffering
<1>13. dirty \subseteq dirty'
  BY DEF Close, Touch
<1> QED BY <1>1, <1>2, <1>4, <1>7, <1>9, <1>10, <1>11, <1>12, <1>13, CellStep DEF IInv, TypesOK, Quiet
\* The new object, in a free unit.
LEMMA NewCell ==
  ASSUME IInv, NEW t \in Threads, NEW w \in Wants, w.kind # "none", NEW a \in Units, NewObject(t, w, a)
  PROVE  /\ heap' \in [Units -> Cells] /\ \A b \in Units \ {a} : heap'[b] = heap[b]
         /\ heap'[a].kind = w.kind /\ heap'[a].slot = w.handle /\ heap'[a].next \in {0, reg[t]}
         /\ reg' = [u \in Threads |-> reg'[u]] /\ reg'[t] = a /\ \A u \in Threads \ {t} : reg'[u] = reg[u]
         /\ pc' \in [Threads -> Labels] /\ pc'[t] = (IF w.kind = "string" THEN "buffer" ELSE "run")
         /\ \A u \in Threads \ {t} : pc'[u] = pc[u]
         /\ want' \in [Threads -> Wants] /\ want'[t] = NoObject /\ \A u \in Threads \ {t} : want'[u] = want[u]
<1>1. /\ heap \in [Units -> Cells] /\ reg = [u \in Threads |-> reg[u]] /\ reg[t] \in 0..ArenaSize
      /\ pc \in [Threads -> Labels] /\ want \in [Threads -> Wants]
  BY Constants DEF IInv, TypesOK, RefsOK, IsObject
<1>2. PICK c : c = [kind |-> w.kind, next |-> IF w.kind = "cons" THEN reg[t] ELSE 0, slot |-> w.handle]
  OBVIOUS
<1>3. c.kind = w.kind /\ c.slot = w.handle /\ c.next \in {0, reg[t]}
  BY <1>2
<1>4. w.kind \in {"cons", "file", "string"} /\ w.handle \in Slots \union {0}
  BY DEF Wants
<1>5. c \in Cells
  BY <1>1, <1>2, <1>4, Constants DEF Cells
<1>6. heap' = [heap EXCEPT ![a] = c]
  BY <1>2 DEF NewObject
<1>7. heap' \in [Units -> Cells] /\ heap'[a] = c /\ \A b \in Units \ {a} : heap'[b] = heap[b]
  BY ONLY <1>1, <1>5, <1>6, a \in Units
<1>8. reg' = [u \in Threads |-> reg'[u]] /\ reg'[t] = a /\ \A u \in Threads \ {t} : reg'[u] = reg[u]
  BY <1>1 DEF NewObject
<1>9. /\ pc' \in [Threads -> Labels] /\ pc'[t] = (IF w.kind = "string" THEN "buffer" ELSE "run")
      /\ \A u \in Threads \ {t} : pc'[u] = pc[u]
  BY <1>1 DEF NewObject, Labels
<1>10. want' \in [Threads -> Wants] /\ want'[t] = NoObject /\ \A u \in Threads \ {t} : want'[u] = want[u]
  <2>1. NoObject \in Wants
    BY DEF NoObject, Wants
  <2> QED BY <1>1, <2>1 DEF NewObject
<1> QED BY <1>3, <1>7, <1>8, <1>9, <1>10

\* cl_alloc at an empty unit keeps the invariant, wherever the unit comes from.
LEMMA NewObjectStep ==
  ASSUME IInv, Quiet, NEW t \in Threads, NEW w \in Wants, w.kind # "none", NEW a \in Units, NewObject(t, w, a),
         UNCHANGED <<oldTop, dirty, watched, glob, bufs, gc>>,
         heap[a].kind = "hole", oldTop < a, a <= bump', bump' \in bump..ArenaSize,
         open \subseteq open', open' \subseteq Slots,
         w.handle # 0 => /\ w.kind = "file" /\ w.handle \in open'
                         /\ \A b \in Units : heap[b].kind = "file" => heap[b].slot # w.handle
                         /\ \A u \in Threads \ {t} : want[u].handle # w.handle,
         chunk' \in [Threads -> Chunks], ChunksOK'
  PROVE  IInv'
<1>1. bump \in Nat /\ oldTop \in Nat /\ oldTop <= bump /\ ArenaSize \in Nat /\ bump' \in Nat /\ a \in Nat /\ a >= 1 /\ bump <= bump' /\ bump' <= ArenaSize
  BY Constants DEF IInv, TypesOK, Units
<1>2. /\ heap' \in [Units -> Cells] /\ \A b \in Units \ {a} : heap'[b] = heap[b]
      /\ heap'[a].kind = w.kind /\ heap'[a].slot = w.handle /\ heap'[a].next \in {0, reg[t]}
      /\ reg' = [u \in Threads |-> reg'[u]] /\ reg'[t] = a /\ \A u \in Threads \ {t} : reg'[u] = reg[u]
  BY NewCell
<1>3. /\ pc' \in [Threads -> Labels] /\ pc'[t] = (IF w.kind = "string" THEN "buffer" ELSE "run")
      /\ \A u \in Threads \ {t} : pc'[u] = pc[u]
  BY NewCell
<1>4. want' \in [Threads -> Wants] /\ want'[t] = NoObject /\ \A u \in Threads \ {t} : want'[u] = want[u]
  BY NewCell
<1>5. w.kind \in {"cons", "file", "string"}
  BY DEF Wants
<1>6. \A b : IsObject(b) => IsObject(b)'
  <2> SUFFICES ASSUME NEW b \in 1..bump, heap[b].kind # "hole" PROVE b \in 1..bump' /\ heap'[b].kind # "hole"
    BY DEF IsObject
  <2>1. b \in Units /\ b # a /\ b \in 1..bump'
    BY <1>1 DEF Units
  <2> QED BY <1>2, <2>1
<1>7. IsObject(a)'
  BY <1>1, <1>2, <1>5 DEF IsObject
<1>8. TypesOK'
  <2>1. marks' \subseteq 1..bump' /\ oldTop' \in 0..bump' /\ bump' \in 0..ArenaSize
    BY <1>1 DEF NewObject, IInv, TypesOK
  <2>2. fin' \subseteq (oldTop' + 1)..bump'
    <3>1. fin \subseteq (oldTop + 1)..bump
      BY DEF IInv, TypesOK
    <3>2. fin' \subseteq fin \union {a}
      BY DEF NewObject
    <3> QED BY <1>1, <3>1, <3>2
  <2> QED BY <1>2, <1>3, <1>4, <2>1, <2>2 DEF IInv, TypesOK
<1>9. RefsOK'
  <2>1. ASSUME NEW b \in 1..bump' PROVE IsObject(heap[b].next)'
    <3>0. b \in Units
      BY <1>1 DEF Units
    <3>1. CASE b = a
      <4>1. IsObject(reg[t]) /\ IsObject(0)
        BY DEF IInv, RefsOK, IsObject
      <4> QED BY <1>2, <1>6, <3>1, <4>1
    <3>2. CASE b # a /\ b \in 1..bump
      BY <1>2, <1>6, <3>0, <3>2 DEF IInv, RefsOK
    <3>3. CASE b # a /\ b \notin 1..bump
      <4>1. heap'[b] = Hole
        BY <1>1, <1>2, <3>0, <3>3 DEF IInv, FreeOK
      <4> QED BY <4>1 DEF Hole, IsObject
    <3> QED BY <3>1, <3>2, <3>3
  <2>2. \A u \in Threads : IsObject(reg[u])'
    <3> TAKE u \in Threads
    <3>1. IsObject(reg[u])
      BY DEF IInv, RefsOK
    <3> QED BY <1>2, <1>6, <1>7, <3>1
  <2>3. IsObject(glob)'
    BY <1>6 DEF IInv, RefsOK
  <2> QED BY <1>2, <2>1, <2>2, <2>3 DEF RefsOK
<1>10. FreeOK'
  <2> SUFFICES ASSUME NEW b \in Units, b > bump' PROVE heap'[b] = Hole
    BY DEF FreeOK
  <2>1. b > bump /\ b # a
    BY <1>1 DEF Units
  <2> QED BY <1>2, <2>1 DEF IInv, FreeOK
<1>11. CleanOK'
  <2> SUFFICES ASSUME NEW b \in 1..oldTop, Page(b) \notin dirty PROVE heap'[b].next <= oldTop
    BY DEF CleanOK
  <2>1. b \in Units \ {a}
    BY <1>1 DEF Units
  <2> QED BY <1>2, <2>1 DEF IInv, CleanOK
<1>12. ~Stopped /\ ~Stopped'
  BY DEF Quiet, Stopped
<1>13. EraOK'
  BY DEF IInv, EraOK
<1>14. MarksOK'
  <2>1. marks \subseteq 1..oldTop /\ 1..oldTop \subseteq marks /\ marks' = marks \ {a}
    BY <1>12 DEF IInv, MarksOK, NewObject
  <2>2. a \notin 1..oldTop
    BY <1>1
  <2> QED BY <2>1, <2>2 DEF MarksOK
<1>15. SlotsOK'
  <2>1. \A b \in Units : OwnsSlot(b)'
    BY <1>2 DEF IInv, SlotsOK, OwnsSlot
  <2>2. ASSUME NEW b \in Units, NEW c \in Units, b # c PROVE OwnSlot(b, c)'
    <3>1. CASE b # a /\ c # a
      BY <1>2, <2>2, <3>1 DEF IInv, SlotsOK, OwnSlot
    <3>2. CASE b = a
      BY <1>2, <2>2, <3>2 DEF OwnSlot
    <3>3. CASE c = a
      BY <1>2, <2>2, <3>3 DEF OwnSlot
    <3> QED BY <3>1, <3>2, <3>3
  <2> QED BY <2>1, <2>2 DEF SlotsOK
<1>16. WantsOK'
  <2>1. want'[t].handle = 0
    BY <1>4 DEF NoObject
  <2>2. \A u \in Threads : want'[u].handle # 0 => want'[u].kind = "file" /\ want'[u].handle \in open'
    BY <1>4, <2>1 DEF IInv, WantsOK
  <2>3. \A u \in Threads : \A b \in Units : Awaits(u, b)'
    <3> TAKE u \in Threads
    <3> TAKE b \in Units
    <3>1. CASE u = t
      BY <2>1, <3>1 DEF Awaits
    <3>2. CASE u # t /\ b = a
      BY <1>2, <1>4, <3>2 DEF Awaits
    <3>3. CASE u # t /\ b # a
      BY <1>2, <1>4, <3>3 DEF IInv, WantsOK, Awaits
    <3> QED BY <3>1, <3>2, <3>3
  <2>4. \A u, v \in Threads : u # v /\ want'[u].handle # 0 => want'[u].handle # want'[v].handle
    BY <1>4, <2>1 DEF IInv, WantsOK
  <2> QED BY <2>2, <2>3, <2>4 DEF WantsOK
<1>17. ThreadsOK'
  <2> SUFFICES ASSUME NEW u \in Threads
               PROVE  /\ pc'[u] \in Allocating => want'[u].kind # "none"
                      /\ pc'[u] \in Buffering => reg'[u] # 0 /\ heap'[reg'[u]].kind = "string"
    BY DEF ThreadsOK
  <2>1. CASE u = t
    BY <1>1, <1>2, <1>3, <2>1 DEF Allocating, Buffering
  <2>2. CASE u # t
    <3>1. /\ pc[u] \in Allocating => want[u].kind # "none"
          /\ pc[u] \in Buffering => reg[u] # 0 /\ heap[reg[u]].kind = "string"
      BY DEF IInv, ThreadsOK
    <3>2. pc[u] \in Buffering => reg[u] \in Units /\ reg[u] # a
      BY <1>1, <3>1 DEF IInv, RefsOK, IsObject, Units
    <3> QED BY <1>2, <1>3, <1>4, <2>2, <3>1, <3>2
  <2> QED BY <2>1, <2>2
<1>18. TraceOK'
  BY <1>12 DEF IInv, TraceOK
<1> QED BY <1>8, <1>9, <1>10, <1>11, <1>13, <1>14, <1>15, <1>16, <1>17, <1>18 DEF IInv
\* A chunk that the new object leaves alone.
LEMMA OtherChunk ==
  ASSUME IInv, NEW c \in Chunks, ChunkOK(c), NEW a \in Units, \A b \in Units \ {a} : heap'[b] = heap[b],
         oldTop' = oldTop, bump' \in bump..ArenaSize, c.cur # 0 => a < c.cur \/ c.lim <= a
  PROVE  (c.cur # 0 => /\ oldTop' < c.cur /\ c.cur < c.lim /\ c.lim <= bump' + 1
                       /\ \A b \in c.cur..(c.lim - 1) : heap'[b].kind = "hole")
<1> SUFFICES ASSUME c.cur # 0
             PROVE  /\ oldTop' < c.cur /\ c.cur < c.lim /\ c.lim <= bump' + 1
                    /\ \A b \in c.cur..(c.lim - 1) : heap'[b].kind = "hole"
  OBVIOUS
<1>1. /\ c.cur \in Nat /\ c.lim \in Nat /\ bump \in Nat /\ oldTop \in Nat /\ bump' \in Nat /\ bump <= bump' /\ bump <= ArenaSize
      /\ ArenaSize \in Nat /\ a \in Nat
  BY Constants DEF Chunks, IInv, TypesOK, Units
<1>2. /\ oldTop < c.cur /\ c.cur < c.lim /\ c.lim <= bump + 1
      /\ \A b \in c.cur..(c.lim - 1) : heap[b].kind = "hole"
  BY DEF ChunkOK
<1>3. \A b \in c.cur..(c.lim - 1) : b \in Units \ {a}
  BY <1>1, <1>2 DEF Units
<1> QED BY <1>1, <1>2, <1>3

\* A cut from a chunk leaves the chunks apart.
LEMMA CutStep ==
  ASSUME IInv, NEW t \in Threads, NEW a \in Units, \A b \in Units \ {a} : heap'[b] = heap[b], oldTop' = oldTop,
         bump' \in bump..ArenaSize, NEW lim \in Nat, oldTop < a, a < lim, lim <= bump' + 1,
         \A b \in a..(lim - 1) : heap[b].kind = "hole",
         \A u \in Threads \ {t} : Apart([cur |-> a, lim |-> lim], chunk[u]),
         chunk' = [chunk EXCEPT ![t] = CutChunk([cur |-> a, lim |-> lim])]
  PROVE  chunk' \in [Threads -> Chunks] /\ ChunksOK'
<1>1. /\ bump \in Nat /\ oldTop \in Nat /\ bump' \in Nat /\ bump <= bump' /\ bump' <= ArenaSize
      /\ ArenaSize \in Nat /\ a \in Nat /\ a >= 1 /\ chunk \in [Threads -> Chunks]
  BY Constants DEF Chunks, IInv, TypesOK, Units
<1>2. PICK k : k = CutChunk([cur |-> a, lim |-> lim])
  OBVIOUS
<1>3. k = IF a + 1 = lim THEN [cur |-> 0, lim |-> 0] ELSE [cur |-> a + 1, lim |-> lim]
  BY <1>2 DEF CutChunk, NoChunk
<1>4. k \in Chunks /\ (k.cur # 0 => k.cur = a + 1 /\ k.lim = lim /\ a + 1 < lim)
  BY <1>1, <1>3 DEF Chunks
<1>5. chunk' \in [Threads -> Chunks] /\ chunk'[t] = k /\ \A u \in Threads \ {t} : chunk'[u] = chunk[u]
  BY <1>1, <1>2, <1>4
<1>6. ChunkOK(k)'
  <2> SUFFICES ASSUME k.cur # 0 PROVE ChunkOK(k)'
    BY DEF ChunkOK
  <2>1. \A b \in (a + 1)..(lim - 1) : b \in Units \ {a} /\ b \in a..(lim - 1)
    <3> TAKE b \in (a + 1)..(lim - 1)
    <3>1. b \in Int /\ a + 1 <= b /\ b <= lim - 1
      BY <1>1
    <3>2. lim - 1 <= ArenaSize
      BY <1>1
    <3> QED BY <1>1, <3>1, <3>2 DEF Units
  <2>2. \A b \in (a + 1)..(lim - 1) : heap'[b].kind = "hole"
    BY <2>1
  <2>3. k.cur = a + 1 /\ k.lim = lim /\ a + 1 < lim
    BY <1>4
  <2>4. oldTop' < a + 1 /\ lim <= bump' + 1
    <3>1. \A i, j \in Nat : i < j => i < j + 1
      OBVIOUS
    <3>2. oldTop < a + 1
      BY ONLY <1>1, <3>1, oldTop < a
    <3> QED BY <3>2
  <2> QED BY <2>2, <2>3, <2>4 DEF ChunkOK
<1>7. ASSUME NEW u \in Threads \ {t} PROVE ChunkOK(chunk[u])' /\ Apart(k, chunk[u]) /\ Apart(chunk[u], k)
  <2>1. PICK c \in Chunks : c = chunk[u]
    BY <1>1
  <2>2. Apart([cur |-> a, lim |-> lim], c) /\ ChunkOK(c) /\ c.cur \in Nat /\ c.lim \in Nat
    BY <2>1 DEF IInv, ChunksOK, Chunks
  <2>3. c.cur # 0 => lim <= c.cur \/ c.lim <= a
    BY <1>1, <2>2 DEF Apart
  <2>4. c.cur # 0 => a < c.cur \/ c.lim <= a
    BY <1>1, <2>2, <2>3
  <2>5. (c.cur # 0 => /\ oldTop' < c.cur /\ c.cur < c.lim /\ c.lim <= bump' + 1
                      /\ \A b \in c.cur..(c.lim - 1) : heap'[b].kind = "hole")
    BY <2>2, <2>4, OtherChunk
  <2>6. ChunkOK(chunk[u])'
    BY <1>5, <2>1, <2>5 DEF ChunkOK
  <2>7. Apart(k, c) /\ Apart(c, k)
    BY <1>1, <1>4, <2>2, <2>3 DEF Apart
  <2> QED BY <2>1, <2>6, <2>7
<1>8. \A u, v \in Threads : u # v => Apart(chunk'[u], chunk'[v])
  <2> TAKE u, v \in Threads
  <2>1. CASE u # t /\ v # t
    BY <1>5, <2>1 DEF IInv, ChunksOK
  <2>2. CASE u = t \/ v = t
    BY <1>5, <1>7, <2>2
  <2> QED BY <2>1, <2>2
<1>9. \A u \in Threads : ChunkOK(chunk[u])'
  <2> TAKE u \in Threads
  <2>1. CASE u = t
    BY <1>5, <1>6, <2>1 DEF ChunkOK
  <2>2. CASE u # t
    BY <1>7, <2>2
  <2> QED BY <2>1, <2>2
<1> QED BY <1>5, <1>8, <1>9 DEF ChunksOK, Apart

\* Raising the bump front leaves the chunks apart.
LEMMA FrontStep ==
  ASSUME IInv, NEW a \in Units, \A b \in Units \ {a} : heap'[b] = heap[b], oldTop' = oldTop,
         bump' = bump + 1, a = bump + 1, chunk' = chunk
  PROVE  chunk' \in [Threads -> Chunks] /\ ChunksOK'
<1>1. bump \in Nat /\ ArenaSize \in Nat /\ bump' \in bump..ArenaSize /\ chunk \in [Threads -> Chunks]
  BY Constants DEF IInv, TypesOK, Units
<1>2. ASSUME NEW u \in Threads PROVE ChunkOK(chunk[u])'
  <2>1. PICK c \in Chunks : c = chunk[u]
    BY <1>1
  <2>2. ChunkOK(c) /\ c.cur \in Nat /\ c.lim \in Nat
    BY <2>1 DEF IInv, ChunksOK, Chunks
  <2>3. c.cur # 0 => c.lim <= a
    BY <1>1, <2>2 DEF ChunkOK
  <2>5. (c.cur # 0 => /\ oldTop' < c.cur /\ c.cur < c.lim /\ c.lim <= bump' + 1
                      /\ \A b \in c.cur..(c.lim - 1) : heap'[b].kind = "hole")
    BY <1>1, <2>2, <2>3, OtherChunk
  <2> QED BY <2>1, <2>5 DEF ChunkOK
<1> QED BY <1>1, <1>2 DEF IInv, ChunksOK, Apart

\* OPEN's handle belongs to no stream and to no other thread.
LEMMA WantedProperties ==
  ASSUME IInv, NEW t \in Threads, NEW kind \in Kinds[t], NEW w, w = Wanted(kind),
         IF kind = "file" THEN open # Slots /\ open' = open \union {FirstFree(open)} ELSE UNCHANGED open
  PROVE  /\ w \in Wants /\ w.kind # "none" /\ open \subseteq open' /\ open' \subseteq Slots
         /\ w.handle # 0 => /\ w.kind = "file" /\ w.handle \in open'
                            /\ \A b \in Units : heap[b].kind = "file" => heap[b].slot # w.handle
                            /\ \A u \in Threads : want[u].handle # w.handle
<1>1. kind \in {"cons", "file", "string"}
  BY HeapConstants
<1>2. w.kind = kind /\ w.handle = (IF kind = "file" THEN FirstFree(open) ELSE 0)
      /\ w = [kind |-> w.kind, handle |-> w.handle]
  BY DEF Wanted
<1>3. open \subseteq Slots
  BY DEF IInv, TypesOK
<1>4. CASE kind # "file"
  BY <1>1, <1>2, <1>3, <1>4 DEF Wants
<1>5. CASE kind = "file"
  <2>1. PICK f : f = FirstFree(open)
    OBVIOUS
  <2>2. f \in Slots \ open /\ f # 0
    BY <1>3, <1>5, <2>1, FirstFreeProperties
  <2>3. w.handle = f /\ open' = open \union {f}
    BY <1>2, <1>5, <2>1
  <2>4. \A b \in Units : heap[b].kind = "file" => heap[b].slot # f
    BY <2>2 DEF IInv, SlotsOK, OwnsSlot
  <2>5. \A u \in Threads : want[u].handle # f
    BY <2>2 DEF IInv, WantsOK
  <2> QED BY <1>2, <1>3, <1>5, <2>2, <2>3, <2>4, <2>5 DEF Wants
<1> QED BY <1>4, <1>5

\* Alloc keeps the invariant.
LEMMA AllocStep ==
  ASSUME IInv, Undisturbed, NEW t \in Threads, NEW kind \in Kinds[t], Alloc(t, kind)
  PROVE  IInv'
<1>1. Quiet /\ pc[t] = "run"
  BY AtQuiet DEF Alloc
<1>2. UNCHANGED <<oldTop, dirty, watched, glob, bufs, missed, gc>>
  BY DEF Alloc
<1>3. IF kind = "file" THEN open # Slots /\ open' = open \union {FirstFree(open)} ELSE UNCHANGED open
  BY DEF Alloc
<1>4. PICK w : w = Wanted(kind)
  OBVIOUS
<1>5. /\ w \in Wants /\ w.kind # "none" /\ open \subseteq open' /\ open' \subseteq Slots
      /\ w.handle # 0 => /\ w.kind = "file" /\ w.handle \in open'
                         /\ \A b \in Units : heap[b].kind = "file" => heap[b].slot # w.handle
                         /\ \A u \in Threads : want[u].handle # w.handle
  BY <1>3, <1>4, WantedProperties
<1>6. /\ bump \in Nat /\ oldTop \in Nat /\ oldTop <= bump /\ bump <= ArenaSize /\ ArenaSize \in Nat /\ chunk \in [Threads -> Chunks]
      /\ ChunkSize \in Nat /\ ChunkSize >= 1
  BY Constants DEF IInv, TypesOK
<1>7. CASE /\ chunk[t].cur # 0 /\ NewObject(t, w, chunk[t].cur)
           /\ chunk' = [chunk EXCEPT ![t] = CutChunk(@)] /\ bump' = bump
  <2>1. PICK a, l : a = chunk[t].cur /\ l = chunk[t].lim
    OBVIOUS
  <2>2. chunk[t] = [cur |-> a, lim |-> l] /\ a \in Nat /\ l \in Nat /\ a # 0
    BY <1>6, <1>7, <2>1 DEF Chunks
  <2>3. oldTop < a /\ a < l /\ l <= bump + 1 /\ \A b \in a..(l - 1) : heap[b].kind = "hole"
    BY <2>1, <2>2 DEF IInv, ChunksOK, ChunkOK
  <2>4. a \in Units /\ heap[a].kind = "hole" /\ a <= bump /\ bump' \in bump..ArenaSize
    BY <1>6, <1>7, <2>2, <2>3 DEF Units
  <2>5. NewObject(t, w, a) /\ chunk' = [chunk EXCEPT ![t] = CutChunk([cur |-> a, lim |-> l])]
    BY <1>7, <2>1, <2>2
  <2>6. \A b \in Units \ {a} : heap'[b] = heap[b]
    BY <1>5, <2>4, <2>5, NewCell
  <2>7. \A u \in Threads \ {t} : Apart([cur |-> a, lim |-> l], chunk[u])
    BY <2>2 DEF IInv, ChunksOK
  <2>8. chunk' \in [Threads -> Chunks] /\ ChunksOK'
    <3>1. l <= bump' + 1
      BY <1>7, <2>3
    <3> QED BY <1>2, <2>2, <2>3, <2>4, <2>5, <2>6, <2>7, <3>1, CutStep
  <2> QED BY <1>1, <1>2, <1>5, <1>7, <2>3, <2>4, <2>5, <2>8, NewObjectStep
<1>8. CASE /\ bump + ChunkSize <= ArenaSize /\ NewObject(t, w, bump + 1) /\ bump' = bump + ChunkSize
           /\ chunk' = [chunk EXCEPT ![t] = CutChunk([cur |-> bump + 1, lim |-> bump + ChunkSize + 1])]
  <2>1. PICK a, l \in Nat : a = bump + 1 /\ l = bump + ChunkSize + 1
    BY <1>6
  <2>2. /\ a \in Units /\ a <= bump' /\ bump' \in bump..ArenaSize /\ oldTop < a /\ a < l /\ l <= bump' + 1
        /\ \A b \in a..(l - 1) : b \in Units /\ b > bump
    BY <1>6, <1>8, <2>1 DEF Units
  <2>3. \A b \in a..(l - 1) : heap[b].kind = "hole"
    BY <2>2 DEF IInv, FreeOK, Hole
  <2>4. heap[a].kind = "hole"
    BY <2>1, <2>2, <2>3
  <2>5. NewObject(t, w, a) /\ chunk' = [chunk EXCEPT ![t] = CutChunk([cur |-> a, lim |-> l])]
    BY <1>8, <2>1
  <2>6. \A b \in Units \ {a} : heap'[b] = heap[b]
    BY <1>5, <2>2, <2>5, NewCell
  <2>7. \A u \in Threads \ {t} : Apart([cur |-> a, lim |-> l], chunk[u])
    <3> TAKE u \in Threads \ {t}
    <3>1. ChunkOK(chunk[u])
      BY DEF IInv, ChunksOK
    <3>2. chunk[u].cur # 0 => chunk[u].lim <= a
      BY <2>1, <3>1 DEF ChunkOK
    <3> QED BY <3>2 DEF Apart
  <2>8. chunk' \in [Threads -> Chunks] /\ ChunksOK'
    BY <1>2, <2>1, <2>2, <2>3, <2>5, <2>6, <2>7, CutStep
  <2> QED BY <1>1, <1>2, <1>5, <2>2, <2>4, <2>5, <2>8, NewObjectStep
<1>9. CASE bump < ArenaSize /\ NewObject(t, w, bump + 1) /\ bump' = bump + 1 /\ chunk' = chunk
  <2>1. PICK a \in Nat : a = bump + 1
    BY <1>6
  <2>2. a \in Units /\ a <= bump' /\ bump' \in bump..ArenaSize /\ oldTop < a /\ a > bump
    BY <1>6, <1>9, <2>1 DEF Units
  <2>3. heap[a].kind = "hole"
    BY <2>2 DEF IInv, FreeOK, Hole
  <2>4. NewObject(t, w, a)
    BY <1>9, <2>1
  <2>5. \A b \in Units \ {a} : heap'[b] = heap[b]
    BY <1>5, <2>2, <2>4, NewCell
  <2>6. chunk' \in [Threads -> Chunks] /\ ChunksOK'
    BY <1>2, <1>9, <2>1, <2>2, <2>5, FrontStep
  <2> QED BY <1>1, <1>2, <1>5, <2>2, <2>3, <2>4, <2>6, NewObjectStep
<1>10. CASE /\ pc' = [pc EXCEPT ![t] = "minor"] /\ want' = [want EXCEPT ![t] = w]
            /\ UNCHANGED <<heap, bump, marks, chunk, fin, reg>>
  <2>1. pc \in [Threads -> Labels] /\ want \in [Threads -> Wants]
    BY DEF IInv, TypesOK
  <2>2. /\ pc' \in [Threads -> Labels] /\ want' \in [Threads -> Wants] /\ pc'[t] = "minor" /\ want'[t] = w
        /\ \A u \in Threads \ {t} : pc'[u] = pc[u] /\ want'[u] = want[u]
    BY <1>5, <1>10, <2>1 DEF Labels
  <2>3. WantsOK'
    <3>1. \A u \in Threads : want'[u].handle # 0 => want'[u].kind = "file" /\ want'[u].handle \in open'
      BY <1>5, <2>2 DEF IInv, WantsOK
    <3>2. \A u \in Threads : \A a \in Units : Awaits(u, a)'
      <4> TAKE u \in Threads
      <4> TAKE a \in Units
      <4>1. CASE u = t
        BY <1>5, <1>10, <2>2, <4>1 DEF Awaits
      <4>2. CASE u # t
        BY <1>10, <2>2, <4>2 DEF IInv, WantsOK, Awaits
      <4> QED BY <4>1, <4>2
    <3>3. \A u, v \in Threads : u # v /\ want'[u].handle # 0 => want'[u].handle # want'[v].handle
      BY <1>5, <2>2 DEF IInv, WantsOK
    <3> QED BY <3>1, <3>2, <3>3 DEF WantsOK
  <2>4. ThreadsOK'
    BY <1>5, <1>10, <2>2 DEF IInv, ThreadsOK, Allocating, Buffering
  <2> QED BY <1>1, <1>2, <1>5, <1>10, <2>2, <2>3, <2>4, LightStep DEF IInv, RefsOK
<1> QED BY <1>4, <1>7, <1>8, <1>9, <1>10 DEF Alloc

\* Retry keeps the invariant.
LEMMA RetryStep ==
  ASSUME IInv, Undisturbed, NEW t \in Threads, Retry(t)
  PROVE  IInv'
<1>1. Quiet /\ pc[t] \in Allocating
  BY AtQuiet DEF Retry, Allocating
<1>2. UNCHANGED <<oldTop, dirty, watched, chunk, glob, bufs, open, gc>> /\ bump < ArenaSize /\ bump' = bump + 1
  BY DEF Retry
<1>3. /\ bump \in Nat /\ oldTop \in Nat /\ oldTop <= bump /\ bump <= ArenaSize /\ ArenaSize \in Nat
      /\ open \subseteq Slots
  BY Constants DEF IInv, TypesOK
<1>4. PICK w : w = want[t]
  OBVIOUS
<1>5. /\ w \in Wants /\ w.kind # "none"
      /\ w.handle # 0 => /\ w.kind = "file" /\ w.handle \in open
                         /\ \A b \in Units : heap[b].kind = "file" => heap[b].slot # w.handle
                         /\ \A u \in Threads \ {t} : want[u].handle # w.handle
  <2>1. w \in Wants /\ w.kind # "none"
    BY <1>1, <1>4 DEF IInv, TypesOK, ThreadsOK
  <2>2. w.handle # 0 => w.kind = "file" /\ w.handle \in open
    BY <1>4 DEF IInv, WantsOK
  <2>3. w.handle # 0 => \A b \in Units : heap[b].kind = "file" => heap[b].slot # w.handle
    BY <1>4 DEF IInv, WantsOK, Awaits
  <2>4. w.handle # 0 => \A u \in Threads \ {t} : want[u].handle # w.handle
    BY <1>4 DEF IInv, WantsOK
  <2> QED BY <2>1, <2>2, <2>3, <2>4
<1>6. PICK a \in Nat : a = bump + 1
  BY <1>3
<1>7. a \in Units /\ a <= bump' /\ bump' \in bump..ArenaSize /\ oldTop < a /\ a > bump
  BY <1>2, <1>3, <1>6 DEF Units
<1>8. heap[a].kind = "hole"
  BY <1>7 DEF IInv, FreeOK, Hole
<1>9. NewObject(t, w, a)
  BY <1>4, <1>6 DEF Retry
<1>10. \A b \in Units \ {a} : heap'[b] = heap[b]
  BY <1>5, <1>7, <1>9, NewCell
<1>11. chunk' \in [Threads -> Chunks] /\ ChunksOK'
  BY <1>2, <1>6, <1>7, <1>10, FrontStep
<1> QED BY <1>1, <1>2, <1>3, <1>5, <1>7, <1>8, <1>9, <1>11, NewObjectStep
-----------------------------------------------------------------------------
(***************************************************************************)
(* A collection begins.                                                    *)
(***************************************************************************)
\* The mark phase from the roots.
LEMMA RootsVisited ==
  ASSUME HeapShape, NEW m, Sane(m), IsObject(glob), \A t \in Threads : IsObject(reg[t]), NEW n, n = VisitRoots(m)
  PROVE  Sane(n) /\ Extends(m, n) /\ glob \in n.marks \union {0} /\ \A t \in Threads : reg[t] \in n.marks \union {0}
<1>1. PICK S : S = {reg[t] : t \in Threads}
  OBVIOUS
<1>2. PICK k : k = Walk(m, S, Visit)
  OBVIOUS
<1>3. glob \in 0..bump /\ S \in SUBSET (0..bump)
  BY <1>1 DEF IsObject, HeapShape
<1>4. Sane(k) /\ Extends(m, k) /\ \A a \in S : a \in k.marks \union {0}
  BY <1>2, <1>3, RootsWalked, HeapConstants
<1>5. n = Visit(k, glob)
  BY <1>1, <1>2 DEF VisitRoots
<1>6. Sane(n) /\ Extends(k, n) /\ glob \in n.marks \union {0}
  BY <1>3, <1>4, <1>5, VisitStep, HeapConstants
<1>7. Extends(m, n)
  BY <1>4, <1>6, ExtendsTransitive DEF Sane
<1>8. \A t \in Threads : reg[t] \in n.marks \union {0}
  BY <1>1, <1>4, <1>6 DEF Extends, Grows
<1> QED BY <1>6, <1>7, <1>8

\* The stack holds no more than the marked objects.
LEMMA StackBounded ==
  ASSUME HeapShape, NEW m \in Markings, NEW n \in Markings, m.stack = <<>>, Extends(m, n)
  PROVE  Len(n.stack) <= Cardinality(n.marks)
<1>1. Len(n.stack) + Cardinality(m.marks) <= Len(m.stack) + Cardinality(n.marks)
  BY DEF Extends
<1>2. Len(m.stack) = 0 /\ Len(n.stack) \in Nat /\ Cardinality(m.marks) \in Nat /\ Cardinality(n.marks) \in Nat
  BY MarksFinite, MarkingIs
<1>3. \A a, b, c \in Nat : a + b <= 0 + c => a <= c
  OBVIOUS
<1> QED BY ONLY <1>1, <1>2, <1>3

\* The marking of the next state is m.
LEMMA NextMarking ==
  ASSUME HeapShape, NEW m, Sane(m), m.stack = <<>>, UNCHANGED <<heap, bump, oldTop>>,
         marks' = m.marks, gc'.overflow = m.overflow, gc'.live = m.live, gc'.inuse = m.inuse
  PROVE  /\ Sane(Marking)' /\ marks' \subseteq 1..bump
         /\ \A X : Covered(m, X) => Covered(Marking, X)'
         /\ \A a : Scanned(m, a) => Scanned(Marking, a)'
<1>1. m = [marks |-> m.marks, stack |-> m.stack, overflow |-> m.overflow, live |-> m.live, inuse |-> m.inuse]
  BY MarkingIs DEF Sane
<1>2. Marking' = m
  BY <1>1 DEF Marking
<1>3. Sane(Marking)'
  BY <1>2 DEF Sane
<1>4. \A a : Scanned(m, a) <=> Scanned(Marking, a)'
  BY <1>2 DEF Scanned
<1>5. ASSUME NEW X, Covered(m, X) PROVE Covered(Marking, X)'
  BY <1>2, <1>4, <1>5 DEF Covered, Waiting
<1> QED BY <1>3, <1>4, <1>5 DEF Sane

\* Begin keeps the invariant.
LEMMA StartStep ==
  ASSUME IInv, ~Stopped, NEW t \in Threads, NEW kind \in {"minor", "compact"}, NEW bits, Begin(t, kind, bits),
         kind = "minor" => bits = marks /\ marks \subseteq 1..oldTop /\ pc[t] = "minor",
         kind = "compact" => bits = {} /\ pc[t] \in {"refused", "compact", "buffer_gc", "run"},
         UNCHANGED <<heap, bump, oldTop, dirty, fin, reg, glob, bufs, open, pc, want>>
  PROVE  IInv'
<1>1. HeapShape
  BY Shape DEF IInv
<1>2. PICK m0 : m0 = [marks |-> bits, stack |-> <<>>, overflow |-> FALSE, live |-> {}, inuse |-> {}]
  OBVIOUS
<1>3. /\ m0.marks = bits /\ m0.stack = <<>> /\ m0.overflow = FALSE /\ m0.live = {} /\ m0.inuse = {}
  BY <1>2
<1>4. bits \subseteq 1..oldTop /\ bits \subseteq 1..bump /\ bits \subseteq Units /\ oldTop \in Nat
  BY <1>1 DEF HeapShape, Units
<1>5. m0 \in Markings
  BY <1>2, <1>4 DEF Markings
<1>6. Sane(m0)
  <2>1. m0.live = {a \in m0.marks : a > oldTop}
    <3>1. \A a \in 1..oldTop : ~(a > oldTop)
      BY <1>4
    <3>2. \A a \in m0.marks : ~(a > oldTop)
      BY ONLY <1>3, <1>4, <3>1
    <3> QED BY ONLY <1>3, <3>2
  <2>2. Len(m0.stack) = 0
    BY <1>3
  <2> QED BY <1>3, <1>4, <1>5, <2>1, <2>2 DEF Sane
<1>7. PICK m1 : m1 = VisitRoots(m0)
  OBVIOUS
<1>8. Sane(m1) /\ Extends(m0, m1) /\ glob \in m1.marks \union {0} /\ \A u \in Threads : reg[u] \in m1.marks \union {0}
  BY <1>1, <1>6, <1>7, RootsVisited DEF IInv, RefsOK
<1>9. Len(m1.stack) <= Cardinality(m1.marks)
  BY <1>1, <1>3, <1>6, <1>8, StackBounded DEF Sane
<1>10. PICK X : X = IF kind = "minor" THEN (oldTop + 1)..bump ELSE 1..bump
  OBVIOUS
<1>11. Covered(m0, X)
  <2>1. m0.marks \intersect X = {}
    BY <1>1, <1>3, <1>4, <1>10 DEF HeapShape
  <2> QED BY <2>1 DEF Covered
<1>12. Covered(m1, X)
  BY <1>8, <1>11, CoveredStays
<1>13. PICK m : m = Drained(m1)
  OBVIOUS
<1>14. Sane(m) /\ Grows(m1, m) /\ m.stack = <<>> /\ Covered(m, X)
  BY <1>1, <1>8, <1>9, <1>12, <1>13, DrainedProperties, HeapConstants
<1>15. /\ chunk' = [u \in Threads |-> NoChunk] /\ marks' = m.marks
       /\ gc' = [by |-> t, kind |-> kind, phase |-> "trace", overflow |-> m.overflow, live |-> m.live, inuse |-> m.inuse]
  BY <1>2, <1>7, <1>13 DEF Begin
<1>16. /\ gc'.by = t /\ gc'.kind = kind /\ gc'.phase = "trace" /\ gc'.overflow = m.overflow
       /\ gc'.live = m.live /\ gc'.inuse = m.inuse
  BY <1>15
<1>17. /\ Sane(Marking)' /\ marks' \subseteq 1..bump /\ Covered(Marking, X)'
  BY <1>1, <1>14, <1>15, <1>16, NextMarking
<1>18. Stopped' /\ TracedSet' = X
  BY <1>10, <1>16, Constants DEF Stopped, TracedSet
<1>19. CollectionOK'
  <2>1. Covered(Marking, TracedSet)'
    BY <1>17, <1>18
  <2>2. glob' \in marks' \union {0} /\ \A u \in Threads : reg'[u] \in marks' \union {0}
    BY <1>8, <1>14, <1>15 DEF Grows
  <2>3. gc' = [by |-> gc'.by, kind |-> gc'.kind, phase |-> gc'.phase, overflow |-> gc'.overflow,
               live |-> gc'.live, inuse |-> gc'.inuse]
    BY ONLY <1>15, <1>16
  <2>4. /\ gc'.kind = "minor" => pc'[gc'.by] = "minor"
        /\ gc'.kind = "compact" => pc'[gc'.by] \in {"refused", "compact", "buffer_gc", "run"}
    BY <1>16
  <2> QED BY <1>15, <1>16, <1>17, <2>1, <2>2, <2>3, <2>4 DEF CollectionOK
<1>20. TypesOK'
  <2>1. chunk' \in [Threads -> Chunks]
    BY <1>15 DEF NoChunk, Chunks
  <2> QED BY <1>17, <2>1 DEF IInv, TypesOK
<1>21. RefsOK' /\ FreeOK' /\ CleanOK'
  BY DEF IInv, RefsOK, IsObject, FreeOK, CleanOK
<1>22. ChunksOK'
  <2>1. \A u \in Threads : chunk'[u].cur = 0
    BY <1>15 DEF NoChunk
  <2> QED BY <2>1 DEF ChunksOK, ChunkOK, Apart
<1>23. EraOK' /\ MarksOK'
  <2>1. ~Quiet'
    BY <1>18 DEF Quiet
  <2>2. kind = "minor" => 1..oldTop \subseteq m.marks
    <3>1. 1..oldTop \subseteq marks
      BY DEF IInv, MarksOK
    <3> QED BY <1>3, <1>8, <1>14, <3>1 DEF Extends, Grows
  <2> QED BY <1>15, <1>16, <1>18, <2>1, <2>2 DEF EraOK, MarksOK
<1>24. SlotsOK' /\ WantsOK' /\ ThreadsOK'
  BY DEF IInv, SlotsOK, OwnsSlot, OwnSlot, WantsOK, Awaits, ThreadsOK
<1>25. TraceOK'
  BY <1>18, <1>19 DEF TraceOK
<1> QED BY <1>20, <1>21, <1>22, <1>23, <1>24, <1>25 DEF IInv

\* StartMinor keeps the invariant.
LEMMA StartMinorStep ==
  ASSUME IInv, Undisturbed, NEW t \in Threads, StartMinor(t)
  PROVE  IInv'
<1>1. Quiet /\ pc[t] = "minor" /\ ~Stopped
  BY AtQuiet DEF StartMinor
<1>2. UNCHANGED <<heap, bump, oldTop, dirty, fin, reg, glob, bufs, open, want>>
  BY DEF StartMinor
<1>3. CASE pc' = [pc EXCEPT ![t] = "minored"] /\ UNCHANGED <<marks, watched, chunk, gc>>
  <2>1. pc \in [Threads -> Labels] /\ want \in [Threads -> Wants]
    BY DEF IInv, TypesOK
  <2>2. pc' \in [Threads -> Labels] /\ pc'[t] = "minored" /\ \A u \in Threads \ {t} : pc'[u] = pc[u]
    BY <1>3, <2>1 DEF Labels
  <2>3. WantsOK' /\ ThreadsOK'
    BY <1>1, <1>2, <2>2 DEF IInv, WantsOK, Awaits, ThreadsOK, Allocating, Buffering
  <2> QED BY <1>1, <1>2, <1>3, <2>1, <2>2, <2>3, LightStep DEF IInv, RefsOK, TypesOK
<1>4. CASE Begin(t, "minor", marks) /\ pc' = pc
  <2>1. marks \subseteq 1..oldTop
    BY <1>1 DEF IInv, MarksOK
  <2> QED BY <1>1, <1>2, <1>4, <2>1, StartStep
<1> QED BY <1>3, <1>4 DEF StartMinor

\* StartCompact and Collect keep the invariant.
LEMMA CompactStep ==
  ASSUME IInv, Undisturbed, NEW t \in Threads, StartCompact(t) \/ Collect(t)
  PROVE  IInv'
<1>1. ~Stopped /\ pc[t] \in {"refused", "compact", "buffer_gc", "run"} /\ Compact(t)
  BY DEF StartCompact, Collect, At
<1> QED BY <1>1, StartStep DEF Compact

-----------------------------------------------------------------------------
(***************************************************************************)
(* The mark phase goes on.                                                 *)
(***************************************************************************)
\* The world is stopped and the mark phase goes on.
LEMMA TraceFacts ==
  ASSUME IInv, Stopped
  PROVE  /\ HeapShape /\ CollectionOK /\ Sane(Marking) /\ Covered(Marking, TracedSet)
         /\ Marking.marks = marks /\ Marking.stack = <<>> /\ Marking.overflow = gc.overflow
         /\ Marking.live = gc.live /\ Marking.inuse = gc.inuse
<1>1. HeapShape /\ CollectionOK
  BY Shape DEF IInv, TraceOK
<1> QED BY <1>1 DEF CollectionOK, Marking

\* A further step of the mark phase keeps the invariant.
LEMMA TracedStep ==
  ASSUME IInv, Stopped, NEW m, Sane(m), m.stack = <<>>, Covered(m, TracedSet), marks \subseteq m.marks,
         NEW p \in {"trace", "dirty"}, Traced(m, p),
         p = "dirty" => gc.kind = "minor" /\ \A a \in DirtyObjects : Scanned(m, a)
  PROVE  IInv'
<1>1. HeapShape /\ CollectionOK
  BY TraceFacts
<1>2. UNCHANGED <<heap, bump, oldTop, dirty, watched, chunk, fin, reg, glob, bufs, open, pc, want, missed>> /\ marks' = m.marks
  BY DEF Traced
<1>3. gc = [by |-> gc.by, kind |-> gc.kind, phase |-> gc.phase, overflow |-> gc.overflow,
            live |-> gc.live, inuse |-> gc.inuse]
  BY <1>1 DEF CollectionOK
<1>4. gc' = [gc EXCEPT !.phase = p, !.overflow = m.overflow, !.live = m.live, !.inuse = m.inuse]
  BY DEF Traced
<1>5. gc' = [by |-> gc.by, kind |-> gc.kind, phase |-> p, overflow |-> m.overflow, live |-> m.live, inuse |-> m.inuse]
  BY ONLY <1>3, <1>4
<1>6. /\ gc'.by = gc.by /\ gc'.kind = gc.kind /\ gc'.phase = p /\ gc'.overflow = m.overflow
      /\ gc'.live = m.live /\ gc'.inuse = m.inuse
  BY ONLY <1>5
<1>7. /\ Sane(Marking)' /\ marks' \subseteq 1..bump /\ Covered(Marking, TracedSet)'
      /\ \A a : Scanned(m, a) => Scanned(Marking, a)'
  <2>1. TracedSet' = TracedSet
    BY <1>2, <1>6 DEF TracedSet
  <2>2. /\ Sane(Marking)' /\ marks' \subseteq 1..bump
        /\ \A X : Covered(m, X) => Covered(Marking, X)'
        /\ \A a : Scanned(m, a) => Scanned(Marking, a)'
    BY <1>1, <1>2, <1>6, NextMarking
  <2> QED BY <2>1, <2>2
<1>8. Stopped'
  BY <1>6 DEF Stopped
<1>9. CollectionOK'
  <2>1. glob' \in marks' \union {0} /\ \A u \in Threads : reg'[u] \in marks' \union {0}
    BY <1>1, <1>2 DEF CollectionOK
  <2>2. gc' = [by |-> gc'.by, kind |-> gc'.kind, phase |-> gc'.phase, overflow |-> gc'.overflow,
               live |-> gc'.live, inuse |-> gc'.inuse]
    BY ONLY <1>5, <1>6
  <2>3. gc'.phase = "dirty" => gc'.kind = "minor" /\ \A a \in DirtyObjects' : Scanned(Marking, a)'
    BY <1>2, <1>6, <1>7 DEF DirtyObjects
  <2> QED BY <1>1, <1>2, <1>6, <1>7, <2>1, <2>2, <2>3 DEF CollectionOK
<1>10. TypesOK' /\ RefsOK' /\ FreeOK' /\ CleanOK'
  BY <1>2, <1>7 DEF IInv, TypesOK, RefsOK, IsObject, FreeOK, CleanOK
<1>11. ChunksOK'
  BY <1>2 DEF IInv, ChunksOK, ChunkOK, Apart
<1>12. EraOK' /\ MarksOK'
  BY <1>2, <1>6, <1>8 DEF IInv, EraOK, MarksOK, Quiet
<1>13. SlotsOK' /\ WantsOK' /\ ThreadsOK'
  BY <1>2 DEF IInv, SlotsOK, OwnsSlot, OwnSlot, WantsOK, Awaits, ThreadsOK
<1>14. TraceOK'
  BY <1>8, <1>9 DEF TraceOK
<1> QED BY <1>10, <1>11, <1>12, <1>13, <1>14 DEF IInv

\* Rescan keeps the invariant.
LEMMA RescanStep ==
  ASSUME IInv, Rescan
  PROVE  IInv'
<1>1. Stopped
  BY DEF Rescan
<1>2. /\ HeapShape /\ CollectionOK /\ Sane(Marking)
      /\ Marking.marks = marks /\ Marking.stack = <<>> /\ Marking.live = gc.live /\ Marking.inuse = gc.inuse
  BY <1>1, TraceFacts
<1>3. PICK m0 : m0 = [Marking EXCEPT !.overflow = FALSE]
  OBVIOUS
<1>4. m0 = [marks |-> marks, stack |-> <<>>, overflow |-> FALSE, live |-> gc.live, inuse |-> gc.inuse]
  BY <1>3 DEF Marking
<1>5. m0.marks = marks /\ m0.stack = <<>> /\ m0.overflow = FALSE /\ m0.live = gc.live /\ m0.inuse = gc.inuse
  BY ONLY <1>4
<1>6. Sane(m0)
  <2>1. /\ marks \in SUBSET Units /\ gc.live \in SUBSET Units /\ gc.inuse \in SUBSET (Slots \union {0})
    BY <1>2, MarkingIs DEF Sane
  <2>2. m0 \in Markings
    BY <1>4, <2>1 DEF Markings
  <2>3. Len(m0.stack) = 0
    BY <1>5
  <2> QED BY <1>2, <1>5, <2>2, <2>3 DEF Sane
<1>7. PICK S : S = 1..bump
  OBVIOUS
<1>8. PICK m1 : m1 = Walk(m0, S, VisitMarked)
  OBVIOUS
<1>9. Sane(m1) /\ Extends(m0, m1) /\ \A a \in S : a \in m1.marks => m1.overflow \/ Waiting(m1, a) \/ Scanned(m1, a)
  BY <1>2, <1>6, <1>7, <1>8, MarkedWalked, HeapConstants
<1>10. PICK X : X = TracedSet
  OBVIOUS
<1>11. Covered(m1, X)
  BY <1>7, <1>9 DEF Covered, Sane
<1>12. Len(m1.stack) <= Cardinality(m1.marks)
  BY <1>2, <1>5, <1>6, <1>9, StackBounded DEF Sane
<1>13. PICK m : m = Drained(m1)
  OBVIOUS
<1>14. Sane(m) /\ Grows(m1, m) /\ m.stack = <<>> /\ Covered(m, X)
  BY <1>2, <1>9, <1>11, <1>12, <1>13, DrainedProperties, HeapConstants
<1>15. marks \subseteq m.marks
  BY <1>5, <1>9, <1>14 DEF Extends, Grows
<1>16. Traced(m, "trace")
  BY <1>3, <1>7, <1>8, <1>13 DEF Rescan
<1> QED BY <1>1, <1>10, <1>14, <1>15, <1>16, TracedStep

\* WalkDirty keeps the invariant.
LEMMA WalkDirtyStep ==
  ASSUME IInv, WalkDirty
  PROVE  IInv'
<1>1. Stopped /\ gc.kind = "minor"
  BY DEF WalkDirty
<1>2. /\ HeapShape /\ CollectionOK /\ Sane(Marking) /\ Covered(Marking, TracedSet)
      /\ Marking.marks = marks /\ Marking.stack = <<>>
  BY <1>1, TraceFacts
<1>3. PICK m0, S, X : m0 = Marking /\ S = DirtyObjects /\ X = TracedSet
  OBVIOUS
<1>4. S \in SUBSET (1..bump)
  BY <1>2, <1>3 DEF DirtyObjects, HeapShape
<1>5. PICK m1 : m1 = Walk(m0, S, VisitChildren)
  OBVIOUS
<1>6. Sane(m1) /\ Extends(m0, m1) /\ \A a \in S : Scanned(m1, a)
  BY <1>2, <1>3, <1>4, <1>5, DirtyWalked, HeapConstants
<1>7. Covered(m1, X)
  BY <1>2, <1>3, <1>6, CoveredStays
<1>8. Len(m1.stack) <= Cardinality(m1.marks)
  BY <1>2, <1>3, <1>6, StackBounded DEF Sane
<1>9. PICK m : m = Drained(m1)
  OBVIOUS
<1>10. Sane(m) /\ Grows(m1, m) /\ m.stack = <<>> /\ Covered(m, X)
  BY <1>2, <1>6, <1>7, <1>8, <1>9, DrainedProperties, HeapConstants
<1>11. marks \subseteq m.marks
  BY <1>2, <1>3, <1>6, <1>10 DEF Extends, Grows
<1>12. \A a \in S : Scanned(m, a)
  BY <1>6, <1>10, ScannedStays
<1>13. Traced(m, "dirty")
  BY <1>3, <1>5, <1>9 DEF WalkDirty
<1> QED BY <1>1, <1>3, <1>10, <1>11, <1>12, <1>13, TracedStep

\* RefuseMinor keeps the invariant.
LEMMA RefuseMinorStep ==
  ASSUME IInv, RefuseMinor
  PROVE  IInv'
<1>1. Stopped
  BY DEF RefuseMinor
<1>2. CollectionOK
  BY <1>1, TraceFacts
<1>3. gc.by \in Threads /\ gc.kind = "minor" /\ pc[gc.by] = "minor" /\ chunk = [t \in Threads |-> NoChunk]
  BY <1>2 DEF CollectionOK, RefuseMinor
<1>4. UNCHANGED <<heap, bump, marks, oldTop, dirty, watched, chunk, fin, reg, glob, bufs, open, want, missed>>
      /\ gc' = NoCollection /\ pc' = [pc EXCEPT ![gc.by] = "refused"]
  BY DEF RefuseMinor, Resume
<1>5. pc' \in [Threads -> Labels] /\ pc'[gc.by] = "refused" /\ \A u \in Threads \ {gc.by} : pc'[u] = pc[u]
  BY <1>3, <1>4 DEF IInv, TypesOK, Labels
<1>6. ~Stopped' /\ ~Quiet'
  BY <1>3, <1>4, <1>5 DEF Stopped, NoCollection, Quiet
<1>7. TypesOK' /\ RefsOK' /\ FreeOK' /\ CleanOK'
  BY <1>4, <1>5 DEF IInv, TypesOK, RefsOK, IsObject, FreeOK, CleanOK
<1>8. ChunksOK'
  BY <1>4 DEF IInv, ChunksOK, ChunkOK, Apart
<1>9. EraOK' /\ MarksOK'
  BY <1>3, <1>4, <1>6 DEF IInv, EraOK, MarksOK
<1>10. SlotsOK' /\ WantsOK'
  BY <1>4 DEF IInv, SlotsOK, OwnsSlot, OwnSlot, WantsOK, Awaits
<1>11. ThreadsOK'
  BY <1>3, <1>4, <1>5 DEF IInv, ThreadsOK, Allocating, Buffering
<1>12. TraceOK'
  BY <1>4, <1>6 DEF TraceOK
<1> QED BY <1>7, <1>8, <1>9, <1>10, <1>11, <1>12 DEF IInv
-----------------------------------------------------------------------------
(***************************************************************************)
(* The end of a collection.                                                *)
(***************************************************************************)
\* The objects of L, the survivors S and old space below base, go one to one
\* onto 1..top.
Slides(n, base, S, top, L) ==
  /\ top \in base..n /\ Forward(0, base, S) = 0 /\ Cardinality(S) \in Nat
  /\ \A a \in L : Forward(a, base, S) \in 1..top
  /\ \A a \in S : Forward(a, base, S) \in (base + 1)..top
  /\ \A a \in 1..base : Forward(a, base, S) = a
  /\ \A a, c \in L \union {0} : Forward(a, base, S) = Forward(c, base, S) => a = c
  /\ \A b \in 1..top : \E a \in L : Forward(a, base, S) = b
  /\ \A a \in 0..n : Forward(a, base, S) \in 0..n

\* Sliding the survivors S onto base is a bijection onto the new old space.
LEMMA ForwardMap ==
  ASSUME NEW n \in Nat, NEW base \in 0..n, NEW S \in SUBSET ((base + 1)..n),
         NEW top, top = base + Cardinality(S), NEW L, L = S \union 1..base
  PROVE  Slides(n, base, S, top, L)
<1>1. /\ IsFiniteSet(S) /\ Cardinality(S) \in Nat /\ base + Cardinality(S) <= n
      /\ \A a \in S : Forward(a, base, S) \in (base + 1)..(base + Cardinality(S))
      /\ \A a, c \in S : Forward(a, base, S) = Forward(c, base, S) => a = c
      /\ \A b \in (base + 1)..(base + Cardinality(S)) : \E a \in S : Forward(a, base, S) = b
  <2>1. Ranks(n, base, S)
    BY ForwardProperties, Zenon
  <2> QED BY ONLY <2>1 DEF Ranks
<1>2. top \in base..n
  BY <1>1
<1>3. \A a : a \notin S => Forward(a, base, S) = a
  BY DEF Forward
<1>4. 0 \notin S /\ \A a \in 1..base : a \notin S
  OBVIOUS
<1>5. Forward(0, base, S) = 0 /\ \A a \in 1..base : Forward(a, base, S) = a
  BY <1>3, <1>4
<1>6. \A a \in S : Forward(a, base, S) \in (base + 1)..top
  BY <1>1
<1>7. \A a \in L : Forward(a, base, S) \in 1..top
  BY <1>2, <1>5, <1>6
<1>8. ASSUME NEW a \in L \union {0}, NEW c \in L \union {0}, Forward(a, base, S) = Forward(c, base, S) PROVE a = c
  <2>1. CASE a \in S /\ c \in S
    BY <1>1, <1>8, <2>1
  <2>2. CASE a \in S /\ c \notin S
    BY <1>2, <1>5, <1>6, <1>8, <2>2
  <2>3. CASE a \notin S /\ c \in S
    BY <1>2, <1>5, <1>6, <1>8, <2>3
  <2>4. CASE a \notin S /\ c \notin S
    BY <1>3, <1>8, <2>4
  <2> QED BY <2>1, <2>2, <2>3, <2>4
<1>9. ASSUME NEW b \in 1..top PROVE \E a \in L : Forward(a, base, S) = b
  <2>1. b \in 1..base \/ b \in (base + 1)..top
    BY <1>2
  <2> QED BY <1>1, <1>5, <2>1
<1>10. \A a \in 0..n : Forward(a, base, S) \in 0..n
  BY <1>2, <1>3, <1>6
<1> QED BY <1>1, <1>2, <1>5, <1>6, <1>7, <1>8, <1>9, <1>10 DEF Slides

\* An object after the slide, and an arena after it.
MovedCell(a, base, S) == [kind |-> heap[a].kind, next |-> Forward(heap[a].next, base, S), slot |-> heap[a].slot]

SlidTo(h, base, S, top, L) ==
  /\ h \in [Units -> Cells]
  /\ \A a \in L : h[Forward(a, base, S)] = MovedCell(a, base, S)
  /\ \A b \in Units : b > top => h[b] = Hole

\* gen_slide and the passes that update references make that arena.
LEMMA SlidIs ==
  ASSUME HeapShape, NEW base \in 0..bump, NEW S \in SUBSET ((base + 1)..bump), NEW D,
         \A a \in (1..base) \ D : heap[a].next <= base,
         NEW top, top = base + Cardinality(S), NEW L, L = S \union 1..base,
         NEW h, h = Slid(base, S, D)
  PROVE  SlidTo(h, base, S, top, L)
<1>1. bump \in Nat /\ bump <= ArenaSize /\ ArenaSize \in Nat /\ heap \in [Units -> Cells] /\ base \in Nat /\ base <= bump
  BY DEF HeapShape
<1>2. /\ top \in base..bump /\ Forward(0, base, S) = 0 /\ Cardinality(S) \in Nat
      /\ \A a \in S : Forward(a, base, S) \in (base + 1)..top
      /\ \A a \in 1..base : Forward(a, base, S) = a
      /\ \A a, c \in L \union {0} : Forward(a, base, S) = Forward(c, base, S) => a = c
      /\ \A b \in 1..top : \E a \in L : Forward(a, base, S) = b
      /\ \A a \in 0..ArenaSize : Forward(a, base, S) \in 0..ArenaSize
  <2>1. Slides(bump, base, S, top, L)
    <3>1. PICK n \in Nat : n = bump
      BY <1>1
    <3>2. Slides(n, base, S, top, L)
      BY <3>1, ForwardMap, Zenon
    <3> QED BY <3>1, <3>2
  <2>2. S \in SUBSET ((base + 1)..ArenaSize) /\ base \in 0..ArenaSize
    BY <1>1
  <2>3. Slides(ArenaSize, base, S, top, L)
    BY <1>1, <2>2, ForwardMap, Zenon
  <2> QED BY <2>1, <2>3 DEF Slides
<1> DEFINE at(b) == CHOOSE a \in S : Forward(a, base, S) = b
           cell(b) == CASE b <= base -> IF b \in D THEN Updated(heap[b], base, S) ELSE heap[b]
                        [] b > base /\ b <= base + Cardinality(S) -> Updated(heap[at(b)], base, S)
                        [] OTHER -> Hole
<1>3. h = [b \in Units |-> cell(b)]
  BY DEF Slid
<1>4. \A a \in Units : heap[a].next \in 0..ArenaSize /\ MovedCell(a, base, S) \in Cells
                       /\ Updated(heap[a], base, S) = MovedCell(a, base, S)
  <2> TAKE a \in Units
  <2>1. PICK c : c = heap[a]
    OBVIOUS
  <2>2. c \in Cells
    BY <1>1, <2>1
  <2>3. /\ c = [kind |-> c.kind, next |-> c.next, slot |-> c.slot] /\ c.next \in 0..ArenaSize
        /\ c.kind \in {"hole", "cons", "file", "string"} /\ c.slot \in Slots \union {0}
    BY ONLY <2>2 DEF Cells
  <2>4. PICK x : x = Forward(c.next, base, S)
    OBVIOUS
  <2>5. x \in 0..ArenaSize
    BY <1>2, <2>3, <2>4
  <2>6. [c EXCEPT !.next = x] = [kind |-> c.kind, next |-> x, slot |-> c.slot]
    BY ONLY <2>3
  <2>7. Updated(c, base, S) = [kind |-> c.kind, next |-> x, slot |-> c.slot]
    BY <2>4, <2>6 DEF Updated
  <2>8. [kind |-> c.kind, next |-> x, slot |-> c.slot] \in Cells
    BY ONLY <2>3, <2>5 DEF Cells
  <2> QED BY <2>1, <2>3, <2>4, <2>7, <2>8 DEF MovedCell
<1>5. ASSUME NEW a \in 1..base PROVE a \in Units /\ cell(a) = MovedCell(a, base, S)
  <2>1. a \in Units /\ a <= base
    BY <1>1 DEF Units
  <2>2. CASE a \in D
    <3>1. cell(a) = Updated(heap[a], base, S)
      BY <2>1, <2>2
    <3> QED BY <1>4, <2>1, <3>1
  <2>3. CASE a \notin D
    <3>1. cell(a) = heap[a]
      BY <2>1, <2>3
    <3>2. heap[a].next <= base /\ heap[a].next \in 0..ArenaSize
      BY <1>4, <2>1, <2>3
    <3>3. heap[a].next \notin S
      BY <1>1, <3>2
    <3>4. Forward(heap[a].next, base, S) = heap[a].next
      BY <3>3 DEF Forward
    <3>5. heap[a] \in Cells
      BY <1>1, <2>1
    <3>6. heap[a] = MovedCell(a, base, S)
      BY ONLY <3>4, <3>5 DEF MovedCell, Cells
    <3> QED BY <2>1, <3>1, <3>6
  <2> QED BY <2>2, <2>3
<1>6. ASSUME NEW a \in S PROVE Forward(a, base, S) \in Units /\ cell(Forward(a, base, S)) = MovedCell(a, base, S)
  <2>1. PICK b : b = Forward(a, base, S)
    OBVIOUS
  <2>2. b \in (base + 1)..top /\ b \in Units /\ a \in Units
    BY <1>1, <1>2, <2>1 DEF Units
  <2>3. at(b) = a
    <3>1. at(b) \in S /\ Forward(at(b), base, S) = b
      BY <2>1
    <3> HIDE DEF at
    <3> QED BY <1>2, <2>1, <3>1
  <2>4. ~(b <= base) /\ b > base /\ b <= base + Cardinality(S)
    BY <1>1, <2>2
  <2>5. cell(b) = Updated(heap[at(b)], base, S)
    <3> HIDE DEF at
    <3> QED BY <2>4
  <2> HIDE DEF cell, at
  <2> QED BY <1>4, <2>1, <2>2, <2>3, <2>5
<1>7. ASSUME NEW b \in Units, b > top PROVE cell(b) = Hole
  <2>1. ~(b <= base) /\ ~(b <= base + Cardinality(S))
    <3>1. PICK c \in Nat : c = Cardinality(S)
      BY <1>2
    <3>2. b \in Nat /\ top = base + c /\ b > top /\ base \in Nat
      BY <1>1, <1>7, <3>1 DEF Units
    <3>3. ~(b <= base) /\ ~(b <= base + c)
      BY ONLY <3>2, c \in Nat
    <3> QED BY <3>1, <3>3
  <2> QED BY <2>1
<1>8. \A a \in L : Forward(a, base, S) \in Units /\ cell(Forward(a, base, S)) = MovedCell(a, base, S) /\ a \in Units
  <2> HIDE DEF cell
  <2> QED BY <1>1, <1>2, <1>5, <1>6 DEF Units
<1> HIDE DEF cell, at
<1>9. \A a \in L : h[Forward(a, base, S)] = MovedCell(a, base, S)
  BY <1>3, <1>8
<1>10. \A b \in Units : cell(b) \in Cells
  <2> TAKE b \in Units
  <2>1. CASE b > top
    BY <1>7, <2>1, Constants DEF Hole, Cells
  <2>2. CASE ~(b > top)
    <3>1. b \in 1..top
      BY <1>1, <1>2, <2>2 DEF Units
    <3>2. PICK a \in L : Forward(a, base, S) = b
      BY <1>2, <3>1
    <3> QED BY <1>4, <1>8, <3>2
  <2> QED BY <2>1, <2>2
<1>11. h \in [Units -> Cells] /\ \A b \in Units : b > top => h[b] = Hole
  BY <1>3, <1>7, <1>10
<1> QED BY <1>9, <1>11 DEF SlidTo

\* The end of a collection, minor or full: D are the old objects whose
\* references are updated, dead the objects that are finalized.
Moving(base, S, D, L, top, dead) ==
  /\ base \in 0..bump /\ S \in SUBSET ((base + 1)..bump) /\ L = S \union 1..base /\ top = base + Cardinality(S)
  /\ \A a \in (1..base) \ D : heap[a].next <= base
  /\ \A a \in L : heap[a].next \in L \union {0}
  /\ glob \in L \union {0} /\ \A t \in Threads : reg[t] \in L \union {0}
  /\ heap' = Slid(base, S, D) /\ UpdateRoots(base, S)
  /\ Promoted(top) /\ marks' = 1..top /\ chunk' = chunk /\ want' = want
  /\ dead \subseteq Units /\ dead \intersect L = {} /\ open' = Finalized(dead)
  /\ bufs' \subseteq bufs /\ \A a \in L : heap[a].kind = "string" /\ heap[a].slot # 0 => heap[a].slot \in bufs'
  /\ gc' = NoCollection /\ gc.by \in Threads
  /\ \E l \in Labels \ {"refused"} :
        /\ pc' = [pc EXCEPT ![gc.by] = l]
        /\ l \in Allocating => pc[gc.by] \in Allocating
        /\ l \in Buffering => pc[gc.by] \in Buffering

\* When the mark phase is over a marked object refers to marked ones, and its
\* buffer is pinned.
LEMMA TraceDone ==
  ASSUME IInv, Stopped, ~gc.overflow, NEW a \in marks \intersect TracedSet
  PROVE  heap[a].next \in marks \union {0} /\ (heap[a].kind = "string" => heap[a].slot \in gc.inuse)
<1>1. PICK m : m = Marking
  OBVIOUS
<1>2. Covered(m, TracedSet) /\ m.marks = marks /\ m.stack = <<>> /\ m.overflow = gc.overflow /\ m.inuse = gc.inuse
  BY <1>1, TraceFacts
<1>3. ~Waiting(m, a)
  <2>1. Len(m.stack) = 0
    BY <1>2
  <2> QED BY <2>1 DEF Waiting
<1>4. Scanned(m, a)
  BY <1>2, <1>3 DEF Covered
<1> QED BY <1>2, <1>4 DEF Scanned

\* FinishMinor moves the marked nursery; a clean page needs no update.
LEMMA MinorMoves ==
  ASSUME IInv, FinishMinor
  PROVE  \E base, S, D, L, top, dead : Moving(base, S, D, L, top, dead)
<1>1. Stopped /\ gc.phase = "dirty" /\ ~gc.overflow
  BY DEF FinishMinor
<1>2. CollectionOK /\ Sane(Marking) /\ Marking.marks = marks /\ Marking.live = gc.live /\ Marking.inuse = gc.inuse
  BY <1>1, TraceFacts
<1>3. gc.by \in Threads /\ gc.kind = "minor" /\ pc[gc.by] = "minor"
  BY <1>1, <1>2 DEF CollectionOK
<1>4. PICK base, S, D : base = oldTop /\ S = gc.live /\ D = DirtyObjects
  OBVIOUS
<1>5. PICK L, top, dead : L = S \union 1..base /\ top = base + Cardinality(S) /\ dead = fin \ marks
  OBVIOUS
<1>6. bump \in Nat /\ oldTop \in 0..bump /\ bump <= ArenaSize /\ ArenaSize \in Nat /\ heap \in [Units -> Cells]
  BY Constants DEF IInv, TypesOK
<1>7. S = {a \in marks : a > oldTop} /\ marks \subseteq 1..bump
  BY <1>2, <1>4 DEF Sane
<1>8. base \in 0..bump /\ S \in SUBSET ((base + 1)..bump)
  <2>1. \A a \in 1..bump : a > oldTop => a \in (oldTop + 1)..bump
    BY <1>6
  <2>2. S \subseteq (oldTop + 1)..bump
    BY ONLY <1>7, <2>1
  <2> QED BY <1>4, <1>6, <2>2
<1>9. marks \subseteq L /\ 1..base \subseteq marks
  <2>1. 1..oldTop \subseteq marks
    BY <1>3 DEF IInv, MarksOK
  <2>2. \A a \in 1..bump : a > oldTop \/ a \in 1..oldTop
    BY <1>6
  <2> QED BY <1>4, <1>5, <1>7, <2>1, <2>2
<1>10. \A a \in (1..base) \ D : heap[a].next <= base
  BY <1>4 DEF IInv, CleanOK, DirtyObjects
<1>11. \A a \in L : heap[a].next \in L \union {0}
  <2> TAKE a \in L
  <2>1. CASE a \in S
    <3>1. a \in marks \intersect TracedSet
      BY <1>3, <1>4, <1>7, <1>8, <2>1 DEF TracedSet
    <3> QED BY <1>1, <1>9, <3>1, TraceDone
  <2>2. CASE a \in D
    <3>1. Scanned(Marking, a)
      BY <1>1, <1>2, <1>4, <2>2 DEF CollectionOK
    <3> QED BY <1>2, <1>9, <3>1 DEF Scanned
  <2>3. CASE a \in (1..base) \ D
    <3>1. a \in Units
      BY <1>6, <1>8, <2>3 DEF Units
    <3>2. heap[a].next \in 0..ArenaSize /\ heap[a].next <= base
      BY <1>6, <1>10, <2>3, <3>1 DEF Cells
    <3>3. heap[a].next \in 1..base \/ heap[a].next = 0
      BY <1>6, <1>8, <3>2
    <3> QED BY <1>5, <3>3
  <2> QED BY <1>5, <2>1, <2>2, <2>3
<1>12. glob \in L \union {0} /\ \A t \in Threads : reg[t] \in L \union {0}
  BY <1>2, <1>9 DEF CollectionOK
<1>13. marks' = 1..top /\ Cardinality(S) \in Nat
  <2>1. Cardinality(S) \in Nat
    <3>1. PICK n \in Nat : n = bump
      BY <1>6
    <3>2. Ranks(n, base, S)
      BY <1>8, <3>1, ForwardProperties, Zenon
    <3> QED BY <3>2 DEF Ranks
  <2>2. marks' = (marks \intersect 1..base) \union (base + 1)..top
    BY <1>4, <1>5 DEF FinishMinor
  <2>3. marks \intersect 1..base = 1..base
    BY <1>9
  <2>4. (1..base) \union (base + 1)..top = 1..top
    <3>1. PICK c \in Nat : c = Cardinality(S)
      BY <2>1
    <3>2. base \in Nat /\ top = base + c
      BY <1>5, <1>6, <1>8, <3>1
    <3> QED BY ONLY <3>2, c \in Nat
  <2> QED BY <2>1, <2>2, <2>3, <2>4
<1>14. /\ heap' = Slid(base, S, D) /\ UpdateRoots(base, S) /\ Promoted(top) /\ chunk' = chunk /\ want' = want
       /\ open' = Finalized(dead) /\ bufs' = bufs /\ gc' = NoCollection /\ pc' = [pc EXCEPT ![gc.by] = "minored"]
  BY <1>4, <1>5 DEF FinishMinor, Resume
<1>15. dead \subseteq Units /\ dead \intersect L = {}
  <2>1. fin \subseteq (oldTop + 1)..bump
    BY DEF IInv, TypesOK
  <2>2. dead \subseteq Units
    <3>1. (oldTop + 1)..bump \subseteq Units
      BY <1>6 DEF Units
    <3> QED BY <1>5, <2>1, <3>1
  <2>3. L \subseteq marks
    BY <1>5, <1>7, <1>9
  <2> QED BY <1>5, <2>2, <2>3
<1>16. \A a \in L : heap[a].kind = "string" /\ heap[a].slot # 0 => heap[a].slot \in bufs
  <2>1. \A a \in L : a \in Units
    BY <1>5, <1>6, <1>8 DEF Units
  <2> QED BY <2>1 DEF IInv, SlotsOK, OwnsSlot
<1>17. "minored" \in Labels \ {"refused"} /\ "minored" \in Allocating /\ "minored" \notin Buffering /\ pc[gc.by] \in Allocating
  BY <1>3 DEF Labels, Allocating, Buffering
<1>18. Moving(base, S, D, L, top, dead)
  BY ONLY <1>3, <1>5, <1>8, <1>10, <1>11, <1>12, <1>13, <1>14, <1>15, <1>16, <1>17 DEF Moving
<1> QED BY <1>18

\* FinishCompact moves every marked object.
LEMMA CompactMoves ==
  ASSUME IInv, FinishCompact
  PROVE  \E base, S, D, L, top, dead : Moving(base, S, D, L, top, dead)
<1>1. Stopped /\ gc.kind = "compact" /\ ~gc.overflow
  BY DEF FinishCompact
<1>2. CollectionOK /\ Sane(Marking) /\ Marking.marks = marks
  BY <1>1, TraceFacts
<1>3. gc.by \in Threads /\ pc[gc.by] \in {"refused", "compact", "buffer_gc", "run"}
  BY <1>1, <1>2 DEF CollectionOK
<1>4. PICK base, S, D : base = 0 /\ S = marks /\ D = {}
  OBVIOUS
<1>5. PICK L, top, dead : L = S \union 1..base /\ top = base + Cardinality(S) /\ dead = (1..bump) \ S
  OBVIOUS
<1>6. bump \in Nat /\ bump <= ArenaSize /\ ArenaSize \in Nat /\ heap \in [Units -> Cells]
  BY Constants DEF IInv, TypesOK
<1>7. marks \subseteq 1..bump
  BY <1>2 DEF Sane
<1>8. base \in 0..bump /\ S \in SUBSET ((base + 1)..bump) /\ 1..base = {} /\ L = marks
  BY <1>4, <1>5, <1>6, <1>7
<1>9. \A a \in (1..base) \ D : heap[a].next <= base
  BY <1>8
<1>10. \A a \in L : heap[a].next \in L \union {0} /\ (heap[a].kind = "string" => heap[a].slot \in gc.inuse)
  <2> TAKE a \in L
  <2>1. a \in marks \intersect TracedSet
    BY <1>1, <1>7, <1>8 DEF TracedSet
  <2> QED BY <1>1, <1>8, <2>1, TraceDone
<1>11. glob \in L \union {0} /\ \A t \in Threads : reg[t] \in L \union {0}
  BY <1>2, <1>8 DEF CollectionOK
<1>12. Cardinality(S) \in Nat /\ top = Cardinality(S)
  <2>1. PICK n \in Nat : n = bump
    BY <1>6
  <2>2. Ranks(n, base, S)
    BY <1>8, <2>1, ForwardProperties, Zenon
  <2>3. PICK c \in Nat : c = Cardinality(S)
    BY <2>2 DEF Ranks
  <2> QED BY <1>4, <1>5, <2>3
<1>13. PICK l : l = CASE pc[gc.by] \in {"refused", "compact"} -> "compacted"
                      [] pc[gc.by] = "buffer_gc" -> "buffer_retry"
                      [] OTHER -> "run"
  OBVIOUS
<1>14. /\ heap' = Slid(base, S, D) /\ UpdateRoots(base, S) /\ Promoted(top) /\ chunk' = chunk /\ want' = want
       /\ marks' = 1..top
       /\ open' = Finalized(dead) /\ bufs' = bufs \intersect gc.inuse /\ gc' = NoCollection /\ pc' = [pc EXCEPT ![gc.by] = l]
  BY <1>4, <1>5, <1>12, <1>13 DEF FinishCompact, Resume
<1>15. dead \subseteq Units /\ dead \intersect L = {}
  BY <1>4, <1>5, <1>6, <1>8 DEF Units
<1>16. \A a \in L : heap[a].kind = "string" /\ heap[a].slot # 0 => heap[a].slot \in bufs'
  <2>1. \A a \in L : a \in Units
    BY <1>6, <1>7, <1>8 DEF Units
  <2> QED BY <1>10, <1>14, <2>1 DEF IInv, SlotsOK, OwnsSlot
<1>17. l \in Labels \ {"refused"} /\ (l \in Allocating => pc[gc.by] \in Allocating) /\ (l \in Buffering => pc[gc.by] \in Buffering)
  BY <1>3, <1>13 DEF Labels, Allocating, Buffering
<1>18. bufs' \subseteq bufs
  BY <1>14
<1>19. Moving(base, S, D, L, top, dead)
  BY ONLY <1>3, <1>5, <1>8, <1>9, <1>10, <1>11, <1>12, <1>14, <1>15, <1>16, <1>17, <1>18 DEF Moving
<1> QED BY <1>19

\* The slide carries the heap: the variables and the references of what is kept
\* follow their objects.
Relocates(base, S, L, top) ==
  /\ Slides(bump, base, S, top, L) /\ bump' = top /\ oldTop' = top /\ L \subseteq 1..bump
  /\ glob \in L \union {0} /\ glob' = Forward(glob, base, S)
  /\ reg' = [t \in Threads |-> reg'[t]]
  /\ \A t \in Threads : reg[t] \in L \union {0} /\ reg'[t] = Forward(reg[t], base, S)
  /\ heap' \in [Units -> Cells] /\ \A b \in Units : b > top => heap'[b] = Hole
  /\ \A a \in L : /\ heap[a].next \in L \union {0}
                  /\ heap'[Forward(a, base, S)].kind = heap[a].kind
                  /\ heap'[Forward(a, base, S)].slot = heap[a].slot
                  /\ heap'[Forward(a, base, S)].next = Forward(heap[a].next, base, S)

\* The end of a collection carries the heap.
LEMMA MovingRelocates ==
  ASSUME HeapShape, NEW base, NEW S, NEW D, NEW L, NEW top, NEW dead, Moving(base, S, D, L, top, dead)
  PROVE  Relocates(base, S, L, top)
<1>1. /\ base \in 0..bump /\ S \in SUBSET ((base + 1)..bump) /\ L = S \union 1..base /\ top = base + Cardinality(S)
      /\ \A a \in (1..base) \ D : heap[a].next <= base
      /\ heap' = Slid(base, S, D)
  BY DEF Moving
<1>2. PICK n \in Nat : n = bump
  BY DEF HeapShape
<1>3. Slides(n, base, S, top, L)
  BY <1>1, <1>2, ForwardMap, Zenon
<1>4. L \subseteq 1..bump
  BY <1>1, <1>2
<1>5. PICK h : h = Slid(base, S, D)
  OBVIOUS
<1>6. /\ h \in [Units -> Cells]
      /\ \A a \in L : h[Forward(a, base, S)] = MovedCell(a, base, S)
      /\ \A b \in Units : b > top => h[b] = Hole
  <2>1. SlidTo(h, base, S, top, L)
    BY <1>1, <1>5, SlidIs, Zenon
  <2> QED BY <2>1 DEF SlidTo
<1>7. \A a \in L : /\ heap'[Forward(a, base, S)].kind = heap[a].kind
                   /\ heap'[Forward(a, base, S)].slot = heap[a].slot
                   /\ heap'[Forward(a, base, S)].next = Forward(heap[a].next, base, S)
  <2> TAKE a \in L
  <2>1. PICK x, y : x = Forward(a, base, S) /\ y = Forward(heap[a].next, base, S)
    OBVIOUS
  <2>2. PICK k, s : k = heap[a].kind /\ s = heap[a].slot
    OBVIOUS
  <2>3. heap'[x] = [kind |-> k, next |-> y, slot |-> s]
    BY <1>1, <1>5, <1>6, <2>1, <2>2 DEF MovedCell
  <2>4. heap'[x].kind = k /\ heap'[x].next = y /\ heap'[x].slot = s
    BY ONLY <2>3
  <2> QED BY ONLY <2>1, <2>2, <2>4
<1>8. bump' = top /\ oldTop' = top
  BY DEF Moving, Promoted
<1>9. /\ glob \in L \union {0} /\ glob' = Forward(glob, base, S)
      /\ reg' = [t \in Threads |-> reg'[t]]
      /\ \A t \in Threads : reg[t] \in L \union {0} /\ reg'[t] = Forward(reg[t], base, S)
  BY DEF Moving, UpdateRoots
<1>10. \A a \in L : heap[a].next \in L \union {0}
  BY DEF Moving
<1> QED BY ONLY <1>1, <1>2, <1>3, <1>4, <1>5, <1>6, <1>7, <1>8, <1>9, <1>10 DEF Relocates

\* The end of a collection keeps the invariant.
LEMMA MovedStep ==
  ASSUME IInv, NEW base, NEW S, NEW D, NEW L, NEW top, NEW dead, Moving(base, S, D, L, top, dead)
  PROVE  IInv'
<1> DEFINE f(a) == Forward(a, base, S)
<1>1. HeapShape /\ bump \in Nat /\ bump <= ArenaSize /\ ArenaSize \in Nat
  BY Shape, Constants DEF IInv, TypesOK
<1>2. Relocates(base, S, L, top)
  BY <1>1, MovingRelocates
<1>3. /\ top \in 0..bump /\ f(0) = 0 /\ L \subseteq 1..bump /\ L \subseteq Units /\ bump' = top /\ oldTop' = top
      /\ \A a \in L : f(a) \in 1..top
      /\ \A a, c \in L \union {0} : f(a) = f(c) => a = c
      /\ \A b \in 1..top : \E a \in L : f(a) = b
  <2>1. top \in base..bump /\ base \in 0..bump
    BY <1>2 DEF Relocates, Slides, Moving
  <2>2. top \in 0..bump /\ 1..bump \subseteq Units
    BY <1>1, <2>1 DEF Units
  <2> QED BY <1>2, <2>2 DEF Relocates, Slides
<1>4. /\ glob \in L \union {0} /\ glob' = f(glob)
      /\ reg' = [t \in Threads |-> reg'[t]]
      /\ \A t \in Threads : reg[t] \in L \union {0} /\ reg'[t] = f(reg[t])
      /\ heap' \in [Units -> Cells] /\ \A b \in Units : b > top => heap'[b] = Hole
  BY <1>2 DEF Relocates
<1>5. \A a \in L : /\ heap[a].next \in L \union {0} /\ heap'[f(a)].kind = heap[a].kind
                   /\ heap'[f(a)].slot = heap[a].slot /\ heap'[f(a)].next = f(heap[a].next)
  BY <1>2 DEF Relocates
<1> HIDE DEF f
<1>6. /\ marks' = 1..top /\ chunk' = chunk /\ want' = want
      /\ dead \subseteq Units /\ dead \intersect L = {} /\ open' = Finalized(dead)
      /\ bufs' \subseteq bufs /\ \A a \in L : heap[a].kind = "string" /\ heap[a].slot # 0 => heap[a].slot \in bufs'
      /\ gc' = NoCollection /\ gc.by \in Threads
  BY DEF Moving
<1>7. watched' /\ fin' = {} /\ dirty' = IF top % PageSize = 0 THEN {} ELSE {top \div PageSize}
  BY DEF Moving, Promoted, FreshEra
<1>8. PICK l \in Labels \ {"refused"} :
        /\ pc' = [pc EXCEPT ![gc.by] = l]
        /\ l \in Allocating => pc[gc.by] \in Allocating
        /\ l \in Buffering => pc[gc.by] \in Buffering
  BY DEF Moving
<1>9. /\ pc' \in [Threads -> Labels]
      /\ \A t \in Threads : (pc'[t] \in Allocating => pc[t] \in Allocating) /\ (pc'[t] \in Buffering => pc[t] \in Buffering)
  <2>1. pc \in [Threads -> Labels]
    BY DEF IInv, TypesOK
  <2>2. pc' \in [Threads -> Labels] /\ pc'[gc.by] = l /\ \A t \in Threads \ {gc.by} : pc'[t] = pc[t]
    BY <1>6, <1>8, <2>1
  <2> QED BY <1>6, <1>8, <2>2
<1>10. \A b \in Units : (b \in 1..top /\ \E a \in L : f(a) = b) \/ heap'[b] = Hole
  <2> TAKE b \in Units
  <2>1. b \in 1..top \/ b > top
    BY <1>1, <1>3 DEF Units
  <2> QED BY <1>3, <1>4, <2>1
<1>11. open' \subseteq open /\ \A a \in Units : heap[a].kind = "file" /\ heap[a].slot \in open /\ heap[a].slot # 0 /\ a \notin dead
                                   => heap[a].slot \in open'
  <2>1. open' = open \ {heap[a].slot : a \in {b \in dead : heap[b].kind = "file"}}
    BY <1>6 DEF Finalized
  <2>2. ASSUME NEW a \in Units, heap[a].kind = "file", heap[a].slot \in open, heap[a].slot # 0, a \notin dead
        PROVE  heap[a].slot \in open'
    <3>1. \A b \in dead : heap[b].kind = "file" => heap[b].slot # heap[a].slot
      BY <1>6, <2>2 DEF IInv, SlotsOK, OwnSlot
    <3> QED BY <2>1, <2>2, <3>1
  <2> QED BY <2>1, <2>2
<1>12. TypesOK'
  <2>1. /\ bump' \in 0..ArenaSize /\ oldTop' \in 0..bump' /\ marks' \subseteq 1..bump' /\ fin' \subseteq (oldTop' + 1)..bump'
    BY <1>1, <1>3, <1>6, <1>7
  <2>2. bufs' \subseteq Slots /\ open' \subseteq Slots /\ chunk' \in [Threads -> Chunks] /\ want' \in [Threads -> Wants]
    BY <1>6, <1>11 DEF IInv, TypesOK
  <2> QED BY <1>4, <1>9, <2>1, <2>2 DEF TypesOK
<1>13. \A x \in L \union {0} : IsObject(x) => (f(x) = 0 \/ (f(x) \in 1..top /\ heap'[f(x)].kind # "hole"))
  BY <1>3, <1>5 DEF IsObject
<1>14. RefsOK'
  <2>1. ASSUME NEW b \in 1..top PROVE heap'[b].next = 0 \/ (heap'[b].next \in 1..top /\ heap'[heap'[b].next].kind # "hole")
    <3>1. PICK a \in L : f(a) = b
      BY <1>3
    <3>2. PICK x : x = heap[a].next
      OBVIOUS
    <3>3. x \in L \union {0} /\ IsObject(x) /\ heap'[b].next = f(x)
      BY <1>3, <1>5, <3>1, <3>2 DEF IInv, RefsOK
    <3> QED BY <1>13, <3>3
  <2>2. ASSUME NEW t \in Threads PROVE reg'[t] = 0 \/ (reg'[t] \in 1..top /\ heap'[reg'[t]].kind # "hole")
    <3>1. IsObject(reg[t])
      BY DEF IInv, RefsOK
    <3> QED BY <1>4, <1>13, <3>1
  <2>3. glob' = 0 \/ (glob' \in 1..top /\ heap'[glob'].kind # "hole")
    <3>1. IsObject(glob)
      BY DEF IInv, RefsOK
    <3> QED BY <1>4, <1>13, <3>1
  <2> QED BY <1>3, <1>4, <2>1, <2>2, <2>3 DEF RefsOK, IsObject
<1>15. FreeOK'
  BY <1>3, <1>4 DEF FreeOK
<1>16. ChunksOK'
  <2>1. \A t \in Threads : chunk[t].cur = 0
    <3>1. CollectionOK
      BY <1>6, Constants DEF IInv, TraceOK, Stopped
    <3> QED BY <3>1 DEF CollectionOK, NoChunk
  <2> QED BY <1>6, <2>1 DEF ChunksOK, ChunkOK, Apart
<1>17. CleanOK'
  <2> SUFFICES ASSUME NEW b \in 1..top PROVE heap'[b].next <= top
    BY <1>3 DEF CleanOK
  <2>1. heap'[b].next \in 0..top
    <3>1. PICK a \in L : f(a) = b
      BY <1>3
    <3>2. heap[a].next \in L \union {0} /\ heap'[b].next = f(heap[a].next)
      BY <1>5, <3>1
    <3>3. \A x \in L \union {0} : f(x) \in 0..top
      BY <1>1, <1>3
    <3> QED BY <3>2, <3>3
  <2> QED BY <1>1, <1>3, <2>1
<1>18. ~Stopped'
  BY <1>6 DEF Stopped, NoCollection
<1>19. EraOK' /\ MarksOK'
  BY <1>3, <1>6, <1>7, <1>18 DEF EraOK, MarksOK
<1>20. SlotsOK'
  <2>1. ASSUME NEW b \in Units PROVE OwnsSlot(b)'
    <3>1. CASE heap'[b] = Hole
      BY <3>1 DEF OwnsSlot, Hole
    <3>2. CASE \E a \in L : f(a) = b
      <4>1. PICK a \in L : f(a) = b
        BY <3>2
      <4>2. OwnsSlot(a) /\ heap'[b].kind = heap[a].kind /\ heap'[b].slot = heap[a].slot /\ a \in Units /\ a \notin dead
        BY <1>3, <1>5, <1>6, <4>1 DEF IInv, SlotsOK
      <4>3. heap[a].slot # 0 => \/ heap[a].kind = "file" /\ heap[a].slot \in open'
                                \/ heap[a].kind = "string" /\ heap[a].slot \in bufs'
        BY <1>6, <1>11, <4>2 DEF OwnsSlot
      <4> QED BY <4>2, <4>3 DEF OwnsSlot
    <3> QED BY <1>10, <3>1, <3>2
  <2>2. ASSUME NEW b \in Units, NEW c \in Units, b # c PROVE OwnSlot(b, c)'
    <3> SUFFICES ASSUME heap'[b].slot # 0, heap'[b].kind = heap'[c].kind PROVE heap'[b].slot # heap'[c].slot
      BY DEF OwnSlot
    <3>1. heap'[b] # Hole /\ heap'[c] # Hole
      <4>1. heap'[b].kind # "hole"
        BY <2>1 DEF OwnsSlot
      <4> QED BY <4>1 DEF Hole
    <3>2. PICK x, y \in L : f(x) = b /\ f(y) = c
      BY <1>10, <3>1
    <3>3. x \in Units /\ y \in Units /\ x # y
      BY <1>3, <2>2, <3>2
    <3>4. OwnSlot(x, y)
      BY <3>3 DEF IInv, SlotsOK
    <3> QED BY <1>5, <3>2, <3>4 DEF OwnSlot
  <2> QED BY <2>1, <2>2 DEF SlotsOK
<1>21. WantsOK'
  <2>1. ASSUME NEW t \in Threads, want[t].handle # 0 PROVE want[t].kind = "file" /\ want[t].handle \in open'
    <3>1. want[t].kind = "file" /\ want[t].handle \in open
      BY <2>1 DEF IInv, WantsOK
    <3>2. \A b \in dead : heap[b].kind = "file" => heap[b].slot # want[t].handle
      BY <1>6, <2>1 DEF IInv, WantsOK, Awaits
    <3> QED BY <1>6, <3>1, <3>2 DEF Finalized
  <2>2. ASSUME NEW t \in Threads, NEW b \in Units PROVE Awaits(t, b)'
    <3>1. CASE heap'[b] = Hole
      BY <3>1 DEF Awaits, Hole
    <3>2. CASE \E a \in L : f(a) = b
      <4>1. PICK a \in L : f(a) = b
        BY <3>2
      <4>2. Awaits(t, a) /\ heap'[b].kind = heap[a].kind /\ heap'[b].slot = heap[a].slot
        BY <1>3, <1>5, <4>1 DEF IInv, WantsOK
      <4> QED BY <1>6, <4>2 DEF Awaits
    <3> QED BY <1>10, <3>1, <3>2
  <2>3. \A t, u \in Threads : t # u /\ want[t].handle # 0 => want[t].handle # want[u].handle
    BY DEF IInv, WantsOK
  <2> QED BY <1>6, <2>1, <2>2, <2>3 DEF WantsOK
<1>22. ThreadsOK'
  <2> SUFFICES ASSUME NEW t \in Threads
               PROVE  /\ pc'[t] \in Allocating => want'[t].kind # "none"
                      /\ pc'[t] \in Buffering => reg'[t] # 0 /\ heap'[reg'[t]].kind = "string"
    BY DEF ThreadsOK
  <2>1. pc[t] \in Allocating => want[t].kind # "none"
    BY DEF IInv, ThreadsOK
  <2>2. pc[t] \in Buffering => reg[t] # 0 /\ heap[reg[t]].kind = "string"
    BY DEF IInv, ThreadsOK
  <2>3. reg[t] # 0 => reg'[t] # 0 /\ heap'[reg'[t]].kind = heap[reg[t]].kind
    <3>1. PICK x : x = reg[t]
      OBVIOUS
    <3>2. x \in L \union {0} /\ reg'[t] = f(x)
      BY <1>4, <3>1
    <3>3. x # 0 => f(x) # 0 /\ heap'[f(x)].kind = heap[x].kind
      BY <1>3, <1>5, <3>2
    <3> QED BY <3>1, <3>2, <3>3
  <2>4. want'[t].kind = want[t].kind
    BY <1>6
  <2>5. (pc'[t] \in Allocating => pc[t] \in Allocating) /\ (pc'[t] \in Buffering => pc[t] \in Buffering)
    BY <1>9, Zenon
  <2>6. pc'[t] \in Allocating => want'[t].kind # "none"
    BY ONLY <2>1, <2>4, <2>5
  <2>7. pc'[t] \in Buffering => reg'[t] # 0 /\ heap'[reg'[t]].kind = "string"
    BY ONLY <2>2, <2>3, <2>5
  <2> QED BY ONLY <2>6, <2>7
<1>23. TraceOK'
  BY <1>6, <1>18 DEF TraceOK
<1> QED BY <1>12, <1>14, <1>15, <1>16, <1>17, <1>19, <1>20, <1>21, <1>22, <1>23 DEF IInv
-----------------------------------------------------------------------------
(***************************************************************************)
(* The invariant holds.                                                    *)
(***************************************************************************)
\* Every step keeps the invariant.
LEMMA NextStep ==
  ASSUME IInv, Undisturbed, [Next]_vars
  PROVE  IInv'
<1>1. CASE UNCHANGED vars
  <2>1. TypesOK' /\ RefsOK' /\ FreeOK' /\ CleanOK'
    BY <1>1 DEF IInv, TypesOK, RefsOK, IsObject, FreeOK, CleanOK, vars
  <2>2. ChunksOK' /\ EraOK' /\ MarksOK'
    BY <1>1 DEF IInv, ChunksOK, ChunkOK, Apart, EraOK, MarksOK, Quiet, Stopped, vars
  <2>3. SlotsOK' /\ WantsOK' /\ ThreadsOK'
    BY <1>1 DEF IInv, SlotsOK, OwnsSlot, OwnSlot, WantsOK, Awaits, ThreadsOK, vars
  <2>4. TraceOK'
    <3>1. TraceOK
      BY DEF IInv
    <3>2. UNCHANGED <<heap, bump, marks, oldTop, dirty, chunk, reg, glob, pc, gc>>
      BY <1>1 DEF vars
    <3> QED BY <3>1, <3>2 DEF TraceOK, Stopped, CollectionOK, Sane, Covered, Waiting, Scanned, Marking, TracedSet, DirtyObjects
  <2> QED BY <2>1, <2>2, <2>3, <2>4 DEF IInv
<1>2. ASSUME NEW t \in Threads, NEW kind \in Kinds[t], Alloc(t, kind) PROVE IInv'
  BY <1>2, AllocStep
<1>3. ASSUME NEW t \in Writers, Program(t) PROVE IInv'
  <2>1. t \in Threads
    BY HeapConstants
  <2>2. IsObject(glob)
    BY DEF IInv, RefsOK
  <2>3. reg[t] # 0 => IsObject(heap[reg[t]].next)
    BY <2>1 DEF IInv, RefsOK, IsObject
  <2>4. CASE Read(t, glob)
    BY <2>1, <2>2, <2>4, ReadStep
  <2>5. CASE reg[t] # 0 /\ Read(t, heap[reg[t]].next)
    BY <2>1, <2>3, <2>5, ReadStep
  <2> QED BY <1>3, <2>1, <2>4, <2>5, ShareStep, WriteStep, CloseStep, CompactStep DEF Program
<1>4. ASSUME NEW t \in Threads, Runtime(t) PROVE IInv'
  BY <1>4, RetryStep, EscalateStep, TakeBufferStep, NoBufferStep, StartMinorStep, CompactStep DEF Runtime
<1>5. CASE CollectStep
  <2>1. CASE FinishMinor \/ FinishCompact
    <3>1. PICK base, S, D, L, top, dead : Moving(base, S, D, L, top, dead)
      BY <2>1, MinorMoves, CompactMoves
    <3> QED BY <3>1, MovedStep
  <2> QED BY <1>5, <2>1, RescanStep, WalkDirtyStep, RefuseMinorStep DEF CollectStep
<1> QED BY <1>1, <1>2, <1>3, <1>4, <1>5 DEF Next

\* The invariant holds at first.
LEMMA InitSound ==
  ASSUME Init
  PROVE  IInv
<1> USE DEF Init
<1>1. ArenaSize \in Nat /\ 0 \notin Slots
  BY Constants
<1>2. Hole \in Cells /\ NoChunk \in Chunks /\ NoObject \in Wants /\ NoChunk.cur = 0 /\ NoObject.handle = 0
      /\ Hole.next = 0 /\ Hole.slot = 0 /\ Hole.kind = "hole"
  BY <1>1 DEF Hole, Cells, NoChunk, Chunks, NoObject, Wants
<1>3. TypesOK
  BY <1>1, <1>2 DEF TypesOK, Labels
<1>4. RefsOK /\ FreeOK /\ CleanOK
  BY <1>1, <1>2 DEF RefsOK, FreeOK, CleanOK, IsObject
<1>5. ChunksOK
  BY <1>2 DEF ChunksOK, ChunkOK, Apart
<1>6. ~Stopped
  BY DEF Stopped, NoCollection
<1>7. EraOK /\ MarksOK
  BY <1>6 DEF EraOK, MarksOK
<1>8. SlotsOK /\ WantsOK
  BY <1>2 DEF SlotsOK, OwnsSlot, OwnSlot, WantsOK, Awaits
<1>9. ThreadsOK
  BY DEF ThreadsOK, Allocating, Buffering
<1>10. TraceOK
  BY <1>6 DEF TraceOK
<1> QED BY <1>3, <1>4, <1>5, <1>7, <1>8, <1>9, <1>10 DEF IInv

\* The inductive invariant of the generational heap holds in every state: no
\* reference dangles, a clean page of old space refers to no young object, the
\* mark phase loses no object to an overflow of its stack, every stream owns its
\* handle or buffer.
THEOREM HeapSound == Undisturbed => (Spec => []IInv)
<1> SUFFICES ASSUME Undisturbed PROVE Spec => []IInv
  OBVIOUS
<1>1. Init => IInv
  BY InitSound
<1>2. IInv /\ [Next]_vars => IInv'
  BY NextStep
<1> QED BY <1>1, <1>2, PTL DEF Spec

\* Type correctness: old space is below the bump front, the mark bits and the
\* list of young finalizable objects name units in use.
THEOREM TypeCorrect == Undisturbed => (Spec => []TypeOK)
<1>1. IInv => TypeOK
  <2> SUFFICES ASSUME IInv PROVE TypeOK
    OBVIOUS
  <2>1. /\ bump \in 0..ArenaSize /\ oldTop \in 0..bump /\ marks \subseteq 1..bump /\ heap \in [Units -> Cells]
        /\ fin \subseteq (oldTop + 1)..bump
    BY DEF IInv, TypesOK
  <2>2. \A a \in Units : heap[a].next \in 0..ArenaSize /\ heap[a].slot \in Slots \union {0}
    BY <2>1 DEF Cells
  <2>3. fin \subseteq 1..bump
    <3>1. oldTop \in Nat
      BY <2>1, Constants
    <3>2. (oldTop + 1)..bump \subseteq 1..bump
      BY <3>1
    <3> QED BY <2>1, <3>2
  <2> QED BY <2>1, <2>2, <2>3 DEF TypeOK
<1> QED BY <1>1, HeapSound, PTL

\* A page of old space that is clean refers to nothing in the nursery
\* (gen_walk_dirty_objects), for any page size and any place where old space ends.
THEOREM CleanPagesAlways == Undisturbed => (Spec => []CleanPagesOld)
<1>1. IInv => CleanPagesOld
  BY DEF IInv, CleanOK, CleanPagesOld
<1> QED BY <1>1, HeapSound, PTL
-----------------------------------------------------------------------------
(***************************************************************************)
(* What the program sees.                                                  *)
(***************************************************************************)
\* The path from x through the heap h.
IsPath(g, h, x) ==
  g = [n \in 0..ArenaSize |-> IF n = 0 THEN x ELSE IF g[n - 1] = 0 THEN 0 ELSE h[g[n - 1]].next]
PathFrom(h, x) == CHOOSE g : IsPath(g, h, x)

\* The path exists when no reference leads out of the heap.
LEMMA PathExists ==
  ASSUME NEW h, NEW b \in Nat, \A a \in 1..b : h[a].next \in 0..b, NEW x \in 0..b
  PROVE  IsPath(PathFrom(h, x), h, x)
<1> DEFINE step(a) == IF a = 0 THEN 0 ELSE h[a].next
           F == [i \in 1..ArenaSize |-> [a \in 0..b |-> step(a)]]
<1>1. ArenaSize \in Nat
  BY Constants
<1>2. \A a \in 0..b : step(a) \in 0..b
  OBVIOUS
<1>3. PICK f \in [0..ArenaSize -> 0..b] : f[0] = x /\ \A i \in 1..ArenaSize : f[i] = F[i][f[i - 1]]
  <2> HIDE DEF step
  <2>1. PICK A \in Nat : A = ArenaSize
    BY <1>1
  <2>2. PICK N, G : N = 0..b /\ G = F
    OBVIOUS
  <2>3. F \in [1..ArenaSize -> [0..b -> 0..b]]
    BY <1>2
  <2> HIDE DEF F
  <2>4. A \in Nat /\ x \in N /\ Steps(G, A, N)
    BY <2>1, <2>2, <2>3 DEF Steps
  <2>5. PICK f : Iterates(f, A, N, x, G)
    BY ONLY <2>4, Recursion, Zenon
  <2> QED BY ONLY <2>1, <2>2, <2>5 DEF Iterates
<1>4. \A i \in 1..ArenaSize : i - 1 \in 0..ArenaSize /\ f[i - 1] \in 0..b
  BY <1>1
<1>5. \A i \in 1..ArenaSize : f[i] = step(f[i - 1])
  <2> HIDE DEF step
  <2> QED BY <1>3, <1>4
<1>6. \A i \in 0..ArenaSize : f[i] = IF i = 0 THEN x ELSE step(f[i - 1])
  <2> HIDE DEF step, F
  <2> QED BY <1>1, <1>3, <1>5
<1>7. IsPath(f, h, x)
  BY <1>6 DEF IsPath
<1> QED BY ONLY <1>7, Zenon DEF PathFrom

\* The units of a path.
LEMMA PathSteps ==
  ASSUME NEW g, NEW h, NEW x, IsPath(g, h, x)
  PROVE  /\ g[0] = x /\ DOMAIN g = 0..ArenaSize
         /\ \A n \in 1..ArenaSize : g[n] = IF g[n - 1] = 0 THEN 0 ELSE h[g[n - 1]].next
<1>1. ArenaSize \in Nat
  BY Constants
<1>2. PICK G : G = g
  OBVIOUS
<1>3. g = [n \in 0..ArenaSize |-> IF n = 0 THEN x ELSE IF G[n - 1] = 0 THEN 0 ELSE h[G[n - 1]].next]
  BY <1>2 DEF IsPath
<1>4. 0 \in 0..ArenaSize /\ \A n \in 1..ArenaSize : n \in 0..ArenaSize /\ n # 0
  BY <1>1
<1>5. DOMAIN g = 0..ArenaSize /\ g[0] = x
  BY ONLY <1>3, <1>4
<1>6. \A n \in 1..ArenaSize : g[n] = IF G[n - 1] = 0 THEN 0 ELSE h[G[n - 1]].next
  BY ONLY <1>3, <1>4
<1> QED BY ONLY <1>2, <1>5, <1>6

\* Every unit on a path is in the set C, when the first is and C is closed.
LEMMA PathStays ==
  ASSUME NEW g, NEW h, NEW x, IsPath(g, h, x), NEW C, x \in C \union {0}, \A a \in C : h[a].next \in C \union {0}
  PROVE  \A n \in 0..ArenaSize : g[n] \in C \union {0}
<1> DEFINE P == {n \in 0..ArenaSize : g[n] \in C \union {0}}
<1>1. ArenaSize \in Nat
  BY Constants
<1>2. g[0] = x /\ \A n \in 1..ArenaSize : g[n] = IF g[n - 1] = 0 THEN 0 ELSE h[g[n - 1]].next
  BY PathSteps
<1>3. 0 \in P
  BY <1>1, <1>2
<1>4. ASSUME NEW k \in 0..(ArenaSize - 1), k \in P PROVE k + 1 \in P
  <2>1. k + 1 \in 1..ArenaSize /\ k + 1 \in 0..ArenaSize /\ (k + 1) - 1 = k
    BY <1>1
  <2>2. g[k + 1] = IF g[k] = 0 THEN 0 ELSE h[g[k]].next
    BY <1>2, <2>1
  <2>3. g[k] \in C \union {0}
    BY <1>4
  <2> QED BY <2>1, <2>2, <2>3
<1>5. 0..ArenaSize \subseteq P
  <2> HIDE DEF P
  <2> QED BY <1>1, <1>3, <1>4, UpTo
<1> QED BY <1>5

\* A map F that carries the heap h to k carries the paths.
LEMMA PathMoves ==
  ASSUME NEW g, NEW h, NEW x, IsPath(g, h, x), NEW C, x \in C \union {0}, \A a \in C : h[a].next \in C \union {0},
         NEW F, F[0] = 0, \A a \in C : a # 0 /\ F[a] # 0,
         NEW q, NEW k, NEW y, IsPath(q, k, y), y = F[x], \A a \in C : k[F[a]].next = F[h[a].next]
  PROVE  \A n \in 0..ArenaSize : q[n] = F[g[n]]
<1> DEFINE P == {n \in 0..ArenaSize : q[n] = F[g[n]]}
<1>1. ArenaSize \in Nat
  BY Constants
<1>2. g[0] = x /\ \A n \in 1..ArenaSize : g[n] = IF g[n - 1] = 0 THEN 0 ELSE h[g[n - 1]].next
  BY PathSteps
<1>3. q[0] = y /\ \A n \in 1..ArenaSize : q[n] = IF q[n - 1] = 0 THEN 0 ELSE k[q[n - 1]].next
  BY PathSteps
<1>4. \A n \in 0..ArenaSize : g[n] \in C \union {0}
  BY PathStays
<1>5. 0 \in P
  BY <1>1, <1>2, <1>3
<1>6. ASSUME NEW i \in 0..(ArenaSize - 1), i \in P PROVE i + 1 \in P
  <2>1. i + 1 \in 1..ArenaSize /\ i + 1 \in 0..ArenaSize /\ (i + 1) - 1 = i /\ i \in 0..ArenaSize
    BY <1>1
  <2>2. g[i + 1] = IF g[i] = 0 THEN 0 ELSE h[g[i]].next
    BY <1>2, <2>1
  <2>3. q[i + 1] = IF q[i] = 0 THEN 0 ELSE k[q[i]].next
    BY <1>3, <2>1
  <2>4. PICK a : a = g[i]
    OBVIOUS
  <2>5. a \in C \union {0} /\ q[i] = F[a]
    BY <1>4, <1>6, <2>1, <2>4
  <2>6. CASE a = 0
    BY <2>1, <2>2, <2>3, <2>4, <2>5, <2>6
  <2>7. CASE a \in C
    <3>1. g[i + 1] = h[a].next
      BY <2>2, <2>4, <2>7
    <3>2. q[i + 1] = k[F[a]].next
      BY <2>3, <2>5, <2>7
    <3> QED BY <2>1, <2>7, <3>1, <3>2
  <2> QED BY <2>5, <2>6, <2>7
<1>7. 0..ArenaSize \subseteq P
  <2> HIDE DEF P
  <2> QED BY <1>1, <1>5, <1>6, UpTo
<1> QED BY <1>7

\* What the program sees, of any heap and paths.
Variables == Threads \union {NoThread}
Places == Variables \X (0..ArenaSize)
Seen(h, P) ==
  {[kind |-> h[a].kind, slot |-> h[a].slot, places |-> {p \in Places : P[p[1]][p[2]] = a}] :
     a \in {P[p[1]][p[2]] : p \in Places} \ {0}}

\* F carries the heap h with paths P to the heap k with paths Q.
Carries(F, C, h, P, k, Q) ==
  /\ F[0] = 0 /\ \A a, c \in C \union {0} : F[a] = F[c] => a = c
  /\ \A a \in C : k[F[a]].kind = h[a].kind /\ k[F[a]].slot = h[a].slot
  /\ \A p \in Places : P[p[1]][p[2]] \in C \union {0} /\ Q[p[1]][p[2]] = F[P[p[1]][p[2]]]

SameSeen(h, P, k, Q) == Seen(k, Q) = Seen(h, P)

\* What is carried looks the same.
LEMMA SeenMoves ==
  ASSUME NEW F, NEW C, NEW h, NEW P, NEW k, NEW Q, Carries(F, C, h, P, k, Q)
  PROVE  SameSeen(h, P, k, Q)
<1> USE DEF Carries
<1> DEFINE at(p) == P[p[1]][p[2]]
           to(p) == Q[p[1]][p[2]]
           one(a) == [kind |-> h[a].kind, slot |-> h[a].slot, places |-> {p \in Places : at(p) = a}]
           two(b) == [kind |-> k[b].kind, slot |-> k[b].slot, places |-> {p \in Places : to(p) = b}]
<1>1. \A p \in Places : at(p) \in C \union {0} /\ to(p) = F[at(p)]
  OBVIOUS
<1>2. Seen(h, P) = {one(a) : a \in {at(p) : p \in Places} \ {0}}
  BY DEF Seen
<1>3. Seen(k, Q) = {two(a) : a \in {to(p) : p \in Places} \ {0}}
  BY DEF Seen
<1> HIDE DEF at, to
<1>4. ASSUME NEW a \in C \union {0}, a # 0 PROVE two(F[a]) = one(a) /\ F[a] # 0
  <2>1. {p \in Places : to(p) = F[a]} = {p \in Places : at(p) = a}
    <3>1. \A p \in Places : to(p) = F[a] <=> at(p) = a
      BY <1>1
    <3> QED BY ONLY <3>1
  <2>2. k[F[a]].kind = h[a].kind /\ k[F[a]].slot = h[a].slot
    BY <1>4
  <2>3. F[a] # 0
    BY <1>4
  <2> QED BY ONLY <2>1, <2>2, <2>3
<1> HIDE DEF one, two
<1>5. ASSUME NEW e \in Seen(h, P) PROVE e \in Seen(k, Q)
  <2>1. PICK p \in Places : at(p) # 0 /\ e = one(at(p))
    BY <1>2, <1>5
  <2>2. to(p) = F[at(p)] /\ two(to(p)) = e /\ to(p) # 0
    BY <1>1, <1>4, <2>1
  <2> QED BY <1>3, <2>2
<1>6. ASSUME NEW e \in Seen(k, Q) PROVE e \in Seen(h, P)
  <2>1. PICK p \in Places : to(p) # 0 /\ e = two(to(p))
    BY <1>3, <1>6
  <2>2. at(p) # 0 /\ to(p) = F[at(p)] /\ at(p) \in C \union {0}
    BY <1>1, <2>1
  <2>3. one(at(p)) = e
    BY <1>4, <2>1, <2>2
  <2> QED BY <1>2, <2>2, <2>3
<1> QED BY <1>5, <1>6 DEF SameSeen

\* View in those terms.
LEMMA ViewIs ==
  /\ \A v : Path(v) = PathFrom(heap, Variable(v))
  /\ DOMAIN Paths = Variables /\ \A v \in Variables : Paths[v] = Path(v)
  /\ View = Seen(heap, Paths)
<1>1. \A v : Path(v) = PathFrom(heap, Variable(v))
  BY DEF Path, PathFrom, IsPath
<1>2. DOMAIN Paths = Variables /\ \A v \in Variables : Paths[v] = Path(v)
  BY DEF Paths, Variables
<1>3. View = Seen(heap, Paths)
  <2>1. PICK P : P = Paths
    OBVIOUS
  <2>2. View = LET places == (DOMAIN P) \X (0..ArenaSize)
               IN {[kind |-> heap[a].kind, slot |-> heap[a].slot,
                    places |-> {p \in places : P[p[1]][p[2]] = a}] :
                   a \in {P[p[1]][p[2]] : p \in places} \ {0}}
    BY <2>1 DEF View
  <2>3. (DOMAIN P) \X (0..ArenaSize) = Places
    BY <1>2, <2>1 DEF Places
  <2> QED BY <2>1, <2>2, <2>3 DEF Seen
<1> QED BY <1>1, <1>2, <1>3

\* View after a step in the same terms.
LEMMA ViewNext ==
  /\ DOMAIN Paths' = Variables /\ \A v \in Variables : Paths'[v] = PathFrom(heap', Variable(v)')
  /\ View' = Seen(heap', Paths')
<1>1. \A v : Path(v)' = PathFrom(heap', Variable(v)')
  BY DEF Path, PathFrom, IsPath
<1>2. DOMAIN Paths' = Variables /\ \A v \in Variables : Paths'[v] = Path(v)'
  BY DEF Paths, Variables
<1>3. View' = Seen(heap', Paths')
  <2>1. PICK P : P = Paths'
    OBVIOUS
  <2>2. View' = LET places == (DOMAIN P) \X (0..ArenaSize)
               IN {[kind |-> heap'[a].kind, slot |-> heap'[a].slot,
                    places |-> {p \in places : P[p[1]][p[2]] = a}] :
                   a \in {P[p[1]][p[2]] : p \in places} \ {0}}
    BY <2>1 DEF View
  <2>3. (DOMAIN P) \X (0..ArenaSize) = Places
    BY <1>2, <2>1 DEF Places
  <2> QED BY <2>1, <2>2, <2>3 DEF Seen
<1> QED BY <1>1, <1>2, <1>3

\* What the program can reach are objects.
LEMMA ReachObjects ==
  ASSUME IInv
  PROVE  \A a \in Reach : a \in 1..bump /\ a \in Units /\ heap[a].kind # "hole"
<1> DEFINE C == {a \in 1..bump : heap[a].kind # "hole"}
<1>1. bump \in Nat /\ bump <= ArenaSize /\ ArenaSize \in Nat
  BY Constants DEF IInv, TypesOK
<1>2. \A a \in C : heap[a].next \in C \union {0}
  BY DEF IInv, RefsOK, IsObject
<1>3. \A v \in Variables : Variable(v) \in C \union {0}
  BY DEF IInv, RefsOK, IsObject, Variable, Variables
<1>4. ASSUME NEW v \in Variables PROVE DOMAIN Path(v) = 0..ArenaSize /\ \A n \in 0..ArenaSize : Path(v)[n] \in C \union {0}
  <2>1. PICK g, h, x, D, b : g = Path(v) /\ h = heap /\ x = Variable(v) /\ D = C /\ b = bump
    OBVIOUS
  <2>2. g = PathFrom(h, x)
    BY <2>1, ViewIs
  <2>3. b \in Nat /\ (\A a \in 1..b : h[a].next \in 0..b) /\ x \in 0..b
    <3>1. \A a \in 1..bump : heap[a].next \in 0..bump
      BY <1>1 DEF IInv, RefsOK, IsObject
    <3>2. Variable(v) \in 0..bump
      BY <1>1, <1>3
    <3> QED BY <1>1, <2>1, <3>1, <3>2
  <2>4. IsPath(g, h, x)
    BY ONLY <2>2, <2>3, PathExists
  <2>5. x \in D \union {0} /\ \A a \in D : h[a].next \in D \union {0}
    BY <1>2, <1>3, <2>1
  <2>6. \A n \in 0..ArenaSize : g[n] \in D \union {0}
    BY ONLY <2>4, <2>5, PathStays
  <2>7. DOMAIN g = 0..ArenaSize
    BY ONLY <2>4, PathSteps
  <2> QED BY <2>1, <2>6, <2>7
<1>5. Reach \subseteq C
  <2> SUFFICES ASSUME NEW a \in Reach PROVE a \in C
    OBVIOUS
  <2>1. PICK v \in Variables : a \in Range(Path(v)) /\ a # 0
    <3>1. a \in UNION {Range(Path(v)) : v \in Variables} /\ a # 0
      BY DEF Reach, Variables
    <3>2. PICK X \in {Range(Path(v)) : v \in Variables} : a \in X
      BY ONLY <3>1
    <3>3. PICK v \in Variables : X = Range(Path(v))
      BY ONLY <3>2
    <3> QED BY <3>1, <3>2, <3>3
  <2>2. PICK n \in DOMAIN Path(v) : a = Path(v)[n]
    BY <2>1 DEF Range
  <2> HIDE DEF C
  <2> QED BY <1>4, <2>1, <2>2
<1>6. 1..bump \subseteq Units
  BY <1>1 DEF Units
<1> QED BY <1>5, <1>6

\* Every reference the program can follow leads to an object, a minor collection
\* that gave up included (cl_gc_minor).
THEOREM NothingDanglesAlways == Undisturbed => (Spec => []NothingDangles)
<1>1. IInv => NothingDangles
  <2> SUFFICES ASSUME IInv, NEW a \in Reach PROVE a <= bump /\ heap[a].kind # "hole"
    BY DEF NothingDangles
  <2>1. a \in 1..bump /\ heap[a].kind # "hole" /\ bump \in Nat
    BY ReachObjects, Constants DEF IInv, TypesOK
  <2> QED BY <2>1
<1> QED BY <1>1, HeapSound, PTL

\* A stream the program can reach has its own OS handle or its own buffer
\* (gc_finalize_dead, cl_stream_outbuf_gc_reclaim), and none that another thread
\* has opened for a stream it has yet to make.
THEOREM StreamsOwnAlways == Undisturbed => (Spec => []StreamsOwn)
<1>1. IInv => StreamsOwn
  <2> SUFFICES ASSUME IInv, NEW a \in Reach, heap[a].slot # 0
               PROVE  /\ heap[a].slot \in (IF heap[a].kind = "file" THEN open ELSE bufs)
                      /\ \A b \in Reach \ {a} : heap[b].kind = heap[a].kind => heap[b].slot # heap[a].slot
    BY DEF StreamsOwn
  <2>1. \A b \in Reach : b \in Units
    BY ReachObjects
  <2>2. OwnsSlot(a) /\ \A b \in Reach \ {a} : OwnSlot(a, b)
    BY <2>1 DEF IInv, SlotsOK
  <2> QED BY <2>2 DEF OwnsSlot, OwnSlot
<1> QED BY <1>1, HeapSound, PTL

\* The end of a collection leaves what the program sees.
LEMMA MovedView ==
  ASSUME IInv, NEW base, NEW S, NEW D, NEW L, NEW top, NEW dead, Moving(base, S, D, L, top, dead)
  PROVE  View' = View
<1>1. HeapShape /\ bump \in Nat /\ bump <= ArenaSize /\ ArenaSize \in Nat
  BY Shape, Constants DEF IInv, TypesOK
<1>2. Relocates(base, S, L, top)
  BY <1>1, MovingRelocates
<1>3. PICK F : F = [a \in L \union {0} |-> Forward(a, base, S)]
  OBVIOUS
<1>4. \A a \in L \union {0} : F[a] = Forward(a, base, S)
  BY ONLY <1>3
<1>5. L \subseteq 1..bump /\ top \in Nat
  <2>1. base \in 0..bump /\ top \in base..bump /\ L \subseteq 1..bump
    BY <1>2 DEF Moving, Relocates, Slides
  <2> QED BY <1>1, <2>1
<1>6. /\ F[0] = 0 /\ \A a \in L : a # 0 /\ F[a] # 0 /\ F[a] \in 1..top
      /\ \A a, c \in L \union {0} : F[a] = F[c] => a = c
  <2>1. /\ Forward(0, base, S) = 0 /\ \A a \in L : Forward(a, base, S) \in 1..top
        /\ \A a, c \in L \union {0} : Forward(a, base, S) = Forward(c, base, S) => a = c
    BY <1>2 DEF Relocates, Slides
  <2>2. F[0] = 0 /\ \A a \in L : F[a] \in 1..top
    BY <1>4, <2>1
  <2>3. \A a, c \in L \union {0} : F[a] = F[c] => a = c
    BY <1>4, <2>1
  <2>4. \A a \in L : a # 0
    BY <1>5
  <2>5. 0 \notin 1..top
    OBVIOUS
  <2> QED BY <2>2, <2>3, <2>4, <2>5
<1>7. PICK h, k, b : h = heap /\ k = heap' /\ b = bump
  OBVIOUS
<1>8. \A a \in L : /\ h[a].next \in L \union {0} /\ k[F[a]].next = F[h[a].next]
                   /\ k[F[a]].kind = h[a].kind /\ k[F[a]].slot = h[a].slot
  BY <1>2, <1>4, <1>7 DEF Relocates
<1>9. \A v \in Variables : Variable(v) \in L \union {0} /\ Variable(v)' = F[Variable(v)]
  BY <1>2, <1>4 DEF Relocates, Variable, Variables
<1>10. ASSUME NEW v \in Variables, NEW n \in 0..ArenaSize
       PROVE  Paths[v][n] \in L \union {0} /\ Paths'[v][n] = F[Paths[v][n]]
  <2>1. PICK g, q, x, y : g = Paths[v] /\ q = Paths'[v] /\ x = Variable(v) /\ y = Variable(v)'
    OBVIOUS
  <2>2. g = PathFrom(h, x) /\ q = PathFrom(k, y)
    BY <1>7, <2>1, ViewIs, ViewNext
  <2>3. x \in L \union {0} /\ y = F[x]
    BY <1>9, <2>1
  <2>4. IsPath(g, h, x)
    <3>1. b \in Nat /\ (\A a \in 1..b : h[a].next \in 0..b) /\ x \in 0..b
      BY <1>1, <1>5, <1>7, <2>3 DEF HeapShape
    <3> QED BY ONLY <2>2, <3>1, PathExists
  <2>5. IsPath(q, k, y)
    <3>1. \A a \in 1..top : k[a].next \in 0..top
      <4> TAKE a \in 1..top
      <4>1. PICK c \in L : Forward(c, base, S) = a
        BY <1>2 DEF Relocates, Slides
      <4>2. F[c] = a
        BY <1>4, <4>1
      <4>3. h[c].next \in L \union {0} /\ k[a].next = F[h[c].next]
        BY <1>8, <4>2
      <4>4. \A z \in L \union {0} : F[z] \in 0..top
        BY <1>5, <1>6
      <4> QED BY <4>3, <4>4
    <3>2. y \in 0..top
      BY <1>5, <1>6, <2>3
    <3> QED BY ONLY <1>5, <2>2, <3>1, <3>2, PathExists
  <2>6. g[n] \in L \union {0}
    BY ONLY <1>8, <2>3, <2>4, PathStays, n \in 0..ArenaSize
  <2>7. q[n] = F[g[n]]
    BY ONLY <1>6, <1>8, <2>3, <2>4, <2>5, PathMoves, n \in 0..ArenaSize
  <2> QED BY <2>1, <2>6, <2>7
<1>11. PICK P, Q : P = Paths /\ Q = Paths'
  OBVIOUS
<1>12. \A p \in Places : P[p[1]][p[2]] \in L \union {0} /\ Q[p[1]][p[2]] = F[P[p[1]][p[2]]]
  <2> TAKE p \in Places
  <2>1. p[1] \in Variables /\ p[2] \in 0..ArenaSize
    BY DEF Places
  <2> QED BY <1>10, <1>11, <2>1
<1>13. Seen(k, Q) = Seen(h, P)
  <2>1. F[0] = 0 /\ \A a, c \in L \union {0} : F[a] = F[c] => a = c
    BY <1>6
  <2>2. \A a \in L : k[F[a]].kind = h[a].kind /\ k[F[a]].slot = h[a].slot
    BY <1>8
  <2>3. Carries(F, L, h, P, k, Q)
    BY ONLY <1>12, <2>1, <2>2 DEF Carries
  <2>4. SameSeen(h, P, k, Q)
    BY ONLY <2>3, SeenMoves, Zenon
  <2> QED BY ONLY <2>4 DEF SameSeen
<1> QED BY <1>7, <1>11, <1>13, ViewIs, ViewNext

\* The collector is invisible: the end of a collection, minor or full, complete
\* or given up, changes nothing that the program can see (gcb_minor_collect,
\* gc_compact).
THEOREM CollectorInvisibleAlways == Undisturbed => (Spec => CollectorInvisible)
<1> SUFFICES ASSUME Undisturbed PROVE Spec => CollectorInvisible
  OBVIOUS
<1> DEFINE A == Stopped /\ ~Stopped' => View' = View
<1>1. ASSUME IInv, Next, Stopped, ~Stopped' PROVE View' = View
  <2>1. \A t, l : ~At(t, l)
    BY <1>1 DEF At
  <2>2. CollectStep
    <3>1. ~\E t \in Threads : \E kind \in Kinds[t] : Alloc(t, kind)
      BY <2>1 DEF Alloc
    <3>2. ~\E t \in Writers : Program(t)
      BY <2>1 DEF Program, Read, Share, Write, Close, Collect
    <3>3. ~\E t \in Threads : Runtime(t)
      BY <2>1 DEF Runtime, Retry, Escalate, Exhausted, TakeBuffer, NoBuffer, StartMinor, StartCompact
    <3> QED BY <1>1, <3>1, <3>2, <3>3 DEF Next
  <2>3. ASSUME NEW m, NEW p, Traced(m, p) PROVE FALSE
    <3>1. gc = [by |-> gc.by, kind |-> gc.kind, phase |-> gc.phase, overflow |-> gc.overflow,
                live |-> gc.live, inuse |-> gc.inuse]
      BY <1>1, TraceFacts DEF CollectionOK
    <3>2. gc' = [gc EXCEPT !.phase = p, !.overflow = m.overflow, !.live = m.live, !.inuse = m.inuse]
      BY <2>3 DEF Traced
    <3>3. gc'.by = gc.by
      BY ONLY <3>1, <3>2
    <3> QED BY <1>1, <3>3 DEF Stopped
  <2>4. CASE Rescan \/ WalkDirty
    BY <2>3, <2>4 DEF Rescan, WalkDirty
  <2>5. CASE RefuseMinor
    <3>1. UNCHANGED <<heap, reg, glob>>
      BY <2>5 DEF RefuseMinor
    <3> QED BY <3>1 DEF View, Paths, Path, Variable
  <2>6. CASE FinishMinor \/ FinishCompact
    <3>1. PICK base, S, D, L, top, dead : Moving(base, S, D, L, top, dead)
      BY <1>1, <2>6, MinorMoves, CompactMoves
    <3> QED BY <1>1, <3>1, MovedView
  <2> QED BY <2>2, <2>4, <2>5, <2>6 DEF CollectStep
<1>2. IInv /\ [Next]_vars => [A]_vars
  BY <1>1
<1>3. Spec => []IInv
  BY HeapSound
<1>4. CollectorInvisible <=> [][A]_vars
  BY DEF CollectorInvisible
<1> HIDE DEF A
<1> QED BY <1>2, <1>3, <1>4, PTL DEF Spec
=============================================================================
