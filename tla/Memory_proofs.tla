---------------------------- MODULE Memory_proofs -----------------------------
(***************************************************************************)
(* The kernel heap for every size of it, of its blocks and of the requests:*)
(* the blocks stay in the order of addresses, apart and all on the list,   *)
(* guard words stay where they belong, and the search misses no block.     *)
(*                                                                         *)
(* The memory of programs for every number of tasks, pages, objects and    *)
(* frames: no frame has two uses or is free and used, what is mapped as    *)
(* shared is the object and the object is there, and the heap is mapped    *)
(* exactly up to the break.                                                *)
(***************************************************************************)
EXTENDS KernelHeap, AddressSpace, Integers, FiniteSetTheorems, WellFoundedInduction, TLAPS

LEMMA LeastOf ==
  ASSUME NEW S, S \subseteq Nat, S # {}
  PROVE  \E n \in S : \A m \in S : n <= m
<1>1. PICK x \in S : \A y \in S : ~(<<y, x>> \in OpToRel(<, Nat))
  BY NatLessThanWellFounded, WFMin
<1>2. \A y \in S : x <= y
  <2> TAKE y \in S
  <2>1. ~(<<y, x>> \in OpToRel(<, Nat)) /\ <<y, x>> \in Nat \X Nat
    BY <1>1
  <2>2. ~(y < x)
    BY <2>1, ZenonT(20) DEF OpToRel
  <2> QED
    BY <2>2
<1> QED
  BY <1>2

LEMMA GreatestOf ==
  ASSUME NEW N \in Nat, NEW S, S \subseteq 0 .. N, S # {}
  PROVE  \E n \in S : \A m \in S : m <= n
<1> DEFINE T == {N - n : n \in S}
<1> HIDE DEF T
<1>0. \A n \in S : n \in 0 .. N /\ N - n \in Nat
  OBVIOUS
<1>1. T \subseteq Nat /\ T # {}
  BY <1>0 DEF T
<1>2. PICK k \in T : \A j \in T : k <= j
  BY <1>1, LeastOf
<1>3. PICK n \in S : k = N - n
  BY DEF T
<1>4. ASSUME NEW m \in S PROVE m <= n
  <2>1. N - m \in T
    BY DEF T
  <2>2. N - n <= N - m
    BY <1>2, <1>3, <2>1
  <2> QED
    BY <1>0, <2>2
<1> QED
  BY <1>4

LEMMA LeastIn ==
  ASSUME NEW S, S \subseteq Nat, S # {}
  PROVE  Least(S) \in S /\ \A y \in S : Least(S) <= y
<1>1. PICK x \in S : \A y \in S : x <= y
  BY LeastOf
<1> QED
  BY <1>1 DEF Least
-----------------------------------------------------------------------------
(* The kernel heap.                                                        *)

(* A function can be iterated. *)
Iteration(f, S, x, g, N) ==
  f \in [0 .. N -> S] /\ f[0] = x /\ \A n \in 1 .. N : f[n] = g[f[n - 1]]

LEMMA Iterates ==
  ASSUME NEW S, NEW x \in S, NEW g \in [S -> S], NEW N \in Nat
  PROVE  \E f : Iteration(f, S, x, g, N)
<1> USE DEF Iteration
<1> DEFINE Is(f, k) == Iteration(f, S, x, g, k)
           Bad == {k \in Nat : \A f : ~ Is(f, k)}
<1>1. SUFFICES ASSUME Bad # {} PROVE FALSE
  OBVIOUS
<1>2. PICK k \in Bad : \A j \in Bad : k <= j
  BY <1>1, LeastOf
<1>3. CASE k = 0
  <2>1. Is([n \in 0 .. 0 |-> x], 0)
    OBVIOUS
  <2> QED
    BY <1>2, <1>3, <2>1
<1>4. CASE k > 0
  <2>1. k - 1 \in Nat /\ k - 1 \notin Bad
    BY <1>2, <1>4
  <2>2. PICK f : Is(f, k - 1)
    BY <2>1
  <2> DEFINE h == [n \in 0 .. k |-> IF n = k THEN g[f[k - 1]] ELSE f[n]]
  <2>3. h \in [0 .. k -> S]
    BY <2>1, <2>2
  <2>4. h[0] = x
    BY <1>4, <2>1, <2>2
  <2>5. ASSUME NEW n \in 1 .. k PROVE h[n] = g[h[n - 1]]
    <3>1. CASE n = k
      BY <1>4, <2>1, <3>1
    <3>2. CASE n < k
      <4>1. n \in 1 .. k - 1 /\ n - 1 \in 0 .. k - 1 /\ n \in 0 .. k - 1 /\ n # k /\ n - 1 # k
        BY <2>1, <3>2
      <4>2. h[n] = f[n] /\ h[n - 1] = f[n - 1]
        BY <4>1, <2>1
      <4> QED
        BY <2>2, <4>1, <4>2
    <3> QED
      BY <3>1, <3>2, <2>1
  <2>6. Is(h, k)
    BY <2>3, <2>4, <2>5
  <2> QED
    BY <1>2, <2>6
<1> QED
  BY <1>2, <1>3, <1>4
-----------------------------------------------------------------------------
(* What is kept.                                                           *)
HeapHeader == [size : Nat, free : BOOLEAN, guard : BOOLEAN, next : Nat \cup {NIL}]

Adjoins(e, t) == e = t \/ (e < t /\ t = align(e, PageSize))

(* Block b leads to the block after it, or is the last one of h.           *)
LinkOf(h, b, end) ==
  /\ h[b].next = NIL => BlockEnd(h, b) = end /\ \A c \in DOMAIN h : c <= b
  /\ h[b].next # NIL =>
       /\ h[b].next \in DOMAIN h /\ b < h[b].next /\ Adjoins(BlockEnd(h, b), h[b].next)
       /\ \A c \in DOMAIN h : c <= b \/ h[b].next <= c

Shape(h, end) ==
  /\ DOMAIN h \subseteq Nat /\ IsFiniteSet(DOMAIN h) /\ h \in [DOMAIN h -> HeapHeader]
  /\ \A b \in DOMAIN h : LinkOf(h, b, end)

(* Only a block that was never free may have a guard word of another kind. *)
FreeGuarded(h) == \A b \in DOMAIN h : h[b].free => ~ booting /\ h[b].guard = debug_mode

Headed ==
  /\ heap_list = NIL => DOMAIN heap = {} /\ current_heap = HeapStart
  /\ heap_list # NIL =>
       /\ heap_list = HeapStart /\ current_heap <= HeapEnd /\ heap_list \in DOMAIN heap
       /\ \A b \in DOMAIN heap : heap_list <= b

(* The inductive invariant. *)
HeapInvariant ==
  /\ debug_mode \in BOOLEAN /\ booting \in BOOLEAN /\ current_heap \in Nat
  /\ Shape(heap, current_heap) /\ Headed /\ RoverListed
  /\ FreeGuarded(heap) /\ GuardsIntact
-----------------------------------------------------------------------------
LEMMA AlignUp ==
  ASSUME NEW n \in Nat, NEW u \in Nat \ {0}
  PROVE  align(n, u) \in Nat /\ n <= align(n, u)
<1>1. PICK x \in Nat : x = n + u - 1
  OBVIOUS
<1>2. x = u * (x \div u) + (x % u) /\ x \div u \in Nat /\ x % u \in 0 .. u - 1
  OBVIOUS
<1>3. PICK q \in Nat : q = x \div u /\ x = u * q + (x % u)
  BY <1>2
<1>4. align(n, u) = q * u
  BY <1>1, <1>3 DEF align
<1>5. q * u = u * q /\ q * u \in Nat
  OBVIOUS
<1> QED
  BY <1>1, <1>2, <1>3, <1>4, <1>5

LEMMA Fields ==
  ASSUME NEW h, NEW end, Shape(h, end), NEW b \in DOMAIN h
  PROVE  /\ b \in Nat /\ h[b] \in HeapHeader /\ h[b].size \in Nat /\ h[b].free \in BOOLEAN
         /\ h[b].guard \in BOOLEAN /\ h[b].next \in Nat \cup {NIL}
         /\ h[b].next # NIL => h[b].next \in DOMAIN h
         /\ BlockEnd(h, b) \in Nat /\ b < BlockEnd(h, b) /\ b + Header + h[b].size <= BlockEnd(h, b)
         /\ LinkOf(h, b, end)
<1>1. b \in Nat /\ h[b] \in HeapHeader /\ LinkOf(h, b, end)
  BY DEF Shape
<1>2. /\ h[b].size \in Nat /\ h[b].free \in BOOLEAN
      /\ h[b].guard \in BOOLEAN /\ h[b].next \in Nat \cup {NIL}
  BY <1>1 DEF HeapHeader
<1>3. Header \in Nat \ {0} /\ Room(h[b].guard) \in {0, 1}
  BY HeapAssumption DEF Room
<1>4. BlockEnd(h, b) = b + Header + h[b].size + Room(h[b].guard)
  BY DEF BlockEnd
<1>5. h[b].next # NIL => h[b].next \in DOMAIN h
  BY <1>1 DEF LinkOf
<1> QED
  BY <1>1, <1>2, <1>3, <1>4, <1>5

(* No two blocks overlap. *)
LEMMA BlocksApart ==
  ASSUME NEW h, NEW end, Shape(h, end), NEW a \in DOMAIN h, NEW b \in DOMAIN h, a < b
  PROVE  BlockEnd(h, a) <= b
<1>1. a \in Nat /\ b \in Nat /\ LinkOf(h, a, end) /\ BlockEnd(h, a) \in Nat
      /\ (h[a].next # NIL => h[a].next \in DOMAIN h)
  BY Fields
<1>2. h[a].next # NIL
  BY <1>1 DEF LinkOf
<1>3. PICK n \in DOMAIN h : n = h[a].next
  BY <1>1, <1>2
<1>4. n \in Nat /\ n <= b /\ Adjoins(BlockEnd(h, a), n)
  BY <1>1, <1>2, <1>3, Fields DEF LinkOf
<1> QED
  BY <1>1, <1>4 DEF Adjoins

(* A guard word that is not of block b lies outside what its owner writes. *)
LEMMA GuardOutside ==
  ASSUME NEW h, NEW end, Shape(h, end), NEW b \in DOMAIN h, NEW c \in DOMAIN h, h[c].guard
  PROVE  GuardAt(h, c) \notin Used(h, b)
<1>1. /\ b \in Nat /\ c \in Nat /\ h[b].size \in Nat /\ h[c].size \in Nat
      /\ Header \in Nat \ {0} /\ GuardSize = 1
  BY Fields, HeapAssumption
<1>2. BlockEnd(h, c) = GuardAt(h, c) + 1 /\ GuardAt(h, c) \in Nat
  BY <1>1 DEF BlockEnd, GuardAt, Room
<1>3. CASE b = c
  BY <1>1, <1>3 DEF GuardAt, Used
<1>4. CASE c < b
  <2>1. GuardAt(h, c) + 1 <= b
    BY <1>2, <1>4, BlocksApart
  <2> QED
    BY <1>1, <1>2, <2>1 DEF Used
<1>5. CASE b < c
  <2>1. BlockEnd(h, b) <= c /\ BlockEnd(h, b) \in Nat /\ b + Header + h[b].size <= BlockEnd(h, b)
    BY <1>5, BlocksApart, Fields
  <2>2. b + Header + h[b].size <= GuardAt(h, c)
    BY <1>1, <2>1 DEF GuardAt
  <2> QED
    BY <1>1, <1>2, <2>2 DEF Used
<1> QED
  BY <1>1, <1>3, <1>4, <1>5
-----------------------------------------------------------------------------
(* The walk along the list.                                                *)
WalkIs(at, x) ==
  /\ at \in [0 .. Cardinality(DOMAIN heap) -> DOMAIN heap \cup {NIL}] /\ at[0] = x
  /\ \A n \in 1 .. Cardinality(DOMAIN heap) :
       at[n] = IF at[n - 1] = NIL THEN NIL ELSE heap[at[n - 1]].next

LEMMA Walks ==
  ASSUME Shape(heap, current_heap), NEW x \in DOMAIN heap
  PROVE  WalkIs(Walk(x), x)
<1> DEFINE S == DOMAIN heap \cup {NIL}
           g == [p \in S |-> IF p = NIL THEN NIL ELSE heap[p].next]
           N == Cardinality(DOMAIN heap)
           Step(f) == [n \in 0 .. N |-> IF n = 0 THEN x ELSE IF f[n - 1] = NIL THEN NIL
                                        ELSE heap[f[n - 1]].next]
<1>1. N \in Nat
  BY FS_CardinalityType DEF Shape
<1>2. \A b \in DOMAIN heap : heap[b].next \in S
  BY Fields
<1>3. g \in [S -> S] /\ x \in S
  BY <1>2
<1> HIDE DEF N, S, g
<1>4. PICK f \in [0 .. N -> S] : f[0] = x /\ \A n \in 1 .. N : f[n] = g[f[n - 1]]
  <2>1. \E f : Iteration(f, S, x, g, N)
    BY <1>1, <1>3, Iterates
  <2> QED
    BY <2>1 DEF Iteration
<1>5. \A n \in 1 .. N : n - 1 \in 0 .. N
  BY <1>1
<1>6. \A n \in 1 .. N : f[n] = IF f[n - 1] = NIL THEN NIL ELSE heap[f[n - 1]].next
  BY <1>4, <1>5 DEF g
<1>7. f = Step(f)
  <2>1. \A n \in 0 .. N : f[n] = Step(f)[n]
    <3> TAKE n \in 0 .. N
    <3>1. CASE n = 0
      BY <1>4, <3>1
    <3>2. CASE n # 0
      <4>1. n \in 1 .. N
        BY <1>1, <3>2
      <4> QED
        BY <1>6, <3>2, <4>1
    <3> QED
      BY <3>1, <3>2
  <2> QED
    BY <1>4, <2>1
<1>8. Walk(x) = CHOOSE at : at = Step(at)
  BY DEF Walk, N
<1>9. Walk(x) = Step(Walk(x))
  BY <1>7, <1>8
<1>10. PICK at : at = Walk(x) /\ at = Step(at)
  BY <1>9
<1>11. at \in [0 .. N -> S]
  <2> DEFINE Bad == {n \in 0 .. N : at[n] \notin S}
  <2>1. SUFFICES ASSUME Bad # {} PROVE FALSE
    <3>1. \A n \in 0 .. N : at[n] \in S
      BY <2>1
    <3>2. DOMAIN at = 0 .. N /\ at = [n \in 0 .. N |-> at[n]]
      BY <1>10
    <3> QED
      BY <3>1, <3>2
  <2>2. PICK n \in Bad : \A m \in Bad : n <= m
    <3>1. Bad \subseteq Nat
      BY <1>1
    <3> QED
      BY <2>1, <3>1, LeastOf
  <2>3. CASE n = 0
    <3>1. at[0] = x
      BY <1>1, <1>10
    <3> QED
      BY <1>3, <2>2, <2>3, <3>1
  <2>4. CASE n # 0
    <3>1. n \in 0 .. N /\ n - 1 \in 0 .. N /\ n - 1 < n
      BY <1>1, <2>2, <2>4
    <3>2. at[n - 1] \in S
      BY <2>2, <3>1
    <3>3. at[n] = IF at[n - 1] = NIL THEN NIL ELSE heap[at[n - 1]].next
      BY <1>10, <2>4, <3>1
    <3>4. at[n] \in S
      BY <1>2, <3>2, <3>3 DEF S
    <3> QED
      BY <2>2, <3>4
  <2> QED
    BY <2>3, <2>4
<1>12. at[0] = x
  BY <1>1, <1>10
<1>13. \A n \in 1 .. N : at[n] = IF at[n - 1] = NIL THEN NIL ELSE heap[at[n - 1]].next
  <2> TAKE n \in 1 .. N
  <2>1. n \in 0 .. N /\ n # 0
    BY <1>1
  <2> QED
    BY <1>10, <2>1
<1> QED
  BY <1>10, <1>11, <1>12, <1>13 DEF WalkIs, N, S

(* The addresses grow along the list. *)
LEMMA WalkGrows ==
  ASSUME Shape(heap, current_heap), NEW x \in DOMAIN heap, NEW at, WalkIs(at, x),
         NEW m \in 0 .. Cardinality(DOMAIN heap), at[m] # NIL
  PROVE  \A n \in 0 .. m : at[n] # NIL /\ (n < m => at[n] < at[m])
<1> DEFINE N == Cardinality(DOMAIN heap)
           Ok(k) == at[k] # NIL => \A n \in 0 .. k : at[n] # NIL /\ (n < k => at[n] < at[k])
           Bad == {k \in 0 .. N : ~ Ok(k)}
<1>1. N \in Nat /\ m \in 0 .. N
  BY FS_CardinalityType DEF Shape
<1>2. SUFFICES ASSUME Bad # {} PROVE FALSE
  <2>1. Ok(m)
    BY <1>1, <1>2
  <2> QED
    BY <2>1
<1>3. PICK k \in Bad : \A j \in Bad : k <= j
  <2>1. Bad \subseteq Nat
    BY <1>1
  <2> QED
    BY <1>2, <2>1, LeastOf
<1>4. k \in 0 .. N /\ ~ Ok(k)
  BY <1>3
<1>5. CASE k = 0
  <2>1. Ok(0)
    OBVIOUS
  <2> QED
    BY <1>4, <1>5, <2>1
<1>6. CASE k # 0
  <2>1. k - 1 \in 0 .. N /\ k - 1 < k /\ k \in 1 .. N
    BY <1>1, <1>4, <1>6
  <2>2. Ok(k - 1)
    BY <1>3, <2>1
  <2> HIDE DEF Bad, Ok
  <2>3. at[k] # NIL
    BY <1>4 DEF Ok
  <2>4. at[k] = IF at[k - 1] = NIL THEN NIL ELSE heap[at[k - 1]].next
    BY <2>1 DEF WalkIs, N
  <2>5. PICK p \in DOMAIN heap : p = at[k - 1]
    BY <2>1, <2>3, <2>4 DEF WalkIs, N
  <2>6. at[k] = heap[p].next
    BY <2>3, <2>4, <2>5
  <2>7. p < at[k] /\ at[k] \in Nat /\ p \in Nat /\ p # NIL
    BY <2>3, <2>5, <2>6, Fields, HeapAssumption DEF LinkOf
  <2>8. \A n \in 0 .. k - 1 : at[n] # NIL /\ (n < k - 1 => at[n] < p)
    BY <2>2, <2>5, <2>7 DEF Ok
  <2>9. ASSUME NEW n \in 0 .. k PROVE at[n] # NIL /\ (n < k => at[n] < at[k])
    <3>1. CASE n = k
      BY <2>3, <3>1
    <3>2. CASE n = k - 1
      BY <2>5, <2>7, <3>2
    <3>3. CASE n # k /\ n # k - 1
      <4>1. n \in 0 .. k - 1 /\ n < k - 1 /\ n \in 0 .. N
        BY <1>1, <1>4, <2>1, <3>3
      <4>2. PICK q \in DOMAIN heap : q = at[n]
        BY <2>8, <4>1 DEF WalkIs, N
      <4>3. q \in Nat /\ q < p
        BY <2>8, <4>1, <4>2, Fields
      <4> QED
        BY <2>7, <2>8, <4>1, <4>2, <4>3
    <3> QED
      BY <3>1, <3>2, <3>3
  <2> QED
    BY <1>4, <2>9 DEF Ok
<1> QED
  BY <1>5, <1>6

(* It gets to the end of the list. *)
LEMMA WalkEnds ==
  ASSUME Shape(heap, current_heap), NEW x \in DOMAIN heap, NEW at, WalkIs(at, x)
  PROVE  at[Cardinality(DOMAIN heap)] = NIL
<1> DEFINE N == Cardinality(DOMAIN heap)
<1>1. N \in Nat /\ IsFiniteSet(DOMAIN heap)
  BY FS_CardinalityType DEF Shape
<1>2. SUFFICES ASSUME at[N] # NIL PROVE FALSE
  OBVIOUS
<1>3. \A n \in 0 .. N : at[n] # NIL
  BY <1>1, <1>2, WalkGrows
<1>4. at \in [0 .. N -> DOMAIN heap]
  BY <1>3 DEF WalkIs
<1>5. \A n, m \in 0 .. N : n < m => at[n] # at[m]
  <2> TAKE n, m \in 0 .. N
  <2>1. n < m => at[n] < at[m]
    BY <1>1, <1>3, WalkGrows
  <2>2. at[n] \in Nat /\ at[m] \in Nat
    BY <1>4, Fields
  <2> QED
    BY <2>1, <2>2
<1>6. IsFiniteSet(0 .. N) /\ Cardinality(0 .. N) = N + 1
  BY <1>1, FS_Interval
<1>7. PICK n, m \in 0 .. N : n # m /\ at[n] = at[m]
  <2> HIDE DEF N
  <2>1. Cardinality(DOMAIN heap) < Cardinality(0 .. N)
    BY <1>1, <1>6 DEF N
  <2> QED
    BY <1>1, <1>4, <1>6, <2>1, FS_PigeonHole
<1>8. n < m \/ m < n
  BY <1>1, <1>7
<1> QED
  BY <1>5, <1>7, <1>8

(* It comes to every block that is not before its start.                   *)
LEMMA WalkVisits ==
  ASSUME Shape(heap, current_heap), NEW x \in DOMAIN heap, NEW at, WalkIs(at, x),
         NEW a \in DOMAIN heap, x <= a
  PROVE  \E n \in 0 .. Cardinality(DOMAIN heap) : at[n] = a
<1> DEFINE N == Cardinality(DOMAIN heap)
           S == {n \in 0 .. N : at[n] # NIL /\ at[n] <= a}
<1>1. N \in Nat /\ at[N] = NIL /\ at[0] = x /\ x # NIL /\ a \in Nat
  BY FS_CardinalityType, WalkEnds, Fields, HeapAssumption DEF Shape, WalkIs
<1>2. 0 \in S
  BY <1>1
<1>3. PICK n \in S : \A m \in S : m <= n
  BY <1>1, <1>2, GreatestOf
<1>4. n \in 0 .. N /\ at[n] # NIL /\ at[n] <= a /\ n # N
  BY <1>1, <1>3
<1>5. n + 1 \in 1 .. N /\ n + 1 \in 0 .. N /\ (n + 1) - 1 = n
  BY <1>1, <1>4
<1> HIDE DEF N
<1>6. at[n + 1] = heap[at[n]].next
  BY <1>4, <1>5 DEF WalkIs, N
<1>7. PICK p \in DOMAIN heap : p = at[n]
  BY <1>4 DEF WalkIs, N
<1>8. p \in Nat /\ LinkOf(heap, p, current_heap)
  BY Fields
<1>9. CASE heap[p].next = NIL
  <2>1. a <= p
    BY <1>8, <1>9 DEF LinkOf
  <2> QED
    BY <1>1, <1>4, <1>7, <1>8, <2>1 DEF N
<1>10. CASE heap[p].next # NIL
  <2>1. PICK q \in DOMAIN heap : q = heap[p].next
    BY <1>8, <1>10 DEF LinkOf
  <2>2. a <= p \/ q <= a
    BY <1>8, <1>10, <2>1 DEF LinkOf
  <2>3. n + 1 \notin S
    BY <1>3, <1>4, <1>1
  <2>4. ~ (q <= a)
    BY <1>5, <1>6, <1>7, <1>10, <2>1, <2>3
  <2> QED
    BY <1>1, <1>4, <1>7, <1>8, <2>2, <2>4 DEF N
<1> QED
  BY <1>9, <1>10

LEMMA FirstOf ==
  ASSUME NEW S, S \subseteq Nat, S # {} PROVE First(S) \in S
BY LeastOf DEF First

(* The search finds a block that will do, and none escapes it.             *)
LEMMA FoundFits ==
  ASSUME Shape(heap, current_heap), heap_list \in DOMAIN heap, rover \in DOMAIN heap,
         NEW size, Found(size) # NIL
  PROVE  /\ Found(size) \in DOMAIN heap /\ heap[Found(size)].free
         /\ size <= heap[Found(size)].size
<1>1. Cardinality(DOMAIN heap) \in Nat
  BY FS_CardinalityType DEF Shape
<1>2. ASSUME NEW x \in DOMAIN heap, NEW at, WalkIs(at, x), NEW n \in DOMAIN at,
             Fits(at[n], size)
      PROVE  at[n] \in DOMAIN heap /\ heap[at[n]].free /\ size <= heap[at[n]].size
  <2>1. at[n] \in DOMAIN heap
    BY <1>2 DEF WalkIs, Fits
  <2> QED
    BY <1>2, <2>1 DEF Fits
<1>3. PICK u, v : u = Walk(rover) /\ v = Walk(heap_list) /\ WalkIs(u, rover)
                  /\ WalkIs(v, heap_list)
  BY Walks
<1>4. DOMAIN u \subseteq Nat /\ DOMAIN v \subseteq Nat
  BY <1>1, <1>3 DEF WalkIs
<1>5. CASE Phase1(size) # {}
  <2>1. Phase1(size) = {n \in DOMAIN u : Fits(u[n], size)}
    BY <1>3 DEF Phase1
  <2>2. First(Phase1(size)) \in Phase1(size)
    BY <1>4, <1>5, <2>1, FirstOf
  <2>3. PICK n \in DOMAIN u : Fits(u[n], size) /\ n = First(Phase1(size))
    BY <2>1, <2>2
  <2>4. Found(size) = u[n]
    BY <1>3, <1>5, <2>3 DEF Found
  <2> QED
    BY <1>2, <1>3, <2>3, <2>4
<1>6. CASE Phase1(size) = {} /\ Phase2(size) # {}
  <2>1. Phase2(size) \subseteq {n \in DOMAIN v : Fits(v[n], size)}
    BY <1>3 DEF Phase2
  <2>2. First(Phase2(size)) \in Phase2(size)
    BY <1>4, <1>6, <2>1, FirstOf
  <2>3. PICK n \in DOMAIN v : Fits(v[n], size) /\ n = First(Phase2(size))
    BY <2>1, <2>2
  <2>4. Found(size) = v[n]
    BY <1>3, <1>6, <2>3 DEF Found
  <2> QED
    BY <1>2, <1>3, <2>3, <2>4
<1>7. CASE Phase1(size) = {} /\ Phase2(size) = {}
  BY <1>7 DEF Found
<1> QED
  BY <1>5, <1>6, <1>7

LEMMA NoneEscapes ==
  ASSUME Shape(heap, current_heap), heap_list \in DOMAIN heap, rover \in DOMAIN heap,
         \A b \in DOMAIN heap : heap_list <= b,
         NEW size \in Nat, Found(size) = NIL, NEW b \in DOMAIN heap, heap[b].free
  PROVE  heap[b].size < size
<1> SUFFICES ASSUME size <= heap[b].size PROVE FALSE
  BY Fields
<1>1. Cardinality(DOMAIN heap) \in Nat /\ NIL \notin Nat /\ b \in Nat /\ rover \in Nat
      /\ b # NIL
  BY FS_CardinalityType, HeapAssumption, Fields DEF Shape
<1>2. PICK u, v : u = Walk(rover) /\ v = Walk(heap_list) /\ WalkIs(u, rover)
                  /\ WalkIs(v, heap_list)
  BY Walks
<1>3. Fits(b, size)
  BY <1>1 DEF Fits
<1>4. Phase1(size) = {n \in DOMAIN u : Fits(u[n], size)}
  BY <1>2 DEF Phase1
<1>5. Phase2(size) = {n \in DOMAIN v : Fits(v[n], size) /\ \A m \in 0 .. n : v[m] # rover}
  BY <1>2 DEF Phase2
<1>6. DOMAIN u \subseteq Nat /\ DOMAIN v \subseteq Nat
  BY <1>1, <1>2 DEF WalkIs
<1>7. CASE rover <= b
  <2>1. PICK n \in 0 .. Cardinality(DOMAIN heap) : u[n] = b
    BY <1>2, <1>7, WalkVisits
  <2>2. n \in Phase1(size)
    BY <1>2, <1>3, <1>4, <2>1 DEF WalkIs
  <2>3. PICK m \in DOMAIN u : Fits(u[m], size) /\ m = First(Phase1(size))
    <3>1. First(Phase1(size)) \in Phase1(size)
      BY <1>4, <1>6, <2>2, FirstOf
    <3> QED
      BY <1>4, <3>1
  <2>4. Found(size) = u[m]
    BY <1>2, <2>2, <2>3 DEF Found
  <2> QED
    BY <2>3, <2>4 DEF Fits
<1>8. CASE b < rover
  <2>1. PICK n \in 0 .. Cardinality(DOMAIN heap) : v[n] = b
    BY <1>2, WalkVisits
  <2>2. \A m \in 0 .. n : v[m] # rover
    <3> TAKE m \in 0 .. n
    <3>1. m < n => v[m] < b
      BY <1>1, <1>2, <2>1, WalkGrows
    <3>2. m < n \/ m = n
      BY <1>1, <2>1
    <3> QED
      BY <1>1, <1>8, <2>1, <3>1, <3>2
  <2>3. n \in Phase2(size)
    BY <1>2, <1>3, <1>5, <2>1, <2>2 DEF WalkIs
  <2>4. PICK m \in DOMAIN v : Fits(v[m], size) /\ m = First(Phase2(size))
    <3>1. First(Phase2(size)) \in Phase2(size)
      BY <1>5, <1>6, <2>3, FirstOf
    <3> QED
      BY <1>5, <3>1
  <2>5. CASE Phase1(size) = {}
    <3>1. Found(size) = v[m]
      BY <1>2, <2>3, <2>4, <2>5 DEF Found
    <3> QED
      BY <2>4, <3>1 DEF Fits
  <2>6. CASE Phase1(size) # {}
    <3>1. First(Phase1(size)) \in Phase1(size)
      BY <1>4, <1>6, <2>6, FirstOf
    <3>2. Found(size) = u[First(Phase1(size))]
      BY <1>2, <2>6 DEF Found
    <3> QED
      BY <1>4, <3>1, <3>2 DEF Fits
  <2> QED
    BY <2>5, <2>6
<1> QED
  BY <1>1, <1>7, <1>8

(* A search without success has come to the last block.                    *)
LEMMA TailIsLast ==
  ASSUME Shape(heap, current_heap), rover \in DOMAIN heap
  PROVE  Tail \in DOMAIN heap /\ heap[Tail].next = NIL
<1> DEFINE N == Cardinality(DOMAIN heap)
<1>1. N \in Nat /\ rover # NIL
  BY FS_CardinalityType, HeapAssumption, Fields DEF Shape
<1>2. PICK u : u = Walk(rover) /\ WalkIs(u, rover)
  BY Walks
<1> DEFINE S == {n \in 0 .. N : u[n] # NIL}
<1>3. u[N] = NIL /\ u[0] = rover
  BY <1>2, WalkEnds DEF WalkIs
<1>4. 0 \in S
  BY <1>1, <1>3
<1>5. PICK n \in S : \A m \in S : m <= n
  BY <1>1, <1>4, GreatestOf
<1>6. n \in 0 .. N /\ u[n] # NIL /\ n # N
  BY <1>3, <1>5
<1>7. n + 1 \in 1 .. N /\ n + 1 \in 0 .. N /\ (n + 1) - 1 = n /\ ~ (n + 1 <= n)
  BY <1>1, <1>6
<1>8. u[n + 1] = NIL
  BY <1>5, <1>7
<1>9. heap[u[n]].next = NIL
  BY <1>2, <1>6, <1>7, <1>8 DEF WalkIs
<1>10. n \in DOMAIN u
  BY <1>2, <1>6 DEF WalkIs
<1>11. PICK k \in DOMAIN u : u[k] # NIL /\ heap[u[k]].next = NIL /\ Tail = u[k]
  BY <1>2, <1>6, <1>9, <1>10 DEF Tail
<1> QED
  BY <1>2, <1>11 DEF WalkIs
-----------------------------------------------------------------------------
(* What the operations leave of the list.  First what does not change it.  *)
LEMMA SameShape ==
  ASSUME NEW h, NEW end, Shape(h, end), NEW g \in [DOMAIN h -> HeapHeader],
         \A c \in DOMAIN h : g[c].size = h[c].size /\ g[c].guard = h[c].guard
                             /\ g[c].next = h[c].next
  PROVE  Shape(g, end)
<1>1. DOMAIN g = DOMAIN h
  OBVIOUS
<1>2. ASSUME NEW c \in DOMAIN h PROVE LinkOf(g, c, end)
  <2>1. LinkOf(h, c, end)
    BY DEF Shape
  <2> QED
    BY <1>1, <2>1 DEF LinkOf, BlockEnd
<1> QED
  BY <1>1, <1>2 DEF Shape

FreeLeaves(h, end, b, v, g) ==
  /\ Shape(g, end) /\ DOMAIN g = DOMAIN h /\ g[b].free = v
  /\ \A c \in DOMAIN h : c # b => g[c] = h[c]
  /\ \A c \in DOMAIN h : /\ g[c].size = h[c].size /\ g[c].guard = h[c].guard
                         /\ g[c].next = h[c].next

LEMMA FreeShape ==
  ASSUME NEW h, NEW end, Shape(h, end), NEW b \in DOMAIN h, NEW v \in BOOLEAN
  PROVE  FreeLeaves(h, end, b, v, [h EXCEPT ![b].free = v])
<1> SUFFICES ASSUME NEW g, g = [h EXCEPT ![b].free = v] PROVE FreeLeaves(h, end, b, v, g)
  OBVIOUS
<1>1. h \in [DOMAIN h -> HeapHeader] /\ DOMAIN g = DOMAIN h
  BY DEF Shape
<1>2. h[b] \in HeapHeader
  BY <1>1
<1>3. /\ g[b].free = v /\ g[b].size = h[b].size /\ g[b].guard = h[b].guard
      /\ g[b].next = h[b].next /\ g[b] \in HeapHeader
  BY <1>1, <1>2 DEF HeapHeader
<1>4. \A c \in DOMAIN h : c # b => g[c] = h[c]
  BY <1>1
<1>5. g \in [DOMAIN h -> HeapHeader]
  BY <1>1, <1>3, <1>4
<1>6. \A c \in DOMAIN h : /\ g[c].size = h[c].size /\ g[c].guard = h[c].guard
                          /\ g[c].next = h[c].next
  BY <1>3, <1>4
<1>7. Shape(g, end)
  BY <1>5, <1>6, SameShape
<1> QED
  BY <1>1, <1>3, <1>4, <1>6, <1>7 DEF FreeLeaves

(* A block of a free block's tail comes between it and the next one.       *)
SplitLeaves(b, size, g) ==
  /\ Shape(g, current_heap) /\ DOMAIN heap \subseteq DOMAIN g
  /\ \A c \in DOMAIN heap : (c # b => g[c] = heap[c]) /\ g[c].guard = heap[c].guard
  /\ \A c \in DOMAIN g \ DOMAIN heap : b < c /\ g[c].free /\ g[c].guard = debug_mode

LEMMA SplitKeeps ==
  ASSUME Shape(heap, current_heap), debug_mode \in BOOLEAN, NEW b \in DOMAIN heap,
         heap[b].guard = debug_mode, NEW size \in Nat, size <= heap[b].size
  PROVE  SplitLeaves(b, size, Split(b, size))
<1>1. PICK left \in Nat : left = heap[b].size - size
  BY Fields
<1>2. /\ b \in Nat /\ heap[b] \in HeapHeader /\ heap[b].size \in Nat
      /\ LinkOf(heap, b, current_heap) /\ Header \in Nat \ {0} /\ BlockAlign \in Nat \ {0}
      /\ BlockEnd(heap, b) \in Nat /\ heap[b].next \in Nat \cup {NIL}
  BY Fields, HeapAssumption
<1>3. PICK room \in {0, 1} : room = Room(debug_mode)
  BY HeapAssumption DEF Room
<1>4. CASE left < Header + Room(debug_mode) + BlockAlign
  <2>1. Split(b, size) = heap
    BY <1>1, <1>4 DEF Split
  <2> QED
    BY <2>1 DEF SplitLeaves
<1>5. CASE ~ (left < Header + Room(debug_mode) + BlockAlign)
  <2>1. PICK s \in Nat : s = b + Header + size + room
    BY <1>2, <1>3
  <2>2. PICK k \in Nat : k = left - Header - room
    BY <1>2, <1>3, <1>5
  <2>3. b < s /\ s < BlockEnd(heap, b)
        /\ s + Header + k + room = BlockEnd(heap, b)
    <3>1. BlockEnd(heap, b) = b + Header + heap[b].size + room
      BY <1>3 DEF BlockEnd
    <3> QED
      BY <1>1, <1>2, <1>3, <2>1, <2>2, <3>1
  <2>4. \A c \in DOMAIN heap : b < c => s < c
    <3> TAKE c \in DOMAIN heap
    <3>1. b < c => BlockEnd(heap, b) <= c
      BY BlocksApart
    <3>2. c \in Nat
      BY Fields
    <3> QED
      BY <1>2, <2>3, <3>1, <3>2
  <2>5. s \notin DOMAIN heap /\ s # b
    BY <1>2, <2>1, <2>3, <2>4
  <2> DEFINE rest == [size |-> k, free |-> TRUE, guard |-> debug_mode, next |-> heap[b].next]
             mid == [heap EXCEPT ![b].size = size, ![b].next = s]
  <2>6. PICK g : g = Split(b, size)
    OBVIOUS
  <2>7. g = With(mid, s, rest)
    BY <1>1, <1>3, <1>5, <2>1, <2>2, <2>6 DEF Split
  <2>8. DOMAIN g = DOMAIN heap \cup {s} /\ g[s] = rest
        /\ \A c \in DOMAIN heap : c # b => g[c] = heap[c]
    BY <2>5, <2>7 DEF With
  <2>9. g[b] = [heap[b] EXCEPT !.size = size, !.next = s]
    BY <2>5, <2>7 DEF With
  <2>10. /\ g[b].size = size /\ g[b].guard = debug_mode /\ g[b].next = s /\ g[b] \in HeapHeader
    BY <1>2, <2>9 DEF HeapHeader
  <2>11. /\ g[s].size = k /\ g[s].guard = debug_mode /\ g[s].next = heap[b].next /\ g[s].free
         /\ g[s] \in HeapHeader
    BY <1>2, <2>8 DEF HeapHeader
  <2> HIDE DEF rest, mid
  <2>12. s # NIL
    BY HeapAssumption
  <2>13. g \in [DOMAIN g -> HeapHeader]
    <3>1. \A c \in DOMAIN g : g[c] \in HeapHeader
      BY <2>8, <2>10, <2>11 DEF Shape
    <3>2. g = [c \in DOMAIN g |-> g[c]]
      BY <2>7 DEF With
    <3> QED
      BY <3>1, <3>2
  <2>14. LinkOf(g, b, current_heap)
    <3>1. BlockEnd(g, b) = s
      BY <1>3, <2>1, <2>10 DEF BlockEnd
    <3>2. \A c \in DOMAIN g : c <= b \/ s <= c
      <4> TAKE c \in DOMAIN g
      <4>1. CASE c \in DOMAIN heap
        BY <1>2, <2>1, <2>4, <4>1, Fields
      <4>2. CASE c = s
        BY <2>1, <4>2
      <4> QED
        BY <2>8, <4>1, <4>2
    <3> QED
      BY <2>3, <2>8, <2>10, <2>12, <3>1, <3>2 DEF LinkOf, Adjoins
  <2>15. LinkOf(g, s, current_heap)
    <3>1. BlockEnd(g, s) = BlockEnd(heap, b)
      BY <1>3, <2>3, <2>11 DEF BlockEnd
    <3>2. CASE heap[b].next = NIL
      <4>1. BlockEnd(heap, b) = current_heap /\ \A c \in DOMAIN heap : c <= b
        BY <1>2, <3>2 DEF LinkOf
      <4>2. \A c \in DOMAIN g : c <= s
        BY <1>2, <2>1, <2>3, <2>8, <4>1, Fields
      <4> QED
        BY <2>11, <3>1, <3>2, <4>1, <4>2 DEF LinkOf
    <3>3. CASE heap[b].next # NIL
      <4>1. PICK n \in DOMAIN heap : n = heap[b].next
        BY <1>2, <3>3 DEF LinkOf
      <4>2. b < n /\ Adjoins(BlockEnd(heap, b), n) /\ \A c \in DOMAIN heap : c <= b \/ n <= c
        BY <1>2, <3>3, <4>1 DEF LinkOf
      <4>3. s < n
        BY <2>4, <4>1, <4>2
      <4>4. \A c \in DOMAIN g : c <= s \/ n <= c
        BY <1>2, <2>1, <2>3, <2>8, <4>2, Fields
      <4> QED
        BY <2>8, <2>11, <3>1, <3>3, <4>1, <4>2, <4>3, <4>4 DEF LinkOf
    <3> QED
      BY <3>2, <3>3
  <2>16. ASSUME NEW c \in DOMAIN heap, c # b PROVE LinkOf(g, c, current_heap)
    <3>1. /\ c \in Nat /\ LinkOf(heap, c, current_heap) /\ BlockEnd(g, c) = BlockEnd(heap, c)
          /\ g[c] = heap[c] /\ (b < c => s < c)
      BY <2>4, <2>8, <2>16, Fields DEF BlockEnd
    <3>2. CASE heap[c].next = NIL
      <4>1. BlockEnd(heap, c) = current_heap /\ \A d \in DOMAIN heap : d <= c
        BY <3>1, <3>2 DEF LinkOf
      <4>2. b < c
        BY <1>2, <2>16, <3>1, <4>1
      <4>3. \A d \in DOMAIN g : d <= c
        BY <2>1, <2>8, <3>1, <4>1, <4>2
      <4> QED
        BY <3>1, <3>2, <4>1, <4>3 DEF LinkOf
    <3>3. CASE heap[c].next # NIL
      <4>1. PICK n \in DOMAIN heap : n = heap[c].next
        BY <3>1, <3>3 DEF LinkOf
      <4>2. /\ c < n /\ Adjoins(BlockEnd(heap, c), n) /\ n \in Nat
            /\ \A d \in DOMAIN heap : d <= c \/ n <= d
        BY <3>1, <3>3, <4>1, Fields DEF LinkOf
      <4>3. s <= c \/ n <= s
        BY <1>2, <2>1, <2>3, <2>16, <3>1, <4>2
      <4>4. \A d \in DOMAIN g : d <= c \/ n <= d
        BY <2>8, <4>2, <4>3
      <4> QED
        BY <2>8, <3>1, <3>3, <4>1, <4>2, <4>4 DEF LinkOf
    <3> QED
      BY <3>2, <3>3
  <2>17. DOMAIN g \subseteq Nat /\ IsFiniteSet(DOMAIN g)
    BY <2>8, FS_AddElement DEF Shape
  <2>18. Shape(g, current_heap)
    BY <2>8, <2>13, <2>14, <2>15, <2>16, <2>17 DEF Shape
  <2> QED
    BY <2>3, <2>6, <2>8, <2>10, <2>11, <2>18 DEF SplitLeaves
<1> QED
  BY <1>1, <1>4, <1>5

(* The block behind b, adjacent to it, becomes a part of b.                *)
MergeLeaves(h, end, b, g) ==
  /\ Shape(g, end) /\ DOMAIN g = DOMAIN h \ {h[b].next} /\ b \in DOMAIN g
  /\ \A c \in DOMAIN g : (c # b => g[c] = h[c]) /\ g[c].free = h[c].free
                         /\ g[c].guard = h[c].guard
  /\ h[b].guard = h[h[b].next].guard => GuardAt(g, b) = GuardAt(h, h[b].next)

LEMMA MergeKeeps ==
  ASSUME NEW h, NEW end, Shape(h, end), NEW b \in DOMAIN h, Mergeable(h, b)
  PROVE  MergeLeaves(h, end, b, Merged(h, b)) /\ b < h[b].next /\ h[b].next \in DOMAIN h
         /\ h[h[b].next].free
<1>1. PICK n \in DOMAIN h : n = h[b].next /\ n = BlockEnd(h, b) /\ h[n].free
  BY Fields DEF Mergeable
<1>2. /\ b \in Nat /\ h[b] \in HeapHeader /\ h[b].size \in Nat
      /\ LinkOf(h, b, end) /\ Header \in Nat \ {0} /\ BlockEnd(h, b) \in Nat
      /\ n \in Nat /\ h[n].size \in Nat /\ LinkOf(h, n, end) /\ BlockEnd(h, n) \in Nat
      /\ h[n].next \in Nat \cup {NIL} /\ NIL \notin Nat /\ GuardSize = 1
      /\ b + Header + h[b].size + Room(h[b].guard) = n
  BY <1>1, Fields, HeapAssumption DEF BlockEnd
<1>3. b < n /\ \A c \in DOMAIN h : c <= b \/ n <= c
  BY <1>1, <1>2 DEF LinkOf
<1>4. PICK g : g = Merged(h, b)
  OBVIOUS
<1>5. DOMAIN g = DOMAIN h \ {n} /\ b \in DOMAIN g
      /\ \A c \in DOMAIN g : c # b => g[c] = h[c]
  <2>1. b # n
    BY <1>2, <1>3
  <2>2. DOMAIN g = DOMAIN h \ {n}
    BY <1>1, <1>4 DEF Merged
  <2>3. \A c \in DOMAIN g : c # b => g[c] = h[c]
    BY <1>1, <1>4, <2>2 DEF Merged
  <2> QED
    BY <2>1, <2>2, <2>3
<1>6. PICK r \in {0, 1} : r = Room(h[n].guard)
  BY <1>2 DEF Room
<1>7. PICK k \in Nat : k = h[b].size + Header + h[n].size + r
  BY <1>2, <1>6
<1>8. g[b] = [h[b] EXCEPT !.next = h[n].next, !.size = k]
  <2>1. g[b] = [h[b] EXCEPT !.next = h[n].next,
                            !.size = @ + Header + h[n].size + Room(h[n].guard)]
    BY <1>1, <1>4, <1>5 DEF Merged
  <2>2. g[b] = [h[b] EXCEPT !.next = h[n].next,
                            !.size = h[b].size + Header + h[n].size + Room(h[n].guard)]
    BY <1>2, <2>1 DEF HeapHeader
  <2> QED
    BY <1>6, <1>7, <2>2
<1>9. /\ g[b].size = k /\ g[b].next = h[n].next /\ g[b].guard = h[b].guard
      /\ g[b].free = h[b].free /\ g[b] \in HeapHeader
  BY <1>2, <1>8 DEF HeapHeader
<1>10. PICK q \in {0, 1} : q = Room(h[b].guard)
  BY <1>2 DEF Room
<1>11. BlockEnd(g, b) = BlockEnd(h, n)
  <2>1. BlockEnd(g, b) = b + Header + k + q
    BY <1>9, <1>10 DEF BlockEnd
  <2>2. BlockEnd(h, n) = n + Header + h[n].size + r
    BY <1>6 DEF BlockEnd
  <2> QED
    BY <1>2, <1>6, <1>7, <1>10, <2>1, <2>2
<1>12. h[b].guard = h[n].guard => GuardAt(g, b) = GuardAt(h, n)
  <2>1. h[b].guard = h[n].guard => q = r
    BY <1>6, <1>10
  <2>2. GuardAt(g, b) = b + Header + k /\ GuardAt(h, n) = n + Header + h[n].size
    BY <1>9 DEF GuardAt
  <2> QED
    BY <1>2, <1>6, <1>7, <1>10, <2>1, <2>2
<1>13. LinkOf(g, b, end)
  <2>1. CASE h[n].next = NIL
    <3>1. BlockEnd(h, n) = end /\ \A c \in DOMAIN h : c <= n
      BY <1>2, <2>1 DEF LinkOf
    <3>2. \A c \in DOMAIN g : c <= b
      <4> TAKE c \in DOMAIN g
      <4>1. c \in Nat /\ c # n /\ c <= n /\ (c <= b \/ n <= c)
        BY <1>3, <1>5, <3>1, Fields
      <4> QED
        BY <1>2, <4>1
    <3> QED
      BY <1>9, <1>11, <2>1, <3>1, <3>2 DEF LinkOf
  <2>2. CASE h[n].next # NIL
    <3>1. PICK m \in DOMAIN h : m = h[n].next
      BY <1>2, <2>2 DEF LinkOf
    <3>2. /\ n < m /\ Adjoins(BlockEnd(h, n), m) /\ m \in Nat
          /\ \A c \in DOMAIN h : c <= n \/ m <= c
      BY <1>2, <2>2, <3>1 DEF LinkOf
    <3>3. \A c \in DOMAIN g : c <= b \/ m <= c
      <4> TAKE c \in DOMAIN g
      <4>1. c \in Nat /\ c # n /\ (c <= n \/ m <= c) /\ (c <= b \/ n <= c)
        BY <1>3, <1>5, <3>2, Fields
      <4> QED
        BY <1>2, <4>1
    <3>4. m \in DOMAIN g /\ b < m
      BY <1>2, <1>3, <1>5, <3>1, <3>2
    <3> QED
      BY <1>9, <1>11, <2>2, <3>1, <3>2, <3>3, <3>4 DEF LinkOf
  <2> QED
    BY <2>1, <2>2
<1>14. ASSUME NEW c \in DOMAIN g, c # b PROVE LinkOf(g, c, end)
  <2>1. /\ c \in Nat /\ LinkOf(h, c, end) /\ BlockEnd(g, c) = BlockEnd(h, c)
        /\ g[c] = h[c] /\ c # n /\ c \in DOMAIN h /\ h[c].next \in Nat \cup {NIL}
    BY <1>5, <1>14, Fields DEF BlockEnd
  <2>2. CASE h[c].next = NIL
    BY <1>5, <2>1, <2>2 DEF LinkOf
  <2>3. CASE h[c].next # NIL
    <3>1. PICK m \in DOMAIN h : m = h[c].next
      BY <2>1, <2>3 DEF LinkOf
    <3>2. c < m /\ Adjoins(BlockEnd(h, c), m) /\ \A d \in DOMAIN h : d <= c \/ m <= d
      BY <2>1, <2>3, <3>1 DEF LinkOf
    <3>3. m # n
      <4>1. (b <= c \/ m <= b) /\ (c <= b \/ n <= c)
        BY <1>3, <2>1, <3>2
      <4> QED
        BY <1>2, <1>3, <1>14, <2>1, <3>2, <4>1
    <3> QED
      BY <1>5, <2>1, <2>3, <3>1, <3>2, <3>3 DEF LinkOf
  <2> QED
    BY <2>2, <2>3
<1>15. g \in [DOMAIN g -> HeapHeader]
  <2>1. \A c \in DOMAIN g : g[c] \in HeapHeader
    BY <1>5, <1>9 DEF Shape
  <2>2. g = [c \in DOMAIN g |-> g[c]]
    BY <1>4 DEF Merged
  <2> QED
    BY <2>1, <2>2
<1>16. DOMAIN g \subseteq Nat /\ IsFiniteSet(DOMAIN g)
  BY <1>5, FS_RemoveElement DEF Shape
<1>17. Shape(g, end)
  BY <1>13, <1>14, <1>15, <1>16 DEF Shape
<1> QED
  BY <1>1, <1>3, <1>4, <1>5, <1>9, <1>12, <1>17 DEF MergeLeaves

(* A block comes behind the last one, or is the first of all.              *)
GrowLeaves(h, b, new, g) ==
  /\ Shape(g, BlockEnd(g, b)) /\ DOMAIN g = DOMAIN h \cup {b} /\ b \notin DOMAIN h
  /\ \A c \in DOMAIN h : c < b /\ g[c].free = h[c].free /\ g[c].guard = h[c].guard
                         /\ g[c].size = h[c].size
  /\ g[b] = new

LEMMA GrowKeeps ==
  ASSUME Shape(heap, current_heap), NEW t \in DOMAIN heap, heap[t].next = NIL,
         NEW b \in Nat, Adjoins(current_heap, b), current_heap \in Nat,
         NEW new \in HeapHeader, new.next = NIL
  PROVE  GrowLeaves(heap, b, new, With([heap EXCEPT ![t].next = b], b, new))
<1>1. /\ t \in Nat /\ heap[t] \in HeapHeader /\ BlockEnd(heap, t) = current_heap
      /\ t < current_heap /\ (\A c \in DOMAIN heap : c <= t) /\ b # NIL
  BY Fields, HeapAssumption DEF LinkOf
<1>2. t < b /\ b \notin DOMAIN heap
  BY <1>1 DEF Adjoins
<1>3. PICK g : g = With([heap EXCEPT ![t].next = b], b, new)
  OBVIOUS
<1>4. /\ DOMAIN g = DOMAIN heap \cup {b} /\ g[b] = new
      /\ \A c \in DOMAIN heap : c # t => g[c] = heap[c]
      /\ g[t] = [heap[t] EXCEPT !.next = b]
  BY <1>2, <1>3 DEF With
<1>5. /\ g[t].next = b /\ g[t].size = heap[t].size /\ g[t].free = heap[t].free
      /\ g[t].guard = heap[t].guard /\ g[t] \in HeapHeader
  BY <1>1, <1>4 DEF HeapHeader
<1>6. \A c \in DOMAIN g : c \in Nat /\ c <= b
  BY <1>1, <1>2, <1>4, Fields
<1>7. LinkOf(g, b, BlockEnd(g, b))
  BY <1>4, <1>6 DEF LinkOf
<1>8. ASSUME NEW c \in DOMAIN heap PROVE LinkOf(g, c, BlockEnd(g, b))
  <2>1. CASE c = t
    <3>1. BlockEnd(g, t) = current_heap
      BY <1>1, <1>5 DEF BlockEnd
    <3>2. \A d \in DOMAIN g : d <= t \/ b <= d
      BY <1>1, <1>4
    <3> QED
      BY <1>1, <1>2, <1>4, <1>5, <2>1, <3>1, <3>2 DEF LinkOf
  <2>2. CASE c # t
    <3>1. /\ c \in Nat /\ LinkOf(heap, c, current_heap) /\ BlockEnd(g, c) = BlockEnd(heap, c)
          /\ g[c] = heap[c] /\ c < t
      BY <1>1, <1>4, <2>2, Fields DEF BlockEnd
    <3>2. heap[c].next # NIL
      BY <1>1, <3>1 DEF LinkOf
    <3>3. PICK m \in DOMAIN heap : m = heap[c].next
      BY <3>1, <3>2 DEF LinkOf
    <3>4. c < m /\ Adjoins(BlockEnd(heap, c), m) /\ m <= t /\ m \in Nat
          /\ \A d \in DOMAIN heap : d <= c \/ m <= d
      BY <1>1, <3>1, <3>2, <3>3, Fields DEF LinkOf
    <3>5. \A d \in DOMAIN g : d <= c \/ m <= d
      BY <1>1, <1>2, <1>4, <3>4
    <3> QED
      BY <1>4, <3>1, <3>2, <3>3, <3>4, <3>5 DEF LinkOf
  <2> QED
    BY <2>1, <2>2
<1>9. g \in [DOMAIN g -> HeapHeader]
  <2>1. \A c \in DOMAIN g : g[c] \in HeapHeader
    BY <1>4, <1>5 DEF Shape
  <2>2. g = [c \in DOMAIN g |-> g[c]]
    BY <1>3 DEF With
  <2> QED
    BY <2>1, <2>2
<1>10. DOMAIN g \subseteq Nat /\ IsFiniteSet(DOMAIN g)
  BY <1>4, <1>6, FS_AddElement DEF Shape
<1>11. Shape(g, BlockEnd(g, b))
  BY <1>4, <1>7, <1>8, <1>9, <1>10 DEF Shape
<1>12. \A c \in DOMAIN heap : c < b /\ g[c].free = heap[c].free /\ g[c].guard = heap[c].guard
                              /\ g[c].size = heap[c].size
  <2> TAKE c \in DOMAIN heap
  <2>1. c < b
    BY <1>1, <1>2, Fields
  <2> QED
    BY <1>4, <1>5, <2>1
<1> QED
  BY <1>2, <1>3, <1>4, <1>11, <1>12 DEF GrowLeaves

LEMMA FirstKeeps ==
  ASSUME DOMAIN heap = {}, NEW b \in Nat, NEW new \in HeapHeader, new.next = NIL
  PROVE  GrowLeaves(heap, b, new, With(heap, b, new))
<1>1. PICK g : g = With(heap, b, new)
  OBVIOUS
<1>2. DOMAIN g = {b} /\ g[b] = new /\ g \in [{b} -> HeapHeader]
  BY <1>1 DEF With
<1>3. LinkOf(g, b, BlockEnd(g, b))
  BY <1>2 DEF LinkOf
<1>4. IsFiniteSet({b})
  BY FS_Singleton
<1> QED
  BY <1>1, <1>2, <1>3, <1>4 DEF GrowLeaves, Shape
-----------------------------------------------------------------------------
(* What stays so while a freed block b grows over the blocks behind it.    *)
Kept(h, b) ==
  /\ Shape(h, current_heap) /\ DOMAIN h \subseteq DOMAIN heap
  /\ b \in DOMAIN h /\ h[b].guard = debug_mode /\ heap_list \in DOMAIN h
  /\ FreeGuarded(h) /\ GuardsOf(h, DOMAIN h) \subseteq guards

LEMMA FreedKept ==
  ASSUME HeapInvariant, NEW b \in DOMAIN heap, Freeable(b)
  PROVE  Kept([heap EXCEPT ![b].free = TRUE], b) /\ heap_list <= b /\ heap_list \in DOMAIN heap
<1>1. /\ Shape(heap, current_heap) /\ heap_list \in DOMAIN heap /\ heap_list <= b
      /\ FreeGuarded(heap) /\ GuardsIntact /\ ~ booting /\ heap[b].guard = debug_mode
  BY DEF HeapInvariant, Headed, Freeable
<1>2. PICK h : h = [heap EXCEPT ![b].free = TRUE]
  OBVIOUS
<1>3. /\ Shape(h, current_heap) /\ DOMAIN h = DOMAIN heap
      /\ \A c \in DOMAIN heap : c # b => h[c] = heap[c]
      /\ \A c \in DOMAIN heap : h[c].size = heap[c].size /\ h[c].guard = heap[c].guard
  <2>1. FreeLeaves(heap, current_heap, b, TRUE, h)
    BY <1>1, <1>2, FreeShape
  <2> QED
    BY <2>1 DEF FreeLeaves
<1>4. FreeGuarded(h)
  BY <1>1, <1>3 DEF FreeGuarded
<1>5. GuardsOf(h, DOMAIN h) = GuardsOf(heap, DOMAIN heap)
  BY <1>3 DEF GuardsOf, GuardAt
<1> QED
  BY <1>1, <1>2, <1>3, <1>4, <1>5 DEF Kept, GuardsIntact

LEMMA MergedKept ==
  ASSUME HeapInvariant, heap_list \in DOMAIN heap, NEW b \in DOMAIN heap, heap_list <= b,
         NEW h, Kept(h, b), Mergeable(h, b)
  PROVE  Kept(Merged(h, b), b)
<1>1. PICK n, g : n = h[b].next /\ g = Merged(h, b)
  OBVIOUS
<1>2. /\ MergeLeaves(h, current_heap, b, g) /\ b < n /\ n \in DOMAIN h /\ h[n].free
  BY <1>1, MergeKeeps DEF Kept
<1>3. heap_list # n
  <2>1. heap_list \in Nat /\ b \in Nat /\ n \in Nat
    BY <1>2, Fields DEF Kept, HeapInvariant
  <2> QED
    BY <1>2, <2>1
<1>4. DOMAIN g = DOMAIN h \ {n} /\ b \in DOMAIN g
      /\ \A c \in DOMAIN g : (c # b => g[c] = h[c]) /\ g[c].free = h[c].free
                             /\ g[c].guard = h[c].guard
  BY <1>1, <1>2 DEF MergeLeaves
<1>5. FreeGuarded(g)
  BY <1>4 DEF FreeGuarded, Kept
<1>6. h[n].guard = debug_mode /\ h[b].guard = debug_mode
  BY <1>2 DEF Kept, FreeGuarded
<1>7. GuardAt(g, b) = GuardAt(h, n)
  BY <1>1, <1>2, <1>6 DEF MergeLeaves
<1>8. ASSUME NEW c \in DOMAIN g, g[c].guard PROVE GuardAt(g, c) \in guards
  <2>1. CASE c = b
    <3>1. h[n].guard
      BY <1>4, <1>6, <1>8, <2>1
    <3>2. GuardAt(h, n) \in GuardsOf(h, DOMAIN h)
      BY <1>2, <3>1 DEF GuardsOf
    <3> QED
      BY <1>7, <2>1, <3>2 DEF Kept
  <2>2. CASE c # b
    <3>1. g[c] = h[c] /\ c \in DOMAIN h
      BY <1>4, <2>2
    <3>2. GuardAt(h, c) \in GuardsOf(h, DOMAIN h)
      BY <1>8, <3>1 DEF GuardsOf
    <3> QED
      BY <3>1, <3>2 DEF Kept, GuardAt
  <2> QED
    BY <2>1, <2>2
<1>9. GuardsOf(g, DOMAIN g) \subseteq guards
  BY <1>8 DEF GuardsOf
<1> QED
  BY <1>1, <1>2, <1>3, <1>4, <1>5, <1>6, <1>9 DEF Kept, MergeLeaves

LEMMA CoalesceKept ==
  ASSUME HeapInvariant, NEW b \in DOMAIN heap, Freeable(b)
  PROVE  Kept(Coalesce(b), b)
<1> DEFINE N == Cardinality(DOMAIN heap)
           S == {h \in UNION {[D -> HeapHeader] : D \in SUBSET DOMAIN heap} : Kept(h, b)}
           g == [h \in S |-> IF Mergeable(h, b) THEN Merged(h, b) ELSE h]
           free == [heap EXCEPT ![b].free = TRUE]
           Step(f) == [n \in 0 .. N |-> IF n = 0 THEN free
                                        ELSE IF Mergeable(f[n - 1], b)
                                        THEN Merged(f[n - 1], b) ELSE f[n - 1]]
<1>1. N \in Nat
  BY FS_CardinalityType DEF HeapInvariant, Shape
<1>2. Kept(free, b) /\ heap_list <= b /\ heap_list \in DOMAIN heap
  BY FreedKept
<1>3. ASSUME NEW h, Kept(h, b) PROVE h \in S
  BY <1>3 DEF Kept, Shape
<1>4. free \in S
  BY <1>2, <1>3
<1>5. ASSUME NEW h \in S PROVE (IF Mergeable(h, b) THEN Merged(h, b) ELSE h) \in S
  <2>1. CASE Mergeable(h, b)
    <3>1. Kept(Merged(h, b), b)
      BY <1>2, <2>1, MergedKept
    <3> QED
      BY <1>3, <2>1, <3>1
  <2> QED
    BY <2>1
<1>6. g \in [S -> S]
  BY <1>5
<1> HIDE DEF N, S, g, free
<1>7. PICK f : Iteration(f, S, free, g, N)
  BY <1>1, <1>4, <1>6, Iterates
<1>8. \A n \in 1 .. N : f[n] = IF Mergeable(f[n - 1], b) THEN Merged(f[n - 1], b) ELSE f[n - 1]
  <2> TAKE n \in 1 .. N
  <2>1. f[n] = g[f[n - 1]] /\ f[n - 1] \in S
    BY <1>1, <1>7 DEF Iteration
  <2> QED
    BY <2>1 DEF g
<1>9. f = Step(f)
  <2>1. \A n \in 0 .. N : f[n] = Step(f)[n]
    <3> TAKE n \in 0 .. N
    <3>1. CASE n = 0
      BY <1>7, <3>1 DEF Iteration
    <3>2. CASE n # 0
      <4>1. n \in 1 .. N
        BY <1>1, <3>2
      <4> QED
        BY <1>8, <3>2, <4>1
    <3> QED
      BY <3>1, <3>2
  <2> QED
    BY <1>7, <2>1 DEF Iteration
<1>10. PICK m : m = (CHOOSE h : h = Step(h)) /\ Coalesce(b) = m[N]
  BY DEF Coalesce, N, free
<1>11. m = Step(m)
  BY <1>9, <1>10
<1>12. \A n \in 0 .. N : m[n] \in S
  <2> DEFINE Bad == {n \in 0 .. N : m[n] \notin S}
  <2>1. SUFFICES ASSUME Bad # {} PROVE FALSE
    OBVIOUS
  <2>2. PICK n \in Bad : \A k \in Bad : n <= k
    <3>1. Bad \subseteq Nat
      BY <1>1
    <3> QED
      BY <2>1, <3>1, LeastOf
  <2>3. CASE n = 0
    <3>1. m[0] = free
      BY <1>1, <1>11
    <3> QED
      BY <1>4, <2>2, <2>3, <3>1
  <2>4. CASE n # 0
    <3>1. n \in 0 .. N /\ n - 1 \in 0 .. N /\ n - 1 < n
      BY <1>1, <2>2, <2>4
    <3>2. m[n - 1] \in S
      BY <2>2, <3>1
    <3>3. m[n] = IF Mergeable(m[n - 1], b) THEN Merged(m[n - 1], b) ELSE m[n - 1]
      BY <1>11, <2>4, <3>1
    <3>4. m[n] \in S
      BY <1>5, <3>2, <3>3
    <3> QED
      BY <2>2, <3>4
  <2> QED
    BY <2>3, <2>4
<1>13. m[N] \in S
  BY <1>1, <1>12
<1> QED
  BY <1>10, <1>13 DEF S
-----------------------------------------------------------------------------
(* The guard words of the blocks that a step leaves alone.                 *)
LEMMA GuardsStay ==
  ASSUME GuardsIntact, NEW h, NEW end, Shape(h, end), NEW b \in DOMAIN h,
         NEW B \in SUBSET DOMAIN h,
         \A c \in DOMAIN h \ B : c \in DOMAIN heap /\ h[c].guard = heap[c].guard
                                 /\ h[c].size = heap[c].size
  PROVE  GuardsOf(h, DOMAIN h) \subseteq (guards \ Used(h, b)) \cup GuardsOf(h, B)
<1> SUFFICES ASSUME NEW c \in DOMAIN h, h[c].guard
             PROVE  GuardAt(h, c) \in (guards \ Used(h, b)) \cup GuardsOf(h, B)
  BY DEF GuardsOf
<1>1. CASE c \in B
  BY <1>1 DEF GuardsOf
<1>2. CASE c \notin B
  <2>1. GuardAt(h, c) = GuardAt(heap, c) /\ heap[c].guard /\ c \in DOMAIN heap
    BY <1>2 DEF GuardAt
  <2>2. GuardAt(heap, c) \in guards
    BY <2>1 DEF GuardsIntact, GuardsOf
  <2>3. GuardAt(h, c) \notin Used(h, b)
    BY GuardOutside
  <2> QED
    BY <2>1, <2>2, <2>3
<1> QED
  BY <1>1, <1>2

LEMMA NewBlockType ==
  ASSUME HeapInvariant, NEW size \in Nat
  PROVE  /\ NewBlock(size) \in HeapHeader /\ NewBlock(size).next = NIL
         /\ NewBlock(size).free = FALSE /\ NewBlock(size).size = size
BY DEF NewBlock, HeapHeader, HeapInvariant

LEMMA HeapInitial == HeapInit => HeapInvariant
<1> SUFFICES ASSUME HeapInit PROVE HeapInvariant
  OBVIOUS
<1>1. DOMAIN heap = {} /\ heap \in [{} -> HeapHeader]
  BY DEF HeapInit
<1>2. Shape(heap, current_heap)
  BY <1>1, FS_EmptySet DEF Shape
<1>3. FreeGuarded(heap) /\ GuardsIntact
  BY <1>1 DEF FreeGuarded, GuardsIntact, GuardsOf
<1>4. current_heap \in Nat /\ Headed /\ RoverListed
  BY <1>1, HeapAssumption DEF HeapInit, Headed, RoverListed
<1> QED
  BY <1>2, <1>3, <1>4 DEF HeapInvariant, HeapInit

LEMMA ReadCommandLineKeeps ==
  ASSUME HeapInvariant, ReadCommandLine PROVE HeapInvariant'
<1>1. UNCHANGED <<heap, heap_list, rover, current_heap, guards>>
  BY DEF ReadCommandLine
<1>2. debug_mode' \in BOOLEAN /\ booting' = FALSE /\ booting
  BY DEF ReadCommandLine
<1>3. FreeGuarded(heap)'
  BY <1>1, <1>2 DEF HeapInvariant, FreeGuarded
<1>4. Shape(heap, current_heap)' /\ GuardsIntact'
  BY <1>1 DEF HeapInvariant, Shape, LinkOf, BlockEnd, Adjoins, GuardsIntact, GuardsOf, GuardAt
<1>5. Headed' /\ RoverListed' /\ (current_heap \in Nat)'
  BY <1>1 DEF HeapInvariant, Headed, RoverListed
<1> QED
  BY <1>2, <1>3, <1>4, <1>5 DEF HeapInvariant

(* Both kinds of new block.                                                *)
LEMMA NewBlockKeeps ==
  ASSUME HeapInvariant, NEW size \in Nat, NEW b \in Nat, NEW h,
         GrowLeaves(heap, b, NewBlock(size), h),
         heap' = h, current_heap' = BlockEnd(h, b), BlockEnd(h, b) <= HeapEnd,
         guards' = (guards \ Used(h, b)) \cup GuardsOf(h, {b}),
         UNCHANGED <<debug_mode, booting>>
  PROVE  /\ DOMAIN heap' = DOMAIN heap \cup {b} /\ \A c \in DOMAIN heap : c < b
         /\ (current_heap \in Nat)' /\ Shape(heap, current_heap)' /\ FreeGuarded(heap)'
         /\ GuardsIntact' /\ current_heap' <= HeapEnd
<1>1. /\ Shape(h, BlockEnd(h, b)) /\ DOMAIN h = DOMAIN heap \cup {b} /\ b \notin DOMAIN heap
      /\ \A c \in DOMAIN heap : c < b /\ h[c].free = heap[c].free
                                /\ h[c].guard = heap[c].guard /\ h[c].size = heap[c].size
      /\ h[b] = NewBlock(size)
  BY DEF GrowLeaves
<1>2. BlockEnd(h, b) \in Nat
  BY <1>1, Fields
<1>3. FreeGuarded(heap)'
  <2>1. ~ h[b].free
    BY <1>1, NewBlockType
  <2> QED
    BY <1>1, <2>1 DEF FreeGuarded, HeapInvariant
<1>4. GuardsOf(h, DOMAIN h) \subseteq (guards \ Used(h, b)) \cup GuardsOf(h, {b})
  BY <1>1, GuardsStay DEF HeapInvariant
<1> QED
  BY <1>1, <1>2, <1>3, <1>4 DEF GuardsIntact, Shape, LinkOf, Adjoins, BlockEnd, GuardsOf, GuardAt

LEMMA FirstBlockKeeps ==
  ASSUME HeapInvariant, NEW size \in Nat, FirstBlock(size) PROVE HeapInvariant'
<1>1. /\ DOMAIN heap = {} /\ current_heap = HeapStart /\ HeapStart \in Nat /\ HeapStart # NIL
  BY HeapAssumption DEF HeapInvariant, Headed, FirstBlock
<1>2. PICK h : h = With(heap, current_heap, NewBlock(size))
  OBVIOUS
<1>3. GrowLeaves(heap, current_heap, NewBlock(size), h)
  BY <1>1, <1>2, NewBlockType, FirstKeeps
<1>4. /\ heap' = h /\ heap_list' = HeapStart /\ rover' = HeapStart
      /\ current_heap' = BlockEnd(h, current_heap) /\ BlockEnd(h, current_heap) <= HeapEnd
      /\ guards' = (guards \ Used(h, current_heap)) \cup GuardsOf(h, {current_heap})
      /\ UNCHANGED <<debug_mode, booting>>
  BY <1>1, <1>2 DEF FirstBlock
<1>5. /\ DOMAIN heap' = DOMAIN heap \cup {current_heap}
      /\ (current_heap \in Nat)' /\ Shape(heap, current_heap)' /\ FreeGuarded(heap)'
      /\ GuardsIntact' /\ current_heap' <= HeapEnd
  BY <1>1, <1>3, <1>4, NewBlockKeeps
<1>6. Headed' /\ RoverListed'
  BY <1>1, <1>4, <1>5 DEF Headed, RoverListed
<1> QED
  BY <1>4, <1>5, <1>6 DEF HeapInvariant

LEMMA GrowStep ==
  ASSUME HeapInvariant, NEW size \in Nat, Grow(size)
  PROVE  /\ HeapInvariant' /\ Found(size) = NIL
         /\ \E b \in Nat : DOMAIN heap' = DOMAIN heap \cup {b} /\ heap'[b].size = size
<1>1. /\ heap_list \in DOMAIN heap /\ heap_list = HeapStart /\ rover \in DOMAIN heap
      /\ Shape(heap, current_heap) /\ current_heap \in Nat
      /\ \A c \in DOMAIN heap : heap_list <= c
  BY DEF HeapInvariant, Headed, RoverListed, Grow
<1>2. PICK b \in Nat : /\ Adjoins(current_heap, b)
                       /\ b = IF size >= PageSize THEN align(current_heap, PageSize)
                              ELSE current_heap
  <2>1. align(current_heap, PageSize) \in Nat /\ current_heap <= align(current_heap, PageSize)
    BY <1>1, AlignUp, HeapAssumption
  <2> QED
    BY <1>1, <2>1 DEF Adjoins
<1>3. PICK h : h = With([heap EXCEPT ![Tail].next = b], b, NewBlock(size))
  OBVIOUS
<1>4. PICK t \in DOMAIN heap : t = Tail /\ heap[t].next = NIL
  BY <1>1, TailIsLast
<1>5. GrowLeaves(heap, b, NewBlock(size), h)
  <2>1. NewBlock(size) \in HeapHeader /\ NewBlock(size).next = NIL
    BY NewBlockType
  <2> QED
    BY <1>1, <1>2, <1>3, <1>4, <2>1, GrowKeeps
<1>6. /\ heap' = h /\ heap_list' = heap_list /\ rover' = rover
      /\ current_heap' = BlockEnd(h, b) /\ BlockEnd(h, b) <= HeapEnd
      /\ guards' = (guards \ Used(h, b)) \cup GuardsOf(h, {b})
      /\ UNCHANGED <<debug_mode, booting>> /\ Found(size) = NIL
  BY <1>2, <1>3 DEF Grow
<1>7. /\ DOMAIN heap' = DOMAIN heap \cup {b} /\ (\A c \in DOMAIN heap : c < b)
      /\ (current_heap \in Nat)' /\ Shape(heap, current_heap)' /\ FreeGuarded(heap)'
      /\ GuardsIntact' /\ current_heap' <= HeapEnd
  BY <1>5, <1>6, NewBlockKeeps
<1>8. heap_list < b /\ heap_list \in Nat
  BY <1>1, <1>7, Fields
<1>9. Headed' /\ RoverListed'
  <2>1. \A c \in DOMAIN heap' : heap_list <= c
    BY <1>1, <1>7, <1>8
  <2>2. heap_list # NIL
    BY <1>8, HeapAssumption
  <2> QED
    BY <1>1, <1>6, <1>7, <2>1, <2>2 DEF Headed, RoverListed
<1>10. HeapInvariant'
  BY <1>6, <1>7, <1>9 DEF HeapInvariant
<1>11. heap'[b].size = size
  BY <1>5, <1>6, NewBlockType DEF GrowLeaves
<1> QED
  BY <1>6, <1>7, <1>10, <1>11

LEMMA ReuseKeeps ==
  ASSUME HeapInvariant, NEW size \in Nat, Reuse(size) PROVE HeapInvariant'
<1>1. /\ heap_list \in DOMAIN heap /\ heap_list = HeapStart /\ rover \in DOMAIN heap
      /\ Shape(heap, current_heap) /\ current_heap \in Nat /\ current_heap <= HeapEnd
      /\ FreeGuarded(heap) /\ GuardsIntact /\ debug_mode \in BOOLEAN
      /\ \A c \in DOMAIN heap : heap_list <= c
  BY DEF HeapInvariant, Headed, RoverListed, Reuse
<1>2. Found(size) # NIL
  BY DEF Reuse
<1>3. PICK b \in DOMAIN heap : b = Found(size) /\ heap[b].free /\ size <= heap[b].size
  BY <1>1, <1>2, FoundFits
<1>4. heap[b].guard = debug_mode /\ ~ booting
  BY <1>1, <1>3 DEF FreeGuarded
<1>5. PICK g, h : g = Split(b, size) /\ h = [g EXCEPT ![b].free = FALSE]
  OBVIOUS
<1>6. SplitLeaves(b, size, g)
  BY <1>1, <1>3, <1>4, <1>5, SplitKeeps
<1>7. /\ Shape(g, current_heap) /\ DOMAIN heap \subseteq DOMAIN g
      /\ \A c \in DOMAIN heap : (c # b => g[c] = heap[c]) /\ g[c].guard = heap[c].guard
      /\ \A c \in DOMAIN g \ DOMAIN heap : b < c /\ g[c].free /\ g[c].guard = debug_mode
  BY <1>6 DEF SplitLeaves
<1>8. /\ Shape(h, current_heap) /\ DOMAIN h = DOMAIN g /\ b \in DOMAIN h
      /\ (\A c \in DOMAIN g : c # b => h[c] = g[c]) /\ ~ h[b].free
      /\ \A c \in DOMAIN g : h[c].guard = g[c].guard
  <2>1. b \in DOMAIN g
    BY <1>7
  <2>2. FreeLeaves(g, current_heap, b, FALSE, h)
    BY <1>5, <1>7, <2>1, FreeShape
  <2> QED
    BY <2>1, <2>2 DEF FreeLeaves
<1>9. /\ heap' = h /\ rover' = IF h[b].next # NIL THEN h[b].next ELSE heap_list
      /\ guards' = (guards \ Used(h, b)) \cup GuardsOf(h, {b} \cup (DOMAIN h \ DOMAIN heap))
      /\ UNCHANGED <<debug_mode, booting, heap_list, current_heap>>
  BY <1>3, <1>5 DEF Reuse
<1>10. FreeGuarded(h)
  <2> SUFFICES ASSUME NEW c \in DOMAIN h, h[c].free PROVE ~ booting /\ h[c].guard = debug_mode
    BY DEF FreeGuarded
  <2>1. c # b /\ h[c] = g[c] /\ c \in DOMAIN g
    BY <1>8
  <2>2. CASE c \in DOMAIN heap
    BY <1>1, <1>7, <2>1, <2>2 DEF FreeGuarded
  <2>3. CASE c \notin DOMAIN heap
    BY <1>4, <1>7, <2>1, <2>3
  <2> QED
    BY <2>2, <2>3
<1>11. GuardsOf(h, DOMAIN h)
         \subseteq (guards \ Used(h, b)) \cup GuardsOf(h, {b} \cup (DOMAIN h \ DOMAIN heap))
  <2> DEFINE B == {b} \cup (DOMAIN h \ DOMAIN heap)
  <2>1. B \in SUBSET DOMAIN h
    BY <1>8
  <2>2. \A c \in DOMAIN h \ B : c \in DOMAIN heap /\ h[c] = heap[c]
    BY <1>7, <1>8
  <2> HIDE DEF B
  <2>3. GuardsOf(h, DOMAIN h) \subseteq (guards \ Used(h, b)) \cup GuardsOf(h, B)
    BY <1>1, <1>8, <2>1, <2>2, GuardsStay
  <2> QED
    BY <2>3 DEF B
<1>12. h[b].next # NIL => h[b].next \in DOMAIN h
  BY <1>8, Fields
<1>13. \A c \in DOMAIN h : heap_list <= c
  <2> TAKE c \in DOMAIN h
  <2>1. CASE c \in DOMAIN heap
    BY <1>1, <2>1
  <2>2. CASE c \notin DOMAIN heap
    <3>1. b < c /\ heap_list <= b
      BY <1>1, <1>7, <1>8, <2>2
    <3>2. b \in Nat /\ c \in Nat /\ heap_list \in Nat
      BY <1>1, <1>8, Fields
    <3> QED
      BY <3>1, <3>2
  <2> QED
    BY <2>1, <2>2
<1>14. Headed'
  <2>1. heap_list \in DOMAIN h /\ heap_list # NIL
    BY <1>1, <1>7, <1>8, HeapAssumption
  <2> QED
    BY <1>1, <1>9, <1>13, <2>1 DEF Headed
<1>15. RoverListed'
  BY <1>1, <1>7, <1>8, <1>9, <1>12 DEF RoverListed
<1>16. Shape(heap, current_heap)' /\ FreeGuarded(heap)'
  BY <1>8, <1>9, <1>10 DEF Shape, LinkOf, BlockEnd, Adjoins, FreeGuarded
<1>17. GuardsIntact'
  BY <1>9, <1>11 DEF GuardsIntact, GuardsOf, GuardAt
<1> QED
  BY <1>9, <1>14, <1>15, <1>16, <1>17 DEF HeapInvariant

LEMMA FreeKeeps ==
  ASSUME HeapInvariant, NEW b \in DOMAIN heap, Freeable(b), kernel_free(b) PROVE HeapInvariant'
<1>1. PICK h : h = Coalesce(b) /\ heap' = h
  BY DEF kernel_free
<1>2. Kept(h, b)
  BY <1>1, CoalesceKept
<1>3. /\ heap_list \in DOMAIN heap /\ heap_list = HeapStart /\ current_heap <= HeapEnd
      /\ \A c \in DOMAIN heap : heap_list <= c
  BY DEF HeapInvariant, Headed
<1>4. /\ UNCHANGED <<debug_mode, booting, heap_list, current_heap, guards>>
      /\ rover' = IF rover \in DOMAIN heap' THEN rover ELSE b
  BY DEF kernel_free
<1>5. /\ Shape(h, current_heap) /\ DOMAIN h \subseteq DOMAIN heap /\ b \in DOMAIN h
      /\ heap_list \in DOMAIN h /\ FreeGuarded(h) /\ GuardsOf(h, DOMAIN h) \subseteq guards
  BY <1>2 DEF Kept
<1>6. Headed' /\ RoverListed'
  <2>1. heap_list # NIL
    BY <1>3, HeapAssumption
  <2> QED
    BY <1>1, <1>3, <1>4, <1>5, <2>1 DEF Headed, RoverListed
<1>7. Shape(heap, current_heap)' /\ FreeGuarded(heap)'
  BY <1>1, <1>4, <1>5 DEF Shape, LinkOf, BlockEnd, Adjoins, FreeGuarded
<1>8. GuardsIntact'
  BY <1>1, <1>4, <1>5 DEF GuardsIntact, GuardsOf, GuardAt
<1> QED
  BY <1>4, <1>6, <1>7, <1>8 DEF HeapInvariant
-----------------------------------------------------------------------------
LEMMA HeapStep == ASSUME HeapInvariant, [HeapNext]_hvars PROVE HeapInvariant'
<1>1. CASE ReadCommandLine
  BY <1>1, ReadCommandLineKeeps
<1>2. ASSUME NEW n \in Request, kernel_malloc(n) PROVE HeapInvariant'
  <2>1. PICK size \in Nat : size = align(n, BlockAlign)
    BY AlignUp, HeapAssumption
  <2>2. FirstBlock(size) \/ Reuse(size) \/ Grow(size)
    BY <1>2, <2>1 DEF kernel_malloc
  <2> QED
    BY <2>2, FirstBlockKeeps, ReuseKeeps, GrowStep
<1>3. ASSUME NEW b \in DOMAIN heap, Freeable(b), kernel_free(b) PROVE HeapInvariant'
  BY <1>3, FreeKeeps
<1>4. CASE UNCHANGED hvars
  BY <1>4 DEF hvars, HeapInvariant, Shape, LinkOf, BlockEnd, Adjoins, Headed, RoverListed,
              FreeGuarded, GuardsIntact, GuardsOf, GuardAt
<1> QED
  BY <1>1, <1>2, <1>3, <1>4 DEF HeapNext

LEMMA HeapInductive == HeapSpec => []HeapInvariant
<1>1. HeapInit => HeapInvariant
  BY HeapInitial
<1>2. HeapInvariant /\ [HeapNext]_hvars => HeapInvariant'
  BY HeapStep
<1> QED
  BY <1>1, <1>2, PTL DEF HeapSpec

LEMMA TiledByInvariant == HeapInvariant => HeapTiled
<1> SUFFICES ASSUME HeapInvariant, heap_list # NIL PROVE HeapTiled
  BY DEF HeapTiled
<1>1. /\ heap_list \in DOMAIN heap /\ heap_list = HeapStart /\ current_heap <= HeapEnd
      /\ Shape(heap, current_heap) /\ current_heap \in Nat
      /\ \A c \in DOMAIN heap : heap_list <= c
  BY DEF HeapInvariant, Headed
<1>2. PICK at : at = Walk(heap_list) /\ WalkIs(at, heap_list)
  BY <1>1, Walks
<1>3. DOMAIN at = 0 .. Cardinality(DOMAIN heap) /\ Cardinality(DOMAIN heap) \in Nat
  BY <1>1, <1>2, FS_CardinalityType DEF WalkIs, Shape
<1>4. {at[n] : n \in DOMAIN at} = DOMAIN heap \cup {NIL}
  <2>1. \A n \in DOMAIN at : at[n] \in DOMAIN heap \cup {NIL}
    BY <1>2 DEF WalkIs
  <2>2. \A a \in DOMAIN heap : \E n \in DOMAIN at : at[n] = a
    BY <1>1, <1>2, <1>3, WalkVisits
  <2>3. \E n \in DOMAIN at : at[n] = NIL
    BY <1>1, <1>2, <1>3, WalkEnds
  <2> QED
    BY <2>1, <2>2, <2>3
<1>5. ASSUME NEW b \in DOMAIN heap
      PROVE  LET end == IF heap[b].next # NIL THEN heap[b].next ELSE current_heap
             IN  /\ b < end
                 /\ \/ BlockEnd(heap, b) = end
                    \/ BlockEnd(heap, b) < end /\ end = align(BlockEnd(heap, b), PageSize)
  <2>1. b < BlockEnd(heap, b) /\ LinkOf(heap, b, current_heap)
    BY <1>1, Fields
  <2> QED
    BY <2>1 DEF LinkOf, Adjoins
<1> QED
  BY <1>1, <1>2, <1>4, <1>5 DEF HeapTiled

(* kernel_malloc() and kernel_free() keep the heap tiled: the list holds   *)
(* every block in the order of addresses, none overlaps another, and only  *)
(* the gap before a page-aligned block belongs to none.                    *)
THEOREM HeapIsTiled == HeapSpec => []HeapTiled
<1>1. HeapInvariant => HeapTiled
  BY TiledByInvariant
<1> QED
  BY <1>1, HeapInductive, PTL

(* Splits, merges and owners that fill their blocks leave each guard word  *)
(* where kernel_heap_check_block() looks for it.                           *)
THEOREM HeapGuardsIntact == HeapSpec => []GuardsIntact
<1>1. HeapInvariant => GuardsIntact
  BY DEF HeapInvariant
<1> QED
  BY <1>1, HeapInductive, PTL

(* The rover of kernel_malloc() is a block of the list, whatever merges    *)
(* kernel_free() has made.                                                 *)
THEOREM RoverIsListed == HeapSpec => []RoverListed
<1>1. HeapInvariant => RoverListed
  BY DEF HeapInvariant
<1> QED
  BY <1>1, HeapInductive, PTL

(* kernel_malloc() takes new room only when both phases of its search have *)
(* passed every free block and none was large enough.                      *)
THEOREM HeapGrowsOnlyWhenFull == HeapSpec => GrowsOnlyWhenFull
<1> DEFINE OnlyWhenFull == \A n \in DOMAIN heap' \ DOMAIN heap :
                      current_heap' # current_heap =>
                        \A b \in DOMAIN heap : heap[b].free => heap[b].size < heap'[n].size
<1>1. ASSUME HeapInvariant, HeapNext PROVE OnlyWhenFull
  <2>1. CASE ReadCommandLine
    BY <2>1 DEF ReadCommandLine
  <2>2. ASSUME NEW n \in Request, kernel_malloc(n) PROVE OnlyWhenFull
    <3>1. PICK size \in Nat : size = align(n, BlockAlign)
      BY AlignUp, HeapAssumption
    <3>2. CASE FirstBlock(size)
      <4>1. DOMAIN heap = {}
        BY <1>1, <3>2 DEF FirstBlock, HeapInvariant, Headed
      <4> QED
        BY <4>1
    <3>3. CASE Reuse(size)
      BY <3>3 DEF Reuse
    <3>4. CASE Grow(size)
      <4>1. /\ heap_list \in DOMAIN heap /\ rover \in DOMAIN heap
            /\ Shape(heap, current_heap) /\ \A c \in DOMAIN heap : heap_list <= c
        BY <1>1, <3>4 DEF HeapInvariant, Headed, RoverListed, Grow
      <4>2. PICK b \in Nat : DOMAIN heap' = DOMAIN heap \cup {b} /\ heap'[b].size = size
        BY <1>1, <3>4, GrowStep
      <4>3. Found(size) = NIL
        BY <1>1, <3>4, GrowStep
      <4>4. \A c \in DOMAIN heap : heap[c].free => heap[c].size < size
        BY <4>1, <4>3, NoneEscapes
      <4> QED
        BY <4>2, <4>4
    <3> QED
      BY <2>2, <3>1, <3>2, <3>3, <3>4 DEF kernel_malloc
  <2>3. ASSUME NEW b \in DOMAIN heap, kernel_free(b) PROVE OnlyWhenFull
    BY <2>3 DEF kernel_free
  <2> QED
    BY <1>1, <2>1, <2>2, <2>3 DEF HeapNext
<1>2. HeapInvariant /\ [HeapNext]_hvars => [OnlyWhenFull]_hvars
  BY <1>1
<1> HIDE DEF OnlyWhenFull
<1>3. HeapSpec => [][OnlyWhenFull]_hvars
  BY <1>2, HeapInductive, PTL DEF HeapSpec
<1> QED
  BY <1>3 DEF GrowsOnlyWhenFull, OnlyWhenFull
-----------------------------------------------------------------------------
(* Frames.                                                                 *)

(* What alloc_frame() returns for the cells C when it is called for them.  *)
NewUses(U, C) == {<<c, alloc_frame(U, c)>> : c \in C}

(* A set of used frames in which there is room for the cells C.            *)
CanAlloc(U, C) ==
  /\ U \subseteq Frame /\ IsFiniteSet(U) /\ C \subseteq Cell /\ IsFiniteSet(C)
  /\ C # {} => Enough(U, C)

LEMMA AllocIsFree ==
  ASSUME NEW U, NEW C, CanAlloc(U, C), NEW c \in C
  PROVE  alloc_frame(U, c) \in Frame \ U /\ alloc_frame(U, c)[1] = c
<1> USE DEF CanAlloc
<1>1. MaxFrames \in Nat /\ Cardinality(U) \in Nat /\ Cardinality(C) \in Nat
  BY MemoryAssumption, FS_CardinalityType
<1>2. Cardinality(C) > 0
  <2>1. C # {}
    OBVIOUS
  <2> QED
    BY <1>1, <2>1, FS_EmptySet
<1>3. \E i \in 1 .. MaxFrames : <<c, i>> \notin U
  <2>1. SUFFICES ASSUME \A i \in 1 .. MaxFrames : <<c, i>> \in U PROVE FALSE
    OBVIOUS
  <2> DEFINE f == [i \in 1 .. MaxFrames |-> <<c, i>>]
  <2>2. f \in Injection(1 .. MaxFrames, U)
    <3>1. f \in [1 .. MaxFrames -> U]
      BY <2>1
    <3>2. \A i, j \in 1 .. MaxFrames : f[i] = f[j] => i = j
      OBVIOUS
    <3> QED
      BY <3>1, <3>2 DEF Injection, IsInjective
  <2>3. Cardinality(1 .. MaxFrames) = MaxFrames
    BY <1>1, FS_Interval
  <2>4. Cardinality(1 .. MaxFrames) <= Cardinality(U)
    <3> HIDE DEF f
    <3> QED
      BY <2>2, FS_Injection
  <2>5. MaxFrames <= Cardinality(U)
    BY <2>3, <2>4
  <2>6. Cardinality(U) + Cardinality(C) <= MaxFrames
    BY DEF Enough
  <2> HIDE DEF CanAlloc
  <2> QED
    BY <1>1, <1>2, <2>5, <2>6
<1>4. (CHOOSE i \in 1 .. MaxFrames : <<c, i>> \notin U) \in 1 .. MaxFrames
      /\ <<c, CHOOSE i \in 1 .. MaxFrames : <<c, i>> \notin U>> \notin U
  BY <1>3
<1>5. c \in Cell
  BY DEF CanAlloc
<1> HIDE DEF CanAlloc
<1>6. PICK i \in 1 .. MaxFrames : alloc_frame(U, c) = <<c, i>> /\ <<c, i>> \notin U
  BY <1>4 DEF alloc_frame
<1> QED
  BY <1>5, <1>6 DEF Frame

LEMMA FramesAreFree ==
  ASSUME NEW U, NEW C, CanAlloc(U, C)
  PROVE  /\ Frames(U, C) \subseteq Frame /\ Frames(U, C) \cap U = {}
         /\ IsFiniteSet(Frames(U, C))
<1>1. \A c \in C : alloc_frame(U, c) \in Frame \ U
  BY AllocIsFree
<1> DEFINE f == [c \in C |-> alloc_frame(U, c)]
<1>2. f \in Surjection(C, Frames(U, C))
  BY DEF Frames, Surjection
<1>3. IsFiniteSet(Frames(U, C))
  BY <1>2, FS_Surjection DEF CanAlloc
<1> QED
  BY <1>1, <1>3 DEF Frames

(* A part of what there is room for can be allocated.                      *)
LEMMA CanAllocPart ==
  ASSUME NEW U, NEW C, CanAlloc(U, C), NEW D \in SUBSET C
  PROVE  CanAlloc(U, D)
<1>1. IsFiniteSet(D) /\ Cardinality(D) <= Cardinality(C)
  BY FS_Subset DEF CanAlloc
<1>2. Cardinality(U) \in Nat /\ Cardinality(C) \in Nat /\ Cardinality(D) \in Nat
      /\ MaxFrames \in Nat
  BY <1>1, FS_CardinalityType, MemoryAssumption DEF CanAlloc
<1> QED
  BY <1>1, <1>2 DEF CanAlloc, Enough

(* A step that gives up the uses D and allocates for the cells C.          *)
LEMMA ExclusiveStep ==
  ASSUME NEW X, NEW Y, NEW U, NEW V, NEW D, NEW C, CanAlloc(U, C),
         Exclusive(X, U), D \subseteq X, Y \subseteq (X \ D) \cup NewUses(U, C),
         (U \ {d[2] : d \in D}) \cup Frames(U, C) \subseteq V
  PROVE  Exclusive(Y, V)
<1>1. \A x \in X \ D : x[2] \in U /\ x[2] \in V
  <2> TAKE x \in X \ D
  <2>1. x[2] \in U
    BY DEF Exclusive
  <2>2. x[2] \notin {d[2] : d \in D}
    BY DEF Exclusive
  <2> QED
    BY <2>1, <2>2
<1>2. \A x \in NewUses(U, C) : x[2] \in Frames(U, C) /\ x[2] \notin U /\ x = <<x[2][1], x[2]>>
  <2> TAKE x \in NewUses(U, C)
  <2>1. PICK c \in C : x = <<c, alloc_frame(U, c)>>
    BY DEF NewUses
  <2>2. alloc_frame(U, c) \notin U /\ alloc_frame(U, c)[1] = c
    BY AllocIsFree
  <2> QED
    BY <2>1, <2>2 DEF Frames
<1>3. \A x \in Y : x[2] \in V
  BY <1>1, <1>2
<1>4. ASSUME NEW x \in Y, NEW y \in Y, x[2] = y[2] PROVE x = y
  <2>1. CASE x \in NewUses(U, C) /\ y \in NewUses(U, C)
    BY <1>2, <1>4, <2>1
  <2>2. CASE x \in NewUses(U, C) /\ y \in X \ D
    BY <1>1, <1>2, <1>4, <2>2
  <2>3. CASE x \in X \ D /\ y \in NewUses(U, C)
    BY <1>1, <1>2, <1>4, <2>3
  <2>4. CASE x \in X \ D /\ y \in X \ D
    BY <1>4, <2>4 DEF Exclusive
  <2> QED
    BY <2>1, <2>2, <2>3, <2>4
<1> QED
  BY <1>3, <1>4 DEF Exclusive
-----------------------------------------------------------------------------
(* Cells are cells, and there are finitely many of them.                   *)
LEMMA FiniteImage ==
  ASSUME NEW S, NEW T, NEW f, f \in Surjection(S, T), IsFiniteSet(S)
  PROVE  IsFiniteSet(T)
BY FS_Surjection

LEMMA PageCellsOK ==
  ASSUME NEW t \in Task, NEW V \in SUBSET Page
  PROVE  PageCells(t, V) \subseteq Cell /\ IsFiniteSet(PageCells(t, V))
<1> DEFINE f == [v \in V |-> <<"page", t, v>>]
<1>1. f \in Surjection(V, PageCells(t, V))
  BY DEF PageCells, Surjection
<1>2. IsFiniteSet(V)
  BY MemoryAssumption, FS_Subset
<1>3. IsFiniteSet(PageCells(t, V))
  <2> HIDE DEF f
  <2> QED
    BY <1>1, <1>2, FiniteImage
<1> QED
  BY <1>3 DEF PageCells, Cell

LEMMA TablesFinite == IsFiniteSet(Tables)
<1> DEFINE f == [v \in Page |-> Table(v)]
<1>1. f \in Surjection(Page, Tables)
  BY DEF Tables, Surjection
<1> HIDE DEF f
<1> QED
  BY <1>1, MemoryAssumption, FiniteImage

LEMMA TableCellsOK ==
  ASSUME NEW t \in Task, NEW R \in SUBSET Tables
  PROVE  TableCells(t, R) \subseteq Cell /\ IsFiniteSet(TableCells(t, R))
<1> DEFINE f == [r \in R |-> <<"table", t, r>>]
<1>1. f \in Surjection(R, TableCells(t, R))
  BY DEF TableCells, Surjection
<1>2. IsFiniteSet(R)
  BY TablesFinite, FS_Subset
<1>3. IsFiniteSet(TableCells(t, R))
  <2> HIDE DEF f
  <2> QED
    BY <1>1, <1>2, FiniteImage
<1> QED
  BY <1>3 DEF TableCells, Cell

LEMMA ObjectCellsOK ==
  ASSUME NEW o \in Obj, NEW n \in 1 .. MaxSize
  PROVE  ObjectCells(o, n) \subseteq Cell /\ IsFiniteSet(ObjectCells(o, n))
<1> DEFINE f == [i \in 1 .. n |-> <<"object", o, i>>]
<1>1. f \in Surjection(1 .. n, ObjectCells(o, n))
  BY DEF ObjectCells, Surjection
<1>2. IsFiniteSet(1 .. n)
  BY FS_Interval
<1>3. IsFiniteSet(ObjectCells(o, n))
  <2> HIDE DEF f
  <2> QED
    BY <1>1, <1>2, FiniteImage
<1>4. 1 .. n \subseteq 1 .. MaxSize
  BY MemoryAssumption
<1> QED
  BY <1>3, <1>4 DEF ObjectCells, Cell

LEMMA NewTablesIn ==
  ASSUME NEW A, NEW V
  PROVE  NewTables(A, V) \subseteq Tables
BY DEF NewTables

LEMMA OwnCellsOK ==
  ASSUME NEW A, NEW t \in Task, NEW V \in SUBSET Page
  PROVE  OwnCells(A, t, V) \subseteq Cell /\ IsFiniteSet(OwnCells(A, t, V))
BY PageCellsOK, TableCellsOK, NewTablesIn, FS_Union DEF OwnCells

LEMMA SpaceCellsOK ==
  ASSUME NEW t \in Task, NEW V \in SUBSET Page
  PROVE  SpaceCells(t, V) \subseteq Cell /\ IsFiniteSet(SpaceCells(t, V))
<1>1. {Table(v) : v \in V} \subseteq Tables
  BY DEF Tables
<1>2. {<<"directory", t>>} \subseteq Cell /\ IsFiniteSet({<<"directory", t>>})
  <2>1. <<"directory", t>> \in Cell
    BY DEF Cell
  <2>2. IsFiniteSet({<<"directory", t>>})
    BY FS_Singleton
  <2> QED
    BY <2>1, <2>2
<1>3. IsFiniteSet({<<"directory", t>>} \cup PageCells(t, V))
  BY <1>2, PageCellsOK, FS_Union
<1> QED
  BY <1>1, <1>2, <1>3, PageCellsOK, TableCellsOK, FS_Union DEF SpaceCells
-----------------------------------------------------------------------------
(* Address spaces.                                                         *)

LEMMA MapPagesType ==
  ASSUME NEW A \in Space, NEW t \in Task, NEW V \in SUBSET Page, NEW q \in [V -> Frame],
         NEW U, NEW C, CanAlloc(U, C), TableCells(t, NewTables(A, V)) \subseteq C
  PROVE  map_pages(A, t, V, q, U) \in Space
<1>1. \A r \in NewTables(A, V) : alloc_frame(U, <<"table", t, r>>) \in Frame
  <2> TAKE r \in NewTables(A, V)
  <2>1. <<"table", t, r>> \in C
    BY DEF TableCells
  <2> QED
    BY <2>1, AllocIsFree
<1>2. A.dir \in Frame /\ A.table \in [Tables -> Frame \cup {NULL}]
      /\ A.page \in [Page -> Frame \cup {NULL}] /\ A.maps \in SUBSET Mapping
  BY DEF Space
<1>3. [r \in Tables |-> IF r \in NewTables(A, V)
                        THEN alloc_frame(U, <<"table", t, r>>) ELSE A.table[r]]
        \in [Tables -> Frame \cup {NULL}]
  BY <1>1, <1>2
<1>4. [v \in Page |-> IF v \in V THEN q[v] ELSE A.page[v]] \in [Page -> Frame \cup {NULL}]
  BY <1>2
<1> QED
  BY <1>2, <1>3, <1>4 DEF map_pages, Space

(* What map_pages() adds to the uses: the new tables, and V where it is    *)
(* not shared.                                                             *)
LEMMA MapPagesUses ==
  ASSUME NEW A \in Space, NEW t \in Task, NEW V \in SUBSET Page, NEW q \in [V -> Frame],
         NEW U, NEW C, CanAlloc(U, C), TableCells(t, NewTables(A, V)) \subseteq C,
         NEW M, Taken(A.maps) \subseteq Taken(M),
         \A v \in V \ Taken(M) : <<<<"page", t, v>>, q[v]>> \in NewUses(U, C),
         NEW B, B = map_pages(A, t, V, q, U)
  PROVE  SpaceUses(t, [dir |-> B.dir, table |-> B.table, page |-> B.page, maps |-> M])
           \subseteq SpaceUses(t, A) \cup NewUses(U, C)
<1> DEFINE E == [dir |-> B.dir, table |-> B.table, page |-> B.page, maps |-> M]
<1>1. E.dir = A.dir /\ E.maps = M
      /\ (\A r \in Tables : E.table[r] = IF r \in NewTables(A, V)
                               THEN alloc_frame(U, <<"table", t, r>>) ELSE A.table[r])
      /\ \A v \in Page : E.page[v] = IF v \in V THEN q[v] ELSE A.page[v]
  BY DEF map_pages
<1> HIDE DEF E
<1>2. <<<<"directory", t>>, E.dir>> \in SpaceUses(t, A)
  BY <1>1 DEF SpaceUses
<1>3. ASSUME NEW r \in Tables, E.table[r] # NULL
      PROVE  <<<<"table", t, r>>, E.table[r]>> \in SpaceUses(t, A) \cup NewUses(U, C)
  <2>1. CASE r \in NewTables(A, V)
    <3>1. <<"table", t, r>> \in C
      BY <2>1 DEF TableCells
    <3> QED
      BY <1>1, <2>1, <3>1 DEF NewUses
  <2>2. CASE r \notin NewTables(A, V)
    BY <1>1, <1>3, <2>2 DEF SpaceUses
  <2> QED
    BY <2>1, <2>2
<1>4. ASSUME NEW v \in Mapped(E) \ Taken(E.maps)
      PROVE  <<<<"page", t, v>>, E.page[v]>> \in SpaceUses(t, A) \cup NewUses(U, C)
  <2>1. CASE v \in V
    BY <1>1, <2>1 DEF Mapped
  <2>2. CASE v \notin V
    BY <1>1, <2>2 DEF Mapped, SpaceUses
  <2> QED
    BY <2>1, <2>2
<1>5. SpaceUses(t, E) \subseteq SpaceUses(t, A) \cup NewUses(U, C)
  BY <1>2, <1>3, <1>4 DEF SpaceUses
<1> QED
  BY <1>5 DEF E

(* unmap_page() of V, whose shared pages leave the mappings.               *)
GivenUses(t, A, R, V) ==
  {x \in SpaceUses(t, A) : \/ \E r \in R : x = <<<<"table", t, r>>, A.table[r]>>
                           \/ \E v \in V : x = <<<<"page", t, v>>, A.page[v]>>}

LEMMA UnmapPagesType ==
  ASSUME NEW A \in Space, NEW V
  PROVE  unmap_pages(A, V) \in Space
<1>1. A.dir \in Frame /\ A.table \in [Tables -> Frame \cup {NULL}]
      /\ A.page \in [Page -> Frame \cup {NULL}] /\ A.maps \in SUBSET Mapping
  BY DEF Space
<1>2. [r \in Tables |-> IF r \in Emptied(A, V) THEN NULL ELSE A.table[r]]
        \in [Tables -> Frame \cup {NULL}]
  BY <1>1
<1>3. [v \in Page |-> IF v \in V THEN NULL ELSE A.page[v]] \in [Page -> Frame \cup {NULL}]
  BY <1>1
<1> QED
  BY <1>1, <1>2, <1>3 DEF unmap_pages, Space

LEMMA UnmapPagesUses ==
  ASSUME NEW A \in Space, NEW t, NEW V, NEW M, Taken(A.maps) \subseteq Taken(M) \cup V,
         NEW B, B = unmap_pages(A, V)
  PROVE  SpaceUses(t, [dir |-> B.dir, table |-> B.table, page |-> B.page, maps |-> M])
           \subseteq SpaceUses(t, A) \ GivenUses(t, A, Emptied(A, V), V)
<1> DEFINE E == [dir |-> B.dir, table |-> B.table, page |-> B.page, maps |-> M]
           G == GivenUses(t, A, Emptied(A, V), V)
<1>1. E.dir = A.dir /\ E.maps = M
      /\ (\A r \in Tables : E.table[r] = IF r \in Emptied(A, V) THEN NULL ELSE A.table[r])
      /\ \A v \in Page : E.page[v] = IF v \in V THEN NULL ELSE A.page[v]
  BY DEF unmap_pages
<1> HIDE DEF E
<1>2. <<<<"directory", t>>, E.dir>> \in SpaceUses(t, A) \ G
  <2>1. <<<<"directory", t>>, E.dir>> \in SpaceUses(t, A)
    BY <1>1 DEF SpaceUses
  <2>2. <<<<"directory", t>>, E.dir>> \notin G
    BY DEF GivenUses
  <2> QED
    BY <2>1, <2>2
<1>3. ASSUME NEW r \in Tables, E.table[r] # NULL
      PROVE  <<<<"table", t, r>>, E.table[r]>> \in SpaceUses(t, A) \ G
  <2>1. r \notin Emptied(A, V) /\ E.table[r] = A.table[r]
    BY <1>1, <1>3
  <2>2. <<<<"table", t, r>>, E.table[r]>> \in SpaceUses(t, A)
    BY <1>3, <2>1 DEF SpaceUses
  <2>3. <<<<"table", t, r>>, E.table[r]>> \notin G
    BY <2>1 DEF GivenUses
  <2> QED
    BY <2>2, <2>3
<1>4. ASSUME NEW v \in Mapped(E) \ Taken(E.maps)
      PROVE  <<<<"page", t, v>>, E.page[v]>> \in SpaceUses(t, A) \ G
  <2>1. v \in Page /\ v \notin V /\ E.page[v] = A.page[v] /\ v \in Mapped(A) \ Taken(A.maps)
    BY <1>1 DEF Mapped
  <2>2. <<<<"page", t, v>>, E.page[v]>> \in SpaceUses(t, A)
    BY <2>1 DEF SpaceUses
  <2>3. <<<<"page", t, v>>, E.page[v]>> \notin G
    BY <2>1 DEF GivenUses
  <2> QED
    BY <2>2, <2>3
<1>5. SpaceUses(t, E) \subseteq SpaceUses(t, A) \ G
  <2> HIDE DEF G
  <2> QED
    BY <1>2, <1>3, <1>4 DEF SpaceUses
<1> QED
  BY <1>5 DEF E

(* The tables that go, and the own pages that go.                          *)
LEMMA TablesGiven ==
  ASSUME NEW A, NEW t, NEW V
  PROVE  TableFrames(A, Emptied(A, V)) \subseteq {d[2] : d \in GivenUses(t, A, Emptied(A, V), V)}
<1> SUFFICES ASSUME NEW r \in Emptied(A, V), A.table[r] # NULL
             PROVE  A.table[r] \in {d[2] : d \in GivenUses(t, A, Emptied(A, V), V)}
  BY DEF TableFrames
<1>1. r \in Tables
  BY DEF Emptied
<1>2. <<<<"table", t, r>>, A.table[r]>> \in SpaceUses(t, A)
  BY <1>1 DEF SpaceUses
<1>3. <<<<"table", t, r>>, A.table[r]>> \in GivenUses(t, A, Emptied(A, V), V)
  BY <1>2 DEF GivenUses
<1> QED
  BY <1>3

LEMMA PagesGiven ==
  ASSUME NEW A, NEW t, NEW R, NEW V \in SUBSET Page, V \cap Taken(A.maps) = {}
  PROVE  PageFrames(A, V) \subseteq {d[2] : d \in GivenUses(t, A, R, V)}
<1> SUFFICES ASSUME NEW v \in V, A.page[v] # NULL
             PROVE  A.page[v] \in {d[2] : d \in GivenUses(t, A, R, V)}
  BY DEF PageFrames
<1>1. v \in Mapped(A) \ Taken(A.maps)
  BY DEF Mapped
<1>2. <<<<"page", t, v>>, A.page[v]>> \in SpaceUses(t, A)
  BY <1>1 DEF SpaceUses
<1>3. <<<<"page", t, v>>, A.page[v]>> \in GivenUses(t, A, R, V)
  BY <1>2 DEF GivenUses
<1> QED
  BY <1>3

(* All that destroy_address_space() frees was in use.                      *)
LEMMA DestroyedGiven ==
  ASSUME NEW A, NEW t, Taken(A.maps) \subseteq Shmem
  PROVE  destroy_address_space(A) \subseteq {d[2] : d \in SpaceUses(t, A)}
<1>1. A.dir \in {d[2] : d \in SpaceUses(t, A)}
  <2>1. <<<<"directory", t>>, A.dir>> \in SpaceUses(t, A)
    BY DEF SpaceUses
  <2> QED
    BY <2>1
<1>2. ASSUME NEW r \in Tables, A.table[r] # NULL
      PROVE  A.table[r] \in {d[2] : d \in SpaceUses(t, A)}
  <2>1. <<<<"table", t, r>>, A.table[r]>> \in SpaceUses(t, A)
    BY <1>2 DEF SpaceUses
  <2> QED
    BY <2>1
<1>3. ASSUME NEW v \in Page \ Shmem, A.page[v] # NULL
      PROVE  A.page[v] \in {d[2] : d \in SpaceUses(t, A)}
  <2>1. v \in Mapped(A) \ Taken(A.maps)
    BY <1>3 DEF Mapped
  <2>2. <<<<"page", t, v>>, A.page[v]>> \in SpaceUses(t, A)
    BY <2>1 DEF SpaceUses
  <2> QED
    BY <2>2
<1> QED
  BY <1>1, <1>2, <1>3 DEF destroy_address_space, TableFrames, PageFrames

(* alloc_map_page() of V: pages that no frame of their own shows go.       *)
LEMMA AllocMapPages ==
  ASSUME NEW A \in Space, NEW t \in Task, NEW V \in SUBSET Page,
         NEW U, NEW C, CanAlloc(U, C), OwnCells(A, t, V) \subseteq C,
         NEW B, B = alloc_map_pages(A, t, V, U)
  PROVE  /\ B \in Space /\ B.maps = A.maps
         /\ \A v \in V : B.page[v] # NULL
         /\ \A v \in Page \ V : B.page[v] = A.page[v]
         /\ SpaceUses(t, B) \subseteq SpaceUses(t, A) \cup NewUses(U, C)
<1> DEFINE q == [v \in V |-> alloc_frame(U, <<"page", t, v>>)]
<1>1. \A v \in V : <<"page", t, v>> \in C
  BY DEF OwnCells, PageCells
<1>2. q \in [V -> Frame] /\ \A v \in V : <<<<"page", t, v>>, q[v]>> \in NewUses(U, C)
  BY <1>1, AllocIsFree DEF NewUses
<1>3. B = map_pages(A, t, V, q, U)
  BY DEF alloc_map_pages
<1> HIDE DEF q
<1>4. TableCells(t, NewTables(A, V)) \subseteq C
  BY DEF OwnCells
<1>5. B \in Space
  BY <1>2, <1>3, <1>4, MapPagesType
<1>6. B.maps = A.maps /\ B.page = [v \in Page |-> IF v \in V THEN q[v] ELSE A.page[v]]
      /\ B = [dir |-> B.dir, table |-> B.table, page |-> B.page, maps |-> A.maps]
  BY <1>3 DEF map_pages
<1>7. SpaceUses(t, [dir |-> B.dir, table |-> B.table, page |-> B.page, maps |-> A.maps])
        \subseteq SpaceUses(t, A) \cup NewUses(U, C)
  BY <1>2, <1>3, <1>4, MapPagesUses
<1>8. SpaceUses(t, B) \subseteq SpaceUses(t, A) \cup NewUses(U, C)
  BY <1>6, <1>7
<1>9. NULL \notin Frame
  BY MemoryAssumption
<1>10. \A v \in V : B.page[v] # NULL
  BY <1>2, <1>6, <1>9
<1>11. \A v \in Page \ V : B.page[v] = A.page[v]
  BY <1>6
<1> QED
  BY <1>5, <1>6, <1>8, <1>10, <1>11

LEMMA NewSpaceOK ==
  ASSUME NEW t \in Task, NEW V \in SUBSET Page, NEW U, CanAlloc(U, SpaceCells(t, V)),
         NEW B, B = NewSpace(t, V, U)
  PROVE  /\ B \in Space /\ B.maps = {}
         /\ \A v \in Page : B.page[v] # NULL <=> v \in V
         /\ SpaceUses(t, B) \subseteq NewUses(U, SpaceCells(t, V))
<1> DEFINE C == SpaceCells(t, V)
           f == alloc_frame(U, <<"directory", t>>)
           E == create_address_space(f)
<1>1. f \in Frame /\ <<<<"directory", t>>, f>> \in NewUses(U, C)
  <2>1. <<"directory", t>> \in C
    BY DEF SpaceCells
  <2> QED
    BY <2>1, AllocIsFree DEF NewUses
<1> HIDE DEF f
<1>2. E.dir = f /\ E.table = [r \in Tables |-> NULL] /\ E.page = [v \in Page |-> NULL]
      /\ E.maps = {} /\ E \in Space
  BY <1>1 DEF create_address_space, Space
<1> HIDE DEF E
<1>3. OwnCells(E, t, V) \subseteq C
  BY DEF OwnCells, SpaceCells, NewTables, TableCells
<1>4. SpaceUses(t, E) \subseteq NewUses(U, C)
  <2>1. Mapped(E) = {} /\ {x \in Tables : E.table[x] # NULL} = {}
    BY <1>2 DEF Mapped
  <2> QED
    BY <1>1, <1>2, <2>1 DEF SpaceUses
<1>5. B = alloc_map_pages(E, t, V, U)
  BY DEF NewSpace, E, f
<1> HIDE DEF C
<1>6. /\ B \in Space /\ B.maps = E.maps
      /\ \A v \in V : B.page[v] # NULL
      /\ \A v \in Page \ V : B.page[v] = E.page[v]
      /\ SpaceUses(t, B) \subseteq SpaceUses(t, E) \cup NewUses(U, C)
  <2>1. CanAlloc(U, C)
    BY DEF C
  <2> QED
    BY <1>2, <1>3, <1>5, <2>1, AllocMapPages
<1> QED
  BY <1>2, <1>4, <1>6 DEF C
-----------------------------------------------------------------------------
(* Worlds.                                                                 *)

Objects == UNION {SharedObject(n) : n \in 1 .. MaxSize}

LEMMA ObjectFields ==
  /\ NULL \notin Objects
  /\ \A s \in Objects : /\ s.size \in 1 .. MaxSize /\ s.refcount \in Nat
                        /\ s.frames \in [1 .. s.size -> Frame]
  /\ \A n \in 1 .. MaxSize, r \in Nat : \A f \in [1 .. n -> Frame] :
       [size |-> n, frames |-> f, refcount |-> r] \in Objects
<1>1. \A s \in Objects : \E n \in 1 .. MaxSize : s \in SharedObject(n)
  BY DEF Objects
<1>2. NULL \notin Objects
  BY <1>1, MemoryAssumption
<1>3. \A s \in Objects : /\ s.size \in 1 .. MaxSize /\ s.refcount \in Nat
                         /\ s.frames \in [1 .. s.size -> Frame]
  <2> TAKE s \in Objects
  <2>1. PICK n \in 1 .. MaxSize : s \in SharedObject(n)
    BY <1>1
  <2>2. s.size = n /\ s.refcount \in Nat /\ s.frames \in [1 .. n -> Frame]
    BY <2>1 DEF SharedObject
  <2> QED
    BY <2>2
<1>4. ASSUME NEW n \in 1 .. MaxSize, NEW r \in Nat, NEW f \in [1 .. n -> Frame]
      PROVE  [size |-> n, frames |-> f, refcount |-> r] \in Objects
  <2>1. [size |-> n, frames |-> f, refcount |-> r] \in SharedObject(n)
    BY DEF SharedObject
  <2> QED
    BY <2>1 DEF Objects
<1> QED
  BY <1>2, <1>3, <1>4

LEMMA UseCells ==
  /\ \A t, A : \A x \in SpaceUses(t, A) :
       x[1][1] \in {"directory", "table", "page"} /\ x[1][2] = t
  /\ \A o, s : \A x \in ObjectUses(o, s) : x[1][1] = "object" /\ x[1][2] = o
<1>1. ASSUME NEW t, NEW A, NEW x \in SpaceUses(t, A)
      PROVE  x[1][1] \in {"directory", "table", "page"} /\ x[1][2] = t
  BY DEF SpaceUses
<1>2. ASSUME NEW o, NEW s, NEW x \in ObjectUses(o, s)
      PROVE  x[1][1] = "object" /\ x[1][2] = o
  BY DEF ObjectUses
<1> QED
  BY <1>1, <1>2

(* The uses of t, which may have no address space.                         *)
OldUses(W, t) == IF W.as[t] = NULL THEN {} ELSE SpaceUses(t, W.as[t])
UsesOf(W, G) == UNION {ObjectUses(o, W.shm[o]) : o \in G}

(* A step that changes the space of t, gives up the uses D of it and the   *)
(* objects G, and adds the uses N.                                         *)
UsesChange(W, X, t, D, G, N) ==
  /\ D \subseteq OldUses(W, t) /\ G \subseteq Obj /\ \A o \in G : W.shm[o] # NULL
  /\ \A u \in Task \ {t} : X.as[u] = W.as[u]
  /\ X.as[t] # NULL => SpaceUses(t, X.as[t]) \subseteq (OldUses(W, t) \ D) \cup N
  /\ \A o \in Obj : X.shm[o] # NULL =>
       \/ ObjectUses(o, X.shm[o]) \subseteq N
       \/ /\ o \notin G /\ W.shm[o] # NULL
          /\ ObjectUses(o, X.shm[o]) = ObjectUses(o, W.shm[o])

LEMMA UsesStep ==
  ASSUME NEW W, NEW X, NEW t \in Task, NEW D, NEW G, NEW N, UsesChange(W, X, t, D, G, N)
  PROVE  /\ D \cup UsesOf(W, G) \subseteq Uses(W)
         /\ Uses(X) \subseteq (Uses(W) \ (D \cup UsesOf(W, G))) \cup N
<1> DEFINE E == D \cup UsesOf(W, G)
<1>1. \A u \in Task : W.as[u] # NULL => SpaceUses(u, W.as[u]) \subseteq Uses(W)
  BY DEF Uses, Live
<1>2. ASSUME NEW o \in Obj, W.shm[o] # NULL, NEW x \in ObjectUses(o, W.shm[o])
      PROVE  x \in Uses(W)
  <2>1. o \in Allocated(W)
    BY <1>2 DEF Allocated
  <2> QED
    BY <1>2, <2>1 DEF Uses
<1>3. OldUses(W, t) \subseteq Uses(W)
  BY <1>1 DEF OldUses
<1>4. E \subseteq Uses(W)
  BY <1>2, <1>3 DEF UsesChange, UsesOf
<1>5. \A x \in D : x[1][1] # "object" /\ x[1][2] = t
  BY UseCells DEF UsesChange, OldUses
<1>6. \A x \in UsesOf(W, G) : x[1][1] = "object" /\ x[1][2] \in G
  BY UseCells DEF UsesOf
<1>7. ASSUME NEW u \in Task, X.as[u] # NULL, NEW x \in SpaceUses(u, X.as[u])
      PROVE  x \in (Uses(W) \ E) \cup N
  <2>1. x[1][1] # "object" /\ x[1][2] = u
    BY UseCells
  <2>2. x \notin UsesOf(W, G)
    BY <1>6, <2>1
  <2>3. CASE u = t
    BY <1>3, <1>7, <2>2, <2>3 DEF UsesChange
  <2>4. CASE u # t
    <3>1. x \notin D
      BY <1>5, <2>1, <2>4
    <3>2. X.as[u] = W.as[u]
      BY <2>4 DEF UsesChange
    <3> QED
      BY <1>1, <1>7, <2>2, <3>1, <3>2
  <2> QED
    BY <2>3, <2>4
<1>8. ASSUME NEW o \in Obj, X.shm[o] # NULL, NEW x \in ObjectUses(o, X.shm[o])
      PROVE  x \in (Uses(W) \ E) \cup N
  <2>1. x[1][1] = "object" /\ x[1][2] = o
    BY UseCells
  <2>2. x \notin D
    BY <1>5, <2>1
  <2>3. CASE ObjectUses(o, X.shm[o]) \subseteq N
    BY <2>3
  <2>4. CASE o \notin G /\ W.shm[o] # NULL
             /\ ObjectUses(o, X.shm[o]) = ObjectUses(o, W.shm[o])
    <3>1. x \notin UsesOf(W, G)
      BY <1>6, <2>1, <2>4
    <3> QED
      BY <1>2, <2>2, <2>4, <3>1
  <2> QED
    BY <1>8, <2>3, <2>4 DEF UsesChange
<1>9. \A x \in Uses(X) : \/ \E u \in Task : X.as[u] # NULL /\ x \in SpaceUses(u, X.as[u])
                         \/ \E o \in Obj : X.shm[o] # NULL /\ x \in ObjectUses(o, X.shm[o])
  <2> TAKE x \in Uses(X)
  <2>1. CASE x \in UNION {SpaceUses(u, X.as[u]) : u \in Live(X)}
    BY <2>1 DEF Live
  <2>2. CASE x \in UNION {ObjectUses(o, X.shm[o]) : o \in Allocated(X)}
    <3>1. PICK o \in Allocated(X) : x \in ObjectUses(o, X.shm[o])
      BY <2>2
    <3> QED
      BY <3>1 DEF Allocated
  <2> QED
    BY <2>1, <2>2 DEF Uses
<1> HIDE DEF E
<1>10. Uses(X) \subseteq (Uses(W) \ E) \cup N
  BY <1>7, <1>8, <1>9
<1> QED
  BY <1>4, <1>10 DEF E

LEMMA NoObjects ==
  ASSUME NEW W
  PROVE  UsesOf(W, {}) = {}
BY DEF UsesOf

(* Such a step, which allocates for the cells C.                           *)
WorldOp(W, X, t, C, D, G) ==
  /\ t \in Task /\ CanAlloc(W.used, C) /\ UsesChange(W, X, t, D, G, NewUses(W.used, C))
  /\ (W.used \ {d[2] : d \in D \cup UsesOf(W, G)}) \cup Frames(W.used, C) \subseteq X.used

LEMMA WorldStep ==
  ASSUME NEW W, NEW X, NEW t, NEW C, NEW D, NEW G, WorldOp(W, X, t, C, D, G),
         Exclusive(Uses(W), W.used)
  PROVE  Exclusive(Uses(X), X.used)
<1>1. PICK N, E : N = NewUses(W.used, C) /\ E = D \cup UsesOf(W, G)
  OBVIOUS
<1>2. t \in Task /\ UsesChange(W, X, t, D, G, N) /\ CanAlloc(W.used, C)
  BY <1>1 DEF WorldOp
<1>3. E \subseteq Uses(W) /\ Uses(X) \subseteq (Uses(W) \ E) \cup NewUses(W.used, C)
  <2>1. /\ D \cup UsesOf(W, G) \subseteq Uses(W)
        /\ Uses(X) \subseteq (Uses(W) \ (D \cup UsesOf(W, G))) \cup N
    BY <1>2, UsesStep
  <2> QED
    BY <1>1, <2>1
<1>4. PICK P, Q, R, V : P = Uses(W) /\ Q = Uses(X) /\ R = W.used /\ V = X.used
  OBVIOUS
<1>5. CanAlloc(R, C) /\ Exclusive(P, R) /\ E \subseteq P /\ Q \subseteq (P \ E) \cup NewUses(R, C)
  BY <1>2, <1>3, <1>4
<1>6. (R \ {d[2] : d \in E}) \cup Frames(R, C) \subseteq V
  BY <1>1, <1>4 DEF WorldOp
<1>7. Exclusive(Q, V)
  BY <1>5, <1>6, ExclusiveStep
<1> QED
  BY <1>4, <1>7

(* The inductive invariant of a world: where its values lie, that the      *)
(* mappings of a program lie apart in the shared region and show their     *)
(* objects, that objects have a reference more than mappings, and that     *)
(* frames have one use.                                                    *)
TypeOK(W) ==
  /\ W.as \in [Task -> Space \cup {NULL}]
  /\ W.shm \in [Obj -> Objects \cup {NULL}]
  /\ W.table \subseteq Allocated(W)
  /\ W.used \subseteq Frame /\ IsFiniteSet(W.used)

Apart(M) ==
  \A m \in M : /\ Ends(m.start, m.size) \subseteq Shmem
               /\ \A k \in M : k # m => Ends(k.start, k.size) \cap Ends(m.start, m.size) = {}

Shown(W, t) ==
  \A m \in W.as[t].maps :
    /\ W.shm[m.obj] # NULL /\ W.shm[m.obj].size = m.size
    /\ \A i \in 1 .. m.size : W.as[t].page[m.start + i - 1] = W.shm[m.obj].frames[i]

Counted(W) == \A o \in Allocated(W) : W.shm[o].refcount > Cardinality(Refs(W, o))

Good(W) ==
  /\ TypeOK(W) /\ \A t \in Live(W) : Apart(W.as[t].maps) /\ Shown(W, t)
  /\ Counted(W) /\ Exclusive(Uses(W), W.used)

(* The surface s has its object to itself: no program finds it, and it is  *)
(* mapped once, by the owner.                                              *)
Attached(W, s) ==
  /\ s.owner \in Live(W) /\ s.obj \in Allocated(W) \ W.table
  /\ [start |-> s.start, size |-> W.shm[s.obj].size, obj |-> s.obj] \in W.as[s.owner].maps
  /\ \A t \in Live(W) : \A m \in W.as[t].maps :
       m.obj = s.obj => t = s.owner /\ m.start = s.start

LEMMA RefIs ==
  ASSUME NEW W, NEW o, NEW x
  PROVE  x \in Refs(W, o) <=> \E t \in Live(W) : \E m \in W.as[t].maps : m.obj = o /\ x = <<t, m>>
BY DEF Refs, RefsIn

LEMMA MappingFinite == IsFiniteSet(Mapping)
<1> DEFINE S == (Shmem \X (1 .. MaxSize)) \X Obj
           f == [x \in S |-> [start |-> x[1][1], size |-> x[1][2], obj |-> x[2]]]
<1>1. IsFiniteSet(Shmem)
  BY MemoryAssumption, FS_Subset DEF Page
<1>2. IsFiniteSet(1 .. MaxSize)
  BY MemoryAssumption, FS_Interval
<1>3. IsFiniteSet(S)
  BY <1>1, <1>2, MemoryAssumption, FS_Product
<1>4. f \in Surjection(S, Mapping)
  <2>1. f \in [S -> Mapping]
    BY DEF Mapping
  <2>2. ASSUME NEW m \in Mapping PROVE \E x \in S : f[x] = m
    <3>1. m.start \in Shmem /\ m.size \in 1 .. MaxSize /\ m.obj \in Obj
          /\ m = [start |-> m.start, size |-> m.size, obj |-> m.obj]
      BY DEF Mapping
    <3>2. <<<<m.start, m.size>>, m.obj>> \in S
      BY <3>1
    <3>3. f[<<<<m.start, m.size>>, m.obj>>] = m
      BY <3>1, <3>2
    <3> QED
      BY <3>2, <3>3
  <2> QED
    BY <2>1, <2>2 DEF Surjection
<1> HIDE DEF S, f
<1> QED
  BY <1>3, <1>4, FiniteImage

LEMMA RefsFinite ==
  ASSUME NEW W, TypeOK(W), NEW o
  PROVE  Refs(W, o) \subseteq Task \X Mapping /\ IsFiniteSet(Refs(W, o))
<1>1. \A t \in Live(W) : t \in Task /\ W.as[t].maps \subseteq Mapping
  BY DEF TypeOK, Live, Space
<1>2. Refs(W, o) \subseteq Task \X Mapping
  BY <1>1, RefIs
<1>3. IsFiniteSet(Task \X Mapping)
  BY MappingFinite, MemoryAssumption, FS_Product
<1> QED
  BY <1>2, <1>3, FS_Subset

(* A step that changes one address space, and of its mappings nothing or   *)
(* all.                                                                    *)
SameMaps(W, t, B) ==
  /\ t \in Live(W) /\ B.maps = W.as[t].maps
  /\ \A v \in Shmem : B.page[v] = W.as[t].page[v]

LEMMA SpaceChange ==
  ASSUME NEW W, Good(W), NEW t \in Task, NEW B \in Space \cup {NULL},
         NEW U, U \subseteq Frame, IsFiniteSet(U),
         NEW X, X = WithSpace(W, t, B, U), Exclusive(Uses(X), U),
         B # NULL => \/ B.maps = {}
                     \/ SameMaps(W, t, B)
  PROVE  /\ Good(X)
         /\ \A s : Attached(W, s) /\ (s.owner # t \/ (B # NULL /\ SameMaps(W, t, B)))
                     => Attached(X, s)
<1>1. X.as = [W.as EXCEPT ![t] = B] /\ X.shm = W.shm /\ X.table = W.table /\ X.used = U
  BY DEF WithSpace
<1>2. W.as \in [Task -> Space \cup {NULL}] /\ TypeOK(W)
  BY DEF Good, TypeOK
<1>3. Allocated(X) = Allocated(W)
  BY <1>1 DEF Allocated
<1>4. TypeOK(X)
  BY <1>1, <1>2, <1>3 DEF TypeOK
<1>5. \A u \in Task \ {t} : X.as[u] = W.as[u]
  BY <1>1, <1>2
<1>6. X.as[t] = B
  BY <1>1, <1>2
<1>7. \A u \in Live(X) \ {t} : u \in Live(W) /\ X.as[u] = W.as[u]
  BY <1>5 DEF Live
<1>8. t \in Live(X) => B # NULL
  BY <1>6 DEF Live
<1>9. \A u \in Live(X) : \/ X.as[u].maps = {}
                         \/ /\ u \in Live(W) /\ X.as[u].maps = W.as[u].maps
                            /\ \A v \in Shmem : X.as[u].page[v] = W.as[u].page[v]
  BY <1>6, <1>7, <1>8 DEF SameMaps
<1>10. ASSUME NEW u \in Live(X) PROVE Apart(X.as[u].maps) /\ Shown(X, u)
  <2>1. CASE X.as[u].maps = {}
    BY <2>1 DEF Apart, Shown
  <2>2. CASE u \in Live(W) /\ X.as[u].maps = W.as[u].maps
             /\ \A v \in Shmem : X.as[u].page[v] = W.as[u].page[v]
    <3>1. Apart(W.as[u].maps) /\ Shown(W, u)
      BY <2>2 DEF Good
    <3>2. ASSUME NEW m \in W.as[u].maps, NEW i \in 1 .. m.size
          PROVE  m.start + i - 1 \in Shmem
      <4>1. m.start \in Nat /\ m.size \in Nat
        BY <1>2, <2>2, MemoryAssumption DEF Live, Space, Mapping, Page
      <4>2. m.start + i - 1 \in Ends(m.start, m.size)
        BY <4>1 DEF Ends
      <4> QED
        BY <3>1, <4>2 DEF Apart
    <3>3. Shown(X, u)
      BY <1>1, <2>2, <3>1, <3>2 DEF Shown
    <3> QED
      BY <2>2, <3>1, <3>3
  <2> QED
    BY <1>9, <2>1, <2>2
<1>11. ASSUME NEW o PROVE Refs(X, o) \subseteq Refs(W, o)
  BY <1>9, RefIs
<1>12. Counted(X)
  <2> SUFFICES ASSUME NEW o \in Allocated(X)
               PROVE  X.shm[o].refcount > Cardinality(Refs(X, o))
    BY DEF Counted
  <2>1. Refs(X, o) \in SUBSET Refs(W, o)
    BY <1>11
  <2>2. IsFiniteSet(Refs(W, o))
    BY <1>2, RefsFinite
  <2>3. Cardinality(Refs(X, o)) <= Cardinality(Refs(W, o)) /\ IsFiniteSet(Refs(X, o))
    BY <2>1, <2>2, FS_Subset
  <2>4. W.shm[o].refcount > Cardinality(Refs(W, o))
    BY <1>3 DEF Good, Counted
  <2>5. W.shm[o] \in Objects
    BY <1>2, <1>3 DEF Allocated, TypeOK
  <2>6. W.shm[o].refcount \in Nat /\ Cardinality(Refs(W, o)) \in Nat /\ Cardinality(Refs(X, o)) \in Nat
    BY <2>2, <2>3, <2>5, ObjectFields, FS_CardinalityType
  <2> QED
    BY <1>1, <2>3, <2>4, <2>6
<1>13. Good(X)
  BY <1>1, <1>4, <1>10, <1>12 DEF Good
<1>14. ASSUME NEW s, Attached(W, s), s.owner # t \/ (B # NULL /\ SameMaps(W, t, B))
       PROVE  Attached(X, s)
  <2>1. s.owner \in Live(W) /\ s.obj \in Allocated(X) \ X.table
    BY <1>1, <1>3, <1>14 DEF Attached
  <2>2. s.owner \in Live(X) /\ X.as[s.owner].maps = W.as[s.owner].maps
    <3>1. CASE s.owner # t
      BY <1>5, <2>1, <3>1 DEF Live
    <3>2. CASE s.owner = t /\ B # NULL /\ SameMaps(W, t, B)
      BY <1>6, <3>2 DEF Live, SameMaps
    <3> QED
      BY <1>14, <3>1, <3>2
  <2>3. \A u \in Live(X) : \A m \in X.as[u].maps : u \in Live(W) /\ m \in W.as[u].maps
    BY <1>9
  <2> QED
    BY <1>1, <1>14, <2>1, <2>2, <2>3 DEF Attached
<1> QED
  BY <1>13, <1>14

LEMMA AllocNothing ==
  ASSUME NEW W, TypeOK(W)
  PROVE  CanAlloc(W.used, {}) /\ NewUses(W.used, {}) = {} /\ Frames(W.used, {}) = {}
BY FS_EmptySet DEF TypeOK, CanAlloc, NewUses, Frames

(* A step that changes the space of t to B, gives up the uses D and        *)
(* allocates for the cells C.                                              *)
SpaceOp(W, t, B, U, C, D) ==
  /\ t \in Task /\ B \in Space \cup {NULL} /\ U \subseteq Frame /\ IsFiniteSet(U)
  /\ CanAlloc(W.used, C) /\ D \subseteq OldUses(W, t)
  /\ B # NULL => SpaceUses(t, B) \subseteq (OldUses(W, t) \ D) \cup NewUses(W.used, C)
  /\ (W.used \ {d[2] : d \in D}) \cup Frames(W.used, C) \subseteq U
  /\ B # NULL => B.maps = {} \/ SameMaps(W, t, B)

SpaceDone(W, t, B, X) ==
  /\ Good(X)
  /\ \A s : Attached(W, s) /\ (s.owner # t \/ (B # NULL /\ SameMaps(W, t, B))) => Attached(X, s)

LEMMA SpaceStep ==
  ASSUME NEW W, Good(W), NEW t, NEW B, NEW U, NEW C, NEW D, SpaceOp(W, t, B, U, C, D)
  PROVE  SpaceDone(W, t, B, WithSpace(W, t, B, U))
<1>1. PICK X : X = WithSpace(W, t, B, U)
  OBVIOUS
<1>2. X.as = [W.as EXCEPT ![t] = B] /\ X.shm = W.shm /\ X.used = U
  BY <1>1 DEF WithSpace
<1>3. W.as \in [Task -> Space \cup {NULL}] /\ Exclusive(Uses(W), W.used) /\ t \in Task
  BY DEF Good, TypeOK, SpaceOp
<1>4. PICK G : G = {} /\ UsesOf(W, G) = {}
  BY NoObjects
<1>5. UsesChange(W, X, t, D, G, NewUses(W.used, C))
  BY <1>2, <1>3, <1>4 DEF UsesChange, SpaceOp
<1>6. (W.used \ {d[2] : d \in D \cup UsesOf(W, G)}) \cup Frames(W.used, C) \subseteq X.used
  BY <1>2, <1>4 DEF SpaceOp
<1>7. WorldOp(W, X, t, C, D, G)
  BY <1>3, <1>5, <1>6 DEF SpaceOp, WorldOp
<1>8. Exclusive(Uses(X), U)
  BY <1>2, <1>3, <1>7, WorldStep
<1>9. Good(X) /\ \A s : Attached(W, s) /\ (s.owner # t \/ (B # NULL /\ SameMaps(W, t, B)))
                   => Attached(X, s)
  BY <1>1, <1>3, <1>8, SpaceChange DEF SpaceOp
<1> QED
  BY <1>1, <1>9 DEF SpaceDone

LEMMA LiveSpace ==
  ASSUME NEW W, Good(W), NEW t \in Live(W)
  PROVE  /\ t \in Task /\ W.as[t] \in Space /\ OldUses(W, t) = SpaceUses(t, W.as[t])
         /\ Taken(W.as[t].maps) \subseteq Shmem
<1>1. t \in Task /\ W.as[t] # NULL /\ W.as[t] \in Space
  BY DEF Good, TypeOK, Live
<1>2. Apart(W.as[t].maps)
  BY DEF Good
<1>3. Taken(W.as[t].maps) \subseteq Shmem
  BY <1>2 DEF Apart, Taken
<1> QED
  BY <1>1, <1>3 DEF OldUses

(* A program gets pages V of its own.                                      *)
GrowOp(W, t, V, C, B, U, X) ==
  /\ Good(W) /\ t \in Live(W) /\ V \in SUBSET Page /\ V \cap Shmem = {}
  /\ C = OwnCells(W.as[t], t, V) /\ Enough(W.used, C)
  /\ B = alloc_map_pages(W.as[t], t, V, W.used)
  /\ U = W.used \cup Frames(W.used, C) /\ X = WithSpace(W, t, B, U)

GrowDone(W, t, V, B, X) ==
  /\ Good(X) /\ B \in Space /\ \A s : Attached(W, s) => Attached(X, s)
  /\ \A v \in V : B.page[v] # NULL
  /\ \A v \in Page \ V : B.page[v] = W.as[t].page[v]

LEMMA GrowWorld ==
  ASSUME NEW W, NEW t, NEW V, NEW C, NEW B, NEW U, NEW X, GrowOp(W, t, V, C, B, U, X)
  PROVE  GrowDone(W, t, V, B, X)
<1> USE DEF GrowOp
<1>1. t \in Task /\ W.as[t] \in Space /\ OldUses(W, t) = SpaceUses(t, W.as[t])
  BY LiveSpace
<1>2. W.used \subseteq Frame /\ IsFiniteSet(W.used) /\ W.as \in [Task -> Space \cup {NULL}]
      /\ Exclusive(Uses(W), W.used)
  BY DEF Good, TypeOK
<1>3. CanAlloc(W.used, C)
  BY <1>1, <1>2, OwnCellsOK DEF CanAlloc
<1>4. /\ B \in Space /\ B.maps = W.as[t].maps
      /\ \A v \in V : B.page[v] # NULL
      /\ \A v \in Page \ V : B.page[v] = W.as[t].page[v]
      /\ SpaceUses(t, B) \subseteq SpaceUses(t, W.as[t]) \cup NewUses(W.used, C)
  BY <1>1, <1>3, AllocMapPages
<1>5. SameMaps(W, t, B) /\ B # NULL
  BY <1>4, MemoryAssumption DEF SameMaps, Page
<1>7. U \subseteq Frame /\ IsFiniteSet(U)
  <2>1. Frames(W.used, C) \subseteq Frame /\ IsFiniteSet(Frames(W.used, C))
    BY <1>3, FramesAreFree
  <2> QED
    BY <1>2, <2>1, FS_Union
<1>8. SpaceOp(W, t, B, U, C, {})
  BY <1>1, <1>3, <1>4, <1>5, <1>7 DEF SpaceOp
<1>9. SpaceDone(W, t, B, X)
  BY <1>8, SpaceStep
<1> QED
  BY <1>4, <1>5, <1>9 DEF SpaceDone, GrowDone

(* A program gives up pages V of its own.                                  *)
ShrinkOp(W, t, V, B, U, X) ==
  /\ Good(W) /\ t \in Live(W) /\ V \in SUBSET Page /\ V \cap Shmem = {}
  /\ B = unmap_pages(W.as[t], V)
  /\ U = W.used \ Freed(W.as[t], V) /\ X = WithSpace(W, t, B, U)

ShrinkDone(W, t, V, B, X) ==
  /\ Good(X) /\ B \in Space /\ \A s : Attached(W, s) => Attached(X, s)
  /\ \A v \in Page : B.page[v] = IF v \in V THEN NULL ELSE W.as[t].page[v]

LEMMA ShrinkWorld ==
  ASSUME NEW W, NEW t, NEW V, NEW B, NEW U, NEW X, ShrinkOp(W, t, V, B, U, X)
  PROVE  ShrinkDone(W, t, V, B, X)
<1> USE DEF ShrinkOp
<1> DEFINE A == W.as[t]
           D == GivenUses(t, A, Emptied(A, V), V)
<1>1. t \in Task /\ A \in Space /\ OldUses(W, t) = SpaceUses(t, A)
      /\ Taken(A.maps) \subseteq Shmem
  BY LiveSpace
<1>2. W.used \subseteq Frame /\ IsFiniteSet(W.used) /\ W.as \in [Task -> Space \cup {NULL}]
      /\ Exclusive(Uses(W), W.used) /\ TypeOK(W)
  BY DEF Good, TypeOK
<1>3. B \in Space /\ B.maps = A.maps
      /\ B = [dir |-> B.dir, table |-> B.table, page |-> B.page, maps |-> A.maps]
      /\ \A v \in Page : B.page[v] = IF v \in V THEN NULL ELSE A.page[v]
  <2>1. B \in Space
    BY <1>1, UnmapPagesType
  <2> QED
    BY <2>1 DEF unmap_pages
<1>4. SpaceUses(t, B) \subseteq SpaceUses(t, A) \ D
  <2>1. Taken(A.maps) \subseteq Taken(A.maps) \cup V
    OBVIOUS
  <2>2. SpaceUses(t, [dir |-> B.dir, table |-> B.table, page |-> B.page, maps |-> A.maps])
          \subseteq SpaceUses(t, A) \ D
    BY <1>1, <2>1, UnmapPagesUses
  <2> QED
    BY <1>3, <2>2
<1>5. SameMaps(W, t, B) /\ B # NULL
  BY <1>3, MemoryAssumption DEF SameMaps, Page
<1>7. U \subseteq Frame /\ IsFiniteSet(U)
  BY <1>2, FS_Difference
<1>8. Freed(A, V) \subseteq {d[2] : d \in D}
  BY <1>1, TablesGiven, PagesGiven DEF Freed
<1>9. D \subseteq OldUses(W, t)
  BY <1>1 DEF GivenUses
<1> HIDE DEF D, A
<1>10. SpaceOp(W, t, B, U, {}, D)
  BY <1>1, <1>2, <1>3, <1>4, <1>5, <1>7, <1>8, <1>9, AllocNothing DEF SpaceOp, A
<1>11. SpaceDone(W, t, B, X)
  BY <1>10, SpaceStep
<1> QED
  BY <1>3, <1>5, <1>11 DEF SpaceDone, ShrinkDone, A

(* What goes with the space of t.                                          *)
OldFrames(W, t) == IF W.as[t] = NULL THEN {} ELSE destroy_address_space(W.as[t])

LEMMA OldFramesGiven ==
  ASSUME NEW W, Good(W), NEW t \in Task
  PROVE  OldFrames(W, t) \subseteq {d[2] : d \in OldUses(W, t)} /\ OldFrames(W, t) \subseteq W.used
<1>1. CASE W.as[t] = NULL
  BY <1>1 DEF OldFrames
<1>2. CASE W.as[t] # NULL
  <2>1. t \in Live(W)
    BY <1>2 DEF Live
  <2>2. Taken(W.as[t].maps) \subseteq Shmem /\ OldUses(W, t) = SpaceUses(t, W.as[t])
    BY <2>1, LiveSpace
  <2>3. OldFrames(W, t) \subseteq {d[2] : d \in SpaceUses(t, W.as[t])}
    BY <1>2, <2>2, DestroyedGiven DEF OldFrames
  <2>4. \A d \in SpaceUses(t, W.as[t]) : d \in Uses(W) /\ d[2] \in W.used
    BY <2>1 DEF Uses, Good, Exclusive
  <2> QED
    BY <2>2, <2>3, <2>4
<1> QED
  BY <1>1, <1>2

(* A program is loaded, or forked, in the place of what t had.             *)
NewOp(W, t, V, C, B, U, X) ==
  /\ Good(W) /\ t \in Task /\ V \in SUBSET Page
  /\ C = SpaceCells(t, V) /\ Enough(W.used, C) /\ B = NewSpace(t, V, W.used)
  /\ U = (W.used \cup Frames(W.used, C)) \ OldFrames(W, t) /\ X = WithSpace(W, t, B, U)

NewDone(W, t, V, B, X) ==
  /\ Good(X) /\ B \in Space /\ \A s : Attached(W, s) /\ s.owner # t => Attached(X, s)
  /\ \A v \in Page : B.page[v] # NULL <=> v \in V

LEMMA NewWorld ==
  ASSUME NEW W, NEW t, NEW V, NEW C, NEW B, NEW U, NEW X, NewOp(W, t, V, C, B, U, X)
  PROVE  NewDone(W, t, V, B, X)
<1> USE DEF NewOp
<1>1. W.used \subseteq Frame /\ IsFiniteSet(W.used) /\ W.as \in [Task -> Space \cup {NULL}]
      /\ Exclusive(Uses(W), W.used)
  BY DEF Good, TypeOK
<1>2. CanAlloc(W.used, C)
  BY <1>1, SpaceCellsOK DEF CanAlloc
<1>3. /\ B \in Space /\ B.maps = {} /\ B # NULL
      /\ \A v \in Page : B.page[v] # NULL <=> v \in V
      /\ SpaceUses(t, B) \subseteq NewUses(W.used, C)
  BY <1>2, NewSpaceOK, MemoryAssumption
<1>5. OldFrames(W, t) \subseteq {d[2] : d \in OldUses(W, t)} /\ OldFrames(W, t) \subseteq W.used
  BY OldFramesGiven
<1>6. Frames(W.used, C) \cap W.used = {} /\ Frames(W.used, C) \subseteq Frame
      /\ IsFiniteSet(Frames(W.used, C))
  BY <1>2, FramesAreFree
<1>7. U \subseteq Frame /\ IsFiniteSet(U)
  <2>1. IsFiniteSet(W.used \cup Frames(W.used, C))
    BY <1>1, <1>6, FS_Union
  <2> QED
    BY <1>1, <1>6, <2>1, FS_Difference
<1>8. SpaceOp(W, t, B, U, C, OldUses(W, t))
  BY <1>2, <1>3, <1>5, <1>6, <1>7 DEF SpaceOp
<1>9. SpaceDone(W, t, B, X)
  BY <1>8, SpaceStep
<1> QED
  BY <1>3, <1>9 DEF SpaceDone, NewDone

(* A zombie is reaped.                                                     *)
LEMMA ReapWorld ==
  ASSUME NEW W, Good(W), NEW t \in Task,
         NEW X, X = WithSpace(W, t, NULL, W.used \ OldFrames(W, t))
  PROVE  Good(X) /\ \A s : Attached(W, s) /\ s.owner # t => Attached(X, s)
<1>1. W.used \subseteq Frame /\ IsFiniteSet(W.used) /\ W.as \in [Task -> Space \cup {NULL}]
      /\ Exclusive(Uses(W), W.used) /\ TypeOK(W)
  BY DEF Good, TypeOK
<1>2. PICK U : U = W.used \ OldFrames(W, t)
  OBVIOUS
<1>3. U \subseteq Frame /\ IsFiniteSet(U)
  BY <1>1, <1>2, FS_Difference
<1>4. OldFrames(W, t) \subseteq {d[2] : d \in OldUses(W, t)}
  BY OldFramesGiven
<1>5. SpaceOp(W, t, NULL, U, {}, OldUses(W, t))
  BY <1>1, <1>2, <1>3, <1>4, AllocNothing DEF SpaceOp
<1>6. SpaceDone(W, t, NULL, X)
  BY <1>2, <1>5, SpaceStep
<1> QED
  BY <1>6 DEF SpaceDone
-----------------------------------------------------------------------------
(* Shared objects.                                                         *)

(* The same programs, with the same pages outside the shared region.       *)
SameHeaps(W, X) ==
  /\ Live(X) = Live(W)
  /\ \A t \in Live(W) : \A v \in Page \ Shmem : X.as[t].page[v] = W.as[t].page[v]

LEMMA GoodFields ==
  ASSUME NEW W, Good(W)
  PROVE  /\ TypeOK(W) /\ W.as \in [Task -> Space \cup {NULL}]
         /\ W.shm \in [Obj -> Objects \cup {NULL}]
         /\ W.table \subseteq Allocated(W) /\ Exclusive(Uses(W), W.used)
         /\ W.used \subseteq Frame /\ IsFiniteSet(W.used)
         /\ \A o \in Allocated(W) : o \in Obj /\ W.shm[o] \in Objects
         /\ \A t \in Live(W) : t \in Task /\ W.as[t] \in Space
BY DEF Good, TypeOK, Allocated, Live

(* The mappings of a program show allocated objects.                       *)
LEMMA MapFields ==
  ASSUME NEW W, Good(W), NEW t \in Live(W), NEW m \in W.as[t].maps
  PROVE  /\ m \in Mapping /\ m.obj \in Allocated(W) /\ m.start \in Nat
         /\ m.size \in 1 .. MaxSize /\ m.size \in Nat /\ m.size >= 1
         /\ m.start \in Ends(m.start, m.size)
<1>1. m \in Mapping
  BY GoodFields DEF Space
<1>2. m.obj \in Obj /\ m.start \in Nat /\ m.size \in 1 .. MaxSize /\ m.size \in Nat /\ m.size >= 1
  BY <1>1, MemoryAssumption DEF Mapping, Page
<1>3. W.shm[m.obj] # NULL
  BY DEF Good, Shown
<1>4. m.start \in Ends(m.start, m.size)
  BY <1>2 DEF Ends
<1> QED
  BY <1>1, <1>2, <1>3, <1>4 DEF Allocated

LEMMA CreateWorld ==
  ASSUME NEW W, Good(W), NEW o \in Obj \ Allocated(W), NEW n \in 1 .. MaxSize,
         Enough(W.used, ObjectCells(o, n)), NEW X, X = shm_create(W, o, n)
  PROVE  /\ Good(X) /\ X.as = W.as /\ X.table = W.table
         /\ Allocated(X) = Allocated(W) \cup {o} /\ X.shm[o].size = n /\ Refs(X, o) = {}
         /\ X.used = W.used \cup Frames(W.used, ObjectCells(o, n))
         /\ \A s : Attached(W, s) => Attached(X, s)
<1> DEFINE C == ObjectCells(o, n)
           f == [i \in 1 .. n |-> alloc_frame(W.used, <<"object", o, i>>)]
           s == [size |-> n, refcount |-> 1, frames |-> f]
<1>1. W.shm \in [Obj -> Objects \cup {NULL}] /\ W.used \subseteq Frame /\ IsFiniteSet(W.used)
  BY GoodFields
<1>2. CanAlloc(W.used, C)
  BY <1>1, ObjectCellsOK DEF CanAlloc
<1>3. \A i \in 1 .. n : <<"object", o, i>> \in C
  BY DEF ObjectCells
<1>4. f \in [1 .. n -> Frame]
  BY <1>2, <1>3, AllocIsFree
<1>5. ObjectUses(o, s) \subseteq NewUses(W.used, C)
  BY <1>3 DEF ObjectUses, NewUses
<1>6. X.as = W.as /\ X.shm = [W.shm EXCEPT ![o] = s] /\ X.table = W.table
      /\ X.used = W.used \cup Frames(W.used, C)
  BY DEF shm_create
<1> HIDE DEF f, C
<1>7. s \in Objects /\ s.size = n /\ s.refcount = 1
  <2>1. 1 \in Nat /\ s = [size |-> n, frames |-> f, refcount |-> 1]
    OBVIOUS
  <2> HIDE DEF s
  <2>2. s \in Objects
    BY <1>4, <2>1, ObjectFields
  <2> QED
    BY <2>1, <2>2
<1> HIDE DEF s
<1>8. X.shm[o] = s /\ \A p \in Obj \ {o} : X.shm[p] = W.shm[p]
  BY <1>1, <1>6
<1>9. Allocated(X) = Allocated(W) \cup {o}
  BY <1>7, <1>8, ObjectFields DEF Allocated
<1>10. \A p \in Allocated(W) : X.shm[p] = W.shm[p]
  BY <1>8 DEF Allocated
<1>11. X.used \subseteq Frame /\ IsFiniteSet(X.used)
  <2>1. Frames(W.used, C) \subseteq Frame /\ IsFiniteSet(Frames(W.used, C))
    BY <1>2, FramesAreFree
  <2>2. IsFiniteSet(W.used \cup Frames(W.used, C))
    BY <1>1, <2>1, FS_Union
  <2> QED
    BY <1>1, <1>6, <2>1, <2>2
<1>12. TypeOK(X)
  <2>1. X.shm \in [Obj -> Objects \cup {NULL}]
    BY <1>1, <1>6, <1>7
  <2> QED
    BY <1>6, <1>9, <1>11, <2>1, GoodFields DEF TypeOK
<1>13. Live(X) = Live(W)
  BY <1>6 DEF Live
<1>14. ASSUME NEW t \in Live(X) PROVE Apart(X.as[t].maps) /\ Shown(X, t)
  <2>1. Apart(W.as[t].maps) /\ Shown(W, t) /\ t \in Live(W)
    BY <1>13 DEF Good
  <2>2. \A m \in W.as[t].maps : m.obj \in Allocated(W)
    BY <2>1, MapFields
  <2>3. Shown(X, t)
    BY <1>6, <1>10, <2>1, <2>2 DEF Shown
  <2> QED
    BY <1>6, <2>1, <2>3
<1>15. \A p : Refs(X, p) = Refs(W, p)
  BY <1>6, <1>13 DEF Refs
<1>16. Refs(W, o) = {}
  BY RefIs, MapFields
<1>17. Counted(X)
  <2> SUFFICES ASSUME NEW p \in Allocated(X)
               PROVE  X.shm[p].refcount > Cardinality(Refs(X, p))
    BY DEF Counted
  <2>1. CASE p = o
    BY <1>7, <1>8, <1>15, <1>16, <2>1, FS_EmptySet
  <2>2. CASE p # o
    BY <1>9, <1>10, <1>15, <2>2 DEF Good, Counted
  <2> QED
    BY <2>1, <2>2
<1>18. Exclusive(Uses(X), X.used)
  <2>1. PICK G : G = {} /\ UsesOf(W, G) = {}
    BY NoObjects
  <2>2. UsesChange(W, X, InitTask, {}, G, NewUses(W.used, C))
    <3>1. X.as[InitTask] # NULL => SpaceUses(InitTask, X.as[InitTask]) \subseteq OldUses(W, InitTask)
      BY <1>6 DEF OldUses
    <3>2. ASSUME NEW p \in Obj, X.shm[p] # NULL
          PROVE  \/ ObjectUses(p, X.shm[p]) \subseteq NewUses(W.used, C)
                 \/ W.shm[p] # NULL /\ ObjectUses(p, X.shm[p]) = ObjectUses(p, W.shm[p])
      <4>1. CASE p = o
        BY <1>5, <1>8, <4>1
      <4>2. CASE p # o
        BY <1>8, <3>2, <4>2
      <4> QED
        BY <4>1, <4>2
    <3> QED
      BY <1>6, <2>1, <3>1, <3>2 DEF UsesChange
  <2>3. (W.used \ {d[2] : d \in {} \cup UsesOf(W, G)}) \cup Frames(W.used, C) \subseteq X.used
    BY <1>6
  <2>4. WorldOp(W, X, InitTask, C, {}, G)
    BY <1>2, <2>2, <2>3, MemoryAssumption DEF WorldOp
  <2> QED
    BY <2>4, WorldStep, GoodFields
<1>19. Good(X)
  BY <1>12, <1>14, <1>17, <1>18 DEF Good
<1>20. ASSUME NEW a, Attached(W, a) PROVE Attached(X, a)
  BY <1>6, <1>9, <1>10, <1>13, <1>20 DEF Attached
<1> QED
  BY <1>6, <1>7, <1>8, <1>9, <1>15, <1>16, <1>19, <1>20 DEF C

(* An object that programs find from now on.                               *)
LEMMA ListedWorld ==
  ASSUME NEW W, Good(W), NEW o \in Allocated(W), Refs(W, o) = {},
         NEW X, X.as = W.as, X.shm = W.shm, X.used = W.used, X.table = W.table \cup {o}
  PROVE  Good(X) /\ \A s : Attached(W, s) => Attached(X, s)
<1>1. Live(X) = Live(W) /\ Allocated(X) = Allocated(W)
  BY DEF Live, Allocated
<1>2. TypeOK(X)
  BY <1>1, GoodFields DEF TypeOK
<1>3. Uses(X) = Uses(W) /\ \A p : Refs(X, p) = Refs(W, p)
  BY <1>1 DEF Uses, Refs
<1>4. \A t \in Live(X) : Apart(X.as[t].maps) /\ Shown(X, t)
  BY <1>1 DEF Good, Shown
<1>5. Counted(X)
  BY <1>1, <1>3 DEF Good, Counted
<1>6. Good(X)
  BY <1>2, <1>3, <1>4, <1>5, GoodFields DEF Good
<1>7. ASSUME NEW s, Attached(W, s) PROVE Attached(X, s)
  <2>1. s.obj # o
    <3>1. PICK t \in Live(W) : \E m \in W.as[t].maps : m.obj = s.obj
      BY <1>7 DEF Attached
    <3>2. PICK m \in W.as[t].maps : m.obj = s.obj
      BY <3>1
    <3>3. <<t, m>> \in Refs(W, s.obj)
      BY <3>2, RefIs
    <3> QED
      BY <3>3
  <2> QED
    BY <1>1, <1>7, <2>1 DEF Attached
<1> QED
  BY <1>6, <1>7

LEMMA TakenMore ==
  ASSUME NEW M, NEW m
  PROVE  Taken(M \cup {m}) = Taken(M) \cup Ends(m.start, m.size)
<1>1. \A x : x \in Taken(M \cup {m}) <=> x \in Taken(M) \/ x \in Ends(m.start, m.size)
  BY DEF Taken
<1> QED
  BY <1>1

(* Where a mapping goes, there is nothing yet.                             *)
LEMMA RegionFree ==
  ASSUME NEW A, NEW n \in Nat, n >= 1, Places(A, n) # {}, NEW v, v = Least(Places(A, n))
  PROVE  /\ v \in Shmem /\ v \in Nat /\ Region(A, n) = Ends(v, n) /\ v \in Ends(v, n)
         /\ Ends(v, n) \subseteq Shmem \ Taken(A.maps)
<1>1. Places(A, n) \subseteq Nat
  BY MemoryAssumption DEF Places, Page
<1>2. v \in Places(A, n)
  BY <1>1, LeastIn
<1>3. v \in Nat
  BY <1>1, <1>2
<1>4. v \in Shmem /\ Ends(v, n) \subseteq Shmem \ Taken(A.maps)
  BY <1>2 DEF Places
<1>5. Region(A, n) = Ends(v, n)
  BY DEF Region
<1>6. v \in Ends(v, n)
  BY <1>3 DEF Ends
<1> QED
  BY <1>3, <1>4, <1>5, <1>6

(* What shm_map() of object o does.                                        *)
MapResult(W, X, t, o, v, V, q, E) ==
  LET A == W.as[t]
      n == W.shm[o].size
      B == map_pages(A, t, V, q, W.used)
      m == [start |-> v, size |-> n, obj |-> o]
  IN  /\ q \in [V -> Frame]
      /\ \A i \in 1 .. n : v + i - 1 \in V /\ q[v + i - 1] = W.shm[o].frames[i]
      /\ E = [dir |-> B.dir, table |-> B.table, page |-> B.page, maps |-> A.maps \cup {m}]
      /\ B.maps = A.maps
      /\ X.as = [W.as EXCEPT ![t] = E]
      /\ X.shm = [W.shm EXCEPT ![o] = [size |-> n, refcount |-> W.shm[o].refcount + 1,
                                       frames |-> W.shm[o].frames]]
      /\ X.table = W.table
      /\ X.used = W.used \cup Frames(W.used, TableCells(t, NewTables(A, V)))

LEMMA MapDoes ==
  ASSUME NEW W, Good(W), NEW t \in Live(W), NEW o \in Allocated(W),
         NEW n, n = W.shm[o].size, Places(W.as[t], n) # {},
         NEW X, X = shm_map(W, t, o), NEW v, v = Least(Places(W.as[t], n)),
         NEW V, V = Ends(v, n)
  PROVE  \E q, E : MapResult(W, X, t, o, v, V, q, E)
<1>1. n \in 1 .. MaxSize /\ n \in Nat /\ n >= 1 /\ W.shm[o].frames \in [1 .. n -> Frame]
  <2>1. W.shm[o] \in Objects
    BY GoodFields
  <2> QED
    BY <2>1, ObjectFields, MemoryAssumption
<1>2. v \in Nat /\ Region(W.as[t], n) = V
  BY <1>1, RegionFree
<1> DEFINE A == W.as[t]
           s == W.shm[o]
           x == Least(Places(A, s.size))
           Y == Region(A, s.size)
           q == [w \in Y |-> s.frames[w - x + 1]]
           B == map_pages(A, t, Y, q, W.used)
           m == [start |-> x, size |-> s.size, obj |-> o]
           E == [dir |-> B.dir, table |-> B.table, page |-> B.page, maps |-> B.maps \cup {m}]
<1>3. /\ X.as = [W.as EXCEPT ![t] = E]
      /\ X.shm = [W.shm EXCEPT ![o] = [size |-> s.size, refcount |-> s.refcount + 1,
                                       frames |-> s.frames]]
      /\ X.table = W.table
      /\ X.used = W.used \cup Frames(W.used, TableCells(t, NewTables(A, Y)))
  BY DEF shm_map
<1>4. x = v /\ Y = V
  BY <1>2
<1> HIDE DEF x, Y
<1>5. \A w \in V : w - v + 1 \in 1 .. n
  BY <1>1, <1>2 DEF Ends
<1>6. q \in [V -> Frame]
  BY <1>1, <1>4, <1>5
<1>7. \A i \in 1 .. n : v + i - 1 \in V /\ (v + i - 1) - v + 1 = i
  BY <1>1, <1>2 DEF Ends
<1>8. \A i \in 1 .. n : q[v + i - 1] = W.shm[o].frames[i]
  BY <1>4, <1>7
<1>9. B.maps = W.as[t].maps /\ B = map_pages(W.as[t], t, V, q, W.used)
  BY <1>4 DEF map_pages
<1> HIDE DEF q
<1>10. E = [dir |-> B.dir, table |-> B.table, page |-> B.page,
            maps |-> W.as[t].maps \cup {[start |-> v, size |-> W.shm[o].size, obj |-> o]}]
  BY <1>4, <1>9
<1> HIDE DEF B
<1>11. MapResult(W, X, t, o, v, V, q, E)
  BY <1>3, <1>4, <1>6, <1>7, <1>8, <1>9, <1>10 DEF MapResult
<1> QED
  BY <1>11

MapDone(W, X, t, o, v) ==
  /\ Good(X) /\ X.table = W.table /\ SameHeaps(W, X)
  /\ \A s : Attached(W, s) /\ s.obj # o => Attached(X, s)
  /\ Refs(W, o) = {} /\ o \notin W.table
       => Attached(X, [owner |-> t, obj |-> o, start |-> v])

LEMMA MapWorld ==
  ASSUME NEW W, Good(W), NEW t \in Live(W), NEW o \in Allocated(W),
         NEW n, n = W.shm[o].size, Places(W.as[t], n) # {},
         Enough(W.used, MapCells(W.as[t], t, n)),
         NEW X, X = shm_map(W, t, o), NEW v, v = Least(Places(W.as[t], n))
  PROVE  MapDone(W, X, t, o, v)
<1>1. PICK q, E : MapResult(W, X, t, o, v, Ends(v, n), q, E)
  BY MapDoes
<1>2. n \in 1 .. MaxSize /\ n \in Nat /\ n >= 1 /\ W.shm[o].frames \in [1 .. n -> Frame]
      /\ W.shm[o].refcount \in Nat /\ o \in Obj
  <2>1. W.shm[o] \in Objects /\ o \in Obj
    BY GoodFields
  <2> QED
    BY <2>1, ObjectFields, MemoryAssumption
<1>3. v \in Shmem /\ v \in Nat /\ Region(W.as[t], n) = Ends(v, n) /\ v \in Ends(v, n)
      /\ Ends(v, n) \subseteq Shmem \ Taken(W.as[t].maps)
  BY <1>2, RegionFree
<1>4. PICK A, V, m, C, B : /\ A = W.as[t] /\ V = Ends(v, n)
                           /\ m = [start |-> v, size |-> n, obj |-> o]
                           /\ C = TableCells(t, NewTables(A, V))
                           /\ B = map_pages(A, t, V, q, W.used)
  OBVIOUS
<1>5. /\ q \in [V -> Frame] /\ \A i \in 1 .. n : v + i - 1 \in V /\ q[v + i - 1] = W.shm[o].frames[i]
      /\ E = [dir |-> B.dir, table |-> B.table, page |-> B.page, maps |-> A.maps \cup {m}]
      /\ B.maps = A.maps
      /\ X.as = [W.as EXCEPT ![t] = E]
      /\ X.shm = [W.shm EXCEPT ![o] = [size |-> n, refcount |-> W.shm[o].refcount + 1,
                                       frames |-> W.shm[o].frames]]
      /\ X.table = W.table
      /\ X.used = W.used \cup Frames(W.used, C)
  BY <1>1, <1>4 DEF MapResult
<1>6. t \in Task /\ A \in Space /\ OldUses(W, t) = SpaceUses(t, A) /\ V \in SUBSET Page
  BY <1>3, <1>4, LiveSpace DEF Page
<1>7. W.used \subseteq Frame /\ IsFiniteSet(W.used) /\ W.as \in [Task -> Space \cup {NULL}]
      /\ W.shm \in [Obj -> Objects \cup {NULL}] /\ Exclusive(Uses(W), W.used) /\ TypeOK(W)
  BY GoodFields
<1>8. CanAlloc(W.used, C)
  <2>1. C = MapCells(W.as[t], t, n)
    BY <1>3, <1>4 DEF MapCells
  <2>2. C \subseteq Cell /\ IsFiniteSet(C)
    BY <1>4, <1>6, NewTablesIn, TableCellsOK
  <2> QED
    BY <1>7, <2>1, <2>2 DEF CanAlloc
<1>9. m \in Mapping /\ m.start = v /\ m.size = n /\ m.obj = o /\ m \notin A.maps
  <2>1. m \in Mapping /\ m.start = v /\ m.size = n /\ m.obj = o
    BY <1>2, <1>3, <1>4 DEF Mapping
  <2>2. ASSUME m \in A.maps PROVE FALSE
    <3>1. v \in Taken(A.maps)
      BY <1>3, <2>1, <2>2 DEF Taken
    <3> QED
      BY <1>3, <1>4, <3>1
  <2> QED
    BY <2>1, <2>2
<1>10. B \in Space
  BY <1>4, <1>5, <1>6, <1>8, MapPagesType
<1>11. E \in Space /\ E # NULL /\ E.maps = A.maps \cup {m} /\ E.page = B.page
  BY <1>5, <1>9, <1>10, MemoryAssumption DEF Space
<1>12. \A w \in Page : E.page[w] = IF w \in V THEN q[w] ELSE A.page[w]
  BY <1>4, <1>11 DEF map_pages
<1>13. SpaceUses(t, E) \subseteq SpaceUses(t, A) \cup NewUses(W.used, C)
  <2>1. PICK M : M = A.maps \cup {m}
    OBVIOUS
  <2>2. Taken(M) = Taken(A.maps) \cup V
    BY <1>4, <1>9, <2>1, TakenMore
  <2>3. TableCells(t, NewTables(A, V)) \subseteq C /\ Taken(A.maps) \subseteq Taken(M)
        /\ \A w \in V \ Taken(M) : <<<<"page", t, w>>, q[w]>> \in NewUses(W.used, C)
    BY <1>4, <2>2
  <2>4. PICK U : U = W.used
    OBVIOUS
  <2>5. CanAlloc(U, C) /\ B = map_pages(A, t, V, q, U)
        /\ \A w \in V \ Taken(M) : <<<<"page", t, w>>, q[w]>> \in NewUses(U, C)
    BY <1>4, <1>8, <2>3, <2>4
  <2>6. SpaceUses(t, [dir |-> B.dir, table |-> B.table, page |-> B.page, maps |-> M])
          \subseteq SpaceUses(t, A) \cup NewUses(U, C)
    BY <1>5, <1>6, <2>3, <2>5, MapPagesUses
  <2> QED
    BY <1>5, <2>1, <2>4, <2>6
<1>14. X.as[t] = E /\ \A u \in Task \ {t} : X.as[u] = W.as[u]
  BY <1>5, <1>6, <1>7
<1>15. /\ X.shm[o].size = n /\ X.shm[o].frames = W.shm[o].frames
       /\ X.shm[o].refcount = W.shm[o].refcount + 1
       /\ X.shm[o] \in Objects /\ X.shm[o] # NULL
       /\ \A p \in Obj \ {o} : X.shm[p] = W.shm[p]
  <2>1. W.shm[o].refcount + 1 \in Nat
    BY <1>2
  <2>2. PICK r : r = W.shm[o].refcount + 1
    OBVIOUS
  <2>3. PICK f : f = W.shm[o].frames
    OBVIOUS
  <2>4. [size |-> n, frames |-> f, refcount |-> r] \in Objects
    BY <1>2, <2>1, <2>2, <2>3, ObjectFields
  <2>5. X.shm[o] = [size |-> n, frames |-> f, refcount |-> r]
    BY <1>2, <1>5, <1>7, <2>2, <2>3
  <2>6. \A p \in Obj \ {o} : X.shm[p] = W.shm[p]
    BY <1>2, <1>5, <1>7
  <2> QED
    BY <2>2, <2>3, <2>4, <2>5, <2>6, ObjectFields
<1>16. Live(X) = Live(W) /\ Allocated(X) = Allocated(W)
  BY <1>11, <1>14, <1>15 DEF Live, Allocated
<1>17. TypeOK(X)
  <2>1. X.as \in [Task -> Space \cup {NULL}]
    BY <1>5, <1>7, <1>11
  <2>2. X.shm \in [Obj -> Objects \cup {NULL}]
    <3>1. PICK s : s = [size |-> n, refcount |-> W.shm[o].refcount + 1, frames |-> W.shm[o].frames]
      OBVIOUS
    <3>2. X.shm = [W.shm EXCEPT ![o] = s] /\ s \in Objects
      BY <1>2, <1>5, <1>7, <1>15, <3>1
    <3> QED
      BY <1>7, <3>2
  <2>3. Frames(W.used, C) \subseteq Frame /\ IsFiniteSet(Frames(W.used, C))
    BY <1>8, FramesAreFree
  <2>4. IsFiniteSet(W.used \cup Frames(W.used, C))
    BY <1>7, <2>3, FS_Union
  <2> QED
    BY <1>5, <1>7, <1>16, <2>1, <2>2, <2>3, <2>4 DEF TypeOK
<1>18. Apart(E.maps)
  <2> SUFFICES ASSUME NEW a \in E.maps, NEW k \in E.maps
               PROVE  /\ Ends(a.start, a.size) \subseteq Shmem
                      /\ k # a => Ends(k.start, k.size) \cap Ends(a.start, a.size) = {}
    BY DEF Apart
  <2>1. Apart(A.maps)
    BY <1>4 DEF Good
  <2>2. \A x \in A.maps : Ends(x.start, x.size) \subseteq Taken(A.maps)
    BY DEF Taken
  <2>3. V \cap Taken(A.maps) = {} /\ V \subseteq Shmem /\ Ends(m.start, m.size) = V
    BY <1>3, <1>4, <1>9
  <2>4. CASE a = m /\ k = m
    BY <2>3, <2>4
  <2>5. CASE a = m /\ k \in A.maps
    BY <2>2, <2>3, <2>5
  <2>6. CASE a \in A.maps /\ k = m
    BY <2>1, <2>2, <2>3, <2>6 DEF Apart
  <2>7. CASE a \in A.maps /\ k \in A.maps
    BY <2>1, <2>7 DEF Apart
  <2> QED
    BY <1>11, <2>4, <2>5, <2>6, <2>7
<1>19. ASSUME NEW p \in Allocated(W)
       PROVE  X.shm[p] # NULL /\ X.shm[p].size = W.shm[p].size /\ X.shm[p].frames = W.shm[p].frames
  <2>1. CASE p = o
    BY <1>4, <1>15, <2>1
  <2>2. CASE p # o
    BY <1>15, <1>19, <2>2 DEF Allocated
  <2> QED
    BY <2>1, <2>2
<1>20. ASSUME NEW u \in Live(X) PROVE Apart(X.as[u].maps) /\ Shown(X, u)
  <2>1. Apart(W.as[u].maps) /\ Shown(W, u) /\ u \in Task
    BY <1>16, GoodFields DEF Good
  <2>2. \A a \in W.as[u].maps : a.obj \in Allocated(W)
    BY <1>16, MapFields
  <2>3. CASE u # t
    <3>1. X.as[u] = W.as[u]
      BY <1>14, <2>1, <2>3
    <3>2. Shown(X, u)
      BY <1>19, <2>1, <2>2, <3>1 DEF Shown
    <3> QED
      BY <2>1, <3>1, <3>2
  <2>4. CASE u = t
    <3>1. ASSUME NEW a \in A.maps
          PROVE  /\ X.shm[a.obj] # NULL /\ X.shm[a.obj].size = a.size
                 /\ \A i \in 1 .. a.size : E.page[a.start + i - 1] = X.shm[a.obj].frames[i]
      <4>1. a \in Mapping /\ a.obj \in Allocated(W) /\ a.start \in Nat /\ a.size \in Nat
        BY <1>4, MapFields
      <4>2. \A i \in 1 .. a.size : a.start + i - 1 \in Ends(a.start, a.size)
        BY <4>1 DEF Ends
      <4>3. Ends(a.start, a.size) \subseteq Taken(A.maps) /\ Taken(A.maps) \subseteq Shmem
        BY <1>4, LiveSpace DEF Taken
      <4>4. \A i \in 1 .. a.size : E.page[a.start + i - 1] = A.page[a.start + i - 1]
        BY <1>3, <1>4, <1>12, <4>2, <4>3 DEF Page
      <4>5. W.shm[a.obj].size = a.size
            /\ \A i \in 1 .. a.size : A.page[a.start + i - 1] = W.shm[a.obj].frames[i]
        BY <1>4, <2>1, <2>4 DEF Shown
      <4> QED
        BY <1>19, <4>1, <4>4, <4>5
    <3>2. \A i \in 1 .. n : E.page[v + i - 1] = X.shm[o].frames[i]
      BY <1>5, <1>6, <1>12, <1>15
    <3>3. Shown(X, t)
      BY <1>9, <1>11, <1>14, <1>15, <3>1, <3>2 DEF Shown
    <3> QED
      BY <1>14, <1>18, <2>4, <3>3
  <2> QED
    BY <2>3, <2>4
<1>21. \A p : Refs(X, p) = IF p = o THEN Refs(W, p) \cup {<<t, m>>} ELSE Refs(W, p)
  <2>1. ASSUME NEW p, NEW x
        PROVE  x \in Refs(X, p) <=> x \in Refs(W, p) \/ (p = o /\ x = <<t, m>>)
    <3>1. ASSUME x \in Refs(X, p) PROVE x \in Refs(W, p) \/ (p = o /\ x = <<t, m>>)
      <4>1. PICK u \in Live(X) : \E a \in X.as[u].maps : a.obj = p /\ x = <<u, a>>
        BY <3>1, RefIs
      <4>2. PICK a \in X.as[u].maps : a.obj = p /\ x = <<u, a>>
        BY <4>1
      <4>3. CASE u = t /\ a = m
        BY <1>9, <4>2, <4>3
      <4>4. CASE a \in W.as[u].maps
        BY <1>16, <4>2, <4>4, RefIs
      <4> QED
        BY <1>4, <1>11, <1>14, <4>2, <4>3, <4>4 DEF Live
    <3>2. ASSUME x \in Refs(W, p) PROVE x \in Refs(X, p)
      <4>1. PICK u \in Live(W) : \E a \in W.as[u].maps : a.obj = p /\ x = <<u, a>>
        BY <3>2, RefIs
      <4>2. PICK a \in W.as[u].maps : a.obj = p /\ x = <<u, a>>
        BY <4>1
      <4>3. a \in X.as[u].maps
        BY <1>4, <1>11, <1>14, <4>2 DEF Live
      <4> QED
        BY <1>16, <4>2, <4>3, RefIs
    <3>3. ASSUME p = o, x = <<t, m>> PROVE x \in Refs(X, p)
      <4>1. m \in X.as[t].maps /\ m.obj = o /\ t \in Live(X)
        BY <1>9, <1>11, <1>14, <1>16
      <4> QED
        BY <3>3, <4>1, RefIs
    <3> QED
      BY <3>1, <3>2, <3>3
  <2> QED
    BY <2>1
<1>22. Counted(X)
  <2> SUFFICES ASSUME NEW p \in Allocated(W)
               PROVE  X.shm[p].refcount > Cardinality(Refs(X, p))
    BY <1>16 DEF Counted
  <2>1. W.shm[p].refcount > Cardinality(Refs(W, p)) /\ IsFiniteSet(Refs(W, p))
    BY <1>7, RefsFinite DEF Good, Counted
  <2>2. CASE p = o
    <3>1. PICK R, y : R = Refs(W, p) /\ y = <<t, m>>
      OBVIOUS
    <3>2. Cardinality(R) \in Nat /\ IsFiniteSet(R)
      BY <2>1, <3>1, FS_CardinalityType
    <3>3. Cardinality(R \cup {y}) = Cardinality(R) \/ Cardinality(R \cup {y}) = Cardinality(R) + 1
      BY <3>2, FS_AddElement
    <3>4. Refs(X, p) = R \cup {y}
      BY <1>21, <2>2, <3>1
    <3>5. W.shm[o].refcount > Cardinality(R)
      BY <2>1, <2>2, <3>1
    <3>6. W.shm[o].refcount + 1 > Cardinality(Refs(X, p))
      BY <1>2, <3>2, <3>3, <3>4, <3>5
    <3> QED
      BY <1>15, <2>2, <3>6
  <2>3. CASE p # o
    BY <1>15, <1>21, <2>1, <2>3 DEF Allocated
  <2> QED
    BY <2>2, <2>3
<1>23. Exclusive(Uses(X), X.used)
  <2>1. PICK G : G = {} /\ UsesOf(W, G) = {}
    BY NoObjects
  <2>2. \A p \in Obj : X.shm[p] # NULL =>
          W.shm[p] # NULL /\ ObjectUses(p, X.shm[p]) = ObjectUses(p, W.shm[p])
    <3> TAKE p \in Obj
    <3> HAVE X.shm[p] # NULL
    <3>1. p \in Allocated(W)
      BY <1>16 DEF Allocated
    <3> QED
      BY <1>19, <3>1 DEF Allocated, ObjectUses
  <2>3. UsesChange(W, X, t, {}, G, NewUses(W.used, C))
    BY <1>6, <1>13, <1>14, <2>1, <2>2 DEF UsesChange
  <2>4. (W.used \ {d[2] : d \in {} \cup UsesOf(W, G)}) \cup Frames(W.used, C) \subseteq X.used
    BY <1>5
  <2>5. WorldOp(W, X, t, C, {}, G)
    BY <1>6, <1>8, <2>3, <2>4 DEF WorldOp
  <2> QED
    BY <1>7, <2>5, WorldStep
<1>24. Good(X)
  BY <1>17, <1>20, <1>22, <1>23 DEF Good
<1>25. SameHeaps(W, X)
  <2>1. \A w \in Page \ Shmem : E.page[w] = A.page[w]
    BY <1>3, <1>4, <1>12
  <2> QED
    BY <1>4, <1>14, <1>16, <2>1, GoodFields DEF SameHeaps
<1>26. \A u \in Live(X) : \A a \in X.as[u].maps :
          u \in Live(W) /\ (a \in W.as[u].maps \/ (u = t /\ a = m))
  BY <1>4, <1>11, <1>14, <1>16, GoodFields
<1>27. ASSUME NEW s, Attached(W, s), s.obj # o PROVE Attached(X, s)
  <2>1. s.owner \in Live(X) /\ s.obj \in Allocated(X) \ X.table /\ s.owner \in Task
        /\ X.shm[s.obj].size = W.shm[s.obj].size
    BY <1>5, <1>16, <1>19, <1>27, GoodFields DEF Attached
  <2>2. W.as[s.owner].maps \subseteq X.as[s.owner].maps
    BY <1>4, <1>11, <1>14, <2>1
  <2>3. \A u \in Live(X) : \A a \in X.as[u].maps : a.obj = s.obj => u = s.owner /\ a.start = s.start
    BY <1>9, <1>26, <1>27 DEF Attached
  <2>4. [start |-> s.start, size |-> W.shm[s.obj].size, obj |-> s.obj] \in W.as[s.owner].maps
    BY <1>27 DEF Attached
  <2> QED
    BY <2>1, <2>2, <2>3, <2>4 DEF Attached
<1>28. ASSUME Refs(W, o) = {}, o \notin W.table
       PROVE  Attached(X, [owner |-> t, obj |-> o, start |-> v])
  <2>1. \A u \in Live(X) : \A a \in X.as[u].maps : a.obj = o => u = t /\ a.start = v
    <3> SUFFICES ASSUME NEW u \in Live(X), NEW a \in X.as[u].maps, a.obj = o
                 PROVE  u = t /\ a.start = v
      OBVIOUS
    <3>1. a \notin W.as[u].maps
      <4> SUFFICES ASSUME a \in W.as[u].maps PROVE FALSE
        OBVIOUS
      <4>1. <<u, a>> \in Refs(W, o)
        BY <1>26, RefIs
      <4> QED
        BY <1>28, <4>1
    <3> QED
      BY <1>9, <1>26, <3>1
  <2>2. m \in X.as[t].maps /\ t \in Live(X) /\ o \in Allocated(X) \ X.table
    BY <1>5, <1>11, <1>14, <1>16, <1>28
  <2> QED
    BY <1>4, <1>15, <2>1, <2>2 DEF Attached
<1> QED
  BY <1>5, <1>24, <1>25, <1>27, <1>28 DEF MapDone
-----------------------------------------------------------------------------
(* Mappings that go.                                                       *)

LEMMA TakenLess ==
  ASSUME NEW M, NEW K
  PROVE  Taken(K) \subseteq Taken(K \ M) \cup Taken(M)
BY DEF Taken

(* The mappings M of t go with their pages, and the objects G, which only  *)
(* they show, are freed.                                                   *)
FramesOf(W, G) == UNION {{W.shm[o].frames[i] : i \in 1 .. W.shm[o].size} : o \in G}

DropOp(W, X, t, M, G, B, E) ==
  /\ t \in Live(W) /\ M \subseteq W.as[t].maps
  /\ B = unmap_pages(W.as[t], Taken(M))
  /\ E = [dir |-> B.dir, table |-> B.table, page |-> B.page, maps |-> W.as[t].maps \ M]
  /\ X.as = [W.as EXCEPT ![t] = E] /\ X.shm \in [Obj -> Objects \cup {NULL}] /\ X.table = W.table
  /\ X.used = W.used \ (TableFrames(W.as[t], Emptied(W.as[t], Taken(M))) \cup FramesOf(W, G))
  /\ G \subseteq Allocated(W) \ W.table
  /\ \A u \in Live(W) : \A a \in W.as[u].maps : a.obj \in G => u = t /\ a \in M
  /\ Allocated(X) = Allocated(W) \ G
  /\ \A o \in Allocated(X) : /\ X.shm[o].size = W.shm[o].size
                             /\ X.shm[o].frames = W.shm[o].frames
                             /\ X.shm[o].refcount > Cardinality(Refs(X, o))

LEMMA DropSpace ==
  ASSUME NEW W, Good(W), NEW X, NEW t, NEW M, NEW G, NEW B, NEW E, DropOp(W, X, t, M, G, B, E)
  PROVE  /\ t \in Task /\ E \in Space /\ E # NULL /\ E.maps = W.as[t].maps \ M
         /\ X.as[t] = E /\ \A u \in Task \ {t} : X.as[u] = W.as[u]
         /\ Live(X) = Live(W)
         /\ \A v \in Page : E.page[v] = IF v \in Taken(M) THEN NULL ELSE W.as[t].page[v]
         /\ SpaceUses(t, E) \subseteq SpaceUses(t, W.as[t])
              \ GivenUses(t, W.as[t], Emptied(W.as[t], Taken(M)), Taken(M))
<1>1. PICK A, V, K : A = W.as[t] /\ V = Taken(M) /\ K = A.maps \ M
  OBVIOUS
<1>2. t \in Task /\ A \in Space /\ W.as \in [Task -> Space \cup {NULL}] /\ A # NULL
  BY <1>1, GoodFields, MemoryAssumption DEF DropOp
<1>3. B = unmap_pages(A, V) /\ X.as = [W.as EXCEPT ![t] = E]
      /\ E = [dir |-> B.dir, table |-> B.table, page |-> B.page, maps |-> K]
  BY <1>1 DEF DropOp
<1>4. B \in Space
  BY <1>2, <1>3, UnmapPagesType
<1>5. K \subseteq Mapping
  BY <1>1, <1>2 DEF Space
<1>6. E \in Space /\ E # NULL /\ E.maps = K /\ E.page = B.page
  BY <1>3, <1>4, <1>5, MemoryAssumption DEF Space
<1>7. \A v \in Page : E.page[v] = IF v \in V THEN NULL ELSE A.page[v]
  BY <1>3, <1>6 DEF unmap_pages
<1>8. X.as[t] = E /\ \A u \in Task \ {t} : X.as[u] = W.as[u]
  BY <1>2, <1>3
<1>9. Live(X) = Live(W)
  BY <1>1, <1>2, <1>6, <1>8 DEF Live
<1>10. Taken(A.maps) \subseteq Taken(K) \cup V
  BY <1>1, TakenLess
<1>11. SpaceUses(t, E) \subseteq SpaceUses(t, A) \ GivenUses(t, A, Emptied(A, V), V)
  BY <1>2, <1>3, <1>10, UnmapPagesUses
<1> QED
  BY <1>1, <1>2, <1>6, <1>7, <1>8, <1>9, <1>11

LEMMA DropExclusive ==
  ASSUME NEW W, Good(W), NEW X, NEW t, NEW M, NEW G, NEW B, NEW E, DropOp(W, X, t, M, G, B, E)
  PROVE  Exclusive(Uses(X), X.used)
<1>1. PICK A, V, D : /\ A = W.as[t] /\ V = Taken(M)
                     /\ D = GivenUses(t, A, Emptied(A, V), V)
  OBVIOUS
<1>2. /\ t \in Task /\ X.as[t] = E /\ \A u \in Task \ {t} : X.as[u] = W.as[u]
      /\ SpaceUses(t, E) \subseteq SpaceUses(t, A) \ D
  BY <1>1, DropSpace
<1>3. OldUses(W, t) = SpaceUses(t, A)
  BY <1>1, LiveSpace DEF DropOp
<1>4. D \subseteq OldUses(W, t)
  BY <1>1, <1>3 DEF GivenUses
<1>5. \A o \in Obj : X.shm[o] # NULL =>
        o \notin G /\ W.shm[o] # NULL /\ ObjectUses(o, X.shm[o]) = ObjectUses(o, W.shm[o])
  <2> TAKE o \in Obj
  <2> HAVE X.shm[o] # NULL
  <2>1. o \in Allocated(X)
    BY DEF Allocated
  <2>2. o \in Allocated(W) \ G /\ X.shm[o].size = W.shm[o].size /\ X.shm[o].frames = W.shm[o].frames
    BY <2>1 DEF DropOp
  <2> QED
    BY <2>2 DEF Allocated, ObjectUses
<1>6. G \subseteq Obj /\ \A o \in G : W.shm[o] # NULL
  BY DEF DropOp, Allocated
<1>7. UsesChange(W, X, t, D, G, NewUses(W.used, {}))
  BY <1>2, <1>3, <1>4, <1>5, <1>6 DEF UsesChange
<1>8. TableFrames(A, Emptied(A, V)) \subseteq {d[2] : d \in D}
  BY <1>1, TablesGiven
<1>9. FramesOf(W, G) \subseteq {d[2] : d \in UsesOf(W, G)}
  <2> SUFFICES ASSUME NEW o \in G, NEW i \in 1 .. W.shm[o].size
               PROVE  W.shm[o].frames[i] \in {d[2] : d \in UsesOf(W, G)}
    BY DEF FramesOf
  <2>1. <<<<"object", o, i>>, W.shm[o].frames[i]>> \in UsesOf(W, G)
    BY DEF UsesOf, ObjectUses
  <2> QED
    BY <2>1
<1>10. (W.used \ {d[2] : d \in D \cup UsesOf(W, G)}) \cup Frames(W.used, {}) \subseteq X.used
  <2>1. X.used = W.used \ (TableFrames(A, Emptied(A, V)) \cup FramesOf(W, G))
    BY <1>1 DEF DropOp
  <2>2. Frames(W.used, {}) = {}
    BY DEF Frames
  <2> QED
    BY <1>8, <1>9, <2>1, <2>2
<1>11. WorldOp(W, X, t, {}, D, G)
  BY <1>2, <1>7, <1>10, AllocNothing, GoodFields DEF WorldOp
<1> QED
  BY <1>11, WorldStep, GoodFields

LEMMA DropWorld ==
  ASSUME NEW W, Good(W), NEW X, NEW t, NEW M, NEW G, NEW B, NEW E, DropOp(W, X, t, M, G, B, E)
  PROVE  /\ Good(X) /\ SameHeaps(W, X)
         /\ \A s : Attached(W, s) /\ s.obj \notin G /\ (\A m \in M : m.obj # s.obj)
                     => Attached(X, s)
<1>1. PICK A, V : A = W.as[t] /\ V = Taken(M)
  OBVIOUS
<1>2. /\ t \in Task /\ E \in Space /\ E # NULL /\ E.maps = A.maps \ M
      /\ X.as[t] = E /\ \A u \in Task \ {t} : X.as[u] = W.as[u]
      /\ Live(X) = Live(W)
      /\ \A v \in Page : E.page[v] = IF v \in V THEN NULL ELSE A.page[v]
  BY <1>1, DropSpace
<1>3. t \in Live(W) /\ M \subseteq A.maps /\ X.table = W.table /\ G \subseteq Allocated(W) \ W.table
      /\ Allocated(X) = Allocated(W) \ G
  BY <1>1 DEF DropOp
<1>4. TypeOK(X)
  <2>1. X.as \in [Task -> Space \cup {NULL}]
    BY <1>2, GoodFields DEF DropOp
  <2>2. X.used \subseteq Frame /\ IsFiniteSet(X.used)
    <3>1. PICK Y : Y = TableFrames(W.as[t], Emptied(W.as[t], Taken(M))) \cup FramesOf(W, G)
      OBVIOUS
    <3>2. X.used = W.used \ Y
      BY <3>1 DEF DropOp
    <3>3. PICK U : U = W.used
      OBVIOUS
    <3>4. U \subseteq Frame /\ IsFiniteSet(U)
      BY <3>3, GoodFields
    <3>5. U \ Y \subseteq Frame /\ IsFiniteSet(U \ Y)
      BY <3>4, FS_Difference
    <3> QED
      BY <3>2, <3>3, <3>5
  <2>3. X.table \subseteq Allocated(X)
    BY <1>3, GoodFields
  <2> QED
    BY <2>1, <2>2, <2>3 DEF TypeOK, DropOp
<1>5. \A u \in Live(X) : \A a \in X.as[u].maps :
        u \in Live(W) /\ a \in W.as[u].maps /\ (u = t => a \notin M)
  BY <1>1, <1>2, GoodFields
<1>6. \A u \in Live(X) : \A a \in X.as[u].maps : a.obj \in Allocated(X)
  <2> TAKE u \in Live(X)
  <2> TAKE a \in X.as[u].maps
  <2>1. u \in Live(W) /\ a \in W.as[u].maps /\ (u = t => a \notin M)
    BY <1>5
  <2>2. a.obj \in Allocated(W)
    BY <2>1, MapFields
  <2>3. a.obj \notin G
    BY <2>1 DEF DropOp
  <2> QED
    BY <1>3, <2>2, <2>3
<1>7. \A o \in Allocated(X) : /\ X.shm[o] # NULL /\ X.shm[o].size = W.shm[o].size
                              /\ X.shm[o].frames = W.shm[o].frames
  BY DEF DropOp, Allocated
<1>8. ASSUME NEW u \in Live(X), NEW a \in X.as[u].maps, NEW i \in 1 .. a.size
      PROVE  X.as[u].page[a.start + i - 1] = W.as[u].page[a.start + i - 1]
  <2>1. u \in Live(W) /\ a \in W.as[u].maps /\ (u = t => a \notin M)
    BY <1>5
  <2>2. CASE u # t
    BY <1>2, <2>1, <2>2, GoodFields
  <2>3. CASE u = t
    <3>1. a.start \in Nat /\ a.size \in Nat
      BY <2>1, MapFields
    <3>2. a.start + i - 1 \in Ends(a.start, a.size)
      BY <3>1 DEF Ends
    <3>3. Apart(A.maps)
      BY <1>1, <1>3 DEF Good
    <3>4. a.start + i - 1 \in Page
      BY <1>1, <2>1, <2>3, <3>2, <3>3 DEF Apart, Page
    <3>5. a.start + i - 1 \notin V
      <4> SUFFICES ASSUME NEW m \in M, a.start + i - 1 \in Ends(m.start, m.size) PROVE FALSE
        BY <1>1 DEF Taken
      <4>1. m # a /\ m \in A.maps /\ a \in A.maps
        BY <1>1, <1>3, <2>1, <2>3
      <4> QED
        BY <3>2, <3>3, <4>1 DEF Apart
    <3> QED
      BY <1>1, <1>2, <2>3, <3>4, <3>5
  <2> QED
    BY <2>2, <2>3
<1>9. ASSUME NEW u \in Live(X) PROVE Apart(X.as[u].maps) /\ Shown(X, u)
  <2>1. Apart(W.as[u].maps) /\ Shown(W, u)
    BY <1>2 DEF Good
  <2>2. Apart(X.as[u].maps)
    BY <1>5, <2>1 DEF Apart
  <2>3. Shown(X, u)
    BY <1>5, <1>6, <1>7, <1>8, <2>1 DEF Shown
  <2> QED
    BY <2>2, <2>3
<1>10. Counted(X)
  BY DEF DropOp, Counted
<1>11. Good(X)
  BY <1>4, <1>9, <1>10, DropExclusive DEF Good
<1>12. SameHeaps(W, X)
  <2>1. V \subseteq Shmem
    <3>1. Apart(A.maps)
      BY <1>1, <1>3 DEF Good
    <3> QED
      BY <1>1, <1>3, <3>1 DEF Apart, Taken
  <2>2. \A v \in Page \ Shmem : E.page[v] = A.page[v]
    BY <1>2, <2>1
  <2> QED
    BY <1>1, <1>2, <2>2, GoodFields DEF SameHeaps
<1>13. ASSUME NEW s, Attached(W, s), s.obj \notin G, \A m \in M : m.obj # s.obj
       PROVE  Attached(X, s)
  <2>1. s.owner \in Live(X) /\ s.obj \in Allocated(X) \ X.table /\ s.owner \in Task
        /\ X.shm[s.obj].size = W.shm[s.obj].size
    BY <1>2, <1>3, <1>7, <1>13, GoodFields DEF Attached
  <2>2. PICK m : /\ m = [start |-> s.start, size |-> W.shm[s.obj].size, obj |-> s.obj]
                 /\ m \in W.as[s.owner].maps
    BY <1>13 DEF Attached
  <2>3. m \in X.as[s.owner].maps
    <3>1. m \notin M
      BY <1>13, <2>2
    <3> QED
      BY <1>1, <1>2, <2>1, <2>2, <3>1
  <2>4. \A u \in Live(X) : \A a \in X.as[u].maps : a.obj = s.obj => u = s.owner /\ a.start = s.start
    BY <1>5, <1>13 DEF Attached
  <2> QED
    BY <2>1, <2>2, <2>3, <2>4 DEF Attached
<1> QED
  BY <1>11, <1>12, <1>13
-----------------------------------------------------------------------------
(* shm_unmap(): the references that go are those of the mappings.          *)
RefsOf(t, S) == {<<t, m>> : m \in S}

LEMMA RefsOfCount ==
  ASSUME NEW S, IsFiniteSet(S), NEW t
  PROVE  IsFiniteSet(RefsOf(t, S)) /\ Cardinality(RefsOf(t, S)) = Cardinality(S)
<1> DEFINE f == [m \in S |-> <<t, m>>]
<1>1. f \in [S -> RefsOf(t, S)] /\ \A y \in RefsOf(t, S) : \E x \in S : f[x] = y
  BY DEF RefsOf
<1>2. f \in Surjection(S, RefsOf(t, S))
  BY <1>1 DEF Surjection
<1>3. \A x, y \in S : f[x] = f[y] => x = y
  OBVIOUS
<1> HIDE DEF f
<1>4. f \in Injection(S, RefsOf(t, S))
  BY <1>1, <1>3 DEF Injection, IsInjective
<1> QED
  BY <1>2, <1>4, FS_Surjection

LEMMA RefsInCount ==
  ASSUME NEW W, Good(W), NEW t \in Live(W), NEW M \in SUBSET W.as[t].maps, NEW o
  PROVE  /\ RefsOf(t, RefsIn(M, o)) \subseteq Refs(W, o)
         /\ Cardinality(RefsIn(M, o)) \in Nat
         /\ Cardinality(RefsIn(M, o)) <= Cardinality(Refs(W, o))
         /\ Cardinality(Refs(W, o)) \in Nat
         /\ Cardinality(Refs(W, o) \ RefsOf(t, RefsIn(M, o)))
              = Cardinality(Refs(W, o)) - Cardinality(RefsIn(M, o))
<1>1. PICK S, P, R : S = RefsIn(M, o) /\ P = Refs(W, o) /\ R = RefsOf(t, S)
  OBVIOUS
<1>2. IsFiniteSet(S)
  <2>1. S \in SUBSET Mapping
    BY <1>1, MapFields DEF RefsIn
  <2> QED
    BY <2>1, MappingFinite, FS_Subset
<1>3. IsFiniteSet(P)
  BY <1>1, GoodFields, RefsFinite
<1>4. R \in SUBSET P
  BY <1>1, RefIs DEF RefsOf, RefsIn
<1>5. Cardinality(R) = Cardinality(S)
  BY <1>1, <1>2, RefsOfCount
<1>6. Cardinality(R) <= Cardinality(P)
  BY <1>3, <1>4, FS_Subset
<1>7. P \cap R = R
  BY <1>4
<1>8. Cardinality(P \ R) = Cardinality(P) - Cardinality(P \cap R)
  BY <1>3, FS_Difference
<1>9. Cardinality(S) \in Nat /\ Cardinality(P) \in Nat
  BY <1>2, <1>3, FS_CardinalityType
<1> QED
  BY <1>1, <1>4, <1>5, <1>6, <1>7, <1>8, <1>9

(* No object goes with a mapping: its own reference is left.               *)
UnmapResult(W, X, t, M, G, E) ==
  /\ X.as = [W.as EXCEPT ![t] = E] /\ X.table = W.table
  /\ X.shm = [o \in Obj |-> IF RefsIn(M, o) = {} THEN W.shm[o]
                ELSE [size |-> W.shm[o].size, frames |-> W.shm[o].frames,
                      refcount |-> W.shm[o].refcount - Cardinality(RefsIn(M, o))]]
  /\ X.used = W.used \ (TableFrames(W.as[t], Emptied(W.as[t], Taken(M))) \cup FramesOf(W, G))

LEMMA UnmapDoes ==
  ASSUME NEW W, Good(W), NEW t \in Live(W), NEW M \in SUBSET W.as[t].maps,
         NEW X, X = shm_unmap(W, t, M),
         NEW B, B = unmap_pages(W.as[t], Taken(M)),
         NEW E, E = [dir |-> B.dir, table |-> B.table, page |-> B.page, maps |-> W.as[t].maps \ M],
         NEW G, G = {}
  PROVE  UnmapResult(W, X, t, M, G, E)
<1> DEFINE Gone == {o \in Obj : RefsIn(M, o) # {} /\ W.shm[o].refcount <= Cardinality(RefsIn(M, o))}
<1>1. Gone = {}
  <2> SUFFICES ASSUME NEW o \in Obj, RefsIn(M, o) # {},
                      W.shm[o].refcount <= Cardinality(RefsIn(M, o))
               PROVE  FALSE
    OBVIOUS
  <2>1. o \in Allocated(W)
    BY MapFields DEF RefsIn
  <2>2. W.shm[o].refcount > Cardinality(Refs(W, o)) /\ W.shm[o].refcount \in Nat
    BY <2>1, GoodFields, ObjectFields DEF Good, Counted
  <2>3. /\ Cardinality(RefsIn(M, o)) \in Nat /\ Cardinality(Refs(W, o)) \in Nat
        /\ Cardinality(RefsIn(M, o)) <= Cardinality(Refs(W, o))
    BY RefsInCount
  <2> QED
    BY <2>2, <2>3
<1>2. /\ B.maps = W.as[t].maps
      /\ X.as = [W.as EXCEPT ![t] = [dir |-> B.dir, table |-> B.table, page |-> B.page,
                                     maps |-> B.maps \ M]]
      /\ X.table = W.table \ Gone
      /\ X.shm = [o \in Obj |-> IF o \in Gone THEN NULL
                    ELSE IF RefsIn(M, o) = {} THEN W.shm[o]
                    ELSE [size |-> W.shm[o].size, frames |-> W.shm[o].frames,
                          refcount |-> W.shm[o].refcount - Cardinality(RefsIn(M, o))]]
      /\ X.used = W.used \ (TableFrames(W.as[t], Emptied(W.as[t], Taken(M)))
                              \cup FramesOf(W, Gone))
  BY DEF shm_unmap, unmap_pages, FramesOf
<1> HIDE DEF Gone
<1> QED
  BY <1>1, <1>2 DEF UnmapResult

LEMMA UnmapDrop ==
  ASSUME NEW W, Good(W), NEW t \in Live(W), NEW M \in SUBSET W.as[t].maps,
         NEW X, X = shm_unmap(W, t, M)
  PROVE  \E G, B, E : G = {} /\ DropOp(W, X, t, M, G, B, E)
<1>1. PICK B : B = unmap_pages(W.as[t], Taken(M))
  OBVIOUS
<1>2. PICK E : E = [dir |-> B.dir, table |-> B.table, page |-> B.page, maps |-> W.as[t].maps \ M]
  OBVIOUS
<1>3. PICK G : G = {}
  OBVIOUS
<1>4. /\ X.as = [W.as EXCEPT ![t] = E] /\ X.table = W.table
      /\ X.shm = [o \in Obj |-> IF RefsIn(M, o) = {} THEN W.shm[o]
                    ELSE [size |-> W.shm[o].size, frames |-> W.shm[o].frames,
                          refcount |-> W.shm[o].refcount - Cardinality(RefsIn(M, o))]]
      /\ X.used = W.used \ (TableFrames(W.as[t], Emptied(W.as[t], Taken(M))) \cup FramesOf(W, G))
  <2>1. UnmapResult(W, X, t, M, G, E)
    BY <1>1, <1>2, <1>3, UnmapDoes
  <2> QED
    BY <2>1 DEF UnmapResult
<1>5. t \in Task /\ W.as \in [Task -> Space \cup {NULL}] /\ W.shm \in [Obj -> Objects \cup {NULL}]
  BY GoodFields
<1>6. \A u \in Task \ {t} : X.as[u] = W.as[u]
  BY <1>4, <1>5
<1>7. X.as[t].maps = W.as[t].maps \ M /\ X.as[t] # NULL
  <2>1. B \in Space
    BY <1>1, GoodFields, UnmapPagesType
  <2>2. W.as[t].maps \ M \subseteq Mapping
    BY GoodFields DEF Space
  <2>3. E \in Space
    BY <1>2, <2>1, <2>2 DEF Space
  <2>4. X.as[t] = E
    BY <1>4, <1>5
  <2>5. E # NULL
    BY <2>3, MemoryAssumption
  <2>6. E.maps = W.as[t].maps \ M
    BY <1>2
  <2> QED
    BY <2>4, <2>5, <2>6
<1>8. Live(X) = Live(W)
  BY <1>6, <1>7 DEF Live
<1>9. ASSUME NEW o PROVE Refs(X, o) = Refs(W, o) \ RefsOf(t, RefsIn(M, o))
  <2>1. ASSUME NEW x \in Refs(X, o)
        PROVE  x \in Refs(W, o) /\ x \notin RefsOf(t, RefsIn(M, o))
    <3>1. PICK u \in Live(X) : \E m \in X.as[u].maps : m.obj = o /\ x = <<u, m>>
      BY <2>1, RefIs
    <3>2. PICK m \in X.as[u].maps : m.obj = o /\ x = <<u, m>>
      BY <3>1
    <3>3. m \in W.as[u].maps /\ (u = t => m \notin M)
      BY <1>6, <1>7, <3>1, <3>2 DEF Live
    <3>4. x \in Refs(W, o)
      BY <1>8, <3>2, <3>3, RefIs
    <3>5. x \notin RefsOf(t, RefsIn(M, o))
      BY <3>2, <3>3 DEF RefsOf, RefsIn
    <3> QED
      BY <3>4, <3>5
  <2>2. ASSUME NEW x \in Refs(W, o), x \notin RefsOf(t, RefsIn(M, o))
        PROVE  x \in Refs(X, o)
    <3>1. PICK u \in Live(W) : \E m \in W.as[u].maps : m.obj = o /\ x = <<u, m>>
      BY <2>2, RefIs
    <3>2. PICK m \in W.as[u].maps : m.obj = o /\ x = <<u, m>>
      BY <3>1
    <3>3. u = t => m \notin M
      BY <2>2, <3>2 DEF RefsOf, RefsIn
    <3>4. m \in X.as[u].maps
      BY <1>6, <1>7, <3>1, <3>2, <3>3 DEF Live
    <3> QED
      BY <1>8, <3>2, <3>4, RefIs
  <2> QED
    BY <2>1, <2>2
<1>10. ASSUME NEW o \in Obj, W.shm[o] # NULL
       PROVE  /\ X.shm[o] \in Objects
              /\ X.shm[o].size = W.shm[o].size /\ X.shm[o].frames = W.shm[o].frames
              /\ X.shm[o].refcount > Cardinality(Refs(X, o))
  <2>1. PICK n, f, r : n = W.shm[o].size /\ f = W.shm[o].frames /\ r = W.shm[o].refcount
    OBVIOUS
  <2>2. W.shm[o] \in Objects /\ o \in Allocated(W)
    BY <1>5, <1>10 DEF Allocated
  <2>3. n \in 1 .. MaxSize /\ r \in Nat /\ f \in [1 .. n -> Frame]
    BY <2>1, <2>2, ObjectFields
  <2>4. r > Cardinality(Refs(W, o))
    BY <2>1, <2>2 DEF Good, Counted
  <2>5. PICK k, c : k = Cardinality(RefsIn(M, o)) /\ c = Cardinality(Refs(W, o))
    OBVIOUS
  <2>6. k \in Nat /\ c \in Nat /\ k <= c /\ Cardinality(Refs(X, o)) = c - k
    BY <1>9, <2>5, RefsInCount
  <2>7. CASE RefsIn(M, o) = {}
    <3>1. k = 0
      BY <2>5, <2>7, FS_EmptySet
    <3>2. X.shm[o] = W.shm[o]
      BY <1>4, <2>7
    <3>3. r > Cardinality(Refs(X, o))
      BY <2>3, <2>4, <2>5, <2>6, <3>1
    <3> QED
      BY <2>1, <2>2, <3>2, <3>3
  <2>8. CASE RefsIn(M, o) # {}
    <3>1. X.shm[o] = [size |-> n, frames |-> f, refcount |-> r - k]
      BY <1>4, <2>1, <2>5, <2>8
    <3>2. r - k \in Nat /\ r - k > c - k
      BY <2>3, <2>4, <2>5, <2>6
    <3>3. PICK i : i = r - k
      OBVIOUS
    <3>4. [size |-> n, frames |-> f, refcount |-> i] \in Objects
      BY <2>3, <3>2, <3>3, ObjectFields
    <3> QED
      BY <2>1, <2>6, <3>1, <3>2, <3>3, <3>4
  <2> QED
    BY <2>7, <2>8
<1>11. ASSUME NEW o \in Obj, W.shm[o] = NULL PROVE X.shm[o] = NULL
  <2>1. RefsIn(M, o) = {}
    <3>1. o \notin Allocated(W)
      BY <1>11 DEF Allocated
    <3> QED
      BY <3>1, MapFields DEF RefsIn
  <2> QED
    BY <1>4, <1>11, <2>1
<1>12. X.shm \in [Obj -> Objects \cup {NULL}]
  <2>1. \A o \in Obj : X.shm[o] \in Objects \cup {NULL}
    BY <1>10, <1>11
  <2>2. X.shm = [o \in Obj |-> X.shm[o]]
    BY <1>4
  <2> QED
    BY <2>1, <2>2
<1>13. Allocated(X) = Allocated(W) \ G
  BY <1>3, <1>10, <1>11, ObjectFields DEF Allocated
<1>14. \A o \in Allocated(X) : /\ X.shm[o].size = W.shm[o].size
                               /\ X.shm[o].frames = W.shm[o].frames
                               /\ X.shm[o].refcount > Cardinality(Refs(X, o))
  BY <1>10, <1>13 DEF Allocated
<1>15. DropOp(W, X, t, M, G, B, E)
  BY <1>1, <1>2, <1>3, <1>4, <1>12, <1>13, <1>14 DEF DropOp
<1> QED
  BY <1>3, <1>15

LEMMA UnmapWorld ==
  ASSUME NEW W, Good(W), NEW t \in Live(W), NEW M \in SUBSET W.as[t].maps,
         NEW X, X = shm_unmap(W, t, M)
  PROVE  /\ Good(X) /\ SameHeaps(W, X)
         /\ \A s : Attached(W, s) /\ (\A m \in M : m.obj # s.obj) => Attached(X, s)
<1>1. PICK G, B, E : G = {} /\ DropOp(W, X, t, M, G, B, E)
  BY UnmapDrop
<1> QED
  BY <1>1, DropWorld

(* layer_release_state(): the mapping is the only one, and its object goes. *)
SurfaceMap(W, s) == [start |-> s.start, size |-> W.shm[s.obj].size, obj |-> s.obj]

LEMMA ReleaseDrop ==
  ASSUME NEW W, Good(W), NEW s, Attached(W, s), NEW X, X = layer_release_state(W, s)
  PROVE  \E M, G, B, E : /\ M = {SurfaceMap(W, s)} /\ G = {s.obj}
                         /\ DropOp(W, X, s.owner, M, G, B, E)
<1>1. PICK t, o, k, A, n : /\ t = s.owner /\ o = s.obj /\ k = SurfaceMap(W, s)
                           /\ A = W.as[t] /\ n = W.shm[o].size
  OBVIOUS
<1>2. PICK M, G : M = {k} /\ G = {o}
  OBVIOUS
<1>3. k.start = s.start /\ k.size = n /\ k.obj = o
  BY <1>1 DEF SurfaceMap
<1>4. /\ t \in Live(W) /\ o \in Allocated(W) \ W.table /\ k \in A.maps
      /\ \A u \in Live(W) : \A m \in W.as[u].maps : m.obj = o => u = t /\ m.start = k.start
  BY <1>1, <1>3 DEF Attached, SurfaceMap
<1>5. Taken(M) = Ends(s.start, n)
  BY <1>2, <1>3 DEF Taken
<1>6. A.maps \ M = {m \in A.maps : m.start # s.start}
  <2>1. Apart(A.maps)
    BY <1>1, <1>4 DEF Good
  <2>2. ASSUME NEW m \in A.maps, m.start = s.start PROVE m = k
    <3>1. m.start \in Ends(m.start, m.size) /\ k.start \in Ends(k.start, k.size)
      BY <1>1, <1>4, MapFields
    <3> QED
      BY <1>3, <1>4, <2>1, <2>2, <3>1 DEF Apart
  <2> QED
    BY <1>2, <1>3, <2>2
<1>7. PICK B : B = unmap_pages(A, Taken(M))
  OBVIOUS
<1>8. PICK E : E = [dir |-> B.dir, table |-> B.table, page |-> B.page, maps |-> A.maps \ M]
  OBVIOUS
<1>9. FramesOf(W, G) = {W.shm[o].frames[i] : i \in 1 .. n}
  BY <1>1, <1>2 DEF FramesOf
<1>10. /\ X.as = [W.as EXCEPT ![t] = E] /\ X.shm = [W.shm EXCEPT ![o] = NULL]
       /\ X.table = W.table
       /\ X.used = W.used \ (TableFrames(A, Emptied(A, Taken(M))) \cup FramesOf(W, G))
  BY <1>1, <1>5, <1>6, <1>7, <1>8, <1>9 DEF layer_release_state, Released
<1>11. W.as \in [Task -> Space \cup {NULL}] /\ W.shm \in [Obj -> Objects \cup {NULL}]
       /\ t \in Task /\ o \in Obj /\ B \in Space /\ A \in Space
  BY <1>1, <1>4, <1>7, GoodFields, UnmapPagesType
<1>12. X.as[t] = E /\ E.maps = A.maps \ M /\ \A u \in Task \ {t} : X.as[u] = W.as[u]
  BY <1>8, <1>10, <1>11
<1>13. Live(X) \subseteq Live(W)
  BY <1>1, <1>4, <1>12 DEF Live
<1>14. X.shm[o] = NULL /\ \A p \in Obj \ {o} : X.shm[p] = W.shm[p]
  BY <1>10, <1>11
<1>15. Allocated(X) = Allocated(W) \ G
  BY <1>2, <1>14 DEF Allocated
<1>16. ASSUME NEW p \in Allocated(X)
       PROVE  X.shm[p] = W.shm[p] /\ X.shm[p].refcount > Cardinality(Refs(X, p))
  <2>1. X.shm[p] = W.shm[p] /\ p \in Allocated(W)
    BY <1>2, <1>14, <1>15 DEF Allocated
  <2>2. Refs(X, p) \in SUBSET Refs(W, p)
    <3>1. ASSUME NEW x \in Refs(X, p) PROVE x \in Refs(W, p)
      <4>1. PICK u \in Live(X) : \E m \in X.as[u].maps : m.obj = p /\ x = <<u, m>>
        BY <3>1, RefIs
      <4>2. PICK m \in X.as[u].maps : m.obj = p /\ x = <<u, m>>
        BY <4>1
      <4>3. u \in Live(W) /\ m \in W.as[u].maps
        BY <1>1, <1>12, <1>13, <4>2 DEF Live
      <4> QED
        BY <4>2, <4>3, RefIs
    <3> QED
      BY <3>1
  <2>3. IsFiniteSet(Refs(W, p))
    BY GoodFields, RefsFinite
  <2>4. Cardinality(Refs(X, p)) <= Cardinality(Refs(W, p)) /\ IsFiniteSet(Refs(X, p))
    BY <2>2, <2>3, FS_Subset
  <2>5. Cardinality(Refs(X, p)) \in Nat /\ Cardinality(Refs(W, p)) \in Nat
    BY <2>3, <2>4, FS_CardinalityType
  <2>6. W.shm[p].refcount > Cardinality(Refs(W, p)) /\ W.shm[p].refcount \in Nat
    BY <2>1, GoodFields, ObjectFields DEF Good, Counted
  <2> QED
    BY <2>1, <2>4, <2>5, <2>6
<1>17. X.shm \in [Obj -> Objects \cup {NULL}]
  BY <1>10, <1>11
<1>18. \A u \in Live(W) : \A a \in W.as[u].maps : a.obj \in G => u = t /\ a \in M
  <2> SUFFICES ASSUME NEW u \in Live(W), NEW a \in W.as[u].maps, a.obj \in G
               PROVE  u = t /\ a \in M
    OBVIOUS
  <2>1. u = t /\ a.start = s.start /\ a \in A.maps
    BY <1>1, <1>2, <1>3, <1>4
  <2> QED
    BY <1>6, <2>1
<1>19. DropOp(W, X, t, M, G, B, E)
  BY <1>1, <1>2, <1>4, <1>7, <1>8, <1>10, <1>15, <1>16, <1>17, <1>18 DEF DropOp
<1> QED
  BY <1>1, <1>2, <1>19

LEMMA ReleaseWorld ==
  ASSUME NEW W, Good(W), NEW s, Attached(W, s), NEW X, X = layer_release_state(W, s)
  PROVE  /\ Good(X) /\ SameHeaps(W, X)
         /\ \A a : Attached(W, a) /\ a.obj # s.obj => Attached(X, a)
<1>1. PICK M, G, B, E : /\ M = {SurfaceMap(W, s)} /\ G = {s.obj}
                        /\ DropOp(W, X, s.owner, M, G, B, E)
  BY ReleaseDrop
<1>2. \A m \in M : m.obj = s.obj
  BY <1>1 DEF SurfaceMap
<1>3. PICK t : t = s.owner
  OBVIOUS
<1>4. DropOp(W, X, t, M, G, B, E)
  BY <1>1, <1>3
<1>5. /\ Good(X) /\ SameHeaps(W, X)
      /\ \A a : Attached(W, a) /\ a.obj \notin G /\ (\A m \in M : m.obj # a.obj) => Attached(X, a)
  BY <1>4, DropWorld
<1> QED
  BY <1>1, <1>2, <1>5
-----------------------------------------------------------------------------
(* layer_prepare_state(): an object is created and mapped.                 *)
LEMMA EnoughLeft ==
  ASSUME NEW U, NEW C, NEW D, CanAlloc(U, C \cup D), Enough(U, C \cup D), C \cap D = {}
  PROVE  CanAlloc(U, C) /\ Enough(U, C) /\ Enough(U \cup Frames(U, C), D)
<1>1. IsFiniteSet(C) /\ IsFiniteSet(D) /\ IsFiniteSet(U)
  <2>1. C \in SUBSET (C \cup D) /\ D \in SUBSET (C \cup D)
    OBVIOUS
  <2> QED
    BY <2>1, FS_Subset DEF CanAlloc
<1>2. CanAlloc(U, C)
  <2>1. C \in SUBSET (C \cup D)
    OBVIOUS
  <2> QED
    BY <2>1, CanAllocPart
<1>3. Frames(U, C) \cap U = {} /\ IsFiniteSet(Frames(U, C))
  BY <1>2, FramesAreFree
<1>4. Cardinality(Frames(U, C)) <= Cardinality(C)
  <2> DEFINE f == [c \in C |-> alloc_frame(U, c)]
  <2>1. f \in Surjection(C, Frames(U, C))
    BY DEF Frames, Surjection
  <2> HIDE DEF f
  <2> QED
    BY <1>1, <2>1, FS_Surjection
<1>5. PICK F : F = Frames(U, C)
  OBVIOUS
<1>6. /\ Cardinality(U) \in Nat /\ Cardinality(C) \in Nat /\ Cardinality(D) \in Nat
      /\ Cardinality(F) \in Nat /\ MaxFrames \in Nat
  BY <1>1, <1>3, <1>5, FS_CardinalityType, MemoryAssumption
<1>7. Cardinality(U \cup F) = Cardinality(U) + Cardinality(F)
  <2>1. U \cap F = {}
    BY <1>3, <1>5
  <2>2. Cardinality(U \cup F) = Cardinality(U) + Cardinality(F) - Cardinality(U \cap F)
    BY <1>1, <1>3, <1>5, FS_Union
  <2>3. Cardinality(U \cap F) = 0
    BY <2>1, FS_EmptySet
  <2> QED
    BY <1>6, <2>2, <2>3
<1>8. Cardinality(C \cup D) = Cardinality(C) + Cardinality(D)
  <2>1. Cardinality(C \cup D) = Cardinality(C) + Cardinality(D) - Cardinality(C \cap D)
    BY <1>1, FS_Union
  <2>2. Cardinality(C \cap D) = 0
    BY FS_EmptySet
  <2> QED
    BY <1>6, <2>1, <2>2
<1>9. PICK x : x = Cardinality(C \cup D)
  OBVIOUS
<1>10. PICK y : y = Cardinality(U \cup F)
  OBVIOUS
<1>11. Cardinality(U) + x <= MaxFrames
  BY <1>9 DEF Enough
<1>12. Cardinality(U) + Cardinality(C) <= MaxFrames /\ y + Cardinality(D) <= MaxFrames
  BY <1>4, <1>5, <1>6, <1>7, <1>8, <1>9, <1>10, <1>11
<1> QED
  BY <1>2, <1>5, <1>10, <1>12 DEF Enough

LEMMA PrepareWorld ==
  ASSUME NEW W, Good(W), NEW t \in Live(W), NEW o \in Obj \ Allocated(W), NEW n \in 1 .. MaxSize,
         Places(W.as[t], n) # {},
         Enough(W.used, ObjectCells(o, n) \cup MapCells(W.as[t], t, n)),
         NEW X, X = layer_prepare_state(W, t, o, n), NEW v, v = Least(Places(W.as[t], n))
  PROVE  /\ Good(X) /\ SameHeaps(W, X)
         /\ \A s : Attached(W, s) => Attached(X, s)
         /\ Attached(X, [owner |-> t, obj |-> o, start |-> v])
<1>1. PICK C, D, U : C = ObjectCells(o, n) /\ D = MapCells(W.as[t], t, n) /\ U = W.used
  OBVIOUS
<1>2. CanAlloc(U, C \cup D) /\ Enough(U, C \cup D) /\ C \cap D = {}
  <2>1. t \in Task
    BY GoodFields
  <2>2. C \subseteq Cell /\ IsFiniteSet(C) /\ D \subseteq Cell /\ IsFiniteSet(D)
    BY <1>1, <2>1, ObjectCellsOK, NewTablesIn, TableCellsOK DEF MapCells
  <2>3. IsFiniteSet(C \cup D)
    BY <2>2, FS_Union
  <2>4. C \cap D = {}
    BY <1>1 DEF MapCells, TableCells, ObjectCells
  <2> QED
    BY <1>1, <2>2, <2>3, <2>4, GoodFields DEF CanAlloc
<1>3. Enough(U, C) /\ Enough(U \cup Frames(U, C), D)
  BY <1>2, EnoughLeft
<1>4. PICK Y : Y = shm_create(W, o, n)
  OBVIOUS
<1>5. /\ Good(Y) /\ Y.as = W.as /\ Y.table = W.table
      /\ Allocated(Y) = Allocated(W) \cup {o} /\ Y.shm[o].size = n /\ Refs(Y, o) = {}
      /\ Y.used = U \cup Frames(U, C)
      /\ \A s : Attached(W, s) => Attached(Y, s)
  BY <1>1, <1>3, <1>4, CreateWorld
<1>6. Live(Y) = Live(W) /\ o \notin Y.table /\ o \in Allocated(Y)
  BY <1>5, GoodFields DEF Live
<1>7. X = shm_map(Y, t, o)
  BY <1>4 DEF layer_prepare_state
<1>8. Enough(Y.used, MapCells(Y.as[t], t, n))
  BY <1>1, <1>3, <1>5
<1>9. Places(Y.as[t], n) # {} /\ v = Least(Places(Y.as[t], n))
  BY <1>5
<1>10. /\ Good(X) /\ SameHeaps(Y, X)
       /\ \A s : Attached(Y, s) /\ s.obj # o => Attached(X, s)
       /\ Attached(X, [owner |-> t, obj |-> o, start |-> v])
  <2>1. t \in Live(Y) /\ o \in Allocated(Y) /\ n = Y.shm[o].size
    BY <1>5, <1>6
  <2>2. MapDone(Y, X, t, o, v)
    BY <1>5, <1>7, <1>8, <1>9, <2>1, MapWorld
  <2> QED
    BY <1>5, <1>6, <2>2 DEF MapDone
<1>11. SameHeaps(W, X)
  BY <1>5, <1>6, <1>10 DEF SameHeaps
<1>12. \A s : Attached(W, s) => Attached(X, s)
  BY <1>5, <1>10 DEF Attached
<1> QED
  BY <1>10, <1>11, <1>12
-----------------------------------------------------------------------------
(* The inductive invariant: a good world, in which the tasks that are in   *)
(* use have an address space, the surface is attached and its owner alive, *)
(* and the heaps of tidy programs are mapped.                              *)
HeapOK(W, b, h) ==
  \A t \in Live(W) \cap h : \A v \in Heap : v \in Below(b[t]) <=> W.as[t].page[v] # NULL

MemoryOK(W, l, b, h, s) ==
  /\ Good(W)
  /\ l \in [Task -> {"UNUSED", "ALIVE", "ZOMBIE"}] /\ b \in [Task -> Nat] /\ h \subseteq Task
  /\ \A t \in Task : W.as[t] = NULL <=> l[t] = "UNUSED"
  /\ s # NULL => s \in Layer /\ Attached(W, s) /\ l[s.owner] = "ALIVE"
  /\ HeapOK(W, b, h)

MemoryInv == MemoryOK(World, life, brk_end, tidy, layer)

IsWorld(X) == X = [as |-> X.as, shm |-> X.shm, table |-> X.table, used |-> X.used]

LEMMA NextWorld ==
  ASSUME NEW X, IsWorld(X), Becomes(X), MemoryOK(X, life', brk_end', tidy', layer')
  PROVE  MemoryInv'
<1>1. World' = X
  BY DEF World, Becomes, IsWorld
<1> QED
  BY <1>1 DEF MemoryInv

LEMMA Worlds ==
  /\ IsWorld(World)
  /\ \A W, t, A, U : IsWorld(WithSpace(W, t, A, U))
  /\ \A W, o, n : IsWorld(shm_create(W, o, n))
  /\ \A W, t, o : IsWorld(shm_map(W, t, o))
  /\ \A W, t, M : IsWorld(shm_unmap(W, t, M))
  /\ \A W, s : IsWorld(layer_release_state(W, s))
<1>1. IsWorld(World)
  BY DEF IsWorld, World
<1>2. \A W, t, A, U : IsWorld(WithSpace(W, t, A, U))
  BY DEF IsWorld, WithSpace
<1>3. \A W, o, n : IsWorld(shm_create(W, o, n))
  BY DEF IsWorld, shm_create
<1>4. \A W, t, o : IsWorld(shm_map(W, t, o))
  BY DEF IsWorld, shm_map
<1>5. \A W, t, M : IsWorld(shm_unmap(W, t, M))
  BY DEF IsWorld, shm_unmap
<1>6. \A W, s : IsWorld(layer_release_state(W, s))
  BY DEF IsWorld, layer_release_state, Released
<1> QED
  BY <1>1, <1>2, <1>3, <1>4, <1>5, <1>6

LEMMA HeapsStay ==
  ASSUME NEW W, NEW X, SameHeaps(W, X), NEW b, NEW h, HeapOK(W, b, h)
  PROVE  HeapOK(X, b, h)
<1>1. Heap \subseteq Page \ Shmem
  BY MemoryAssumption DEF Page
<1> QED
  BY <1>1 DEF SameHeaps, HeapOK

(* Pages begin at multiples of Parts.                                      *)
LEMMA PartsApart ==
  ASSUME NEW i \in Nat, NEW j \in Nat, i < j
  PROVE  i * Parts + Parts <= j * Parts
<1>1. Parts \in Nat
  BY MemoryAssumption
<1>2. PICK k \in Nat : j = i + 1 + k
  <2>1. j - i - 1 \in Nat /\ j = i + 1 + (j - i - 1)
    OBVIOUS
  <2> QED
    BY <2>1
<1>3. j * Parts = i * Parts + Parts + k * Parts
  BY <1>1, <1>2
<1>4. k * Parts \in Nat /\ i * Parts \in Nat
  BY <1>1
<1> QED
  BY <1>1, <1>3, <1>4

LEMMA Divided ==
  ASSUME NEW a \in Nat
  PROVE  \E q \in Nat : a = q * Parts + (a % Parts) /\ a % Parts \in Nat /\ a % Parts < Parts
<1>1. Parts \in Nat \ {0}
  BY MemoryAssumption
<1>2. a \div Parts \in Nat /\ a % Parts \in 0 .. (Parts - 1)
  BY <1>1
<1>3. PICK q, r : q = a \div Parts /\ r = a % Parts
  OBVIOUS
<1>4. q \in Nat /\ r \in Nat /\ r < Parts /\ a = q * Parts + r
  BY <1>1, <1>2, <1>3
<1> QED
  BY <1>3, <1>4

LEMMA BytesOK ==
  /\ Heap \subseteq Page \ Shmem
  /\ \A v \in Heap : v \in Page /\ \E i \in Nat : Bytes(v) = i * Parts
<1>1. Heap \subseteq Nat /\ Heap \subseteq Page \ Shmem
  BY MemoryAssumption DEF Page
<1>2. ASSUME NEW v \in Heap PROVE v \in Page /\ \E i \in Nat : Bytes(v) = i * Parts
  <2>1. Least(Heap) \in Nat /\ Least(Heap) <= v /\ v \in Nat
    BY <1>1, LeastIn
  <2>2. v - Least(Heap) \in Nat
    BY <2>1
  <2> QED
    BY <1>1, <2>2 DEF Bytes
<1> QED
  BY <1>1, <1>2

LEMMA BelowOK ==
  /\ Below(0) = {}
  /\ Heap \subseteq Page \ Shmem
  /\ \A a, b : Visited(a, b) \subseteq Heap
<1>1. Below(0) = {}
  <2> SUFFICES ASSUME NEW v \in Heap, Bytes(v) < 0 PROVE FALSE
    BY DEF Below
  <2>1. PICK i \in Nat : Bytes(v) = i * Parts
    BY BytesOK
  <2>2. i * Parts \in Nat
    BY MemoryAssumption
  <2> QED
    BY <2>1, <2>2
<1> QED
  BY <1>1, BytesOK DEF Visited

(* A tidy move up comes to every page that it brings below the break, and  *)
(* to none above; one down to all that it takes away, and to none below.   *)
LEMMA VisitedUp ==
  ASSUME NEW a \in Nat, NEW b \in Nat, a < b, Tidy(a, b), NEW v \in Heap
  PROVE  v \in Below(b) <=> v \in Below(a) \/ v \in Visited(a, b)
<1>1. PICK i \in Nat : Bytes(v) = i * Parts
  BY BytesOK
<1>2. PICK q \in Nat : a = q * Parts + (a % Parts) /\ a % Parts \in Nat /\ a % Parts < Parts
  BY Divided
<1>3. PICK k \in Nat : b = k * Parts + (b % Parts) /\ b % Parts \in Nat /\ b % Parts < Parts
  BY Divided
<1>4. PICK x, y, z, r, u : /\ x = i * Parts /\ y = q * Parts /\ z = k * Parts
                           /\ r = a % Parts /\ u = b % Parts
  OBVIOUS
<1>5. x \in Nat /\ y \in Nat /\ z \in Nat /\ r \in Nat /\ u \in Nat /\ Parts \in Nat
  BY <1>2, <1>3, <1>4, MemoryAssumption
<1>6. \/ i < q /\ x + Parts <= y
      \/ i = q /\ x = y
      \/ i > q /\ y + Parts <= x
  BY <1>4, PartsApart
<1>7. \/ i < k /\ x + Parts <= z
      \/ i = k /\ x = z
      \/ i > k /\ z + Parts <= x
  BY <1>4, PartsApart
<1>8. a = y + r /\ r < Parts /\ b = z + u /\ u < Parts /\ (u = 0 \/ r < u)
  BY <1>2, <1>3, <1>4 DEF Tidy
<1>9. x < b <=> x < a \/ (a <= x + r /\ x + r < b)
  BY <1>5, <1>6, <1>7, <1>8
<1> QED
  BY <1>1, <1>4, <1>9 DEF Below, Visited

LEMMA VisitedDown ==
  ASSUME NEW a \in Nat, NEW b \in Nat, b < a, Tidy(a, b), NEW v \in Heap
  PROVE  v \in Below(b) <=> v \in Below(a) /\ v \notin Visited(b, a)
<1>1. PICK i \in Nat : Bytes(v) = i * Parts
  BY BytesOK
<1>2. i * Parts \in Nat
  BY MemoryAssumption
<1>3. b % Parts = 0
  BY DEF Tidy
<1> QED
  BY <1>1, <1>2, <1>3 DEF Below, Visited

(* What a step that keeps the heaps, the tasks and the surface keeps.      *)
LEMMA SameTasks ==
  ASSUME NEW W, NEW X, NEW l, NEW b, NEW h, NEW s, MemoryOK(W, l, b, h, s),
         Good(X), SameHeaps(W, X),
         NEW a, a # NULL => a \in Layer /\ Attached(X, a) /\ l[a.owner] = "ALIVE"
  PROVE  MemoryOK(X, l, b, h, a)
<1>1. HeapOK(X, b, h)
  BY HeapsStay DEF MemoryOK
<1>2. \A t \in Task : X.as[t] = NULL <=> W.as[t] = NULL
  BY DEF SameHeaps, Live
<1> QED
  BY <1>1, <1>2 DEF MemoryOK
-----------------------------------------------------------------------------
(* The steps.                                                              *)

LEMMA AliveOK ==
  ASSUME MemoryInv, NEW t \in Task, Alive(t)
  PROVE  /\ t \in Live(World) /\ as[t] # NULL /\ World.as[t] = as[t] /\ Good(World)
         /\ brk_end \in [Task -> Nat] /\ HeapOK(World, brk_end, tidy)
BY DEF MemoryInv, MemoryOK, Alive, World, Live

LEMMA WorldFields == World.as = as /\ World.shm = shm /\ World.table = shm_table /\ World.used = used
BY DEF World

(* A step in which one live task gets another address space.               *)
TaskOp(W, l, b, h, s, t, B, U, X, m, n, c, g) ==
  /\ MemoryOK(W, l, b, h, s) /\ t \in Task /\ B \in Space /\ X = WithSpace(W, t, B, U) /\ Good(X)
  /\ s # NULL => Attached(X, s)
  /\ m \in [Task -> {"UNUSED", "ALIVE", "ZOMBIE"}] /\ m[t] # "UNUSED"
  /\ \A u \in Task \ {t} : m[u] = l[u]
  /\ l[t] = "ALIVE" => m[t] = "ALIVE"
  /\ n \in Nat /\ c = [b EXCEPT ![t] = n]
  /\ g \subseteq Task /\ \A u \in Task \ {t} : u \in g => u \in h
  /\ t \in g => \A v \in Heap : v \in Below(n) <=> B.page[v] # NULL

LEMMA SpaceTasks ==
  ASSUME NEW W, NEW l, NEW b, NEW h, NEW s, NEW t, NEW B, NEW U, NEW X, NEW m, NEW n,
         NEW c, NEW g, TaskOp(W, l, b, h, s, t, B, U, X, m, n, c, g)
  PROVE  MemoryOK(X, m, c, g, s)
<1> USE DEF TaskOp
<1>1. W.as \in [Task -> Space \cup {NULL}] /\ b \in [Task -> Nat]
  BY GoodFields DEF MemoryOK
<1>2. X.as[t] = B /\ B # NULL /\ \A u \in Task \ {t} : X.as[u] = W.as[u]
  BY <1>1, MemoryAssumption DEF WithSpace
<1>3. c \in [Task -> Nat] /\ c[t] = n /\ \A u \in Task \ {t} : c[u] = b[u]
  BY <1>1
<1>4. HeapOK(X, c, g)
  <2> SUFFICES ASSUME NEW u \in Live(X) \cap g
               PROVE  \A v \in Heap : v \in Below(c[u]) <=> X.as[u].page[v] # NULL
    BY DEF HeapOK
  <2>1. CASE u = t
    BY <1>2, <1>3, <2>1
  <2>2. CASE u # t
    <3>1. u \in Task \ {t}
      BY <2>2 DEF MemoryOK
    <3>2. u \in Live(W) \cap h /\ c[u] = b[u] /\ X.as[u] = W.as[u]
      BY <1>2, <1>3, <3>1 DEF Live
    <3> QED
      BY <3>2 DEF MemoryOK, HeapOK
  <2> QED
    BY <2>1, <2>2
<1>5. \A u \in Task : X.as[u] = NULL <=> m[u] = "UNUSED"
  BY <1>2 DEF MemoryOK
<1>6. s # NULL => s \in Layer /\ Attached(X, s) /\ m[s.owner] = "ALIVE"
  BY DEF MemoryOK, Layer
<1> QED
  BY <1>3, <1>4, <1>5, <1>6 DEF MemoryOK

(* The same for a program that moves its break or loads another one.       *)
LEMMA SpaceNext ==
  ASSUME MemoryInv, NEW t \in Task, Alive(t), NEW B \in Space, NEW U,
         NEW X, X = WithSpace(World, t, B, U), Becomes(X), Good(X),
         layer # NULL /\ Attached(World, layer) => Attached(X, layer),
         NEW n \in Nat, brk_end' = [brk_end EXCEPT ![t] = n], life' = life, layer' = layer,
         tidy' \subseteq tidy \cup {t},
         t \in tidy' => \A v \in Heap : v \in Below(n) <=> B.page[v] # NULL
  PROVE  MemoryInv'
<1>1. PICK W, l, b, h, s, c, g : /\ W = World /\ l = life /\ b = brk_end /\ h = tidy /\ s = layer
                                /\ c = brk_end' /\ g = tidy'
  OBVIOUS
<1>2. MemoryOK(W, l, b, h, s) /\ c = [b EXCEPT ![t] = n] /\ X = WithSpace(W, t, B, U)
  BY <1>1 DEF MemoryInv
<1>3. /\ l \in [Task -> {"UNUSED", "ALIVE", "ZOMBIE"}] /\ l[t] # "UNUSED"
      /\ s # NULL => Attached(X, s)
  BY <1>1, <1>2 DEF MemoryOK, Alive
<1>4. MemoryOK(X, l, c, g, s)
  <2>1. g \subseteq Task /\ \A u \in Task \ {t} : u \in g => u \in h
    BY <1>1, <1>2 DEF MemoryOK
  <2>2. t \in g => \A v \in Heap : v \in Below(n) <=> B.page[v] # NULL
    BY <1>1
  <2>3. TaskOp(W, l, b, h, s, t, B, U, X, l, n, c, g)
    BY <1>2, <1>3, <2>1, <2>2 DEF TaskOp
  <2> QED
    BY <2>3, SpaceTasks
<1>5. IsWorld(X) /\ MemoryOK(X, life', brk_end', tidy', layer')
  BY <1>1, <1>2, <1>4, Worlds
<1> QED
  BY <1>5, NextWorld

LEMMA StepUp ==
  ASSUME MemoryInv, NEW t \in Task, NEW n \in Nat, sbrk_up(t, n)
  PROVE  MemoryInv'
<1>1. PICK W : W = World
  OBVIOUS
<1>2. Alive(t) /\ W.as = as /\ W.used = used
  BY <1>1, WorldFields DEF sbrk_up
<1> DEFINE V0 == Grown(t, n)
           C0 == OwnCells(W.as[t], t, V0)
           B0 == alloc_map_pages(W.as[t], t, V0, W.used)
<1>3. PICK V, C, B : V = V0 /\ C = C0 /\ B = B0
  OBVIOUS
<1>4. PICK U, X : U = W.used \cup Frames(W.used, C) /\ X = WithSpace(W, t, B, U)
  OBVIOUS
<1>5. /\ n > 0 /\ Enough(W.used, C) /\ Becomes(X)
      /\ Moves(t, brk_end[t] + n) /\ life' = life /\ layer' = layer
  BY <1>1, <1>2, <1>3, <1>4 DEF sbrk_up
<1>6. /\ V = Grown(t, n) /\ C = OwnCells(W.as[t], t, V)
      /\ B = alloc_map_pages(W.as[t], t, V, W.used)
  BY <1>3
<1> HIDE DEF V0, C0, B0
<1>7. /\ t \in Live(W) /\ Good(W) /\ brk_end \in [Task -> Nat] /\ HeapOK(W, brk_end, tidy)
  BY <1>1, <1>2, AliveOK
<1>8. V = Visited(brk_end[t], brk_end[t] + n) /\ V \in SUBSET Page /\ V \cap Shmem = {}
  BY <1>6, BelowOK DEF Grown
<1>9. /\ Good(X) /\ B \in Space
      /\ \A s : Attached(W, s) => Attached(X, s)
      /\ \A v \in V : B.page[v] # NULL
      /\ \A v \in Page \ V : B.page[v] = W.as[t].page[v]
  <2>1. GrowOp(W, t, V, C, B, U, X)
    BY <1>4, <1>5, <1>6, <1>7, <1>8 DEF GrowOp
  <2> QED
    BY <2>1, GrowWorld DEF GrowDone
<1>10. PICK k : k = brk_end[t] + n
  OBVIOUS
<1>11. /\ k \in Nat /\ brk_end[t] \in Nat /\ brk_end[t] < k
       /\ brk_end' = [brk_end EXCEPT ![t] = k] /\ tidy' \subseteq tidy
       /\ t \in tidy' => Tidy(brk_end[t], k)
  <2>1. brk_end[t] \in Nat
    BY <1>7
  <2> QED
    BY <1>5, <1>10, <2>1 DEF Moves
<1>12. ASSUME t \in tidy', NEW v \in Heap PROVE v \in Below(k) <=> B.page[v] # NULL
  <2>1. v \in Below(k) <=> v \in Below(brk_end[t]) \/ v \in V
    BY <1>8, <1>10, <1>11, <1>12, VisitedUp
  <2>2. v \in Below(brk_end[t]) <=> W.as[t].page[v] # NULL
    BY <1>7, <1>11, <1>12 DEF HeapOK
  <2>3. v \in Page
    BY BytesOK
  <2> QED
    BY <1>9, <2>1, <2>2, <2>3
<1>13. /\ Good(X) /\ B \in Space /\ Becomes(X) /\ X = WithSpace(World, t, B, U)
       /\ layer # NULL /\ Attached(World, layer) => Attached(X, layer)
  BY <1>1, <1>4, <1>5, <1>9
<1>14. /\ brk_end' = [brk_end EXCEPT ![t] = k] /\ life' = life /\ layer' = layer
       /\ tidy' \subseteq tidy \cup {t}
  BY <1>5, <1>11
<1> QED
  BY <1>2, <1>11, <1>12, <1>13, <1>14, SpaceNext

LEMMA StepDown ==
  ASSUME MemoryInv, NEW t \in Task, NEW n \in Nat, sbrk_down(t, n)
  PROVE  MemoryInv'
<1>1. PICK W : W = World
  OBVIOUS
<1>2. Alive(t) /\ W.as = as /\ W.used = used
  BY <1>1, WorldFields DEF sbrk_down
<1> DEFINE V0 == Shrunk(t, n)
           B0 == unmap_pages(W.as[t], V0)
<1>3. PICK V, B : V = V0 /\ B = B0
  OBVIOUS
<1>4. PICK U, X : U = W.used \ Freed(W.as[t], V) /\ X = WithSpace(W, t, B, U)
  OBVIOUS
<1>5. /\ n > 0 /\ n <= brk_end[t] /\ Becomes(X)
      /\ Moves(t, brk_end[t] - n) /\ life' = life /\ layer' = layer
  BY <1>1, <1>2, <1>3, <1>4 DEF sbrk_down
<1>6. V = Shrunk(t, n) /\ B = unmap_pages(W.as[t], V)
  BY <1>3
<1> HIDE DEF V0, B0
<1>7. /\ t \in Live(W) /\ Good(W) /\ brk_end \in [Task -> Nat] /\ HeapOK(W, brk_end, tidy)
  BY <1>1, <1>2, AliveOK
<1>8. V = Visited(brk_end[t] - n, brk_end[t]) /\ V \in SUBSET Page /\ V \cap Shmem = {}
  BY <1>6, BelowOK DEF Shrunk
<1>9. /\ Good(X) /\ B \in Space
      /\ \A s : Attached(W, s) => Attached(X, s)
      /\ \A v \in Page : B.page[v] = IF v \in V THEN NULL ELSE W.as[t].page[v]
  <2>1. ShrinkOp(W, t, V, B, U, X)
    BY <1>4, <1>6, <1>7, <1>8 DEF ShrinkOp
  <2> QED
    BY <2>1, ShrinkWorld DEF ShrinkDone
<1>10. PICK k : k = brk_end[t] - n
  OBVIOUS
<1>11. /\ k \in Nat /\ brk_end[t] \in Nat /\ k < brk_end[t]
       /\ brk_end' = [brk_end EXCEPT ![t] = k] /\ tidy' \subseteq tidy
       /\ t \in tidy' => Tidy(brk_end[t], k)
  <2>1. brk_end[t] \in Nat
    BY <1>7
  <2>2. k \in Nat /\ k < brk_end[t]
    BY <1>5, <1>10, <2>1
  <2> QED
    BY <1>5, <1>10, <2>1, <2>2 DEF Moves
<1>12. ASSUME t \in tidy', NEW v \in Heap PROVE v \in Below(k) <=> B.page[v] # NULL
  <2>1. v \in Below(k) <=> v \in Below(brk_end[t]) /\ v \notin V
    BY <1>8, <1>10, <1>11, <1>12, VisitedDown
  <2>2. v \in Below(brk_end[t]) <=> W.as[t].page[v] # NULL
    BY <1>7, <1>11, <1>12 DEF HeapOK
  <2>3. v \in Page
    BY BytesOK
  <2> QED
    BY <1>9, <2>1, <2>2, <2>3
<1>13. /\ Good(X) /\ B \in Space /\ Becomes(X) /\ X = WithSpace(World, t, B, U)
       /\ layer # NULL /\ Attached(World, layer) => Attached(X, layer)
  BY <1>1, <1>4, <1>5, <1>9
<1>14. /\ brk_end' = [brk_end EXCEPT ![t] = k] /\ life' = life /\ layer' = layer
       /\ tidy' \subseteq tidy \cup {t}
  BY <1>5, <1>11
<1> QED
  BY <1>2, <1>11, <1>12, <1>13, <1>14, SpaceNext

(* A step that keeps the tasks, the breaks and the heaps.                  *)
LEMMA SharedNext ==
  ASSUME MemoryInv, NEW X, IsWorld(X), Becomes(X), Good(X), SameHeaps(World, X),
         life' = life, brk_end' = brk_end, tidy' = tidy,
         layer' # NULL => layer' \in Layer /\ Attached(X, layer') /\ life[layer'.owner] = "ALIVE"
  PROVE  MemoryInv'
<1>1. PICK W, l, b, h, s, a : /\ W = World /\ l = life /\ b = brk_end /\ h = tidy
                             /\ s = layer /\ a = layer'
  OBVIOUS
<1>2. MemoryOK(W, l, b, h, s) /\ SameHeaps(W, X)
  BY <1>1 DEF MemoryInv
<1>3. a # NULL => a \in Layer /\ Attached(X, a) /\ l[a.owner] = "ALIVE"
  BY <1>1
<1>4. MemoryOK(X, l, b, h, a)
  BY <1>2, <1>3, SameTasks
<1>5. MemoryOK(X, life', brk_end', tidy', layer')
  BY <1>1, <1>4
<1> QED
  BY <1>5, NextWorld

LEMMA LayerOK ==
  ASSUME MemoryInv, layer # NULL
  PROVE  layer \in Layer /\ Attached(World, layer) /\ life[layer.owner] = "ALIVE"
         /\ layer.owner \in Live(World)
BY DEF MemoryInv, MemoryOK, Attached

LEMMA FreeObjOK ==
  ASSUME HasFreeObj
  PROVE  FreeObj \in Obj \ Allocated(World)
<1>1. FreeObj \in Obj /\ shm[FreeObj] = NULL
  BY DEF HasFreeObj, FreeObj
<1> QED
  BY <1>1, WorldFields DEF Allocated

LEMMA StepCreate ==
  ASSUME MemoryInv, NEW t \in Task, NEW n \in 1 .. MaxSize, sys_shm_create(t, n)
  PROVE  MemoryInv'
<1>1. PICK W, o, Y : W = World /\ o = FreeObj /\ Y = shm_create(W, o, n)
  OBVIOUS
<1>2. /\ Alive(t) /\ HasFreeObj /\ Enough(W.used, ObjectCells(o, n))
      /\ Becomes([Y EXCEPT !.table = Y.table \cup {o}])
      /\ life' = life /\ brk_end' = brk_end /\ tidy' = tidy /\ layer' = layer
  BY <1>1, WorldFields DEF sys_shm_create
<1>3. Good(W) /\ o \in Obj \ Allocated(W)
  BY <1>1, <1>2, AliveOK, FreeObjOK
<1>4. /\ Good(Y) /\ Y.as = W.as /\ o \in Allocated(Y) /\ Refs(Y, o) = {}
      /\ \A s : Attached(W, s) => Attached(Y, s)
  BY <1>1, <1>2, <1>3, CreateWorld
<1>5. PICK X : X = [as |-> Y.as, shm |-> Y.shm, table |-> Y.table \cup {o}, used |-> Y.used]
  OBVIOUS
<1>6. Becomes(X) /\ IsWorld(X)
  <2>1. IsWorld(Y)
    BY <1>1, Worlds
  <2>2. [Y EXCEPT !.table = Y.table \cup {o}] = X
    BY <1>5, <2>1 DEF IsWorld
  <2> QED
    BY <1>2, <1>5, <2>2 DEF IsWorld
<1>7. Good(X) /\ \A s : Attached(Y, s) => Attached(X, s)
  <2>1. X.as = Y.as /\ X.shm = Y.shm /\ X.used = Y.used /\ X.table = Y.table \cup {o}
    BY <1>5
  <2> QED
    BY <1>4, <2>1, ListedWorld
<1>8. SameHeaps(World, X)
  BY <1>1, <1>4, <1>5 DEF SameHeaps, Live
<1>9. layer' # NULL => layer' \in Layer /\ Attached(X, layer') /\ life[layer'.owner] = "ALIVE"
  BY <1>1, <1>2, <1>4, <1>7, LayerOK
<1> QED
  BY <1>2, <1>6, <1>7, <1>8, <1>9, SharedNext

LEMMA StepMap ==
  ASSUME MemoryInv, NEW t \in Task, NEW o \in Obj, sys_shm_map(t, o)
  PROVE  MemoryInv'
<1>1. PICK W, X, n : W = World /\ X = shm_map(W, t, o) /\ n = W.shm[o].size
  OBVIOUS
<1>2. /\ Alive(t) /\ o \in W.table /\ Places(W.as[t], n) # {}
      /\ Enough(W.used, MapCells(W.as[t], t, n)) /\ Becomes(X)
      /\ life' = life /\ brk_end' = brk_end /\ tidy' = tidy /\ layer' = layer
  BY <1>1, WorldFields DEF sys_shm_map
<1>3. Good(W) /\ t \in Live(W)
  BY <1>1, <1>2, AliveOK
<1>4. o \in Allocated(W)
  BY <1>2, <1>3, GoodFields
<1>5. PICK v : v = Least(Places(W.as[t], n))
  OBVIOUS
<1>6. MapDone(W, X, t, o, v)
  BY <1>1, <1>2, <1>3, <1>4, <1>5, MapWorld
<1>7. ASSUME layer # NULL
      PROVE  layer \in Layer /\ Attached(X, layer) /\ life[layer.owner] = "ALIVE"
  <2>1. layer \in Layer /\ Attached(W, layer) /\ life[layer.owner] = "ALIVE"
    BY <1>1, <1>7, LayerOK
  <2>2. layer.obj # o
    BY <1>2, <2>1 DEF Attached
  <2> QED
    BY <1>6, <2>1, <2>2 DEF MapDone
<1>8. Good(X) /\ SameHeaps(World, X) /\ IsWorld(X)
  BY <1>1, <1>6, Worlds DEF MapDone
<1> QED
  BY <1>2, <1>7, <1>8, SharedNext

LEMMA StepUnmap ==
  ASSUME MemoryInv, NEW t \in Task, NEW m \in as[t].maps, sys_shm_unmap(t, m)
  PROVE  MemoryInv'
<1>1. PICK W, M, X : W = World /\ M = {m} /\ X = shm_unmap(W, t, M)
  OBVIOUS
<1>2. /\ Alive(t) /\ Keeps(t, m.obj) /\ Becomes(X)
      /\ life' = life /\ brk_end' = brk_end /\ tidy' = tidy /\ layer' = layer
  BY <1>1 DEF sys_shm_unmap
<1>3. Good(W) /\ t \in Live(W) /\ M \in SUBSET W.as[t].maps
  BY <1>1, <1>2, AliveOK
<1>4. /\ Good(X) /\ SameHeaps(W, X)
      /\ \A s : Attached(W, s) /\ (\A k \in M : k.obj # s.obj) => Attached(X, s)
  BY <1>1, <1>3, UnmapWorld
<1>5. ASSUME layer # NULL
      PROVE  layer \in Layer /\ Attached(X, layer) /\ life[layer.owner] = "ALIVE"
  <2>1. layer \in Layer /\ Attached(W, layer) /\ life[layer.owner] = "ALIVE"
    BY <1>1, <1>5, LayerOK
  <2>2. m.obj # layer.obj
    <3>1. m \in W.as[t].maps
      BY <1>1, <1>3
    <3>2. m.obj = layer.obj => t = layer.owner
      BY <1>3, <2>1, <3>1 DEF Attached
    <3> QED
      BY <1>2, <1>5, <3>2 DEF Keeps
  <2> QED
    BY <1>1, <1>4, <2>1, <2>2
<1>6. IsWorld(X) /\ SameHeaps(World, X)
  BY <1>1, <1>4, Worlds
<1> QED
  BY <1>2, <1>4, <1>5, <1>6, SharedNext

LEMMA SameHeapsTwice ==
  ASSUME NEW W, NEW Y, NEW X, SameHeaps(W, Y), SameHeaps(Y, X)
  PROVE  SameHeaps(W, X)
BY DEF SameHeaps

(* The buffer of a new surface.                                            *)
LEMMA Prepared ==
  ASSUME MemoryInv, NEW t \in Task, NEW n \in 1 .. MaxSize, Alive(t), CanPrepare(t, n),
         NEW X, X = layer_prepare_state(World, t, FreeObj, n),
         NEW a, a = NewLayer(t, FreeObj, n)
  PROVE  /\ Good(X) /\ SameHeaps(World, X) /\ IsWorld(X)
         /\ \A s : Attached(World, s) => Attached(X, s)
         /\ Attached(X, a) /\ a \in Layer /\ a.owner = t /\ a.obj \notin Allocated(World)
<1>1. PICK W, o, v : W = World /\ o = FreeObj /\ v = Least(Places(W.as[t], n))
  OBVIOUS
<1>2. HasFreeObj /\ Places(W.as[t], n) # {}
      /\ Enough(W.used, ObjectCells(o, n) \cup MapCells(W.as[t], t, n))
  BY <1>1, WorldFields DEF CanPrepare
<1>3. Good(W) /\ t \in Live(W) /\ o \in Obj \ Allocated(W)
  BY <1>1, <1>2, AliveOK, FreeObjOK
<1>4. a = [owner |-> t, obj |-> o, start |-> v]
  BY <1>1, WorldFields DEF NewLayer
<1>5. X = layer_prepare_state(W, t, o, n)
  BY <1>1
<1>6. /\ Good(X) /\ SameHeaps(W, X)
      /\ \A s : Attached(W, s) => Attached(X, s)
      /\ Attached(X, [owner |-> t, obj |-> o, start |-> v])
  BY <1>1, <1>2, <1>3, <1>5, PrepareWorld
<1>7. v \in Shmem
  <2>1. n \in Nat /\ n >= 1
    BY MemoryAssumption
  <2> QED
    BY <1>1, <1>2, <2>1, RegionFree
<1>8. a \in Layer /\ a.owner = t /\ a.obj = o
  BY <1>3, <1>4, <1>7 DEF Layer
<1>9. IsWorld(X)
  BY Worlds DEF layer_prepare_state
<1> QED
  BY <1>1, <1>3, <1>4, <1>6, <1>8, <1>9

LEMMA StepRequest ==
  ASSUME MemoryInv, NEW t \in Task, NEW n \in 1 .. MaxSize, sys_5ht_req_buf(t, n)
  PROVE  MemoryInv'
<1>1. PICK X, a : X = layer_prepare_state(World, t, FreeObj, n) /\ a = NewLayer(t, FreeObj, n)
  OBVIOUS
<1>2. /\ Alive(t) /\ CanPrepare(t, n) /\ Becomes(X) /\ layer' = a
      /\ life' = life /\ brk_end' = brk_end /\ tidy' = tidy
  BY <1>1 DEF sys_5ht_req_buf
<1>3. /\ Good(X) /\ SameHeaps(World, X) /\ IsWorld(X)
      /\ Attached(X, a) /\ a \in Layer /\ a.owner = t
  BY <1>1, <1>2, Prepared
<1>4. life[a.owner] = "ALIVE"
  BY <1>2, <1>3 DEF Alive
<1> QED
  BY <1>2, <1>3, <1>4, SharedNext

LEMMA StepRelease ==
  ASSUME MemoryInv, NEW t \in Task, sys_5ht_rel_buf(t)
  PROVE  MemoryInv'
<1>1. PICK X : X = layer_release_state(World, layer)
  OBVIOUS
<1>2. /\ Alive(t) /\ Owns(t) /\ Becomes(X) /\ layer' = NULL
      /\ life' = life /\ brk_end' = brk_end /\ tidy' = tidy
  BY <1>1 DEF sys_5ht_rel_buf
<1>3. Good(World) /\ Attached(World, layer)
  BY <1>2, AliveOK, LayerOK DEF Owns
<1>4. PICK W, s : W = World /\ s = layer
  OBVIOUS
<1>5. Good(X) /\ SameHeaps(W, X)
  BY <1>1, <1>3, <1>4, ReleaseWorld
<1> QED
  BY <1>1, <1>2, <1>4, <1>5, Worlds, SharedNext

LEMMA StepConfigure ==
  ASSUME MemoryInv, NEW t \in Task, NEW n \in 1 .. MaxSize, sys_5ht_rcfg_layer(t, n)
  PROVE  MemoryInv'
<1>1. PICK Y, s, a : /\ Y = layer_prepare_state(World, t, FreeObj, n)
                     /\ s = layer /\ a = NewLayer(t, FreeObj, n)
  OBVIOUS
<1>2. PICK X : X = layer_release_state(Y, s)
  OBVIOUS
<1>3. /\ Alive(t) /\ Owns(t) /\ CanPrepare(t, n) /\ Becomes(X) /\ layer' = a
      /\ life' = life /\ brk_end' = brk_end /\ tidy' = tidy
  BY <1>1, <1>2 DEF sys_5ht_rcfg_layer
<1>4. /\ Good(Y) /\ SameHeaps(World, Y)
      /\ \A x : Attached(World, x) => Attached(Y, x)
      /\ Attached(Y, a) /\ a \in Layer /\ a.owner = t /\ a.obj \notin Allocated(World)
  BY <1>1, <1>3, Prepared
<1>5. Attached(World, s)
  BY <1>1, <1>3, LayerOK DEF Owns
<1>6. a.obj # s.obj
  BY <1>4, <1>5 DEF Attached
<1>7. Attached(Y, s)
  BY <1>4, <1>5
<1>8. Good(X) /\ SameHeaps(Y, X) /\ \A x : Attached(Y, x) /\ x.obj # s.obj => Attached(X, x)
  BY <1>2, <1>4, <1>7, ReleaseWorld
<1>9. SameHeaps(World, X) /\ IsWorld(X) /\ Attached(X, a) /\ life[a.owner] = "ALIVE"
  BY <1>2, <1>3, <1>4, <1>6, <1>8, SameHeapsTwice, Worlds DEF Alive
<1> QED
  BY <1>3, <1>4, <1>8, <1>9, SharedNext

LEMMA StepFork ==
  ASSUME MemoryInv, NEW t \in Task, NEW u \in Task, task_fork(t, u)
  PROVE  MemoryInv'
<1>1. PICK W, l, b, h, s : W = World /\ l = life /\ b = brk_end /\ h = tidy /\ s = layer
  OBVIOUS
<1>2. MemoryOK(W, l, b, h, s) /\ W.as = as /\ W.used = used
  BY <1>1, WorldFields DEF MemoryInv
<1> DEFINE V0 == Mapped(W.as[t])
           C0 == SpaceCells(u, V0)
           B0 == NewSpace(u, V0, W.used)
<1>3. PICK V, C, B : V = V0 /\ C = C0 /\ B = B0
  OBVIOUS
<1>4. PICK U, X : U = W.used \cup Frames(W.used, C) /\ X = WithSpace(W, u, B, U)
  OBVIOUS
<1>5. PICK m, c, k, g : /\ k = b[t] /\ m = [l EXCEPT ![u] = "ALIVE"] /\ c = [b EXCEPT ![u] = k]
                        /\ g = IF t \in h THEN h \cup {u} ELSE h \ {u}
  OBVIOUS
<1>6. /\ Alive(t) /\ l[u] = "UNUSED" /\ Enough(W.used, C) /\ Becomes(X)
      /\ life' = m /\ brk_end' = c /\ tidy' = g /\ layer' = s
  BY <1>1, <1>2, <1>3, <1>4, <1>5 DEF task_fork
<1>7. V = Mapped(W.as[t]) /\ C = SpaceCells(u, V) /\ B = NewSpace(u, V, W.used)
  BY <1>3
<1> HIDE DEF V0, C0, B0
<1>8. Good(W) /\ t \in Live(W) /\ HeapOK(W, b, h) /\ b \in [Task -> Nat]
      /\ l \in [Task -> {"UNUSED", "ALIVE", "ZOMBIE"}]
  BY <1>1, <1>2, <1>6, AliveOK DEF MemoryOK
<1>9. W.as[u] = NULL
  BY <1>2, <1>6 DEF MemoryOK
<1>10. NewOp(W, u, V, C, B, U, X)
  <2>1. U = (W.used \cup Frames(W.used, C)) \ OldFrames(W, u)
    BY <1>4, <1>9 DEF OldFrames
  <2>2. V \in SUBSET Page
    BY <1>7 DEF Mapped
  <2> QED
    BY <1>4, <1>6, <1>7, <1>8, <2>1, <2>2 DEF NewOp
<1>11. /\ Good(X) /\ B \in Space /\ \A x : Attached(W, x) /\ x.owner # u => Attached(X, x)
       /\ \A v \in Page : B.page[v] # NULL <=> v \in V
  BY <1>10, NewWorld DEF NewDone
<1>12. s # NULL => Attached(X, s)
  <2>1. s # NULL => Attached(W, s) /\ s.owner # u
    BY <1>2, <1>6 DEF MemoryOK
  <2> QED
    BY <1>11, <2>1
<1>13. m \in [Task -> {"UNUSED", "ALIVE", "ZOMBIE"}] /\ m[u] = "ALIVE"
       /\ \A x \in Task \ {u} : m[x] = l[x]
  BY <1>5, <1>8
<1>14. u \in g => \A v \in Heap : v \in Below(k) <=> B.page[v] # NULL
  <2>1. \A v \in Heap : v \in Page
    BY DEF Page
  <2>2. u \in g => t \in h
    BY <1>5
  <2> QED
    BY <1>5, <1>7, <1>8, <1>11, <2>1, <2>2 DEF HeapOK, Mapped
<1>15. TaskOp(W, l, b, h, s, u, B, U, X, m, k, c, g)
  <2>1. k \in Nat
    BY <1>5, <1>8
  <2>2. g \subseteq Task /\ \A x \in Task \ {u} : x \in g => x \in h
    BY <1>2, <1>5 DEF MemoryOK
  <2> QED
    BY <1>2, <1>4, <1>5, <1>11, <1>12, <1>13, <1>14, <2>1, <2>2 DEF TaskOp
<1>16. MemoryOK(X, life', brk_end', tidy', layer')
  <2>1. MemoryOK(X, m, c, g, s)
    BY <1>15, SpaceTasks
  <2> QED
    BY <1>6, <2>1
<1> QED
  BY <1>4, <1>6, <1>16, NextWorld, Worlds

LEMMA StepExec ==
  ASSUME MemoryInv, NEW t \in Task, sys_execve(t)
  PROVE  MemoryInv'
<1>1. PICK W, l, b, h, s : W = World /\ l = life /\ b = brk_end /\ h = tidy /\ s = layer
  OBVIOUS
<1>2. MemoryOK(W, l, b, h, s) /\ W.as = as /\ W.used = used
  BY <1>1, WorldFields DEF MemoryInv
<1>3. PICK C, B : C = SpaceCells(t, Image) /\ B = NewSpace(t, Image, W.used)
  OBVIOUS
<1>4. PICK U, X : /\ U = (W.used \cup Frames(W.used, C)) \ destroy_address_space(W.as[t])
                  /\ X = WithSpace(W, t, B, U)
  OBVIOUS
<1>5. PICK c, k, g : k = 0 /\ c = [b EXCEPT ![t] = k] /\ g = h \cup {t}
  OBVIOUS
<1>6. /\ Alive(t) /\ ~Owns(t) /\ Enough(W.used, C) /\ Becomes(X)
      /\ life' = l /\ brk_end' = c /\ tidy' = g /\ layer' = s
  BY <1>1, <1>2, <1>3, <1>4, <1>5 DEF sys_execve
<1>7. Good(W) /\ t \in Live(W) /\ b \in [Task -> Nat] /\ W.as[t] # NULL
      /\ l \in [Task -> {"UNUSED", "ALIVE", "ZOMBIE"}] /\ l[t] = "ALIVE"
  BY <1>1, <1>2, <1>6, AliveOK DEF MemoryOK, Alive, Live
<1>8. NewOp(W, t, Image, C, B, U, X)
  <2>1. U = (W.used \cup Frames(W.used, C)) \ OldFrames(W, t)
    BY <1>4, <1>7 DEF OldFrames
  <2>2. Image \in SUBSET Page
    BY DEF Page
  <2> QED
    BY <1>3, <1>4, <1>6, <1>7, <2>1, <2>2 DEF NewOp
<1>9. /\ Good(X) /\ B \in Space /\ \A x : Attached(W, x) /\ x.owner # t => Attached(X, x)
      /\ \A v \in Page : B.page[v] # NULL <=> v \in Image
  BY <1>8, NewWorld DEF NewDone
<1>10. s # NULL => Attached(X, s)
  <2>1. s # NULL => Attached(W, s) /\ s.owner # t
    BY <1>1, <1>2, <1>6 DEF MemoryOK, Owns
  <2> QED
    BY <1>9, <2>1
<1>11. \A v \in Heap : v \in Below(k) <=> B.page[v] # NULL
  <2>1. \A v \in Heap : v \in Page /\ v \notin Image
    BY MemoryAssumption DEF Page
  <2> QED
    BY <1>5, <1>9, <2>1, BelowOK
<1>12. TaskOp(W, l, b, h, s, t, B, U, X, l, k, c, g)
  <2>1. k \in Nat
    BY <1>5
  <2>2. g \subseteq Task /\ \A x \in Task \ {t} : x \in g => x \in h
    BY <1>2, <1>5 DEF MemoryOK
  <2> QED
    BY <1>2, <1>4, <1>5, <1>7, <1>9, <1>10, <1>11, <2>1, <2>2 DEF TaskOp
<1>13. MemoryOK(X, life', brk_end', tidy', layer')
  <2>1. MemoryOK(X, l, c, g, s)
    BY <1>12, SpaceTasks
  <2> QED
    BY <1>6, <2>1
<1> QED
  BY <1>4, <1>6, <1>13, NextWorld, Worlds

(* An execve() that fails resets the break; the program is not tidy then.  *)
LEMMA StepExecFails ==
  ASSUME MemoryInv, NEW t \in Task, sys_execve_Fails(t)
  PROVE  MemoryInv'
<1>1. PICK W, l, b, h, s : W = World /\ l = life /\ b = brk_end /\ h = tidy /\ s = layer
  OBVIOUS
<1>2. PICK c, g : c = [b EXCEPT ![t] = 0] /\ g = h \ {t}
  OBVIOUS
<1>3. MemoryOK(W, l, b, h, s) /\ life' = l /\ brk_end' = c /\ tidy' = g /\ layer' = s /\ World' = W
  BY <1>1, <1>2 DEF MemoryInv, sys_execve_Fails, World
<1>4. c \in [Task -> Nat] /\ \A u \in Task \ {t} : c[u] = b[u]
  BY <1>2, <1>3 DEF MemoryOK
<1>5. HeapOK(W, c, g)
  <2> SUFFICES ASSUME NEW u \in Live(W) \cap g
               PROVE  \A v \in Heap : v \in Below(c[u]) <=> W.as[u].page[v] # NULL
    BY DEF HeapOK
  <2>1. u \in Live(W) \cap h /\ c[u] = b[u]
    BY <1>2, <1>3, <1>4 DEF MemoryOK
  <2> QED
    BY <1>3, <2>1 DEF MemoryOK, HeapOK
<1>6. MemoryOK(W, l, c, g, s)
  BY <1>2, <1>3, <1>4, <1>5 DEF MemoryOK
<1> QED
  BY <1>3, <1>6 DEF MemoryInv

(* The surface of a program that exits is released before its mappings go; *)
(* that of another one is not among them.                                  *)
LEMMA ExitRelease ==
  ASSUME MemoryInv, NEW t \in Task, Alive(t),
         NEW W, W = IF Owns(t) THEN layer_release_state(World, layer) ELSE World,
         NEW a, a = IF Owns(t) THEN NULL ELSE layer
  PROVE  /\ Good(W) /\ SameHeaps(World, W)
         /\ a # NULL => a = layer /\ a.owner # t /\ Attached(W, a)
<1>1. Good(World)
  BY AliveOK
<1>2. CASE Owns(t)
  <2>1. PICK s : s = layer
    OBVIOUS
  <2>2. Attached(World, s) /\ W = layer_release_state(World, s)
    BY <1>2, <2>1, LayerOK DEF Owns
  <2>3. Good(W) /\ SameHeaps(World, W)
    BY <1>1, <2>2, ReleaseWorld
  <2> QED
    BY <1>2, <2>3
<1>3. CASE ~Owns(t)
  <2>1. W = World /\ a = layer
    BY <1>3
  <2>2. SameHeaps(World, W)
    BY <2>1 DEF SameHeaps
  <2>3. a # NULL => a.owner # t /\ Attached(W, a)
    BY <1>3, <2>1, LayerOK DEF Owns
  <2> QED
    BY <1>1, <2>1, <2>2, <2>3
<1> QED
  BY <1>2, <1>3

LEMMA StepExit ==
  ASSUME MemoryInv, NEW t \in Task, task_exit(t)
  PROVE  MemoryInv'
<1>1. PICK W, a : /\ W = IF Owns(t) THEN layer_release_state(World, layer) ELSE World
                  /\ a = IF Owns(t) THEN NULL ELSE layer
  OBVIOUS
<1>2. PICK M, X : M = W.as[t].maps /\ X = shm_unmap(W, t, M)
  OBVIOUS
<1>3. PICK m : m = [life EXCEPT ![t] = "ZOMBIE"]
  OBVIOUS
<1>4. /\ Alive(t) /\ Becomes(X) /\ life' = m /\ layer' = a
      /\ brk_end' = brk_end /\ tidy' = tidy
  BY <1>1, <1>2, <1>3 DEF task_exit
<1>5. /\ Good(W) /\ SameHeaps(World, W)
      /\ a # NULL => a = layer /\ a.owner # t /\ Attached(W, a)
  BY <1>1, <1>4, ExitRelease
<1>6. t \in Live(W) /\ M \in SUBSET W.as[t].maps
  BY <1>2, <1>4, <1>5, AliveOK DEF SameHeaps
<1>7. /\ Good(X) /\ SameHeaps(W, X)
      /\ \A x : Attached(W, x) /\ (\A k \in M : k.obj # x.obj) => Attached(X, x)
  BY <1>2, <1>5, <1>6, UnmapWorld
<1>8. SameHeaps(World, X)
  BY <1>5, <1>7, SameHeapsTwice
<1>9. a # NULL => a = layer /\ a.owner # t /\ Attached(X, a)
  <2> SUFFICES ASSUME a # NULL PROVE a = layer /\ a.owner # t /\ Attached(X, a)
    OBVIOUS
  <2>1. \A k \in M : k.obj # a.obj
    BY <1>2, <1>5, <1>6 DEF Attached
  <2> QED
    BY <1>5, <1>7, <2>1
<1>10. MemoryOK(World, life, brk_end, tidy, layer)
  BY DEF MemoryInv
<1>11. HeapOK(X, brk_end, tidy) /\ \A u \in Task : X.as[u] = NULL <=> life[u] = "UNUSED"
  <2>1. HeapOK(X, brk_end, tidy)
    BY <1>8, <1>10, HeapsStay DEF MemoryOK
  <2>2. \A u \in Task : X.as[u] = NULL <=> World.as[u] = NULL
    BY <1>8 DEF SameHeaps, Live
  <2> QED
    BY <1>10, <2>1, <2>2 DEF MemoryOK
<1>12. m \in [Task -> {"UNUSED", "ALIVE", "ZOMBIE"}] /\ m[t] = "ZOMBIE" /\ life[t] = "ALIVE"
       /\ \A u \in Task \ {t} : m[u] = life[u]
  BY <1>3, <1>4, <1>10 DEF MemoryOK, Alive
<1>13. a # NULL => a \in Layer /\ Attached(X, a) /\ m[a.owner] = "ALIVE"
  BY <1>9, <1>10, <1>12 DEF MemoryOK, Layer
<1>14. MemoryOK(X, m, brk_end, tidy, a)
  BY <1>7, <1>10, <1>11, <1>12, <1>13 DEF MemoryOK
<1> QED
  BY <1>2, <1>4, <1>14, NextWorld, Worlds

LEMMA StepReap ==
  ASSUME MemoryInv, NEW t \in Task, reap_zombies(t)
  PROVE  MemoryInv'
<1>1. PICK W, l, b, h, s : W = World /\ l = life /\ b = brk_end /\ h = tidy /\ s = layer
  OBVIOUS
<1>2. MemoryOK(W, l, b, h, s) /\ W.as = as /\ W.used = used
  BY <1>1, WorldFields DEF MemoryInv
<1>3. PICK U, X : U = W.used \ destroy_address_space(W.as[t]) /\ X = WithSpace(W, t, NULL, U)
  OBVIOUS
<1>4. PICK m, c, g : /\ m = [l EXCEPT ![t] = "UNUSED"] /\ c = [b EXCEPT ![t] = 0]
                     /\ g = h \cup {t}
  OBVIOUS
<1>5. l[t] = "ZOMBIE" /\ Becomes(X) /\ life' = m /\ brk_end' = c /\ tidy' = g
      /\ layer' = s
  BY <1>1, <1>2, <1>3, <1>4 DEF reap_zombies
<1>6. Good(W) /\ W.as[t] # NULL /\ W.as \in [Task -> Space \cup {NULL}]
      /\ l \in [Task -> {"UNUSED", "ALIVE", "ZOMBIE"}] /\ b \in [Task -> Nat]
  BY <1>2, <1>5, GoodFields DEF MemoryOK
<1>7. U = W.used \ OldFrames(W, t)
  BY <1>3, <1>6 DEF OldFrames
<1>8. Good(X) /\ \A x : Attached(W, x) /\ x.owner # t => Attached(X, x)
  BY <1>3, <1>6, <1>7, ReapWorld
<1>9. X.as[t] = NULL /\ \A u \in Task \ {t} : X.as[u] = W.as[u]
  BY <1>3, <1>6 DEF WithSpace
<1>10. m \in [Task -> {"UNUSED", "ALIVE", "ZOMBIE"}] /\ m[t] = "UNUSED"
       /\ \A u \in Task \ {t} : m[u] = l[u]
  BY <1>4, <1>6
<1>11. /\ c \in [Task -> Nat] /\ \A u \in Task \ {t} : c[u] = b[u]
       /\ g \subseteq Task /\ \A u \in Task \ {t} : u \in g => u \in h
  BY <1>2, <1>4, <1>6 DEF MemoryOK
<1>12. HeapOK(X, c, g)
  <2> SUFFICES ASSUME NEW u \in Live(X) \cap g
               PROVE  \A v \in Heap : v \in Below(c[u]) <=> X.as[u].page[v] # NULL
    BY DEF HeapOK
  <2>1. u \in Task \ {t} /\ u \in Live(W) /\ X.as[u] = W.as[u]
    BY <1>9 DEF Live
  <2>2. HeapOK(W, b, h) /\ c[u] = b[u] /\ u \in h
    BY <1>2, <1>11, <2>1 DEF MemoryOK
  <2>3. \A v \in Heap : v \in Below(b[u]) <=> W.as[u].page[v] # NULL
    BY <2>1, <2>2 DEF HeapOK
  <2> QED
    BY <2>1, <2>2, <2>3
<1>13. \A u \in Task : X.as[u] = NULL <=> m[u] = "UNUSED"
  BY <1>2, <1>9, <1>10 DEF MemoryOK
<1>14. s # NULL => s \in Layer /\ Attached(X, s) /\ m[s.owner] = "ALIVE"
  BY <1>2, <1>5, <1>8, <1>10 DEF MemoryOK, Layer
<1>15. MemoryOK(X, m, c, g, s)
  BY <1>8, <1>10, <1>11, <1>12, <1>13, <1>14 DEF MemoryOK
<1>16. MemoryOK(X, life', brk_end', tidy', layer')
  BY <1>5, <1>15
<1> QED
  BY <1>3, <1>5, <1>16, NextWorld, Worlds
-----------------------------------------------------------------------------
(* Before the first program nothing is used.                               *)
NoWorld == [as |-> [u \in Task |-> NULL], shm |-> [o \in Obj |-> NULL], table |-> {}, used |-> {}]

LEMMA NoWorldOK ==
  /\ Good(NoWorld) /\ NoWorld.used = {}
  /\ \A t \in Task : NoWorld.as[t] = NULL
<1>1. PICK W : W = NoWorld
  OBVIOUS
<1>2. W.as = [u \in Task |-> NULL] /\ W.shm = [o \in Obj |-> NULL] /\ W.table = {} /\ W.used = {}
  BY <1>1 DEF NoWorld
<1>3. Live(W) = {} /\ Allocated(W) = {}
  BY <1>2 DEF Live, Allocated
<1>4. TypeOK(W)
  BY <1>2, <1>3, FS_EmptySet DEF TypeOK
<1>5. Uses(W) = {}
  BY <1>3 DEF Uses
<1>6. Good(W)
  BY <1>3, <1>4, <1>5 DEF Good, Counted, Exclusive
<1> QED
  BY <1>1, <1>2, <1>6

LEMMA InitOK ==
  ASSUME MemoryInit
  PROVE  MemoryInv
<1>1. PICK W, t, E : W = NoWorld /\ t = InitTask /\ E = {}
  OBVIOUS
<1>2. Good(W) /\ W.used = E /\ (\A u \in Task : W.as[u] = NULL) /\ t \in Task
  BY <1>1, NoWorldOK, MemoryAssumption
<1>3. PICK C, B : C = SpaceCells(t, Image) /\ B = NewSpace(t, Image, E)
  OBVIOUS
<1>4. PICK U, X : /\ U = (E \cup Frames(E, C)) \ OldFrames(W, t)
                  /\ X = WithSpace(W, t, B, U)
  OBVIOUS
<1>5. U = Frames(E, C)
  BY <1>1, <1>2, <1>4 DEF OldFrames
<1>6. NewOp(W, t, Image, C, B, U, X)
  <2>1. Image \in SUBSET Page
    BY DEF Page
  <2>2. Enough(E, C)
    BY <1>1, <1>3 DEF MemoryInit
  <2> QED
    BY <1>2, <1>3, <1>4, <2>1, <2>2 DEF NewOp
<1>7. /\ Good(X) /\ B \in Space /\ \A v \in Page : B.page[v] # NULL <=> v \in Image
  BY <1>6, NewWorld DEF NewDone
<1>8. /\ X.as = [u \in Task |-> IF u = t THEN B ELSE NULL]
      /\ X.shm = [o \in Obj |-> NULL] /\ X.table = {} /\ X.used = Frames(E, C)
  <2>1. X.as = [W.as EXCEPT ![t] = B] /\ X.shm = W.shm /\ X.table = W.table /\ X.used = U
    BY <1>4 DEF WithSpace
  <2>2. W.as = [u \in Task |-> NULL] /\ W.shm = [o \in Obj |-> NULL] /\ W.table = {}
    BY <1>1 DEF NoWorld
  <2> QED
    BY <1>2, <1>5, <2>1, <2>2
<1>9. /\ life = [u \in Task |-> IF u = t THEN "ALIVE" ELSE "UNUSED"]
      /\ as = X.as /\ shm = X.shm /\ shm_table = X.table /\ used = X.used
      /\ brk_end = [u \in Task |-> 0] /\ tidy = Task /\ layer = NULL
  <2>1. as = [u \in Task |-> IF u = t THEN B ELSE NULL]
    BY <1>1, <1>3 DEF MemoryInit
  <2> QED
    BY <1>1, <1>3, <1>8, <2>1 DEF MemoryInit
<1>10. World = X
  <2>1. IsWorld(X)
    BY <1>4, Worlds
  <2> QED
    BY <1>9, <2>1 DEF World, IsWorld
<1>11. B # NULL
  BY <1>7, MemoryAssumption
<1>12. HeapOK(X, brk_end, tidy)
  <2> SUFFICES ASSUME NEW u \in Live(X), NEW v \in Heap
               PROVE  v \in Below(brk_end[u]) <=> X.as[u].page[v] # NULL
    BY DEF HeapOK
  <2>1. u \in Task /\ X.as[u] = B
    BY <1>8 DEF Live
  <2>2. v \in Page /\ v \notin Image
    BY MemoryAssumption DEF Page
  <2>3. v \notin Below(brk_end[u])
    BY <1>9, <2>1, BelowOK
  <2> QED
    BY <1>7, <2>1, <2>2, <2>3
<1>13. \A u \in Task : X.as[u] = NULL <=> life[u] = "UNUSED"
  BY <1>8, <1>9, <1>11
<1>14. /\ life \in [Task -> {"UNUSED", "ALIVE", "ZOMBIE"}] /\ brk_end \in [Task -> Nat]
       /\ tidy \subseteq Task
  BY <1>9
<1>15. MemoryOK(X, life, brk_end, tidy, layer)
  BY <1>7, <1>9, <1>12, <1>13, <1>14 DEF MemoryOK
<1> QED
  BY <1>10, <1>15 DEF MemoryInv

LEMMA NextOK ==
  ASSUME MemoryInv, [MemoryNext]_mvars
  PROVE  MemoryInv'
<1>1. CASE UNCHANGED mvars
  BY <1>1 DEF mvars, MemoryInv, World
<1>2. CASE MemoryNext
  <2>1. PICK t \in Task :
          \/ \E n \in 1 .. (Cardinality(Heap) * Parts) : sbrk_up(t, n) \/ sbrk_down(t, n)
          \/ \E n \in 1 .. MaxSize : \/ sys_shm_create(t, n)
                                     \/ sys_5ht_req_buf(t, n) \/ sys_5ht_rcfg_layer(t, n)
          \/ \E o \in Obj : sys_shm_map(t, o)
          \/ Alive(t) /\ \E m \in as[t].maps : sys_shm_unmap(t, m)
          \/ sys_5ht_rel_buf(t)
          \/ \E u \in Task : task_fork(t, u)
          \/ sys_execve(t) \/ sys_execve_Fails(t)
          \/ task_exit(t) \/ reap_zombies(t)
    BY <1>2 DEF MemoryNext
  <2>2. CASE \E n \in 1 .. (Cardinality(Heap) * Parts) : sbrk_up(t, n) \/ sbrk_down(t, n)
    <3>1. PICK n \in 1 .. (Cardinality(Heap) * Parts) : sbrk_up(t, n) \/ sbrk_down(t, n)
      BY <2>2
    <3>2. n \in Nat
      OBVIOUS
    <3> QED
      BY <3>1, <3>2, StepUp, StepDown
  <2>3. CASE \E n \in 1 .. MaxSize : \/ sys_shm_create(t, n)
                                     \/ sys_5ht_req_buf(t, n) \/ sys_5ht_rcfg_layer(t, n)
    BY <2>3, StepCreate, StepRequest, StepConfigure
  <2>4. CASE \E o \in Obj : sys_shm_map(t, o)
    BY <2>4, StepMap
  <2>5. CASE Alive(t) /\ \E m \in as[t].maps : sys_shm_unmap(t, m)
    BY <2>5, StepUnmap
  <2>6. CASE sys_5ht_rel_buf(t)
    BY <2>6, StepRelease
  <2>7. CASE \E u \in Task : task_fork(t, u)
    BY <2>7, StepFork
  <2>8. CASE sys_execve(t) \/ sys_execve_Fails(t)
    BY <2>8, StepExec, StepExecFails
  <2>9. CASE task_exit(t) \/ reap_zombies(t)
    BY <2>9, StepExit, StepReap
  <2> QED
    BY <2>1, <2>2, <2>3, <2>4, <2>5, <2>6, <2>7, <2>8, <2>9
<1> QED
  BY <1>1, <1>2

(* The invariant says what the properties say.                             *)
LEMMA InvImplies ==
  ASSUME MemoryInv
  PROVE  FramesExclusive /\ SharingExact /\ HeapMapped
<1>1. Good(World) /\ HeapOK(World, brk_end, tidy)
  BY DEF MemoryInv, MemoryOK
<1>2. FramesExclusive
  BY <1>1, GoodFields, WorldFields DEF FramesExclusive
<1>3. HeapMapped
  BY <1>1, WorldFields DEF HeapOK, HeapMapped
<1>4. ASSUME NEW t \in Live(World), NEW m \in as[t].maps
      PROVE  /\ shm[m.obj] # NULL /\ shm[m.obj].size = m.size
             /\ \A i \in 1 .. m.size : as[t].page[m.start + i - 1] = shm[m.obj].frames[i]
  BY <1>1, WorldFields DEF Good, Shown
<1>5. ASSUME NEW o \in Obj, shm[o] # NULL
      PROVE  shm[o].refcount > Cardinality(Refs(World, o))
  BY <1>1, <1>5, WorldFields DEF Good, Counted, Allocated
<1>6. SharingExact
  BY <1>4, <1>5 DEF SharingExact
<1> QED
  BY <1>2, <1>3, <1>6

(* No frame is free and used, or used for two things: after any forks,     *)
(* execs, exits, breaks and sharing a program sees no memory of another    *)
(* one and no page table, and destroy_address_space(), unmap_page() and    *)
(* shm_unmap() never free a frame twice.                                   *)
THEOREM FramesStayExclusive == MemorySpec => []FramesExclusive
<1>1. MemoryInit => MemoryInv
  BY InitOK
<1>2. MemoryInv /\ [MemoryNext]_mvars => MemoryInv'
  BY NextOK
<1>3. MemoryInv => FramesExclusive
  BY InvImplies
<1> QED
  BY <1>1, <1>2, <1>3, PTL DEF MemorySpec

(* What shm_map() mapped shows the frames of the object as long as it is   *)
(* mapped, and the object has a reference more than mappings: neither      *)
(* shm_unmap() nor layer_release_state() leaves a mapping without it.      *)
THEOREM SharingStaysExact == MemorySpec => []SharingExact
<1>1. MemoryInit => MemoryInv
  BY InitOK
<1>2. MemoryInv /\ [MemoryNext]_mvars => MemoryInv'
  BY NextOK
<1>3. MemoryInv => SharingExact
  BY InvImplies
<1> QED
  BY <1>1, <1>2, <1>3, PTL DEF MemorySpec

(* sys_sbrk() by any number of bytes, task_fork() and sys_execve() keep the *)
(* pages of the heap and the break together for a program whose moves were *)
(* tidy: those with bytes below the break are mapped, and no others.       *)
THEOREM HeapStaysMapped == MemorySpec => []HeapMapped
<1>1. MemoryInit => MemoryInv
  BY InitOK
<1>2. MemoryInv /\ [MemoryNext]_mvars => MemoryInv'
  BY NextOK
<1>3. MemoryInv => HeapMapped
  BY InvImplies
<1> QED
  BY <1>1, <1>2, <1>3, PTL DEF MemorySpec
===============================================================================
