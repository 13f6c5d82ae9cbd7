----------------------- MODULE PhysicalMemory_proofs ------------------------
(***************************************************************************)
(* Physical memory.  First buddy_init(): for every memory map below 2^32,  *)
(* every set of exclusions and every size of the tables, it keeps reserved *)
(* memory out of the zones, makes them disjoint, and loses no page while   *)
(* its tables have room.  Then the page allocator, for every number and    *)
(* size of zones and every order: splitting and merging keep the zones cut *)
(* into blocks, whatever is allocated and freed, and the allocator         *)
(* implements the pool of pages.                                           *)
(***************************************************************************)
EXTENDS PhysicalMemory, FiniteSetTheorems, SequenceTheorems, TLAPS

Within(a, b) == a.start >= b.start /\ a.end <= b.end

(* The regions of the memory map lie in 32-bit physical memory. *)
LowMemory ==
  \A b \in Boots : \A k \in DOMAIN b.mmap : b.mmap[k].end <= PhysSize

(* The ranges of s lie in memory and clear of the first n exclusions. *)
Clear(s, n) ==
  \A k \in DOMAIN s :
    /\ s[k].end <= PhysSize
    /\ \A x \in DOMAIN excl : x <= n => ~Overlap(s[k], excl[x])

(* Where the loops stand. *)
Position ==
  /\ pc # "carve" => next = <<>>
  /\ pc = "mods" => zones = <<>>
  /\ pc = "carve" /\ e > Len(excl) => next = <<>>

(* What the exclusions treated so far have left. *)
Progress ==
  /\ pc = "carve" => Clear(todo, e - 1) /\ Clear(next, e)
  /\ pc = "add" => Clear(todo, Len(excl))

IInv == TypeOK /\ Position /\ Progress /\ ReservedKept
-----------------------------------------------------------------------------
(* A part of a range that is clear of an exclusion is clear of it. *)
LEMMA WithinClear ==
  ASSUME NEW a \in PhysRange, NEW b \in PhysRange, NEW x \in PhysRange,
         Within(a, b), ~Overlap(b, x)
  PROVE  ~Overlap(a, x)
BY DEF Within, Overlap, PhysRange

(* If() is a sequence that holds at most its argument. *)
LEMMA IfSeq ==
  ASSUME NEW cond, NEW S, NEW r \in S
  PROVE  If(cond, r) \in Seq(S) /\ \A k \in DOMAIN If(cond, r) : If(cond, r)[k] = r
<1>1. CASE cond
  BY <1>1 DEF If
<1>2. CASE ~cond
  <2>1. If(cond, r) = <<>>
    BY <1>2 DEF If
  <2> QED
    BY <2>1
<1> QED
  BY <1>1, <1>2

(* carve_exclusion() returns parts of its input that are clear of the      *)
(* exclusion.                                                              *)
LEMMA CarveParts ==
  ASSUME NEW in \in PhysRange, NEW rsv \in PhysRange
  PROVE  /\ carve_exclusion(in, rsv) \in Seq(PhysRange)
         /\ \A k \in DOMAIN carve_exclusion(in, rsv) :
              /\ Within(carve_exclusion(in, rsv)[k], in)
              /\ ~Overlap(carve_exclusion(in, rsv)[k], rsv)
<1> DEFINE l == [start |-> in.start, end |-> rsv.start]
           r == [start |-> rsv.end, end |-> in.end]
           c == carve_exclusion(in, rsv)
<1>0. in.start \in Nat /\ in.end \in Nat /\ rsv.start \in Nat /\ rsv.end \in Nat
  BY DEF PhysRange
<1>1. l \in PhysRange /\ r \in PhysRange
  BY <1>0 DEF PhysRange
<1>2. CASE rsv.end <= in.start \/ rsv.start >= in.end
  <2>1. c = <<in>>
    BY <1>2 DEF carve_exclusion
  <2>2. Within(in, in) /\ ~Overlap(in, rsv)
    BY <1>2, <1>0 DEF Within, Overlap
  <2> QED
    BY <2>1, <2>2
<1>3. CASE ~(rsv.end <= in.start \/ rsv.start >= in.end)
  <2>1. c = If(rsv.start > in.start, l) \o If(rsv.end < in.end, r)
    BY <1>3 DEF carve_exclusion
  <2>2. Within(l, in) /\ ~Overlap(l, rsv)
    BY <1>3, <1>0 DEF Within, Overlap
  <2>3. Within(r, in) /\ ~Overlap(r, rsv)
    BY <1>3, <1>0 DEF Within, Overlap
  <2> DEFINE A == If(rsv.start > in.start, l)
             B == If(rsv.end < in.end, r)
  <2>4. /\ A \in Seq(PhysRange) /\ \A k \in DOMAIN A : A[k] = l
        /\ B \in Seq(PhysRange) /\ \A k \in DOMAIN B : B[k] = r
    BY <1>1, IfSeq
  <2> HIDE DEF l, r, c, A, B
  <2>5. A \o B \in Seq(PhysRange)
    BY <2>4
  <2>6. \A k \in DOMAIN (A \o B) :
          \/ k \in DOMAIN A /\ (A \o B)[k] = A[k]
          \/ k - Len(A) \in DOMAIN B /\ (A \o B)[k] = B[k - Len(A)]
    BY <2>4
  <2>7. c \in Seq(PhysRange) /\ \A k \in DOMAIN c : c[k] = l \/ c[k] = r
    BY <2>1, <2>4, <2>5, <2>6 DEF A, B
  <2> QED
    BY <2>2, <2>3, <2>7 DEF c
<1> QED
  BY <1>2, <1>3

(* The zone made of a range in 32-bit memory lies within that range. *)
LEMMA ZoneWithin ==
  ASSUME NEW r \in PhysRange, r.end <= PhysSize, align_dn(r.end) > align_up(r.start)
  PROVE  ZoneOf(r) \in PhysRange /\ Within(ZoneOf(r), r)
<1> DEFINE base == align_up(r.start)
<1>0. r.start \in Nat /\ r.end \in Nat /\ PageSize \in Nat \ {0} /\ PhysSize \in Nat \ {0}
  BY MemoryMapAssumption DEF PhysRange
<1>1. r.end % PageSize \in Nat
  BY <1>0
<1>2. (r.start + PageSize - 1) % PageSize \in 0 .. PageSize - 1
  BY <1>0
<1>3. align_dn(r.end) \in Int /\ align_dn(r.end) <= r.end
  BY <1>0, <1>1 DEF align_dn
<1>4. base \in Nat /\ base >= r.start
  BY <1>0, <1>2 DEF align_up, align_dn
<1>5. base < PhysSize
  BY <1>0, <1>3, <1>4
<1>6. base % PhysSize = base
  BY <1>0, <1>4, <1>5
<1>7. ZoneOf(r) = [start |-> base, end |-> base + (align_dn(r.end) - base)]
  BY <1>6 DEF ZoneOf
<1> HIDE DEF base
<1> QED
  BY <1>0, <1>3, <1>4, <1>7 DEF PhysRange, Within, base
-----------------------------------------------------------------------------
LEMMA InitInv == Init => IInv
<1> SUFFICES ASSUME Init PROVE IInv
  OBVIOUS
<1>1. boot \in Boot
  BY MemoryMapAssumption DEF Init
<1>2. /\ HeapRange \in PhysRange /\ StackRange \in PhysRange
      /\ boot.kernel \in PhysRange /\ boot.fb \in PhysRange
      /\ [start |-> 0, end |-> MinManaged] \in PhysRange
  BY <1>1, MemoryMapAssumption DEF Boot, PhysRange
<1>3. FixedExclusions(boot) \in Seq(PhysRange)
  <2>1. /\ If(NonEmpty(boot.kernel), boot.kernel) \in Seq(PhysRange)
        /\ If(NonEmpty(boot.fb), boot.fb) \in Seq(PhysRange)
    BY <1>2 DEF If
  <2>2. /\ <<[start |-> 0, end |-> MinManaged]>> \in Seq(PhysRange)
        /\ <<HeapRange, StackRange>> \in Seq(PhysRange)
    BY <1>2
  <2> QED
    BY <2>1, <2>2 DEF FixedExclusions
<1> QED
  BY <1>3 DEF Init, IInv, TypeOK, Position, Progress, ReservedKept

LEMMA NextInv == ASSUME LowMemory, IInv, [Next]_vars PROVE IInv'
<1> USE DEF IInv
<1>T. /\ boot \in Boots /\ excl \in Seq(PhysRange)
      /\ i \in Nat \ {0} /\ e \in Nat \ {0} /\ t \in Nat \ {0}
      /\ todo \in Seq(PhysRange) /\ next \in Seq(PhysRange) /\ zones \in Seq(PhysRange)
      /\ pc \in {"mods", "region", "carve", "add"}
  BY DEF TypeOK
<1>B. /\ boot \in Boot
      /\ \A k \in DOMAIN boot.mods : boot.mods[k] \in PhysRange
      /\ boot.mods \in Seq(PhysRange)
      /\ \A k \in 1 .. Len(boot.mmap) :
           /\ boot.mmap[k].start \in Nat /\ boot.mmap[k].end \in Nat
           /\ boot.mmap[k].end <= PhysSize
  <2>1. boot \in Boot
    BY <1>T, MemoryMapAssumption
  <2>2. /\ boot.mods \in Seq(PhysRange)
        /\ boot.mmap \in Seq(MapEntry)
    BY <2>1 DEF Boot
  <2>3. \A k \in 1 .. Len(boot.mmap) :
          boot.mmap[k] \in MapEntry
    BY <2>2
  <2>4. DOMAIN boot.mmap = 1 .. Len(boot.mmap)
    BY <2>2
  <2>5. \A k \in 1 .. Len(boot.mmap) : boot.mmap[k].end <= PhysSize
    BY <2>4, <1>T DEF LowMemory
  <2>6. \A k \in DOMAIN boot.mods : boot.mods[k] \in PhysRange
    BY <2>2
  <2> QED
    BY <2>1, <2>2, <2>3, <2>5, <2>6 DEF MapEntry
<1>1. CASE Module
  <2>1. excl' \in Seq(PhysRange)
    BY <1>1, <1>T, <1>B DEF Module, ModulesLoop
  <2>2. i' \in Nat \ {0}
    BY <1>1, <1>T DEF Module
  <2>3. TypeOK'
    BY <1>1, <1>T, <2>1, <2>2 DEF Module, TypeOK
  <2>4. Position' /\ Progress'
    BY <1>1 DEF Module, Position, Progress
  <2>5. ReservedKept'
    BY <1>1 DEF Module, Position, ReservedKept
  <2> QED
    BY <2>3, <2>4, <2>5
<1>2. CASE ModulesDone
  BY <1>2, <1>T DEF ModulesDone, TypeOK, Position, Progress, ReservedKept
<1>3. CASE Region
  <2>1. CASE UNCHANGED <<todo, e, t, pc>>
    BY <1>3, <2>1, <1>T DEF Region, TypeOK, Position, Progress, ReservedKept
  <2>2. CASE ~UNCHANGED <<todo, e, t, pc>>
    <3> DEFINE m == boot.mmap[i]
    <3>1. /\ todo' = <<[start |-> m.start, end |-> m.end]>>
          /\ e' = 1 /\ t' = 1 /\ pc' = "carve" /\ pc = "region"
          /\ UNCHANGED <<boot, excl, i, next, zones>>
      BY <1>3, <2>2 DEF Region
    <3>2. i \in 1 .. Len(boot.mmap)
      BY <1>3, <1>T DEF Region
    <3>3. [start |-> m.start, end |-> m.end] \in PhysRange /\ m.end <= PhysSize
      BY <1>B, <3>2 DEF PhysRange
    <3>4. next = <<>>
      BY <3>1 DEF Position
    <3>5. TypeOK'
      BY <1>T, <3>1, <3>3 DEF TypeOK
    <3>6. Clear(todo, e - 1)'
      BY <3>1, <3>3, <1>T DEF Clear
    <3>7. Clear(next, e)'
      BY <3>1, <3>4 DEF Clear
    <3> QED
      BY <3>1, <3>4, <3>5, <3>6, <3>7 DEF Position, Progress, ReservedKept
  <2> QED
    BY <2>1, <2>2
<1>4. CASE Carve
  <2> DEFINE c == carve_exclusion(todo[t], excl[e])
  <2>1. /\ pc = "carve" /\ pc' = "carve" /\ next' = next \o c /\ t' = t + 1
        /\ UNCHANGED <<boot, excl, i, e, todo, zones>>
        /\ t \in DOMAIN todo /\ e \in DOMAIN excl
    BY <1>4, <1>T DEF Carve, InnerLoop
  <2>2. /\ c \in Seq(PhysRange)
        /\ \A k \in DOMAIN c : Within(c[k], todo[t]) /\ ~Overlap(c[k], excl[e])
    BY <2>1, <1>T, CarveParts
  <2>3. todo[t].end <= PhysSize /\ todo[t] \in PhysRange
    BY <2>1, <1>T DEF Progress, Clear
  <2> HIDE DEF c
  <2>4. \A k \in DOMAIN c : /\ c[k].end <= PhysSize
                            /\ \A x \in DOMAIN excl : x <= e => ~Overlap(c[k], excl[x])
    <3> SUFFICES ASSUME NEW k \in DOMAIN c
                 PROVE /\ c[k].end <= PhysSize
                       /\ \A x \in DOMAIN excl : x <= e => ~Overlap(c[k], excl[x])
      OBVIOUS
    <3>1. c[k] \in PhysRange
      BY <2>2
    <3>2. c[k].end <= PhysSize
      BY <2>2, <2>3, <3>1, MemoryMapAssumption DEF Within, PhysRange
    <3>3. ASSUME NEW x \in DOMAIN excl, x <= e PROVE ~Overlap(c[k], excl[x])
      <4>1. CASE x = e
        BY <4>1, <2>2
      <4>2. CASE x # e
        <5>1. x <= e - 1
          BY <3>3, <4>2, <1>T
        <5>2. ~Overlap(todo[t], excl[x])
          BY <5>1, <2>1 DEF Progress, Clear
        <5>3. excl[x] \in PhysRange
          BY <1>T
        <5> QED
          BY <5>2, <5>3, <3>1, <2>2, <2>3, WithinClear
      <4> QED
        BY <4>1, <4>2
    <3> QED
      BY <3>2, <3>3
  <2>5. next \o c \in Seq(PhysRange)
    BY <2>2, <1>T
  <2>6. \A k \in DOMAIN (next \o c) :
          \/ k \in DOMAIN next /\ (next \o c)[k] = next[k]
          \/ k - Len(next) \in DOMAIN c /\ (next \o c)[k] = c[k - Len(next)]
    BY <2>2, <1>T
  <2>7. Clear(next, e)
    BY <2>1 DEF Progress
  <2>8. Clear(next, e)'
    BY <2>1, <2>4, <2>6, <2>7 DEF Clear
  <2>9. Clear(todo, e - 1)'
    BY <2>1 DEF Progress, Clear
  <2>10. TypeOK'
    BY <2>1, <2>5, <1>T DEF TypeOK
  <2>11. Position'
    BY <2>1, <1>T DEF Position
  <2> QED
    BY <2>1, <2>8, <2>9, <2>10, <2>11 DEF Progress, ReservedKept
<1>5. CASE NextExclusion
  <2>1. /\ pc = "carve" /\ todo' = next /\ next' = <<>> /\ e' = e + 1 /\ t' = 1
        /\ pc' = IF next = <<>> THEN "add" ELSE "carve"
        /\ UNCHANGED <<boot, excl, i, zones>>
    BY <1>5 DEF NextExclusion
  <2>2. Clear(next, e)
    BY <2>1 DEF Progress
  <2>3. Clear(todo, e - 1)'
    BY <2>1, <2>2, <1>T DEF Clear
  <2>4. Clear(next, e)'
    BY <2>1 DEF Clear
  <2>5. pc' = "add" => Clear(todo, Len(excl))'
    BY <2>1 DEF Clear
  <2>6. TypeOK'
    BY <2>1, <1>T DEF TypeOK
  <2> QED
    BY <2>1, <2>3, <2>4, <2>5, <2>6 DEF Position, Progress, ReservedKept
<1>6. CASE Carved
  <2>1. /\ pc = "carve" /\ e > Len(excl) /\ pc' = "add" /\ t' = 1
        /\ UNCHANGED <<boot, excl, i, e, todo, next, zones>>
    BY <1>6 DEF Carved
  <2>2. Clear(todo, Len(excl))'
    BY <2>1, <1>T DEF Progress, Clear
  <2>3. TypeOK'
    BY <2>1, <1>T DEF TypeOK
  <2> QED
    BY <2>1, <2>2, <2>3 DEF Position, Progress, ReservedKept
<1>7. CASE AddZone
  <2>1. /\ pc = "add" /\ pc' = "add" /\ t \in DOMAIN todo /\ t' = t + 1
        /\ UNCHANGED <<boot, excl, i, e, todo, next>>
        /\ zones' = zones \/ (CanAddZone(todo[t]) /\ zones' = Append(zones, ZoneOf(todo[t])))
    BY <1>7, <1>T DEF AddZone, add_zone
  <2>2. Progress' /\ Position'
    BY <2>1 DEF Progress, Position, Clear
  <2>3. CASE zones' = zones
    BY <2>1, <2>2, <2>3, <1>T DEF TypeOK, ReservedKept
  <2>4. CASE CanAddZone(todo[t]) /\ zones' = Append(zones, ZoneOf(todo[t]))
    <3> DEFINE z == ZoneOf(todo[t])
    <3>1. todo[t] \in PhysRange /\ todo[t].end <= PhysSize
      BY <2>1, <1>T DEF Progress, Clear
    <3>2. z \in PhysRange /\ Within(z, todo[t])
      BY <2>4, <3>1, ZoneWithin DEF CanAddZone
    <3>3. \A x \in DOMAIN excl : ~Overlap(todo[t], excl[x])
      BY <2>1, <1>T DEF Progress, Clear
    <3>4. \A x \in DOMAIN excl : ~Overlap(z, excl[x])
      BY <3>1, <3>2, <3>3, <1>T, WithinClear
    <3> HIDE DEF z
    <3>5. zones' \in Seq(PhysRange)
      BY <2>4, <3>2, <1>T DEF z
    <3>6. \A k \in DOMAIN zones' : (k \in DOMAIN zones /\ zones'[k] = zones[k]) \/ zones'[k] = z
      BY <2>4, <1>T DEF z
    <3>7. ReservedKept'
      BY <2>1, <3>4, <3>6 DEF ReservedKept
    <3>8. TypeOK'
      BY <2>1, <3>5, <1>T DEF TypeOK
    <3> QED
      BY <2>2, <3>7, <3>8
  <2> QED
    BY <2>1, <2>3, <2>4
<1>8. CASE RegionDone
  BY <1>8, <1>T DEF RegionDone, TypeOK, Position, Progress, ReservedKept
<1>9. CASE Done \/ UNCHANGED vars
  BY <1>9 DEF Done, vars, TypeOK, Position, Progress, ReservedKept, Clear
<1> QED
  BY <1>1, <1>2, <1>3, <1>4, <1>5, <1>6, <1>7, <1>8, <1>9 DEF Next

(* buddy_init() never gives the allocator a page of reserved memory,       *)
(* provided the memory map lies below 2^32: the bases of zones are kept in *)
(* 32 bits.                                                                *)
THEOREM ReservedNeverManaged == ASSUME LowMemory PROVE Spec => []ReservedKept
<1>1. IInv /\ [Next]_vars => IInv'
  BY NextInv
<1>2. IInv => ReservedKept
  BY DEF IInv
<1> QED
  BY InitInv, <1>1, <1>2, PTL DEF Spec
-----------------------------------------------------------------------------
(* Disjoint regions become disjoint zones.  Parts of what is disjoint are  *)
(* disjoint; a range is carved in parts that are.                          *)
Bounds(r) == r.start \in Nat /\ r.end \in Nat
Usable(m) == m.available /\ m.start # m.end

(* The usable regions of the memory map are disjoint. *)
DisjointMap ==
  \A b \in Boots : \A k, m \in DOMAIN b.mmap :
    k # m /\ Usable(b.mmap[k]) /\ Usable(b.mmap[m]) => ~Overlap(b.mmap[k], b.mmap[m])

Proper(r) == r.start <= r.end
Disjoint(s) == \A j, k \in DOMAIN s : j # k => ~Overlap(s[j], s[k])
InRegion(s) == \A k \in DOMAIN s : Within(s[k], boot.mmap[i])

(* The region at hand, what is left of it, and where the zones are from. *)
AtRegion ==
  pc \in {"carve", "add"} =>
    /\ i \in DOMAIN boot.mmap /\ Usable(boot.mmap[i]) /\ InRegion(todo) /\ Disjoint(todo)
FromTodo ==
  pc = "carve" =>
    /\ InRegion(next) /\ Disjoint(next)
    /\ \A j \in DOMAIN next, k \in DOMAIN todo : k >= t => ~Overlap(next[j], todo[k])
ZoneFrom(z) ==
  \/ \E k \in DOMAIN boot.mmap : k < i /\ Usable(boot.mmap[k]) /\ Within(z, boot.mmap[k])
  \/ pc = "add" /\ \E k \in DOMAIN todo : k < t /\ Within(z, todo[k])
ZonesFrom == \A n \in DOMAIN zones : ZoneFrom(zones[n])
ProperExclusions == \A x \in DOMAIN excl : Proper(excl[x])

DInv == AtRegion /\ FromTodo /\ ZonesFrom /\ ProperExclusions

LEMMA MapFacts ==
  ASSUME TypeOK
  PROVE  /\ boot \in Boots /\ boot.mmap \in Seq(MapEntry) /\ boot.mods \in Seq(PhysRange)
         /\ \A k \in DOMAIN boot.mmap : Bounds(boot.mmap[k])
         /\ \A s \in {excl, todo, next, zones} : s \in Seq(PhysRange) /\ \A k \in DOMAIN s : s[k] \in PhysRange
<1>1. boot \in Boot
  BY MemoryMapAssumption DEF TypeOK
<1>2. boot.mmap \in Seq(MapEntry) /\ boot.mods \in Seq(PhysRange)
  BY <1>1 DEF Boot
<1>3. \A k \in DOMAIN boot.mmap : boot.mmap[k] \in MapEntry
  BY <1>2
<1>4. \A s \in {excl, todo, next, zones} : s \in Seq(PhysRange)
  BY DEF TypeOK
<1>5. \A s \in {excl, todo, next, zones} : \A k \in DOMAIN s : s[k] \in PhysRange
  BY <1>4
<1> QED
  BY <1>2, <1>3, <1>4, <1>5 DEF TypeOK, MapEntry, Bounds

LEMMA RangeBounds == \A r \in PhysRange : Bounds(r)
BY DEF PhysRange, Bounds

LEMMA WithinApart ==
  ASSUME NEW a, NEW b, NEW c, NEW d, Bounds(a), Bounds(b), Bounds(c), Bounds(d),
         Within(a, c), Within(b, d), ~Overlap(c, d)
  PROVE  ~Overlap(a, b) /\ ~Overlap(b, a)
BY DEF Within, Overlap, Bounds

LEMMA WithinTrans ==
  ASSUME NEW a, NEW b, NEW c, Bounds(a), Bounds(b), Bounds(c), Within(a, b), Within(b, c)
  PROVE  Within(a, c)
BY DEF Within, Bounds

LEMMA WithinSelf == ASSUME NEW a, Bounds(a) PROVE Within(a, a)
BY DEF Within, Bounds

(* What is left of a range on either side of an exclusion. *)
LEMMA CarveSides ==
  ASSUME NEW in \in PhysRange, NEW rsv \in PhysRange, Proper(rsv)
  PROVE  LET c == carve_exclusion(in, rsv)
         IN  /\ Disjoint(c)
             /\ Len(c) <= 2
             /\ Len(c) = 2 => in.start < rsv.start /\ rsv.end < in.end
             /\ \A p \in PhysRange : Within(p, in) /\ NonEmpty(p) /\ ~Overlap(p, rsv) =>
                  \E k \in DOMAIN c : Within(p, c[k])
<1> DEFINE l == [start |-> in.start, end |-> rsv.start]
           r == [start |-> rsv.end, end |-> in.end]
           c == carve_exclusion(in, rsv)
           goal == /\ Disjoint(c)
                   /\ Len(c) <= 2
                   /\ Len(c) = 2 => in.start < rsv.start /\ rsv.end < in.end
                   /\ \A p \in PhysRange : Within(p, in) /\ NonEmpty(p) /\ ~Overlap(p, rsv) =>
                        \E k \in DOMAIN c : Within(p, c[k])
<1>1. Bounds(in) /\ Bounds(rsv) /\ rsv.start <= rsv.end
  BY RangeBounds DEF Proper
<1>2. CASE rsv.end <= in.start \/ rsv.start >= in.end
  <2>1. c = <<in>>
    BY <1>2 DEF carve_exclusion
  <2> HIDE DEF c
  <2>2. Len(c) = 1 /\ DOMAIN c = {1} /\ c[1] = in
    BY <2>1
  <2> QED
    BY <2>2 DEF Disjoint, c
<1>3. CASE ~(rsv.end <= in.start \/ rsv.start >= in.end)
  <2>1. c = If(rsv.start > in.start, l) \o If(rsv.end < in.end, r)
    BY <1>3 DEF carve_exclusion
  <2>2. ~Overlap(l, r) /\ ~Overlap(r, l)
    BY <1>1, <1>3 DEF Overlap, Bounds
  <2>3. ASSUME NEW p \in PhysRange, Within(p, in), NonEmpty(p), ~Overlap(p, rsv)
        PROVE  \/ Within(p, l) /\ rsv.start > in.start
               \/ Within(p, r) /\ rsv.end < in.end
    BY <1>1, <2>3, RangeBounds DEF Within, NonEmpty, Overlap, Bounds
  <2> HIDE DEF l, r, c
  <2>4. CASE rsv.start > in.start /\ rsv.end < in.end
    <3>1. c = <<l>> \o <<r>>
      BY <2>1, <2>4 DEF If
    <3>2. Len(c) = 2 /\ DOMAIN c = 1 .. 2 /\ c[1] = l /\ c[2] = r
      <4>1. l \in PhysRange /\ r \in PhysRange
        BY <1>1 DEF l, r, PhysRange, Bounds
      <4>2. <<l>> \in Seq(PhysRange) /\ <<r>> \in Seq(PhysRange)
        BY <4>1
      <4> QED
        BY <3>1, <4>2
    <3> QED
      BY <1>1, <2>2, <2>3, <2>4, <3>2 DEF Disjoint, Bounds, c
  <2>5. CASE rsv.start > in.start /\ ~(rsv.end < in.end)
    <3>1. c = <<l>>
      BY <2>1, <2>5 DEF If
    <3>2. Len(c) = 1 /\ DOMAIN c = 1 .. 1 /\ c[1] = l
      BY <3>1
    <3> QED
      BY <2>3, <2>5, <3>2 DEF Disjoint, c
  <2>6. CASE ~(rsv.start > in.start) /\ rsv.end < in.end
    <3>1. c = <<r>>
      BY <2>1, <2>6 DEF If
    <3>2. Len(c) = 1 /\ DOMAIN c = 1 .. 1 /\ c[1] = r
      BY <3>1
    <3> QED
      BY <2>3, <2>6, <3>2 DEF Disjoint, c
  <2>7. CASE ~(rsv.start > in.start) /\ ~(rsv.end < in.end)
    <3>1. c = <<>>
      BY <2>1, <2>7 DEF If
    <3>2. Len(c) = 0 /\ DOMAIN c = {}
      BY <3>1
    <3> QED
      BY <2>3, <2>7, <3>2 DEF Disjoint, c
  <2> QED
    BY <2>4, <2>5, <2>6, <2>7
<1> QED
  BY <1>2, <1>3

LEMMA DInit == Init => DInv
<1> SUFFICES ASSUME Init PROVE DInv
  OBVIOUS
<1>1. boot \in Boot
  BY MemoryMapAssumption DEF Init
<1>2. PICK lo : lo = [start |-> 0, end |-> MinManaged]
  OBVIOUS
<1>3. /\ Proper(lo) /\ Proper(HeapRange) /\ Proper(StackRange)
      /\ lo \in PhysRange /\ HeapRange \in PhysRange /\ StackRange \in PhysRange
  BY <1>2, MemoryMapAssumption DEF Proper, PhysRange
<1>4. PICK A : A = If(NonEmpty(boot.kernel), boot.kernel)
  OBVIOUS
<1>5. PICK B : B = If(NonEmpty(boot.fb), boot.fb)
  OBVIOUS
<1>6. boot.kernel \in PhysRange /\ boot.fb \in PhysRange
  BY <1>1 DEF Boot
<1>7. /\ A \in Seq(PhysRange) /\ \A k \in DOMAIN A : Proper(A[k])
      /\ B \in Seq(PhysRange) /\ \A k \in DOMAIN B : Proper(B[k])
  <2>1. \A r \in PhysRange : If(NonEmpty(r), r) \in Seq(PhysRange)
    BY DEF If
  <2>2. \A r \in PhysRange : \A k \in DOMAIN If(NonEmpty(r), r) : Proper(If(NonEmpty(r), r)[k])
    BY RangeBounds DEF If, NonEmpty, Proper, Bounds
  <2> QED
    BY <1>4, <1>5, <1>6, <2>1, <2>2
<1>8. excl = <<lo>> \o A \o B \o <<HeapRange, StackRange>>
  BY <1>2, <1>4, <1>5 DEF Init, FixedExclusions
<1>9. \A P \in {A, B, <<HeapRange, StackRange>>}, S \in Seq(PhysRange) :
        (\A k \in DOMAIN S : Proper(S[k])) =>
          S \o P \in Seq(PhysRange) /\ \A k \in DOMAIN (S \o P) : Proper((S \o P)[k])
  <2> SUFFICES ASSUME NEW P \in {A, B, <<HeapRange, StackRange>>}, NEW S \in Seq(PhysRange),
                      \A k \in DOMAIN S : Proper(S[k])
               PROVE  S \o P \in Seq(PhysRange) /\ \A k \in DOMAIN (S \o P) : Proper((S \o P)[k])
    OBVIOUS
  <2>1. P \in Seq(PhysRange) /\ \A k \in DOMAIN P : Proper(P[k])
    <3>1. PICK Q : Q = <<HeapRange, StackRange>>
      OBVIOUS
    <3>2. Q \in Seq(PhysRange) /\ \A k \in DOMAIN Q : Proper(Q[k])
      BY <1>3, <3>1
    <3> QED
      BY <1>7, <3>1, <3>2
  <2>2. \A k \in DOMAIN (S \o P) :
          \/ k \in DOMAIN S /\ (S \o P)[k] = S[k]
          \/ k - Len(S) \in DOMAIN P /\ (S \o P)[k] = P[k - Len(S)]
    BY <2>1
  <2> QED
    BY <2>1, <2>2
<1>10. PICK L : L = <<lo>>
  OBVIOUS
<1>11. L \in Seq(PhysRange) /\ \A k \in DOMAIN L : Proper(L[k])
  BY <1>3, <1>10
<1>12. ProperExclusions
  <2>1. L \o A \in Seq(PhysRange) /\ \A k \in DOMAIN (L \o A) : Proper((L \o A)[k])
    BY <1>9, <1>11
  <2>2. L \o A \o B \in Seq(PhysRange) /\ \A k \in DOMAIN (L \o A \o B) : Proper((L \o A \o B)[k])
    BY <1>9, <2>1
  <2>3. PICK X : X = L \o A \o B \o <<HeapRange, StackRange>>
    OBVIOUS
  <2>4. \A k \in DOMAIN X : Proper(X[k])
    BY <1>9, <2>2, <2>3
  <2>5. excl = X
    BY <1>8, <1>10, <2>3
  <2> QED
    BY <2>4, <2>5 DEF ProperExclusions
<1> QED
  BY <1>12 DEF Init, DInv, AtRegion, FromTodo, ZonesFrom

(* One iteration over todo: what was left before, and its parts. *)
LEMMA CarveDisjoint ==
  ASSUME TypeOK, DInv, Carve
  PROVE  DInv'
<1> DEFINE c == carve_exclusion(todo[t], excl[e])
           m == boot.mmap[i]
<1>1. /\ pc = "carve" /\ pc' = "carve" /\ next' = next \o c /\ t' = t + 1
      /\ UNCHANGED <<boot, excl, i, e, todo, zones>>
      /\ t \in DOMAIN todo /\ e \in DOMAIN excl /\ t \in Nat
  BY DEF Carve, InnerLoop, TypeOK
<1>2. /\ todo[t] \in PhysRange /\ excl[e] \in PhysRange /\ Proper(excl[e])
      /\ next \in Seq(PhysRange) /\ \A k \in DOMAIN next : next[k] \in PhysRange
      /\ \A k \in DOMAIN todo : todo[k] \in PhysRange
  BY <1>1, MapFacts DEF DInv, ProperExclusions
<1>3. /\ i \in DOMAIN boot.mmap /\ InRegion(todo) /\ Disjoint(todo) /\ InRegion(next) /\ Disjoint(next)
      /\ \A j \in DOMAIN next, k \in DOMAIN todo : k >= t => ~Overlap(next[j], todo[k])
  BY <1>1 DEF DInv, AtRegion, FromTodo
<1>4. Bounds(m)
  BY <1>3, MapFacts
<1>5. /\ c \in Seq(PhysRange) /\ Disjoint(c)
      /\ \A k \in DOMAIN c : c[k] \in PhysRange /\ Within(c[k], todo[t])
  <2>1. c \in Seq(PhysRange) /\ \A k \in DOMAIN c : Within(c[k], todo[t])
    BY <1>2, CarveParts
  <2>2. Disjoint(c)
    BY <1>2, CarveSides
  <2> HIDE DEF c
  <2>3. \A k \in DOMAIN c : c[k] \in PhysRange
    BY <2>1
  <2> QED
    BY <2>1, <2>2, <2>3
<1> HIDE DEF c
<1>6. PICK n : n = next \o c
  OBVIOUS
<1>7. /\ n \in Seq(PhysRange)
      /\ \A k \in DOMAIN n : \/ k \in DOMAIN next /\ n[k] = next[k]
                             \/ k - Len(next) \in DOMAIN c /\ n[k] = c[k - Len(next)]
      /\ \A k \in DOMAIN n : k \in Nat
  BY <1>2, <1>5, <1>6
<1>8. \A k \in DOMAIN c : Within(c[k], m)
  <2> TAKE k \in DOMAIN c
  <2>1. Within(c[k], todo[t]) /\ Within(todo[t], m)
    BY <1>1, <1>3, <1>5 DEF InRegion
  <2> QED
    BY <1>2, <1>4, <1>5, <2>1, RangeBounds, WithinTrans
<1>9. InRegion(next)'
  <2>1. \A k \in DOMAIN n : Within(n[k], m)
    BY <1>3, <1>7, <1>8 DEF InRegion
  <2> QED
    BY <1>1, <1>6, <2>1 DEF InRegion
<1>10. \A j \in DOMAIN next, k \in DOMAIN c : ~Overlap(next[j], c[k]) /\ ~Overlap(c[k], next[j])
  <2> TAKE j \in DOMAIN next, k \in DOMAIN c
  <2>1. ~Overlap(next[j], todo[t])
    BY <1>1, <1>3
  <2>2. Within(next[j], next[j])
    BY <1>2, RangeBounds, WithinSelf
  <2> QED
    BY <1>2, <1>5, <2>1, <2>2, RangeBounds, WithinApart
<1>11. Disjoint(next)'
  <2>1. ASSUME NEW j \in DOMAIN n, NEW k \in DOMAIN n, j # k PROVE ~Overlap(n[j], n[k])
    <3>1. CASE j \in DOMAIN next /\ n[j] = next[j] /\ k \in DOMAIN next /\ n[k] = next[k]
      BY <1>3, <2>1, <3>1 DEF Disjoint
    <3>2. CASE j - Len(next) \in DOMAIN c /\ n[j] = c[j - Len(next)]
               /\ k - Len(next) \in DOMAIN c /\ n[k] = c[k - Len(next)]
      <4>1. j - Len(next) # k - Len(next)
        BY <1>2, <1>7, <2>1
      <4> QED
        BY <1>5, <3>2, <4>1 DEF Disjoint
    <3> QED
      BY <1>7, <1>10, <3>1, <3>2
  <2> QED
    BY <1>1, <1>6, <2>1 DEF Disjoint
<1>12. ASSUME NEW j \in DOMAIN n, NEW k \in DOMAIN todo, k >= t + 1 PROVE ~Overlap(n[j], todo[k])
  <2>1. k \in Nat /\ k >= t /\ k # t
    BY <1>1, <1>12, MapFacts
  <2>2. CASE j \in DOMAIN next /\ n[j] = next[j]
    BY <1>3, <2>1, <2>2
  <2>3. CASE j - Len(next) \in DOMAIN c /\ n[j] = c[j - Len(next)]
    <3>1. ~Overlap(todo[t], todo[k])
      BY <1>1, <1>3, <2>1 DEF Disjoint
    <3>2. Within(todo[k], todo[k])
      BY <1>2, RangeBounds, WithinSelf
    <3> QED
      BY <1>2, <1>5, <2>3, <3>1, <3>2, RangeBounds, WithinApart
  <2> QED
    BY <1>7, <2>2, <2>3
<1>13. FromTodo'
  BY <1>1, <1>6, <1>9, <1>11, <1>12 DEF FromTodo
<1>14. AtRegion'
  BY <1>1 DEF DInv, AtRegion, InRegion, Disjoint
<1>15. ZonesFrom' /\ ProperExclusions'
  BY <1>1 DEF DInv, ZonesFrom, ZoneFrom, ProperExclusions
<1> QED
  BY <1>13, <1>14, <1>15 DEF DInv

(* A zone made of a range lies in the range, and so in the region at hand. *)
LEMMA AddZoneDisjoint ==
  ASSUME LowMemory, IInv, DInv, AddZone
  PROVE  DInv'
<1>0. TypeOK
  BY DEF IInv
<1>1. /\ pc = "add" /\ pc' = "add" /\ t' = t + 1
      /\ t \in DOMAIN todo /\ t \in Nat
      /\ UNCHANGED <<boot, excl, i, e, todo, next>>
      /\ zones' = zones \/ (CanAddZone(todo[t]) /\ zones' = Append(zones, ZoneOf(todo[t])))
  BY <1>0 DEF AddZone, add_zone, TypeOK
<1>2. AtRegion' /\ FromTodo' /\ ProperExclusions'
  BY <1>1 DEF DInv, AtRegion, FromTodo, InRegion, Disjoint, ProperExclusions
<1>3. \A k \in DOMAIN todo : k \in Nat
  BY <1>0, MapFacts
<1>4. \A z : ZoneFrom(z) => ZoneFrom(z)'
  <2> SUFFICES ASSUME NEW z, ZoneFrom(z) PROVE ZoneFrom(z)'
    OBVIOUS
  <2>1. CASE \E k \in DOMAIN boot.mmap : k < i /\ Usable(boot.mmap[k]) /\ Within(z, boot.mmap[k])
    BY <1>1, <2>1 DEF ZoneFrom
  <2>2. CASE \E k \in DOMAIN todo : k < t /\ Within(z, todo[k])
    <3>1. PICK k \in DOMAIN todo : k < t /\ Within(z, todo[k])
      BY <2>2
    <3>2. k < t + 1
      BY <1>1, <1>3, <3>1
    <3> QED
      BY <1>1, <3>1, <3>2 DEF ZoneFrom
  <2> QED
    BY <2>1, <2>2 DEF ZoneFrom
<1>5. CASE zones' = zones
  BY <1>1, <1>2, <1>4, <1>5 DEF DInv, ZonesFrom
<1>6. CASE CanAddZone(todo[t]) /\ zones' = Append(zones, ZoneOf(todo[t]))
  <2>1. todo[t] \in PhysRange /\ todo[t].end <= PhysSize
    BY <1>0, <1>1, MapFacts DEF IInv, Progress, Clear
  <2>2. Within(ZoneOf(todo[t]), todo[t])
    BY <1>6, <2>1, ZoneWithin DEF CanAddZone
  <2>3. PICK z : z = ZoneOf(todo[t])
    OBVIOUS
  <2>4. ZoneFrom(z)'
    <3>1. t < t + 1
      BY <1>1
    <3> QED
      BY <1>1, <2>2, <2>3, <3>1 DEF ZoneFrom
  <2>5. \A n \in DOMAIN zones' : (n \in DOMAIN zones /\ zones'[n] = zones[n]) \/ zones'[n] = z
    BY <1>0, <1>6, <2>3 DEF TypeOK
  <2>6. ZonesFrom'
    BY <1>4, <2>4, <2>5 DEF DInv, ZonesFrom
  <2> QED
    BY <1>2, <2>6 DEF DInv
<1> QED
  BY <1>1, <1>5, <1>6

LEMMA DNext == ASSUME LowMemory, IInv, DInv, [Next]_vars PROVE DInv'
<1>0. TypeOK /\ Position
  BY DEF IInv
<1>1. CASE Module
  <2>1. /\ pc = "mods" /\ pc' = "mods" /\ zones' = zones /\ zones = <<>>
        /\ i \in DOMAIN boot.mods
        /\ excl' = excl \/ (NonEmpty(boot.mods[i]) /\ excl' = Append(excl, boot.mods[i]))
    BY <1>0, <1>1 DEF Module, ModulesLoop, TypeOK, Position
  <2>2. boot.mods[i] \in PhysRange
    BY <1>0, <2>1, MapFacts
  <2>3. NonEmpty(boot.mods[i]) => Proper(boot.mods[i])
    BY <2>2, RangeBounds DEF NonEmpty, Proper, Bounds
  <2>4. \A x \in DOMAIN excl' : (x \in DOMAIN excl /\ excl'[x] = excl[x]) \/ Proper(excl'[x])
    BY <1>0, <2>1, <2>3 DEF TypeOK
  <2> QED
    BY <2>1, <2>4 DEF DInv, AtRegion, FromTodo, ZonesFrom, ProperExclusions
<1>2. CASE ModulesDone
  BY <1>0, <1>2 DEF ModulesDone, Position, DInv, AtRegion, FromTodo, ZonesFrom, ProperExclusions
<1>3. CASE Region
  <2>1. /\ pc = "region" /\ i \in DOMAIN boot.mmap /\ i \in Nat
        /\ UNCHANGED <<boot, excl, next, zones>> /\ next = <<>>
    BY <1>0, <1>3, MapFacts DEF Region, TypeOK, Position
  <2>2. \A k \in DOMAIN boot.mmap : k \in Nat
    BY <1>0, MapFacts
  <2>3. \A n \in DOMAIN zones :
          \E k \in DOMAIN boot.mmap : k < i /\ Usable(boot.mmap[k]) /\ Within(zones[n], boot.mmap[k])
    BY <2>1 DEF DInv, ZonesFrom, ZoneFrom
  <2>4. CASE Usable(boot.mmap[i]) /\ pc' = "carve" /\ i' = i
             /\ todo' = <<[start |-> boot.mmap[i].start, end |-> boot.mmap[i].end]>>
    <3>1. PICK m : m = [start |-> boot.mmap[i].start, end |-> boot.mmap[i].end]
      OBVIOUS
    <3>2. Within(m, boot.mmap[i])
      BY <1>0, <2>1, <3>1, MapFacts DEF Within, Bounds
    <3>3. DOMAIN todo' = {1} /\ todo'[1] = m
      BY <2>4, <3>1
    <3> QED
      BY <2>1, <2>3, <2>4, <3>2, <3>3
      DEF DInv, AtRegion, FromTodo, InRegion, Disjoint, ZonesFrom, ZoneFrom, ProperExclusions
  <2>5. CASE i' = i + 1 /\ UNCHANGED pc
    <3>1. \A k \in DOMAIN boot.mmap : k < i => k < i + 1
      BY <2>1, <2>2
    <3> QED
      BY <2>1, <2>3, <2>5, <3>1 DEF DInv, AtRegion, FromTodo, ZonesFrom, ZoneFrom, ProperExclusions
  <2> QED
    BY <1>3, <2>4, <2>5 DEF Region, Usable
<1>4. CASE Carve
  BY <1>0, <1>4, CarveDisjoint
<1>5. CASE NextExclusion
  <2>1. /\ pc = "carve" /\ todo' = next /\ next' = <<>> /\ pc' \in {"carve", "add"}
        /\ UNCHANGED <<boot, excl, i, zones>>
    BY <1>5 DEF NextExclusion
  <2> QED
    BY <2>1 DEF DInv, AtRegion, FromTodo, InRegion, Disjoint, ZonesFrom, ZoneFrom, ProperExclusions
<1>6. CASE Carved
  BY <1>6 DEF Carved, DInv, AtRegion, FromTodo, InRegion, Disjoint, ZonesFrom, ZoneFrom, ProperExclusions
<1>7. CASE AddZone
  BY <1>7, AddZoneDisjoint
<1>8. CASE RegionDone
  <2>1. /\ pc = "add" /\ pc' = "region" /\ i' = i + 1 /\ i \in Nat
        /\ UNCHANGED <<boot, excl, e, t, todo, next, zones>>
    BY <1>0, <1>8 DEF RegionDone, TypeOK
  <2>2. /\ i \in DOMAIN boot.mmap /\ Usable(boot.mmap[i]) /\ InRegion(todo)
        /\ \A k \in DOMAIN boot.mmap : k \in Nat
    BY <1>0, <2>1, MapFacts DEF DInv, AtRegion
  <2>3. ASSUME NEW n \in DOMAIN zones
        PROVE  \E k \in DOMAIN boot.mmap : k < i + 1 /\ Usable(boot.mmap[k]) /\ Within(zones[n], boot.mmap[k])
    <3>1. CASE \E k \in DOMAIN boot.mmap : k < i /\ Usable(boot.mmap[k]) /\ Within(zones[n], boot.mmap[k])
      <4>1. \A k \in DOMAIN boot.mmap : k < i => k < i + 1
        BY <2>1, <2>2
      <4> QED
        BY <3>1, <4>1
    <3>2. CASE \E k \in DOMAIN todo : k < t /\ Within(zones[n], todo[k])
      <4>1. PICK k \in DOMAIN todo : Within(zones[n], todo[k])
        BY <3>2
      <4>2. Within(todo[k], boot.mmap[i])
        BY <2>2 DEF InRegion
      <4>3. Bounds(zones[n]) /\ Bounds(todo[k]) /\ Bounds(boot.mmap[i])
        BY <1>0, <2>2, MapFacts, RangeBounds
      <4>4. Within(zones[n], boot.mmap[i])
        BY <4>1, <4>2, <4>3, WithinTrans
      <4>5. i < i + 1
        BY <2>1
      <4> QED
        BY <2>2, <4>4, <4>5
    <3> QED
      BY <2>3, <3>1, <3>2 DEF DInv, ZonesFrom, ZoneFrom
  <2> QED
    BY <2>1, <2>3 DEF DInv, AtRegion, FromTodo, ZonesFrom, ZoneFrom, ProperExclusions
<1>9. CASE Done \/ UNCHANGED vars
  BY <1>9 DEF Done, vars, DInv, AtRegion, FromTodo, InRegion, Disjoint, ZonesFrom, ZoneFrom, ProperExclusions
<1> QED
  BY <1>1, <1>2, <1>3, <1>4, <1>5, <1>6, <1>7, <1>8, <1>9 DEF Next

(* A new zone is apart from those of the regions before and of the ranges  *)
(* before it.                                                              *)
LEMMA ZonesStep ==
  ASSUME LowMemory, DisjointMap, IInv, DInv, ZonesDisjoint, [Next]_vars
  PROVE  ZonesDisjoint'
<1>0. TypeOK
  BY DEF IInv
<1>1. CASE zones' = zones
  BY <1>1 DEF ZonesDisjoint
<1>2. CASE AddZone
  <2>1. /\ pc = "add" /\ t \in DOMAIN todo /\ t \in Nat
        /\ zones' = zones \/ (CanAddZone(todo[t]) /\ zones' = Append(zones, ZoneOf(todo[t])))
    BY <1>0, <1>2 DEF AddZone, add_zone, TypeOK
  <2>2. CASE CanAddZone(todo[t]) /\ zones' = Append(zones, ZoneOf(todo[t]))
    <3>1. todo[t] \in PhysRange /\ todo[t].end <= PhysSize
      BY <1>0, <2>1, MapFacts DEF IInv, Progress, Clear
    <3>2. PICK z : z = ZoneOf(todo[t])
      OBVIOUS
    <3>3. z \in PhysRange /\ Within(z, todo[t])
      BY <2>2, <3>1, <3>2, ZoneWithin DEF CanAddZone
    <3>4. /\ boot \in Boots /\ i \in DOMAIN boot.mmap /\ Usable(boot.mmap[i])
          /\ InRegion(todo) /\ Disjoint(todo)
      BY <1>0, <2>1 DEF DInv, AtRegion, TypeOK
    <3>5. Bounds(z) /\ Bounds(todo[t]) /\ Bounds(boot.mmap[i])
      BY <1>0, <3>1, <3>3, <3>4, MapFacts, RangeBounds
    <3>6. Within(z, boot.mmap[i])
      BY <2>1, <3>3, <3>4, <3>5, WithinTrans DEF InRegion
    <3>7. ASSUME NEW n \in DOMAIN zones PROVE ~Overlap(zones[n], z) /\ ~Overlap(z, zones[n])
      <4>1. Bounds(zones[n])
        BY <1>0, MapFacts, RangeBounds
      <4>2. CASE \E k \in DOMAIN boot.mmap :
                   k < i /\ Usable(boot.mmap[k]) /\ Within(zones[n], boot.mmap[k])
        <5>1. PICK k \in DOMAIN boot.mmap :
                k < i /\ Usable(boot.mmap[k]) /\ Within(zones[n], boot.mmap[k])
          BY <4>2
        <5>2. k # i /\ Bounds(boot.mmap[k])
          BY <1>0, <5>1, MapFacts DEF TypeOK
        <5>3. ~Overlap(boot.mmap[k], boot.mmap[i])
          BY <3>4, <5>1, <5>2 DEF DisjointMap
        <5> QED
          BY <3>5, <3>6, <4>1, <5>1, <5>2, <5>3, WithinApart
      <4>3. CASE \E k \in DOMAIN todo : k < t /\ Within(zones[n], todo[k])
        <5>1. PICK k \in DOMAIN todo : k < t /\ Within(zones[n], todo[k])
          BY <4>3
        <5>2. k # t /\ Bounds(todo[k])
          BY <1>0, <2>1, <5>1, MapFacts, RangeBounds
        <5>3. ~Overlap(todo[k], todo[t])
          BY <2>1, <3>4, <5>1, <5>2 DEF Disjoint
        <5> QED
          BY <3>3, <3>5, <4>1, <5>1, <5>2, <5>3, WithinApart
      <4> QED
        BY <4>2, <4>3 DEF DInv, ZonesFrom, ZoneFrom
    <3>8. /\ \A n \in DOMAIN zones' : \/ n \in DOMAIN zones /\ zones'[n] = zones[n]
                                      \/ n = Len(zones) + 1 /\ zones'[n] = z
      BY <1>0, <2>2, <3>2 DEF TypeOK
    <3> QED
      BY <3>7, <3>8 DEF ZonesDisjoint
  <2> QED
    BY <1>1, <2>1, <2>2
<1> QED
  BY <1>1, <1>2 DEF Next, Module, ModulesDone, Region, Carve, NextExclusion, Carved, RegionDone, Done, vars

(* The zones of a memory map whose usable regions are disjoint and below   *)
(* 2^32 are disjoint, however buddy_init() carves them and add_zone()      *)
(* rounds them: no page can be handed out by two zones.                    *)
THEOREM ZonesStayDisjoint == ASSUME LowMemory, DisjointMap PROVE Spec => []ZonesDisjoint
<1>1. Init => ZonesDisjoint
  BY DEF Init, ZonesDisjoint
<1>2. IInv /\ [Next]_vars => IInv'
  BY NextInv
<1>3. IInv /\ DInv /\ [Next]_vars => DInv'
  BY DNext
<1>4. IInv /\ DInv /\ ZonesDisjoint /\ [Next]_vars => ZonesDisjoint'
  BY ZonesStep
<1> QED
  BY InitInv, DInit, <1>1, <1>2, <1>3, <1>4, PTL DEF Spec
-----------------------------------------------------------------------------
(* Nothing is lost.  While there is room in next[], an exclusion splits at *)
(* most one of the ranges, which are disjoint; so there is room, and every *)
(* page that is free of exclusions is still in a range or is in a zone.    *)
WholePage(p) == [start |-> p * PageSize, end |-> (p + 1) * PageSize]
Pages == {WholePage(p) : p \in Nat}
Free(P) == \A x \in DOMAIN excl : ~Overlap(P, excl[x])

Roomy == Len(excl) + 2 <= TodoMax
Splits(r, s) == s.start < r.start /\ r.end < s.end

Room ==
  pc = "carve" /\ Roomy =>
    /\ Len(todo) <= e /\ Len(next) <= t /\ (t <= Len(todo) + 1 \/ e > Len(excl))
    /\ Len(next) = t =>
         e \in DOMAIN excl /\ \E k \in DOMAIN todo : k < t /\ Splits(excl[e], todo[k])

Managed(P) == \E z \in DOMAIN zones : Within(P, zones[z])
Ahead(P)   == \E k \in DOMAIN todo : k >= t /\ Within(P, todo[k])
Behind(P)  == \E k \in DOMAIN next : Within(P, next[k])

(* Where a page of the regions before, and of the region at hand, is. *)
OfRegions(P) ==
  \A k \in DOMAIN boot.mmap :
    k < i /\ Usable(boot.mmap[k]) /\ Within(P, boot.mmap[k]) => Managed(P)
OfRegion(P) ==
  /\ pc = "carve" /\ Within(P, boot.mmap[i]) => Ahead(P) \/ Behind(P)
  /\ pc = "add" /\ Within(P, boot.mmap[i]) => Ahead(P) \/ Managed(P)

Coverage ==
  Roomy /\ Len(zones) < MaxZones /\ pc # "mods" =>
    \A P \in Pages : Free(P) => OfRegions(P) /\ OfRegion(P)

LInv == Room /\ Coverage

LEMMA PageRange ==
  ASSUME NEW P \in Pages
  PROVE  P \in PhysRange /\ NonEmpty(P) /\ Bounds(P)
<1>1. PICK p \in Nat : P = WholePage(p)
  BY DEF Pages
<1>2. PageSize \in Nat \ {0}
  BY MemoryMapAssumption
<1>3. p * PageSize \in Nat /\ (p + 1) * PageSize \in Nat /\ (p + 1) * PageSize = p * PageSize + PageSize
  BY <1>2
<1> QED
  BY <1>1, <1>2, <1>3 DEF WholePage, PhysRange, NonEmpty, Bounds

LEMMA DivMod ==
  ASSUME NEW x \in Nat
  PROVE  /\ x = PageSize * (x \div PageSize) + (x % PageSize)
         /\ x \div PageSize \in Nat /\ x % PageSize \in 0 .. PageSize - 1
BY MemoryMapAssumption

LEMMA DivBounds ==
  \A x \in Nat : \E q \in Nat :
    q = x \div PageSize /\ q * PageSize <= x /\ x < (q + 1) * PageSize
<1> TAKE x \in Nat
<1>1. PICK q \in Nat : q = x \div PageSize
  BY DivMod
<1>2. q * PageSize <= x /\ x < (q + 1) * PageSize
  BY <1>1, DivMod, MemoryMapAssumption
<1> QED
  BY <1>1, <1>2

LEMMA MulLess == ASSUME NEW a \in Int, NEW b \in Int, a * PageSize < b * PageSize PROVE a < b
BY MemoryMapAssumption

LEMMA MulLeq == ASSUME NEW a \in Int, NEW b \in Int, a <= b PROVE a * PageSize <= b * PageSize
BY MemoryMapAssumption

(* The rounding never goes past a whole page. *)
LEMMA AlignKeeps ==
  ASSUME NEW x \in Nat, NEW p \in Nat
  PROVE  /\ p * PageSize <= x => p * PageSize <= align_dn(x)
         /\ x <= p * PageSize => align_up(x) <= p * PageSize
<1>0. PageSize \in Nat \ {0}
  BY MemoryMapAssumption
<1>1. ASSUME NEW y \in Nat PROVE align_dn(y) = (y \div PageSize) * PageSize
  BY <1>0, DivMod DEF align_dn
<1>2. ASSUME p * PageSize <= x PROVE p * PageSize <= align_dn(x)
  <2>1. PICK q \in Nat : q = x \div PageSize /\ x < (q + 1) * PageSize
    BY <1>0, DivMod
  <2>2. p * PageSize < (q + 1) * PageSize
    BY <1>0, <1>2, <2>1
  <2>3. p < q + 1
    BY <2>1, <2>2, MulLess
  <2>4. p * PageSize <= q * PageSize
    BY <2>1, <2>3, MulLeq
  <2> QED
    BY <1>1, <2>1, <2>4
<1>3. ASSUME x <= p * PageSize PROVE align_up(x) <= p * PageSize
  <2>1. PICK y \in Nat : y = x + PageSize - 1
    BY <1>0
  <2>2. PICK q \in Nat : q = y \div PageSize /\ q * PageSize <= y
    BY <1>0, <2>1, DivMod
  <2>3. q * PageSize < (p + 1) * PageSize
    BY <1>0, <1>3, <2>1, <2>2
  <2>4. q < p + 1
    BY <2>2, <2>3, MulLess
  <2>5. q * PageSize <= p * PageSize
    BY <2>2, <2>4, MulLeq
  <2>6. align_up(x) = q * PageSize
    BY <1>1, <2>1, <2>2 DEF align_up
  <2> QED
    BY <2>5, <2>6
<1> QED
  BY <1>2, <1>3

(* A page in a range is in the zone made of it. *)
LEMMA PageInZone ==
  ASSUME NEW P \in Pages, NEW r \in PhysRange, Within(P, r), r.end <= PhysSize
  PROVE  /\ align_dn(r.end) > align_up(r.start) /\ NonEmpty(r)
         /\ ZoneOf(r) \in PhysRange /\ Within(P, ZoneOf(r))
<1>0. PageSize \in Nat \ {0} /\ PhysSize \in Nat \ {0} /\ r.start \in Nat /\ r.end \in Nat
  BY MemoryMapAssumption DEF PhysRange
<1>1. PICK p \in Nat : P = [start |-> p * PageSize, end |-> (p + 1) * PageSize]
  BY DEF Pages, WholePage
<1>2. r.start <= p * PageSize /\ (p + 1) * PageSize <= r.end
  BY <1>1 DEF Within
<1>3. align_up(r.start) <= p * PageSize /\ (p + 1) * PageSize <= align_dn(r.end)
  <2>1. align_up(r.start) <= p * PageSize
    BY <1>0, <1>2, AlignKeeps
  <2>2. PICK q \in Nat : q = p + 1
    OBVIOUS
  <2>3. q * PageSize <= align_dn(r.end)
    BY <1>0, <1>2, <2>2, AlignKeeps
  <2> QED
    BY <2>1, <2>2, <2>3
<1>4. p * PageSize \in Nat /\ (p + 1) * PageSize = p * PageSize + PageSize
  BY <1>0
<1>5. align_dn(r.end) \in Int /\ align_dn(r.end) <= r.end
  BY <1>0, DivMod DEF align_dn
<1>6. align_up(r.start) \in Nat
  <2>1. PICK y \in Nat : y = r.start + PageSize - 1
    BY <1>0
  <2>2. align_dn(y) \in Nat
    <3>1. y \div PageSize \in Nat /\ align_dn(y) = (y \div PageSize) * PageSize
      BY <1>0, DivMod DEF align_dn
    <3> QED
      BY <1>0, <3>1
  <2> QED
    BY <2>1, <2>2 DEF align_up
<1>7. align_dn(r.end) > align_up(r.start)
  BY <1>0, <1>3, <1>4, <1>5, <1>6
<1>8. ZoneOf(r) \in PhysRange
  BY <1>7, ZoneWithin
<1>9. align_up(r.start) % PhysSize = align_up(r.start)
  BY <1>0, <1>5, <1>6, <1>7
<1>10. PICK base : base = align_up(r.start)
  OBVIOUS
<1>11. ZoneOf(r) = [start |-> base, end |-> base + (align_dn(r.end) - base)]
  BY <1>9, <1>10 DEF ZoneOf
<1>12. Within(P, ZoneOf(r))
  BY <1>1, <1>3, <1>5, <1>6, <1>10, <1>11 DEF Within
<1>13. NonEmpty(r)
  BY <1>0, <1>2, <1>4 DEF NonEmpty
<1> QED
  BY <1>7, <1>8, <1>12, <1>13

(* With room in the table, the loop over todo ends at its end. *)
LEMMA LoopEnds ==
  ASSUME TypeOK, Room, Roomy, pc = "carve", e <= Len(excl), ~InnerLoop
  PROVE  t > Len(todo) /\ Len(next) <= e + 1
<1>1. /\ t \in Nat /\ e \in Nat /\ Len(excl) \in Nat /\ Len(todo) \in Nat /\ Len(next) \in Nat
      /\ TodoMax \in Nat
  BY MemoryMapAssumption DEF TypeOK
<1>2. Len(todo) <= e /\ Len(next) <= t /\ t <= Len(todo) + 1
  BY <1>1 DEF Room
<1>3. t > Len(todo)
  BY <1>1, <1>2 DEF InnerLoop, Roomy
<1> QED
  BY <1>1, <1>2, <1>3

(* Ranges that an exclusion splits overlap, and those of todo are disjoint. *)
LEMMA SplitsOne ==
  ASSUME NEW r, NEW a, NEW b, Bounds(r), Bounds(a), Bounds(b), Proper(r),
         Splits(r, a), Splits(r, b)
  PROVE  Overlap(a, b)
BY DEF Bounds, Proper, Splits, Overlap

LEMMA CarveRoom ==
  ASSUME TypeOK, DInv, Room, Carve
  PROVE  Room'
<1> DEFINE c == carve_exclusion(todo[t], excl[e])
<1> SUFFICES ASSUME Roomy PROVE Room'
  BY DEF Carve, Room, Roomy
<1>1. /\ pc = "carve" /\ pc' = "carve" /\ next' = next \o c /\ t' = t + 1
      /\ UNCHANGED <<boot, excl, i, e, todo, zones>>
      /\ t \in DOMAIN todo /\ e \in DOMAIN excl /\ t \in Nat /\ e \in Nat
  BY DEF Carve, InnerLoop, TypeOK
<1>2. /\ todo[t] \in PhysRange /\ excl[e] \in PhysRange /\ Proper(excl[e])
      /\ \A k \in DOMAIN todo : todo[k] \in PhysRange /\ k \in Nat
      /\ Len(todo) \in Nat /\ Len(next) \in Nat
  BY <1>1, MapFacts DEF DInv, ProperExclusions
<1>3. /\ Disjoint(todo) /\ Len(todo) <= e /\ Len(next) <= t
      /\ Len(next) = t => \E k \in DOMAIN todo : k < t /\ Splits(excl[e], todo[k])
  BY <1>1 DEF DInv, AtRegion, Room
<1>4. /\ c \in Seq(PhysRange) /\ Len(c) <= 2
      /\ Len(c) = 2 => Splits(excl[e], todo[t])
  BY <1>2, CarveParts, CarveSides DEF Splits
<1> HIDE DEF c
<1>5. Len(next') = Len(next) + Len(c) /\ Len(c) \in Nat
  BY <1>1, <1>4 DEF TypeOK
<1>6. t <= Len(todo) /\ t + 1 <= Len(todo) + 1
  BY <1>1, <1>2 DEF TypeOK
<1>7. CASE Len(c) = 2
  <2>1. Splits(excl[e], todo[t])
    BY <1>4, <1>7
  <2>2. ASSUME NEW k \in DOMAIN todo, k < t, Splits(excl[e], todo[k]) PROVE FALSE
    <3>1. Overlap(todo[k], todo[t])
      BY <1>2, <2>1, <2>2, RangeBounds, SplitsOne
    <3> QED
      BY <1>1, <1>2, <1>3, <2>2, <3>1 DEF Disjoint
  <2>3. Len(next') <= t + 1
    BY <1>1, <1>2, <1>3, <1>5, <1>7, <2>2
  <2>4. t < t + 1
    BY <1>1
  <2>5. \E k \in DOMAIN todo : k < t + 1 /\ Splits(excl[e], todo[k])
    BY <1>1, <2>1, <2>4
  <2> QED
    BY <1>1, <1>3, <1>6, <2>3, <2>5 DEF Room
<1>8. CASE Len(c) # 2
  <2>0. Len(c) <= 1
    <3>1. PICK n \in Nat : n = Len(c)
      BY <1>5
    <3>2. n <= 2
      BY <1>4, <3>1
    <3> QED
      BY <1>8, <3>1, <3>2
  <2>1. Len(next') <= t + 1
    BY <1>1, <1>2, <1>3, <1>5, <2>0
  <2>2. Len(next') = t + 1 => \E k \in DOMAIN todo : k < t + 1 /\ Splits(excl[e], todo[k])
    <3>1. Len(next') = t + 1 => Len(next) = t
      BY <1>1, <1>2, <1>3, <1>5, <2>0
    <3>2. \A k \in DOMAIN todo : k < t => k < t + 1
      BY <1>1, <1>2
    <3> QED
      BY <1>3, <3>1, <3>2
  <2> QED
    BY <1>1, <1>3, <1>6, <2>1, <2>2 DEF Room
<1> QED
  BY <1>7, <1>8

LEMMA RoomNext == ASSUME TypeOK, Position, DInv, Room, [Next]_vars PROVE Room'
<1>1. CASE Module \/ ModulesDone \/ Carved \/ AddZone \/ RegionDone
  BY <1>1 DEF Module, ModulesDone, Carved, AddZone, RegionDone, Room
<1>2. CASE Region
  <2>1. pc = "region" /\ next' = next /\ next = <<>> /\ UNCHANGED excl
    BY <1>2 DEF Region, Position
  <2>2. CASE pc' = "carve" /\ e' = 1 /\ t' = 1
             /\ todo' = <<[start |-> boot.mmap[i].start, end |-> boot.mmap[i].end]>>
    <3>1. Len(todo') = 1 /\ Len(next') = 0
      BY <2>1, <2>2
    <3> QED
      BY <2>2, <3>1 DEF Room
  <2>3. CASE pc' = pc
    BY <2>1, <2>3 DEF Room
  <2> QED
    BY <1>2, <2>2, <2>3 DEF Region
<1>3. CASE Carve
  BY <1>3, CarveRoom
<1>4. CASE NextExclusion
  <2> SUFFICES ASSUME Roomy PROVE Room'
    BY <1>4 DEF NextExclusion, Room, Roomy
  <2>1. /\ pc = "carve" /\ e <= Len(excl) /\ ~InnerLoop /\ excl' = excl
        /\ todo' = next /\ next' = <<>> /\ e' = e + 1 /\ t' = 1
        /\ Len(next) \in Nat
    BY <1>4 DEF NextExclusion, TypeOK
  <2>2. Len(next) <= e + 1
    BY <2>1, LoopEnds
  <2>3. Len(next') = 0
    BY <2>1
  <2> QED
    BY <2>1, <2>2, <2>3 DEF Room
<1>5. CASE Done \/ UNCHANGED vars
  BY <1>5 DEF Done, vars, Room, Roomy
<1> QED
  BY <1>1, <1>2, <1>3, <1>4, <1>5 DEF Next

(* A page stays in one of the ranges through each step, and add_zone()     *)
(* makes a zone of the range it is in.                                     *)
LEMMA CarveCovers ==
  ASSUME TypeOK, DInv, Carve,
         NEW P \in Pages, Free(P), OfRegions(P), OfRegion(P)
  PROVE  OfRegions(P)' /\ OfRegion(P)'
<1> DEFINE c == carve_exclusion(todo[t], excl[e])
<1>1. /\ pc = "carve" /\ pc' = "carve" /\ next' = next \o c /\ t' = t + 1
      /\ UNCHANGED <<boot, excl, i, e, todo, zones>>
      /\ t \in DOMAIN todo /\ e \in DOMAIN excl /\ t \in Nat
  BY DEF Carve, InnerLoop, TypeOK
<1>2. OfRegions(P)'
  BY <1>1 DEF OfRegions, Managed
<1>3. /\ todo[t] \in PhysRange /\ excl[e] \in PhysRange /\ Proper(excl[e])
      /\ \A k \in DOMAIN todo : k \in Nat
  BY <1>1, MapFacts DEF DInv, ProperExclusions
<1>4. /\ c \in Seq(PhysRange)
      /\ Within(P, todo[t]) => \E k \in DOMAIN c : Within(P, c[k])
  <2>1. P \in PhysRange /\ NonEmpty(P) /\ ~Overlap(P, excl[e])
    BY <1>1, PageRange DEF Free
  <2> QED
    BY <1>3, <2>1, CarveParts, CarveSides
<1> HIDE DEF c
<1>5. PICK n : n = next \o c
  OBVIOUS
<1>6. /\ \A k \in DOMAIN next : k \in DOMAIN n /\ n[k] = next[k]
      /\ \A k \in DOMAIN c : k + Len(next) \in DOMAIN n /\ n[k + Len(next)] = c[k]
  BY <1>4, <1>5 DEF TypeOK
<1>7. ASSUME Within(P, boot.mmap[i]) PROVE Ahead(P)' \/ Behind(P)'
  <2>1. CASE Behind(P)
    BY <1>1, <1>5, <1>6, <2>1 DEF Behind
  <2>2. CASE Ahead(P)
    <3>1. PICK k \in DOMAIN todo : k >= t /\ Within(P, todo[k])
      BY <2>2 DEF Ahead
    <3>2. CASE k = t
      <4>1. PICK j \in DOMAIN c : Within(P, c[j])
        BY <1>4, <3>1, <3>2
      <4>2. PICK l : l = j + Len(next)
        OBVIOUS
      <4>3. l \in DOMAIN n /\ Within(P, n[l])
        BY <1>6, <4>1, <4>2
      <4> QED
        BY <1>1, <1>5, <4>3 DEF Behind
    <3>3. CASE k >= t + 1
      BY <1>1, <3>1, <3>3 DEF Ahead
    <3> QED
      BY <1>1, <1>3, <3>1, <3>2, <3>3
  <2> QED
    BY <1>1, <1>7, <2>1, <2>2 DEF OfRegion
<1> QED
  BY <1>1, <1>2, <1>7 DEF OfRegion

LEMMA AddZoneCovers ==
  ASSUME LowMemory, IInv, AddZone, Len(zones') < MaxZones,
         NEW P \in Pages, OfRegions(P), OfRegion(P)
  PROVE  OfRegions(P)' /\ OfRegion(P)'
<1>0. TypeOK
  BY DEF IInv
<1>1. /\ pc = "add" /\ pc' = "add" /\ t' = t + 1 /\ t \in DOMAIN todo /\ t \in Nat
      /\ UNCHANGED <<boot, excl, i, e, todo, next>>
      /\ \A k \in DOMAIN todo : k \in Nat
  BY <1>0, MapFacts DEF AddZone, TypeOK
<1>2. \/ zones' = zones
      \/ CanAddZone(todo[t]) /\ zones' = Append(zones, ZoneOf(todo[t]))
  BY DEF AddZone, add_zone
<1>3. Managed(P) => Managed(P)'
  <2>1. \A z \in DOMAIN zones : z \in DOMAIN zones' /\ zones'[z] = zones[z]
    <3>1. PICK new : new = ZoneOf(todo[t])
      OBVIOUS
    <3>2. zones' = zones \/ zones' = Append(zones, new)
      BY <1>2, <3>1
    <3>3. CASE zones' = Append(zones, new)
      BY <1>0, <3>3 DEF TypeOK
    <3> QED
      BY <3>2, <3>3
  <2> QED
    BY <2>1 DEF Managed
<1>4. OfRegions(P)'
  BY <1>1, <1>3 DEF OfRegions
<1>5. Len(zones) < MaxZones
  BY <1>0, <1>2, MemoryMapAssumption DEF TypeOK
<1>6. ASSUME Within(P, boot.mmap[i]) PROVE Ahead(P)' \/ Managed(P)'
  <2>1. CASE Managed(P)
    BY <1>3, <2>1
  <2>2. CASE Ahead(P)
    <3>1. PICK k \in DOMAIN todo : k >= t /\ Within(P, todo[k])
      BY <2>2 DEF Ahead
    <3>2. CASE k = t
      <4>1. todo[t] \in PhysRange /\ todo[t].end <= PhysSize
        BY <1>0, <1>1, MapFacts DEF IInv, Progress, Clear
      <4>2. PICK z : z = ZoneOf(todo[t])
        OBVIOUS
      <4>3. CanAddZone(todo[t]) /\ NonEmpty(todo[t]) /\ Within(P, z) /\ z \in PhysRange
        BY <1>5, <3>1, <3>2, <4>1, <4>2, PageInZone DEF CanAddZone
      <4>4. zones' = Append(zones, z)
        BY <4>2, <4>3 DEF AddZone, add_zone
      <4>5. Len(zones) + 1 \in DOMAIN zones' /\ zones'[Len(zones) + 1] = z
        BY <1>0, <4>3, <4>4 DEF TypeOK
      <4> QED
        BY <4>3, <4>5 DEF Managed
    <3>3. CASE k >= t + 1
      BY <1>1, <3>1, <3>3 DEF Ahead
    <3> QED
      BY <1>1, <3>1, <3>2, <3>3
  <2> QED
    BY <1>1, <1>6, <2>1, <2>2 DEF OfRegion
<1> QED
  BY <1>1, <1>4, <1>6 DEF OfRegion

LEMMA CoverageNext ==
  ASSUME LowMemory, IInv, DInv, Room, Coverage, [Next]_vars
  PROVE  Coverage'
<1>0. TypeOK /\ Position
  BY DEF IInv
<1> SUFFICES ASSUME Roomy', Len(zones') < MaxZones, pc' # "mods", NEW P \in Pages, Free(P)'
             PROVE  OfRegions(P)' /\ OfRegion(P)'
  BY DEF Coverage
<1>1. CASE Module
  BY <1>1 DEF Module
<1>2. CASE ModulesDone
  <2>1. \A k \in DOMAIN boot.mmap : ~(k < 1)
    BY <1>0, MapFacts
  <2> QED
    BY <1>2, <2>1 DEF ModulesDone, OfRegions, OfRegion
<1>3. CASE ~(Module \/ ModulesDone)
  <2>1. boot' = boot /\ excl' = excl /\ pc # "mods"
    BY <1>3 DEF Next, Region, Carve, NextExclusion, Carved, AddZone, RegionDone, Done, vars
  <2>2. Len(zones) < MaxZones
    <3>1. zones' = zones \/ AddZone
      BY <1>3 DEF Next, Region, Carve, NextExclusion, Carved, RegionDone, Done, vars
    <3>2. CASE AddZone
      <4>1. zones' = zones \/ zones' = Append(zones, ZoneOf(todo[t]))
        BY <3>2 DEF AddZone, add_zone
      <4> QED
        BY <1>0, <4>1, MemoryMapAssumption DEF TypeOK
    <3> QED
      BY <3>1, <3>2
  <2>3. Roomy /\ Free(P)
    BY <2>1 DEF Roomy, Free
  <2>4. OfRegions(P) /\ OfRegion(P)
    BY <2>1, <2>2, <2>3 DEF Coverage
  <2>5. CASE Region
    <3>1. /\ pc = "region" /\ i \in DOMAIN boot.mmap /\ i \in Nat
          /\ UNCHANGED <<boot, excl, next, zones>>
          /\ \A k \in DOMAIN boot.mmap : k \in Nat /\ Bounds(boot.mmap[k])
      BY <1>0, <2>5, MapFacts DEF Region, TypeOK
    <3>2. CASE Usable(boot.mmap[i]) /\ pc' = "carve" /\ i' = i /\ t' = 1
               /\ todo' = <<[start |-> boot.mmap[i].start, end |-> boot.mmap[i].end]>>
      <4>1. PICK m : m = [start |-> boot.mmap[i].start, end |-> boot.mmap[i].end]
        OBVIOUS
      <4>2. Within(P, boot.mmap[i]) => Within(P, m)
        BY <4>1 DEF Within
      <4>3. 1 \in DOMAIN todo' /\ todo'[1] = m
        BY <3>2, <4>1
      <4> QED
        BY <2>4, <3>1, <3>2, <4>2, <4>3 DEF OfRegions, OfRegion, Managed, Ahead
    <3>3. CASE i' = i + 1 /\ UNCHANGED pc /\ ~Usable(boot.mmap[i])
      <4>1. \A k \in DOMAIN boot.mmap : k < i + 1 => k < i \/ k = i
        BY <3>1
      <4> QED
        BY <2>4, <3>1, <3>3, <4>1 DEF OfRegions, OfRegion, Managed
    <3> QED
      BY <2>5, <3>2, <3>3 DEF Region, Usable
  <2>6. CASE Carve
    BY <1>0, <2>3, <2>4, <2>6, CarveCovers
  <2>7. CASE NextExclusion
    <3>1. /\ pc = "carve" /\ todo' = next /\ next' = <<>> /\ t' = 1 /\ pc' \in {"carve", "add"}
          /\ e <= Len(excl) /\ ~InnerLoop
          /\ UNCHANGED <<boot, excl, i, zones>>
      BY <2>7 DEF NextExclusion
    <3>2. t > Len(todo)
      BY <1>0, <2>3, <3>1, LoopEnds
    <3>3. ~Ahead(P)
      <4>1. \A k \in DOMAIN todo : k <= Len(todo) /\ k \in Nat
        BY <1>0 DEF TypeOK
      <4>2. Len(todo) \in Nat /\ t \in Nat
        BY <1>0 DEF TypeOK
      <4> QED
        BY <3>2, <4>1, <4>2 DEF Ahead
    <3>4. \A k \in DOMAIN next : k >= 1
      BY <1>0, MapFacts
    <3>5. Behind(P) => Ahead(P)'
      BY <3>1, <3>4 DEF Ahead, Behind
    <3> QED
      BY <2>4, <3>1, <3>3, <3>5 DEF OfRegions, OfRegion, Managed
  <2>8. CASE Carved
    <3>1. /\ pc = "carve" /\ pc' = "add" /\ t' = 1 /\ next = <<>>
          /\ UNCHANGED <<boot, excl, i, e, todo, next, zones>>
      BY <1>0, <2>8 DEF Carved, Position
    <3>2. ~Behind(P)
      BY <3>1 DEF Behind
    <3>3. \A k \in DOMAIN todo : k >= 1
      BY <1>0, MapFacts
    <3>4. Ahead(P) => Ahead(P)'
      BY <3>1, <3>3 DEF Ahead
    <3> QED
      BY <2>4, <3>1, <3>2, <3>4 DEF OfRegions, OfRegion, Managed
  <2>9. CASE AddZone
    BY <2>4, <2>9, AddZoneCovers
  <2>10. CASE RegionDone
    <3>1. /\ pc = "add" /\ pc' = "region" /\ i' = i + 1 /\ i \in Nat /\ t > Len(todo)
          /\ UNCHANGED <<boot, excl, e, t, todo, next, zones>>
      BY <1>0, <2>10 DEF RegionDone, TypeOK
    <3>2. ~Ahead(P)
      <4>1. \A k \in DOMAIN todo : k <= Len(todo) /\ k \in Nat
        BY <1>0 DEF TypeOK
      <4>2. Len(todo) \in Nat /\ t \in Nat
        BY <1>0 DEF TypeOK
      <4> QED
        BY <3>1, <4>1, <4>2 DEF Ahead
    <3>3. Within(P, boot.mmap[i]) => Managed(P)
      BY <2>4, <3>1, <3>2 DEF OfRegion
    <3>4. \A k \in DOMAIN boot.mmap : k < i + 1 => k < i \/ k = i
      BY <1>0, <3>1, MapFacts
    <3> QED
      BY <2>4, <3>1, <3>3, <3>4 DEF OfRegions, OfRegion, Managed
  <2>11. CASE Done \/ UNCHANGED vars
    BY <2>4, <2>11 DEF Done, vars, OfRegions, OfRegion, Managed, Ahead, Behind
  <2> QED
    BY <1>3, <2>5, <2>6, <2>7, <2>8, <2>9, <2>10, <2>11 DEF Next
<1> QED
  BY <1>1, <1>2, <1>3

LEMMA CoverageEnd == ASSUME TypeOK, Coverage PROVE NothingLost
<1> SUFFICES ASSUME pc = "region", i > Len(boot.mmap), Roomy, Len(zones) < MaxZones,
                    NEW k \in DOMAIN boot.mmap, boot.mmap[k].available,
                    NEW p \in (boot.mmap[k].start + PageSize - 1) \div PageSize
                                .. boot.mmap[k].end \div PageSize - 1,
                    Free(WholePage(p))
             PROVE  \E z \in DOMAIN zones : Overlap(WholePage(p), zones[z])
  BY DEF NothingLost, Roomy, Free, WholePage
<1>1. PICK lo \in Nat, hi \in Nat : boot.mmap[k].start = lo /\ boot.mmap[k].end = hi
  BY MapFacts DEF Bounds
<1>2. PageSize \in Nat \ {0}
  BY MemoryMapAssumption
<1>3. PICK y \in Nat : y = lo + PageSize - 1
  BY <1>2
<1>4. PICK a \in Nat : a = y \div PageSize /\ y < (a + 1) * PageSize
  BY <1>3, DivBounds
<1>5. PICK b \in Nat : b = hi \div PageSize /\ b * PageSize <= hi
  BY <1>1, DivBounds
<1>6. p \in a .. b - 1
  BY <1>1, <1>3, <1>4, <1>5
<1>7. p \in Nat /\ a <= p /\ p + 1 <= b
  BY <1>6
<1>8. lo <= p * PageSize
  <2>1. (a + 1) * PageSize <= (p + 1) * PageSize
    BY <1>4, <1>7, MulLeq
  <2>2. (p + 1) * PageSize = p * PageSize + PageSize /\ p * PageSize \in Nat /\ (a + 1) * PageSize \in Nat
    BY <1>2, <1>7
  <2> QED
    BY <1>2, <1>3, <1>4, <2>1, <2>2
<1>9. (p + 1) * PageSize <= hi
  <2>1. (p + 1) * PageSize <= b * PageSize
    BY <1>5, <1>7, MulLeq
  <2>2. (p + 1) * PageSize \in Nat /\ b * PageSize \in Nat
    BY <1>2, <1>5, <1>7
  <2> QED
    BY <1>5, <2>1, <2>2
<1>10. PICK P : P = WholePage(p)
  OBVIOUS
<1>11. P \in Pages /\ Free(P) /\ Within(P, boot.mmap[k])
  BY <1>1, <1>7, <1>8, <1>9, <1>10 DEF Pages, WholePage, Within
<1>12. P \in PhysRange /\ NonEmpty(P) /\ Bounds(P)
  BY <1>11, PageRange
<1>13. Usable(boot.mmap[k])
  BY <1>1, <1>11, <1>12 DEF Usable, Within, NonEmpty, Bounds
<1>14. k < i
  BY MapFacts DEF TypeOK
<1>15. PICK z \in DOMAIN zones : Within(P, zones[z])
  BY <1>11, <1>13, <1>14 DEF Coverage, OfRegions, Managed
<1>16. Bounds(zones[z])
  BY MapFacts, RangeBounds
<1>17. Overlap(P, zones[z])
  BY <1>12, <1>15, <1>16 DEF Within, NonEmpty, Overlap, Bounds
<1> QED
  BY <1>10, <1>17

(* No page of free memory below 2^32 is lost between the boot loader's map *)
(* and the zones, however exclusions overlap and cut it, while todo[] has  *)
(* room for two ranges more than there are exclusions and there are zones  *)
(* to spare: buddy_init() drops ranges without notice when it has not.     *)
THEOREM NoPageLost == ASSUME LowMemory PROVE Spec => []NothingLost
<1>1. Init => LInv
  BY DEF Init, LInv, Room, Coverage
<1>2. IInv /\ [Next]_vars => IInv'
  BY NextInv
<1>3. IInv /\ DInv /\ [Next]_vars => DInv'
  BY DNext
<1>4. IInv /\ DInv /\ LInv /\ [Next]_vars => LInv'
  BY RoomNext, CoverageNext DEF IInv, LInv
<1>5. IInv /\ LInv => NothingLost
  BY CoverageEnd DEF IInv, LInv
<1> QED
  BY InitInv, DInit, <1>1, <1>2, <1>3, <1>4, <1>5, PTL DEF Spec
-----------------------------------------------------------------------------
LEMMA LeastOf ==
  ASSUME NEW S, S \subseteq Nat, S # {}
  PROVE  \E n \in S : \A m \in S : n <= m
<1>1. PICK x \in S : \A y \in S : ~(<<y, x>> \in OpToRel(<, Nat))
  BY NatLessThanWellFounded, WFMin
<1>2. \A y \in S : x <= y
  <2> TAKE y \in S
  <2>1. ~(<<y, x>> \in OpToRel(<, Nat)) /\ <<y, x>> \in Nat \X Nat
    BY <1>1
  <2>2. ~(y < x)
    BY <2>1, ZenonT(20) DEF OpToRel
  <2> QED
    BY <2>2
<1> QED
  BY <1>2

LEMMA GreatestOf ==
  ASSUME NEW N \in Nat, NEW S, S \subseteq 0 .. N, S # {}
  PROVE  \E n \in S : \A m \in S : m <= n
<1> DEFINE T == {N - n : n \in S}
<1> HIDE DEF T
<1>0. \A n \in S : n \in 0 .. N /\ N - n \in Nat
  OBVIOUS
<1>1. T \subseteq Nat /\ T # {}
  BY <1>0 DEF T
<1>2. PICK k \in T : \A j \in T : k <= j
  BY <1>1, LeastOf
<1>3. PICK n \in S : k = N - n
  BY DEF T
<1>4. ASSUME NEW m \in S PROVE m <= n
  <2>1. N - m \in T
    BY DEF T
  <2>2. N - n <= N - m
    BY <1>2, <1>3, <2>1
  <2> QED
    BY <1>0, <2>2
<1> QED
  BY <1>4

(* A function can be iterated. *)
Iteration(f, S, x, g, N) ==
  f \in [0 .. N -> S] /\ f[0] = x /\ \A n \in 1 .. N : f[n] = g[f[n - 1]]

LEMMA Iterates ==
  ASSUME NEW S, NEW x \in S, NEW g \in [S -> S], NEW N \in Nat
  PROVE  \E f : Iteration(f, S, x, g, N)
<1> USE DEF Iteration
<1> DEFINE Is(f, k) == Iteration(f, S, x, g, k)
           Bad == {k \in Nat : \A f : ~ Is(f, k)}
<1>1. SUFFICES ASSUME Bad # {} PROVE FALSE
  OBVIOUS
<1>2. PICK k \in Bad : \A j \in Bad : k <= j
  BY <1>1, LeastOf
<1>3. CASE k = 0
  <2>1. Is([n \in 0 .. 0 |-> x], 0)
    OBVIOUS
  <2> QED
    BY <1>2, <1>3, <2>1
<1>4. CASE k > 0
  <2>1. k - 1 \in Nat /\ k - 1 \notin Bad
    BY <1>2, <1>4
  <2>2. PICK f : Is(f, k - 1)
    BY <2>1
  <2> DEFINE h == [n \in 0 .. k |-> IF n = k THEN g[f[k - 1]] ELSE f[n]]
  <2>3. h \in [0 .. k -> S]
    BY <2>1, <2>2
  <2>4. h[0] = x
    BY <1>4, <2>1, <2>2
  <2>5. ASSUME NEW n \in 1 .. k PROVE h[n] = g[h[n - 1]]
    <3>1. CASE n = k
      BY <1>4, <2>1, <3>1
    <3>2. CASE n < k
      <4>1. n \in 1 .. k - 1 /\ n - 1 \in 0 .. k - 1 /\ n \in 0 .. k - 1 /\ n # k /\ n - 1 # k
        BY <2>1, <3>2
      <4>2. h[n] = f[n] /\ h[n - 1] = f[n - 1]
        BY <4>1, <2>1
      <4> QED
        BY <2>2, <4>1, <4>2
    <3> QED
      BY <3>1, <3>2, <2>1
  <2>6. Is(h, k)
    BY <2>3, <2>4, <2>5
  <2> QED
    BY <1>2, <2>6
<1> QED
  BY <1>2, <1>3, <1>4
-----------------------------------------------------------------------------
Order == 0 .. MAX_ORDER

LEMMA SizeIs ==
  /\ Size \in [Order -> Nat \ {0}] /\ Size[0] = 1
  /\ \A o \in Order : o + 1 \in Order => Size[o + 1] = 2 * Size[o]
<1> DEFINE S == Nat \ {0}
           g == [v \in S |-> 2 * v]
           F(f) == [o \in 0 .. MAX_ORDER |-> IF o = 0 THEN 1 ELSE 2 * f[o - 1]]
<1>1. MAX_ORDER \in Nat /\ 1 \in S /\ g \in [S -> S]
  BY PhysicalMemoryAssumption
<1>2. PICK f : Iteration(f, S, 1, g, MAX_ORDER)
  <2> HIDE DEF S, g
  <2> QED
    BY <1>1, Iterates
<1>3. f = F(f)
  <2>1. f \in [0 .. MAX_ORDER -> S] /\ f[0] = 1
    BY <1>2 DEF Iteration
  <2>2. \A o \in 0 .. MAX_ORDER : f[o] = F(f)[o]
    <3> TAKE o \in 0 .. MAX_ORDER
    <3>1. CASE o = 0
      BY <2>1, <3>1
    <3>2. CASE o # 0
      <4>1. o \in 1 .. MAX_ORDER /\ o - 1 \in 0 .. MAX_ORDER
        BY <1>1, <3>2
      <4>2. f[o] = g[f[o - 1]] /\ f[o - 1] \in S
        BY <1>2, <2>1, <4>1 DEF Iteration
      <4> QED
        BY <3>2, <4>1, <4>2
    <3> QED
      BY <3>1, <3>2
  <2> QED
    BY <2>1, <2>2
<1>4. Size = CHOOSE s : s = F(s)
  BY DEF Size
<1>5. Size = F(Size)
  BY <1>3, <1>4
<1>6. Size[0] = 1 /\ \A o \in 1 .. MAX_ORDER : Size[o] = 2 * Size[o - 1]
  <2>1. Size[0] = 1
    BY <1>1, <1>5
  <2>2. ASSUME NEW o \in 1 .. MAX_ORDER PROVE Size[o] = 2 * Size[o - 1]
    <3>1. o \in 0 .. MAX_ORDER /\ o # 0
      BY <1>1
    <3> QED
      BY <1>5, <3>1
  <2> QED
    BY <2>1, <2>2
<1>7. \A o \in Order : Size[o] \in S
  <2> DEFINE Bad == {o \in Order : Size[o] \notin S}
  <2>1. SUFFICES ASSUME Bad # {} PROVE FALSE
    OBVIOUS
  <2>2. Bad \subseteq Nat
    BY <1>1 DEF Order
  <2>3. PICK o \in Bad : \A p \in Bad : o <= p
    <3> HIDE DEF Bad
    <3> QED
      BY <2>1, <2>2, LeastOf
  <2>4. CASE o = 0
    BY <1>6, <2>3, <2>4
  <2>5. CASE o # 0
    <3>1. o \in 1 .. MAX_ORDER /\ o - 1 \in Order /\ o - 1 < o
      BY <1>1, <2>3, <2>5 DEF Order
    <3>2. Size[o - 1] \in S
      BY <2>3, <3>1
    <3> QED
      BY <1>6, <2>3, <3>1, <3>2
  <2> QED
    BY <2>4, <2>5
<1>8. DOMAIN Size = Order /\ Size = [o \in Order |-> Size[o]]
  BY <1>5 DEF Order
<1>9. \A o \in Order : o + 1 \in Order => Size[o + 1] = 2 * Size[o]
  <2> TAKE o \in Order
  <2> HAVE o + 1 \in Order
  <2>1. o + 1 \in 1 .. MAX_ORDER /\ (o + 1) - 1 = o
    BY <1>1 DEF Order
  <2> QED
    BY <1>6, <2>1
<1> QED
  BY <1>6, <1>7, <1>8, <1>9
-----------------------------------------------------------------------------
(* Page p can be the first of a block of order o. *)
Aligned(p, o) == \E q \in Nat : p = q * Size[o]

LEMMA SizeNat == \A o \in Order : Size[o] \in Nat /\ Size[o] > 0
BY SizeIs

LEMMA OrderNat == MAX_ORDER \in Nat /\ \A o \in Order : o \in Nat
BY PhysicalMemoryAssumption DEF Order

LEMMA SizeDivides ==
  ASSUME NEW o \in Order, NEW p \in Order, o <= p
  PROVE  \E c \in Nat : c > 0 /\ Size[p] = c * Size[o]
<1> DEFINE Bad == {r \in Order : o <= r /\ ~ \E c \in Nat : c > 0 /\ Size[r] = c * Size[o]}
<1>1. SUFFICES ASSUME Bad # {} PROVE FALSE
  OBVIOUS
<1>2. PICK r \in Bad : \A x \in Bad : r <= x
  <2>1. Bad \subseteq Nat
    BY OrderNat
  <2> HIDE DEF Bad
  <2> QED
    BY <1>1, <2>1, LeastOf
<1>3. CASE r = o
  <2>1. Size[r] = 1 * Size[o]
    BY <1>3, SizeNat
  <2> QED
    BY <1>2, <2>1
<1>4. CASE r # o
  <2>1. r - 1 \in Order /\ o <= r - 1 /\ r - 1 < r /\ r = (r - 1) + 1 /\ r \in Order
    BY <1>2, <1>4, OrderNat DEF Order
  <2>0. r - 1 \notin Bad
    <3> HIDE DEF Bad
    <3> QED
      BY <1>2, <2>1, OrderNat
  <2>2. PICK c \in Nat : c > 0 /\ Size[r - 1] = c * Size[o]
    BY <2>0, <2>1
  <2>3. Size[r] = 2 * Size[r - 1]
    BY <2>1, SizeIs
  <2>4. Size[r] = (2 * c) * Size[o] /\ 2 * c \in Nat /\ 2 * c > 0
    BY <2>2, <2>3, SizeNat
  <2> QED
    BY <1>2, <2>4
<1> QED
  BY <1>3, <1>4

LEMMA SizeGrows ==
  ASSUME NEW o \in Order, NEW p \in Order
  PROVE  /\ o <= p => Size[o] <= Size[p]
         /\ o < p => 2 * Size[o] <= Size[p]
<1>1. \A a, b \in Order : a <= b => Size[a] <= Size[b]
  <2> TAKE a, b \in Order
  <2> HAVE a <= b
  <2>1. PICK c \in Nat : c > 0 /\ Size[b] = c * Size[a]
    BY SizeDivides
  <2>2. PICK s \in Nat : s = Size[a]
    BY SizeNat
  <2>3. c * s >= s
    BY <2>1
  <2> QED
    BY <2>1, <2>2, <2>3
<1>2. ASSUME o < p PROVE 2 * Size[o] <= Size[p]
  <2>1. o + 1 \in Order /\ o + 1 <= p
    BY <1>2, OrderNat DEF Order
  <2> QED
    BY <1>1, <2>1, SizeIs
<1> QED
  BY <1>1, <1>2

LEMMA AlignedDown ==
  ASSUME NEW o \in Order, NEW p \in Order, o <= p, NEW x, Aligned(x, p)
  PROVE  Aligned(x, o)
<1>1. PICK q \in Nat : x = q * Size[p]
  BY DEF Aligned
<1>2. PICK c \in Nat : Size[p] = c * Size[o]
  BY SizeDivides
<1>3. PICK s \in Nat : s = Size[o]
  BY SizeNat
<1>4. q * (c * s) = (q * c) * s /\ q * c \in Nat
  OBVIOUS
<1> QED
  BY <1>1, <1>2, <1>3, <1>4 DEF Aligned

LEMMA AlignedNat == ASSUME NEW o \in Order, NEW x, Aligned(x, o) PROVE x \in Nat
BY SizeNat DEF Aligned

LEMMA AlignedPlus == 
  ASSUME NEW o \in Order, NEW x, Aligned(x, o) 
  PROVE  Aligned(x + Size[o], o) /\ (Size[o] <= x => Aligned(x - Size[o], o))
<1>1. PICK q \in Nat : x = q * Size[o]
  BY DEF Aligned
<1>2. PICK s \in Nat : s = Size[o] /\ s > 0
  BY SizeNat
<1>3. q * s + s = (q + 1) * s
  OBVIOUS
<1>4. ASSUME s <= x PROVE q - 1 \in Nat /\ x - s = (q - 1) * s
  <2>1. q # 0
    BY <1>1, <1>2, <1>4
  <2> QED
    BY <1>1, <1>2, <2>1
<1> QED
  BY <1>1, <1>2, <1>3, <1>4 DEF Aligned

(* Blocks that are aligned to the same size are apart. *)
LEMMA AlignedApart ==
  ASSUME NEW o \in Order, NEW x, NEW y, Aligned(x, o), Aligned(y, o), x < y
  PROVE  x + Size[o] <= y
<1>1. PICK q \in Nat : x = q * Size[o]
  BY DEF Aligned
<1>2. PICK r \in Nat : y = r * Size[o]
  BY DEF Aligned
<1>3. PICK s \in Nat : s = Size[o] /\ s > 0
  BY SizeNat
<1>4. q < r
  <2>1. q * s < r * s
    BY <1>1, <1>2, <1>3
  <2>2. ASSUME r <= q PROVE FALSE
    <3>1. r * s <= q * s
      BY <1>3, <2>2
    <3> QED
      BY <2>1, <3>1
  <2> QED
    BY <2>2
<1>5. (q + 1) * s <= r * s
  BY <1>3, <1>4
<1>6. (q + 1) * s = q * s + s
  OBVIOUS
<1> QED
  BY <1>1, <1>2, <1>3, <1>5, <1>6

LEMMA AlignedMod ==
  ASSUME NEW o \in Order, NEW x \in Nat
  PROVE  x % Size[o] = 0 <=> Aligned(x, o)
<1>1. PICK s \in Nat : s = Size[o] /\ s > 0
  BY SizeNat
<1>2. x = s * (x \div s) + (x % s) /\ x \div s \in Nat /\ x % s \in 0 .. s - 1
  BY <1>1
<1>3. ASSUME x % s = 0 PROVE Aligned(x, o)
  <2>1. x = (x \div s) * s
    BY <1>2, <1>3
  <2> QED
    BY <1>1, <1>2, <2>1 DEF Aligned
<1>4. ASSUME NEW q \in Nat, x = q * s PROVE x % s = 0
  <2>1. PICK d \in Nat : d = x \div s
    BY <1>2
  <2>2. PICK m \in Nat : m = x % s /\ m < s
    BY <1>2
  <2>3. q * s = s * d + m
    BY <1>2, <1>4, <2>1, <2>2
  <2>4. q = d
    <3>1. CASE q < d
      <4>1. (q + 1) * s <= d * s
        BY <3>1, <1>1
      <4> QED
        BY <2>3, <4>1, <1>1
    <3>2. CASE q > d
      <4>1. (d + 1) * s <= q * s
        BY <3>2, <1>1
      <4>2. (d + 1) * s = s * d + s
        OBVIOUS
      <4> QED
        BY <2>2, <2>3, <4>1, <4>2, <1>1
    <3> QED
      BY <3>1, <3>2
  <2> QED
    BY <2>2, <2>3, <2>4
<1> QED
  BY <1>1, <1>3, <1>4 DEF Aligned

(* A block and its buddy are the halves of the block that begins at m.     *)
Halves(m, x, b, o) ==
  /\ Aligned(m, o + 1)
  /\ (x = m /\ b = m + Size[o]) \/ (x = m + Size[o] /\ b = m)

LEMMA DivFacts ==
  ASSUME NEW x \in Nat, NEW s \in Nat, s > 0
  PROVE  x = s * (x \div s) + (x % s) /\ x \div s \in Nat /\ x % s \in Nat /\ x % s < s
OBVIOUS

LEMMA BuddyHalves ==
  ASSUME NEW o \in Order, o + 1 \in Order, NEW x, Aligned(x, o)
  PROVE  \E m \in Nat : Halves(m, x, buddy_index(x, o), o)
<1>1. PICK q \in Nat : x = q * Size[o]
  BY DEF Aligned
<1>2. PICK s \in Nat : s = Size[o] /\ s > 0 /\ Size[o + 1] = 2 * s
  BY SizeNat, SizeIs
<1>3. x \div s = q
  <2>0. x \in Nat
    BY <1>1, <1>2
  <2>1. PICK r \in Nat : r = x \div s /\ x = s * r + (x % s)
    BY <1>2, <2>0, DivFacts
  <2>2. PICK u \in Nat : u = x % s /\ u < s
    BY <1>2, <2>0, DivFacts
  <2>3. q * s = s * r + u
    BY <1>1, <1>2, <2>1, <2>2
  <2>4. CASE q < r
    <3>1. (q + 1) * s <= r * s
      BY <1>2, <2>4
    <3> QED
      BY <1>2, <2>2, <2>3, <3>1
  <2>5. CASE q > r
    <3>1. (r + 1) * s <= q * s
      BY <1>2, <2>5
    <3>2. (r + 1) * s = s * r + s
      OBVIOUS
    <3> QED
      BY <1>2, <2>2, <2>3, <3>1, <3>2
  <2> QED
    BY <2>1, <2>4, <2>5
<1>4. CASE q % 2 = 0
  <2>1. PICK d \in Nat : q = 2 * d
    BY <1>4
  <2>2. x = d * (2 * s)
    BY <1>1, <1>2, <2>1
  <2>3. buddy_index(x, o) = x + s
    BY <1>2, <1>3, <1>4 DEF buddy_index
  <2>4. Halves(x, x, buddy_index(x, o), o)
    BY <1>2, <2>2, <2>3 DEF Halves, Aligned
  <2> QED
    BY <1>1, <1>2, <2>2, <2>4
<1>5. CASE q % 2 # 0
  <2>1. PICK d \in Nat : q = 2 * d + 1
    BY <1>5
  <2>2. x = d * (2 * s) + s
    BY <1>1, <1>2, <2>1
  <2>3. buddy_index(x, o) = x - s
    BY <1>2, <1>3, <1>5 DEF buddy_index
  <2>4. PICK m \in Nat : m = d * (2 * s)
    OBVIOUS
  <2>5. Halves(m, x, buddy_index(x, o), o)
    BY <1>2, <2>2, <2>3, <2>4 DEF Halves, Aligned
  <2> QED
    BY <2>5
<1> QED
  BY <1>4, <1>5

LEMMA HalvesBuddy ==
  ASSUME NEW o \in Order, o + 1 \in Order, NEW m, Aligned(m, o + 1)
  PROVE  buddy_index(m, o) = m + Size[o] /\ buddy_index(m + Size[o], o) = m
<1>0. PICK s \in Nat : s = Size[o] /\ s > 0 /\ Size[o + 1] = 2 * s
  BY SizeNat, SizeIs
<1>1. m \in Nat
  BY AlignedNat
<1>a. ASSUME NEW x, NEW y, x \in Nat, y \in Nat, Aligned(x, o + 1), Aligned(y, o + 1), x < y
      PROVE  x + 2 * s <= y
  BY <1>0, <1>a, AlignedApart
<1>2. Aligned(m, o) /\ Aligned(m + s, o)
  BY <1>0, AlignedDown, AlignedPlus, OrderNat
<1>3. PICK a \in Nat : Halves(a, m, buddy_index(m, o), o)
  BY <1>2, BuddyHalves
<1>4. a = m
  <2>1. Aligned(a, o + 1) /\ (a = m \/ m = a + s)
    BY <1>0, <1>3 DEF Halves
  <2>2. ASSUME m = a + s PROVE FALSE
    <3>1. a + 2 * s <= m
      BY <1>a, <1>0, <1>1, <2>1, <2>2
    <3> QED
      BY <1>0, <2>2, <3>1
  <2> QED
    BY <2>1, <2>2
<1>5. PICK b \in Nat : Halves(b, m + s, buddy_index(m + s, o), o)
  BY <1>2, BuddyHalves
<1>6. b = m
  <2>1. Aligned(b, o + 1) /\ (b = m + s \/ m + s = b + s)
    BY <1>0, <1>5 DEF Halves
  <2>2. ASSUME b = m + s PROVE FALSE
    <3>1. m + 2 * s <= b
      BY <1>a, <1>0, <1>1, <2>1, <2>2
    <3> QED
      BY <1>0, <1>1, <2>2, <3>1
  <2> QED
    BY <1>0, <1>1, <2>1, <2>2
<1> QED
  BY <1>0, <1>1, <1>3, <1>4, <1>5, <1>6 DEF Halves

LEMMA BuddyTwice ==
  ASSUME NEW o \in Order, o + 1 \in Order, NEW x, Aligned(x, o)
  PROVE  /\ buddy_index(x, o) \in Nat /\ Aligned(buddy_index(x, o), o)
         /\ buddy_index(x, o) # x /\ buddy_index(buddy_index(x, o), o) = x
<1>1. PICK m \in Nat : Halves(m, x, buddy_index(x, o), o)
  BY BuddyHalves
<1>2. Size[o] \in Nat /\ Size[o] > 0 /\ o <= o + 1
  BY SizeNat, OrderNat
<1>3. Aligned(m, o)
  BY <1>1, <1>2, AlignedDown DEF Halves
<1> QED
  BY <1>1, <1>2, <1>3, HalvesBuddy, AlignedPlus DEF Halves
-----------------------------------------------------------------------------
LEMMA LargestIs ==
  ASSUME NEW N \in Nat, NEW S, S \subseteq 0 .. N, S # {}
  PROVE  Largest(S) \in S /\ \A y \in S : y <= Largest(S)
BY GreatestOf DEF Largest

LEMMA MaxOrderIs ==
  ASSUME NEW n \in Nat
  PROVE  /\ max_order(n) \in Order
         /\ \A o \in Order : Size[o] <= n => o <= max_order(n)
<1> DEFINE S == {o \in 0 .. MAX_ORDER : o = 0 \/ Size[o] <= n}
<1>1. 0 \in S /\ S \subseteq 0 .. MAX_ORDER
  BY OrderNat
<1>2. max_order(n) = Largest(S)
  BY DEF max_order
<1>3. \A o \in Order : Size[o] <= n => o \in S
  BY DEF Order
<1> HIDE DEF S
<1>4. Largest(S) \in S /\ \A y \in S : y <= Largest(S)
  BY <1>1, OrderNat, LargestIs
<1> QED
  BY <1>1, <1>2, <1>3, <1>4 DEF Order
-----------------------------------------------------------------------------
(* Blocks of one zone are pairs of their first page and their order.  They *)
(* cut the pages from lo to n when each page is in exactly one of them.    *)
Contains(c, x) == c[1] <= x /\ x < c[1] + Size[c[2]]

Fits(c, lo, n) ==
  /\ c \in Nat \X Order /\ c[2] <= max_order(n) /\ Aligned(c[1], c[2])
  /\ lo <= c[1] /\ c[1] + Size[c[2]] <= n

Tiling(S, lo, n) ==
  /\ \A c \in S : Fits(c, lo, n)
  /\ \A c, d \in S : \A x \in Nat : Contains(c, x) /\ Contains(d, x) => c = d
  /\ \A x \in lo .. n - 1 : \E c \in S : Contains(c, x)

(* No two buddies that could be one block. *)
NoBuddies(S, n) ==
  \A c \in S : c[2] < max_order(n) => <<buddy_index(c[1], c[2]), c[2]>> \notin S

LEMMA ContainsFirst ==
  ASSUME NEW p \in Nat, NEW o \in Order
  PROVE  Contains(<<p, o>>, p)
BY SizeNat DEF Contains

LEMMA NextOrder ==
  ASSUME NEW n \in Nat, NEW o \in Order, o < max_order(n)
  PROVE  o + 1 \in Order /\ o + 1 <= max_order(n) /\ Size[o + 1] = 2 * Size[o]
BY MaxOrderIs, OrderNat, SizeIs DEF Order

(* Of two blocks that share a page the smaller is inside the larger.       *)
LEMMA Inside ==
  ASSUME NEW p \in Nat, NEW o \in Order, Aligned(p, o),
         NEW q \in Nat, NEW r \in Order, Aligned(q, r), o <= r,
         NEW x \in Nat, Contains(<<p, o>>, x), Contains(<<q, r>>, x)
  PROVE  q <= p /\ p + Size[o] <= q + Size[r]
<1>1. Aligned(q, o) /\ Aligned(q + Size[r], o)
  BY AlignedPlus, AlignedDown
<1>2. PICK s \in Nat : s = Size[o] /\ s > 0
  BY SizeNat
<1>3. PICK u \in Nat : u = Size[r] /\ u > 0
  BY SizeNat
<1>4. p <= x /\ x < p + s /\ q <= x /\ x < q + u
  BY <1>2, <1>3 DEF Contains
<1>5. q <= p
  <2>1. ASSUME p < q PROVE p + s <= q
    BY <1>1, <1>2, <2>1, AlignedApart
  <2> QED
    BY <1>4, <2>1
<1>6. p + s <= q + u
  BY <1>1, <1>2, <1>3, <1>4, AlignedApart
<1> QED
  BY <1>2, <1>3, <1>5, <1>6

LEMMA InsideContains ==
  ASSUME NEW p \in Nat, NEW o \in Order, Aligned(p, o),
         NEW q \in Nat, NEW r \in Order, Aligned(q, r), o <= r,
         NEW x \in Nat, Contains(<<p, o>>, x), Contains(<<q, r>>, x)
  PROVE  \A y \in Nat : Contains(<<p, o>>, y) => Contains(<<q, r>>, y)
<1>1. q <= p /\ p + Size[o] <= q + Size[r]
  BY Inside
<1> QED
  BY <1>1, SizeNat DEF Contains

(* The buddy of a block is the first page of a block that is no larger.    *)
LEMMA BuddyBegins ==
  ASSUME NEW n \in Nat, NEW S, Tiling(S, 0, n), NEW x \in Nat, NEW o \in Order,
         <<x, o>> \in S, o < max_order(n), buddy_index(x, o) < n
  PROVE  \E k \in Order : k <= o /\ <<buddy_index(x, o), k>> \in S
<1>0. o + 1 \in Order /\ Size[o + 1] = 2 * Size[o] /\ Aligned(x, o)
  BY NextOrder DEF Tiling, Fits
<1>1. PICK m \in Nat : Halves(m, x, buddy_index(x, o), o)
  BY <1>0, BuddyHalves
<1>2. PICK b \in Nat : b = buddy_index(x, o) /\ b # x /\ Aligned(b, o)
  BY <1>0, BuddyTwice
<1>3. PICK c \in S : Contains(c, b)
  BY <1>2 DEF Tiling
<1>4. PICK q \in Nat, r \in Order : c = <<q, r>>
  BY <1>3 DEF Tiling, Fits
<1>5. Aligned(q, r)
  BY <1>3, <1>4 DEF Tiling, Fits
<1>6. PICK s \in Nat : s = Size[o] /\ s > 0
  BY SizeNat
<1>7. r <= o
  <2>1. ASSUME o + 1 <= r PROVE FALSE
    <3>1. Contains(<<m, o + 1>>, b) /\ Contains(<<m, o + 1>>, x)
      BY <1>0, <1>1, <1>2, <1>6 DEF Halves, Contains
    <3>2. Contains(c, x)
      BY <1>0, <1>1, <1>3, <1>4, <1>5, <2>1, <3>1, <1>2, InsideContains DEF Halves
    <3>3. Contains(<<x, o>>, x)
      BY ContainsFirst
    <3>4. c = <<x, o>>
      BY <3>2, <3>3 DEF Tiling
    <3> QED
      BY <1>4, <2>1, <3>4, OrderNat
  <2> QED
    BY <2>1, OrderNat
<1>8. Contains(<<b, o>>, b)
  BY ContainsFirst
<1>9. b <= q
  BY <1>2, <1>3, <1>4, <1>5, <1>7, <1>8, Inside
<1>10. q = b
  BY <1>3, <1>4, <1>9 DEF Contains
<1> QED
  BY <1>2, <1>4, <1>3, <1>7, <1>10

(* A block that is cut further has buddies in it. *)
LEMMA NoFiner ==
  ASSUME NEW n \in Nat, NEW S, Tiling(S, 0, n), NoBuddies(S, n),
         NEW d, Fits(d, 0, n), NEW c \in S, Contains(d, c[1])
  PROVE  d[2] <= c[2]
<1> DEFINE Finer == {k \in Order : k < d[2] /\ \E p \in Nat : <<p, k>> \in S /\ Contains(d, p)}
<1>0. PICK q \in Nat, r \in Order : d = <<q, r>> /\ Aligned(q, r) /\ r <= max_order(n) /\ q + Size[r] <= n
  BY DEF Fits
<1>1. SUFFICES ASSUME ~ (d[2] <= c[2]) PROVE FALSE
  OBVIOUS
<1>2. Finer # {}
  <2>1. PICK p \in Nat, o \in Order : c = <<p, o>>
    BY DEF Tiling, Fits
  <2> QED
    BY <1>0, <1>1, <2>1, OrderNat
<1>3. PICK k \in Finer : \A j \in Finer : k <= j
  <2>1. Finer \subseteq Nat
    BY OrderNat
  <2> HIDE DEF Finer
  <2> QED
    BY <1>2, <2>1, LeastOf
<1>4. PICK p \in Nat : <<p, k>> \in S /\ Contains(d, p)
  BY <1>3
<1>5. k \in Order /\ k < r
  BY <1>0, <1>3
<1>6. k < max_order(n) /\ Aligned(p, k)
  BY <1>0, <1>4, <1>5, MaxOrderIs, OrderNat DEF Tiling, Fits
<1>7. k + 1 \in Order /\ Size[k + 1] = 2 * Size[k] /\ k + 1 <= r
  BY <1>5, <1>6, NextOrder, OrderNat
<1>8. PICK m \in Nat : Halves(m, p, buddy_index(p, k), k)
  BY <1>6, <1>7, <1>5, BuddyHalves
<1>9. PICK b \in Nat : b = buddy_index(p, k)
  BY <1>5, <1>6, <1>7, BuddyTwice
<1>10. Contains(d, b)
  <2>1. Contains(<<m, k + 1>>, p) /\ Contains(<<m, k + 1>>, b)
    BY <1>5, <1>7, <1>8, <1>9, SizeNat DEF Contains, Halves
  <2> QED
    BY <1>0, <1>4, <1>7, <1>8, <1>9, <2>1, InsideContains DEF Halves
<1>11. b < n
  BY <1>0, <1>10, SizeNat DEF Contains
<1>12. PICK j \in Order : j <= k /\ <<b, j>> \in S
  BY <1>4, <1>5, <1>6, <1>9, <1>11, BuddyBegins
<1>13. j \in Finer
  BY <1>0, <1>5, <1>9, <1>10, <1>12, OrderNat
<1>14. j = k
  <2>1. k <= j
    BY <1>3, <1>13
  <2> QED
    BY <2>1, <1>5, <1>12, OrderNat
<1> QED
  BY <1>4, <1>6, <1>9, <1>12, <1>14 DEF NoBuddies

(* Without buddies there is one way to cut a zone. *)
LEMMA OneTiling ==
  ASSUME NEW n \in Nat, NEW S, NEW T, Tiling(S, 0, n), Tiling(T, 0, n),
         NoBuddies(S, n), NoBuddies(T, n)
  PROVE  S \subseteq T
<1> SUFFICES ASSUME NEW c \in S PROVE c \in T
  OBVIOUS
<1>1. PICK p \in Nat, o \in Order : c = <<p, o>> /\ Aligned(p, o) /\ p + Size[o] <= n
  BY DEF Tiling, Fits
<1>2. p \in 0 .. n - 1
  BY <1>1, SizeNat
<1>3. PICK d \in T : Contains(d, p)
  BY <1>2 DEF Tiling
<1>4. PICK q \in Nat, r \in Order : d = <<q, r>> /\ Aligned(q, r)
  BY <1>3 DEF Tiling, Fits
<1>5. Contains(c, p)
  BY <1>1, ContainsFirst
<1>6. r <= o
  BY <1>1, <1>3, <1>4, NoFiner DEF Tiling
<1>7. Contains(c, q)
  <2>1. Contains(<<q, r>>, q)
    BY ContainsFirst
  <2> QED
    BY <1>1, <1>3, <1>4, <1>5, <1>6, <2>1, InsideContains
<1>8. o <= r
  BY <1>1, <1>3, <1>4, <1>7, NoFiner DEF Tiling
<1>9. r = o
  BY <1>6, <1>8, OrderNat
<1>10. q <= p /\ p <= q
  <2>1. Contains(<<p, o>>, p) /\ Contains(<<q, r>>, p)
    BY <1>1, <1>3, <1>4, <1>5
  <2>2. q <= p
    BY <1>1, <1>4, <1>8, <2>1, Inside
  <2>3. p <= q
    BY <1>1, <1>4, <1>6, <2>1, Inside
  <2> QED
    BY <2>2, <2>3
<1> QED
  BY <1>1, <1>3, <1>4, <1>9, <1>10

(* The same pages cut in another way. *)
LEMMA Exchange ==
  ASSUME NEW n \in Nat, NEW S, Tiling(S, 0, n), NEW A, A \subseteq S, NEW B,
         \A c \in B : Fits(c, 0, n),
         \A c, d \in B : \A x \in Nat : Contains(c, x) /\ Contains(d, x) => c = d,
         \A x \in Nat : (\E c \in A : Contains(c, x)) <=> (\E c \in B : Contains(c, x))
  PROVE  Tiling((S \ A) \cup B, 0, n)
<1> DEFINE R == (S \ A) \cup B
<1>1. \A c \in R : Fits(c, 0, n)
  BY DEF Tiling
<1>2. ASSUME NEW c \in S \ A, NEW d \in B, NEW x \in Nat, Contains(c, x), Contains(d, x) PROVE FALSE
  <2>1. PICK a \in A : Contains(a, x)
    BY <1>2
  <2>2. c = a
    BY <1>2, <2>1 DEF Tiling
  <2> QED
    BY <2>1, <2>2
<1>3. ASSUME NEW c \in R, NEW d \in R, NEW x \in Nat, Contains(c, x), Contains(d, x) PROVE c = d
  <2>1. CASE c \in S \ A /\ d \in S \ A
    BY <1>3, <2>1 DEF Tiling
  <2>2. CASE c \in B /\ d \in B
    BY <1>3, <2>2
  <2> QED
    BY <1>2, <1>3, <2>1, <2>2
<1>4. ASSUME NEW x \in 0 .. n - 1 PROVE \E c \in R : Contains(c, x)
  <2>1. PICK c \in S : Contains(c, x)
    BY DEF Tiling
  <2>2. CASE c \in A
    <3>1. PICK d \in B : Contains(d, x)
      BY <2>1, <2>2
    <3> QED
      BY <3>1
  <2> QED
    BY <2>1, <2>2
<1> QED
  BY <1>1, <1>3, <1>4 DEF Tiling

LEMMA HalvesContain ==
  ASSUME NEW m \in Nat, NEW x \in Nat, NEW b \in Nat, NEW o \in Order, o + 1 \in Order, Halves(m, x, b, o)
  PROVE  /\ \A y \in Nat : Contains(<<m, o + 1>>, y) <=> Contains(<<x, o>>, y) \/ Contains(<<b, o>>, y)
         /\ \A y \in Nat : ~ (Contains(<<x, o>>, y) /\ Contains(<<b, o>>, y))
<1>1. PICK s \in Nat : s = Size[o] /\ s > 0 /\ Size[o + 1] = 2 * s
  BY SizeNat, SizeIs
<1> QED
  BY <1>1 DEF Contains, Halves

LEMMA JoinOne ==
  ASSUME NEW n \in Nat, NEW S, Tiling(S, 0, n), NEW m \in Nat, NEW x \in Nat, NEW b \in Nat,
         NEW o \in Order, o < max_order(n), Halves(m, x, b, o), <<x, o>> \in S, <<b, o>> \in S
  PROVE  Tiling((S \ {<<x, o>>, <<b, o>>}) \cup {<<m, o + 1>>}, 0, n)
<1>1. o + 1 \in Order /\ o + 1 <= max_order(n) /\ Size[o + 1] = 2 * Size[o]
  BY NextOrder
<1>2. Fits(<<m, o + 1>>, 0, n)
  <2>1. x + Size[o] <= n /\ b + Size[o] <= n
    BY DEF Tiling, Fits
  <2>2. m + Size[o + 1] <= n
    BY <1>1, <2>1, SizeNat DEF Halves
  <2> QED
    BY <1>1, <2>2 DEF Fits, Halves
<1>3. \A y \in Nat : Contains(<<m, o + 1>>, y) <=> Contains(<<x, o>>, y) \/ Contains(<<b, o>>, y)
  BY <1>1, HalvesContain
<1> DEFINE A == {<<x, o>>, <<b, o>>}
           B == {<<m, o + 1>>}
<1>4. \A y \in Nat : (\E c \in A : Contains(c, y)) <=> (\E c \in B : Contains(c, y))
  BY <1>3
<1>5. A \subseteq S /\ \A c \in B : Fits(c, 0, n)
  BY <1>2
<1>6. \A c, d \in B : c = d
  OBVIOUS
<1> HIDE DEF A, B
<1>7. Tiling((S \ A) \cup B, 0, n)
  BY <1>4, <1>5, <1>6, Exchange
<1> QED
  BY <1>7 DEF A, B

LEMMA SplitOne ==
  ASSUME NEW n \in Nat, NEW S, Tiling(S, 0, n), NEW x \in Nat, NEW o \in Order, o + 1 \in Order,
         <<x, o + 1>> \in S
  PROVE  Tiling((S \ {<<x, o + 1>>}) \cup {<<x, o>>, <<x + Size[o], o>>}, 0, n)
<1>1. PICK s \in Nat : s = Size[o] /\ s > 0 /\ Size[o + 1] = 2 * s
  BY SizeNat, SizeIs
<1>0. PICK b \in Nat : b = x + s
  BY <1>1
<1>2. Fits(<<x, o + 1>>, 0, n)
  BY DEF Tiling
<1>3. Aligned(x, o) /\ Aligned(b, o)
  BY <1>0, <1>1, <1>2, AlignedDown, AlignedPlus, OrderNat DEF Fits
<1>4. Halves(x, x, b, o)
  BY <1>0, <1>1, <1>2 DEF Fits, Halves
<1>a. /\ \A y \in Nat : Contains(<<x, o + 1>>, y) <=> Contains(<<x, o>>, y) \/ Contains(<<b, o>>, y)
      /\ \A y \in Nat : ~ (Contains(<<x, o>>, y) /\ Contains(<<b, o>>, y))
  BY <1>0, <1>1 DEF Contains
<1>5. Fits(<<x, o>>, 0, n) /\ Fits(<<b, o>>, 0, n)
  BY <1>0, <1>1, <1>2, <1>3, OrderNat, MaxOrderIs DEF Fits
<1>6. \A y \in Nat : Contains(<<x, o + 1>>, y) <=> Contains(<<x, o>>, y) \/ Contains(<<b, o>>, y)
  BY <1>a
<1>7. \A y \in Nat : ~ (Contains(<<x, o>>, y) /\ Contains(<<b, o>>, y))
  BY <1>a
<1> DEFINE A == {<<x, o + 1>>}
           B == {<<x, o>>, <<b, o>>}
<1>8. \A y \in Nat : (\E c \in A : Contains(c, y)) <=> (\E c \in B : Contains(c, y))
  BY <1>6
<1>9. A \subseteq S /\ \A c \in B : Fits(c, 0, n)
  BY <1>5
<1>10. \A c, d \in B : \A y \in Nat : Contains(c, y) /\ Contains(d, y) => c = d
  BY <1>7
<1> HIDE DEF A, B
<1>11. Tiling((S \ A) \cup B, 0, n)
  BY <1>8, <1>9, <1>10, Exchange
<1> QED
  BY <1>0, <1>1, <1>11 DEF A, B
-----------------------------------------------------------------------------
(* Lists without repetition.                                               *)
Distinct(s) == \A j, k \in DOMAIN s : s[j] = s[k] => j = k

LEMMA ElemsNat == ASSUME NEW s \in Seq(Nat) PROVE Elems(s) \subseteq Nat
BY DEF Elems

LEMMA ElemsNone == Elems(<<>>) = {} /\ Distinct(<<>>) /\ <<>> \in Seq(Nat)
BY DEF Elems, Distinct

LEMMA NoElems == ASSUME NEW s \in Seq(Nat), s # <<>> PROVE Head(s) \in Elems(s) /\ Head(s) \in Nat
<1>1. 1 \in DOMAIN s /\ Head(s) = s[1]
  OBVIOUS
<1> QED
  BY <1>1 DEF Elems

LEMMA ElemsAppend ==
  ASSUME NEW s \in Seq(Nat), NEW x \in Nat
  PROVE  /\ Append(s, x) \in Seq(Nat) /\ Elems(Append(s, x)) = Elems(s) \cup {x}
         /\ Distinct(s) /\ x \notin Elems(s) => Distinct(Append(s, x))
<1> DEFINE a == Append(s, x)
<1>1. /\ a \in Seq(Nat) /\ DOMAIN a = 1 .. Len(s) + 1 /\ DOMAIN s = 1 .. Len(s) /\ Len(s) \in Nat
      /\ a[Len(s) + 1] = x /\ \A k \in DOMAIN s : a[k] = s[k]
  OBVIOUS
<1> HIDE DEF a
<1>2. Elems(a) = Elems(s) \cup {x}
  <2>1. ASSUME NEW y \in Elems(a) PROVE y \in Elems(s) \cup {x}
    <3>1. PICK k \in DOMAIN a : y = a[k]
      BY DEF Elems
    <3>2. k = Len(s) + 1 \/ k \in DOMAIN s
      BY <1>1
    <3> QED
      BY <1>1, <3>1, <3>2 DEF Elems
  <2>2. ASSUME NEW y \in Elems(s) PROVE y \in Elems(a)
    <3>1. PICK k \in DOMAIN s : y = s[k]
      BY DEF Elems
    <3>2. k \in DOMAIN a /\ a[k] = y
      BY <1>1, <3>1
    <3> QED
      BY <3>2 DEF Elems
  <2>3. x \in Elems(a)
    BY <1>1 DEF Elems
  <2> QED
    BY <2>1, <2>2, <2>3
<1>3. ASSUME Distinct(s), x \notin Elems(s) PROVE Distinct(a)
  <2>1. \A k \in DOMAIN s : s[k] # x
    BY <1>3 DEF Elems
  <2>2. \A k \in DOMAIN a : k = Len(s) + 1 \/ k \in DOMAIN s
    BY <1>1
  <2> QED
    BY <1>1, <1>3, <2>1, <2>2 DEF Distinct
<1> QED
  BY <1>1, <1>2, <1>3 DEF a

LEMMA ElemsPush ==
  ASSUME NEW s \in Seq(Nat), NEW x \in Nat
  PROVE  /\ <<x>> \o s \in Seq(Nat) /\ Elems(<<x>> \o s) = Elems(s) \cup {x}
         /\ Distinct(s) /\ x \notin Elems(s) => Distinct(<<x>> \o s)
<1> DEFINE a == <<x>> \o s
<1>1. /\ a \in Seq(Nat) /\ DOMAIN a = 1 .. Len(s) + 1 /\ DOMAIN s = 1 .. Len(s) /\ Len(s) \in Nat
      /\ a[1] = x /\ \A k \in 2 .. Len(s) + 1 : a[k] = s[k - 1]
  OBVIOUS
<1> HIDE DEF a
<1>2. \A k \in DOMAIN a : k = 1 \/ (k \in 2 .. Len(s) + 1 /\ k - 1 \in DOMAIN s)
  BY <1>1
<1>3. \A k \in DOMAIN s : k + 1 \in 2 .. Len(s) + 1 /\ k + 1 \in DOMAIN a /\ (k + 1) - 1 = k
  BY <1>1
<1>4. Elems(a) = Elems(s) \cup {x}
  <2>1. ASSUME NEW y \in Elems(a) PROVE y \in Elems(s) \cup {x}
    <3>1. PICK k \in DOMAIN a : y = a[k]
      BY DEF Elems
    <3> QED
      BY <1>1, <1>2, <3>1 DEF Elems
  <2>2. ASSUME NEW y \in Elems(s) PROVE y \in Elems(a)
    <3>1. PICK k \in DOMAIN s : y = s[k]
      BY DEF Elems
    <3>2. k + 1 \in DOMAIN a /\ a[k + 1] = y
      BY <1>1, <1>3, <3>1
    <3> QED
      BY <3>2 DEF Elems
  <2>3. 1 \in DOMAIN a
    BY <1>1
  <2>4. x \in Elems(a)
    BY <1>1, <2>3 DEF Elems
  <2> QED
    BY <2>1, <2>2, <2>4
<1>5. ASSUME Distinct(s), x \notin Elems(s) PROVE Distinct(a)
  <2>1. \A k \in DOMAIN s : s[k] # x
    BY <1>5 DEF Elems
  <2>2. ASSUME NEW j \in DOMAIN a, NEW k \in DOMAIN a, a[j] = a[k] PROVE j = k
    <3>1. CASE j = 1 \/ k = 1
      BY <1>1, <1>2, <2>1, <2>2, <3>1
    <3>2. CASE j # 1 /\ k # 1
      <4>1. j - 1 \in DOMAIN s /\ k - 1 \in DOMAIN s /\ s[j - 1] = s[k - 1]
        BY <1>1, <1>2, <2>2, <3>2
      <4>2. j - 1 = k - 1
        BY <1>5, <4>1 DEF Distinct
      <4> QED
        BY <1>1, <4>2
    <3> QED
      BY <3>1, <3>2
  <2> QED
    BY <2>2 DEF Distinct
<1> QED
  BY <1>1, <1>4, <1>5 DEF a

LEMMA ElemsTail ==
  ASSUME NEW s \in Seq(Nat), s # <<>>, Distinct(s)
  PROVE  /\ Tail(s) \in Seq(Nat) /\ Elems(Tail(s)) = Elems(s) \ {Head(s)} /\ Distinct(Tail(s))
<1> DEFINE a == Tail(s)
<1>1. /\ a \in Seq(Nat) /\ DOMAIN a = 1 .. Len(s) - 1 /\ DOMAIN s = 1 .. Len(s) /\ Len(s) \in Nat /\ Len(s) > 0
      /\ Head(s) = s[1] /\ \A k \in 1 .. Len(s) - 1 : a[k] = s[k + 1]
  OBVIOUS
<1> HIDE DEF a
<1>2. \A k \in DOMAIN a : k + 1 \in DOMAIN s /\ k + 1 # 1 /\ a[k] = s[k + 1]
  BY <1>1
<1>3. \A k \in DOMAIN s : k = 1 \/ (k - 1 \in DOMAIN a /\ a[k - 1] = s[k])
  BY <1>1
<1>4. 1 \in DOMAIN s
  BY <1>1
<1>5. Elems(a) = Elems(s) \ {Head(s)}
  <2>1. ASSUME NEW y \in Elems(a) PROVE y \in Elems(s) \ {Head(s)}
    <3>1. PICK k \in DOMAIN a : y = a[k]
      BY DEF Elems
    <3>2. k + 1 \in DOMAIN s /\ y = s[k + 1] /\ s[k + 1] # s[1]
      BY <1>2, <1>4, <3>1 DEF Distinct
    <3> QED
      BY <1>1, <3>2 DEF Elems
  <2>2. ASSUME NEW y \in Elems(s), y # Head(s) PROVE y \in Elems(a)
    <3>1. PICK k \in DOMAIN s : y = s[k]
      BY DEF Elems
    <3>2. k - 1 \in DOMAIN a /\ a[k - 1] = y
      BY <1>1, <1>3, <2>2, <3>1
    <3> QED
      BY <3>2 DEF Elems
  <2> QED
    BY <2>1, <2>2
<1>6. ASSUME NEW j \in DOMAIN a, NEW k \in DOMAIN a, a[j] = a[k] PROVE j = k
  <2>1. j + 1 = k + 1
    BY <1>2, <1>6 DEF Distinct
  <2> QED
    BY <1>1, <2>1
<1> QED
  BY <1>1, <1>5, <1>6 DEF a, Distinct

LEMMA ElemsWithout ==
  ASSUME NEW s \in Seq(Nat), NEW x \in Elems(s), Distinct(s)
  PROVE  Without(s, x) \in Seq(Nat) /\ Elems(Without(s, x)) = Elems(s) \ {x} /\ Distinct(Without(s, x))
<1>1. PICK n \in DOMAIN s : s[n] = x
  BY DEF Elems
<1>2. DOMAIN s = 1 .. Len(s) /\ Len(s) \in Nat /\ \A k \in DOMAIN s : s[k] \in Nat
  OBVIOUS
<1>3. n = CHOOSE k \in DOMAIN s : s[k] = x /\ \A j \in 1 .. k - 1 : s[j] # x
  <2>1. \A k \in DOMAIN s : s[k] = x => k = n
    BY <1>1 DEF Distinct
  <2>2. \A j \in 1 .. n - 1 : s[j] # x
    <3> TAKE j \in 1 .. n - 1
    <3>1. j \in DOMAIN s /\ j # n
      BY <1>2
    <3> QED
      BY <2>1, <3>1
  <2> QED
    BY <1>1, <2>1, <2>2
<1>4. PICK a : a = [k \in 1 .. Len(s) - 1 |-> IF k < n THEN s[k] ELSE s[k + 1]]
  OBVIOUS
<1>5. Without(s, x) = a
  BY <1>3, <1>4 DEF Without
<1>6. DOMAIN a = 1 .. Len(s) - 1 /\ \A k \in DOMAIN a : a[k] = IF k < n THEN s[k] ELSE s[k + 1]
  BY <1>4
<1>8. \A k \in DOMAIN a : \E j \in DOMAIN s : j # n /\ a[k] = s[j] /\ j = IF k < n THEN k ELSE k + 1
  BY <1>2, <1>6
<1>7. a \in Seq(Nat)
  <2>1. Len(s) - 1 \in Nat
    BY <1>2
  <2>2. \A k \in DOMAIN a : a[k] \in Nat
    BY <1>2, <1>8
  <2>3. a \in [1 .. Len(s) - 1 -> Nat]
    BY <1>4, <1>6, <2>2
  <2> QED
    BY <2>1, <2>3
<1>9. \A k \in DOMAIN s : k # n => \E j \in DOMAIN a : a[j] = s[k]
  <2> TAKE k \in DOMAIN s
  <2> HAVE k # n
  <2>1. CASE k < n
    BY <1>2, <1>6, <2>1
  <2>2. CASE k > n
    <3>1. k - 1 \in DOMAIN a /\ ~ (k - 1 < n) /\ (k - 1) + 1 = k
      BY <1>2, <1>6, <2>2
    <3> QED
      BY <1>6, <3>1
  <2> QED
    BY <1>2, <2>1, <2>2
<1>10. Elems(a) = Elems(s) \ {x}
  <2>1. ASSUME NEW y \in Elems(a) PROVE y \in Elems(s) \ {x}
    <3>1. PICK k \in DOMAIN a : y = a[k]
      BY DEF Elems
    <3>2. PICK j \in DOMAIN s : j # n /\ y = s[j]
      BY <1>8, <3>1
    <3> QED
      BY <1>1, <3>2 DEF Elems, Distinct
  <2>2. ASSUME NEW y \in Elems(s), y # x PROVE y \in Elems(a)
    BY <1>1, <1>9, <2>2 DEF Elems
  <2> QED
    BY <2>1, <2>2
<1>11. Distinct(a)
  <2> SUFFICES ASSUME NEW j \in DOMAIN a, NEW k \in DOMAIN a, a[j] = a[k] PROVE j = k
    BY DEF Distinct
  <2>1. PICK j1 \in DOMAIN s : a[j] = s[j1] /\ j1 = IF j < n THEN j ELSE j + 1
    BY <1>8
  <2>2. PICK k1 \in DOMAIN s : a[k] = s[k1] /\ k1 = IF k < n THEN k ELSE k + 1
    BY <1>8
  <2>3. j1 = k1
    BY <2>1, <2>2 DEF Distinct
  <2> QED
    BY <1>2, <1>6, <2>1, <2>2, <2>3
<1> QED
  BY <1>5, <1>7, <1>10, <1>11
-----------------------------------------------------------------------------
(* zone_build() cuts off the largest block that fits. *)
LEMMA FitIs ==
  ASSUME NEW n \in Nat, NEW idx \in 0 .. n - 1
  PROVE  LET o == largest_order_fit(idx, n, max_order(n))
         IN  /\ o \in Order /\ Fits(<<idx, o>>, idx, n)
             /\ \A p \in Order : Fits(<<idx, p>>, idx, n) => p <= o
<1> DEFINE M == max_order(n)
           U == {o \in 0 .. M : \A j \in 1 .. o : Size[j] <= n - idx}
           up == Largest(U)
           D == {o \in 0 .. up : o = 0 \/ idx % Size[o] = 0}
           o == largest_order_fit(idx, n, M)
<1>1. M \in Order /\ M \in Nat /\ idx \in Nat /\ n - idx \in Nat /\ n - idx >= 1
  BY MaxOrderIs, OrderNat
<1>2. o = Largest(D)
  BY DEF largest_order_fit
<1>3. 0 \in U /\ U \subseteq 0 .. M
  BY <1>1
<1>4. \A p \in Order : p <= M /\ Size[p] <= n - idx => p \in U
  <2> TAKE p \in Order
  <2> HAVE p <= M /\ Size[p] <= n - idx
  <2>1. ASSUME NEW j \in 1 .. p PROVE Size[j] <= n - idx
    <3>1. j \in Order /\ j <= p
      BY OrderNat DEF Order
    <3>2. Size[j] <= Size[p] /\ Size[j] \in Nat /\ Size[p] \in Nat
      BY <3>1, SizeGrows, SizeNat
    <3> QED
      BY <1>1, <3>2
  <2>2. p \in 0 .. M
    BY <1>1, OrderNat
  <2> QED
    BY <2>1, <2>2
<1>5. \A p \in U : Size[p] <= n - idx
  <2> TAKE p \in U
  <2>1. CASE p = 0
    BY <1>1, <2>1, SizeIs
  <2>2. CASE p # 0
    <3>1. p \in 1 .. p
      BY <1>1, <2>2
    <3> QED
      BY <3>1
  <2> QED
    BY <2>1, <2>2
<1> HIDE DEF M, U
<1>6. up \in U /\ \A p \in U : p <= up
  BY <1>1, <1>3, LargestIs
<1>7. up \in 0 .. M
  BY <1>3, <1>6
<1>8. \A p \in 0 .. up : p \in Order /\ p <= M /\ Size[p] <= n - idx
  <2> TAKE p \in 0 .. up
  <2>1. p \in Order /\ up \in Order /\ p <= up /\ p <= M
    BY <1>1, <1>7, OrderNat DEF Order
  <2>2. Size[p] <= Size[up] /\ Size[up] <= n - idx /\ Size[p] \in Nat /\ Size[up] \in Nat
    BY <1>5, <1>6, <2>1, SizeGrows, SizeNat
  <2> QED
    BY <1>1, <2>1, <2>2
<1> HIDE DEF up
<1>9. 0 \in D /\ D \subseteq 0 .. up /\ up \in Nat
  BY <1>1, <1>7
<1>10. \A p \in D : Aligned(idx, p)
  <2> TAKE p \in D
  <2>1. CASE p = 0
    <3>1. idx = idx * Size[0]
      BY <1>1, SizeIs
    <3> QED
      BY <1>1, <2>1, <3>1 DEF Aligned
  <2>2. CASE p # 0
    BY <1>1, <1>8, <2>2, AlignedMod
  <2> QED
    BY <2>1, <2>2
<1>11. \A p \in 0 .. up : Aligned(idx, p) => p \in D
  BY <1>1, <1>8, AlignedMod
<1> HIDE DEF D
<1>12. o \in D /\ \A p \in D : p <= o
  BY <1>2, <1>9, LargestIs
<1> HIDE DEF o
<1>13. o \in Order /\ o <= M /\ Size[o] <= n - idx /\ Aligned(idx, o)
  BY <1>8, <1>9, <1>10, <1>12
<1>14. Fits(<<idx, o>>, idx, n)
  <2>1. idx + Size[o] <= n /\ idx <= idx
    BY <1>1, <1>13, SizeNat
  <2> QED
    BY <1>1, <1>13, <2>1 DEF Fits, M
<1>15. ASSUME NEW p \in Order, Fits(<<idx, p>>, idx, n) PROVE p <= o
  <2>1. p <= M /\ Aligned(idx, p) /\ idx + Size[p] <= n
    BY <1>15 DEF Fits, M
  <2>2. p \in U
    BY <1>1, <1>4, <2>1, SizeNat
  <2>3. p \in 0 .. up
    BY <1>6, <1>7, <2>2, OrderNat, <1>1
  <2> QED
    BY <1>11, <1>12, <2>1, <2>3
<1> QED
  BY <1>13, <1>14, <1>15 DEF o, M

Lists == [Order -> Seq(Nat)]
NoList == [o \in 0 .. MAX_ORDER |-> <<>>]
Fit(idx, n) == largest_order_fit(idx, n, max_order(n))

(* What zone_build() has pushed once it is at page idx. *)
Pushed(f, idx, n) ==
  f[idx] = IF idx = n THEN NoList
           ELSE [f[idx + Size[Fit(idx, n)]] EXCEPT ![Fit(idx, n)] = Append(@, idx)]

LEMMA BuildIs ==
  ASSUME NEW n \in Nat
  PROVE  \E f : /\ f \in [0 .. n -> Lists] /\ zone_build(n) = f[0]
                /\ \A idx \in 0 .. n : Pushed(f, idx, n)
<1> DEFINE F(f) == [idx \in 0 .. n |->
                      IF idx = n THEN NoList
                      ELSE [f[idx + Size[Fit(idx, n)]] EXCEPT ![Fit(idx, n)] = Append(@, idx)]]
           Is(f, m) == f \in [n - m .. n -> Lists] /\ \A idx \in n - m .. n : Pushed(f, idx, n)
           Bad == {m \in 0 .. n : \A f : ~ Is(f, m)}
<1>1. \A idx \in 0 .. n - 1 : /\ Fit(idx, n) \in Order /\ Size[Fit(idx, n)] \in Nat
                             /\ Size[Fit(idx, n)] > 0 /\ idx + Size[Fit(idx, n)] <= n
  BY FitIs, SizeNat DEF Fit, Fits
<1>2. NoList \in Lists
  BY ElemsNone DEF NoList, Lists, Order
<1>3. Bad = {}
  <2>1. SUFFICES ASSUME Bad # {} PROVE FALSE
    OBVIOUS
  <2>2. PICK m \in Bad : \A k \in Bad : m <= k
    <3>1. Bad \subseteq Nat
      OBVIOUS
    <3> HIDE DEF Bad
    <3> QED
      BY <2>1, <3>1, LeastOf
  <2>3. m \in 0 .. n
    OBVIOUS
  <2>4. CASE m = 0
    <3> DEFINE f == [idx \in n .. n |-> NoList]
    <3>1. f \in [n - m .. n -> Lists] /\ \A idx \in n - m .. n : idx = n /\ f[idx] = NoList
      BY <1>2, <2>4
    <3> HIDE DEF f
    <3>2. Is(f, m)
      BY <3>1 DEF Pushed
    <3> QED
      BY <2>2, <3>2
  <2>5. CASE m > 0
    <3>1. m - 1 \in 0 .. n /\ n - (m - 1) = (n - m) + 1 /\ n - m \in 0 .. n - 1
      BY <2>3, <2>5
    <3>2. m - 1 \notin Bad
      <4> HIDE DEF Bad
      <4> QED
        BY <2>2, <2>3, <3>1
    <3>3. PICK f : Is(f, m - 1)
      BY <3>1, <3>2
    <3> DEFINE i0 == n - m
               o0 == Fit(i0, n)
               v == [f[i0 + Size[o0]] EXCEPT ![o0] = Append(@, i0)]
               h == [idx \in i0 .. n |-> IF idx = i0 THEN v ELSE f[idx]]
    <3>4. o0 \in Order /\ i0 + Size[o0] \in i0 + 1 .. n /\ i0 \in Nat /\ i0 # n
      BY <1>1, <3>1
    <3>5. f \in [i0 + 1 .. n -> Lists]
      BY <3>1, <3>3
    <3>6. f[i0 + Size[o0]] \in Lists
      BY <3>4, <3>5
    <3>7. v \in Lists
      <4> HIDE DEF o0, i0
      <4>1. PICK L \in Lists : L = f[i0 + Size[o0]]
        BY <3>6
      <4>2. Append(L[o0], i0) \in Seq(Nat)
        BY <3>4 DEF Lists
      <4> QED
        BY <3>4, <4>1, <4>2 DEF Lists
    <3>8. \A idx \in i0 .. n : idx = i0 \/ idx \in i0 + 1 .. n
      BY <3>4
    <3> HIDE DEF v
    <3>9. h \in [i0 .. n -> Lists] /\ h[i0] = v /\ \A idx \in i0 + 1 .. n : h[idx] = f[idx]
      BY <3>1, <3>4, <3>5, <3>7, <3>8
    <3> HIDE DEF h
    <3>10. Pushed(h, i0, n)
      BY <3>4, <3>9 DEF v, Pushed
    <3>11. ASSUME NEW idx \in i0 + 1 .. n PROVE Pushed(h, idx, n)
      <4>1. Pushed(f, idx, n) /\ h[idx] = f[idx]
        BY <3>1, <3>3, <3>9
      <4>2. CASE idx = n
        BY <4>1, <4>2 DEF Pushed
      <4>3. CASE idx # n
        <5>1. idx + Size[Fit(idx, n)] \in i0 + 1 .. n
          <6>1. idx \in 0 .. n - 1
            BY <3>4, <4>3
          <6> QED
            BY <1>1, <3>4, <6>1
        <5> QED
          BY <3>9, <4>1, <4>3, <5>1 DEF Pushed
      <4> QED
        BY <4>2, <4>3
    <3>12. Is(h, m)
      BY <3>8, <3>9, <3>10, <3>11
    <3> QED
      BY <2>2, <3>12
  <2> QED
    BY <2>3, <2>4, <2>5
<1>4. PICK f : Is(f, n)
  <2>1. n \notin Bad
    BY <1>3
  <2> QED
    BY <2>1
<1>5. f \in [0 .. n -> Lists] /\ f = F(f)
  <2>1. f \in [0 .. n -> Lists] /\ \A idx \in 0 .. n : Pushed(f, idx, n)
    BY <1>4
  <2> QED
    BY <2>1 DEF Pushed
<1>6. PICK g : g = (CHOOSE h : h = F(h))
  OBVIOUS
<1>7. zone_build(n) = g[0] /\ g = F(g)
  BY <1>5, <1>6 DEF zone_build, NoList, Fit
<1>8. \A idx \in 0 .. n : Pushed(f, idx, n) /\ Pushed(g, idx, n)
  BY <1>5, <1>7 DEF Pushed
<1> DEFINE Differ == {m \in 0 .. n : g[n - m] # f[n - m]}
<1>9. Differ = {}
  <2>1. SUFFICES ASSUME Differ # {} PROVE FALSE
    OBVIOUS
  <2>2. PICK m \in Differ : \A k \in Differ : m <= k
    <3>1. Differ \subseteq Nat
      OBVIOUS
    <3> HIDE DEF Differ
    <3> QED
      BY <2>1, <3>1, LeastOf
  <2>3. PICK idx \in 0 .. n : idx = n - m /\ m = n - idx /\ m \in 0 .. n
    OBVIOUS
  <2>4. g[idx] # f[idx]
    BY <2>3
  <2>5. CASE idx = n
    BY <1>8, <2>4, <2>5 DEF Pushed
  <2>6. CASE idx # n
    <3>1. idx \in 0 .. n - 1
      BY <2>6
    <3>2. PICK j \in 0 .. n : j = idx + Size[Fit(idx, n)] /\ j > idx
      BY <1>1, <3>1
    <3>3. n - j \in 0 .. n /\ n - j < m /\ n - (n - j) = j
      BY <2>3, <3>2
    <3>4. n - j \notin Differ
      <4> HIDE DEF Differ
      <4> QED
        BY <2>2, <2>3, <3>3
    <3>5. g[j] = f[j]
      BY <3>3, <3>4
    <3>6. f[idx] = [f[j] EXCEPT ![Fit(idx, n)] = Append(@, idx)]
      BY <1>8, <2>6, <3>2 DEF Pushed
    <3>7. g[idx] = [g[j] EXCEPT ![Fit(idx, n)] = Append(@, idx)]
      BY <1>8, <2>6, <3>2 DEF Pushed
    <3> QED
      BY <2>4, <3>5, <3>6, <3>7
  <2> QED
    BY <2>5, <2>6
<1>10. \A idx \in 0 .. n : g[idx] = f[idx]
  <2> TAKE idx \in 0 .. n
  <2>1. n - idx \in 0 .. n /\ n - (n - idx) = idx
    OBVIOUS
  <2> QED
    BY <1>9, <2>1
<1>11. zone_build(n) = f[0]
  <2>1. 0 \in 0 .. n
    OBVIOUS
  <2> QED
    BY <1>7, <1>10, <2>1
<1> QED
  BY <1>5, <1>8, <1>11

Cells(L) == {c \in Nat \X Order : c[1] \in Elems(L[c[2]])}

(* What zone_build() builds: the blocks, each as large as it fits. *)
BuiltWell(L, lo, n) ==
  /\ Tiling(Cells(L), lo, n)
  /\ \A c \in Cells(L) : c[2] = Fit(c[1], n)
  /\ \A o \in Order : Distinct(L[o])

LEMMA CellsPush ==
  ASSUME NEW L \in Lists, NEW o \in Order, NEW p \in Nat, NEW l,
         Elems(l) = Elems(L[o]) \cup {p}
  PROVE  Cells([L EXCEPT ![o] = l]) = Cells(L) \cup {<<p, o>>}
<1> DEFINE K == [L EXCEPT ![o] = l]
<1>1. \A k \in Order : Elems(K[k]) = IF k = o THEN Elems(L[o]) \cup {p} ELSE Elems(L[k])
  BY DEF Lists
<1> HIDE DEF K
<1> QED
  BY <1>1 DEF Cells, K

LEMMA ZoneBuilt ==
  ASSUME NEW n \in Nat
  PROVE  zone_build(n) \in Lists /\ BuiltWell(zone_build(n), 0, n)
<1>1. PICK f : /\ f \in [0 .. n -> Lists] /\ zone_build(n) = f[0]
               /\ \A idx \in 0 .. n : Pushed(f, idx, n)
  BY BuildIs
<1> DEFINE Bad == {m \in 0 .. n : ~ BuiltWell(f[n - m], n - m, n)}
<1>2. Bad = {}
  <2>1. SUFFICES ASSUME Bad # {} PROVE FALSE
    OBVIOUS
  <2>2. PICK m \in Bad : \A k \in Bad : m <= k
    <3>1. Bad \subseteq Nat
      OBVIOUS
    <3> HIDE DEF Bad
    <3> QED
      BY <2>1, <3>1, LeastOf
  <2>3. PICK idx \in 0 .. n : idx = n - m /\ m = n - idx /\ m \in 0 .. n
    OBVIOUS
  <2>4. ~ BuiltWell(f[idx], idx, n)
    BY <2>3
  <2>5. CASE idx = n
    <3>1. f[idx] = NoList
      BY <1>1, <2>5 DEF Pushed
    <3>2. \A o \in Order : NoList[o] = <<>>
      BY DEF NoList, Order
    <3>3. Cells(NoList) = {}
      BY <3>2, ElemsNone DEF Cells
    <3> QED
      BY <2>4, <2>5, <3>1, <3>2, <3>3, ElemsNone DEF BuiltWell, Tiling
  <2>6. CASE idx # n
    <3>1. idx \in 0 .. n - 1 /\ idx \in Nat
      BY <2>6
    <3>2. PICK o \in Order : o = Fit(idx, n) /\ Fits(<<idx, o>>, idx, n)
      BY <3>1, FitIs DEF Fit
    <3>3. PICK j \in 0 .. n : j = idx + Size[o] /\ j > idx
      BY <3>1, <3>2, SizeNat DEF Fits
    <3>4. n - j \in 0 .. n /\ n - j < m /\ n - (n - j) = j
      BY <2>3, <3>3
    <3>5. n - j \notin Bad
      <4> HIDE DEF Bad
      <4> QED
        BY <2>2, <2>3, <3>4
    <3>6. BuiltWell(f[j], j, n)
      BY <3>4, <3>5
    <3>7. PICK L \in Lists : L = f[j]
      BY <1>1
    <3>8. f[idx] = [L EXCEPT ![o] = Append(L[o], idx)]
      BY <1>1, <2>6, <3>2, <3>3, <3>7 DEF Pushed
    <3>9. L[o] \in Seq(Nat)
      BY DEF Lists
    <3>10. Elems(Append(L[o], idx)) = Elems(L[o]) \cup {idx}
      BY <3>1, <3>9, ElemsAppend
    <3>11. Cells(f[idx]) = Cells(L) \cup {<<idx, o>>}
      <4>1. PICK l : l = Append(L[o], idx)
        OBVIOUS
      <4>2. Cells([L EXCEPT ![o] = l]) = Cells(L) \cup {<<idx, o>>}
        BY <3>1, <3>10, <4>1, CellsPush
      <4> QED
        BY <3>8, <4>1, <4>2
    <3>12. \A c \in Cells(L) : c[1] >= j
      BY <3>6, <3>7 DEF BuiltWell, Tiling, Fits
    <3>13. \A x \in Nat : Contains(<<idx, o>>, x) <=> idx <= x /\ x < j
      BY <3>3 DEF Contains
    <3>14. Tiling(Cells(f[idx]), idx, n)
      <4>1. \A c \in Cells(f[idx]) : Fits(c, idx, n)
        <5>1. \A c \in Cells(L) : Fits(c, idx, n)
          BY <3>1, <3>3, <3>6, <3>7 DEF BuiltWell, Tiling, Fits
        <5> QED
          BY <3>2, <3>11, <5>1
      <4>2. \A c \in Cells(L) : \A x \in Nat : Contains(c, x) => ~ Contains(<<idx, o>>, x)
        BY <3>12, <3>13 DEF Contains, Cells
      <4>3. \A c, d \in Cells(f[idx]) : \A x \in Nat : Contains(c, x) /\ Contains(d, x) => c = d
        BY <3>6, <3>7, <3>11, <4>2 DEF BuiltWell, Tiling
      <4>4. \A x \in idx .. n - 1 : \E c \in Cells(f[idx]) : Contains(c, x)
        <5> TAKE x \in idx .. n - 1
        <5>1. CASE x < j
          BY <3>1, <3>11, <3>13, <5>1
        <5>2. CASE ~ (x < j)
          <6>1. x \in j .. n - 1
            BY <3>1, <3>3, <5>2
          <6>2. PICK c \in Cells(L) : Contains(c, x)
            BY <3>6, <3>7, <6>1 DEF BuiltWell, Tiling
          <6> QED
            BY <3>11, <6>2
        <5> QED
          BY <5>1, <5>2
      <4> QED
        BY <4>1, <4>3, <4>4 DEF Tiling
    <3>15. \A c \in Cells(f[idx]) : c[2] = Fit(c[1], n)
      BY <3>2, <3>6, <3>7, <3>11 DEF BuiltWell
    <3>16. \A k \in Order : Distinct(f[idx][k])
      <4>1. idx \notin Elems(L[o])
        <5>1. <<idx, o>> \notin Cells(L)
          BY <3>1, <3>3, <3>12
        <5> QED
          BY <3>1, <5>1 DEF Cells
      <4>2. Distinct(Append(L[o], idx))
        BY <3>1, <3>6, <3>7, <3>9, <4>1, ElemsAppend DEF BuiltWell
      <4> QED
        BY <3>6, <3>7, <3>8, <4>2 DEF BuiltWell, Lists
    <3> QED
      BY <2>4, <3>14, <3>15, <3>16 DEF BuiltWell
  <2> QED
    BY <2>5, <2>6
<1>3. n \in 0 .. n /\ n - n = 0
  OBVIOUS
<1>4. BuiltWell(f[0], 0, n)
  BY <1>2, <1>3
<1>5. f[0] \in Lists
  BY <1>1
<1> QED
  BY <1>1, <1>4, <1>5

(* It builds no two buddies. *)
LEMMA BuiltNoBuddies ==
  ASSUME NEW n \in Nat, NEW L, BuiltWell(L, 0, n)
  PROVE  NoBuddies(Cells(L), n)
<1> SUFFICES ASSUME NEW c \in Cells(L), c[2] < max_order(n),
                    <<buddy_index(c[1], c[2]), c[2]>> \in Cells(L)
             PROVE  FALSE
  BY DEF NoBuddies
<1>1. PICK x \in Nat, o \in Order : c = <<x, o>>
  BY DEF Cells
<1>2. PICK b \in Nat : b = buddy_index(x, o) /\ <<b, o>> \in Cells(L)
  BY <1>1 DEF Cells
<1>3. o + 1 \in Order /\ o + 1 <= max_order(n) /\ Size[o + 1] = 2 * Size[o]
  BY <1>1, NextOrder
<1>4. Fits(<<x, o>>, 0, n) /\ Fits(<<b, o>>, 0, n)
  BY <1>1, <1>2 DEF BuiltWell, Tiling
<1>5. PICK m \in Nat : Halves(m, x, b, o)
  BY <1>1, <1>2, <1>3, <1>4, BuddyHalves DEF Fits
<1>6. <<m, o>> \in Cells(L) /\ m + 2 * Size[o] <= n /\ m \in 0 .. n - 1
  BY <1>1, <1>2, <1>4, <1>5, SizeNat DEF Halves, Fits
<1>7. Fits(<<m, o + 1>>, m, n)
  BY <1>3, <1>5, <1>6 DEF Fits, Halves
<1>8. o + 1 <= Fit(m, n)
  BY <1>3, <1>6, <1>7, FitIs DEF Fit
<1>9. Fit(m, n) = o
  BY <1>6 DEF BuiltWell
<1> QED
  BY <1>8, <1>9, OrderNat
-----------------------------------------------------------------------------
(* A zone of n pages with the lists L and the descriptors D, of which the  *)
(* kernel has the blocks H: the descriptors of first pages are true, and   *)
(* no two free blocks are buddies.                                         *)
PageDesc == [order : Order, used : BOOLEAN]

Described(L, D, H) ==
  /\ \A c \in Cells(L) : D[c[1]].order = c[2] /\ ~ D[c[1]].used
  /\ \A c \in H : D[c[1]].used

ZoneOK(L, D, H, n) ==
  /\ L \in Lists /\ D \in [0 .. n - 1 -> PageDesc] /\ H \subseteq Nat \X Order
  /\ Tiling(Cells(L) \cup H, 0, n) /\ Cells(L) \cap H = {}
  /\ \A o \in Order : Distinct(L[o])
  /\ Described(L, D, H)
  /\ NoBuddies(Cells(L), n)

LEMMA CellIs ==
  ASSUME NEW n \in Nat, NEW S, Tiling(S, 0, n), NEW c \in S
  PROVE  \E p \in Nat, o \in Order :
           /\ c = <<p, o>> /\ Contains(c, p) /\ p \in 0 .. n - 1 /\ Aligned(p, o)
           /\ o <= max_order(n) /\ p + Size[o] <= n
<1>1. PICK p \in Nat, o \in Order : c = <<p, o>>
  BY DEF Tiling, Fits
<1>2. Aligned(p, o) /\ o <= max_order(n) /\ p + Size[o] <= n
  BY <1>1 DEF Tiling, Fits
<1> QED
  BY <1>1, <1>2, ContainsFirst, SizeNat

LEMMA NewZoneOK ==
  ASSUME NEW n \in Nat
  PROVE  ZoneOK(zone_build(n),
                [p \in 0 .. n - 1 |-> [order |-> IF Built(n, p) = {} THEN 0 ELSE Largest(Built(n, p)),
                                       used |-> FALSE]],
                {}, n)
<1> DEFINE L == zone_build(n)
           D == [p \in 0 .. n - 1 |-> [order |-> IF Built(n, p) = {} THEN 0 ELSE Largest(Built(n, p)),
                                       used |-> FALSE]]
<1>1. L \in Lists /\ BuiltWell(L, 0, n)
  BY ZoneBuilt
<1>2. Tiling(Cells(L) \cup {}, 0, n) /\ \A o \in Order : Distinct(L[o])
  BY <1>1 DEF BuiltWell
<1>3. NoBuddies(Cells(L), n)
  BY <1>1, BuiltNoBuddies
<1>4. \A p : Built(n, p) \subseteq 0 .. MAX_ORDER
  BY DEF Built
<1>5. ASSUME NEW p \in 0 .. n - 1, Built(n, p) # {}
      PROVE  Largest(Built(n, p)) \in Built(n, p) /\ Largest(Built(n, p)) \in Order
  BY <1>4, <1>5, LargestIs, OrderNat DEF Order
<1>6. D \in [0 .. n - 1 -> PageDesc]
  <2>1. 0 \in Order
    BY OrderNat DEF Order
  <2>2. \A p \in 0 .. n - 1 : (IF Built(n, p) = {} THEN 0 ELSE Largest(Built(n, p))) \in Order
    BY <1>5, <2>1
  <2> QED
    BY <2>2 DEF PageDesc
<1>7. Described(L, D, {})
  <2> SUFFICES ASSUME NEW c \in Cells(L) PROVE D[c[1]].order = c[2] /\ ~ D[c[1]].used
    BY DEF Described
  <2>1. Tiling(Cells(L), 0, n)
    BY <1>1 DEF BuiltWell
  <2>2. PICK p \in Nat, o \in Order : c = <<p, o>> /\ Contains(c, p) /\ p \in 0 .. n - 1
    BY <2>1, CellIs
  <2>3. o \in Built(n, p)
    BY <2>2 DEF Built, Cells, Order
  <2>4. PICK k \in Order : k = Largest(Built(n, p)) /\ k \in Built(n, p)
    BY <1>5, <2>2, <2>3
  <2>5. <<p, k>> \in Cells(L)
    BY <2>2, <2>4 DEF Built, Cells
  <2>6. <<p, k>> = c
    BY <2>1, <2>2, <2>5, ContainsFirst DEF Tiling
  <2> QED
    BY <2>2, <2>3, <2>4, <2>6
<1> HIDE DEF L, D
<1>8. ZoneOK(L, D, {}, n)
  BY <1>1, <1>2, <1>3, <1>6, <1>7 DEF ZoneOK
<1> QED
  BY <1>8 DEF L, D
-----------------------------------------------------------------------------
(* What the split of a block of order h at page idx pushes. *)
Halved(idx, k, h) == {<<idx + Size[o], o>> : o \in k .. h - 1}

LEMMA HalvedFacts ==
  ASSUME NEW idx \in Nat, NEW k \in Order, NEW h \in Order
  PROVE  /\ Halved(idx, k, h) \subseteq Nat \X Order
         /\ \A c \in Halved(idx, k, h) :
              /\ c = <<idx + Size[c[2]], c[2]>> /\ c[2] \in k .. h - 1
              /\ idx < c[1] /\ Contains(<<idx, h>>, c[1])
<1>1. ASSUME NEW o \in k .. h - 1
      PROVE  o \in Order /\ o < h /\ Size[o] \in Nat /\ Size[o] > 0 /\ Size[o] < Size[h]
  <2>1. o \in Order /\ o < h
    BY OrderNat DEF Order
  <2>2. 2 * Size[o] <= Size[h]
    BY <2>1, SizeGrows
  <2> QED
    BY <2>1, <2>2, SizeNat
<1>2. ASSUME NEW o \in k .. h - 1 PROVE Contains(<<idx, h>>, idx + Size[o])
  BY <1>1, SizeNat DEF Contains
<1>3. ASSUME NEW c \in Halved(idx, k, h)
      PROVE  /\ c \in Nat \X Order /\ c = <<idx + Size[c[2]], c[2]>> /\ c[2] \in k .. h - 1
             /\ idx < c[1] /\ Contains(<<idx, h>>, c[1])
  <2>1. PICK o \in k .. h - 1 : c = <<idx + Size[o], o>>
    BY DEF Halved
  <2> QED
    BY <1>1, <1>2, <2>1
<1> QED
  BY <1>3

SplitTo(S, idx, k, h) == ((S \ {<<idx, h>>}) \cup {<<idx, k>>}) \cup Halved(idx, k, h)

LEMMA SplitTiling ==
  ASSUME NEW n \in Nat, NEW S, Tiling(S, 0, n), NEW idx \in Nat, NEW h \in Order, <<idx, h>> \in S,
         NEW order \in Order, order <= h
  PROVE  Tiling(SplitTo(S, idx, order, h), 0, n)
<1> DEFINE Bad == {m \in 0 .. h - order : ~ Tiling(SplitTo(S, idx, h - m, h), 0, n)}
<1>0. h \in Nat /\ order \in Nat /\ h - order \in Nat
  BY OrderNat
<1>1. Bad = {}
  <2>1. SUFFICES ASSUME Bad # {} PROVE FALSE
    OBVIOUS
  <2>2. PICK m \in Bad : \A j \in Bad : m <= j
    <3>1. Bad \subseteq Nat
      BY <1>0
    <3> HIDE DEF Bad
    <3> QED
      BY <2>1, <3>1, LeastOf
  <2>3. m \in 0 .. h - order /\ ~ Tiling(SplitTo(S, idx, h - m, h), 0, n)
    OBVIOUS
  <2>4. CASE m = 0
    <3>1. Halved(idx, h, h) = {} /\ h - m = h
      BY <1>0, <2>4 DEF Halved
    <3>2. SplitTo(S, idx, h - m, h) = S
      BY <3>1 DEF SplitTo
    <3> QED
      BY <2>3, <3>2
  <2>5. CASE m # 0
    <3>1. PICK k \in Order : k = h - m /\ k + 1 \in Order /\ k + 1 = h - (m - 1) /\ k < h /\ m - 1 \in 0 .. h - order
      BY <1>0, <2>3, <2>5, OrderNat DEF Order
    <3>2. m - 1 \notin Bad
      <4> HIDE DEF Bad
      <4> QED
        BY <2>2, <2>3, <3>1, <1>0
    <3>3. PICK T : T = SplitTo(S, idx, k + 1, h)
      OBVIOUS
    <3>4. Tiling(T, 0, n)
      BY <3>1, <3>2, <3>3
    <3>5. <<idx, k + 1>> \in T
      BY <3>3 DEF SplitTo
    <3>6. Tiling((T \ {<<idx, k + 1>>}) \cup {<<idx, k>>, <<idx + Size[k], k>>}, 0, n)
      BY <3>1, <3>4, <3>5, SplitOne
    <3>7. <<idx, k + 1>> \notin S \ {<<idx, h>>}
      <4>1. Contains(<<idx, k + 1>>, idx) /\ Contains(<<idx, h>>, idx)
        BY <3>1, ContainsFirst
      <4> QED
        BY <4>1 DEF Tiling
    <3>8. <<idx, k + 1>> \notin Halved(idx, k + 1, h)
      BY <3>1, HalvedFacts
    <3>9. Halved(idx, k, h) = Halved(idx, k + 1, h) \cup {<<idx + Size[k], k>>}
      <4>1. k .. h - 1 = ((k + 1) .. h - 1) \cup {k}
        BY <3>1, OrderNat
      <4> QED
        BY <4>1 DEF Halved
    <3>10. (T \ {<<idx, k + 1>>}) \cup {<<idx, k>>, <<idx + Size[k], k>>} = SplitTo(S, idx, k, h)
      BY <3>3, <3>7, <3>8, <3>9 DEF SplitTo
    <3> QED
      BY <2>3, <3>1, <3>6, <3>10
  <2> QED
    BY <2>4, <2>5
<1>2. h - order \in 0 .. h - order /\ h - (h - order) = order
  BY <1>0
<1> QED
  BY <1>1, <1>2

AllocLists(L, idx, order, h) ==
  [o \in 0 .. MAX_ORDER |->
     IF o = h THEN Tail(L[o])
     ELSE IF o \in order .. h - 1 THEN <<idx + Size[o]>> \o L[o]
     ELSE L[o]]

AllocDescs(D, idx, order, h, n) ==
  [p \in 0 .. n - 1 |->
     IF p = idx THEN [order |-> order, used |-> TRUE]
     ELSE IF \E o \in order .. h - 1 : p = idx + Size[o]
     THEN [order |-> CHOOSE o \in order .. h - 1 : p = idx + Size[o], used |-> FALSE]
     ELSE D[p]]

LEMMA AllocCells ==
  ASSUME NEW L \in Lists, NEW h \in Order, NEW order \in Order, order <= h, NEW idx \in Nat,
         L[h] # <<>>, idx = Head(L[h]), \A o \in Order : Distinct(L[o]),
         \A o \in order .. h - 1 : idx + Size[o] \notin Elems(L[o])
  PROVE  LET K == AllocLists(L, idx, order, h)
         IN  /\ K \in Lists /\ Cells(K) = (Cells(L) \ {<<idx, h>>}) \cup Halved(idx, order, h)
             /\ \A o \in Order : Distinct(K[o])
<1> DEFINE K == AllocLists(L, idx, order, h)
<1>1. \A o \in Order : L[o] \in Seq(Nat)
  BY DEF Lists
<1>2. \A o \in order .. h - 1 : o \in Order /\ o # h /\ idx + Size[o] \in Nat
  BY OrderNat, SizeNat DEF Order
<1>3. ASSUME NEW o \in Order
      PROVE  /\ K[o] \in Seq(Nat) /\ Distinct(K[o])
             /\ Elems(K[o]) = (IF o = h THEN Elems(L[o]) \ {idx}
                               ELSE IF o \in order .. h - 1 THEN Elems(L[o]) \cup {idx + Size[o]}
                               ELSE Elems(L[o]))
  <2>0. o \in 0 .. MAX_ORDER
    BY DEF Order
  <2>1. CASE o = h
    <3>1. K[o] = Tail(L[o])
      BY <2>0, <2>1 DEF AllocLists
    <3> QED
      BY <1>1, <2>1, <3>1, ElemsTail
  <2>2. CASE o # h /\ o \in order .. h - 1
    <3>1. PICK x \in Nat : x = idx + Size[o]
      BY <1>2, <2>2
    <3>2. K[o] = <<x>> \o L[o]
      BY <2>0, <2>2, <3>1 DEF AllocLists
    <3>3. x \notin Elems(L[o])
      BY <2>2, <3>1
    <3>4. PICK l \in Seq(Nat) : l = L[o] /\ Distinct(l)
      BY <1>1
    <3>5. <<x>> \o l \in Seq(Nat) /\ Elems(<<x>> \o l) = Elems(l) \cup {x} /\ Distinct(<<x>> \o l)
      BY <3>3, <3>4, ElemsPush
    <3> QED
      BY <2>2, <3>1, <3>2, <3>4, <3>5
  <2>3. CASE o # h /\ o \notin order .. h - 1
    <3>1. K[o] = L[o]
      BY <2>0, <2>3 DEF AllocLists
    <3> QED
      BY <1>1, <2>3, <3>1
  <2> QED
    BY <2>1, <2>2, <2>3
<1>4. K \in Lists
  <2>1. K = [o \in Order |-> K[o]]
    BY DEF AllocLists, Order
  <2> HIDE DEF K
  <2> QED
    BY <1>3, <2>1 DEF Lists
<1> HIDE DEF K
<1>5. Cells(K) = (Cells(L) \ {<<idx, h>>}) \cup Halved(idx, order, h)
  <2>1. ASSUME NEW p \in Nat, NEW o \in Order
        PROVE  <<p, o>> \in Cells(K) <=> <<p, o>> \in (Cells(L) \ {<<idx, h>>}) \cup Halved(idx, order, h)
    <3>1. <<p, o>> \in Cells(K) <=> p \in Elems(K[o])
      BY DEF Cells
    <3>2. <<p, o>> \in Cells(L) <=> p \in Elems(L[o])
      BY DEF Cells
    <3>3. <<p, o>> \in Halved(idx, order, h) <=> (o \in order .. h - 1 /\ p = idx + Size[o])
      BY DEF Halved
    <3>4. CASE o = h
      BY <1>2, <1>3, <3>1, <3>2, <3>3, <3>4
    <3>5. CASE o # h
      BY <1>3, <3>1, <3>2, <3>3, <3>5
    <3> QED
      BY <3>4, <3>5
  <2>2. Cells(K) \subseteq Nat \X Order /\ Cells(L) \subseteq Nat \X Order
    BY DEF Cells
  <2>3. Halved(idx, order, h) \subseteq Nat \X Order
    BY HalvedFacts
  <2> QED
    BY <2>1, <2>2, <2>3
<1> QED
  BY <1>3, <1>4, <1>5 DEF K

LEMMA AllocOK ==
  ASSUME NEW n \in Nat, NEW L, NEW D, NEW H, ZoneOK(L, D, H, n),
         NEW h \in Order, NEW order \in Order, order <= h,
         NEW idx \in Nat, L[h] # <<>>, idx = Head(L[h])
  PROVE  ZoneOK(AllocLists(L, idx, order, h), AllocDescs(D, idx, order, h, n),
                H \cup {<<idx, order>>}, n)
<1> DEFINE K == AllocLists(L, idx, order, h)
           E == AllocDescs(D, idx, order, h, n)
           S == Cells(L) \cup H
           R == Halved(idx, order, h)
<1>1. /\ L \in Lists /\ D \in [0 .. n - 1 -> PageDesc] /\ H \subseteq Nat \X Order
      /\ Tiling(S, 0, n) /\ Cells(L) \cap H = {}
      /\ \A o \in Order : Distinct(L[o])
      /\ NoBuddies(Cells(L), n)
  BY DEF ZoneOK
<1>1a. Described(L, D, H)
  BY DEF ZoneOK
<1>2. <<idx, h>> \in Cells(L)
  <2>1. L[h] \in Seq(Nat)
    BY <1>1 DEF Lists
  <2> QED
    BY <2>1, NoElems DEF Cells
<1>3. h <= max_order(n) /\ Aligned(idx, h) /\ idx + Size[h] <= n /\ idx \in 0 .. n - 1
  BY <1>1, <1>2, SizeNat DEF Tiling, Fits
(* A block of S with a page of the one that is split is that block.        *)
<1>4. \A c \in S : \A x \in Nat : Contains(<<idx, h>>, x) /\ Contains(c, x) => c = <<idx, h>>
  BY <1>1, <1>2 DEF Tiling
<1>5. \A c \in S : Contains(c, c[1]) /\ c[1] \in 0 .. n - 1 /\ c \in Nat \X Order
  <2> TAKE c \in S
  <2>1. PICK p \in Nat, o \in Order : c = <<p, o>> /\ Contains(c, p) /\ p \in 0 .. n - 1
    BY <1>1, CellIs
  <2> QED
    BY <2>1
<1>6. /\ R \subseteq Nat \X Order
      /\ \A c \in R : /\ c = <<idx + Size[c[2]], c[2]>> /\ c[2] \in order .. h - 1
                      /\ idx < c[1] /\ Contains(<<idx, h>>, c[1])
  BY HalvedFacts
<1>7. Contains(<<idx, h>>, idx)
  BY ContainsFirst
<1>8. R \cap S = {}
  <2> SUFFICES ASSUME NEW c \in R, c \in S PROVE FALSE
    OBVIOUS
  <2>1. c = <<idx, h>>
    BY <1>4, <1>5, <1>6
  <2> QED
    BY <1>6, <2>1
<1> HIDE DEF R, S
<1>9. \A o \in order .. h - 1 : idx + Size[o] \notin Elems(L[o])
  <2> SUFFICES ASSUME NEW o \in order .. h - 1, idx + Size[o] \in Elems(L[o]) PROVE FALSE
    OBVIOUS
  <2>1. o \in Order /\ idx + Size[o] \in Nat
    BY OrderNat, SizeNat DEF Order
  <2>2. <<idx + Size[o], o>> \in R
    BY DEF R, Halved
  <2>3. <<idx + Size[o], o>> \in S
    BY <2>1 DEF Cells, S
  <2> QED
    BY <1>8, <2>2, <2>3
<1>10. K \in Lists /\ Cells(K) = (Cells(L) \ {<<idx, h>>}) \cup R /\ \A o \in Order : Distinct(K[o])
  BY <1>1, <1>9, AllocCells DEF R
<1> HIDE DEF K
<1>11. Tiling(Cells(K) \cup (H \cup {<<idx, order>>}), 0, n)
  <2>1. Tiling(SplitTo(S, idx, order, h), 0, n)
    BY <1>1, <1>2, SplitTiling DEF S
  <2>2. <<idx, h>> \notin H
    BY <1>1, <1>2
  <2>3. SplitTo(S, idx, order, h) = Cells(K) \cup (H \cup {<<idx, order>>})
    BY <1>10, <2>2 DEF SplitTo, S, R
  <2> QED
    BY <2>1, <2>3
<1>12. \A c \in Cells(L) \ {<<idx, h>>} : ~ Contains(<<idx, h>>, c[1])
  BY <1>4, <1>5 DEF S
<1>13. \A c \in H : ~ Contains(<<idx, h>>, c[1])
  BY <1>1, <1>2, <1>4, <1>5 DEF S
<1>14. \A c \in Cells(K) : c[1] # idx
  BY <1>6, <1>7, <1>10, <1>12
<1>15. Cells(K) \cap (H \cup {<<idx, order>>}) = {}
  BY <1>1, <1>8, <1>10, <1>14 DEF S
<1>16. E \in [0 .. n - 1 -> PageDesc] /\ E[idx] = [order |-> order, used |-> TRUE]
  <2>1. \A o \in order .. h - 1 : o \in Order
    BY OrderNat DEF Order
  <2>2. ASSUME NEW p \in 0 .. n - 1
        PROVE  (IF p = idx THEN [order |-> order, used |-> TRUE]
                ELSE IF \E o \in order .. h - 1 : p = idx + Size[o]
                THEN [order |-> CHOOSE o \in order .. h - 1 : p = idx + Size[o], used |-> FALSE]
                ELSE D[p]) \in PageDesc
    <3>1. CASE p = idx
      BY <3>1 DEF PageDesc
    <3>2. CASE p # idx /\ \E o \in order .. h - 1 : p = idx + Size[o]
      <4>1. PICK o \in Order : o = CHOOSE k \in order .. h - 1 : p = idx + Size[k]
        BY <2>1, <3>2
      <4> QED
        BY <3>2, <4>1 DEF PageDesc
    <3>3. CASE p # idx /\ ~ \E o \in order .. h - 1 : p = idx + Size[o]
      BY <1>1, <3>3
    <3> QED
      BY <3>1, <3>2, <3>3
  <2> QED
    BY <1>3, <2>2 DEF AllocDescs
<1>17. ASSUME NEW c \in S, ~ Contains(<<idx, h>>, c[1]) PROVE E[c[1]] = D[c[1]]
  <2>1. c[1] # idx
    BY <1>7, <1>17
  <2>2. ASSUME NEW o \in order .. h - 1, c[1] = idx + Size[o] PROVE FALSE
    <3>1. <<idx + Size[o], o>> \in R
      BY DEF R, Halved
    <3> QED
      BY <1>6, <1>17, <2>2, <3>1
  <2> QED
    BY <1>5, <2>1, <2>2 DEF AllocDescs
<1>18. ASSUME NEW c \in R PROVE E[c[1]] = [order |-> c[2], used |-> FALSE]
  <2>1. c[1] = idx + Size[c[2]] /\ c[2] \in order .. h - 1 /\ c[1] # idx
    BY <1>6
  <2>2. c[1] \in 0 .. n - 1
    BY <1>3, <1>6, SizeNat DEF Contains
  <2>3. ASSUME NEW o \in order .. h - 1, c[1] = idx + Size[o] PROVE o = c[2]
    <3>1. o \in Order /\ c[2] \in Order
      BY <1>6, OrderNat DEF Order
    <3>2. PICK k \in Order : k = c[2]
      BY <3>1
    <3>3. PICK s \in Nat : s = Size[o] /\ s > 0
      BY <3>1, SizeNat
    <3>4. PICK r \in Nat : r = Size[k] /\ r > 0
      BY SizeNat
    <3>5. idx + s = idx + r
      BY <2>1, <2>3, <3>2, <3>3, <3>4
    <3>6. o < k => 2 * s <= r
      BY <3>1, <3>3, <3>4, SizeGrows
    <3>7. k < o => 2 * r <= s
      BY <3>1, <3>3, <3>4, SizeGrows
    <3>8. s = r
      BY <3>5
    <3>9. ~ (o < k) /\ ~ (k < o)
      BY <3>3, <3>6, <3>7, <3>8
    <3>10. o \in Nat /\ k \in Nat
      BY <3>1, OrderNat
    <3>11. o = k
      BY <3>9, <3>10
    <3> QED
      BY <3>2, <3>11
  <2>4. (CHOOSE o \in order .. h - 1 : c[1] = idx + Size[o]) = c[2]
    BY <2>1, <2>3
  <2> QED
    BY <2>1, <2>2, <2>4 DEF AllocDescs
<1> HIDE DEF E
<1>19. Described(K, E, H \cup {<<idx, order>>})
  <2>1. ASSUME NEW c \in Cells(K) PROVE E[c[1]].order = c[2] /\ ~ E[c[1]].used
    <3>1. CASE c \in R
      <4>1. E[c[1]] = [order |-> c[2], used |-> FALSE]
        BY <1>18, <3>1
      <4> QED
        BY <4>1
    <3>2. CASE c \notin R
      <4>1. c \in Cells(L) /\ c # <<idx, h>> /\ c \in S
        BY <1>10, <3>2 DEF S
      <4>2. E[c[1]] = D[c[1]]
        BY <1>12, <1>17, <4>1
      <4> QED
        BY <1>1a, <4>1, <4>2 DEF Described
    <3> QED
      BY <3>1, <3>2
  <2>2. ASSUME NEW c \in H PROVE E[c[1]].used
    <3>1. c \in S
      BY DEF S
    <3> QED
      BY <1>1a, <1>13, <1>17, <3>1 DEF Described
  <2> QED
    BY <1>16, <2>1, <2>2 DEF Described
<1>20. NoBuddies(Cells(K), n)
  <2> SUFFICES ASSUME NEW c \in Cells(K), c[2] < max_order(n),
                      <<buddy_index(c[1], c[2]), c[2]>> \in Cells(K)
               PROVE  FALSE
    BY DEF NoBuddies
  <2>1. Fits(c, 0, n)
    BY <1>11 DEF Tiling
  <2>2. PICK x \in Nat, o \in Order : c = <<x, o>> /\ Aligned(x, o)
    BY <2>1 DEF Fits
  <2>3. o + 1 \in Order
    BY <2>2, NextOrder
  <2>4. PICK b \in Nat : b = buddy_index(x, o) /\ buddy_index(b, o) = x /\ <<b, o>> \in Cells(K)
    BY <2>2, <2>3, BuddyTwice
  (* The buddy of a right half is at idx. *)
  <2>5. ASSUME NEW y \in Nat, <<y, o>> \in R PROVE buddy_index(y, o) = idx
    <3>1. y = idx + Size[o] /\ o + 1 <= h
      BY <1>6, <2>5, OrderNat
    <3>2. Aligned(idx, o + 1)
      BY <1>3, <2>3, <3>1, AlignedDown
    <3> QED
      BY <2>3, <3>1, <3>2, HalvesBuddy
  <2>6. CASE c \in R
    BY <1>14, <2>2, <2>4, <2>5, <2>6
  <2>7. CASE <<b, o>> \in R
    BY <1>14, <2>2, <2>4, <2>5, <2>7
  <2>8. CASE c \notin R /\ <<b, o>> \notin R
    <3>1. c \in Cells(L) /\ <<b, o>> \in Cells(L)
      BY <1>10, <2>4, <2>8
    <3> QED
      BY <1>1, <2>2, <2>4, <3>1 DEF NoBuddies
  <2> QED
    BY <2>6, <2>7, <2>8
<1>21. H \cup {<<idx, order>>} \subseteq Nat \X Order
  BY <1>1
<1>22. ZoneOK(K, E, H \cup {<<idx, order>>}, n)
  BY <1>10, <1>11, <1>15, <1>16, <1>19, <1>20, <1>21 DEF ZoneOK
<1> QED
  BY <1>22 DEF K, E
-----------------------------------------------------------------------------
(* Where the block that is freed begins once it is merged up to order k.   *)
Lower(x, o) == IF buddy_index(x, o) < x THEN buddy_index(x, o) ELSE x

MergeStep(f, idx, order, k) == f[k] = IF k = order THEN idx ELSE Lower(f[k - 1], k - 1)

LEMMA MergedExists ==
  ASSUME NEW idx \in Nat, NEW order \in Order
  PROVE  \A k \in order .. MAX_ORDER : MergeStep(MergedAt(idx, order), idx, order, k)
<1> DEFINE F(f) == [k \in order .. MAX_ORDER |->
                      IF k = order THEN idx
                      ELSE LET b == buddy_index(f[k - 1], k - 1)
                           IN  IF b < f[k - 1] THEN b ELSE f[k - 1]]
           Is(f, m) == f = [k \in order .. m |-> f[k]] /\ \A k \in order .. m : MergeStep(f, idx, order, k)
           Bad == {m \in order .. MAX_ORDER : \A f : ~ Is(f, m)}
<1>0. order \in Nat /\ MAX_ORDER \in Nat /\ order <= MAX_ORDER
  BY OrderNat DEF Order
<1>1. Bad = {}
  <2>1. SUFFICES ASSUME Bad # {} PROVE FALSE
    OBVIOUS
  <2>2. PICK m \in Bad : \A j \in Bad : m <= j
    <3>1. Bad \subseteq Nat
      BY <1>0
    <3> HIDE DEF Bad
    <3> QED
      BY <2>1, <3>1, LeastOf
  <2>3. m \in order .. MAX_ORDER
    OBVIOUS
  <2>4. CASE m = order
    <3> DEFINE f == [k \in order .. order |-> idx]
    <3>1. \A k \in order .. order : k = order /\ f[k] = idx
      BY <1>0
    <3>2. Is(f, m)
      BY <2>4, <3>1 DEF MergeStep
    <3> QED
      BY <2>2, <3>2
  <2>5. CASE m # order
    <3>1. m - 1 \in order .. MAX_ORDER /\ m - 1 < m /\ m \in Nat
      BY <1>0, <2>3, <2>5
    <3>2. m - 1 \notin Bad
      <4> HIDE DEF Bad
      <4> QED
        BY <2>2, <3>1
    <3>3. PICK f : Is(f, m - 1)
      BY <3>1, <3>2
    <3> DEFINE h == [k \in order .. m |-> IF k = m THEN Lower(f[m - 1], m - 1) ELSE f[k]]
    <3>4. /\ h = [k \in order .. m |-> h[k]] /\ h[m] = Lower(f[m - 1], m - 1)
          /\ \A k \in order .. m - 1 : h[k] = f[k]
      BY <1>0, <2>3, <3>1
    <3> HIDE DEF h
    <3>5. ASSUME NEW k \in order .. m PROVE MergeStep(h, idx, order, k)
      <4>1. CASE k = m
        <5>1. m - 1 \in order .. m - 1
          BY <1>0, <3>1
        <5> QED
          BY <2>5, <3>4, <4>1, <5>1 DEF MergeStep
      <4>2. CASE k # m
        <5>1. k \in order .. m - 1 /\ (k # order => k - 1 \in order .. m - 1)
          BY <1>0, <3>1, <4>2
        <5>2. MergeStep(f, idx, order, k)
          BY <3>3, <5>1
        <5> QED
          BY <3>4, <5>1, <5>2 DEF MergeStep
      <4> QED
        BY <4>1, <4>2
    <3>6. Is(h, m)
      BY <3>4, <3>5
    <3> QED
      BY <2>2, <3>6
  <2> QED
    BY <2>4, <2>5
<1>2. PICK f : Is(f, MAX_ORDER)
  <2>1. MAX_ORDER \in order .. MAX_ORDER
    BY <1>0
  <2> QED
    BY <1>1, <2>1
<1>3. f = F(f)
  BY <1>2 DEF MergeStep, Lower
<1>4. PICK g : g = (CHOOSE h : h = F(h))
  OBVIOUS
<1>5. MergedAt(idx, order) = g /\ g = F(g)
  BY <1>3, <1>4 DEF MergedAt
<1> QED
  BY <1>5 DEF MergeStep, Lower

LEMMA MergedIs ==
  ASSUME NEW idx \in Nat, NEW order \in Order, Aligned(idx, order)
  PROVE  LET at == MergedAt(idx, order)
         IN  /\ at[order] = idx
             /\ \A k \in order .. MAX_ORDER :
                  at[k] \in Nat /\ Aligned(at[k], k) /\ Contains(<<at[k], k>>, idx)
             /\ \A k \in order .. MAX_ORDER - 1 :
                  Halves(at[k + 1], at[k], buddy_index(at[k], k), k)
<1> DEFINE at == MergedAt(idx, order)
           Good(k) == at[k] \in Nat /\ Aligned(at[k], k) /\ Contains(<<at[k], k>>, idx)
           Bad == {k \in order .. MAX_ORDER : ~ Good(k)}
<1>0. order \in Nat /\ MAX_ORDER \in Nat /\ order <= MAX_ORDER
  BY OrderNat DEF Order
<1>1. \A k \in order .. MAX_ORDER : MergeStep(at, idx, order, k)
  BY MergedExists
<1> HIDE DEF at
<1>2. at[order] = idx
  BY <1>0, <1>1 DEF MergeStep
<1>3. ASSUME NEW k \in order .. MAX_ORDER - 1, Good(k)
      PROVE  Good(k + 1) /\ Halves(at[k + 1], at[k], buddy_index(at[k], k), k)
  <2>1. k \in Order /\ k + 1 \in Order /\ k + 1 \in order .. MAX_ORDER /\ k + 1 # order /\ (k + 1) - 1 = k
    BY <1>0 DEF Order
  <2>2. at[k + 1] = Lower(at[k], k)
    BY <1>1, <2>1 DEF MergeStep
  <2>3. PICK x \in Nat : x = at[k] /\ Aligned(x, k)
    BY <1>3
  <2>4. PICK m \in Nat : Halves(m, x, buddy_index(x, k), k)
    BY <2>1, <2>3, BuddyHalves
  <2>5. Lower(x, k) = m
    BY <2>1, <2>4, SizeNat DEF Lower, Halves
  <2>6. PICK b \in Nat : b = buddy_index(x, k)
    BY <2>1, <2>3, BuddyTwice
  <2>7. Contains(<<m, k + 1>>, idx)
    <3>0. Halves(m, x, b, k)
      BY <2>4, <2>6
    <3>1. \A y \in Nat : Contains(<<m, k + 1>>, y) <=> Contains(<<x, k>>, y) \/ Contains(<<b, k>>, y)
      BY <2>1, <3>0, HalvesContain
    <3> QED
      BY <1>3, <2>3, <3>1
  <2> QED
    BY <2>2, <2>3, <2>4, <2>5, <2>7 DEF Halves
<1>4. Bad = {}
  <2>1. SUFFICES ASSUME Bad # {} PROVE FALSE
    OBVIOUS
  <2>2. PICK k \in Bad : \A j \in Bad : k <= j
    <3>1. Bad \subseteq Nat
      BY <1>0
    <3> HIDE DEF Bad
    <3> QED
      BY <2>1, <3>1, LeastOf
  <2>3. k \in order .. MAX_ORDER /\ ~ Good(k)
    OBVIOUS
  <2>4. k # order
    BY <1>2, <2>3, ContainsFirst
  <2>5. k - 1 \in order .. MAX_ORDER - 1 /\ k - 1 \in order .. MAX_ORDER /\ k - 1 < k /\ (k - 1) + 1 = k
    BY <1>0, <2>3, <2>4
  <2>6. k - 1 \notin Bad
    <3> HIDE DEF Bad
    <3> QED
      BY <2>2, <2>5, <1>0
  <2>7. Good(k - 1)
    BY <2>5, <2>6
  <2>8. Good((k - 1) + 1)
    BY <1>3, <2>5, <2>7
  <2> QED
    BY <2>3, <2>5, <2>8
<1>5. \A k \in order .. MAX_ORDER : Good(k)
  BY <1>4
<1>6. \A k \in order .. MAX_ORDER - 1 : Halves(at[k + 1], at[k], buddy_index(at[k], k), k)
  <2> TAKE k \in order .. MAX_ORDER - 1
  <2>1. k \in order .. MAX_ORDER
    BY <1>0
  <2> QED
    BY <1>3, <1>5, <2>1
<1> QED
  BY <1>2, <1>5, <1>6 DEF at

(* The free buddies that a block is merged with on the way up to order k.  *)
Buddy(at, j) == <<buddy_index(at[j], j), j>>
TakenUp(at, order, k) == {Buddy(at, j) : j \in order .. k - 1}
JoinTo(S, at, order, k) == ((S \ {<<at[order], order>>}) \ TakenUp(at, order, k)) \cup {<<at[k], k>>}

LEMMA JoinTiling ==
  ASSUME NEW n \in Nat, NEW S, Tiling(S, 0, n), NEW idx \in Nat, NEW order \in Order,
         <<idx, order>> \in S, NEW at, at = MergedAt(idx, order),
         NEW top \in order .. MAX_ORDER,
         \A j \in order .. top - 1 :
           j < max_order(n) /\ Buddy(at, j) \in S /\ Buddy(at, j) # <<idx, order>>
  PROVE  /\ \A k \in order .. top : Tiling(JoinTo(S, at, order, k), 0, n)
         /\ \A k \in order + 1 .. MAX_ORDER : <<at[k], k>> \notin S
<1>0. order \in Nat /\ MAX_ORDER \in Nat /\ order <= MAX_ORDER
  BY OrderNat DEF Order
<1>1. Aligned(idx, order)
  BY DEF Tiling, Fits
<1>2. /\ at[order] = idx
      /\ \A k \in order .. MAX_ORDER :
           at[k] \in Nat /\ Aligned(at[k], k) /\ Contains(<<at[k], k>>, idx)
      /\ \A k \in order .. MAX_ORDER - 1 :
           Halves(at[k + 1], at[k], buddy_index(at[k], k), k)
  BY <1>1, MergedIs
<1>3. ASSUME NEW k \in order + 1 .. MAX_ORDER, <<at[k], k>> \in S PROVE FALSE
  <2>1. Contains(<<at[k], k>>, idx) /\ k # order
    BY <1>0, <1>2
  <2>2. Contains(<<idx, order>>, idx)
    BY ContainsFirst
  <2>3. <<at[k], k>> = <<idx, order>>
    BY <1>3, <2>1, <2>2 DEF Tiling
  <2> QED
    BY <2>1, <2>3
<1> DEFINE Bad == {k \in order .. top : ~ Tiling(JoinTo(S, at, order, k), 0, n)}
<1>4. Bad = {}
  <2>1. SUFFICES ASSUME Bad # {} PROVE FALSE
    OBVIOUS
  <2>2. PICK q \in Bad : \A j \in Bad : q <= j
    <3>1. Bad \subseteq Nat
      BY <1>0
    <3> HIDE DEF Bad
    <3> QED
      BY <2>1, <3>1, LeastOf
  <2>3. q \in order .. top /\ ~ Tiling(JoinTo(S, at, order, q), 0, n)
    OBVIOUS
  <2>4. q # order
    <3>1. TakenUp(at, order, order) = {}
      BY <1>0 DEF TakenUp
    <3>2. JoinTo(S, at, order, order) = S
      BY <1>2, <3>1 DEF JoinTo
    <3> QED
      BY <2>3, <3>2
  <2>5. PICK k \in Order : /\ k + 1 = q /\ k < q /\ k \in order .. top /\ k \in order .. top - 1
                           /\ k \in order .. MAX_ORDER - 1 /\ k \in order .. MAX_ORDER
                           /\ k + 1 \in order + 1 .. MAX_ORDER /\ k + 1 \in Order
    <3>1. q - 1 \in Order /\ (q - 1) + 1 = q
      BY <1>0, <2>3, <2>4 DEF Order
    <3>2. /\ q - 1 < q /\ q - 1 \in order .. top /\ q - 1 \in order .. top - 1
          /\ q - 1 \in order .. MAX_ORDER - 1 /\ q - 1 \in order .. MAX_ORDER
          /\ q \in order + 1 .. MAX_ORDER /\ q \in Order
      BY <1>0, <2>3, <2>4 DEF Order
    <3> QED
      BY <3>1, <3>2
  <2>6. k \notin Bad
    <3>1. k \in Nat /\ q \in Nat /\ ~ (q <= k)
      BY <1>0, <2>3, <2>5
    <3> HIDE DEF Bad
    <3> QED
      BY <2>2, <3>1
  <2>7. PICK T : T = JoinTo(S, at, order, k)
    OBVIOUS
  <2>8. Tiling(T, 0, n)
    BY <2>5, <2>6, <2>7
  <2>9. PICK x \in Nat : x = at[k] /\ Aligned(x, k)
    BY <1>2, <2>5
  <2>10. PICK b \in Nat : b = buddy_index(x, k) /\ <<b, k>> = Buddy(at, k)
    BY <2>5, <2>9, BuddyTwice DEF Buddy
  <2>11. PICK m \in Nat : m = at[k + 1] /\ Halves(m, x, b, k)
    <3>1. k + 1 \in order .. MAX_ORDER
      BY <1>0, <2>5
    <3>2. PICK m \in Nat : m = at[k + 1]
      BY <1>2, <3>1
    <3>3. Halves(at[k + 1], at[k], buddy_index(at[k], k), k)
      BY <1>2, <2>5
    <3>4. Halves(m, x, b, k)
      BY <2>9, <2>10, <3>2, <3>3
    <3> QED
      BY <3>2, <3>4
  <2>12. <<b, k>> \notin TakenUp(at, order, k)
    BY <2>5, OrderNat DEF TakenUp, Buddy
  <2>13. <<x, k>> \in T /\ <<b, k>> \in T
    BY <1>2, <2>5, <2>7, <2>9, <2>10, <2>12 DEF JoinTo
  <2>14. Tiling((T \ {<<x, k>>, <<b, k>>}) \cup {<<m, k + 1>>}, 0, n)
    BY <2>5, <2>8, <2>11, <2>13, JoinOne
  <2>15. TakenUp(at, order, k + 1) = TakenUp(at, order, k) \cup {<<b, k>>}
    <3>1. order .. (k + 1) - 1 = (order .. k - 1) \cup {k}
      BY <1>0, <2>5
    <3> QED
      BY <2>10, <3>1 DEF TakenUp
  <2>16. <<x, k>> \notin S \ {<<at[order], order>>}
    <3>1. CASE k = order
      BY <2>9, <3>1
    <3>2. CASE k # order
      <4>1. k \in order + 1 .. MAX_ORDER
        BY <1>0, <2>5, <3>2
      <4> QED
        BY <1>3, <2>9, <4>1
    <3> QED
      BY <3>1, <3>2
  <2>17. (T \ {<<x, k>>, <<b, k>>}) \cup {<<m, k + 1>>} = JoinTo(S, at, order, k + 1)
    BY <2>7, <2>9, <2>11, <2>15, <2>16 DEF JoinTo
  <2> QED
    BY <2>3, <2>5, <2>14, <2>17
<1> QED
  BY <1>3, <1>4

(* A page above a merged block, and the pages below it. *)
LEMMA MergedInside ==
  ASSUME NEW idx \in Nat, NEW order \in Order, Aligned(idx, order),
         NEW j \in order .. MAX_ORDER, NEW k \in j .. MAX_ORDER
  PROVE  LET at == MergedAt(idx, order)
         IN  Contains(<<at[k], k>>, at[j]) /\ Contains(<<at[j], j>>, at[j])
<1> DEFINE at == MergedAt(idx, order)
<1>1. j \in Order /\ k \in Order /\ k \in order .. MAX_ORDER /\ j <= k
  BY OrderNat DEF Order
<1>2. \A q \in order .. MAX_ORDER :
        at[q] \in Nat /\ Aligned(at[q], q) /\ Contains(<<at[q], q>>, idx)
  BY MergedIs
<1> HIDE DEF at
<1>3. PICK x \in Nat : x = at[j] /\ Aligned(x, j) /\ Contains(<<x, j>>, idx)
  BY <1>2
<1>4. PICK y \in Nat : y = at[k] /\ Aligned(y, k) /\ Contains(<<y, k>>, idx)
  BY <1>1, <1>2
<1>5. Contains(<<x, j>>, x)
  BY <1>1, ContainsFirst
<1>6. Contains(<<y, k>>, x)
  BY <1>1, <1>3, <1>4, <1>5, InsideContains
<1> QED
  BY <1>3, <1>4, <1>5, <1>6 DEF at

FreeLists(L, at, order, top) ==
  [o \in 0 .. MAX_ORDER |->
     IF o = top THEN <<at[top]>> \o L[o]
     ELSE IF o \in order .. top - 1 THEN Without(L[o], buddy_index(at[o], o))
     ELSE L[o]]

FreeDescs(D, at, order, top, n) ==
  [p \in 0 .. n - 1 |->
     IF {k \in order .. top : at[k] = p} = {} THEN D[p]
     ELSE [order |-> Largest({k \in order .. top : at[k] = p}), used |-> FALSE]]

CanFree(L, at, order, top) ==
  /\ L \in Lists /\ order \in Order /\ top \in order .. MAX_ORDER
  /\ at[top] \in Nat /\ at[top] \notin Elems(L[top]) /\ \A o \in Order : Distinct(L[o])
  /\ \A o \in order .. top - 1 : Buddy(at, o) \in Cells(L)

Freed(K, L, at, order, top) ==
  /\ K \in Lists /\ Cells(K) = (Cells(L) \ TakenUp(at, order, top)) \cup {<<at[top], top>>}
  /\ \A o \in Order : Distinct(K[o])

LEMMA FreeCells ==
  ASSUME NEW L, NEW at, NEW order, NEW top, CanFree(L, at, order, top)
  PROVE  Freed(FreeLists(L, at, order, top), L, at, order, top)
<1>a. /\ L \in Lists /\ order \in Order /\ top \in order .. MAX_ORDER
      /\ at[top] \in Nat /\ at[top] \notin Elems(L[top]) /\ \A o \in Order : Distinct(L[o])
      /\ \A o \in order .. top - 1 : Buddy(at, o) \in Cells(L)
  BY DEF CanFree
<1> DEFINE K == FreeLists(L, at, order, top)
<1>0. order \in Nat /\ MAX_ORDER \in Nat /\ top \in Order /\ top \in Nat
  BY <1>a, OrderNat DEF Order
<1>1. \A o \in Order : L[o] \in Seq(Nat)
  BY <1>a DEF Lists
<1>2. \A o \in order .. top - 1 : o \in Order /\ o # top /\ buddy_index(at[o], o) \in Elems(L[o])
  <2> TAKE o \in order .. top - 1
  <2>1. o \in Order /\ o # top
    BY <1>0 DEF Order
  <2>2. Buddy(at, o) \in Cells(L)
    BY <1>a
  <2> QED
    BY <2>1, <2>2 DEF Buddy, Cells
<1>3. ASSUME NEW o \in Order
      PROVE  /\ K[o] \in Seq(Nat) /\ Distinct(K[o])
             /\ Elems(K[o]) = (IF o = top THEN Elems(L[o]) \cup {at[top]}
                               ELSE IF o \in order .. top - 1 THEN Elems(L[o]) \ {buddy_index(at[o], o)}
                               ELSE Elems(L[o]))
  <2>0. o \in 0 .. MAX_ORDER
    BY DEF Order
  <2>a. PICK l \in Seq(Nat) : l = L[o] /\ Distinct(l)
    BY <1>a, <1>1
  <2>1. CASE o = top
    <3>1. PICK x \in Nat : x = at[top]
      BY <1>a
    <3>2. K[o] = <<x>> \o l
      BY <2>0, <2>a, <2>1, <3>1 DEF FreeLists
    <3>3. x \notin Elems(l)
      BY <1>a, <2>a, <2>1, <3>1
    <3>4. <<x>> \o l \in Seq(Nat) /\ Elems(<<x>> \o l) = Elems(l) \cup {x} /\ Distinct(<<x>> \o l)
      BY <2>a, <3>3, ElemsPush
    <3> QED
      BY <2>a, <2>1, <3>1, <3>2, <3>4
  <2>2. CASE o # top /\ o \in order .. top - 1
    <3>1. PICK b \in Elems(l) : b = buddy_index(at[o], o)
      BY <1>2, <2>a, <2>2
    <3>2. K[o] = Without(l, b)
      BY <2>0, <2>a, <2>2, <3>1 DEF FreeLists
    <3>3. Without(l, b) \in Seq(Nat) /\ Elems(Without(l, b)) = Elems(l) \ {b} /\ Distinct(Without(l, b))
      BY <2>a, ElemsWithout
    <3> QED
      BY <2>a, <2>2, <3>1, <3>2, <3>3
  <2>3. CASE o # top /\ o \notin order .. top - 1
    <3>1. K[o] = L[o]
      BY <2>0, <2>3 DEF FreeLists
    <3> QED
      BY <1>1, <2>a, <2>3, <3>1
  <2> QED
    BY <2>1, <2>2, <2>3
<1>4. K \in Lists
  <2>1. K = [o \in Order |-> K[o]]
    BY DEF FreeLists, Order
  <2> HIDE DEF K
  <2> QED
    BY <1>3, <2>1 DEF Lists
<1> HIDE DEF K
<1>5. Cells(K) = (Cells(L) \ TakenUp(at, order, top)) \cup {<<at[top], top>>}
  <2>1. ASSUME NEW p \in Nat, NEW o \in Order
        PROVE  <<p, o>> \in Cells(K) <=> <<p, o>> \in (Cells(L) \ TakenUp(at, order, top)) \cup {<<at[top], top>>}
    <3>1. <<p, o>> \in Cells(K) <=> p \in Elems(K[o])
      BY DEF Cells
    <3>2. <<p, o>> \in Cells(L) <=> p \in Elems(L[o])
      BY DEF Cells
    <3>3. <<p, o>> \in TakenUp(at, order, top) <=> (o \in order .. top - 1 /\ p = buddy_index(at[o], o))
      BY DEF TakenUp, Buddy
    <3>4. CASE o = top
      BY <1>2, <1>3, <3>1, <3>2, <3>3, <3>4
    <3>5. CASE o # top
      BY <1>3, <3>1, <3>2, <3>3, <3>5
    <3> QED
      BY <3>4, <3>5
  <2>2. Cells(K) \subseteq Nat \X Order /\ Cells(L) \subseteq Nat \X Order
    BY DEF Cells
  <2>3. <<at[top], top>> \in Nat \X Order
    BY <1>0, <1>a
  <2>4. PICK C : C = (Cells(L) \ TakenUp(at, order, top)) \cup {<<at[top], top>>}
    OBVIOUS
  <2>5. C \subseteq Nat \X Order
    BY <2>2, <2>3, <2>4
  <2>6. \A c \in Nat \X Order : c \in Cells(K) <=> c \in C
    BY <2>1, <2>4
  <2> QED
    BY <2>2, <2>4, <2>5, <2>6
<1> QED
  BY <1>3, <1>4, <1>5 DEF K, Freed
-----------------------------------------------------------------------------
(* The zone of a block that is freed. *)
Frees(z, H, idx, order) ==
  /\ num_pages[z] \in Nat /\ ZoneOK(free_list[z], pages[z], H, num_pages[z])
  /\ idx \in Nat /\ order \in Order /\ <<idx, order>> \in H

(* What a descriptor says of the buddy of a merged block is true.          *)
LEMMA LooksTrue ==
  ASSUME NEW z, NEW H, NEW idx, NEW order, Frees(z, H, idx, order),
         NEW top \in order .. MAX_ORDER, top < max_order(num_pages[z]),
         \A j \in order .. top - 1 : Mergeable(z, MergedAt(idx, order)[j], j),
         LooksFree(z, MergedAt(idx, order)[top], top)
  PROVE  Listed(z, top, buddy_index(MergedAt(idx, order)[top], top))
<1>0. /\ idx \in Nat /\ order \in Order /\ <<idx, order>> \in H /\ order \in Nat
      /\ MAX_ORDER \in Nat /\ top \in Order
  BY OrderNat DEF Frees, Order
<1>1. PICK n \in Nat : n = num_pages[z]
  BY DEF Frees
<1>2. PICK L : L = free_list[z]
  OBVIOUS
<1>3. PICK D : D = pages[z]
  OBVIOUS
<1>4. PICK at : at = MergedAt(idx, order)
  OBVIOUS
<1>5. ZoneOK(L, D, H, n)
  BY <1>1, <1>2, <1>3 DEF Frees
<1>6. PICK S : S = Cells(L) \cup H
  OBVIOUS
<1>7. Tiling(S, 0, n) /\ Cells(L) \cap H = {} /\ <<idx, order>> \in S
  BY <1>0, <1>5, <1>6 DEF ZoneOK
<1>8. ASSUME NEW j \in order .. top - 1
      PROVE  j < max_order(n) /\ Buddy(at, j) \in S /\ Buddy(at, j) # <<idx, order>>
  <2>1. Mergeable(z, at[j], j) /\ j \in Order
    BY <1>0, <1>4 DEF Order
  <2>2. j < max_order(n) /\ buddy_index(at[j], j) \in Elems(L[j])
    BY <1>1, <1>2, <2>1 DEF Mergeable, Listed
  <2>3. L[j] \in Seq(Nat)
    BY <1>5, <2>1 DEF ZoneOK, Lists
  <2>4. Buddy(at, j) \in Cells(L)
    BY <2>1, <2>2, <2>3, ElemsNat DEF Buddy, Cells
  <2> QED
    BY <1>0, <1>6, <1>7, <2>2, <2>4
<1>9. PICK T : T = JoinTo(S, at, order, top)
  OBVIOUS
<1>10. Tiling(T, 0, n)
  <2>1. \A k \in order .. top : Tiling(JoinTo(S, at, order, k), 0, n)
    BY <1>0, <1>4, <1>7, <1>8, JoinTiling
  <2> QED
    BY <1>0, <1>9, <2>1
<1>11. PICK x \in Nat : x = at[top] /\ Aligned(x, top)
  <2>1. Aligned(idx, order)
    BY <1>7 DEF Tiling, Fits
  <2> QED
    BY <1>0, <1>4, <2>1, MergedIs
<1>12. top + 1 \in Order
  BY <1>0, <1>1, NextOrder
<1>13. PICK b \in Nat : b = buddy_index(x, top) /\ b # x
  BY <1>0, <1>11, <1>12, BuddyTwice
<1>14. b < n /\ ~ D[b].used /\ D[b].order = top
  BY <1>1, <1>3, <1>4, <1>11, <1>13 DEF LooksFree
<1>15. <<x, top>> \in T
  BY <1>9, <1>11 DEF JoinTo
<1>16. PICK k \in Order : <<b, k>> \in T
  BY <1>0, <1>1, <1>10, <1>13, <1>14, <1>15, BuddyBegins
<1>17. <<b, k>> \in S
  BY <1>9, <1>11, <1>13, <1>16 DEF JoinTo
<1>18. Described(L, D, H)
  BY <1>5 DEF ZoneOK
<1>19. <<b, k>> \in Cells(L) /\ k = top
  BY <1>6, <1>14, <1>17, <1>18 DEF Described
<1> QED
  BY <1>2, <1>4, <1>11, <1>13, <1>19 DEF Listed, Cells

LEMMA MergeTopIs ==
  ASSUME NEW z, NEW idx, NEW order \in Order, num_pages[z] \in Nat
  PROVE  LET top == MergeTop(z, idx, order)
         IN  /\ top \in order .. MAX_ORDER /\ ~ Mergeable(z, MergedAt(idx, order)[top], top)
             /\ \A j \in order .. top - 1 : Mergeable(z, MergedAt(idx, order)[j], j)
<1> DEFINE M(k) == Mergeable(z, MergedAt(idx, order)[k], k)
           Stop == {k \in order .. MAX_ORDER : ~ M(k)}
<1>0. order \in Nat /\ MAX_ORDER \in Nat /\ order <= MAX_ORDER
  BY OrderNat DEF Order
<1>1. MAX_ORDER \in Stop
  <2>1. ~ (MAX_ORDER < max_order(num_pages[z]))
    BY <1>0, MaxOrderIs DEF Order
  <2> QED
    BY <1>0, <2>1 DEF Mergeable
<1>2. Stop \subseteq Nat
  BY <1>0
<1>3. PICK k \in Stop : \A j \in Stop : k <= j
  <2> HIDE DEF Stop
  <2> QED
    BY <1>1, <1>2, LeastOf
<1>4. k \in order .. MAX_ORDER /\ ~ M(k)
  OBVIOUS
<1>5. \A j \in order .. k - 1 : M(j)
  <2> TAKE j \in order .. k - 1
  <2>1. j \in order .. MAX_ORDER /\ ~ (k <= j)
    BY <1>0, <1>4
  <2>2. j \notin Stop
    <3> HIDE DEF Stop
    <3> QED
      BY <1>3, <2>1
  <2> QED
    BY <2>1, <2>2
<1> HIDE DEF M
<1>6. PICK top : top = CHOOSE c \in order .. MAX_ORDER : ~ M(c) /\ \A j \in order .. c - 1 : M(j)
  OBVIOUS
<1>7. top \in order .. MAX_ORDER /\ ~ M(top) /\ \A j \in order .. top - 1 : M(j)
  BY <1>4, <1>5, <1>6
<1>8. top = MergeTop(z, idx, order)
  BY <1>6 DEF MergeTop, M
<1> QED
  BY <1>7, <1>8 DEF M

LEMMA FreeOK ==
  ASSUME NEW z, NEW H, NEW idx, NEW order, Frees(z, H, idx, order),
         NEW at, at = MergedAt(idx, order), NEW top, top = MergeTop(z, idx, order)
  PROVE  ZoneOK(FreeLists(free_list[z], at, order, top),
                FreeDescs(pages[z], at, order, top, num_pages[z]),
                H \ {<<idx, order>>}, num_pages[z])
<1>0. /\ idx \in Nat /\ order \in Order /\ <<idx, order>> \in H /\ order \in Nat
      /\ MAX_ORDER \in Nat
  BY OrderNat DEF Frees
<1>1. PICK n \in Nat : n = num_pages[z]
  BY DEF Frees
<1>2. PICK L : L = free_list[z]
  OBVIOUS
<1>3. PICK D : D = pages[z]
  OBVIOUS
<1>4. ZoneOK(L, D, H, n)
  BY <1>1, <1>2, <1>3 DEF Frees
<1>5. PICK S : S = Cells(L) \cup H
  OBVIOUS
<1>6. /\ L \in Lists /\ D \in [0 .. n - 1 -> PageDesc] /\ H \subseteq Nat \X Order
      /\ Tiling(S, 0, n) /\ Cells(L) \cap H = {}
      /\ \A o \in Order : Distinct(L[o])
      /\ NoBuddies(Cells(L), n)
  BY <1>4, <1>5 DEF ZoneOK
<1>7. Described(L, D, H)
  BY <1>4 DEF ZoneOK
<1>8. <<idx, order>> \in S /\ Aligned(idx, order)
  BY <1>0, <1>5, <1>6 DEF Tiling, Fits
<1>9. /\ top \in order .. MAX_ORDER /\ ~ Mergeable(z, at[top], top)
      /\ \A j \in order .. top - 1 : Mergeable(z, at[j], j)
  BY <1>0, <1>1, MergeTopIs
<1>10. top \in Order /\ top \in Nat /\ order <= top
  BY <1>0, <1>9 DEF Order
<1>11. ASSUME NEW j \in order .. top - 1
       PROVE  j < max_order(n) /\ Buddy(at, j) \in Cells(L)
  <2>1. Mergeable(z, at[j], j) /\ j \in Order
    BY <1>0, <1>9 DEF Order
  <2>2. j < max_order(n) /\ buddy_index(at[j], j) \in Elems(L[j])
    BY <1>1, <1>2, <2>1 DEF Mergeable, Listed
  <2>3. L[j] \in Seq(Nat)
    BY <1>6, <2>1 DEF Lists
  <2> QED
    BY <2>1, <2>2, <2>3, ElemsNat DEF Buddy, Cells
<1>12. \A j \in order .. top - 1 :
         j < max_order(n) /\ Buddy(at, j) \in S /\ Buddy(at, j) # <<idx, order>>
  BY <1>0, <1>5, <1>6, <1>11
<1>13. /\ \A k \in order .. top : Tiling(JoinTo(S, at, order, k), 0, n)
       /\ \A k \in order + 1 .. MAX_ORDER : <<at[k], k>> \notin S
  BY <1>0, <1>6, <1>8, <1>9, <1>12, JoinTiling
<1>14. /\ at[order] = idx
       /\ \A k \in order .. MAX_ORDER :
            at[k] \in Nat /\ Aligned(at[k], k) /\ Contains(<<at[k], k>>, idx)
  BY <1>0, <1>8, MergedIs
<1>15. PICK T : T = JoinTo(S, at, order, top)
  OBVIOUS
<1>16. Tiling(T, 0, n)
  BY <1>10, <1>13, <1>15
<1>17. PICK x \in Nat : x = at[top] /\ Aligned(x, top)
  BY <1>9, <1>14
<1>18. <<x, top>> \notin Cells(L)
  <2>1. CASE top = order
    BY <1>0, <1>6, <1>14, <1>17, <2>1
  <2>2. CASE top # order
    <3>1. top \in order + 1 .. MAX_ORDER
      BY <1>0, <1>9, <2>2
    <3> QED
      BY <1>5, <1>13, <1>17, <3>1
  <2> QED
    BY <2>1, <2>2
<1>19. PICK U : U = TakenUp(at, order, top)
  OBVIOUS
<1>20. U \subseteq Cells(L)
  BY <1>11, <1>19 DEF TakenUp
<1>21. PICK K : K = FreeLists(L, at, order, top)
  OBVIOUS
<1>22. /\ K \in Lists /\ Cells(K) = (Cells(L) \ U) \cup {<<x, top>>}
       /\ \A o \in Order : Distinct(K[o])
  <2>1. at[top] \notin Elems(L[top])
    BY <1>10, <1>17, <1>18 DEF Cells
  <2>2. at[top] \in Nat /\ \A o \in order .. top - 1 : Buddy(at, o) \in Cells(L)
    BY <1>11, <1>17
  <2>3. CanFree(L, at, order, top)
    BY <1>0, <1>6, <1>9, <2>1, <2>2 DEF CanFree
  <2>4. Freed(K, L, at, order, top)
    BY <1>21, <2>3, FreeCells
  <2> QED
    BY <1>17, <1>19, <2>4 DEF Freed
<1>23. PICK G : G = H \ {<<idx, order>>}
  OBVIOUS
<1>24. T = Cells(K) \cup G
  <2>1. T = ((S \ {<<idx, order>>}) \ U) \cup {<<x, top>>}
    BY <1>14, <1>15, <1>17, <1>19 DEF JoinTo
  <2>2. (S \ {<<idx, order>>}) \ U = (Cells(L) \ U) \cup G
    BY <1>0, <1>5, <1>6, <1>20, <1>23
  <2> QED
    BY <1>22, <2>1, <2>2
<1>25. <<x, top>> \notin G
  <2>1. CASE top = order
    BY <1>14, <1>17, <1>23, <2>1
  <2>2. CASE top # order
    <3>1. top \in order + 1 .. MAX_ORDER
      BY <1>0, <1>9, <2>2
    <3> QED
      BY <1>5, <1>13, <1>17, <1>23, <3>1
  <2> QED
    BY <2>1, <2>2
<1>26. Cells(K) \cap G = {}
  BY <1>6, <1>22, <1>23, <1>25
<1>27. ASSUME NEW c \in T, c # <<x, top>> PROVE \A k \in order .. top : at[k] # c[1]
  <2> TAKE k \in order .. top
  <2>1. k \in order .. MAX_ORDER /\ top \in k .. MAX_ORDER
    BY <1>0, <1>9
  <2>2. Contains(<<x, top>>, at[k]) /\ at[k] \in Nat
    BY <1>0, <1>8, <1>14, <1>17, <2>1, MergedInside
  <2>3. Contains(c, c[1]) /\ c[1] \in Nat
    <3>1. PICK p \in Nat, o \in Order : c = <<p, o>> /\ Contains(c, p)
      BY <1>16, CellIs
    <3> QED
      BY <3>1
  <2>4. <<x, top>> \in T
    BY <1>15, <1>17 DEF JoinTo
  <2> QED
    BY <1>16, <1>27, <2>2, <2>3, <2>4 DEF Tiling
<1>28. PICK E : E = FreeDescs(D, at, order, top, n)
  OBVIOUS
<1>29. ASSUME NEW p, {k \in order .. top : at[k] = p} # {}
       PROVE  LET h == Largest({k \in order .. top : at[k] = p})
              IN  h \in order .. top /\ h \in Order /\ at[h] = p
                  /\ \A k \in order .. top : at[k] = p => k <= h
  <2>1. PICK A : A = {k \in order .. top : at[k] = p}
    OBVIOUS
  <2>2. A \subseteq 0 .. MAX_ORDER /\ A # {}
    BY <1>0, <1>9, <1>29, <2>1
  <2>3. Largest(A) \in A /\ \A k \in A : k <= Largest(A)
    BY <1>0, <2>2, LargestIs
  <2> QED
    BY <2>1, <2>2, <2>3 DEF Order
<1>30. E \in [0 .. n - 1 -> PageDesc]
  <2>1. ASSUME NEW p \in 0 .. n - 1
        PROVE  (IF {k \in order .. top : at[k] = p} = {} THEN D[p]
                ELSE [order |-> Largest({k \in order .. top : at[k] = p}), used |-> FALSE]) \in PageDesc
    <3>1. CASE {k \in order .. top : at[k] = p} = {}
      BY <1>6, <3>1
    <3>2. CASE {k \in order .. top : at[k] = p} # {}
      <4>1. Largest({k \in order .. top : at[k] = p}) \in Order
        BY <1>29, <3>2
      <4> QED
        BY <3>2, <4>1 DEF PageDesc
    <3> QED
      BY <3>1, <3>2
  <2> QED
    BY <1>28, <2>1 DEF FreeDescs
<1>31. \A c \in T : c[1] \in 0 .. n - 1
  <2> TAKE c \in T
  <2>1. PICK p \in Nat, o \in Order : c = <<p, o>> /\ p \in 0 .. n - 1
    BY <1>16, CellIs
  <2> QED
    BY <2>1
<1>32. ASSUME NEW c \in T, c # <<x, top>> PROVE E[c[1]] = D[c[1]]
  <2>1. {k \in order .. top : at[k] = c[1]} = {}
    BY <1>27, <1>32
  <2> QED
    BY <1>28, <1>31, <2>1 DEF FreeDescs
<1>33. E[x] = [order |-> top, used |-> FALSE]
  <2>1. top \in order .. top /\ x \in 0 .. n - 1
    <3>1. <<x, top>> \in T
      BY <1>15, <1>17 DEF JoinTo
    <3> QED
      BY <1>0, <1>10, <1>31, <3>1
  <2>2. {k \in order .. top : at[k] = x} # {}
    BY <1>17, <2>1
  <2>3. Largest({k \in order .. top : at[k] = x}) = top
    <3>1. PICK h : h = Largest({k \in order .. top : at[k] = x})
      OBVIOUS
    <3>2. h \in order .. top /\ top <= h
      BY <1>17, <1>29, <2>1, <2>2, <3>1
    <3> QED
      BY <1>0, <1>10, <3>1, <3>2
  <2> QED
    BY <1>28, <2>1, <2>2, <2>3 DEF FreeDescs
<1>34. Described(K, E, G)
  <2>1. ASSUME NEW c \in Cells(K) PROVE E[c[1]].order = c[2] /\ ~ E[c[1]].used
    <3>1. CASE c = <<x, top>>
      BY <1>33, <3>1
    <3>2. CASE c # <<x, top>>
      <4>1. c \in Cells(L) /\ c \in T
        BY <1>22, <1>24, <3>2
      <4>2. E[c[1]] = D[c[1]]
        BY <1>32, <3>2, <4>1
      <4> QED
        BY <1>7, <4>1, <4>2 DEF Described
    <3> QED
      BY <3>1, <3>2
  <2>2. ASSUME NEW c \in G PROVE E[c[1]].used
    <3>1. c \in T /\ c # <<x, top>> /\ c \in H
      BY <1>23, <1>24, <1>25
    <3>2. E[c[1]] = D[c[1]]
      BY <1>32, <3>1
    <3> QED
      BY <1>7, <3>1, <3>2 DEF Described
  <2> QED
    BY <2>1, <2>2 DEF Described
<1>35. ASSUME NEW b \in Nat, b = buddy_index(x, top), top < max_order(n), <<b, top>> \in Cells(L)
       PROVE  FALSE
  <2>1. D[b].order = top /\ ~ D[b].used
    BY <1>7, <1>35 DEF Described
  <2>2. b < n
    <3>1. <<b, top>> \in S
      BY <1>5, <1>35
    <3>2. PICK p \in Nat, o \in Order : <<b, top>> = <<p, o>> /\ p \in 0 .. n - 1
      BY <1>6, <3>1, CellIs
    <3> QED
      BY <3>2
  <2>3. LooksFree(z, x, top)
    BY <1>1, <1>3, <1>35, <2>1, <2>2 DEF LooksFree
  <2>4. Listed(z, top, buddy_index(x, top))
    BY <1>2, <1>35 DEF Cells, Listed
  <2> QED
    BY <1>1, <1>9, <1>17, <1>35, <2>3, <2>4 DEF Mergeable
<1>36. NoBuddies(Cells(K), n)
  <2> SUFFICES ASSUME NEW c \in Cells(K), c[2] < max_order(n),
                      <<buddy_index(c[1], c[2]), c[2]>> \in Cells(K)
               PROVE  FALSE
    BY DEF NoBuddies
  <2>1. Fits(c, 0, n)
    BY <1>16, <1>24 DEF Tiling
  <2>2. PICK y \in Nat, o \in Order : c = <<y, o>> /\ Aligned(y, o)
    BY <2>1 DEF Fits
  <2>3. o + 1 \in Order
    BY <2>2, NextOrder
  <2>4. PICK b \in Nat : b = buddy_index(y, o) /\ buddy_index(b, o) = y /\ b # y /\ <<b, o>> \in Cells(K)
    BY <2>2, <2>3, BuddyTwice
  <2>5. CASE c = <<x, top>>
    <3>1. <<b, o>> \in Cells(L)
      BY <1>22, <2>2, <2>4, <2>5
    <3> QED
      BY <1>35, <2>2, <2>4, <2>5, <3>1
  <2>6. CASE <<b, o>> = <<x, top>>
    <3>1. c \in Cells(L)
      BY <1>22, <2>2, <2>4, <2>6
    <3> QED
      BY <1>35, <2>2, <2>4, <2>6, <3>1
  <2>7. CASE c # <<x, top>> /\ <<b, o>> # <<x, top>>
    <3>1. c \in Cells(L) /\ <<b, o>> \in Cells(L)
      BY <1>22, <2>4, <2>7
    <3> QED
      BY <1>6, <2>2, <2>4, <3>1 DEF NoBuddies
  <2> QED
    BY <2>5, <2>6, <2>7
<1>37. ZoneOK(K, E, G, n)
  <2>1. G \subseteq Nat \X Order
    BY <1>6, <1>23
  <2> QED
    BY <1>16, <1>22, <1>24, <1>26, <1>30, <1>34, <1>36, <2>1 DEF ZoneOK
<1> QED
  BY <1>1, <1>2, <1>3, <1>21, <1>23, <1>28, <1>37
-----------------------------------------------------------------------------
(* buddy_init() on any memory map: its variables keep their types, and a   *)
(* zone it adds has a number of pages.                                     *)
LEMMA DownInt ==
  ASSUME NEW x \in Int
  PROVE  align_dn(x) \in Int
<1>1. x % PageSize \in Int
  BY MemoryMapAssumption
<1> QED
  BY <1>1 DEF align_dn

LEMMA ZoneSize ==
  ASSUME NEW r \in PhysRange, align_dn(r.end) > align_up(r.start)
  PROVE  ZoneOf(r) \in PhysRange /\ PageCount(ZoneOf(r)) \in Nat
<1>1. PICK base \in Int : base = align_up(r.start)
  <2>1. r.start + PageSize - 1 \in Int
    BY MemoryMapAssumption DEF PhysRange
  <2> QED
    BY <2>1, DownInt DEF align_up
<1>2. PICK top \in Int : top = align_dn(r.end)
  BY DownInt DEF PhysRange
<1>3. PICK b \in Nat : b = base % PhysSize
  BY MemoryMapAssumption
<1>4. ZoneOf(r) = [start |-> b, end |-> b + (top - base)]
  BY <1>1, <1>2, <1>3 DEF ZoneOf
<1>5. PICK d \in Nat : d = top - base
  BY <1>1, <1>2
<1>6. ZoneOf(r).end - ZoneOf(r).start = d
  BY <1>4, <1>5
<1>7. d \div PageSize \in Nat
  BY MemoryMapAssumption
<1> QED
  BY <1>4, <1>5, <1>6, <1>7 DEF PhysRange, PageCount

LEMMA InitTypes == Init => TypeOK
<1> SUFFICES ASSUME Init PROVE TypeOK
  OBVIOUS
<1>1. boot \in Boot
  BY MemoryMapAssumption DEF Init
<1>2. /\ HeapRange \in PhysRange /\ StackRange \in PhysRange
      /\ boot.kernel \in PhysRange /\ boot.fb \in PhysRange
      /\ [start |-> 0, end |-> MinManaged] \in PhysRange
  BY <1>1, MemoryMapAssumption DEF Boot, PhysRange
<1>3. /\ If(NonEmpty(boot.kernel), boot.kernel) \in Seq(PhysRange)
      /\ If(NonEmpty(boot.fb), boot.fb) \in Seq(PhysRange)
      /\ <<[start |-> 0, end |-> MinManaged]>> \in Seq(PhysRange)
      /\ <<HeapRange, StackRange>> \in Seq(PhysRange)
  BY <1>2, IfSeq
<1>4. FixedExclusions(boot) \in Seq(PhysRange)
  BY <1>3 DEF FixedExclusions
<1> QED
  BY <1>4 DEF Init, TypeOK

LEMMA NextTypes ==
  ASSUME TypeOK, [Next]_vars
  PROVE  TypeOK'
<1>1. /\ boot \in Boots /\ boot \in Boot /\ excl \in Seq(PhysRange)
      /\ i \in Nat \ {0} /\ e \in Nat \ {0} /\ t \in Nat \ {0}
      /\ todo \in Seq(PhysRange) /\ next \in Seq(PhysRange) /\ zones \in Seq(PhysRange)
      /\ pc \in {"mods", "region", "carve", "add"}
  BY MemoryMapAssumption DEF TypeOK
<1>2. CASE Module
  <2>1. boot.mods[i] \in PhysRange
    BY <1>1, <1>2 DEF Module, ModulesLoop, Boot
  <2>2. excl' \in Seq(PhysRange)
    BY <1>1, <1>2, <2>1 DEF Module
  <2> QED
    BY <1>1, <1>2, <2>2 DEF Module, TypeOK
<1>3. CASE ModulesDone
  BY <1>1, <1>3 DEF ModulesDone, TypeOK
<1>4. CASE Region
  <2>1. boot.mmap[i] \in MapEntry
    BY <1>1, <1>4 DEF Region, Boot
  <2>2. [start |-> boot.mmap[i].start, end |-> boot.mmap[i].end] \in PhysRange
    BY <2>1 DEF MapEntry, PhysRange
  <2>3. PICK s \in Seq(PhysRange) : s = <<[start |-> boot.mmap[i].start, end |-> boot.mmap[i].end]>>
    <3>1. PICK r \in PhysRange : r = [start |-> boot.mmap[i].start, end |-> boot.mmap[i].end]
      BY <2>2
    <3>2. <<r>> \in Seq(PhysRange)
      OBVIOUS
    <3> QED
      BY <3>1, <3>2
  <2>4. CASE boot.mmap[i].available /\ boot.mmap[i].start # boot.mmap[i].end
    <3>1. todo' = s /\ e' = 1 /\ t' = 1 /\ pc' = "carve" /\ UNCHANGED <<i, boot, excl, next, zones>>
      BY <1>4, <2>3, <2>4 DEF Region
    <3> QED
      BY <1>1, <3>1 DEF TypeOK
  <2>5. CASE ~(boot.mmap[i].available /\ boot.mmap[i].start # boot.mmap[i].end)
    <3>1. i' = i + 1 /\ UNCHANGED <<todo, e, t, pc, boot, excl, next, zones>>
      BY <1>4, <2>5 DEF Region
    <3> QED
      BY <1>1, <3>1 DEF TypeOK
  <2> QED
    BY <2>4, <2>5
<1>5. CASE Carve
  <2>1. todo[t] \in PhysRange /\ excl[e] \in PhysRange
    BY <1>1, <1>5 DEF Carve, InnerLoop
  <2>2. next' \in Seq(PhysRange)
    BY <1>1, <1>5, <2>1, CarveParts DEF Carve
  <2> QED
    BY <1>1, <1>5, <2>2 DEF Carve, TypeOK
<1>6. CASE NextExclusion
  BY <1>1, <1>6 DEF NextExclusion, TypeOK
<1>7. CASE Carved
  BY <1>1, <1>7 DEF Carved, TypeOK
<1>8. CASE AddZone
  <2>1. todo[t] \in PhysRange
    BY <1>1, <1>8 DEF AddZone
  <2>2. zones' \in Seq(PhysRange)
    <3>1. PICK r \in PhysRange : r = todo[t]
      BY <2>1
    <3>2. \/ zones' = zones
          \/ CanAddZone(r) /\ zones' = Append(zones, ZoneOf(r))
      <4>1. add_zone(r) \/ zones' = zones
        BY <1>8, <3>1 DEF AddZone
      <4> QED
        BY <4>1 DEF add_zone, CanAddZone
    <3>3. CanAddZone(r) => ZoneOf(r) \in PhysRange
      BY ZoneSize DEF CanAddZone
    <3>4. \A q \in PhysRange : Append(zones, q) \in Seq(PhysRange)
      BY <1>1
    <3> QED
      BY <1>1, <3>2, <3>3, <3>4
  <2> QED
    BY <1>1, <1>8, <2>2 DEF AddZone, TypeOK
<1>9. CASE RegionDone
  BY <1>1, <1>9 DEF RegionDone, TypeOK
<1>10. CASE UNCHANGED vars
  BY <1>1, <1>10 DEF vars, TypeOK
<1> QED
  BY <1>2, <1>3, <1>4, <1>5, <1>6, <1>7, <1>8, <1>9, <1>10 DEF Next, Done

LEMMA NewZoneSize ==
  ASSUME TypeOK, Next, zones' # zones
  PROVE  PageCount(zones'[Len(zones')]) \in Nat
<1>1. AddZone
  BY DEF Next, Module, ModulesDone, Region, Carve, NextExclusion, Carved, RegionDone, Done, vars
<1>2. todo[t] \in PhysRange
  BY <1>1 DEF AddZone, TypeOK
<1>3. CanAddZone(todo[t]) /\ zones' = Append(zones, ZoneOf(todo[t]))
  BY <1>1 DEF AddZone, add_zone
<1>4. zones'[Len(zones')] = ZoneOf(todo[t])
  <2>1. zones \in Seq(PhysRange) /\ ZoneOf(todo[t]) \in PhysRange
    BY <1>2, <1>3, ZoneSize DEF TypeOK, CanAddZone
  <2> QED
    BY <1>3, <2>1
<1> QED
  BY <1>2, <1>3, <1>4, ZoneSize DEF CanAddZone
-----------------------------------------------------------------------------
(* The inductive invariant: every zone is in order. *)
HeldCells(z) == {c \in Nat \X Order : <<z, c[1], c[2]>> \in held}

PageTables == UNION {[0 .. n - 1 -> PageDesc] : n \in Nat}

BuddyTypes ==
  /\ num_pages \in Seq(Nat) /\ free_list \in Seq(Lists) /\ pages \in Seq(PageTables)
  /\ Len(free_list) = Len(num_pages) /\ Len(pages) = Len(num_pages)
  /\ held \subseteq Zone \X Nat \X Orders
  /\ panic \in BOOLEAN

ZoneIsOK(z) == ZoneOK(free_list[z], pages[z], HeldCells(z), num_pages[z])

BuddyInv == BuddyTypes /\ \A z \in Zone : ZoneIsOK(z)

LEMMA OrdersIn == Orders \subseteq Order
BY PhysicalMemoryAssumption DEF Order

LEMMA TableOf ==
  ASSUME NEW n \in Nat, NEW L, NEW D, NEW H, ZoneOK(L, D, H, n)
  PROVE  L \in Lists /\ D \in PageTables
BY DEF ZoneOK, PageTables

LEMMA InitBuddy == BuddyInit => BuddyInv
<1> SUFFICES ASSUME BuddyInit PROVE BuddyInv
  OBVIOUS
<1>1. num_pages = <<>> /\ free_list = <<>> /\ pages = <<>> /\ held = {} /\ panic = FALSE
  BY DEF BuddyInit
<1>2. Zone = {}
  BY <1>1 DEF Zone
<1>3. /\ num_pages \in Seq(Nat) /\ free_list \in Seq(Lists) /\ pages \in Seq(PageTables)
      /\ Len(free_list) = Len(num_pages) /\ Len(pages) = Len(num_pages)
  BY <1>1
<1>4. held \subseteq Zone \X Nat \X Orders /\ panic \in BOOLEAN
  BY <1>1
<1> QED
  BY <1>2, <1>3, <1>4 DEF BuddyInv, BuddyTypes

LEMMA NewZoneBuddy ==
  ASSUME BuddyInv, NEW n \in Nat, NewZone(n)
  PROVE  BuddyInv'
<1>0. /\ num_pages \in Seq(Nat) /\ free_list \in Seq(Lists) /\ pages \in Seq(PageTables)
      /\ Len(free_list) = Len(num_pages) /\ Len(pages) = Len(num_pages)
      /\ held \subseteq Zone \X Nat \X Orders /\ panic \in BOOLEAN
  BY DEF BuddyInv, BuddyTypes
<1>1. PICK L : L = zone_build(n)
  OBVIOUS
<1>2. PICK D : D = [p \in 0 .. n - 1 |-> [order |-> IF Built(n, p) = {} THEN 0 ELSE Largest(Built(n, p)),
                                         used |-> FALSE]]
  OBVIOUS
<1>3. /\ num_pages' = Append(num_pages, n) /\ free_list' = Append(free_list, L)
      /\ pages' = Append(pages, D) /\ held' = held /\ panic' = panic
  BY <1>1, <1>2 DEF NewZone
<1>4. ZoneOK(L, D, {}, n)
  BY <1>1, <1>2, NewZoneOK
<1>5. L \in Lists /\ D \in PageTables
  BY <1>4, TableOf
<1>6. PICK w \in Nat : w = Len(num_pages) + 1
  BY <1>0
<1>7. Zone = 1 .. w - 1 /\ Zone' = 1 .. w
  BY <1>0, <1>3, <1>6 DEF Zone
<1>8. BuddyTypes'
  <2>1. /\ num_pages' \in Seq(Nat) /\ free_list' \in Seq(Lists) /\ pages' \in Seq(PageTables)
        /\ Len(free_list') = Len(num_pages') /\ Len(pages') = Len(num_pages')
    BY <1>0, <1>3, <1>5
  <2>2. held' \subseteq Zone' \X Nat \X Orders
    <3>1. Zone \subseteq Zone'
      BY <1>6, <1>7
    <3> QED
      BY <1>0, <1>3, <3>1
  <2> QED
    BY <1>0, <1>3, <2>1, <2>2 DEF BuddyTypes
<1>9. ASSUME NEW z \in Zone' PROVE ZoneIsOK(z)'
  <2>1. HeldCells(z)' = HeldCells(z)
    BY <1>3 DEF HeldCells
  <2>2. CASE z = w
    <3>1. free_list'[z] = L /\ pages'[z] = D /\ num_pages'[z] = n
      BY <1>0, <1>3, <1>5, <1>6, <2>2
    <3>2. z \notin Zone
      BY <1>6, <1>7, <2>2
    <3>3. HeldCells(z) = {}
      BY <1>0, <3>2 DEF HeldCells
    <3> QED
      BY <1>4, <2>1, <3>1, <3>3 DEF ZoneIsOK
  <2>3. CASE z # w
    <3>1. z \in Zone
      BY <1>6, <1>7, <2>3
    <3>2. free_list'[z] = free_list[z] /\ pages'[z] = pages[z] /\ num_pages'[z] = num_pages[z]
      BY <1>0, <1>3, <1>5, <1>6, <1>7, <3>1
    <3> QED
      BY <2>1, <3>1, <3>2 DEF ZoneIsOK, BuddyInv
  <2> QED
    BY <2>2, <2>3
<1> QED
  BY <1>8, <1>9 DEF BuddyInv

(* A step that replaces one zone by one that is in order. *)
Replaces(z, K, E, G) ==
  /\ z \in Zone /\ ZoneOK(K, E, G, num_pages[z]) /\ num_pages' = num_pages
  /\ free_list' = [free_list EXCEPT ![z] = K] /\ pages' = [pages EXCEPT ![z] = E]
  /\ held' \subseteq Zone \X Nat \X Orders /\ panic' \in BOOLEAN
  /\ HeldCells(z)' = G /\ \A y \in Zone : y # z => HeldCells(y)' = HeldCells(y)

LEMMA ReplaceZone ==
  ASSUME BuddyInv, NEW z, NEW K, NEW E, NEW G, Replaces(z, K, E, G)
  PROVE  BuddyInv'
<1>0. /\ num_pages \in Seq(Nat) /\ free_list \in Seq(Lists) /\ pages \in Seq(PageTables)
      /\ Len(free_list) = Len(num_pages) /\ Len(pages) = Len(num_pages)
  BY DEF BuddyInv, BuddyTypes
<1>1. /\ z \in Zone /\ ZoneOK(K, E, G, num_pages[z]) /\ num_pages' = num_pages
      /\ free_list' = [free_list EXCEPT ![z] = K] /\ pages' = [pages EXCEPT ![z] = E]
      /\ held' \subseteq Zone \X Nat \X Orders /\ panic' \in BOOLEAN
      /\ HeldCells(z)' = G /\ \A y \in Zone : y # z => HeldCells(y)' = HeldCells(y)
  BY DEF Replaces
<1>2. Zone' = Zone /\ Zone = 1 .. Len(num_pages) /\ num_pages[z] \in Nat
  BY <1>0, <1>1 DEF Zone
<1>3. K \in Lists /\ E \in PageTables
  BY <1>1, <1>2, TableOf
<1>4. BuddyTypes'
  <2>0. z \in 1 .. Len(free_list) /\ z \in 1 .. Len(pages)
    BY <1>0, <1>1, <1>2
  <2>1. free_list' \in Seq(Lists) /\ Len(free_list') = Len(free_list)
    BY <1>0, <1>1, <1>3, <2>0, ExceptSeq
  <2>2. pages' \in Seq(PageTables) /\ Len(pages') = Len(pages)
    BY <1>0, <1>1, <1>3, <2>0, ExceptSeq
  <2> QED
    BY <1>0, <1>1, <1>2, <2>1, <2>2 DEF BuddyTypes
<1>5. ASSUME NEW y \in Zone PROVE ZoneIsOK(y)'
  <2>1. y \in DOMAIN free_list /\ y \in DOMAIN pages
    BY <1>0, <1>2
  <2>2. CASE y = z
    <3>1. free_list'[y] = K /\ pages'[y] = E /\ num_pages'[y] = num_pages[z]
      BY <1>1, <2>1, <2>2
    <3> QED
      BY <1>1, <2>2, <3>1 DEF ZoneIsOK
  <2>3. CASE y # z
    <3>1. free_list'[y] = free_list[y] /\ pages'[y] = pages[y] /\ num_pages'[y] = num_pages[y]
      BY <1>1, <2>1, <2>3
    <3> QED
      BY <1>1, <2>3, <3>1 DEF ZoneIsOK, BuddyInv
  <2> QED
    BY <2>2, <2>3
<1> QED
  BY <1>2, <1>4, <1>5 DEF BuddyInv
-----------------------------------------------------------------------------
(* What alloc_pages() does when a zone can serve the request. *)
Takes(z, idx, order, h) ==
  /\ z \in Zone /\ idx \in Nat /\ h \in Order /\ order \in Orders /\ order <= h
  /\ free_list[z][h] # <<>> /\ idx = Head(free_list[z][h])
  /\ free_list' = [free_list EXCEPT ![z] = AllocLists(free_list[z], idx, order, h)]
  /\ pages' = [pages EXCEPT ![z] = AllocDescs(pages[z], idx, order, h, num_pages[z])]
  /\ held' = held \cup {<<z, idx, order>>} /\ panic' = panic /\ num_pages' = num_pages

LEMMA ZoneAllocIs ==
  ASSUME BuddyInv, NEW z \in Zone, NEW order \in Orders, Candidates(z, order) # {},
         zone_alloc_pages(z, order), UNCHANGED <<num_pages, panic>>
  PROVE  \E idx \in Nat, h \in Order : Takes(z, idx, order, h)
<1>0. /\ MAX_ORDER \in Nat /\ order \in Order /\ order \in Nat /\ num_pages[z] \in Nat
      /\ \A o \in Order : free_list[z][o] \in Seq(Nat)
      /\ z \in DOMAIN free_list /\ z \in DOMAIN pages
  <2>1. ZoneIsOK(z)
    BY DEF BuddyInv
  <2>2. free_list[z] \in Lists
    BY <2>1 DEF ZoneIsOK, ZoneOK
  <2>3. /\ num_pages \in Seq(Nat) /\ free_list \in Seq(Lists) /\ pages \in Seq(PageTables)
        /\ Len(free_list) = Len(num_pages) /\ Len(pages) = Len(num_pages)
    BY DEF BuddyInv, BuddyTypes
  <2>4. num_pages[z] \in Nat /\ z \in DOMAIN free_list /\ z \in DOMAIN pages
    BY <2>3 DEF Zone
  <2> QED
    BY <2>2, <2>4, OrdersIn, OrderNat DEF Lists
<1>1. PICK C : C = Candidates(z, order)
  OBVIOUS
<1>2. C \subseteq Nat /\ C \subseteq Order /\ C # {}
      /\ \A o \in C : order <= o /\ free_list[z][o] # <<>>
  <2>1. max_order(num_pages[z]) \in Order
    BY <1>0, MaxOrderIs
  <2> QED
    BY <1>0, <1>1, <2>1 DEF Candidates, Order
<1> DEFINE h == CHOOSE o \in Candidates(z, order) : \A p \in Candidates(z, order) : o <= p
           idx == Head(free_list[z][h])
<1>4. h \in C
  <2>1. \E o \in C : \A p \in C : o <= p
    BY <1>2, LeastOf
  <2> QED
    BY <1>1, <2>1
<1>7. /\ free_list' = [free_list EXCEPT ![z] = [o \in 0 .. MAX_ORDER |->
                         IF o = h THEN Tail(@[o])
                         ELSE IF o \in order .. h - 1 THEN <<idx + Size[o]>> \o @[o]
                         ELSE @[o]]]
      /\ pages' = [pages EXCEPT ![z] = [p \in Page(z) |->
                     IF p = idx THEN [order |-> order, used |-> TRUE]
                     ELSE IF \E o \in order .. h - 1 : p = idx + Size[o]
                     THEN [order |-> CHOOSE o \in order .. h - 1 : p = idx + Size[o], used |-> FALSE]
                     ELSE @[p]]]
      /\ held' = held \cup {<<z, idx, order>>}
  BY DEF zone_alloc_pages
<1> HIDE DEF h
<1>5. h \in Order /\ order <= h /\ free_list[z][h] # <<>>
  BY <1>2, <1>4
<1>6. idx \in Nat
  BY <1>0, <1>5, NoElems
<1>8. free_list' = [free_list EXCEPT ![z] = AllocLists(free_list[z], idx, order, h)]
  BY <1>7 DEF AllocLists
<1>9. pages' = [pages EXCEPT ![z] = AllocDescs(pages[z], idx, order, h, num_pages[z])]
  BY <1>7 DEF AllocDescs, Page
<1>10. idx = Head(free_list[z][h])
  OBVIOUS
<1> HIDE DEF idx
<1> QED
  BY <1>5, <1>6, <1>7, <1>8, <1>9, <1>10 DEF Takes

LEMMA AllocIs ==
  ASSUME BuddyInv, NEW order \in Orders, alloc_pages(order), UNCHANGED num_pages
  PROVE  \/ panic' = TRUE /\ UNCHANGED <<num_pages, pages, free_list, held>>
         \/ \E z \in Zone, idx \in Nat, h \in Order : Takes(z, idx, order, h)
<1>1. PICK can : can = {z \in Zone : Candidates(z, order) # {}}
  OBVIOUS
<1>2. CASE can = {}
  BY <1>1, <1>2 DEF alloc_pages
<1>3. CASE can # {}
  <2>1. PICK z : z = CHOOSE x \in can : \A y \in can : x <= y
    OBVIOUS
  <2>2. Zone \subseteq Nat
    BY DEF BuddyInv, BuddyTypes, Zone
  <2>3. \E x \in can : \A y \in can : x <= y
    BY <1>1, <1>3, <2>2, LeastOf
  <2>4. z \in can
    BY <2>1, <2>3
  <2>5. z \in Zone /\ Candidates(z, order) # {}
    BY <1>1, <2>4
  <2>6. zone_alloc_pages(z, order) /\ UNCHANGED panic
    BY <1>1, <1>3, <2>1, Zenon DEF alloc_pages
  <2> QED
    BY <2>5, <2>6, ZoneAllocIs
<1> QED
  BY <1>2, <1>3

LEMMA AllocBuddy ==
  ASSUME BuddyInv, NEW z, NEW idx, NEW order, NEW h, Takes(z, idx, order, h)
  PROVE  BuddyInv'
<1>1. /\ z \in Zone /\ idx \in Nat /\ h \in Order /\ order \in Orders /\ order <= h
      /\ free_list[z][h] # <<>> /\ idx = Head(free_list[z][h])
      /\ free_list' = [free_list EXCEPT ![z] = AllocLists(free_list[z], idx, order, h)]
      /\ pages' = [pages EXCEPT ![z] = AllocDescs(pages[z], idx, order, h, num_pages[z])]
      /\ held' = held \cup {<<z, idx, order>>} /\ panic' = panic /\ num_pages' = num_pages
  BY DEF Takes
<1>2. order \in Order
  BY <1>1, OrdersIn
<1>3. PICK n \in Nat : n = num_pages[z]
  BY <1>1 DEF BuddyInv, BuddyTypes, Zone
<1>4. PICK L : L = free_list[z]
  OBVIOUS
<1>5. PICK D : D = pages[z]
  OBVIOUS
<1>6. PICK H : H = HeldCells(z)
  OBVIOUS
<1>7. ZoneOK(L, D, H, n)
  BY <1>1, <1>3, <1>4, <1>5, <1>6 DEF BuddyInv, ZoneIsOK
<1>8. PICK K : K = AllocLists(L, idx, order, h)
  OBVIOUS
<1>9. PICK E : E = AllocDescs(D, idx, order, h, n)
  OBVIOUS
<1>10. ZoneOK(K, E, H \cup {<<idx, order>>}, n)
  BY <1>1, <1>2, <1>4, <1>7, <1>8, <1>9, AllocOK
<1>11. /\ HeldCells(z)' = H \cup {<<idx, order>>}
       /\ \A y \in Zone : y # z => HeldCells(y)' = HeldCells(y)
  BY <1>1, <1>2, <1>6 DEF HeldCells
<1>12. held' \subseteq Zone \X Nat \X Orders /\ panic' \in BOOLEAN
  BY <1>1 DEF BuddyInv, BuddyTypes
<1>13. Replaces(z, K, E, H \cup {<<idx, order>>})
  BY <1>1, <1>3, <1>4, <1>5, <1>8, <1>9, <1>10, <1>11, <1>12 DEF Replaces
<1> QED
  BY <1>13, ReplaceZone

LEMMA HeldIs ==
  ASSUME BuddyInv, NEW b \in held
  PROVE  \E z \in Zone, idx \in Nat, order \in Orders : b = <<z, idx, order>>
BY DEF BuddyInv, BuddyTypes

LEMMA HeldFrees ==
  ASSUME BuddyInv, NEW z, NEW idx, NEW order, <<z, idx, order>> \in held
  PROVE  z \in Zone /\ idx \in Nat /\ order \in Orders /\ Frees(z, HeldCells(z), idx, order)
<1>1. z \in Zone /\ idx \in Nat /\ order \in Orders /\ num_pages[z] \in Nat
  BY DEF BuddyInv, BuddyTypes, Zone
<1>2. order \in Order
  BY <1>1, OrdersIn
<1>3. <<idx, order>> \in HeldCells(z)
  BY <1>1, <1>2 DEF HeldCells
<1>4. ZoneIsOK(z)
  BY <1>1 DEF BuddyInv
<1> QED
  BY <1>1, <1>2, <1>3, <1>4 DEF Frees, ZoneIsOK

LEMMA FreeBuddy ==
  ASSUME BuddyInv, NEW z, NEW idx, NEW order, free_pages(z, idx, order), UNCHANGED num_pages
  PROVE  BuddyInv'
<1> DEFINE at == MergedAt(idx, order)
           top == MergeTop(z, idx, order)
<1>1. <<z, idx, order>> \in held
  BY DEF free_pages
<1>2. /\ free_list' = [free_list EXCEPT ![z] = [o \in 0 .. MAX_ORDER |->
                         IF o = top THEN <<at[top]>> \o @[o]
                         ELSE IF o \in order .. top - 1
                         THEN Without(@[o], buddy_index(at[o], o))
                         ELSE @[o]]]
      /\ pages' = [pages EXCEPT ![z] = [p \in Page(z) |->
                     IF {k \in order .. top : at[k] = p} = {} THEN @[p]
                     ELSE [order |-> Largest({k \in order .. top : at[k] = p}), used |-> FALSE]]]
      /\ held' = held \ {<<z, idx, order>>}
      /\ panic' = panic
  BY DEF free_pages
<1>3. PICK f : f = at
  OBVIOUS
<1>4. PICK m : m = top
  OBVIOUS
<1>5. /\ free_list' = [free_list EXCEPT ![z] = FreeLists(free_list[z], at, order, top)]
      /\ pages' = [pages EXCEPT ![z] = FreeDescs(pages[z], at, order, top, num_pages[z])]
  <2> HIDE DEF at, top
  <2> QED
    BY <1>2 DEF FreeLists, FreeDescs, Page
<1>6. z \in Zone /\ idx \in Nat /\ order \in Orders /\ Frees(z, HeldCells(z), idx, order)
  BY <1>1, HeldFrees
<1>7. PICK K : K = FreeLists(free_list[z], at, order, top)
  OBVIOUS
<1>8. PICK E : E = FreeDescs(pages[z], at, order, top, num_pages[z])
  OBVIOUS
<1>9. PICK G : G = HeldCells(z) \ {<<idx, order>>}
  OBVIOUS
<1>10. ZoneOK(K, E, G, num_pages[z])
  <2>1. ZoneOK(FreeLists(free_list[z], f, order, m), FreeDescs(pages[z], f, order, m, num_pages[z]),
               G, num_pages[z])
    BY <1>3, <1>4, <1>6, <1>9, FreeOK
  <2> HIDE DEF at, top
  <2> QED
    BY <1>3, <1>4, <1>7, <1>8, <2>1
<1> HIDE DEF at, top
<1>11. /\ HeldCells(z)' = G
       /\ \A y \in Zone : y # z => HeldCells(y)' = HeldCells(y)
  BY <1>2, <1>9 DEF HeldCells
<1>12. held' \subseteq Zone \X Nat \X Orders /\ panic' \in BOOLEAN
  BY <1>2 DEF BuddyInv, BuddyTypes
<1>13. Replaces(z, K, E, G)
  BY <1>5, <1>6, <1>7, <1>8, <1>10, <1>11, <1>12 DEF Replaces
<1> QED
  BY <1>13, ReplaceZone

(* The whole machine: buddy_init(), then alloc_pages() and free_pages(). *)
PhysicalInv == TypeOK /\ BuddyInv

LEMMA HaltBuddy ==
  ASSUME BuddyInv, UNCHANGED <<num_pages, pages, free_list, held>>, panic' \in BOOLEAN
  PROVE  BuddyInv'
<1>1. Zone' = Zone /\ \A z \in Zone : HeldCells(z)' = HeldCells(z)
  BY DEF Zone, HeldCells
<1>2. BuddyTypes'
  BY <1>1 DEF BuddyInv, BuddyTypes
<1>3. \A z \in Zone : ZoneIsOK(z)'
  BY <1>1 DEF BuddyInv, ZoneIsOK
<1> QED
  BY <1>1, <1>2, <1>3 DEF BuddyInv

LEMMA UseBuddy ==
  ASSUME BuddyInv, Use
  PROVE  BuddyInv'
<1>1. num_pages' = num_pages
  BY DEF Use
<1>2. ASSUME NEW order \in Orders, alloc_pages(order) PROVE BuddyInv'
  <2>1. CASE panic' = TRUE /\ UNCHANGED <<num_pages, pages, free_list, held>>
    BY <2>1, HaltBuddy
  <2>2. CASE \E z \in Zone, idx \in Nat, h \in Order : Takes(z, idx, order, h)
    BY <2>2, AllocBuddy
  <2> QED
    BY <1>1, <1>2, <2>1, <2>2, AllocIs
<1>3. ASSUME NEW b \in held, free_pages(b[1], b[2], b[3]) PROVE BuddyInv'
  BY <1>1, <1>3, FreeBuddy
<1>4. CASE Halted
  BY <1>4, HaltBuddy DEF Halted, buddyVars, BuddyInv, BuddyTypes
<1> QED
  BY <1>2, <1>3, <1>4 DEF Use

LEMMA PhysicalInitInv == PhysicalInit => PhysicalInv
BY InitTypes, InitBuddy DEF PhysicalInit, PhysicalInv

LEMMA PhysicalNextInv ==
  ASSUME PhysicalInv, [PhysicalNext]_allVars
  PROVE  PhysicalInv'
<1>1. TypeOK /\ BuddyInv
  BY DEF PhysicalInv
<1>2. CASE BootStep
  <2>1. TypeOK'
    BY <1>1, <1>2, NextTypes DEF BootStep
  <2>2. CASE zones' = zones
    <3>1. UNCHANGED buddyVars
      BY <1>2, <2>2 DEF BootStep
    <3>2. BuddyInv'
      BY <1>1, <3>1, HaltBuddy DEF buddyVars, BuddyInv, BuddyTypes
    <3> QED
      BY <2>1, <3>2 DEF PhysicalInv
  <2>3. CASE zones' # zones
    <3>1. NewZone(PageCount(zones'[Len(zones')]))
      BY <1>2, <2>3 DEF BootStep
    <3>2. PageCount(zones'[Len(zones')]) \in Nat
      BY <1>1, <1>2, <2>3, NewZoneSize DEF BootStep
    <3>3. BuddyInv'
      BY <1>1, <3>1, <3>2, NewZoneBuddy
    <3> QED
      BY <2>1, <3>3 DEF PhysicalInv
  <2> QED
    BY <2>2, <2>3
<1>3. CASE Booted /\ UNCHANGED vars /\ Use
  BY <1>1, <1>3, NextTypes, UseBuddy DEF PhysicalInv
<1>4. CASE UNCHANGED allVars
  <2>1. UNCHANGED vars /\ UNCHANGED buddyVars
    BY <1>4 DEF allVars
  <2>2. BuddyInv'
    BY <1>1, <2>1, HaltBuddy DEF buddyVars, BuddyInv, BuddyTypes
  <2> QED
    BY <1>1, <2>1, <2>2, NextTypes DEF PhysicalInv
<1> QED
  BY <1>2, <1>3, <1>4 DEF PhysicalNext
-----------------------------------------------------------------------------
(* What the invariant says of the blocks of all zones. *)
ZoneCells(z) == Cells(free_list[z]) \cup HeldCells(z)

LEMMA ZoneFacts ==
  ASSUME BuddyInv, NEW z \in Zone
  PROVE  /\ num_pages[z] \in Nat /\ free_list[z] \in Lists
         /\ Tiling(ZoneCells(z), 0, num_pages[z])
         /\ Cells(free_list[z]) \cap HeldCells(z) = {}
         /\ \A o \in Order : Distinct(free_list[z][o])
         /\ NoBuddies(Cells(free_list[z]), num_pages[z])
<1>1. ZoneIsOK(z) /\ num_pages[z] \in Nat
  BY DEF BuddyInv, BuddyTypes, Zone
<1> QED
  BY <1>1 DEF ZoneIsOK, ZoneOK, ZoneCells

LEMMA FreeIs ==
  ASSUME BuddyInv
  PROVE  \A b : b \in FreeBlocks <=>
           \E z \in Zone, p \in Nat, o \in Order :
             b = <<z, p, o>> /\ <<p, o>> \in Cells(free_list[z])
<1>1. \A z \in Zone, o \in Order : Elems(free_list[z][o]) \subseteq Nat
  <2> TAKE z \in Zone, o \in Order
  <2>1. free_list[z][o] \in Seq(Nat)
    BY ZoneFacts DEF Lists
  <2> QED
    BY <2>1, ElemsNat
<1> TAKE b
<1>2. ASSUME b \in FreeBlocks
      PROVE  \E z \in Zone, p \in Nat, o \in Order :
               b = <<z, p, o>> /\ <<p, o>> \in Cells(free_list[z])
  <2>1. PICK z \in Zone, o \in Order : b \in {<<z, p, o>> : p \in Elems(free_list[z][o])}
    BY <1>2 DEF FreeBlocks, Order
  <2>2. PICK p \in Elems(free_list[z][o]) : b = <<z, p, o>>
    BY <2>1
  <2> QED
    BY <1>1, <2>2 DEF Cells
<1>3. ASSUME NEW z \in Zone, NEW p \in Nat, NEW o \in Order,
             b = <<z, p, o>>, <<p, o>> \in Cells(free_list[z])
      PROVE  b \in FreeBlocks
  <2>1. p \in Elems(free_list[z][o])
    BY <1>3 DEF Cells
  <2>2. b \in {<<z, q, o>> : q \in Elems(free_list[z][o])}
    BY <1>3, <2>1
  <2>3. PICK B : B = {<<z, q, o>> : q \in Elems(free_list[z][o])}
    OBVIOUS
  <2>4. B \in {{<<w, q, l>> : q \in Elems(free_list[w][l])} : w \in Zone, l \in 0 .. MAX_ORDER}
    BY <2>3 DEF Order
  <2> QED
    BY <2>2, <2>3, <2>4 DEF FreeBlocks
<1> QED
  BY <1>2, <1>3

LEMMA HeldCell ==
  ASSUME BuddyInv
  PROVE  \A b : b \in held <=>
           \E z \in Zone, p \in Nat, o \in Order :
             b = <<z, p, o>> /\ <<p, o>> \in HeldCells(z)
<1> TAKE b
<1>1. ASSUME b \in held
      PROVE  \E z \in Zone, p \in Nat, o \in Order :
               b = <<z, p, o>> /\ <<p, o>> \in HeldCells(z)
  <2>1. PICK z \in Zone, p \in Nat, o \in Orders : b = <<z, p, o>>
    BY <1>1, HeldIs
  <2>2. <<p, o>> \in HeldCells(z)
    BY <1>1, <2>1, OrdersIn DEF HeldCells
  <2> QED
    BY <2>1, <2>2, OrdersIn
<1> QED
  BY <1>1 DEF HeldCells

LEMMA BlockIs ==
  ASSUME BuddyInv
  PROVE  \A b : b \in FreeBlocks \cup held <=>
           \E z \in Zone, p \in Nat, o \in Order : b = <<z, p, o>> /\ <<p, o>> \in ZoneCells(z)
BY FreeIs, HeldCell DEF ZoneCells

LEMMA SpanIs ==
  ASSUME NEW z, NEW p \in Nat, NEW o \in Order
  PROVE  \A y, x : <<y, x>> \in Span(<<z, p, o>>) <=> y = z /\ x \in Nat /\ Contains(<<p, o>>, x)
<1>1. PICK s \in Nat : s = Size[o]
  BY SizeNat
<1>2. Span(<<z, p, o>>) = {<<z, x>> : x \in p .. p + s - 1}
  BY <1>1 DEF Span
<1>3. \A x : x \in p .. p + s - 1 <=> x \in Nat /\ p <= x /\ x < p + s
  BY <1>1
<1> QED
  BY <1>1, <1>2, <1>3 DEF Contains

LEMMA PartitionHolds == BuddyInv => Partition
<1> SUFFICES ASSUME BuddyInv PROVE Partition
  OBVIOUS
<1>1. ASSUME NEW z \in Zone, NEW x \in Page(z)
      PROVE  Cardinality({b \in FreeBlocks \cup held : <<z, x>> \in Span(b)}) = 1
  <2>1. x \in Nat /\ x \in 0 .. num_pages[z] - 1
    BY <1>1, ZoneFacts DEF Page
  <2>2. PICK c \in ZoneCells(z) : Contains(c, x)
    BY <2>1, ZoneFacts DEF Tiling
  <2>3. PICK p \in Nat, o \in Order : c = <<p, o>>
    BY ZoneFacts DEF Tiling, Fits
  <2>4. <<z, p, o>> \in FreeBlocks \cup held /\ <<z, x>> \in Span(<<z, p, o>>)
    BY <2>1, <2>2, <2>3, BlockIs, SpanIs
  <2>5. ASSUME NEW b \in FreeBlocks \cup held, <<z, x>> \in Span(b) PROVE b = <<z, p, o>>
    <3>1. PICK y \in Zone, q \in Nat, k \in Order : b = <<y, q, k>> /\ <<q, k>> \in ZoneCells(y)
      BY BlockIs
    <3>2. y = z /\ Contains(<<q, k>>, x)
      BY <2>5, <3>1, SpanIs
    <3>3. <<q, k>> = <<p, o>>
      BY <2>1, <2>2, <2>3, <3>1, <3>2, ZoneFacts DEF Tiling
    <3> QED
      BY <3>1, <3>2, <3>3
  <2>6. {b \in FreeBlocks \cup held : <<z, x>> \in Span(b)} = {<<z, p, o>>}
    BY <2>4, <2>5
  <2> QED
    BY <2>6, FS_Singleton
<1>2. FreeBlocks \cap held = {}
  <2> SUFFICES ASSUME NEW b \in FreeBlocks, b \in held PROVE FALSE
    OBVIOUS
  <2>1. PICK z \in Zone, p \in Nat, o \in Order : b = <<z, p, o>> /\ <<p, o>> \in Cells(free_list[z])
    BY FreeIs
  <2>2. PICK y \in Zone, q \in Nat, k \in Order : b = <<y, q, k>> /\ <<q, k>> \in HeldCells(y)
    BY HeldCell
  <2>3. y = z /\ q = p /\ k = o
    BY <2>1, <2>2
  <2> QED
    BY <2>1, <2>2, <2>3, ZoneFacts
<1>3. ASSUME NEW b \in FreeBlocks \cup held PROVE b[2] + Size[b[3]] <= num_pages[b[1]]
  <2>1. PICK z \in Zone, p \in Nat, o \in Order : b = <<z, p, o>> /\ <<p, o>> \in ZoneCells(z)
    BY BlockIs
  <2> QED
    BY <2>1, ZoneFacts DEF Tiling, Fits
<1>4. ASSUME NEW z \in Zone, NEW o \in 0 .. MAX_ORDER
      PROVE  \A j, k \in DOMAIN free_list[z][o] :
               free_list[z][o][j] = free_list[z][o][k] => j = k
  BY ZoneFacts DEF Distinct, Order
<1> QED
  BY <1>1, <1>2, <1>3, <1>4 DEF Partition

LEMMA SameCells ==
  ASSUME NEW K \in Lists, NEW L \in Lists, Cells(K) = Cells(L), NEW o \in Order
  PROVE  Elems(K[o]) = Elems(L[o])
<1>1. Elems(K[o]) \subseteq Nat /\ Elems(L[o]) \subseteq Nat
  BY ElemsNat DEF Lists
<1>2. \A p \in Nat : /\ p \in Elems(K[o]) <=> <<p, o>> \in Cells(K)
                     /\ p \in Elems(L[o]) <=> <<p, o>> \in Cells(L)
  BY DEF Cells
<1> QED
  BY <1>1, <1>2

LEMMA CoalescedHolds == BuddyInv => Coalesced
<1> SUFFICES ASSUME BuddyInv PROVE Coalesced
  OBVIOUS
<1>1. ASSUME NEW b \in FreeBlocks, b[3] < max_order(num_pages[b[1]]),
             <<b[1], buddy_index(b[2], b[3]), b[3]>> \in FreeBlocks
      PROVE  FALSE
  <2>1. PICK z \in Zone, p \in Nat, o \in Order : b = <<z, p, o>> /\ <<p, o>> \in Cells(free_list[z])
    BY FreeIs
  <2>2. <<z, buddy_index(p, o), o>> \in FreeBlocks
    BY <1>1, <2>1
  <2>3. PICK y \in Zone, q \in Nat, k \in Order :
          <<z, buddy_index(p, o), o>> = <<y, q, k>> /\ <<q, k>> \in Cells(free_list[y])
    BY <2>2, FreeIs
  <2>4. y = z /\ q = buddy_index(p, o) /\ k = o
    BY <2>3
  <2> QED
    BY <1>1, <2>1, <2>3, <2>4, ZoneFacts DEF NoBuddies
<1>2. ASSUME held = {}, NEW z \in Zone, NEW o \in 0 .. MAX_ORDER
      PROVE  Elems(free_list[z][o]) = Elems(zone_build(num_pages[z])[o])
  <2>1. PICK n \in Nat : n = num_pages[z]
    BY ZoneFacts
  <2>2. PICK L \in Lists : L = free_list[z]
    BY ZoneFacts
  <2>3. PICK K \in Lists : K = zone_build(n) /\ BuiltWell(K, 0, n)
    BY ZoneBuilt
  <2>4. HeldCells(z) = {}
    BY <1>2 DEF HeldCells
  <2>5. Tiling(Cells(L), 0, n) /\ NoBuddies(Cells(L), n)
    BY <2>1, <2>2, <2>4, ZoneFacts DEF ZoneCells
  <2>6. Tiling(Cells(K), 0, n) /\ NoBuddies(Cells(K), n)
    BY <2>3, BuiltNoBuddies DEF BuiltWell
  <2>7. Cells(L) = Cells(K)
    BY <2>5, <2>6, OneTiling
  <2> QED
    BY <2>1, <2>2, <2>3, <2>7, SameCells DEF Order
<1> QED
  BY <1>1, <1>2 DEF Coalesced

LEMMA BuddyFoundHolds == BuddyInv => BuddyFound
<1> SUFFICES ASSUME BuddyInv, NEW b \in held,
                    NEW top, top = MergeTop(b[1], b[2], b[3]),
                    NEW idx, idx = MergedAt(b[2], b[3])[top],
                    top < max_order(num_pages[b[1]]), LooksFree(b[1], idx, top)
             PROVE  Listed(b[1], top, buddy_index(idx, top))
  BY DEF BuddyFound
<1>1. PICK z \in Zone, p \in Nat, o \in Orders : b = <<z, p, o>>
  BY HeldIs
<1>2. Frees(z, HeldCells(z), p, o) /\ o \in Order
  BY <1>1, HeldFrees, OrdersIn
<1>3. num_pages[z] \in Nat
  BY <1>1, ZoneFacts
<1>4. /\ top \in o .. MAX_ORDER
      /\ \A j \in o .. top - 1 : Mergeable(z, MergedAt(p, o)[j], j)
  BY <1>1, <1>2, <1>3, MergeTopIs
<1> QED
  BY <1>1, <1>2, <1>4, LooksTrue
-----------------------------------------------------------------------------
(* The pool of pages: the pages of the free blocks are those that no block *)
(* in use contains.                                                        *)
FreePages == UNION {Span(b) : b \in FreeBlocks}

Unused(z, x) == x \in 0 .. num_pages[z] - 1 /\ \A c \in HeldCells(z) : ~ Contains(c, x)

FreeAreUnused ==
  \A y : y \in FreePages <=> \E z \in Zone, x \in Nat : y = <<z, x>> /\ Unused(z, x)

LEMMA FreePagesAre == BuddyInv => FreeAreUnused
<1> SUFFICES ASSUME BuddyInv PROVE FreeAreUnused
  OBVIOUS
<1>1. \A y : y \in FreePages <=>
        \E z \in Zone, p \in Nat, o \in Order :
          <<p, o>> \in Cells(free_list[z]) /\ y \in Span(<<z, p, o>>)
  <2> TAKE y
  <2>1. y \in FreePages <=> \E b \in FreeBlocks : y \in Span(b)
    BY DEF FreePages
  <2>2. ASSUME NEW b \in FreeBlocks, y \in Span(b)
        PROVE  \E z \in Zone, p \in Nat, o \in Order :
                 <<p, o>> \in Cells(free_list[z]) /\ y \in Span(<<z, p, o>>)
    BY <2>2, FreeIs
  <2>3. ASSUME NEW z \in Zone, NEW p \in Nat, NEW o \in Order,
               <<p, o>> \in Cells(free_list[z]), y \in Span(<<z, p, o>>)
        PROVE  \E b \in FreeBlocks : y \in Span(b)
    <3>1. <<z, p, o>> \in FreeBlocks
      BY <2>3, FreeIs
    <3> QED
      BY <2>3, <3>1
  <2> QED
    BY <2>1, <2>2, <2>3
<1>2. ASSUME NEW z \in Zone, NEW x \in Nat
      PROVE  Unused(z, x) <=>
               \E p \in Nat, o \in Order : <<p, o>> \in Cells(free_list[z]) /\ Contains(<<p, o>>, x)
  <2>1. /\ Tiling(ZoneCells(z), 0, num_pages[z]) /\ num_pages[z] \in Nat
        /\ Cells(free_list[z]) \cap HeldCells(z) = {}
    BY ZoneFacts
  <2>2. ASSUME NEW p \in Nat, NEW o \in Order, <<p, o>> \in Cells(free_list[z]), Contains(<<p, o>>, x)
        PROVE  Unused(z, x)
    <3>1. Fits(<<p, o>>, 0, num_pages[z])
      BY <2>1, <2>2 DEF Tiling, ZoneCells
    <3>2. x \in 0 .. num_pages[z] - 1
      BY <2>1, <2>2, <3>1, SizeNat DEF Fits, Contains
    <3>3. \A c \in HeldCells(z) : ~ Contains(c, x)
      BY <2>1, <2>2 DEF Tiling, ZoneCells
    <3> QED
      BY <3>2, <3>3 DEF Unused
  <2>3. ASSUME Unused(z, x)
        PROVE  \E p \in Nat, o \in Order : <<p, o>> \in Cells(free_list[z]) /\ Contains(<<p, o>>, x)
    <3>1. PICK c \in ZoneCells(z) : Contains(c, x)
      BY <2>1, <2>3 DEF Unused, Tiling
    <3>2. c \in Cells(free_list[z])
      BY <2>3, <3>1 DEF Unused, ZoneCells
    <3>3. PICK p \in Nat, o \in Order : c = <<p, o>>
      BY <3>2 DEF Cells
    <3> QED
      BY <3>1, <3>2, <3>3
  <2> QED
    BY <2>2, <2>3
<1> SUFFICES ASSUME NEW y
             PROVE  y \in FreePages <=> \E z \in Zone, x \in Nat : y = <<z, x>> /\ Unused(z, x)
  BY DEF FreeAreUnused
<1>3. ASSUME y \in FreePages PROVE \E z \in Zone, x \in Nat : y = <<z, x>> /\ Unused(z, x)
  <2>1. PICK z \in Zone, p \in Nat, o \in Order :
          <<p, o>> \in Cells(free_list[z]) /\ y \in Span(<<z, p, o>>)
    BY <1>1, <1>3
  <2>2. PICK x : y = <<z, x>>
    BY <2>1 DEF Span
  <2>3. x \in Nat /\ Contains(<<p, o>>, x)
    BY <2>1, <2>2, SpanIs
  <2> QED
    BY <1>2, <2>1, <2>2, <2>3
<1>4. ASSUME NEW z \in Zone, NEW x \in Nat, y = <<z, x>>, Unused(z, x) PROVE y \in FreePages
  <2>1. PICK p \in Nat, o \in Order : <<p, o>> \in Cells(free_list[z]) /\ Contains(<<p, o>>, x)
    BY <1>2, <1>4
  <2>2. y \in Span(<<z, p, o>>)
    BY <1>4, <2>1, SpanIs
  <2> QED
    BY <1>1, <2>1, <2>2
<1> QED
  BY <1>3, <1>4

LEMMA PoolBlock ==
  ASSUME NEW z, NEW p \in Nat, NEW o \in Order
  PROVE  \A y : y \in Pool!Block(z, p, o) <=> \E x \in Nat : y = <<z, x>> /\ Contains(<<p, o>>, x)
<1>1. PICK s \in Nat : s = Size[o]
  BY SizeNat
<1>2. Pool!Block(z, p, o) = {<<z, x>> : x \in p .. p + s - 1}
  BY <1>1 DEF Pool!Block
<1>3. \A x : x \in p .. p + s - 1 <=> x \in Nat /\ p <= x /\ x < p + s
  BY <1>1
<1> QED
  BY <1>1, <1>2, <1>3 DEF Contains

LEMMA PoolAddZone ==
  ASSUME BuddyInv, BuddyInv', NEW n \in Nat, NewZone(n)
  PROVE  Pool!AddZone
<1>0. num_pages \in Seq(Nat) /\ held \subseteq Zone \X Nat \X Orders
  BY DEF BuddyInv, BuddyTypes
<1>1. num_pages' = Append(num_pages, n) /\ held' = held
  BY DEF NewZone
<1>2. PICK w \in Nat : w = Len(num_pages) + 1
  BY <1>0
<1>3. /\ Zone = 1 .. w - 1 /\ Zone' = 1 .. w /\ num_pages'[w] = n
      /\ \A z \in Zone : num_pages'[z] = num_pages[z]
  BY <1>0, <1>1, <1>2 DEF Zone
<1>4. Len(num_pages') = w /\ SubSeq(num_pages', 1, w - 1) = num_pages
  BY <1>0, <1>1, <1>2
<1>5. \A z : HeldCells(z)' = HeldCells(z)
  BY <1>1 DEF HeldCells
<1>6. HeldCells(w) = {}
  BY <1>0, <1>2, <1>3 DEF HeldCells
<1>7. \A z \in Zone, x \in Nat : Unused(z, x)' <=> Unused(z, x)
  BY <1>3, <1>5 DEF Unused
<1>8. \A x \in Nat : Unused(w, x)' <=> x \in 0 .. n - 1
  BY <1>3, <1>5, <1>6 DEF Unused
<1>9. FreePages' = FreePages \cup {<<w, p>> : p \in 0 .. n - 1}
  <2>0. FreeAreUnused /\ FreeAreUnused'
    BY FreePagesAre, PTL
  <2>1. \A y : y \in FreePages' <=> \E z \in Zone', x \in Nat : y = <<z, x>> /\ Unused(z, x)'
    BY <2>0 DEF FreeAreUnused
  <2>2. Zone' = Zone \cup {w}
    BY <1>2, <1>3
  <2>3. \A y : y \in FreePages' <=> \/ y \in FreePages
                                   \/ \E x \in 0 .. n - 1 : y = <<w, x>>
    BY <1>7, <1>8, <2>0, <2>1, <2>2 DEF FreeAreUnused
  <2> QED
    BY <2>3
<1> QED
  BY <1>1, <1>2, <1>3, <1>4, <1>9 DEF Pool!AddZone, FreePages

LEMMA PoolAlloc ==
  ASSUME BuddyInv, BuddyInv', NEW z, NEW idx, NEW order, NEW h, Takes(z, idx, order, h)
  PROVE  idx \in 0 .. num_pages[z] - 1 /\ Pool!Alloc(z, idx, order)
<1>0. /\ z \in Zone /\ idx \in Nat /\ h \in Order /\ order \in Order
      /\ free_list[z][h] # <<>> /\ idx = Head(free_list[z][h])
      /\ held' = held \cup {<<z, idx, order>>} /\ num_pages' = num_pages
  BY OrdersIn DEF Takes
<1>1. num_pages[z] \in Nat /\ Tiling(ZoneCells(z), 0, num_pages[z]) /\ free_list[z][h] \in Seq(Nat)
      /\ Cells(free_list[z]) \cap HeldCells(z) = {}
  BY <1>0, ZoneFacts DEF Lists
<1>2. PICK b \in Nat \X Order : b = <<idx, order>>
  BY <1>0
<1>3. b \notin HeldCells(z)
  <2>1. <<idx, h>> \in Cells(free_list[z])
    BY <1>0, <1>1, NoElems DEF Cells
  <2>2. Contains(<<idx, h>>, idx) /\ Contains(<<idx, order>>, idx)
    BY <1>0, ContainsFirst
  <2>3. b \in HeldCells(z) => b = <<idx, h>>
    BY <1>0, <1>1, <1>2, <2>1, <2>2 DEF Tiling, ZoneCells
  <2> QED
    BY <1>1, <2>1, <2>3
<1>4. /\ HeldCells(z)' = HeldCells(z) \cup {b}
      /\ \A y \in Zone : y # z => HeldCells(y)' = HeldCells(y)
  BY <1>0, <1>2 DEF HeldCells
<1>5. Zone' = Zone
  BY <1>0 DEF Zone
<1>6. \A x \in Nat : Contains(b, x) => Unused(z, x)
  <2> SUFFICES ASSUME NEW x \in Nat, Contains(b, x) PROVE Unused(z, x)
    OBVIOUS
  <2>0. Contains(b, x)
    OBVIOUS
  <2>1. ZoneIsOK(z)'
    BY <1>0, <1>5 DEF BuddyInv
  <2>2. PICK S : S = Cells(free_list'[z]) \cup HeldCells(z)'
    OBVIOUS
  <2>3. Tiling(S, 0, num_pages[z]) /\ b \in S
    BY <1>0, <1>4, <2>1, <2>2 DEF ZoneIsOK, ZoneOK
  <2>4. x \in 0 .. num_pages[z] - 1
    <3>1. Fits(<<idx, order>>, 0, num_pages[z])
      BY <1>2, <2>3 DEF Tiling
    <3>2. idx + Size[order] <= num_pages[z]
      BY <3>1 DEF Fits
    <3>3. x < idx + Size[order]
      BY <1>2, <2>0 DEF Contains
    <3>4. PICK s \in Nat : s = Size[order]
      BY <1>0, SizeNat
    <3>5. PICK n \in Nat : n = num_pages[z]
      BY <1>1
    <3> QED
      BY <1>0, <3>2, <3>3, <3>4, <3>5
  <2>5. \A c \in HeldCells(z) : ~ Contains(c, x)
    BY <1>3, <1>4, <2>2, <2>3 DEF Tiling
  <2> QED
    BY <2>4, <2>5 DEF Unused
<1>7. FreeAreUnused /\ FreeAreUnused'
  BY FreePagesAre, PTL
<1>8. \A y \in Zone, x \in Nat : Unused(y, x)' <=> Unused(y, x) /\ ~(y = z /\ Contains(b, x))
  BY <1>0, <1>4 DEF Unused
<1>9. \A y : y \in Pool!Block(z, idx, order) <=> \E x \in Nat : y = <<z, x>> /\ Contains(b, x)
  BY <1>0, <1>2, PoolBlock
<1>10. Pool!Block(z, idx, order) \subseteq FreePages
  BY <1>0, <1>6, <1>7, <1>9 DEF FreeAreUnused
<1>11. FreePages' = FreePages \ Pool!Block(z, idx, order)
  <2>1. \A y : y \in FreePages' <=> \E q \in Zone, x \in Nat : y = <<q, x>> /\ Unused(q, x)'
    BY <1>5, <1>7 DEF FreeAreUnused
  <2>2. \A y : y \in FreePages <=> \E q \in Zone, x \in Nat : y = <<q, x>> /\ Unused(q, x)
    BY <1>7 DEF FreeAreUnused
  <2>3. ASSUME NEW y PROVE y \in FreePages' <=> y \in FreePages /\ y \notin Pool!Block(z, idx, order)
    BY <1>8, <1>9, <2>1, <2>2
  <2> QED
    BY <2>3
<1>12. idx \in 0 .. num_pages[z] - 1
  BY <1>0, <1>2, <1>6, ContainsFirst DEF Unused
<1> QED
  BY <1>0, <1>10, <1>11, <1>12 DEF Pool!Alloc, FreePages

LEMMA PoolFree ==
  ASSUME BuddyInv, BuddyInv', NEW z, NEW idx, NEW order,
         free_pages(z, idx, order), num_pages' = num_pages
  PROVE  /\ z \in Zone /\ order \in Orders /\ idx \in 0 .. num_pages[z] - 1
         /\ Pool!Free(z, idx, order)
<1>a. <<z, idx, order>> \in held /\ held' = held \ {<<z, idx, order>>}
  BY DEF free_pages
<1>0. z \in Zone /\ idx \in Nat /\ order \in Orders /\ order \in Order
  BY <1>a, HeldFrees, OrdersIn
<1>1. num_pages[z] \in Nat /\ Tiling(ZoneCells(z), 0, num_pages[z])
  BY <1>0, ZoneFacts
<1>2. PICK b \in Nat \X Order : b = <<idx, order>>
  BY <1>0
<1>3. b \in HeldCells(z) /\ b \in ZoneCells(z)
  BY <1>a, <1>0, <1>2 DEF HeldCells, ZoneCells
<1>4. /\ HeldCells(z)' = HeldCells(z) \ {b}
      /\ \A y \in Zone : y # z => HeldCells(y)' = HeldCells(y)
  BY <1>a, <1>0, <1>2 DEF HeldCells
<1>5. Zone' = Zone
  BY DEF Zone
<1>6. ASSUME NEW x \in Nat, Contains(b, x)
      PROVE  /\ x \in 0 .. num_pages[z] - 1
             /\ \A c \in HeldCells(z) : Contains(c, x) => c = b
  <2>1. Fits(<<idx, order>>, 0, num_pages[z])
    BY <1>1, <1>2, <1>3 DEF Tiling
  <2>2. x \in 0 .. num_pages[z] - 1
    BY <1>0, <1>1, <1>2, <1>6, <2>1, SizeNat DEF Fits, Contains
  <2> QED
    BY <1>1, <1>3, <1>6, <2>2 DEF Tiling, ZoneCells
<1>7. FreeAreUnused /\ FreeAreUnused'
  BY FreePagesAre, PTL
<1>8. \A y \in Zone, x \in Nat : Unused(y, x)' <=> Unused(y, x) \/ (y = z /\ Contains(b, x))
  BY <1>0, <1>3, <1>4, <1>6 DEF Unused
<1>9. \A y : y \in Pool!Block(z, idx, order) <=> \E x \in Nat : y = <<z, x>> /\ Contains(b, x)
  BY <1>0, <1>2, PoolBlock
<1>11. FreePages' = FreePages \cup Pool!Block(z, idx, order)
  <2>1. \A y : y \in FreePages' <=> \E q \in Zone, x \in Nat : y = <<q, x>> /\ Unused(q, x)'
    BY <1>5, <1>7 DEF FreeAreUnused
  <2>2. \A y : y \in FreePages <=> \E q \in Zone, x \in Nat : y = <<q, x>> /\ Unused(q, x)
    BY <1>7 DEF FreeAreUnused
  <2>3. ASSUME NEW y PROVE y \in FreePages' <=> y \in FreePages \/ y \in Pool!Block(z, idx, order)
    BY <1>0, <1>8, <1>9, <2>1, <2>2
  <2> QED
    BY <2>3
<1>12. idx \in 0 .. num_pages[z] - 1
  BY <1>0, <1>2, <1>6, ContainsFirst
<1> QED
  BY <1>a, <1>0, <1>11, <1>12 DEF Pool!Free, FreePages

(* Every step of the machine is a step of the pool or changes nothing of it. *)
LEMMA PoolStep ==
  ASSUME PhysicalInv, PhysicalInv', [PhysicalNext]_allVars
  PROVE  [Pool!Next]_<<num_pages, FreePages, held>>
<1>1. BuddyInv /\ BuddyInv'
  BY DEF PhysicalInv
<1>2. ASSUME UNCHANGED <<num_pages, held, free_list>> PROVE UNCHANGED <<num_pages, FreePages, held>>
  BY <1>2 DEF FreePages, FreeBlocks, Zone
<1>3. CASE BootStep
  <2>1. CASE zones' = zones
    BY <1>2, <1>3, <2>1 DEF BootStep, buddyVars
  <2>2. CASE zones' # zones
    <3>1. PICK n : n = PageCount(zones'[Len(zones')])
      OBVIOUS
    <3>2. n \in Nat /\ NewZone(n)
      BY <1>3, <2>2, <3>1, NewZoneSize DEF BootStep, PhysicalInv
    <3>3. Pool!AddZone
      BY <1>1, <3>2, PoolAddZone
    <3> QED
      BY <3>3 DEF Pool!Next
  <2> QED
    BY <2>1, <2>2
<1>4. CASE Use
  <2>1. num_pages' = num_pages
    BY <1>4 DEF Use
  <2>2. ASSUME NEW order \in Orders, alloc_pages(order)
        PROVE  [Pool!Next]_<<num_pages, FreePages, held>>
    <3>1. CASE panic' = TRUE /\ UNCHANGED <<num_pages, pages, free_list, held>>
      BY <1>2, <3>1
    <3>2. CASE \E z \in Zone, idx \in Nat, h \in Order : Takes(z, idx, order, h)
      <4>1. PICK z \in Zone, idx \in Nat, h \in Order : Takes(z, idx, order, h)
        BY <3>2
      <4>2. idx \in 0 .. num_pages[z] - 1 /\ Pool!Alloc(z, idx, order)
        BY <1>1, <4>1, PoolAlloc
      <4> QED
        BY <2>1, <4>2 DEF Pool!Next, Pool!Use, Zone
    <3> QED
      BY <1>1, <2>1, <2>2, <3>1, <3>2, AllocIs
  <2>3. ASSUME NEW b \in held, free_pages(b[1], b[2], b[3])
        PROVE  [Pool!Next]_<<num_pages, FreePages, held>>
    <3>1. PICK z, idx, order : z = b[1] /\ idx = b[2] /\ order = b[3]
      OBVIOUS
    <3>2. free_pages(z, idx, order)
      BY <2>3, <3>1
    <3>3. z \in Zone /\ order \in Orders /\ idx \in 0 .. num_pages[z] - 1 /\ Pool!Free(z, idx, order)
      BY <1>1, <2>1, <3>2, PoolFree
    <3> QED
      BY <2>1, <3>3 DEF Pool!Next, Pool!Use, Zone
  <2>4. CASE Halted
    BY <1>2, <2>4 DEF Halted, buddyVars
  <2> QED
    BY <1>4, <2>2, <2>3, <2>4 DEF Use
<1>5. CASE UNCHANGED allVars
  BY <1>2, <1>5 DEF allVars, buddyVars
<1> QED
  BY <1>3, <1>4, <1>5 DEF PhysicalNext
-----------------------------------------------------------------------------
(* Until it is done buddy_init() runs undisturbed, so that what is proved  *)
(* of it alone holds of the whole machine.                                 *)
LEMMA BootIsSpec == PhysicalSpec => Spec
<1>1. PhysicalInit => Init
  BY DEF PhysicalInit
<1>2. [PhysicalNext]_allVars => [Next]_vars
  BY DEF PhysicalNext, BootStep, allVars
<1> QED
  BY <1>1, <1>2, PTL DEF PhysicalSpec, Spec

LEMMA PhysicalInvariant == PhysicalSpec => []PhysicalInv
<1>1. PhysicalInit => PhysicalInv
  BY PhysicalInitInv
<1>2. PhysicalInv /\ [PhysicalNext]_allVars => PhysicalInv'
  BY PhysicalNextInv
<1> QED
  BY <1>1, <1>2, PTL DEF PhysicalSpec

(* zone_alloc_pages() and zone_free_pages() lose no page, put none in two  *)
(* blocks and none twice in a free list: whatever is split and merged, the *)
(* free blocks and the blocks in use cut every zone exactly.               *)
THEOREM ZonesStayPartitioned == PhysicalSpec => []Partition
BY PhysicalInvariant, PartitionHolds, PTL DEF PhysicalInv

(* zone_free_pages() leaves no two free buddies behind, and once           *)
(* everything is given back every zone consists of the blocks that         *)
(* zone_build() made: of two ways to cut a zone into aligned blocks with   *)
(* no free buddies left, each block of one is a block of the other.        *)
THEOREM FreeBlocksStayMerged == PhysicalSpec => []Coalesced
BY PhysicalInvariant, CoalescedHolds, PTL DEF PhysicalInv

(* The descriptor that zone_free_pages() reads before it merges can be     *)
(* trusted, although those inside blocks are never cleared: a buddy that   *)
(* looks free is in the list, so the early exit of the loop is never taken.*)
THEOREM DescriptorsCanBeTrusted == PhysicalSpec => []BuddyFound
BY PhysicalInvariant, BuddyFoundHolds, PTL DEF PhysicalInv

(* The buddy allocator implements the pool of pages: alloc_pages() hands   *)
(* out pages that nobody holds, free_pages() takes back what was held.     *)
THEOREM BuddyImplementsPool == PhysicalSpec => PoolSpec
<1>1. PhysicalInit => Pool!Init
  BY DEF PhysicalInit, BuddyInit, Pool!Init, FreeBlocks, Zone
<1>2. PhysicalInv /\ PhysicalInv' /\ [PhysicalNext]_allVars => [Pool!Next]_<<num_pages, FreePages, held>>
  BY PoolStep
<1> QED
  BY <1>1, <1>2, PhysicalInvariant, PTL DEF PhysicalSpec, PoolSpec, Pool!Spec, FreePages
=============================================================================
