----------------------------- MODULE MemoryMap ------------------------------
(***************************************************************************)
(* How buddy_init() (kernel/vmm/vmm.c) turns the boot loader's memory map  *)
(* into the zones of the page allocator: from every available region it    *)
(* carves out the memory that is in use already, rounds what is left to    *)
(* whole pages and adds it as a zone.                                      *)
(*                                                                         *)
(* A range is [start, end), in bytes.  Region i of the map is cut by one   *)
(* exclusion after the other: todo is what the exclusions so far have left *)
(* of it, and next what exclusion e has left of the first t - 1 of those.  *)
(***************************************************************************)
EXTENDS Integers, Sequences

CONSTANTS
  Boots,       \* what the boot loader may report
  PageSize,    \* PAGE_SIZE (4096)
  PhysSize,    \* physical addresses are kept in 32 bits: 2^32
  MinManaged,  \* MIN_MANAGED_PHYS (2 MiB)
  HeapRange, StackRange,  \* the kernel heap and the kernel stacks
  TodoMax,     \* room in todo and next (8)
  ExclMax,     \* room in excl (32)
  MaxZones     \* MAX_ZONES (8)

PhysRange == [start : Nat, end : Nat]
MapEntry  == [start : Nat, end : Nat, available : BOOLEAN]

(* What a boot reports: the memory map, the kernel image, the framebuffer  *)
(* and the modules. *)
Boot ==
  [mmap : Seq(MapEntry), kernel : PhysRange, fb : PhysRange, mods : Seq(PhysRange)]

ASSUME MemoryMapAssumption ==
  /\ Boots \subseteq Boot
  /\ PageSize \in Nat \ {0} /\ PhysSize \in Nat \ {0}
  /\ MinManaged \in Nat /\ HeapRange \in PhysRange /\ StackRange \in PhysRange
  /\ HeapRange.start <= HeapRange.end /\ StackRange.start <= StackRange.end
  /\ TodoMax \in Nat \ {0} /\ ExclMax \in Nat /\ MaxZones \in Nat

VARIABLES boot, excl, i, e, t, todo, next, zones, pc

vars == <<boot, excl, i, e, t, todo, next, zones, pc>>

NonEmpty(r) == r.end > r.start
If(cond, r) == IF cond THEN <<r>> ELSE <<>>

(* The first entries of excl[]: the identity-mapped low memory, the kernel *)
(* image, the framebuffer, the kernel heap and the kernel stacks.          *)
FixedExclusions(b) ==
  <<[start |-> 0, end |-> MinManaged]>>
  \o If(NonEmpty(b.kernel), b.kernel) \o If(NonEmpty(b.fb), b.fb)
  \o <<HeapRange, StackRange>>

carve_exclusion_OneSide(in, rsv) ==
  IF rsv.end <= in.start \/ rsv.start >= in.end
  THEN <<in>>
  ELSE IF rsv.start > in.start
  THEN <<[start |-> in.start, end |-> rsv.start]>>
  ELSE If(rsv.end < in.end, [start |-> rsv.end, end |-> in.end])

carve_exclusion_Begin(in, rsv) ==
  IF rsv.start < in.start \/ rsv.start >= in.end
  THEN <<in>>
  ELSE If(rsv.start > in.start, [start |-> in.start, end |-> rsv.start])
       \o If(rsv.end < in.end, [start |-> rsv.end, end |-> in.end])

(* What remains of the range in without the range rsv. *)
carve_exclusion(in, rsv) ==
  IF rsv.end <= in.start \/ rsv.start >= in.end
  THEN <<in>>
  ELSE If(rsv.start > in.start, [start |-> in.start, end |-> rsv.start])
       \o If(rsv.end < in.end, [start |-> rsv.end, end |-> in.end])

align_dn(x) == x - (x % PageSize)
align_up(x) == align_dn(x + PageSize - 1)

(* The zone add_zone() makes of a range: its base is truncated to 32 bits. *)
ZoneOf(r) ==
  LET base == align_up(r.start)
      size == align_dn(r.end) - base
  IN  [start |-> base % PhysSize, end |-> (base % PhysSize) + size]

CanAddZone(r) == Len(zones) < MaxZones /\ align_dn(r.end) > align_up(r.start)

(* add_zone(): a range that holds no whole page, or one too many, is lost. *)
add_zone(r) ==
  zones' = IF CanAddZone(r) THEN Append(zones, ZoneOf(r)) ELSE zones
-----------------------------------------------------------------------------
Init ==
  /\ boot \in Boots /\ excl = FixedExclusions(boot)
  /\ i = 1 /\ e = 1 /\ t = 1 /\ todo = <<>> /\ next = <<>> /\ zones = <<>>
  /\ pc = "mods"

ModulesLoop == i <= Len(boot.mods) /\ Len(excl) < ExclMax

(* One iteration of the loop that excludes the boot loader's modules. *)
Module ==
  /\ pc = "mods" /\ ModulesLoop
  /\ excl' = IF NonEmpty(boot.mods[i]) THEN Append(excl, boot.mods[i]) ELSE excl
  /\ i' = i + 1
  /\ UNCHANGED <<boot, e, t, todo, next, zones, pc>>

ModulesDone ==
  /\ pc = "mods" /\ ~ModulesLoop
  /\ i' = 1 /\ pc' = "region"
  /\ UNCHANGED <<boot, excl, e, t, todo, next, zones>>

(* Take the next region of the map, if it is available and not empty. *)
Region ==
  /\ pc = "region" /\ i <= Len(boot.mmap)
  /\ LET m == boot.mmap[i]
     IN  IF m.available /\ m.start # m.end
         THEN /\ todo' = <<[start |-> m.start, end |-> m.end]>>
              /\ e' = 1 /\ t' = 1 /\ pc' = "carve"
              /\ UNCHANGED i
         ELSE /\ i' = i + 1
              /\ UNCHANGED <<todo, e, t, pc>>
  /\ UNCHANGED <<boot, excl, next, zones>>

InnerLoop == e <= Len(excl) /\ t <= Len(todo) /\ Len(next) + 2 <= TodoMax

(* One iteration of the loop over todo, for exclusion e. *)
Carve ==
  /\ pc = "carve" /\ InnerLoop
  /\ next' = next \o carve_exclusion(todo[t], excl[e])
  /\ t' = t + 1
  /\ UNCHANGED <<boot, excl, i, e, todo, zones, pc>>

NextExclusion_KeepNext ==
  /\ pc = "carve" /\ e <= Len(excl) /\ ~InnerLoop
  /\ todo' = next /\ e' = e + 1 /\ t' = 1
  /\ pc' = IF next = <<>> THEN "add" ELSE "carve"
  /\ UNCHANGED <<boot, excl, i, next, zones>>

(* The end of that loop: ranges there was no room for are dropped. *)
NextExclusion ==
  /\ pc = "carve" /\ e <= Len(excl) /\ ~InnerLoop
  /\ todo' = next /\ next' = <<>> /\ e' = e + 1 /\ t' = 1
  /\ pc' = IF next = <<>> THEN "add" ELSE "carve"
  /\ UNCHANGED <<boot, excl, i, zones>>

Carved ==
  /\ pc = "carve" /\ e > Len(excl)
  /\ pc' = "add" /\ t' = 1
  /\ UNCHANGED <<boot, excl, i, e, todo, next, zones>>

AddZone ==
  /\ pc = "add" /\ t <= Len(todo)
  /\ IF NonEmpty(todo[t]) THEN add_zone(todo[t]) ELSE UNCHANGED zones
  /\ t' = t + 1
  /\ UNCHANGED <<boot, excl, i, e, todo, next, pc>>

RegionDone ==
  /\ pc = "add" /\ t > Len(todo)
  /\ i' = i + 1 /\ pc' = "region"
  /\ UNCHANGED <<boot, excl, e, t, todo, next, zones>>

Done ==
  /\ pc = "region" /\ i > Len(boot.mmap)
  /\ UNCHANGED vars

Next ==
  \/ Module \/ ModulesDone
  \/ Region \/ Carve \/ NextExclusion \/ Carved \/ AddZone \/ RegionDone \/ Done

Spec == Init /\ [][Next]_vars
-----------------------------------------------------------------------------
TypeOK ==
  /\ boot \in Boots /\ excl \in Seq(PhysRange)
  /\ i \in Nat \ {0} /\ e \in Nat \ {0} /\ t \in Nat \ {0}
  /\ todo \in Seq(PhysRange) /\ next \in Seq(PhysRange) /\ zones \in Seq(PhysRange)
  /\ pc \in {"mods", "region", "carve", "add"}

Overlap(a, b) == a.start < b.end /\ b.start < a.end

(* buddy_init() never gives the allocator a page of the kernel image, the  *)
(* framebuffer, the heap, the stacks, a module or low memory, whatever the *)
(* order and the overlaps of the exclusions, also when todo[] is full.     *)
ReservedKept ==
  \A z \in DOMAIN zones, x \in DOMAIN excl : ~Overlap(zones[z], excl[x])

(* The zones do not overlap: no page can be handed out by two of them (the *)
(* regions of the memory map are disjoint).                                *)
ZonesDisjoint ==
  \A y, z \in DOMAIN zones : y # z => ~Overlap(zones[y], zones[z])

(* Every whole page of an available region that no exclusion touches ends  *)
(* up in a zone, when there are zones enough and at most TodoMax - 2       *)
(* exclusions: each can split one range, and an iteration needs room for   *)
(* the two halves.                                                         *)
NothingLost ==
  pc = "region" /\ i > Len(boot.mmap) /\ Len(excl) + 2 <= TodoMax /\ Len(zones) < MaxZones =>
    \A k \in DOMAIN boot.mmap :
      LET m == boot.mmap[k]
      IN  m.available =>
            \A p \in (m.start + PageSize - 1) \div PageSize .. m.end \div PageSize - 1 :
              LET page == [start |-> p * PageSize, end |-> (p + 1) * PageSize]
              IN  (\A x \in DOMAIN excl : ~Overlap(page, excl[x])) =>
                    \E z \in DOMAIN zones : Overlap(page, zones[z])
=============================================================================
