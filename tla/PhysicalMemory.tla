--------------------------- MODULE PhysicalMemory ---------------------------
(***************************************************************************)
(* Physical memory from the boot loader's map to the blocks that the       *)
(* kernel holds: buddy_init() (MemoryMap) finds the zones, add_zone()      *)
(* builds each one's free lists on the way, and then alloc_pages() and     *)
(* free_pages() (Buddy) work on them.                                      *)
(***************************************************************************)
EXTENDS MemoryMap, Buddy

ASSUME PhysicalMemoryAssumption == MAX_ORDER \in Nat /\ Orders \subseteq 0 .. MAX_ORDER

allVars == <<vars, buddyVars>>

Booted == pc = "region" /\ i > Len(boot.mmap)

PhysicalInit == Init /\ BuddyInit

PageCount(zone) == (zone.end - zone.start) \div PageSize

(* A step of buddy_init(); the one that adds a zone builds it. *)
BootStep ==
  /\ Next
  /\ IF zones' = zones THEN UNCHANGED buddyVars
     ELSE NewZone(PageCount(zones'[Len(zones')]))

PhysicalNext ==
  \/ BootStep
  \/ Booted /\ UNCHANGED vars /\ Use

PhysicalSpec == PhysicalInit /\ [][PhysicalNext]_allVars
=============================================================================
