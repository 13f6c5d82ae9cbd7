------------------------------ MODULE MCMemory ------------------------------
(* Small instances of the kernel heap, in units of a scaled-down header,   *)
(* and of the memory of programs.                                          *)
EXTENDS KernelHeap, AddressSpace

MCRequest == {1, 4, 8}

MCHeap == {1, 2}
MCShmem == {3, 4, 5}
MCTable(v) == IF v = 0 THEN "image" ELSE IF v \in MCHeap THEN "heap" ELSE "shmem"

(* FramesExclusive, as TLC counts it faster. *)
OneUseEach ==
  LET X == Uses(World)
      F == {x[2] : x \in X}
  IN  F \subseteq used /\ Cardinality(F) = Cardinality(X)

(* Frames are interchangeable.  As long as the invariants hold, two states *)
(* that differ in the names of frames only look the same here.  (as = as   *)
(* and shm = shm are TRUE; they have TLC evaluate both in full.)           *)
UpToFrames ==
  <<life, brk_end, tidy, shm_table, layer, Cardinality(used),
    [t \in Task |-> IF as[t] = NULL THEN NULL
                    ELSE <<Mapped(as[t]), as[t].maps, {r \in Tables : as[t].table[r] # NULL}>>],
    [o \in Obj |-> IF shm[o] = NULL THEN NULL ELSE <<shm[o].size, shm[o].refcount>>],
    OneUseEach, SharingExact, as = as, shm = shm, hvars>>

(* The two share no state.  Each is checked while the other is as it was   *)
(* at the start, so that their states add up and do not multiply.          *)
MCInit == HeapInit /\ MemoryInit
MCNext ==
  \/ MemoryInit /\ HeapNext /\ UNCHANGED mvars
  \/ HeapInit /\ MemoryNext /\ UNCHANGED hvars
MCSpec == MCInit /\ [][MCNext]_<<hvars, mvars>>
=============================================================================
