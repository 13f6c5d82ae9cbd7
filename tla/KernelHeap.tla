----------------------------- MODULE KernelHeap -----------------------------
(***************************************************************************)
(* The kernel heap: kernel_malloc() and kernel_free(), next-fit over a     *)
(* singly linked list of blocks, with a guard word behind each block when  *)
(* the kernel is booted with "debug".  Both run with interrupts disabled,  *)
(* so each is one step.                                                    *)
(*                                                                         *)
(* Addresses and sizes are counted in words.  Of the contents of memory    *)
(* only the block headers are kept, and the set of words that hold         *)
(* HEAP_GUARD.  Running out of heap is a kernel panic, after which there   *)
(* is no step.                                                             *)
(***************************************************************************)
EXTENDS Naturals, FiniteSets

CONSTANTS
  Header,       \* sizeof(block_header_t)
  GuardSize,    \* HEAP_GUARD_SIZE
  BlockAlign,   \* BLOCK_ALIGN
  PageSize,     \* PAGE_SIZE
  HeapStart,    \* KERNEL_HEAP_VMA
  HeapEnd,      \* KERNEL_HEAP_VMA + KERNEL_HEAP_SIZE
  Request,      \* the sizes that are asked for
  NIL

ASSUME HeapAssumption ==
  /\ Header \in Nat \ {0} /\ GuardSize = 1 /\ BlockAlign \in Nat \ {0} /\ PageSize \in Nat \ {0}
  /\ HeapStart \in Nat \ {0} /\ HeapEnd \in Nat /\ Request \subseteq Nat
  /\ NIL \notin Nat

VARIABLES
  debug_mode,     \* whether blocks get a guard word
  booting,        \* the command line has not been read yet
  heap,           \* the block headers in use: address -> header
  heap_list,      \* the first block
  rover,          \* where the next search starts
  current_heap,   \* the end of the part of the heap in use
  guards          \* the words that hold HEAP_GUARD

hvars == <<debug_mode, booting, heap, heap_list, rover, current_heap, guards>>

HeapInit ==
  /\ debug_mode = FALSE /\ booting = TRUE
  /\ heap = [b \in {} |-> NIL] /\ heap_list = NIL /\ rover = NIL
  /\ current_heap = HeapStart /\ guards = {}
-----------------------------------------------------------------------------
align(n, unit) == ((n + unit - 1) \div unit) * unit

Room(guard) == IF guard THEN GuardSize ELSE 0
BlockEnd(h, b) == b + Header + h[b].size + Room(h[b].guard)
GuardAt(h, b) == b + Header + h[b].size
With(h, b, header) == [a \in DOMAIN h \cup {b} |-> IF a = b THEN header ELSE h[a]]

(* The pointers along the list, from b on. *)
Walk(b) ==
  LET at[n \in 0 .. Cardinality(DOMAIN heap)] ==
        IF n = 0 THEN b ELSE IF at[n - 1] = NIL THEN NIL ELSE heap[at[n - 1]].next
  IN  at

(* The owner of block b of h writes all of it: guard words within go.      *)
Used(h, b) == (b + Header) .. (b + Header + h[b].size - 1)

(* kernel_heap_init_guard() and kernel_heap_set_guard() of the blocks B.   *)
GuardsOf(h, B) == {GuardAt(h, b) : b \in {c \in B : h[c].guard}}
-----------------------------------------------------------------------------
(* kernel_main_high(): "debug" on the command line.  The blocks of before  *)
(* have no guard, and are never freed: they belong to the framebuffer.     *)
ReadCommandLine ==
  /\ booting /\ booting' = FALSE
  /\ debug_mode' \in BOOLEAN
  /\ UNCHANGED <<heap, heap_list, rover, current_heap, guards>>

NewBlock(size) == [size |-> size, free |-> FALSE, guard |-> debug_mode, next |-> NIL]

FirstBlock(size) ==
  LET b == current_heap
      h == With(heap, b, NewBlock(size))
  IN  /\ heap_list = NIL /\ BlockEnd(h, b) <= HeapEnd
      /\ heap' = h /\ heap_list' = b /\ rover' = b
      /\ current_heap' = BlockEnd(h, b)
      /\ guards' = (guards \ Used(h, b)) \cup GuardsOf(h, {b})
      /\ UNCHANGED <<debug_mode, booting>>

(* The search: from rover to the end of the list, then from its head up to *)
(* rover.  A phase is the set of the steps at which a block would do.      *)
Fits(b, size) == b # NIL /\ heap[b].free /\ heap[b].size >= size

Phase1(size) == LET at == Walk(rover) IN {n \in DOMAIN at : Fits(at[n], size)}

Phase2_NoWrap(size) == {}

Phase2(size) ==
  LET at == Walk(heap_list)
  IN  {n \in DOMAIN at : Fits(at[n], size) /\ \A m \in 0 .. n : at[m] # rover}

First(S) == CHOOSE n \in S : \A m \in S : n <= m

Found(size) ==
  IF Phase1(size) # {} THEN Walk(rover)[First(Phase1(size))]
  ELSE IF Phase2(size) # {} THEN Walk(heap_list)[First(Phase2(size))]
  ELSE NIL

(* Without success, the first phase ends at the last block. *)
Tail == LET at == Walk(rover)
        IN  at[CHOOSE n \in DOMAIN at : at[n] # NIL /\ heap[at[n]].next = NIL]

Split_NoHeader(b, size) ==
  LET left == heap[b].size - size
      s    == b + Header + size + Room(debug_mode)
      rest == [size |-> left - Room(debug_mode), free |-> TRUE, guard |-> debug_mode,
               next |-> heap[b].next]
  IN  IF left < Header + Room(debug_mode) + BlockAlign THEN heap
      ELSE With([heap EXCEPT ![b].size = size, ![b].next = s], s, rest)

(* The rest of a block that is large enough becomes a free block. *)
Split(b, size) ==
  LET left == heap[b].size - size
      s    == b + Header + size + Room(debug_mode)
      rest == [size |-> left - Header - Room(debug_mode), free |-> TRUE, guard |-> debug_mode,
               next |-> heap[b].next]
  IN  IF left < Header + Room(debug_mode) + BlockAlign THEN heap
      ELSE With([heap EXCEPT ![b].size = size, ![b].next = s], s, rest)

Reuse_NoGuard(size) ==
  LET b == Found(size)
      h == [Split(b, size) EXCEPT ![b].free = FALSE]
  IN  /\ heap_list # NIL /\ b # NIL
      /\ heap' = h
      /\ rover' = IF h[b].next # NIL THEN h[b].next ELSE heap_list
      /\ guards' = (guards \ Used(h, b)) \cup GuardsOf(h, DOMAIN h \ DOMAIN heap)
      /\ UNCHANGED <<debug_mode, booting, heap_list, current_heap>>

Reuse(size) ==
  LET b == Found(size)
      h == [Split(b, size) EXCEPT ![b].free = FALSE]
  IN  /\ heap_list # NIL /\ b # NIL
      /\ heap' = h
      /\ rover' = IF h[b].next # NIL THEN h[b].next ELSE heap_list
      /\ guards' = (guards \ Used(h, b)) \cup GuardsOf(h, {b} \cup (DOMAIN h \ DOMAIN heap))
      /\ UNCHANGED <<debug_mode, booting, heap_list, current_heap>>

(* A new block at the end of the heap; a large one starts on a page. *)
Grow(size) ==
  LET b    == IF size >= PageSize THEN align(current_heap, PageSize) ELSE current_heap
      h    == With([heap EXCEPT ![Tail].next = b], b, NewBlock(size))
  IN  /\ heap_list # NIL /\ Found(size) = NIL /\ BlockEnd(h, b) <= HeapEnd
      /\ heap' = h
      /\ current_heap' = BlockEnd(h, b)
      /\ guards' = (guards \ Used(h, b)) \cup GuardsOf(h, {b})
      /\ UNCHANGED <<debug_mode, booting, heap_list, rover>>

kernel_malloc(n) ==
  LET size == align(n, BlockAlign) IN FirstBlock(size) \/ Reuse(size) \/ Grow(size)

(* kernel_free(): the block is merged with the free blocks behind it, as   *)
(* long as they are adjacent.                                              *)
Mergeable(h, b) ==
  /\ h[b].next # NIL /\ h[h[b].next].free
  /\ h[b].next = BlockEnd(h, b)

Merged(h, b) ==
  LET n == h[b].next
  IN  [a \in DOMAIN h \ {n} |->
         IF a = b THEN [h[b] EXCEPT !.next = h[n].next,
                                    !.size = @ + Header + h[n].size + Room(h[n].guard)]
         ELSE h[a]]

Coalesce(b) ==
  LET m[n \in 0 .. Cardinality(DOMAIN heap)] ==
        IF n = 0 THEN [heap EXCEPT ![b].free = TRUE]
        ELSE LET h == m[n - 1] IN IF Mergeable(h, b) THEN Merged(h, b) ELSE h
  IN  m[Cardinality(DOMAIN heap)]

kernel_free_KeepRover(b) ==
  /\ heap' = Coalesce(b)
  /\ UNCHANGED <<debug_mode, booting, heap_list, rover, current_heap, guards>>

kernel_free(b) ==
  /\ heap' = Coalesce(b)
  /\ rover' = IF rover \in DOMAIN heap' THEN rover ELSE b
  /\ UNCHANGED <<debug_mode, booting, heap_list, current_heap, guards>>

Freeable(b) == ~ booting /\ ~ heap[b].free /\ heap[b].guard = debug_mode

HeapNext ==
  \/ ReadCommandLine
  \/ \E n \in Request : kernel_malloc(n)
  \/ \E b \in DOMAIN heap : Freeable(b) /\ kernel_free(b)

HeapSpec == HeapInit /\ [][HeapNext]_hvars
-----------------------------------------------------------------------------
(* The blocks tile the heap: the list holds every block in the order of    *)
(* addresses, as kernel_free() takes for granted, no two blocks overlap,   *)
(* and only what the alignment of a large block skips belongs to none.     *)
(* Splitting and merging never give a word to two blocks or lose it.       *)
HeapTiled ==
  heap_list # NIL =>
    /\ heap_list = HeapStart /\ current_heap <= HeapEnd
    /\ {Walk(heap_list)[n] : n \in DOMAIN Walk(heap_list)} = DOMAIN heap \cup {NIL}
    /\ \A b \in DOMAIN heap :
         LET end == IF heap[b].next # NIL THEN heap[b].next ELSE current_heap
         IN  /\ b < end
             /\ \/ BlockEnd(heap, b) = end
                \/ BlockEnd(heap, b) < end /\ end = align(BlockEnd(heap, b), PageSize)

(* kernel_heap_check_block() never panics over a guard word, after any     *)
(* sequence of splits and merges and with every owner filling its block:   *)
(* a guard word stays where the size in the header says it is.             *)
GuardsIntact == GuardsOf(heap, DOMAIN heap) \subseteq guards

(* The search starts at a block of the list, also after the block it was   *)
(* to start at has been merged into the one before.                        *)
RoverListed == heap_list # NIL => rover \in DOMAIN heap

(* The heap grows, and the kernel may panic for lack of heap, only when no *)
(* free block of the list is large enough, wherever the search starts.     *)
GrowsOnlyWhenFull ==
  [][\A n \in DOMAIN heap' \ DOMAIN heap :
       current_heap' # current_heap =>
         \A b \in DOMAIN heap : heap[b].free => heap[b].size < heap'[n].size]_hvars
=============================================================================
