------------------------------- MODULE Buddy --------------------------------
(***************************************************************************)
(* The buddy allocator of physical pages (kernel/vmm/vmm.c).               *)
(*                                                                         *)
(* A zone is a run of pages.  Its descriptors (order, used) are kept for   *)
(* every page and mean something only for the first page of a block; those *)
(* inside a block keep what they were when they were last first.  A free   *)
(* list is the sequence of the first pages of the free blocks of an order, *)
(* most recently freed first.                                              *)
(***************************************************************************)
EXTENDS Integers, Sequences, FiniteSets

CONSTANTS
  MAX_ORDER, \* largest order of a block (20)
  Orders     \* the orders the kernel asks for

VARIABLES
  num_pages,  \* the pages of each zone, in the order alloc_pages() tries them
  pages,      \* per zone, the page descriptors
  free_list,  \* per zone and order, the free blocks
  held,       \* the blocks the kernel has: <<zone, first page, order>>
  panic

buddyVars == <<num_pages, pages, free_list, held, panic>>

Zone == DOMAIN num_pages
Page(z) == 0 .. num_pages[z] - 1
Largest(S) == CHOOSE x \in S : \A y \in S : y <= x
Elems(s) == {s[k] : k \in DOMAIN s}

(* 1u << o: the pages of a block of order o. *)
Size[o \in 0 .. MAX_ORDER] == IF o = 0 THEN 1 ELSE 2 * Size[o - 1]

(* zone_build(): the largest order that fits a zone of n pages. *)
max_order(n) == Largest({o \in 0 .. MAX_ORDER : o = 0 \/ Size[o] <= n})

(* The two loops of largest_order_fit(): up as long as the next power of   *)
(* two fits, down to one that idx is a multiple of.                        *)
largest_order_fit(idx, limit, mo) ==
  LET up == Largest({o \in 0 .. mo : \A j \in 1 .. o : Size[j] <= limit - idx})
  IN  Largest({o \in 0 .. up : o = 0 \/ idx % Size[o] = 0})

(* The first pages of the blocks zone_build() cuts a zone of n pages into, *)
(* by order, the last one pushed first.                                    *)
zone_build(n) ==
  LET from[idx \in 0 .. n] ==
        IF idx = n THEN [o \in 0 .. MAX_ORDER |-> <<>>]
        ELSE LET o == largest_order_fit(idx, n, max_order(n))
             IN  [from[idx + Size[o]] EXCEPT ![o] = Append(@, idx)]
  IN  from[0]

Built(n, p) == {o \in 0 .. MAX_ORDER : p \in Elems(zone_build(n)[o])}

BuddyInit ==
  /\ num_pages = <<>> /\ free_list = <<>> /\ pages = <<>>
  /\ held = {} /\ panic = FALSE

(* What add_zone() does for a zone of n pages. *)
NewZone(n) ==
  /\ num_pages' = Append(num_pages, n)
  /\ free_list' = Append(free_list, zone_build(n))
  /\ pages' = Append(pages, [p \in 0 .. n - 1 |->
                [order |-> IF Built(n, p) = {} THEN 0 ELSE Largest(Built(n, p)), used |-> FALSE]])
  /\ UNCHANGED <<held, panic>>
-----------------------------------------------------------------------------
buddy_index(idx, o) == IF (idx \div Size[o]) % 2 = 0 THEN idx + Size[o] ELSE idx - Size[o]

(* The orders of the lists zone_alloc_pages() can take a block from. *)
Candidates(z, order) ==
  {o \in order .. max_order(num_pages[z]) : free_list[z][o] # <<>>}

zone_alloc_pages_Overlap(z, order) ==
  LET have  == CHOOSE o \in Candidates(z, order) : \A p \in Candidates(z, order) : o <= p
      idx   == Head(free_list[z][have])
      split == order .. have - 1
  IN  /\ free_list' = [free_list EXCEPT ![z] = [o \in 0 .. MAX_ORDER |->
                         IF o = have THEN Tail(@[o])
                         ELSE IF o \in split THEN <<idx>> \o @[o]
                         ELSE @[o]]]
      /\ pages' = [pages EXCEPT ![z][idx] = [order |-> order, used |-> TRUE]]
      /\ held' = held \cup {<<z, idx, order>>}

zone_alloc_pages_Unmarked(z, order) ==
  LET have  == CHOOSE o \in Candidates(z, order) : \A p \in Candidates(z, order) : o <= p
      idx   == Head(free_list[z][have])
      split == order .. have - 1
  IN  /\ free_list' = [free_list EXCEPT ![z] = [o \in 0 .. MAX_ORDER |->
                         IF o = have THEN Tail(@[o])
                         ELSE IF o \in split THEN <<idx + Size[o]>> \o @[o]
                         ELSE @[o]]]
      /\ pages' = [pages EXCEPT ![z] = [p \in Page(z) |->
                     IF p = idx THEN [order |-> order, used |-> FALSE]
                     ELSE IF \E o \in split : p = idx + Size[o]
                     THEN [order |-> CHOOSE o \in split : p = idx + Size[o], used |-> FALSE]
                     ELSE @[p]]]
      /\ held' = held \cup {<<z, idx, order>>}

(* zone_alloc_pages() from the first list that has a block; zone_split_to()*)
(* pushes the right half at every order it passes.                         *)
zone_alloc_pages(z, order) ==
  LET have  == CHOOSE o \in Candidates(z, order) : \A p \in Candidates(z, order) : o <= p
      idx   == Head(free_list[z][have])
      split == order .. have - 1
  IN  /\ free_list' = [free_list EXCEPT ![z] = [o \in 0 .. MAX_ORDER |->
                         IF o = have THEN Tail(@[o])
                         ELSE IF o \in split THEN <<idx + Size[o]>> \o @[o]
                         ELSE @[o]]]
      /\ pages' = [pages EXCEPT ![z] = [p \in Page(z) |->
                     IF p = idx THEN [order |-> order, used |-> TRUE]
                     ELSE IF \E o \in split : p = idx + Size[o]
                     THEN [order |-> CHOOSE o \in split : p = idx + Size[o], used |-> FALSE]
                     ELSE @[p]]]
      /\ held' = held \cup {<<z, idx, order>>}

(* alloc_pages(): the first zone that can serve the request, or a panic. *)
alloc_pages(order) ==
  LET can == {z \in Zone : Candidates(z, order) # {}}
  IN  /\ ~panic
      /\ IF can # {}
         THEN /\ zone_alloc_pages(CHOOSE z \in can : \A y \in can : z <= y, order)
              /\ UNCHANGED panic
         ELSE panic' = TRUE /\ UNCHANGED <<pages, free_list, held>>

Listed(z, o, p) == p \in Elems(free_list[z][o])

(* The descriptor of the buddy says that it is a free block of order o.    *)
LooksFree(z, idx, o) ==
  LET b == buddy_index(idx, o)
  IN  b < num_pages[z] /\ ~pages[z][b].used /\ pages[z][b].order = o

Mergeable_AnyOrder(z, idx, o) ==
  /\ o < max_order(num_pages[z])
  /\ buddy_index(idx, o) < num_pages[z] /\ ~pages[z][buddy_index(idx, o)].used

Mergeable_Short(z, idx, o) ==
  o + 1 < max_order(num_pages[z]) /\ LooksFree(z, idx, o) /\ Listed(z, o, buddy_index(idx, o))

Mergeable(z, idx, o) ==
  o < max_order(num_pages[z]) /\ LooksFree(z, idx, o) /\ Listed(z, o, buddy_index(idx, o))

(* The block at page idx of order o, merged up to order k. *)
MergedAt(idx, o) ==
  LET at[k \in o .. MAX_ORDER] ==
        IF k = o THEN idx
        ELSE LET b == buddy_index(at[k - 1], k - 1)
             IN  IF b < at[k - 1] THEN b ELSE at[k - 1]
  IN  at

(* The order at which the loop of zone_free_pages() stops. *)
MergeTop(z, idx, o) ==
  CHOOSE k \in o .. MAX_ORDER :
    /\ ~Mergeable(z, MergedAt(idx, o)[k], k)
    /\ \A j \in o .. k - 1 : Mergeable(z, MergedAt(idx, o)[j], j)

Without(s, p) ==
  LET n == CHOOSE k \in DOMAIN s : s[k] = p /\ \A j \in 1 .. k - 1 : s[j] # p
  IN  [k \in 1 .. Len(s) - 1 |-> IF k < n THEN s[k] ELSE s[k + 1]]

(* zone_free_pages(): take the buddies out of their lists, push the merged *)
(* block.                                                                  *)
free_pages(z, idx, order) ==
  LET at  == MergedAt(idx, order)
      top == MergeTop(z, idx, order)
      heads(p) == {k \in order .. top : at[k] = p}
  IN  /\ ~panic /\ <<z, idx, order>> \in held
      /\ free_list' = [free_list EXCEPT ![z] = [o \in 0 .. MAX_ORDER |->
                         IF o = top THEN <<at[top]>> \o @[o]
                         ELSE IF o \in order .. top - 1
                         THEN Without(@[o], buddy_index(at[o], o))
                         ELSE @[o]]]
      /\ pages' = [pages EXCEPT ![z] = [p \in Page(z) |->
                     IF heads(p) = {} THEN @[p]
                     ELSE [order |-> Largest(heads(p)), used |-> FALSE]]]
      /\ held' = held \ {<<z, idx, order>>}
      /\ UNCHANGED panic

(* kernel_panic() does not return. *)
Halted == panic /\ UNCHANGED buddyVars

Use ==
  /\ \/ \E o \in Orders : alloc_pages(o)
     \/ \E b \in held : free_pages(b[1], b[2], b[3])
     \/ Halted
  /\ UNCHANGED num_pages
-----------------------------------------------------------------------------
(* The pages of a block, and the free blocks. *)
Span(b) == {<<b[1], p>> : p \in b[2] .. b[2] + Size[b[3]] - 1}
FreeBlocks ==
  UNION {{<<z, p, o>> : p \in Elems(free_list[z][o])} : z \in Zone, o \in 0 .. MAX_ORDER}

(* The free blocks and the blocks in use cut the zones exactly: no page is *)
(* lost, none is in two blocks and none is in a free list twice, whatever  *)
(* is split and merged.                                                    *)
Partition ==
  /\ \A z \in Zone, p \in UNION {Page(y) : y \in Zone} :
       p \in Page(z) =>
         Cardinality({b \in FreeBlocks \cup held : <<z, p>> \in Span(b)}) = 1
  /\ FreeBlocks \cap held = {}
  /\ \A b \in FreeBlocks \cup held : b[2] + Size[b[3]] <= num_pages[b[1]]
  /\ \A z \in Zone, o \in 0 .. MAX_ORDER :
       \A j, k \in DOMAIN free_list[z][o] :
         free_list[z][o][j] = free_list[z][o][k] => j = k

(* zone_free_pages() merges all that can be merged: two buddies are never  *)
(* both free, so that once everything is given back every zone consists of *)
(* the blocks it was built of.                                             *)
Coalesced ==
  /\ \A b \in FreeBlocks :
       b[3] < max_order(num_pages[b[1]]) => <<b[1], buddy_index(b[2], b[3]), b[3]>> \notin FreeBlocks
  /\ held = {} =>
       \A z \in Zone, o \in 0 .. MAX_ORDER :
         Elems(free_list[z][o]) = Elems(zone_build(num_pages[z])[o])

(* zone_free_pages() never has to give up because a buddy whose descriptor *)
(* says it is a free block of the order is not in the list of that order,  *)
(* although descriptors inside blocks are never cleared.                   *)
BuddyFound ==
  \A b \in held :
    LET top == MergeTop(b[1], b[2], b[3])
        idx == MergedAt(b[2], b[3])[top]
    IN  top < max_order(num_pages[b[1]]) /\ LooksFree(b[1], idx, top)
          => Listed(b[1], top, buddy_index(idx, top))

(* The allocator implements the pool of pages. *)
Pool == INSTANCE PagePool WITH free <- UNION {Span(b) : b \in FreeBlocks}
PoolSpec == Pool!Spec
=============================================================================
