------------------------------ MODULE PagePool ------------------------------
(***************************************************************************)
(* What the physical page allocator promises, with no buddies in sight:    *)
(* memory comes in zones while the machine boots, a request of order o     *)
(* gets Size[o] consecutive pages of one zone that nobody holds, and only  *)
(* what is held can be given back.                                         *)
(***************************************************************************)
EXTENDS Integers, Sequences

CONSTANTS
  Orders,  \* the orders asked for
  Size     \* how many pages a block of an order has

VARIABLES
  num_pages,  \* the pages of each zone of memory
  free, held

Block(z, i, o) == {<<z, p>> : p \in i .. i + Size[o] - 1}

Init == num_pages = <<>> /\ free = {} /\ held = {}

(* One more zone, of any size. *)
AddZone ==
  LET z == Len(num_pages) + 1
  IN  /\ Len(num_pages') = z /\ SubSeq(num_pages', 1, z - 1) = num_pages
      /\ free' = free \cup {<<z, p>> : p \in 0 .. num_pages'[z] - 1}
      /\ UNCHANGED held

Alloc(z, i, o) ==
  /\ Block(z, i, o) \subseteq free
  /\ free' = free \ Block(z, i, o)
  /\ held' = held \cup {<<z, i, o>>}

Free(z, i, o) ==
  /\ <<z, i, o>> \in held
  /\ free' = free \cup Block(z, i, o)
  /\ held' = held \ {<<z, i, o>>}

Use ==
  /\ \E z \in DOMAIN num_pages, o \in Orders : \E i \in 0 .. num_pages[z] - 1 :
       Alloc(z, i, o) \/ Free(z, i, o)
  /\ UNCHANGED num_pages

Next == AddZone \/ Use

Spec == Init /\ [][Next]_<<num_pages, free, held>>
=============================================================================
