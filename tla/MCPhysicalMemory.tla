-------------------------- MODULE MCPhysicalMemory --------------------------
(* Boots of a small machine with pages of three bytes and 30 bytes of      *)
(* memory, with reserved ranges that touch, overlap, cut pages in two or   *)
(* lie outside the memory; and one with two zones whose sizes, 7 and 3     *)
(* pages, are not powers of two.                                           *)
EXTENDS PhysicalMemory

R(a, b) == [start |-> a, end |-> b]
M(a, b, av) == [start |-> a, end |-> b, available |-> av]

Heap  == R(7, 10)
Stack == R(9, 12)

Maps ==
  {<<M(0, 30, TRUE)>>, <<M(1, 14, TRUE), M(14, 29, TRUE)>>,
   <<M(0, 5, TRUE), M(5, 8, FALSE), M(8, 20, TRUE), M(20, 20, TRUE)>>}
Ranges == {R(a, b) : a \in {2, 12, 13, 19}, b \in {12, 17, 20, 25}}
Modules == {<<>>, <<R(26, 28)>>, <<R(13, 13), R(21, 23)>>, <<R(15, 16), R(23, 27)>>}

MCBoots ==
  [mmap : Maps, kernel : Ranges, fb : {R(0, 0), R(12, 19), R(22, 24)}, mods : Modules]
    \cup {[mmap |-> <<M(13, 36, TRUE), M(40, 53, TRUE)>>, kernel |-> R(2, 5), fb |-> R(0, 0),
           mods |-> <<>>]}
=============================================================================
