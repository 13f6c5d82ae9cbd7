----------------------------- MODULE MCBlkCache -----------------------------
(* Three entries for the four sectors of a disk and of a drive in   *)
(* memory, in two buckets: chains are shared, and a full cache evicts from *)
(* their beginning and end.                                                *)
EXTENDS BlkCache, TLC

(* The cache does not look at contents. *)
Contents == Permutations(Data)
=============================================================================
