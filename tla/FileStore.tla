----------------------------- MODULE FileStore ------------------------------
(***************************************************************************)
(* What a file system promises to programs, with no clusters in sight: a   *)
(* file holds what was written to it, under its name, until it is          *)
(* truncated or removed; a directory is removed only when it is empty.     *)
(***************************************************************************)
EXTENDS Sequences, Integers, TLC

CONSTANT Root  \* the root directory

VARIABLES
  files,  \* the contents of every file, by its path <<directory, name>>
  dirs    \* the directories there are in the root

Init == files = <<>> /\ dirs = {}

(* What is not allowed is refused and changes nothing. *)
Create(p) ==
  /\ files' = IF p \notin DOMAIN files /\ p[1] \in dirs \cup {Root}
              THEN files @@ (p :> <<>>) ELSE files
  /\ UNCHANGED dirs

(* n cells of value x replace or follow what is there from offset off on.  *)
Write(p, off, n, x) ==
  /\ files' = IF p \in DOMAIN files /\ off <= Len(files[p])
              THEN [files EXCEPT ![p] = SubSeq(@, 1, off) \o [k \in 1 .. n |-> x]
                                          \o SubSeq(@, off + n + 1, Len(@))]
              ELSE files
  /\ UNCHANGED dirs

Truncate(paths) ==
  /\ files' = [q \in DOMAIN files |-> IF q \in paths THEN <<>> ELSE files[q]]
  /\ UNCHANGED dirs

Remove(p) ==
  /\ files' = [q \in DOMAIN files \ {p} |-> files[q]]
  /\ UNCHANGED dirs

MakeDir(d) == dirs' = dirs \cup {d} /\ UNCHANGED files

RemoveDir(d) ==
  /\ dirs' = IF \E p \in DOMAIN files : p[1] = d THEN dirs ELSE dirs \ {d}
  /\ UNCHANGED files
=============================================================================
