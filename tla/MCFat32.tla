------------------------------- MODULE MCFat32 -------------------------------
(* The FAT32 file system in step with the file store: every call is made   *)
(* of both, and what can be read from the volume is compared.  A file      *)
(* whose name lies across two clusters of its directory never has its size *)
(* recorded, and is empty once it is closed.                               *)
(*                                                                         *)
(* Clusters of two cells or three slots: a directory's first cluster is    *)
(* full after "d", "b" and half of the long name "a", and after ".", ".."  *)
(* and that half.  There is room for both files of the root to grow.       *)
EXTENDS Fat32, TLC

CONSTANTS d, a, b
MCPaths == {<<Root, a>>, <<Root, b>>, <<d, a>>}

VARIABLES files, dirs
Store == INSTANCE FileStore
store == <<files, dirs>>

MCInit == Init /\ Store!Init

MCNext ==
  \/ \E h \in Handles, path \in Paths :
       \/ OpenCreate(h, path) /\ Store!Create(path)
       \/ Open(h, path, FALSE) /\ UNCHANGED store
       \/ Open(h, path, TRUE) /\ Store!Truncate({path})
  \/ \E h \in Handles : Close(h) /\ Store!Truncate({nodes[h].path} \cap LiesAcross)
  \/ \E h \in Handles, off \in 0 .. MaxSize, n \in 1 .. MaxWrite, x \in Val :
       /\ fat32_write(h, off, n, x)
       /\ IF Written(h, off, n) = 0 THEN UNCHANGED store
          ELSE Store!Write(nodes[h].path, off, Written(h, off, n), x)
  \/ \E path \in Paths : fat32_unlink(path) /\ Store!Remove(path)
  \/ \E n \in DirNames :
       \/ sys_mkdir(n) /\ Store!MakeDir(n)
       \/ fat32_rmdir(n) /\ Store!RemoveDir(n)
  \/ Abandoned /\ UNCHANGED store
  \/ Reboot /\ Store!Truncate(LiesAcross)

MCSpec == MCInit /\ [][MCNext]_<<vars, store>>
-----------------------------------------------------------------------------
(* Every file and directory of the store is on the volume under its name   *)
(* and nothing else is; a file reads back as what was written to it, from  *)
(* a handle as well as after it is closed, also when the disk is full,     *)
(* calls are given up half-way and the machine is switched off between two *)
(* calls.                                                                  *)
FilesKept ==
  /\ DOMAIN files = Files /\ dirs = Dirs
  /\ \A path \in Files \ LiesAcross : Contents(FileEntry(path)) = files[path]
  /\ \A path \in LiesAcross : FileEntry(path).size = 0 /\ (IsOpen(path) \/ files[path] = <<>>)
  /\ \A h \in Handles : nodes[h] # NIL => Contents(nodes[h]) = files[nodes[h].path]

(* Clusters of removed and truncated files are never used again: what they *)
(* hold does not tell states apart.                                        *)
InUse ==
  UNION {Range(Chain(vol, c)) : c \in {s[1] : s \in Starts}
                                     \cup {nodes[h].cluster : h \in {g \in Handles : nodes[g] # NIL}}}
WhatMatters ==
  <<vol.fat, [c \in InUse |-> <<vol.slots[c], vol.cells[c]>>], fat_disk, nodes, files, dirs>>
=============================================================================
