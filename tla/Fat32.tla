------------------------------- MODULE Fat32 --------------------------------
(***************************************************************************)
(* The FAT32 file system (kernel/filesystem/fat32/fat32.c) as system calls *)
(* drive it (sys_open, sys_unlink, sys_mkdir, sys_rmdir; reads and writes  *)
(* by the disk worker).                                                    *)
(*                                                                         *)
(* vol is the volume as the kernel sees it, through the block cache and    *)
(* the FAT cache:                                                          *)
(*   fat    the next cluster of each cluster, 0 when it is free, or END    *)
(*   slots  what the clusters of directories hold                          *)
(*   cells  what the clusters of files hold; a cell stands for the bytes   *)
(*          between two offsets that programs use                          *)
(* A long name takes two slots, its long entry and the short one; names    *)
(* are compared as such, so that the generated short names never clash.    *)
(* The static functions are operators from volume to volume.               *)
(*                                                                         *)
(* A call of a program and a request of the worker are one step each: a    *)
(* program that needs the disk while the worker uses it gives up there for *)
(* good (Abandoned), so nobody sees the other in the middle of a change.   *)
(* The volume is fresh: clusters never used hold zeros, and as unlink,     *)
(* rmdir and truncate free no cluster, none is ever used again.            *)
(***************************************************************************)
EXTENDS Integers, SequencesExt

CONSTANTS
  Clusters,    \* number of clusters
  Cells,       \* cells of a cluster
  Slots,       \* directory slots of a cluster
  DirNames,    \* names of directories in the root
  Paths,       \* files, by <<directory, name>>
  LongNames,   \* the names that need two slots
  Val,         \* contents of cells
  Root,
  MaxSize,     \* bound: the largest file
  MaxWrite,    \* bound: cells of one write
  Handles,     \* bound: open files
  Exclusive,   \* is an open file neither opened again nor unlinked?
  PowerLoss,   \* may the power fail while the FAT cache is dirty?
  NIL

Cluster == 2 .. Clusters + 1
END     == Clusters + 2  \* FAT32_CLUSTER_END
root_cluster == 2
Name == DirNames \cup {path[2] : path \in Paths}

ASSUME Fat32Assumption ==
  /\ Clusters \in Nat \ {0} /\ Cells \in Nat \ {0} /\ Slots \in Nat \ {0, 1}
  /\ MaxSize \in Nat /\ MaxWrite \in Nat /\ Handles \subseteq Nat
  /\ Exclusive \in BOOLEAN /\ PowerLoss \in BOOLEAN
  /\ \A path \in Paths : /\ path = <<path[1], path[2]>>
                         /\ path[1] \in DirNames \cup {Root} /\ path[2] \notin DirNames
  /\ Name \cap {".", ".."} = {}   \* no path ends in one; elsewhere the VFS resolves them
  /\ NIL \notin Cluster /\ Root \notin DirNames

VARIABLES
  vol,
  fat_disk,  \* the FAT on the disk
  nodes      \* per handle, the node of an open file, or NIL

vars == <<vol, fat_disk, nodes>>

Free == [kind |-> "end"]
Deleted == [kind |-> "deleted"]
Long(n) == [kind |-> "lfn", name |-> n]
Entry(k, n, c) == [kind |-> k, name |-> n, cluster |-> c, size |-> 0]
-----------------------------------------------------------------------------
(* fat32_resolve_chain(): the clusters from c on, up to the end of the     *)
(* chain (or once around a loop).                                          *)
Chain(v, c) ==
  LET walk[n \in 1 .. Clusters] ==
        IF n = 1 THEN <<c>>
        ELSE LET chain == walk[n - 1]
                 next  == v.fat[chain[Len(chain)]]
             IN  IF next \in Cluster THEN Append(chain, next) ELSE chain
  IN  IF c \in Cluster THEN walk[Clusters] ELSE <<>>

FreeClusters(v) == {c \in Cluster : v.fat[c] = 0}

(* A wrong version: the cluster that is handed out stays free in the FAT. *)
fat32_allocate_cluster_Unmarked(v) == v

(* fat32_allocate_cluster(): the first free one, marked as an end. *)
Allocated(v) == Min(FreeClusters(v))
fat32_allocate_cluster(v) == [v EXCEPT !.fat[Allocated(v)] = END]

(* Cluster last, the end of a chain, gets a successor. *)
Extend(v, last) == [fat32_allocate_cluster(v) EXCEPT !.fat[last] = Allocated(v)]

(* The places <<cluster, index>> of a directory from cluster c on. *)
Places(v, c) ==
  LET chain == Chain(v, c)
  IN  [p \in 1 .. Slots * Len(chain) |->
         <<chain[((p - 1) \div Slots) + 1], ((p - 1) % Slots) + 1>>]
Slot(v, at) == v.slots[at[1]][at[2]]

(* The search that finddir, readdir, unlink, rmdir and update_dir_entry    *)
(* make from cluster c on, up to the first slot never used: the places of  *)
(* entries.  A long name is known by the long entry before the short one.  *)
Entries(v, c) ==
  LET places  == Places(v, c)
      slot(p) == Slot(v, places[p])
      unused  == {p \in DOMAIN places : slot(p).kind = "end"}
  IN  {places[p] : p \in {q \in 1 .. Min(unused \cup {Len(places) + 1}) - 1 :
         /\ slot(q).kind \in {"file", "dir"}
         /\ slot(q).name \in LongNames => q > 1 /\ slot(q - 1) = Long(slot(q).name)}}

Found(v, c, name) == {at \in Entries(v, c) : Slot(v, at).name = name}

fat32_finddir(v, c, name) == CHOOSE at \in Found(v, c, name) : TRUE

(* The first cluster of a directory, of the root's or another's.           *)
IsDir(v, d) ==
  d = Root \/ \E at \in Found(v, root_cluster, d) : Slot(v, at).kind = "dir"
DirCluster(v, d) ==
  IF d = Root THEN root_cluster ELSE Slot(v, fat32_finddir(v, root_cluster, d)).cluster

Exists(v, path) == IsDir(v, path[1]) /\ Found(v, DirCluster(v, path[1]), path[2]) # {}
-----------------------------------------------------------------------------
SlotsOf(name) == IF name \in LongNames THEN 2 ELSE 1

(* Where n free slots follow each other, in the first place.               *)
FreeRuns(v, c, n) ==
  LET places == Places(v, c)
  IN  {p \in 1 .. Len(places) - n + 1 :
         \A q \in p .. p + n - 1 : Slot(v, places[q]).kind \in {"end", "deleted"}}

(* fat32_find_free_slots() extends a directory in which there are too few. *)
fat32_find_free_slots(v, c, n) ==
  LET chain == Chain(v, c)
  IN  IF FreeRuns(v, c, n) # {} THEN v
      ELSE [Extend(v, chain[Len(chain)]) EXCEPT
              !.slots[Allocated(v)] = [k \in 1 .. Slots |-> Free]]

(* fat32_write_dir_entries() at places[p] and after. *)
fat32_write_dir_entries(v, c, p, name, entry) ==
  LET places == Places(v, c)
      sfn    == places[p + SlotsOf(name) - 1]
      long   == IF name \in LongNames
                THEN [v EXCEPT !.slots[places[p][1]][places[p][2]] = Long(name)] ELSE v
  IN  [long EXCEPT !.slots[sfn[1]][sfn[2]] = entry]

(* How many clusters fat32_create() and fat32_mkdir() need. *)
Needed(v, c, name) == IF FreeRuns(v, c, SlotsOf(name)) = {} THEN 2 ELSE 1

(* fat32_create() of a name in the directory at c: the new volume, where   *)
(* the short entry is and where the file's data starts.                    *)
fat32_create(v, c, name) ==
  LET dir   == fat32_find_free_slots(v, c, SlotsOf(name))
      new   == Allocated(dir)
      p     == Min(FreeRuns(dir, c, SlotsOf(name)))
  IN  [vol     |-> fat32_write_dir_entries(fat32_allocate_cluster(dir), c, p, name,
                                           Entry("file", name, new)),
       cluster |-> new,
       parent  |-> Places(dir, c)[p + SlotsOf(name) - 1][1]]

(* fat32_mkdir() allocates the directory's own cluster first. *)
fat32_mkdir(v, c, name) ==
  LET new  == Allocated(v)
      own  == [fat32_allocate_cluster(v) EXCEPT !.slots[new] =
                 [k \in 1 .. Slots |->
                    IF k = 1 THEN Entry("dir", ".", new)
                    ELSE IF k = 2 THEN Entry("dir", "..", c) ELSE Free]]
      dir  == fat32_find_free_slots(own, c, SlotsOf(name))
  IN  fat32_write_dir_entries(dir, c, Min(FreeRuns(dir, c, SlotsOf(name))), name,
                              Entry("dir", name, new))

(* fat32_delete_lfn_chain(): the long entry goes when it is in the same    *)
(* cluster.                                                                *)
fat32_delete_lfn_chain(v, at) ==
  [v EXCEPT !.slots[at[1]] = [k \in 1 .. Slots |->
     IF k = at[2] \/ (k = at[2] - 1 /\ @[k].kind = "lfn") THEN Deleted ELSE @[k]]]

(* A wrong version: only the first cluster of a directory is looked at. *)
fat32_dir_is_empty_First(v, c) ==
  \A at \in Entries(v, c) : at[1] = c => Slot(v, at).name \in {".", ".."}

fat32_dir_is_empty(v, c) ==
  \A at \in Entries(v, c) : Slot(v, at).name \in {".", ".."}

(* fat32_update_dir_entry() of a node looks for the entry from the cluster *)
(* on that held its short entry.                                           *)
fat32_update_dir_entry(v, node, size) ==
  LET at == fat32_finddir(v, node.parent, node.name)
  IN  IF Found(v, node.parent, node.name) = {} THEN v
      ELSE [v EXCEPT !.slots[at[1]][at[2]].size = size]
-----------------------------------------------------------------------------
Init ==
  /\ vol = [fat   |-> [c \in Cluster |-> IF c = root_cluster THEN END ELSE 0],
            slots |-> [c \in Cluster |-> [k \in 1 .. Slots |-> Free]],
            cells |-> [c \in Cluster |-> [k \in 0 .. Cells - 1 |-> NIL]]]
  /\ fat_disk = vol.fat
  /\ nodes = [h \in Handles |-> NIL]

IsOpen(path) == \E h \in Handles : nodes[h] # NIL /\ nodes[h].path = path
Unused(h) == nodes[h] = NIL /\ \A g \in Handles : nodes[g] = NIL => h <= g

Node(path, c, parent, size) ==
  [path |-> path, name |-> path[2], cluster |-> c, parent |-> parent, size |-> size]

(* sys_open() of a file that is there, which may truncate it.  The chain   *)
(* of a truncated file stays as it is.                                     *)
Open(h, path, trunc) ==
  LET at   == fat32_finddir(vol, DirCluster(vol, path[1]), path[2])
      e    == Slot(vol, at)
      node == Node(path, e.cluster, at[1], IF trunc THEN 0 ELSE e.size)
  IN  /\ Unused(h) /\ Exists(vol, path)
      /\ Exclusive => ~IsOpen(path)
      /\ nodes' = [nodes EXCEPT ![h] = node]
      /\ vol' = IF trunc THEN fat32_update_dir_entry(vol, node, 0) ELSE vol
      /\ UNCHANGED fat_disk

(* sys_open() with O_CREAT of one that is not. *)
OpenCreate(h, path) ==
  LET c   == DirCluster(vol, path[1])
      new == fat32_create(vol, c, path[2])
  IN  /\ Unused(h) /\ IsDir(vol, path[1]) /\ ~Exists(vol, path)
      /\ Cardinality(FreeClusters(vol)) >= Needed(vol, c, path[2])
      /\ vol' = new.vol
      /\ nodes' = [nodes EXCEPT ![h] = Node(path, new.cluster, new.parent, 0)]
      /\ UNCHANGED fat_disk

Close(h) ==
  /\ nodes[h] # NIL
  /\ nodes' = [nodes EXCEPT ![h] = NIL]
  /\ UNCHANGED <<vol, fat_disk>>

(* The chain of a file grows to n clusters, or by as many as are free. *)
Grown(v, c, n) ==
  LET old  == Len(Chain(v, c))
      to[k \in old .. n] ==
        IF k = old THEN v
        ELSE LET before == to[k - 1]
             IN  IF FreeClusters(before) = {} THEN before
                 ELSE Extend(before, Chain(before, c)[k - 1])
  IN  IF n <= old THEN v ELSE to[n]

Put(v, chain, off, n, x) ==
  LET put[k \in 0 .. n] ==
        IF k = 0 THEN v
        ELSE LET at == off + k - 1
             IN  [put[k - 1] EXCEPT !.cells[chain[(at \div Cells) + 1]][at % Cells] = x]
  IN  put[n]

(* fat32_write() of n cells at an offset.  The size is raised before it is *)
(* known whether there is room.  Without room for the cluster of the       *)
(* offset the call fails; later on, it writes what it can.                 *)
WrittenTo(h, off, n) == Grown(vol, nodes[h].cluster, ((off + n - 1) \div Cells) + 1)
Written(h, off, n) ==
  Max({0, Min({n, Len(Chain(WrittenTo(h, off, n), nodes[h].cluster)) * Cells - off})})

fat32_write(h, off, n, x) ==
  LET node  == nodes[h]
      size  == Max({node.size, off + n})
      grown == WrittenTo(h, off, n)
      done  == Written(h, off, n)
  IN  /\ node # NIL /\ off <= node.size /\ size <= MaxSize
      /\ nodes' = [nodes EXCEPT ![h].size = size]
      /\ IF done = 0
         THEN vol' = grown /\ UNCHANGED fat_disk
         ELSE /\ vol' = fat32_update_dir_entry(
                          Put(grown, Chain(grown, node.cluster), off, done, x), node, size)
              /\ fat_disk' = grown.fat

fat32_unlink(path) ==
  /\ Exists(vol, path)
  /\ Exclusive => ~IsOpen(path)
  /\ vol' = fat32_delete_lfn_chain(vol, fat32_finddir(vol, DirCluster(vol, path[1]), path[2]))
  /\ UNCHANGED <<fat_disk, nodes>>

sys_mkdir(d) ==
  /\ ~IsDir(vol, d) /\ Cardinality(FreeClusters(vol)) >= Needed(vol, root_cluster, d)
  /\ vol' = fat32_mkdir(vol, root_cluster, d)
  /\ UNCHANGED <<fat_disk, nodes>>

fat32_rmdir(d) ==
  /\ IsDir(vol, d) /\ fat32_dir_is_empty(vol, DirCluster(vol, d))
  /\ vol' = fat32_delete_lfn_chain(vol, fat32_finddir(vol, root_cluster, d))
  /\ UNCHANGED <<fat_disk, nodes>>

(* fat32_create() or fat32_mkdir() that runs out of clusters half-way, or  *)
(* that is given up at its first write to the disk because the worker is   *)
(* using it: the cluster it has taken by then is lost or has become part   *)
(* of the directory.                                                       *)
Abandoned ==
  /\ FreeClusters(vol) # {}
  /\ \/ vol' = fat32_allocate_cluster(vol)
     \/ \E path \in Paths \cup ({Root} \X DirNames) :
          LET c == DirCluster(vol, path[1])
          IN  /\ IsDir(vol, path[1]) /\ Found(vol, c, path[2]) = {}
              /\ FreeRuns(vol, c, SlotsOf(path[2])) = {}
              /\ vol' = Extend(vol, Chain(vol, c)[Len(Chain(vol, c))])
  /\ UNCHANGED <<fat_disk, nodes>>

(* The machine is switched off and on again. *)
Reboot ==
  /\ PowerLoss \/ vol.fat = fat_disk
  /\ vol' = [vol EXCEPT !.fat = fat_disk]
  /\ nodes' = [h \in Handles |-> NIL]
  /\ UNCHANGED fat_disk

Next ==
  \/ \E h \in Handles, path \in Paths :
       OpenCreate(h, path) \/ \E trunc \in BOOLEAN : Open(h, path, trunc)
  \/ \E h \in Handles : Close(h)
  \/ \E h \in Handles, off \in 0 .. MaxSize, n \in 1 .. MaxWrite, x \in Val : fat32_write(h, off, n, x)
  \/ \E path \in Paths : fat32_unlink(path)
  \/ \E d \in DirNames : sys_mkdir(d) \/ fat32_rmdir(d)
  \/ Abandoned \/ Reboot

Spec == Init /\ [][Next]_vars
-----------------------------------------------------------------------------
Dirs  == {d \in DirNames : IsDir(vol, d)}
Files == {path \in Paths : Exists(vol, path)}
Place(path) == fat32_finddir(vol, DirCluster(vol, path[1]), path[2])
FileEntry(path) == Slot(vol, Place(path))

Starts ==
  {<<DirCluster(vol, d), d>> : d \in Dirs \cup {Root}}
    \cup {<<FileEntry(path).cluster, path>> : path \in Files}

SlotValue ==
  {Free, Deleted} \cup {Long(n) : n \in Name}
    \cup [kind : {"file", "dir"}, name : Name \cup {".", ".."}, cluster : Cluster, size : 0 .. MaxSize]

TypeOK ==
  /\ vol.fat \in [Cluster -> Cluster \cup {0, END}]
  /\ \A c \in Cluster : Range(vol.slots[c]) \subseteq SlotValue
  /\ vol.cells \in [Cluster -> [0 .. Cells - 1 -> Val \cup {NIL}]]

(* The cluster chains of all files and directories are whole and disjoint: *)
(* they consist of clusters in use, end, and no cluster belongs to two of  *)
(* them, however they grow, shrink and are removed.                        *)
ChainsDisjoint ==
  /\ TypeOK
  /\ \A s \in Starts :
       LET chain == Chain(vol, s[1])
       IN  /\ chain # <<>> /\ vol.fat[chain[Len(chain)]] = END
           /\ \A t \in Starts : s # t => Range(chain) \cap Range(Chain(vol, t[1])) = {}

(* What fat32_read() from beginning to end returns, of a node or an entry. *)
Contents(node) ==
  LET chain == Chain(vol, node.cluster)
  IN  [k \in 1 .. Min({node.size, Len(chain) * Cells}) |->
         vol.cells[chain[((k - 1) \div Cells) + 1]][(k - 1) % Cells]]

(* Names whose long entry is in the cluster before the short one's.        *)
LiesAcross == {path \in Files : path[2] \in LongNames /\ Place(path)[2] = 1}
=============================================================================
