---------------------------- MODULE AddressSpace ----------------------------
(***************************************************************************)
(* The memory of programs: address spaces with their page tables, the      *)
(* program break, shared memory objects, the surface a program shares      *)
(* with the compositor, and what fork, execve, exit and the reaping of     *)
(* zombies do with them.  System calls are not preempted: each is a step.  *)
(*                                                                         *)
(* The page allocator is the set of used frames: module PagePool is what   *)
(* it promises, that it returns a free one.  Which one makes no difference *)
(* here, and to keep the states few a frame has a name for the use that it *)
(* is first given to.  Without a frame the kernel panics, and there is no  *)
(* step.  The image, the stack and the signal trampoline of a program are  *)
(* the pages Image.  Shared objects are whole pages; the break is counted  *)
(* in parts of a page, which stand for bytes.                              *)
(***************************************************************************)
EXTENDS Naturals, FiniteSets

CONSTANTS
  Task,         \* PCBs
  InitTask,     \* the PCB of pid 1
  MaxFrames,    \* how many frames there are
  Image, Heap, Shmem,   \* pages of the user half, numbers in this order
  Parts,        \* how many parts a page has
  Table(_),     \* the page table that a page is in
  Obj,          \* the memory of shm_object_t
  MaxSize,      \* the largest shared memory object, in pages
  MaxRefs,      \* how many references an object gets (a bound: execve() drops none)
  NULL

Page == Image \cup Heap \cup Shmem
Tables == {Table(v) : v \in Page}
Least(S) == CHOOSE x \in S : \A y \in S : x <= y
Ends(start, size) == start .. (start + size - 1)

(* What needs a frame, and the frames, named for what they are first used. *)
Cell == ({"directory"} \X Task) \cup ({"table"} \X Task \X Tables)
          \cup ({"page"} \X Task \X Page) \cup ({"object"} \X Obj \X (1 .. MaxSize))
Frame == Cell \X (1 .. MaxFrames)

Mapping == [start : Shmem, size : 1 .. MaxSize, obj : Obj]
Space == [dir : Frame, table : [Tables -> Frame \cup {NULL}],
          page : [Page -> Frame \cup {NULL}], maps : SUBSET Mapping]
SharedObject(n) == [size : {n}, frames : [1 .. n -> Frame], refcount : Nat]
Layer == [owner : Task, obj : Obj, start : Shmem]

ASSUME MemoryAssumption ==
  /\ MaxFrames \in Nat /\ MaxSize \in Nat /\ Parts \in Nat \ {0} /\ InitTask \in Task
  /\ Page \subseteq Nat /\ IsFiniteSet(Page) /\ IsFiniteSet(Task) /\ IsFiniteSet(Obj)
  /\ Image \cap Heap = {} /\ Image \cap Shmem = {} /\ Heap \cap Shmem = {}
  /\ NULL \notin Frame /\ NULL \notin Space /\ NULL \notin Layer
  /\ \A n \in 1 .. MaxSize : NULL \notin SharedObject(n)

VARIABLES
  life,       \* task -> "UNUSED", "ALIVE" or "ZOMBIE"
  as,         \* task -> its address_space_t, or NULL
  brk_end,    \* task -> how many parts of the heap lie below its break
  tidy,       \* history: the tasks whose break has made Tidy moves only
  shm,        \* object -> shm_object_t, NULL when it is not allocated
  shm_table,  \* the objects that shm_map() finds
  layer,      \* the surface: its owner, object and place, or NULL
  used        \* the frames that are not free

mvars == <<life, as, brk_end, tidy, shm, shm_table, layer, used>>

(* The memory that the operations below work on, and their effect. *)
World == [as |-> as, shm |-> shm, table |-> shm_table, used |-> used]
Becomes(W) == as' = W.as /\ shm' = W.shm /\ shm_table' = W.table /\ used' = W.used
-----------------------------------------------------------------------------
(* A free frame for the cell c, when the frames U are used. *)
alloc_frame(U, c) == <<c, CHOOSE i \in 1 .. MaxFrames : <<c, i>> \notin U>>
Frames(U, C) == {alloc_frame(U, c) : c \in C}
Enough(U, C) == Cardinality(U) + Cardinality(C) <= MaxFrames

PageCells(t, V)   == {<<"page", t, v>> : v \in V}
TableCells(t, R)  == {<<"table", t, r>> : r \in R}
ObjectCells(o, n) == {<<"object", o, i>> : i \in 1 .. n}

(* map_page() of the pages V of A, page v to the frame q[v]: the first     *)
(* page of a table brings the table.                                       *)
NewTables(A, V) == {r \in Tables : A.table[r] = NULL /\ \E v \in V : Table(v) = r}

map_pages(A, t, V, q, U) ==
  [dir   |-> A.dir,
   table |-> [r \in Tables |-> IF r \in NewTables(A, V)
                               THEN alloc_frame(U, <<"table", t, r>>) ELSE A.table[r]],
   page  |-> [v \in Page |-> IF v \in V THEN q[v] ELSE A.page[v]],
   maps  |-> A.maps]

alloc_map_pages(A, t, V, U) ==
  map_pages(A, t, V, [v \in V |-> alloc_frame(U, <<"page", t, v>>)], U)

OwnCells(A, t, V) == PageCells(t, V) \cup TableCells(t, NewTables(A, V))

(* unmap_page() of the pages V of A: the last page of a table takes the    *)
(* table with it.                                                          *)
Emptied(A, V) ==
  {r \in Tables : /\ \E v \in V : Table(v) = r /\ A.page[v] # NULL
                  /\ \A w \in Page \ V : Table(w) = r => A.page[w] = NULL}

unmap_pages(A, V) ==
  [dir   |-> A.dir,
   table |-> [r \in Tables |-> IF r \in Emptied(A, V) THEN NULL ELSE A.table[r]],
   page  |-> [v \in Page |-> IF v \in V THEN NULL ELSE A.page[v]],
   maps  |-> A.maps]

TableFrames(A, R) == {A.table[r] : r \in R} \ {NULL}
PageFrames(A, V)  == {A.page[v] : v \in V} \ {NULL}

(* An address space with pages of its own at V: a program that is loaded,  *)
(* or the copy that fork() makes.                                          *)
create_address_space(f) ==
  [dir |-> f, table |-> [r \in Tables |-> NULL], page |-> [v \in Page |-> NULL], maps |-> {}]

SpaceCells(t, V) ==
  {<<"directory", t>>} \cup PageCells(t, V) \cup TableCells(t, {Table(v) : v \in V})

NewSpace(t, V, U) ==
  alloc_map_pages(create_address_space(alloc_frame(U, <<"directory", t>>)), t, V, U)

(* destroy_address_space(): the frames of shared memory are not its own.   *)
destroy_address_space_All(A) ==
  {A.dir} \cup TableFrames(A, Tables) \cup PageFrames(A, Page)

destroy_address_space(A) ==
  {A.dir} \cup TableFrames(A, Tables) \cup PageFrames(A, Page \ Shmem)

(* The world with address space A for t and the used frames U. *)
WithSpace(W, t, A, U) ==
  [as |-> [W.as EXCEPT ![t] = A], shm |-> W.shm, table |-> W.table, used |-> U]
-----------------------------------------------------------------------------
(* kernel_load_elf() of a first program. *)
MemoryInit ==
  /\ Enough({}, SpaceCells(InitTask, Image))
  /\ life = [u \in Task |-> IF u = InitTask THEN "ALIVE" ELSE "UNUSED"]
  /\ as = [u \in Task |-> IF u = InitTask THEN NewSpace(u, Image, {}) ELSE NULL]
  /\ brk_end = [u \in Task |-> 0] /\ tidy = Task
  /\ shm = [o \in Obj |-> NULL] /\ shm_table = {} /\ layer = NULL
  /\ used = Frames({}, SpaceCells(InitTask, Image))

Alive(t) == life[t] = "ALIVE"

(* sys_sbrk() by n parts, up or down.  Its loops go in steps of a page from *)
(* the lower break on, wherever in a page that is, and so come to the page *)
(* v at the same place; going up they map over a page that is there.       *)
Bytes(v)      == (v - Least(Heap)) * Parts
Below(a)      == {v \in Heap : Bytes(v) < a}
Visited(a, b) == {v \in Heap : LET va == Bytes(v) + (a % Parts) IN a <= va /\ va < b}

Grown(t, n)  == Visited(brk_end[t], brk_end[t] + n)
Shrunk(t, n) == Visited(brk_end[t] - n, brk_end[t])

(* A move that lets exactly the pages with bytes below the break be there: *)
(* to the start of a page, or up to a place further into a page than the   *)
(* place it comes from.                                                    *)
Tidy(a, b) == b % Parts = 0 \/ (a < b /\ a % Parts < b % Parts)

Moves(t, b) ==
  /\ brk_end' = [brk_end EXCEPT ![t] = b]
  /\ tidy' = IF Tidy(brk_end[t], b) THEN tidy ELSE tidy \ {t}

sbrk_up(t, n) ==
  LET C == OwnCells(as[t], t, Grown(t, n))
  IN  /\ Alive(t) /\ n > 0 /\ brk_end[t] + n < Cardinality(Heap) * Parts   \* else -ENOMEM
      /\ Enough(used, C)
      /\ Becomes(WithSpace(World, t, alloc_map_pages(as[t], t, Grown(t, n), used),
                           used \cup Frames(used, C)))
      /\ Moves(t, brk_end[t] + n)
      /\ UNCHANGED <<life, layer>>

Freed(A, V) == PageFrames(A, V) \cup TableFrames(A, Emptied(A, V))

sbrk_down_KeepBreak(t, n) ==
  /\ Alive(t) /\ n > 0 /\ n <= brk_end[t]
  /\ Becomes(WithSpace(World, t, unmap_pages(as[t], Shrunk(t, n)),
                       used \ Freed(as[t], Shrunk(t, n))))
  /\ UNCHANGED <<life, brk_end, tidy, layer>>

sbrk_down(t, n) ==
  /\ Alive(t) /\ n > 0 /\ n <= brk_end[t]
  /\ Becomes(WithSpace(World, t, unmap_pages(as[t], Shrunk(t, n)),
                       used \ Freed(as[t], Shrunk(t, n))))
  /\ Moves(t, brk_end[t] - n)
  /\ UNCHANGED <<life, layer>>
-----------------------------------------------------------------------------
(* shm_create(): an object o of n pages, with one reference of its own. *)
shm_create(W, o, n) ==
  [as    |-> W.as,
   shm   |-> [W.shm EXCEPT ![o] =
                [size |-> n, refcount |-> 1,
                 frames |-> [i \in 1 .. n |-> alloc_frame(W.used, <<"object", o, i>>)]]],
   table |-> W.table,
   used  |-> W.used \cup Frames(W.used, ObjectCells(o, n))]

FreeObj == CHOOSE o \in Obj : shm[o] = NULL
HasFreeObj == \E o \in Obj : shm[o] = NULL

sys_shm_create(t, n) ==
  LET W == shm_create(World, FreeObj, n)
  IN  /\ Alive(t) /\ HasFreeObj /\ Enough(used, ObjectCells(FreeObj, n))
      /\ Becomes([W EXCEPT !.table = @ \cup {FreeObj}])
      /\ UNCHANGED <<life, brk_end, tidy, layer>>

(* shm_find_free_region(): the first gap between the mappings, which are   *)
(* sorted by address.                                                      *)
Taken(M) == UNION {Ends(m.start, m.size) : m \in M}
Places(A, n) == {v \in Shmem : Ends(v, n) \subseteq Shmem \ Taken(A.maps)}
Region(A, n) == Ends(Least(Places(A, n)), n)

(* shm_map() of object o, whose frames come in order; no room is a panic.  *)
shm_map(W, t, o) ==
  LET A == W.as[t]
      s == W.shm[o]
      v == Least(Places(A, s.size))
      V == Region(A, s.size)
      B == map_pages(A, t, V, [w \in V |-> s.frames[w - v + 1]], W.used)
      m == [start |-> v, size |-> s.size, obj |-> o]
  IN  [as    |-> [W.as EXCEPT ![t] = [dir |-> B.dir, table |-> B.table, page |-> B.page,
                                      maps |-> B.maps \cup {m}]],
       shm   |-> [W.shm EXCEPT ![o] = [size |-> s.size, refcount |-> s.refcount + 1,
                                       frames |-> s.frames]],
       table |-> W.table,
       used  |-> W.used \cup Frames(W.used, TableCells(t, NewTables(A, V)))]

MapCells(A, t, n) == TableCells(t, NewTables(A, Region(A, n)))

sys_shm_map(t, o) ==
  /\ Alive(t) /\ o \in shm_table /\ shm[o].refcount < MaxRefs
  /\ Places(as[t], shm[o].size) # {} /\ Enough(used, MapCells(as[t], t, shm[o].size))
  /\ Becomes(shm_map(World, t, o))
  /\ UNCHANGED <<life, brk_end, tidy, layer>>

(* shm_unmap() of the mappings M of t: an object whose last reference goes *)
(* is freed.                                                               *)
RefsIn(M, o) == {m \in M : m.obj = o}

shm_unmap(W, t, M) ==
  LET A    == W.as[t]
      V    == Taken(M)
      B    == unmap_pages(A, V)
      Gone == {o \in Obj : RefsIn(M, o) # {} /\ W.shm[o].refcount <= Cardinality(RefsIn(M, o))}
      Left(o) == [size |-> W.shm[o].size, frames |-> W.shm[o].frames,
                  refcount |-> W.shm[o].refcount - Cardinality(RefsIn(M, o))]
  IN  [as    |-> [W.as EXCEPT ![t] = [dir |-> B.dir, table |-> B.table, page |-> B.page,
                                      maps |-> B.maps \ M]],
       shm   |-> [o \in Obj |-> IF o \in Gone THEN NULL
                                ELSE IF RefsIn(M, o) = {} THEN W.shm[o] ELSE Left(o)],
       table |-> W.table \ Gone,
       used  |-> W.used \ (TableFrames(A, Emptied(A, V))
                   \cup UNION {{W.shm[o].frames[i] : i \in 1 .. W.shm[o].size} : o \in Gone})]

(* What programs are taken to do: the owner of a surface unmaps it by      *)
(* releasing it, not with shm_unmap() and not by execve().                 *)
Keeps(t, o) == layer # NULL => <<layer.owner, layer.obj>> # <<t, o>>

sys_shm_unmap(t, m) ==
  /\ Alive(t) /\ m \in as[t].maps /\ Keeps(t, m.obj)
  /\ Becomes(shm_unmap(World, t, {m}))
  /\ UNCHANGED <<life, brk_end, tidy, layer>>
-----------------------------------------------------------------------------
(* The surface: of its two objects, pixels and metadata, one is modelled.  *)
(* The compositor reads its frames as long as it is attached.              *)
layer_prepare_state(W, t, o, n) == shm_map(shm_create(W, o, n), t, o)

NewLayer(t, o, n) == [owner |-> t, obj |-> o, start |-> Least(Places(as[t], n))]

(* layer_release_state(): the pages are unmapped, the mapping that starts  *)
(* there is dropped, and the object is freed with its frames.              *)
Released(W, s, M) ==
  LET A == W.as[s.owner]
      q == W.shm[s.obj]
      V == Ends(s.start, q.size)
      B == unmap_pages(A, V)
  IN  [as    |-> [W.as EXCEPT ![s.owner] = [dir |-> B.dir, table |-> B.table, page |-> B.page,
                                            maps |-> M]],
       shm   |-> [W.shm EXCEPT ![s.obj] = NULL],
       table |-> W.table,
       used  |-> W.used \ (TableFrames(A, Emptied(A, V)) \cup {q.frames[i] : i \in 1 .. q.size})]

layer_release_state_KeepMapping(W, s) == Released(W, s, W.as[s.owner].maps)

layer_release_state(W, s) == Released(W, s, {m \in W.as[s.owner].maps : m.start # s.start})

CanPrepare(t, n) ==
  /\ HasFreeObj /\ Places(as[t], n) # {}
  /\ Enough(used, ObjectCells(FreeObj, n) \cup MapCells(as[t], t, n))

sys_5ht_req_buf(t, n) ==
  /\ Alive(t) /\ layer = NULL /\ CanPrepare(t, n)
  /\ Becomes(layer_prepare_state(World, t, FreeObj, n))
  /\ layer' = NewLayer(t, FreeObj, n)
  /\ UNCHANGED <<life, brk_end, tidy>>

Owns(t) == layer # NULL /\ layer.owner = t

sys_5ht_rel_buf(t) ==
  /\ Alive(t) /\ Owns(t)
  /\ Becomes(layer_release_state(World, layer))
  /\ layer' = NULL
  /\ UNCHANGED <<life, brk_end, tidy>>

(* sys_5ht_rcfg_layer() with other dimensions: first the new buffer, then  *)
(* the old one is released.                                                *)
sys_5ht_rcfg_layer(t, n) ==
  /\ Alive(t) /\ Owns(t) /\ CanPrepare(t, n)
  /\ Becomes(layer_release_state(layer_prepare_state(World, t, FreeObj, n), layer))
  /\ layer' = NewLayer(t, FreeObj, n)
  /\ UNCHANGED <<life, brk_end, tidy>>
-----------------------------------------------------------------------------
Mapped(A) == {v \in Page : A.page[v] # NULL}

(* task_fork(): a copy of every page, shared memory included, whose copy   *)
(* is the child's alone and in no list.                                    *)
task_fork(t, u) ==
  LET C == SpaceCells(u, Mapped(as[t]))
  IN  /\ Alive(t) /\ life[u] = "UNUSED" /\ Enough(used, C)
      /\ Becomes(WithSpace(World, u, NewSpace(u, Mapped(as[t]), used), used \cup Frames(used, C)))
      /\ life' = [life EXCEPT ![u] = "ALIVE"]
      /\ brk_end' = [brk_end EXCEPT ![u] = brk_end[t]]
      /\ tidy' = IF t \in tidy THEN tidy \cup {u} ELSE tidy \ {u}
      /\ UNCHANGED layer

(* sys_execve(): the new image is loaded before the old one is destroyed.  *)
sys_execve(t) ==
  LET C == SpaceCells(t, Image)
  IN  /\ Alive(t) /\ ~Owns(t) /\ Enough(used, C)
      /\ Becomes(WithSpace(World, t, NewSpace(t, Image, used),
                           (used \cup Frames(used, C)) \ destroy_address_space(as[t])))
      /\ brk_end' = [brk_end EXCEPT ![t] = 0]
      /\ tidy' = tidy \cup {t}
      /\ UNCHANGED <<life, layer>>

(* kernel_load_elf() fails, on a file that is no program: the break has    *)
(* been reset and the old address space stays.  (So have the registers:    *)
(* the program goes on at address 0, which is not mapped in an image of    *)
(* user.ld, and task_exit() is what comes next.)                           *)
sys_execve_Fails(t) ==
  /\ Alive(t)
  /\ brk_end' = [brk_end EXCEPT ![t] = 0]
  /\ tidy' = tidy \ {t}
  /\ UNCHANGED <<life, as, shm, shm_table, layer, used>>

(* task_exit(): cleanup_layers(), then the mappings of shared memory; the  *)
(* address space stays until reap_zombies().                               *)
task_exit(t) ==
  LET W == IF Owns(t) THEN layer_release_state(World, layer) ELSE World
  IN  /\ Alive(t) /\ t # InitTask          \* else the kernel panics
      /\ Becomes(shm_unmap(W, t, W.as[t].maps))
      /\ life' = [life EXCEPT ![t] = "ZOMBIE"]
      /\ layer' = IF Owns(t) THEN NULL ELSE layer
      /\ UNCHANGED <<brk_end, tidy>>

reap_zombies(t) ==
  /\ life[t] = "ZOMBIE"
  /\ Becomes(WithSpace(World, t, NULL, used \ destroy_address_space(as[t])))
  /\ life' = [life EXCEPT ![t] = "UNUSED"]
  /\ brk_end' = [brk_end EXCEPT ![t] = 0]
  /\ tidy' = tidy \cup {t}
  /\ UNCHANGED layer

MemoryNext ==
  \E t \in Task :
    \/ \E n \in 1 .. (Cardinality(Heap) * Parts) : sbrk_up(t, n) \/ sbrk_down(t, n)
    \/ \E n \in 1 .. MaxSize : \/ sys_shm_create(t, n)
                               \/ sys_5ht_req_buf(t, n) \/ sys_5ht_rcfg_layer(t, n)
    \/ \E o \in Obj : sys_shm_map(t, o)
    \/ Alive(t) /\ \E m \in as[t].maps : sys_shm_unmap(t, m)
    \/ sys_5ht_rel_buf(t)
    \/ \E u \in Task : task_fork(t, u)
    \/ sys_execve(t) \/ sys_execve_Fails(t)
    \/ task_exit(t) \/ reap_zombies(t)

MemorySpec == MemoryInit /\ [][MemoryNext]_mvars
-----------------------------------------------------------------------------
(* What a frame is used for: a directory, a table, a page of its own, or a *)
(* page of a shared object.                                                *)
Live(W) == {t \in Task : W.as[t] # NULL}
Allocated(W) == {o \in Obj : W.shm[o] # NULL}

SpaceUses(t, A) ==
  {<<<<"directory", t>>, A.dir>>}
  \cup {<<<<"table", t, r>>, A.table[r]>> : r \in {x \in Tables : A.table[x] # NULL}}
  \cup {<<<<"page", t, v>>, A.page[v]>> : v \in Mapped(A) \ Taken(A.maps)}

ObjectUses(o, s) == {<<<<"object", o, i>>, s.frames[i]>> : i \in 1 .. s.size}

Uses(W) ==
  (UNION {SpaceUses(t, W.as[t]) : t \in Live(W)})
  \cup (UNION {ObjectUses(o, W.shm[o]) : o \in Allocated(W)})

(* No frame is free and in use, or used for two things: a program never    *)
(* sees memory of another one, or of a page table, after any sequence of   *)
(* forks, execs, exits, breaks and sharing, and no frame is freed twice.   *)
Exclusive(X, U) == \A x \in X : x[2] \in U /\ \A y \in X : x[2] = y[2] => x = y

FramesExclusive == Exclusive(Uses(World), used)

(* The mappings of object o. *)
Refs(W, o) == UNION {{<<t, m>> : m \in RefsIn(W.as[t].maps, o)} : t \in Live(W)}

(* An object outlives its mappings, and what a program has mapped as       *)
(* shared is the object: all mappings of an object show the same frames.   *)
SharingExact ==
  /\ \A t \in Live(World) : \A m \in as[t].maps :
       /\ shm[m.obj] # NULL /\ shm[m.obj].size = m.size
       /\ \A i \in 1 .. m.size : as[t].page[m.start + i - 1] = shm[m.obj].frames[i]
  /\ \A o \in Obj : shm[o] # NULL => shm[o].refcount > Cardinality(Refs(World, o))

(* As long as a program has moved its break tidily (by whole pages, say)   *)
(* and no execve() has failed, exactly the pages with bytes below the      *)
(* break are there, in a forked child as well, whatever else was mapped,   *)
(* unmapped or refused.                                                    *)
HeapMapped ==
  \A t \in Live(World) \cap tidy :
    \A v \in Heap : v \in Below(brk_end[t]) <=> as[t].page[v] # NULL

(* "Number of bytes to increment (positive) or decrement (negative)": what *)
(* lies below the break that sbrk() has set is memory, for any number of   *)
(* bytes.                                                                  *)
BreakBacked ==
  \A t \in Live(World) : \A v \in Below(brk_end[t]) : as[t].page[v] # NULL
=============================================================================
