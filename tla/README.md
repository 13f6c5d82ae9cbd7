# Serotonin: a TLA+ development of the kernel

Serotonin is a 32-bit x86 operating system for one processor: a monolithic
kernel (`kernel/`) and user programs (`user/`).  This directory models the
kernel and its init program in TLA+, checks the models with TLC on small instances, and proves
the properties that matter most with TLAPS for every value of the constants.

`PROJECT.json` lists the components, the runs, the mutants that show each
property can fail, the source lines behind every definition, the hazards, the
findings and the theorems.

## 1. The system

### How control flows

There is one processor and no kernel preemption in the usual sense.  Three facts
shape every model:

* **Interrupt gates and `lock_scheduler()`.**  System calls are entered with
  interrupts enabled; `lock_scheduler()` counts nested `cli`s.  The timer
  interrupt (`irq_pit_handler`) may therefore fall between two statements of a
  system call, but not inside a locked section.
* **A blocked program resumes in user mode.**  `switch_task()` restores the
  frame that the system call saved on entry.  Whatever a system call would do
  after `task_yield()` is never executed: a program that blocks in `read()`,
  `waitpid()` or a semaphore is done with the call, and finds in `eax` what the
  waker put there, or the call's number.
* **A blocked kernel thread resumes in the kernel**, inside `kernel_yield()`,
  which it executes once more before it returns.

### Components

| component | state | operations | interacts with |
|---|---|---|---|
| Scheduler (`schedule/schedule.c`, `switch_task.s`) | `prio_q`, two bitmaps, `task_list`, `zombie_list`, kernel stacks, PCBs | create, fork, exit, yield, block, unblock, decay, reap | every blocking call, timer, all drivers |
| Signals, waitpid, alarms (`schedule.c`, `syscall.c`) | masks, handlers, `waiting_on`, `alarm_ticks` in the PCB | kill, signal, sigret, pause, alarm, waitpid | scheduler, timer |
| Page allocator (`vmm/vmm.c`) | zones, page descriptors, free lists | `buddy_init`, `alloc_pages`, `free_pages` | address spaces, heap, drivers |
| Address spaces, shared memory (`vmm/vmm.c`) | page tables, `shm_table`, `shmem_list` | map, unmap, clone, create, destroy, copy to and from user | page allocator, fork, exec |
| Kernel heap (`kernel.c`) | block list with headers | malloc, free, aligned variants | everything |
| Pipes, sockets (`schedule.c`, `syscall.c`) | rings, reader and writer counts, waiter lists, backlog | read, write, close, accept, connect | scheduler, descriptors, signals |
| Poll and select (`syscall.c`) | list of waiters with deadlines | poll, select, check at every tick | pipes, sockets, ptys, timer |
| Descriptors and VFS (`user_fs.c`, `vfs.c`) | descriptor tables, handles, mounts | open, read, write, dup, close, lookup | all file systems |
| FAT32, tmpfs, devfs | cluster chains, nodes | file and directory operations | block cache, VFS |
| Block cache (`blkcache.c`) | entries, hash chains, LRU list | read, batched read, write-through, invalidate | FAT32, disk driver |
| Disk driver and worker (`ide_pci.c`) | channel locks, request ring, DMA flags | submit, worker loop, interrupt | scheduler, semaphores, block cache |
| Pseudo terminals (`pty.c`) | rings, line buffer, sessions | read, write, line discipline | signals, poll |
| Devices (keyboard, mouse, serial, RTL8139, AC97) | rings, single waiting slots | interrupt handlers, read, write | scheduler |
| Compositor and terminal (`vbe.c`, `tty.c`) | layers, dirty tiles, parser state | compose, scroll, print | timer, shared memory |
| Init supervisor (`user/init/init.c`) | jobs, processes | start, wait, restart | waitpid, pipes |
| Library (`stdlib.c`, `stdio.c`) | none | conversions, sorting, searching | everything |

### What is hard here

The `hazards` of `PROJECT.json` give each one at its line.  In short:

* **intrusive queues**: a task has one `next` pointer; enqueueing it twice cuts or
  loops a list, and there are nine places in the kernel that wake tasks;
* **wake-ups by anything**: a signal or an alarm wakes a task out of any blocking
  call, and the waiter record or `waiting_on` that the call left stays behind;
* **lifetimes**: zombies are reaped by whoever yields next; PCBs, stacks, sockets,
  shared objects and address spaces are referred to from queues, peers, tables
  and waiter lists;
* **bitmaps and counters at their limits**: priorities in bytes under decay, one
  bit for 32 queues, 8 ranges of memory, 32 exclusions, a ring that is full, a
  name table, a backlog, a heap or a volume without room;
* **state left half done when a call gives up the processor**: the block cache
  marks an entry valid before it is filled, a file is given a cluster and the
  program is gone;
* **one thread that waits for others**: init polls, reads, waits and answers
  requests in one loop.

## 2. The modules

| module | models | composes |
|---|---|---|
| `RunQueue` | `prio_q`, `top_bitmap`, `prio_bitmap` as pure operators | |
| `Scheduler` | PCBs, all task operations, signals, waitpid, alarms, the timer interrupt, kernel stacks, context switch | extends `RunQueue` |
| `MCScheduler` | small instances; the workload and fairness of the liveness run | extends `Scheduler` |
| `Scheduler_proofs` | lemmas and theorems on queues and tasks | extends `Scheduler` |
| `MemoryMap` | `buddy_init()`: from the boot loader's map to zones | |
| `PagePool` | what a page allocator promises (abstract specification) | |
| `Buddy` | zones, free lists, splitting, coalescing | implements `PagePool` |
| `PhysicalMemory`, `MCPhysicalMemory` | physical memory from power-on to allocation | extends `MemoryMap` and `Buddy` |
| `PhysicalMemory_proofs` | lemmas and theorems | extends `PhysicalMemory` |
| `AddressSpace` | page tables, break, shared objects, surface, fork, exec, exit | stands on what `PagePool` promises |
| `KernelHeap` | `kernel_malloc()`, `kernel_free()` | |
| `MCMemory` | small instances of both, one checked beside the other's initial state | extends `KernelHeap` and `AddressSpace` |
| `Memory_proofs` | lemmas and theorems on both | extends `KernelHeap` and `AddressSpace` |
| `ByteStream` | what a pipe promises (abstract specification) | |
| `Pipe` | pipes, descriptors, handles | implements `ByteStream` |
| `Poll`, `MCIpc` | poll, select, usleep, the check at every tick | extends `Pipe` |
| `Pipe_proofs` | lemmas and theorems on pipes with polls | extends `Poll` |
| `UnixSocket`, `MCSocket` | Unix-domain sockets | |
| `UnixSocket_proofs` | lemmas and theorems | extends `UnixSocket` |
| `BlkCache`, `MCBlkCache` | the block cache and the transfers below it | |
| `BlkCache_proofs` | lemmas and theorems | extends `BlkCache` |
| `FileStore` | what a file system promises (abstract specification) | |
| `Fat32`, `MCFat32` | clusters, directories, files, reboots | `Fat32` in step with `FileStore` |
| `Fat32_proofs` | lemmas and theorems | extends `Fat32` |
| `Supervisor`, `MCSupervisor` | init, its jobs, their programs and a client | |
| `Supervisor_proofs` | lemmas and theorems | extends `Supervisor` |

A module that models a component says in its first comment what a state is.
Names are the code's.  An operator with a name such as `Expired_Late` or
`Split_NoHeader` stands before the definition whose slip it is: it is what a
plausible bug would make of that definition, and the property named with it in
`mutants` fails with it.

### Scheduler

`RunQueue` keeps the queues as the code does: heads, tails, the `next` pointer of
every task and the two bitmaps as sets of set bits.  `enqueue`, `dequeue`,
`bm_set`, `bm_clear` and `highest_ready_prio` are translated line by line, with
no check the code does not make, so that a double enqueue cuts or loops the list
in the model exactly as in memory.

`Scheduler` has one action per system call and interrupt.  `cpu` tells which
piece of code the processor is in; the three loops that run with interrupts off
(`tick` over expired alarms, `exit` over waiting parents, `pick` in
`task_yield()`) are cut into one step per iteration, and nothing else is enabled
meanwhile.  `block` is the window of `task_block()` in which the task is BLOCKED
and interrupts are on again.  `fifo` is a history variable: the sequence of tasks
that each list should hold; `Represents` relates it to the pointers.

`task_unblock(t)` is enabled for any listed task at any moment interrupts are on:
it stands for every wake-up by a pipe, socket, pty, device or disk.  `WakeWaiters`
says whether these, and signals, may also hit a task that is in `waitpid()`.  They
can in the real system; the runs and some of the theorems say what holds as long
as they do not, and section 5 what happens when they do.

Left out: register frames of signal handlers, user identities and permission
checks of `kill`, descriptor tables (their closing at exit only causes wake-ups).
`vbe_ticks` starts at 0 where the code starts it at a full frame, which only
moves the first frame.

### PhysicalMemory: MemoryMap and Buddy

`MemoryMap` is `buddy_init()` as a state machine, one step per loop iteration, with
the fixed sizes of `todo`, `excl` and the zone table as constants and the cast of
a zone's base to 32 bits as `% PhysSize`.  `Buddy` has the free lists of the
zones.  Page descriptors inside blocks keep stale contents, as in the code, which
is what makes `BuddyFound` and `Partition` worth checking.  Callers hold blocks
and free them with the order they asked for (`held`); the code's silent returns
for addresses that are outside of every zone are left out.

`PhysicalMemory` extends the two: the step of `buddy_init()` that adds a zone also
adds its number of pages to `num_pages` and builds its free lists, and when the map is
done, allocation and freeing start in the zones that were found.

### AddressSpace

The state is, for every program, its page tables and pages (a frame each), its
break and the set of its shared mappings, and beside them the shared objects with
their reference counts, the surface that the compositor shows and the used
frames.  The operators take a `World` (address spaces, objects, used frames) or an
address space and return the next one, so that a call of the code which makes several
others is their composition: `sys_5ht_rcfg_layer` is `layer_prepare_state` and then
`layer_release_state`.  `map_pages` and `unmap_pages` treat the pages of one call
together.  The result is that of the code's loop: the first page in a table brings the
table, the last one takes it along, whatever lies in between.  That the mappings are a
set loses nothing, since `shm_find_free_region` sorts by address and `shm_unmap`
looks for an address.  As in the code, a shared object
starts with a reference of its own, fork gives the child copies of all pages and an
empty list of mappings, and `execve()` forgets the list without dropping a reference.
`reap_zombies` is where the memory of a program is given back, after any number
of other steps.

The break is counted in parts of a page, which stand for bytes, and moves by any
number of them.  The loops of `sys_sbrk()` go in steps of a page from the lower
of the two breaks on, wherever in a page that lies (`Visited`): growing maps a
new frame over a page that is there, and may not come to the page of the new break;
shrinking to the middle of a page unmaps that page.  `tidy` is a history variable,
the programs for which neither has happened because every move was to a page bound or up to a
place further into a page (`Tidy`), and no `execve()` has failed; for them
`HeapMapped` says that heap and break agree.  `sys_execve_Fails` is the `execve()` of a file
that cannot be loaded: the break is reset, the old address space stays.

Two things that the code allows are left out, because it does not survive them: the
owner of a surface unmaps it as if it were an ordinary shared object (`Keeps`), or
calls `execve()` before it releases it (`~Owns(t)` in `sys_execve`).  In both cases the
later release or reconfiguration unmaps whatever has been mapped at that place since.

### KernelHeap

Addresses are words, headers take two, and the state is the set of headers as the
list leads to them, with the words that hold a guard value.  `Walk` is the list,
pointer by pointer.  First the blocks from `rover` to the end are searched, then
those from the head up to it (`Phase1`, `Phase2`: the steps at which a block would do).
`debug_mode` may be read after the first allocations, as the boot does: blocks
with guard words and without are in the heap together.

### Pipe and Poll

`Pipe` keeps a ring as the code does (`read_pos`, `write_pos`, `data_len`,
buffer), the waiter nodes of readers and writers, and the descriptor tables of
the tasks.  Waiter nodes are allocated from a heap that runs out (`MaxNodes`).
A signal wakes a sleeper and leaves its node; a PCB is reused by a later fork, so
that a stale node may name a task that has nothing to do with the pipe, as it
does in memory.  `io` is a history variable: what the last call gave its program.
`Stream` is the refinement mapping to `ByteStream`: what lies in the ring, read
round its end, is the stream.

`Poll` adds the waiters of `poll()`, `select()` and `usleep()` with their ticks, and
`poll_waiter_tick`, which checks them all, oldest last, at each timer interrupt.

### UnixSocket

One action per socket call and outcome.  Peers, backlogs, waiter lists and the
name table are the code's, freed memory is reused.  Descriptors are the set of
sockets a task refers to, bytes are counted and not told apart.  With `Disciplined`
programs keep three rules, and each is needed for what is checked:

* `Fresh`: no bind, listen or connect on a stream socket that is connecting,
  connected or shut down (the code does not refuse it, and a peer is left that
  points to a socket which does not point back);
* `Alone`: no two tasks sleep on the same end of a socket (the code wakes one);
* `Killable`: no signal ends a connector, or a sleeper on a socket it shares
  (its waiter node stays).

### BlkCache

A cache is a record, and the static functions are operators from cache to cache,
with chains followed pointer by pointer; a walk that does not end sets `hung`.
Transfers to the disk are two steps, because the worker sleeps during them;
`Programs` lets system calls of programs run in between.  Such a call that needs
the disk gives up at the channel lock and never fills the entry it has made:
`torn` are these, at most `MaxTorn`.

### Fat32 and FileStore

A volume has the next-pointers of the clusters, directories of slots (a long name
takes two) and files of cells, a few for each cluster.  `fat32_create`,
`fat32_mkdir`, `fat32_write`, `fat32_unlink`, `fat32_rmdir` and truncation are made of
operators for the static functions: finding a run of free slots, extending a
directory by a cluster, following a chain.  `nodes` are the open files, each with
its own copy of first cluster and size, as the code has them.  `fat_disk` is what
the disk holds of the FAT; the cache above it is written when the code flushes
it, and `Reboot` starts from the disk again.  `Abandoned` is a program that gives
up the processor for good in the middle of a call and leaves a cluster behind.

`FileStore` knows files by name and contents only.  `MCFat32` makes every call of
both, and `FilesKept` says that nothing can be told apart: names, directories,
contents through an open file, and contents after the file is closed.

### Supervisor

Init is `pc`, cut where another program may get in between: the pass that starts
jobs, `poll()`, one pipe at a time, `waitpid()`, the request of a client.
`startup_loop()` and `service_loop()` share these steps, as in the code.  Of a
program init sees a line of output (one that matches the job's pattern, or
another), the closing of its output and its end; programs do these at any time.
`waitpid()` is what the kernel makes of it: it knows no program that has ended
already.

## 3. The runs

| run | checks | instance |
|---|---|---|
| `sched_signals` | `QueueIntact`, `PickFindsReady`, `WaitTargetAlive`, `CurrentIsRunning` | the five boot tasks and one forked one, two priorities; a signal handled or fatal, to the forked task and to init |
| `sched_woken` | `QueueWellFormed`, `StacksExclusive` | the same, where wake-ups and signals also hit tasks in `waitpid()` |
| `sched_fair` | `TypeOK`, `EventuallyRuns`, `PicksHighestReady` | programs that spin and fork, a disk worker, a timer; two bitmap words |
| `phys_mem` | `ReservedKept`, `ZonesDisjoint`, `NothingLost`, `Partition`, `Coalesced`, `BuddyFound`, refinement `PoolSpec` | 30 bytes of memory in pages of 3, kernel, framebuffer and modules at many positions; one boot with zones of 7 and 3 pages goes on to allocate, orders 0 to 2 |
| `blk_cache` | `CacheCoherent`, `CacheIntact`, `ChainsEnd` | 3 entries for 4 sectors of a disk and a memory drive, 2 buckets; writes that fail, programs in between, one unfilled entry |
| `ipc` | `RefcountsExact`, `SleepersHavePeers`, refinement `PipeIsStream`, `PollReturns` | 2 tasks with 2 descriptors, a pipe of 2 bytes, 2 waiter nodes, 1 poller, a poll without time-out and a select with one |
| `socket` | `PeersMutual`, `StreamSleepersJustified`, `BacklogInStep`, `BoundTableExact` | 3 tasks with 2 descriptors, 3 sockets of 1 byte, 3 paths for 2 entries of the name table, backlog 2 |
| `memory` | `FramesExclusive`, `SharingExact`, `HeapMapped` | 2 tasks, 11 frames, 2 pages of heap in 2 parts each and 3 of shared memory, 2 objects of up to 2 pages, up to 3 references |
| | `HeapTiled`, `GuardsIntact`, `RoverListed`, `GrowsOnlyWhenFull` | a kernel heap of 24 words in pages of 8, headers of 2, guards of 1, requests of 1, 4 and 8 |
| `memory_break` | expected violation of `BreakBacked` | the same |
| `init_jobs` | `OneProgramEach`, `ReadsNeverSleep`, `StartupEnds`, `ClientsServed` | 2 jobs in five boots: a chain from oneshot to daemon, a circle, a circle through a matched line, a job started on request, none at boot; 2 programs |
| `init_exit_status` | expected violation of `ReadyOnExitZero` | the same boots |
| `fat32` | `ChainsDisjoint`, `FilesKept` | 5 clusters of 2 cells or 3 slots, one directory, 3 files, two of them with a long name, one open at a time |

**Why the bounds suffice.**  Init and a forked task wait for each other, end each
other by a signal and are reaped in either order, and with the kernel threads the
queues are long enough for a double enqueue to cut or cross them; one bitmap word with
two priorities makes a task share a queue with others, two words make the top
bitmap matter.  The theorems of section 4 take over where the number of tasks matters.  `DecayRate`, `QuantaPunish` and `ScheduleQuantum` are 1 or 2, so
that a priority falls through the whole range and is reset within a few ticks.
Zones of 7 and 3 pages have a tail that no full block covers and a buddy index
beyond the end.  With fewer entries than sectors the cache evicts in every state,
and with two buckets every chain is shared.  A ring of two bytes is full, empty and
wrapped within three transfers, and one task of two may hold both ends, share one
of them over fork, or be the PCB that a stale node names.  Three sockets are a
listener with a connector and its accepted peer, or two connectors in the queue of
a listener; the third name is refused by the full table, and closing the
first of two moves the last entry.  `SecondNameAwake` (`MCSocket`) bounds the states of this run:
two names are in the table only while nobody sleeps.  The heap holds four small blocks or three that merge and are split
again.  Two parts are enough for a break in the middle of a page and for every
way to move it from there.  Eleven frames are enough for two programs with their page tables and a
shared object, and too few for two objects of two pages and full heaps.  Two jobs
make the chain, the circle and the request that falls into another job's turn.  In
three slots a directory's first cluster ends in the middle of a long name.

**Where a run may stop** (`CHECK_DEADLOCK FALSE`): the kernel panics without heap
or frames (`memory`), tasks wait for each other in `accept()` and `recv()`
(`socket`), all programs have ended and nobody calls init (`init_jobs`), the volume is
full and nothing is open (`fat32`).

**Views and symmetry.**  Contents of sectors, tasks and paths of the socket run are
interchangeable: no operator looks at their values.  `UpToFrames` identifies states
of `memory` that differ in the names of frames only; it contains the truth of the
invariants, so that no state in which one fails is taken for another.
`WhatMatters` drops the contents of clusters that no chain leads to.

**Fairness.**  In `sched_fair`: the timer keeps ticking, kernel threads end their
turn, and code with interrupts off terminates; these are hardware or are loops
that end.  The disk worker sleeps again once it has served its queue (strong
fairness, because it is resumed inside `kernel_yield()` and yields once while
sleeping was possible).  Nothing is assumed of user programs: they may spin for
ever.  The workload leaves out signals and exits, and ticks that hit kernel
threads.

`PollReturns` assumes only that the timer keeps ticking.  `StartupEnds` and
`ClientsServed` assume that init is scheduled, which `EventuallyRuns` shows; that a
client which has connected sends its request or goes away, because `recv()` of a
silent one blocks init; and that a program init waits for gets ready or ends.

## 4. The proofs

TLAPS checks every theorem for all values of the constants that satisfy the named
assumptions.

* `Scheduler_proofs!TypeCorrect`: `Spec => []TypeOK`, and
  `Scheduler_proofs!QueuesWellFormed`: `Spec => []QueueWellFormed`.  The inductive
  invariant is their conjunction: that `dequeue()` returns a task needs the
  bitmaps to agree with the heads, and that they agree needs the types.  Bitmaps
  are handled by the module's first lemmas: splitting a priority into word and bit is a
  bijection (`PrioWordBit`, `WordBitPrio`), and `highest_ready_prio` finds the
  largest non-empty queue (`HighestReady`).
* `Scheduler_proofs!QueuesIntact` and `YieldFindsReady`, under
  `~WakeWaiters`: the pointer lists always hold exactly the READY tasks, each once,
  and `task_yield()` dequeues a READY one.  `QueueIntact` is not inductive.  It is
  strengthened by what excludes a double enqueue: who may be in `work` and in which
  state (`Waiters`), that at most the current task is RUNNING and what it is in
  each phase (`Running`), and that the dying and the unused are in no list
  (`Dead`).  `EnqueueRepresents` and `DequeueRepresents` are the two facts about
  pointers: appending an unlinked task, or taking the head, changes the list that
  the pointers represent in the expected way and no other list.
  The assumption is needed: with `WakeWaiters = TRUE` TLC finds both violated.
* `Scheduler_proofs!SwitchesToHighest`, under `~WakeWaiters`: every switch goes to
  a task of the highest priority that is queued (`PicksHighestReady`, an action property).
* `Scheduler_proofs!StacksAreExclusive`: `Spec => []StacksExclusive`, with no
  assumption on wake-ups.  The invariant `KInv` adds where a PCB is (`Listing`: in
  one of two lists, and UNUSED exactly when in none) and who owns which stack
  (`Stacks`).  `StepKinds` sorts the actions by what they do to the lists: none, fork,
  exit, reap; the invariants of this module have one case for each.
* `Scheduler_proofs!CurrentTaskRuns` (`CurrentIsRunning`) and `NoExitMissed`
  (`WaitTargetAlive`), under `~WakeWaiters`, from `KInv`, the invariant of the queues and
  one each about the address space in use (`CInv`, which also says what the timer
  interrupt must find again when it returns) and the targets of `waitpid()` (`WInv`).
  The assumption is needed: a task that waits for itself and is woken is made READY
  by its own exit, and the zombie runs.
* `Pipe_proofs!RefcountsAreExact`, `SleepersKeepPeers` and `PipeImplementsStream`, of
  `PollSpec`: `[]RefcountsExact`, `[]SleepersHavePeers`, and the refinement `PipeIsStream`,
  step by step: creation, data in, data out, the closing of an end; everything else
  stutters.  The
  inductive invariant `PInv` counts descriptors as the cardinality of the set of
  entries that lead to a handle (`Counts`; `EntryCounts` and `RowCounts` say how that
  set changes with an entry and with a whole table), ties the ends of a pipe and
  its life to the two counts (`EndsOpen`), says that the table of a dead task is empty
  (`DeadTables`; `fork` would otherwise lose references) and that the three positions of
  a ring agree (`RingsAgree`; without it a step through the wrap-around is not a step of
  the stream).  `TakeRing` and `PutRing` do the modular arithmetic of the ring.
* `Supervisor_proofs!OneProgramEachHolds` and `ReadsNeverSleepHolds`.  The invariant
  `SInv` says whose the program and the pipe of a job are (`Owned`), that
  only a job that is up has a program or a pipe (`Idle`), that the pipe is closed before
  `waitpid()` (`Waits`), and that a pipe
  that `poll()` reported stays readable (`Reported`).
* `PhysicalMemory_proofs!ReservedNeverManaged`, `ZonesStayDisjoint` and `NoPageLost`, for
  maps below `PhysSize` (`LowMemory`), the second for maps whose usable regions are disjoint
  (`DisjointMap`): whatever the number, order and overlap of exclusions and the sizes of
  the tables, no zone overlaps a reserved range or another zone, and no free page is lost.
  For the first, `IInv` says that every range in `todo` avoids the first `e - 1`
  exclusions and every one in `next` the first `e`; `CarveParts` says that what
  `carve_exclusion()` returns lies in its input and avoids the exclusion.  For the second,
  `DInv` adds that the ranges at hand are disjoint parts of region `i`, and that every zone
  lies in an earlier region or in a range of `todo` that has been added.  For the third,
  `LInv` says that an exclusion splits at most one range, so `next` is never full
  (`Room`), and that every free page lies in a zone or in a range still to be treated
  (`Coverage`); `AlignKeeps` does the arithmetic of rounding.  They are theorems of
  `MemoryMap`'s `Spec`, which `PhysicalSpec` implies (`BootIsSpec`).
* `PhysicalMemory_proofs!ZonesStayPartitioned`, `FreeBlocksStayMerged`,
  `DescriptorsCanBeTrusted` and `BuddyImplementsPool`, of `PhysicalSpec` and with no
  condition on the memory map: the other four properties of that run.  The inductive
  invariant says of every zone that it is in order (`ZoneOK`): the free blocks and the
  blocks in use are aligned, of an order the zone has, and cut it exactly (`Tiling`); a
  free list holds a block once; the descriptors of first pages are true (`Described`), of
  those inside blocks it says nothing; and no two free blocks are buddies (`NoBuddies`).
  `ZoneBuilt` follows `zone_build()` from the end of the zone to its start.  That what it
  cuts has no two buddies is why `largest_order_fit()` must take the largest block that
  fits.  `SplitTiling` and `JoinTiling` are the inductions over the orders that
  `zone_split_to()` and the loop of `zone_free_pages()` pass.  `BuddyBegins` is why a
  stale descriptor is never read: the buddy of a whole block lies outside of every
  larger block, so it is the first page of one no larger, and its descriptor is true.
  `OneTiling` is why the order of frees does not matter: of two ways to cut a zone with no
  two buddies left, each block of one is a block of the other.  For the refinement the free
  pages are those that no block in use contains (`FreePagesAre`).
* `UnixSocket_proofs!PeersStayMutual`, `BoundTableIsExact`, `BacklogsStayInStep` and
  `StreamSleepersAreJustified`, under `Disciplined`: all four properties of the socket
  run.  They hold only together.  The inductive invariant `UInv` adds that a descriptor
  leads to a socket that is not freed (`HeldLive`), where each sleeper sleeps and that it
  keeps its descriptor of that socket (`Sleepers`), that no waiter node is stale
  (`Waiters`), and that a socket is in at most one backlog, once, next to the task that
  connects with it (`Backlogs`).  A task therefore waits in one place (`Apart`,
  `ConnectorsApart`), so waking the waiters of a socket disturbs no other list: each step
  is a set `W` of woken tasks and a frame around it (`StayAsleep`, `SleepersStep`,
  `QuietStep`).  `task_exit()` closes sockets one after the other.  The fold that models
  it is shown to be a function on subsets (`FoldExists`), and `ShutStep` that closing one
  more socket keeps `Closed(G, K)`, which says what closing the set `G` leaves of every
  socket, list and name whatever the order; `FoldCloses` is the induction over the
  size of `G`.  Without `Disciplined` TLC finds `PeersMutual` and
  `BacklogInStep` violated, and steps that read freed memory (section 2).
* `Memory_proofs!HeapIsTiled`, `HeapGuardsIntact`, `RoverIsListed` and
  `HeapGrowsOnlyWhenFull`: all four properties of the kernel heap.  `HeapInvariant` adds the
  link of every block to the next in the order of addresses (`LinkOf`), that a free
  block has a guard word exactly in debug mode (`FreeGuarded`; merging blocks of two kinds would
  move the guard word away from where the header says it is) and that there is no free block
  before the command line is read.  `SplitKeeps`, `MergeKeeps` and `GrowKeeps` say what
  each operation on headers leaves of the list, `CoalesceKept` that any number of merges
  keeps it.  `WalkVisits` is why the search is complete: addresses grow along the
  list, so that a walk of as many steps as there are blocks comes to every block
  behind its start and to the end (`WalkEnds`, by the pigeonhole principle).
* `BlkCache_proofs!CacheStaysCoherent`, `CacheStaysIntact` and `ChainsStayFinite`, for
  `Unreadable = {}`: all three properties of the cache's run.  `CacheInv` says that the
  cache is `Good`, that valid entries hold what the disk holds but for torn sectors and
  the entry being filled (`Coherent`), and that when a program has made that entry another
  sector's, the sector is torn (`LateRead`; otherwise the read that returns late would go
  unnoticed).  In a good cache the valid entries are linked (`Links`): a chain leads
  along entries of its bucket, of growing rank, and each entry is the head or has one
  predecessor.  From ranks follow that chains end (`ChainOnce`, by the pigeonhole
  principle) and that they visit every entry of the bucket (`ChainVisits`), so that
  `hash_remove()` finds its entry and the one before it (`Removed`).  Walks and loops are
  recursive functions; `Iterates` constructs them, and `UpTo` is the induction over their
  steps.  The assumption is needed: an entry whose read failed is not valid but still
  linked, `cache_alloc()` links it again, and a chain can loop (section 5).
* `Memory_proofs!FramesStayExclusive`, `SharingStaysExact` and `HeapStaysMapped`, of
  `MemorySpec`: all three properties of the memory of programs.  They hold only together: a
  frame that two mappings show has one use only because both show the same object, and
  `sbrk_down` gives back the right frames only because no page of the heap is shared.  The inductive invariant `MemoryInv` says that the world is `Good`: its types;
  the mappings of a program do not overlap (`Apart`) and show their objects (`Shown`); an
  object has more references than mappings (`Counted`); uses are exclusive.  It adds that exactly
  the tasks that are not UNUSED have an address space, that the owner of a surface is
  ALIVE and the surface is a mapping of an object only it refers to (`Attached`;
  otherwise the release at exit would take the frames from somebody), and that for tidy
  programs heap and break agree (`HeapOK`).  `VisitedUp` and `VisitedDown` say which pages
  the loops of `sys_sbrk()` visit when the move is tidy.  `ExclusiveStep` is the core: a step gives up a set of uses and
  their frames and allocates for a set of cells, and what it returns to the allocator is
  used by nothing that stays.  `WorldStep` applies it to a world, `SpaceStep` to a
  step of one program (`SpaceOp`: sbrk, fork, execve, reaping), `MapWorld` to a new
  mapping and `DropWorld` to mappings and objects that go (`DropOp`: unmap, release,
  exit).  That a table is freed with its last page needs no assumption on how pages lie
  in tables.
* `Fat32_proofs!ChainsStayDisjoint`, for `~PowerLoss`: `ChainsDisjoint` of the FAT32 run.
  `FInv` says of the volume (`VolOK`) that links lead to clusters in use, upwards,
  no two to the same one, and that no cluster behind a free one is in use (`FatOK`: the
  first free cluster is handed out and none is ever freed); that every slot that is an
  entry of a file or directory, also one a search would not reach, has the start of a chain
  of its own (`Owned`), and so has every open file, removed or not (`NodeOK`).
  That links climb is why chains end within as many steps as there are clusters
  (`WalkClimbs`); that no two links agree is why chains from two starts never
  meet (`ChainsApart`, by the first cluster they would share).  `AllocVol`, `ExtendVol`,
  `SearchSlots`, `WriteEntries`, `UpdateEntry`, `DeleteEntry` and `GrownFine` say of
  each static function that it leaves the volume fine and starts where they are
  (`Fine`), and each call composes them.  A chain, a growing file and a write are
  recursive functions, constructed as in the block cache (`Iterates`).  Names of files and
  directories differ, and no path ends in "." or ".." (inside a path the VFS resolves
  them, `vfs.c:178`).  The assumption on power is needed: `create` leaves the FAT in
  memory only, and after a power failure an entry's cluster is free and handed out again
  (`fat32.c:1629`).

The assumptions on constants are types, finiteness (there are finitely many tasks and
sockets, and data exist), and that the models' null values differ from what they stand in for
(a task, a stack, a handle, a pipe, a socket), as a null pointer does from an address;
and that the heap and the stacks do not end before they start.

Only model-checked: liveness (`EventuallyRuns`, `PollReturns`, `StartupEnds`,
`ClientsServed`), which is out of the prover's reach; and the step-by-step comparison
`FilesKept` of `Fat32` with `FileStore`.  What a file holds is put together from its chain
and its cells, so that its proof would need, beyond `FInv`, what each of the functions above
does to the contents of every other file and name.

## 5. Findings

`init_exit_status`: `process_pipe()` calls `waitpid()` when the job's output has hung
up (`init.c:551`).  By then the program is usually gone, `waitpid()` returns `-ESRCH`
without a status, and the 0 that the variable was initialised with counts: a
oneshot that failed becomes EXITED, and jobs that depend on it start.  The comment at
the head of the file says "ready on exit 0".

`memory_break`: `sys_sbrk()` steps by pages from an unaligned break (`syscall.c:1350`,
`syscall.c:1355`).  `sbrk(2048)` followed by `sbrk(4096)` maps a new frame over the
page of the old break, whose contents are lost, and leaves the page of the new break
unmapped; `sbrk(-2048)` after `sbrk(4096)` unmaps the page whose first half is still below
the break.  The library's comment promises any "number of bytes to increment (positive)
or decrement (negative)" (`user/syscall/syscall.c:197`).

### Seen while modelling

The models show these too; where a run would break on one, a constant leaves the
case out, and the note at the hazard says so.

* Scheduler: a task that a signal wakes out of `waitpid()` keeps `waiting_on`, and
  the child's exit enqueues it again (`schedule.c:341`); one that waited for itself is
  made READY by its own exit.  `kill(0, sig)` makes the
  boot task, which has no code, runnable (`syscall.c:1539`).  `pause()` returns at
  once although the manual says it blocks until a signal is received
  (`syscall.c:1584`).  `waitpid(-1)` never returns, and `waitpid(pid, NULL)` answers
  `-EFAULT`.
* Memory: memory above 4 GiB becomes a zone over low memory (`vmm.c:418`).  The heap
  merges a block with the next one only, never with the one before it.  `execve()`
  resets the break before the new image can fail to load (`syscall.c:1310`): the old one
  goes on with a heap above its break, over which the next `sbrk()` maps.  Shared objects are never
  freed, because they start with a reference that nobody drops; `execve()` drops none
  of the references of its mappings, and the copies that fork makes of shared pages leak.
* Block cache: an entry is valid before its contents are there (`blkcache.c:126`); a
  program that gives up at the channel lock never fills it.  A failed read leaves
  its entry linked (`blkcache.c:158`).  A full disk ring reaches
  `__builtin_unreachable` (`syscall.c:389`, `syscall.c:475`); a DMA time-out counts as
  success.
* Pipes and poll: a blocked `read()` or `write()` that a signal interrupts resumes
  with nothing transferred and the call's number in `eax`; its waiter node stays
  and takes the next wake-up (`schedule.c:952`), that of a poll overwrites `eax` of a
  task that runs (`syscall.c:2844`).  A `select()` for writing on a pipe without
  readers never returns.
* Sockets: a connector is told 0 when `accept()` fails or the listener closes; one
  that is killed stays in the backlog; `shutdown()` of a listener wakes nobody; a
  datagram socket keeps its peer's pointer when the peer is freed.
* Init: a daemon that was READY and dies stays READY, and START is refused until a
  STOP.  A job that STOP has made EXITED satisfies its dependents.  A job that closes
  its output and goes on running blocks init in `waitpid()`.  The shell's `waitpid()`
  loses statuses in the same way.
* FAT32: the size of a file whose long name lies across two clusters is never
  recorded.  Two handles of a file have sizes of their own; a handle of a removed
  file writes to the new file of that name.  `create` and `mkdir` do not flush the
  FAT.  A first cluster that was 0 is never recorded in the entry.  The size is
  raised before clusters are found.  Clusters are never freed by unlink, rmdir or
  truncate.  `sys_open()` does not look at whether `vfs_create()` failed.

## 6. Plan

Done: scheduler, signals, waitpid, alarms, timer; physical memory; address spaces and
shared memory; kernel heap; pipes, descriptors, poll and select; sockets; block cache;
FAT32; init.  Next, in this order:

1. `FilesKept` as a theorem, from `ChainsStayDisjoint`;
2. pseudo terminals: rings, line discipline, sessions, hang-up; their readiness, and
   that of sockets, in `Poll`;
3. tmpfs and devfs as other implementations of `FileStore`, with mounts and path
   resolution;
4. the disk request ring and its worker as the composition of `Scheduler`'s wake-up
   rule with `BlkCache`;
5. device rings: keyboard, mouse, serial, the network card's receive ring;
6. library algorithms (number conversion, sorting, searching) against reference
   definitions.

## 7. Not modelled

Hardware set-up (descriptor tables, PIC, PCI, RTC), fault dumps, fonts and splash
data are input and output with no state of their own.  The Lua interpreter is
vendored.  User applications, the shell, the window manager and the GUI library
use the kernel's interface and guarantee nothing to it.  Together these are the larger
part of the repository's lines.  Composing, dirty tiles and the ANSI parser of the
compositor are computations on pixels; of the compositor the models have its thread,
and the life of the memory that it shows.  Copying to and from user memory is part of
the calls it serves; kernel mappings and `kmap()` do not change once the machine has
booted.  Pseudo terminals, tmpfs, devfs, device rings and the C library are the
plan's next items.
