----------------------------- MODULE Scheduler ------------------------------
(***************************************************************************)
(* The process scheduler (kernel/schedule/schedule.c), the system calls    *)
(* that drive it (kernel/syscall/syscall.c) and the timer interrupt        *)
(* (kernel/io/irq.c), on the single CPU the kernel runs on.                *)
(*                                                                         *)
(* cpu says which piece of code the processor is in:                       *)
(*   run    the current task's own code (user mode, or a kernel thread)    *)
(*   ret    the end of system_call(), before signals are delivered         *)
(*   block  a blocking call that has marked the current task BLOCKED and   *)
(*          not yet reached task_yield(); interrupts are enabled           *)
(*   tick   irq_pit_handler(), in its loop over expired alarms             *)
(*   exit   task_exit(dying), in its loop over the tasks that wait for it  *)
(*   enter  the beginning of task_yield()                                  *)
(*   pick   the loop of task_yield() that looks for a READY task           *)
(*   panic, wild   kernel_panic(); a freed PCB was dereferenced            *)
(* tick, exit, enter and pick run with interrupts off, and are loops cut   *)
(* into one step per iteration: nothing else is enabled meanwhile.         *)
(*                                                                         *)
(* Abstracted: registers and address-space contents, file descriptors (the *)
(* wake-ups their closing causes are Unblock steps), user identities.      *)
(***************************************************************************)
EXTENDS RunQueue

CONSTANTS
  MaxPid,            \* pids are 0 .. MaxPid: bounds the forks
  NStacks,           \* kernel stacks in the stack region (255)
  Signals,           \* signal numbers used (0 .. 15)
  SIGALRM,           \* the signal an alarm raises (14)
  MaxAlarm,          \* largest number of ticks asked of alarm()
  WorkerPrio,        \* priority of the disk worker thread (10)
  DecayRate,         \* PRIORITY_DECAY_RATE (10)
  QuantaPunish,      \* PRIORITY_QUANTA_PUNISH (10)
  ResetDecay,        \* PRIORITY_RESET_DECAY (10)
  ScheduleQuantum,   \* SCHEDULE_QUANTUM (10 ticks)
  VbeTicksPerFrame,  \* VBE_TICKS_PER_FRAME (8 ticks)
  WakeWaiters,       \* may anything but the awaited exit wake a waitpid()?
  Killed,            \* the pids programs send signals to
  Handled            \* the signals programs install handlers for

(* The tasks kernel.c creates at boot, in the order of their pids. *)
BOOT   == 0
INIT   == 1
IDLE   == 2
VBE    == 3
WORKER == 4
Boot   == {BOOT, INIT, IDLE, VBE, WORKER}
Kernel == {BOOT, IDLE, VBE, WORKER}
User   == Task \ Kernel
TopPrio == Words * WordBits - 1
Stack  == 1 .. NStacks

ASSUME SchedulerAssumption ==
  /\ MaxPid \in Nat /\ Task = 0 .. MaxPid /\ Boot \subseteq Task
  /\ NStacks \in Nat /\ NStacks >= 4 /\ NIL \notin Stack
  /\ Signals \subseteq 0 .. 15 /\ SIGALRM \in Signals
  /\ MaxAlarm \in Nat /\ TopPrio > 0 /\ WorkerPrio \in 0 .. TopPrio - 1
  /\ {DecayRate, QuantaPunish, ResetDecay} \subseteq Nat \ {0}
  /\ {ScheduleQuantum, VbeTicksPerFrame} \subseteq Nat \ {0}
  /\ WakeWaiters \in BOOLEAN /\ Killed \subseteq Task /\ Handled \subseteq Signals

VARIABLES
  q,           \* the run queues
  fifo,        \* history: what each queue holds, as a FIFO (VBE left out)
  pcb,         \* the process control blocks
  task_list,   \* pids linked in task_list (which is in pid order)
  zombie_list, \* pids linked in zombie_list
  next_pid,
  cpu,         \* see above
  trapped,     \* the phase the timer interrupt returns to
  current, dying,
  work,        \* tasks the loop of tick or exit has still to treat
  cr3,         \* owner of the loaded page directory, BOOT for the kernel's
  free_kernel_stacks, next_kernel_stack,
  vbe_ticks, last_quantum_tick

queues == <<q, fifo>>
stacks == <<free_kernel_stacks, next_kernel_stack>>
lists  == <<task_list, zombie_list, next_pid>>
timers == <<vbe_ticks, last_quantum_tick>>
vars   == <<queues, pcb, lists, cpu, trapped, current, dying, work, cr3, stacks, timers>>

State == {"UNUSED", "RUNNING", "READY", "BLOCKED", "TERMINATED"}
Open  == {"run", "ret", "block"}             \* interrupts are enabled
Phase == Open \cup {"tick", "exit", "enter", "pick", "panic", "wild"}

PCB ==
  [state : State, priority : Prio, original_priority : Prio,
   quanta_used : 0 .. QuantaPunish, reset_count : 0 .. ResetDecay - 1,
   waiting_on : Task \cup {NIL}, signal_bitmask : SUBSET Signals,
   signal_handlers : SUBSET Signals, in_signal_handler : BOOLEAN,
   alarm_ticks : 0 .. MaxAlarm, kstack : Stack \cup {NIL}]
-----------------------------------------------------------------------------
(* task_create(): everything but the priority and the kernel stack is 0.   *)
NewTask(prio, stack) ==
  [state |-> "READY", priority |-> prio, original_priority |-> prio,
   quanta_used |-> 0, reset_count |-> 0, waiting_on |-> NIL,
   signal_bitmask |-> {}, signal_handlers |-> {}, in_signal_handler |-> FALSE,
   alarm_ticks |-> 0, kstack |-> stack]

Unused == [NewTask(0, NIL) EXCEPT !.state = "UNUSED"]

BootPCB(t) ==
  CASE t = BOOT   -> [NewTask(0, NIL) EXCEPT !.state = "BLOCKED"]
    [] t = INIT   -> NewTask(TopPrio - 1, 1)
    [] t = IDLE   -> NewTask(0, 2)
    [] t = VBE    -> NewTask(TopPrio, 3)
    [] t = WORKER -> NewTask(WorkerPrio, 4)
    [] OTHER      -> Unused

(* The history of an enqueue(). *)
Put(f, p, t) == [f EXCEPT ![p] = Append(@, t)]

(* kernel.c creates the boot tasks, enqueues idle, init and the worker and *)
(* calls task_yield() as the boot task, which is BLOCKED and never resumed.*)
Init ==
  /\ q = enqueue(enqueue(enqueue(EmptyRunQueue, IDLE, 0), INIT, TopPrio - 1),
                 WORKER, WorkerPrio)
  /\ fifo = Put(Put(Put([p \in Prio |-> <<>>], 0, IDLE), TopPrio - 1, INIT),
                WorkerPrio, WORKER)
  /\ pcb = [t \in Task |-> BootPCB(t)]
  /\ task_list = Boot /\ zombie_list = {} /\ next_pid = 5
  /\ cpu = "enter" /\ trapped = "run" /\ current = BOOT /\ dying = NIL /\ work = {} /\ cr3 = BOOT
  /\ free_kernel_stacks = <<>> /\ next_kernel_stack = 5
  /\ vbe_ticks = 0 /\ last_quantum_tick = 0
-----------------------------------------------------------------------------
(* enqueue(t), at the priority t has in the new state. *)
Enqueue(t) ==
  LET p == pcb'[t].priority
  IN  /\ q' = enqueue(q, t, p)
      /\ fifo' = IF t = VBE THEN fifo ELSE Put(fifo, p, t)

Wake_Unchecked(t, r) ==
  /\ pcb' = [pcb EXCEPT ![t] = [r EXCEPT !.state = "READY"]]
  /\ Enqueue(t)

(* r is what the caller makes of t's PCB; task_unblock(t) if it is BLOCKED.*)
Wake(t, r) ==
  IF r.state = "BLOCKED"
  THEN /\ pcb' = [pcb EXCEPT ![t] = [r EXCEPT !.state = "READY"]]
       /\ Enqueue(t)
  ELSE /\ pcb' = [pcb EXCEPT ![t] = r]
       /\ UNCHANGED queues

(* No one reads the pending signals of a kernel task: they are not kept.   *)
task_ipc_signal_raise(t, sig) ==
  Wake(t, IF t \in Kernel THEN pcb[t]
          ELSE [pcb[t] EXCEPT !.signal_bitmask = @ \cup {sig}])

(* The tasks that programs and devices wake in this instance. *)
Wakeable(t) == pcb[t].waiting_on = NIL \/ WakeWaiters

(* task_exit(t) up to its loop.  The descriptors it closes are left out.   *)
task_exit(t, r) ==
  IF t = INIT
  THEN /\ cpu' = "panic" /\ pcb' = [pcb EXCEPT ![t] = r]
       /\ UNCHANGED <<dying, work>>
  ELSE /\ cpu' = "exit" /\ dying' = t
       /\ pcb' = [pcb EXCEPT ![t] = [r EXCEPT !.state = "TERMINATED"]]
       /\ work' = {u \in task_list : pcb[u].waiting_on = t}

(* task_ipc_deliver_signals() finds something to deliver to a task. *)
Deliverable(t) ==
  t \in User /\ ~pcb[t].in_signal_handler /\ pcb[t].signal_bitmask # {}

(* Its PCB once the lowest pending signal is taken out, ... *)
Taken(t) ==
  [pcb[t] EXCEPT !.signal_bitmask = @ \ {Min(@)},
                 !.in_signal_handler = Min(pcb[t].signal_bitmask)
                                         \in pcb[t].signal_handlers]
(* ... which has a handler or ends the task. *)
Fatal(t) == Deliverable(t) /\ ~Taken(t).in_signal_handler
-----------------------------------------------------------------------------
(* System calls: the current user task, in user mode. *)
InUserMode == cpu = "run" /\ current \in User

CanAllocStack == free_kernel_stacks # <<>> \/ next_kernel_stack <= NStacks

alloc_kernel_stack ==
  IF free_kernel_stacks # <<>>
  THEN /\ free_kernel_stacks' = Tail(free_kernel_stacks)
       /\ UNCHANGED next_kernel_stack
  ELSE /\ next_kernel_stack' = next_kernel_stack + 1
       /\ UNCHANGED free_kernel_stacks

NewStack ==
  IF free_kernel_stacks # <<>> THEN Head(free_kernel_stacks) ELSE next_kernel_stack

(* fork(): the child is a copy of the parent's PCB, waiting_on and the     *)
(* handler flag included; pending signals, alarm and handlers are cleared. *)
task_fork ==
  /\ CanAllocStack /\ alloc_kernel_stack
  /\ pcb' = [pcb EXCEPT ![next_pid] =
               [pcb[current] EXCEPT !.state = "READY", !.kstack = NewStack,
                  !.signal_bitmask = {}, !.signal_handlers = {}, !.alarm_ticks = 0]]
  /\ task_list' = task_list \cup {next_pid}
  /\ next_pid' = next_pid + 1
  /\ UNCHANGED zombie_list

sys_fork ==
  /\ InUserMode /\ next_pid \in Task
  /\ \/ task_fork /\ Enqueue(next_pid) /\ cpu' = "ret"
     \/ /\ ~CanAllocStack
        /\ cpu' = "panic"
        /\ UNCHANGED <<queues, pcb, lists, stacks>>
  /\ UNCHANGED <<trapped, current, dying, work, cr3, timers>>

(* exit(), an illegal system call, or a fault in user mode. *)
sys_exit ==
  /\ InUserMode
  /\ task_exit(current, pcb[current])
  /\ UNCHANGED <<queues, lists, trapped, current, cr3, stacks, timers>>

sys_waitpid_NoLookup(target) ==
  /\ InUserMode
  /\ pcb' = [pcb EXCEPT ![current].waiting_on = target, ![current].state = "BLOCKED"]
  /\ cpu' = "enter"
  /\ UNCHANGED <<queues, lists, trapped, current, dying, work, cr3, stacks, timers>>

(* waitpid(pid): ESRCH when no such task is listed; else block on it.      *)
(* waitpid(-1) stores the -1 that no exit matches, written NIL here.       *)
sys_waitpid(target) ==
  /\ InUserMode
  /\ pcb[current].alarm_ticks = 0 \/ target = NIL \/ WakeWaiters
  /\ IF target \in task_list \cup {NIL}
     THEN /\ pcb' = [pcb EXCEPT ![current].waiting_on = target,
                                ![current].state = "BLOCKED"]
          /\ cpu' = "enter"
     ELSE cpu' = "ret" /\ UNCHANGED pcb
  /\ UNCHANGED <<queues, lists, trapped, current, dying, work, cr3, stacks, timers>>

sys_kill(t, sig) ==
  /\ InUserMode /\ Wakeable(t)
  /\ IF t \in task_list THEN task_ipc_signal_raise(t, sig)
                        ELSE UNCHANGED <<queues, pcb>>
  /\ cpu' = "ret"
  /\ UNCHANGED <<lists, trapped, current, dying, work, cr3, stacks, timers>>

(* signal(sig, handler): handler 0 restores the default, which is to exit. *)
sys_signal(sig, on) ==
  /\ InUserMode
  /\ pcb' = [pcb EXCEPT ![current].signal_handlers =
                          IF on THEN @ \cup {sig} ELSE @ \ {sig}]
  /\ cpu' = "ret"
  /\ UNCHANGED <<queues, lists, trapped, current, dying, work, cr3, stacks, timers>>

sys_sigret ==
  /\ InUserMode
  /\ pcb' = [pcb EXCEPT ![current].in_signal_handler = FALSE]
  /\ cpu' = "ret"
  /\ UNCHANGED <<queues, lists, trapped, current, dying, work, cr3, stacks, timers>>

sys_alarm(n) ==
  /\ InUserMode
  /\ pcb' = [pcb EXCEPT ![current].alarm_ticks = n]
  /\ cpu' = "ret"
  /\ UNCHANGED <<queues, lists, trapped, current, dying, work, cr3, stacks, timers>>

(* pause() only yields. *)
sys_pause ==
  /\ InUserMode
  /\ cpu' = "enter"
  /\ UNCHANGED <<queues, pcb, lists, trapped, current, dying, work, cr3, stacks, timers>>

(* Every other blocking call (pipe, socket, poll, disk, device, semaphore) *)
(* queues the task somewhere, marks it BLOCKED and goes to task_yield().   *)
Block ==
  /\ cpu = "run" /\ current \in User \cup {WORKER}
  /\ pcb' = [pcb EXCEPT ![current].state = "BLOCKED"]
  /\ cpu' = "block"
  /\ UNCHANGED <<queues, lists, trapped, current, dying, work, cr3, stacks, timers>>

(* The end of system_call(): deliver one signal to the returning task. *)
SyscallReturn ==
  /\ cpu = "ret"
  /\ IF Fatal(current)
     THEN task_exit(current, Taken(current))
     ELSE /\ pcb' = [pcb EXCEPT ![current] =
                       IF Deliverable(current) THEN Taken(current) ELSE @]
          /\ cpu' = "run"
          /\ UNCHANGED <<dying, work>>
  /\ UNCHANGED <<queues, lists, trapped, current, cr3, stacks, timers>>
-----------------------------------------------------------------------------
(* Interrupts, taken where they are enabled. *)
Interruptible == cpu \in Open

(* A device interrupt, or another task through a wait queue, wakes t. *)
task_unblock(t) ==
  /\ Interruptible /\ t \in task_list /\ Wakeable(t) /\ t # BOOT
  /\ pcb[t].state = "BLOCKED"
  /\ Wake(t, pcb[t])
  /\ UNCHANGED <<lists, cpu, trapped, current, dying, work, cr3, stacks, timers>>

Decayed_NoClamp(r) ==
  IF r.priority = 0
  THEN [r EXCEPT !.priority = r.original_priority,
                 !.original_priority = IF @ > 0 THEN @ - 1 ELSE 0]
  ELSE [r EXCEPT !.priority = @ - DecayRate]

Decayed_Kept(r) ==
  [r EXCEPT !.quanta_used = IF @ < QuantaPunish THEN @ + 1 ELSE QuantaPunish]

(* What task_priority_decay() and its caller make of a PCB whose quantum   *)
(* is used up.  quanta_used is only compared with QuantaPunish.            *)
Decayed(r) ==
  LET used  == IF r.quanta_used < QuantaPunish THEN r.quanta_used + 1 ELSE QuantaPunish
      hit   == r.reset_count + 1 >= ResetDecay
      orig  == IF hit /\ r.original_priority > 0 THEN r.original_priority - 1
                                                 ELSE r.original_priority
  IN  IF used < QuantaPunish THEN [r EXCEPT !.quanta_used = used]
      ELSE IF r.priority = 0
      THEN [r EXCEPT !.quanta_used = used, !.priority = orig,
                     !.original_priority = orig,
                     !.reset_count = IF hit THEN 0 ELSE @ + 1]
      ELSE [r EXCEPT !.quanta_used = 0,
                     !.priority = IF @ > DecayRate THEN @ - DecayRate ELSE 0]

(* The end of irq_pit_handler(), which interrupted the phase from with the *)
(* PCBs r: every frame the compositor is enqueued, queued already or not,  *)
(* and a task in user mode may have used up its quantum.                   *)
TickTail(r, from) ==
  LET frame   == vbe_ticks + 1 >= VbeTicksPerFrame
      user    == from = "run" /\ current \in User /\ r[current].state = "RUNNING"
      expired == user /\ last_quantum_tick + 1 >= ScheduleQuantum
  IN  /\ vbe_ticks' = IF frame THEN 0 ELSE vbe_ticks + 1
      /\ last_quantum_tick' = IF expired THEN 0
                              ELSE IF user THEN last_quantum_tick + 1
                              ELSE last_quantum_tick
      /\ pcb' = IF expired THEN [r EXCEPT ![current] = Decayed(@)] ELSE r
      /\ cpu' = IF expired THEN "enter" ELSE from
      /\ IF frame THEN Enqueue(VBE) ELSE UNCHANGED queues

(* irq_pit_handler(): count every alarm down; those that reach 0 fire, one *)
(* per iteration, in the order of the task list.                           *)
Tick ==
  LET fired   == {t \in task_list : pcb[t].alarm_ticks = 1}
      counted == [t \in Task |->
                    IF t \in task_list /\ pcb[t].alarm_ticks > 0
                    THEN [pcb[t] EXCEPT !.alarm_ticks = @ - 1] ELSE pcb[t]]
  IN  /\ Interruptible
      /\ IF fired = {}
         THEN TickTail(counted, cpu) /\ UNCHANGED <<work, trapped>>
         ELSE /\ work' = fired /\ pcb' = counted
              /\ cpu' = "tick" /\ trapped' = cpu
              /\ UNCHANGED <<queues, timers>>
      /\ UNCHANGED <<lists, current, dying, cr3, stacks>>

TickAlarm ==
  /\ cpu = "tick" /\ work # {}
  /\ task_ipc_signal_raise(Min(work), SIGALRM)
  /\ work' = work \ {Min(work)}
  /\ UNCHANGED <<lists, cpu, trapped, current, dying, cr3, stacks, timers>>

TickEnd ==
  /\ cpu = "tick" /\ work = {}
  /\ TickTail(pcb, trapped)
  /\ trapped' = "run"
  /\ UNCHANGED <<lists, current, dying, work, cr3, stacks>>
-----------------------------------------------------------------------------
(* task_exit(): wake the tasks that wait for the dying one, whatever state *)
(* they are in, then unlink it and make it a zombie.                       *)
ExitWake ==
  /\ cpu = "exit" /\ work # {}
  /\ LET u == Min(work)
     IN  /\ pcb' = [pcb EXCEPT ![u].waiting_on = NIL, ![u].state = "READY"]
         /\ Enqueue(u)
         /\ work' = work \ {u}
  /\ UNCHANGED <<lists, cpu, trapped, current, dying, cr3, stacks, timers>>

ExitEnd ==
  /\ cpu = "exit" /\ work = {}
  /\ task_list' = task_list \ {dying}
  /\ zombie_list' = zombie_list \cup {dying}
  /\ cpu' = "enter" /\ dying' = NIL
  /\ UNCHANGED <<queues, pcb, next_pid, trapped, current, work, cr3, stacks, timers>>

Reap_Current(z) ==
  /\ cpu \in {"enter", "block"} /\ z \in zombie_list
  /\ zombie_list' = zombie_list \ {z}
  /\ free_kernel_stacks' = <<pcb[z].kstack>> \o free_kernel_stacks
  /\ pcb' = [pcb EXCEPT ![z] = Unused]
  /\ cpu' = "enter"
  /\ UNCHANGED <<queues, task_list, next_pid, trapped, current, dying, work, cr3,
                 next_kernel_stack, timers>>

(* reap_zombies(): one zombie other than the current task is freed, with   *)
(* its address space and its kernel stack.                                 *)
Reap(z) ==
  /\ cpu \in {"enter", "block"} /\ z \in zombie_list \ {current}
  /\ zombie_list' = zombie_list \ {z}
  /\ free_kernel_stacks' = <<pcb[z].kstack>> \o free_kernel_stacks
  /\ pcb' = [pcb EXCEPT ![z] = Unused]
  /\ cpu' = "enter"
  /\ UNCHANGED <<queues, task_list, next_pid, trapped, current, dying, work, cr3,
                 next_kernel_stack, timers>>

YieldEnter_AnyState ==
  /\ cpu \in {"enter", "block"} /\ zombie_list \subseteq {current}
  /\ UNCHANGED pcb
  /\ IF current = VBE THEN UNCHANGED queues ELSE Enqueue(current)
  /\ cpu' = "pick"
  /\ UNCHANGED <<lists, trapped, current, dying, work, cr3, stacks, timers>>

(* task_yield() up to its loop: a task that was running is queued again,   *)
(* except the compositor, which is marked no_requeue.                      *)
YieldEnter ==
  /\ cpu \in {"enter", "block"} /\ zombie_list \subseteq {current}
  /\ IF pcb[current].state = "RUNNING"
     THEN /\ pcb' = [pcb EXCEPT ![current].state = "READY"]
          /\ IF current = VBE THEN UNCHANGED queues ELSE Enqueue(current)
     ELSE UNCHANGED <<queues, pcb>>
  /\ cpu' = "pick"
  /\ UNCHANGED <<lists, trapped, current, dying, work, cr3, stacks, timers>>

(* dequeue(), in the run queues and in their history. *)
Dequeue(t) ==
  /\ q' = dequeue(q)
  /\ fifo' = IF t = VBE THEN fifo
             ELSE LET p == highest_ready_prio(q)
                  IN  [fifo EXCEPT ![p] = IF @ = <<>> THEN @ ELSE Tail(@)]

(* The loop of task_yield(), by what it dequeues: *)
(*   nothing; *)
PickNone ==
  /\ cpu = "pick" /\ dequeued(q) = NIL
  /\ cpu' = "panic" /\ q' = dequeue(q)
  /\ UNCHANGED <<fifo, pcb, lists, trapped, current, dying, work, cr3, stacks, timers>>

(*   a PCB that was freed, or one that is not READY; *)
PickOther ==
  LET t == dequeued(q)
  IN  /\ cpu = "pick" /\ t # NIL /\ pcb[t].state # "READY"
      /\ Dequeue(t)
      /\ cpu' = IF pcb[t].state = "UNUSED" THEN "wild" ELSE "pick"
      /\ UNCHANGED <<pcb, lists, trapped, current, dying, work, cr3, stacks, timers>>

(*   a task that a signal ends before it runs; *)
PickFatal ==
  LET t == dequeued(q)
  IN  /\ cpu = "pick" /\ t # NIL /\ pcb[t].state = "READY" /\ Fatal(t)
      /\ Dequeue(t)
      /\ cr3' = t
      /\ task_exit(t, Taken(t))
      /\ UNCHANGED <<lists, trapped, current, stacks, timers>>

PickReady_SameSpace ==
  LET t == dequeued(q)
  IN  /\ cpu = "pick" /\ t # NIL /\ pcb[t].state = "READY" /\ ~Fatal(t)
      /\ Dequeue(t)
      /\ pcb' = [pcb EXCEPT ![t].state = "RUNNING"]
      /\ current' = t /\ cpu' = "run"
      /\ UNCHANGED <<lists, trapped, dying, work, cr3, stacks, timers>>

(*   or the task that runs next: switch_task().  *)
PickReady ==
  LET t == dequeued(q)
  IN  /\ cpu = "pick" /\ t # NIL /\ pcb[t].state = "READY" /\ ~Fatal(t)
      /\ Dequeue(t)
      /\ cr3' = IF t \in User THEN t ELSE BOOT
      /\ pcb' = [pcb EXCEPT ![t] =
                   [(IF Deliverable(t) THEN Taken(t) ELSE @) EXCEPT !.state = "RUNNING"]]
      /\ current' = t /\ cpu' = "run"
      /\ UNCHANGED <<lists, trapped, dying, work, stacks, timers>>

(* The idle task and the compositor yield once per turn.  The return       *)
(* address kernel_yield() saves is inside kernel_yield() itself, so every  *)
(* kernel thread, the disk worker too, yields once more when it is resumed *)
(* and only then goes on.                                                  *)
kernel_yield ==
  /\ cpu = "run" /\ current \in {IDLE, VBE, WORKER}
  /\ cpu' = "enter"
  /\ UNCHANGED <<queues, pcb, lists, trapped, current, dying, work, cr3, stacks, timers>>

(* kernel_panic() never returns, nor does whatever runs after a jump       *)
(* through a freed PCB or to the boot task's null entry point.             *)
Halted ==
  /\ cpu \in {"panic", "wild"} \/ (cpu = "run" /\ current = BOOT)
  /\ UNCHANGED vars
-----------------------------------------------------------------------------
Syscall ==
  \/ sys_fork
  \/ sys_exit
  \/ \E t \in Task \cup {NIL} : sys_waitpid(t)
  \/ \E t \in Killed, s \in Signals : sys_kill(t, s)
  \/ \E s \in Handled, on \in BOOLEAN : sys_signal(s, on)
  \/ sys_sigret
  \/ \E n \in 0 .. MaxAlarm : sys_alarm(n)
  \/ sys_pause

Interrupt == Tick \/ TickAlarm \/ TickEnd \/ \E t \in Task : task_unblock(t)

Switch ==
  \/ ExitWake \/ ExitEnd \/ YieldEnter \/ \E z \in Task : Reap(z)
  \/ PickNone \/ PickOther \/ PickFatal \/ PickReady

Next ==
  \/ Syscall \/ Block \/ SyscallReturn \/ kernel_yield
  \/ Interrupt \/ Switch \/ Halted

Spec == Init /\ [][Next]_vars
-----------------------------------------------------------------------------
TypeOK ==
  /\ q \in RunQueues
  /\ fifo \in [Prio -> Seq(Task)]
  /\ pcb \in [Task -> PCB]
  /\ task_list \subseteq Task /\ zombie_list \subseteq Task
  /\ next_pid \in Nat
  /\ cpu \in Phase /\ trapped \in Open
  /\ current \in Task /\ work \subseteq Task
  /\ IF cpu = "exit" THEN dying \in Task ELSE dying = NIL
  /\ cr3 \in Task
  /\ free_kernel_stacks \in Seq(Stack \cup {NIL})
  /\ next_kernel_stack \in 1 .. NStacks + 1
  /\ vbe_ticks \in 0 .. VbeTicksPerFrame - 1
  /\ last_quantum_tick \in 0 .. ScheduleQuantum - 1

Ready(t)   == pcb[t].state = "READY"
Queued(t)  == \E i \in DOMAIN fifo[pcb[t].priority] : fifo[pcb[t].priority][i] = t

(* Whatever is enqueued twice, the bitmaps say exactly which queues are    *)
(* empty, and a queue has a tail when it has a head: dequeue() never meets *)
(* the case it comments "shouldnt happen" and enqueue() never writes       *)
(* through a null tail.                                                    *)
QueueWellFormed == WellFormed(q)

(* The intrusive lists are never cut, crossed or closed into a loop, and   *)
(* the tasks linked in them are the READY ones, each once and at its own   *)
(* priority: no enqueue() in schedule.c or irq.c reaches a task that is    *)
(* linked already, except the compositor, which is alone at its priority.  *)
QueueIntact ==
  /\ Represents(q, fifo, 0 .. TopPrio - 1)
  /\ q.head[TopPrio] \in {NIL, VBE}
  /\ \A t \in Task \ {VBE} : cpu # "panic" => (Ready(t) <=> Queued(t))
  /\ \A p \in Prio : \A i \in DOMAIN fifo[p] : pcb[fifo[p][i]].priority = p

(* task_yield() always finds a task, and the first one it dequeues is      *)
(* READY: neither the panic "no valid task to switch to" nor the branch    *)
(* commented "shouldn't happen but let's try recover" is ever taken.       *)
PickFindsReady ==
  cpu = "pick" => dequeued(q) # NIL /\ Ready(dequeued(q))

(* Between context switches the current task is the RUNNING one, is still  *)
(* listed, and has its own address space loaded.                           *)
CurrentIsRunning ==
  /\ cpu \in {"run", "ret"} => pcb[current].state = "RUNNING" /\ current \in task_list
  /\ cpu \in {"run", "ret", "block"} => cr3 = IF current \in User THEN current ELSE BOOT
  /\ \A t \in Task : pcb[t].state = "RUNNING" => t = current

(* A task blocked in waitpid() waits for a task that is still listed, or   *)
(* that the exit in progress is about to wake it for: no exit is missed.   *)
WaitTargetAlive ==
  \A t \in task_list :
    pcb[t].state = "BLOCKED" /\ pcb[t].waiting_on # NIL =>
      \/ t \in work
      \/ pcb[t].waiting_on \in task_list /\ pcb[t].waiting_on # dying

(* reap_zombies() frees a kernel stack once and only when nobody runs on   *)
(* it, and fork() never hands out one in use: every stack ever carved out  *)
(* is either free, once, or owned by exactly one task.                     *)
StacksExclusive ==
  /\ pcb[current].state # "UNUSED"
  /\ \A s \in 1 .. next_kernel_stack - 1 :
       Cardinality({t \in Task : pcb[t].kstack = s}
                   \cup {<<"free", i>> : i \in {j \in DOMAIN free_kernel_stacks :
                                                  free_kernel_stacks[j] = s}}) = 1

(* "The scheduler always picks the highest priority task that is ready to  *)
(* run": no READY task has a higher priority than the one switched to.     *)
PicksHighestReady ==
  [][cpu = "pick" /\ cpu' = "run" =>
       \A t \in Task \ {VBE} : Ready(t) => pcb[t].priority <= pcb[current'].priority]_vars
=============================================================================
