---------------------------- MODULE MCScheduler -----------------------------
(* The scheduler on small instances: the five boot tasks and a few forked  *)
(* ones, two or four priorities per bitmap word.                           *)
EXTENDS Scheduler

(* A workload of programs that compute, fork and queue disk requests, and  *)
(* a disk worker that sleeps when it has served them.  Its one timing      *)
(* assumption is that a turn of the compositor or of the disk worker is    *)
(* shorter than a timer period, so that ticks meet user code or the idle   *)
(* task.                                                                   *)
SpinTick  == cpu = "run" /\ current \in User \cup {IDLE} /\ Tick
DiskWake  == InUserMode /\ task_unblock(WORKER)
DiskSleep == current = WORKER /\ Block
SpinNext  ==
  \/ sys_fork \/ SyscallReturn \/ SpinTick \/ kernel_yield \/ Switch
  \/ DiskSleep \/ DiskWake

(* The timer keeps ticking, a kernel thread ends its turn, and the code    *)
(* that runs with interrupts off ends.  Fairness of DiskSleep is strong:   *)
(* between two sleeps the worker yields while it could go on, once.        *)
Fairness ==
  WF_vars(SpinTick) /\ WF_vars(kernel_yield) /\ SF_vars(DiskSleep)
  /\ WF_vars(Switch) /\ WF_vars(SyscallReturn)

SpinSpec == Init /\ [][SpinNext]_vars /\ Fairness

(* No starvation: the decay of task_priority_decay() lets every READY task *)
(* run again, the idle task at priority 0 included, however many programs  *)
(* spin at higher priorities.                                              *)
EventuallyRuns == \A t \in Task : Ready(t) ~> pcb[t].state = "RUNNING"
=============================================================================
