-------------------------------- MODULE Poll --------------------------------
(***************************************************************************)
(* poll(), select() and usleep() over the descriptors of module Pipe.  A   *)
(* caller that finds nothing ready leaves a waiter in poll_waiters and     *)
(* sleeps; the timer interrupt checks every waiter at every tick,          *)
(* whatever its task does meanwhile.                                       *)
(***************************************************************************)
EXTENDS Pipe

CONSTANTS
  Waits,       \* the calls programs make: kind and time-out in ticks, -1: none
  MaxPollers   \* callers in the list at a time

ASSUME PollAssumption ==
  Waits \subseteq {"poll", "select"} \X (Int \ {0}) /\ MaxPollers \in Nat

VARIABLE poll_waiters   \* newest first; left: ticks to the deadline, -1: none

avars == <<pvars, poll_waiters>>

(* What a caller asks for: descriptors, each with the direction wanted.    *)
Interest == {S \in SUBSET (Fd \X {"in", "out"}) : Cardinality(S) <= 1}

PollInit == PipeInit /\ poll_waiters = <<>>

(* fd_poll_check_task() for an open descriptor of a pipe. *)
fd_poll_check_task(t, f) ==
  LET h == fd_table[t][f]
      p == pipe[h[1]]
  IN  IF h = NULL THEN {"NVAL"}
      ELSE IF h[2] = "r"
      THEN (IF p.data_len > 0 THEN {"IN"} ELSE {}) \cup (IF p.writers = 0 THEN {"HUP"} ELSE {})
      ELSE (IF p.data_len < Size THEN {"OUT"} ELSE {}) \cup (IF p.readers = 0 THEN {"ERR"} ELSE {})

(* When poll() and select() count a descriptor as ready.  select() does    *)
(* not take an error for an answer to a caller that wants to write.        *)
Answers(kind, dir) ==
  IF kind = "poll" THEN {"NVAL", "ERR", "HUP"} \cup (IF dir = "in" THEN {"IN"} ELSE {"OUT"})
  ELSE IF dir = "in" THEN {"IN", "HUP", "ERR"} ELSE {"OUT"}

AnyReady(t, kind, want) ==
  \E i \in want : fd_poll_check_task(t, i[1]) \cap Answers(kind, i[2]) # {}

(* Programs ask for the direction that a descriptor is for. *)
Direction(h) == IF h[2] = "r" THEN "in" ELSE "out"

(* sys_poll(), sys_select() and, with nothing to wait for but a time-out,  *)
(* sys_usleep(): the caller that gets no answer at once goes to sleep.  A  *)
(* descriptor that is not open is answered at once.                        *)
PollSleep(t, kind, want, left) ==
  /\ Runs(t) /\ Len(poll_waiters) < MaxPollers
  /\ \A i \in want : fd_table[t][i[1]] # NULL /\ i[2] = Direction(fd_table[t][i[1]])
  /\ want = {} => kind = "select" /\ left # -1
  /\ ~AnyReady(t, kind, want)
  /\ Sleep(t, <<"poll", NULL>>)
  /\ poll_waiters' = <<[task |-> t, kind |-> kind, want |-> want, left |-> left]>> \o poll_waiters
  /\ Quiet /\ UNCHANGED <<fd_table, refcount, pipe>>

(* poll_waiter_tick(), after the tick has been counted. *)
Counted(w) == [w EXCEPT !.left = IF @ > 0 THEN @ - 1 ELSE @]
Expired_Late(w) == AnyReady(w.task, w.kind, w.want)
Expired(w) == w.left = 0 \/ AnyReady(w.task, w.kind, w.want)

poll_waiter_tick ==
  LET counted == [i \in DOMAIN poll_waiters |-> Counted(poll_waiters[i])]
      Pending(w) == ~Expired(w)
  IN  /\ poll_waiters # <<>>
      /\ poll_waiters' = SelectSeq(counted, Pending)
      /\ task_unblock({counted[i].task : i \in {j \in DOMAIN counted : Expired(counted[j])}})
      /\ Quiet /\ UNCHANGED <<fd_table, refcount, pipe>>

(* Waiters of both kinds come from the one heap; a call that finds no room *)
(* for its waiter returns -ENOMEM and does nothing.                        *)
HeapFits ==
  \A p \in Pipes : Len(poll_waiters) + (IF pipe[p] = NULL THEN 0 ELSE NodeCount(p)) <= MaxNodes

sys_poll(t) ==
  \E w \in Waits, want \in Interest : PollSleep(t, w[1], want, w[2])

PollNext ==
  \/ PipeNext /\ UNCHANGED poll_waiters /\ HeapFits'
  \/ \E t \in Task : sys_poll(t) /\ HeapFits'
  \/ poll_waiter_tick

(* The timer keeps ticking. *)
PollSpec == PollInit /\ [][PollNext]_avars /\ WF_avars(poll_waiter_tick)
-----------------------------------------------------------------------------
(* poll(), select() and usleep() with a time-out return, and poll() and    *)
(* select() return when the other end of the pipe they watch is closed,    *)
(* whatever other tasks do to the pipe and however stale waiters of        *)
(* interrupted calls interfere.                                            *)
HungUp(t) ==
  \E i \in DOMAIN poll_waiters :
    LET w == poll_waiters[i]
    IN  /\ w.task = t
        /\ \/ w.left # -1
           \/ \E j \in w.want : fd_table[t][j[1]] # NULL
                /\ pipe[fd_table[t][j[1]][1]].writers = 0 /\ j[2] = "in"

PollReturns ==
  \A t \in Task :
    (state[t] = "BLOCKED" /\ call[t][1] = "poll" /\ HungUp(t)) ~> (state[t] # "BLOCKED")
=============================================================================
