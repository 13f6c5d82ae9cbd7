-------------------------------- MODULE Pipe --------------------------------
(***************************************************************************)
(* Pipes and the descriptor tables that refer to them: sys_pipe, sys_read, *)
(* sys_write, sys_close, sys_dup, fork and exit.  A system call is one     *)
(* step: the timer only takes the processor from user mode.  A task that   *)
(* blocks is done with its call, it resumes in user mode.                  *)
(*                                                                         *)
(* A task is the memory of a PCB: a dead one is reused by a later fork, so *)
(* a waiter node that outlives its task refers to whoever lives there.     *)
(***************************************************************************)
EXTENDS Integers, Sequences, FiniteSets

CONSTANTS
  Task,        \* PCBs
  InitTask,    \* the first task; it never exits
  FdMax,       \* FD_MAX
  Pipes,       \* the memory of pipe_state_t's
  Size,        \* PIPE_BUFFER_SIZE
  Data,        \* bytes
  MaxRequest,  \* the largest read
  Payload,     \* what programs write: sequences of bytes
  MaxNodes,    \* waiter nodes that the heap has room for
  NULL

Fd == 0 .. FdMax - 1

(* A file handle of a pipe is one of its two ends. *)
Handle == Pipes \X {"r", "w"}

(* pipe_state_t; every pipe has one reading and one writing handle. *)
PipeState ==
  [buffer : [0 .. Size - 1 -> Data], read_pos : 0 .. Size - 1, write_pos : 0 .. Size - 1,
   data_len : 0 .. Size, readers : {0, 1}, writers : {0, 1},
   read_waiters : Seq(Task), write_waiters : Seq(Task)]

(* The null pointer points to none of them. *)
ASSUME PipeAssumption ==
  /\ IsFiniteSet(Task) /\ InitTask \in Task /\ FdMax \in Nat \ {0}
  /\ Size \in Nat \ {0} /\ Data # {}
  /\ Payload \subseteq Seq(Data) \ {<<>>} /\ MaxRequest \in Nat \ {0} /\ MaxNodes \in Nat
  /\ NULL \notin Handle \cup PipeState

VARIABLES
  state,     \* "UNUSED", "READY" (or running) or "BLOCKED"
  call,      \* what a BLOCKED task sleeps in: <<"read" | "write", pipe>>, <<"poll", NULL>>
  fd_table,  \* descriptors
  refcount,  \* file_handle_t.refcount
  pipe,      \* pipe_state_t, NULL when it is not allocated
  io         \* history: what the last step gave to a program

pvars == <<state, call, fd_table, refcount, pipe, io>>

NewPipe ==
  [buffer |-> [i \in 0 .. Size - 1 |-> CHOOSE d \in Data : TRUE],
   read_pos |-> 0, write_pos |-> 0, data_len |-> 0, readers |-> 0, writers |-> 0,
   read_waiters |-> <<>>, write_waiters |-> <<>>]

PipeInit ==
  /\ state = [t \in Task |-> IF t = InitTask THEN "READY" ELSE "UNUSED"]
  /\ call = [t \in Task |-> NULL]
  /\ fd_table = [t \in Task |-> [f \in Fd |-> NULL]]
  /\ refcount = [h \in Handle |-> 0]
  /\ pipe = [p \in Pipes |-> NULL]
  /\ io = [op |-> "none"]
-----------------------------------------------------------------------------
(* task_unblock() of every task in W. *)
task_unblock(W) ==
  LET woken == {t \in W : state[t] = "BLOCKED"}
  IN  /\ state' = [t \in Task |-> IF t \in woken THEN "READY" ELSE state[t]]
      /\ call' = [t \in Task |-> IF t \in woken THEN NULL ELSE call[t]]

(* The caller goes to sleep in c. *)
Sleep(t, c) ==
  /\ state' = [state EXCEPT ![t] = "BLOCKED"]
  /\ call' = [call EXCEPT ![t] = c]

(* What a call moves, and that it moves nothing. *)
Moved(op, p, s) == io' = [op |-> op, pipe |-> p, bytes |-> s]
Quiet == io' = [op |-> "none"]

Free(t) == {f \in Fd : fd_table[t][f] = NULL}
Lowest(S) == CHOOSE f \in S : \A g \in S : f <= g

(* A running task, and a running task with a descriptor of an end. *)
Runs(t) == state[t] = "READY"
Holds(t, f, e) == Runs(t) /\ fd_table[t][f] # NULL /\ fd_table[t][f][2] = e

Nodes(s) == {s[i] : i \in DOMAIN s}
NodeCount(p) == Len(pipe[p].read_waiters) + Len(pipe[p].write_waiters)
HeapRoom(p) == NodeCount(p) < MaxNodes
-----------------------------------------------------------------------------
(* sys_pipe(): both ends get the lowest free descriptors.  Without two of  *)
(* them nothing is left behind (-EMFILE), also when only the second is     *)
(* missing, after the read end was open for a moment.                      *)
sys_pipe(t, p) ==
  LET rfd == Lowest(Free(t))
      wfd == Lowest(Free(t) \ {rfd})
  IN  /\ Runs(t) /\ pipe[p] = NULL
      /\ Cardinality(Free(t)) >= 2
      /\ fd_table' = [fd_table EXCEPT ![t][rfd] = <<p, "r">>, ![t][wfd] = <<p, "w">>]
      /\ refcount' = [refcount EXCEPT ![<<p, "r">>] = 1, ![<<p, "w">>] = 1]
      /\ pipe' = [pipe EXCEPT ![p] = [NewPipe EXCEPT !.readers = 1, !.writers = 1]]
      /\ Quiet /\ UNCHANGED <<state, call>>

Fewer(a, b) == IF a < b THEN a ELSE b

(* task_ipc_pipe_read(): data, end of file, or sleep. *)
ReadData_NoWrap(t, f, n) ==
  LET p == fd_table[t][f][1]  b == pipe[p]  k == Fewer(n, b.data_len)
      w == SubSeq(b.write_waiters, 1, Fewer(1, Len(b.write_waiters)))
  IN  /\ Holds(t, f, "r") /\ b.data_len > 0
      /\ Moved("read", p, [i \in 1 .. k |-> b.buffer[(b.read_pos + i - 1) % Size]])
      /\ pipe' = [pipe EXCEPT ![p].read_pos = Fewer(@ + k, Size - 1), ![p].data_len = @ - k,
                    ![p].write_waiters = SubSeq(@, 1 + Len(w), Len(@))]
      /\ task_unblock(Nodes(w))
      /\ UNCHANGED <<fd_table, refcount>>

ReadData(t, f, n) ==
  LET p == fd_table[t][f][1]  b == pipe[p]  k == Fewer(n, b.data_len)
      w == SubSeq(b.write_waiters, 1, Fewer(1, Len(b.write_waiters)))
  IN  /\ Holds(t, f, "r") /\ b.data_len > 0
      /\ Moved("read", p, [i \in 1 .. k |-> b.buffer[(b.read_pos + i - 1) % Size]])
      /\ pipe' = [pipe EXCEPT ![p].read_pos = (@ + k) % Size, ![p].data_len = @ - k,
                    ![p].write_waiters = SubSeq(@, 1 + Len(w), Len(@))]
      /\ task_unblock(Nodes(w))
      /\ UNCHANGED <<fd_table, refcount>>

ReadEof(t, f) ==
  LET p == fd_table[t][f][1]
  IN  /\ Holds(t, f, "r") /\ pipe[p].data_len = 0 /\ pipe[p].writers = 0
      /\ Moved("eof", p, <<>>)
      /\ UNCHANGED <<state, call, fd_table, refcount, pipe>>

ReadSleep(t, f) ==
  LET p == fd_table[t][f][1]
  IN  /\ Holds(t, f, "r") /\ pipe[p].data_len = 0 /\ pipe[p].writers > 0 /\ Quiet
      /\ HeapRoom(p)      \* else -ENOMEM
      /\ pipe' = [pipe EXCEPT ![p].read_waiters = Append(@, t)]
      /\ Sleep(t, <<"read", p>>)
      /\ UNCHANGED <<fd_table, refcount>>

(* task_ipc_pipe_write(): a broken pipe, as much as fits, or sleep.  The   *)
(* SIGPIPE that a broken pipe raises may end the task: see sys_exit.       *)
WriteBroken(t, f) ==
  LET p == fd_table[t][f][1]
  IN  /\ Holds(t, f, "w") /\ pipe[p].readers = 0
      /\ Moved("epipe", p, <<>>)
      /\ UNCHANGED <<state, call, fd_table, refcount, pipe>>

WriteData(t, f, s) ==
  LET p == fd_table[t][f][1]  b == pipe[p]  k == Fewer(Len(s), Size - b.data_len)
      at(i) == (i + Size - b.write_pos) % Size   \* offset of slot i from write_pos
      w == SubSeq(b.read_waiters, 1, Fewer(1, Len(b.read_waiters)))
  IN  /\ Holds(t, f, "w") /\ b.readers > 0 /\ b.data_len < Size
      /\ Quiet
      /\ pipe' = [pipe EXCEPT ![p].buffer = [i \in DOMAIN @ |-> IF at(i) < k THEN s[at(i) + 1]
                                                                ELSE @[i]],
                    ![p].write_pos = (@ + k) % Size, ![p].data_len = @ + k,
                    ![p].read_waiters = SubSeq(@, 1 + Len(w), Len(@))]
      /\ task_unblock(Nodes(w))
      /\ UNCHANGED <<fd_table, refcount>>

WriteSleep(t, f) ==
  LET p == fd_table[t][f][1]
  IN  /\ Holds(t, f, "w") /\ pipe[p].readers > 0 /\ pipe[p].data_len = Size /\ Quiet
      /\ HeapRoom(p)
      /\ pipe' = [pipe EXCEPT ![p].write_waiters = Append(@, t)]
      /\ Sleep(t, <<"write", p>>)
      /\ UNCHANGED <<fd_table, refcount>>
-----------------------------------------------------------------------------
(* close_fd() for the descriptors F of t: a handle that loses its last     *)
(* reference closes its end, which wakes everyone who sleeps at the other  *)
(* end; the pipe is freed with its second end.                             *)
Refs(t, F, h) == Cardinality({f \in F : fd_table[t][f] = h})
Gone(t, F) == {h \in Handle : refcount[h] > 0 /\ refcount[h] = Refs(t, F, h)}

Roused_OwnEnd(G) ==
  UNION {Nodes(IF h[2] = "r" THEN pipe[h[1]].read_waiters
                             ELSE pipe[h[1]].write_waiters) : h \in G}

Roused(G) ==
  UNION {Nodes(IF h[2] = "r" THEN pipe[h[1]].write_waiters
                             ELSE pipe[h[1]].read_waiters) : h \in G}

Closed(p, G) ==
  LET b  == pipe[p]
      rs == IF <<p, "r">> \in G THEN 0 ELSE b.readers
      ws == IF <<p, "w">> \in G THEN 0 ELSE b.writers
  IN  IF b = NULL THEN NULL
      ELSE IF rs = 0 /\ ws = 0 THEN NULL
      ELSE [b EXCEPT !.readers = rs, !.writers = ws,
                     !.write_waiters = IF <<p, "r">> \in G THEN <<>> ELSE @,
                     !.read_waiters  = IF <<p, "w">> \in G THEN <<>> ELSE @]

sys_close(t, f) ==
  LET G == Gone(t, {f})
  IN  /\ Runs(t) /\ fd_table[t][f] # NULL
      /\ fd_table' = [fd_table EXCEPT ![t][f] = NULL]
      /\ refcount' = [refcount EXCEPT ![fd_table[t][f]] = @ - 1]
      /\ pipe' = [p \in Pipes |-> Closed(p, G)]
      /\ task_unblock(Roused(G))
      /\ Quiet

(* sys_dup(): with a new descriptor of its own choice, or over newfd.      *)
dup(t, old) ==
  /\ Runs(t) /\ fd_table[t][old] # NULL /\ Free(t) # {}
  /\ fd_table' = [fd_table EXCEPT ![t][Lowest(Free(t))] = fd_table[t][old]]
  /\ refcount' = [refcount EXCEPT ![fd_table[t][old]] = @ + 1]
  /\ Quiet /\ UNCHANGED <<state, call, pipe>>

dup2_NoClose(t, old, new) ==
  LET h == fd_table[t][old]
  IN  /\ Runs(t) /\ h # NULL /\ new # old
      /\ fd_table' = [fd_table EXCEPT ![t][new] = h]
      /\ refcount' = [refcount EXCEPT ![h] = @ + 1]
      /\ Quiet /\ UNCHANGED <<state, call, pipe>>

dup2(t, old, new) ==
  LET h == fd_table[t][old]
      G == Gone(t, {new})
  IN  /\ Runs(t) /\ h # NULL /\ new # old
      /\ fd_table' = [fd_table EXCEPT ![t][new] = h]
      /\ refcount' = [g \in Handle |-> refcount[g] - Refs(t, {new}, g) + (IF g = h THEN 1 ELSE 0)]
      /\ pipe' = [p \in Pipes |-> Closed(p, G)]
      /\ task_unblock(Roused(G))
      /\ Quiet

(* The part of task_fork() that is about descriptors. *)
fork(t, u) ==
  /\ Runs(t) /\ state[u] = "UNUSED"
  /\ state' = [state EXCEPT ![u] = "READY"]
  /\ fd_table' = [fd_table EXCEPT ![u] = fd_table[t]]
  /\ refcount' = [h \in Handle |-> refcount[h] + Refs(t, Fd, h)]
  /\ Quiet /\ UNCHANGED <<call, pipe>>

(* task_exit(): by sys_exit() or by a fatal signal, which ends a sleeping  *)
(* task too.  The nodes of a task that is ended in its sleep stay.         *)
task_exit(t) ==
  LET G == Gone(t, Fd)
      W == Roused(G) \ {t}
      woken == {u \in W : state[u] = "BLOCKED"}
  IN  /\ t # InitTask /\ state[t] # "UNUSED"
      /\ fd_table' = [fd_table EXCEPT ![t] = [f \in Fd |-> NULL]]
      /\ refcount' = [h \in Handle |-> refcount[h] - Refs(t, Fd, h)]
      /\ pipe' = [p \in Pipes |-> Closed(p, G)]
      /\ state' = [u \in Task |-> IF u = t THEN "UNUSED"
                                  ELSE IF u \in woken THEN "READY" ELSE state[u]]
      /\ call' = [u \in Task |-> IF u \in woken \cup {t} THEN NULL ELSE call[u]]
      /\ Quiet

(* A signal with a handler ends the sleep of a task and leaves its node.   *)
task_ipc_signal_raise(t) ==
  /\ state[t] = "BLOCKED" /\ task_unblock({t})
  /\ Quiet /\ UNCHANGED <<fd_table, refcount, pipe>>
-----------------------------------------------------------------------------
sys_read(t) ==
  \E f \in Fd : \/ \E n \in 1 .. MaxRequest : ReadData(t, f, n)
                \/ ReadEof(t, f) \/ ReadSleep(t, f)

sys_write(t) ==
  \E f \in Fd : \/ \E s \in Payload : WriteData(t, f, s)
                \/ WriteBroken(t, f) \/ WriteSleep(t, f)

PipeNext ==
  \E t \in Task :
    \/ \E p \in Pipes : sys_pipe(t, p)
    \/ sys_read(t) \/ sys_write(t)
    \/ \E f \in Fd : sys_close(t, f) \/ dup(t, f) \/ \E g \in Fd : dup2(t, f, g)
    \/ \E u \in Task : fork(t, u)
    \/ task_exit(t)
    \/ task_ipc_signal_raise(t)

PipeSpec == PipeInit /\ [][PipeNext]_pvars
-----------------------------------------------------------------------------
(* No descriptor is lost or counted twice over dup, dup2, fork, exit and   *)
(* -EMFILE: a handle counts the descriptors that refer to it, and an end   *)
(* of a pipe is open exactly as long as a descriptor of some task refers   *)
(* to it, so that readers and writers, which decide on end-of-file and     *)
(* EPIPE, are right, and a descriptor never refers to a freed pipe.        *)
RefcountsExact ==
  \A h \in Handle :
    LET users == {tf \in Task \X Fd : fd_table[tf[1]][tf[2]] = h}
        p == pipe[h[1]]
    IN  /\ refcount[h] = Cardinality(users)
        /\ users # {} => p # NULL
        /\ p # NULL => (IF h[2] = "r" THEN p.readers ELSE p.writers)
                          = (IF users = {} THEN 0 ELSE 1)

(* Nobody sleeps on a pipe whose other end is gone: a task that is blocked *)
(* in read() has a writer that can still wake it, one that is blocked in   *)
(* write() has a reader, and the pipe still knows the sleeper.             *)
SleepersHavePeers ==
  \A t \in Task :
    state[t] = "BLOCKED" /\ call[t] \in {"read", "write"} \X Pipes =>
      LET p == pipe[call[t][2]]
      IN  /\ p # NULL
          /\ call[t][1] = "read"  => p.writers > 0 /\ t \in Nodes(p.read_waiters)
          /\ call[t][1] = "write" => p.readers > 0 /\ t \in Nodes(p.write_waiters)

(* The bytes of a pipe in the order in which they will be read. *)
Content(p) ==
  IF pipe[p] = NULL THEN <<>>
  ELSE [i \in 1 .. pipe[p].data_len |-> pipe[p].buffer[(pipe[p].read_pos + i - 1) % Size]]

Ends(p) ==
  IF pipe[p] = NULL THEN {}
  ELSE (IF pipe[p].readers > 0 THEN {"r"} ELSE {}) \cup (IF pipe[p].writers > 0 THEN {"w"} ELSE {})

(* A pipe is a byte stream: no byte is lost, duplicated or reordered       *)
(* across the wrap-around of the ring, whoever reads and writes.           *)
Stream == INSTANCE ByteStream WITH
            Pipe <- Pipes, Byte <- Data, Capacity <- Size, io <- io,
            stream <- [p \in Pipes |-> Content(p)], open <- [p \in Pipes |-> Ends(p)]

PipeIsStream == Stream!StreamSpec
=============================================================================
