----------------------------- MODULE UnixSocket -----------------------------
(***************************************************************************)
(* Unix-domain sockets: socket, bind, listen, accept, connect, send, recv, *)
(* shutdown, socketpair, close, and their sharing over fork.  A system     *)
(* call is one step.  A caller that blocks is answered by whoever wakes    *)
(* it: a writer hands its bytes to a sleeping reader, a connector hands    *)
(* the new descriptor to a sleeping accepter.                              *)
(*                                                                         *)
(* A socket is the memory of a unix_socket_t, a waiter node is its task.   *)
(* Of the bytes in a buffer only their number is kept (module Pipe is      *)
(* about the order of bytes in a ring), of a descriptor table only which   *)
(* sockets it refers to.                                                   *)
(***************************************************************************)
EXTENDS Naturals, Sequences, FiniteSets, FiniteSetsExt

CONSTANTS
  Task,         \* PCBs
  Sock,         \* the memory of sockets: a set of numbers
  Path,         \* names that sockets are bound to
  FdMax,        \* FD_MAX
  BufSize,      \* SOCK_BUFFER_SIZE_ALLOC
  BacklogMax,   \* SOCK_BACKLOG_MAX
  MaxBound,     \* MAX_BOUND_SOCKETS
  MaxRequest,   \* the largest read and write
  MaxDgram,     \* how many datagram sockets there are at a time
  Disciplined,  \* programs keep the rules stated at Fresh, Alone and Killable
  NULL

Waiter == [task : Task, size : Nat]

(* unix_socket_t, as far as it is kept. *)
UnixSock ==
  [type : {"STREAM", "DGRAM"},
   state : {"UNCONNECTED", "BOUND", "LISTENING", "CONNECTING", "CONNECTED", "CLOSED"},
   path : Path \cup {NULL}, data_len : 0 .. BufSize, peer : Sock \cup {NULL},
   backlog : Seq(Sock), backlog_max : Nat, read_waiters : Seq(Waiter),
   write_waiters : Seq(Task), accept_waiters : Seq(Task), connect_waiters : Seq(Task)]

ASSUME SocketAssumption ==
  /\ Sock \subseteq Nat /\ IsFiniteSet(Sock) /\ NULL \notin Sock \cup Path \cup UnixSock
  /\ FdMax \in Nat /\ BufSize \in Nat \ {0} /\ BacklogMax \in Nat \ {0} /\ MaxBound \in Nat
  /\ MaxRequest \in Nat /\ Disciplined \in BOOLEAN

VARIABLES
  state,          \* "UNUSED", "READY" (or running) or "BLOCKED"
  call,           \* what a BLOCKED task sleeps in: <<operation, socket>>
  held,           \* the sockets that a task has descriptors of
  sock,           \* unix_socket_t, NULL when it is not allocated
  bound_sockets   \* the table of bound sockets

uvars == <<state, call, held, sock, bound_sockets>>

NewSock(type) ==
  [type |-> type, state |-> "UNCONNECTED", path |-> NULL, data_len |-> 0, peer |-> NULL,
   backlog |-> <<>>, backlog_max |-> 0, read_waiters |-> <<>>, write_waiters |-> <<>>,
   accept_waiters |-> <<>>, connect_waiters |-> <<>>]

SocketInit ==
  /\ state = [t \in Task |-> "READY"]     \* programs that have no socket yet
  /\ call = [t \in Task |-> NULL]
  /\ held = [t \in Task |-> {}]
  /\ sock = [s \in Sock |-> NULL]
  /\ bound_sockets = <<>>
-----------------------------------------------------------------------------
Fewer(a, b) == IF a < b THEN a ELSE b
Lowest(S) == CHOOSE s \in S : \A r \in S : s <= r
Rest(q) == IF q = <<>> THEN q ELSE Tail(q)
FirstOf(q) == IF q = <<>> THEN {} ELSE {Head(q)}
Nodes(q) == {q[i] : i \in DOMAIN q}

FreeSock == {s \in Sock : sock[s] = NULL}

(* A running task that uses a descriptor of s. *)
Uses(t, s) == state[t] = "READY" /\ s \in held[t]
HasFd(t) == Cardinality(held[t]) < FdMax

(* task_unblock() of the tasks in W. *)
task_unblock(W) ==
  LET woken == {t \in W : state[t] = "BLOCKED"}
  IN  /\ state' = [t \in Task |-> IF t \in woken THEN "READY" ELSE state[t]]
      /\ call' = [t \in Task |-> IF t \in woken THEN NULL ELSE call[t]]

Sleep(t, c) ==
  /\ state' = [state EXCEPT ![t] = "BLOCKED"]
  /\ call' = [call EXCEPT ![t] = c]

(* What well-behaved programs do not do: bind, listen or connect with a    *)
(* stream socket that is connecting, connected or shut down, and sleep in  *)
(* a read (or a write) of a socket where another task sleeps already.      *)
Fresh(s) ==
  Disciplined /\ sock[s].type = "STREAM" =>
    sock[s].state \in {"UNCONNECTED", "BOUND"} /\ sock[s].peer = NULL
Alone(waiters) == Disciplined => waiters = <<>>
-----------------------------------------------------------------------------
(* Two bounds: there are sockets of one type at a time, of datagrams at    *)
(* most MaxDgram.                                                          *)
Fits(type, n) ==
  LET live == Sock \ FreeSock
  IN  /\ \A s \in live : sock[s].type = type
      /\ type = "DGRAM" => Cardinality(live) + n <= MaxDgram

sys_socket(t, type) ==
  /\ state[t] = "READY" /\ Fits(type, 1)/\ FreeSock # {} /\ HasFd(t)
  /\ sock' = [sock EXCEPT ![Lowest(FreeSock)] = NewSock(type)]
  /\ held' = [held EXCEPT ![t] = @ \cup {Lowest(FreeSock)}]
  /\ UNCHANGED <<state, call, bound_sockets>>

(* Without a second descriptor the first is closed again (-EMFILE). *)
sys_socketpair(t, type) ==
  LET a == Lowest(FreeSock)
      b == Lowest(FreeSock \ {a})
  IN  /\ state[t] = "READY" /\ Fits(type, 2) /\ Cardinality(FreeSock) >= 2
      /\ Cardinality(held[t]) + 2 <= FdMax
      /\ sock' = [sock EXCEPT
           ![a] = [NewSock(type) EXCEPT !.state = "CONNECTED", !.peer = b],
           ![b] = [NewSock(type) EXCEPT !.state = "CONNECTED", !.peer = a]]
      /\ held' = [held EXCEPT ![t] = @ \cup {a, b}]
      /\ UNCHANGED <<state, call, bound_sockets>>

unix_socket_lookup(path) ==
  LET at == {i \in DOMAIN bound_sockets : sock[bound_sockets[i]].path = path}
  IN  IF at = {} THEN NULL ELSE bound_sockets[Lowest(at)]

(* unix_socket_register() in a full table: the bind is undone (-ENOSPC).   *)
Bound(s, path) ==
  LET full == Len(bound_sockets) >= MaxBound
  IN  /\ sock' = IF full THEN [sock EXCEPT ![s].state = "UNCONNECTED"]
                 ELSE [sock EXCEPT ![s].path = path, ![s].state = "BOUND"]
      /\ bound_sockets' = IF full THEN bound_sockets ELSE Append(bound_sockets, s)

sys_bind(t, s, path) ==
  /\ Uses(t, s) /\ Fresh(s) /\ sock[s].path = NULL
  /\ unix_socket_lookup(path) = NULL          \* else -EADDRINUSE
  /\ Bound(s, path)
  /\ UNCHANGED <<state, call, held>>

sys_listen(t, s, n) ==
  /\ Uses(t, s) /\ Fresh(s) /\ sock[s].type = "STREAM" /\ sock[s].path # NULL
  /\ sock' = [sock EXCEPT ![s].state = "LISTENING",
                          ![s].backlog_max = IF n = 0 THEN 1 ELSE Fewer(n, BacklogMax)]
  /\ UNCHANGED <<state, call, held, bound_sockets>>
-----------------------------------------------------------------------------
(* sock_accept_deliver() in S: the first socket of the backlog of l gets a *)
(* new peer, for which t gets a descriptor, and the first connector is     *)
(* told 0.  Without memory, or without a descriptor, the client stays      *)
(* unconnected, and the connector is told 0 all the same.                  *)
sock_accept_deliver(S, l, t) ==
  LET client == Head(S[l].backlog)
      server == Lowest(FreeSock)
      popped == [S EXCEPT ![l].backlog = Tail(@), ![l].connect_waiters = Rest(@)]
      paired == [popped EXCEPT
                   ![server] = [NewSock("STREAM") EXCEPT !.state = "CONNECTED", !.peer = client],
                   ![client].state = "CONNECTED", ![client].peer = server]
  IN  IF FreeSock = {} THEN sock' = popped /\ UNCHANGED held
      ELSE IF HasFd(t) THEN sock' = paired /\ held' = [held EXCEPT ![t] = @ \cup {server}]
      ELSE /\ sock' = [popped EXCEPT ![client].state = "UNCONNECTED", ![client].peer = NULL]
           /\ UNCHANGED held

AcceptSleep(t, l) ==
  /\ Uses(t, l) /\ sock[l].state = "LISTENING" /\ sock[l].backlog = <<>>
  /\ sock' = [sock EXCEPT ![l].accept_waiters = Append(@, t)]
  /\ Sleep(t, <<"accept", l>>)
  /\ UNCHANGED <<held, bound_sockets>>

AcceptNow(t, l) ==
  /\ Uses(t, l) /\ sock[l].state = "LISTENING" /\ sock[l].backlog # <<>>
  /\ sock_accept_deliver(sock, l, t)
  /\ task_unblock(FirstOf(sock[l].connect_waiters))
  /\ UNCHANGED bound_sockets

(* sys_connect() of a stream socket, when the listener takes it: with an   *)
(* accepter asleep the connection is made at once, else the caller sleeps. *)
Queued(s, l) == [sock EXCEPT ![l].backlog = Append(@, s), ![s].state = "CONNECTING"]

Connectable(t, s, l) ==
  /\ Uses(t, s) /\ Fresh(s) /\ sock[s].state # "CONNECTED" /\ sock[s].type = "STREAM"
  /\ l # NULL /\ sock[l].state = "LISTENING"
  /\ Len(sock[l].backlog) < sock[l].backlog_max

ConnectNow(t, s, path) ==
  LET l == unix_socket_lookup(path)
      a == Head(sock[l].accept_waiters)
  IN  /\ Connectable(t, s, l) /\ sock[l].accept_waiters # <<>>
      /\ sock_accept_deliver([Queued(s, l) EXCEPT ![l].accept_waiters = Tail(@)], l, a)
      /\ task_unblock({a} \cup FirstOf(sock[l].connect_waiters))
      /\ UNCHANGED bound_sockets

ConnectSleep_Early(t, s, path) ==
  LET l == unix_socket_lookup(path)
  IN  /\ Connectable(t, s, l)
      /\ sock' = [Queued(s, l) EXCEPT ![l].connect_waiters = Append(@, t)]
      /\ Sleep(t, <<"connect", l, s>>)
      /\ UNCHANGED <<held, bound_sockets>>

ConnectSleep(t, s, path) ==
  LET l == unix_socket_lookup(path)
  IN  /\ Connectable(t, s, l) /\ sock[l].accept_waiters = <<>>
      /\ sock' = [Queued(s, l) EXCEPT ![l].connect_waiters = Append(@, t)]
      /\ Sleep(t, <<"connect", l, s>>)
      /\ UNCHANGED <<held, bound_sockets>>

(* A datagram socket is connected to any bound socket, which does not      *)
(* learn of it.                                                            *)
ConnectDgram(t, s, path) ==
  /\ Uses(t, s) /\ sock[s].type = "DGRAM" /\ sock[s].state # "CONNECTED"
  /\ unix_socket_lookup(path) # NULL
  /\ sock' = [sock EXCEPT ![s].peer = unix_socket_lookup(path), ![s].state = "CONNECTED"]
  /\ UNCHANGED <<state, call, held, bound_sockets>>
-----------------------------------------------------------------------------
(* task_ipc_unix_socket_read(): bytes for the caller and room for a        *)
(* writer, end of file (which changes nothing), or sleep.                  *)
Readable(t, s) == Uses(t, s) /\ (sock[s].type = "STREAM" => sock[s].state = "CONNECTED")

ReadData_Quiet(t, s, n) ==
  /\ Readable(t, s) /\ sock[s].data_len > 0
  /\ sock' = [sock EXCEPT ![s].data_len = @ - Fewer(n, @)]
  /\ UNCHANGED <<state, call, held, bound_sockets>>

ReadData(t, s, n) ==
  /\ Readable(t, s) /\ sock[s].data_len > 0
  /\ sock' = [sock EXCEPT ![s].data_len = @ - Fewer(n, @), ![s].write_waiters = Rest(@)]
  /\ task_unblock(FirstOf(sock[s].write_waiters))
  /\ UNCHANGED <<held, bound_sockets>>

PeerOpen(s) == sock[s].peer # NULL /\ sock[sock[s].peer].state # "CLOSED"

ReadSleep(t, s, n) ==
  /\ Readable(t, s) /\ sock[s].data_len = 0 /\ Alone(sock[s].read_waiters)
  /\ sock[s].type = "STREAM" => PeerOpen(s)
  /\ sock' = [sock EXCEPT ![s].read_waiters = Append(@, [task |-> t, size |-> n])]
  /\ Sleep(t, <<"read", s>>)
  /\ UNCHANGED <<held, bound_sockets>>

(* k bytes arrive at p; sock_read_wake_one() hands them to a sleeper.      *)
Arrive(p, k) ==
  LET q == sock[p].read_waiters
      total == sock[p].data_len + k
  IN  /\ sock' = [sock EXCEPT ![p].read_waiters = Rest(@),
                     ![p].data_len = IF q = <<>> THEN total ELSE total - Fewer(Head(q).size, total)]
      /\ task_unblock(IF q = <<>> THEN {} ELSE {Head(q).task})

(* task_ipc_unix_socket_write(): -EMSGSIZE changes nothing, -EPIPE raises  *)
(* SIGPIPE, which task_exit() stands for.                                  *)
Writable(t, s) ==
  Uses(t, s) /\ sock[s].type = "STREAM" /\ sock[s].state = "CONNECTED" /\ PeerOpen(s)

WriteData(t, s, n) ==
  LET p == sock[s].peer
  IN  /\ Writable(t, s) /\ sock[p].data_len < BufSize
      /\ Arrive(p, Fewer(n, BufSize - sock[p].data_len))
      /\ UNCHANGED <<held, bound_sockets>>

WriteSleep(t, s) ==
  LET p == sock[s].peer
  IN  /\ Writable(t, s) /\ sock[p].data_len = BufSize /\ Alone(sock[p].write_waiters)
      /\ sock' = [sock EXCEPT ![p].write_waiters = Append(@, t)]
      /\ Sleep(t, <<"write", s>>)
      /\ UNCHANGED <<held, bound_sockets>>

(* The peer of a datagram socket may have been freed: the bytes then go to *)
(* freed memory, or to the socket that has taken its place.                *)
WriteDgram(t, s, n) ==
  LET p == sock[s].peer
  IN  /\ Uses(t, s) /\ sock[s].type = "DGRAM" /\ p # NULL /\ sock[p] # NULL
      /\ sock[p].data_len + n <= BufSize
      /\ Arrive(p, n)
      /\ UNCHANGED <<held, bound_sockets>>
-----------------------------------------------------------------------------
Readers(S, s) == {S[s].read_waiters[i].task : i \in DOMAIN S[s].read_waiters}

sys_shutdown(t, s) ==
  LET p == sock[s].peer
      both == {s} \cup (IF p = NULL \/ sock[p] = NULL THEN {} ELSE {p})
  IN  /\ Uses(t, s)
      /\ sock' = [r \in Sock |->
           IF r \notin both THEN sock[r]
           ELSE [sock[r] EXCEPT !.read_waiters = <<>>, !.write_waiters = <<>>,
                                !.state = IF r = s THEN "CLOSED" ELSE @]]
      /\ task_unblock(UNION {Readers(sock, r) \cup Nodes(sock[r].write_waiters) : r \in both})
      /\ UNCHANGED <<held, bound_sockets>>

(* task_ipc_unix_socket_close() of s in K, a record of the sockets, the    *)
(* table and the tasks that have been woken: everyone who sleeps at s or   *)
(* at its peer is woken, and the memory is freed.                          *)
Unregister_DropLast(q, s) ==
  IF s \in Nodes(q) THEN SubSeq(q, 1, Len(q) - 1) ELSE q

Unregister(q, s) ==
  LET at == {i \in DOMAIN q : q[i] = s}
      last == q[Len(q)]
  IN  IF at = {} THEN q
      ELSE SubSeq([q EXCEPT ![Lowest(at)] = last], 1, Len(q) - 1)

Shut_KeepPeer(s, K) ==
  LET me == K.sock[s]
  IN  [sock  |-> [K.sock EXCEPT ![s] = NULL],
       bound |-> IF me.path = NULL THEN K.bound ELSE Unregister(K.bound, s),
       woken |-> K.woken \cup Readers(K.sock, s) \cup Nodes(me.write_waiters)
                         \cup Nodes(me.accept_waiters) \cup Nodes(me.connect_waiters)]

Shut(s, K) ==
  LET me == K.sock[s]
      p  == me.peer
      hasPeer == p # NULL /\ K.sock[p] # NULL
      other == [K.sock[p] EXCEPT !.peer = IF @ = s THEN NULL ELSE @,
                                 !.read_waiters = <<>>, !.write_waiters = <<>>]
  IN  [sock  |-> IF hasPeer THEN [K.sock EXCEPT ![p] = other, ![s] = NULL]
                            ELSE [K.sock EXCEPT ![s] = NULL],
       bound |-> IF me.path = NULL THEN K.bound ELSE Unregister(K.bound, s),
       woken |-> K.woken \cup Readers(K.sock, s) \cup Nodes(me.write_waiters)
                         \cup Nodes(me.accept_waiters) \cup Nodes(me.connect_waiters)
                         \cup (IF hasPeer THEN Readers(K.sock, p) \cup Nodes(K.sock[p].write_waiters)
                                          ELSE {})]

(* close_fd() for the descriptors of t in F: the last one closes a socket. *)
Closing(t, F) ==
  FoldSet(Shut, [sock |-> sock, bound |-> bound_sockets, woken |-> {}],
          {s \in F : \A u \in Task \ {t} : s \notin held[u]})

sys_close(t, s) ==
  LET K == Closing(t, {s})
  IN  /\ Uses(t, s)
      /\ sock' = K.sock /\ bound_sockets' = K.bound
      /\ held' = [held EXCEPT ![t] = @ \ {s}]
      /\ task_unblock(K.woken)

fork(t, u) ==
  /\ state[t] = "READY" /\ state[u] = "UNUSED"
  /\ state' = [state EXCEPT ![u] = "READY"]
  /\ held' = [held EXCEPT ![u] = held[t]]
  /\ UNCHANGED <<call, sock, bound_sockets>>

(* task_exit(), by sys_exit() or a fatal signal.  A signal may end a       *)
(* sleeper too; its waiter node is only removed if its socket goes with    *)
(* it, which is not so for a connector or a shared socket.                 *)
Killable(t) ==
  \/ state[t] = "READY"
  \/ /\ state[t] = "BLOCKED"
     /\ Disciplined => /\ call[t][1] # "connect"
                       /\ \A u \in Task \ {t} : call[t][2] \notin held[u]

task_exit(t) ==
  LET K == Closing(t, held[t])
      woken == {u \in K.woken \ {t} : state[u] = "BLOCKED"}
  IN  /\ Killable(t) /\ \E u \in Task \ {t} : state[u] # "UNUSED"
      /\ sock' = K.sock /\ bound_sockets' = K.bound
      /\ held' = [held EXCEPT ![t] = {}]
      /\ state' = [u \in Task |-> IF u = t THEN "UNUSED"
                                  ELSE IF u \in woken THEN "READY" ELSE state[u]]
      /\ call' = [u \in Task |-> IF u \in woken \cup {t} THEN NULL ELSE call[u]]
-----------------------------------------------------------------------------
Calls(t, s) ==
  \/ \E path \in Path : \/ sys_bind(t, s, path)
                        \/ ConnectNow(t, s, path) \/ ConnectSleep(t, s, path)
                        \/ ConnectDgram(t, s, path)
  \/ \E n \in 0 .. BacklogMax : sys_listen(t, s, n)
  \/ AcceptSleep(t, s) \/ AcceptNow(t, s)
  \/ \E n \in 1 .. MaxRequest : \/ ReadData(t, s, n) \/ ReadSleep(t, s, n)
                               \/ WriteData(t, s, n) \/ WriteDgram(t, s, n)
  \/ WriteSleep(t, s)
  \/ sys_shutdown(t, s) \/ sys_close(t, s)

SocketNext ==
  \E t \in Task :
    \/ \E type \in {"STREAM", "DGRAM"} : sys_socket(t, type) \/ sys_socketpair(t, type)
    \/ \E s \in Sock : Calls(t, s)
    \/ \E u \in Task : fork(t, u)
    \/ task_exit(t)

SocketSpec == SocketInit /\ [][SocketNext]_uvars
-----------------------------------------------------------------------------
(* Connected stream sockets know each other: a peer pointer leads to a     *)
(* live socket that points back, over accept with and without memory or    *)
(* descriptors, shutdown, close and exit in any order.  A one-sided        *)
(* pointer is a use after free when the other socket is closed.            *)
PeersMutual ==
  \A s \in Sock :
    sock[s] # NULL /\ sock[s].type = "STREAM" /\ sock[s].peer # NULL =>
      sock[sock[s].peer] # NULL /\ sock[sock[s].peer].peer = s

(* No wake-up is lost: a sleeping reader of a stream has nothing to read   *)
(* and a peer that can still write or hang up, a sleeping writer has no    *)
(* room and a peer that can still read.                                    *)
StreamSleepersJustified ==
  \A t \in Task : state[t] = "BLOCKED" =>
    LET s == call[t][2]
    IN  /\ call[t][1] = "read" /\ sock[s].type = "STREAM" =>
             sock[s].data_len = 0 /\ PeerOpen(s) /\ t \in Readers(sock, s)
        /\ call[t][1] = "write" =>
             /\ PeerOpen(s) /\ sock[sock[s].peer].data_len = BufSize
             /\ t \in Nodes(sock[sock[s].peer].write_waiters)

(* An accept() answers the connector whose socket it takes: the backlog    *)
(* and the queue of sleeping connectors stay in step, entry by entry, and  *)
(* nobody sleeps in accept() while a connector waits.                      *)
BacklogInStep ==
  \A l \in Sock : sock[l] # NULL =>
    /\ Len(sock[l].backlog) = Len(sock[l].connect_waiters)
    /\ \A i \in DOMAIN sock[l].backlog :
         call[sock[l].connect_waiters[i]] = <<"connect", l, sock[l].backlog[i]>>
    /\ sock[l].accept_waiters = <<>> \/ sock[l].backlog = <<>>
    /\ \A t \in Nodes(sock[l].accept_waiters) : call[t] = <<"accept", l>>

(* The table of names holds the bound sockets, each once, all of them      *)
(* live, with different names: a lookup never meets freed memory.          *)
BoundTableExact ==
  /\ Nodes(bound_sockets) = {s \in Sock : sock[s] # NULL /\ sock[s].path # NULL}
  /\ \A i, j \in DOMAIN bound_sockets :
       i # j => sock[bound_sockets[i]].path # sock[bound_sockets[j]].path
=============================================================================
