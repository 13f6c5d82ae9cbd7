-------------------------- MODULE UnixSocket_proofs --------------------------
(***************************************************************************)
(* Peers, sleepers, backlogs and names of Unix-domain sockets: for any     *)
(* number of tasks, sockets, descriptors and names, as long as programs    *)
(* keep the rules that Disciplined stands for.                             *)
(***************************************************************************)
EXTENDS UnixSocket, FiniteSetTheorems, WellFoundedInduction, SequenceTheorems, TLAPS

Live(s) == sock[s] # NULL
Stream(s) == sock[s].type = "STREAM"
Asleep(t) == state[t] = "BLOCKED"
Distinct(q) == \A i, j \in DOMAIN q : q[i] = q[j] => i = j

Typed ==
  /\ state \in [Task -> {"UNUSED", "READY", "BLOCKED"}]
  /\ DOMAIN call = Task
  /\ held \in [Task -> SUBSET Sock]
  /\ sock \in [Sock -> UnixSock \cup {NULL}]
  /\ bound_sockets \in Seq(Sock)

OneType == \A r, s \in Sock : Live(r) /\ Live(s) => sock[r].type = sock[s].type

(* A descriptor leads to a socket that is not freed. *)
HeldLive == \A t \in Task : \A s \in held[t] : Live(s)

(* Where a sleeper sleeps; it keeps its descriptor of that socket. *)
ReadsAt(t, s) ==
  /\ call[t][1] = "read" /\ call[t][2] = s /\ t \in Readers(sock, s)
  /\ Stream(s) => sock[s].data_len = 0 /\ PeerOpen(s)
WritesTo(t, s) ==
  /\ call[t][1] = "write" /\ call[t][2] = s /\ Stream(s) /\ PeerOpen(s)
  /\ sock[sock[s].peer].data_len = BufSize
  /\ t \in Nodes(sock[sock[s].peer].write_waiters)
AcceptsAt(t, l) == call[t][1] = "accept" /\ call[t][2] = l
ConnectsTo(t, s) == call[t][1] = "connect" /\ call[t][3] = s

SleeperAt(t) ==
  \E s \in held[t] : ReadsAt(t, s) \/ WritesTo(t, s) \/ AcceptsAt(t, s) \/ ConnectsTo(t, s)
Sleepers == \A t \in Task : Asleep(t) => SleeperAt(t)

(* A waiter node is that of a task which sleeps there: none is stale. *)
ReadersAt(s) ==
  /\ Len(sock[s].read_waiters) <= 1
  /\ \A t \in Readers(sock, s) : Asleep(t) /\ call[t][1] = "read" /\ call[t][2] = s
WritersAt(s) ==
  /\ Len(sock[s].write_waiters) <= 1
  /\ \A t \in Nodes(sock[s].write_waiters) :
       /\ Asleep(t) /\ call[t][1] = "write" /\ call[t][2] \in Sock
       /\ sock[call[t][2]].peer = s
AcceptersAt(s) ==
  /\ \A t \in Nodes(sock[s].accept_waiters) : Asleep(t) /\ call[t] = <<"accept", s>>
  /\ Distinct(sock[s].accept_waiters)
Waiters == \A s \in Sock : Live(s) => ReadersAt(s) /\ WritersAt(s) /\ AcceptersAt(s)

(* A backlog holds sockets that are connecting, each in one backlog, once, *)
(* next to the task that sleeps in connect() with it.                      *)
Queued1(l, i) ==
  LET s == sock[l].backlog[i]
      t == sock[l].connect_waiters[i]
  IN  /\ Asleep(t) /\ call[t] = <<"connect", l, s>>
      /\ Stream(s) /\ sock[s].state \in {"CONNECTING", "CLOSED"} /\ sock[s].peer = NULL

Backlogs ==
  \A l \in Sock : Live(l) =>
    /\ Len(sock[l].backlog) = Len(sock[l].connect_waiters)
    /\ sock[l].accept_waiters = <<>> \/ sock[l].backlog = <<>>
    /\ \A i \in DOMAIN sock[l].backlog : Queued1(l, i)
    /\ \A m \in Sock : Live(m) =>
         \A i \in DOMAIN sock[l].backlog, j \in DOMAIN sock[m].backlog :
           sock[l].backlog[i] = sock[m].backlog[j] => l = m /\ i = j

(* The entries of the name table. *)
Named == {s \in Sock : Live(s) /\ sock[s].path # NULL}
Names == BoundTableExact /\ Distinct(bound_sockets)

UInv ==
  /\ Typed /\ OneType /\ HeldLive /\ Sleepers /\ Waiters /\ Backlogs /\ PeersMutual /\ Names
-----------------------------------------------------------------------------
LEMMA UInvInit == SocketInit => UInv
<1> SUFFICES ASSUME SocketInit PROVE UInv
  OBVIOUS
<1>1. Typed
  BY DEF SocketInit, Typed
<1>2. Names
  BY DEF SocketInit, Names, BoundTableExact, Distinct, Nodes
<1> QED
  BY <1>1, <1>2 DEF SocketInit, UInv, OneType, HeldLive, Sleepers, Waiters, Backlogs,
     PeersMutual, Live, Asleep
-----------------------------------------------------------------------------
(* Sequences of waiters. *)
LEMMA LeastOf ==
  ASSUME NEW S, S \subseteq Nat, S # {}
  PROVE  \E n \in S : \A m \in S : n <= m
<1>1. PICK x \in S : \A y \in S : ~(<<y, x>> \in OpToRel(<, Nat))
  BY NatLessThanWellFounded, WFMin
<1>2. \A y \in S : x <= y
  <2> TAKE y \in S
  <2>1. ~(<<y, x>> \in OpToRel(<, Nat)) /\ <<y, x>> \in Nat \X Nat
    BY <1>1
  <2>2. ~(y < x)
    BY <2>1, ZenonT(20) DEF OpToRel
  <2> QED
    BY <2>2
<1> QED
  BY <1>2

LEMMA LowestIn ==
  ASSUME NEW S, S \subseteq Nat, S # {}
  PROVE  Lowest(S) \in S
BY LeastOf DEF Lowest

LEMMA Single ==
  ASSUME NEW T, NEW q \in Seq(T), Len(q) <= 1, q # <<>>
  PROVE  DOMAIN q = {1} /\ Tail(q) = <<>> /\ Head(q) = q[1] /\ q[1] \in T
<1>1. Len(q) = 1 /\ DOMAIN q = 1 .. Len(q) /\ q[1] \in T
  <2>1. Len(q) # 0 /\ Len(q) \in Nat
    BY EmptySeq
  <2>2. Len(q) = 1
    BY <2>1
  <2> QED
    BY <2>2
<1>2. Tail(q) \in Seq(T) /\ Len(Tail(q)) = 0
  BY <1>1, HeadTailProperties
<1>3. Tail(q) = <<>>
  BY <1>2
<1> QED
  BY <1>1, <1>3

LEMMA NoNodes == Nodes(<<>>) = {} /\ \A S, s : S[s].read_waiters = <<>> => Readers(S, s) = {}
BY DEF Nodes, Readers

(* Of at most one node the first is all. *)
LEMMA OneNode ==
  ASSUME NEW T, NEW q \in Seq(T), Len(q) <= 1
  PROVE  Rest(q) = <<>> /\ FirstOf(q) = Nodes(q)
<1>1. CASE q = <<>>
  BY <1>1, NoNodes DEF Rest, FirstOf
<1>2. CASE q # <<>>
  BY <1>2, Single DEF Rest, FirstOf, Nodes
<1> QED
  BY <1>1, <1>2

LEMMA OneReader ==
  ASSUME NEW S, NEW s, S[s].read_waiters \in Seq(Waiter), Len(S[s].read_waiters) <= 1
  PROVE  LET q == S[s].read_waiters
         IN  Rest(q) = <<>> /\ Readers(S, s) = IF q = <<>> THEN {} ELSE {Head(q).task}
<1> DEFINE q == S[s].read_waiters
<1>1. CASE q = <<>>
  BY <1>1, NoNodes DEF Rest
<1>2. CASE q # <<>>
  <2>1. DOMAIN q = {1} /\ Tail(q) = <<>> /\ Head(q) = q[1]
    BY <1>2, Single
  <2> QED
    BY <1>2, <2>1 DEF Rest, Readers
<1> QED
  BY <1>1, <1>2

LEMMA Appended ==
  ASSUME NEW T, NEW q \in Seq(T), NEW x \in T
  PROVE  /\ Append(q, x) \in Seq(T) /\ Len(Append(q, x)) = Len(q) + 1
         /\ Append(q, x) # <<>>
         /\ DOMAIN q = 1 .. Len(q) /\ DOMAIN Append(q, x) = 1 .. Len(q) + 1
         /\ Append(q, x)[Len(q) + 1] = x /\ \A i \in DOMAIN q : Append(q, x)[i] = q[i]
         /\ Nodes(Append(q, x)) = Nodes(q) \cup {x}
<1>1. /\ Append(q, x) \in Seq(T) /\ Len(Append(q, x)) = Len(q) + 1 /\ Len(q) \in Nat
      /\ DOMAIN q = 1 .. Len(q) /\ DOMAIN Append(q, x) = 1 .. Len(q) + 1
      /\ Append(q, x)[Len(q) + 1] = x /\ \A i \in 1 .. Len(q) : Append(q, x)[i] = q[i]
  OBVIOUS
<1>2. Nodes(Append(q, x)) = Nodes(q) \cup {x}
  <2>1. \A y \in Nodes(Append(q, x)) : y \in Nodes(q) \cup {x}
    BY <1>1 DEF Nodes
  <2>2. \A y \in Nodes(q) : y \in Nodes(Append(q, x))
    BY <1>1 DEF Nodes
  <2>3. x \in Nodes(Append(q, x))
    BY <1>1 DEF Nodes
  <2> QED
    BY <2>1, <2>2, <2>3
<1> QED
  BY <1>1, <1>2
-----------------------------------------------------------------------------
LEMMA Wakes ==
  ASSUME Typed, NEW W, task_unblock(W)
  PROVE  /\ state' \in [Task -> {"UNUSED", "READY", "BLOCKED"}] /\ DOMAIN call' = Task
         /\ \A u \in Task : state'[u] = "BLOCKED" <=> Asleep(u) /\ u \notin W
         /\ \A u \in Task : state'[u] = "BLOCKED" => call'[u] = call[u]
BY DEF Typed, task_unblock, Asleep

LEMMA Record ==
  ASSUME Typed, NEW s \in Sock, Live(s)
  PROVE  /\ sock[s] \in UnixSock
         /\ sock[s].read_waiters \in Seq(Waiter) /\ sock[s].write_waiters \in Seq(Task)
         /\ sock[s].accept_waiters \in Seq(Task) /\ sock[s].connect_waiters \in Seq(Task)
         /\ sock[s].backlog \in Seq(Sock) /\ sock[s].peer \in Sock \cup {NULL}
         /\ sock[s].data_len \in 0 .. BufSize /\ sock[s].path \in Path \cup {NULL}
         /\ sock[s].type \in {"STREAM", "DGRAM"}
BY DEF Typed, Live, UnixSock

LEMMA NodesIn ==
  ASSUME NEW T, NEW q \in Seq(T)
  PROVE  Nodes(q) \subseteq T /\ \A i \in DOMAIN q : q[i] \in T
BY DEF Nodes

LEMMA NodeTypes ==
  ASSUME Typed, NEW s \in Sock, Live(s)
  PROVE  /\ Readers(sock, s) \subseteq Task /\ Nodes(sock[s].write_waiters) \subseteq Task
         /\ Nodes(sock[s].accept_waiters) \subseteq Task
         /\ \A i \in DOMAIN sock[s].backlog : sock[s].backlog[i] \in Sock
<1>1. /\ sock[s].read_waiters \in Seq(Waiter) /\ sock[s].write_waiters \in Seq(Task)
      /\ sock[s].accept_waiters \in Seq(Task) /\ sock[s].backlog \in Seq(Sock)
  BY Record
<1>2. /\ Nodes(sock[s].write_waiters) \subseteq Task /\ Nodes(sock[s].accept_waiters) \subseteq Task
      /\ \A i \in DOMAIN sock[s].backlog : sock[s].backlog[i] \in Sock
  <2>1. Nodes(sock[s].write_waiters) \subseteq Task
    BY <1>1, NodesIn
  <2>2. Nodes(sock[s].accept_waiters) \subseteq Task
    BY <1>1, NodesIn
  <2>3. \A i \in DOMAIN sock[s].backlog : sock[s].backlog[i] \in Sock
    BY <1>1, NodesIn
  <2> QED
    BY <2>1, <2>2, <2>3
<1>3. \A i \in DOMAIN sock[s].read_waiters : sock[s].read_waiters[i].task \in Task
  <2>1. \A i \in DOMAIN sock[s].read_waiters : sock[s].read_waiters[i] \in Waiter
    BY <1>1, NodesIn
  <2> QED
    BY <2>1 DEF Waiter
<1> QED
  BY <1>2, <1>3 DEF Readers

LEMMA UInvFacts ==
  ASSUME UInv
  PROVE  /\ Typed /\ OneType /\ HeldLive /\ Sleepers /\ Waiters /\ Backlogs /\ PeersMutual
         /\ Names
BY DEF UInv

(* A task sleeps in one place. *)
LEMMA Apart ==
  ASSUME UInv, NEW r \in Sock, Live(r), NEW s \in Sock, Live(s), NEW u
  PROVE  /\ u \in Readers(sock, r) /\ u \in Readers(sock, s) => r = s
         /\ u \in Nodes(sock[r].write_waiters) /\ u \in Nodes(sock[s].write_waiters) => r = s
         /\ u \in Nodes(sock[r].accept_waiters) /\ u \in Nodes(sock[s].accept_waiters) => r = s
         /\ u \in Readers(sock, r) => u \notin Nodes(sock[s].write_waiters)
         /\ u \in Readers(sock, r) \cup Nodes(sock[r].write_waiters) =>
              /\ u \notin Nodes(sock[s].accept_waiters)
              /\ \A i \in DOMAIN sock[s].backlog : u # sock[s].connect_waiters[i]
         /\ u \in Nodes(sock[r].accept_waiters) =>
              \A i \in DOMAIN sock[s].backlog : u # sock[s].connect_waiters[i]
<1>1. \A q \in {r, s} :
        /\ u \in Readers(sock, q) => call[u][1] = "read" /\ call[u][2] = q
        /\ u \in Nodes(sock[q].write_waiters) =>
             call[u][1] = "write" /\ sock[call[u][2]].peer = q
        /\ u \in Nodes(sock[q].accept_waiters) => call[u] = <<"accept", q>>
  BY DEF UInv, Waiters, ReadersAt, WritersAt, AcceptersAt
<1>2. \A q \in {r, s} : u \in Nodes(sock[q].accept_waiters) =>
        call[u][1] = "accept" /\ call[u][2] = q
  BY <1>1
<1>3. \A i \in DOMAIN sock[s].backlog :
        call[sock[s].connect_waiters[i]] = <<"connect", s, sock[s].backlog[i]>>
  BY DEF UInv, Backlogs, Queued1
<1>4. ASSUME NEW i \in DOMAIN sock[s].backlog, u = sock[s].connect_waiters[i]
      PROVE  call[u][1] = "connect"
  <2>1. call[u] = <<"connect", s, sock[s].backlog[i]>>
    BY <1>3, <1>4
  <2> QED
    BY <2>1
<1> QED
  BY <1>1, <1>2, <1>4
-----------------------------------------------------------------------------
(* What a step leaves to those who sleep on: the tasks in W are the ones   *)
(* that it wakes or ends.                                                  *)
StayAsleep(W) ==
  \A u \in Task : Asleep(u) /\ u \notin W =>
    /\ state'[u] = "BLOCKED" /\ call'[u] = call[u] /\ held[u] \subseteq held'[u]
    /\ \A s \in held[u] : sock'[s] # NULL

Kept(s) ==
  /\ sock'[s].type = sock[s].type
  /\ Stream(s) /\ sock[s].peer # NULL /\ sock'[sock[s].peer] # NULL =>
       sock'[s].peer = sock[s].peer

(* The next list of waiters: the same, or empty and its tasks are in W. *)
ReadersKept(s, W) ==
  \/ sock'[s].read_waiters = sock[s].read_waiters /\ Readers(sock, s) \cap W = {}
  \/ sock'[s].read_waiters = <<>> /\ Readers(sock, s) \subseteq W
WritersKept(s, W) ==
  \/ sock'[s].write_waiters = sock[s].write_waiters /\ Nodes(sock[s].write_waiters) \cap W = {}
  \/ sock'[s].write_waiters = <<>> /\ Nodes(sock[s].write_waiters) \subseteq W
AcceptersKept(s, W) ==
  /\ sock'[s].accept_waiters = sock[s].accept_waiters
  /\ Nodes(sock[s].accept_waiters) \cap W = {}

(* A sleeper's node stays, and at a stream what it relies on. *)
ReadersStay(s, W) ==
  \A u \in Readers(sock, s) \ W :
    /\ sock'[s] # NULL /\ u \in Readers(sock', s)
    /\ Stream(s) => /\ sock'[s].data_len = sock[s].data_len
                    /\ PeerOpen(s) => /\ sock'[sock[s].peer] # NULL
                                      /\ sock'[sock[s].peer].state # "CLOSED"
WritersStay(s, W) ==
  \A u \in Nodes(sock[s].write_waiters) \ W :
    /\ sock'[s] # NULL /\ u \in Nodes(sock'[s].write_waiters)
    /\ Stream(s) => /\ sock'[s].data_len = sock[s].data_len
                    /\ sock[s].state # "CLOSED" => sock'[s].state # "CLOSED"

SameLive == \A s \in Sock : sock'[s] = NULL <=> sock[s] = NULL

LEMMA ReadersAtStep ==
  ASSUME UInv, NEW W, StayAsleep(W), NEW s \in Sock, Live(s), ReadersKept(s, W)
  PROVE  ReadersAt(s)'
<1>1. ReadersAt(s) /\ Readers(sock, s) \subseteq Task
  BY NodeTypes, UInvFacts DEF Waiters
<1>2. \A t \in Readers(sock', s) : t \in Readers(sock, s) /\ t \notin W
  BY NoNodes DEF ReadersKept, Readers
<1>3. Len(sock'[s].read_waiters) <= 1
  BY <1>1 DEF ReadersKept, ReadersAt
<1> QED
  BY <1>1, <1>2, <1>3 DEF ReadersAt, StayAsleep, Asleep

LEMMA WriterFacts ==
  ASSUME UInv, NEW s \in Sock, Live(s), NEW t \in Nodes(sock[s].write_waiters)
  PROVE  /\ t \in Task /\ Asleep(t) /\ call[t][1] = "write"
         /\ call[t][2] \in held[t] /\ call[t][2] \in Sock /\ Live(call[t][2])
         /\ Stream(call[t][2]) /\ sock[call[t][2]].peer = s
         /\ sock[s].data_len = BufSize /\ sock[s].state # "CLOSED"
<1>1. /\ t \in Task /\ Asleep(t) /\ call[t][1] = "write" /\ sock[call[t][2]].peer = s
  BY NodeTypes, UInvFacts DEF Waiters, WritersAt
<1>2. PICK r \in held[t] : WritesTo(t, r)
  BY <1>1, UInvFacts DEF Sleepers, SleeperAt, ReadsAt, AcceptsAt, ConnectsTo
<1>3. r = call[t][2] /\ r \in Sock /\ Live(r)
  BY <1>1, <1>2, UInvFacts DEF WritesTo, HeldLive, Typed
<1> QED
  BY <1>1, <1>2, <1>3 DEF WritesTo, PeerOpen

LEMMA ReaderFacts ==
  ASSUME UInv, NEW s \in Sock, Live(s), NEW t \in Readers(sock, s)
  PROVE  /\ t \in Task /\ Asleep(t) /\ call[t][1] = "read" /\ call[t][2] = s /\ s \in held[t]
         /\ Stream(s) => sock[s].data_len = 0 /\ PeerOpen(s)
<1>1. /\ t \in Task /\ Asleep(t) /\ call[t][1] = "read" /\ call[t][2] = s
  BY NodeTypes, UInvFacts DEF Waiters, ReadersAt
<1>2. PICK r \in held[t] : ReadsAt(t, r)
  BY <1>1, UInvFacts DEF Sleepers, SleeperAt, WritesTo, AcceptsAt, ConnectsTo
<1> QED
  BY <1>1, <1>2 DEF ReadsAt

LEMMA WritersAtStep ==
  ASSUME UInv, NEW W, StayAsleep(W), NEW s \in Sock, Live(s), sock'[s] # NULL,
         WritersKept(s, W), \A r \in Sock : Live(r) /\ sock'[r] # NULL => Kept(r)
  PROVE  WritersAt(s)'
<1>1. WritersAt(s)
  BY UInvFacts DEF Waiters
<1>2. Len(sock'[s].write_waiters) <= 1
  BY <1>1 DEF WritersKept, WritersAt
<1>3. ASSUME NEW t \in Nodes(sock'[s].write_waiters)
      PROVE  /\ state'[t] = "BLOCKED" /\ call'[t][1] = "write" /\ call'[t][2] \in Sock
             /\ sock'[call'[t][2]].peer = s
  <2>1. t \in Nodes(sock[s].write_waiters) /\ t \notin W
    BY <1>3, NoNodes DEF WritersKept
  <2>2. PICK r \in Sock : /\ t \in Task /\ Asleep(t) /\ call[t][1] = "write" /\ call[t][2] = r
                          /\ r \in held[t] /\ Live(r) /\ Stream(r) /\ sock[r].peer = s
    BY <2>1, WriterFacts
  <2>3. state'[t] = "BLOCKED" /\ call'[t] = call[t] /\ sock'[r] # NULL
    BY <2>1, <2>2 DEF StayAsleep
  <2>4. sock'[r].peer = s
    <3>1. s # NULL
      BY SocketAssumption
    <3> QED
      BY <2>2, <2>3, <3>1 DEF Kept
  <2> QED
    BY <2>2, <2>3, <2>4
<1> QED
  BY <1>2, <1>3 DEF WritersAt, Asleep

LEMMA AcceptersAtStep ==
  ASSUME UInv, NEW W, StayAsleep(W), NEW s \in Sock, Live(s), AcceptersKept(s, W)
  PROVE  AcceptersAt(s)'
<1>1. AcceptersAt(s) /\ Nodes(sock[s].accept_waiters) \subseteq Task
  BY NodeTypes, UInvFacts DEF Waiters
<1>2. \A t \in Nodes(sock'[s].accept_waiters) : t \in Nodes(sock[s].accept_waiters) /\ t \notin W
  BY DEF AcceptersKept
<1>3. Distinct(sock'[s].accept_waiters)
  BY <1>1 DEF AcceptersKept, AcceptersAt
<1> QED
  BY <1>1, <1>2, <1>3 DEF AcceptersAt, StayAsleep, Asleep, Distinct

LEMMA SleeperAtStep ==
  ASSUME UInv, NEW W, StayAsleep(W), NEW t \in Task, Asleep(t), t \notin W,
         \A s \in Sock : Live(s) => ReadersStay(s, W) /\ WritersStay(s, W),
         \A s \in Sock : Live(s) /\ sock'[s] # NULL => Kept(s)
  PROVE  SleeperAt(t)'
<1>1. call'[t] = call[t] /\ held[t] \subseteq held'[t]
  BY DEF StayAsleep
<1>2. PICK s \in held[t] : ReadsAt(t, s) \/ WritesTo(t, s) \/ AcceptsAt(t, s) \/ ConnectsTo(t, s)
  BY UInvFacts DEF Sleepers, SleeperAt
<1>3. s \in Sock /\ Live(s) /\ sock'[s] # NULL /\ Kept(s) /\ ReadersStay(s, W) /\ s \in held'[t]
  BY <1>1, UInvFacts DEF Typed, HeldLive, StayAsleep
<1>4. CASE ReadsAt(t, s)
  <2>1. t \in Readers(sock, s)
    BY <1>4 DEF ReadsAt
  <2>2. ASSUME sock'[s].type = "STREAM"
        PROVE  sock'[s].data_len = 0 /\ PeerOpen(s)'
    <3>1. Stream(s) /\ sock[s].data_len = 0 /\ PeerOpen(s)
      BY <1>3, <1>4, <2>2 DEF Kept, Stream, ReadsAt
    <3> QED
      BY <1>3, <2>1, <3>1 DEF ReadersStay, Kept, PeerOpen
  <2>3. ReadsAt(t, s)'
    BY <1>1, <1>3, <1>4, <2>1, <2>2 DEF ReadsAt, Stream, ReadersStay
  <2> QED
    BY <1>3, <2>3 DEF SleeperAt
<1>5. CASE WritesTo(t, s)
  <2>1. PICK p \in Sock : /\ p = sock[s].peer /\ Stream(s) /\ p # NULL /\ sock[p].state # "CLOSED"
                          /\ sock[p].data_len = BufSize /\ t \in Nodes(sock[p].write_waiters)
    BY <1>3, <1>5, Record, UInvFacts DEF WritesTo, PeerOpen
  <2>2. Live(p) /\ Stream(p)
    BY <1>3, <2>1, UInvFacts DEF PeersMutual, OneType, Live, Stream
  <2>3. /\ sock'[p] # NULL /\ t \in Nodes(sock'[p].write_waiters)
        /\ sock'[p].data_len = BufSize /\ sock'[p].state # "CLOSED"
    BY <2>1, <2>2 DEF WritersStay
  <2>4. sock'[s].peer = p /\ sock'[s].type = "STREAM"
    BY <1>3, <2>1, <2>3 DEF Kept, Stream
  <2>5. WritesTo(t, s)'
    BY <1>1, <1>5, <2>1, <2>3, <2>4 DEF WritesTo, PeerOpen, Stream
  <2> QED
    BY <1>3, <2>5 DEF SleeperAt
<1>6. CASE AcceptsAt(t, s) \/ ConnectsTo(t, s)
  <2>1. AcceptsAt(t, s)' \/ ConnectsTo(t, s)'
    BY <1>1, <1>6 DEF AcceptsAt, ConnectsTo
  <2> QED
    BY <1>3, <2>1 DEF SleeperAt
<1> QED
  BY <1>2, <1>4, <1>5, <1>6

(* A socket in a backlog, when its connector sleeps on. *)
QueueKept(s) ==
  /\ sock'[s].type = sock[s].type
  /\ Stream(s) /\ sock[s].state \in {"CONNECTING", "CLOSED"} /\ sock[s].peer = NULL =>
       sock'[s].state \in {"CONNECTING", "CLOSED"} /\ sock'[s].peer = NULL

LEMMA QueuedFacts ==
  ASSUME UInv, NEW l \in Sock, Live(l), NEW i \in DOMAIN sock[l].backlog
  PROVE  LET s == sock[l].backlog[i]
             t == sock[l].connect_waiters[i]
         IN  /\ i \in DOMAIN sock[l].connect_waiters
             /\ t \in Task /\ Asleep(t) /\ call[t] = <<"connect", l, s>>
             /\ s \in Sock /\ s \in held[t] /\ Live(s) /\ Stream(s)
             /\ sock[s].state \in {"CONNECTING", "CLOSED"} /\ sock[s].peer = NULL
<1> DEFINE s == sock[l].backlog[i]
           t == sock[l].connect_waiters[i]
<1>1. /\ Asleep(t) /\ call[t] = <<"connect", l, s>> /\ Stream(s)
      /\ sock[s].state \in {"CONNECTING", "CLOSED"} /\ sock[s].peer = NULL
  BY UInvFacts DEF Backlogs, Queued1
<1>2. DOMAIN sock[l].backlog = DOMAIN sock[l].connect_waiters /\ s \in Sock
  BY Record, NodeTypes, UInvFacts DEF Backlogs
<1>3. t \in Task
  BY <1>2, Record, NodesIn, UInvFacts
<1>4. call[t][1] = "connect" /\ call[t][3] = s
  BY <1>1
<1>5. s \in held[t] /\ Live(s)
  BY <1>1, <1>3, <1>4, UInvFacts
     DEF Sleepers, SleeperAt, ReadsAt, WritesTo, AcceptsAt, ConnectsTo, HeldLive
<1> QED
  BY <1>1, <1>2, <1>3, <1>5

LEMMA StillQueued ==
  ASSUME UInv, NEW W, StayAsleep(W), NEW l \in Sock, Live(l), NEW i \in DOMAIN sock[l].backlog,
         sock[l].connect_waiters[i] \notin W, QueueKept(sock[l].backlog[i])
  PROVE  LET s == sock[l].backlog[i]
             t == sock[l].connect_waiters[i]
         IN  /\ state'[t] = "BLOCKED" /\ call'[t] = <<"connect", l, s>>
             /\ sock'[s].type = "STREAM" /\ sock'[s].state \in {"CONNECTING", "CLOSED"}
             /\ sock'[s].peer = NULL
<1> DEFINE s == sock[l].backlog[i]
           t == sock[l].connect_waiters[i]
<1>1. /\ t \in Task /\ Asleep(t) /\ call[t] = <<"connect", l, s>>
      /\ s \in held[t] /\ Stream(s)
      /\ sock[s].state \in {"CONNECTING", "CLOSED"} /\ sock[s].peer = NULL
      /\ t \notin W /\ QueueKept(s)
  BY QueuedFacts
<1> HIDE DEF s, t
<1>2. /\ state'[t] = "BLOCKED" /\ call'[t] = <<"connect", l, s>>
      /\ sock'[s].type = "STREAM" /\ sock'[s].state \in {"CONNECTING", "CLOSED"}
      /\ sock'[s].peer = NULL
  BY <1>1 DEF QueueKept, Stream, StayAsleep
<1> QED
  BY <1>2 DEF s, t

(* The backlog of l and its waiters are as they were. *)
QueuesKept(l, W) ==
  /\ sock'[l].backlog = sock[l].backlog /\ sock'[l].connect_waiters = sock[l].connect_waiters
  /\ \A i \in DOMAIN sock[l].backlog :
       sock[l].connect_waiters[i] \notin W /\ QueueKept(sock[l].backlog[i])

LEMMA QueuedStep ==
  ASSUME UInv, NEW W, StayAsleep(W), NEW l \in Sock, Live(l), QueuesKept(l, W)
  PROVE  /\ Len(sock'[l].backlog) = Len(sock'[l].connect_waiters)
         /\ \A i \in DOMAIN sock'[l].backlog : Queued1(l, i)'
<1>1. Len(sock'[l].backlog) = Len(sock'[l].connect_waiters)
  BY UInvFacts DEF Backlogs, QueuesKept
<1>2. ASSUME NEW i \in DOMAIN sock'[l].backlog
      PROVE  Queued1(l, i)'
  <2> DEFINE s == sock'[l].backlog[i]
             t == sock'[l].connect_waiters[i]
  <2>1. /\ i \in DOMAIN sock[l].backlog /\ s = sock[l].backlog[i]
        /\ t = sock[l].connect_waiters[i] /\ sock[l].connect_waiters[i] \notin W
        /\ QueueKept(sock[l].backlog[i])
    BY DEF QueuesKept
  <2>2. /\ state'[t] = "BLOCKED" /\ call'[t] = <<"connect", l, s>>
        /\ sock'[s].type = "STREAM" /\ sock'[s].state \in {"CONNECTING", "CLOSED"}
        /\ sock'[s].peer = NULL
    BY <2>1, StillQueued
  <2> QED
    BY <2>2 DEF Queued1, Asleep, Stream
<1> QED
  BY <1>1, <1>2
-----------------------------------------------------------------------------
(* Steps after which the same sockets are live, with the same peers.       *)
PeerKept(s) ==
  sock'[s].type = sock[s].type /\ (Stream(s) => sock'[s].peer = sock[s].peer)

LEMMA SameStructure ==
  ASSUME UInv, SameLive, \A s \in Sock : Live(s) => PeerKept(s)
  PROVE  OneType' /\ PeersMutual'
<1>1. \A s \in Sock : sock'[s] # NULL => Live(s) /\ sock'[s].type = sock[s].type
  BY DEF SameLive, PeerKept, Live
<1>2. OneType'
  BY <1>1, UInvFacts DEF OneType, Live
<1>3. PeersMutual'
  <2> SUFFICES ASSUME NEW s \in Sock, sock'[s] # NULL, sock'[s].type = "STREAM",
                      sock'[s].peer # NULL
               PROVE  sock'[sock'[s].peer] # NULL /\ sock'[sock'[s].peer].peer = s
    BY DEF PeersMutual
  <2>1. Live(s) /\ Stream(s) /\ sock'[s].peer = sock[s].peer
    BY <1>1 DEF PeerKept, Stream
  <2>2. Live(sock[s].peer) /\ sock[sock[s].peer].peer = s /\ sock[s].peer \in Sock
    BY <2>1, Record, UInvFacts DEF PeersMutual, Live, Stream
  <2>3. Stream(sock[s].peer)
    BY <2>1, <2>2, UInvFacts DEF OneType, Stream
  <2> QED
    BY <2>1, <2>2, <2>3 DEF SameLive, PeerKept, Live
<1> QED
  BY <1>2, <1>3

LEMMA SameHeld ==
  ASSUME UInv, SameLive, \A t \in Task : \E u \in Task : held'[t] \subseteq held[u]
  PROVE  HeldLive'
<1>1. \A t \in Task : held[t] \subseteq Sock
  BY UInvFacts DEF Typed
<1> QED
  BY <1>1, UInvFacts DEF SameLive, HeldLive, Live

LEMMA SameNames ==
  ASSUME UInv, SameLive, bound_sockets' = bound_sockets,
         \A s \in Sock : Live(s) => sock'[s].path = sock[s].path
  PROVE  Names'
<1>1. \A i \in DOMAIN bound_sockets : bound_sockets[i] \in Sock /\ Live(bound_sockets[i])
  BY UInvFacts DEF Names, BoundTableExact, Nodes, Live
<1>2. {s \in Sock : sock'[s] # NULL /\ sock'[s].path # NULL} =
        {s \in Sock : sock[s] # NULL /\ sock[s].path # NULL}
  BY DEF SameLive, Live
<1> QED
  BY <1>1, <1>2, UInvFacts DEF Names, BoundTableExact, Distinct

LEMMA SameBacklogs ==
  ASSUME UInv, SameLive, NEW W, StayAsleep(W),
         \A l \in Sock : Live(l) =>
           /\ QueuesKept(l, W)
           /\ sock'[l].accept_waiters = sock[l].accept_waiters \/ sock[l].backlog = <<>>
  PROVE  Backlogs'
<1>1. \A s \in Sock : sock'[s] # NULL => Live(s) /\ sock'[s].backlog = sock[s].backlog
  BY DEF SameLive, QueuesKept, Live
<1>2. ASSUME NEW l \in Sock, sock'[l] # NULL
      PROVE  /\ Len(sock'[l].backlog) = Len(sock'[l].connect_waiters)
             /\ \A i \in DOMAIN sock'[l].backlog : Queued1(l, i)'
  BY <1>1, <1>2, QueuedStep
<1>3. ASSUME NEW l \in Sock, sock'[l] # NULL
      PROVE  /\ sock'[l].accept_waiters = <<>> \/ sock'[l].backlog = <<>>
             /\ \A m \in Sock : sock'[m] # NULL =>
                  \A i \in DOMAIN sock'[l].backlog, j \in DOMAIN sock'[m].backlog :
                    sock'[l].backlog[i] = sock'[m].backlog[j] => l = m /\ i = j
  BY <1>1, <1>3, UInvFacts DEF Backlogs
<1> QED
  BY <1>2, <1>3 DEF Backlogs, Live

LEMMA SleepersStep ==
  ASSUME UInv, NEW W, StayAsleep(W),
         \A s \in Sock : Live(s) => ReadersStay(s, W) /\ WritersStay(s, W),
         \A s \in Sock : Live(s) /\ sock'[s] # NULL => Kept(s),
         \A u \in Task : state'[u] = "BLOCKED" => SleeperAt(u)' \/ (Asleep(u) /\ u \notin W)
  PROVE  Sleepers'
<1>1. ASSUME NEW t \in Task, state'[t] = "BLOCKED" PROVE SleeperAt(t)'
  BY <1>1, SleeperAtStep
<1> QED
  BY <1>1 DEF Sleepers, Asleep

Quiet(W) ==
  /\ SameLive /\ StayAsleep(W)
  /\ \A u \in Task : state'[u] = "BLOCKED" => Asleep(u) /\ u \notin W
  /\ \A s \in Sock : Live(s) =>
       /\ PeerKept(s) /\ QueuesKept(s, W)
       /\ ReadersKept(s, W) /\ WritersKept(s, W) /\ AcceptersKept(s, W)
       /\ ReadersStay(s, W) /\ WritersStay(s, W)

LEMMA QuietStep ==
  ASSUME UInv, NEW W, Quiet(W), Typed', Names', HeldLive'
  PROVE  UInv'
<1>1. OneType' /\ PeersMutual'
  BY SameStructure DEF Quiet
<1>2. \A s \in Sock : sock'[s] # NULL => Live(s)
  BY DEF Quiet, SameLive, Live
<1>3. \A s \in Sock : Live(s) => Kept(s)
  BY DEF Quiet, PeerKept, Kept
<1>4. Waiters'
  <2>1. ASSUME NEW s \in Sock, sock'[s] # NULL
        PROVE  ReadersAt(s)' /\ WritersAt(s)' /\ AcceptersAt(s)'
    <3>1. /\ Live(s) /\ StayAsleep(W) /\ ReadersKept(s, W) /\ WritersKept(s, W)
          /\ AcceptersKept(s, W)
      BY <1>2, <2>1 DEF Quiet
    <3> QED
      BY <1>3, <2>1, <3>1, ReadersAtStep, WritersAtStep, AcceptersAtStep
  <2> QED
    BY <2>1 DEF Waiters, Live
<1>5. Backlogs'
  <2>1. \A l \in Sock : Live(l) =>
           /\ QueuesKept(l, W)
           /\ sock'[l].accept_waiters = sock[l].accept_waiters \/ sock[l].backlog = <<>>
    BY DEF Quiet, AcceptersKept
  <2> QED
    BY <2>1, SameBacklogs DEF Quiet
<1>6. Sleepers'
  BY <1>3, SleepersStep DEF Quiet
<1> QED
  BY <1>1, <1>4, <1>5, <1>6 DEF UInv
-----------------------------------------------------------------------------
LEMMA WakeFrame ==
  ASSUME UInv, SameLive, NEW W, task_unblock(W), held' = held,
         sock' \in [Sock -> UnixSock \cup {NULL}], bound_sockets' \in Seq(Sock)
  PROVE  /\ StayAsleep(W) /\ Typed' /\ HeldLive'
         /\ \A u \in Task : state'[u] = "BLOCKED" => Asleep(u) /\ u \notin W
<1>1. Typed /\ HeldLive /\ held \in [Task -> SUBSET Sock]
  BY UInvFacts DEF Typed
<1>2. /\ state' \in [Task -> {"UNUSED", "READY", "BLOCKED"}] /\ DOMAIN call' = Task
      /\ \A u \in Task : state'[u] = "BLOCKED" <=> Asleep(u) /\ u \notin W
      /\ \A u \in Task : state'[u] = "BLOCKED" => call'[u] = call[u]
  BY <1>1, Wakes
<1>3. HeldLive'
  BY SameHeld
<1> QED
  BY <1>1, <1>2, <1>3 DEF StayAsleep, Typed, HeldLive, Live

LEMMA StillFrame ==
  ASSUME UInv, SameLive, state' = state, call' = call, held' = held,
         sock' \in [Sock -> UnixSock \cup {NULL}], bound_sockets' \in Seq(Sock)
  PROVE  /\ StayAsleep({}) /\ Typed' /\ HeldLive'
         /\ \A u \in Task : state'[u] = "BLOCKED" => Asleep(u) /\ u \notin {}
<1>1. HeldLive'
  BY SameHeld
<1> QED
  BY <1>1, UInvFacts DEF StayAsleep, Typed, HeldLive, Live, Asleep

(* Waking the readers of R and the writers of Q wakes nobody else. *)
WokenAt(W, R, Q) ==
  /\ \A r \in R \cup Q : r \in Sock /\ Live(r)
  /\ \A u \in W : \/ \E r \in R : u \in Readers(sock, r)
                  \/ \E r \in Q : u \in Nodes(sock[r].write_waiters)

LEMMA WokenApart ==
  ASSUME UInv, NEW W, NEW R, NEW Q, WokenAt(W, R, Q), NEW s \in Sock, Live(s)
  PROVE  /\ s \notin R => Readers(sock, s) \cap W = {}
         /\ s \notin Q => Nodes(sock[s].write_waiters) \cap W = {}
         /\ Nodes(sock[s].accept_waiters) \cap W = {}
         /\ \A i \in DOMAIN sock[s].backlog : sock[s].connect_waiters[i] \notin W
<1>1. ASSUME NEW u \in W
      PROVE  /\ s \notin R => u \notin Readers(sock, s)
             /\ s \notin Q => u \notin Nodes(sock[s].write_waiters)
             /\ u \notin Nodes(sock[s].accept_waiters)
             /\ \A i \in DOMAIN sock[s].backlog : u # sock[s].connect_waiters[i]
  <2>1. PICK r \in Sock : /\ Live(r)
                          /\ \/ r \in R /\ u \in Readers(sock, r)
                             \/ r \in Q /\ u \in Nodes(sock[r].write_waiters)
    BY <1>1 DEF WokenAt
  <2>2. CASE r \in R /\ u \in Readers(sock, r)
    BY <2>1, <2>2, Apart
  <2>3. CASE r \in Q /\ u \in Nodes(sock[r].write_waiters)
    BY <2>1, <2>3, Apart
  <2> QED
    BY <2>1, <2>2, <2>3
<1> QED
  BY <1>1
-----------------------------------------------------------------------------
LEMMA OneChanged ==
  ASSUME Typed, NEW s \in Sock, Live(s), NEW c \in UnixSock, sock' = [sock EXCEPT ![s] = c]
  PROVE  /\ sock' \in [Sock -> UnixSock \cup {NULL}] /\ SameLive
         /\ sock'[s] = c /\ \A r \in Sock : r # s => sock'[r] = sock[r]
<1>1. sock \in [Sock -> UnixSock \cup {NULL}] /\ c # NULL
  BY SocketAssumption DEF Typed
<1> QED
  BY <1>1 DEF SameLive, Live

(* Bytes come to p or go from p, and wake a reader or a writer. *)
LEMMA Transfer ==
  ASSUME UInv, NEW p \in Sock, Live(p), NEW c \in UnixSock, NEW W,
         sock' = [sock EXCEPT ![p] = c], task_unblock(W),
         held' = held, bound_sockets' = bound_sockets,
         /\ c.type = sock[p].type /\ c.state = sock[p].state /\ c.path = sock[p].path
         /\ c.peer = sock[p].peer /\ c.backlog = sock[p].backlog
         /\ c.accept_waiters = sock[p].accept_waiters
         /\ c.connect_waiters = sock[p].connect_waiters,
         \/ /\ c.read_waiters = sock[p].read_waiters /\ c.write_waiters = <<>>
            /\ W = Nodes(sock[p].write_waiters)
            /\ Stream(p) => sock[p].read_waiters = <<>>
         \/ /\ c.write_waiters = sock[p].write_waiters /\ c.read_waiters = <<>>
            /\ W = Readers(sock, p)
            /\ Stream(p) => sock[p].write_waiters = <<>>
  PROVE  UInv'
<1>1. /\ sock' \in [Sock -> UnixSock \cup {NULL}] /\ SameLive
      /\ sock'[p] = c /\ \A r \in Sock : r # p => sock'[r] = sock[r]
  BY OneChanged, UInvFacts
<1>2. bound_sockets' \in Seq(Sock)
  BY UInvFacts DEF Typed
<1>3. /\ StayAsleep(W) /\ Typed' /\ HeldLive'
      /\ \A u \in Task : state'[u] = "BLOCKED" => Asleep(u) /\ u \notin W
  BY <1>1, <1>2, WakeFrame
<1>4. Names'
  BY <1>1, SameNames
<1>5. ASSUME NEW s \in Sock, Live(s)
      PROVE  /\ Nodes(sock[s].accept_waiters) \cap W = {}
             /\ \A i \in DOMAIN sock[s].backlog : sock[s].connect_waiters[i] \notin W
             /\ s # p => /\ Readers(sock, s) \cap W = {}
                         /\ Nodes(sock[s].write_waiters) \cap W = {}
             /\ sock'[p].read_waiters # <<>> => Readers(sock, s) \cap W = {}
             /\ sock'[p].write_waiters # <<>> => Nodes(sock[s].write_waiters) \cap W = {}
  <2>1. CASE W = Nodes(sock[p].write_waiters) /\ c.write_waiters = <<>>
    <3>1. /\ s # p => Nodes(sock[s].write_waiters) \cap W = {}
          /\ Readers(sock, s) \cap W = {} /\ Nodes(sock[s].accept_waiters) \cap W = {}
          /\ \A i \in DOMAIN sock[s].backlog : sock[s].connect_waiters[i] \notin W
      <4>1. WokenAt(W, {}, {p})
        BY <2>1 DEF WokenAt
      <4> QED
        BY <1>5, <4>1, WokenApart
    <3> QED
      BY <1>1, <2>1, <3>1
  <2>2. CASE W = Readers(sock, p) /\ c.read_waiters = <<>>
    <3>1. /\ s # p => Readers(sock, s) \cap W = {}
          /\ Nodes(sock[s].write_waiters) \cap W = {} /\ Nodes(sock[s].accept_waiters) \cap W = {}
          /\ \A i \in DOMAIN sock[s].backlog : sock[s].connect_waiters[i] \notin W
      <4>1. WokenAt(W, {p}, {})
        BY <2>2 DEF WokenAt
      <4> QED
        BY <1>5, <4>1, WokenApart
    <3> QED
      BY <1>1, <2>2, <3>1
  <2> QED
    BY <2>1, <2>2
<1>6. ASSUME NEW s \in Sock, Live(s)
      PROVE  ReadersKept(s, W) /\ WritersKept(s, W) /\ AcceptersKept(s, W)
  <2>1. CASE s # p
    BY <1>1, <1>5, <1>6, <2>1 DEF ReadersKept, WritersKept, AcceptersKept
  <2>2. CASE s = p
    <3>1. AcceptersKept(s, W)
      BY <1>1, <1>5, <1>6, <2>2 DEF AcceptersKept
    <3>2. ReadersKept(s, W)
      <4>1. Readers(sock, s) = {} \/ Readers(sock, s) \cap W = {} \/ Readers(sock, s) \subseteq W
        BY <1>1, <1>5, <1>6, <2>2, NoNodes
      <4>2. sock[s].read_waiters = <<>> => Readers(sock, s) = {}
        BY NoNodes
      <4> QED
        BY <1>1, <1>5, <1>6, <2>2, <4>2 DEF ReadersKept
    <3>3. WritersKept(s, W)
      <4>1. sock[s].write_waiters = <<>> => Nodes(sock[s].write_waiters) = {}
        BY NoNodes
      <4> QED
        BY <1>1, <1>5, <1>6, <2>2, <4>1 DEF WritersKept
    <3> QED
      BY <3>1, <3>2, <3>3
  <2> QED
    BY <2>1, <2>2
<1>7. ASSUME NEW s \in Sock, Live(s)
      PROVE  QueuesKept(s, W) /\ PeerKept(s)
  <2>1. \A r \in Sock : QueueKept(r)
    BY <1>1 DEF QueueKept
  <2>2. \A i \in DOMAIN sock[s].backlog : sock[s].backlog[i] \in Sock
    BY <1>7, NodeTypes, UInvFacts
  <2> QED
    BY <1>1, <1>5, <1>7, <2>1, <2>2 DEF QueuesKept, PeerKept
<1>8. ASSUME NEW s \in Sock, Live(s)
      PROVE  ReadersStay(s, W) /\ WritersStay(s, W)
  <2>1. \A r \in Sock : sock'[r].state = sock[r].state
    BY <1>1
  <2>2. sock'[s] # NULL
    BY <1>1, <1>8 DEF SameLive, Live
  <2>3. ReadersStay(s, W)
    <3> SUFFICES ASSUME NEW u \in Readers(sock, s), u \notin W PROVE
           /\ u \in Readers(sock', s)
           /\ Stream(s) => /\ sock'[s].data_len = sock[s].data_len
                           /\ PeerOpen(s) => /\ sock'[sock[s].peer] # NULL
                                             /\ sock'[sock[s].peer].state # "CLOSED"
      BY <2>2 DEF ReadersStay
    <3>1. sock'[s].read_waiters = sock[s].read_waiters
      BY <1>6, <1>8 DEF ReadersKept
    <3>2. u \in Readers(sock', s)
      BY <3>1 DEF Readers
    <3>3. ASSUME Stream(s) PROVE sock'[s].data_len = sock[s].data_len
      <4>1. s = p => sock[s].read_waiters # <<>>
        BY NoNodes
      <4>2. s # p
        BY <1>1, <3>1, <3>3, <4>1, NoNodes
      <4> QED
        BY <1>1, <4>2
    <3>4. ASSUME Stream(s), PeerOpen(s)
          PROVE  sock'[sock[s].peer] # NULL /\ sock'[sock[s].peer].state # "CLOSED"
      <4>1. sock[s].peer \in Sock /\ Live(sock[s].peer)
        BY <1>8, <3>4, Record, UInvFacts DEF PeerOpen, PeersMutual, Live, Stream
      <4> QED
        BY <1>1, <2>1, <3>4, <4>1 DEF SameLive, Live, PeerOpen
    <3> QED
      BY <3>2, <3>3, <3>4
  <2>4. WritersStay(s, W)
    <3> SUFFICES ASSUME NEW u \in Nodes(sock[s].write_waiters), u \notin W PROVE
           /\ u \in Nodes(sock'[s].write_waiters)
           /\ Stream(s) => sock'[s].data_len = sock[s].data_len
      BY <2>1, <2>2 DEF WritersStay
    <3>1. sock'[s].write_waiters = sock[s].write_waiters
      BY <1>6, <1>8 DEF WritersKept
    <3>2. ASSUME Stream(s) PROVE sock'[s].data_len = sock[s].data_len
      <4>1. sock[s].write_waiters # <<>>
        BY NoNodes
      <4>2. s # p
        BY <1>1, <3>1, <3>2, <4>1, NoNodes
      <4> QED
        BY <1>1, <4>2
    <3> QED
      BY <3>1, <3>2
  <2> QED
    BY <2>3, <2>4
<1>9. Quiet(W)
  BY <1>1, <1>3, <1>6, <1>7, <1>8 DEF Quiet
<1> QED
  BY <1>3, <1>4, <1>9, QuietStep

LEMMA ReadersWait ==
  ASSUME UInv, NEW s \in Sock, Live(s), Stream(s), sock[s].read_waiters # <<>>
  PROVE  sock[s].data_len = 0 /\ PeerOpen(s)
<1>1. sock[s].read_waiters \in Seq(Waiter) /\ Len(sock[s].read_waiters) <= 1
  BY Record, UInvFacts DEF Waiters, ReadersAt
<1>2. PICK t : t \in Readers(sock, s)
  BY <1>1, OneReader
<1> QED
  BY <1>2, ReaderFacts

LEMMA WritersWait ==
  ASSUME UInv, NEW p \in Sock, Live(p), sock[p].write_waiters # <<>>
  PROVE  sock[p].data_len = BufSize
<1>1. sock[p].write_waiters \in Seq(Task) /\ Len(sock[p].write_waiters) <= 1
  BY Record, UInvFacts DEF Waiters, WritersAt
<1>2. sock[p].write_waiters[1] \in Nodes(sock[p].write_waiters)
  BY <1>1, Single DEF Nodes
<1> QED
  BY <1>2, WriterFacts

LEMMA UsesFacts ==
  ASSUME UInv, NEW t \in Task, NEW s \in Sock, Uses(t, s)
  PROVE  Live(s) /\ sock[s] \in UnixSock /\ ~Asleep(t) /\ s \in held[t]
BY Record, UInvFacts DEF Uses, HeldLive, Asleep

LEMMA Amounts ==
  ASSUME NEW a \in Nat, NEW b \in Nat, NEW c \in Nat, b <= c
  PROVE  /\ b - Fewer(a, b) \in 0 .. c
         /\ Fewer(a, c - b) \in Nat /\ b + Fewer(a, c - b) <= c
BY DEF Fewer

(* A record with other bytes and without its readers or writers. *)
LEMMA Emptied ==
  ASSUME NEW c \in UnixSock, NEW d \in 0 .. BufSize
  PROVE  /\ [c EXCEPT !.data_len = d, !.write_waiters = <<>>] \in UnixSock
         /\ [c EXCEPT !.read_waiters = <<>>, !.data_len = d] \in UnixSock
<1> DEFINE w == <<>>
<1>1. w \in Seq(Task) /\ w \in Seq(Waiter)
  OBVIOUS
<1> HIDE DEF w
<1>2. /\ [c EXCEPT !.data_len = d, !.write_waiters = w] \in UnixSock
      /\ [c EXCEPT !.read_waiters = w, !.data_len = d] \in UnixSock
  BY <1>1 DEF UnixSock
<1> QED
  BY <1>2 DEF w

LEMMA ReadDataStep ==
  ASSUME UInv, NEW t \in Task, NEW s \in Sock, NEW n \in 1 .. MaxRequest, ReadData(t, s, n)
  PROVE  UInv'
<1> DEFINE q == sock[s].write_waiters
           c == [sock[s] EXCEPT !.data_len = @ - Fewer(n, @), !.write_waiters = Rest(@)]
<1>1. Live(s) /\ sock[s] \in UnixSock /\ sock[s].data_len > 0
  BY UsesFacts DEF ReadData, Readable
<1>2. /\ sock[s].data_len \in Nat /\ sock[s].data_len <= BufSize /\ n \in Nat /\ BufSize \in Nat
      /\ q \in Seq(Task) /\ Len(q) <= 1
  BY <1>1, Record, UInvFacts, SocketAssumption DEF Waiters, ReadersAt, WritersAt
<1>3. Rest(q) = <<>> /\ FirstOf(q) = Nodes(q)
  BY <1>2, OneNode
<1>4. sock[s].data_len - Fewer(n, sock[s].data_len) \in 0 .. BufSize
  BY <1>2, Amounts
<1>5. c \in UnixSock /\ c = [sock[s] EXCEPT !.data_len = sock[s].data_len - Fewer(n, sock[s].data_len),
                                            !.write_waiters = <<>>]
  BY <1>1, <1>3, <1>4, Emptied
<1>6. sock' = [sock EXCEPT ![s] = c]
  BY DEF ReadData
<1>7. Stream(s) => sock[s].read_waiters = <<>>
  BY <1>1, ReadersWait
<1>8. task_unblock(Nodes(q)) /\ held' = held /\ bound_sockets' = bound_sockets
  BY <1>3 DEF ReadData
<1>9. /\ c.type = sock[s].type /\ c.state = sock[s].state /\ c.path = sock[s].path
      /\ c.peer = sock[s].peer /\ c.backlog = sock[s].backlog
      /\ c.accept_waiters = sock[s].accept_waiters
      /\ c.connect_waiters = sock[s].connect_waiters
      /\ c.read_waiters = sock[s].read_waiters /\ c.write_waiters = <<>>
  BY <1>1, <1>5 DEF UnixSock
<1> HIDE DEF c
<1> QED
  BY <1>1, <1>5, <1>6, <1>7, <1>8, <1>9, Transfer

LEMMA ArriveStep ==
  ASSUME UInv, NEW p \in Sock, Live(p), NEW k \in Nat, sock[p].data_len + k <= BufSize,
         Stream(p) => sock[p].data_len < BufSize,
         Arrive(p, k), held' = held, bound_sockets' = bound_sockets
  PROVE  UInv'
<1> DEFINE q == sock[p].read_waiters
           total == sock[p].data_len + k
           d == IF q = <<>> THEN total ELSE total - Fewer(Head(q).size, total)
           c == [sock[p] EXCEPT !.read_waiters = <<>>, !.data_len = d]
<1>1. /\ sock[p] \in UnixSock /\ q \in Seq(Waiter) /\ Len(q) <= 1
      /\ sock[p].data_len \in Nat /\ BufSize \in Nat
  BY Record, UInvFacts, SocketAssumption DEF Waiters, ReadersAt, WritersAt
<1>2. Rest(q) = <<>> /\ Readers(sock, p) = IF q = <<>> THEN {} ELSE {Head(q).task}
  BY <1>1, OneReader
<1>3. d \in 0 .. BufSize
  <2>1. CASE q = <<>>
    BY <1>1, <2>1
  <2>2. CASE q # <<>>
    <3>1. Head(q) \in Waiter
      BY <1>1, <2>2, Single
    <3>2. Head(q).size \in Nat
      BY <3>1 DEF Waiter
    <3>3. total \in Nat /\ total <= BufSize
      BY <1>1
    <3> HIDE DEF total
    <3>4. total - Fewer(Head(q).size, total) \in 0 .. BufSize
      BY <1>1, <3>2, <3>3, Amounts
    <3> QED
      BY <2>2, <3>4
  <2> QED
    BY <2>1, <2>2
<1>4. task_unblock(Readers(sock, p))
  BY <1>2 DEF Arrive
<1>5. sock' = [sock EXCEPT ![p] = c]
  BY <1>2 DEF Arrive
<1> HIDE DEF d
<1>6. c \in UnixSock
  BY <1>1, <1>3, Emptied
<1>7. /\ c.type = sock[p].type /\ c.state = sock[p].state /\ c.path = sock[p].path
      /\ c.peer = sock[p].peer /\ c.backlog = sock[p].backlog
      /\ c.accept_waiters = sock[p].accept_waiters
      /\ c.connect_waiters = sock[p].connect_waiters
      /\ c.write_waiters = sock[p].write_waiters /\ c.read_waiters = <<>>
  BY <1>1 DEF UnixSock
<1>8. Stream(p) => sock[p].write_waiters = <<>>
  BY <1>1, WritersWait
<1> HIDE DEF c
<1> QED
  BY <1>4, <1>5, <1>6, <1>7, <1>8, Transfer

LEMMA WriteDataStep ==
  ASSUME UInv, NEW t \in Task, NEW s \in Sock, NEW n \in 1 .. MaxRequest, WriteData(t, s, n)
  PROVE  UInv'
<1> DEFINE p == sock[s].peer
           k == Fewer(n, BufSize - sock[p].data_len)
<1>1. /\ Live(s) /\ Stream(s) /\ p # NULL /\ sock[p].data_len < BufSize
      /\ Arrive(p, k) /\ held' = held /\ bound_sockets' = bound_sockets
  BY UsesFacts DEF WriteData, Writable, PeerOpen, Stream
<1>2. p \in Sock /\ Live(p)
  BY <1>1, Record, UInvFacts DEF PeersMutual, Live, Stream
<1>3. sock[p].data_len \in Nat /\ BufSize \in Nat /\ n \in Nat
  BY <1>2, Record, UInvFacts, SocketAssumption
<1>4. sock[p].data_len <= BufSize
  BY <1>1, <1>3
<1>5. k \in Nat /\ sock[p].data_len + k <= BufSize
  BY <1>3, <1>4, Amounts
<1> HIDE DEF p, k
<1> QED
  BY <1>1, <1>2, <1>5, ArriveStep

LEMMA WriteDgramStep ==
  ASSUME UInv, NEW t \in Task, NEW s \in Sock, NEW n \in 1 .. MaxRequest, WriteDgram(t, s, n)
  PROVE  UInv'
<1> DEFINE p == sock[s].peer
<1>1. /\ Live(s) /\ sock[s].type = "DGRAM" /\ p # NULL /\ sock[p] # NULL
      /\ sock[p].data_len + n <= BufSize /\ Arrive(p, n)
      /\ held' = held /\ bound_sockets' = bound_sockets
  BY UsesFacts DEF WriteDgram
<1>2. p \in Sock /\ Live(p) /\ ~Stream(p)
  BY <1>1, Record, UInvFacts DEF OneType, Live, Stream
<1>3. n \in Nat
  BY SocketAssumption
<1> HIDE DEF p
<1> QED
  BY <1>1, <1>2, <1>3, ArriveStep
-----------------------------------------------------------------------------
(* A socket changes, but not its waiters, and nobody is woken. *)
SameWaiting(s, c) ==
  /\ c.type = sock[s].type /\ c.data_len = sock[s].data_len /\ c.backlog = sock[s].backlog
  /\ c.read_waiters = sock[s].read_waiters /\ c.write_waiters = sock[s].write_waiters
  /\ c.accept_waiters = sock[s].accept_waiters /\ c.connect_waiters = sock[s].connect_waiters
  /\ Stream(s) => c.peer = sock[s].peer
  /\ sock[s].state \in {"CONNECTING", "CLOSED"} => sock[s].peer # NULL \/ ~Stream(s)
  /\ c.state # "CLOSED"

LEMMA LocalStep ==
  ASSUME UInv, NEW s \in Sock, Live(s), NEW c \in UnixSock, sock' = [sock EXCEPT ![s] = c],
         SameWaiting(s, c), state' = state, call' = call, held' = held,
         bound_sockets' \in Seq(Sock), Names'
  PROVE  UInv'
<1>1. /\ sock' \in [Sock -> UnixSock \cup {NULL}] /\ SameLive
      /\ sock'[s] = c /\ \A r \in Sock : r # s => sock'[r] = sock[r]
  BY OneChanged, UInvFacts
<1>2. /\ StayAsleep({}) /\ Typed' /\ HeldLive'
      /\ \A u \in Task : state'[u] = "BLOCKED" => Asleep(u) /\ u \notin {}
  BY <1>1, StillFrame
<1>3. ASSUME NEW r \in Sock, Live(r)
      PROVE  PeerKept(r) /\ ReadersKept(r, {}) /\ WritersKept(r, {}) /\ AcceptersKept(r, {})
  BY <1>1, <1>3 DEF SameWaiting, PeerKept, ReadersKept, WritersKept, AcceptersKept
<1>4. ASSUME NEW r \in Sock, Live(r) PROVE QueuesKept(r, {})
  <2>1. \A q \in Sock : QueueKept(q)
    BY <1>1 DEF QueueKept, SameWaiting
  <2>2. \A i \in DOMAIN sock[r].backlog : sock[r].backlog[i] \in Sock
    BY <1>4, NodeTypes, UInvFacts
  <2> QED
    BY <1>1, <2>1, <2>2 DEF QueuesKept, SameWaiting
<1>5. ASSUME NEW r \in Sock, Live(r) PROVE ReadersStay(r, {}) /\ WritersStay(r, {})
  <2>1. /\ sock'[r] # NULL /\ Readers(sock', r) = Readers(sock, r)
        /\ sock'[r].write_waiters = sock[r].write_waiters /\ sock'[r].data_len = sock[r].data_len
    BY <1>1, <1>5 DEF SameLive, Live, SameWaiting, Readers
  <2>2. \A q \in Sock : sock[q].state # "CLOSED" => sock'[q].state # "CLOSED"
    BY <1>1 DEF SameWaiting
  <2>3. Stream(r) /\ PeerOpen(r) => /\ sock'[sock[r].peer] # NULL
                                    /\ sock'[sock[r].peer].state # "CLOSED"
    <3> SUFFICES ASSUME Stream(r), PeerOpen(r)
                 PROVE  sock'[sock[r].peer] # NULL /\ sock'[sock[r].peer].state # "CLOSED"
      OBVIOUS
    <3>1. sock[r].peer \in Sock /\ Live(sock[r].peer)
      BY <1>5, Record, UInvFacts DEF PeerOpen, PeersMutual, Live, Stream
    <3> QED
      BY <1>1, <2>2, <3>1 DEF SameLive, Live, PeerOpen
  <2>4. ReadersStay(r, {})
    BY <2>1, <2>3 DEF ReadersStay
  <2>5. WritersStay(r, {})
    BY <2>1, <2>2 DEF WritersStay
  <2> QED
    BY <2>4, <2>5
<1>6. Quiet({})
  BY <1>1, <1>2, <1>3, <1>4, <1>5 DEF Quiet
<1> QED
  BY <1>2, <1>6, QuietStep

LEMMA ListenStep ==
  ASSUME UInv, Disciplined, NEW t \in Task, NEW s \in Sock, NEW n \in 0 .. BacklogMax,
         sys_listen(t, s, n)
  PROVE  UInv'
<1> DEFINE m == IF n = 0 THEN 1 ELSE Fewer(n, BacklogMax)
           c == [sock[s] EXCEPT !.state = "LISTENING", !.backlog_max = m]
<1>1. /\ Live(s) /\ sock[s] \in UnixSock /\ Stream(s)
      /\ sock[s].state \in {"UNCONNECTED", "BOUND"}
      /\ state' = state /\ call' = call /\ held' = held /\ bound_sockets' = bound_sockets
  BY UsesFacts DEF sys_listen, Fresh, Stream
<1>2. m \in Nat
  BY SocketAssumption DEF Fewer
<1>3. sock' = [sock EXCEPT ![s] = c]
  BY DEF sys_listen
<1> HIDE DEF m
<1>4. c \in UnixSock
  BY <1>1, <1>2 DEF UnixSock
<1>5. SameWaiting(s, c) /\ c.path = sock[s].path
  BY <1>1 DEF SameWaiting, UnixSock
<1> HIDE DEF c
<1>6. SameLive /\ \A r \in Sock : Live(r) => sock'[r].path = sock[r].path
  BY <1>1, <1>3, <1>4, <1>5, OneChanged, UInvFacts
<1>7. Names'
  BY <1>1, <1>6, SameNames
<1>8. bound_sockets' \in Seq(Sock)
  BY <1>1, UInvFacts DEF Typed
<1> QED
  BY <1>1, <1>3, <1>4, <1>5, <1>7, <1>8, LocalStep

(* What a lookup finds is live. *)
LEMMA Found ==
  ASSUME UInv, NEW path \in Path, unix_socket_lookup(path) # NULL
  PROVE  LET l == unix_socket_lookup(path)
         IN  l \in Sock /\ Live(l) /\ sock[l].path = path
<1> DEFINE at == {i \in DOMAIN bound_sockets : sock[bound_sockets[i]].path = path}
<1>1. at # {} /\ unix_socket_lookup(path) = bound_sockets[Lowest(at)]
  BY DEF unix_socket_lookup
<1>2. at \subseteq Nat
  BY UInvFacts DEF Typed
<1>3. Lowest(at) \in at
  BY <1>1, <1>2, LowestIn
<1>4. bound_sockets[Lowest(at)] \in Nodes(bound_sockets)
  BY <1>3 DEF Nodes
<1> QED
  BY <1>1, <1>3, <1>4, UInvFacts DEF Names, BoundTableExact, Live

LEMMA NotFound ==
  ASSUME UInv, NEW path \in Path, unix_socket_lookup(path) = NULL
  PROVE  \A i \in DOMAIN bound_sockets : sock[bound_sockets[i]].path # path
<1> DEFINE at == {i \in DOMAIN bound_sockets : sock[bound_sockets[i]].path = path}
<1>1. CASE at # {}
  <2>1. unix_socket_lookup(path) = bound_sockets[Lowest(at)]
    BY <1>1 DEF unix_socket_lookup
  <2>2. at \subseteq Nat
    BY UInvFacts DEF Typed
  <2>3. Lowest(at) \in DOMAIN bound_sockets
    BY <1>1, <2>2, LowestIn
  <2>4. bound_sockets[Lowest(at)] \in Sock
    BY <2>3, UInvFacts DEF Typed
  <2> QED
    BY <2>1, <2>4, SocketAssumption
<1> QED
  BY <1>1

LEMMA ConnectDgramStep ==
  ASSUME UInv, NEW t \in Task, NEW s \in Sock, NEW path \in Path, ConnectDgram(t, s, path)
  PROVE  UInv'
<1> DEFINE l == unix_socket_lookup(path)
           c == [sock[s] EXCEPT !.peer = l, !.state = "CONNECTED"]
<1>1. /\ Live(s) /\ sock[s] \in UnixSock /\ ~Stream(s) /\ l # NULL
      /\ state' = state /\ call' = call /\ held' = held /\ bound_sockets' = bound_sockets
  BY UsesFacts DEF ConnectDgram, Stream
<1>2. l \in Sock
  BY <1>1, Found
<1>3. sock' = [sock EXCEPT ![s] = c]
  BY DEF ConnectDgram
<1> HIDE DEF l
<1>4. c \in UnixSock
  BY <1>1, <1>2 DEF UnixSock
<1>5. SameWaiting(s, c) /\ c.path = sock[s].path
  BY <1>1 DEF SameWaiting, UnixSock
<1> HIDE DEF c
<1>6. SameLive /\ \A r \in Sock : Live(r) => sock'[r].path = sock[r].path
  BY <1>1, <1>3, <1>4, <1>5, OneChanged, UInvFacts
<1>7. Names'
  BY <1>1, <1>6, SameNames
<1>8. bound_sockets' \in Seq(Sock)
  BY <1>1, UInvFacts DEF Typed
<1> QED
  BY <1>1, <1>3, <1>4, <1>5, <1>7, <1>8, LocalStep

LEMMA NamedStep ==
  ASSUME UInv, NEW s \in Sock, Live(s), sock[s].path = NULL, NEW path \in Path,
         unix_socket_lookup(path) = NULL, NEW c \in UnixSock, c.path = path,
         sock' = [sock EXCEPT ![s] = c], bound_sockets' = Append(bound_sockets, s)
  PROVE  Names'
<1>1. /\ SameLive /\ sock'[s] = c /\ \A r \in Sock : r # s => sock'[r] = sock[r]
  BY OneChanged, UInvFacts
<1>2. bound_sockets \in Seq(Sock)
  BY UInvFacts DEF Typed
<1>3. \A i \in DOMAIN bound_sockets : /\ bound_sockets[i] \in Sock
                                      /\ sock[bound_sockets[i]].path # NULL
                                      /\ sock[bound_sockets[i]].path # path
                                      /\ bound_sockets[i] # s
  BY NotFound, UInvFacts DEF Names, BoundTableExact, Nodes
<1>4. path # NULL
  BY SocketAssumption
<1>5. Nodes(bound_sockets') = {r \in Sock : sock'[r] # NULL /\ sock'[r].path # NULL}
  <2>1. Nodes(bound_sockets') = Nodes(bound_sockets) \cup {s}
    BY <1>2, Appended
  <2>2. Nodes(bound_sockets) = {r \in Sock : sock[r] # NULL /\ sock[r].path # NULL}
    BY UInvFacts DEF Names, BoundTableExact
  <2>3. {r \in Sock : sock'[r] # NULL /\ sock'[r].path # NULL} =
          {r \in Sock : sock[r] # NULL /\ sock[r].path # NULL} \cup {s}
    BY <1>1, <1>4 DEF SameLive, Live
  <2> QED
    BY <2>1, <2>2, <2>3
<1>6. /\ DOMAIN bound_sockets' = 1 .. Len(bound_sockets) + 1
      /\ DOMAIN bound_sockets = 1 .. Len(bound_sockets)
      /\ bound_sockets'[Len(bound_sockets) + 1] = s /\ Len(bound_sockets) \in Nat
      /\ \A i \in DOMAIN bound_sockets : bound_sockets'[i] = bound_sockets[i]
  BY <1>2, Appended
<1>7. ASSUME NEW i \in DOMAIN bound_sockets', NEW j \in DOMAIN bound_sockets'
      PROVE  /\ i # j => sock'[bound_sockets'[i]].path # sock'[bound_sockets'[j]].path
             /\ bound_sockets'[i] = bound_sockets'[j] => i = j
  <2>1. CASE i \in DOMAIN bound_sockets /\ j \in DOMAIN bound_sockets
    BY <1>1, <1>3, <1>6, <2>1, UInvFacts DEF Names, BoundTableExact, Distinct
  <2>2. CASE i \in DOMAIN bound_sockets /\ j = Len(bound_sockets) + 1
    BY <1>1, <1>3, <1>6, <2>2
  <2>3. CASE i = Len(bound_sockets) + 1 /\ j \in DOMAIN bound_sockets
    BY <1>1, <1>3, <1>6, <2>3
  <2>4. i \in DOMAIN bound_sockets \/ i = Len(bound_sockets) + 1
    BY <1>6
  <2>5. j \in DOMAIN bound_sockets \/ j = Len(bound_sockets) + 1
    BY <1>6
  <2> QED
    BY <2>1, <2>2, <2>3, <2>4, <2>5
<1> QED
  BY <1>5, <1>7 DEF Names, BoundTableExact, Distinct

LEMMA BindStep ==
  ASSUME UInv, Disciplined, NEW t \in Task, NEW s \in Sock, NEW path \in Path,
         sys_bind(t, s, path)
  PROVE  UInv'
<1>1. /\ Live(s) /\ sock[s] \in UnixSock /\ sock[s].path = NULL
      /\ Stream(s) => sock[s].state \in {"UNCONNECTED", "BOUND"}
      /\ unix_socket_lookup(path) = NULL
      /\ state' = state /\ call' = call /\ held' = held
  BY UsesFacts DEF sys_bind, Fresh, Stream
<1>2. bound_sockets \in Seq(Sock)
  BY UInvFacts DEF Typed
<1>3. CASE Len(bound_sockets) >= MaxBound
  <2> DEFINE c == [sock[s] EXCEPT !.state = "UNCONNECTED"]
  <2>1. sock' = [sock EXCEPT ![s] = c] /\ bound_sockets' = bound_sockets
    BY <1>3 DEF sys_bind, Bound
  <2>2. c \in UnixSock
    BY <1>1 DEF UnixSock
  <2>3. SameWaiting(s, c) /\ c.path = sock[s].path
    BY <1>1 DEF SameWaiting, UnixSock
  <2> HIDE DEF c
  <2>4. SameLive /\ \A r \in Sock : Live(r) => sock'[r].path = sock[r].path
    BY <1>1, <2>1, <2>2, <2>3, OneChanged, UInvFacts
  <2>5. Names'
    BY <2>1, <2>4, SameNames
  <2> QED
    BY <1>1, <1>2, <2>1, <2>2, <2>3, <2>5, LocalStep
<1>4. CASE ~(Len(bound_sockets) >= MaxBound)
  <2> DEFINE c == [sock[s] EXCEPT !.path = path, !.state = "BOUND"]
  <2>1. sock' = [sock EXCEPT ![s] = c] /\ bound_sockets' = Append(bound_sockets, s)
    BY <1>4 DEF sys_bind, Bound
  <2>2. c \in UnixSock
    BY <1>1 DEF UnixSock
  <2>3. SameWaiting(s, c) /\ c.path = path
    BY <1>1 DEF SameWaiting, UnixSock
  <2> HIDE DEF c
  <2>4. Names'
    BY <1>1, <2>1, <2>2, <2>3, NamedStep
  <2>5. bound_sockets' \in Seq(Sock)
    BY <1>2, <2>1
  <2> QED
    BY <1>1, <2>1, <2>2, <2>3, <2>4, <2>5, LocalStep
<1> QED
  BY <1>3, <1>4

LEMMA ForkStep ==
  ASSUME UInv, NEW t \in Task, NEW u \in Task, fork(t, u)
  PROVE  UInv'
<1>1. /\ state[u] = "UNUSED" /\ state' = [state EXCEPT ![u] = "READY"]
      /\ held' = [held EXCEPT ![u] = held[t]]
      /\ call' = call /\ sock' = sock /\ bound_sockets' = bound_sockets
  BY DEF fork
<1>2. Typed'
  BY <1>1, UInvFacts DEF Typed
<1>3. SameLive
  BY <1>1 DEF SameLive
<1>4. HeldLive'
  <2>1. \A v \in Task : \E w \in Task : held'[v] \subseteq held[w]
    BY <1>1, UInvFacts DEF Typed
  <2> QED
    BY <1>3, <2>1, SameHeld
<1>5. Names'
  BY <1>1, <1>3, SameNames
<1>6. /\ StayAsleep({})
      /\ \A v \in Task : state'[v] = "BLOCKED" => Asleep(v) /\ v \notin {}
  BY <1>1, UInvFacts DEF StayAsleep, Asleep, Typed, HeldLive, Live
<1>7. ASSUME NEW r \in Sock, Live(r)
      PROVE  /\ PeerKept(r) /\ ReadersKept(r, {}) /\ WritersKept(r, {}) /\ AcceptersKept(r, {})
             /\ QueuesKept(r, {})
  BY <1>1, <1>7 DEF PeerKept, ReadersKept, WritersKept, AcceptersKept, QueuesKept, QueueKept
<1>8. ASSUME NEW r \in Sock, Live(r) PROVE ReadersStay(r, {}) /\ WritersStay(r, {})
  <2>1. ASSUME Stream(r), PeerOpen(r) PROVE sock[sock[r].peer] # NULL
    BY <1>8, <2>1, UInvFacts DEF PeerOpen, PeersMutual, Live, Stream
  <2> QED
    BY <1>1, <1>8, <2>1 DEF ReadersStay, WritersStay, Live, PeerOpen
<1>9. Quiet({})
  BY <1>3, <1>6, <1>7, <1>8 DEF Quiet
<1> QED
  BY <1>2, <1>4, <1>5, <1>9, QuietStep

LEMMA ShutdownStep ==
  ASSUME UInv, NEW t \in Task, NEW s \in Sock, sys_shutdown(t, s)
  PROVE  UInv'
<1> DEFINE p == sock[s].peer
           both == {s} \cup (IF p = NULL \/ sock[p] = NULL THEN {} ELSE {p})
           W == UNION {Readers(sock, r) \cup Nodes(sock[r].write_waiters) : r \in both}
           shut(r) == [sock[r] EXCEPT !.read_waiters = <<>>, !.write_waiters = <<>>,
                                      !.state = IF r = s THEN "CLOSED" ELSE @]
<1>1. /\ Live(s) /\ held' = held /\ bound_sockets' = bound_sockets /\ task_unblock(W)
      /\ sock' = [r \in Sock |-> IF r \notin both THEN sock[r] ELSE shut(r)]
  BY UsesFacts DEF sys_shutdown
<1>2. p \in Sock \cup {NULL}
  BY <1>1, Record, UInvFacts
<1>3. /\ \A r \in both : r \in Sock /\ Live(r)
      /\ s \in both /\ (p \in both \/ p = NULL \/ sock[p] = NULL)
  BY <1>1, <1>2 DEF Live
<1>4. ASSUME NEW r \in both
      PROVE  /\ sock'[r] = shut(r) /\ shut(r) \in UnixSock /\ shut(r) # NULL
             /\ shut(r).read_waiters = <<>> /\ shut(r).write_waiters = <<>>
             /\ shut(r).state = IF r = s THEN "CLOSED" ELSE sock[r].state
             /\ shut(r).type = sock[r].type /\ shut(r).data_len = sock[r].data_len
             /\ shut(r).path = sock[r].path /\ shut(r).peer = sock[r].peer
             /\ shut(r).backlog = sock[r].backlog
             /\ shut(r).accept_waiters = sock[r].accept_waiters
             /\ shut(r).connect_waiters = sock[r].connect_waiters
  <2>1. sock[r] \in UnixSock /\ sock'[r] = shut(r)
    <3>1. r \in Sock /\ Live(r)
      BY <1>3
    <3> HIDE DEF both, shut
    <3> QED
      BY <1>1, <3>1, Record, UInvFacts
  <2> DEFINE w == <<>>
  <2>2. w \in Seq(Task) /\ w \in Seq(Waiter)
    OBVIOUS
  <2> HIDE DEF w, both
  <2>3. [sock[r] EXCEPT !.read_waiters = w, !.write_waiters = w,
                        !.state = IF r = s THEN "CLOSED" ELSE @] \in UnixSock
    BY <2>1, <2>2 DEF UnixSock
  <2>4. shut(r) \in UnixSock
    BY <2>3 DEF w
  <2>5. shut(r) # NULL
    BY <2>4, SocketAssumption
  <2> QED
    BY <2>1, <2>4, <2>5 DEF UnixSock
<1> HIDE DEF shut
<1>5. \A r \in Sock : r \notin both => sock'[r] = sock[r]
  BY <1>1
<1>6. WokenAt(W, both, both) /\ \A r \in both : Readers(sock, r) \cup Nodes(sock[r].write_waiters) \subseteq W
  BY <1>3 DEF WokenAt
<1> HIDE DEF both, W
<1>7. sock' \in [Sock -> UnixSock \cup {NULL}]
  <2>1. \A r \in Sock : sock[r] \in UnixSock \cup {NULL}
    BY UInvFacts DEF Typed
  <2> QED
    BY <1>1, <1>4, <2>1
<1>8. SameLive
  BY <1>3, <1>4, <1>5 DEF SameLive, Live
<1>9. bound_sockets' \in Seq(Sock)
  BY <1>1, UInvFacts DEF Typed
<1>10. /\ StayAsleep(W) /\ Typed' /\ HeldLive'
       /\ \A u \in Task : state'[u] = "BLOCKED" => Asleep(u) /\ u \notin W
  BY <1>1, <1>7, <1>8, <1>9, WakeFrame
<1>11. Names'
  <2>1. \A r \in Sock : Live(r) => sock'[r].path = sock[r].path
    BY <1>4, <1>5
  <2> QED
    BY <1>1, <1>8, <2>1, SameNames
<1>12. ASSUME NEW r \in Sock, Live(r)
       PROVE  /\ PeerKept(r) /\ ReadersKept(r, W) /\ WritersKept(r, W) /\ AcceptersKept(r, W)
              /\ QueuesKept(r, W)
  <2>1. /\ r \notin both => Readers(sock, r) \cap W = {}
        /\ r \notin both => Nodes(sock[r].write_waiters) \cap W = {}
        /\ Nodes(sock[r].accept_waiters) \cap W = {}
        /\ \A i \in DOMAIN sock[r].backlog : sock[r].connect_waiters[i] \notin W
    BY <1>6, <1>12, WokenApart
  <2>2. /\ sock'[r].accept_waiters = sock[r].accept_waiters
        /\ sock'[r].connect_waiters = sock[r].connect_waiters
        /\ sock'[r].backlog = sock[r].backlog
    BY <1>4, <1>5
  <2>3. \A q \in Sock : QueueKept(q)
    BY <1>4, <1>5 DEF QueueKept
  <2>4. \A i \in DOMAIN sock[r].backlog : sock[r].backlog[i] \in Sock
    BY <1>12, NodeTypes, UInvFacts
  <2>5. QueuesKept(r, W)
    BY <2>1, <2>2, <2>3, <2>4 DEF QueuesKept
  <2>6. PeerKept(r) /\ AcceptersKept(r, W)
    BY <1>4, <1>5, <2>1, <2>2 DEF PeerKept, AcceptersKept
  <2>7. ReadersKept(r, W) /\ WritersKept(r, W)
    BY <1>4, <1>5, <1>6, <2>1 DEF ReadersKept, WritersKept
  <2> QED
    BY <2>5, <2>6, <2>7
<1>13. ASSUME NEW r \in Sock, Live(r) PROVE ReadersStay(r, W) /\ WritersStay(r, W)
  <2>1. CASE r \in both
    BY <1>6, <2>1 DEF ReadersStay, WritersStay
  <2>2. CASE r \notin both
    <3>1. sock'[r] = sock[r]
      BY <1>5, <2>2
    <3>2. ASSUME Stream(r), PeerOpen(r)
          PROVE  sock'[sock[r].peer] # NULL /\ sock'[sock[r].peer].state # "CLOSED"
      <4>1. sock[r].peer \in Sock /\ Live(sock[r].peer) /\ sock[sock[r].peer].peer = r
        BY <1>13, <3>2, Record, UInvFacts DEF PeerOpen, PeersMutual, Live, Stream
      <4>2. sock[r].peer # s
        BY <1>3, <1>13, <2>2, <4>1, SocketAssumption DEF Live
      <4> QED
        BY <1>4, <1>5, <3>2, <4>1, <4>2 DEF Live, PeerOpen
    <3> QED
      BY <1>13, <3>1, <3>2 DEF ReadersStay, WritersStay, Readers, Live
  <2> QED
    BY <2>1, <2>2
<1>14. Quiet(W)
  BY <1>8, <1>10, <1>12, <1>13 DEF Quiet
<1> QED
  BY <1>10, <1>11, <1>14, QuietStep
-----------------------------------------------------------------------------
(* A task falls asleep: nobody is woken. *)
LEMMA SleepFrame ==
  ASSUME UInv, SameLive, NEW t \in Task, ~Asleep(t), NEW a, Sleep(t, a), held' = held,
         sock' \in [Sock -> UnixSock \cup {NULL}], bound_sockets' = bound_sockets
  PROVE  /\ StayAsleep({}) /\ Typed' /\ HeldLive'
         /\ state'[t] = "BLOCKED" /\ call'[t] = a
         /\ \A u \in Task : state'[u] = "BLOCKED" => u = t \/ (Asleep(u) /\ u \notin {})
<1>1. HeldLive'
  BY SameHeld
<1> QED
  BY <1>1, UInvFacts DEF StayAsleep, Typed, HeldLive, Live, Asleep, Sleep

(* All but the waiters of a socket is kept, and of those its connectors.   *)
SamePlace(s, c) ==
  /\ c.type = sock[s].type /\ c.state = sock[s].state /\ c.path = sock[s].path
  /\ c.peer = sock[s].peer /\ c.data_len = sock[s].data_len
  /\ c.backlog = sock[s].backlog /\ c.connect_waiters = sock[s].connect_waiters
  /\ c.accept_waiters = sock[s].accept_waiters \/ sock[s].backlog = <<>>

LEMMA SleepStep ==
  ASSUME UInv, NEW t \in Task, ~Asleep(t), NEW a, Sleep(t, a), held' = held,
         bound_sockets' = bound_sockets,
         NEW s \in Sock, Live(s), NEW c \in UnixSock, sock' = [sock EXCEPT ![s] = c],
         SamePlace(s, c), Readers(sock, s) \subseteq Readers(sock', s),
         Nodes(sock[s].write_waiters) \subseteq Nodes(c.write_waiters),
         ReadersKept(s, {}) \/ ReadersAt(s)', WritersKept(s, {}) \/ WritersAt(s)',
         AcceptersKept(s, {}) \/ AcceptersAt(s)', SleeperAt(t)'
  PROVE  UInv'
<1>1. /\ sock' \in [Sock -> UnixSock \cup {NULL}] /\ SameLive
      /\ sock'[s] = c /\ \A r \in Sock : r # s => sock'[r] = sock[r]
  BY OneChanged, UInvFacts
<1>2. /\ StayAsleep({}) /\ Typed' /\ HeldLive'
      /\ \A u \in Task : state'[u] = "BLOCKED" => u = t \/ (Asleep(u) /\ u \notin {})
  BY <1>1, SleepFrame
<1>3. ASSUME NEW r \in Sock
      PROVE  /\ sock'[r].type = sock[r].type /\ sock'[r].state = sock[r].state
             /\ sock'[r].path = sock[r].path /\ sock'[r].peer = sock[r].peer
             /\ sock'[r].data_len = sock[r].data_len /\ sock'[r].backlog = sock[r].backlog
             /\ sock'[r].connect_waiters = sock[r].connect_waiters
             /\ sock'[r].accept_waiters = sock[r].accept_waiters \/ sock[r].backlog = <<>>
             /\ Readers(sock, r) \subseteq Readers(sock', r)
             /\ Nodes(sock[r].write_waiters) \subseteq Nodes(sock'[r].write_waiters)
             /\ PeerKept(r) /\ Kept(r) /\ QueueKept(r)
  <2>1. CASE r = s
    BY <1>1, <2>1 DEF SamePlace, PeerKept, Kept, QueueKept
  <2>2. CASE r # s
    BY <1>1, <2>2 DEF Readers, PeerKept, Kept, QueueKept
  <2> QED
    BY <2>1, <2>2
<1>4. OneType' /\ PeersMutual'
  BY <1>1, <1>3, SameStructure
<1>5. Names'
  BY <1>1, <1>3, SameNames
<1>6. Waiters'
  <2>1. ASSUME NEW r \in Sock, sock'[r] # NULL
        PROVE  ReadersAt(r)' /\ WritersAt(r)' /\ AcceptersAt(r)'
    <3>1. Live(r)
      BY <1>1, <2>1 DEF SameLive, Live
    <3>2. CASE r # s
      <4>1. ReadersKept(r, {}) /\ WritersKept(r, {}) /\ AcceptersKept(r, {})
        BY <1>1, <3>2 DEF ReadersKept, WritersKept, AcceptersKept
      <4> QED
        BY <1>2, <1>3, <2>1, <3>1, <4>1, ReadersAtStep, WritersAtStep, AcceptersAtStep
    <3>3. CASE r = s
      <4>1. ReadersAt(s)'
        BY <1>2, ReadersAtStep
      <4>2. WritersAt(s)'
        BY <1>2, <1>3, <2>1, <3>3, WritersAtStep
      <4>3. AcceptersAt(s)'
        BY <1>2, AcceptersAtStep
      <4> QED
        BY <3>3, <4>1, <4>2, <4>3
    <3> QED
      BY <3>2, <3>3
  <2> QED
    BY <2>1 DEF Waiters, Live
<1>7. Backlogs'
  <2>1. ASSUME NEW l \in Sock, Live(l) PROVE QueuesKept(l, {})
    <3>1. \A i \in DOMAIN sock[l].backlog : sock[l].backlog[i] \in Sock
      BY <2>1, NodeTypes, UInvFacts
    <3> QED
      BY <1>3, <3>1 DEF QueuesKept
  <2> QED
    BY <1>1, <1>2, <1>3, <2>1, SameBacklogs
<1>8. Sleepers'
  <2>1. ASSUME NEW r \in Sock, Live(r) PROVE ReadersStay(r, {}) /\ WritersStay(r, {})
    <3>1. ASSUME Stream(r), PeerOpen(r)
          PROVE  sock'[sock[r].peer] # NULL /\ sock'[sock[r].peer].state # "CLOSED"
      <4>1. sock[r].peer \in Sock /\ Live(sock[r].peer)
        BY <2>1, <3>1, Record, UInvFacts DEF PeerOpen, PeersMutual, Live, Stream
      <4> QED
        BY <1>1, <1>3, <3>1, <4>1 DEF SameLive, Live, PeerOpen
    <3>2. sock'[r] # NULL
      BY <1>1, <2>1 DEF SameLive, Live
    <3> QED
      BY <1>3, <3>1, <3>2 DEF ReadersStay, WritersStay
  <2>2. \A u \in Task : state'[u] = "BLOCKED" => SleeperAt(u)' \/ (Asleep(u) /\ u \notin {})
    BY <1>2
  <2>3. \A r \in Sock : Live(r) /\ sock'[r] # NULL => Kept(r)
    BY <1>3
  <2> QED
    BY <1>2, <2>1, <2>2, <2>3, SleepersStep
<1> QED
  BY <1>2, <1>4, <1>5, <1>6, <1>7, <1>8 DEF UInv

LEMMA AcceptSleepStep ==
  ASSUME UInv, NEW t \in Task, NEW l \in Sock, AcceptSleep(t, l)
  PROVE  UInv'
<1> DEFINE q == Append(sock[l].accept_waiters, t)
           c == [sock[l] EXCEPT !.accept_waiters = q]
<1>1. /\ Live(l) /\ sock[l] \in UnixSock /\ ~Asleep(t) /\ l \in held[t] /\ sock[l].backlog = <<>>
      /\ Sleep(t, <<"accept", l>>) /\ held' = held /\ bound_sockets' = bound_sockets
  BY UsesFacts DEF AcceptSleep
<1>2. sock' = [sock EXCEPT ![l] = c]
  BY DEF AcceptSleep
<1>3. sock[l].accept_waiters \in Seq(Task)
  BY <1>1, Record, UInvFacts
<1>4. /\ q \in Seq(Task) /\ Len(q) = Len(sock[l].accept_waiters) + 1
      /\ DOMAIN sock[l].accept_waiters = 1 .. Len(sock[l].accept_waiters)
      /\ DOMAIN q = 1 .. Len(sock[l].accept_waiters) + 1
      /\ q[Len(sock[l].accept_waiters) + 1] = t
      /\ \A i \in DOMAIN sock[l].accept_waiters : q[i] = sock[l].accept_waiters[i]
      /\ Nodes(q) = Nodes(sock[l].accept_waiters) \cup {t}
  BY <1>3, Appended
<1> HIDE DEF q
<1>5. c \in UnixSock /\ c.accept_waiters = q
  BY <1>1, <1>4 DEF UnixSock
<1>6. /\ SamePlace(l, c) /\ c.read_waiters = sock[l].read_waiters
      /\ c.write_waiters = sock[l].write_waiters
  BY <1>1 DEF SamePlace, UnixSock
<1> HIDE DEF c
<1>7. /\ sock' \in [Sock -> UnixSock \cup {NULL}] /\ SameLive /\ sock'[l] = c
  BY <1>1, <1>2, <1>5, OneChanged, UInvFacts
<1>8. /\ state'[t] = "BLOCKED" /\ call'[t] = <<"accept", l>>
      /\ StayAsleep({})
  BY <1>1, <1>7, SleepFrame
<1>9. ReadersKept(l, {}) /\ WritersKept(l, {}) /\ Readers(sock, l) \subseteq Readers(sock', l)
  BY <1>6, <1>7 DEF ReadersKept, WritersKept, Readers
<1>10. AcceptersAt(l)'
  <2>1. AcceptersAt(l) /\ Nodes(sock[l].accept_waiters) \subseteq Task
    BY <1>1, NodeTypes, UInvFacts DEF Waiters
  <2>2. \A u \in Nodes(q) : state'[u] = "BLOCKED" /\ call'[u] = <<"accept", l>>
    BY <1>4, <1>8, <2>1 DEF AcceptersAt, StayAsleep
  <2>3. \A i \in DOMAIN sock[l].accept_waiters : sock[l].accept_waiters[i] # t
    BY <1>1, <2>1 DEF AcceptersAt, Nodes
  <2>4. ASSUME NEW i \in DOMAIN q, NEW j \in DOMAIN q, q[i] = q[j] PROVE i = j
    <3>1. i \in DOMAIN sock[l].accept_waiters \/ i = Len(sock[l].accept_waiters) + 1
      BY <1>3, <1>4
    <3>2. j \in DOMAIN sock[l].accept_waiters \/ j = Len(sock[l].accept_waiters) + 1
      BY <1>3, <1>4
    <3> QED
      BY <1>4, <2>1, <2>3, <2>4, <3>1, <3>2 DEF AcceptersAt, Distinct
  <2> QED
    BY <1>5, <1>7, <2>2, <2>4 DEF AcceptersAt, Distinct, Asleep
<1>11. SleeperAt(t)'
  <2>1. AcceptsAt(t, l)'
    BY <1>8 DEF AcceptsAt
  <2> QED
    BY <1>1, <2>1 DEF SleeperAt
<1> QED
  BY <1>1, <1>2, <1>5, <1>6, <1>9, <1>10, <1>11, SleepStep

(* The list of one waiter. *)
LEMMA FirstWaiter ==
  ASSUME NEW T, NEW x \in T, NEW q, q = <<>>
  PROVE  /\ Append(q, x) \in Seq(T) /\ Len(Append(q, x)) = 1 /\ Append(q, x)[1] = x
         /\ DOMAIN Append(q, x) = {1}
<1>1. q \in Seq(T) /\ Len(q) = 0
  BY EmptySeq
<1>2. /\ Append(q, x) \in Seq(T) /\ Len(Append(q, x)) = 1
      /\ DOMAIN Append(q, x) = 1 .. 1 /\ Append(q, x)[1] = x
  BY <1>1, Appended
<1> QED
  BY <1>2

LEMMA ReadSleepStep ==
  ASSUME UInv, Disciplined, NEW t \in Task, NEW s \in Sock, NEW n \in 1 .. MaxRequest,
         ReadSleep(t, s, n)
  PROVE  UInv'
<1> DEFINE w == [task |-> t, size |-> n]
           q == Append(sock[s].read_waiters, w)
           c == [sock[s] EXCEPT !.read_waiters = q]
<1>1. /\ Live(s) /\ sock[s] \in UnixSock /\ ~Asleep(t) /\ s \in held[t]
      /\ sock[s].data_len = 0 /\ sock[s].read_waiters = <<>> /\ (Stream(s) => PeerOpen(s))
      /\ Sleep(t, <<"read", s>>) /\ held' = held /\ bound_sockets' = bound_sockets
  BY UsesFacts DEF ReadSleep, Readable, Alone, Stream
<1>2. sock' = [sock EXCEPT ![s] = c]
  BY DEF ReadSleep
<1>3. w \in Waiter /\ w.task = t
  BY SocketAssumption DEF Waiter
<1> HIDE DEF w
<1>4. q \in Seq(Waiter) /\ Len(q) = 1 /\ q[1] = w /\ DOMAIN q = {1}
  BY <1>1, <1>3, FirstWaiter
<1> HIDE DEF q
<1>5. c \in UnixSock /\ c.read_waiters = q
  BY <1>1, <1>4 DEF UnixSock
<1>6. /\ SamePlace(s, c) /\ c.accept_waiters = sock[s].accept_waiters
      /\ c.write_waiters = sock[s].write_waiters
  BY <1>1 DEF SamePlace, UnixSock
<1> HIDE DEF c
<1>7. /\ sock' \in [Sock -> UnixSock \cup {NULL}] /\ SameLive /\ sock'[s] = c
      /\ \A r \in Sock : r # s => sock'[r] = sock[r]
  BY <1>1, <1>2, <1>5, OneChanged, UInvFacts
<1>8. state'[t] = "BLOCKED" /\ call'[t] = <<"read", s>>
  BY <1>1, <1>7, SleepFrame
<1>9. Readers(sock, s) = {} /\ Readers(sock', s) = {t}
  BY <1>1, <1>3, <1>4, <1>5, <1>7, NoNodes DEF Readers
<1>10. AcceptersKept(s, {}) /\ WritersKept(s, {})
  BY <1>6, <1>7 DEF AcceptersKept, WritersKept
<1>11. ReadersAt(s)'
  <2>1. call'[t][1] = "read" /\ call'[t][2] = s
    BY <1>8
  <2>2. Len(sock'[s].read_waiters) <= 1
    <3>1. sock'[s].read_waiters = q
      BY <1>4, <1>5, <1>7
    <3>2. Len(sock'[s].read_waiters) = 1
      BY <1>4, <3>1, Zenon
    <3> QED
      BY <3>2
  <2> QED
    BY <1>8, <1>9, <2>1, <2>2 DEF ReadersAt, Asleep
<1>12. SleeperAt(t)'
  <2>1. ASSUME Stream(s) PROVE sock'[sock[s].peer].state # "CLOSED" /\ sock[s].peer # NULL
    <3>1. PeerOpen(s)
      BY <1>1, <2>1
    <3>2. \A r \in Sock : sock'[r].state = sock[r].state
      BY <1>6, <1>7 DEF SamePlace
    <3>3. sock[s].peer \in Sock
      BY <1>1, <3>1, Record, UInvFacts DEF PeerOpen
    <3> QED
      BY <3>1, <3>2, <3>3 DEF PeerOpen
  <2>2. ReadsAt(t, s)'
    BY <1>1, <1>6, <1>7, <1>8, <1>9, <2>1 DEF ReadsAt, Stream, PeerOpen, SamePlace
  <2> QED
    BY <1>1, <2>2 DEF SleeperAt
<1> QED
  BY <1>1, <1>2, <1>5, <1>6, <1>9, <1>10, <1>11, <1>12, SleepStep

LEMMA WriteSleepStep ==
  ASSUME UInv, Disciplined, NEW t \in Task, NEW s \in Sock, WriteSleep(t, s)
  PROVE  UInv'
<1>1. /\ Live(s) /\ ~Asleep(t) /\ s \in held[t] /\ Stream(s) /\ PeerOpen(s)
      /\ sock[sock[s].peer].data_len = BufSize /\ sock[sock[s].peer].write_waiters = <<>>
      /\ Sleep(t, <<"write", s>>) /\ held' = held /\ bound_sockets' = bound_sockets
  BY UsesFacts DEF WriteSleep, Writable, Alone, Stream
<1>3. PICK p \in Sock :
        /\ Live(p) /\ p = sock[s].peer /\ sock[p].state # "CLOSED" /\ p # NULL
        /\ sock[p].data_len = BufSize /\ sock[p].write_waiters = <<>>
  BY <1>1, Record, UInvFacts DEF PeersMutual, PeerOpen, Live, Stream
<1> DEFINE q == Append(sock[p].write_waiters, t)
           c == [sock[p] EXCEPT !.write_waiters = q]
<1>2. sock' = [sock EXCEPT ![p] = c]
  BY <1>3 DEF WriteSleep
<1>4. q \in Seq(Task) /\ Len(q) = 1 /\ q[1] = t /\ DOMAIN q = {1}
  BY <1>3, FirstWaiter
<1> HIDE DEF q
<1>5. sock[p] \in UnixSock
  BY <1>3, Record, UInvFacts
<1>6. c \in UnixSock /\ c.write_waiters = q
  BY <1>4, <1>5 DEF UnixSock
<1>7. /\ SamePlace(p, c) /\ c.accept_waiters = sock[p].accept_waiters
      /\ c.read_waiters = sock[p].read_waiters
  BY <1>5 DEF SamePlace, UnixSock
<1> HIDE DEF c
<1>8. /\ sock' \in [Sock -> UnixSock \cup {NULL}] /\ SameLive /\ sock'[p] = c
      /\ \A r \in Sock : r # p => sock'[r] = sock[r]
  BY <1>2, <1>3, <1>6, OneChanged, UInvFacts
<1>9. state'[t] = "BLOCKED" /\ call'[t] = <<"write", s>>
  BY <1>1, <1>8, SleepFrame
<1>10. Nodes(sock[p].write_waiters) = {} /\ Nodes(c.write_waiters) = {t}
  BY <1>3, <1>4, <1>6, NoNodes DEF Nodes
<1>11. /\ AcceptersKept(p, {}) /\ ReadersKept(p, {})
       /\ Readers(sock, p) \subseteq Readers(sock', p)
  BY <1>7, <1>8 DEF AcceptersKept, ReadersKept, Readers
<1>12. sock'[s].peer = p /\ sock'[s].type = "STREAM"
  BY <1>1, <1>3, <1>7, <1>8 DEF SamePlace, Stream
<1>13. WritersAt(p)'
  <2>1. \A u \in Nodes(sock'[p].write_waiters) : u = t
    BY <1>8, <1>10
  <2>2. Len(sock'[p].write_waiters) <= 1
    <3>1. sock'[p].write_waiters = q
      BY <1>4, <1>6, <1>8
    <3>2. Len(sock'[p].write_waiters) = 1
      BY <1>4, <3>1, Zenon
    <3> QED
      BY <3>2
  <2>3. call'[t][1] = "write" /\ call'[t][2] = s
    BY <1>9
  <2> QED
    BY <1>9, <1>12, <2>1, <2>2, <2>3 DEF WritersAt, Asleep
<1>14. SleeperAt(t)'
  <2>1. WritesTo(t, s)'
    BY <1>1, <1>3, <1>7, <1>8, <1>9, <1>10, <1>12 DEF WritesTo, PeerOpen, Stream, SamePlace
  <2> QED
    BY <1>1, <2>1 DEF SleeperAt
<1> QED
  BY <1>1, <1>2, <1>3, <1>6, <1>7, <1>10, <1>11, <1>13, <1>14, SleepStep
-----------------------------------------------------------------------------
(* A socket that may connect is in no backlog. *)
LEMMA NotQueued ==
  ASSUME UInv, NEW s, ~(sock[s].state \in {"CONNECTING", "CLOSED"}), NEW l \in Sock, Live(l)
  PROVE  \A i \in DOMAIN sock[l].backlog : sock[l].backlog[i] # s
BY QueuedFacts

(* The waiters for data, with their sockets, are kept when only backlogs,  *)
(* accepters and the state of a socket that is not closed change.          *)
DataKept(s) ==
  /\ sock'[s].read_waiters = sock[s].read_waiters
  /\ sock'[s].write_waiters = sock[s].write_waiters
  /\ sock'[s].data_len = sock[s].data_len
  /\ sock[s].state # "CLOSED" => sock'[s].state # "CLOSED"
  /\ sock'[s].type = sock[s].type

LEMMA DataStays ==
  ASSUME UInv, NEW W, NEW s \in Sock, Live(s),
         \A r \in Sock : Live(r) => sock'[r] # NULL /\ DataKept(r)
  PROVE  ReadersStay(s, W) /\ WritersStay(s, W)
<1>1. /\ sock'[s] # NULL /\ Readers(sock', s) = Readers(sock, s)
      /\ sock'[s].write_waiters = sock[s].write_waiters /\ sock'[s].data_len = sock[s].data_len
      /\ sock[s].state # "CLOSED" => sock'[s].state # "CLOSED"
  BY DEF DataKept, Readers
<1>2. ASSUME Stream(s), PeerOpen(s)
      PROVE  sock'[sock[s].peer] # NULL /\ sock'[sock[s].peer].state # "CLOSED"
  <2>1. PICK p \in Sock : p = sock[s].peer /\ Live(p) /\ sock[p].state # "CLOSED"
    BY <1>2, Record, UInvFacts DEF PeerOpen, PeersMutual, Live, Stream
  <2> QED
    BY <2>1 DEF DataKept
<1> QED
  BY <1>1, <1>2 DEF ReadersStay, WritersStay

LEMMA TwoChanged ==
  ASSUME Typed, NEW r \in Sock, NEW s \in Sock, r # s, NEW c \in UnixSock, NEW d \in UnixSock,
         sock' = [sock EXCEPT ![r] = c, ![s] = d]
  PROVE  /\ sock' \in [Sock -> UnixSock \cup {NULL}]
         /\ sock'[r] = c /\ sock'[s] = d /\ \A q \in Sock : q # r /\ q # s => sock'[q] = sock[q]
<1>1. sock \in [Sock -> UnixSock \cup {NULL}]
  BY DEF Typed
<1> QED
  BY <1>1

LEMMA ConnectableFacts ==
  ASSUME UInv, Disciplined, NEW t \in Task, NEW s \in Sock, NEW path \in Path, NEW l,
         l = unix_socket_lookup(path), Connectable(t, s, l)
  PROVE  /\ Live(s) /\ sock[s] \in UnixSock /\ ~Asleep(t) /\ s \in held[t] /\ Stream(s)
         /\ sock[s].state \in {"UNCONNECTED", "BOUND"} /\ sock[s].peer = NULL
         /\ l \in Sock /\ Live(l) /\ sock[l] \in UnixSock /\ sock[l].state = "LISTENING"
         /\ s # l
<1>1. /\ Live(s) /\ sock[s] \in UnixSock /\ ~Asleep(t) /\ s \in held[t] /\ Stream(s)
      /\ sock[s].state \in {"UNCONNECTED", "BOUND"} /\ sock[s].peer = NULL
  BY UsesFacts DEF Connectable, Fresh, Stream
<1>2. l \in Sock /\ Live(l) /\ sock[l].state = "LISTENING"
  BY Found DEF Connectable
<1>3. sock[l] \in UnixSock
  BY <1>2, Record, UInvFacts
<1> QED
  BY <1>1, <1>2, <1>3

LEMMA ConnectSleepStep ==
  ASSUME UInv, Disciplined, NEW t \in Task, NEW s \in Sock, NEW path \in Path,
         ConnectSleep(t, s, path)
  PROVE  UInv'
<1>1. PICK l \in Sock : /\ l = unix_socket_lookup(path) /\ Connectable(t, s, l) /\ Live(l)
  BY ConnectableFacts, Found DEF ConnectSleep, Connectable
<1>2. /\ Live(s) /\ sock[s] \in UnixSock /\ ~Asleep(t) /\ s \in held[t] /\ Stream(s)
      /\ sock[s].state \in {"UNCONNECTED", "BOUND"} /\ sock[s].peer = NULL
      /\ sock[l] \in UnixSock /\ sock[l].state = "LISTENING" /\ s # l
  BY <1>1, ConnectableFacts
<1>3. /\ sock[l].accept_waiters = <<>>
      /\ sock' = [Queued(s, l) EXCEPT ![l].connect_waiters = Append(@, t)]
      /\ Sleep(t, <<"connect", l, s>>) /\ held' = held /\ bound_sockets' = bound_sockets
  BY <1>1 DEF ConnectSleep
<1>4. PICK q : q = Append(sock[l].backlog, s)
  OBVIOUS
<1>5. PICK w : w = Append(sock[l].connect_waiters, t)
  OBVIOUS
<1>6. PICK n : n = Len(sock[l].backlog)
  OBVIOUS
<1>7. sock[l].backlog \in Seq(Sock) /\ sock[l].connect_waiters \in Seq(Task)
  BY <1>1, Record, UInvFacts
<1>8. Len(sock[l].connect_waiters) = n
  BY <1>1, <1>6, UInvFacts DEF Backlogs
<1>9. /\ q \in Seq(Sock) /\ Len(q) = n + 1 /\ n \in Nat
      /\ DOMAIN sock[l].backlog = 1 .. n /\ DOMAIN q = 1 .. n + 1
      /\ q[n + 1] = s /\ \A i \in 1 .. n : q[i] = sock[l].backlog[i]
  BY <1>4, <1>6, <1>7, Appended
<1>10. /\ w \in Seq(Task) /\ Len(w) = n + 1
       /\ w[n + 1] = t /\ \A i \in 1 .. n : w[i] = sock[l].connect_waiters[i]
  BY <1>5, <1>7, <1>8, Appended
<1> DEFINE c == [sock[l] EXCEPT !.backlog = q, !.connect_waiters = w]
           d == [sock[s] EXCEPT !.state = "CONNECTING"]
<1>11. sock' = [sock EXCEPT ![l] = c, ![s] = d]
  <2>1. sock \in [Sock -> UnixSock \cup {NULL}]
    BY UInvFacts DEF Typed
  <2> QED
    BY <1>1, <1>2, <1>3, <1>4, <1>5, <2>1 DEF Queued
<1>12. c \in UnixSock /\ d \in UnixSock
  BY <1>2, <1>9, <1>10 DEF UnixSock
<1>13. /\ c.backlog = q /\ c.connect_waiters = w
       /\ c.type = sock[l].type /\ c.state = sock[l].state /\ c.path = sock[l].path
       /\ c.peer = sock[l].peer /\ c.data_len = sock[l].data_len
       /\ c.accept_waiters = sock[l].accept_waiters
       /\ c.read_waiters = sock[l].read_waiters /\ c.write_waiters = sock[l].write_waiters
  BY <1>2 DEF UnixSock
<1>14. /\ d.state = "CONNECTING" /\ d.backlog = sock[s].backlog
       /\ d.connect_waiters = sock[s].connect_waiters
       /\ d.type = sock[s].type /\ d.path = sock[s].path
       /\ d.peer = sock[s].peer /\ d.data_len = sock[s].data_len
       /\ d.accept_waiters = sock[s].accept_waiters
       /\ d.read_waiters = sock[s].read_waiters /\ d.write_waiters = sock[s].write_waiters
  BY <1>2 DEF UnixSock
<1> HIDE DEF c, d
<1>15. /\ sock' \in [Sock -> UnixSock \cup {NULL}] /\ SameLive
       /\ sock'[l] = c /\ sock'[s] = d /\ \A r \in Sock : r # l /\ r # s => sock'[r] = sock[r]
  <2>1. /\ sock' \in [Sock -> UnixSock \cup {NULL}] /\ sock'[l] = c /\ sock'[s] = d
        /\ \A r \in Sock : r # l /\ r # s => sock'[r] = sock[r]
    BY <1>2, <1>11, <1>12, TwoChanged, UInvFacts
  <2> QED
    BY <1>1, <1>2, <1>12, <2>1, SocketAssumption DEF SameLive, Live
<1>16. /\ StayAsleep({}) /\ Typed' /\ HeldLive'
       /\ state'[t] = "BLOCKED" /\ call'[t] = <<"connect", l, s>>
       /\ \A u \in Task : state'[u] = "BLOCKED" => u = t \/ (Asleep(u) /\ u \notin {})
  BY <1>2, <1>3, <1>15, SleepFrame
<1>17. ASSUME NEW r \in Sock
       PROVE  /\ PeerKept(r) /\ Kept(r) /\ QueueKept(r) /\ DataKept(r)
              /\ sock'[r].path = sock[r].path
              /\ sock'[r].accept_waiters = sock[r].accept_waiters
              /\ r # l => /\ sock'[r].backlog = sock[r].backlog
                          /\ sock'[r].connect_waiters = sock[r].connect_waiters
  <2>1. CASE r = l
    BY <1>2, <1>13, <1>15, <2>1 DEF PeerKept, Kept, QueueKept, DataKept
  <2>2. CASE r = s
    BY <1>2, <1>14, <1>15, <2>2 DEF PeerKept, Kept, QueueKept, DataKept
  <2>3. CASE r # l /\ r # s
    BY <1>15, <2>3 DEF PeerKept, Kept, QueueKept, DataKept
  <2> QED
    BY <2>1, <2>2, <2>3
<1>18. OneType' /\ PeersMutual'
  BY <1>15, <1>17, SameStructure
<1>19. Names'
  BY <1>3, <1>15, <1>17, SameNames
<1>20. ASSUME NEW r \in Sock, sock'[r] # NULL
       PROVE  ReadersAt(r)' /\ WritersAt(r)' /\ AcceptersAt(r)'
  <2>1. Live(r)
    BY <1>15, <1>20 DEF SameLive, Live
  <2>2. ReadersKept(r, {}) /\ WritersKept(r, {}) /\ AcceptersKept(r, {})
    BY <1>17 DEF ReadersKept, WritersKept, AcceptersKept, DataKept
  <2> QED
    BY <1>16, <1>17, <1>20, <2>1, <2>2, ReadersAtStep, WritersAtStep, AcceptersAtStep
<1>21. Waiters'
  BY <1>20 DEF Waiters, Live
<1>22. Sleepers'
  <2>1. \A r \in Sock : Live(r) => sock'[r] # NULL /\ DataKept(r)
    BY <1>15, <1>17 DEF SameLive, Live
  <2>2. \A r \in Sock : Live(r) => ReadersStay(r, {}) /\ WritersStay(r, {})
    BY <2>1, DataStays
  <2>3. SleeperAt(t)'
    <3>1. ConnectsTo(t, s)'
      BY <1>16 DEF ConnectsTo
    <3> QED
      BY <1>2, <1>3, <3>1 DEF SleeperAt
  <2>4. \A u \in Task : state'[u] = "BLOCKED" => SleeperAt(u)' \/ (Asleep(u) /\ u \notin {})
    BY <1>16, <2>3
  <2>5. \A r \in Sock : Live(r) /\ sock'[r] # NULL => Kept(r)
    BY <1>17
  <2> QED
    BY <1>16, <2>2, <2>4, <2>5, SleepersStep
<1>23. ASSUME NEW m \in Sock, sock'[m] # NULL
       PROVE  /\ Len(sock'[m].backlog) = Len(sock'[m].connect_waiters)
              /\ sock'[m].accept_waiters = <<>> \/ sock'[m].backlog = <<>>
              /\ \A i \in DOMAIN sock'[m].backlog : Queued1(m, i)'
  <2>1. Live(m)
    BY <1>15, <1>23 DEF SameLive, Live
  <2>2. CASE m # l
    <3>1. \A i \in DOMAIN sock[m].backlog : sock[m].backlog[i] \in Sock
      BY <2>1, NodeTypes, UInvFacts
    <3>2. QueuesKept(m, {})
      BY <1>17, <2>2, <3>1 DEF QueuesKept
    <3>3. sock'[m].accept_waiters = <<>> \/ sock'[m].backlog = <<>>
      BY <1>17, <2>1, <2>2, UInvFacts DEF Backlogs
    <3> QED
      BY <1>16, <2>1, <3>2, <3>3, QueuedStep
  <2>3. CASE m = l
    <3>1. ASSUME NEW i \in DOMAIN sock'[l].backlog PROVE Queued1(l, i)'
      <4>1. sock'[l].backlog = q /\ sock'[l].connect_waiters = w
        BY <1>13, <1>15
      <4>2. CASE i = n + 1
        <5>1. sock'[l].backlog[i] = s /\ sock'[l].connect_waiters[i] = t
          BY <1>9, <1>10, <4>1, <4>2
        <5>2. sock'[s].type = "STREAM" /\ sock'[s].state = "CONNECTING" /\ sock'[s].peer = NULL
          BY <1>2, <1>14, <1>15 DEF Stream
        <5> QED
          BY <1>16, <5>1, <5>2 DEF Queued1, Stream, Asleep
      <4>3. CASE i \in 1 .. n
        <5>1. /\ i \in DOMAIN sock[l].backlog
              /\ sock'[l].backlog[i] = sock[l].backlog[i]
              /\ sock'[l].connect_waiters[i] = sock[l].connect_waiters[i]
          BY <1>9, <1>10, <4>1, <4>3
        <5>2. PICK x \in Sock : x = sock[l].backlog[i]
          BY <1>1, <5>1, NodeTypes, UInvFacts
        <5>3. PICK u : u = sock[l].connect_waiters[i]
          OBVIOUS
        <5>4. sock[l].connect_waiters[i] \notin {} /\ QueueKept(sock[l].backlog[i])
          BY <1>17, <5>2
        <5>5. /\ state'[u] = "BLOCKED" /\ call'[u] = <<"connect", l, x>>
              /\ sock'[x].type = "STREAM" /\ sock'[x].state \in {"CONNECTING", "CLOSED"}
              /\ sock'[x].peer = NULL
          <6>1. StayAsleep({}) /\ Live(l) /\ i \in DOMAIN sock[l].backlog
            BY <1>1, <1>16, <5>1
          <6> QED
            BY <5>2, <5>3, <5>4, <6>1, StillQueued
        <5> QED
          BY <5>1, <5>2, <5>3, <5>5 DEF Queued1, Stream, Asleep
      <4> QED
        BY <1>9, <4>1, <4>2, <4>3
    <3>2. Len(sock'[l].backlog) = Len(sock'[l].connect_waiters)
      <4>1. sock'[l].backlog = q /\ sock'[l].connect_waiters = w
        BY <1>13, <1>15
      <4> QED
        BY <1>9, <1>10, <4>1, Zenon
    <3>3. sock'[l].accept_waiters = <<>>
      BY <1>3, <1>17
    <3> QED
      BY <2>3, <3>1, <3>2, <3>3
  <2> QED
    BY <2>2, <2>3
<1>24. ASSUME NEW m \in Sock, sock'[m] # NULL, NEW k \in Sock, sock'[k] # NULL,
              NEW i \in DOMAIN sock'[m].backlog, NEW j \in DOMAIN sock'[k].backlog,
              sock'[m].backlog[i] = sock'[k].backlog[j]
       PROVE  m = k /\ i = j
  <2>1. Live(m) /\ Live(k)
    BY <1>15, <1>24 DEF SameLive, Live
  <2>2. ASSUME NEW a \in Sock, Live(a), NEW e \in DOMAIN sock'[a].backlog
        PROVE  \/ /\ e \in DOMAIN sock[a].backlog /\ sock'[a].backlog[e] = sock[a].backlog[e]
                  /\ sock'[a].backlog[e] # s
               \/ a = l /\ e = n + 1 /\ sock'[a].backlog[e] = s
    <3>1. \A g \in DOMAIN sock[a].backlog : sock[a].backlog[g] # s
      BY <1>2, <2>2, NotQueued
    <3>2. CASE a # l
      BY <1>17, <2>2, <3>1, <3>2
    <3>3. CASE a = l
      <4>1. sock'[l].backlog = q
        BY <1>13, <1>15
      <4> QED
        BY <1>9, <2>2, <3>1, <3>3, <4>1
    <3> QED
      BY <3>2, <3>3
  <2>3. \/ /\ i \in DOMAIN sock[m].backlog /\ sock'[m].backlog[i] = sock[m].backlog[i]
           /\ sock'[m].backlog[i] # s
        \/ m = l /\ i = n + 1 /\ sock'[m].backlog[i] = s
    BY <2>1, <2>2
  <2>4. \/ /\ j \in DOMAIN sock[k].backlog /\ sock'[k].backlog[j] = sock[k].backlog[j]
           /\ sock'[k].backlog[j] # s
        \/ k = l /\ j = n + 1 /\ sock'[k].backlog[j] = s
    BY <2>1, <2>2
  <2> QED
    BY <1>24, <2>1, <2>3, <2>4, UInvFacts DEF Backlogs
<1>25. Backlogs'
  BY <1>23, <1>24 DEF Backlogs, Live
<1> QED
  BY <1>16, <1>18, <1>19, <1>21, <1>22, <1>25 DEF UInv
-----------------------------------------------------------------------------
(* A socket without waiters and names. *)
Blank(c, type, st, p) ==
  /\ c \in UnixSock /\ c # NULL /\ c.type = type /\ c.state = st /\ c.peer = p
  /\ c.path = NULL /\ c.backlog = <<>> /\ c.read_waiters = <<>> /\ c.write_waiters = <<>>
  /\ c.accept_waiters = <<>> /\ c.connect_waiters = <<>>

BlankRecord(type, w) ==
  [type |-> type, state |-> "UNCONNECTED", path |-> NULL, data_len |-> 0, peer |-> NULL,
   backlog |-> w, backlog_max |-> 0, read_waiters |-> w, write_waiters |-> w,
   accept_waiters |-> w, connect_waiters |-> w]

LEMMA NewPlain ==
  ASSUME NEW type \in {"STREAM", "DGRAM"}
  PROVE  Blank(NewSock(type), type, "UNCONNECTED", NULL)
<1>1. PICK w : w = <<>>
  OBVIOUS
<1>2. BlankRecord(type, w) \in UnixSock
  <2>1. 0 \in 0 .. BufSize /\ 0 \in Nat
    BY SocketAssumption
  <2>2. w \in Seq(Task) /\ w \in Seq(Waiter) /\ w \in Seq(Sock)
    BY <1>1, EmptySeq
  <2> QED
    BY <2>1, <2>2 DEF UnixSock, BlankRecord
<1>3. BlankRecord(type, w) # NULL
  BY <1>2, SocketAssumption
<1>4. Blank(BlankRecord(type, w), type, "UNCONNECTED", NULL)
  BY <1>1, <1>2, <1>3 DEF Blank, BlankRecord
<1>5. BlankRecord(type, w) = NewSock(type)
  BY <1>1 DEF NewSock, BlankRecord
<1> QED
  BY <1>4, <1>5, Zenon

LEMMA NewRecord ==
  ASSUME NEW type \in {"STREAM", "DGRAM"}, NEW st \in {"UNCONNECTED", "CONNECTED"},
         NEW p \in Sock \cup {NULL}
  PROVE  Blank([NewSock(type) EXCEPT !.state = st, !.peer = p], type, st, p)
<1>1. PICK c : c = NewSock(type)
  OBVIOUS
<1>2. Blank(c, type, "UNCONNECTED", NULL)
  BY <1>1, NewPlain, Zenon
<1> DEFINE d == [c EXCEPT !.state = st, !.peer = p]
<1>3. /\ d \in UnixSock /\ d.type = c.type /\ d.state = st /\ d.peer = p
      /\ d.path = c.path /\ d.backlog = c.backlog /\ d.read_waiters = c.read_waiters
      /\ d.write_waiters = c.write_waiters /\ d.accept_waiters = c.accept_waiters
      /\ d.connect_waiters = c.connect_waiters
  <2>1. c \in UnixSock
    BY <1>2 DEF Blank
  <2> QED
    BY <2>1 DEF UnixSock
<1> HIDE DEF d
<1>4. d # NULL
  BY <1>3, SocketAssumption
<1>5. Blank(d, type, st, p)
  BY <1>2, <1>3, <1>4 DEF Blank
<1> QED
  BY <1>1, <1>5 DEF d

(* A socket without waiters. *)
Quiescent(s) ==
  /\ sock'[s].backlog = <<>> /\ sock'[s].read_waiters = <<>> /\ sock'[s].write_waiters = <<>>
  /\ sock'[s].accept_waiters = <<>> /\ sock'[s].connect_waiters = <<>>

LEMMA QuiescentAt ==
  ASSUME NEW s, Quiescent(s)
  PROVE  /\ ReadersAt(s)' /\ WritersAt(s)' /\ AcceptersAt(s)'
         /\ Len(sock'[s].backlog) = Len(sock'[s].connect_waiters)
         /\ DOMAIN sock'[s].backlog = {}
<1>1. Readers(sock', s) = {} /\ Nodes(sock'[s].write_waiters) = {} /\ Nodes(sock'[s].accept_waiters) = {}
  BY NoNodes DEF Quiescent
<1>2. Len(<<>>) = 0 /\ DOMAIN <<>> = {}
  OBVIOUS
<1>3. Len(sock'[s].read_waiters) <= 1 /\ Len(sock'[s].write_waiters) <= 1
  BY <1>2 DEF Quiescent
<1>4. Distinct(sock'[s].accept_waiters)
  BY <1>2 DEF Quiescent, Distinct
<1> QED
  BY <1>1, <1>2, <1>3, <1>4 DEF Quiescent, ReadersAt, WritersAt, AcceptersAt, Distinct

(* The sockets of N are new. *)
OnlyNew(N, type) ==
  /\ \A r \in Sock : r \notin N => sock'[r] = sock[r]
  /\ \A r \in Sock : Live(r) => sock[r].type = type
  /\ \A u \in Task : held[u] \subseteq held'[u] /\ held'[u] \subseteq held[u] \cup N
NewAt(N, type, r) ==
  /\ sock'[r] # NULL /\ sock'[r].type = type /\ sock'[r].path = NULL /\ Quiescent(r)
  /\ sock'[r].peer # NULL => sock'[r].peer \in N /\ sock'[sock'[r].peer].peer = r

LEMMA NewStep ==
  ASSUME UInv, NEW N, N \subseteq FreeSock, NEW type, state' = state, call' = call,
         bound_sockets' = bound_sockets, held' \in [Task -> SUBSET Sock],
         sock' \in [Sock -> UnixSock \cup {NULL}],
         OnlyNew(N, type), \A r \in N : NewAt(N, type, r)
  PROVE  UInv'
<1> USE DEF OnlyNew, NewAt
<1>1. \A r \in Sock : Live(r) => r \notin N /\ sock'[r] = sock[r]
  BY DEF FreeSock, Live
<1>2. \A r \in Sock : sock'[r] # NULL => Live(r) \/ r \in N
  BY DEF Live
<1>3. N \subseteq Sock /\ Typed'
  BY UInvFacts DEF FreeSock, Typed
<1>4. OneType'
  BY <1>1, <1>2 DEF OneType, Live
<1>5. HeldLive'
  BY <1>1, UInvFacts DEF HeldLive, Live, Typed
<1>6. PeersMutual'
  <2>1. ASSUME NEW s \in Sock, sock'[s] # NULL, sock'[s].type = "STREAM", sock'[s].peer # NULL
        PROVE  sock'[sock'[s].peer] # NULL /\ sock'[sock'[s].peer].peer = s
    <3>1. CASE s \in N
      BY <2>1, <3>1
    <3>2. CASE Live(s)
      <4>1. PICK p \in Sock : p = sock[s].peer /\ Live(p) /\ sock[p].peer = s /\ p = sock'[s].peer
        BY <1>1, <2>1, <3>2, Record, UInvFacts DEF PeersMutual, Live
      <4> QED
        BY <1>1, <4>1 DEF Live
    <3> QED
      BY <1>2, <2>1, <3>1, <3>2
  <2> QED
    BY <2>1 DEF PeersMutual
<1>7. Names'
  <2>1. \A i \in DOMAIN bound_sockets : bound_sockets[i] \in Sock /\ Live(bound_sockets[i])
    BY UInvFacts DEF Names, BoundTableExact, Nodes, Live
  <2>2. {s \in Sock : sock'[s] # NULL /\ sock'[s].path # NULL} =
          {s \in Sock : sock[s] # NULL /\ sock[s].path # NULL}
    BY <1>1, <1>2 DEF Live
  <2> QED
    BY <1>1, <2>1, <2>2, UInvFacts DEF Names, BoundTableExact, Distinct
<1>8. StayAsleep({})
  BY <1>1, UInvFacts DEF StayAsleep, Asleep, HeldLive, Typed, Live
<1>9. \A r \in Sock : Live(r) => Kept(r) /\ QueueKept(r) /\ DataKept(r) /\ sock'[r] # NULL
  BY <1>1 DEF Kept, QueueKept, DataKept, Live
<1>10. \A r \in Sock : Live(r) => ReadersKept(r, {}) /\ WritersKept(r, {}) /\ AcceptersKept(r, {})
  BY <1>1 DEF ReadersKept, WritersKept, AcceptersKept
<1>11. Waiters'
  <2>1. ASSUME NEW r \in Sock, Live(r)
        PROVE  ReadersAt(r)' /\ WritersAt(r)' /\ AcceptersAt(r)'
    <3>1. sock'[r] # NULL /\ \A q \in Sock : Live(q) /\ sock'[q] # NULL => Kept(q)
      BY <1>9, <2>1
    <3> QED
      BY <1>8, <1>10, <2>1, <3>1, ReadersAtStep, WritersAtStep, AcceptersAtStep
  <2>2. ASSUME NEW r \in N
        PROVE  ReadersAt(r)' /\ WritersAt(r)' /\ AcceptersAt(r)'
    BY QuiescentAt
  <2> QED
    BY <1>2, <2>1, <2>2 DEF Waiters, Live
<1>12. Sleepers'
  <2>1. \A r \in Sock : Live(r) => ReadersStay(r, {}) /\ WritersStay(r, {})
    BY <1>9, DataStays
  <2>2. \A u \in Task : state'[u] = "BLOCKED" => SleeperAt(u)' \/ (Asleep(u) /\ u \notin {})
    BY DEF Asleep
  <2>3. \A r \in Sock : Live(r) /\ sock'[r] # NULL => Kept(r)
    BY <1>9
  <2> QED
    BY <1>8, <2>1, <2>2, <2>3, SleepersStep
<1>13. Backlogs'
  <2>1. ASSUME NEW l \in Sock, Live(l)
        PROVE  /\ Len(sock'[l].backlog) = Len(sock'[l].connect_waiters)
               /\ \A i \in DOMAIN sock'[l].backlog : Queued1(l, i)'
    <3>1. \A i \in DOMAIN sock[l].backlog : sock[l].backlog[i] \in Sock /\ Live(sock[l].backlog[i])
      BY <2>1, QueuedFacts
    <3>2. QueuesKept(l, {})
      BY <1>1, <1>9, <2>1, <3>1 DEF QueuesKept
    <3> QED
      BY <1>8, <2>1, <3>2, QueuedStep
  <2>2. ASSUME NEW l \in N
        PROVE  /\ Len(sock'[l].backlog) = Len(sock'[l].connect_waiters)
               /\ DOMAIN sock'[l].backlog = {} /\ sock'[l].accept_waiters = <<>>
    BY QuiescentAt DEF Quiescent
  <2>3. ASSUME NEW l \in Sock, Live(l)
        PROVE  sock'[l].accept_waiters = <<>> \/ sock'[l].backlog = <<>>
    BY <1>1, <2>3, UInvFacts DEF Backlogs
  <2>4. ASSUME NEW l \in Sock, sock'[l] # NULL, NEW m \in Sock, sock'[m] # NULL,
               NEW i \in DOMAIN sock'[l].backlog, NEW j \in DOMAIN sock'[m].backlog,
               sock'[l].backlog[i] = sock'[m].backlog[j]
        PROVE  l = m /\ i = j
    <3>1. Live(l) /\ Live(m)
      BY <1>2, <2>2, <2>4
    <3> QED
      BY <1>1, <2>4, <3>1, UInvFacts DEF Backlogs
  <2>5. ASSUME NEW l \in Sock, sock'[l] # NULL
        PROVE  /\ Len(sock'[l].backlog) = Len(sock'[l].connect_waiters)
               /\ sock'[l].accept_waiters = <<>> \/ sock'[l].backlog = <<>>
               /\ \A i \in DOMAIN sock'[l].backlog : Queued1(l, i)'
    BY <1>2, <2>1, <2>2, <2>3, <2>5
  <2> QED
    BY <2>4, <2>5 DEF Backlogs, Live
<1> QED
  BY <1>3, <1>4, <1>5, <1>6, <1>7, <1>11, <1>12, <1>13 DEF UInv

LEMMA FreeFacts ==
  ASSUME Typed
  PROVE  /\ FreeSock \subseteq Nat /\ FreeSock \subseteq Sock
         /\ FreeSock # {} => Lowest(FreeSock) \in FreeSock
         /\ Cardinality(FreeSock) >= 2 =>
              /\ FreeSock # {} /\ FreeSock \ {Lowest(FreeSock)} # {}
              /\ Lowest(FreeSock \ {Lowest(FreeSock)}) \in FreeSock \ {Lowest(FreeSock)}
<1>1. FreeSock \subseteq Nat /\ FreeSock \subseteq Sock /\ IsFiniteSet(FreeSock)
  BY SocketAssumption, FS_Subset DEF FreeSock
<1>2. FreeSock # {} => Lowest(FreeSock) \in FreeSock
  BY <1>1, LowestIn
<1>3. ASSUME Cardinality(FreeSock) >= 2
      PROVE  FreeSock # {} /\ FreeSock \ {Lowest(FreeSock)} # {}
  <2>1. FreeSock # {}
    BY <1>3, FS_EmptySet
  <2>2. Cardinality(FreeSock \ {Lowest(FreeSock)}) = Cardinality(FreeSock) - 1
    BY <1>1, <1>2, <2>1, FS_RemoveElement
  <2>3. Cardinality(FreeSock \ {Lowest(FreeSock)}) # 0
    BY <1>1, <1>3, <2>2, FS_CardinalityType
  <2> QED
    BY <2>1, <2>3, FS_EmptySet
<1>4. ASSUME Cardinality(FreeSock) >= 2
      PROVE  Lowest(FreeSock \ {Lowest(FreeSock)}) \in FreeSock \ {Lowest(FreeSock)}
  <2>1. FreeSock \ {Lowest(FreeSock)} \subseteq Nat /\ FreeSock \ {Lowest(FreeSock)} # {}
    BY <1>1, <1>3, <1>4
  <2> QED
    BY <2>1, LowestIn
<1> QED
  BY <1>1, <1>2, <1>3, <1>4

LEMMA SocketStep ==
  ASSUME UInv, NEW t \in Task, NEW type \in {"STREAM", "DGRAM"}, sys_socket(t, type)
  PROVE  UInv'
<1>1. FreeSock # {} /\ \A r \in Sock : Live(r) => sock[r].type = type
  BY DEF sys_socket, Fits, FreeSock, Live
<1>2. PICK a \in FreeSock : a = Lowest(FreeSock) /\ a \in Sock
  BY <1>1, FreeFacts, UInvFacts
<1>3. /\ sock' = [sock EXCEPT ![a] = NewSock(type)] /\ held' = [held EXCEPT ![t] = @ \cup {a}]
      /\ state' = state /\ call' = call /\ bound_sockets' = bound_sockets
  BY <1>2 DEF sys_socket
<1>4. Blank(NewSock(type), type, "UNCONNECTED", NULL)
  BY NewPlain
<1>5. sock \in [Sock -> UnixSock \cup {NULL}] /\ held \in [Task -> SUBSET Sock]
  BY UInvFacts DEF Typed
<1>6. sock'[a] = NewSock(type) /\ \A r \in Sock : r \notin {a} => sock'[r] = sock[r]
  BY <1>2, <1>3, <1>5
<1>7. /\ sock' \in [Sock -> UnixSock \cup {NULL}] /\ held' \in [Task -> SUBSET Sock]
      /\ \A u \in Task : held[u] \subseteq held'[u] /\ held'[u] \subseteq held[u] \cup {a}
  BY <1>2, <1>3, <1>4, <1>5 DEF Blank
<1>8. \A r \in {a} : NewAt({a}, type, r)
  BY <1>4, <1>6 DEF Quiescent, Blank, NewAt
<1>9. {a} \subseteq FreeSock /\ OnlyNew({a}, type)
  BY <1>1, <1>2, <1>6, <1>7 DEF OnlyNew
<1> QED
  BY <1>3, <1>7, <1>8, <1>9, NewStep

LEMMA SocketpairStep ==
  ASSUME UInv, NEW t \in Task, NEW type \in {"STREAM", "DGRAM"}, sys_socketpair(t, type)
  PROVE  UInv'
<1>1. Cardinality(FreeSock) >= 2 /\ \A r \in Sock : Live(r) => sock[r].type = type
  BY DEF sys_socketpair, Fits, FreeSock, Live
<1>2. PICK a \in FreeSock : a = Lowest(FreeSock) /\ a \in Sock
  BY <1>1, FreeFacts, UInvFacts
<1>3. PICK b \in FreeSock \ {a} : b = Lowest(FreeSock \ {a}) /\ b \in Sock
  BY <1>1, <1>2, FreeFacts, UInvFacts
<1> DEFINE c == [NewSock(type) EXCEPT !.state = "CONNECTED", !.peer = b]
           d == [NewSock(type) EXCEPT !.state = "CONNECTED", !.peer = a]
<1>4. /\ sock' = [sock EXCEPT ![a] = c, ![b] = d] /\ held' = [held EXCEPT ![t] = @ \cup {a, b}]
      /\ state' = state /\ call' = call /\ bound_sockets' = bound_sockets
  BY <1>2, <1>3 DEF sys_socketpair
<1>5. Blank(c, type, "CONNECTED", b)
  BY <1>3, NewRecord
<1>6. Blank(d, type, "CONNECTED", a)
  BY <1>2, NewRecord
<1> HIDE DEF c, d
<1>7. /\ sock' \in [Sock -> UnixSock \cup {NULL}] /\ sock'[a] = c /\ sock'[b] = d
      /\ \A r \in Sock : r # a /\ r # b => sock'[r] = sock[r]
  BY <1>2, <1>3, <1>4, <1>5, <1>6, TwoChanged, UInvFacts DEF Blank
<1>8. held \in [Task -> SUBSET Sock]
  BY UInvFacts DEF Typed
<1>9. /\ held' \in [Task -> SUBSET Sock]
      /\ \A u \in Task : held[u] \subseteq held'[u] /\ held'[u] \subseteq held[u] \cup {a, b}
  BY <1>2, <1>3, <1>4, <1>8
<1>10. \A r \in {a, b} : NewAt({a, b}, type, r)
  <2>1. NewAt({a, b}, type, a)
    BY <1>5, <1>6, <1>7 DEF Quiescent, Blank, NewAt
  <2>2. NewAt({a, b}, type, b)
    BY <1>5, <1>6, <1>7 DEF Quiescent, Blank, NewAt
  <2> QED
    BY <2>1, <2>2
<1>11. {a, b} \subseteq FreeSock /\ OnlyNew({a, b}, type)
  BY <1>1, <1>2, <1>3, <1>7, <1>9 DEF OnlyNew
<1> QED
  BY <1>4, <1>7, <1>9, <1>10, <1>11, NewStep
-----------------------------------------------------------------------------
LEMMA TailFacts ==
  ASSUME NEW T, NEW q \in Seq(T), q # <<>>
  PROVE  /\ Tail(q) \in Seq(T) /\ Len(Tail(q)) = Len(q) - 1 /\ Len(q) \in Nat \ {0}
         /\ DOMAIN q = 1 .. Len(q) /\ DOMAIN Tail(q) = 1 .. Len(q) - 1
         /\ \A i \in 1 .. Len(q) - 1 : Tail(q)[i] = q[i + 1]
         /\ Head(q) = q[1] /\ 1 \in DOMAIN q /\ Head(q) \in T
<1>1. Len(q) \in Nat \ {0}
  BY EmptySeq
<1>2. /\ Tail(q) \in Seq(T) /\ Len(Tail(q)) = Len(q) - 1
      /\ \A i \in 1 .. Len(q) - 1 : Tail(q)[i] = q[i + 1]
      /\ Head(q) = q[1] /\ Head(q) \in T
  BY <1>1, HeadTailProperties
<1> QED
  BY <1>1, <1>2

LEMMA TailNodes ==
  ASSUME NEW T, NEW q \in Seq(T), q # <<>>, Distinct(q)
  PROVE  Nodes(Tail(q)) \subseteq Nodes(q) \ {Head(q)} /\ Distinct(Tail(q))
<1>1. /\ Len(q) \in Nat \ {0} /\ DOMAIN q = 1 .. Len(q) /\ DOMAIN Tail(q) = 1 .. Len(q) - 1
      /\ \A i \in 1 .. Len(q) - 1 : Tail(q)[i] = q[i + 1]
      /\ Head(q) = q[1]
  BY TailFacts
<1>2. \A i \in DOMAIN Tail(q) : Tail(q)[i] = q[i + 1] /\ i + 1 \in DOMAIN q /\ i + 1 # 1 /\ 1 \in DOMAIN q
  BY <1>1
<1>3. \A i \in DOMAIN Tail(q) : q[i + 1] # q[1]
  BY <1>2 DEF Distinct
<1>4. Nodes(Tail(q)) \subseteq Nodes(q) \ {Head(q)}
  BY <1>1, <1>2, <1>3 DEF Nodes
<1>5. Distinct(Tail(q))
  <2> SUFFICES ASSUME NEW i \in DOMAIN Tail(q), NEW j \in DOMAIN Tail(q), Tail(q)[i] = Tail(q)[j]
               PROVE  i = j
    BY DEF Distinct
  <2>1. i + 1 = j + 1
    BY <1>2 DEF Distinct
  <2> QED
    BY <1>1, <2>1
<1> QED
  BY <1>4, <1>5

LEMMA ConnectorsApart ==
  ASSUME UInv, NEW l \in Sock, Live(l), NEW m \in Sock, Live(m),
         NEW i \in DOMAIN sock[l].backlog, NEW j \in DOMAIN sock[m].backlog,
         sock[l].connect_waiters[i] = sock[m].connect_waiters[j]
  PROVE  l = m /\ i = j
<1>1. PICK u : u = sock[l].connect_waiters[i] /\ u = sock[m].connect_waiters[j]
  OBVIOUS
<1>2. call[u] = <<"connect", l, sock[l].backlog[i]>> /\ call[u] = <<"connect", m, sock[m].backlog[j]>>
  BY <1>1, QueuedFacts
<1>3. sock[l].backlog[i] = sock[m].backlog[j]
  BY <1>2
<1> QED
  BY <1>3, UInvFacts DEF Backlogs

(* Nobody waits for data at a stream socket without a peer. *)
LEMMA NobodyWaits ==
  ASSUME UInv, NEW s \in Sock, Live(s), Stream(s), sock[s].peer = NULL
  PROVE  Readers(sock, s) = {} /\ Nodes(sock[s].write_waiters) = {}
<1>1. ASSUME NEW u \in Readers(sock, s) PROVE FALSE
  BY ReaderFacts DEF PeerOpen
<1>2. ASSUME NEW u \in Nodes(sock[s].write_waiters) PROVE FALSE
  <2>1. PICK r \in Sock : Live(r) /\ Stream(r) /\ sock[r].peer = s
    BY <1>2, WriterFacts
  <2>2. s # NULL
    BY SocketAssumption
  <2>3. sock[s].peer = r
    BY <2>1, <2>2, UInvFacts DEF PeersMutual, Live, Stream
  <2> QED
    BY <2>1, <2>3, SocketAssumption
<1> QED
  BY <1>1, <1>2

(* A connection of s is made, or fails, at the listener l: N is {} or the  *)
(* new socket.  Backlogs, accepters and connectors apart.                  *)
KeptBy(r, l, s) ==
  /\ sock'[r] # NULL /\ sock'[r].path = sock[r].path /\ DataKept(r)
  /\ r # l => /\ sock'[r].backlog = sock[r].backlog
              /\ sock'[r].connect_waiters = sock[r].connect_waiters
              /\ sock'[r].accept_waiters = sock[r].accept_waiters
  /\ r # s => sock'[r].state = sock[r].state /\ sock'[r].peer = sock[r].peer

Delivered(l, s, N, W) ==
  /\ s \in Sock /\ Live(s) /\ Stream(s) /\ sock[s].peer = NULL /\ N \subseteq FreeSock
  /\ \A r \in Sock : Live(r) => KeptBy(r, l, s)
  /\ \A r \in Sock : sock'[r] # NULL => Live(r) \/ r \in N
  /\ \A n \in N : /\ sock'[n] # NULL /\ sock'[n].type = "STREAM" /\ sock'[n].path = NULL
                  /\ Quiescent(n) /\ sock'[n].peer = s /\ sock'[s].peer = n
  /\ sock'[s].peer \in N \cup {NULL}
  /\ \A u \in Task : held[u] \subseteq held'[u] /\ held'[u] \subseteq held[u] \cup N
  /\ \A r \in Sock : Live(r) =>
       Readers(sock, r) \cap W = {} /\ Nodes(sock[r].write_waiters) \cap W = {}

LEMMA DeliveredStep ==
  ASSUME UInv, NEW l, NEW s, NEW N, NEW W, Delivered(l, s, N, W), task_unblock(W),
         bound_sockets' = bound_sockets, held' \in [Task -> SUBSET Sock],
         sock' \in [Sock -> UnixSock \cup {NULL}]
  PROVE  /\ Typed' /\ OneType' /\ HeldLive' /\ Sleepers' /\ PeersMutual' /\ Names'
         /\ StayAsleep(W)
         /\ \A r \in Sock : sock'[r] # NULL => ReadersAt(r)' /\ WritersAt(r)'
<1>1. /\ state' \in [Task -> {"UNUSED", "READY", "BLOCKED"}] /\ DOMAIN call' = Task
      /\ \A u \in Task : state'[u] = "BLOCKED" <=> Asleep(u) /\ u \notin W
      /\ \A u \in Task : state'[u] = "BLOCKED" => call'[u] = call[u]
  BY Wakes, UInvFacts
<1>2. Typed'
  BY <1>1, UInvFacts DEF Typed
<1>3. /\ \A r \in Sock : Live(r) => sock'[r] # NULL /\ DataKept(r) /\ KeptBy(r, l, s)
      /\ \A r \in Sock : sock'[r] # NULL => Live(r) \/ r \in N
      /\ N \subseteq Sock /\ s \in Sock /\ Live(s) /\ Stream(s) /\ sock[s].peer = NULL
  BY DEF Delivered, KeptBy, FreeSock
<1>4. StayAsleep(W)
  <2>1. \A u \in Task : \A r \in held[u] : r \in Sock /\ Live(r)
    BY UInvFacts DEF HeldLive, Typed
  <2>2. \A u \in Task : held[u] \subseteq held'[u]
    BY DEF Delivered
  <2> QED
    BY <1>1, <1>3, <2>1, <2>2 DEF StayAsleep
<1>5. HeldLive'
  <2>1. \A u \in Task : \A r \in held[u] : r \in Sock /\ Live(r)
    BY UInvFacts DEF HeldLive, Typed
  <2>2. \A n \in N : sock'[n] # NULL
    BY DEF Delivered
  <2>3. \A u \in Task : held'[u] \subseteq held[u] \cup N
    BY DEF Delivered
  <2> QED
    BY <1>3, <2>1, <2>2, <2>3 DEF HeldLive, Live
<1>6. \A r \in Sock : sock'[r] # NULL => sock'[r].type = "STREAM"
  <2>1. \A r \in Sock : Live(r) => sock'[r].type = "STREAM"
    BY <1>3, UInvFacts DEF OneType, DataKept, Stream
  <2>2. \A n \in N : sock'[n].type = "STREAM"
    BY DEF Delivered
  <2> QED
    BY <1>3, <2>1, <2>2
<1>7. OneType'
  BY <1>6 DEF OneType, Live
<1>8. PeersMutual'
  <2>1. ASSUME NEW r \in Sock, sock'[r] # NULL, sock'[r].type = "STREAM", sock'[r].peer # NULL
        PROVE  sock'[sock'[r].peer] # NULL /\ sock'[sock'[r].peer].peer = r
    <3>1. CASE r \in N
      <4>1. sock'[r].peer = s /\ sock'[s].peer = r
        BY <3>1 DEF Delivered
      <4> QED
        BY <1>3, <4>1
    <3>2. CASE Live(r) /\ r = s
      <4>1. sock'[s].peer \in N
        BY <2>1, <3>2 DEF Delivered
      <4> QED
        BY <3>2, <4>1 DEF Delivered
    <3>3. CASE Live(r) /\ r # s
      <4>1. sock'[r].peer = sock[r].peer /\ Stream(r)
        BY <1>3, <2>1, <3>3 DEF KeptBy, DataKept, Stream
      <4>2. PICK p \in Sock : p = sock[r].peer /\ Live(p) /\ sock[p].peer = r
        BY <2>1, <3>3, <4>1, Record, UInvFacts DEF PeersMutual, Live, Stream
      <4>3. p # s
        BY <1>3, <4>2, SocketAssumption
      <4>4. sock'[p] # NULL /\ sock'[p].peer = r
        BY <1>3, <4>2, <4>3 DEF KeptBy
      <4> QED
        BY <4>1, <4>2, <4>4
    <3> QED
      BY <1>3, <2>1, <3>1, <3>2, <3>3
  <2> QED
    BY <2>1 DEF PeersMutual
<1>9. Names'
  <2>1. \A i \in DOMAIN bound_sockets : bound_sockets[i] \in Sock /\ Live(bound_sockets[i])
    BY UInvFacts DEF Names, BoundTableExact, Nodes, Live
  <2>2. \A n \in N : sock'[n].path = NULL
    BY DEF Delivered
  <2>3. \A r \in Sock : Live(r) => sock'[r] # NULL /\ sock'[r].path = sock[r].path
    BY <1>3 DEF KeptBy
  <2>4. {r \in Sock : sock'[r] # NULL /\ sock'[r].path # NULL} =
          {r \in Sock : sock[r] # NULL /\ sock[r].path # NULL}
    BY <1>3, <2>2, <2>3 DEF Live
  <2> QED
    BY <2>1, <2>3, <2>4, UInvFacts DEF Names, BoundTableExact, Distinct
<1>10. \A r \in Sock : Live(r) => Kept(r)
  BY <1>3 DEF KeptBy, Kept, DataKept
<1>11. ASSUME NEW r \in Sock, sock'[r] # NULL PROVE ReadersAt(r)' /\ WritersAt(r)'
  <2>1. CASE Live(r)
    <3>1. ReadersKept(r, W) /\ WritersKept(r, W)
      <4>1. Readers(sock, r) \cap W = {} /\ Nodes(sock[r].write_waiters) \cap W = {}
        BY <2>1 DEF Delivered
      <4> QED
        BY <1>3, <2>1, <4>1 DEF DataKept, ReadersKept, WritersKept
    <3>2. \A q \in Sock : Live(q) /\ sock'[q] # NULL => Kept(q)
      BY <1>10
    <3> QED
      BY <1>4, <1>11, <2>1, <3>1, <3>2, ReadersAtStep, WritersAtStep
  <2>2. CASE r \in N
    <3>1. Quiescent(r)
      BY <2>2 DEF Delivered
    <3> QED
      BY <3>1, QuiescentAt
  <2> QED
    BY <1>3, <1>11, <2>1, <2>2
<1>12. Sleepers'
  <2>1. \A r \in Sock : Live(r) => ReadersStay(r, W) /\ WritersStay(r, W)
    BY <1>3, DataStays
  <2>2. \A u \in Task : state'[u] = "BLOCKED" => SleeperAt(u)' \/ (Asleep(u) /\ u \notin W)
    BY <1>1
  <2>3. \A r \in Sock : Live(r) /\ sock'[r] # NULL => Kept(r)
    BY <1>10
  <2> QED
    BY <1>4, <2>1, <2>2, <2>3, SleepersStep
<1> QED
  BY <1>2, <1>4, <1>5, <1>7, <1>8, <1>9, <1>11, <1>12

(* The outcomes of sock_accept_deliver(): N is empty or the new socket. *)
Popped(c, d) ==
  /\ d \in UnixSock /\ d.backlog = Tail(c.backlog) /\ d.connect_waiters = Rest(c.connect_waiters)
  /\ d.type = c.type /\ d.state = c.state /\ d.path = c.path /\ d.data_len = c.data_len
  /\ d.peer = c.peer /\ d.read_waiters = c.read_waiters /\ d.write_waiters = c.write_waiters
  /\ d.accept_waiters = c.accept_waiters
Answered(c, d) ==
  /\ d \in UnixSock /\ d.backlog = c.backlog /\ d.connect_waiters = c.connect_waiters
  /\ d.type = c.type /\ d.path = c.path /\ d.data_len = c.data_len
  /\ d.read_waiters = c.read_waiters /\ d.write_waiters = c.write_waiters
  /\ d.accept_waiters = c.accept_waiters
  /\ c.state # "CLOSED" => d.state # "CLOSED"

Outcome(S, l, s, N) ==
  /\ N \subseteq FreeSock
  /\ sock' \in [Sock -> UnixSock \cup {NULL}] /\ held' \in [Task -> SUBSET Sock]
  /\ \A r \in Sock : r \notin N \cup {l, s} => sock'[r] = S[r]
  /\ Popped(S[l], sock'[l]) /\ Answered(S[s], sock'[s]) /\ sock'[s].peer \in N \cup {NULL}
  /\ \A n \in N : Blank(sock'[n], "STREAM", "CONNECTED", s) /\ sock'[s].peer = n
  /\ \A u \in Task : held[u] \subseteq held'[u] /\ held'[u] \subseteq held[u] \cup N

LEMMA AnsweredIs ==
  ASSUME NEW c \in UnixSock, NEW p \in Sock \cup {NULL}, NEW st \in {"UNCONNECTED", "CONNECTED"}
  PROVE  LET d == [c EXCEPT !.state = st, !.peer = p]
         IN  d \in UnixSock /\ d.peer = p /\ Answered(c, d)
<1> DEFINE d == [c EXCEPT !.state = st, !.peer = p]
<1>1. d \in UnixSock
  BY DEF UnixSock
<1>2. /\ d.state = st /\ d.peer = p /\ d.backlog = c.backlog
      /\ d.connect_waiters = c.connect_waiters /\ d.type = c.type /\ d.path = c.path
      /\ d.data_len = c.data_len /\ d.read_waiters = c.read_waiters
      /\ d.write_waiters = c.write_waiters /\ d.accept_waiters = c.accept_waiters
  BY DEF UnixSock
<1> HIDE DEF d
<1>3. d \in UnixSock /\ d.peer = p /\ Answered(c, d)
  BY <1>1, <1>2 DEF Answered
<1> QED
  BY <1>3 DEF d

LEMMA Delivery ==
  ASSUME Typed, NEW S \in [Sock -> UnixSock \cup {NULL}], NEW l \in Sock, NEW s \in Sock, l # s,
         S[l] \in UnixSock, S[s] \in UnixSock, S[s].peer = NULL,
         l \notin FreeSock, s \notin FreeSock,
         S[l].backlog # <<>>, Head(S[l].backlog) = s, NEW t \in Task, sock_accept_deliver(S, l, t)
  PROVE  \E N : Outcome(S, l, s, N)
<1>1. held \in [Task -> SUBSET Sock]
  BY DEF Typed
<1>2. PICK b : b = Tail(S[l].backlog)
  OBVIOUS
<1>3. PICK w : w = Rest(S[l].connect_waiters)
  OBVIOUS
<1>4. S[l].backlog \in Seq(Sock) /\ S[l].connect_waiters \in Seq(Task)
  BY DEF UnixSock
<1>5. b \in Seq(Sock) /\ w \in Seq(Task)
  <2>1. b \in Seq(Sock)
    BY <1>2, <1>4, TailFacts
  <2>2. w \in Seq(Task)
    BY <1>3, <1>4, TailFacts DEF Rest
  <2> QED
    BY <2>1, <2>2
<1> DEFINE c == [S[l] EXCEPT !.backlog = b, !.connect_waiters = w]
<1>6. PICK P : P = [S EXCEPT ![l].backlog = Tail(@), ![l].connect_waiters = Rest(@)]
  OBVIOUS
<1>7. c \in UnixSock
  BY <1>5 DEF UnixSock
<1>8. P \in [Sock -> UnixSock \cup {NULL}] /\ P[l] = c /\ \A r \in Sock : r # l => P[r] = S[r]
  <2>1. P = [S EXCEPT ![l] = c]
    BY <1>2, <1>3, <1>6
  <2> HIDE DEF c
  <2> QED
    BY <1>7, <2>1
<1>9. Popped(S[l], P[l])
  <2>1. c.backlog = b /\ c.connect_waiters = w
    BY DEF UnixSock
  <2>2. /\ c.type = S[l].type /\ c.state = S[l].state /\ c.path = S[l].path
        /\ c.data_len = S[l].data_len /\ c.peer = S[l].peer
        /\ c.read_waiters = S[l].read_waiters /\ c.write_waiters = S[l].write_waiters
        /\ c.accept_waiters = S[l].accept_waiters
    BY DEF UnixSock
  <2> HIDE DEF c
  <2> QED
    BY <1>2, <1>3, <1>7, <1>8, <2>1, <2>2 DEF Popped
<1> HIDE DEF c
<1>10. CASE FreeSock = {}
  <2>1. sock' = P /\ held' = held
    BY <1>6, <1>10 DEF sock_accept_deliver
  <2>2. Outcome(S, l, s, {})
    BY <1>1, <1>8, <1>9, <2>1 DEF Outcome, Answered
  <2> QED
    BY <2>2
<1>11. CASE FreeSock # {} /\ HasFd(t)
  <2>1. PICK n \in FreeSock : n = Lowest(FreeSock) /\ n \in Sock
    BY <1>11, FreeFacts
  <2>2. PICK d : d = [NewSock("STREAM") EXCEPT !.state = "CONNECTED", !.peer = s]
    OBVIOUS
  <2>3. Blank(d, "STREAM", "CONNECTED", s)
    BY <2>2, NewRecord
  <2>4. /\ sock' = [P EXCEPT ![n] = d, ![s].state = "CONNECTED", ![s].peer = n]
        /\ held' = [held EXCEPT ![t] = @ \cup {n}]
    BY <1>6, <1>11, <2>1, <2>2 DEF sock_accept_deliver
  <2> DEFINE e == [S[s] EXCEPT !.state = "CONNECTED", !.peer = n]
  <2>5. e \in UnixSock /\ e.peer = n /\ Answered(S[s], e)
    BY <2>1, AnsweredIs
  <2>6. P[s] = S[s] /\ n # s /\ n # l
    BY <1>8, <2>1
  <2>7. sock' = [P EXCEPT ![n] = d, ![s] = e]
    BY <1>8, <2>1, <2>4, <2>6
  <2> HIDE DEF e
  <2>8. /\ sock' \in [Sock -> UnixSock \cup {NULL}] /\ sock'[n] = d /\ sock'[s] = e
        /\ \A r \in Sock : r # n /\ r # s => sock'[r] = P[r]
    BY <1>8, <2>1, <2>3, <2>5, <2>6, <2>7 DEF Blank
  <2>9. /\ held' \in [Task -> SUBSET Sock]
        /\ \A u \in Task : held[u] \subseteq held'[u] /\ held'[u] \subseteq held[u] \cup {n}
    BY <1>1, <2>1, <2>4
  <2>10. Outcome(S, l, s, {n})
    BY <1>8, <1>9, <2>1, <2>3, <2>5, <2>6, <2>8, <2>9 DEF Outcome
  <2> QED
    BY <2>10
<1>12. CASE FreeSock # {} /\ ~HasFd(t)
  <2>1. /\ sock' = [P EXCEPT ![s].state = "UNCONNECTED", ![s].peer = NULL] /\ held' = held
    BY <1>6, <1>12 DEF sock_accept_deliver
  <2> DEFINE e == [S[s] EXCEPT !.state = "UNCONNECTED", !.peer = NULL]
  <2>2. e \in UnixSock /\ e.peer = NULL /\ Answered(S[s], e)
    <3>1. PICK z \in Sock \cup {NULL} : z = NULL
      OBVIOUS
    <3>2. LET d == [S[s] EXCEPT !.state = "UNCONNECTED", !.peer = z]
          IN  d \in UnixSock /\ d.peer = z /\ Answered(S[s], d)
      BY AnsweredIs
    <3> QED
      BY <3>1, <3>2, Zenon
  <2>3. P[s] = S[s]
    BY <1>8
  <2>4. sock' = [P EXCEPT ![s] = e]
    BY <1>8, <2>1, <2>3
  <2> HIDE DEF e
  <2>5. /\ sock' \in [Sock -> UnixSock \cup {NULL}] /\ sock'[s] = e
        /\ \A r \in Sock : r # s => sock'[r] = P[r]
    BY <1>8, <2>2, <2>4
  <2>6. Outcome(S, l, s, {})
    BY <1>1, <1>8, <1>9, <2>1, <2>2, <2>5 DEF Outcome
  <2> QED
    BY <2>6
<1> QED
  BY <1>10, <1>11, <1>12

(* What S, in which the delivery starts, shares with the sockets. *)
SameData(c, d) ==
  /\ c.type = d.type /\ c.path = d.path /\ c.data_len = d.data_len
  /\ c.read_waiters = d.read_waiters /\ c.write_waiters = d.write_waiters
Start(S, l, s) ==
  /\ l \in Sock /\ s \in Sock /\ l # s /\ Live(l) /\ Live(s) /\ Stream(s) /\ sock[s].peer = NULL
  /\ \A r \in Sock : r # l /\ r # s => S[r] = sock[r]
  /\ SameData(S[l], sock[l]) /\ S[l].state = sock[l].state /\ S[l].peer = sock[l].peer
  /\ SameData(S[s], sock[s]) /\ S[s].backlog = sock[s].backlog
  /\ S[s].connect_waiters = sock[s].connect_waiters
  /\ S[s].accept_waiters = sock[s].accept_waiters
  /\ sock[s].state # "CLOSED" => S[s].state # "CLOSED"

LEMMA OutcomeDelivered ==
  ASSUME NEW S, NEW l, NEW s, NEW N, NEW W, Start(S, l, s), Outcome(S, l, s, N),
         \A r \in Sock : Live(r) =>
           Readers(sock, r) \cap W = {} /\ Nodes(sock[r].write_waiters) \cap W = {}
  PROVE  Delivered(l, s, N, W)
<1>1. \A r \in Sock : Live(r) => r \notin N
  BY DEF Outcome, FreeSock, Live
<1>2. ASSUME NEW r \in Sock, Live(r) PROVE KeptBy(r, l, s)
  <2>1. CASE r = l
    <3>1. Popped(S[l], sock'[l]) /\ sock'[l] # NULL
      BY <2>1, SocketAssumption DEF Outcome, Popped
    <3> QED
      BY <2>1, <3>1 DEF Start, SameData, Popped, KeptBy, DataKept
  <2>2. CASE r = s
    <3>1. Answered(S[s], sock'[s]) /\ sock'[s] # NULL
      BY <2>2, SocketAssumption DEF Outcome, Answered
    <3> QED
      BY <2>2, <3>1 DEF Start, SameData, Answered, KeptBy, DataKept
  <2>3. CASE r # l /\ r # s
    <3>1. sock'[r] = sock[r]
      BY <1>1, <1>2, <2>3 DEF Outcome, Start
    <3> QED
      BY <1>2, <2>3, <3>1 DEF KeptBy, DataKept, Live
  <2> QED
    BY <2>1, <2>2, <2>3
<1>3. \A r \in Sock : sock'[r] # NULL => Live(r) \/ r \in N
  BY DEF Outcome, Start, Live
<1>4. \A n \in N : /\ sock'[n] # NULL /\ sock'[n].type = "STREAM" /\ sock'[n].path = NULL
                   /\ Quiescent(n) /\ sock'[n].peer = s /\ sock'[s].peer = n
  BY DEF Outcome, Blank, Quiescent
<1>5. /\ N \subseteq FreeSock /\ sock'[s].peer \in N \cup {NULL}
      /\ \A u \in Task : held[u] \subseteq held'[u] /\ held'[u] \subseteq held[u] \cup N
  BY DEF Outcome
<1>6. s \in Sock /\ Live(s) /\ Stream(s) /\ sock[s].peer = NULL
  BY DEF Start
<1> QED
  BY <1>2, <1>3, <1>4, <1>5, <1>6 DEF Delivered

(* What is left to show of a delivery: accepters, and the listener's list. *)
LEMMA DeliveredUInv ==
  ASSUME UInv, NEW l \in Sock, Live(l), NEW s, NEW N, NEW W, Delivered(l, s, N, W), task_unblock(W),
         bound_sockets' = bound_sockets, held' \in [Task -> SUBSET Sock],
         sock' \in [Sock -> UnixSock \cup {NULL}],
         AcceptersAt(l)',
         \A m \in Sock : Live(m) /\ m # l =>
           Nodes(sock[m].accept_waiters) \cap W = {} /\ QueuesKept(m, W),
         Len(sock'[l].backlog) = Len(sock'[l].connect_waiters),
         sock'[l].accept_waiters = <<>> \/ sock'[l].backlog = <<>>,
         \A i \in DOMAIN sock'[l].backlog : Queued1(l, i)',
         \A i \in DOMAIN sock'[l].backlog : \E k \in DOMAIN sock[l].backlog :
           /\ sock'[l].backlog[i] = sock[l].backlog[k]
           /\ \A j \in DOMAIN sock'[l].backlog : sock'[l].backlog[j] = sock[l].backlog[k] => i = j
  PROVE  UInv'
<1>1. /\ Typed' /\ OneType' /\ HeldLive' /\ Sleepers' /\ PeersMutual' /\ Names'
      /\ StayAsleep(W)
      /\ \A r \in Sock : sock'[r] # NULL => ReadersAt(r)' /\ WritersAt(r)'
  BY DeliveredStep
<1>2. /\ \A r \in Sock : Live(r) => KeptBy(r, l, s)
      /\ \A r \in Sock : sock'[r] # NULL => Live(r) \/ r \in N
      /\ \A n \in N : Quiescent(n)
  BY DEF Delivered
<1>3. ASSUME NEW r \in Sock, sock'[r] # NULL
      PROVE  AcceptersAt(r)'
  <2>1. CASE r = l
    BY <2>1
  <2>2. CASE r # l /\ Live(r)
    <3>1. AcceptersKept(r, W)
      BY <1>2, <2>2 DEF KeptBy, AcceptersKept
    <3> QED
      BY <1>1, <2>2, <3>1, AcceptersAtStep
  <2>3. CASE r \in N
    BY <1>2, <2>3, QuiescentAt
  <2> QED
    BY <1>2, <1>3, <2>1, <2>2, <2>3
<1>4. Waiters'
  BY <1>1, <1>3 DEF Waiters, Live
<1>5. ASSUME NEW m \in Sock, sock'[m] # NULL
      PROVE  /\ Len(sock'[m].backlog) = Len(sock'[m].connect_waiters)
             /\ sock'[m].accept_waiters = <<>> \/ sock'[m].backlog = <<>>
             /\ \A i \in DOMAIN sock'[m].backlog : Queued1(m, i)'
  <2>1. CASE m = l
    BY <2>1
  <2>2. CASE m # l /\ Live(m)
    <3>1. /\ Len(sock'[m].backlog) = Len(sock'[m].connect_waiters)
          /\ \A i \in DOMAIN sock'[m].backlog : Queued1(m, i)'
      BY <1>1, <2>2, QueuedStep
    <3>2. sock'[m].accept_waiters = <<>> \/ sock'[m].backlog = <<>>
      BY <1>2, <2>2, UInvFacts DEF KeptBy, Backlogs
    <3> QED
      BY <3>1, <3>2
  <2>3. CASE m \in N
    <3>1. Quiescent(m) /\ DOMAIN sock'[m].backlog = {} /\ Len(sock'[m].backlog) = Len(sock'[m].connect_waiters)
      BY <1>2, <2>3, QuiescentAt
    <3> QED
      BY <3>1 DEF Quiescent
  <2> QED
    BY <1>2, <1>5, <2>1, <2>2, <2>3
<1>6. ASSUME NEW m \in Sock, sock'[m] # NULL, NEW i \in DOMAIN sock'[m].backlog
      PROVE  /\ Live(m)
             /\ \E k \in DOMAIN sock[m].backlog : sock'[m].backlog[i] = sock[m].backlog[k]
             /\ m # l => i \in DOMAIN sock[m].backlog /\ sock'[m].backlog[i] = sock[m].backlog[i]
  <2>1. m \notin N
    BY <1>2, <1>6, QuiescentAt
  <2>2. Live(m)
    BY <1>2, <1>6, <2>1
  <2>3. m # l => sock'[m].backlog = sock[m].backlog
    BY <1>2, <2>2 DEF KeptBy
  <2> QED
    BY <1>6, <2>2, <2>3
<1>7. ASSUME NEW m \in Sock, sock'[m] # NULL, NEW k \in Sock, sock'[k] # NULL,
             NEW i \in DOMAIN sock'[m].backlog, NEW j \in DOMAIN sock'[k].backlog,
             sock'[m].backlog[i] = sock'[k].backlog[j]
      PROVE  m = k /\ i = j
  <2>1. /\ Live(m) /\ Live(k) /\ m = k
    <3>1. PICK e \in DOMAIN sock[m].backlog : sock'[m].backlog[i] = sock[m].backlog[e]
      BY <1>6, <1>7
    <3>2. PICK f \in DOMAIN sock[k].backlog : sock'[k].backlog[j] = sock[k].backlog[f]
      BY <1>6, <1>7
    <3>3. Live(m) /\ Live(k)
      BY <1>6, <1>7
    <3>4. sock[m].backlog[e] = sock[k].backlog[f]
      BY <1>7, <3>1, <3>2
    <3> QED
      BY <3>3, <3>4, UInvFacts DEF Backlogs
  <2>2. CASE m = l
    BY <1>7, <2>1, <2>2
  <2>3. CASE m # l
    BY <1>6, <1>7, <2>1, <2>3, UInvFacts DEF Backlogs
  <2> QED
    BY <2>1, <2>2, <2>3
<1>8. Backlogs'
  BY <1>5, <1>7 DEF Backlogs, Live
<1> QED
  BY <1>1, <1>4, <1>8 DEF UInv

LEMMA EntryKept ==
  ASSUME UInv, NEW l, NEW s, NEW N, NEW W, Delivered(l, s, N, W), NEW x \in Sock, Live(x), x # s
  PROVE  QueueKept(x)
BY DEF Delivered, KeptBy, DataKept, QueueKept

LEMMA AcceptNowStep ==
  ASSUME UInv, NEW t \in Task, NEW l \in Sock, AcceptNow(t, l)
  PROVE  UInv'
<1>1. /\ Live(l) /\ sock[l] \in UnixSock /\ sock[l].state = "LISTENING" /\ sock[l].backlog # <<>>
      /\ sock_accept_deliver(sock, l, t)
      /\ task_unblock(FirstOf(sock[l].connect_waiters)) /\ bound_sockets' = bound_sockets
  BY UsesFacts DEF AcceptNow
<1>2. PICK q : q = sock[l].backlog
  OBVIOUS
<1>3. PICK w : w = sock[l].connect_waiters
  OBVIOUS
<1>4. q \in Seq(Sock) /\ w \in Seq(Task) /\ Len(q) = Len(w) /\ q # <<>>
  BY <1>1, <1>2, <1>3, Record, UInvFacts DEF Backlogs
<1>5. /\ Len(q) \in Nat \ {0} /\ DOMAIN q = 1 .. Len(q) /\ DOMAIN Tail(q) = 1 .. Len(q) - 1
      /\ Tail(q) \in Seq(Sock) /\ Len(Tail(q)) = Len(q) - 1
      /\ \A i \in 1 .. Len(q) - 1 : Tail(q)[i] = q[i + 1]
      /\ Head(q) = q[1] /\ 1 \in DOMAIN q /\ Head(q) \in Sock
  BY <1>4, TailFacts
<1>6. w # <<>>
  BY <1>4, <1>5
<1>7. /\ Len(Tail(w)) = Len(q) - 1 /\ \A i \in 1 .. Len(q) - 1 : Tail(w)[i] = w[i + 1]
      /\ Head(w) = w[1]
  BY <1>4, <1>6, TailFacts
<1>8. PICK s \in Sock : s = Head(q)
  BY <1>5
<1>9. PICK u : u = Head(w)
  OBVIOUS
<1>10. FirstOf(w) = {u} /\ Rest(w) = Tail(w)
  BY <1>6, <1>9 DEF FirstOf, Rest
<1>11. /\ sock[l].backlog[1] = s /\ sock[l].connect_waiters[1] = u /\ 1 \in DOMAIN sock[l].backlog
  BY <1>2, <1>3, <1>5, <1>7, <1>8, <1>9
<1>12. /\ Live(s) /\ Stream(s) /\ sock[s].peer = NULL /\ sock[s].state \in {"CONNECTING", "CLOSED"}
  BY <1>1, <1>11, QueuedFacts
<1>13. l # s /\ sock[s] \in UnixSock
  <2>1. sock[s] \in UnixSock
    BY <1>12, Record, UInvFacts
  <2> QED
    BY <1>1, <1>12, <2>1
<1>14. PICK N : Outcome(sock, l, s, N)
  <2>1. sock \in [Sock -> UnixSock \cup {NULL}] /\ Typed
    BY UInvFacts DEF Typed
  <2>2. l \notin FreeSock /\ s \notin FreeSock
    BY <1>1, <1>12 DEF FreeSock, Live
  <2>3. sock[l].backlog # <<>> /\ Head(sock[l].backlog) = s
    BY <1>1, <1>2, <1>8
  <2> QED
    BY <1>1, <1>12, <1>13, <2>1, <2>2, <2>3, Delivery
<1>15. Start(sock, l, s)
  BY <1>1, <1>12, <1>13 DEF Start, SameData
<1>16. ASSUME NEW r \in Sock, Live(r)
       PROVE  /\ Readers(sock, r) \cap {u} = {} /\ Nodes(sock[r].write_waiters) \cap {u} = {}
              /\ Nodes(sock[r].accept_waiters) \cap {u} = {}
  <2>1. u \notin Readers(sock, r) /\ u \notin Nodes(sock[r].write_waiters)
    BY <1>1, <1>11, <1>16, Apart
  <2>2. u \notin Nodes(sock[r].accept_waiters)
    BY <1>1, <1>11, <1>16, Apart
  <2> QED
    BY <2>1, <2>2
<1>17. Delivered(l, s, N, {u})
  BY <1>14, <1>15, <1>16, OutcomeDelivered
<1>18. /\ sock' \in [Sock -> UnixSock \cup {NULL}] /\ held' \in [Task -> SUBSET Sock]
       /\ sock'[l].backlog = Tail(q) /\ sock'[l].connect_waiters = Tail(w)
       /\ sock'[l].accept_waiters = sock[l].accept_waiters
  BY <1>2, <1>3, <1>10, <1>14 DEF Outcome, Popped
<1>19. task_unblock({u})
  BY <1>1, <1>3, <1>10
<1>20. StayAsleep({u})
  BY <1>1, <1>17, <1>18, <1>19, DeliveredStep
<1>21. AcceptersAt(l)'
  <2>1. AcceptersKept(l, {u})
    BY <1>1, <1>16, <1>18 DEF AcceptersKept
  <2> QED
    BY <1>1, <1>20, <2>1, AcceptersAtStep
<1>22. ASSUME NEW m \in Sock, Live(m), NEW i \in DOMAIN sock[m].backlog, m # l \/ i # 1
       PROVE  sock[m].connect_waiters[i] \notin {u} /\ QueueKept(sock[m].backlog[i])
  <2>1. sock[m].connect_waiters[i] # u
    BY <1>1, <1>11, <1>22, ConnectorsApart
  <2>2. PICK x \in Sock : x = sock[m].backlog[i] /\ Live(x)
    BY <1>22, QueuedFacts
  <2>3. x # s
    BY <1>1, <1>11, <1>22, <2>2, UInvFacts DEF Backlogs
  <2>4. QueueKept(x)
    BY <1>17, <2>2, <2>3, EntryKept
  <2> QED
    BY <2>1, <2>2, <2>4
<1>23. ASSUME NEW m \in Sock, Live(m), m # l
       PROVE  Nodes(sock[m].accept_waiters) \cap {u} = {} /\ QueuesKept(m, {u})
  <2>1. KeptBy(m, l, s)
    BY <1>17, <1>23 DEF Delivered
  <2> QED
    BY <1>16, <1>22, <1>23, <2>1 DEF QueuesKept, KeptBy
<1>24. ASSUME NEW i \in DOMAIN sock'[l].backlog
       PROVE  /\ Queued1(l, i)'
              /\ i + 1 \in DOMAIN sock[l].backlog /\ sock'[l].backlog[i] = sock[l].backlog[i + 1]
  <2>1. /\ i \in 1 .. Len(q) - 1 /\ i + 1 \in DOMAIN q /\ i + 1 # 1
    BY <1>5, <1>18
  <2>2. PICK k \in DOMAIN sock[l].backlog : k = i + 1 /\ k # 1
    BY <1>2, <2>1
  <2>3. /\ sock'[l].backlog[i] = sock[l].backlog[k]
        /\ sock'[l].connect_waiters[i] = sock[l].connect_waiters[k]
    BY <1>2, <1>3, <1>5, <1>7, <1>18, <2>1, <2>2
  <2>4. sock[l].connect_waiters[k] \notin {u} /\ QueueKept(sock[l].backlog[k])
    BY <1>1, <1>22, <2>2
  <2>5. PICK x : x = sock[l].backlog[k]
    OBVIOUS
  <2>6. PICK v : v = sock[l].connect_waiters[k]
    OBVIOUS
  <2>7. /\ state'[v] = "BLOCKED" /\ call'[v] = <<"connect", l, x>>
        /\ sock'[x].type = "STREAM" /\ sock'[x].state \in {"CONNECTING", "CLOSED"}
        /\ sock'[x].peer = NULL
    BY <1>1, <1>20, <2>2, <2>4, <2>5, <2>6, StillQueued
  <2> QED
    BY <2>2, <2>3, <2>5, <2>6, <2>7 DEF Queued1, Stream, Asleep
<1>25. ASSUME NEW i \in DOMAIN sock'[l].backlog
       PROVE  \E k \in DOMAIN sock[l].backlog :
                /\ sock'[l].backlog[i] = sock[l].backlog[k]
                /\ \A j \in DOMAIN sock'[l].backlog :
                     sock'[l].backlog[j] = sock[l].backlog[k] => i = j
  <2>1. ASSUME NEW j \in DOMAIN sock'[l].backlog, sock'[l].backlog[j] = sock[l].backlog[i + 1]
        PROVE  i = j
    <3>1. /\ j + 1 \in DOMAIN sock[l].backlog /\ i + 1 \in DOMAIN sock[l].backlog
          /\ sock[l].backlog[j + 1] = sock[l].backlog[i + 1]
      BY <1>24, <1>25, <2>1
    <3>2. i + 1 = j + 1
      BY <1>1, <3>1, UInvFacts DEF Backlogs
    <3>3. i \in Nat /\ j \in Nat
      BY <1>5, <1>18, <1>25, <2>1
    <3> QED
      BY <3>2, <3>3
  <2> QED
    BY <1>24, <1>25, <2>1
<1>26. Len(sock'[l].backlog) = Len(sock'[l].connect_waiters)
  BY <1>5, <1>7, <1>18, Zenon
<1>27. sock'[l].accept_waiters = <<>>
  BY <1>1, <1>18, UInvFacts DEF Backlogs
<1>28. \A i \in DOMAIN sock'[l].backlog : Queued1(l, i)'
  BY <1>24
<1> QED
  BY <1>1, <1>17, <1>18, <1>19, <1>21, <1>23, <1>25, <1>26, <1>27, <1>28, DeliveredUInv

LEMMA ConnectNowStep ==
  ASSUME UInv, Disciplined, NEW t \in Task, NEW s \in Sock, NEW path \in Path,
         ConnectNow(t, s, path)
  PROVE  UInv'
<1>1. PICK l \in Sock : l = unix_socket_lookup(path) /\ Connectable(t, s, l) /\ Live(l)
  BY ConnectableFacts, Found DEF ConnectNow, Connectable
<1>2. /\ Live(s) /\ sock[s] \in UnixSock /\ Stream(s)
      /\ sock[s].state \in {"UNCONNECTED", "BOUND"} /\ sock[s].peer = NULL
      /\ sock[l] \in UnixSock /\ sock[l].state = "LISTENING" /\ s # l
  BY <1>1, ConnectableFacts
<1>3. PICK q : q = sock[l].accept_waiters
  OBVIOUS
<1>4. PICK a : a = Head(q)
  OBVIOUS
<1>5. PICK S : S = [Queued(s, l) EXCEPT ![l].accept_waiters = Tail(@)]
  OBVIOUS
<1>6. /\ q # <<>> /\ sock_accept_deliver(S, l, a)
      /\ task_unblock({a} \cup FirstOf(sock[l].connect_waiters)) /\ bound_sockets' = bound_sockets
  BY <1>1, <1>3, <1>4, <1>5 DEF ConnectNow
<1>7. /\ sock[l].backlog = <<>> /\ sock[l].connect_waiters \in Seq(Task)
      /\ Len(sock[l].backlog) = Len(sock[l].connect_waiters) /\ q \in Seq(Task)
      /\ AcceptersAt(l)
  BY <1>1, <1>3, <1>6, Record, UInvFacts DEF Backlogs, Waiters
<1>8. sock[l].connect_waiters = <<>>
  <2>1. Len(sock[l].connect_waiters) = 0
    BY <1>7, EmptySeq
  <2> QED
    BY <1>7, <2>1, EmptySeq
<1>9. task_unblock({a})
  <2>1. FirstOf(sock[l].connect_waiters) = {}
    BY <1>8 DEF FirstOf
  <2>2. {a} \cup FirstOf(sock[l].connect_waiters) = {a}
    BY <2>1
  <2> QED
    BY <1>6, <2>2, Zenon
<1>10. /\ a \in Task /\ a \in Nodes(q) /\ Tail(q) \in Seq(Task)
       /\ Nodes(Tail(q)) \subseteq Nodes(q) \ {a} /\ Distinct(Tail(q))
  <2>1. Head(q) = q[1] /\ 1 \in DOMAIN q /\ Head(q) \in Task /\ Tail(q) \in Seq(Task)
    BY <1>6, <1>7, TailFacts
  <2>2. Distinct(q)
    BY <1>3, <1>7 DEF AcceptersAt
  <2>3. Nodes(Tail(q)) \subseteq Nodes(q) \ {Head(q)} /\ Distinct(Tail(q))
    BY <1>6, <1>7, <2>2, TailNodes
  <2> QED
    BY <1>4, <2>1, <2>3 DEF Nodes
<1>11. PICK b : b = Append(sock[l].backlog, s)
  OBVIOUS
<1>12. PICK e : e = Tail(q)
  OBVIOUS
<1>13. b \in Seq(Sock) /\ Len(b) = 1 /\ b[1] = s /\ DOMAIN b = {1}
  BY <1>7, <1>11, FirstWaiter
<1>14. b # <<>> /\ Head(b) = s /\ Tail(b) = <<>>
  <2>1. b # <<>>
    BY <1>7, <1>11, Appended, EmptySeq
  <2>2. Tail(b) = <<>> /\ Head(b) = b[1]
    <3>1. Len(b) <= 1
      BY <1>13
    <3> QED
      BY <1>13, <2>1, <3>1, Single
  <2> QED
    BY <1>13, <2>1, <2>2
<1> DEFINE c == [sock[l] EXCEPT !.backlog = b, !.accept_waiters = e]
           d == [sock[s] EXCEPT !.state = "CONNECTING"]
<1>15. c \in UnixSock /\ d \in UnixSock
  BY <1>2, <1>10, <1>12, <1>13 DEF UnixSock
<1>16. /\ c.backlog = b /\ c.accept_waiters = e
       /\ c.connect_waiters = sock[l].connect_waiters /\ c.state = sock[l].state
       /\ c.peer = sock[l].peer /\ SameData(c, sock[l])
  BY <1>2 DEF UnixSock, SameData
<1>17. /\ d.state = "CONNECTING" /\ d.peer = sock[s].peer /\ SameData(d, sock[s])
       /\ d.backlog = sock[s].backlog /\ d.connect_waiters = sock[s].connect_waiters
       /\ d.accept_waiters = sock[s].accept_waiters
  BY <1>2 DEF UnixSock, SameData
<1>18. S = [sock EXCEPT ![l] = c, ![s] = d]
  <2>1. sock \in [Sock -> UnixSock \cup {NULL}]
    BY UInvFacts DEF Typed
  <2> QED
    BY <1>1, <1>2, <1>3, <1>5, <1>11, <1>12, <2>1 DEF Queued
<1> HIDE DEF c, d
<1>19. /\ S \in [Sock -> UnixSock \cup {NULL}] /\ S[l] = c /\ S[s] = d
       /\ \A r \in Sock : r # l /\ r # s => S[r] = sock[r]
  <2>1. sock \in [Sock -> UnixSock \cup {NULL}]
    BY UInvFacts DEF Typed
  <2> QED
    BY <1>1, <1>2, <1>15, <1>18, <2>1
<1>20. PICK N : Outcome(S, l, s, N)
  <2>1. Typed /\ l \notin FreeSock /\ s \notin FreeSock
    BY <1>1, <1>2, UInvFacts DEF FreeSock, Live
  <2>2. S[l] \in UnixSock /\ S[s] \in UnixSock /\ S[s].peer = NULL
    BY <1>2, <1>15, <1>17, <1>19
  <2>3. S[l].backlog # <<>> /\ Head(S[l].backlog) = s
    BY <1>14, <1>16, <1>19
  <2> QED
    BY <1>2, <1>6, <1>10, <1>19, <2>1, <2>2, <2>3, Delivery
<1>21. Start(S, l, s)
  BY <1>1, <1>2, <1>16, <1>17, <1>19 DEF Start
<1>22. ASSUME NEW r \in Sock, Live(r)
       PROVE  /\ Readers(sock, r) \cap {a} = {} /\ Nodes(sock[r].write_waiters) \cap {a} = {}
              /\ r # l => Nodes(sock[r].accept_waiters) \cap {a} = {}
              /\ \A i \in DOMAIN sock[r].backlog : sock[r].connect_waiters[i] \notin {a}
  <2>1. a \in Nodes(sock[l].accept_waiters)
    BY <1>3, <1>10
  <2>2. a \notin Readers(sock, r) /\ a \notin Nodes(sock[r].write_waiters)
    BY <1>1, <1>22, <2>1, Apart
  <2>3. r # l => a \notin Nodes(sock[r].accept_waiters)
    BY <1>1, <1>22, <2>1, Apart
  <2>4. \A i \in DOMAIN sock[r].backlog : sock[r].connect_waiters[i] # a
    BY <1>1, <1>22, <2>1, Apart
  <2> QED
    BY <2>2, <2>3, <2>4
<1>23. Delivered(l, s, N, {a})
  BY <1>20, <1>21, <1>22, OutcomeDelivered
<1>24. /\ sock' \in [Sock -> UnixSock \cup {NULL}] /\ held' \in [Task -> SUBSET Sock]
       /\ sock'[l].backlog = <<>> /\ sock'[l].connect_waiters = <<>>
       /\ sock'[l].accept_waiters = e
  BY <1>8, <1>14, <1>16, <1>19, <1>20 DEF Outcome, Popped, Rest
<1>25. StayAsleep({a})
  BY <1>6, <1>9, <1>23, <1>24, DeliveredStep
<1>26. AcceptersAt(l)'
  <2>1. \A u \in Nodes(e) : u \in Task /\ u # a /\ Asleep(u) /\ call[u] = <<"accept", l>>
    <3>1. Nodes(e) \subseteq Nodes(q) \ {a}
      BY <1>10, <1>12
    <3>2. Nodes(q) \subseteq Task
      BY <1>7, NodesIn
    <3> QED
      BY <1>3, <1>7, <3>1, <3>2 DEF AcceptersAt
  <2>2. \A u \in Nodes(e) : state'[u] = "BLOCKED" /\ call'[u] = <<"accept", l>>
    BY <1>25, <2>1 DEF StayAsleep
  <2>3. Distinct(e)
    BY <1>10, <1>12
  <2> QED
    BY <1>24, <2>2, <2>3 DEF AcceptersAt, Asleep, Distinct
<1>27. ASSUME NEW m \in Sock, Live(m), m # l
       PROVE  Nodes(sock[m].accept_waiters) \cap {a} = {} /\ QueuesKept(m, {a})
  <2>1. KeptBy(m, l, s)
    BY <1>23, <1>27 DEF Delivered
  <2>2. ASSUME NEW i \in DOMAIN sock[m].backlog PROVE QueueKept(sock[m].backlog[i])
    <3>1. PICK x \in Sock : x = sock[m].backlog[i] /\ Live(x)
      BY <1>27, <2>2, QueuedFacts
    <3>2. x # s
      <4>1. ~(sock[s].state \in {"CONNECTING", "CLOSED"})
        BY <1>2
      <4> QED
        BY <1>27, <2>2, <3>1, <4>1, NotQueued
    <3>3. QueueKept(x)
      BY <1>23, <3>1, <3>2, EntryKept
    <3> QED
      BY <3>1, <3>3
  <2> QED
    BY <1>22, <1>27, <2>1, <2>2 DEF QueuesKept, KeptBy
<1>28. DOMAIN sock'[l].backlog = {}
  BY <1>24
<1>29. Len(sock'[l].backlog) = Len(sock'[l].connect_waiters)
  BY <1>24
<1>30. /\ sock'[l].accept_waiters = <<>> \/ sock'[l].backlog = <<>>
       /\ \A i \in DOMAIN sock'[l].backlog : Queued1(l, i)'
       /\ \A i \in DOMAIN sock'[l].backlog : \E k \in DOMAIN sock[l].backlog :
           /\ sock'[l].backlog[i] = sock[l].backlog[k]
           /\ \A j \in DOMAIN sock'[l].backlog : sock'[l].backlog[j] = sock[l].backlog[k] => i = j
  BY <1>24, <1>28
<1> QED
  BY <1>1, <1>6, <1>9, <1>23, <1>24, <1>26, <1>27, <1>29, <1>30, DeliveredUInv
-----------------------------------------------------------------------------
(* The last descriptors of a task are closed one by one: the fold over the *)
(* sockets is a function of their set, which exists because it is finite.  *)
Base == [sock |-> sock, bound |-> bound_sockets, woken |-> {}]
Pick(S) == CHOOSE s \in S : TRUE
Fold(G) == FoldSet(Shut, Base, G)
Step(f, G) == IF G = {} THEN Base ELSE Shut(Pick(G), f[G \ {Pick(G)}])
IsFold(f, S) == f = [G \in SUBSET S |-> Step(f, G)]

LEMMA FoldIs == ASSUME NEW S PROVE Fold(S) = (CHOOSE f : IsFold(f, S))[S]
BY DEF Fold, FoldSet, MapThenFoldSet, IsFold, Pick, Step

LEMMA SmallerSet ==
  ASSUME NEW S, IsFiniteSet(S), NEW G \in SUBSET S, G # {}
  PROVE  /\ G \ {Pick(G)} \in SUBSET S /\ Pick(G) \in G
         /\ Cardinality(G) \in Nat /\ Cardinality(G \ {Pick(G)}) = Cardinality(G) - 1
         /\ Cardinality(G \ {Pick(G)}) \in Nat
<1>1. Pick(G) \in G
  BY DEF Pick
<1>2. IsFiniteSet(G)
  BY FS_Subset
<1>3. Cardinality(G) \in Nat /\ Cardinality(G \ {Pick(G)}) = Cardinality(G) - 1
  BY <1>1, <1>2, FS_RemoveElement, FS_CardinalityType
<1>4. Cardinality(G \ {Pick(G)}) \in Nat
  BY <1>2, FS_Subset, FS_CardinalityType
<1> QED
  BY <1>1, <1>3, <1>4

Sized(S, n) == {G \in SUBSET S : Cardinality(G) <= n}

Agrees(S, n, f) ==
  \A G \in Sized(S, n) : G # {} =>
    [H \in Sized(S, n) |-> Step(f, H)][G \ {Pick(G)}] = f[G \ {Pick(G)}]
FoldTo(S, n) == \E f : f = [G \in Sized(S, n) |-> Step(f, G)]

LEMMA Unrolled ==
  ASSUME NEW S, NEW n, NEW f, Agrees(S, n, f)
  PROVE  FoldTo(S, n)
<1> DEFINE g == [H \in Sized(S, n) |-> Step(f, H)]
<1>1. \A G \in Sized(S, n) : Step(g, G) = Step(f, G)
  <2> TAKE G \in Sized(S, n)
  <2>1. CASE G = {}
    BY <2>1 DEF Step
  <2>2. CASE G # {}
    <3>1. g[G \ {Pick(G)}] = f[G \ {Pick(G)}]
      BY <2>2 DEF Agrees
    <3> HIDE DEF g
    <3> QED
      BY <3>1 DEF Step
  <2> QED
    BY <2>1, <2>2
<1>2. g = [H \in Sized(S, n) |-> Step(f, H)]
  OBVIOUS
<1> HIDE DEF g
<1>3. g = [G \in Sized(S, n) |-> Step(g, G)]
  BY <1>1, <1>2
<1> QED
  BY <1>3 DEF FoldTo

LEMMA FoldExists ==
  ASSUME NEW S, IsFiniteSet(S)
  PROVE  \E f : IsFold(f, S)
<1> DEFINE Bad == {n \in Nat : ~ FoldTo(S, n)}
<1>1. Bad = {}
  <2> SUFFICES ASSUME Bad # {} PROVE FALSE
    OBVIOUS
  <2>1. PICK n \in Bad : \A m \in Bad : n <= m
    <3> HIDE DEF Bad
    <3>1. Bad \subseteq Nat
      BY DEF Bad
    <3> QED
      BY <3>1, LeastOf
  <2>2. n \in Nat /\ ~ FoldTo(S, n)
    BY <2>1
  <2>3. \A G \in Sized(S, n) : G # {} => G \ {Pick(G)} \in Sized(S, n) \cap Sized(S, n - 1) /\ n # 0
    <3> SUFFICES ASSUME NEW G \in Sized(S, n), G # {}
                 PROVE  G \ {Pick(G)} \in Sized(S, n) \cap Sized(S, n - 1) /\ n # 0
      OBVIOUS
    <3>1. G \in SUBSET S /\ Cardinality(G) <= n
      BY DEF Sized
    <3>2. /\ G \ {Pick(G)} \in SUBSET S /\ Cardinality(G) \in Nat
          /\ Cardinality(G \ {Pick(G)}) = Cardinality(G) - 1 /\ Cardinality(G \ {Pick(G)}) \in Nat
      BY <3>1, SmallerSet
    <3> QED
      BY <2>2, <3>1, <3>2 DEF Sized
  <2>4. CASE n = 0
    <3>1. Agrees(S, n, 0)
      BY <2>3, <2>4 DEF Agrees
    <3> QED
      BY <2>2, <3>1, Unrolled
  <2>5. CASE n # 0
    <3>1. n - 1 \in Nat /\ ~(n <= n - 1)
      BY <2>2, <2>5
    <3>2. n - 1 \notin Bad
      <4> HIDE DEF Bad
      <4> QED
        BY <2>1, <3>1
    <3>3. PICK f : f = [G \in Sized(S, n - 1) |-> Step(f, G)]
      BY <3>1, <3>2 DEF FoldTo
    <3>4. Agrees(S, n, f)
      <4> SUFFICES ASSUME NEW G \in Sized(S, n), G # {}
                   PROVE  [H \in Sized(S, n) |-> Step(f, H)][G \ {Pick(G)}] = f[G \ {Pick(G)}]
        BY DEF Agrees
      <4> DEFINE H == G \ {Pick(G)}
      <4>1. H \in Sized(S, n) /\ H \in Sized(S, n - 1)
        BY <2>3
      <4> HIDE DEF H
      <4>2. f[H] = Step(f, H)
        BY <3>3, <4>1
      <4>3. [K \in Sized(S, n) |-> Step(f, K)][H] = Step(f, H)
        BY <4>1
      <4>4. [K \in Sized(S, n) |-> Step(f, K)][H] = f[H]
        BY <4>2, <4>3
      <4> QED
        BY <4>4 DEF H
    <3> QED
      BY <2>2, <3>4, Unrolled
  <2> QED
    BY <2>4, <2>5
<1>2. Cardinality(S) \in Nat
  BY FS_CardinalityType
<1>3. PICK f : f = [G \in Sized(S, Cardinality(S)) |-> Step(f, G)]
  BY <1>1, <1>2 DEF FoldTo
<1>4. Sized(S, Cardinality(S)) = SUBSET S
  <2>1. \A G \in SUBSET S : Cardinality(G) <= Cardinality(S)
    BY FS_Subset
  <2> QED
    BY <2>1 DEF Sized
<1>5. IsFold(f, S)
  BY <1>3, <1>4 DEF IsFold
<1> QED
  BY <1>5
-----------------------------------------------------------------------------
LEMMA Unregistered ==
  ASSUME NEW q \in Seq(Sock), Distinct(q), NEW s \in Sock
  PROVE  /\ Unregister(q, s) \in Seq(Sock) /\ Distinct(Unregister(q, s))
         /\ Nodes(Unregister(q, s)) = Nodes(q) \ {s}
<1> DEFINE at == {i \in DOMAIN q : q[i] = s}
<1>1. CASE at = {}
  <2>1. Unregister(q, s) = q
    BY <1>1 DEF Unregister
  <2>2. s \notin Nodes(q)
    BY <1>1 DEF Nodes
  <2> QED
    BY <2>1, <2>2
<1>2. CASE at # {}
  <2>1. PICK n \in Nat : n = Len(q)
    OBVIOUS
  <2>2. DOMAIN q = 1 .. n
    BY <2>1
  <2>3. PICK k \in 1 .. n : k = Lowest(at) /\ q[k] = s
    <3>1. at \subseteq Nat
      BY <2>2
    <3>2. Lowest(at) \in at
      BY <1>2, <3>1, LowestIn
    <3> QED
      BY <2>2, <3>2
  <2>4. PICK v : v = [q EXCEPT ![k] = q[n]]
    OBVIOUS
  <2>5. v \in Seq(Sock) /\ Len(v) = n /\ n >= 1 /\ n \in 1 .. n
    <3>1. n >= 1 /\ n \in 1 .. n
      BY <2>3
    <3>2. q[n] \in Sock
      BY <2>2, <3>1
    <3> QED
      BY <2>1, <2>2, <2>3, <2>4, <3>1, <3>2, ExceptSeq
  <2>6. Unregister(q, s) = SubSeq(v, 1, n - 1)
    BY <1>2, <2>1, <2>3, <2>4 DEF Unregister
  <2>7. PICK w : w = Unregister(q, s)
    OBVIOUS
  <2>8. /\ w \in Seq(Sock) /\ Len(w) = n - 1 /\ DOMAIN w = 1 .. n - 1
        /\ \A i \in 1 .. n - 1 : w[i] = v[i]
    <3>1. /\ SubSeq(v, 1, n - 1) \in Seq(Sock) /\ Len(SubSeq(v, 1, n - 1)) = n - 1
          /\ \A i \in 1 .. n - 1 : SubSeq(v, 1, n - 1)[i] = v[i]
      BY <2>5
    <3> QED
      BY <2>5, <2>6, <2>7, <3>1
  <2>9. \A i \in 1 .. n - 1 : w[i] = IF i = k THEN q[n] ELSE q[i]
    BY <2>2, <2>4, <2>8
  <2>10. Distinct(w)
    <3> SUFFICES ASSUME NEW i \in 1 .. n - 1, NEW j \in 1 .. n - 1, w[i] = w[j] PROVE i = j
      BY <2>8 DEF Distinct
    <3>1. n # i /\ n # j /\ i \in 1 .. n /\ j \in 1 .. n
      BY <2>1
    <3> QED
      BY <2>2, <2>5, <2>9, <3>1 DEF Distinct
  <2>11. Nodes(w) = Nodes(q) \ {s}
    <3>1. ASSUME NEW x \in Nodes(w) PROVE x \in Nodes(q) \ {s}
      <4>1. PICK i \in 1 .. n - 1 : x = w[i]
        BY <2>8 DEF Nodes
      <4>2. i \in 1 .. n /\ n # i
        BY <2>1
      <4>3. CASE i = k
        BY <2>2, <2>3, <2>5, <2>9, <4>1, <4>2, <4>3 DEF Nodes, Distinct
      <4>4. CASE i # k
        BY <2>2, <2>3, <2>9, <4>1, <4>2, <4>4 DEF Nodes, Distinct
      <4> QED
        BY <4>3, <4>4
    <3>2. ASSUME NEW x \in Nodes(q), x # s PROVE x \in Nodes(w)
      <4>1. PICK i \in 1 .. n : x = q[i] /\ i # k
        BY <2>2, <2>3, <3>2 DEF Nodes
      <4>2. CASE i = n
        <5>1. k \in 1 .. n - 1
          BY <2>1, <2>3, <4>1, <4>2
        <5> QED
          BY <2>8, <2>9, <4>1, <4>2, <5>1 DEF Nodes
      <4>3. CASE i # n
        <5>1. i \in 1 .. n - 1
          BY <2>1, <4>3
        <5> QED
          BY <2>8, <2>9, <4>1, <5>1 DEF Nodes
      <4> QED
        BY <4>2, <4>3
    <3> QED
      BY <3>1, <3>2
  <2> QED
    BY <2>7, <2>8, <2>10, <2>11
<1> QED
  BY <1>1, <1>2
-----------------------------------------------------------------------------
(* What the closing of the sockets in G leaves of a list of waiters, of a  *)
(* socket, and of everything: a waiter is woken when its list is emptied.  *)
ListLeft(old, new, tasks, W) ==
  \/ new = old /\ tasks \cap W = {}
  \/ new = <<>> /\ tasks \subseteq W

PlainLeft(r, c) ==
  /\ c.type = sock[r].type /\ c.state = sock[r].state /\ c.path = sock[r].path
  /\ c.data_len = sock[r].data_len /\ c.backlog = sock[r].backlog
  /\ c.accept_waiters = sock[r].accept_waiters /\ c.connect_waiters = sock[r].connect_waiters

PeerLeft(r, G, c) ==
  Stream(r) => /\ c.peer = IF sock[r].peer \in G THEN NULL ELSE sock[r].peer
               /\ sock[r].peer \in G => c.read_waiters = <<>> /\ c.write_waiters = <<>>

ListsLeft(r, c, W) ==
  /\ ListLeft(sock[r].read_waiters, c.read_waiters, Readers(sock, r), W)
  /\ ListLeft(sock[r].write_waiters, c.write_waiters, Nodes(sock[r].write_waiters), W)
  /\ Nodes(sock[r].accept_waiters) \cap W = {}
  /\ \A i \in DOMAIN sock[r].backlog : sock[r].connect_waiters[i] \notin W

GoneAt(r, K) ==
  K.sock[r] = NULL /\ Readers(sock, r) \cup Nodes(sock[r].write_waiters) \subseteq K.woken
LeftAt(r, G, K) ==
  /\ K.sock[r] # NULL /\ PlainLeft(r, K.sock[r]) /\ PeerLeft(r, G, K.sock[r])
  /\ ListsLeft(r, K.sock[r], K.woken)

Closed(G, K) ==
  /\ K.sock \in [Sock -> UnixSock \cup {NULL}]
  /\ \A r \in G : GoneAt(r, K)
  /\ \A r \in Sock \ G : IF Live(r) THEN LeftAt(r, G, K) ELSE K.sock[r] = NULL
  /\ K.bound \in Seq(Sock) /\ Distinct(K.bound) /\ Nodes(K.bound) = Nodes(bound_sockets) \ G

LEMMA ClosedBase == ASSUME UInv PROVE Closed({}, Base)
<1>1. Base.sock = sock /\ Base.bound = bound_sockets /\ Base.woken = {}
  BY DEF Base
<1>2. ASSUME NEW r \in Sock, Live(r) PROVE LeftAt(r, {}, Base)
  BY <1>1, <1>2 DEF LeftAt, PlainLeft, PeerLeft, ListsLeft, ListLeft, Live
<1>3. \A r \in Sock : ~Live(r) => Base.sock[r] = NULL
  BY <1>1 DEF Live
<1>4. sock \in [Sock -> UnixSock \cup {NULL}] /\ bound_sockets \in Seq(Sock) /\ Distinct(bound_sockets)
  BY UInvFacts DEF Typed, Names
<1> QED
  BY <1>1, <1>2, <1>3, <1>4 DEF Closed

(* The tasks that the closing of s wakes: R is s and its peer. *)
Added(u, s, R) ==
  \/ \E r \in R : u \in Readers(sock, r) \cup Nodes(sock[r].write_waiters)
  \/ u \in Nodes(sock[s].accept_waiters)
  \/ \E i \in DOMAIN sock[s].backlog : u = sock[s].connect_waiters[i]

LEMMA AddedApart ==
  ASSUME UInv, NEW s \in Sock, Live(s), NEW R \in SUBSET Sock, \A q \in R : Live(q),
         NEW u, Added(u, s, R), NEW r \in Sock, Live(r)
  PROVE  /\ r \notin R \cup {s} => u \notin Readers(sock, r) \cup Nodes(sock[r].write_waiters)
         /\ r # s => /\ u \notin Nodes(sock[r].accept_waiters)
                     /\ \A i \in DOMAIN sock[r].backlog : u # sock[r].connect_waiters[i]
<1>1. ASSUME NEW q \in R, u \in Readers(sock, q) \cup Nodes(sock[q].write_waiters)
      PROVE  /\ r \notin R \cup {s} => u \notin Readers(sock, r) \cup Nodes(sock[r].write_waiters)
             /\ r # s => /\ u \notin Nodes(sock[r].accept_waiters)
                         /\ \A i \in DOMAIN sock[r].backlog : u # sock[r].connect_waiters[i]
  <2>1. q \in Sock /\ Live(q)
    OBVIOUS
  <2>2. /\ u \notin Nodes(sock[r].accept_waiters)
        /\ \A i \in DOMAIN sock[r].backlog : u # sock[r].connect_waiters[i]
    BY <1>1, <2>1, Apart
  <2>3. r # q => u \notin Readers(sock, r) \cup Nodes(sock[r].write_waiters)
    <3>1. /\ u \in Readers(sock, q) /\ u \in Readers(sock, r) => q = r
          /\ u \in Nodes(sock[q].write_waiters) /\ u \in Nodes(sock[r].write_waiters) => q = r
          /\ u \in Readers(sock, q) => u \notin Nodes(sock[r].write_waiters)
      BY <2>1, Apart
    <3>2. u \in Readers(sock, r) => u \notin Nodes(sock[q].write_waiters)
      BY <2>1, Apart
    <3> QED
      BY <1>1, <3>1, <3>2
  <2> QED
    BY <2>2, <2>3
<1>2. ASSUME u \in Nodes(sock[s].accept_waiters)
      PROVE  /\ u \notin Readers(sock, r) \cup Nodes(sock[r].write_waiters)
             /\ r # s => u \notin Nodes(sock[r].accept_waiters)
             /\ \A i \in DOMAIN sock[r].backlog : u # sock[r].connect_waiters[i]
  <2>1. /\ u \in Nodes(sock[s].accept_waiters) /\ u \in Nodes(sock[r].accept_waiters) => s = r
        /\ \A i \in DOMAIN sock[r].backlog : u # sock[r].connect_waiters[i]
    BY <1>2, Apart
  <2>2. u \notin Readers(sock, r) \cup Nodes(sock[r].write_waiters)
    BY <1>2, Apart
  <2> QED
    BY <1>2, <2>1, <2>2
<1>3. ASSUME NEW i \in DOMAIN sock[s].backlog, u = sock[s].connect_waiters[i]
      PROVE  /\ u \notin Readers(sock, r) \cup Nodes(sock[r].write_waiters)
             /\ u \notin Nodes(sock[r].accept_waiters)
             /\ \A j \in DOMAIN sock[r].backlog : u = sock[r].connect_waiters[j] => s = r
  <2>1. /\ u \notin Readers(sock, r) \cup Nodes(sock[r].write_waiters)
        /\ u \notin Nodes(sock[r].accept_waiters)
    BY <1>3, Apart
  <2>2. ASSUME NEW j \in DOMAIN sock[r].backlog, u = sock[r].connect_waiters[j] PROVE s = r
    <3>1. sock[s].connect_waiters[i] = sock[r].connect_waiters[j]
      BY <1>3, <2>2
    <3> QED
      BY <3>1, ConnectorsApart
  <2> QED
    BY <2>1, <2>2
<1> QED
  BY <1>1, <1>2, <1>3 DEF Added

(* The lists of a socket that is left change again, or not. *)
LEMMA LeftAgain ==
  ASSUME NEW old, NEW new, NEW tasks, NEW W, NEW V, ListLeft(old, new, tasks, W), W \subseteq V
  PROVE  /\ tasks \cap V \subseteq W => ListLeft(old, new, tasks, V)
         /\ tasks \subseteq V => ListLeft(old, <<>>, tasks, V)
BY DEF ListLeft

(* The part of a list that is left when its socket goes. *)
LEMMA LeftNodes ==
  ASSUME UInv, NEW r \in Sock, Live(r), NEW G, NEW K, LeftAt(r, G, K)
  PROVE  /\ Readers(K.sock, r) \subseteq Readers(sock, r)
         /\ Readers(sock, r) \subseteq Readers(K.sock, r) \cup K.woken
         /\ Nodes(K.sock[r].write_waiters) \subseteq Nodes(sock[r].write_waiters)
         /\ Nodes(sock[r].write_waiters) \subseteq Nodes(K.sock[r].write_waiters) \cup K.woken
<1>1. \/ K.sock[r].read_waiters = sock[r].read_waiters
      \/ K.sock[r].read_waiters = <<>> /\ Readers(sock, r) \subseteq K.woken
  BY DEF LeftAt, ListsLeft, ListLeft
<1>2. \/ K.sock[r].write_waiters = sock[r].write_waiters
      \/ K.sock[r].write_waiters = <<>> /\ Nodes(sock[r].write_waiters) \subseteq K.woken
  BY DEF LeftAt, ListsLeft, ListLeft
<1>3. K.sock[r].read_waiters = sock[r].read_waiters => Readers(K.sock, r) = Readers(sock, r)
  BY DEF Readers
<1> QED
  BY <1>1, <1>2, <1>3, NoNodes

(* A stream socket whose peer goes is the peer of that. *)
LEMMA PeerOfGone ==
  ASSUME UInv, NEW s \in Sock, Live(s), NEW r \in Sock, Live(r), Stream(r), sock[r].peer = s
  PROVE  Stream(s) /\ sock[s].peer = r
<1>1. sock[r].peer # NULL
  BY SocketAssumption
<1> QED
  BY <1>1, UInvFacts DEF PeersMutual, OneType, Live, Stream

(* The socket that closes, its peer (P, at most one) and the woken. *)
LEMMA ShutFacts ==
  ASSUME UInv, NEW G \in SUBSET Sock, NEW s \in Sock, Live(s), s \notin G,
         \A r \in G : Live(r), NEW K, Closed(G, K)
  PROVE  \E P \in SUBSET Sock :
           /\ \A p \in P : Live(p) /\ p \notin G /\ p = K.sock[s].peer
           /\ K.sock[s].peer # NULL /\ K.sock[K.sock[s].peer] # NULL => K.sock[s].peer \in P
           /\ \A u \in Shut(s, K).woken \ K.woken : Added(u, s, P \cup {s})
           /\ K.woken \subseteq Shut(s, K).woken
           /\ \A p \in P \cup {s} :
                Readers(sock, p) \cup Nodes(sock[p].write_waiters) \subseteq Shut(s, K).woken
<1> DEFINE me == K.sock[s]
           P == IF me.peer # NULL /\ K.sock[me.peer] # NULL THEN {me.peer} ELSE {}
           L == Shut(s, K)
<1>1. LeftAt(s, G, K) /\ me \in UnixSock
  BY DEF Closed, LeftAt
<1>2. me.peer \in Sock \cup {NULL}
  BY <1>1 DEF UnixSock
<1>3. \A p \in P : p \in Sock /\ p = me.peer /\ K.sock[p] # NULL
  BY <1>2
<1>4. \A p \in P : Live(p) /\ p \notin G /\ LeftAt(p, G, K)
  <2>1. TAKE p \in P
  <2>2. p \in Sock /\ K.sock[p] # NULL
    BY <1>3
  <2> HIDE DEF P
  <2> QED
    BY <2>2 DEF Closed, GoneAt
<1>5. L.woken = K.woken \cup Readers(K.sock, s) \cup Nodes(me.write_waiters)
                  \cup Nodes(sock[s].accept_waiters) \cup Nodes(sock[s].connect_waiters)
                  \cup UNION {Readers(K.sock, p) \cup Nodes(K.sock[p].write_waiters) : p \in P}
  BY <1>1 DEF Shut, LeftAt, PlainLeft
<1> HIDE DEF me, P, L
<1>6. \A p \in P \cup {s} :
        /\ Readers(K.sock, p) \subseteq Readers(sock, p)
        /\ Readers(sock, p) \subseteq Readers(K.sock, p) \cup K.woken
        /\ Nodes(K.sock[p].write_waiters) \subseteq Nodes(sock[p].write_waiters)
        /\ Nodes(sock[p].write_waiters) \subseteq Nodes(K.sock[p].write_waiters) \cup K.woken
  BY <1>1, <1>3, <1>4, LeftNodes
<1>7. \A u \in Nodes(sock[s].connect_waiters) :
        \E i \in DOMAIN sock[s].backlog : u = sock[s].connect_waiters[i]
  <2>1. DOMAIN sock[s].backlog = DOMAIN sock[s].connect_waiters
    BY Record, UInvFacts DEF Backlogs
  <2> QED
    BY <2>1 DEF Nodes
<1>8. ASSUME NEW u \in L.woken, u \notin K.woken PROVE Added(u, s, P \cup {s})
  <2>1. CASE u \in Readers(K.sock, s) \cup Nodes(me.write_waiters)
    BY <1>6, <2>1 DEF Added, me
  <2>2. CASE u \in Nodes(sock[s].accept_waiters) \cup Nodes(sock[s].connect_waiters)
    BY <1>7, <2>2 DEF Added
  <2>3. CASE \E p \in P : u \in Readers(K.sock, p) \cup Nodes(K.sock[p].write_waiters)
    BY <1>6, <2>3 DEF Added
  <2> QED
    BY <1>5, <1>8, <2>1, <2>2, <2>3
<1>9. \A p \in P \cup {s} : Readers(sock, p) \cup Nodes(sock[p].write_waiters) \subseteq L.woken
  <2> SUFFICES ASSUME NEW p \in P \cup {s}
               PROVE  Readers(sock, p) \cup Nodes(sock[p].write_waiters) \subseteq L.woken
    OBVIOUS
  <2>1. Readers(K.sock, p) \cup Nodes(K.sock[p].write_waiters) \subseteq L.woken
    BY <1>5 DEF me
  <2>2. K.woken \subseteq L.woken
    BY <1>5
  <2> QED
    BY <1>6, <2>1, <2>2
<1>10. K.woken \subseteq L.woken
  BY <1>5
<1>11. me.peer # NULL /\ K.sock[me.peer] # NULL => me.peer \in P
  BY DEF P
<1>12. P \in SUBSET Sock /\ \A p \in P : Live(p) /\ p \notin G /\ p = me.peer
  BY <1>3, <1>4
<1> QED
  BY <1>8, <1>9, <1>10, <1>11, <1>12 DEF me, L

(* The sockets after s is closed. *)
LEMMA ShutSock ==
  ASSUME NEW s \in Sock, NEW K, K.sock \in [Sock -> UnixSock \cup {NULL}], K.sock[s] # NULL
  PROVE  LET me == K.sock[s]
             S == Shut(s, K).sock
         IN  /\ S \in [Sock -> UnixSock \cup {NULL}] /\ S[s] = NULL
             /\ \A r \in Sock \ {s} : r # me.peer \/ K.sock[r] = NULL => S[r] = K.sock[r]
             /\ \A r \in Sock \ {s} : r = me.peer /\ K.sock[r] # NULL =>
                  /\ S[r] # NULL /\ S[r].read_waiters = <<>> /\ S[r].write_waiters = <<>>
                  /\ S[r].peer = IF K.sock[r].peer = s THEN NULL ELSE K.sock[r].peer
                  /\ S[r].type = K.sock[r].type /\ S[r].state = K.sock[r].state
                  /\ S[r].path = K.sock[r].path /\ S[r].data_len = K.sock[r].data_len
                  /\ S[r].backlog = K.sock[r].backlog
                  /\ S[r].accept_waiters = K.sock[r].accept_waiters
                  /\ S[r].connect_waiters = K.sock[r].connect_waiters
<1> DEFINE p == K.sock[s].peer
           other == [K.sock[p] EXCEPT !.peer = IF @ = s THEN NULL ELSE @,
                                      !.read_waiters = <<>>, !.write_waiters = <<>>]
           S == Shut(s, K).sock
<1>1. K.sock[s] \in UnixSock /\ p \in Sock \cup {NULL}
  <2>1. K.sock[s] \in UnixSock
    OBVIOUS
  <2> QED
    BY <2>1 DEF UnixSock
<1>2. CASE p # NULL /\ K.sock[p] # NULL
  <2>1. S = [K.sock EXCEPT ![p] = other, ![s] = NULL]
    BY <1>2 DEF Shut
  <2>2. p \in Sock /\ K.sock[p] \in UnixSock
    BY <1>1, <1>2
  <2>3. /\ other \in UnixSock /\ other # NULL
        /\ other.read_waiters = <<>> /\ other.write_waiters = <<>>
        /\ other.peer = IF K.sock[p].peer = s THEN NULL ELSE K.sock[p].peer
        /\ other.type = K.sock[p].type /\ other.state = K.sock[p].state
        /\ other.path = K.sock[p].path /\ other.data_len = K.sock[p].data_len
        /\ other.backlog = K.sock[p].backlog
        /\ other.accept_waiters = K.sock[p].accept_waiters
        /\ other.connect_waiters = K.sock[p].connect_waiters
    <3>1. PICK c : c = K.sock[p] /\ c \in UnixSock
      BY <2>2
    <3>2. PICK w : w = <<>>
      OBVIOUS
    <3>3. w \in Seq(Task) /\ w \in Seq(Waiter)
      BY <3>2, EmptySeq
    <3>4. PICK z : z = (IF c.peer = s THEN NULL ELSE c.peer) /\ z \in Sock \cup {NULL}
      BY <3>1 DEF UnixSock
    <3>5. other = [c EXCEPT !.peer = z, !.read_waiters = w, !.write_waiters = w]
      BY <3>1, <3>2, <3>4
    <3>6. [c EXCEPT !.peer = z, !.read_waiters = w, !.write_waiters = w] \in UnixSock
      BY <3>1, <3>3, <3>4 DEF UnixSock
    <3>7. other \in UnixSock /\ other # NULL
      BY <3>5, <3>6, SocketAssumption
    <3>8. /\ other.read_waiters = w /\ other.write_waiters = w /\ other.peer = z
          /\ other.type = c.type /\ other.state = c.state /\ other.path = c.path
          /\ other.data_len = c.data_len /\ other.backlog = c.backlog
          /\ other.accept_waiters = c.accept_waiters /\ other.connect_waiters = c.connect_waiters
      BY <3>1, <3>5 DEF UnixSock
    <3> HIDE DEF other
    <3> QED
      BY <3>1, <3>2, <3>4, <3>7, <3>8
  <2> HIDE DEF other, S, p
  <2>4. /\ S \in [Sock -> UnixSock \cup {NULL}] /\ S[s] = NULL
        /\ \A r \in Sock \ {s} : r # p => S[r] = K.sock[r]
        /\ \A r \in Sock \ {s} : r = p => S[r] = other
    BY <2>1, <2>2, <2>3
  <2> QED
    BY <1>2, <2>3, <2>4 DEF S, p
<1>3. CASE ~(p # NULL /\ K.sock[p] # NULL)
  <2>1. S = [K.sock EXCEPT ![s] = NULL]
    BY <1>3 DEF Shut
  <2> HIDE DEF S
  <2>2. /\ S \in [Sock -> UnixSock \cup {NULL}] /\ S[s] = NULL
        /\ \A r \in Sock \ {s} : S[r] = K.sock[r]
    BY <2>1
  <2>3. \A r \in Sock : r # p \/ K.sock[r] = NULL
    BY <1>3, SocketAssumption
  <2> QED
    BY <2>2, <2>3 DEF S
<1> QED
  BY <1>2, <1>3

LEMMA ShutBound ==
  ASSUME UInv, NEW G \in SUBSET Sock, NEW s \in Sock, Live(s), s \notin G, NEW K, Closed(G, K)
  PROVE  LET B == Shut(s, K).bound
         IN  B \in Seq(Sock) /\ Distinct(B) /\ Nodes(B) = Nodes(bound_sockets) \ (G \cup {s})
<1>1. K.bound \in Seq(Sock) /\ Distinct(K.bound) /\ Nodes(K.bound) = Nodes(bound_sockets) \ G
  BY DEF Closed
<1>2. K.sock[s].path = sock[s].path
  BY DEF Closed, LeftAt, PlainLeft
<1>3. Shut(s, K).bound = IF sock[s].path = NULL THEN K.bound ELSE Unregister(K.bound, s)
  BY <1>2 DEF Shut
<1>4. CASE sock[s].path = NULL
  <2>1. s \notin Nodes(bound_sockets)
    BY <1>4, UInvFacts DEF Names, BoundTableExact
  <2> QED
    BY <1>1, <1>3, <1>4, <2>1
<1>5. CASE sock[s].path # NULL
  <2>1. /\ Unregister(K.bound, s) \in Seq(Sock) /\ Distinct(Unregister(K.bound, s))
        /\ Nodes(Unregister(K.bound, s)) = Nodes(K.bound) \ {s}
    BY <1>1, Unregistered
  <2> QED
    BY <1>1, <1>3, <1>5, <2>1
<1> QED
  BY <1>4, <1>5

LEMMA ShutStep ==
  ASSUME UInv, NEW G \in SUBSET Sock, NEW s \in Sock, Live(s), s \notin G,
         \A r \in G : Live(r), NEW K, Closed(G, K)
  PROVE  Closed(G \cup {s}, Shut(s, K))
<1>1. PICK P \in SUBSET Sock :
        /\ \A p \in P : Live(p) /\ p \notin G /\ p = K.sock[s].peer
        /\ K.sock[s].peer # NULL /\ K.sock[K.sock[s].peer] # NULL => K.sock[s].peer \in P
        /\ \A u \in Shut(s, K).woken \ K.woken : Added(u, s, P \cup {s})
        /\ K.woken \subseteq Shut(s, K).woken
        /\ \A p \in P \cup {s} :
             Readers(sock, p) \cup Nodes(sock[p].write_waiters) \subseteq Shut(s, K).woken
  BY ShutFacts
<1>2. /\ K.sock \in [Sock -> UnixSock \cup {NULL}]
      /\ \A r \in G : GoneAt(r, K)
      /\ \A r \in Sock \ G : IF Live(r) THEN LeftAt(r, G, K) ELSE K.sock[r] = NULL
      /\ LeftAt(s, G, K)
  BY DEF Closed
<1>3. PICK L : L = Shut(s, K)
  OBVIOUS
<1>4. PICK q : q = K.sock[s].peer /\ q \in Sock \cup {NULL}
  <2>1. K.sock[s] \in UnixSock
    BY <1>2 DEF LeftAt
  <2> QED
    BY <2>1 DEF UnixSock
<1>5. /\ L.sock \in [Sock -> UnixSock \cup {NULL}] /\ L.sock[s] = NULL
      /\ \A r \in Sock \ {s} : r # q \/ K.sock[r] = NULL => L.sock[r] = K.sock[r]
      /\ \A r \in Sock \ {s} : r = q /\ K.sock[r] # NULL =>
           /\ L.sock[r] # NULL /\ L.sock[r].read_waiters = <<>> /\ L.sock[r].write_waiters = <<>>
           /\ L.sock[r].peer = IF K.sock[r].peer = s THEN NULL ELSE K.sock[r].peer
           /\ PlainLeft(r, K.sock[r]) => PlainLeft(r, L.sock[r])
  <2>1. K.sock[s] # NULL
    BY <1>2 DEF LeftAt
  <2> QED
    BY <1>2, <1>3, <1>4, <2>1, ShutSock DEF PlainLeft
<1>6. /\ \A p \in P : Live(p) /\ p \notin G /\ p = q
      /\ q # NULL /\ K.sock[q] # NULL => q \in P
      /\ \A u \in L.woken \ K.woken : Added(u, s, P \cup {s})
      /\ K.woken \subseteq L.woken
      /\ \A p \in P \cup {s} : Readers(sock, p) \cup Nodes(sock[p].write_waiters) \subseteq L.woken
  BY <1>1, <1>3, <1>4
<1>7. \A r \in G \cup {s} : GoneAt(r, L)
  <2>1. ASSUME NEW r \in G PROVE GoneAt(r, L)
    <3>1. r # s /\ K.sock[r] = NULL
      BY <1>2 DEF GoneAt
    <3>2. L.sock[r] = NULL
      BY <1>5, <3>1
    <3> QED
      BY <1>2, <1>6, <3>2 DEF GoneAt
  <2>2. GoneAt(s, L)
    BY <1>5, <1>6 DEF GoneAt
  <2> QED
    BY <2>1, <2>2
<1>8. ASSUME NEW r \in Sock, r \notin G \cup {s}, ~Live(r) PROVE L.sock[r] = NULL
  <2>1. K.sock[r] = NULL
    BY <1>2, <1>8
  <2> QED
    BY <1>5, <1>8, <2>1
<1>9. ASSUME NEW r \in Sock, r \notin G \cup {s}, Live(r) PROVE LeftAt(r, G \cup {s}, L)
  <2>1. /\ K.sock[r] # NULL /\ PlainLeft(r, K.sock[r]) /\ PeerLeft(r, G, K.sock[r])
        /\ ListsLeft(r, K.sock[r], K.woken)
    BY <1>2, <1>9 DEF LeftAt
  <2>2. L.sock[r] # NULL /\ PlainLeft(r, L.sock[r])
    BY <1>5, <1>9, <2>1
  <2>3. Stream(r) /\ sock[r].peer = s => r = q
    <3> SUFFICES ASSUME Stream(r), sock[r].peer = s PROVE r = q
      OBVIOUS
    <3>1. Stream(s) /\ sock[s].peer = r
      BY <1>9, PeerOfGone
    <3>2. PeerLeft(s, G, K.sock[s])
      BY <1>2 DEF LeftAt
    <3> QED
      BY <1>4, <1>9, <3>1, <3>2 DEF PeerLeft
  <2>4. PeerLeft(r, G \cup {s}, L.sock[r])
    <3> SUFFICES ASSUME Stream(r)
                 PROVE  /\ L.sock[r].peer = IF sock[r].peer \in G \cup {s} THEN NULL ELSE sock[r].peer
                        /\ sock[r].peer \in G \cup {s} =>
                             L.sock[r].read_waiters = <<>> /\ L.sock[r].write_waiters = <<>>
      BY DEF PeerLeft
    <3>1. /\ K.sock[r].peer = IF sock[r].peer \in G THEN NULL ELSE sock[r].peer
          /\ sock[r].peer \in G => K.sock[r].read_waiters = <<>> /\ K.sock[r].write_waiters = <<>>
      BY <2>1 DEF PeerLeft
    <3>2. s # NULL
      BY SocketAssumption
    <3>3. CASE r = q
      BY <1>5, <1>9, <2>1, <3>1, <3>2, <3>3
    <3>4. CASE r # q
      <4>1. L.sock[r] = K.sock[r] /\ sock[r].peer # s
        BY <1>5, <1>9, <2>3, <3>4
      <4> QED
        BY <3>1, <4>1
    <3> QED
      BY <3>3, <3>4
  <2>5. \A u \in L.woken \ K.woken :
          /\ r \notin P => u \notin Readers(sock, r) \cup Nodes(sock[r].write_waiters)
          /\ u \notin Nodes(sock[r].accept_waiters)
          /\ \A i \in DOMAIN sock[r].backlog : u # sock[r].connect_waiters[i]
    <3> TAKE u \in L.woken \ K.woken
    <3>1. PICK R \in SUBSET Sock : R = P \cup {s}
      OBVIOUS
    <3>2. Added(u, s, R) /\ \A p \in R : Live(p)
      BY <1>6, <3>1
    <3>3. r # s /\ (r \notin P => r \notin R \cup {s})
      BY <1>9, <3>1
    <3>4. /\ r \notin R \cup {s} => u \notin Readers(sock, r) \cup Nodes(sock[r].write_waiters)
          /\ r # s => /\ u \notin Nodes(sock[r].accept_waiters)
                      /\ \A i \in DOMAIN sock[r].backlog : u # sock[r].connect_waiters[i]
      BY <1>9, <3>2, AddedApart
    <3> QED
      BY <3>3, <3>4
  <2>6. CASE r \in P
    <3>1. L.sock[r].read_waiters = <<>> /\ L.sock[r].write_waiters = <<>>
      BY <1>5, <1>6, <1>9, <2>1, <2>6
    <3>2. ListsLeft(r, L.sock[r], L.woken)
      BY <1>6, <2>1, <2>5, <2>6, <3>1 DEF ListsLeft, ListLeft
    <3> QED
      BY <2>2, <2>4, <3>2 DEF LeftAt
  <2>7. CASE r \notin P
    <3>1. L.sock[r] = K.sock[r]
      BY <1>5, <1>6, <1>9, <2>1, <2>7, SocketAssumption
    <3>2. /\ Readers(sock, r) \cap L.woken \subseteq K.woken
          /\ Nodes(sock[r].write_waiters) \cap L.woken \subseteq K.woken
      BY <2>5, <2>7
    <3>3. /\ Nodes(sock[r].accept_waiters) \cap L.woken = {}
          /\ \A i \in DOMAIN sock[r].backlog : sock[r].connect_waiters[i] \notin L.woken
      BY <2>1, <2>5 DEF ListsLeft
    <3>4. ListsLeft(r, L.sock[r], L.woken)
      BY <1>6, <2>1, <3>1, <3>2, <3>3, LeftAgain DEF ListsLeft
    <3> QED
      BY <2>2, <2>4, <3>4 DEF LeftAt
  <2> QED
    BY <2>6, <2>7
<1>10. /\ L.bound \in Seq(Sock) /\ Distinct(L.bound)
       /\ Nodes(L.bound) = Nodes(bound_sockets) \ (G \cup {s})
  BY <1>3, ShutBound
<1>11. Closed(G \cup {s}, L)
  BY <1>5, <1>7, <1>8, <1>9, <1>10 DEF Closed
<1> QED
  BY <1>3, <1>11

(* By induction over the number of sockets that are closed. *)
LEMMA FoldCloses ==
  ASSUME UInv, NEW G0 \in SUBSET Sock, \A r \in G0 : Live(r)
  PROVE  Closed(G0, Fold(G0))
<1>1. IsFiniteSet(G0)
  BY SocketAssumption, FS_Subset
<1>2. PICK f : IsFold(f, G0) /\ f = (CHOOSE g : IsFold(g, G0))
  BY <1>1, FoldExists
<1>3. \A G \in SUBSET G0 : f[G] = IF G = {} THEN Base ELSE Shut(Pick(G), f[G \ {Pick(G)}])
  BY <1>2 DEF IsFold, Step
<1> DEFINE Bad == {n \in Nat : \E G \in SUBSET G0 : Cardinality(G) = n /\ ~Closed(G, f[G])}
<1>4. Bad = {}
  <2> SUFFICES ASSUME Bad # {} PROVE FALSE
    OBVIOUS
  <2>1. PICK n \in Bad : \A m \in Bad : n <= m
    <3> HIDE DEF Bad
    <3>1. Bad \subseteq Nat
      BY DEF Bad
    <3> QED
      BY <3>1, LeastOf
  <2>2. PICK G \in SUBSET G0 : Cardinality(G) = n /\ ~Closed(G, f[G])
    BY <2>1
  <2>3. CASE G = {}
    <3>1. f[G] = Base
      BY <1>3, <2>3
    <3> QED
      BY <2>2, <2>3, <3>1, ClosedBase
  <2>4. CASE G # {}
    <3>1. PICK s : s = Pick(G)
      OBVIOUS
    <3>2. PICK H : H = G \ {s}
      OBVIOUS
    <3>3. /\ H \in SUBSET G0 /\ s \in G /\ Cardinality(H) = n - 1 /\ Cardinality(H) \in Nat
          /\ n \in Nat
      BY <1>1, <2>2, <2>4, <3>1, <3>2, SmallerSet
    <3>4. Closed(H, f[H])
      <4>1. n - 1 \notin Bad
        <5>1. ~(n <= n - 1)
          BY <3>3
        <5> HIDE DEF Bad
        <5> QED
          BY <2>1, <5>1
      <4> QED
        BY <3>3, <4>1
    <3>5. /\ s \in Sock /\ Live(s) /\ s \notin H /\ H \in SUBSET Sock /\ \A r \in H : Live(r)
          /\ G = H \cup {s}
      BY <3>2, <3>3
    <3>6. f[G] = Shut(s, f[H])
      BY <1>3, <2>4, <3>1, <3>2
    <3>7. Closed(H \cup {s}, Shut(s, f[H]))
      BY <3>4, <3>5, ShutStep
    <3> QED
      BY <2>2, <3>5, <3>6, <3>7
  <2> QED
    BY <2>3, <2>4
<1>5. Cardinality(G0) \in Nat
  BY <1>1, FS_CardinalityType
<1>6. Closed(G0, f[G0])
  BY <1>4, <1>5
<1> QED
  BY <1>2, <1>6, FoldIs
-----------------------------------------------------------------------------
(* A task t closes the sockets of G, of which nobody else has descriptors, *)
(* and the tasks in W go on or end; t ends only where its node goes too.   *)
LastOnes(t, F) == {s \in F : \A u \in Task \ {t} : s \notin held[u]}
Going(t, W, G) == Asleep(t) => t \in W /\ call[t][1] # "connect" /\ call[t][2] \in G

ClosingStep(t, F, K, W) ==
  /\ F \subseteq held[t] /\ Closed(LastOnes(t, F), K)
  /\ K.woken \subseteq W /\ W \subseteq K.woken \cup {t} /\ Going(t, W, LastOnes(t, F))
  /\ t \in W => t \in K.woken \/ Asleep(t)
  /\ sock' = K.sock /\ bound_sockets' = K.bound
  /\ held' \in [Task -> SUBSET Sock] /\ held'[t] \subseteq held[t] \ F
  /\ \A u \in Task \ {t} : held'[u] = held[u]
  /\ state' \in [Task -> {"UNUSED", "READY", "BLOCKED"}] /\ DOMAIN call' = Task
  /\ \A u \in Task : state'[u] = "BLOCKED" <=> Asleep(u) /\ u \notin W
  /\ \A u \in Task : state'[u] = "BLOCKED" => call'[u] = call[u]

(* A surviving socket keeps its lists, or loses them with their tasks.     *)
LEMMA Survives ==
  ASSUME UInv, NEW t \in Task, NEW F, NEW K, NEW W, ClosingStep(t, F, K, W),
         NEW r \in Sock, Live(r), r \notin LastOnes(t, F)
  PROVE  /\ sock'[r] # NULL /\ PlainLeft(r, sock'[r]) /\ PeerLeft(r, LastOnes(t, F), sock'[r])
         /\ ReadersKept(r, W) /\ WritersKept(r, W) /\ AcceptersKept(r, W)
         /\ \A i \in DOMAIN sock[r].backlog : sock[r].connect_waiters[i] \notin W
<1> DEFINE G == LastOnes(t, F)
<1>1. LeftAt(r, G, K) /\ sock' = K.sock /\ K.woken \subseteq W /\ W \subseteq K.woken \cup {t}
  BY DEF ClosingStep, Closed
<1>2. /\ sock'[r] # NULL /\ PlainLeft(r, sock'[r]) /\ PeerLeft(r, G, sock'[r])
      /\ ListsLeft(r, sock'[r], K.woken)
  BY <1>1 DEF LeftAt
<1>3. ASSUME t \notin K.woken, t \in W
      PROVE  /\ t \notin Readers(sock, r) /\ t \notin Nodes(sock[r].accept_waiters)
             /\ t \in Nodes(sock[r].write_waiters) => Stream(r) /\ sock[r].peer \in G
             /\ \A i \in DOMAIN sock[r].backlog : sock[r].connect_waiters[i] # t
  <2>1. Asleep(t) /\ call[t][1] # "connect" /\ call[t][2] \in G /\ call[t][2] # r
    BY <1>3 DEF ClosingStep, Going
  <2>2. t \notin Readers(sock, r)
    BY <2>1, ReaderFacts
  <2>3. t \notin Nodes(sock[r].accept_waiters)
    <3> SUFFICES ASSUME t \in Nodes(sock[r].accept_waiters) PROVE FALSE
      OBVIOUS
    <3>1. call[t] = <<"accept", r>>
      BY UInvFacts DEF Waiters, AcceptersAt
    <3> QED
      BY <2>1, <3>1
  <2>4. ASSUME t \in Nodes(sock[r].write_waiters) PROVE Stream(r) /\ sock[r].peer \in G
    <3>1. PICK x \in Sock : x = call[t][2] /\ Live(x) /\ Stream(x) /\ sock[x].peer = r
      BY <2>4, WriterFacts
    <3>2. Stream(r) /\ sock[r].peer = x
      BY <3>1, PeerOfGone
    <3> QED
      BY <2>1, <3>1, <3>2
  <2>5. ASSUME NEW i \in DOMAIN sock[r].backlog, sock[r].connect_waiters[i] = t PROVE FALSE
    <3>1. call[t] = <<"connect", r, sock[r].backlog[i]>>
      BY <2>5, QueuedFacts
    <3> QED
      BY <2>1, <3>1
  <2> QED
    BY <2>2, <2>3, <2>4, <2>5
<1> HIDE DEF G
<1>4. ReadersKept(r, W)
  BY <1>1, <1>2, <1>3 DEF ListsLeft, ListLeft, ReadersKept
<1>5. WritersKept(r, W)
  <2>1. CASE t \notin K.woken /\ t \in W /\ t \in Nodes(sock[r].write_waiters)
    <3>1. sock'[r].write_waiters = <<>>
      BY <1>2, <1>3, <2>1 DEF PeerLeft
    <3>2. Nodes(sock[r].write_waiters) \subseteq K.woken
      BY <1>2, <2>1, <3>1, NoNodes DEF ListsLeft, ListLeft
    <3> QED
      BY <1>1, <3>1, <3>2 DEF WritersKept
  <2>2. CASE ~(t \notin K.woken /\ t \in W /\ t \in Nodes(sock[r].write_waiters))
    BY <1>1, <1>2, <2>2 DEF ListsLeft, ListLeft, WritersKept
  <2> QED
    BY <2>1, <2>2
<1>6. AcceptersKept(r, W)
  <2>1. sock'[r].accept_waiters = sock[r].accept_waiters
    BY <1>2 DEF PlainLeft
  <2> QED
    BY <1>1, <1>2, <1>3, <2>1 DEF ListsLeft, AcceptersKept
<1>7. \A i \in DOMAIN sock[r].backlog : sock[r].connect_waiters[i] \notin W
  BY <1>1, <1>2, <1>3 DEF ListsLeft
<1> QED
  BY <1>2, <1>4, <1>5, <1>6, <1>7 DEF G

(* What is gone is held by nobody else, and those who wait there are woken. *)
LEMMA Goes ==
  ASSUME UInv, NEW t \in Task, NEW F, NEW K, NEW W, ClosingStep(t, F, K, W), NEW r \in Sock
  PROVE  /\ sock'[r] = NULL <=> ~Live(r) \/ r \in LastOnes(t, F)
         /\ r \in LastOnes(t, F) =>
              /\ Readers(sock, r) \cup Nodes(sock[r].write_waiters) \subseteq W
              /\ Live(r) /\ \A u \in Task \ {t} : r \notin held[u]
<1>1. Closed(LastOnes(t, F), K) /\ sock' = K.sock /\ K.woken \subseteq W /\ F \subseteq held[t]
  BY DEF ClosingStep
<1>2. CASE r \in LastOnes(t, F)
  <2>1. Live(r) /\ \A u \in Task \ {t} : r \notin held[u]
    BY <1>1, <1>2, UInvFacts DEF LastOnes, HeldLive
  <2> QED
    BY <1>1, <1>2, <2>1 DEF Closed, GoneAt
<1>3. CASE r \notin LastOnes(t, F)
  BY <1>1, <1>3 DEF Closed, LeftAt
<1> QED
  BY <1>2, <1>3

LEMMA CloseFrame ==
  ASSUME UInv, NEW t \in Task, NEW F, NEW K, NEW W, ClosingStep(t, F, K, W)
  PROVE  /\ StayAsleep(W) /\ Typed' /\ HeldLive'
         /\ \A r \in Sock : Live(r) /\ sock'[r] # NULL => Kept(r)
         /\ \A r \in Sock : Live(r) => ReadersStay(r, W) /\ WritersStay(r, W)
<1>1. /\ held' \in [Task -> SUBSET Sock] /\ held'[t] \subseteq held[t] \ F
      /\ \A u \in Task \ {t} : held'[u] = held[u]
      /\ state' \in [Task -> {"UNUSED", "READY", "BLOCKED"}] /\ DOMAIN call' = Task
      /\ \A u \in Task : state'[u] = "BLOCKED" <=> Asleep(u) /\ u \notin W
      /\ \A u \in Task : state'[u] = "BLOCKED" => call'[u] = call[u]
      /\ Asleep(t) => t \in W
  BY DEF ClosingStep, Going
<1>2. Typed'
  <2>1. sock' \in [Sock -> UnixSock \cup {NULL}] /\ bound_sockets' \in Seq(Sock)
    BY DEF ClosingStep, Closed
  <2> QED
    BY <1>1, <2>1 DEF Typed
<1>3. HeldLive'
  <2>1. ASSUME NEW u \in Task, NEW s \in held'[u] PROVE sock'[s] # NULL
    <3>1. s \in Sock /\ s \in held[u] /\ Live(s)
      BY <1>1, <2>1, UInvFacts DEF Typed, HeldLive
    <3>2. s \notin LastOnes(t, F)
      BY <1>1, <2>1, <3>1 DEF LastOnes
    <3> QED
      BY <3>1, <3>2, Goes
  <2> QED
    BY <2>1 DEF HeldLive, Live
<1>4. StayAsleep(W)
  <2>1. ASSUME NEW u \in Task, Asleep(u), u \notin W
        PROVE  /\ state'[u] = "BLOCKED" /\ call'[u] = call[u] /\ held[u] \subseteq held'[u]
               /\ \A s \in held[u] : sock'[s] # NULL
    <3>1. state'[u] = "BLOCKED" /\ call'[u] = call[u] /\ held'[u] = held[u]
      BY <1>1, <2>1
    <3> QED
      BY <1>3, <3>1 DEF HeldLive, Live
  <2> QED
    BY <2>1 DEF StayAsleep
<1>5. ASSUME NEW r \in Sock, Live(r), sock'[r] # NULL PROVE Kept(r)
  <2>1. PlainLeft(r, sock'[r]) /\ PeerLeft(r, LastOnes(t, F), sock'[r])
    BY <1>5, Goes, Survives
  <2>2. ASSUME sock[r].peer # NULL, sock'[sock[r].peer] # NULL PROVE sock[r].peer \notin LastOnes(t, F)
    <3>1. sock[r].peer \in Sock
      BY <1>5, <2>2, Record, UInvFacts
    <3> QED
      BY <2>2, <3>1, Goes
  <2> QED
    BY <2>1, <2>2 DEF Kept, PlainLeft, PeerLeft
<1>6. ASSUME NEW r \in Sock, Live(r) PROVE ReadersStay(r, W) /\ WritersStay(r, W)
  <2>1. CASE r \in LastOnes(t, F)
    <3>1. Readers(sock, r) \subseteq W /\ Nodes(sock[r].write_waiters) \subseteq W
      BY <2>1, Goes
    <3> QED
      BY <3>1 DEF ReadersStay, WritersStay
  <2>2. CASE r \notin LastOnes(t, F)
    <3>1. /\ sock'[r] # NULL /\ PlainLeft(r, sock'[r]) /\ PeerLeft(r, LastOnes(t, F), sock'[r])
          /\ ReadersKept(r, W) /\ WritersKept(r, W)
      BY <1>6, <2>2, Survives
    <3>2. WritersStay(r, W)
      BY <3>1 DEF WritersKept, WritersStay, PlainLeft
    <3>3. ASSUME NEW u \in Readers(sock, r) \ W
          PROVE  /\ u \in Readers(sock', r)
                 /\ Stream(r) /\ PeerOpen(r) => /\ sock'[sock[r].peer] # NULL
                                                /\ sock'[sock[r].peer].state # "CLOSED"
      <4>1. sock'[r].read_waiters = sock[r].read_waiters
        BY <3>1, <3>3 DEF ReadersKept
      <4>2. u \in Readers(sock', r) /\ sock'[r].read_waiters # <<>>
        <5>1. u \in Readers(sock', r)
          BY <3>3, <4>1 DEF Readers
        <5> QED
          BY <5>1, NoNodes
      <4>3. ASSUME Stream(r), PeerOpen(r)
            PROVE  sock'[sock[r].peer] # NULL /\ sock'[sock[r].peer].state # "CLOSED"
        <5>1. PICK p \in Sock : p = sock[r].peer /\ Live(p) /\ sock[p].state # "CLOSED"
          BY <1>6, <4>3, Record, UInvFacts DEF PeerOpen, PeersMutual, Live, Stream
        <5>2. p \notin LastOnes(t, F)
          BY <3>1, <4>2, <4>3, <5>1 DEF PeerLeft
        <5>3. sock'[p] # NULL /\ PlainLeft(p, sock'[p])
          BY <5>1, <5>2, Survives
        <5> QED
          BY <5>1, <5>3 DEF PlainLeft
      <4> QED
        BY <4>2, <4>3
    <3>4. ReadersStay(r, W)
      BY <3>1, <3>3 DEF ReadersStay, PlainLeft
    <3> QED
      BY <3>2, <3>4
  <2> QED
    BY <2>1, <2>2
<1> QED
  BY <1>2, <1>3, <1>4, <1>5, <1>6

LEMMA ClosePeers ==
  ASSUME UInv, NEW t \in Task, NEW F, NEW K, NEW W, ClosingStep(t, F, K, W)
  PROVE  OneType' /\ PeersMutual'
<1>1. ASSUME NEW r \in Sock, sock'[r] # NULL
      PROVE  /\ Live(r) /\ r \notin LastOnes(t, F) /\ PlainLeft(r, sock'[r])
             /\ PeerLeft(r, LastOnes(t, F), sock'[r])
  BY <1>1, Goes, Survives
<1>2. OneType'
  BY <1>1, UInvFacts DEF OneType, PlainLeft, Live
<1>3. ASSUME NEW s \in Sock, sock'[s] # NULL, sock'[s].type = "STREAM", sock'[s].peer # NULL
      PROVE  sock'[sock'[s].peer] # NULL /\ sock'[sock'[s].peer].peer = s
  <2>1. /\ Live(s) /\ Stream(s) /\ s \notin LastOnes(t, F)
        /\ sock[s].peer # NULL /\ sock'[s].peer = sock[s].peer /\ sock[s].peer \notin LastOnes(t, F)
    BY <1>1, <1>3 DEF PlainLeft, PeerLeft, Stream
  <2>2. PICK p \in Sock : p = sock[s].peer /\ Live(p) /\ sock[p].peer = s
    BY <2>1, Record, UInvFacts DEF PeersMutual, Live, Stream
  <2>3. Stream(p)
    BY <2>1, <2>2, UInvFacts DEF OneType, Stream
  <2>4. sock'[p] # NULL /\ PeerLeft(p, LastOnes(t, F), sock'[p])
    BY <2>1, <2>2, Survives
  <2> QED
    BY <2>1, <2>2, <2>3, <2>4 DEF PeerLeft
<1>4. PeersMutual'
  BY <1>3 DEF PeersMutual
<1> QED
  BY <1>2, <1>4

LEMMA CloseNames ==
  ASSUME UInv, NEW t \in Task, NEW F, NEW K, NEW W, ClosingStep(t, F, K, W)
  PROVE  Names'
<1>1. PICK G : G = LastOnes(t, F)
  OBVIOUS
<1>2. /\ bound_sockets' \in Seq(Sock) /\ Distinct(bound_sockets')
      /\ Nodes(bound_sockets') = Nodes(bound_sockets) \ G
  BY <1>1 DEF ClosingStep, Closed
<1>3. \A r \in Sock : sock'[r] # NULL <=> Live(r) /\ r \notin G
  BY <1>1, Goes
<1>4. \A r \in Sock : Live(r) /\ r \notin G => sock'[r].path = sock[r].path
  BY <1>1, Survives DEF PlainLeft
<1>5. /\ Nodes(bound_sockets) = {s \in Sock : sock[s] # NULL /\ sock[s].path # NULL}
      /\ \A i, j \in DOMAIN bound_sockets :
           i # j => sock[bound_sockets[i]].path # sock[bound_sockets[j]].path
  BY UInvFacts DEF Names, BoundTableExact
<1>6. Nodes(bound_sockets') = {s \in Sock : sock'[s] # NULL /\ sock'[s].path # NULL}
  BY <1>2, <1>3, <1>4, <1>5 DEF Live
<1>7. ASSUME NEW i \in DOMAIN bound_sockets', NEW j \in DOMAIN bound_sockets', i # j
      PROVE  sock'[bound_sockets'[i]].path # sock'[bound_sockets'[j]].path
  <2>1. PICK a, b : a = bound_sockets'[i] /\ b = bound_sockets'[j]
    OBVIOUS
  <2>2. a # b
    BY <1>2, <1>7, <2>1 DEF Distinct
  <2>3. a \in Nodes(bound_sockets') /\ b \in Nodes(bound_sockets')
    BY <2>1 DEF Nodes
  <2>4. a \in Nodes(bound_sockets) /\ b \in Nodes(bound_sockets) /\ a \notin G /\ b \notin G
    BY <1>2, <2>3
  <2>5. PICK m \in DOMAIN bound_sockets : a = bound_sockets[m]
    BY <2>4 DEF Nodes
  <2>6. PICK n \in DOMAIN bound_sockets : b = bound_sockets[n]
    BY <2>4 DEF Nodes
  <2>7. sock[a].path # sock[b].path
    BY <1>5, <2>2, <2>5, <2>6
  <2>8. sock'[a].path = sock[a].path /\ sock'[b].path = sock[b].path
    BY <1>4, <1>5, <2>4 DEF Live
  <2> QED
    BY <2>1, <2>7, <2>8
<1> QED
  BY <1>2, <1>6, <1>7 DEF Names, BoundTableExact

LEMMA CloseBacklogs ==
  ASSUME UInv, NEW t \in Task, NEW F, NEW K, NEW W, ClosingStep(t, F, K, W)
  PROVE  Backlogs'
<1>1. PICK G : G = LastOnes(t, F)
  OBVIOUS
<1>2. ASSUME NEW l \in Sock, sock'[l] # NULL
      PROVE  /\ Live(l) /\ PlainLeft(l, sock'[l])
             /\ \A i \in DOMAIN sock[l].backlog : sock[l].connect_waiters[i] \notin W
  BY <1>2, Goes, Survives
<1>3. ASSUME NEW l \in Sock, sock'[l] # NULL PROVE QueuesKept(l, W)
  <2>1. /\ Live(l) /\ sock'[l].backlog = sock[l].backlog
        /\ sock'[l].connect_waiters = sock[l].connect_waiters
    BY <1>2, <1>3 DEF PlainLeft
  <2>2. ASSUME NEW i \in DOMAIN sock[l].backlog PROVE QueueKept(sock[l].backlog[i])
    <3>1. PICK s \in Sock : s = sock[l].backlog[i] /\ Live(s) /\ sock[s].peer = NULL
      BY <2>1, QueuedFacts
    <3>2. PICK u \in Task : u = sock[l].connect_waiters[i] /\ Asleep(u) /\ s \in held[u]
      BY <2>1, <3>1, QueuedFacts
    <3>3. u # t
      <4> SUFFICES ASSUME u = t PROVE FALSE
        OBVIOUS
      <4>1. t \in W
        BY <3>2 DEF ClosingStep, Going
      <4> QED
        BY <1>2, <1>3, <3>2, <4>1
    <3>4. s \notin G
      BY <1>1, <3>2, <3>3 DEF LastOnes
    <3>5. PlainLeft(s, sock'[s]) /\ PeerLeft(s, G, sock'[s])
      BY <1>1, <3>1, <3>4, Survives
    <3>6. NULL \notin G
      BY <1>1, Goes, SocketAssumption, UInvFacts DEF LastOnes, ClosingStep, Typed
    <3> QED
      BY <3>1, <3>5, <3>6 DEF PlainLeft, PeerLeft, QueueKept
  <2> QED
    BY <1>2, <1>3, <2>1, <2>2 DEF QueuesKept
<1>4. StayAsleep(W)
  BY CloseFrame
<1>5. ASSUME NEW l \in Sock, sock'[l] # NULL
      PROVE  /\ Len(sock'[l].backlog) = Len(sock'[l].connect_waiters)
             /\ \A i \in DOMAIN sock'[l].backlog : Queued1(l, i)'
  BY <1>2, <1>3, <1>4, <1>5, QueuedStep
<1>6. ASSUME NEW l \in Sock, sock'[l] # NULL
      PROVE  /\ sock'[l].accept_waiters = <<>> \/ sock'[l].backlog = <<>>
             /\ \A m \in Sock : sock'[m] # NULL =>
                  \A i \in DOMAIN sock'[l].backlog, j \in DOMAIN sock'[m].backlog :
                    sock'[l].backlog[i] = sock'[m].backlog[j] => l = m /\ i = j
  BY <1>2, <1>6, UInvFacts DEF Backlogs, PlainLeft
<1> QED
  BY <1>5, <1>6 DEF Backlogs, Live

LEMMA CloseUInv ==
  ASSUME UInv, NEW t \in Task, NEW F, NEW K, NEW W, ClosingStep(t, F, K, W)
  PROVE  UInv'
<1>1. /\ StayAsleep(W) /\ Typed' /\ HeldLive'
      /\ \A r \in Sock : Live(r) /\ sock'[r] # NULL => Kept(r)
      /\ \A r \in Sock : Live(r) => ReadersStay(r, W) /\ WritersStay(r, W)
  BY CloseFrame
<1>2. Sleepers'
  <2>1. \A u \in Task : state'[u] = "BLOCKED" => Asleep(u) /\ u \notin W
    BY DEF ClosingStep
  <2> QED
    BY <1>1, <2>1, SleepersStep
<1>3. Waiters'
  <2>1. ASSUME NEW s \in Sock, sock'[s] # NULL
        PROVE  ReadersAt(s)' /\ WritersAt(s)' /\ AcceptersAt(s)'
    <3>1. Live(s) /\ ReadersKept(s, W) /\ WritersKept(s, W) /\ AcceptersKept(s, W)
      BY <2>1, Goes, Survives
    <3> QED
      BY <1>1, <2>1, <3>1, ReadersAtStep, WritersAtStep, AcceptersAtStep
  <2> QED
    BY <2>1 DEF Waiters, Live
<1> QED
  BY <1>1, <1>2, <1>3, ClosePeers, CloseNames, CloseBacklogs DEF UInv
-----------------------------------------------------------------------------
LEMMA ClosingIs ==
  ASSUME UInv, NEW t \in Task, NEW F, F \subseteq held[t]
  PROVE  Closed(LastOnes(t, F), Closing(t, F))
<1>1. LastOnes(t, F) \in SUBSET Sock /\ \A r \in LastOnes(t, F) : Live(r)
  BY UInvFacts DEF LastOnes, Typed, HeldLive
<1>2. Closing(t, F) = Fold(LastOnes(t, F))
  BY DEF Closing, Fold, Base, LastOnes
<1> QED
  BY <1>1, <1>2, FoldCloses

LEMMA CloseStep ==
  ASSUME UInv, NEW t \in Task, NEW s \in Sock, sys_close(t, s)
  PROVE  UInv'
<1>1. PICK K : K = Closing(t, {s})
  OBVIOUS
<1>2. /\ ~Asleep(t) /\ s \in held[t] /\ sock' = K.sock /\ bound_sockets' = K.bound
      /\ held' = [held EXCEPT ![t] = @ \ {s}] /\ task_unblock(K.woken)
  BY <1>1 DEF sys_close, Uses, Asleep
<1>3. Closed(LastOnes(t, {s}), K)
  BY <1>1, <1>2, ClosingIs
<1>4. /\ state' \in [Task -> {"UNUSED", "READY", "BLOCKED"}] /\ DOMAIN call' = Task
      /\ \A u \in Task : state'[u] = "BLOCKED" <=> Asleep(u) /\ u \notin K.woken
      /\ \A u \in Task : state'[u] = "BLOCKED" => call'[u] = call[u]
  BY <1>2, Wakes, UInvFacts
<1>5. /\ held' \in [Task -> SUBSET Sock] /\ held'[t] \subseteq held[t] \ {s}
      /\ \A u \in Task \ {t} : held'[u] = held[u]
  BY <1>2, UInvFacts DEF Typed
<1>6. ClosingStep(t, {s}, K, K.woken)
  BY <1>2, <1>3, <1>4, <1>5 DEF ClosingStep, Going
<1> QED
  BY <1>6, CloseUInv

LEMMA ExitStep ==
  ASSUME UInv, Disciplined, NEW t \in Task, task_exit(t)
  PROVE  UInv'
<1>1. PICK K : K = Closing(t, held[t])
  OBVIOUS
<1>2. PICK woken : woken = {u \in K.woken \ {t} : state[u] = "BLOCKED"}
  OBVIOUS
<1>3. /\ Killable(t) /\ sock' = K.sock /\ bound_sockets' = K.bound
      /\ held' = [held EXCEPT ![t] = {}]
      /\ state' = [u \in Task |-> IF u = t THEN "UNUSED"
                                  ELSE IF u \in woken THEN "READY" ELSE state[u]]
      /\ call' = [u \in Task |-> IF u \in woken \cup {t} THEN NULL ELSE call[u]]
  BY <1>1, <1>2 DEF task_exit
<1>4. Closed(LastOnes(t, held[t]), K)
  BY <1>1, ClosingIs
<1>5. PICK W : W = IF Asleep(t) THEN K.woken \cup {t} ELSE K.woken
  OBVIOUS
<1>6. /\ state' \in [Task -> {"UNUSED", "READY", "BLOCKED"}] /\ DOMAIN call' = Task
      /\ \A u \in Task : state'[u] = "BLOCKED" <=> Asleep(u) /\ u \notin W
      /\ \A u \in Task : state'[u] = "BLOCKED" => call'[u] = call[u]
  <2>1. /\ state' \in [Task -> {"UNUSED", "READY", "BLOCKED"}] /\ DOMAIN call' = Task
    BY <1>3, UInvFacts DEF Typed
  <2>2. ASSUME NEW u \in Task
        PROVE  /\ state'[u] = "BLOCKED" <=> Asleep(u) /\ u \notin W
               /\ state'[u] = "BLOCKED" => call'[u] = call[u]
    <3>1. CASE u = t
      BY <1>3, <1>5, <3>1 DEF Asleep
    <3>2. CASE u # t
      BY <1>2, <1>3, <1>5, <3>2 DEF Asleep
    <3> QED
      BY <3>1, <3>2
  <2> QED
    BY <2>1, <2>2
<1>7. /\ held' \in [Task -> SUBSET Sock] /\ held'[t] \subseteq held[t] \ held[t]
      /\ \A u \in Task \ {t} : held'[u] = held[u]
  BY <1>3, UInvFacts DEF Typed
<1>8. Going(t, W, LastOnes(t, held[t]))
  <2> SUFFICES ASSUME Asleep(t)
               PROVE  t \in W /\ call[t][1] # "connect" /\ call[t][2] \in LastOnes(t, held[t])
    BY DEF Going
  <2>1. call[t][1] # "connect" /\ \A u \in Task \ {t} : call[t][2] \notin held[u]
    BY <1>3 DEF Killable, Asleep
  <2>2. call[t][2] \in held[t]
    BY <2>1, UInvFacts DEF Sleepers, SleeperAt, ReadsAt, WritesTo, AcceptsAt, ConnectsTo
  <2> QED
    BY <1>5, <2>1, <2>2 DEF LastOnes
<1>9. K.woken \subseteq W /\ W \subseteq K.woken \cup {t} /\ (t \in W => t \in K.woken \/ Asleep(t))
  BY <1>5
<1>10. ClosingStep(t, held[t], K, W)
  BY <1>3, <1>4, <1>6, <1>7, <1>8, <1>9 DEF ClosingStep
<1> QED
  BY <1>10, CloseUInv
-----------------------------------------------------------------------------
LEMMA UInvNext == ASSUME Disciplined, UInv, [SocketNext]_uvars PROVE UInv'
<1>1. ASSUME NEW t \in Task, NEW type \in {"STREAM", "DGRAM"},
             sys_socket(t, type) \/ sys_socketpair(t, type)
      PROVE  UInv'
  BY <1>1, SocketStep, SocketpairStep
<1>2. ASSUME NEW t \in Task, NEW s \in Sock, Calls(t, s)
      PROVE  UInv'
  <2>1. ASSUME NEW path \in Path, sys_bind(t, s, path) PROVE UInv'
    BY <2>1, BindStep
  <2>2. ASSUME NEW path \in Path, ConnectNow(t, s, path) PROVE UInv'
    BY <2>2, ConnectNowStep
  <2>3. ASSUME NEW path \in Path, ConnectSleep(t, s, path) PROVE UInv'
    BY <2>3, ConnectSleepStep
  <2>4. ASSUME NEW path \in Path, ConnectDgram(t, s, path) PROVE UInv'
    BY <2>4, ConnectDgramStep
  <2>5. ASSUME NEW n \in 0 .. BacklogMax, sys_listen(t, s, n) PROVE UInv'
    BY <2>5, ListenStep
  <2>6. CASE AcceptSleep(t, s)
    BY <2>6, AcceptSleepStep
  <2>7. CASE AcceptNow(t, s)
    BY <2>7, AcceptNowStep
  <2>8. ASSUME NEW n \in 1 .. MaxRequest, ReadData(t, s, n) PROVE UInv'
    BY <2>8, ReadDataStep
  <2>9. ASSUME NEW n \in 1 .. MaxRequest, ReadSleep(t, s, n) PROVE UInv'
    BY <2>9, ReadSleepStep
  <2>10. ASSUME NEW n \in 1 .. MaxRequest, WriteData(t, s, n) PROVE UInv'
    BY <2>10, WriteDataStep
  <2>11. ASSUME NEW n \in 1 .. MaxRequest, WriteDgram(t, s, n) PROVE UInv'
    BY <2>11, WriteDgramStep
  <2>12. CASE WriteSleep(t, s)
    BY <2>12, WriteSleepStep
  <2>13. CASE sys_shutdown(t, s)
    BY <2>13, ShutdownStep
  <2>14. CASE sys_close(t, s)
    BY <2>14, CloseStep
  <2> QED
    BY <1>2, <2>1, <2>2, <2>3, <2>4, <2>5, <2>6, <2>7, <2>8, <2>9, <2>10, <2>11, <2>12, <2>13,
       <2>14 DEF Calls
<1>3. ASSUME NEW t \in Task, NEW u \in Task, fork(t, u) PROVE UInv'
  BY <1>3, ForkStep
<1>4. ASSUME NEW t \in Task, task_exit(t) PROVE UInv'
  BY <1>4, ExitStep
<1>5. CASE UNCHANGED uvars
  BY <1>5 DEF uvars, UInv, Typed, OneType, HeldLive, Sleepers, SleeperAt, ReadsAt, WritesTo,
     AcceptsAt, ConnectsTo, PeerOpen, Waiters, ReadersAt, WritersAt, AcceptersAt, Readers,
     Backlogs, Queued1, PeersMutual, Names, BoundTableExact, Distinct, Nodes, Live, Stream,
     Asleep
<1> QED
  BY <1>1, <1>2, <1>3, <1>4, <1>5 DEF SocketNext

(* The inductive invariant: whatever system calls, forks and exits the     *)
(* programs make, every socket, waiter node, backlog and name is in order. *)
THEOREM UInvHolds == ASSUME Disciplined PROVE SocketSpec => []UInv
<1>1. UInv /\ [SocketNext]_uvars => UInv'
  BY UInvNext
<1> QED
  BY <1>1, UInvInit, PTL DEF SocketSpec

(* A peer pointer of a stream socket leads to a live socket that points    *)
(* back, whatever accept(), connect(), shutdown(), close(), fork() and     *)
(* task_exit() do in any order: task_ipc_unix_socket_close() of one never  *)
(* leaves the other with a pointer to freed memory.                        *)
THEOREM PeersStayMutual == ASSUME Disciplined PROVE SocketSpec => []PeersMutual
<1>1. UInv => PeersMutual
  BY DEF UInv
<1> QED
  BY <1>1, UInvHolds, PTL

(* The table that unix_socket_lookup() searches holds the live sockets     *)
(* that have a name, each once and under its own name, over                *)
(* unix_socket_register() in a full table and unix_socket_unregister(),    *)
(* which moves the last entry into the hole.                               *)
THEOREM BoundTableIsExact == ASSUME Disciplined PROVE SocketSpec => []BoundTableExact
<1>1. UInv => BoundTableExact
  BY DEF UInv, Names
<1> QED
  BY <1>1, UInvHolds, PTL

(* sock_accept_deliver() answers the connector whose socket it takes: a    *)
(* backlog and the queue of connectors are in step entry by entry, and no  *)
(* accepter sleeps while a connection waits.                               *)
THEOREM BacklogsStayInStep == ASSUME Disciplined PROVE SocketSpec => []BacklogInStep
<1>1. ASSUME UInv PROVE BacklogInStep
  <2>1. ASSUME NEW l \in Sock, Live(l)
        PROVE  /\ Len(sock[l].backlog) = Len(sock[l].connect_waiters)
               /\ \A i \in DOMAIN sock[l].backlog :
                    call[sock[l].connect_waiters[i]] = <<"connect", l, sock[l].backlog[i]>>
               /\ sock[l].accept_waiters = <<>> \/ sock[l].backlog = <<>>
               /\ \A t \in Nodes(sock[l].accept_waiters) : call[t] = <<"accept", l>>
    BY <1>1, <2>1 DEF UInv, Backlogs, Queued1, Waiters, AcceptersAt
  <2> QED
    BY <2>1 DEF BacklogInStep, Live
<1> QED
  BY <1>1, UInvHolds, PTL

(* No wake-up is lost: whoever sleeps in task_ipc_unix_socket_read() of a  *)
(* stream has nothing to read, whoever sleeps in a write has no room, the  *)
(* peer of each can still end the sleep, and its waiter node is in place.  *)
THEOREM StreamSleepersAreJustified ==
  ASSUME Disciplined PROVE SocketSpec => []StreamSleepersJustified
<1>1. ASSUME UInv PROVE StreamSleepersJustified
  <2> SUFFICES ASSUME NEW t \in Task, Asleep(t)
               PROVE  LET s == call[t][2]
                      IN  /\ call[t][1] = "read" /\ sock[s].type = "STREAM" =>
                               sock[s].data_len = 0 /\ PeerOpen(s) /\ t \in Readers(sock, s)
                          /\ call[t][1] = "write" =>
                               /\ PeerOpen(s) /\ sock[sock[s].peer].data_len = BufSize
                               /\ t \in Nodes(sock[sock[s].peer].write_waiters)
    BY DEF StreamSleepersJustified, Asleep
  <2>1. PICK s \in held[t] : ReadsAt(t, s) \/ WritesTo(t, s) \/ AcceptsAt(t, s) \/ ConnectsTo(t, s)
    BY <1>1 DEF UInv, Sleepers, SleeperAt
  <2> QED
    BY <2>1 DEF ReadsAt, WritesTo, AcceptsAt, ConnectsTo, Stream
<1> QED
  BY <1>1, UInvHolds, PTL
=============================================================================
