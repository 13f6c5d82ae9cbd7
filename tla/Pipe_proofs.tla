----------------------------- MODULE Pipe_proofs -----------------------------
(***************************************************************************)
(* What is proved of pipes, descriptors and poll(), for any number of      *)
(* tasks, descriptors and pipes and any size of the ring.                  *)
(***************************************************************************)
EXTENDS Poll, FiniteSetTheorems, SequenceTheorems, TLAPS

(* The descriptors of a table T that refer to h, of all tasks and of one.  *)
Users(T, h) == {tf \in Task \X Fd : T[tf[1]][tf[2]] = h}
Row(r, h) == {f \in Fd : r[f] = h}

Tables == [Task -> [Fd -> Handle \cup {NULL}]]
-----------------------------------------------------------------------------
(* Counting descriptors. *)

LEMMA FdFinite == IsFiniteSet(Fd) /\ IsFiniteSet(Task \X Fd)
<1>1. IsFiniteSet(0 .. FdMax - 1)
  BY FS_Interval, PipeAssumption
<1> QED
  BY <1>1, FS_Product, PipeAssumption DEF Fd

LEMMA UsersFinite ==
  ASSUME NEW T, NEW h
  PROVE  IsFiniteSet(Users(T, h)) /\ Cardinality(Users(T, h)) \in Nat
<1>1. Users(T, h) \in SUBSET (Task \X Fd)
  BY DEF Users
<1> QED
  BY <1>1, FdFinite, FS_Subset, FS_CardinalityType

LEMMA RowFinite ==
  ASSUME NEW r, NEW h
  PROVE  IsFiniteSet(Row(r, h)) /\ Cardinality(Row(r, h)) \in Nat
<1>1. Row(r, h) \in SUBSET Fd
  BY DEF Row
<1> QED
  BY <1>1, FdFinite, FS_Subset, FS_CardinalityType

(* A handle is used by no descriptor when the count is zero. *)
LEMMA UnusedIsZero ==
  ASSUME NEW T, NEW h
  PROVE  Cardinality(Users(T, h)) = 0 <=> Users(T, h) = {}
BY UsersFinite, FS_EmptySet

(* One entry of one table changes: the handle that was there loses a       *)
(* reference, the one that comes gets one.                                 *)
LEMMA EntryCounts ==
  ASSUME NEW T \in Tables, NEW U \in Tables, NEW t \in Task, NEW f \in Fd, NEW h \in Handle,
         \A u \in Task, g \in Fd : u # t \/ g # f => U[u][g] = T[u][g]
  PROVE  Cardinality(Users(U, h)) =
           Cardinality(Users(T, h)) - (IF T[t][f] = h THEN 1 ELSE 0)
                                    + (IF U[t][f] = h THEN 1 ELSE 0)
<1> DEFINE x == <<t, f>>
           S == Users(T, h) \ {x}
<1>1. /\ IsFiniteSet(S)
      /\ Cardinality(S) = Cardinality(Users(T, h)) - (IF T[t][f] = h THEN 1 ELSE 0)
  <2>1. x \in Users(T, h) <=> T[t][f] = h
    BY DEF Users
  <2> QED
    <3>1. IsFiniteSet(Users(T, h)) /\ Cardinality(Users(T, h)) \in Nat
      BY UsersFinite
    <3>2. Cardinality(Users(T, h) \ {x}) =
            IF x \in Users(T, h) THEN Cardinality(Users(T, h)) - 1 ELSE Cardinality(Users(T, h))
      BY <3>1, FS_RemoveElement
    <3>3. IsFiniteSet(Users(T, h) \ {x})
      BY <3>1, FS_RemoveElement
    <3> HIDE DEF x
    <3> QED
      BY <2>1, <3>1, <3>2, <3>3
<1>2. CASE U[t][f] = h
  <2>1. Users(U, h) = S \cup {x}
    BY <1>2 DEF Users
  <2>2. x \notin S
    OBVIOUS
  <2>3. Cardinality(S \cup {x}) = Cardinality(S) + 1
    BY <1>1, <2>2, FS_AddElement
  <2> QED
    BY <1>1, <1>2, <2>1, <2>3, UsersFinite
<1>3. CASE U[t][f] # h
  <2>1. Users(U, h) = S
    BY <1>3 DEF Users
  <2>2. Cardinality(S) \in Nat
    BY <1>1, FS_CardinalityType
  <2> HIDE DEF S
  <2> QED
    BY <1>1, <1>3, <2>1, <2>2
<1> QED
  BY <1>2, <1>3

(* The table of one task changes from one row to another: fork and exit. *)
LEMMA RowCounts ==
  ASSUME NEW T \in Tables, NEW U \in Tables, NEW t \in Task, NEW h \in Handle,
         \A u \in Task \ {t} : U[u] = T[u]
  PROVE  Cardinality(Users(U, h)) =
           Cardinality(Users(T, h)) - Cardinality(Row(T[t], h)) + Cardinality(Row(U[t], h))
<1> DEFINE Others == {tf \in Task \X Fd : tf[1] # t /\ T[tf[1]][tf[2]] = h}
<1>1. IsFiniteSet(Others)
  <2>1. Others \in SUBSET (Task \X Fd)
    OBVIOUS
  <2> QED
    BY <2>1, FdFinite, FS_Subset
<1>2. ASSUME NEW W \in Tables, \A u \in Task \ {t} : W[u] = T[u]
      PROVE  Cardinality(Users(W, h)) = Cardinality(Others) + Cardinality(Row(W[t], h))
  <2> DEFINE R == Row(W[t], h)
             M == {t} \X R
  <2>1. IsFiniteSet(R) /\ Cardinality(R) \in Nat
    BY RowFinite
  <2>2. IsFiniteSet({t}) /\ Cardinality({t}) = 1
    BY FS_Singleton
  <2>3. IsFiniteSet(M) /\ Cardinality(M) = Cardinality(R)
    BY <2>1, <2>2, FS_Product
  <2>4. Users(W, h) = Others \cup M
    BY <1>2 DEF Users, Row
  <2>5. Others \cap M = {}
    <3>1. ASSUME NEW y \in Others, y \in M
          PROVE  FALSE
      BY <3>1
    <3> QED
      BY <3>1
  <2>6. Cardinality(Others \cup M) = Cardinality(Others) + Cardinality(M)
                                      - Cardinality(Others \cap M)
    BY <1>1, <2>3, FS_Union
  <2>7. Cardinality(Others) \in Nat /\ Cardinality(M) \in Nat /\ Cardinality(Others \cap M) = 0
    BY <1>1, <2>3, <2>5, FS_CardinalityType, FS_EmptySet
  <2> HIDE DEF Others, M
  <2> QED
    BY <2>3, <2>4, <2>6, <2>7
<1>3. Cardinality(Others) \in Nat /\ Cardinality(Row(T[t], h)) \in Nat
                                 /\ Cardinality(Row(U[t], h)) \in Nat
  BY <1>1, RowFinite, FS_CardinalityType
<1>4. Cardinality(Users(T, h)) = Cardinality(Others) + Cardinality(Row(T[t], h))
  BY <1>2
<1>5. Cardinality(Users(U, h)) = Cardinality(Others) + Cardinality(Row(U[t], h))
  BY <1>2
<1> HIDE DEF Others
<1> QED
  BY <1>3, <1>4, <1>5
-----------------------------------------------------------------------------
(* The ring: % Size on the sums that the code builds. *)
LEMMA Wraps ==
  ASSUME NEW x \in Nat, x < 2 * Size
  PROVE  x % Size = IF x < Size THEN x ELSE x - Size
<1>1. Size \in Nat /\ Size > 0
  BY PipeAssumption
<1> QED
  BY <1>1

(* What is popped from a list of waiters and what is left of it. *)
Popped(s) == SubSeq(s, 1, Fewer(1, Len(s)))
Rest(s) == SubSeq(s, 1 + Len(Popped(s)), Len(s))

LEMMA PopEffect ==
  ASSUME NEW s \in Seq(Task)
  PROVE  /\ Rest(s) \in Seq(Task)
         /\ Nodes(Popped(s)) \subseteq Task
         /\ Nodes(s) \subseteq Nodes(Popped(s)) \cup Nodes(Rest(s))
<1>1. CASE s = <<>>
  <2>1. Popped(s) = <<>> /\ Rest(s) = <<>>
    BY <1>1 DEF Popped, Rest, Fewer
  <2>2. Rest(s) \in Seq(Task) /\ Nodes(s) = {} /\ Nodes(Popped(s)) = {}
    <3>1. s \in Seq(Task) /\ Len(s) = 0 /\ DOMAIN s = 1 .. Len(s)
      BY <1>1
    <3>2. DOMAIN s = {}
      BY <3>1
    <3> QED
      BY <1>1, <2>1, <3>1, <3>2 DEF Nodes
  <2> QED
    BY <2>2
<1>2. CASE s # <<>>
  <2>1. Len(s) \in Nat /\ Len(s) >= 1
    BY <1>2
  <2>2. Popped(s) = SubSeq(s, 1, 1) /\ Len(Popped(s)) = 1
    <3>1. \A n \in Nat : n >= 1 => Fewer(1, n) = 1
      BY DEF Fewer
    <3>2. Popped(s) = SubSeq(s, 1, 1)
      BY <2>1, <3>1 DEF Popped
    <3> QED
      BY <2>1, <3>2
  <2>3. Rest(s) = SubSeq(s, 2, Len(s))
    BY <2>2 DEF Rest
  <2>4. DOMAIN Popped(s) = 1 .. 1 /\ Popped(s)[1] = s[1]
    BY <2>1, <2>2
  <2>5. /\ Rest(s) \in Seq(Task)
        /\ DOMAIN Rest(s) = 1 .. (Len(s) - 1)
        /\ \A i \in 1 .. (Len(s) - 1) : Rest(s)[i] = s[i + 1]
    BY <2>1, <2>3
  <2>6. ASSUME NEW i \in DOMAIN s
        PROVE  s[i] \in Nodes(Popped(s)) \cup Nodes(Rest(s))
    <3>1. CASE i = 1
      BY <2>4, <3>1 DEF Nodes
    <3>2. CASE i # 1
      <4>1. i - 1 \in 1 .. (Len(s) - 1) /\ Rest(s)[i - 1] = s[i]
        BY <2>1, <2>5, <3>2
      <4> QED
        BY <2>5, <4>1 DEF Nodes
    <3> QED
      BY <3>1, <3>2
  <2>7. s[1] \in Task
    BY <2>1
  <2> QED
    BY <2>4, <2>5, <2>6, <2>7 DEF Nodes
<1> QED
  BY <1>1, <1>2

LEMMA AppendEffect ==
  ASSUME NEW s \in Seq(Task), NEW t \in Task
  PROVE  Append(s, t) \in Seq(Task) /\ Nodes(Append(s, t)) = Nodes(s) \cup {t}
<1>1. Append(s, t) \in Seq(Task) /\ Len(Append(s, t)) = Len(s) + 1 /\ Len(s) \in Nat
  BY DEF Nodes
<1>2. DOMAIN Append(s, t) = 1 .. (Len(s) + 1) /\ DOMAIN s = 1 .. Len(s)
  BY <1>1
<1>3. Append(s, t)[Len(s) + 1] = t
  BY <1>1
<1>4. \A i \in 1 .. Len(s) : Append(s, t)[i] = s[i]
  BY <1>1
<1>5. Nodes(Append(s, t)) \subseteq Nodes(s) \cup {t}
  BY <1>1, <1>2, <1>3, <1>4 DEF Nodes
<1>6. t \in Nodes(Append(s, t))
  BY <1>1, <1>2, <1>3 DEF Nodes
<1>7. Nodes(s) \subseteq Nodes(Append(s, t))
  BY <1>1, <1>2, <1>4 DEF Nodes
<1> QED
  BY <1>1, <1>5, <1>6, <1>7
-----------------------------------------------------------------------------
(* The inductive invariant. *)
PTyped ==
  /\ state \in [Task -> {"UNUSED", "READY", "BLOCKED"}]
  /\ DOMAIN call = Task
  /\ fd_table \in Tables
  /\ refcount \in [Handle -> Nat]
  /\ pipe \in [Pipes -> PipeState \cup {NULL}]

(* A handle counts its descriptors. *)
Counts == \A h \in Handle : refcount[h] = Cardinality(Users(fd_table, h))

(* A pipe is allocated as long as one of its handles is in use, and an end *)
(* is open as long as its own handle is.                                   *)
EndIsOpen(h) == IF refcount[h] = 0 THEN 0 ELSE 1

EndsOpen ==
  \A p \in Pipes :
    /\ pipe[p] = NULL <=> refcount[<<p, "r">>] = 0 /\ refcount[<<p, "w">>] = 0
    /\ pipe[p] # NULL => /\ pipe[p].readers = EndIsOpen(<<p, "r">>)
                         /\ pipe[p].writers = EndIsOpen(<<p, "w">>)

(* The memory of a dead task refers to nothing: fork may count its own.    *)
DeadTables == \A t \in Task : state[t] = "UNUSED" => \A f \in Fd : fd_table[t][f] = NULL

(* The three positions of a ring agree. *)
RingsAgree ==
  \A p \in Pipes : pipe[p] # NULL =>
    pipe[p].write_pos = (pipe[p].read_pos + pipe[p].data_len) % Size

PInv == PTyped /\ Counts /\ EndsOpen /\ DeadTables /\ RingsAgree /\ SleepersHavePeers

LEMMA PInvInit == PipeInit => PInv
<1> SUFFICES ASSUME PipeInit PROVE PInv
  OBVIOUS
<1>1. PTyped
  BY PipeAssumption DEF PipeInit, PTyped, Tables
<1>2. Counts
  <2> SUFFICES ASSUME NEW h \in Handle PROVE refcount[h] = Cardinality(Users(fd_table, h))
    BY DEF Counts
  <2>1. NULL # h
    BY PipeAssumption
  <2>2. Users(fd_table, h) = {}
    BY <2>1 DEF PipeInit, Users
  <2> QED
    BY <2>2, FS_EmptySet DEF PipeInit
<1>3. EndsOpen
  BY DEF PipeInit, EndsOpen, Handle
<1>4. DeadTables /\ RingsAgree /\ SleepersHavePeers
  BY DEF PipeInit, DeadTables, RingsAgree, SleepersHavePeers
<1> QED
  BY <1>1, <1>2, <1>3, <1>4 DEF PInv

(* RefcountsExact is what Counts and EndsOpen say together. *)
LEMMA ExactFromCounts ==
  ASSUME PTyped, Counts, EndsOpen
  PROVE  RefcountsExact
<1> SUFFICES ASSUME NEW h \in Handle
             PROVE  LET users == {tf \in Task \X Fd : fd_table[tf[1]][tf[2]] = h}
                        p == pipe[h[1]]
                    IN  /\ refcount[h] = Cardinality(users)
                        /\ users # {} => p # NULL
                        /\ p # NULL => (IF h[2] = "r" THEN p.readers ELSE p.writers)
                                          = (IF users = {} THEN 0 ELSE 1)
  BY DEF RefcountsExact
<1>1. refcount[h] = Cardinality(Users(fd_table, h))
  BY DEF Counts
<1>2. refcount[h] = 0 <=> Users(fd_table, h) = {}
  BY <1>1, UnusedIsZero
<1>3. PICK p \in Pipes, e \in {"r", "w"} : h = <<p, e>>
  BY DEF Handle
<1>4. Users(fd_table, h) # {} => pipe[h[1]] # NULL
  BY <1>2, <1>3 DEF EndsOpen
<1>5. pipe[h[1]] # NULL =>
        (IF h[2] = "r" THEN pipe[h[1]].readers ELSE pipe[h[1]].writers)
          = (IF Users(fd_table, h) = {} THEN 0 ELSE 1)
  BY <1>2, <1>3 DEF EndsOpen, EndIsOpen
<1> QED
  BY <1>1, <1>4, <1>5 DEF Users
-----------------------------------------------------------------------------
(* What the steps have in common. *)

(* Waking a set of tasks. *)
LEMMA Wakes ==
  ASSUME PTyped, NEW W, task_unblock(W)
  PROVE  /\ state' \in [Task -> {"UNUSED", "READY", "BLOCKED"}]
         /\ DOMAIN call' = Task
         /\ \A t \in Task : state'[t] = "UNUSED" => state[t] = "UNUSED"
         /\ \A t \in Task : state'[t] = "BLOCKED" =>
              state[t] = "BLOCKED" /\ t \notin W /\ call'[t] = call[t]
BY DEF PTyped, task_unblock

LEMMA FallsAsleep ==
  ASSUME PTyped, NEW t \in Task, NEW c, Runs(t), Sleep(t, c)
  PROVE  /\ state' \in [Task -> {"UNUSED", "READY", "BLOCKED"}]
         /\ DOMAIN call' = Task /\ call'[t] = c
         /\ \A u \in Task : state'[u] = "UNUSED" => state[u] = "UNUSED"
         /\ \A u \in Task : u # t /\ state'[u] = "BLOCKED" =>
              state[u] = "BLOCKED" /\ call'[u] = call[u]
BY DEF PTyped, Sleep, Runs

(* A step that leaves descriptors alone. *)
LEMMA SameTables ==
  ASSUME Counts, DeadTables, UNCHANGED <<fd_table, refcount>>,
         \A t \in Task : state'[t] = "UNUSED" => state[t] = "UNUSED"
  PROVE  Counts' /\ DeadTables'
BY DEF Counts, DeadTables, Users

(* The ends of pipes follow their handles: pipes that do not change. *)
LEMMA SameEnds ==
  ASSUME EndsOpen, RingsAgree, UNCHANGED pipe,
         refcount' \in [Handle -> Nat],
         \A h \in Handle : refcount'[h] = 0 <=> refcount[h] = 0
  PROVE  EndsOpen' /\ RingsAgree'
<1>1. \A p \in Pipes : <<p, "r">> \in Handle /\ <<p, "w">> \in Handle
  BY DEF Handle
<1>2. EndsOpen'
  BY <1>1 DEF EndsOpen, EndIsOpen
<1> QED
  BY <1>2 DEF RingsAgree

(* Sleepers: everybody who sleeps slept before, at the same pipe. *)
LEMMA SameSleepers ==
  ASSUME SleepersHavePeers, UNCHANGED pipe,
         \A t \in Task : state'[t] = "BLOCKED" => state[t] = "BLOCKED" /\ call'[t] = call[t]
  PROVE  SleepersHavePeers'
BY DEF SleepersHavePeers

(* A holder of an end: its pipe is allocated and the end is open. *)
LEMMA HolderFacts ==
  ASSUME PTyped, Counts, EndsOpen, NEW t \in Task, NEW f \in Fd, fd_table[t][f] # NULL
  PROVE  LET h == fd_table[t][f]
         IN  /\ h \in Handle /\ refcount[h] \in Nat /\ refcount[h] > 0
             /\ h[1] \in Pipes /\ pipe[h[1]] # NULL /\ pipe[h[1]] \in PipeState
             /\ h[2] = "r" => pipe[h[1]].readers = 1
             /\ h[2] = "w" => pipe[h[1]].writers = 1
<1> DEFINE h == fd_table[t][f]
<1>1. h \in Handle
  BY DEF PTyped, Tables
<1>2. PICK p \in Pipes, e \in {"r", "w"} : h = <<p, e>>
  BY <1>1 DEF Handle
<1>3. <<t, f>> \in Users(fd_table, h)
  BY DEF Users
<1>4. refcount[h] \in Nat /\ refcount[h] # 0
  <2>1. refcount[h] = Cardinality(Users(fd_table, h))
    BY <1>1 DEF Counts
  <2>2. Cardinality(Users(fd_table, h)) # 0
    BY <1>3, UnusedIsZero
  <2> QED
    BY <1>1, <2>1, <2>2 DEF PTyped
<1>5. pipe[p] # NULL /\ pipe[p] \in PipeState
  BY <1>2, <1>4 DEF EndsOpen, PTyped
<1>6. (e = "r" => pipe[p].readers = 1) /\ (e = "w" => pipe[p].writers = 1)
  BY <1>2, <1>4, <1>5 DEF EndsOpen, EndIsOpen
<1> QED
  BY <1>1, <1>2, <1>4, <1>5, <1>6

(* One pipe changes its ring and its waiters, not its ends. *)
LEMMA OnePipe ==
  ASSUME PInv, UNCHANGED <<fd_table, refcount>>,
         NEW p \in Pipes, pipe[p] # NULL, NEW b \in PipeState,
         pipe' = [pipe EXCEPT ![p] = b],
         b.readers = pipe[p].readers, b.writers = pipe[p].writers,
         b.write_pos = (b.read_pos + b.data_len) % Size,
         state' \in [Task -> {"UNUSED", "READY", "BLOCKED"}], DOMAIN call' = Task,
         \A t \in Task : state'[t] = "UNUSED" => state[t] = "UNUSED",
         \A t \in Task : state'[t] = "BLOCKED" =>
           \/ /\ state[t] = "BLOCKED" /\ call'[t] = call[t]
              /\ t \in Nodes(pipe[p].read_waiters) /\ call[t] = <<"read", p>>
                    => t \in Nodes(b.read_waiters)
              /\ t \in Nodes(pipe[p].write_waiters) /\ call[t] = <<"write", p>>
                    => t \in Nodes(b.write_waiters)
           \/ call'[t] = <<"read", p>> /\ b.writers > 0 /\ t \in Nodes(b.read_waiters)
           \/ call'[t] = <<"write", p>> /\ b.readers > 0 /\ t \in Nodes(b.write_waiters)
  PROVE  PInv'
<1>1. NULL \notin PipeState
  BY PipeAssumption
<1>2. PTyped'
  BY DEF PInv, PTyped
<1>3. Counts' /\ DeadTables'
  BY SameTables DEF PInv
<1>4. pipe'[p] = b /\ \A q \in Pipes : q # p => pipe'[q] = pipe[q]
  BY DEF PInv, PTyped
<1>5. EndsOpen'
  <2> SUFFICES ASSUME NEW q \in Pipes
               PROVE  /\ pipe'[q] = NULL <=> refcount'[<<q, "r">>] = 0 /\ refcount'[<<q, "w">>] = 0
                      /\ pipe'[q] # NULL => /\ pipe'[q].readers = EndIsOpen(<<q, "r">>)'
                                            /\ pipe'[q].writers = EndIsOpen(<<q, "w">>)'
    BY DEF EndsOpen
  <2>1. refcount' = refcount
    OBVIOUS
  <2>2. /\ pipe[q] = NULL <=> refcount[<<q, "r">>] = 0 /\ refcount[<<q, "w">>] = 0
        /\ pipe[q] # NULL => /\ pipe[q].readers = EndIsOpen(<<q, "r">>)
                             /\ pipe[q].writers = EndIsOpen(<<q, "w">>)
    BY DEF PInv, EndsOpen
  <2>3. CASE q = p
    BY <1>1, <1>4, <2>1, <2>2, <2>3 DEF EndIsOpen
  <2>4. CASE q # p
    BY <1>4, <2>1, <2>2, <2>4 DEF EndIsOpen
  <2> QED
    BY <2>3, <2>4
<1>6. RingsAgree'
  BY <1>4 DEF PInv, RingsAgree
<1>7. SleepersHavePeers'
  <2> SUFFICES ASSUME NEW t \in Task, state'[t] = "BLOCKED", NEW o \in {"read", "write"},
                      NEW q \in Pipes, call'[t] = <<o, q>>
               PROVE  /\ pipe'[q] # NULL
                      /\ o = "read" => pipe'[q].writers > 0 /\ t \in Nodes(pipe'[q].read_waiters)
                      /\ o = "write" => pipe'[q].readers > 0 /\ t \in Nodes(pipe'[q].write_waiters)
    BY DEF SleepersHavePeers
  <2>1. CASE state[t] = "BLOCKED" /\ call'[t] = call[t]
    <3>1. /\ pipe[q] # NULL
          /\ o = "read" => pipe[q].writers > 0 /\ t \in Nodes(pipe[q].read_waiters)
          /\ o = "write" => pipe[q].readers > 0 /\ t \in Nodes(pipe[q].write_waiters)
      <4>1. call[t] = <<o, q>> /\ call[t] \in {"read", "write"} \X Pipes
        <5>1. call[t] = <<o, q>>
          BY <2>1
        <5>2. <<o, q>> \in {"read", "write"} \X Pipes
          OBVIOUS
        <5> QED
          BY <5>1, <5>2
      <4>2. call[t][1] = o /\ call[t][2] = q
        BY <4>1
      <4> QED
        BY <2>1, <4>1, <4>2 DEF PInv, SleepersHavePeers
    <3>2. CASE q = p
      <4>1. pipe'[q] = b /\ b # NULL
        BY <1>1, <1>4, <3>2
      <4>2. CASE o = "read"
        <5>1. call[t] = <<"read", p>>
          BY <2>1, <3>2, <4>2
        <5>2. t \in Nodes(b.read_waiters)
          <6>1. ~(call'[t] = <<"write", p>>)
            BY <3>2, <4>2
          <6> QED
            BY <2>1, <3>1, <3>2, <4>2, <5>1, <6>1
        <5> QED
          BY <3>1, <3>2, <4>1, <4>2, <5>2
      <4>3. CASE o = "write"
        <5>1. call[t] = <<"write", p>>
          BY <2>1, <3>2, <4>3
        <5>2. t \in Nodes(b.write_waiters)
          <6>1. ~(call'[t] = <<"read", p>>)
            BY <3>2, <4>3
          <6> QED
            BY <2>1, <3>1, <3>2, <4>3, <5>1, <6>1
        <5> QED
          BY <3>1, <3>2, <4>1, <4>3, <5>2
      <4> QED
        BY <4>2, <4>3
    <3>3. CASE q # p
      BY <1>4, <3>1, <3>3
    <3> QED
      BY <3>2, <3>3
  <2>2. CASE ~(state[t] = "BLOCKED" /\ call'[t] = call[t])
    BY <1>1, <1>4, <2>2
  <2> QED
    BY <2>1, <2>2
<1> QED
  BY <1>2, <1>3, <1>5, <1>6, <1>7 DEF PInv
-----------------------------------------------------------------------------
(* Reading and writing. *)

(* k bytes leave the ring, or come: the positions stay in it and agree. *)
LEMMA PositionsRead ==
  ASSUME NEW r \in 0 .. Size - 1, NEW d \in 0 .. Size, NEW k \in 0 .. d
  PROVE  /\ (r + k) % Size \in 0 .. Size - 1 /\ d - k \in 0 .. Size
         /\ (((r + k) % Size) + (d - k)) % Size = (r + d) % Size
<1>1. Size \in Nat /\ Size > 0
  BY PipeAssumption
<1>2. (r + k) % Size = IF r + k < Size THEN r + k ELSE r + k - Size
  BY <1>1, Wraps
<1>3. (r + d) % Size = IF r + d < Size THEN r + d ELSE r + d - Size
  BY <1>1, Wraps
<1>4. CASE r + k < Size
  BY <1>1, <1>2, <1>4
<1>5. CASE r + k >= Size
  <2>1. r + k - Size + (d - k) = r + d - Size /\ r + d - Size \in Nat /\ r + d - Size < Size
    BY <1>1, <1>5
  <2>2. (r + d - Size) % Size = r + d - Size
    BY <1>1, <2>1, Wraps
  <2> QED
    BY <1>1, <1>2, <1>3, <1>5, <2>1, <2>2
<1> QED
  BY <1>1, <1>4, <1>5

LEMMA PositionsWrite ==
  ASSUME NEW r \in 0 .. Size - 1, NEW d \in 0 .. Size, NEW k \in 0 .. Size - d
  PROVE  /\ (((r + d) % Size) + k) % Size \in 0 .. Size - 1 /\ d + k \in 0 .. Size
         /\ (((r + d) % Size) + k) % Size = (r + (d + k)) % Size
<1>1. Size \in Nat /\ Size > 0
  BY PipeAssumption
<1>2. (r + d) % Size = IF r + d < Size THEN r + d ELSE r + d - Size
  BY <1>1, Wraps
<1>3. (r + (d + k)) % Size = IF r + (d + k) < Size THEN r + (d + k) ELSE r + (d + k) - Size
  BY <1>1, Wraps
<1>4. CASE r + d < Size
  BY <1>1, <1>2, <1>3, <1>4
<1>5. CASE r + d >= Size
  <2>1. r + d - Size + k \in Nat /\ r + d - Size + k < Size
    BY <1>1, <1>5
  <2>2. (r + d - Size + k) % Size = r + d - Size + k
    BY <1>1, <2>1, Wraps
  <2>3. r + (d + k) >= Size
    BY <1>1, <1>5
  <2> QED
    BY <1>1, <1>2, <1>3, <1>5, <2>1, <2>2, <2>3
<1> QED
  BY <1>1, <1>4, <1>5

LEMMA FewerFacts ==
  ASSUME NEW a \in Nat, NEW b \in Nat
  PROVE  /\ Fewer(a, b) \in Nat /\ Fewer(a, b) <= a /\ Fewer(a, b) <= b
         /\ a > 0 /\ b > 0 => Fewer(a, b) > 0
BY DEF Fewer

(* The pipe after k bytes were read, and after k bytes of s were written. *)
AfterRead(b, k) ==
  [b EXCEPT !.read_pos = (@ + k) % Size, !.data_len = @ - k, !.write_waiters = Rest(@)]

LEMMA ReadDataStep ==
  ASSUME PInv, NEW t \in Task, NEW f \in Fd, NEW n \in 1 .. MaxRequest, ReadData(t, f, n)
  PROVE  PInv'
<1> DEFINE p == fd_table[t][f][1]
           b == pipe[p]
           k == Fewer(n, b.data_len)
           c == AfterRead(b, k)
<1>1. fd_table[t][f] # NULL
  BY DEF ReadData, Holds
<1>2. p \in Pipes /\ b # NULL /\ b \in PipeState
  BY <1>1, HolderFacts DEF PInv
<1>3. /\ pipe' = [pipe EXCEPT ![p] = c]
      /\ UNCHANGED <<fd_table, refcount>>
      /\ task_unblock(Nodes(Popped(b.write_waiters)))
  BY DEF ReadData, AfterRead, Popped, Rest
<1>4. k \in 0 .. b.data_len
  <2>1. n \in Nat /\ b.data_len \in Nat
    <3>1. b.data_len \in 0 .. Size
      BY <1>2 DEF PipeState
    <3> QED
      BY <3>1, PipeAssumption
  <2>2. Fewer(n, b.data_len) \in Nat /\ Fewer(n, b.data_len) <= b.data_len
    BY <2>1, FewerFacts
  <2> HIDE DEF b
  <2> QED
    BY <2>1, <2>2
<1>5. b.write_pos = (b.read_pos + b.data_len) % Size
  BY <1>2 DEF PInv, RingsAgree
<1>6. /\ (b.read_pos + k) % Size \in 0 .. Size - 1 /\ b.data_len - k \in 0 .. Size
      /\ b.write_pos = (((b.read_pos + k) % Size) + (b.data_len - k)) % Size
  <2>1. b.read_pos \in 0 .. Size - 1 /\ b.data_len \in 0 .. Size
    BY <1>2 DEF PipeState
  <2> HIDE DEF b, k
  <2> QED
    BY <1>4, <1>5, <2>1, PositionsRead
<1>7. /\ Rest(b.write_waiters) \in Seq(Task)
      /\ Nodes(b.write_waiters) \subseteq
           Nodes(Popped(b.write_waiters)) \cup Nodes(Rest(b.write_waiters))
  BY <1>2, PopEffect DEF PipeState
<1> HIDE DEF p, k
<1>8. /\ c \in PipeState
      /\ c.readers = b.readers /\ c.writers = b.writers /\ c.read_waiters = b.read_waiters
      /\ c.write_waiters = Rest(b.write_waiters)
      /\ c.write_pos = (c.read_pos + c.data_len) % Size
  BY <1>2, <1>6, <1>7 DEF PipeState, AfterRead
<1>9. /\ state' \in [Task -> {"UNUSED", "READY", "BLOCKED"}] /\ DOMAIN call' = Task
      /\ \A u \in Task : state'[u] = "UNUSED" => state[u] = "UNUSED"
      /\ \A u \in Task : state'[u] = "BLOCKED" =>
           /\ state[u] = "BLOCKED" /\ u \notin Nodes(Popped(b.write_waiters))
           /\ call'[u] = call[u]
  BY <1>3, Wakes DEF PInv
<1>10. ASSUME NEW u \in Task, state'[u] = "BLOCKED"
       PROVE  /\ state[u] = "BLOCKED" /\ call'[u] = call[u]
              /\ u \in Nodes(b.read_waiters) => u \in Nodes(c.read_waiters)
              /\ u \in Nodes(b.write_waiters) => u \in Nodes(c.write_waiters)
  BY <1>7, <1>8, <1>9, <1>10
<1> HIDE DEF c
<1> QED
  BY <1>2, <1>3, <1>8, <1>9, <1>10, OnePipe

(* Offset of slot i from position w, around the ring. *)
At(i, w) == (i + Size - w) % Size

AfterWrite(b, s, k) ==
  [b EXCEPT !.buffer = [i \in 0 .. Size - 1 |-> IF At(i, b.write_pos) < k
                                                THEN s[At(i, b.write_pos) + 1] ELSE @[i]],
            !.write_pos = (@ + k) % Size, !.data_len = @ + k, !.read_waiters = Rest(@)]

LEMMA AtFacts ==
  ASSUME NEW i \in 0 .. Size - 1, NEW w \in 0 .. Size - 1
  PROVE  /\ At(i, w) \in 0 .. Size - 1
         /\ At(i, w) = IF i < w THEN i + Size - w ELSE i - w
<1>1. Size \in Nat /\ Size > 0
  BY PipeAssumption
<1>2. (i + Size - w) % Size = IF i + Size - w < Size THEN i + Size - w ELSE i + Size - w - Size
  BY <1>1, Wraps
<1> QED
  BY <1>1, <1>2 DEF At

LEMMA WriteDataFacts ==
  ASSUME PInv, NEW t \in Task, NEW f \in Fd, NEW s \in Payload, WriteData(t, f, s)
  PROVE  LET p == fd_table[t][f][1]
             b == pipe[p]
             k == Fewer(Len(s), Size - b.data_len)
             c == AfterWrite(b, s, k)
         IN  /\ p \in Pipes /\ b # NULL /\ b \in PipeState /\ fd_table[t][f][2] = "w"
             /\ s \in Seq(Data) /\ k \in 1 .. Size - b.data_len /\ k <= Len(s)
             /\ b.readers > 0 /\ b.writers = 1
             /\ b.write_pos = (b.read_pos + b.data_len) % Size
             /\ c \in PipeState
             /\ c.readers = b.readers /\ c.writers = b.writers
             /\ c.write_waiters = b.write_waiters /\ c.read_waiters = Rest(b.read_waiters)
             /\ c.write_pos = (c.read_pos + c.data_len) % Size
             /\ pipe' = [pipe EXCEPT ![p] = c]
             /\ UNCHANGED <<fd_table, refcount>> /\ Quiet
             /\ task_unblock(Nodes(Popped(b.read_waiters)))
<1> DEFINE p == fd_table[t][f][1]
           b == pipe[p]
           k == Fewer(Len(s), Size - b.data_len)
           c == AfterWrite(b, s, k)
<1>1. fd_table[t][f] # NULL /\ fd_table[t][f][2] = "w" /\ b.readers > 0 /\ b.data_len < Size
  BY DEF WriteData, Holds
<1>2. p \in Pipes /\ b # NULL /\ b \in PipeState /\ b.writers = 1
  BY <1>1, HolderFacts DEF PInv
<1>3. /\ DOMAIN b.buffer = 0 .. Size - 1 /\ b.write_pos \in 0 .. Size - 1
      /\ b.read_pos \in 0 .. Size - 1 /\ b.data_len \in 0 .. Size
      /\ b.buffer \in [0 .. Size - 1 -> Data]
  BY <1>2 DEF PipeState
<1>4. s \in Seq(Data) /\ Len(s) \in Nat /\ Len(s) > 0
  <2>1. s \in Seq(Data) /\ s # <<>>
    BY PipeAssumption
  <2> QED
    BY <2>1
<1>5. k \in 1 .. Size - b.data_len /\ k <= Len(s)
  <2>1. Size - b.data_len \in Nat /\ Size - b.data_len > 0
    BY <1>1, <1>3, PipeAssumption
  <2>2. /\ Fewer(Len(s), Size - b.data_len) \in Nat
        /\ Fewer(Len(s), Size - b.data_len) <= Len(s)
        /\ Fewer(Len(s), Size - b.data_len) <= Size - b.data_len
        /\ Fewer(Len(s), Size - b.data_len) > 0
    BY <1>4, <2>1, FewerFacts
  <2> HIDE DEF b
  <2> QED
    BY <1>4, <2>1, <2>2
<1>6. /\ pipe' = [pipe EXCEPT ![p] = c]
      /\ UNCHANGED <<fd_table, refcount>> /\ Quiet
      /\ task_unblock(Nodes(Popped(b.read_waiters)))
  BY <1>2, <1>3 DEF WriteData, AfterWrite, Popped, Rest, At
<1>7. b.write_pos = (b.read_pos + b.data_len) % Size
  BY <1>2 DEF PInv, RingsAgree
<1> HIDE DEF p, k
<1>8. /\ (b.write_pos + k) % Size \in 0 .. Size - 1 /\ b.data_len + k \in 0 .. Size
      /\ (b.write_pos + k) % Size = (b.read_pos + (b.data_len + k)) % Size
  <2>1. k \in 0 .. Size - b.data_len
    <3> HIDE DEF b
    <3> QED
      BY <1>3, <1>5, PipeAssumption
  <2> HIDE DEF b
  <2> QED
    BY <1>3, <1>7, <2>1, PositionsWrite
<1>9. Rest(b.read_waiters) \in Seq(Task)
  BY <1>2, PopEffect DEF PipeState
<1>10. [i \in 0 .. Size - 1 |-> IF At(i, b.write_pos) < k
                               THEN s[At(i, b.write_pos) + 1] ELSE b.buffer[i]]
         \in [0 .. Size - 1 -> Data]
  <2> SUFFICES ASSUME NEW i \in 0 .. Size - 1, At(i, b.write_pos) < k
               PROVE  s[At(i, b.write_pos) + 1] \in Data
    BY <1>3
  <2>1. At(i, b.write_pos) \in 0 .. Size - 1
    BY <1>3, AtFacts
  <2>2. At(i, b.write_pos) + 1 \in 1 .. Len(s)
    <3> DEFINE a == At(i, b.write_pos)
    <3> HIDE DEF a
    <3>1. k \in Nat
      BY <1>5
    <3> QED
      BY <1>4, <1>5, <2>1, <3>1, PipeAssumption DEF a
  <2> QED
    BY <1>4, <2>2
<1>11. /\ c \in PipeState
       /\ c.readers = b.readers /\ c.writers = b.writers
       /\ c.write_waiters = b.write_waiters /\ c.read_waiters = Rest(b.read_waiters)
       /\ c.write_pos = (c.read_pos + c.data_len) % Size
  BY <1>2, <1>8, <1>9, <1>10 DEF PipeState, AfterWrite
<1> HIDE DEF b, c
<1> QED
  BY <1>1, <1>2, <1>4, <1>5, <1>6, <1>7, <1>11 DEF p, b, k, c

LEMMA WriteDataStep ==
  ASSUME PInv, NEW t \in Task, NEW f \in Fd, NEW s \in Payload, WriteData(t, f, s)
  PROVE  PInv'
<1> DEFINE p == fd_table[t][f][1]
           b == pipe[p]
           k == Fewer(Len(s), Size - b.data_len)
           c == AfterWrite(b, s, k)
<1>1. /\ p \in Pipes /\ b # NULL /\ b \in PipeState
      /\ c \in PipeState
      /\ c.readers = b.readers /\ c.writers = b.writers
      /\ c.write_waiters = b.write_waiters /\ c.read_waiters = Rest(b.read_waiters)
      /\ c.write_pos = (c.read_pos + c.data_len) % Size
      /\ pipe' = [pipe EXCEPT ![p] = c]
      /\ UNCHANGED <<fd_table, refcount>>
      /\ task_unblock(Nodes(Popped(b.read_waiters)))
  <2>1. p \in Pipes /\ b # NULL /\ b \in PipeState /\ c \in PipeState
    BY WriteDataFacts
  <2>2. c.readers = b.readers /\ c.writers = b.writers
    BY WriteDataFacts
  <2>3. c.write_waiters = b.write_waiters /\ c.read_waiters = Rest(b.read_waiters)
    BY WriteDataFacts
  <2>4. c.write_pos = (c.read_pos + c.data_len) % Size
    BY WriteDataFacts
  <2>5. pipe' = [pipe EXCEPT ![p] = c] /\ UNCHANGED <<fd_table, refcount>>
    BY WriteDataFacts
  <2>6. task_unblock(Nodes(Popped(b.read_waiters)))
    BY WriteDataFacts
  <2> HIDE DEF p, b, k, c
  <2> QED
    BY <2>1, <2>2, <2>3, <2>4, <2>5, <2>6
<1>2. Nodes(b.read_waiters) \subseteq
        Nodes(Popped(b.read_waiters)) \cup Nodes(Rest(b.read_waiters))
  BY <1>1, PopEffect DEF PipeState
<1>3. /\ state' \in [Task -> {"UNUSED", "READY", "BLOCKED"}] /\ DOMAIN call' = Task
      /\ \A u \in Task : state'[u] = "UNUSED" => state[u] = "UNUSED"
      /\ \A u \in Task : state'[u] = "BLOCKED" =>
           /\ state[u] = "BLOCKED" /\ u \notin Nodes(Popped(b.read_waiters))
           /\ call'[u] = call[u]
  BY <1>1, Wakes DEF PInv
<1> HIDE DEF p, k, c
<1>4. ASSUME NEW u \in Task, state'[u] = "BLOCKED"
      PROVE  /\ state[u] = "BLOCKED" /\ call'[u] = call[u]
             /\ u \in Nodes(b.read_waiters) => u \in Nodes(c.read_waiters)
             /\ u \in Nodes(b.write_waiters) => u \in Nodes(c.write_waiters)
  BY <1>1, <1>2, <1>3, <1>4
<1> QED
  BY <1>1, <1>3, <1>4, OnePipe

LEMMA ReadSleepStep ==
  ASSUME PInv, NEW t \in Task, NEW f \in Fd, ReadSleep(t, f)
  PROVE  PInv'
<1> DEFINE p == fd_table[t][f][1]
           b == pipe[p]
           c == [b EXCEPT !.read_waiters = Append(@, t)]
<1>1. /\ fd_table[t][f] # NULL /\ Runs(t) /\ b.writers > 0
      /\ pipe' = [pipe EXCEPT ![p] = c]
      /\ UNCHANGED <<fd_table, refcount>> /\ Sleep(t, <<"read", p>>)
  BY DEF ReadSleep, Holds
<1>2. p \in Pipes /\ b # NULL /\ b \in PipeState
  BY <1>1, HolderFacts DEF PInv
<1>3. /\ Append(b.read_waiters, t) \in Seq(Task)
      /\ Nodes(Append(b.read_waiters, t)) = Nodes(b.read_waiters) \cup {t}
  BY <1>2, AppendEffect DEF PipeState
<1>4. /\ c \in PipeState
      /\ c.readers = b.readers /\ c.writers = b.writers
      /\ c.write_waiters = b.write_waiters /\ c.read_waiters = Append(b.read_waiters, t)
      /\ c.write_pos = b.write_pos /\ c.read_pos = b.read_pos /\ c.data_len = b.data_len
  BY <1>2, <1>3 DEF PipeState
<1>5. b.write_pos = (b.read_pos + b.data_len) % Size
  BY <1>2 DEF PInv, RingsAgree
<1> HIDE DEF p
<1>6. /\ state' \in [Task -> {"UNUSED", "READY", "BLOCKED"}]
      /\ DOMAIN call' = Task /\ call'[t] = <<"read", p>>
      /\ \A u \in Task : state'[u] = "UNUSED" => state[u] = "UNUSED"
      /\ \A u \in Task : u # t /\ state'[u] = "BLOCKED" =>
           state[u] = "BLOCKED" /\ call'[u] = call[u]
  BY <1>1, FallsAsleep DEF PInv
<1>7. ASSUME NEW u \in Task, state'[u] = "BLOCKED"
      PROVE  \/ /\ state[u] = "BLOCKED" /\ call'[u] = call[u]
                /\ u \in Nodes(b.read_waiters) => u \in Nodes(c.read_waiters)
                /\ u \in Nodes(b.write_waiters) => u \in Nodes(c.write_waiters)
             \/ call'[u] = <<"read", p>> /\ c.writers > 0 /\ u \in Nodes(c.read_waiters)
  BY <1>1, <1>3, <1>4, <1>6, <1>7
<1>8. c.write_pos = (c.read_pos + c.data_len) % Size
  BY <1>4, <1>5
<1> HIDE DEF c
<1> QED
  BY <1>1, <1>2, <1>4, <1>6, <1>7, <1>8, OnePipe

LEMMA WriteSleepStep ==
  ASSUME PInv, NEW t \in Task, NEW f \in Fd, WriteSleep(t, f)
  PROVE  PInv'
<1> DEFINE p == fd_table[t][f][1]
           b == pipe[p]
           c == [b EXCEPT !.write_waiters = Append(@, t)]
<1>1. /\ fd_table[t][f] # NULL /\ Runs(t) /\ b.readers > 0
      /\ pipe' = [pipe EXCEPT ![p] = c]
      /\ UNCHANGED <<fd_table, refcount>> /\ Sleep(t, <<"write", p>>)
  BY DEF WriteSleep, Holds
<1>2. p \in Pipes /\ b # NULL /\ b \in PipeState
  BY <1>1, HolderFacts DEF PInv
<1>3. /\ Append(b.write_waiters, t) \in Seq(Task)
      /\ Nodes(Append(b.write_waiters, t)) = Nodes(b.write_waiters) \cup {t}
  BY <1>2, AppendEffect DEF PipeState
<1>4. /\ c \in PipeState
      /\ c.readers = b.readers /\ c.writers = b.writers
      /\ c.read_waiters = b.read_waiters /\ c.write_waiters = Append(b.write_waiters, t)
      /\ c.write_pos = b.write_pos /\ c.read_pos = b.read_pos /\ c.data_len = b.data_len
  BY <1>2, <1>3 DEF PipeState
<1>5. b.write_pos = (b.read_pos + b.data_len) % Size
  BY <1>2 DEF PInv, RingsAgree
<1> HIDE DEF p
<1>6. /\ state' \in [Task -> {"UNUSED", "READY", "BLOCKED"}]
      /\ DOMAIN call' = Task /\ call'[t] = <<"write", p>>
      /\ \A u \in Task : state'[u] = "UNUSED" => state[u] = "UNUSED"
      /\ \A u \in Task : u # t /\ state'[u] = "BLOCKED" =>
           state[u] = "BLOCKED" /\ call'[u] = call[u]
  BY <1>1, FallsAsleep DEF PInv
<1>7. ASSUME NEW u \in Task, state'[u] = "BLOCKED"
      PROVE  \/ /\ state[u] = "BLOCKED" /\ call'[u] = call[u]
                /\ u \in Nodes(b.read_waiters) => u \in Nodes(c.read_waiters)
                /\ u \in Nodes(b.write_waiters) => u \in Nodes(c.write_waiters)
             \/ call'[u] = <<"write", p>> /\ c.readers > 0 /\ u \in Nodes(c.write_waiters)
  BY <1>1, <1>3, <1>4, <1>6, <1>7
<1>8. c.write_pos = (c.read_pos + c.data_len) % Size
  BY <1>4, <1>5
<1> HIDE DEF c
<1> QED
  BY <1>1, <1>2, <1>4, <1>6, <1>7, <1>8, OnePipe
-----------------------------------------------------------------------------
(* Opening and closing ends. *)

LEMMA RefsFacts ==
  ASSUME NEW t \in Task, NEW h \in Handle
  PROVE  /\ Refs(t, Fd, h) = Cardinality(Row(fd_table[t], h))
         /\ \A f \in Fd : Refs(t, {f}, h) = IF fd_table[t][f] = h THEN 1 ELSE 0
<1>1. Refs(t, Fd, h) = Cardinality(Row(fd_table[t], h))
  BY DEF Refs, Row
<1>2. ASSUME NEW f \in Fd
      PROVE  Refs(t, {f}, h) = IF fd_table[t][f] = h THEN 1 ELSE 0
  <2>1. CASE fd_table[t][f] = h
    <3>1. {g \in {f} : fd_table[t][g] = h} = {f}
      BY <2>1
    <3> QED
      BY <2>1, <3>1, FS_Singleton DEF Refs
  <2>2. CASE fd_table[t][f] # h
    <3>1. {g \in {f} : fd_table[t][g] = h} = {}
      BY <2>2
    <3> QED
      BY <2>2, <3>1, FS_EmptySet DEF Refs
  <2> QED
    BY <2>1, <2>2
<1> QED
  BY <1>1, <1>2

(* The handles G lose their last descriptor, their ends close and whoever  *)
(* waits at the other end of one wakes up.                                 *)
LEMMA ClosesEnds ==
  ASSUME PInv, NEW G \in SUBSET Handle,
         refcount' \in [Handle -> Nat],
         \A h \in G : refcount'[h] = 0,
         \A h \in Handle \ G : refcount'[h] = 0 <=> refcount[h] = 0,
         pipe' = [p \in Pipes |-> Closed(p, G)],
         \A t \in Task : state'[t] = "BLOCKED" =>
           state[t] = "BLOCKED" /\ call'[t] = call[t] /\ t \notin Roused(G)
  PROVE  /\ pipe' \in [Pipes -> PipeState \cup {NULL}]
         /\ EndsOpen' /\ RingsAgree' /\ SleepersHavePeers'
<1>1. NULL \notin PipeState
  BY PipeAssumption
<1> DEFINE rs(p) == IF <<p, "r">> \in G THEN 0 ELSE pipe[p].readers
           ws(p) == IF <<p, "w">> \in G THEN 0 ELSE pipe[p].writers
           c(p) == [pipe[p] EXCEPT !.readers = rs(p), !.writers = ws(p),
                      !.write_waiters = IF <<p, "r">> \in G THEN <<>> ELSE @,
                      !.read_waiters  = IF <<p, "w">> \in G THEN <<>> ELSE @]
<1>2. ASSUME NEW p \in Pipes
      PROVE  pipe'[p] = IF pipe[p] = NULL THEN NULL
                        ELSE IF rs(p) = 0 /\ ws(p) = 0 THEN NULL ELSE c(p)
  BY DEF Closed
<1>3. ASSUME NEW p \in Pipes, pipe[p] # NULL
      PROVE  /\ pipe[p] \in PipeState
             /\ c(p) \in PipeState
             /\ rs(p) \in {0, 1} /\ ws(p) \in {0, 1}
             /\ c(p).readers = rs(p) /\ c(p).writers = ws(p)
             /\ c(p).read_waiters = IF <<p, "w">> \in G THEN <<>> ELSE pipe[p].read_waiters
             /\ c(p).write_waiters = IF <<p, "r">> \in G THEN <<>> ELSE pipe[p].write_waiters
             /\ c(p).read_pos = pipe[p].read_pos /\ c(p).write_pos = pipe[p].write_pos
             /\ c(p).data_len = pipe[p].data_len /\ c(p).buffer = pipe[p].buffer
  <2>1. pipe[p] \in PipeState
    BY <1>3 DEF PInv, PTyped
  <2>2. /\ rs(p) \in {0, 1} /\ ws(p) \in {0, 1}
        /\ (IF <<p, "w">> \in G THEN <<>> ELSE pipe[p].read_waiters) \in Seq(Task)
        /\ (IF <<p, "r">> \in G THEN <<>> ELSE pipe[p].write_waiters) \in Seq(Task)
    BY <2>1 DEF PipeState
  <2> HIDE DEF rs, ws
  <2> QED
    BY <2>1, <2>2 DEF PipeState
<1>4. ASSUME NEW p \in Pipes, pipe[p] # NULL
      PROVE  /\ rs(p) = EndIsOpen(<<p, "r">>)'
             /\ ws(p) = EndIsOpen(<<p, "w">>)'
  <2>1. <<p, "r">> \in Handle /\ <<p, "w">> \in Handle
    BY DEF Handle
  <2>2. pipe[p].readers = EndIsOpen(<<p, "r">>) /\ pipe[p].writers = EndIsOpen(<<p, "w">>)
    BY <1>4 DEF PInv, EndsOpen
  <2> QED
    BY <2>1, <2>2 DEF EndIsOpen
<1>5. ASSUME NEW p \in Pipes
      PROVE  pipe[p] = NULL => refcount'[<<p, "r">>] = 0 /\ refcount'[<<p, "w">>] = 0
  <2>1. <<p, "r">> \in Handle /\ <<p, "w">> \in Handle
    BY DEF Handle
  <2>2. pipe[p] = NULL => refcount[<<p, "r">>] = 0 /\ refcount[<<p, "w">>] = 0
    BY DEF PInv, EndsOpen
  <2> QED
    BY <2>1, <2>2
<1>6. ASSUME NEW t \in Task, state'[t] = "BLOCKED", NEW p \in Pipes
      PROVE  /\ <<p, "r">> \in G => t \notin Nodes(pipe[p].write_waiters)
             /\ <<p, "w">> \in G => t \notin Nodes(pipe[p].read_waiters)
  <2>1. ASSUME <<p, "r">> \in G, t \in Nodes(pipe[p].write_waiters) PROVE FALSE
    <3> DEFINE h == <<p, "r">>
    <3>1. t \in Nodes(IF h[2] = "r" THEN pipe[h[1]].write_waiters ELSE pipe[h[1]].read_waiters)
      BY <2>1
    <3>2. h \in G
      BY <2>1
    <3> HIDE DEF h
    <3>3. t \in Roused(G)
      BY <3>1, <3>2 DEF Roused
    <3> QED
      BY <1>6, <3>3
  <2>2. ASSUME <<p, "w">> \in G, t \in Nodes(pipe[p].read_waiters) PROVE FALSE
    <3> DEFINE h == <<p, "w">>
    <3>1. t \in Nodes(IF h[2] = "r" THEN pipe[h[1]].write_waiters ELSE pipe[h[1]].read_waiters)
      BY <2>2
    <3>2. h \in G
      BY <2>2
    <3> HIDE DEF h
    <3>3. t \in Roused(G)
      BY <3>1, <3>2 DEF Roused
    <3> QED
      BY <1>6, <3>3
  <2> QED
    BY <2>1, <2>2
<1> HIDE DEF rs, ws, c
<1>7. pipe' \in [Pipes -> PipeState \cup {NULL}]
  BY <1>2, <1>3
<1>8. EndsOpen'
  <2> SUFFICES ASSUME NEW p \in Pipes
               PROVE  /\ pipe'[p] = NULL <=> refcount'[<<p, "r">>] = 0 /\ refcount'[<<p, "w">>] = 0
                      /\ pipe'[p] # NULL => /\ pipe'[p].readers = EndIsOpen(<<p, "r">>)'
                                            /\ pipe'[p].writers = EndIsOpen(<<p, "w">>)'
    BY DEF EndsOpen
  <2>1. CASE pipe[p] = NULL
    BY <1>2, <1>5, <2>1
  <2>2. CASE pipe[p] # NULL
    <3>1. c(p) # NULL
      BY <1>1, <1>3, <2>2
    <3>2. rs(p) = 0 <=> refcount'[<<p, "r">>] = 0
      <4>1. rs(p) = IF refcount'[<<p, "r">>] = 0 THEN 0 ELSE 1
        BY <1>4, <2>2 DEF EndIsOpen
      <4> QED
        BY <4>1
    <3>3. ws(p) = 0 <=> refcount'[<<p, "w">>] = 0
      <4>1. ws(p) = IF refcount'[<<p, "w">>] = 0 THEN 0 ELSE 1
        BY <1>4, <2>2 DEF EndIsOpen
      <4> QED
        BY <4>1
    <3> QED
      BY <1>2, <1>3, <1>4, <2>2, <3>1, <3>2, <3>3
  <2> QED
    BY <2>1, <2>2
<1>9. RingsAgree'
  <2> SUFFICES ASSUME NEW p \in Pipes, pipe'[p] # NULL
               PROVE  pipe'[p].write_pos = (pipe'[p].read_pos + pipe'[p].data_len) % Size
    BY DEF RingsAgree
  <2>1. pipe[p] # NULL /\ pipe'[p] = c(p)
    BY <1>2
  <2>2. pipe[p].write_pos = (pipe[p].read_pos + pipe[p].data_len) % Size
    BY <2>1 DEF PInv, RingsAgree
  <2> QED
    BY <1>3, <2>1, <2>2
<1>10. SleepersHavePeers'
  <2> SUFFICES ASSUME NEW t \in Task, state'[t] = "BLOCKED", NEW o \in {"read", "write"},
                      NEW q \in Pipes, call'[t] = <<o, q>>
               PROVE  /\ pipe'[q] # NULL
                      /\ o = "read" => pipe'[q].writers > 0 /\ t \in Nodes(pipe'[q].read_waiters)
                      /\ o = "write" => pipe'[q].readers > 0 /\ t \in Nodes(pipe'[q].write_waiters)
    BY DEF SleepersHavePeers
  <2>1. /\ pipe[q] # NULL
        /\ o = "read" => pipe[q].writers > 0 /\ t \in Nodes(pipe[q].read_waiters)
        /\ o = "write" => pipe[q].readers > 0 /\ t \in Nodes(pipe[q].write_waiters)
    <3>1. call[t] = <<o, q>> /\ state[t] = "BLOCKED"
      OBVIOUS
    <3>2. <<o, q>> \in {"read", "write"} \X Pipes
      OBVIOUS
    <3>3. call[t] \in {"read", "write"} \X Pipes /\ call[t][1] = o /\ call[t][2] = q
      BY <3>1, <3>2
    <3> QED
      BY <3>1, <3>3 DEF PInv, SleepersHavePeers
  <2>2. c(q) # NULL
    BY <1>1, <1>3, <2>1
  <2>3. CASE o = "read"
    <3>1. <<q, "w">> \notin G
      BY <1>6, <2>1, <2>3
    <3>2. ws(q) = pipe[q].writers /\ ws(q) > 0
      BY <2>1, <2>3, <3>1 DEF ws
    <3>3. ~(rs(q) = 0 /\ ws(q) = 0)
      BY <1>3, <2>1, <3>2
    <3>4. pipe'[q] = c(q)
      BY <1>2, <2>1, <3>3
    <3>5. c(q).writers > 0 /\ c(q).read_waiters = pipe[q].read_waiters
      BY <1>3, <2>1, <3>1, <3>2
    <3> QED
      BY <2>1, <2>2, <2>3, <3>4, <3>5
  <2>4. CASE o = "write"
    <3>1. <<q, "r">> \notin G
      BY <1>6, <2>1, <2>4
    <3>2. rs(q) = pipe[q].readers /\ rs(q) > 0
      BY <2>1, <2>4, <3>1 DEF rs
    <3>3. ~(rs(q) = 0 /\ ws(q) = 0)
      BY <1>3, <2>1, <3>2
    <3>4. pipe'[q] = c(q)
      BY <1>2, <2>1, <3>3
    <3>5. c(q).readers > 0 /\ c(q).write_waiters = pipe[q].write_waiters
      BY <1>3, <2>1, <3>1, <3>2
    <3> QED
      BY <2>1, <2>2, <2>4, <3>4, <3>5
  <2> QED
    BY <2>3, <2>4
<1> QED
  BY <1>7, <1>8, <1>9, <1>10

(* The tables after one entry of a running task has changed. *)
LEMMA EntryTables ==
  ASSUME PInv, NEW t \in Task, NEW f \in Fd, NEW y \in Handle \cup {NULL}, Runs(t),
         fd_table' = [fd_table EXCEPT ![t][f] = y],
         refcount' \in [Handle -> Nat],
         \A h \in Handle : refcount'[h] = refcount[h] - (IF fd_table[t][f] = h THEN 1 ELSE 0)
                                                     + (IF y = h THEN 1 ELSE 0),
         \A u \in Task : state'[u] = "UNUSED" => state[u] = "UNUSED"
  PROVE  fd_table' \in Tables /\ Counts' /\ DeadTables'
<1>1. fd_table \in Tables
  BY DEF PInv, PTyped
<1>2. fd_table' \in Tables
  BY <1>1 DEF Tables
<1>3. /\ fd_table'[t][f] = y
      /\ \A u \in Task, g \in Fd : u # t \/ g # f => fd_table'[u][g] = fd_table[u][g]
  BY <1>1 DEF Tables
<1>4. Counts'
  <2> SUFFICES ASSUME NEW h \in Handle PROVE refcount'[h] = Cardinality(Users(fd_table', h))
    BY DEF Counts
  <2>1. refcount[h] = Cardinality(Users(fd_table, h))
    BY DEF PInv, Counts
  <2>2. Cardinality(Users(fd_table', h)) =
          Cardinality(Users(fd_table, h)) - (IF fd_table[t][f] = h THEN 1 ELSE 0)
                                          + (IF fd_table'[t][f] = h THEN 1 ELSE 0)
    <3>1. PICK U \in Tables : U = fd_table'
      BY <1>2
    <3>2. \A u \in Task, g \in Fd : u # t \/ g # f => U[u][g] = fd_table[u][g]
      BY <1>3, <3>1
    <3>3. Cardinality(Users(U, h)) =
            Cardinality(Users(fd_table, h)) - (IF fd_table[t][f] = h THEN 1 ELSE 0)
                                            + (IF U[t][f] = h THEN 1 ELSE 0)
      BY <1>1, <3>2, EntryCounts
    <3> QED
      BY <3>1, <3>3
  <2> QED
    BY <1>3, <2>1, <2>2
<1>5. DeadTables'
  <2> SUFFICES ASSUME NEW u \in Task, state'[u] = "UNUSED", NEW g \in Fd
               PROVE  fd_table'[u][g] = NULL
    BY DEF DeadTables
  <2>1. state[u] = "UNUSED"
    OBVIOUS
  <2>2. u # t
    BY <2>1 DEF Runs
  <2> QED
    BY <1>3, <2>1, <2>2 DEF PInv, DeadTables
<1> QED
  BY <1>2, <1>4, <1>5

LEMMA LowestFree ==
  ASSUME NEW S \in SUBSET Fd, S # {}
  PROVE  Lowest(S) \in S
<1>1. S \subseteq Nat
  BY PipeAssumption DEF Fd
<1>2. PICK n \in S : \A m \in S : ~(<<m, n>> \in OpToRel(<, Nat))
  BY <1>1, NatLessThanWellFounded, WFMin
<1>3. \A m \in S : n <= m
  <2> TAKE m \in S
  <2>1. <<m, n>> \in Nat \X Nat
    BY <1>1
  <2>2. ~(m < n)
    BY <1>2, <2>1, ZenonT(20) DEF OpToRel
  <2> QED
    BY <1>1, <2>2
<1> QED
  BY <1>3 DEF Lowest

LEMMA SysPipeStep ==
  ASSUME PInv, NEW t \in Task, NEW p \in Pipes, sys_pipe(t, p)
  PROVE  PInv'
<1> DEFINE S == Free(t)
           rfd == Lowest(S)
           wfd == Lowest(S \ {rfd})
           r == <<p, "r">>
           w == <<p, "w">>
           b == [NewPipe EXCEPT !.readers = 1, !.writers = 1]
<1>1. /\ Runs(t) /\ pipe[p] = NULL /\ Cardinality(S) >= 2
      /\ fd_table' = [fd_table EXCEPT ![t][rfd] = r, ![t][wfd] = w]
      /\ refcount' = [refcount EXCEPT ![r] = 1, ![w] = 1]
      /\ pipe' = [pipe EXCEPT ![p] = b]
      /\ UNCHANGED <<state, call>>
  BY DEF sys_pipe
<1>2. /\ S \in SUBSET Fd /\ rfd \in S /\ wfd \in S /\ rfd # wfd
  <2>1. S \in SUBSET Fd /\ IsFiniteSet(S)
    <3>1. S \in SUBSET Fd
      BY DEF Free
    <3> QED
      BY <3>1, FdFinite, FS_Subset
  <2>2. S # {}
    <3>1. Cardinality({}) = 0
      BY FS_EmptySet
    <3> HIDE DEF S
    <3>2. ASSUME S = {} PROVE FALSE
      BY <1>1, <3>1, <3>2
    <3> QED
      BY <3>2
  <2>3. rfd \in S
    BY <2>1, <2>2, LowestFree
  <2>4. S \ {rfd} # {}
    <3>1. Cardinality(S \ {rfd}) = Cardinality(S) - 1
      BY <2>1, <2>3, FS_RemoveElement
    <3>2. Cardinality(S) \in Nat
      BY <2>1, FS_CardinalityType
    <3>3. Cardinality({}) = 0
      BY FS_EmptySet
    <3> DEFINE R == S \ {rfd}
    <3> HIDE DEF S, rfd, R
    <3>4. Cardinality(R) = Cardinality(S) - 1
      BY <3>1 DEF R
    <3>5. ASSUME R = {} PROVE FALSE
      BY <1>1, <3>2, <3>3, <3>4, <3>5
    <3> QED
      BY <3>5 DEF R
  <2>5. wfd \in S \ {rfd}
    BY <2>1, <2>4, LowestFree
  <2> QED
    BY <2>1, <2>3, <2>5
<1>3. fd_table[t][rfd] = NULL /\ fd_table[t][wfd] = NULL
  BY <1>2 DEF Free
<1> HIDE DEF S, rfd, wfd
<1>4. r \in Handle /\ w \in Handle /\ r # w /\ NULL \notin Handle /\ NULL \notin PipeState
  BY PipeAssumption DEF Handle
<1>5. fd_table \in Tables /\ refcount \in [Handle -> Nat]
  BY DEF PInv, PTyped
<1>6. /\ fd_table' \in Tables
      /\ \A u \in Task, f \in Fd : fd_table'[u][f] =
           IF u = t /\ f = rfd THEN r ELSE IF u = t /\ f = wfd THEN w ELSE fd_table[u][f]
  BY <1>1, <1>2, <1>4, <1>5 DEF Tables
<1>7. /\ refcount' \in [Handle -> Nat] /\ refcount'[r] = 1 /\ refcount'[w] = 1
      /\ \A h \in Handle \ {r, w} : refcount'[h] = refcount[h]
  BY <1>1, <1>4, <1>5
<1>8. refcount[r] = 0 /\ refcount[w] = 0
  BY <1>1 DEF PInv, EndsOpen
<1>9. /\ b \in PipeState /\ b.readers = 1 /\ b.writers = 1
      /\ b.write_pos = 0 /\ b.read_pos = 0 /\ b.data_len = 0
  <2>1. Size \in Nat /\ Size > 0 /\ (CHOOSE d \in Data : TRUE) \in Data
    BY PipeAssumption
  <2>2. 0 \in 0 .. Size - 1 /\ 0 \in 0 .. Size /\ <<>> \in Seq(Task)
    BY <2>1
  <2>3. [i \in 0 .. Size - 1 |-> CHOOSE d \in Data : TRUE] \in [0 .. Size - 1 -> Data]
    BY <2>1
  <2> QED
    BY <2>2, <2>3 DEF NewPipe, PipeState
<1>10. pipe'[p] = b /\ \A q \in Pipes : q # p => pipe'[q] = pipe[q]
  BY <1>1 DEF PInv, PTyped
<1>11. PTyped'
  BY <1>1, <1>6, <1>7, <1>9 DEF PInv, PTyped
<1>12. Counts'
  <2> SUFFICES ASSUME NEW h \in Handle PROVE refcount'[h] = Cardinality(Users(fd_table', h))
    BY DEF Counts
  <2>1. refcount[h] = Cardinality(Users(fd_table, h))
    BY DEF PInv, Counts
  <2>2. CASE h = r
    <3>1. Users(fd_table, h) = {}
      BY <1>8, <2>1, <2>2, UnusedIsZero
    <3>2. Users(fd_table', h) = {<<t, rfd>>}
      BY <1>2, <1>4, <1>6, <2>2, <3>1 DEF Users
    <3> QED
      BY <1>7, <2>2, <3>2, FS_Singleton
  <2>3. CASE h = w
    <3>1. Users(fd_table, h) = {}
      BY <1>8, <2>1, <2>3, UnusedIsZero
    <3>2. Users(fd_table', h) = {<<t, wfd>>}
      BY <1>2, <1>4, <1>6, <2>3, <3>1 DEF Users
    <3> QED
      BY <1>7, <2>3, <3>2, FS_Singleton
  <2>4. CASE h # r /\ h # w
    <3>1. Users(fd_table', h) = Users(fd_table, h)
      BY <1>3, <1>4, <1>6, <2>4 DEF Users
    <3> QED
      BY <1>7, <2>1, <2>4, <3>1
  <2> QED
    BY <2>2, <2>3, <2>4
<1>13. EndsOpen'
  <2> SUFFICES ASSUME NEW q \in Pipes
               PROVE  /\ pipe'[q] = NULL <=> refcount'[<<q, "r">>] = 0 /\ refcount'[<<q, "w">>] = 0
                      /\ pipe'[q] # NULL => /\ pipe'[q].readers = EndIsOpen(<<q, "r">>)'
                                            /\ pipe'[q].writers = EndIsOpen(<<q, "w">>)'
    BY DEF EndsOpen
  <2>1. CASE q = p
    <3>1. EndIsOpen(r)' = 1 /\ EndIsOpen(w)' = 1
      BY <1>7 DEF EndIsOpen
    <3>2. pipe'[q] # NULL /\ pipe'[q].readers = 1 /\ pipe'[q].writers = 1
      BY <1>4, <1>9, <1>10, <2>1
    <3> QED
      BY <1>7, <2>1, <3>1, <3>2
  <2>2. CASE q # p
    <3>1. /\ pipe[q] = NULL <=> refcount[<<q, "r">>] = 0 /\ refcount[<<q, "w">>] = 0
          /\ pipe[q] # NULL => /\ pipe[q].readers = EndIsOpen(<<q, "r">>)
                               /\ pipe[q].writers = EndIsOpen(<<q, "w">>)
      BY DEF PInv, EndsOpen
    <3>2. <<q, "r">> \in Handle \ {r, w} /\ <<q, "w">> \in Handle \ {r, w}
      BY <2>2 DEF Handle
    <3> QED
      BY <1>7, <1>10, <2>2, <3>1, <3>2 DEF EndIsOpen
  <2> QED
    BY <2>1, <2>2
<1>14. DeadTables'
  <2> SUFFICES ASSUME NEW u \in Task, state'[u] = "UNUSED", NEW g \in Fd
               PROVE  fd_table'[u][g] = NULL
    BY DEF DeadTables
  <2>1. state[u] = "UNUSED"
    BY <1>1
  <2>2. u # t
    BY <1>1, <2>1 DEF Runs
  <2> QED
    BY <1>6, <2>1, <2>2 DEF PInv, DeadTables
<1>15. RingsAgree'
  <2> SUFFICES ASSUME NEW q \in Pipes, pipe'[q] # NULL
               PROVE  pipe'[q].write_pos = (pipe'[q].read_pos + pipe'[q].data_len) % Size
    BY DEF RingsAgree
  <2>1. CASE q = p
    <3>1. 0 % Size = 0
      BY PipeAssumption, Wraps
    <3>2. 0 + 0 = 0
      OBVIOUS
    <3>3. pipe'[q].write_pos = 0 /\ pipe'[q].read_pos = 0 /\ pipe'[q].data_len = 0
      BY <1>9, <1>10, <2>1
    <3> QED
      BY <3>1, <3>2, <3>3
  <2>2. CASE q # p
    BY <1>10, <2>2 DEF PInv, RingsAgree
  <2> QED
    BY <2>1, <2>2
<1>16. SleepersHavePeers'
  <2> SUFFICES ASSUME NEW u \in Task, state[u] = "BLOCKED", call[u] \in {"read", "write"} \X Pipes
               PROVE  call[u][2] \in Pipes /\ call[u][2] # p
    BY <1>1, <1>10 DEF PInv, SleepersHavePeers
  <2> QED
    BY <1>1 DEF PInv, SleepersHavePeers
<1> QED
  BY <1>11, <1>12, <1>13, <1>14, <1>15, <1>16 DEF PInv

LEMMA DupStep ==
  ASSUME PInv, NEW t \in Task, NEW old \in Fd, dup(t, old)
  PROVE  PInv'
<1> DEFINE f == Lowest(Free(t))
           h == fd_table[t][old]
<1>1. /\ Runs(t) /\ h # NULL /\ Free(t) # {}
      /\ fd_table' = [fd_table EXCEPT ![t][f] = h]
      /\ refcount' = [refcount EXCEPT ![h] = @ + 1]
      /\ UNCHANGED <<state, call, pipe>>
  BY DEF dup
<1>2. f \in Fd /\ fd_table[t][f] = NULL
  <2>1. Free(t) \in SUBSET Fd
    BY DEF Free
  <2>2. f \in Free(t)
    BY <1>1, <2>1, LowestFree
  <2> QED
    BY <2>2 DEF Free
<1>3. h \in Handle /\ refcount[h] \in Nat /\ refcount[h] > 0
  BY <1>1, HolderFacts DEF PInv
<1>4. NULL \notin Handle /\ refcount \in [Handle -> Nat]
  BY PipeAssumption DEF PInv, PTyped
<1> HIDE DEF f, h
<1>5. /\ refcount' \in [Handle -> Nat]
      /\ \A g \in Handle : refcount'[g] = IF g = h THEN refcount[g] + 1 ELSE refcount[g]
  BY <1>1, <1>3, <1>4
<1>6. \A g \in Handle : refcount'[g] = refcount[g] - (IF fd_table[t][f] = g THEN 1 ELSE 0)
                                                  + (IF h = g THEN 1 ELSE 0)
  BY <1>2, <1>4, <1>5
<1>7. \A u \in Task : state'[u] = "UNUSED" => state[u] = "UNUSED"
  BY <1>1
<1>8. fd_table' \in Tables /\ Counts' /\ DeadTables'
  <2>1. h \in Handle \cup {NULL}
    BY <1>3
  <2>2. PICK g \in Fd, y \in Handle \cup {NULL} : g = f /\ y = h
    BY <1>2, <2>1
  <2>3. fd_table' = [fd_table EXCEPT ![t][g] = y]
    BY <1>1, <2>2
  <2>4. \A i \in Handle : refcount'[i] = refcount[i] - (IF fd_table[t][g] = i THEN 1 ELSE 0)
                                                    + (IF y = i THEN 1 ELSE 0)
    BY <1>6, <2>2
  <2> QED
    <3>1. Runs(t) /\ refcount' \in [Handle -> Nat]
      BY <1>1, <1>5
    <3> QED
      BY <1>7, <2>3, <2>4, <3>1, EntryTables
<1>9. \A g \in Handle : refcount'[g] = 0 <=> refcount[g] = 0
  BY <1>3, <1>4, <1>5
<1>10. EndsOpen' /\ RingsAgree'
  BY <1>1, <1>5, <1>9, SameEnds DEF PInv
<1>11. SleepersHavePeers'
  BY <1>1, SameSleepers DEF PInv
<1>12. PTyped'
  BY <1>1, <1>5, <1>8 DEF PInv, PTyped
<1> QED
  BY <1>8, <1>10, <1>11, <1>12 DEF PInv

(* close() and dup2() take the entry f of a running task's table away, or  *)
(* put the handle y in its place, which then has another descriptor, old.  *)
LEMMA ReplaceStep ==
  ASSUME PInv, NEW t \in Task, NEW f \in Fd, NEW y \in Handle \cup {NULL}, Runs(t),
         y # NULL => \E old \in Fd \ {f} : fd_table[t][old] = y,
         fd_table' = [fd_table EXCEPT ![t][f] = y],
         refcount' = [g \in Handle |-> refcount[g] - Refs(t, {f}, g) + (IF g = y THEN 1 ELSE 0)],
         pipe' = [p \in Pipes |-> Closed(p, Gone(t, {f}))],
         task_unblock(Roused(Gone(t, {f})))
  PROVE  PInv'
<1> DEFINE G == Gone(t, {f})
<1>1. G \in SUBSET Handle
  BY DEF Gone
<1>2. \A g \in Handle : refcount'[g] = refcount[g] - (IF fd_table[t][f] = g THEN 1 ELSE 0)
                                                  + (IF y = g THEN 1 ELSE 0)
  BY RefsFacts
<1>3. ASSUME NEW g \in Handle
      PROVE  /\ refcount[g] \in Nat /\ refcount[g] = Cardinality(Users(fd_table, g))
             /\ fd_table[t][f] = g => refcount[g] > 0
             /\ y = g => refcount[g] > 0
             /\ y = g /\ fd_table[t][f] = g => refcount[g] # 1
  <2>1. refcount[g] \in Nat /\ refcount[g] = Cardinality(Users(fd_table, g))
    BY DEF PInv, PTyped, Counts
  <2>2. ASSUME fd_table[t][f] = g PROVE <<t, f>> \in Users(fd_table, g)
    BY <2>2 DEF Users
  <2>3. ASSUME y = g PROVE \E old \in Fd \ {f} : <<t, old>> \in Users(fd_table, g)
    <3>1. y # NULL
      BY <2>3, PipeAssumption
    <3> QED
      BY <2>3, <3>1 DEF Users
  <2>4. fd_table[t][f] = g \/ y = g => refcount[g] > 0
    <3>1. fd_table[t][f] = g \/ y = g => Users(fd_table, g) # {}
      BY <2>2, <2>3
    <3>2. Users(fd_table, g) # {} => refcount[g] # 0
      BY <2>1, UnusedIsZero
    <3> QED
      BY <2>1, <3>1, <3>2
  <2>5. ASSUME y = g, fd_table[t][f] = g, refcount[g] = 1 PROVE FALSE
    <3>1. PICK old \in Fd \ {f} : <<t, old>> \in Users(fd_table, g)
      BY <2>3, <2>5
    <3>2. PICK x : Users(fd_table, g) = {x}
      <4>1. IsFiniteSet(Users(fd_table, g))
        BY UsersFinite
      <4> QED
        BY <2>1, <2>5, <4>1, FS_Singleton
    <3>3. <<t, old>> = <<t, f>>
      BY <2>2, <2>5, <3>1, <3>2
    <3> QED
      BY <3>1, <3>3
  <2> QED
    BY <2>1, <2>4, <2>5
<1>4. refcount' \in [Handle -> Nat]
  <2>1. ASSUME NEW g \in Handle PROVE refcount'[g] \in Nat
    <3>1. PICK n \in Nat : n = refcount[g]
      BY <1>3
    <3>2. fd_table[t][f] = g => n > 0
      BY <1>3, <3>1
    <3>3. refcount'[g] = n - (IF fd_table[t][f] = g THEN 1 ELSE 0) + (IF y = g THEN 1 ELSE 0)
      BY <1>2, <3>1
    <3> QED
      BY <3>2, <3>3
  <2> QED
    BY <2>1
<1>5. \A g \in G : refcount[g] > 0 /\ refcount[g] = 1 /\ fd_table[t][f] = g
  <2> SUFFICES ASSUME NEW g \in G
               PROVE  refcount[g] > 0 /\ refcount[g] = 1 /\ fd_table[t][f] = g
    OBVIOUS
  <2>1. g \in Handle /\ refcount[g] > 0 /\ refcount[g] = Refs(t, {f}, g)
    BY DEF Gone
  <2>2. Refs(t, {f}, g) = IF fd_table[t][f] = g THEN 1 ELSE 0
    BY <2>1, RefsFacts
  <2> HIDE DEF G
  <2> QED
    BY <2>1, <2>2
<1>6. \A g \in Handle : fd_table[t][f] = g /\ refcount[g] = 1 => g \in G
  BY RefsFacts DEF Gone
<1> HIDE DEF G
<1>7. \A g \in G : refcount'[g] = 0
  <2> SUFFICES ASSUME NEW g \in G PROVE refcount'[g] = 0
    OBVIOUS
  <2>1. g \in Handle /\ refcount[g] = 1 /\ fd_table[t][f] = g
    BY <1>1, <1>5
  <2>2. y # g
    BY <1>3, <2>1
  <2> QED
    BY <1>2, <2>1, <2>2
<1>8. \A g \in Handle \ G : refcount'[g] = 0 <=> refcount[g] = 0
  <2> SUFFICES ASSUME NEW g \in Handle, g \notin G PROVE refcount'[g] = 0 <=> refcount[g] = 0
    OBVIOUS
  <2>1. fd_table[t][f] = g => refcount[g] # 1
    BY <1>6
  <2>2. PICK n \in Nat : n = refcount[g]
    BY <1>3
  <2>3. /\ fd_table[t][f] = g => n > 1
        /\ y = g => n > 0
    BY <1>3, <2>1, <2>2
  <2>4. refcount'[g] = n - (IF fd_table[t][f] = g THEN 1 ELSE 0) + (IF y = g THEN 1 ELSE 0)
    BY <1>2, <2>2
  <2> QED
    BY <2>2, <2>3, <2>4
<1>9. /\ state' \in [Task -> {"UNUSED", "READY", "BLOCKED"}] /\ DOMAIN call' = Task
      /\ \A u \in Task : state'[u] = "UNUSED" => state[u] = "UNUSED"
      /\ \A u \in Task : state'[u] = "BLOCKED" =>
           state[u] = "BLOCKED" /\ u \notin Roused(G) /\ call'[u] = call[u]
  BY Wakes DEF PInv, G
<1>10. fd_table' \in Tables /\ Counts' /\ DeadTables'
  <2>1. \A u \in Task : state'[u] = "UNUSED" => state[u] = "UNUSED"
    BY <1>9
  <2> QED
    BY <1>2, <1>4, <2>1, EntryTables
<1>11. pipe' = [p \in Pipes |-> Closed(p, G)]
  BY DEF G
<1>12. /\ pipe' \in [Pipes -> PipeState \cup {NULL}]
       /\ EndsOpen' /\ RingsAgree' /\ SleepersHavePeers'
  BY <1>1, <1>4, <1>7, <1>8, <1>9, <1>11, ClosesEnds
<1>13. PTyped'
  BY <1>4, <1>9, <1>10, <1>12 DEF PTyped
<1> QED
  BY <1>10, <1>12, <1>13 DEF PInv

LEMMA CloseStep ==
  ASSUME PInv, NEW t \in Task, NEW f \in Fd, sys_close(t, f)
  PROVE  PInv'
<1>1. /\ Runs(t) /\ fd_table[t][f] # NULL
      /\ fd_table' = [fd_table EXCEPT ![t][f] = NULL]
      /\ refcount' = [refcount EXCEPT ![fd_table[t][f]] = @ - 1]
      /\ pipe' = [p \in Pipes |-> Closed(p, Gone(t, {f}))]
      /\ task_unblock(Roused(Gone(t, {f})))
  BY DEF sys_close
<1>2. NULL \notin Handle /\ refcount \in [Handle -> Nat] /\ fd_table[t][f] \in Handle
  BY <1>1, PipeAssumption, HolderFacts DEF PInv, PTyped
<1>3. refcount' = [g \in Handle |-> refcount[g] - Refs(t, {f}, g) + (IF g = NULL THEN 1 ELSE 0)]
  <2>1. \A g \in Handle : refcount'[g] = IF fd_table[t][f] = g THEN refcount[g] - 1 ELSE refcount[g]
    BY <1>1, <1>2
  <2>2. \A g \in Handle : refcount'[g] = refcount[g] - Refs(t, {f}, g) + (IF g = NULL THEN 1 ELSE 0)
    BY <1>2, <2>1, RefsFacts
  <2>3. refcount' = [g \in Handle |-> refcount'[g]]
    BY <1>1, <1>2
  <2> QED
    BY <2>2, <2>3
<1>4. /\ Runs(t) /\ fd_table' = [fd_table EXCEPT ![t][f] = NULL]
      /\ pipe' = [p \in Pipes |-> Closed(p, Gone(t, {f}))]
      /\ task_unblock(Roused(Gone(t, {f})))
  BY <1>1
<1> QED
  BY <1>3, <1>4, ReplaceStep

LEMMA Dup2Step ==
  ASSUME PInv, NEW t \in Task, NEW old \in Fd, NEW new \in Fd, dup2(t, old, new)
  PROVE  PInv'
<1>1. /\ Runs(t) /\ fd_table[t][old] # NULL /\ old # new
      /\ fd_table' = [fd_table EXCEPT ![t][new] = fd_table[t][old]]
      /\ refcount' = [g \in Handle |-> refcount[g] - Refs(t, {new}, g)
                                         + (IF g = fd_table[t][old] THEN 1 ELSE 0)]
      /\ pipe' = [p \in Pipes |-> Closed(p, Gone(t, {new}))]
      /\ task_unblock(Roused(Gone(t, {new})))
  BY DEF dup2
<1>2. PICK y \in Handle \cup {NULL} : y = fd_table[t][old]
  BY <1>1, HolderFacts DEF PInv
<1>3. \E o \in Fd \ {new} : fd_table[t][o] = y
  BY <1>1, <1>2
<1>4. /\ fd_table' = [fd_table EXCEPT ![t][new] = y]
      /\ refcount' = [g \in Handle |-> refcount[g] - Refs(t, {new}, g) + (IF g = y THEN 1 ELSE 0)]
  BY <1>1, <1>2
<1>5. /\ Runs(t)
      /\ pipe' = [p \in Pipes |-> Closed(p, Gone(t, {new}))]
      /\ task_unblock(Roused(Gone(t, {new})))
  BY <1>1
<1> QED
  BY <1>3, <1>4, <1>5, ReplaceStep

(* fork() gives a dead task the descriptors of the caller, and exit() and  *)
(* fatal signals take all those of a task away: one row changes.           *)
LEMMA RowTables ==
  ASSUME PInv, NEW t \in Task, NEW r \in [Fd -> Handle \cup {NULL}],
         fd_table' = [fd_table EXCEPT ![t] = r],
         \A h \in Handle : refcount'[h] = refcount[h] - Cardinality(Row(fd_table[t], h))
                                                     + Cardinality(Row(r, h)),
         \A u \in Task \ {t} : state'[u] = "UNUSED" => state[u] = "UNUSED",
         state'[t] = "UNUSED" => \A f \in Fd : r[f] = NULL
  PROVE  fd_table' \in Tables /\ Counts' /\ DeadTables'
<1>1. fd_table \in Tables
  BY DEF PInv, PTyped
<1>2. fd_table' \in Tables /\ fd_table'[t] = r /\ \A u \in Task \ {t} : fd_table'[u] = fd_table[u]
  BY <1>1 DEF Tables
<1>3. Counts'
  <2> SUFFICES ASSUME NEW h \in Handle PROVE refcount'[h] = Cardinality(Users(fd_table', h))
    BY DEF Counts
  <2>1. refcount[h] = Cardinality(Users(fd_table, h))
    BY DEF PInv, Counts
  <2>2. PICK U \in Tables : U = fd_table'
    BY <1>2
  <2>3. U[t] = r /\ \A u \in Task \ {t} : U[u] = fd_table[u]
    BY <1>2, <2>2
  <2>4. Cardinality(Users(U, h)) = Cardinality(Users(fd_table, h))
          - Cardinality(Row(fd_table[t], h)) + Cardinality(Row(U[t], h))
    BY <1>1, <2>3, RowCounts
  <2> QED
    BY <2>1, <2>2, <2>3, <2>4
<1>4. DeadTables'
  <2> SUFFICES ASSUME NEW u \in Task, state'[u] = "UNUSED", NEW g \in Fd
               PROVE  fd_table'[u][g] = NULL
    BY DEF DeadTables
  <2>1. CASE u = t
    BY <1>2, <2>1
  <2>2. CASE u # t
    BY <1>2, <2>2 DEF PInv, DeadTables
  <2> QED
    BY <2>1, <2>2
<1> QED
  BY <1>2, <1>3, <1>4

LEMMA EmptyRow ==
  ASSUME NEW r, \A f \in Fd : r[f] = NULL, NEW h \in Handle
  PROVE  Cardinality(Row(r, h)) = 0
<1>1. Row(r, h) = {}
  BY PipeAssumption DEF Row
<1> QED
  BY <1>1, FS_EmptySet

(* A task uses a handle no more often than all tasks do. *)
LEMMA RowBound ==
  ASSUME PInv, NEW t \in Task, NEW h \in Handle
  PROVE  /\ refcount[h] \in Nat /\ Cardinality(Row(fd_table[t], h)) \in Nat
         /\ Cardinality(Row(fd_table[t], h)) <= refcount[h]
<1> DEFINE U == [fd_table EXCEPT ![t] = [f \in Fd |-> NULL]]
<1>1. fd_table \in Tables /\ U \in Tables /\ \A u \in Task \ {t} : U[u] = fd_table[u]
  BY DEF PInv, PTyped, Tables
<1>2. U[t] = [f \in Fd |-> NULL]
  BY <1>1 DEF Tables
<1>3. Cardinality(Row(U[t], h)) = 0
  BY <1>2, EmptyRow
<1> HIDE DEF U
<1>4. Cardinality(Users(U, h)) = Cardinality(Users(fd_table, h))
        - Cardinality(Row(fd_table[t], h)) + Cardinality(Row(U[t], h))
  BY <1>1, RowCounts
<1>5. refcount[h] \in Nat /\ refcount[h] = Cardinality(Users(fd_table, h))
  BY DEF PInv, PTyped, Counts
<1>6. Cardinality(Users(U, h)) \in Nat /\ Cardinality(Row(fd_table[t], h)) \in Nat
  BY UsersFinite, RowFinite
<1> QED
  BY <1>3, <1>4, <1>5, <1>6

LEMMA ForkStep ==
  ASSUME PInv, NEW t \in Task, NEW u \in Task, fork(t, u)
  PROVE  PInv'
<1>1. /\ Runs(t) /\ state[u] = "UNUSED"
      /\ state' = [state EXCEPT ![u] = "READY"]
      /\ fd_table' = [fd_table EXCEPT ![u] = fd_table[t]]
      /\ refcount' = [h \in Handle |-> refcount[h] + Refs(t, Fd, h)]
      /\ UNCHANGED <<call, pipe>>
  BY DEF fork
<1>2. PICK r \in [Fd -> Handle \cup {NULL}] : r = fd_table[t]
  BY DEF PInv, PTyped, Tables
<1>3. ASSUME NEW h \in Handle
      PROVE  /\ refcount'[h] = refcount[h] + Cardinality(Row(r, h))
             /\ refcount[h] \in Nat /\ Cardinality(Row(r, h)) \in Nat
             /\ Cardinality(Row(r, h)) <= refcount[h]
             /\ Cardinality(Row(fd_table[u], h)) = 0
  <2>1. refcount'[h] = refcount[h] + Cardinality(Row(r, h))
    BY <1>1, <1>2, RefsFacts
  <2>2. \A f \in Fd : fd_table[u][f] = NULL
    BY <1>1 DEF PInv, DeadTables
  <2>3. Cardinality(Row(fd_table[u], h)) = 0
    BY <2>2, EmptyRow
  <2>4. /\ refcount[h] \in Nat /\ Cardinality(Row(r, h)) \in Nat
        /\ Cardinality(Row(r, h)) <= refcount[h]
    BY <1>2, RowBound
  <2> QED
    BY <2>1, <2>3, <2>4
<1>4. refcount' \in [Handle -> Nat]
  BY <1>1, <1>3
<1>5. state \in [Task -> {"UNUSED", "READY", "BLOCKED"}] /\ DOMAIN call = Task
  BY DEF PInv, PTyped
<1>6. /\ state' \in [Task -> {"UNUSED", "READY", "BLOCKED"}] /\ state'[u] = "READY"
      /\ \A v \in Task \ {u} : state'[v] = state[v]
  BY <1>1, <1>5
<1>7. fd_table' \in Tables /\ Counts' /\ DeadTables'
  <2>1. fd_table' = [fd_table EXCEPT ![u] = r]
    BY <1>1, <1>2
  <2>2. \A h \in Handle : refcount'[h] = refcount[h] - Cardinality(Row(fd_table[u], h))
                                                    + Cardinality(Row(r, h))
    BY <1>3
  <2>3. /\ \A v \in Task \ {u} : state'[v] = "UNUSED" => state[v] = "UNUSED"
        /\ state'[u] = "UNUSED" => \A f \in Fd : r[f] = NULL
    BY <1>6
  <2> QED
    BY <2>1, <2>2, <2>3, RowTables
<1>8. EndsOpen' /\ RingsAgree'
  <2>1. \A h \in Handle : refcount'[h] = 0 <=> refcount[h] = 0
    BY <1>3
  <2> QED
    BY <1>1, <1>4, <2>1, SameEnds DEF PInv
<1>9. SleepersHavePeers'
  <2>1. \A v \in Task : state'[v] = "BLOCKED" => state[v] = "BLOCKED" /\ call'[v] = call[v]
    BY <1>1, <1>6
  <2> QED
    BY <1>1, <2>1, SameSleepers DEF PInv
<1>10. PTyped'
  BY <1>1, <1>4, <1>5, <1>6, <1>7 DEF PInv, PTyped
<1> QED
  BY <1>7, <1>8, <1>9, <1>10 DEF PInv

LEMMA ExitStep ==
  ASSUME PInv, NEW t \in Task, task_exit(t)
  PROVE  PInv'
<1> DEFINE G == Gone(t, Fd)
           woken == {u \in Roused(G) \ {t} : state[u] = "BLOCKED"}
<1>1. /\ fd_table' = [fd_table EXCEPT ![t] = [f \in Fd |-> NULL]]
      /\ refcount' = [h \in Handle |-> refcount[h] - Refs(t, Fd, h)]
      /\ pipe' = [p \in Pipes |-> Closed(p, G)]
      /\ state' = [u \in Task |-> IF u = t THEN "UNUSED"
                                  ELSE IF u \in woken THEN "READY" ELSE state[u]]
      /\ call' = [u \in Task |-> IF u \in woken \cup {t} THEN NULL ELSE call[u]]
  BY DEF task_exit
<1>2. PICK r \in [Fd -> Handle \cup {NULL}] : r = [f \in Fd |-> NULL]
  OBVIOUS
<1>3. ASSUME NEW h \in Handle
      PROVE  /\ refcount'[h] = refcount[h] - Cardinality(Row(fd_table[t], h))
             /\ refcount[h] \in Nat /\ Cardinality(Row(fd_table[t], h)) \in Nat
             /\ Cardinality(Row(fd_table[t], h)) <= refcount[h]
             /\ Cardinality(Row(r, h)) = 0
             /\ h \in G <=> refcount[h] > 0 /\ refcount[h] = Cardinality(Row(fd_table[t], h))
  <2>1. Refs(t, Fd, h) = Cardinality(Row(fd_table[t], h))
    BY RefsFacts
  <2>2. refcount'[h] = refcount[h] - Cardinality(Row(fd_table[t], h))
    BY <1>1, <2>1
  <2>3. Cardinality(Row(r, h)) = 0
    BY <1>2, EmptyRow
  <2>4. h \in G <=> refcount[h] > 0 /\ refcount[h] = Cardinality(Row(fd_table[t], h))
    BY <2>1 DEF Gone
  <2> QED
    BY <2>2, <2>3, <2>4, RowBound
<1>4. G \in SUBSET Handle
  BY DEF Gone
<1>5. state \in [Task -> {"UNUSED", "READY", "BLOCKED"}] /\ DOMAIN call = Task
  BY DEF PInv, PTyped
<1>6. /\ state' \in [Task -> {"UNUSED", "READY", "BLOCKED"}] /\ DOMAIN call' = Task
      /\ \A u \in Task \ {t} : state'[u] = "UNUSED" => state[u] = "UNUSED"
      /\ \A u \in Task : state'[u] = "BLOCKED" =>
           state[u] = "BLOCKED" /\ u \notin Roused(G) /\ call'[u] = call[u]
  <2> HIDE DEF G
  <2> QED
    BY <1>1, <1>5
<1> HIDE DEF G, woken
<1>7. refcount' \in [Handle -> Nat]
  BY <1>1, <1>3
<1>8. fd_table' \in Tables /\ Counts' /\ DeadTables'
  <2>1. fd_table' = [fd_table EXCEPT ![t] = r]
    BY <1>1, <1>2
  <2>2. \A h \in Handle : refcount'[h] = refcount[h] - Cardinality(Row(fd_table[t], h))
                                                    + Cardinality(Row(r, h))
    BY <1>3
  <2>3. /\ \A u \in Task \ {t} : state'[u] = "UNUSED" => state[u] = "UNUSED"
        /\ state'[t] = "UNUSED" => \A f \in Fd : r[f] = NULL
    BY <1>2, <1>6
  <2> QED
    BY <2>1, <2>2, <2>3, RowTables
<1>9. /\ \A h \in G : refcount'[h] = 0
      /\ \A h \in Handle \ G : refcount'[h] = 0 <=> refcount[h] = 0
  <2>1. ASSUME NEW h \in Handle
        PROVE  /\ h \in G => refcount'[h] = 0
               /\ h \notin G => (refcount'[h] = 0 <=> refcount[h] = 0)
    <3>1. PICK n \in Nat, k \in Nat : n = refcount[h] /\ k = Cardinality(Row(fd_table[t], h))
      BY <1>3
    <3>2. refcount'[h] = n - k /\ k <= n /\ (h \in G <=> n > 0 /\ n = k)
      BY <1>3, <3>1
    <3> QED
      BY <3>1, <3>2
  <2> QED
    BY <1>4, <2>1
<1>10. /\ pipe' \in [Pipes -> PipeState \cup {NULL}]
       /\ EndsOpen' /\ RingsAgree' /\ SleepersHavePeers'
  <2>1. pipe' = [p \in Pipes |-> Closed(p, G)]
    BY <1>1
  <2>2. \A u \in Task : state'[u] = "BLOCKED" =>
          state[u] = "BLOCKED" /\ call'[u] = call[u] /\ u \notin Roused(G)
    BY <1>6
  <2> QED
    BY <1>4, <1>7, <1>9, <2>1, <2>2, ClosesEnds
<1>11. PTyped'
  BY <1>6, <1>7, <1>8, <1>10 DEF PTyped
<1> QED
  BY <1>8, <1>10, <1>11 DEF PInv
-----------------------------------------------------------------------------
(* Steps that touch neither descriptors nor pipes. *)
LEMMA StateStep ==
  ASSUME PInv, UNCHANGED <<fd_table, refcount, pipe>>,
         state' \in [Task -> {"UNUSED", "READY", "BLOCKED"}], DOMAIN call' = Task,
         \A t \in Task : state'[t] = "UNUSED" => state[t] = "UNUSED",
         \A t \in Task : state'[t] = "BLOCKED" =>
           \/ state[t] = "BLOCKED" /\ call'[t] = call[t]
           \/ call'[t] = <<"poll", NULL>>
  PROVE  PInv'
<1>1. PTyped'
  BY DEF PInv, PTyped
<1>2. Counts' /\ DeadTables'
  <2>1. UNCHANGED <<fd_table, refcount>>
    OBVIOUS
  <2> QED
    BY <2>1, SameTables DEF PInv
<1>3. EndsOpen' /\ RingsAgree'
  <2>1. UNCHANGED pipe /\ refcount' \in [Handle -> Nat]
        /\ \A h \in Handle : refcount'[h] = 0 <=> refcount[h] = 0
    BY DEF PInv, PTyped
  <2> QED
    BY <2>1, SameEnds DEF PInv
<1>4. SleepersHavePeers'
  <2> SUFFICES ASSUME NEW t \in Task, state'[t] = "BLOCKED",
                      call'[t] \in {"read", "write"} \X Pipes
               PROVE  state[t] = "BLOCKED" /\ call'[t] = call[t]
    BY DEF PInv, SleepersHavePeers
  <2>1. call'[t][1] \in {"read", "write"}
    OBVIOUS
  <2>2. <<"poll", NULL>>[1] = "poll"
    OBVIOUS
  <2>3. call'[t] # <<"poll", NULL>>
    BY <2>1, <2>2
  <2> QED
    BY <2>3
<1> QED
  BY <1>1, <1>2, <1>3, <1>4 DEF PInv

LEMMA SignalStep ==
  ASSUME PInv, NEW W, task_unblock(W), UNCHANGED <<fd_table, refcount, pipe>>
  PROVE  PInv'
<1>1. /\ state' \in [Task -> {"UNUSED", "READY", "BLOCKED"}] /\ DOMAIN call' = Task
      /\ \A t \in Task : state'[t] = "UNUSED" => state[t] = "UNUSED"
      /\ \A t \in Task : state'[t] = "BLOCKED" => state[t] = "BLOCKED" /\ call'[t] = call[t]
  BY Wakes DEF PInv
<1> QED
  BY <1>1, StateStep

LEMMA PipeStep == PInv /\ PipeNext => PInv'
<1> SUFFICES ASSUME PInv, PipeNext PROVE PInv'
  OBVIOUS
<1>1. PICK t \in Task :
        \/ \E p \in Pipes : sys_pipe(t, p)
        \/ sys_read(t) \/ sys_write(t)
        \/ \E f \in Fd : sys_close(t, f) \/ dup(t, f) \/ \E g \in Fd : dup2(t, f, g)
        \/ \E u \in Task : fork(t, u)
        \/ task_exit(t)
        \/ task_ipc_signal_raise(t)
  BY DEF PipeNext
<1>2. CASE \E p \in Pipes : sys_pipe(t, p)
  BY <1>2, SysPipeStep
<1>3. CASE sys_read(t)
  <2>1. PICK f \in Fd : (\E n \in 1 .. MaxRequest : ReadData(t, f, n)) \/ ReadEof(t, f) \/ ReadSleep(t, f)
    BY <1>3 DEF sys_read
  <2>2. CASE \E n \in 1 .. MaxRequest : ReadData(t, f, n)
    BY <2>2, ReadDataStep
  <2>3. CASE ReadEof(t, f)
    <3>1. UNCHANGED <<state, call, fd_table, refcount, pipe>>
      BY <2>3 DEF ReadEof
    <3> QED
      BY <3>1, StateStep DEF PInv, PTyped
  <2>4. CASE ReadSleep(t, f)
    BY <2>4, ReadSleepStep
  <2> QED
    BY <2>1, <2>2, <2>3, <2>4
<1>4. CASE sys_write(t)
  <2>1. PICK f \in Fd : (\E s \in Payload : WriteData(t, f, s)) \/ WriteBroken(t, f) \/ WriteSleep(t, f)
    BY <1>4 DEF sys_write
  <2>2. CASE \E s \in Payload : WriteData(t, f, s)
    BY <2>2, WriteDataStep
  <2>3. CASE WriteBroken(t, f)
    <3>1. UNCHANGED <<state, call, fd_table, refcount, pipe>>
      BY <2>3 DEF WriteBroken
    <3> QED
      BY <3>1, StateStep DEF PInv, PTyped
  <2>4. CASE WriteSleep(t, f)
    BY <2>4, WriteSleepStep
  <2> QED
    BY <2>1, <2>2, <2>3, <2>4
<1>5. CASE \E f \in Fd : sys_close(t, f) \/ dup(t, f) \/ \E g \in Fd : dup2(t, f, g)
  BY <1>5, CloseStep, DupStep, Dup2Step
<1>6. CASE \E u \in Task : fork(t, u)
  BY <1>6, ForkStep
<1>7. CASE task_exit(t)
  BY <1>7, ExitStep
<1>8. CASE task_ipc_signal_raise(t)
  BY <1>8, SignalStep DEF task_ipc_signal_raise
<1> QED
  BY <1>1, <1>2, <1>3, <1>4, <1>5, <1>6, <1>7, <1>8

LEMMA PollStep == PInv /\ PollNext => PInv'
<1> SUFFICES ASSUME PInv, PollNext PROVE PInv'
  OBVIOUS
<1>1. CASE PipeNext
  BY <1>1, PipeStep
<1>2. CASE \E t \in Task : sys_poll(t)
  <2> PICK t \in Task : sys_poll(t)
    BY <1>2
  <2>1. PICK kind, want, left : PollSleep(t, kind, want, left)
    BY DEF sys_poll
  <2>2. Runs(t) /\ Sleep(t, <<"poll", NULL>>) /\ UNCHANGED <<fd_table, refcount, pipe>>
    BY <2>1 DEF PollSleep
  <2>3. /\ state' \in [Task -> {"UNUSED", "READY", "BLOCKED"}]
        /\ DOMAIN call' = Task /\ call'[t] = <<"poll", NULL>>
        /\ \A u \in Task : state'[u] = "UNUSED" => state[u] = "UNUSED"
        /\ \A u \in Task : u # t /\ state'[u] = "BLOCKED" =>
             state[u] = "BLOCKED" /\ call'[u] = call[u]
    BY <2>2, FallsAsleep DEF PInv
  <2> QED
    BY <2>2, <2>3, StateStep
<1>3. CASE poll_waiter_tick
  <2>1. PICK W : task_unblock(W) /\ UNCHANGED <<fd_table, refcount, pipe>>
    BY <1>3 DEF poll_waiter_tick
  <2> QED
    BY <2>1, SignalStep
<1> QED
  BY <1>1, <1>2, <1>3 DEF PollNext

LEMMA PInvStutter == PInv /\ UNCHANGED pvars => PInv'
BY DEF PInv, pvars, PTyped, Counts, Users, EndsOpen, EndIsOpen, DeadTables, RingsAgree,
       SleepersHavePeers

LEMMA PInvHolds == PollSpec => []PInv
<1>1. PollInit => PInv
  BY PInvInit DEF PollInit
<1>2. PInv /\ [PollNext]_avars => PInv'
  BY PollStep, PInvStutter DEF avars
<1> QED
  BY <1>1, <1>2, PTL DEF PollSpec

(* Over pipe(), dup(), dup2(), close(), fork(), exit() and fatal signals a *)
(* handle counts the descriptors that refer to it: an end is open exactly  *)
(* as long as somebody has it, and nobody has one of a freed pipe.         *)
THEOREM RefcountsAreExact == PollSpec => []RefcountsExact
<1>1. PInv => RefcountsExact
  BY ExactFromCounts DEF PInv
<1> QED
  BY <1>1, PInvHolds, PTL

(* No order of reads, writes, closes and exits leaves a task asleep at an  *)
(* end whose other end is gone, or asleep without its node at the pipe.    *)
THEOREM SleepersKeepPeers == PollSpec => []SleepersHavePeers
<1>1. PInv => SleepersHavePeers
  BY DEF PInv
<1> QED
  BY <1>1, PInvHolds, PTL
-----------------------------------------------------------------------------
(* The refinement: the ring of a pipe implements a stream of bytes. *)

StreamOf == [p \in Pipes |-> Content(p)]
OpenOf == [p \in Pipes |-> Ends(p)]

LEMMA ContentFacts ==
  ASSUME PInv, NEW p \in Pipes, pipe[p] # NULL
  PROVE  /\ Content(p) = [i \in 1 .. pipe[p].data_len |->
                            pipe[p].buffer[(pipe[p].read_pos + i - 1) % Size]]
         /\ Content(p) \in Seq(Data) /\ Len(Content(p)) = pipe[p].data_len
         /\ pipe[p].data_len \in 0 .. Size
<1> DEFINE b == pipe[p]
           d == b.data_len
           r == b.read_pos
<1>1. /\ b \in PipeState /\ d \in 0 .. Size /\ r \in 0 .. Size - 1
      /\ b.buffer \in [0 .. Size - 1 -> Data]
  BY DEF PInv, PTyped, PipeState
<1>2. Content(p) = [i \in 1 .. d |-> b.buffer[(r + i - 1) % Size]]
  BY DEF Content
<1>3. Size \in Nat /\ Size > 0
  BY PipeAssumption
<1> HIDE DEF d, r
<1>4. ASSUME NEW i \in 1 .. d PROVE b.buffer[(r + i - 1) % Size] \in Data
  <2>1. (r + i - 1) % Size = IF r + i - 1 < Size THEN r + i - 1 ELSE r + i - 1 - Size
    BY <1>1, <1>3, Wraps
  <2>2. (r + i - 1) % Size \in 0 .. Size - 1
    BY <1>1, <1>3, <2>1
  <2> QED
    BY <1>1, <2>2
<1>5. d \in Nat
  BY <1>1
<1>6. Content(p) \in Seq(Data) /\ Len(Content(p)) = d
  BY <1>2, <1>4, <1>5
<1> QED
  BY <1>1, <1>2, <1>6 DEF d, r

LEMMA EndsFacts ==
  ASSUME PInv, NEW p \in Pipes
  PROVE  /\ Ends(p) \in SUBSET {"r", "w"}
         /\ Ends(p) = {} <=> pipe[p] = NULL
         /\ pipe[p] # NULL => /\ "r" \in Ends(p) <=> pipe[p].readers = 1
                              /\ "w" \in Ends(p) <=> pipe[p].writers = 1
         /\ pipe[p] = NULL => Content(p) = <<>>
<1>1. pipe[p] # NULL => pipe[p].readers \in {0, 1} /\ pipe[p].writers \in {0, 1}
  BY DEF PInv, PTyped, PipeState
<1>2. pipe[p] # NULL => pipe[p].readers = 1 \/ pipe[p].writers = 1
  <2>1. /\ pipe[p] = NULL <=> refcount[<<p, "r">>] = 0 /\ refcount[<<p, "w">>] = 0
        /\ pipe[p] # NULL => /\ pipe[p].readers = EndIsOpen(<<p, "r">>)
                             /\ pipe[p].writers = EndIsOpen(<<p, "w">>)
    BY DEF PInv, EndsOpen
  <2> QED
    BY <2>1 DEF EndIsOpen
<1>3. ASSUME pipe[p] # NULL
      PROVE  /\ "r" \in Ends(p) <=> pipe[p].readers = 1
             /\ "w" \in Ends(p) <=> pipe[p].writers = 1
  BY <1>1, <1>3 DEF Ends
<1>4. Ends(p) \in SUBSET {"r", "w"} /\ (pipe[p] = NULL => Ends(p) = {} /\ Content(p) = <<>>)
  BY DEF Ends, Content
<1>5. ASSUME pipe[p] # NULL PROVE Ends(p) # {}
  <2>1. CASE pipe[p].readers = 1
    BY <1>3, <1>5, <2>1
  <2>2. CASE pipe[p].writers = 1
    BY <1>3, <1>5, <2>2
  <2> QED
    BY <1>2, <1>5, <2>1, <2>2
<1>6. Ends(p) = {} <=> pipe[p] = NULL
  BY <1>4, <1>5
<1> QED
  BY <1>3, <1>4, <1>6

EndsTyped ==
  \A p \in Pipes : /\ Ends(p) \in SUBSET {"r", "w"}
                   /\ Ends(p) = {} => Content(p) = <<>>

LEMMA EndsTypedHolds == PInv => EndsTyped
BY EndsFacts DEF EndsTyped

(* A step that gives nothing to a program and at most closes ends. *)
LEMMA ShutStep ==
  ASSUME PInv, PInv', Quiet,
         \A p \in Pipes : /\ Ends(p)' \subseteq Ends(p)
                          /\ Ends(p)' # {} => Content(p)' = Content(p)
  PROVE  Stream!Shut
<1>1. ASSUME NEW p \in Pipes
      PROVE  /\ Ends(p)' \in SUBSET {"r", "w"} /\ Ends(p)' \subseteq Ends(p)
             /\ Content(p)' = IF Ends(p)' = {} THEN <<>> ELSE Content(p)
  <2>1. EndsTyped'
    BY EndsTypedHolds, PTL
  <2>2. Ends(p)' \in SUBSET {"r", "w"} /\ (Ends(p)' = {} => Content(p)' = <<>>)
    BY <2>1 DEF EndsTyped
  <2> QED
    BY <2>2
<1>2. OpenOf' \in [Pipes -> SUBSET {"r", "w"}]
  BY <1>1 DEF OpenOf
<1>3. \A p \in Pipes : OpenOf'[p] \subseteq OpenOf[p]
  BY <1>1 DEF OpenOf
<1>4. StreamOf' = [p \in Pipes |-> IF OpenOf'[p] = {} THEN <<>> ELSE StreamOf[p]]
  BY <1>1 DEF OpenOf, StreamOf
<1> QED
  BY <1>2, <1>3, <1>4 DEF OpenOf, StreamOf, Stream!Shut, Stream!Nothing, Quiet

(* Pipes whose ring and ends do not change. *)
LEMMA SameRing ==
  ASSUME NEW p \in Pipes,
         pipe'[p] = NULL <=> pipe[p] = NULL,
         pipe[p] # NULL =>
           /\ pipe'[p].buffer = pipe[p].buffer /\ pipe'[p].read_pos = pipe[p].read_pos
           /\ pipe'[p].data_len = pipe[p].data_len
           /\ pipe'[p].readers = pipe[p].readers /\ pipe'[p].writers = pipe[p].writers
  PROVE  Content(p)' = Content(p) /\ Ends(p)' = Ends(p)
<1>1. CASE pipe[p] = NULL
  BY <1>1 DEF Content, Ends
<1>2. CASE pipe[p] # NULL
  BY <1>2 DEF Content, Ends
<1> QED
  BY <1>1, <1>2

LEMMA StillStream ==
  ASSUME PInv, PInv', Quiet, UNCHANGED pipe
  PROVE  Stream!Shut
<1>1. ASSUME NEW p \in Pipes PROVE Content(p)' = Content(p) /\ Ends(p)' = Ends(p)
  BY DEF Content, Ends
<1> QED
  BY <1>1, ShutStep

LEMMA ClosedStream ==
  ASSUME PInv, PInv', Quiet, NEW G, pipe' = [p \in Pipes |-> Closed(p, G)]
  PROVE  Stream!Shut
<1>1. ASSUME NEW p \in Pipes
      PROVE  /\ Ends(p)' \subseteq Ends(p)
             /\ Ends(p)' # {} => Content(p)' = Content(p)
  <2>1. CASE pipe'[p] = NULL
    BY <2>1 DEF Ends
  <2>2. CASE pipe'[p] # NULL
    <3> DEFINE rs == IF <<p, "r">> \in G THEN 0 ELSE pipe[p].readers
               ws == IF <<p, "w">> \in G THEN 0 ELSE pipe[p].writers
               c == [pipe[p] EXCEPT !.readers = rs, !.writers = ws,
                       !.write_waiters = IF <<p, "r">> \in G THEN <<>> ELSE @,
                       !.read_waiters  = IF <<p, "w">> \in G THEN <<>> ELSE @]
    <3>1. pipe[p] # NULL /\ pipe'[p] = c
      BY <2>2 DEF Closed
    <3>2. pipe[p] \in PipeState
      BY <3>1 DEF PInv, PTyped
    <3>3. /\ c.buffer = pipe[p].buffer /\ c.read_pos = pipe[p].read_pos
          /\ c.data_len = pipe[p].data_len /\ c.readers = rs /\ c.writers = ws
      BY <3>2 DEF PipeState
    <3>4. Content(p)' = Content(p)
      <4> HIDE DEF c
      <4> QED
        BY <2>2, <3>1, <3>3 DEF Content
    <3>5. (rs > 0 => pipe[p].readers > 0) /\ (ws > 0 => pipe[p].writers > 0)
      OBVIOUS
    <3> HIDE DEF c, rs, ws
    <3>6. Ends(p)' \subseteq Ends(p)
      BY <2>2, <3>1, <3>3, <3>5 DEF Ends
    <3> QED
      BY <3>4, <3>6
  <2> QED
    BY <2>1, <2>2
<1> QED
  BY <1>1, ShutStep

LEMMA CreateStream ==
  ASSUME PInv, NEW t \in Task, NEW p \in Pipes, sys_pipe(t, p)
  PROVE  Stream!Create(p)
<1> DEFINE b == [NewPipe EXCEPT !.readers = 1, !.writers = 1]
<1>1. pipe[p] = NULL /\ pipe' = [pipe EXCEPT ![p] = b] /\ Quiet
  BY DEF sys_pipe
<1>2. b.readers = 1 /\ b.writers = 1 /\ b.data_len = 0 /\ b \in PipeState
  <2>1. Size \in Nat /\ Size > 0 /\ (CHOOSE d \in Data : TRUE) \in Data
    BY PipeAssumption
  <2>2. 0 \in 0 .. Size - 1 /\ 0 \in 0 .. Size /\ <<>> \in Seq(Task)
    BY <2>1
  <2>3. [i \in 0 .. Size - 1 |-> CHOOSE d \in Data : TRUE] \in [0 .. Size - 1 -> Data]
    BY <2>1
  <2> QED
    BY <2>2, <2>3 DEF NewPipe, PipeState
<1> HIDE DEF b
<1>3. pipe'[p] = b /\ b # NULL /\ \A q \in Pipes : q # p => pipe'[q] = pipe[q]
  BY <1>1, <1>2, PipeAssumption DEF PInv, PTyped
<1>4. Ends(p) = {} /\ Ends(p)' = {"r", "w"}
  BY <1>1, <1>2, <1>3 DEF Ends
<1>5. Content(p)' = <<>>
  <2>1. Content(p)' = [i \in 1 .. 0 |-> b.buffer[(b.read_pos + i - 1) % Size]]
    BY <1>2, <1>3 DEF Content
  <2> QED
    BY <2>1
<1>6. \A q \in Pipes : q # p => Content(q)' = Content(q) /\ Ends(q)' = Ends(q)
  BY <1>3 DEF Content, Ends
<1>7. OpenOf' = [OpenOf EXCEPT ![p] = {"r", "w"}] /\ OpenOf[p] = {}
  BY <1>4, <1>6 DEF OpenOf
<1>8. StreamOf' = [StreamOf EXCEPT ![p] = <<>>]
  BY <1>5, <1>6 DEF StreamOf
<1> QED
  BY <1>1, <1>7, <1>8 DEF OpenOf, StreamOf, Stream!Create, Stream!Nothing, Quiet

(* A reader gets the front of the stream. *)
LEMMA TakeRing ==
  ASSUME PInv, PInv', NEW p \in Pipes, NEW b \in PipeState, b = pipe[p], b.readers = 1,
         NEW k \in 1 .. b.data_len,
         pipe' = [pipe EXCEPT ![p] = AfterRead(b, k)], UNCHANGED refcount,
         Moved("read", p, [i \in 1 .. k |-> b.buffer[(b.read_pos + i - 1) % Size]])
  PROVE  Stream!Take(p, k) /\ k \in 1 .. Size
<1> DEFINE d == b.data_len
           r == b.read_pos
           c == AfterRead(b, k)
<1>1. b # NULL
  BY PipeAssumption
<1>4. /\ d \in 0 .. Size /\ r \in 0 .. Size - 1 /\ Size \in Nat /\ Size > 0
  BY PipeAssumption DEF PipeState
<1>5. k \in 1 .. d
  OBVIOUS
<1>6. /\ c.buffer = b.buffer /\ c.read_pos = (r + k) % Size /\ c.data_len = d - k
      /\ c.readers = b.readers /\ c.writers = b.writers
  BY DEF AfterRead, PipeState
<1>7. pipe'[p] = c /\ pipe'[p] # NULL /\ \A q \in Pipes : q # p => pipe'[q] = pipe[q]
  <2>1. pipe'[p] = c /\ \A q \in Pipes : q # p => pipe'[q] = pipe[q]
    BY DEF PInv, PTyped
  <2>2. pipe'[p] # NULL
    BY <1>1 DEF PInv, EndsOpen
  <2> QED
    BY <2>1, <2>2
<1>8. /\ Content(p) = [i \in 1 .. d |-> b.buffer[(r + i - 1) % Size]]
      /\ Content(p) \in Seq(Data) /\ Len(Content(p)) = d
  BY <1>1, ContentFacts
<1>9. Content(p)' = [i \in 1 .. (d - k) |-> b.buffer[(((r + k) % Size) + i - 1) % Size]]
  <2> HIDE DEF c
  <2> QED
    BY <1>6, <1>7 DEF Content
<1>10. Ends(p)' = Ends(p) /\ "r" \in Ends(p)
  <2>1. "r" \in Ends(p)
    BY <1>1, EndsFacts
  <2> HIDE DEF c
  <2> QED
    BY <1>1, <1>6, <1>7, <2>1 DEF Ends
<1>11. \A q \in Pipes : q # p => Content(q)' = Content(q) /\ Ends(q)' = Ends(q)
  BY <1>7 DEF Content, Ends
<1> HIDE DEF d, r, c
<1>12. SubSeq(Content(p), 1, k) = [i \in 1 .. k |-> b.buffer[(r + i - 1) % Size]]
  BY <1>4, <1>5, <1>8
<1>13. ASSUME NEW i \in 1 .. (d - k)
       PROVE  (((r + k) % Size) + i - 1) % Size = (r + (k + i) - 1) % Size
  <2>1. (r + k) % Size = IF r + k < Size THEN r + k ELSE r + k - Size
    BY <1>4, <1>5, Wraps
  <2>2. (r + (k + i) - 1) % Size =
          IF r + (k + i) - 1 < Size THEN r + (k + i) - 1 ELSE r + (k + i) - 1 - Size
    BY <1>4, <1>5, Wraps
  <2>3. CASE r + k < Size
    <3>1. ((r + k) % Size) + i - 1 = r + (k + i) - 1
      BY <1>4, <1>5, <2>1, <2>3
    <3> QED
      BY <3>1
  <2>4. CASE r + k >= Size
    <3>1. ((r + k) % Size) + i - 1 = r + (k + i) - 1 - Size /\ r + (k + i) - 1 >= Size
      BY <1>4, <1>5, <2>1, <2>4
    <3>2. r + (k + i) - 1 - Size \in Nat /\ r + (k + i) - 1 - Size < Size
      BY <1>4, <1>5, <3>1
    <3>3. (r + (k + i) - 1 - Size) % Size = r + (k + i) - 1 - Size
      BY <1>4, <3>2, Wraps
    <3>4. r + (k + i) - 1 \in Int
      BY <1>4, <1>5
    <3>5. (r + (k + i) - 1) % Size = r + (k + i) - 1 - Size
      BY <1>4, <2>2, <3>1, <3>4
    <3> QED
      BY <3>1, <3>3, <3>5
  <2> QED
    BY <1>4, <1>5, <2>3, <2>4
<1>14. Content(p)' = SubSeq(Content(p), k + 1, Len(Content(p)))
  <2>1. SubSeq(Content(p), k + 1, d) = [i \in 1 .. (d - k) |-> Content(p)[k + i]]
    BY <1>4, <1>5, <1>8
  <2>2. ASSUME NEW i \in 1 .. (d - k)
        PROVE  Content(p)[k + i] = b.buffer[(((r + k) % Size) + i - 1) % Size]
    <3>1. k + i \in 1 .. d
      BY <1>4, <1>5
    <3>2. Content(p)[k + i] = b.buffer[(r + (k + i) - 1) % Size]
      BY <1>8, <3>1
    <3> QED
      BY <1>13, <3>2
  <2> QED
    BY <1>8, <1>9, <2>1, <2>2
<1>15. /\ "r" \in OpenOf[p] /\ k \in 1 .. Len(StreamOf[p])
       /\ OpenOf' = OpenOf
       /\ StreamOf' = [StreamOf EXCEPT ![p] = SubSeq(@, k + 1, Len(@))]
       /\ Moved("read", p, SubSeq(StreamOf[p], 1, k))
  <2>1. "r" \in OpenOf[p] /\ OpenOf' = OpenOf
    BY <1>10, <1>11 DEF OpenOf
  <2>2. StreamOf[p] = Content(p)
    BY DEF StreamOf
  <2>3. StreamOf' = [StreamOf EXCEPT ![p] = SubSeq(@, k + 1, Len(@))]
    BY <1>11, <1>14 DEF StreamOf
  <2>4. Moved("read", p, SubSeq(StreamOf[p], 1, k))
    BY <1>12, <2>2 DEF r
  <2> QED
    BY <1>5, <1>8, <2>1, <2>2, <2>3, <2>4
<1>16. Stream!Take(p, k)
  BY <1>15 DEF OpenOf, StreamOf, Stream!Take, Stream!Done, Moved
<1>17. k \in 1 .. Size
  BY <1>4, <1>5
<1> QED
  BY <1>16, <1>17

LEMMA TakeStream ==
  ASSUME PInv, PInv', NEW t \in Task, NEW f \in Fd, NEW n \in 1 .. MaxRequest, ReadData(t, f, n)
  PROVE  \E p \in Pipes : \E k \in 1 .. Size : Stream!Take(p, k)
<1>1. fd_table[t][f] # NULL /\ fd_table[t][f][2] = "r"
  BY DEF ReadData, Holds
<1>2. PICK p \in Pipes, b \in PipeState : p = fd_table[t][f][1] /\ b = pipe[p] /\ b.readers = 1
  BY <1>1, HolderFacts DEF PInv
<1> DEFINE k == Fewer(n, b.data_len)
<1>3. /\ b.data_len > 0
      /\ pipe' = [pipe EXCEPT ![p] = AfterRead(b, k)] /\ UNCHANGED refcount
      /\ Moved("read", p, [i \in 1 .. k |-> b.buffer[(b.read_pos + i - 1) % Size]])
  BY <1>2 DEF ReadData, AfterRead, Popped, Rest
<1>4. k \in 1 .. b.data_len
  <2>1. PICK d \in Nat : d = b.data_len
    BY PipeAssumption DEF PipeState
  <2>2. n \in Nat /\ n > 0 /\ d > 0
    BY <1>3, <2>1, PipeAssumption
  <2>3. Fewer(n, d) \in Nat /\ Fewer(n, d) <= d /\ Fewer(n, d) > 0
    BY <2>1, <2>2, FewerFacts
  <2>4. Fewer(n, d) \in 1 .. d
    BY <2>1, <2>3
  <2> QED
    BY <2>1, <2>4
<1> HIDE DEF k
<1> QED
  BY <1>2, <1>3, <1>4, TakeRing

LEMMA Joined ==
  ASSUME NEW x \in Seq(Data), NEW y \in Seq(Data)
  PROVE  x \o y = [i \in 1 .. Len(x) + Len(y) |-> IF i <= Len(x) THEN x[i] ELSE y[i - Len(x)]]
<1>1. x \o y \in Seq(Data) /\ Len(x \o y) = Len(x) + Len(y)
  BY ConcatProperties
<1>2. \A i \in 1 .. Len(x) + Len(y) :
        (x \o y)[i] = IF i <= Len(x) THEN x[i] ELSE y[i - Len(x)]
  BY ConcatProperties, Zenon
<1>3. PICK c \in Seq(Data) : c = x \o y
  BY <1>1
<1>4. c = [i \in 1 .. Len(c) |-> c[i]]
  OBVIOUS
<1> QED
  BY <1>1, <1>2, <1>3, <1>4, Zenon

(* A writer extends the stream at its end. *)
LEMMA PutRing ==
  ASSUME PInv, PInv', NEW p \in Pipes, NEW b \in PipeState, b = pipe[p],
         b.readers = 1, b.writers = 1,
         NEW s \in Seq(Data), NEW k \in 1 .. Size - b.data_len, k <= Len(s),
         b.write_pos = (b.read_pos + b.data_len) % Size,
         pipe' = [pipe EXCEPT ![p] = AfterWrite(b, s, k)], UNCHANGED refcount, Quiet
  PROVE  Stream!Put(p, SubSeq(s, 1, k)) /\ k \in 1 .. Size /\ SubSeq(s, 1, k) \in [1 .. k -> Data]
<1> DEFINE d == b.data_len
           r == b.read_pos
           w == b.write_pos
           c == AfterWrite(b, s, k)
           z == SubSeq(s, 1, k)
<1>1. b # NULL
  BY PipeAssumption
<1>2. /\ d \in 0 .. Size /\ r \in 0 .. Size - 1 /\ w \in 0 .. Size - 1
      /\ Size \in Nat /\ Size > 0
      /\ b.buffer \in [0 .. Size - 1 -> Data]
  BY PipeAssumption DEF PipeState
<1>3. k \in 1 .. Size - d /\ w = (r + d) % Size /\ Len(s) \in Nat
  OBVIOUS
<1>4. /\ c.buffer = [i \in 0 .. Size - 1 |-> IF At(i, w) < k THEN s[At(i, w) + 1] ELSE b.buffer[i]]
      /\ c.read_pos = r /\ c.data_len = d + k
      /\ c.readers = b.readers /\ c.writers = b.writers
  BY DEF AfterWrite, PipeState
<1>5. pipe'[p] = c /\ pipe'[p] # NULL /\ \A q \in Pipes : q # p => pipe'[q] = pipe[q]
  <2>1. pipe'[p] = c /\ \A q \in Pipes : q # p => pipe'[q] = pipe[q]
    BY DEF PInv, PTyped
  <2>2. pipe'[p] # NULL
    BY <1>1 DEF PInv, EndsOpen
  <2> QED
    BY <2>1, <2>2
<1>6. /\ Content(p) = [i \in 1 .. d |-> b.buffer[(r + i - 1) % Size]]
      /\ Content(p) \in Seq(Data) /\ Len(Content(p)) = d
  BY <1>1, ContentFacts
<1>7. Content(p)' = [i \in 1 .. (d + k) |-> c.buffer[(r + i - 1) % Size]]
  <2>1. c.read_pos = r /\ c.data_len = d + k
    BY <1>4
  <2> HIDE DEF c, d, r
  <2> QED
    BY <1>5, <2>1 DEF Content
<1>8. Ends(p)' = Ends(p) /\ Ends(p) = {"r", "w"}
  <2>1. Ends(p) = {"r", "w"}
    BY <1>1, EndsFacts
  <2> HIDE DEF c
  <2> QED
    BY <1>1, <1>4, <1>5, <2>1 DEF Ends
<1>9. \A q \in Pipes : q # p => Content(q)' = Content(q) /\ Ends(q)' = Ends(q)
  BY <1>5 DEF Content, Ends
<1>10. /\ z \in Seq(Data) /\ Len(z) = k /\ z \in [1 .. k -> Data]
       /\ \A i \in 1 .. k : z[i] = s[i]
  <2>1. k \in Nat /\ k >= 1 /\ k <= Len(s)
    <3> HIDE DEF d
    <3> QED
      BY <1>2, <1>3
  <2>2. z = [i \in 1 .. k |-> s[i]]
    BY <1>3, <2>1
  <2>3. \A i \in 1 .. k : s[i] \in Data
    BY <1>3, <2>1
  <2> HIDE DEF z
  <2>4. z \in [1 .. k -> Data]
    BY <2>2, <2>3
  <2>5. z \in Seq(Data) /\ Len(z) = k
    BY <2>1, <2>4
  <2> QED
    BY <2>2, <2>4, <2>5
<1> HIDE DEF d, r, w, c, z
<1>11. ASSUME NEW i \in 1 .. (d + k)
       PROVE  \E j \in 0 .. Size - 1 :
                /\ j = (r + i - 1) % Size
                /\ i <= d => At(j, w) >= k
                /\ i > d => At(j, w) = i - d - 1
  <2>1. (r + i - 1) % Size = IF r + i - 1 < Size THEN r + i - 1 ELSE r + i - 1 - Size
    BY <1>2, <1>3, Wraps
  <2>2. w = IF r + d < Size THEN r + d ELSE r + d - Size
    BY <1>2, <1>3, Wraps
  <2>3. PICK j \in 0 .. Size - 1 : j = (r + i - 1) % Size
    BY <1>2, <1>3, <2>1
  <2>4. At(j, w) = IF j < w THEN j + Size - w ELSE j - w
    BY <1>2, AtFacts
  <2>5. j = IF r + i - 1 < Size THEN r + i - 1 ELSE r + i - 1 - Size
    BY <2>1, <2>3
  <2>6. i <= d => At(j, w) >= k
    BY <1>2, <1>3, <2>2, <2>4, <2>5
  <2>7. ASSUME i > d PROVE At(j, w) = i - d - 1
    <3>1. CASE r + d < Size /\ r + i - 1 < Size
      BY <1>2, <1>3, <2>2, <2>4, <2>5, <2>7, <3>1
    <3>2. CASE r + d < Size /\ r + i - 1 >= Size
      <4>1. w = r + d /\ j = r + i - 1 - Size
        BY <1>2, <1>3, <2>2, <2>5, <3>2
      <4>2. j < w
        BY <1>2, <1>3, <4>1
      <4> QED
        BY <1>2, <1>3, <2>4, <4>1, <4>2
    <3>3. CASE r + d >= Size
      <4>1. w = r + d - Size /\ j = r + i - 1 - Size
        BY <1>2, <1>3, <2>2, <2>5, <2>7, <3>3
      <4>2. ~(j < w)
        BY <1>2, <1>3, <2>7, <4>1
      <4> QED
        BY <1>2, <1>3, <2>4, <4>1, <4>2
    <3> QED
      BY <1>2, <1>3, <3>1, <3>2, <3>3
  <2> QED
    BY <2>3, <2>6, <2>7
<1>12. Content(p)' = Content(p) \o z
  <2>1. Content(p) \o z = [i \in 1 .. (d + k) |-> IF i <= d THEN Content(p)[i] ELSE z[i - d]]
    <3>1. PICK x \in Seq(Data) : x = Content(p) /\ Len(x) = d
      BY <1>6
    <3>2. PICK y \in Seq(Data) : y = z /\ Len(y) = k
      BY <1>10
    <3>3. x \o y = [i \in 1 .. Len(x) + Len(y) |-> IF i <= Len(x) THEN x[i] ELSE y[i - Len(x)]]
      BY Joined
    <3> QED
      BY <3>1, <3>2, <3>3
  <2>2. ASSUME NEW i \in 1 .. (d + k)
        PROVE  c.buffer[(r + i - 1) % Size] = IF i <= d THEN Content(p)[i] ELSE z[i - d]
    <3>1. PICK j \in 0 .. Size - 1 :
            /\ j = (r + i - 1) % Size
            /\ i <= d => At(j, w) >= k
            /\ i > d => At(j, w) = i - d - 1
      BY <1>11
    <3>2. c.buffer[j] = IF At(j, w) < k THEN s[At(j, w) + 1] ELSE b.buffer[j]
      BY <1>4
    <3>3. At(j, w) \in Int /\ k \in Int /\ d \in Int
      BY <1>2, <1>3, AtFacts
    <3>4. CASE i <= d
      <4>1. i \in 1 .. d /\ Content(p)[i] = b.buffer[j]
        BY <1>6, <3>1, <3>3, <3>4
      <4>2. ~(At(j, w) < k)
        BY <1>11, <3>1, <3>3, <3>4
      <4> QED
        BY <3>1, <3>2, <3>4, <4>1, <4>2
    <3>5. CASE ~(i <= d)
      <4>1. At(j, w) = i - d - 1
        BY <1>11, <3>1, <3>3, <3>5
      <4>2. At(j, w) < k /\ At(j, w) + 1 = i - d /\ i - d \in 1 .. k
        BY <1>2, <1>3, <3>3, <3>5, <4>1
      <4>3. z[i - d] = s[i - d]
        BY <1>10, <4>2
      <4> QED
        BY <3>1, <3>2, <3>5, <4>2, <4>3
    <3> QED
      BY <3>4, <3>5
  <2> QED
    BY <1>7, <2>1, <2>2
<1>13. /\ OpenOf[p] = {"r", "w"} /\ OpenOf' = OpenOf
       /\ StreamOf' = [StreamOf EXCEPT ![p] = @ \o z]
       /\ z # <<>> /\ Len(StreamOf[p] \o z) <= Size
  <2>1. OpenOf[p] = {"r", "w"} /\ OpenOf' = OpenOf
    BY <1>8, <1>9 DEF OpenOf
  <2>2. StreamOf[p] = Content(p)
    BY DEF StreamOf
  <2>3. StreamOf' = [StreamOf EXCEPT ![p] = @ \o z]
    BY <1>9, <1>12 DEF StreamOf
  <2>4. Len(Content(p) \o z) = d + k /\ d + k <= Size /\ k > 0
    BY <1>2, <1>3, <1>6, <1>10
  <2>5. z # <<>>
    BY <1>10, <2>4
  <2> QED
    BY <2>1, <2>2, <2>3, <2>4, <2>5
<1>14. Stream!Put(p, z)
  BY <1>13 DEF OpenOf, StreamOf, Stream!Put, Stream!Nothing, Quiet
<1>15. k \in 1 .. Size
  BY <1>2, <1>3
<1> QED
  BY <1>10, <1>14, <1>15 DEF z

LEMMA PutStream ==
  ASSUME PInv, PInv', NEW t \in Task, NEW f \in Fd, NEW s \in Payload, WriteData(t, f, s)
  PROVE  \E p \in Pipes : \E n \in 1 .. Size : \E z \in [1 .. n -> Data] : Stream!Put(p, z)
<1>1. PICK p \in Pipes, b \in PipeState : p = fd_table[t][f][1] /\ b = pipe[p]
  BY WriteDataFacts
<1> DEFINE k == Fewer(Len(s), Size - b.data_len)
<1>2. /\ s \in Seq(Data) /\ k \in 1 .. Size - b.data_len /\ k <= Len(s)
      /\ b.readers > 0 /\ b.writers = 1
      /\ b.write_pos = (b.read_pos + b.data_len) % Size
      /\ pipe' = [pipe EXCEPT ![p] = AfterWrite(b, s, k)]
      /\ UNCHANGED <<fd_table, refcount>> /\ Quiet
  BY <1>1, WriteDataFacts
<1>3. b.readers = 1
  BY <1>2 DEF PipeState
<1> HIDE DEF k
<1>4. Stream!Put(p, SubSeq(s, 1, k)) /\ k \in 1 .. Size /\ SubSeq(s, 1, k) \in [1 .. k -> Data]
  BY <1>1, <1>2, <1>3, PutRing
<1> QED
  BY <1>4

LEMMA EofStream ==
  ASSUME PInv, NEW t \in Task, NEW f \in Fd, ReadEof(t, f)
  PROVE  \E p \in Pipes : Stream!EndOfFile(p)
<1>1. fd_table[t][f] # NULL /\ fd_table[t][f][2] = "r"
  BY DEF ReadEof, Holds
<1>2. PICK p \in Pipes : p = fd_table[t][f][1] /\ pipe[p] # NULL /\ pipe[p].readers = 1
  BY <1>1, HolderFacts DEF PInv
<1>3. /\ pipe[p].data_len = 0 /\ pipe[p].writers = 0
      /\ Moved("eof", p, <<>>) /\ UNCHANGED pipe
  BY <1>2 DEF ReadEof
<1>4. OpenOf[p] = {"r"}
  <2>1. Ends(p) \in SUBSET {"r", "w"} /\ "r" \in Ends(p) /\ "w" \notin Ends(p)
    BY <1>2, <1>3, EndsFacts
  <2> QED
    BY <2>1 DEF OpenOf
<1>5. StreamOf[p] = <<>>
  <2>1. Content(p) \in Seq(Data) /\ Len(Content(p)) = 0
    BY <1>2, <1>3, ContentFacts
  <2>2. Content(p) = <<>>
    BY <2>1
  <2> QED
    BY <2>2 DEF StreamOf
<1>6. UNCHANGED <<StreamOf, OpenOf>>
  BY <1>3 DEF StreamOf, OpenOf, Content, Ends
<1> QED
  BY <1>3, <1>4, <1>5, <1>6 DEF StreamOf, OpenOf, Stream!EndOfFile, Stream!Done, Moved

LEMMA BrokenStream ==
  ASSUME PInv, NEW t \in Task, NEW f \in Fd, WriteBroken(t, f)
  PROVE  \E p \in Pipes : Stream!Broken(p)
<1>1. fd_table[t][f] # NULL /\ fd_table[t][f][2] = "w"
  BY DEF WriteBroken, Holds
<1>2. PICK p \in Pipes : p = fd_table[t][f][1] /\ pipe[p] # NULL /\ pipe[p].writers = 1
  BY <1>1, HolderFacts DEF PInv
<1>3. pipe[p].readers = 0 /\ Moved("epipe", p, <<>>) /\ UNCHANGED pipe
  BY <1>2 DEF WriteBroken
<1>4. OpenOf[p] = {"w"}
  <2>1. Ends(p) \in SUBSET {"r", "w"} /\ "w" \in Ends(p) /\ "r" \notin Ends(p)
    BY <1>2, <1>3, EndsFacts
  <2> QED
    BY <2>1 DEF OpenOf
<1>5. UNCHANGED <<StreamOf, OpenOf>>
  BY <1>3 DEF StreamOf, OpenOf, Content, Ends
<1> QED
  BY <1>3, <1>4, <1>5 DEF StreamOf, OpenOf, Stream!Broken, Stream!Done, Moved

(* Going to sleep changes the waiters of one pipe only. *)
LEMMA SleepStream ==
  ASSUME PInv, PInv', NEW t \in Task, NEW f \in Fd, ReadSleep(t, f) \/ WriteSleep(t, f)
  PROVE  Stream!Shut
<1>1. fd_table[t][f] # NULL /\ Quiet /\ UNCHANGED refcount
  BY DEF ReadSleep, WriteSleep, Holds
<1>2. PICK p \in Pipes, b \in PipeState : p = fd_table[t][f][1] /\ b = pipe[p] /\ pipe[p] # NULL
  BY <1>1, HolderFacts DEF PInv
<1>3. \/ pipe' = [pipe EXCEPT ![p] = [b EXCEPT !.read_waiters = Append(@, t)]]
      \/ pipe' = [pipe EXCEPT ![p] = [b EXCEPT !.write_waiters = Append(@, t)]]
  BY <1>2 DEF ReadSleep, WriteSleep
<1>4. /\ pipe'[p].buffer = b.buffer /\ pipe'[p].read_pos = b.read_pos
      /\ pipe'[p].data_len = b.data_len
      /\ pipe'[p].readers = b.readers /\ pipe'[p].writers = b.writers
      /\ \A q \in Pipes : q # p => pipe'[q] = pipe[q]
  BY <1>3 DEF PInv, PTyped, PipeState
<1>5. \A q \in Pipes : pipe'[q] = NULL <=> pipe[q] = NULL
  BY <1>1 DEF PInv, EndsOpen
<1>6. ASSUME NEW q \in Pipes PROVE Content(q)' = Content(q) /\ Ends(q)' = Ends(q)
  <2>1. pipe[q] # NULL =>
          /\ pipe'[q].buffer = pipe[q].buffer /\ pipe'[q].read_pos = pipe[q].read_pos
          /\ pipe'[q].data_len = pipe[q].data_len
          /\ pipe'[q].readers = pipe[q].readers /\ pipe'[q].writers = pipe[q].writers
    <3>1. CASE q = p
      BY <1>2, <1>4, <3>1
    <3>2. CASE q # p
      BY <1>4, <3>2
    <3> QED
      BY <3>1, <3>2
  <2> QED
    BY <1>5, <2>1, SameRing
<1> QED
  BY <1>1, <1>6, ShutStep

LEMMA StreamStep ==
  ASSUME PInv, PInv', PipeNext
  PROVE  Stream!StreamNext
<1> USE DEF Stream!StreamNext
<1>1. PICK t \in Task :
        \/ \E p \in Pipes : sys_pipe(t, p)
        \/ sys_read(t) \/ sys_write(t)
        \/ \E f \in Fd : sys_close(t, f) \/ dup(t, f) \/ \E g \in Fd : dup2(t, f, g)
        \/ \E u \in Task : fork(t, u)
        \/ task_exit(t)
        \/ task_ipc_signal_raise(t)
  BY DEF PipeNext
<1>2. CASE \E p \in Pipes : sys_pipe(t, p)
  BY <1>2, CreateStream
<1>3. CASE sys_read(t)
  <2>1. PICK f \in Fd : (\E n \in 1 .. MaxRequest : ReadData(t, f, n)) \/ ReadEof(t, f) \/ ReadSleep(t, f)
    BY <1>3 DEF sys_read
  <2>2. CASE \E n \in 1 .. MaxRequest : ReadData(t, f, n)
    BY <2>2, TakeStream
  <2>3. CASE ReadEof(t, f)
    BY <2>3, EofStream
  <2>4. CASE ReadSleep(t, f)
    BY <2>4, SleepStream
  <2> QED
    BY <2>1, <2>2, <2>3, <2>4
<1>4. CASE sys_write(t)
  <2>1. PICK f \in Fd : (\E s \in Payload : WriteData(t, f, s)) \/ WriteBroken(t, f) \/ WriteSleep(t, f)
    BY <1>4 DEF sys_write
  <2>2. CASE \E s \in Payload : WriteData(t, f, s)
    BY <2>2, PutStream
  <2>3. CASE WriteBroken(t, f)
    BY <2>3, BrokenStream
  <2>4. CASE WriteSleep(t, f)
    BY <2>4, SleepStream
  <2> QED
    BY <2>1, <2>2, <2>3, <2>4
<1>5. CASE \E f \in Fd : sys_close(t, f) \/ dup(t, f) \/ \E g \in Fd : dup2(t, f, g)
  <2>1. ASSUME NEW f \in Fd, sys_close(t, f) PROVE Stream!Shut
    BY <2>1, ClosedStream DEF sys_close
  <2>2. ASSUME NEW f \in Fd, dup(t, f) PROVE Stream!Shut
    BY <2>2, StillStream DEF dup
  <2>3. ASSUME NEW f \in Fd, NEW g \in Fd, dup2(t, f, g) PROVE Stream!Shut
    BY <2>3, ClosedStream DEF dup2
  <2> QED
    BY <1>5, <2>1, <2>2, <2>3
<1>6. CASE \E u \in Task : fork(t, u)
  BY <1>6, StillStream DEF fork
<1>7. CASE task_exit(t)
  BY <1>7, ClosedStream DEF task_exit
<1>8. CASE task_ipc_signal_raise(t)
  BY <1>8, StillStream DEF task_ipc_signal_raise
<1> QED
  BY <1>1, <1>2, <1>3, <1>4, <1>5, <1>6, <1>7, <1>8

LEMMA StreamPollStep ==
  ASSUME PInv, PInv', PollNext
  PROVE  Stream!StreamNext
<1>1. CASE PipeNext
  BY <1>1, StreamStep
<1>2. CASE \E t \in Task : sys_poll(t)
  <2>1. Quiet /\ UNCHANGED pipe
    BY <1>2 DEF sys_poll, PollSleep
  <2> QED
    BY <2>1, StillStream DEF Stream!StreamNext
<1>3. CASE poll_waiter_tick
  <2>1. Quiet /\ UNCHANGED pipe
    BY <1>3 DEF poll_waiter_tick
  <2> QED
    BY <2>1, StillStream DEF Stream!StreamNext
<1> QED
  BY <1>1, <1>2, <1>3 DEF PollNext

(* The ring with its read, write and length counters, shared by readers    *)
(* and writers that sleep, wake and close at will, implements the stream   *)
(* of bytes of ByteStream: nothing is lost, duplicated or reordered, and   *)
(* end-of-file and EPIPE come only when the other end is closed.           *)
THEOREM PipeImplementsStream == PollSpec => PipeIsStream
<1>1. PollInit => Stream!StreamInit
  BY DEF PollInit, PipeInit, Stream!StreamInit, Content, Ends
<1>2. PInv /\ PInv' /\ [PollNext]_avars => [Stream!StreamNext]_Stream!svars
  <2>1. CASE PollNext
    BY <2>1, StreamPollStep
  <2>2. CASE UNCHANGED avars
    BY <2>2 DEF avars, pvars, Stream!svars, Content, Ends
  <2> QED
    BY <2>1, <2>2
<1> QED
  BY <1>1, <1>2, PInvHolds, PTL DEF PollSpec, PipeIsStream, Stream!StreamSpec
=============================================================================
