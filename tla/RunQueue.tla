------------------------------ MODULE RunQueue ------------------------------
(***************************************************************************)
(* The run queues of the scheduler (kernel/schedule/schedule.c): one       *)
(* intrusive singly linked list per priority, threaded through the rq_next *)
(* field of the process control blocks, and a two-level bitmap of the      *)
(* priorities whose list is not empty.                                     *)
(*                                                                         *)
(* A run queue is the record                                               *)
(*   head, tail   prio_q[p].head, prio_q[p].tail                           *)
(*   rq_next      pcb->rq_next                                             *)
(*   prio_bitmap  per word, the set of its set bits                        *)
(*   top_bitmap   the set of words that are marked non-empty               *)
(* and every function of the code is an operator from run queue to run     *)
(* queue.  Nothing here checks membership: enqueueing a task that is       *)
(* already linked does to the pointers exactly what the code does.         *)
(***************************************************************************)
EXTENDS Integers, Sequences, FiniteSetsExt

CONSTANTS
  Task,      \* process control blocks
  NIL,       \* the null pointer
  Words,     \* number of bitmap words (8)
  WordBits   \* bits per bitmap word (32)

ASSUME RunQueueAssumption ==
  /\ NIL \notin Task
  /\ Words \in Nat \ {0}
  /\ WordBits \in Nat \ {0}

Word == 0 .. Words - 1
Bit  == 0 .. WordBits - 1
Prio == 0 .. Words * WordBits - 1     \* MAX_PRIORITY levels

WordOf(p) == p \div WordBits           \* p >> 5
BitOf(p)  == p % WordBits              \* p & 31

RunQueues ==
  [head : [Prio -> Task \cup {NIL}], tail : [Prio -> Task \cup {NIL}],
   rq_next : [Task -> Task \cup {NIL}],
   prio_bitmap : [Word -> SUBSET Bit], top_bitmap : SUBSET Word]

EmptyRunQueue ==
  [head |-> [p \in Prio |-> NIL], tail |-> [p \in Prio |-> NIL],
   rq_next |-> [t \in Task |-> NIL],
   prio_bitmap |-> [w \in Word |-> {}], top_bitmap |-> {}]
-----------------------------------------------------------------------------
bm_set(q, p) ==
  [q EXCEPT !.prio_bitmap[WordOf(p)] = @ \cup {BitOf(p)},
            !.top_bitmap = @ \cup {WordOf(p)}]

bm_clear_Group(q, p) ==
  [q EXCEPT !.prio_bitmap[WordOf(p)] = @ \ {BitOf(p)},
            !.top_bitmap = @ \ {WordOf(p)}]

bm_clear(q, p) ==
  LET rest == q.prio_bitmap[WordOf(p)] \ {BitOf(p)}
  IN  [q EXCEPT !.prio_bitmap[WordOf(p)] = rest,
                !.top_bitmap = IF rest = {} THEN @ \ {WordOf(p)} ELSE @]

(* The highest set bit of the highest marked word, -1 when none is marked. *)
highest_ready_prio(q) ==
  IF q.top_bitmap = {}
  THEN -1
  ELSE LET word == Max(q.top_bitmap)
       IN  word * WordBits + Max(q.prio_bitmap[word])

(* Append t to the list of priority p.  The order of the two pointer       *)
(* writes matters when t is itself the tail: the second one closes a loop. *)
enqueue(q, t, p) ==
  IF q.head[p] = NIL
  THEN bm_set([q EXCEPT !.rq_next[t] = NIL, !.head[p] = t, !.tail[p] = t], p)
  ELSE [q EXCEPT !.rq_next = [@ EXCEPT ![t] = NIL, ![q.tail[p]] = t],
                 !.tail[p] = t]

(* The task dequeue() returns. *)
dequeued(q) ==
  LET p == highest_ready_prio(q) IN IF p < 0 THEN NIL ELSE q.head[p]

(* The run queue dequeue() leaves.  A marked priority with an empty list   *)
(* is the branch the code comments "shouldnt happen".                      *)
dequeue(q) ==
  LET p   == highest_ready_prio(q)
      pcb == q.head[p]
      rest == [q EXCEPT !.head[p] = q.rq_next[pcb], !.rq_next[pcb] = NIL]
  IN  IF p < 0 THEN q
      ELSE IF pcb = NIL THEN bm_clear(q, p)
      ELSE IF rest.head[p] # NIL THEN rest
      ELSE bm_clear([rest EXCEPT !.tail[p] = NIL], p)
-----------------------------------------------------------------------------
(* What enqueue() and dequeue() count on: word w is marked exactly when    *)
(* one of its bits is, a bit is set exactly when the list of its priority  *)
(* is not empty, and a list has a tail exactly when it has a head.         *)
WellFormed(q) ==
  /\ \A w \in Word : w \in q.top_bitmap <=> q.prio_bitmap[w] # {}
  /\ \A p \in Prio : BitOf(p) \in q.prio_bitmap[WordOf(p)]
                       <=> q.head[p] # NIL
  /\ \A p \in Prio : q.head[p] = NIL <=> q.tail[p] = NIL

(* The chain of priority p visits exactly s, in order, and ends in NULL.   *)
Linked(q, s, p) ==
  IF s = <<>>
  THEN q.head[p] = NIL /\ q.tail[p] = NIL
  ELSE /\ q.head[p] = s[1]
       /\ q.tail[p] = s[Len(s)]
       /\ q.rq_next[s[Len(s)]] = NIL
       /\ \A i \in 1 .. Len(s) - 1 : q.rq_next[s[i]] = s[i + 1]

(* The FIFO queues f of the priorities in P hold no task twice. *)
Disjoint(f, P) ==
  \A p1, p2 \in P : \A i \in 1 .. Len(f[p1]), j \in 1 .. Len(f[p2]) :
    f[p1][i] = f[p2][j] => p1 = p2 /\ i = j

(* q is the linked-list representation of the queues f of P. *)
Represents(q, f, P) ==
  (\A p \in P : Linked(q, f[p], p)) /\ Disjoint(f, P)
=============================================================================
