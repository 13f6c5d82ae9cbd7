--------------------------- MODULE Scheduler_proofs --------------------------
(***************************************************************************)
(* Scheduler: first facts about the operators of RunQueue, the types of    *)
(* what they return, the exactness of the two-level bitmap, and what       *)
(* enqueue() and dequeue() do to the FIFO queues that the linked lists     *)
(* represent.  Then type correctness and well-formed run queues; then,     *)
(* when nothing but the awaited exit wakes a task that is in waitpid(),    *)
(* the integrity of the queues; then who owns a kernel stack, which task   *)
(* runs in which address space, and whether a waitpid() can miss an exit.  *)
(***************************************************************************)
EXTENDS Scheduler, FiniteSetTheorems, WellFoundedInduction, SequenceTheorems, TLAPS

(* A non-empty set of natural numbers has a least element. *)
LEMMA MinIsLeast ==
  ASSUME NEW S, S \subseteq Nat, S # {}
  PROVE  Min(S) \in S /\ \A y \in S : Min(S) <= y
<1>1. \E x \in S : \A y \in S : ~(<<y, x>> \in OpToRel(<, Nat))
  BY NatLessThanWellFounded, WFMin
<1>2. PICK x \in S : \A y \in S : ~(<<y, x>> \in OpToRel(<, Nat))
  BY <1>1
<1>3. \A y \in S : x <= y
  <2> TAKE y \in S
  <2>1. <<y, x>> \in Nat \X Nat
    OBVIOUS
  <2>2. ~(y < x)
    BY <1>2, <2>1, ZenonT(20) DEF OpToRel
  <2> QED
    BY <2>2
<1> QED
  BY <1>3 DEF Min

(* A non-empty set of natural numbers with an upper bound has a greatest   *)
(* element: the least distance to the bound.                               *)
LEMMA MaxIsGreatest ==
  ASSUME NEW n \in Nat, NEW S, S \subseteq 0 .. n, S # {}
  PROVE  Max(S) \in S /\ \A y \in S : Max(S) >= y
<1> DEFINE D == {n - x : x \in S}
<1>1. D \subseteq Nat /\ D # {}
  <2>1. \A x \in S : n - x \in Nat
    OBVIOUS
  <2>2. PICK x \in S : TRUE
    OBVIOUS
  <2>3. n - x \in D
    BY <2>2
  <2> QED
    BY <2>1, <2>3
<1>2. PICK d \in D : \A e \in D : d <= e
  BY <1>1, MinIsLeast
<1>3. PICK x \in S : d = n - x
  BY <1>2
<1>4. \A y \in S : x >= y
  <2> TAKE y \in S
  <2>1. n - y \in D
    OBVIOUS
  <2>2. n - x <= n - y
    BY <1>2, <1>3, <2>1
  <2> QED
    BY <2>2
<1> QED
  BY <1>4 DEF Max

(* A priority is a word and a bit of it, and conversely. *)
LEMMA PrioWordBit ==
  ASSUME NEW p \in Prio
  PROVE  WordOf(p) \in Word /\ BitOf(p) \in Bit /\ p = WordOf(p) * WordBits + BitOf(p)
<1> DEFINE w == p \div WordBits
           b == p % WordBits
<1>1. WordBits \in Nat /\ WordBits > 0 /\ Words \in Nat /\ Words > 0 /\ p \in Nat
  BY RunQueueAssumption DEF Prio
<1>2. w \in Int /\ b \in 0 .. WordBits - 1 /\ p = w * WordBits + b
  BY <1>1
<1>3. p < Words * WordBits
  BY <1>1 DEF Prio
<1>4. w >= 0
  BY <1>1, <1>2
<1>5. w < Words
  <2> SUFFICES ASSUME w >= Words PROVE FALSE
    BY <1>1, <1>2
  <2>1. w * WordBits >= Words * WordBits
    BY <1>1, <1>2
  <2> QED
    BY <1>1, <1>2, <1>3, <2>1
<1> QED
  BY <1>1, <1>2, <1>4, <1>5 DEF Word, Bit, WordOf, BitOf

LEMMA WordBitPrio ==
  ASSUME NEW w \in Word, NEW b \in Bit
  PROVE  /\ w * WordBits + b \in Prio
         /\ WordOf(w * WordBits + b) = w
         /\ BitOf(w * WordBits + b) = b
<1>1. WordBits \in Nat /\ WordBits > 0 /\ Words \in Nat /\ w \in Nat /\ b \in Nat
      /\ b < WordBits /\ w <= Words - 1
  BY RunQueueAssumption DEF Word, Bit
<1>2. w * WordBits <= (Words - 1) * WordBits
  BY <1>1
<1>3. (Words - 1) * WordBits = Words * WordBits - WordBits
  BY <1>1
<1>4. w * WordBits \in Nat /\ Words * WordBits \in Nat
  BY <1>1
<1>5. w * WordBits + b \in Prio
  BY <1>1, <1>2, <1>3, <1>4 DEF Prio
<1>6. (w * WordBits + b) \div WordBits = w /\ (w * WordBits + b) % WordBits = b
  BY <1>1
<1> QED
  BY <1>5, <1>6 DEF WordOf, BitOf
-----------------------------------------------------------------------------
(* enqueue() and dequeue(), field by field.  Every later fact about them   *)
(* is derived from these lemmas.                                           *)
LEMMA EnqueueEmpty ==
  ASSUME NEW Q \in RunQueues, NEW t \in Task, NEW p \in Prio, Q.head[p] = NIL
  PROVE  LET r == enqueue(Q, t, p)
         IN  /\ r \in RunQueues
             /\ \A x \in Prio : /\ r.head[x] = IF x = p THEN t ELSE Q.head[x]
                                /\ r.tail[x] = IF x = p THEN t ELSE Q.tail[x]
             /\ \A u \in Task : r.rq_next[u] = IF u = t THEN NIL ELSE Q.rq_next[u]
             /\ \A v \in Word :
                  r.prio_bitmap[v] = IF v = WordOf(p)
                                     THEN Q.prio_bitmap[v] \cup {BitOf(p)}
                                     ELSE Q.prio_bitmap[v]
             /\ r.top_bitmap = Q.top_bitmap \cup {WordOf(p)}
<1> DEFINE w == WordOf(p)
           b == BitOf(p)
           s == [Q EXCEPT !.rq_next[t] = NIL, !.head[p] = t, !.tail[p] = t]
<1>1. w \in Word /\ b \in Bit
  BY PrioWordBit
<1>2. s \in RunQueues /\ s.head = [Q.head EXCEPT ![p] = t]
      /\ s.tail = [Q.tail EXCEPT ![p] = t] /\ s.rq_next = [Q.rq_next EXCEPT ![t] = NIL]
      /\ s.prio_bitmap = Q.prio_bitmap /\ s.top_bitmap = Q.top_bitmap
  BY DEF RunQueues
<1>3. enqueue(Q, t, p) = bm_set(s, p)
  BY DEF enqueue
<1> HIDE DEF s
<1>4. /\ bm_set(s, p) \in RunQueues
      /\ bm_set(s, p).head = s.head /\ bm_set(s, p).tail = s.tail
      /\ bm_set(s, p).rq_next = s.rq_next
      /\ bm_set(s, p).prio_bitmap = [s.prio_bitmap EXCEPT ![w] = @ \cup {b}]
      /\ bm_set(s, p).top_bitmap = s.top_bitmap \cup {w}
  BY <1>1, <1>2 DEF RunQueues, bm_set
<1>5. /\ Q.head \in [Prio -> Task \cup {NIL}] /\ Q.tail \in [Prio -> Task \cup {NIL}]
      /\ Q.rq_next \in [Task -> Task \cup {NIL}] /\ Q.prio_bitmap \in [Word -> SUBSET Bit]
  BY DEF RunQueues
<1> DEFINE r == enqueue(Q, t, p)
<1>6. /\ r \in RunQueues /\ r.head = [Q.head EXCEPT ![p] = t]
      /\ r.tail = [Q.tail EXCEPT ![p] = t] /\ r.rq_next = [Q.rq_next EXCEPT ![t] = NIL]
      /\ r.prio_bitmap = [Q.prio_bitmap EXCEPT ![w] = @ \cup {b}]
      /\ r.top_bitmap = Q.top_bitmap \cup {w}
  BY <1>2, <1>3, <1>4
<1> HIDE DEF r, w, b
<1>7. \A x \in Prio : /\ r.head[x] = IF x = p THEN t ELSE Q.head[x]
                     /\ r.tail[x] = IF x = p THEN t ELSE Q.tail[x]
  BY <1>5, <1>6
<1>8. \A u \in Task : r.rq_next[u] = IF u = t THEN NIL ELSE Q.rq_next[u]
  BY <1>5, <1>6
<1>9. \A v \in Word : r.prio_bitmap[v] = IF v = w THEN Q.prio_bitmap[v] \cup {b}
                                        ELSE Q.prio_bitmap[v]
  BY <1>5, <1>6
<1> QED
  BY <1>6, <1>7, <1>8, <1>9 DEF r, w, b

LEMMA EnqueueNonEmpty ==
  ASSUME NEW Q \in RunQueues, NEW t \in Task, NEW p \in Prio, Q.head[p] # NIL
  PROVE  LET r == enqueue(Q, t, p)
         IN  /\ r \in RunQueues
             /\ r.head = Q.head
             /\ \A x \in Prio : r.tail[x] = IF x = p THEN t ELSE Q.tail[x]
             /\ \A u \in Task : r.rq_next[u] = IF u = Q.tail[p] THEN t
                                               ELSE IF u = t THEN NIL
                                               ELSE Q.rq_next[u]
             /\ r.prio_bitmap = Q.prio_bitmap
             /\ r.top_bitmap = Q.top_bitmap
<1> DEFINE n == [Q.rq_next EXCEPT ![t] = NIL, ![Q.tail[p]] = t]
           s == [Q EXCEPT !.rq_next = n, !.tail[p] = t]
<1>1. n \in [Task -> Task \cup {NIL}]
  BY DEF RunQueues
<1>2. enqueue(Q, t, p) = s
  BY DEF enqueue
<1> HIDE DEF n
<1>3. /\ s \in RunQueues
      /\ s.head = Q.head /\ s.tail = [Q.tail EXCEPT ![p] = t] /\ s.rq_next = n
      /\ s.prio_bitmap = Q.prio_bitmap /\ s.top_bitmap = Q.top_bitmap
  BY <1>1 DEF RunQueues
<1>4. \A u \in Task : n[u] = IF u = Q.tail[p] THEN t ELSE IF u = t THEN NIL
                                ELSE Q.rq_next[u]
  BY DEF n, RunQueues
<1> HIDE DEF s
<1> QED
  BY <1>2, <1>3, <1>4 DEF RunQueues

(* The bitmap finds the highest priority whose list is not empty. *)
LEMMA HighestReady ==
  ASSUME NEW Q \in RunQueues, WellFormed(Q)
  PROVE  LET p == highest_ready_prio(Q)
         IN  \/ /\ p = -1
                /\ \A x \in Prio : Q.head[x] = NIL
             \/ /\ p \in Prio /\ Q.head[p] # NIL
                /\ \A x \in Prio : Q.head[x] # NIL => x <= p
<1>1. Q.top_bitmap \subseteq Word /\ Q.prio_bitmap \in [Word -> SUBSET Bit]
  BY DEF RunQueues
<1>2. CASE Q.top_bitmap = {}
  <2>1. \A x \in Prio : Q.head[x] = NIL
    BY <1>2, PrioWordBit DEF WellFormed
  <2> QED
    BY <1>2, <2>1 DEF highest_ready_prio
<1>3. CASE Q.top_bitmap # {}
  <2> DEFINE W == Max(Q.top_bitmap)
             B == Max(Q.prio_bitmap[W])
  <2>1. Words - 1 \in Nat /\ WordBits - 1 \in Nat
    BY RunQueueAssumption
  <2>2. W \in Q.top_bitmap /\ \A y \in Q.top_bitmap : W >= y
    BY <1>1, <1>3, <2>1, MaxIsGreatest DEF Word
  <2>3. W \in Word /\ Q.prio_bitmap[W] # {} /\ Q.prio_bitmap[W] \subseteq Bit
    BY <1>1, <2>2 DEF WellFormed
  <2>4. B \in Q.prio_bitmap[W] /\ \A y \in Q.prio_bitmap[W] : B >= y
    BY <2>1, <2>3, MaxIsGreatest DEF Bit
  <2>5. B \in Bit
    BY <2>3, <2>4
  <2> DEFINE P == W * WordBits + B
  <2>6. highest_ready_prio(Q) = P
    BY <1>3 DEF highest_ready_prio
  <2> HIDE DEF W, B
  <2>7. P \in Prio /\ WordOf(P) = W /\ BitOf(P) = B
    BY <2>3, <2>5, WordBitPrio
  <2>8. Q.head[P] # NIL
    BY <2>4, <2>7 DEF WellFormed
  <2>9. ASSUME NEW x \in Prio, Q.head[x] # NIL
        PROVE  x <= P
    <3> DEFINE v == WordOf(x)
               c == BitOf(x)
    <3>1. v \in Word /\ c \in Bit /\ x = v * WordBits + c
      BY PrioWordBit
    <3>2. c \in Q.prio_bitmap[v] /\ v \in Q.top_bitmap
      BY <2>9, <3>1 DEF WellFormed
    <3>3. W >= v
      BY <2>2, <3>2
    <3>4. WordBits \in Nat /\ W \in Nat /\ v \in Nat /\ B \in 0 .. WordBits - 1
          /\ c \in 0 .. WordBits - 1
      BY <2>3, <2>5, <3>1, RunQueueAssumption DEF Word, Bit
    <3> HIDE DEF v, c
    <3>5. CASE W = v
      BY <2>4, <3>1, <3>2, <3>4, <3>5
    <3>6. CASE W >= v + 1
      <4>1. W * WordBits >= (v + 1) * WordBits
        BY <3>4, <3>6
      <4>2. (v + 1) * WordBits = v * WordBits + WordBits
        BY <3>4
      <4>3. W * WordBits \in Nat /\ v * WordBits \in Nat
        BY <3>4
      <4> QED
        BY <3>1, <3>4, <4>1, <4>2, <4>3
    <3> QED
      BY <3>3, <3>4, <3>5, <3>6
  <2> QED
    BY <2>6, <2>7, <2>8, <2>9
<1> QED
  BY <1>2, <1>3

LEMMA DequeueFields ==
  ASSUME NEW Q \in RunQueues, WellFormed(Q), dequeued(Q) # NIL
  PROVE  LET p == highest_ready_prio(Q)
             t == dequeued(Q)
             r == dequeue(Q)
             last == Q.rq_next[t] = NIL
             w == WordOf(p)
             rest == Q.prio_bitmap[w] \ {BitOf(p)}
         IN  /\ p \in Prio /\ t \in Task /\ t = Q.head[p]
             /\ \A x \in Prio : Q.head[x] # NIL => x <= p
             /\ r \in RunQueues
             /\ r.head = [Q.head EXCEPT ![p] = Q.rq_next[t]]
             /\ r.tail = IF last THEN [Q.tail EXCEPT ![p] = NIL] ELSE Q.tail
             /\ r.rq_next = [Q.rq_next EXCEPT ![t] = NIL]
             /\ r.prio_bitmap = IF last THEN [Q.prio_bitmap EXCEPT ![w] = rest]
                                ELSE Q.prio_bitmap
             /\ r.top_bitmap = IF last /\ rest = {} THEN Q.top_bitmap \ {w}
                               ELSE Q.top_bitmap
<1> DEFINE p == highest_ready_prio(Q)
           t == dequeued(Q)
           w == WordOf(p)
           b == BitOf(p)
           s == [Q EXCEPT !.head[p] = Q.rq_next[t], !.rq_next[t] = NIL]
           z == [s EXCEPT !.tail[p] = NIL]
<1>1. p \in Prio /\ Q.head[p] # NIL /\ \A x \in Prio : Q.head[x] # NIL => x <= p
  BY HighestReady DEF dequeued
<1>2. ~(p < 0)
  BY <1>1 DEF Prio
<1>3. t = Q.head[p] /\ t \in Task
  BY <1>1, <1>2 DEF dequeued, RunQueues
<1>4. w \in Word /\ b \in Bit
  BY <1>1, PrioWordBit
<1>5. dequeue(Q) = IF s.head[p] # NIL THEN s ELSE bm_clear(z, p)
  BY <1>2, <1>3 DEF dequeue
<1> HIDE DEF p, t
<1>6. /\ s \in RunQueues
      /\ s.head = [Q.head EXCEPT ![p] = Q.rq_next[t]] /\ s.tail = Q.tail
      /\ s.rq_next = [Q.rq_next EXCEPT ![t] = NIL]
      /\ s.prio_bitmap = Q.prio_bitmap /\ s.top_bitmap = Q.top_bitmap
  BY <1>1, <1>3 DEF RunQueues
<1>7. s.head[p] = Q.rq_next[t]
  BY <1>1, <1>6 DEF RunQueues
<1> HIDE DEF s
<1>8. /\ z \in RunQueues
      /\ z.head = s.head /\ z.tail = [s.tail EXCEPT ![p] = NIL]
      /\ z.rq_next = s.rq_next
      /\ z.prio_bitmap = s.prio_bitmap /\ z.top_bitmap = s.top_bitmap
  BY <1>1, <1>6 DEF RunQueues
<1> HIDE DEF z
<1> DEFINE rest == z.prio_bitmap[w] \ {b}
           marks == IF rest = {} THEN z.top_bitmap \ {w} ELSE z.top_bitmap
<1>9. bm_clear(z, p) = [z EXCEPT !.prio_bitmap[w] = rest, !.top_bitmap = marks]
  BY <1>8 DEF bm_clear, RunQueues
<1>10. rest \in SUBSET Bit /\ marks \in SUBSET Word
  BY <1>4, <1>8 DEF RunQueues
<1> HIDE DEF rest, marks, w, b
<1> DEFINE c == [z EXCEPT !.prio_bitmap[w] = rest, !.top_bitmap = marks]
<1>11. /\ c \in RunQueues
       /\ c.head = z.head /\ c.tail = z.tail /\ c.rq_next = z.rq_next
       /\ c.prio_bitmap = [z.prio_bitmap EXCEPT ![w] = rest]
       /\ c.top_bitmap = marks
  BY <1>4, <1>8, <1>10 DEF RunQueues
<1> HIDE DEF c
<1>12. bm_clear(z, p) = c
  BY <1>9 DEF c
<1>13. /\ bm_clear(z, p) \in RunQueues
       /\ bm_clear(z, p).head = z.head /\ bm_clear(z, p).tail = z.tail
       /\ bm_clear(z, p).rq_next = z.rq_next
       /\ bm_clear(z, p).prio_bitmap = [z.prio_bitmap EXCEPT ![w] = rest]
       /\ bm_clear(z, p).top_bitmap = marks
  BY <1>11, <1>12
<1>14. CASE Q.rq_next[t] # NIL
  <2>1. dequeue(Q) = s
    BY <1>5, <1>7, <1>14
  <2> QED
    BY <1>1, <1>3, <1>6, <1>14, <2>1 DEF p, t
<1>15. CASE Q.rq_next[t] = NIL
  <2>1. dequeue(Q) = bm_clear(z, p)
    BY <1>5, <1>7, <1>15
  <2> QED
    BY <1>1, <1>3, <1>6, <1>8, <1>13, <1>15, <2>1 DEF p, t, rest, marks, w, b
<1> QED
  BY <1>14, <1>15

LEMMA DequeueNone ==
  ASSUME NEW Q \in RunQueues, WellFormed(Q), dequeued(Q) = NIL
  PROVE  dequeue(Q) = Q /\ \A x \in Prio : Q.head[x] = NIL
<1>1. highest_ready_prio(Q) = -1 /\ \A x \in Prio : Q.head[x] = NIL
  BY HighestReady DEF dequeued, Prio
<1> QED
  BY <1>1 DEF dequeue
-----------------------------------------------------------------------------
(* Well-formedness is kept by enqueue() even when the task is in a queue   *)
(* already, and by dequeue(): what a double enqueue damages is the chain,  *)
(* never the bitmaps.                                                      *)
LEMMA EnqueueWellFormed ==
  ASSUME NEW Q \in RunQueues, WellFormed(Q), NEW t \in Task, NEW p \in Prio
  PROVE  enqueue(Q, t, p) \in RunQueues /\ WellFormed(enqueue(Q, t, p))
<1> DEFINE r == enqueue(Q, t, p)
           w == WordOf(p)
           b == BitOf(p)
<1>1. w \in Word /\ b \in Bit
  BY PrioWordBit
<1>2. t # NIL
  BY RunQueueAssumption
<1>3. /\ Q.head \in [Prio -> Task \cup {NIL}] /\ Q.tail \in [Prio -> Task \cup {NIL}]
      /\ Q.prio_bitmap \in [Word -> SUBSET Bit]
  BY DEF RunQueues
<1>4. CASE Q.head[p] # NIL
  <2>1. /\ r \in RunQueues /\ r.head = Q.head
        /\ \A x \in Prio : r.tail[x] = IF x = p THEN t ELSE Q.tail[x]
        /\ r.prio_bitmap = Q.prio_bitmap /\ r.top_bitmap = Q.top_bitmap
    BY <1>4, EnqueueNonEmpty
  <2> HIDE DEF r
  <2>2. \A x \in Prio : r.head[x] = NIL <=> r.tail[x] = NIL
    BY <1>2, <1>3, <1>4, <2>1 DEF WellFormed
  <2> QED
    BY <2>1, <2>2 DEF WellFormed, r
<1>5. CASE Q.head[p] = NIL
  <2>1. /\ r \in RunQueues
        /\ \A x \in Prio : /\ r.head[x] = IF x = p THEN t ELSE Q.head[x]
                           /\ r.tail[x] = IF x = p THEN t ELSE Q.tail[x]
        /\ \A v \in Word : r.prio_bitmap[v] = IF v = w THEN Q.prio_bitmap[v] \cup {b}
                                              ELSE Q.prio_bitmap[v]
        /\ r.top_bitmap = Q.top_bitmap \cup {w}
    BY <1>5, EnqueueEmpty
  <2> HIDE DEF r
  <2>2. ASSUME NEW v \in Word
        PROVE  v \in r.top_bitmap <=> r.prio_bitmap[v] # {}
    BY <1>1, <1>3, <2>1 DEF WellFormed
  <2>3. ASSUME NEW x \in Prio
        PROVE  BitOf(x) \in r.prio_bitmap[WordOf(x)] <=> r.head[x] # NIL
    <3>1. /\ WordOf(x) \in Word /\ BitOf(x) \in Bit
          /\ x = WordOf(x) * WordBits + BitOf(x)
      BY PrioWordBit
    <3>2. p = w * WordBits + b
      BY PrioWordBit
    <3>3. BitOf(x) \in Q.prio_bitmap[WordOf(x)] <=> Q.head[x] # NIL
      BY DEF WellFormed
    <3>4. CASE x = p
      BY <1>1, <1>2, <1>3, <2>1, <3>3, <3>4
    <3>5. CASE x # p
      <4>1. r.head[x] = Q.head[x]
        BY <1>3, <2>1, <3>5
      <4>2. WordOf(x) # w \/ BitOf(x) # b
        BY <3>1, <3>2, <3>5
      <4> HIDE DEF w, b
      <4>3. BitOf(x) \in r.prio_bitmap[WordOf(x)]
              <=> BitOf(x) \in Q.prio_bitmap[WordOf(x)]
        BY <1>1, <1>3, <2>1, <3>1, <4>2
      <4> QED
        BY <3>3, <4>1, <4>3
    <3> QED
      BY <3>4, <3>5
  <2>4. ASSUME NEW x \in Prio
        PROVE  r.head[x] = NIL <=> r.tail[x] = NIL
    BY <1>2, <1>3, <2>1 DEF WellFormed
  <2> QED
    BY <2>1, <2>2, <2>3, <2>4 DEF WellFormed, r
<1> QED
  BY <1>4, <1>5

LEMMA DequeueWellFormed ==
  ASSUME NEW Q \in RunQueues, WellFormed(Q)
  PROVE  dequeue(Q) \in RunQueues /\ WellFormed(dequeue(Q))
<1>1. CASE dequeued(Q) = NIL
  BY <1>1, DequeueNone
<1>2. CASE dequeued(Q) # NIL
  <2> DEFINE r == dequeue(Q)
             p == highest_ready_prio(Q)
             t == dequeued(Q)
             last == Q.rq_next[t] = NIL
             w == WordOf(p)
             b == BitOf(p)
             rest == Q.prio_bitmap[w] \ {b}
  <2>1. /\ p \in Prio /\ t \in Task /\ t = Q.head[p] /\ r \in RunQueues
        /\ r.head = [Q.head EXCEPT ![p] = Q.rq_next[t]]
        /\ r.tail = IF last THEN [Q.tail EXCEPT ![p] = NIL] ELSE Q.tail
        /\ r.prio_bitmap = IF last THEN [Q.prio_bitmap EXCEPT ![w] = rest]
                           ELSE Q.prio_bitmap
        /\ r.top_bitmap = IF last /\ rest = {} THEN Q.top_bitmap \ {w} ELSE Q.top_bitmap
    BY <1>2, DequeueFields
  <2>2. w \in Word /\ b \in Bit /\ p = w * WordBits + b
    BY <2>1, PrioWordBit
  <2>3. /\ Q.head \in [Prio -> Task \cup {NIL}] /\ Q.tail \in [Prio -> Task \cup {NIL}]
        /\ Q.prio_bitmap \in [Word -> SUBSET Bit] /\ Q.rq_next \in [Task -> Task \cup {NIL}]
    BY DEF RunQueues
  <2>4. Q.head[p] # NIL
    BY <1>2, <2>1
  <2> HIDE DEF r, p, t
  <2>5. b \in Q.prio_bitmap[w] /\ w \in Q.top_bitmap
    BY <2>1, <2>2, <2>4 DEF WellFormed
  <2>6. ASSUME NEW v \in Word
        PROVE  v \in r.top_bitmap <=> r.prio_bitmap[v] # {}
    <3> HIDE DEF w, b
    <3>1. CASE ~last
      BY <2>1, <2>5, <3>1 DEF WellFormed
    <3>2. CASE last /\ v = w
      BY <2>1, <2>2, <2>3, <2>5, <3>2 DEF WellFormed
    <3>3. CASE last /\ v # w
      BY <2>1, <2>2, <2>3, <2>5, <3>3 DEF WellFormed
    <3> QED
      BY <3>1, <3>2, <3>3
  <2>7. ASSUME NEW x \in Prio
        PROVE  BitOf(x) \in r.prio_bitmap[WordOf(x)] <=> r.head[x] # NIL
    <3>1. /\ WordOf(x) \in Word /\ BitOf(x) \in Bit
          /\ x = WordOf(x) * WordBits + BitOf(x)
      BY PrioWordBit
    <3>2. BitOf(x) \in Q.prio_bitmap[WordOf(x)] <=> Q.head[x] # NIL
      BY DEF WellFormed
    <3>3. CASE x = p
      BY <2>1, <2>2, <2>3, <2>4, <2>5, <3>2, <3>3
    <3>4. CASE x # p
      <4>1. r.head[x] = Q.head[x]
        BY <2>1, <2>3, <3>4
      <4>2. WordOf(x) # w \/ BitOf(x) # b
        BY <2>2, <3>1, <3>4
      <4> HIDE DEF w, b
      <4>3. BitOf(x) \in r.prio_bitmap[WordOf(x)]
              <=> BitOf(x) \in Q.prio_bitmap[WordOf(x)]
        BY <2>1, <2>2, <2>3, <3>1, <4>2
      <4> QED
        BY <3>2, <4>1, <4>3
    <3> QED
      BY <3>3, <3>4
  <2>8. ASSUME NEW x \in Prio
        PROVE  r.head[x] = NIL <=> r.tail[x] = NIL
    BY <2>1, <2>3, <2>4 DEF WellFormed
  <2> QED
    BY <2>1, <2>6, <2>7, <2>8 DEF WellFormed, r
<1> QED
  BY <1>1, <1>2
-----------------------------------------------------------------------------
(* Task t is in none of the queues f of P. *)
Absent(t, f, P) == \A x \in P : \A i \in 1 .. Len(f[x]) : f[x][i] # t

(* enqueue() of a task that is in no queue appends it to its FIFO. *)
LEMMA EnqueueRepresents ==
  ASSUME NEW Q \in RunQueues, NEW f \in [Prio -> Seq(Task)], NEW P, P \subseteq Prio,
         Represents(Q, f, P), NEW t \in Task, NEW p \in P, Absent(t, f, P)
  PROVE  Represents(enqueue(Q, t, p), [f EXCEPT ![p] = Append(@, t)], P)
<1> DEFINE r == enqueue(Q, t, p)
           g == [f EXCEPT ![p] = Append(@, t)]
           n == Len(f[p])
<1>1. \A x \in P : x \in Prio /\ f[x] \in Seq(Task) /\ Len(f[x]) \in Nat
  OBVIOUS
<1>2. /\ g[p] = Append(f[p], t) /\ Len(g[p]) = n + 1
      /\ \A i \in 1 .. n : g[p][i] = f[p][i]
      /\ g[p][n + 1] = t /\ g[p] # <<>>
  BY <1>1, AppendProperties
<1>3. \A x \in P : x # p => g[x] = f[x]
  BY <1>1
<1>4. t # NIL
  BY RunQueueAssumption
<1> HIDE DEF g
<1>5. Disjoint(g, P)
  <2> SUFFICES ASSUME NEW p1 \in P, NEW p2 \in P,
                      NEW i \in 1 .. Len(g[p1]), NEW j \in 1 .. Len(g[p2]),
                      g[p1][i] = g[p2][j]
               PROVE  p1 = p2 /\ i = j
    BY DEF Disjoint
  <2>1. ASSUME NEW x \in P, NEW k \in 1 .. Len(g[x])
        PROVE  \/ k \in 1 .. Len(f[x]) /\ g[x][k] = f[x][k]
               \/ x = p /\ k = n + 1 /\ g[x][k] = t
    <3>1. CASE x = p
      <4>1. k \in 1 .. n \/ k = n + 1
        BY <1>1, <1>2, <3>1
      <4> QED
        BY <1>2, <3>1, <4>1
    <3>2. CASE x # p
      BY <1>3, <3>2
    <3> QED
      BY <3>1, <3>2
  <2>2. CASE i \in 1 .. Len(f[p1]) /\ g[p1][i] = f[p1][i]
    <3>1. CASE j \in 1 .. Len(f[p2]) /\ g[p2][j] = f[p2][j]
      <4>1. f[p1][i] = f[p2][j]
        BY <2>2, <3>1
      <4>2. Disjoint(f, P)
        BY DEF Represents
      <4> QED
        BY <2>2, <3>1, <4>1, <4>2 DEF Disjoint
    <3>2. CASE p2 = p /\ j = n + 1 /\ g[p2][j] = t
      BY <2>2, <3>2 DEF Absent
    <3> QED
      BY <2>1, <3>1, <3>2
  <2>3. CASE p1 = p /\ i = n + 1 /\ g[p1][i] = t
    <3>1. CASE j \in 1 .. Len(f[p2]) /\ g[p2][j] = f[p2][j]
      BY <2>3, <3>1 DEF Absent
    <3>2. CASE p2 = p /\ j = n + 1 /\ g[p2][j] = t
      BY <2>3, <3>2
    <3> QED
      BY <2>1, <3>1, <3>2
  <2> QED
    BY <2>1, <2>2, <2>3
<1>6. CASE f[p] = <<>>
  <2>1. Q.head[p] = NIL /\ n = 0
    BY <1>6 DEF Represents, Linked
  <2>2. /\ \A x \in Prio : /\ r.head[x] = IF x = p THEN t ELSE Q.head[x]
                           /\ r.tail[x] = IF x = p THEN t ELSE Q.tail[x]
        /\ \A u \in Task : r.rq_next[u] = IF u = t THEN NIL ELSE Q.rq_next[u]
    BY <1>1, <2>1, EnqueueEmpty
  <2> HIDE DEF r
  <2>3. Linked(r, g[p], p)
    BY <1>1, <1>2, <2>1, <2>2 DEF Linked
  <2>4. ASSUME NEW x \in P, x # p PROVE Linked(r, f[x], x)
    <3>1. r.head[x] = Q.head[x] /\ r.tail[x] = Q.tail[x]
      BY <1>1, <2>2, <2>4
    <3>2. \A i \in 1 .. Len(f[x]) : r.rq_next[f[x][i]] = Q.rq_next[f[x][i]]
      BY <1>1, <2>2 DEF Absent
    <3>3. f[x] # <<>> => Len(f[x]) \in 1 .. Len(f[x])
      BY <1>1
    <3>4. Linked(Q, f[x], x)
      BY DEF Represents
    <3> QED
      BY <1>1, <3>1, <3>2, <3>3, <3>4 DEF Linked
  <2> QED
    BY <1>3, <1>5, <2>3, <2>4 DEF Represents, r, g
<1>7. CASE f[p] # <<>>
  <2>1. /\ Q.head[p] = f[p][1] /\ Q.tail[p] = f[p][n]
        /\ \A i \in 1 .. n - 1 : Q.rq_next[f[p][i]] = f[p][i + 1]
    BY <1>7 DEF Represents, Linked
  <2>2. n >= 1 /\ n \in Nat /\ f[p][1] \in Task /\ f[p][n] \in Task
        /\ \A i \in 1 .. n : f[p][i] \in Task
    BY <1>1, <1>7
  <2>3. Q.head[p] # NIL
    BY <2>1, <2>2, RunQueueAssumption
  <2>4. /\ r.head = Q.head
        /\ \A x \in Prio : r.tail[x] = IF x = p THEN t ELSE Q.tail[x]
        /\ \A u \in Task : r.rq_next[u] = IF u = Q.tail[p] THEN t
                                          ELSE IF u = t THEN NIL ELSE Q.rq_next[u]
    BY <1>1, <2>3, EnqueueNonEmpty
  <2> HIDE DEF r
  <2>5. r.head[p] = g[p][1] /\ r.tail[p] = g[p][n + 1]
    BY <1>1, <1>2, <2>1, <2>2, <2>4
  <2>6. r.rq_next[t] = NIL
    BY <2>1, <2>2, <2>4 DEF Absent
  <2>7. ASSUME NEW i \in 1 .. n PROVE r.rq_next[g[p][i]] = g[p][i + 1]
    <3>1. CASE i = n
      BY <1>2, <2>1, <2>2, <2>4, <3>1
    <3>2. CASE i # n
      <4>1. i \in 1 .. n - 1 /\ n \in 1 .. n /\ i + 1 \in 1 .. n
        BY <2>2, <3>2
      <4>2. f[p][i] # f[p][n] /\ f[p][i] # t
        BY <3>2, <4>1 DEF Represents, Disjoint, Absent
      <4>3. r.rq_next[f[p][i]] = Q.rq_next[f[p][i]]
        BY <2>1, <2>2, <2>4, <4>2
      <4> QED
        BY <1>2, <2>1, <4>1, <4>3
    <3> QED
      BY <3>1, <3>2
  <2>8. Linked(r, g[p], p)
    BY <1>2, <2>2, <2>5, <2>6, <2>7 DEF Linked
  <2>9. ASSUME NEW x \in P, x # p PROVE Linked(r, f[x], x)
    <3>1. r.head[x] = Q.head[x] /\ r.tail[x] = Q.tail[x]
      BY <1>1, <2>4, <2>9
    <3>2. ASSUME NEW i \in 1 .. Len(f[x])
          PROVE  r.rq_next[f[x][i]] = Q.rq_next[f[x][i]]
      <4>1. f[x][i] \in Task /\ n \in 1 .. Len(f[p])
        BY <1>1, <2>2
      <4>2. f[x][i] # f[p][n] /\ f[x][i] # t
        BY <2>9, <4>1 DEF Represents, Disjoint, Absent
      <4> QED
        BY <2>1, <2>4, <4>1, <4>2
    <3>3. f[x] # <<>> => Len(f[x]) \in 1 .. Len(f[x])
      BY <1>1
    <3>4. Linked(Q, f[x], x)
      BY DEF Represents
    <3> QED
      BY <1>1, <3>1, <3>2, <3>3, <3>4 DEF Linked
  <2> QED
    BY <1>3, <1>5, <2>8, <2>9 DEF Represents, r, g
<1> QED
  BY <1>6, <1>7

(* enqueue() at a priority outside P, of a task that is in no queue of P   *)
(* and is the only one its own queue holds, disturbs no queue of P.        *)
LEMMA EnqueueOutside ==
  ASSUME NEW Q \in RunQueues, NEW f \in [Prio -> Seq(Task)], NEW P, P \subseteq Prio,
         Represents(Q, f, P), NEW t \in Task, NEW p \in Prio \ P, Absent(t, f, P),
         Q.head[p] = NIL \/ Q.tail[p] = t
  PROVE  Represents(enqueue(Q, t, p), f, P)
<1> DEFINE r == enqueue(Q, t, p)
<1>1. \A x \in P : x \in Prio /\ x # p /\ f[x] \in Seq(Task) /\ Len(f[x]) \in Nat
  OBVIOUS
<1>2. /\ \A x \in P : r.head[x] = Q.head[x] /\ r.tail[x] = Q.tail[x]
      /\ \A u \in Task : u # t => r.rq_next[u] = Q.rq_next[u]
  <2>1. CASE Q.head[p] = NIL
    BY <1>1, <2>1, EnqueueEmpty
  <2>2. CASE Q.head[p] # NIL
    BY <1>1, <2>2, EnqueueNonEmpty
  <2> QED
    BY <2>1, <2>2
<1> HIDE DEF r
<1>3. ASSUME NEW x \in P PROVE Linked(r, f[x], x)
  <2>1. \A i \in 1 .. Len(f[x]) : r.rq_next[f[x][i]] = Q.rq_next[f[x][i]]
    BY <1>1, <1>2 DEF Absent
  <2>2. f[x] # <<>> => Len(f[x]) \in 1 .. Len(f[x])
    BY <1>1
  <2>3. Linked(Q, f[x], x)
    BY DEF Represents
  <2> QED
    BY <1>1, <1>2, <2>1, <2>2, <2>3 DEF Linked
<1> QED
  BY <1>3 DEF Represents, r

(* dequeue() takes the first task of the highest non-empty FIFO. *)
LEMMA DequeueRepresents ==
  ASSUME NEW Q \in RunQueues, WellFormed(Q), NEW f \in [Prio -> Seq(Task)],
         NEW P, P \subseteq Prio, Represents(Q, f, P),
         dequeued(Q) # NIL, highest_ready_prio(Q) \in P
  PROVE  LET p == highest_ready_prio(Q)
         IN  /\ f[p] # <<>> /\ dequeued(Q) = f[p][1]
             /\ Represents(dequeue(Q), [f EXCEPT ![p] = Tail(@)], P)
<1> DEFINE p == highest_ready_prio(Q)
           t == dequeued(Q)
           r == dequeue(Q)
           g == [f EXCEPT ![p] = Tail(@)]
           n == Len(f[p])
<1>1. \A x \in P : x \in Prio /\ f[x] \in Seq(Task) /\ Len(f[x]) \in Nat
  OBVIOUS
<1>2. /\ p \in Prio /\ t \in Task /\ t = Q.head[p]
      /\ r.head = [Q.head EXCEPT ![p] = Q.rq_next[t]]
      /\ r.tail = IF Q.rq_next[t] = NIL THEN [Q.tail EXCEPT ![p] = NIL] ELSE Q.tail
      /\ r.rq_next = [Q.rq_next EXCEPT ![t] = NIL]
  BY DequeueFields
<1>3. /\ Q.head \in [Prio -> Task \cup {NIL}] /\ Q.tail \in [Prio -> Task \cup {NIL}]
      /\ Q.rq_next \in [Task -> Task \cup {NIL}]
  BY DEF RunQueues
<1>4. /\ \A x \in Prio : x # p => r.head[x] = Q.head[x] /\ r.tail[x] = Q.tail[x]
      /\ \A u \in Task : u # t => r.rq_next[u] = Q.rq_next[u]
      /\ r.head[p] = Q.rq_next[t]
      /\ r.tail[p] = IF Q.rq_next[t] = NIL THEN NIL ELSE Q.tail[p]
  BY <1>2, <1>3
<1> HIDE DEF r
<1>5. Linked(Q, f[p], p)
  BY DEF Represents
<1>6. f[p] # <<>> /\ t = f[p][1]
  BY <1>2, <1>5 DEF Linked
<1>7. n \in Nat /\ n >= 1 /\ \A i \in 1 .. n : f[p][i] \in Task
  BY <1>1, <1>6
<1>8. /\ g[p] \in Seq(Task) /\ Len(g[p]) = n - 1
      /\ \A i \in 1 .. n - 1 : g[p][i] = f[p][i + 1]
  <2>1. g[p] = Tail(f[p])
    BY <1>2
  <2> QED
    BY <1>1, <1>6, <2>1, HeadTailProperties
<1>9. \A x \in P : x # p => g[x] = f[x]
  BY <1>1
<1> HIDE DEF g, p, t, n
<1>10. Q.tail[p] = f[p][n] /\ Q.rq_next[f[p][n]] = NIL
       /\ \A i \in 1 .. n - 1 : Q.rq_next[f[p][i]] = f[p][i + 1]
  BY <1>5, <1>6 DEF Linked, n
<1>11. p \in P
  BY DEF p
<1>12. Linked(r, g[p], p)
  <2>1. CASE n = 1
    <3>1. g[p] = <<>>
      BY <1>8, <2>1
    <3>2. Q.rq_next[t] = NIL
      BY <1>6, <1>10, <2>1
    <3> QED
      BY <1>4, <3>1, <3>2 DEF Linked
  <2>2. CASE n > 1
    <3>1. g[p] # <<>> /\ Len(g[p]) = n - 1 /\ g[p][1] = f[p][2] /\ g[p][n - 1] = f[p][n]
      <4>1. 1 \in 1 .. n - 1 /\ n - 1 \in 1 .. n - 1 /\ n - 1 + 1 = n /\ n - 1 > 0
        BY <1>7, <2>2
      <4>2. g[p][1] = f[p][2] /\ g[p][n - 1] = f[p][n]
        BY <1>8, <4>1
      <4>3. g[p] # <<>> /\ Len(g[p]) = n - 1
        BY <1>8, <4>1
      <4> QED
        BY <4>2, <4>3
    <3>2. Q.rq_next[t] = f[p][2] /\ f[p][2] \in Task
      BY <1>6, <1>7, <1>10, <2>2
    <3>3. r.head[p] = g[p][1] /\ r.tail[p] = g[p][n - 1]
      BY <1>4, <1>10, <3>1, <3>2, RunQueueAssumption
    <3>4. ASSUME NEW i \in 2 .. n PROVE r.rq_next[f[p][i]] = Q.rq_next[f[p][i]]
      <4>1. f[p][i] # f[p][1]
        BY <1>7, <1>11, <3>4 DEF Represents, Disjoint, n
      <4> QED
        BY <1>4, <1>6, <1>7, <4>1
    <3>5. r.rq_next[g[p][n - 1]] = NIL
      BY <1>7, <1>10, <2>2, <3>1, <3>4
    <3>6. ASSUME NEW i \in 1 .. n - 2 PROVE r.rq_next[g[p][i]] = g[p][i + 1]
      <4>1. i \in 1 .. n - 1 /\ i + 1 \in 1 .. n - 1 /\ i + 1 \in 2 .. n
        BY <1>7
      <4>2. g[p][i] = f[p][i + 1] /\ g[p][i + 1] = f[p][i + 1 + 1]
        BY <1>8, <4>1
      <4> QED
        BY <1>10, <3>4, <4>1, <4>2
    <3>7. 1 .. Len(g[p]) - 1 = 1 .. n - 2
      BY <1>7, <3>1
    <3> QED
      BY <3>1, <3>3, <3>5, <3>6, <3>7 DEF Linked
  <2> QED
    BY <1>7, <2>1, <2>2
<1>13. ASSUME NEW x \in P, x # p PROVE Linked(r, f[x], x)
  <2>1. ASSUME NEW i \in 1 .. Len(f[x])
        PROVE  r.rq_next[f[x][i]] = Q.rq_next[f[x][i]]
    <3>1. f[x][i] \in Task /\ 1 \in 1 .. Len(f[p])
      BY <1>1, <1>7 DEF n
    <3>2. f[x][i] # f[p][1]
      BY <1>11, <1>13, <3>1 DEF Represents, Disjoint
    <3> QED
      BY <1>4, <1>6, <3>1, <3>2
  <2>2. f[x] # <<>> => Len(f[x]) \in 1 .. Len(f[x])
    BY <1>1
  <2>3. Linked(Q, f[x], x)
    BY DEF Represents
  <2> QED
    BY <1>1, <1>4, <1>13, <2>1, <2>2, <2>3 DEF Linked
<1>14. Disjoint(g, P)
  <2> SUFFICES ASSUME NEW p1 \in P, NEW p2 \in P,
                      NEW i \in 1 .. Len(g[p1]), NEW j \in 1 .. Len(g[p2]),
                      g[p1][i] = g[p2][j]
               PROVE  p1 = p2 /\ i = j
    BY DEF Disjoint
  <2>1. ASSUME NEW x \in P, NEW k \in 1 .. Len(g[x])
        PROVE  LET m == IF x = p THEN k + 1 ELSE k
               IN  m \in 1 .. Len(f[x]) /\ g[x][k] = f[x][m]
    <3>1. CASE x = p
      <4>1. k \in 1 .. n - 1 /\ k + 1 \in 1 .. n
        BY <1>7, <1>8, <3>1
      <4> QED
        BY <1>8, <3>1, <4>1 DEF n
    <3>2. CASE x # p
      BY <1>9, <3>2
    <3> QED
      BY <3>1, <3>2
  <2> DEFINE ii == IF p1 = p THEN i + 1 ELSE i
             jj == IF p2 = p THEN j + 1 ELSE j
  <2>2. ii \in 1 .. Len(f[p1]) /\ jj \in 1 .. Len(f[p2]) /\ f[p1][ii] = f[p2][jj]
    BY <2>1
  <2>3. p1 = p2 /\ ii = jj
    <3> HIDE DEF ii, jj
    <3> QED
      BY <2>2 DEF Represents, Disjoint
  <2>4. i \in Int /\ j \in Int
    OBVIOUS
  <2> QED
    BY <2>3, <2>4
<1> QED
  BY <1>6, <1>9, <1>12, <1>13, <1>14 DEF Represents, r, g, p, t

(* dequeue() at a priority outside P of a task in no queue of P disturbs   *)
(* no queue of P.                                                          *)
LEMMA DequeueOutside ==
  ASSUME NEW Q \in RunQueues, WellFormed(Q), NEW f \in [Prio -> Seq(Task)],
         NEW P, P \subseteq Prio, Represents(Q, f, P),
         dequeued(Q) # NIL, highest_ready_prio(Q) \notin P, Absent(dequeued(Q), f, P)
  PROVE  Represents(dequeue(Q), f, P)
<1> DEFINE p == highest_ready_prio(Q)
           t == dequeued(Q)
           r == dequeue(Q)
<1>1. \A x \in P : x \in Prio /\ x # p /\ f[x] \in Seq(Task) /\ Len(f[x]) \in Nat
  OBVIOUS
<1>2. /\ p \in Prio /\ t \in Task
      /\ r.head = [Q.head EXCEPT ![p] = Q.rq_next[t]]
      /\ r.tail = IF Q.rq_next[t] = NIL THEN [Q.tail EXCEPT ![p] = NIL] ELSE Q.tail
      /\ r.rq_next = [Q.rq_next EXCEPT ![t] = NIL]
  BY DequeueFields
<1>3. /\ Q.head \in [Prio -> Task \cup {NIL}] /\ Q.tail \in [Prio -> Task \cup {NIL}]
      /\ Q.rq_next \in [Task -> Task \cup {NIL}]
  BY DEF RunQueues
<1> HIDE DEF r, p
<1>4. /\ \A x \in P : r.head[x] = Q.head[x] /\ r.tail[x] = Q.tail[x]
      /\ \A u \in Task : u # t => r.rq_next[u] = Q.rq_next[u]
  BY <1>1, <1>2, <1>3
<1>5. ASSUME NEW x \in P PROVE Linked(r, f[x], x)
  <2>1. \A i \in 1 .. Len(f[x]) : r.rq_next[f[x][i]] = Q.rq_next[f[x][i]]
    BY <1>1, <1>4 DEF Absent
  <2>2. f[x] # <<>> => Len(f[x]) \in 1 .. Len(f[x])
    BY <1>1
  <2>3. Linked(Q, f[x], x)
    BY DEF Represents
  <2> QED
    BY <1>1, <1>4, <2>1, <2>2, <2>3 DEF Linked
<1> QED
  BY <1>5 DEF Represents, r
-----------------------------------------------------------------------------
(* The types of the scheduler's state.                                     *)

LEMMA Numbers ==
  /\ Task \subseteq Nat /\ Boot \subseteq Task /\ NIL \notin Task
  /\ TopPrio \in Nat /\ TopPrio > 0 /\ Prio = 0 .. TopPrio
  /\ WorkerPrio \in Prio /\ {0, TopPrio - 1, TopPrio} \subseteq Prio
  /\ BOOT \in Task /\ INIT \in Task /\ IDLE \in Task /\ VBE \in Task /\ WORKER \in Task
<1>1. Words * WordBits \in Int
  BY RunQueueAssumption
<1>2. TopPrio \in Int /\ Prio = 0 .. TopPrio
  BY <1>1 DEF TopPrio, Prio
<1>3. Task = 0 .. MaxPid /\ MaxPid \in Nat /\ Boot \subseteq Task
      /\ TopPrio > 0 /\ WorkerPrio \in 0 .. TopPrio - 1
  BY SchedulerAssumption
<1> QED
  BY <1>2, <1>3, RunQueueAssumption DEF Boot

LEMMA NewTaskType ==
  ASSUME NEW p \in Prio, NEW s \in Stack \cup {NIL}
  PROVE  NewTask(p, s) \in PCB /\ Unused \in PCB
<1>1. QuantaPunish \in Nat /\ ResetDecay - 1 \in Nat /\ MaxAlarm \in Nat
  BY SchedulerAssumption
<1>2. 0 \in 0 .. QuantaPunish /\ 0 \in 0 .. ResetDecay - 1 /\ 0 \in 0 .. MaxAlarm /\ 0 \in Prio
  BY <1>1, Numbers
<1> QED
  BY <1>2 DEF NewTask, Unused, PCB, State

(* The updates of single fields keep the type of a PCB. *)
LEMMA PCBUpdates ==
  ASSUME NEW r \in PCB
  PROVE  /\ \A s \in State : [r EXCEPT !.state = s] \in PCB
         /\ \A t \in Task \cup {NIL} : [r EXCEPT !.waiting_on = t] \in PCB
         /\ \A S \in SUBSET Signals : /\ [r EXCEPT !.signal_handlers = S] \in PCB
                                      /\ [r EXCEPT !.signal_bitmask = S] \in PCB
         /\ \A b \in BOOLEAN : [r EXCEPT !.in_signal_handler = b] \in PCB
         /\ \A n \in 0 .. MaxAlarm : [r EXCEPT !.alarm_ticks = n] \in PCB
         /\ \A k \in Stack \cup {NIL} : [r EXCEPT !.kstack = k] \in PCB
<1>1. ASSUME NEW s \in State PROVE [r EXCEPT !.state = s] \in PCB
  BY DEF PCB
<1>2. ASSUME NEW t \in Task \cup {NIL} PROVE [r EXCEPT !.waiting_on = t] \in PCB
  BY DEF PCB
<1>3. ASSUME NEW S \in SUBSET Signals
      PROVE  [r EXCEPT !.signal_handlers = S] \in PCB /\ [r EXCEPT !.signal_bitmask = S] \in PCB
  BY DEF PCB
<1>4. ASSUME NEW b \in BOOLEAN PROVE [r EXCEPT !.in_signal_handler = b] \in PCB
  BY DEF PCB
<1>5. ASSUME NEW n \in 0 .. MaxAlarm PROVE [r EXCEPT !.alarm_ticks = n] \in PCB
  BY DEF PCB
<1>6. ASSUME NEW k \in Stack \cup {NIL} PROVE [r EXCEPT !.kstack = k] \in PCB
  BY DEF PCB
<1> QED
  BY <1>1, <1>2, <1>3, <1>4, <1>5, <1>6

LEMMA ForkedType ==
  ASSUME NEW r \in PCB, NEW k \in Stack \cup {NIL}
  PROVE  [r EXCEPT !.state = "READY", !.kstack = k, !.signal_bitmask = {},
                   !.signal_handlers = {}, !.alarm_ticks = 0] \in PCB
<1>1. 0 \in 0 .. MaxAlarm
  BY SchedulerAssumption
<1> QED
  BY <1>1 DEF PCB, State

LEMMA WaitingType ==
  ASSUME NEW r \in PCB, NEW t \in Task \cup {NIL}, NEW s \in State
  PROVE  [r EXCEPT !.waiting_on = t, !.state = s] \in PCB
BY DEF PCB

LEMMA TakenType ==
  ASSUME pcb \in [Task -> PCB], NEW t \in Task
  PROVE  Taken(t) \in PCB
<1> DEFINE pending == pcb[t].signal_bitmask \ {Min(pcb[t].signal_bitmask)}
           caught  == Min(pcb[t].signal_bitmask) \in pcb[t].signal_handlers
<1>1. pcb[t] \in PCB /\ pending \in SUBSET Signals /\ caught \in BOOLEAN
  BY DEF PCB
<1>2. Taken(t) = [pcb[t] EXCEPT !.signal_bitmask = pending, !.in_signal_handler = caught]
  BY <1>1 DEF Taken, PCB
<1> HIDE DEF pending, caught
<1> QED
  BY <1>1, <1>2 DEF PCB

LEMMA DecayedType ==
  ASSUME NEW r \in PCB
  PROVE  Decayed(r) \in PCB
<1>1. /\ r.priority \in Prio /\ r.original_priority \in Prio
      /\ r.quanta_used \in 0 .. QuantaPunish /\ r.reset_count \in 0 .. ResetDecay - 1
  BY DEF PCB
<1>2. QuantaPunish \in Nat \ {0} /\ ResetDecay \in Nat \ {0} /\ DecayRate \in Nat \ {0}
  BY SchedulerAssumption
<1> DEFINE used == IF r.quanta_used < QuantaPunish THEN r.quanta_used + 1 ELSE QuantaPunish
           hit  == r.reset_count + 1 >= ResetDecay
           orig == IF hit /\ r.original_priority > 0 THEN r.original_priority - 1
                                                     ELSE r.original_priority
           count == IF hit THEN 0 ELSE r.reset_count + 1
           low  == IF r.priority > DecayRate THEN r.priority - DecayRate ELSE 0
<1>3. used \in 0 .. QuantaPunish
  BY <1>1, <1>2
<1>4. orig \in Prio
  BY <1>1, Numbers
<1>5. count \in 0 .. ResetDecay - 1
  BY <1>1, <1>2
<1>6. low \in Prio /\ 0 \in 0 .. QuantaPunish
  BY <1>1, <1>2, Numbers
<1>7. Decayed(r) = IF used < QuantaPunish THEN [r EXCEPT !.quanta_used = used]
                   ELSE IF r.priority = 0
                   THEN [r EXCEPT !.quanta_used = used, !.priority = orig,
                                  !.original_priority = orig, !.reset_count = count]
                   ELSE [r EXCEPT !.quanta_used = 0, !.priority = low]
  BY DEF Decayed, PCB
<1> HIDE DEF used, orig, count, low
<1>8. [r EXCEPT !.quanta_used = used] \in PCB
  BY <1>3 DEF PCB
<1>9. [r EXCEPT !.quanta_used = used, !.priority = orig,
                !.original_priority = orig, !.reset_count = count] \in PCB
  BY <1>3, <1>4, <1>5 DEF PCB
<1>10. [r EXCEPT !.quanta_used = 0, !.priority = low] \in PCB
  BY <1>6 DEF PCB
<1> QED
  BY <1>7, <1>8, <1>9, <1>10
-----------------------------------------------------------------------------
(* The inductive invariant of the first theorem: dequeue() returns a task  *)
(* and leaves a run queue only if the bitmaps are exact.                   *)
TInv == TypeOK /\ QueueWellFormed

QueuesOK ==
  q \in RunQueues /\ WellFormed(q) /\ fifo \in [Prio -> Seq(Task)]

LEMMA PutType ==
  ASSUME NEW f \in [Prio -> Seq(Task)], NEW p \in Prio, NEW t \in Task
  PROVE  Put(f, p, t) \in [Prio -> Seq(Task)]
<1>1. Append(f[p], t) \in Seq(Task)
  BY AppendProperties
<1> QED
  BY <1>1 DEF Put

LEMMA EnqueueStep ==
  ASSUME TInv, pcb' \in [Task -> PCB], NEW t \in Task, Enqueue(t)
  PROVE  QueuesOK'
<1> DEFINE p == pcb'[t].priority
<1>1. p \in Prio
  BY DEF PCB
<1>2. q \in RunQueues /\ WellFormed(q) /\ fifo \in [Prio -> Seq(Task)]
  BY DEF TInv, TypeOK, QueueWellFormed
<1>3. q' \in RunQueues /\ WellFormed(q')
  BY <1>1, <1>2, EnqueueWellFormed DEF Enqueue
<1>4. fifo' \in [Prio -> Seq(Task)]
  BY <1>1, <1>2, PutType DEF Enqueue
<1> QED
  BY <1>3, <1>4 DEF QueuesOK

LEMMA WakeStep ==
  ASSUME TInv, NEW t \in Task, NEW r \in PCB, Wake(t, r)
  PROVE  pcb' \in [Task -> PCB] /\ QueuesOK'
<1>1. pcb \in [Task -> PCB] /\ q \in RunQueues /\ WellFormed(q)
      /\ fifo \in [Prio -> Seq(Task)]
  BY DEF TInv, TypeOK, QueueWellFormed
<1>2. [r EXCEPT !.state = "READY"] \in PCB
  BY DEF PCB, State
<1>3. CASE r.state = "BLOCKED"
  <2>1. pcb' \in [Task -> PCB]
    BY <1>1, <1>2, <1>3 DEF Wake
  <2> QED
    BY <1>3, <2>1, EnqueueStep DEF Wake
<1>4. CASE r.state # "BLOCKED"
  BY <1>1, <1>4 DEF Wake, queues, QueuesOK
<1> QED
  BY <1>3, <1>4

LEMMA RaiseStep ==
  ASSUME TInv, NEW t \in Task, NEW sig \in Signals, task_ipc_signal_raise(t, sig)
  PROVE  pcb' \in [Task -> PCB] /\ QueuesOK'
<1>1. pcb[t] \in PCB
  BY DEF TInv, TypeOK
<1>2. [pcb[t] EXCEPT !.signal_bitmask = @ \cup {sig}] \in PCB
  BY <1>1 DEF PCB
<1> QED
  BY <1>1, <1>2, WakeStep DEF task_ipc_signal_raise

LEMMA DequeueStep ==
  ASSUME TInv, NEW t, Dequeue(t)
  PROVE  QueuesOK'
<1>1. q \in RunQueues /\ WellFormed(q) /\ fifo \in [Prio -> Seq(Task)]
  BY DEF TInv, TypeOK, QueueWellFormed
<1>2. q' \in RunQueues /\ WellFormed(q')
  BY <1>1, DequeueWellFormed DEF Dequeue
<1>3. \A p \in Prio : (IF fifo[p] = <<>> THEN fifo[p] ELSE Tail(fifo[p])) \in Seq(Task)
  BY <1>1, HeadTailProperties
<1>4. fifo' \in [Prio -> Seq(Task)]
  BY <1>1, <1>3 DEF Dequeue
<1> QED
  BY <1>2, <1>4 DEF QueuesOK

LEMMA ExitStep ==
  ASSUME TInv, cpu # "exit", NEW t \in Task, NEW r \in PCB, task_exit(t, r)
  PROVE  /\ pcb' \in [Task -> PCB] /\ cpu' \in Phase /\ work' \subseteq Task
         /\ IF cpu' = "exit" THEN dying' \in Task ELSE dying' = NIL
<1>1. pcb \in [Task -> PCB] /\ task_list \subseteq Task /\ work \subseteq Task
      /\ dying = NIL
  BY DEF TInv, TypeOK
<1>2. [r EXCEPT !.state = "TERMINATED"] \in PCB
  BY DEF PCB, State
<1> QED
  BY <1>1, <1>2 DEF task_exit, Phase, Open

LEMMA TickTailStep ==
  ASSUME TInv, NEW r \in [Task -> PCB], NEW from \in Open, TickTail(r, from)
  PROVE  /\ pcb' \in [Task -> PCB] /\ QueuesOK' /\ cpu' \in Open \cup {"enter"}
         /\ vbe_ticks' \in 0 .. VbeTicksPerFrame - 1
         /\ last_quantum_tick' \in 0 .. ScheduleQuantum - 1
<1>1. /\ q \in RunQueues /\ WellFormed(q) /\ fifo \in [Prio -> Seq(Task)]
      /\ current \in Task /\ vbe_ticks \in 0 .. VbeTicksPerFrame - 1
      /\ last_quantum_tick \in 0 .. ScheduleQuantum - 1
  BY DEF TInv, TypeOK, QueueWellFormed
<1>2. VbeTicksPerFrame \in Nat \ {0} /\ ScheduleQuantum \in Nat \ {0}
  BY SchedulerAssumption
<1>3. pcb' \in [Task -> PCB]
  <2>1. Decayed(r[current]) \in PCB
    BY <1>1, DecayedType
  <2> QED
    BY <1>1, <2>1 DEF TickTail
<1>4. QueuesOK'
  <2>1. CASE UNCHANGED queues
    BY <1>1, <2>1 DEF queues, QueuesOK
  <2>2. CASE Enqueue(VBE)
    BY <1>3, <2>2, EnqueueStep, Numbers
  <2> QED
    BY <2>1, <2>2 DEF TickTail
<1>5. cpu' \in Open \cup {"enter"}
  BY DEF TickTail
<1>6. vbe_ticks' \in 0 .. VbeTicksPerFrame - 1
  BY <1>1, <1>2 DEF TickTail
<1>7. last_quantum_tick' \in 0 .. ScheduleQuantum - 1
  BY <1>1, <1>2 DEF TickTail
<1> QED
  BY <1>3, <1>4, <1>5, <1>6, <1>7
-----------------------------------------------------------------------------
LEMMA EmptyWellFormed ==
  EmptyRunQueue \in RunQueues /\ WellFormed(EmptyRunQueue)
<1>1. EmptyRunQueue \in RunQueues
  BY DEF EmptyRunQueue, RunQueues
<1> QED
  BY <1>1, PrioWordBit DEF EmptyRunQueue, WellFormed

LEMMA InitType ==
  ASSUME Init
  PROVE  TInv
<1>1. q \in RunQueues /\ WellFormed(q)
  BY EmptyWellFormed, EnqueueWellFormed, Numbers DEF Init
<1>2. fifo \in [Prio -> Seq(Task)]
  <2>1. [p \in Prio |-> <<>>] \in [Prio -> Seq(Task)]
    OBVIOUS
  <2> QED
    BY <2>1, PutType, Numbers DEF Init
<1>3. pcb \in [Task -> PCB]
  <2>1. 1 \in Stack /\ 2 \in Stack /\ 3 \in Stack /\ 4 \in Stack
    BY SchedulerAssumption DEF Stack
  <2>2. \A x \in Prio, k \in Stack \cup {NIL} : NewTask(x, k) \in PCB /\ Unused \in PCB
    BY NewTaskType
  <2>3. [NewTask(0, NIL) EXCEPT !.state = "BLOCKED"] \in PCB
    <3>1. NewTask(0, NIL) \in PCB
      BY <2>2, Numbers
    <3> QED
      BY <3>1 DEF PCB, State
  <2>4. \A t \in Task : BootPCB(t) \in PCB
    BY <2>1, <2>2, <2>3, Numbers DEF BootPCB
  <2> QED
    BY <2>4 DEF Init
<1>4. /\ next_kernel_stack \in 1 .. NStacks + 1
      /\ vbe_ticks \in 0 .. VbeTicksPerFrame - 1
      /\ last_quantum_tick \in 0 .. ScheduleQuantum - 1
  BY SchedulerAssumption DEF Init
<1>5. /\ task_list = Boot /\ zombie_list = {} /\ next_pid = 5
      /\ cpu = "enter" /\ trapped = "run" /\ current = BOOT /\ dying = NIL /\ work = {}
      /\ cr3 = BOOT /\ free_kernel_stacks = <<>>
  BY DEF Init
<1> QED
  BY <1>1, <1>2, <1>3, <1>4, <1>5, Numbers DEF TInv, TypeOK, QueueWellFormed, Phase, Open

(* Facts about the state that every action's step starts from. *)
LEMMA TInvFacts ==
  ASSUME TInv
  PROVE  /\ q \in RunQueues /\ WellFormed(q) /\ fifo \in [Prio -> Seq(Task)]
         /\ pcb \in [Task -> PCB]
         /\ task_list \subseteq Task /\ zombie_list \subseteq Task /\ next_pid \in Nat
         /\ cpu \in Phase /\ trapped \in Open
         /\ current \in Task /\ work \subseteq Task
         /\ IF cpu = "exit" THEN dying \in Task ELSE dying = NIL
         /\ cr3 \in Task
         /\ free_kernel_stacks \in Seq(Stack \cup {NIL})
         /\ next_kernel_stack \in 1 .. NStacks + 1
         /\ vbe_ticks \in 0 .. VbeTicksPerFrame - 1
         /\ last_quantum_tick \in 0 .. ScheduleQuantum - 1
BY DEF TInv, TypeOK, QueueWellFormed

LEMMA SyscallType ==
  ASSUME TInv, Syscall
  PROVE  TInv'
<1> cpu = "run"
  BY DEF Syscall, sys_fork, task_fork, sys_exit, sys_waitpid, sys_kill, sys_signal, sys_sigret,
         sys_alarm, sys_pause, InUserMode
<1> USE TInvFacts
<1>1. ASSUME sys_fork PROVE TInv'
  <2>1. CASE CanAllocStack
    <3>1. /\ alloc_kernel_stack
          /\ pcb' = [pcb EXCEPT ![next_pid] =
                       [pcb[current] EXCEPT !.state = "READY", !.kstack = NewStack,
                          !.signal_bitmask = {}, !.signal_handlers = {},
                          !.alarm_ticks = 0]]
          /\ task_list' = task_list \cup {next_pid} /\ next_pid' = next_pid + 1
          /\ Enqueue(next_pid) /\ cpu' = "ret" /\ UNCHANGED zombie_list
          /\ UNCHANGED <<trapped, current, dying, work, cr3, timers>>
          /\ next_pid \in Task
      BY <1>1, <2>1 DEF sys_fork, task_fork
    <3>2. NewStack \in Stack \cup {NIL}
          /\ free_kernel_stacks' \in Seq(Stack \cup {NIL})
          /\ next_kernel_stack' \in 1 .. NStacks + 1
      <4>1. NStacks \in Nat
        BY SchedulerAssumption
      <4>2. CASE free_kernel_stacks # <<>>
        BY <3>1, <4>2, HeadTailProperties DEF alloc_kernel_stack, NewStack
      <4>3. CASE free_kernel_stacks = <<>>
        <5>1. next_kernel_stack <= NStacks
          BY <2>1, <4>3 DEF CanAllocStack
        <5> QED
          BY <3>1, <4>1, <4>3, <5>1 DEF alloc_kernel_stack, NewStack, Stack
      <4> QED
        BY <4>2, <4>3
    <3>3. pcb' \in [Task -> PCB]
      <4>1. [pcb[current] EXCEPT !.state = "READY", !.kstack = NewStack,
               !.signal_bitmask = {}, !.signal_handlers = {}, !.alarm_ticks = 0] \in PCB
        BY <3>2, ForkedType
      <4> QED
        BY <3>1, <4>1
    <3>4. QueuesOK'
      BY <3>1, <3>3, EnqueueStep
    <3> QED
      BY <3>1, <3>2, <3>3, <3>4
         DEF TInv, TypeOK, QueueWellFormed, QueuesOK, Phase, Open, timers
  <2>2. CASE ~CanAllocStack
    BY <1>1, <2>2 DEF sys_fork, task_fork, queues, lists, stacks, timers,
                      TInv, TypeOK, QueueWellFormed, Phase, Open
  <2> QED
    BY <2>1, <2>2
<1>2. ASSUME sys_exit PROVE TInv'
  <2>1. /\ pcb' \in [Task -> PCB] /\ cpu' \in Phase /\ work' \subseteq Task
        /\ IF cpu' = "exit" THEN dying' \in Task ELSE dying' = NIL
    <3>1. pcb[current] \in PCB /\ task_exit(current, pcb[current])
      BY <1>2 DEF sys_exit
    <3> QED
      BY <3>1, ExitStep
  <2> QED
    BY <1>2, <2>1 DEF sys_exit, queues, lists, stacks, timers,
                      TInv, TypeOK, QueueWellFormed
<1>3. ASSUME NEW t \in Task \cup {NIL}, sys_waitpid(t) PROVE TInv'
  <2>1. [pcb[current] EXCEPT !.waiting_on = t, !.state = "BLOCKED"] \in PCB
    BY WaitingType DEF State
  <2>2. pcb' \in [Task -> PCB] /\ cpu' \in Phase
    BY <1>3, <2>1 DEF sys_waitpid, Phase, Open
  <2> QED
    BY <1>3, <2>2 DEF sys_waitpid, queues, lists, stacks, timers,
                      TInv, TypeOK, QueueWellFormed, Phase
<1>4. ASSUME NEW t \in Killed, NEW s \in Signals, sys_kill(t, s) PROVE TInv'
  <2>1. t \in Task
    BY SchedulerAssumption
  <2>2. pcb' \in [Task -> PCB] /\ QueuesOK'
    <3>1. CASE t \in task_list
      BY <1>4, <2>1, <3>1, RaiseStep DEF sys_kill
    <3>2. CASE t \notin task_list
      BY <1>4, <3>2 DEF sys_kill, queues, QueuesOK
    <3> QED
      BY <3>1, <3>2
  <2> QED
    BY <1>4, <2>2 DEF sys_kill, lists, stacks, timers,
                      TInv, TypeOK, QueueWellFormed, QueuesOK, Phase, Open
<1>5. ASSUME NEW s \in Handled, NEW on \in BOOLEAN, sys_signal(s, on) PROVE TInv'
  <2>1. s \in Signals
    BY SchedulerAssumption
  <2>2. pcb' \in [Task -> PCB]
    <3>1. \A S \in SUBSET Signals : [pcb[current] EXCEPT !.signal_handlers = S] \in PCB
      BY PCBUpdates
    <3>2. pcb[current].signal_handlers \in SUBSET Signals
      BY DEF PCB
    <3> QED
      BY <1>5, <2>1, <3>1, <3>2 DEF sys_signal
  <2> QED
    BY <1>5, <2>2 DEF sys_signal, queues, lists, stacks, timers,
                      TInv, TypeOK, QueueWellFormed, Phase, Open
<1>6. ASSUME sys_sigret PROVE TInv'
  <2>1. pcb' \in [Task -> PCB]
    BY <1>6, PCBUpdates DEF sys_sigret
  <2> QED
    BY <1>6, <2>1 DEF sys_sigret, queues, lists, stacks, timers,
                      TInv, TypeOK, QueueWellFormed, Phase, Open
<1>7. ASSUME NEW n \in 0 .. MaxAlarm, sys_alarm(n) PROVE TInv'
  <2>1. pcb' \in [Task -> PCB]
    BY <1>7, PCBUpdates DEF sys_alarm
  <2> QED
    BY <1>7, <2>1 DEF sys_alarm, queues, lists, stacks, timers,
                      TInv, TypeOK, QueueWellFormed, Phase, Open
<1>8. ASSUME sys_pause PROVE TInv'
  BY <1>8 DEF sys_pause, queues, lists, stacks, timers,
              TInv, TypeOK, QueueWellFormed, Phase, Open
<1> QED
  BY <1>1, <1>2, <1>3, <1>4, <1>5, <1>6, <1>7, <1>8 DEF Syscall

LEMMA InterruptType ==
  ASSUME TInv, Interrupt
  PROVE  TInv'
<1> USE TInvFacts
<1>1. ASSUME Tick PROVE TInv'
  <2> DEFINE fired == {t \in task_list : pcb[t].alarm_ticks = 1}
             counted == [t \in Task |->
                           IF t \in task_list /\ pcb[t].alarm_ticks > 0
                           THEN [pcb[t] EXCEPT !.alarm_ticks = @ - 1] ELSE pcb[t]]
  <2>1. counted \in [Task -> PCB]
    <3>1. ASSUME NEW t \in Task, pcb[t].alarm_ticks > 0
          PROVE  [pcb[t] EXCEPT !.alarm_ticks = @ - 1] \in PCB
      <4>1. pcb[t].alarm_ticks \in 0 .. MaxAlarm /\ MaxAlarm \in Nat
        BY SchedulerAssumption DEF PCB
      <4>2. pcb[t].alarm_ticks - 1 \in 0 .. MaxAlarm
        BY <3>1, <4>1
      <4> QED
        BY <4>2, PCBUpdates
    <3> QED
      BY <3>1
  <2>2. /\ cpu \in Open
        /\ IF fired = {}
           THEN TickTail(counted, cpu) /\ UNCHANGED <<work, trapped>>
           ELSE /\ work' = fired /\ pcb' = counted
                /\ cpu' = "tick" /\ trapped' = cpu
                /\ UNCHANGED <<queues, timers>>
        /\ UNCHANGED <<lists, current, dying, cr3, stacks>>
    BY <1>1 DEF Tick, Interruptible
  <2> HIDE DEF counted
  <2>3. CASE fired = {}
    <3>1. /\ pcb' \in [Task -> PCB] /\ QueuesOK' /\ cpu' \in Open \cup {"enter"}
          /\ vbe_ticks' \in 0 .. VbeTicksPerFrame - 1
          /\ last_quantum_tick' \in 0 .. ScheduleQuantum - 1
      BY <2>1, <2>2, <2>3, TickTailStep
    <3> QED
      BY <2>2, <2>3, <3>1 DEF lists, stacks, TInv, TypeOK, QueueWellFormed, QueuesOK, Phase, Open
  <2>4. CASE fired # {}
    BY <2>1, <2>2, <2>4 DEF queues, lists, stacks, timers, TInv, TypeOK,
                            QueueWellFormed, Phase, Open
  <2> QED
    BY <2>3, <2>4
<1>2. ASSUME TickAlarm PROVE TInv'
  <2>1. Min(work) \in Task
    BY <1>2, MinIsLeast, Numbers DEF TickAlarm
  <2>2. pcb' \in [Task -> PCB] /\ QueuesOK'
    BY <1>2, <2>1, RaiseStep, SchedulerAssumption DEF TickAlarm
  <2> QED
    BY <1>2, <2>2 DEF TickAlarm, lists, stacks, timers, TInv, TypeOK,
                      QueueWellFormed, QueuesOK
<1>3. ASSUME TickEnd PROVE TInv'
  <2>1. /\ pcb' \in [Task -> PCB] /\ QueuesOK' /\ cpu' \in Open \cup {"enter"}
        /\ vbe_ticks' \in 0 .. VbeTicksPerFrame - 1
        /\ last_quantum_tick' \in 0 .. ScheduleQuantum - 1
    BY <1>3, TickTailStep DEF TickEnd
  <2> QED
    BY <1>3, <2>1 DEF TickEnd, lists, stacks, TInv, TypeOK, QueueWellFormed,
                      QueuesOK, Phase, Open
<1>4. ASSUME NEW t \in Task, task_unblock(t) PROVE TInv'
  <2>1. pcb' \in [Task -> PCB] /\ QueuesOK'
    BY <1>4, WakeStep DEF task_unblock
  <2> QED
    BY <1>4, <2>1 DEF task_unblock, lists, stacks, timers, TInv, TypeOK,
                      QueueWellFormed, QueuesOK
<1> QED
  BY <1>1, <1>2, <1>3, <1>4 DEF Interrupt

LEMMA SwitchType ==
  ASSUME TInv, Switch
  PROVE  TInv'
<1> USE TInvFacts
<1>1. ASSUME ExitWake PROVE TInv'
  <2> DEFINE u == Min(work)
  <2>1. u \in Task
    BY <1>1, MinIsLeast, Numbers DEF ExitWake
  <2>2. pcb' = [pcb EXCEPT ![u].waiting_on = NIL, ![u].state = "READY"]
        /\ Enqueue(u) /\ work' = work \ {u}
    BY <1>1 DEF ExitWake
  <2> HIDE DEF u
  <2>3. [pcb[u] EXCEPT !.waiting_on = NIL, !.state = "READY"] \in PCB
    BY <2>1, WaitingType DEF State
  <2>4. pcb' \in [Task -> PCB]
    BY <2>1, <2>2, <2>3
  <2>5. QueuesOK'
    BY <2>1, <2>2, <2>4, EnqueueStep
  <2> QED
    BY <1>1, <2>2, <2>4, <2>5 DEF ExitWake, lists, stacks, timers, TInv, TypeOK,
                                  QueueWellFormed, QueuesOK
<1>2. ASSUME ExitEnd PROVE TInv'
  <2>1. zombie_list' \subseteq Task
    BY <1>2 DEF ExitEnd
  <2> QED
    BY <1>2, <2>1 DEF ExitEnd, queues, stacks, timers, TInv, TypeOK,
                      QueueWellFormed, Phase, Open
<1>3. ASSUME YieldEnter PROVE TInv'
  <2>1. [pcb[current] EXCEPT !.state = "READY"] \in PCB
    BY PCBUpdates DEF State
  <2>2. pcb' \in [Task -> PCB]
    BY <1>3, <2>1 DEF YieldEnter
  <2>3. QueuesOK'
    <3>1. CASE Enqueue(current)
      BY <2>2, <3>1, EnqueueStep
    <3>2. CASE UNCHANGED queues
      BY <3>2 DEF queues, QueuesOK
    <3> QED
      BY <1>3, <3>1, <3>2 DEF YieldEnter, queues
  <2> QED
    BY <1>3, <2>2, <2>3 DEF YieldEnter, lists, stacks, timers, TInv, TypeOK,
                            QueueWellFormed, QueuesOK, Phase, Open
<1>4. ASSUME NEW z \in Task, Reap(z) PROVE TInv'
  <2>1. pcb[z].kstack \in Stack \cup {NIL}
    BY DEF PCB
  <2>2. Unused \in PCB
    BY NewTaskType, Numbers
  <2>3. free_kernel_stacks' \in Seq(Stack \cup {NIL}) /\ pcb' \in [Task -> PCB]
    BY <1>4, <2>1, <2>2 DEF Reap
  <2> QED
    BY <1>4, <2>3 DEF Reap, queues, timers, TInv, TypeOK, QueueWellFormed, Phase, Open
<1>5. ASSUME PickNone PROVE TInv'
  <2>1. q' \in RunQueues /\ WellFormed(q')
    BY <1>5, DequeueWellFormed DEF PickNone
  <2> QED
    BY <1>5, <2>1 DEF PickNone, lists, stacks, timers, TInv, TypeOK,
                      QueueWellFormed, Phase, Open
<1>6. dequeued(q) # NIL => dequeued(q) \in Task
  BY DequeueFields
<1>7. ASSUME PickOther PROVE TInv'
  <2>1. QueuesOK'
    BY <1>7, DequeueStep DEF PickOther
  <2> QED
    BY <1>7, <2>1 DEF PickOther, lists, stacks, timers, TInv, TypeOK,
                      QueueWellFormed, QueuesOK, Phase, Open
<1>8. ASSUME PickFatal PROVE TInv'
  <2> DEFINE t == dequeued(q)
  <2>1. t \in Task /\ Dequeue(t) /\ task_exit(t, Taken(t)) /\ cr3' = t /\ cpu = "pick"
    BY <1>6, <1>8 DEF PickFatal
  <2>2. QueuesOK'
    BY <2>1, DequeueStep
  <2>3. /\ pcb' \in [Task -> PCB] /\ cpu' \in Phase /\ work' \subseteq Task
        /\ IF cpu' = "exit" THEN dying' \in Task ELSE dying' = NIL
    BY <2>1, TakenType, ExitStep
  <2> QED
    BY <1>8, <2>1, <2>2, <2>3 DEF PickFatal, lists, stacks, timers, TInv, TypeOK,
                                  QueueWellFormed, QueuesOK
<1>9. ASSUME PickReady PROVE TInv'
  <2> DEFINE t == dequeued(q)
             r == IF Deliverable(t) THEN Taken(t) ELSE pcb[t]
  <2>1. /\ t \in Task /\ Dequeue(t) /\ current' = t /\ cpu' = "run"
        /\ cr3' = IF t \in User THEN t ELSE BOOT
    BY <1>6, <1>9 DEF PickReady
  <2>2. pcb' = [pcb EXCEPT ![t] = [r EXCEPT !.state = "RUNNING"]]
    BY <1>9 DEF PickReady
  <2>3. r \in PCB
    BY <2>1, TakenType
  <2>4. QueuesOK'
    BY <2>1, DequeueStep
  <2> HIDE DEF r
  <2>5. [r EXCEPT !.state = "RUNNING"] \in PCB
    BY <2>3, PCBUpdates DEF State
  <2> HIDE DEF t
  <2>6. pcb' \in [Task -> PCB] /\ cr3' \in Task
    BY <2>1, <2>2, <2>5, Numbers
  <2> QED
    BY <1>9, <2>1, <2>4, <2>6 DEF PickReady, lists, stacks, timers, TInv, TypeOK,
                                  QueueWellFormed, QueuesOK, Phase, Open
<1> QED
  BY <1>1, <1>2, <1>3, <1>4, <1>5, <1>7, <1>8, <1>9 DEF Switch

LEMMA NextType ==
  ASSUME TInv, [Next]_vars
  PROVE  TInv'
<1> USE TInvFacts
<1>1. ASSUME Block PROVE TInv'
  <2>1. pcb' \in [Task -> PCB]
    BY <1>1, PCBUpdates DEF Block, State
  <2> QED
    BY <1>1, <2>1 DEF Block, queues, lists, stacks, timers, TInv, TypeOK,
                      QueueWellFormed, Phase, Open
<1>2. ASSUME SyscallReturn PROVE TInv'
  <2>1. Taken(current) \in PCB
    BY TakenType
  <2>2. /\ pcb' \in [Task -> PCB] /\ cpu' \in Phase /\ work' \subseteq Task
        /\ IF cpu' = "exit" THEN dying' \in Task ELSE dying' = NIL
    <3>1. CASE Fatal(current)
      BY <1>2, <2>1, <3>1, ExitStep DEF SyscallReturn
    <3>2. CASE ~Fatal(current)
      BY <1>2, <2>1, <3>2 DEF SyscallReturn, Phase, Open
    <3> QED
      BY <3>1, <3>2
  <2> QED
    BY <1>2, <2>2 DEF SyscallReturn, queues, lists, stacks, timers, TInv, TypeOK,
                      QueueWellFormed
<1>3. ASSUME kernel_yield PROVE TInv'
  BY <1>3 DEF kernel_yield, queues, lists, stacks, timers, TInv, TypeOK,
              QueueWellFormed, Phase, Open
<1>4. ASSUME UNCHANGED vars PROVE TInv'
  BY <1>4 DEF vars, queues, lists, stacks, timers, TInv, TypeOK, QueueWellFormed
<1> QED
  BY <1>1, <1>2, <1>3, <1>4, SyscallType, InterruptType, SwitchType DEF Next, Halted

(* In every reachable state every variable has its type: no pid, priority, *)
(* kernel stack, tick count or signal set ever leaves its range, the loops *)
(* of the interrupt handler and of task_exit() included.                   *)
THEOREM TypeCorrect == Spec => []TypeOK
<1>1. Init => TInv
  BY InitType
<1>2. TInv /\ [Next]_vars => TInv'
  BY NextType
<1>3. TInv => TypeOK
  BY DEF TInv
<1> QED
  BY <1>1, <1>2, <1>3, PTL DEF Spec

(* In every reachable state, double enqueues included, the bitmaps agree   *)
(* with the lists: the branch of dequeue() commented "shouldnt happen" is  *)
(* dead, and enqueue() never writes through a null tail.                   *)
THEOREM QueuesWellFormed == Spec => []QueueWellFormed
<1>1. Init => TInv
  BY InitType
<1>2. TInv /\ [Next]_vars => TInv'
  BY NextType
<1>3. TInv => QueueWellFormed
  BY DEF TInv
<1> QED
  BY <1>1, <1>2, <1>3, PTL DEF Spec
-----------------------------------------------------------------------------
(***************************************************************************)
(* Integrity of the run queues.  The inductive invariant has two halves:   *)
(* what the lists look like, and which tasks are in them.                  *)
(***************************************************************************)
Low == 0 .. TopPrio - 1

(* The tasks in the FIFO of priority p. *)
Elems(f, p) == {f[p][i] : i \in 1 .. Len(f[p])}

(* The lists below the top priority are the FIFO queues; the compositor is *)
(* in none of them and alone in the list of the top priority, which it may *)
(* close into a loop on itself.                                            *)
Listed(r, f) ==
  /\ Represents(r, f, Low)
  /\ f[TopPrio] = <<>>
  /\ r.head[TopPrio] \in {NIL, VBE} /\ r.tail[TopPrio] \in {NIL, VBE}
  /\ r.rq_next[VBE] \in {NIL, VBE}
  /\ \A p \in Low : VBE \notin Elems(f, p)

Lists == Listed(q, fifo)

(* Only the compositor has the top priority, every queued task is in the   *)
(* queue of its own priority, and the queued tasks are the READY ones.     *)
Members ==
  /\ pcb[VBE].priority = TopPrio
  /\ \A t \in Task \ {VBE} : pcb[t].priority \in Low /\ pcb[t].original_priority \in Low
  /\ \A t \in Task, p \in Low : t \in Elems(fifo, p) => pcb[t].priority = p
  /\ cpu # "panic" =>
       \A t \in Task \ {VBE} : Ready(t) <=> t \in Elems(fifo, pcb[t].priority)

(* A task waits for an exit only while it is BLOCKED and has no alarm set, *)
(* so neither the alarms that fire nor kill() reach it; an exit in         *)
(* progress still has only such tasks to wake.                             *)
Waiters ==
  /\ \A t \in Task : pcb[t].waiting_on # NIL =>
       t \in User /\ pcb[t].state = "BLOCKED" /\ pcb[t].alarm_ticks = 0
  /\ cpu = "tick" => \A t \in work : pcb[t].waiting_on = NIL
  /\ cpu = "exit" => \A t \in work : pcb[t].waiting_on # NIL

(* Who can be RUNNING, and when. *)
Running ==
  /\ cpu \in {"run", "ret"} \/ (cpu = "tick" /\ trapped \in {"run", "ret"})
       => pcb[current].state = "RUNNING"
  /\ \A t \in Task : pcb[t].state = "RUNNING" => t = current /\ cpu \notin {"pick", "exit"}
  /\ pcb[IDLE].state \in {"READY", "RUNNING"} /\ pcb[VBE].state \in {"READY", "RUNNING"}

(* The dead stay dead, and pids that were not given out are unused. *)
Dead ==
  /\ zombie_list \subseteq User /\ \A z \in zombie_list : pcb[z].state = "TERMINATED"
  /\ cpu = "exit" => dying \in User /\ pcb[dying].state = "TERMINATED"
  /\ next_pid >= 5 /\ \A t \in Task : t >= next_pid => pcb[t].state = "UNUSED"

QInv == TInv /\ Lists /\ Members /\ Waiters /\ Running /\ Dead
-----------------------------------------------------------------------------
LEMMA LowFacts ==
  /\ Low \subseteq Prio /\ TopPrio \in Prio \ Low /\ Prio = Low \cup {TopPrio}
BY Numbers DEF Low

LEMMA AbsentElems ==
  ASSUME NEW t, NEW f
  PROVE  Absent(t, f, Low) <=> \A p \in Low : t \notin Elems(f, p)
BY DEF Absent, Elems

LEMMA EnqueueListed ==
  ASSUME NEW r \in RunQueues, WellFormed(r), NEW f \in [Prio -> Seq(Task)], Listed(r, f),
         NEW t \in Task \ {VBE}, NEW p \in Low, \A x \in Low : t \notin Elems(f, x),
         NEW r2, r2 = enqueue(r, t, p), NEW f2, f2 = Put(f, p, t)
  PROVE  /\ Listed(r2, f2) /\ Elems(f2, p) = Elems(f, p) \cup {t}
         /\ \A x \in Low \ {p} : Elems(f2, x) = Elems(f, x)
<1>1. p \in Prio /\ f2 = [f EXCEPT ![p] = Append(@, t)]
  BY LowFacts DEF Put
<1>2. Represents(r2, f2, Low)
  <2>1. Low \subseteq Prio /\ t \in Task /\ Represents(r, f, Low) /\ Absent(t, f, Low)
    BY LowFacts, AbsentElems DEF Listed
  <2>2. Represents(enqueue(r, t, p), [f EXCEPT ![p] = Append(@, t)], Low)
    BY <2>1, EnqueueRepresents
  <2> QED
    BY <1>1, <2>2
<1>3. f2[TopPrio] = <<>> /\ \A x \in Low \ {p} : f2[x] = f[x]
  BY <1>1, LowFacts DEF Listed
<1>4. \A x \in Low \ {p} : Elems(f2, x) = Elems(f, x)
  BY <1>3 DEF Elems
<1>5. Elems(f2, p) = Elems(f, p) \cup {t}
  <2>1. /\ f2[p] = Append(f[p], t) /\ Len(f[p]) \in Nat
        /\ Len(f2[p]) = Len(f[p]) + 1
        /\ \A i \in 1 .. Len(f[p]) : f2[p][i] = f[p][i]
        /\ f2[p][Len(f[p]) + 1] = t
    BY <1>1, AppendProperties
  <2>2. ASSUME NEW u \in Elems(f2, p) PROVE u \in Elems(f, p) \cup {t}
    <3>1. PICK i \in 1 .. Len(f2[p]) : u = f2[p][i]
      BY DEF Elems
    <3>2. i \in 1 .. Len(f[p]) \/ i = Len(f[p]) + 1
      BY <2>1
    <3> QED
      BY <2>1, <3>1, <3>2 DEF Elems
  <2>3. ASSUME NEW u \in Elems(f, p) PROVE u \in Elems(f2, p)
    <3>1. PICK i \in 1 .. Len(f[p]) : u = f[p][i]
      BY DEF Elems
    <3>2. i \in 1 .. Len(f2[p]) /\ u = f2[p][i]
      BY <2>1, <3>1
    <3> QED
      BY <3>2 DEF Elems
  <2>4. t \in Elems(f2, p)
    <3>1. Len(f[p]) + 1 \in 1 .. Len(f2[p])
      BY <2>1
    <3> QED
      BY <2>1, <3>1 DEF Elems
  <2> QED
    BY <2>2, <2>3, <2>4
<1>6. \A x \in Low : VBE \notin Elems(f2, x)
  BY <1>4, <1>5 DEF Listed
<1>7. /\ r2.head[TopPrio] \in {NIL, VBE} /\ r2.tail[TopPrio] \in {NIL, VBE}
      /\ r2.rq_next[VBE] \in {NIL, VBE}
  <2>1. TopPrio \in Prio /\ TopPrio # p /\ VBE \in Task /\ VBE # t
    BY LowFacts, Numbers
  <2>2. CASE r.head[p] = NIL
    BY <1>1, <2>1, <2>2, EnqueueEmpty DEF Listed
  <2>3. CASE r.head[p] # NIL
    <3>1. r.tail[p] # VBE
      <4>1. Linked(r, f[p], p) /\ f[p] \in Seq(Task)
        BY <1>1 DEF Listed, Represents
      <4>2. f[p] # <<>> /\ r.tail[p] = f[p][Len(f[p])]
        BY <2>3, <4>1 DEF Linked
      <4>3. Len(f[p]) \in 1 .. Len(f[p])
        BY <4>1, <4>2
      <4>4. r.tail[p] \in Elems(f, p)
        BY <4>2, <4>3 DEF Elems
      <4> QED
        BY <4>4 DEF Listed
    <3> QED
      BY <1>1, <2>1, <2>3, <3>1, EnqueueNonEmpty DEF Listed
  <2> QED
    BY <2>2, <2>3
<1> QED
  BY <1>2, <1>3, <1>4, <1>5, <1>6, <1>7 DEF Listed

LEMMA EnqueueElems ==
  ASSUME TInv, Lists, NEW t \in Task \ {VBE}, NEW p \in Low, p = pcb'[t].priority,
         Enqueue(t), \A x \in Low : t \notin Elems(fifo, x)
  PROVE  /\ Lists' /\ Elems(fifo', p) = Elems(fifo, p) \cup {t}
         /\ \A x \in Low \ {p} : Elems(fifo', x) = Elems(fifo, x)
<1>1. /\ q \in RunQueues /\ WellFormed(q) /\ fifo \in [Prio -> Seq(Task)]
      /\ q' = enqueue(q, t, p) /\ fifo' = Put(fifo, p, t) /\ Listed(q, fifo)
  BY TInvFacts DEF Enqueue, Lists
<1> QED
  BY <1>1, EnqueueListed DEF Lists

LEMMA EnqueueCompositor ==
  ASSUME TInv, Lists, Enqueue(VBE), pcb'[VBE].priority = TopPrio
  PROVE  Lists' /\ fifo' = fifo
<1>1. /\ q \in RunQueues /\ WellFormed(q) /\ fifo \in [Prio -> Seq(Task)]
      /\ q' = enqueue(q, VBE, TopPrio) /\ fifo' = fifo /\ VBE \in Task
      /\ TopPrio \in Prio \ Low /\ Low \subseteq Prio
  BY TInvFacts, LowFacts, Numbers DEF Enqueue
<1>2. q.head[TopPrio] = NIL <=> q.tail[TopPrio] = NIL
  BY <1>1 DEF WellFormed
<1>3. Represents(q', fifo', Low)
  BY <1>1, <1>2, AbsentElems, EnqueueOutside DEF Lists, Listed
<1>4. \A p \in Low : Elems(fifo', p) = Elems(fifo, p)
  BY <1>1 DEF Elems
<1>5. /\ q'.head[TopPrio] \in {NIL, VBE} /\ q'.tail[TopPrio] \in {NIL, VBE}
      /\ q'.rq_next[VBE] \in {NIL, VBE}
  <2>1. CASE q.head[TopPrio] = NIL
    BY <1>1, <2>1, EnqueueEmpty
  <2>2. CASE q.head[TopPrio] # NIL
    BY <1>1, <2>2, EnqueueNonEmpty DEF Lists, Listed
  <2> QED
    BY <2>1, <2>2
<1> QED
  BY <1>1, <1>3, <1>4, <1>5 DEF Lists, Listed

LEMMA DequeueElems ==
  ASSUME TInv, Lists, NEW t, t = dequeued(q), t # NIL, Dequeue(t)
  PROVE  /\ Lists' /\ t \in Task
         /\ \/ t = VBE /\ fifo' = fifo
            \/ /\ t # VBE
               /\ \E p \in Low : /\ t \in Elems(fifo, p) /\ Elems(fifo', p) = Elems(fifo, p) \ {t}
                                 /\ \A x \in Low \ {p} : Elems(fifo', x) = Elems(fifo, x)
<1>0. PICK p : p = highest_ready_prio(q)
  OBVIOUS
<1>1. /\ q \in RunQueues /\ WellFormed(q) /\ fifo \in [Prio -> Seq(Task)]
      /\ q' = dequeue(q) /\ VBE \in Task
  BY TInvFacts, Numbers DEF Dequeue
<1>2. /\ p \in Prio /\ t \in Task /\ t = q.head[p]
      /\ q'.head = [q.head EXCEPT ![p] = q.rq_next[t]]
      /\ q'.tail = IF q.rq_next[t] = NIL THEN [q.tail EXCEPT ![p] = NIL] ELSE q.tail
      /\ q'.rq_next = [q.rq_next EXCEPT ![t] = NIL]
  BY <1>0, <1>1, DequeueFields
<1>3. /\ q.head \in [Prio -> Task \cup {NIL}] /\ q.tail \in [Prio -> Task \cup {NIL}]
      /\ q.rq_next \in [Task -> Task \cup {NIL}]
  BY <1>1 DEF RunQueues
<1>4. CASE p = TopPrio
  <2>1. t = VBE /\ fifo' = fifo
    BY <1>2, <1>4 DEF Lists, Listed, Dequeue
  <2>2. Represents(q', fifo', Low)
    BY <1>0, <1>1, <1>4, <2>1, LowFacts, AbsentElems, DequeueOutside DEF Lists, Listed
  <2>3. \A x \in Low : Elems(fifo', x) = Elems(fifo, x)
    BY <2>1 DEF Elems
  <2>4. /\ q'.head[TopPrio] \in {NIL, VBE} /\ q'.tail[TopPrio] \in {NIL, VBE}
        /\ q'.rq_next[VBE] \in {NIL, VBE}
    BY <1>1, <1>2, <1>3, <1>4, <2>1 DEF Lists, Listed
  <2> QED
    BY <1>2, <2>1, <2>2, <2>3, <2>4 DEF Lists, Listed
<1>5. CASE p # TopPrio
  <2>1. p \in Low
    BY <1>2, <1>5, LowFacts
  <2>2. /\ fifo[p] # <<>> /\ t = fifo[p][1]
        /\ Represents(q', [fifo EXCEPT ![p] = Tail(@)], Low)
    BY <1>0, <1>1, <2>1, LowFacts, DequeueRepresents DEF Lists, Listed
  <2>3. 1 \in 1 .. Len(fifo[p]) /\ Len(fifo[p]) \in Nat /\ fifo[p] \in Seq(Task)
    BY <1>1, <1>2, <2>2
  <2>4. t \in Elems(fifo, p)
    BY <2>2, <2>3 DEF Elems
  <2>5. t # VBE
    BY <2>1, <2>4 DEF Lists, Listed
  <2>6. fifo' = [fifo EXCEPT ![p] = Tail(@)]
    BY <1>0, <2>2, <2>5 DEF Dequeue
  <2>7. Represents(q', fifo', Low)
    BY <2>2, <2>6
  <2>8. fifo'[TopPrio] = <<>> /\ \A x \in Low \ {p} : fifo'[x] = fifo[x]
    BY <1>1, <1>5, <2>6, LowFacts DEF Lists, Listed
  <2>9. \A x \in Low \ {p} : Elems(fifo', x) = Elems(fifo, x)
    BY <2>8 DEF Elems
  <2>10. Elems(fifo', p) = Elems(fifo, p) \ {t}
    <3>1. /\ fifo'[p] = Tail(fifo[p]) /\ Len(fifo'[p]) = Len(fifo[p]) - 1
          /\ \A i \in 1 .. Len(fifo[p]) - 1 : fifo'[p][i] = fifo[p][i + 1]
      BY <1>1, <1>2, <2>2, <2>3, <2>6, HeadTailProperties
    <3>2. ASSUME NEW u \in Elems(fifo', p) PROVE u \in Elems(fifo, p) \ {t}
      <4>1. PICK i \in 1 .. Len(fifo'[p]) : u = fifo'[p][i]
        BY DEF Elems
      <4>2. i + 1 \in 1 .. Len(fifo[p]) /\ u = fifo[p][i + 1] /\ i + 1 # 1
        BY <2>3, <3>1, <4>1
      <4>3. Disjoint(fifo, Low)
        BY DEF Lists, Listed, Represents
      <4>4. u # t
        BY <2>1, <2>2, <2>3, <4>2, <4>3 DEF Disjoint
      <4> QED
        BY <4>2, <4>4 DEF Elems
    <3>3. ASSUME NEW u \in Elems(fifo, p), u # t PROVE u \in Elems(fifo', p)
      <4>1. PICK i \in 1 .. Len(fifo[p]) : u = fifo[p][i]
        BY DEF Elems
      <4>2. i # 1
        BY <2>2, <3>3, <4>1
      <4>3. i - 1 \in 1 .. Len(fifo[p]) - 1 /\ (i - 1) + 1 = i
        BY <2>3, <4>2
      <4>4. u = fifo'[p][i - 1]
        BY <3>1, <4>1, <4>3
      <4> QED
        BY <3>1, <4>3, <4>4 DEF Elems
    <3> QED
      BY <3>2, <3>3
  <2>11. /\ q'.head[TopPrio] \in {NIL, VBE} /\ q'.tail[TopPrio] \in {NIL, VBE}
         /\ q'.rq_next[VBE] \in {NIL, VBE}
    BY <1>1, <1>2, <1>3, <1>5, <2>5, LowFacts DEF Lists, Listed
  <2> QED
    BY <1>2, <2>1, <2>4, <2>5, <2>7, <2>8, <2>9, <2>10, <2>11 DEF Lists, Listed
<1> QED
  BY <1>4, <1>5
-----------------------------------------------------------------------------
(* What a step does to the queues and the PCBs: the three cases. *)

(* A PCB keeps its place in the queues, or its absence from them. *)
Quiet(t) ==
  /\ cpu' # "panic" /\ t # VBE => (pcb'[t].state = "READY" <=> Ready(t))
  /\ \/ /\ pcb'[t].priority = pcb[t].priority
        /\ pcb'[t].original_priority = pcb[t].original_priority
     \/ /\ t # VBE /\ ~Ready(t)
        /\ pcb'[t].priority \in Low /\ pcb'[t].original_priority \in Low

(* The queues do not change, except that of the compositor. *)
LEMMA QuietMembers ==
  ASSUME TInv, Lists, Members, cpu # "panic", fifo' = fifo,
         \A t \in Task : Quiet(t)
  PROVE  Members'
<1>1. VBE \in Task
  BY Numbers
<1>2. pcb'[VBE].priority = TopPrio
  BY <1>1 DEF Members, Quiet
<1>3. \A t \in Task \ {VBE} : pcb'[t].priority \in Low /\ pcb'[t].original_priority \in Low
  BY DEF Members, Quiet
<1>4. \A p \in Low : Elems(fifo', p) = Elems(fifo, p)
  BY DEF Elems
<1>5. ASSUME NEW t \in Task, NEW p \in Low, t \in Elems(fifo', p)
      PROVE  pcb'[t].priority = p
  <2>1. pcb[t].priority = p /\ t \in Elems(fifo, p)
    BY <1>4, <1>5 DEF Members
  <2>2. t # VBE
    BY <2>1 DEF Lists, Listed
  <2>3. Ready(t)
    BY <2>1, <2>2 DEF Members
  <2> QED
    BY <2>1, <2>3 DEF Quiet
<1>6. ASSUME cpu' # "panic", NEW t \in Task \ {VBE}
      PROVE  (Ready(t) <=> t \in Elems(fifo, pcb[t].priority))'
  <2>1. pcb'[t].priority \in Low /\ pcb[t].priority \in Low
    BY <1>3 DEF Members
  <2>2. Ready(t)' <=> Ready(t)
    BY <1>6 DEF Ready, Quiet
  <2>3. Ready(t) <=> t \in Elems(fifo, pcb[t].priority)
    BY DEF Members
  <2>4. t \in Elems(fifo, pcb'[t].priority) => pcb'[t].priority = pcb[t].priority
    BY <2>1 DEF Members
  <2>5. Ready(t) => pcb'[t].priority = pcb[t].priority
    BY DEF Quiet
  <2>6. Ready(t)' <=> t \in Elems(fifo, pcb'[t].priority)
    BY <2>2, <2>3, <2>4, <2>5
  <2> QED
    BY <2>6 DEF Elems
<1> QED
  BY <1>2, <1>3, <1>5, <1>6 DEF Members

(* A task that was not READY becomes READY and is enqueued. *)
LEMMA EnqueueMembers ==
  ASSUME TInv, Lists, Members, cpu # "panic", NEW c \in Task \ {VBE}, Enqueue(c), ~Ready(c),
         pcb'[c].state = "READY",
         pcb'[c].priority \in Low, pcb'[c].original_priority \in Low,
         \A t \in Task \ {c} : pcb'[t] = pcb[t]
  PROVE  Lists' /\ Members'
<1>1. PICK p \in Low : p = pcb'[c].priority
  OBVIOUS
<1>2. \A x \in Low : c \notin Elems(fifo, x)
  BY DEF Members
<1>3. /\ Lists' /\ Elems(fifo', p) = Elems(fifo, p) \cup {c}
      /\ \A x \in Low \ {p} : Elems(fifo', x) = Elems(fifo, x)
  BY <1>1, <1>2, EnqueueElems
<1>4. VBE \in Task \ {c}
  BY Numbers
<1>5. pcb'[VBE].priority = TopPrio
  BY <1>4 DEF Members
<1>6. \A t \in Task \ {VBE} : pcb'[t].priority \in Low /\ pcb'[t].original_priority \in Low
  BY DEF Members
<1>7. \A t \in Task, x \in Low : t \in Elems(fifo', x) => pcb'[t].priority = x
  BY <1>1, <1>2, <1>3 DEF Members
<1>8. ASSUME NEW t \in Task \ {VBE}
      PROVE  (Ready(t) <=> t \in Elems(fifo, pcb[t].priority))'
  <2>1. CASE t = c
    <3>1. Ready(t)'
      BY <2>1 DEF Ready
    <3>2. t \in Elems(fifo', p)
      BY <1>3, <2>1
    <3> QED
      BY <1>1, <2>1, <3>1, <3>2 DEF Elems
  <2>2. CASE t # c
    <3>1. pcb'[t] = pcb[t]
      BY <2>2
    <3>2. PICK x \in Low : x = pcb[t].priority
      BY DEF Members
    <3>3. t \in Elems(fifo', x) <=> t \in Elems(fifo, x)
      BY <1>3, <2>2
    <3>4. Ready(t) <=> t \in Elems(fifo, x)
      BY <3>2 DEF Members
    <3>5. Ready(t)' <=> Ready(t)
      BY <3>1 DEF Ready
    <3>6. Ready(t)' <=> t \in Elems(fifo', x)
      BY <3>3, <3>4, <3>5
    <3> QED
      BY <3>1, <3>2, <3>6 DEF Elems
  <2> QED
    BY <2>1, <2>2
<1> QED
  BY <1>3, <1>5, <1>6, <1>7, <1>8 DEF Members

(* The first task of the highest queue is dequeued and is not READY any    *)
(* more, or the kernel panics.                                             *)
LEMMA DequeueMembers ==
  ASSUME TInv, Lists, Members, cpu # "panic", NEW c, c = dequeued(q), c # NIL, Dequeue(c),
         c = VBE \/ pcb'[c].state # "READY" \/ cpu' = "panic",
         pcb'[c].priority = pcb[c].priority,
         pcb'[c].original_priority = pcb[c].original_priority,
         \A t \in Task \ {c} : pcb'[t] = pcb[t]
  PROVE  Lists' /\ Members'
<1>1. /\ Lists' /\ c \in Task
      /\ \/ c = VBE /\ fifo' = fifo
         \/ /\ c # VBE
            /\ \E p \in Low : /\ c \in Elems(fifo, p) /\ Elems(fifo', p) = Elems(fifo, p) \ {c}
                              /\ \A x \in Low \ {p} : Elems(fifo', x) = Elems(fifo, x)
  BY DequeueElems
<1>2. VBE \in Task
  BY Numbers
<1>3. pcb'[VBE].priority = TopPrio
  BY <1>1, <1>2 DEF Members
<1>4. \A t \in Task \ {VBE} : pcb'[t].priority = pcb[t].priority
        /\ pcb'[t].priority \in Low /\ pcb'[t].original_priority \in Low
  BY <1>1 DEF Members
<1>5. \A t \in Task \ {VBE}, x \in Low :
        t \in Elems(fifo', x) <=> t \in Elems(fifo, x) /\ t # c
  <2>1. CASE c = VBE
    BY <1>1, <2>1 DEF Elems
  <2>2. CASE c # VBE
    <3>1. PICK p \in Low : /\ c \in Elems(fifo, p) /\ Elems(fifo', p) = Elems(fifo, p) \ {c}
                           /\ \A x \in Low \ {p} : Elems(fifo', x) = Elems(fifo, x)
      BY <1>1, <2>2
    <3>2. \A x \in Low \ {p} : c \notin Elems(fifo, x)
      BY <1>1, <3>1 DEF Members
    <3> QED
      BY <3>1, <3>2
  <2> QED
    BY <2>1, <2>2
<1>6. ASSUME NEW t \in Task, NEW x \in Low, t \in Elems(fifo', x)
      PROVE  pcb'[t].priority = x
  <2>1. t # VBE
    BY <1>1, <1>6 DEF Lists, Listed
  <2> QED
    BY <1>4, <1>5, <1>6, <2>1 DEF Members
<1>7. ASSUME cpu' # "panic", NEW t \in Task \ {VBE}
      PROVE  (Ready(t) <=> t \in Elems(fifo, pcb[t].priority))'
  <2>1. PICK x \in Low : x = pcb[t].priority /\ x = pcb'[t].priority
    BY <1>4 DEF Members
  <2>2. Ready(t) <=> t \in Elems(fifo, x)
    BY <2>1 DEF Members
  <2>3. Ready(t)' <=> Ready(t) /\ t # c
    BY <1>7 DEF Ready
  <2>4. Ready(t)' <=> t \in Elems(fifo', x)
    BY <1>5, <2>2, <2>3
  <2> QED
    BY <2>1, <2>4 DEF Elems
<1> QED
  BY <1>1, <1>3, <1>4, <1>6, <1>7 DEF Members

(* What dequeue() finds is READY, and it finds something: the idle task at *)
(* least.                                                                  *)
LEMMA DequeuedReady ==
  ASSUME QInv, cpu = "pick"
  PROVE  dequeued(q) # NIL /\ dequeued(q) \in Task /\ Ready(dequeued(q))
<1>1. TInv /\ Lists /\ Members /\ Running
  BY DEF QInv
<1>2. /\ q \in RunQueues /\ WellFormed(q) /\ fifo \in [Prio -> Seq(Task)]
      /\ IDLE \in Task /\ VBE \in Task /\ IDLE # VBE
  BY <1>1, TInvFacts, Numbers DEF IDLE, VBE
<1>3. Ready(IDLE) /\ Ready(VBE)
  BY <1>1, <1>2 DEF Running, Ready
<1>4. PICK p \in Low : IDLE \in Elems(fifo, p)
  BY <1>1, <1>2, <1>3 DEF Members
<1>5. q.head[p] # NIL
  <2>1. Linked(q, fifo[p], p) /\ fifo[p] \in Seq(Task)
    BY <1>1, <1>2, LowFacts DEF Lists, Listed, Represents
  <2>2. fifo[p] # <<>>
    BY <1>4, <2>1 DEF Elems
  <2>3. fifo[p][1] \in Task
    BY <2>1, <2>2
  <2> QED
    BY <2>1, <2>2, <2>3, Numbers DEF Linked
<1>6. dequeued(q) # NIL
  BY <1>2, <1>5, DequeueNone, LowFacts
<1>7. PICK h : h = highest_ready_prio(q)
  OBVIOUS
<1>8. h \in Prio /\ dequeued(q) \in Task /\ dequeued(q) = q.head[h]
  BY <1>2, <1>6, <1>7, DequeueFields
<1>9. CASE h = TopPrio
  BY <1>1, <1>3, <1>6, <1>8, <1>9 DEF Lists, Listed
<1>10. CASE h # TopPrio
  <2>1. h \in Low
    BY <1>8, <1>10, LowFacts
  <2>2. fifo[h] # <<>> /\ dequeued(q) = fifo[h][1]
    BY <1>1, <1>2, <1>6, <1>7, <2>1, LowFacts, DequeueRepresents DEF Lists, Listed
  <2>3. 1 \in 1 .. Len(fifo[h])
    BY <1>2, <1>8, <2>2
  <2>4. dequeued(q) \in Elems(fifo, h)
    BY <2>2, <2>3 DEF Elems
  <2>5. dequeued(q) # VBE /\ pcb[dequeued(q)].priority = h
    BY <1>1, <1>8, <2>1, <2>4 DEF Lists, Listed, Members
  <2> QED
    BY <1>1, <1>6, <1>8, <2>4, <2>5 DEF Members
<1> QED
  BY <1>9, <1>10
-----------------------------------------------------------------------------
(* The tasks' places in the life cycle of the system. *)
LEMMA Places ==
  /\ {BOOT, INIT, IDLE, VBE, WORKER} \subseteq Task
  /\ INIT \in User /\ User \subseteq Task /\ IDLE \notin User /\ VBE \notin User
  /\ BOOT \notin User /\ WORKER \notin User /\ IDLE # VBE /\ BOOT # VBE /\ WORKER # VBE
  /\ WORKER # IDLE /\ BOOT # IDLE
  /\ \A t \in Task : t >= 5 => t \in User /\ t # VBE /\ t # IDLE
BY Numbers DEF User, Kernel, BOOT, INIT, IDLE, VBE, WORKER

(* The boot tasks' queues are the result of three enqueues. *)
LEMMA InitLists ==
  ASSUME Init
  PROVE  /\ Lists
         /\ \A t \in Task, p \in Low : t \in Elems(fifo, p) <=>
              <<t, p>> \in {<<IDLE, 0>>, <<INIT, TopPrio - 1>>, <<WORKER, WorkerPrio>>}
<1>1. /\ 0 \in Low /\ TopPrio - 1 \in Low /\ WorkerPrio \in Low
      /\ IDLE \in Task \ {VBE} /\ INIT \in Task \ {VBE} /\ WORKER \in Task \ {VBE}
      /\ VBE \in Task /\ IDLE # INIT /\ IDLE # WORKER /\ INIT # WORKER
  BY Numbers, SchedulerAssumption DEF Low, IDLE, INIT, WORKER, VBE
<1>2. PICK f0 : f0 = [p \in Prio |-> <<>>]
  OBVIOUS
<1>3. PICK f1 : f1 = Put(f0, 0, IDLE)
  OBVIOUS
<1>4. PICK f2 : f2 = Put(f1, TopPrio - 1, INIT)
  OBVIOUS
<1>5. PICK r1 : r1 = enqueue(EmptyRunQueue, IDLE, 0)
  OBVIOUS
<1>6. PICK r2 : r2 = enqueue(r1, INIT, TopPrio - 1)
  OBVIOUS
<1>7. q = enqueue(r2, WORKER, WorkerPrio) /\ fifo = Put(f2, WorkerPrio, WORKER)
  BY <1>2, <1>3, <1>4, <1>5, <1>6 DEF Init
<1>8. /\ f0 \in [Prio -> Seq(Task)] /\ f1 \in [Prio -> Seq(Task)]
      /\ f2 \in [Prio -> Seq(Task)]
  <2>1. f0 \in [Prio -> Seq(Task)]
    BY <1>2
  <2> QED
    BY <1>1, <1>3, <1>4, <2>1, PutType, LowFacts
<1>9. /\ EmptyRunQueue \in RunQueues /\ WellFormed(EmptyRunQueue)
      /\ r1 \in RunQueues /\ WellFormed(r1) /\ r2 \in RunQueues /\ WellFormed(r2)
  BY <1>1, <1>5, <1>6, LowFacts, EmptyWellFormed, EnqueueWellFormed
<1>10. Listed(EmptyRunQueue, f0) /\ \A x \in Low : Elems(f0, x) = {}
  <2>1. \A x \in Prio : f0[x] = <<>> /\ Len(f0[x]) = 0
    BY <1>2
  <2>2. \A x \in Low : Elems(f0, x) = {}
    BY <2>1, LowFacts DEF Elems
  <2>3. Represents(EmptyRunQueue, f0, Low)
    BY <2>1, LowFacts DEF Represents, Linked, Disjoint, EmptyRunQueue
  <2> QED
    BY <1>1, <2>1, <2>2, <2>3, LowFacts DEF Listed, EmptyRunQueue
<1>11. /\ Listed(r1, f1) /\ Elems(f1, 0) = Elems(f0, 0) \cup {IDLE}
       /\ \A x \in Low \ {0} : Elems(f1, x) = Elems(f0, x)
  <2>1. \A x \in Low : IDLE \notin Elems(f0, x)
    BY <1>10
  <2>2. PICK z \in Low : z = 0
    BY <1>1
  <2>3. PICK r0 : r0 = EmptyRunQueue
    OBVIOUS
  <2>4. /\ r0 \in RunQueues /\ WellFormed(r0) /\ Listed(r0, f0)
        /\ r1 = enqueue(r0, IDLE, z) /\ f1 = Put(f0, z, IDLE)
    BY <1>3, <1>5, <1>9, <1>10, <2>2, <2>3
  <2>5. /\ Listed(r1, f1) /\ Elems(f1, z) = Elems(f0, z) \cup {IDLE}
        /\ \A x \in Low \ {z} : Elems(f1, x) = Elems(f0, x)
    <3>1. IDLE \in Task \ {VBE} /\ f0 \in [Prio -> Seq(Task)]
      BY <1>1, <1>8
    <3> QED
      BY <2>1, <2>4, <3>1, EnqueueListed
  <2> QED
    BY <2>2, <2>5
<1>12. /\ Listed(r2, f2) /\ Elems(f2, TopPrio - 1) = Elems(f1, TopPrio - 1) \cup {INIT}
       /\ \A x \in Low \ {TopPrio - 1} : Elems(f2, x) = Elems(f1, x)
  <2>1. \A x \in Low : INIT \notin Elems(f1, x)
    BY <1>1, <1>10, <1>11
  <2> QED
    BY <1>1, <1>4, <1>6, <1>8, <1>9, <1>11, <2>1, EnqueueListed
<1>13. /\ Listed(q, fifo) /\ Elems(fifo, WorkerPrio) = Elems(f2, WorkerPrio) \cup {WORKER}
       /\ \A x \in Low \ {WorkerPrio} : Elems(fifo, x) = Elems(f2, x)
  <2>1. \A x \in Low : WORKER \notin Elems(f2, x)
    BY <1>1, <1>10, <1>11, <1>12
  <2> QED
    BY <1>1, <1>7, <1>8, <1>9, <1>12, <2>1, EnqueueListed
<1>14. ASSUME NEW t \in Task, NEW p \in Low
       PROVE  t \in Elems(fifo, p) <=>
                \/ t = IDLE /\ p = 0
                \/ t = INIT /\ p = TopPrio - 1
                \/ t = WORKER /\ p = WorkerPrio
  <2>1. t \in Elems(f1, p) <=> t = IDLE /\ p = 0
    BY <1>10, <1>11
  <2>2. t \in Elems(f2, p) <=> t \in Elems(f1, p) \/ (t = INIT /\ p = TopPrio - 1)
    BY <1>12
  <2>3. t \in Elems(fifo, p) <=> t \in Elems(f2, p) \/ (t = WORKER /\ p = WorkerPrio)
    BY <1>13
  <2> QED
    BY <2>1, <2>2, <2>3
<1> QED
  BY <1>13, <1>14 DEF Lists

LEMMA InitQ ==
  ASSUME Init
  PROVE  QInv
<1>1. TInv
  BY InitType
<1>2. /\ 0 \in Low /\ TopPrio - 1 \in Low /\ WorkerPrio \in Low /\ TopPrio \notin Low
  BY Numbers, SchedulerAssumption DEF Low
<1>3. /\ pcb = [t \in Task |-> BootPCB(t)] /\ zombie_list = {} /\ next_pid = 5
      /\ cpu = "enter" /\ work = {}
  BY DEF Init
<1>4. /\ pcb[BOOT] = [NewTask(0, NIL) EXCEPT !.state = "BLOCKED"]
      /\ pcb[INIT] = NewTask(TopPrio - 1, 1) /\ pcb[IDLE] = NewTask(0, 2)
      /\ pcb[VBE] = NewTask(TopPrio, 3) /\ pcb[WORKER] = NewTask(WorkerPrio, 4)
  BY <1>3, Places DEF BootPCB, BOOT, INIT, IDLE, VBE, WORKER
<1>5. \A t \in Task \ {BOOT, INIT, IDLE, VBE, WORKER} : pcb[t] = Unused
  BY <1>3 DEF BootPCB
<1>6. \A x, k : /\ NewTask(x, k).state = "READY" /\ NewTask(x, k).priority = x
                /\ NewTask(x, k).original_priority = x /\ NewTask(x, k).waiting_on = NIL
  BY DEF NewTask
<1>7. /\ Unused.state = "UNUSED" /\ Unused.priority = 0 /\ Unused.original_priority = 0
      /\ Unused.waiting_on = NIL
  BY DEF Unused, NewTask
<1>8. /\ pcb[BOOT].state = "BLOCKED" /\ pcb[BOOT].priority = 0
      /\ pcb[BOOT].original_priority = 0 /\ pcb[BOOT].waiting_on = NIL
  BY <1>4 DEF NewTask
<1>9. Lists /\ \A t \in Task, p \in Low : t \in Elems(fifo, p) <=>
              <<t, p>> \in {<<IDLE, 0>>, <<INIT, TopPrio - 1>>, <<WORKER, WorkerPrio>>}
  BY InitLists
<1>10. Members
  <2>1. pcb[VBE].priority = TopPrio
    BY <1>4, <1>6
  <2>2. ASSUME NEW t \in Task \ {VBE}
        PROVE  /\ pcb[t].priority \in Low /\ pcb[t].original_priority \in Low
               /\ pcb[t].state = "READY" <=> t \in {INIT, IDLE, WORKER}
    <3>1. CASE t = BOOT
      BY <1>2, <1>8, <3>1 DEF BOOT, INIT, IDLE, WORKER
    <3>2. CASE t \in {INIT, IDLE, WORKER}
      BY <1>2, <1>4, <1>6, <3>2
    <3>3. CASE t \notin {BOOT, INIT, IDLE, WORKER}
      <4>1. pcb[t] = Unused
        BY <1>5, <3>3
      <4> QED
        BY <1>2, <1>7, <3>3, <4>1
    <3> QED
      BY <3>1, <3>2, <3>3
  <2>3. \A t \in Task, p \in Low : t \in Elems(fifo, p) => pcb[t].priority = p
    BY <1>4, <1>6, <1>9
  <2>4. ASSUME NEW t \in Task \ {VBE}
        PROVE  Ready(t) <=> t \in Elems(fifo, pcb[t].priority)
    BY <1>4, <1>6, <1>9, <2>2 DEF Ready
  <2> QED
    BY <2>1, <2>2, <2>3, <2>4 DEF Members
<1>11. \A t \in Task : pcb[t].waiting_on = NIL /\ pcb[t].state # "RUNNING"
  <2> SUFFICES ASSUME NEW t \in Task
               PROVE  pcb[t].waiting_on = NIL /\ pcb[t].state # "RUNNING"
    OBVIOUS
  <2>1. CASE t \in {INIT, IDLE, VBE, WORKER}
    BY <1>4, <1>6, <2>1
  <2>2. CASE t \notin {BOOT, INIT, IDLE, VBE, WORKER}
    <3>1. pcb[t] = Unused
      BY <1>5, <2>2
    <3> QED
      BY <1>7, <3>1
  <2> QED
    BY <1>8, <2>1, <2>2
<1>12. \A t \in Task : t >= 5 => pcb[t].state = "UNUSED"
  BY <1>5, <1>7, Places DEF BOOT, INIT, IDLE, VBE, WORKER
<1>13. Waiters /\ Running /\ Dead
  BY <1>3, <1>4, <1>6, <1>11, <1>12 DEF Waiters, Running, Dead
<1> QED
  BY <1>1, <1>9, <1>10, <1>13 DEF QInv
-----------------------------------------------------------------------------
(* The fields of a PCB that its place in the queues depends on. *)
Kept(a, b) ==
  /\ a.priority = b.priority /\ a.original_priority = b.original_priority
  /\ a.waiting_on = b.waiting_on

LEMMA StateSet ==
  ASSUME NEW r \in PCB, NEW s
  PROVE  /\ Kept([r EXCEPT !.state = s], r) /\ [r EXCEPT !.state = s].state = s
         /\ [r EXCEPT !.state = s].alarm_ticks = r.alarm_ticks
BY DEF PCB, Kept

LEMMA TakenKept ==
  ASSUME TInv, NEW t \in Task
  PROVE  Kept(Taken(t), pcb[t]) /\ Taken(t).state = pcb[t].state
<1>1. PICK r \in PCB : r = pcb[t]
  BY TInvFacts
<1>2. PICK a, b : Taken(t) = [r EXCEPT !.signal_bitmask = a, !.in_signal_handler = b]
  BY <1>1 DEF Taken
<1>3. LET u == [r EXCEPT !.signal_bitmask = a, !.in_signal_handler = b]
      IN  Kept(u, r) /\ u.state = r.state
  BY DEF PCB, Kept
<1> QED
  BY <1>1, <1>2, <1>3

LEMMA RaisedKept ==
  ASSUME TInv, NEW t \in Task, NEW sig \in Signals, NEW n,
         n = IF t \in Kernel THEN pcb[t]
             ELSE [pcb[t] EXCEPT !.signal_bitmask = @ \cup {sig}]
  PROVE  n \in PCB /\ Kept(n, pcb[t]) /\ n.state = pcb[t].state
<1>1. PICK r \in PCB : r = pcb[t]
  BY TInvFacts
<1>2. PICK S \in SUBSET Signals : S = r.signal_bitmask \cup {sig}
  BY DEF PCB
<1>3. LET u == [r EXCEPT !.signal_bitmask = S]
      IN  u \in PCB /\ Kept(u, r) /\ u.state = r.state
  BY DEF PCB, Kept
<1>4. n = r \/ n = [r EXCEPT !.signal_bitmask = S]
  BY <1>1, <1>2
<1> QED
  BY <1>1, <1>3, <1>4 DEF Kept

LEMMA QInvFacts ==
  ASSUME QInv
  PROVE  TInv /\ Lists /\ Members /\ Waiters /\ Running /\ Dead
BY DEF QInv

(* A system call or a kernel thread that changes its own PCB only, and not *)
(* its place among the tasks that are not READY.                           *)
LEMMA CallQ ==
  ASSUME QInv, TInv', cpu \in {"run", "ret"}, UNCHANGED <<q, fifo>>,
         UNCHANGED <<zombie_list, next_pid, current, dying, work>>,
         cpu' \in {"run", "ret", "block", "enter", "panic"},
         \A t \in Task \ {current} : pcb'[t] = pcb[t],
         pcb'[current].priority = pcb[current].priority,
         pcb'[current].original_priority = pcb[current].original_priority,
         \/ pcb'[current].state = "RUNNING"
         \/ /\ pcb'[current].state = "BLOCKED" /\ cpu' \in {"block", "enter"}
            /\ current \notin {IDLE, VBE},
         \/ pcb'[current].waiting_on = NIL
         \/ /\ current \in User /\ pcb'[current].state = "BLOCKED"
            /\ pcb'[current].alarm_ticks = 0
  PROVE  QInv'
<1> USE QInvFacts
<1>1. current \in Task /\ pcb[current].state = "RUNNING" /\ cpu # "panic"
  BY TInvFacts, Places DEF Running
<1>2. Lists'
  BY DEF Lists
<1>3. Members'
  <2>1. \A t \in Task : Quiet(t)
    BY <1>1 DEF Quiet, Ready
  <2> QED
    BY <1>1, <2>1, QuietMembers
<1>4. Waiters'
  BY <1>1 DEF Waiters
<1>5. Running'
  BY <1>1, Places DEF Running
<1>6. Dead'
  BY <1>1, Places DEF Dead
<1> QED
  BY <1>2, <1>3, <1>4, <1>5, <1>6 DEF QInv

(* task_exit() up to its loop, called by the task that is RUNNING. *)
LEMMA ExitQ ==
  ASSUME QInv, TInv', cpu \in {"run", "ret"}, UNCHANGED <<q, fifo>>,
         UNCHANGED <<zombie_list, next_pid, current>>, current \in User,
         NEW r \in PCB, Kept(r, pcb[current]), r.state = "RUNNING",
         task_exit(current, r)
  PROVE  QInv'
<1> USE QInvFacts
<1>1. /\ current \in Task /\ pcb[current].state = "RUNNING" /\ cpu # "panic"
      /\ pcb[current].waiting_on = NIL /\ current # NIL /\ current # VBE /\ current # IDLE
      /\ pcb \in [Task -> PCB] /\ task_list \subseteq Task
  BY TInvFacts, Numbers, Places DEF Running, Waiters
<1>2. CASE current = INIT
  <2>1. cpu' = "panic" /\ pcb' = [pcb EXCEPT ![current] = r] /\ UNCHANGED <<dying, work>>
    BY <1>2 DEF task_exit
  <2>2. pcb'[current] = r /\ \A t \in Task \ {current} : pcb'[t] = pcb[t]
    BY <1>1, <2>1
  <2> QED
    BY <1>1, <2>1, <2>2, CallQ DEF Kept
<1>3. CASE current # INIT
  <2>1. /\ cpu' = "exit" /\ dying' = current
        /\ pcb' = [pcb EXCEPT ![current] = [r EXCEPT !.state = "TERMINATED"]]
        /\ work' = {u \in task_list : pcb[u].waiting_on = current}
    BY <1>3 DEF task_exit
  <2>2. \A t \in Task \ {current} : pcb'[t] = pcb[t]
    BY <1>1, <2>1
  <2>3. pcb'[current].state = "TERMINATED" /\ Kept(pcb'[current], pcb[current])
    BY <1>1, <2>1, StateSet DEF Kept
  <2>4. Lists'
    BY DEF Lists
  <2>5. Members'
    <3>1. \A t \in Task : Quiet(t)
      BY <1>1, <2>2, <2>3 DEF Quiet, Ready, Kept
    <3> QED
      BY <1>1, <3>1, QuietMembers
  <2>6. Waiters'
    BY <1>1, <2>1, <2>2, <2>3 DEF Waiters, Kept
  <2>7. Running'
    BY <1>1, <2>1, <2>2, <2>3, Places DEF Running
  <2>8. Dead'
    BY <1>1, <2>1, <2>2, <2>3, Places DEF Dead
  <2> QED
    BY <2>4, <2>5, <2>6, <2>7, <2>8 DEF QInv
<1> QED
  BY <1>2, <1>3

(* A wake-up of a task that waits for no exit. *)
LEMMA WakeQ ==
  ASSUME QInv, TInv', cpu \in {"run", "ret", "block", "tick"}, cpu' \in {cpu, "ret"},
         cpu' = "ret" => cpu \in {"run", "ret"}, trapped' = trapped,
         UNCHANGED <<zombie_list, next_pid, current, dying>>, work' \subseteq work,
         NEW t \in Task, pcb[t].waiting_on = NIL, NEW r \in PCB,
         Kept(r, pcb[t]), r.state = pcb[t].state, Wake(t, r)
  PROVE  QInv'
<1> USE QInvFacts
<1>1. /\ current \in Task /\ pcb \in [Task -> PCB] /\ cpu # "panic" /\ VBE \in Task
      /\ work \subseteq Task
  BY TInvFacts, Places
<1>2. CASE r.state = "BLOCKED"
  <2>1. pcb' = [pcb EXCEPT ![t] = [r EXCEPT !.state = "READY"]] /\ Enqueue(t)
    BY <1>2 DEF Wake
  <2>2. /\ pcb'[t].state = "READY" /\ Kept(pcb'[t], pcb[t])
        /\ \A u \in Task \ {t} : pcb'[u] = pcb[u]
    BY <1>1, <2>1, StateSet DEF Kept
  <2>3. t # VBE /\ t # IDLE /\ ~Ready(t)
    BY <1>2 DEF Running, Ready
  <2>4. pcb[t].priority \in Low /\ pcb[t].original_priority \in Low
    BY <2>3 DEF Members
  <2>5. Lists' /\ Members'
    BY <1>1, <2>1, <2>2, <2>3, <2>4, EnqueueMembers DEF Kept
  <2>6. Waiters'
    BY <1>1, <2>2 DEF Waiters, Kept
  <2>7. Running'
    BY <1>1, <1>2, <2>2, <2>3, Places DEF Running
  <2>8. Dead'
    BY <1>1, <1>2, <2>2, Places DEF Dead
  <2> QED
    BY <2>5, <2>6, <2>7, <2>8 DEF QInv
<1>3. CASE r.state # "BLOCKED"
  <2>1. pcb' = [pcb EXCEPT ![t] = r] /\ q' = q /\ fifo' = fifo
    BY <1>3 DEF Wake, queues
  <2>2. /\ pcb'[t].state = pcb[t].state /\ Kept(pcb'[t], pcb[t])
        /\ \A u \in Task \ {t} : pcb'[u] = pcb[u]
    BY <1>1, <2>1
  <2>3. Lists'
    BY <2>1 DEF Lists
  <2>4. Members'
    <3>1. \A u \in Task : Quiet(u)
      BY <2>2 DEF Quiet, Ready, Kept
    <3> QED
      BY <1>1, <2>1, <3>1, QuietMembers
  <2>5. Waiters'
    BY <1>1, <2>2 DEF Waiters, Kept
  <2>6. Running'
    BY <1>1, <2>2, Places DEF Running
  <2>7. Dead'
    BY <1>1, <2>2, Places DEF Dead
  <2> QED
    BY <2>3, <2>4, <2>5, <2>6, <2>7 DEF QInv
<1> QED
  BY <1>2, <1>3
-----------------------------------------------------------------------------
LEMMA ForkQ ==
  ASSUME QInv, TInv', sys_fork
  PROVE  QInv'
<1> USE QInvFacts
<1>1. /\ cpu = "run" /\ current \in User /\ current \in Task /\ pcb \in [Task -> PCB]
      /\ pcb[current].state = "RUNNING" /\ pcb[current].waiting_on = NIL
      /\ current # VBE /\ current # IDLE /\ next_pid \in Task /\ next_pid \in Nat
  BY TInvFacts, Places DEF sys_fork, task_fork, InUserMode, Running, Waiters
<1>2. CASE CanAllocStack
  <2>1. PICK c \in Task : c = next_pid
    BY <1>1
  <2>2. PICK r \in PCB : r = pcb[current]
    BY <1>1
  <2>3. PICK n : n = [r EXCEPT !.state = "READY", !.kstack = NewStack,
                        !.signal_bitmask = {}, !.signal_handlers = {}, !.alarm_ticks = 0]
    OBVIOUS
  <2>4. n.state = "READY" /\ Kept(n, r)
    BY <2>3 DEF PCB, Kept
  <2>5. /\ pcb' = [pcb EXCEPT ![c] = n] /\ Enqueue(c) /\ cpu' = "ret"
        /\ next_pid' = next_pid + 1
        /\ UNCHANGED <<zombie_list, trapped, current, dying, work>>
    BY <1>2, <2>1, <2>2, <2>3 DEF sys_fork, task_fork
  <2>6. /\ pcb'[c] = n /\ \A t \in Task \ {c} : pcb'[t] = pcb[t]
    BY <1>1, <2>5
  <2>7. pcb[c].state = "UNUSED" /\ c \in User /\ c # VBE /\ c # IDLE /\ c # current
    BY <1>1, <2>1, Places DEF Dead
  <2>8. Lists' /\ Members'
    <3>1. n.priority \in Low /\ n.original_priority \in Low
      BY <1>1, <2>2, <2>4 DEF Members, Kept
    <3> QED
      BY <1>1, <2>4, <2>5, <2>6, <2>7, <3>1, EnqueueMembers DEF Ready
  <2>9. Waiters'
    BY <1>1, <2>2, <2>4, <2>5, <2>6 DEF Waiters, Kept
  <2>10. Running'
    BY <1>1, <2>4, <2>5, <2>6, <2>7, Places DEF Running
  <2>11. Dead'
    BY <1>1, <2>1, <2>5, <2>6, <2>7, Places DEF Dead
  <2> QED
    BY <2>8, <2>9, <2>10, <2>11 DEF QInv
<1>3. CASE ~CanAllocStack
  BY <1>1, <1>3, CallQ DEF sys_fork, task_fork, queues, lists
<1> QED
  BY <1>2, <1>3

LEMMA SyscallQ ==
  ASSUME QInv, TInv', ~WakeWaiters, Syscall
  PROVE  QInv'
<1> USE QInvFacts
<1>1. /\ cpu = "run" /\ current \in User /\ current \in Task /\ pcb \in [Task -> PCB]
      /\ pcb[current].state = "RUNNING" /\ pcb[current].waiting_on = NIL
      /\ current # VBE /\ current # IDLE /\ task_list \subseteq Task
  <2>1. InUserMode
    BY DEF Syscall, sys_fork, task_fork, sys_exit, sys_waitpid, sys_kill, sys_signal, sys_sigret,
           sys_alarm, sys_pause
  <2> QED
    BY <2>1, TInvFacts, Places DEF InUserMode, Running, Waiters
<1>2. PICK r \in PCB : r = pcb[current]
  BY <1>1
<1>3. ASSUME sys_exit PROVE QInv'
  BY <1>1, <1>2, <1>3, ExitQ DEF sys_exit, queues, lists, Kept
<1>4. ASSUME NEW t \in Task \cup {NIL}, sys_waitpid(t) PROVE QInv'
  <2>1. CASE t \in task_list \cup {NIL}
    <3>1. PICK n : n = [r EXCEPT !.waiting_on = t, !.state = "BLOCKED"]
      OBVIOUS
    <3>2. /\ n.state = "BLOCKED" /\ n.waiting_on = t /\ n.alarm_ticks = r.alarm_ticks
          /\ n.priority = r.priority /\ n.original_priority = r.original_priority
      BY <3>1 DEF PCB
    <3>3. /\ pcb' = [pcb EXCEPT ![current].waiting_on = t, ![current].state = "BLOCKED"]
          /\ cpu' = "enter" /\ (r.alarm_ticks = 0 \/ t = NIL)
          /\ UNCHANGED <<queues, lists, trapped, current, dying, work>>
      BY <1>2, <1>4, <2>1 DEF sys_waitpid
    <3>4. pcb'[current] = n /\ \A u \in Task \ {current} : pcb'[u] = pcb[u]
      BY <1>1, <1>2, <3>1, <3>3
    <3> QED
      BY <1>1, <1>2, <3>2, <3>3, <3>4, CallQ DEF queues, lists
  <2>2. CASE t \notin task_list \cup {NIL}
    BY <1>1, <1>4, <2>2, CallQ DEF sys_waitpid, queues, lists
  <2> QED
    BY <2>1, <2>2
<1>5. ASSUME NEW t \in Killed, NEW sig \in Signals, sys_kill(t, sig) PROVE QInv'
  <2>1. t \in Task /\ pcb[t].waiting_on = NIL
    BY <1>5, SchedulerAssumption DEF sys_kill, Wakeable
  <2>2. CASE t \in task_list
    <3>1. PICK n : n = IF t \in Kernel THEN pcb[t]
                       ELSE [pcb[t] EXCEPT !.signal_bitmask = @ \cup {sig}]
      OBVIOUS
    <3>2. n \in PCB /\ Kept(n, pcb[t]) /\ n.state = pcb[t].state
      BY <1>1, <2>1, <3>1, RaisedKept
    <3>3. Wake(t, n) /\ cpu' = "ret" /\ UNCHANGED <<lists, trapped, current, dying, work>>
      BY <1>5, <2>2, <3>1 DEF sys_kill, task_ipc_signal_raise
    <3> QED
      BY <1>1, <2>1, <3>2, <3>3, WakeQ DEF lists
  <2>3. CASE t \notin task_list
    BY <1>1, <1>5, <2>3, CallQ DEF sys_kill, queues, lists
  <2> QED
    BY <2>2, <2>3
<1>6. ASSUME NEW sig \in Handled, NEW on \in BOOLEAN, sys_signal(sig, on) PROVE QInv'
  <2>1. PICK h : pcb' = [pcb EXCEPT ![current].signal_handlers = h]
    BY <1>6 DEF sys_signal
  <2>2. LET n == [r EXCEPT !.signal_handlers = h] IN Kept(n, r) /\ n.state = r.state
    BY DEF PCB, Kept
  <2>3. Kept(pcb'[current], r) /\ pcb'[current].state = r.state
        /\ \A u \in Task \ {current} : pcb'[u] = pcb[u]
    BY <1>1, <1>2, <2>1, <2>2
  <2> QED
    BY <1>1, <1>2, <1>6, <2>3, CallQ DEF sys_signal, queues, lists, Kept
<1>7. ASSUME sys_sigret PROVE QInv'
  <2>1. LET n == [r EXCEPT !.in_signal_handler = FALSE]
        IN  Kept(n, r) /\ n.state = r.state
    BY DEF PCB, Kept
  <2>2. Kept(pcb'[current], r) /\ pcb'[current].state = r.state
        /\ \A u \in Task \ {current} : pcb'[u] = pcb[u]
    BY <1>1, <1>2, <1>7, <2>1 DEF sys_sigret
  <2> QED
    BY <1>1, <1>2, <1>7, <2>2, CallQ DEF sys_sigret, queues, lists, Kept
<1>8. ASSUME NEW k \in 0 .. MaxAlarm, sys_alarm(k) PROVE QInv'
  <2>1. LET n == [r EXCEPT !.alarm_ticks = k] IN Kept(n, r) /\ n.state = r.state
    BY DEF PCB, Kept
  <2>2. Kept(pcb'[current], r) /\ pcb'[current].state = r.state
        /\ \A u \in Task \ {current} : pcb'[u] = pcb[u]
    BY <1>1, <1>2, <1>8, <2>1 DEF sys_alarm
  <2> QED
    BY <1>1, <1>2, <1>8, <2>2, CallQ DEF sys_alarm, queues, lists, Kept
<1>9. ASSUME sys_pause PROVE QInv'
  BY <1>1, <1>9, CallQ DEF sys_pause, queues, lists
<1> QED
  BY <1>3, <1>4, <1>5, <1>6, <1>7, <1>8, <1>9, ForkQ DEF Syscall
-----------------------------------------------------------------------------
(* Decay keeps a priority below the compositor's. *)
LEMMA DecayedLow ==
  ASSUME NEW r \in PCB, r.priority \in Low, r.original_priority \in Low
  PROVE  /\ Decayed(r).priority \in Low /\ Decayed(r).original_priority \in Low
         /\ Decayed(r).state = r.state /\ Decayed(r).waiting_on = r.waiting_on
         /\ Decayed(r).alarm_ticks = r.alarm_ticks
<1> DEFINE used == IF r.quanta_used < QuantaPunish THEN r.quanta_used + 1 ELSE QuantaPunish
           hit  == r.reset_count + 1 >= ResetDecay
           orig == IF hit /\ r.original_priority > 0 THEN r.original_priority - 1
                                                     ELSE r.original_priority
           low  == IF r.priority > DecayRate THEN r.priority - DecayRate ELSE 0
           zero == IF hit THEN 0 ELSE r.reset_count + 1
<1>0. TopPrio \in Nat /\ DecayRate \in Nat \ {0}
  BY Numbers, SchedulerAssumption
<1>a. ASSUME NEW n \in Low PROVE n - 1 \in Low \/ n = 0
  BY <1>0 DEF Low
<1>b. ASSUME NEW n \in Low, n > DecayRate PROVE n - DecayRate \in Low
  BY <1>0, <1>b DEF Low
<1>c. 0 \in Low
  BY Numbers DEF Low
<1>d. orig \in Low
  <2>1. CASE hit /\ r.original_priority > 0
    BY <1>a, <2>1
  <2>2. CASE ~(hit /\ r.original_priority > 0)
    BY <2>2
  <2> QED
    BY <2>1, <2>2
<1>1. orig \in Low /\ low \in Low
  BY <1>b, <1>c, <1>d
<1>2. \/ Decayed(r) = [r EXCEPT !.quanta_used = used]
      \/ Decayed(r) = [r EXCEPT !.quanta_used = used, !.priority = orig,
                                !.original_priority = orig, !.reset_count = zero]
      \/ Decayed(r) = [r EXCEPT !.quanta_used = 0, !.priority = low]
  BY DEF Decayed
<1> HIDE DEF used, hit, orig, low, zero
<1>3. CASE Decayed(r) = [r EXCEPT !.quanta_used = used]
  BY <1>3 DEF PCB
<1>4. CASE Decayed(r) = [r EXCEPT !.quanta_used = used, !.priority = orig,
                                  !.original_priority = orig, !.reset_count = zero]
  BY <1>1, <1>4 DEF PCB
<1>5. CASE Decayed(r) = [r EXCEPT !.quanta_used = 0, !.priority = low]
  BY <1>1, <1>5 DEF PCB
<1> QED
  BY <1>2, <1>3, <1>4, <1>5

(* The end of the timer interrupt. *)
LEMMA TickTailQ ==
  ASSUME QInv, TInv', NEW r \in [Task -> PCB], NEW from \in Open, TickTail(r, from),
         \A t \in Task : /\ Kept(r[t], pcb[t]) /\ r[t].state = pcb[t].state
                         /\ pcb[t].waiting_on # NIL => r[t].alarm_ticks = 0,
         from \in {"run", "ret"} => pcb[current].state = "RUNNING",
         cpu \in Open \cup {"tick"}, UNCHANGED <<zombie_list, next_pid, current, dying>>
  PROVE  QInv'
<1> USE QInvFacts
<1>1. /\ current \in Task /\ cpu # "panic" /\ VBE \in Task /\ IDLE \in Task
      /\ cpu' \in Open \cup {"enter"}
  BY TInvFacts, Places DEF TickTail, Open
<1>2. \A t \in Task \ {current} : pcb'[t] = r[t]
  BY <1>1 DEF TickTail
<1>3. \/ pcb'[current] = r[current]
      \/ /\ pcb'[current] = Decayed(r[current]) /\ current \in User
         /\ r[current].state = "RUNNING"
  BY <1>1 DEF TickTail
<1>4. \A t \in Task : /\ pcb'[t].state = pcb[t].state
                      /\ pcb'[t].waiting_on = pcb[t].waiting_on
                      /\ pcb[t].waiting_on # NIL => pcb'[t].alarm_ticks = 0
                      /\ \/ /\ pcb'[t].priority = pcb[t].priority
                            /\ pcb'[t].original_priority = pcb[t].original_priority
                         \/ /\ t # VBE /\ pcb[t].state = "RUNNING"
                            /\ pcb'[t].priority \in Low /\ pcb'[t].original_priority \in Low
  <2>1. CASE pcb'[current] = r[current]
    BY <1>2, <2>1 DEF Kept
  <2>2. CASE /\ pcb'[current] = Decayed(r[current]) /\ current \in User
             /\ r[current].state = "RUNNING"
    <3>1. PICK c \in PCB : c = r[current]
      BY <1>1
    <3>2. current # VBE /\ c.priority \in Low /\ c.original_priority \in Low
      BY <1>1, <2>2, <3>1, Places DEF Members, Kept
    <3>3. /\ Decayed(c).priority \in Low /\ Decayed(c).original_priority \in Low
          /\ Decayed(c).state = c.state /\ Decayed(c).waiting_on = c.waiting_on
          /\ Decayed(c).alarm_ticks = c.alarm_ticks
      BY <3>2, DecayedLow
    <3> QED
      BY <1>1, <1>2, <2>2, <3>1, <3>2, <3>3 DEF Kept
  <2> QED
    BY <1>3, <2>1, <2>2
<1>5. Lists' /\ fifo' = fifo
  <2>1. CASE UNCHANGED queues
    BY <2>1 DEF queues, Lists
  <2>2. CASE Enqueue(VBE)
    <3>1. pcb'[VBE].priority = TopPrio
      BY <1>1, <1>4 DEF Members, Running
    <3> QED
      BY <2>2, <3>1, EnqueueCompositor
  <2> QED
    BY <2>1, <2>2 DEF TickTail
<1>6. Members'
  <2>1. \A t \in Task : Quiet(t)
    BY <1>4 DEF Quiet, Ready
  <2> QED
    BY <1>1, <1>5, <2>1, QuietMembers
<1>7. Waiters'
  BY <1>1, <1>4 DEF Waiters, Open
<1>8. Running'
  <2>1. cpu' \in {from, "enter"}
    BY DEF TickTail
  <2> QED
    BY <1>1, <1>4, <2>1 DEF Running, Open
<1>9. Dead'
  BY <1>1, <1>4, Places DEF Dead, Open
<1> QED
  BY <1>5, <1>6, <1>7, <1>8, <1>9 DEF QInv

LEMMA InterruptQ ==
  ASSUME QInv, TInv', ~WakeWaiters, Interrupt
  PROVE  QInv'
<1> USE QInvFacts
<1>1. /\ current \in Task /\ pcb \in [Task -> PCB] /\ trapped \in Open
      /\ task_list \subseteq Task /\ work \subseteq Task /\ VBE \in Task
  BY TInvFacts, Places
<1>2. ASSUME Tick PROVE QInv'
  <2>1. PICK fired : fired = {t \in task_list : pcb[t].alarm_ticks = 1}
    OBVIOUS
  <2>2. PICK r : r = [t \in Task |->
                    IF t \in task_list /\ pcb[t].alarm_ticks > 0
                    THEN [pcb[t] EXCEPT !.alarm_ticks = @ - 1] ELSE pcb[t]]
    OBVIOUS
  <2>3. /\ cpu \in Open /\ UNCHANGED <<lists, current, dying>>
        /\ IF fired = {}
           THEN TickTail(r, cpu)
           ELSE /\ work' = fired /\ pcb' = r
                /\ cpu' = "tick" /\ trapped' = cpu /\ UNCHANGED queues
    BY <1>2, <2>1, <2>2 DEF Tick, Interruptible
  <2>4. ASSUME NEW t \in Task
        PROVE  /\ r[t] \in PCB /\ Kept(r[t], pcb[t]) /\ r[t].state = pcb[t].state
               /\ pcb[t].waiting_on # NIL => r[t].alarm_ticks = 0
    <3>1. PICK c \in PCB : c = pcb[t]
      BY <1>1
    <3>2. c.alarm_ticks \in 0 .. MaxAlarm /\ MaxAlarm \in Nat
      BY SchedulerAssumption DEF PCB
    <3>3. CASE t \in task_list /\ c.alarm_ticks > 0
      <4>1. PICK k \in 0 .. MaxAlarm : k = c.alarm_ticks - 1
        BY <3>2, <3>3
      <4>2. r[t] = [c EXCEPT !.alarm_ticks = k]
        BY <2>2, <3>1, <3>3, <4>1
      <4>3. pcb[t].waiting_on = NIL
        BY <3>1, <3>3 DEF Waiters
      <4>4. LET u == [c EXCEPT !.alarm_ticks = k]
            IN  u \in PCB /\ Kept(u, c) /\ u.state = c.state
        BY DEF PCB, Kept
      <4> QED
        BY <3>1, <4>2, <4>3, <4>4
    <3>4. CASE ~(t \in task_list /\ c.alarm_ticks > 0)
      BY <2>2, <3>1, <3>4 DEF Kept, Waiters
    <3> QED
      BY <3>3, <3>4
  <2>5. r \in [Task -> PCB]
    BY <2>2, <2>4
  <2>6. cpu \in {"run", "ret"} => pcb[current].state = "RUNNING"
    BY DEF Running
  <2>7. CASE fired = {}
    BY <2>3, <2>4, <2>5, <2>6, <2>7, TickTailQ DEF lists
  <2>8. CASE fired # {}
    <3>1. /\ work' = fired /\ pcb' = r /\ cpu' = "tick" /\ trapped' = cpu
          /\ q' = q /\ fifo' = fifo /\ cpu # "panic" /\ cpu # "pick" /\ cpu # "exit"
          /\ UNCHANGED <<zombie_list, next_pid, current, dying>>
      BY <2>3, <2>8 DEF queues, lists, Open
    <3>2. Lists'
      BY <3>1 DEF Lists
    <3>3. Members'
      <4>1. \A t \in Task : Quiet(t)
        BY <2>4, <3>1 DEF Quiet, Ready, Kept
      <4> QED
        BY <3>1, <4>1, QuietMembers
    <3>4. Waiters'
      <4>1. \A t \in work' : t \in Task /\ pcb[t].waiting_on = NIL
        BY <1>1, <2>1, <3>1 DEF Waiters
      <4> QED
        BY <2>4, <3>1, <4>1 DEF Waiters, Kept
    <3>5. Running'
      BY <1>1, <2>4, <2>6, <3>1, Places DEF Running
    <3>6. Dead'
      BY <2>4, <3>1, Places DEF Dead
    <3> QED
      BY <3>2, <3>3, <3>4, <3>5, <3>6 DEF QInv
  <2> QED
    BY <2>7, <2>8
<1>3. ASSUME TickAlarm PROVE QInv'
  <2>1. /\ cpu = "tick" /\ work # {} /\ UNCHANGED <<lists, cpu, trapped, current, dying>>
        /\ task_ipc_signal_raise(Min(work), SIGALRM) /\ work' = work \ {Min(work)}
    BY <1>3 DEF TickAlarm
  <2>2. PICK t \in work : t = Min(work)
    BY <1>1, <2>1, MinIsLeast, Numbers
  <2>3. t \in Task /\ pcb[t].waiting_on = NIL /\ SIGALRM \in Signals
    BY <1>1, <2>1, SchedulerAssumption DEF Waiters
  <2>4. PICK n : n = IF t \in Kernel THEN pcb[t]
                     ELSE [pcb[t] EXCEPT !.signal_bitmask = @ \cup {SIGALRM}]
    OBVIOUS
  <2>5. n \in PCB /\ Kept(n, pcb[t]) /\ n.state = pcb[t].state
    BY <2>3, <2>4, RaisedKept
  <2>6. Wake(t, n)
    BY <2>1, <2>2, <2>4 DEF task_ipc_signal_raise
  <2> QED
    BY <2>1, <2>3, <2>5, <2>6, WakeQ DEF lists
<1>4. ASSUME TickEnd PROVE QInv'
  <2>1. cpu = "tick" /\ TickTail(pcb, trapped) /\ UNCHANGED <<lists, current, dying>>
    BY <1>4 DEF TickEnd
  <2>2. trapped \in {"run", "ret"} => pcb[current].state = "RUNNING"
    BY <2>1 DEF Running
  <2>3. \A t \in Task : /\ Kept(pcb[t], pcb[t])
                        /\ pcb[t].waiting_on # NIL => pcb[t].alarm_ticks = 0
    BY DEF Kept, Waiters
  <2> QED
    BY <1>1, <2>1, <2>2, <2>3, TickTailQ DEF lists
<1>5. ASSUME NEW t \in Task, task_unblock(t) PROVE QInv'
  <2>1. /\ cpu \in Open /\ pcb[t].waiting_on = NIL /\ Wake(t, pcb[t])
        /\ UNCHANGED <<lists, cpu, trapped, current, dying, work>>
    BY <1>5 DEF task_unblock, Interruptible, Wakeable
  <2>2. pcb[t] \in PCB /\ Kept(pcb[t], pcb[t])
    BY <1>1 DEF Kept
  <2> QED
    BY <2>1, <2>2, WakeQ DEF lists, Open
<1> QED
  BY <1>2, <1>3, <1>4, <1>5 DEF Interrupt
-----------------------------------------------------------------------------
LEMMA ExitLoopQ ==
  ASSUME QInv, TInv', ExitWake \/ ExitEnd
  PROVE  QInv'
<1> USE QInvFacts
<1>1. /\ current \in Task /\ pcb \in [Task -> PCB] /\ work \subseteq Task /\ cpu = "exit"
      /\ dying \in User /\ dying \in Task /\ pcb[dying].state = "TERMINATED"
  BY TInvFacts, Places DEF ExitWake, ExitEnd, Dead
<1>2. ASSUME ExitWake PROVE QInv'
  <2>1. PICK u : u = Min(work)
    OBVIOUS
  <2>2. /\ pcb' = [pcb EXCEPT ![u].waiting_on = NIL, ![u].state = "READY"]
        /\ Enqueue(u) /\ work' = work \ {u} /\ work # {} /\ cpu' = cpu
        /\ UNCHANGED <<zombie_list, next_pid, trapped, current, dying>>
    BY <1>2, <2>1 DEF ExitWake, lists
  <2>3. u \in work /\ u \in Task
    BY <1>1, <2>1, <2>2, MinIsLeast, Numbers
  <2>4. /\ u \in User /\ pcb[u].state = "BLOCKED" /\ u # VBE /\ u # IDLE /\ u # dying
    BY <1>1, <2>3, Places DEF Waiters
  <2>5. PICK r \in PCB : r = pcb[u]
    BY <1>1, <2>3
  <2>6. PICK n : n = [r EXCEPT !.waiting_on = NIL, !.state = "READY"]
    OBVIOUS
  <2>7. /\ n.state = "READY" /\ n.waiting_on = NIL /\ n.priority = r.priority
        /\ n.original_priority = r.original_priority
    BY <2>6 DEF PCB
  <2>8. pcb'[u] = n /\ \A t \in Task \ {u} : pcb'[t] = pcb[t]
    BY <1>1, <2>2, <2>3, <2>5, <2>6
  <2>9. Lists' /\ Members'
    <3>1. n.priority \in Low /\ n.original_priority \in Low
      BY <2>3, <2>4, <2>5, <2>7 DEF Members
    <3> QED
      BY <1>1, <2>2, <2>3, <2>4, <2>7, <2>8, <3>1, EnqueueMembers DEF Ready
  <2>10. Waiters'
    BY <1>1, <2>2, <2>3, <2>7, <2>8 DEF Waiters
  <2>11. Running'
    BY <1>1, <2>2, <2>4, <2>7, <2>8, Places DEF Running
  <2>12. Dead'
    BY <1>1, <2>2, <2>3, <2>4, <2>8, Places DEF Dead
  <2> QED
    BY <2>9, <2>10, <2>11, <2>12 DEF QInv
<1>3. ASSUME ExitEnd PROVE QInv'
  <2>1. /\ q' = q /\ fifo' = fifo /\ pcb' = pcb /\ cpu' = "enter"
        /\ zombie_list' = zombie_list \cup {dying}
        /\ UNCHANGED <<next_pid, trapped, current, work>>
    BY <1>3 DEF ExitEnd, queues
  <2>2. Lists'
    BY <2>1 DEF Lists
  <2>3. Members'
    <3>1. \A t \in Task : Quiet(t)
      BY <2>1 DEF Quiet, Ready
    <3> QED
      BY <1>1, <2>1, <3>1, QuietMembers
  <2>4. Waiters' /\ Running' /\ Dead'
    BY <1>1, <2>1 DEF Waiters, Running, Dead
  <2> QED
    BY <2>2, <2>3, <2>4 DEF QInv
<1> QED
  BY <1>2, <1>3

LEMMA YieldQ ==
  ASSUME QInv, TInv', YieldEnter \/ \E z \in Task : Reap(z)
  PROVE  QInv'
<1> USE QInvFacts
<1>1. /\ current \in Task /\ pcb \in [Task -> PCB] /\ cpu \in {"enter", "block"}
  BY TInvFacts DEF YieldEnter, Reap
<1>2. ASSUME YieldEnter PROVE QInv'
  <2>1. cpu' = "pick" /\ UNCHANGED <<zombie_list, next_pid, trapped, current, dying, work>>
    BY <1>2 DEF YieldEnter, lists
  <2>2. CASE pcb[current].state = "RUNNING"
    <3>1. PICK r \in PCB : r = pcb[current]
      BY <1>1
    <3>2. /\ pcb' = [pcb EXCEPT ![current].state = "READY"]
          /\ IF current = VBE THEN UNCHANGED queues ELSE Enqueue(current)
      BY <1>2, <2>2 DEF YieldEnter
    <3>3. /\ pcb'[current].state = "READY" /\ Kept(pcb'[current], r)
          /\ \A t \in Task \ {current} : pcb'[t] = pcb[t]
      BY <1>1, <3>1, <3>2, StateSet
    <3>4. Lists' /\ Members'
      <4>1. CASE current = VBE
        <5>1. q' = q /\ fifo' = fifo
          BY <3>2, <4>1 DEF queues
        <5>2. Lists'
          BY <5>1 DEF Lists
        <5>3. \A t \in Task : Quiet(t)
          BY <3>1, <3>3, <4>1 DEF Quiet, Ready, Kept
        <5> QED
          BY <1>1, <5>1, <5>2, <5>3, QuietMembers
      <4>2. CASE current # VBE
        <5>1. pcb'[current].priority \in Low /\ pcb'[current].original_priority \in Low
          BY <1>1, <3>1, <3>3, <4>2 DEF Members, Kept
        <5> QED
          BY <1>1, <2>2, <3>2, <3>3, <4>2, <5>1, EnqueueMembers DEF Ready
      <4> QED
        BY <4>1, <4>2
    <3>5. Waiters'
      BY <1>1, <2>1, <2>2, <3>1, <3>3 DEF Waiters, Kept
    <3>6. Running'
      BY <1>1, <2>1, <3>3, Places DEF Running
    <3>7. Dead'
      BY <1>1, <2>1, <2>2, <3>3, Places DEF Dead
    <3> QED
      BY <3>4, <3>5, <3>6, <3>7 DEF QInv
  <2>3. CASE pcb[current].state # "RUNNING"
    <3>1. q' = q /\ fifo' = fifo /\ pcb' = pcb
      BY <1>2, <2>3 DEF YieldEnter, queues
    <3>2. Lists'
      BY <3>1 DEF Lists
    <3>3. Members'
      <4>1. \A t \in Task : Quiet(t)
        BY <3>1 DEF Quiet, Ready
      <4> QED
        BY <1>1, <3>1, <4>1, QuietMembers
    <3>4. Waiters' /\ Running' /\ Dead'
      BY <1>1, <2>1, <2>3, <3>1 DEF Waiters, Running, Dead
    <3> QED
      BY <3>2, <3>3, <3>4 DEF QInv
  <2> QED
    BY <2>2, <2>3
<1>3. ASSUME NEW z \in Task, Reap(z) PROVE QInv'
  <2>1. /\ z \in zombie_list \ {current} /\ zombie_list' = zombie_list \ {z}
        /\ pcb' = [pcb EXCEPT ![z] = Unused] /\ cpu' = "enter" /\ q' = q /\ fifo' = fifo
        /\ UNCHANGED <<next_pid, trapped, current, dying, work>>
    BY <1>3 DEF Reap, queues
  <2>2. /\ pcb[z].state = "TERMINATED" /\ z \in User /\ z # VBE /\ z # IDLE
    BY <2>1, Places DEF Dead
  <2>3. pcb'[z] = Unused /\ \A t \in Task \ {z} : pcb'[t] = pcb[t]
    BY <1>1, <2>1
  <2>4. /\ Unused.state = "UNUSED" /\ Unused.waiting_on = NIL
        /\ Unused.priority = 0 /\ Unused.original_priority = 0
    BY DEF Unused, NewTask
  <2>5. Lists'
    BY <2>1 DEF Lists
  <2>6. Members'
    <3>1. 0 \in Low
      BY Numbers DEF Low
    <3>2. \A t \in Task : Quiet(t)
      BY <2>2, <2>3, <2>4, <3>1 DEF Quiet, Ready
    <3> QED
      BY <1>1, <2>1, <3>2, QuietMembers
  <2>7. Waiters'
    BY <1>1, <2>1, <2>3, <2>4 DEF Waiters
  <2>8. Running'
    BY <1>1, <2>1, <2>2, <2>3, <2>4, Places DEF Running
  <2>9. Dead'
    BY <1>1, <2>1, <2>2, <2>3, <2>4, Places DEF Dead
  <2> QED
    BY <2>5, <2>6, <2>7, <2>8, <2>9 DEF QInv
<1> QED
  BY <1>2, <1>3

LEMMA PickQ ==
  ASSUME QInv, TInv', PickNone \/ PickOther \/ PickFatal \/ PickReady
  PROVE  QInv'
<1> USE QInvFacts
<1>1. PICK t : t = dequeued(q)
  OBVIOUS
<1>2. /\ cpu = "pick" /\ t # NIL /\ t \in Task /\ Ready(t)
      /\ current \in Task /\ pcb \in [Task -> PCB] /\ task_list \subseteq Task
  BY <1>1, TInvFacts, DequeuedReady DEF PickNone, PickOther, PickFatal, PickReady
<1>3. pcb[t].state = "READY" /\ pcb[t].waiting_on = NIL
  BY <1>2 DEF Ready, Waiters
<1>4. /\ Taken(t) \in PCB /\ Kept(Taken(t), pcb[t]) /\ Taken(t).state = "READY"
      /\ pcb[t] \in PCB /\ Kept(pcb[t], pcb[t])
  BY <1>2, <1>3, TInvFacts, TakenType, TakenKept DEF Kept
<1>5. ASSUME PickFatal PROVE QInv'
  <2>1. /\ Dequeue(t) /\ task_exit(t, Taken(t)) /\ t \in User
        /\ UNCHANGED <<zombie_list, next_pid, trapped, current>>
    BY <1>1, <1>5 DEF PickFatal, Fatal, Deliverable, lists
  <2>2. t # VBE /\ t # IDLE
    BY <2>1, Places
  <2>3. CASE t = INIT
    <3>1. cpu' = "panic" /\ pcb' = [pcb EXCEPT ![t] = Taken(t)]
      BY <2>1, <2>3 DEF task_exit
    <3>2. pcb'[t] = Taken(t) /\ \A u \in Task \ {t} : pcb'[u] = pcb[u]
      BY <1>2, <3>1
    <3>3. Lists' /\ Members'
      BY <1>1, <1>2, <1>4, <2>1, <3>1, <3>2, DequeueMembers DEF Kept
    <3>4. Waiters'
      BY <1>2, <1>3, <1>4, <3>1, <3>2 DEF Waiters, Kept
    <3>5. Running'
      BY <1>2, <1>4, <2>1, <2>2, <3>1, <3>2, Places DEF Running
    <3>6. Dead'
      BY <1>3, <1>4, <2>1, <3>1, <3>2, Places DEF Dead
    <3> QED
      BY <3>3, <3>4, <3>5, <3>6 DEF QInv
  <2>4. CASE t # INIT
    <3>1. PICK n : n = [Taken(t) EXCEPT !.state = "TERMINATED"]
      OBVIOUS
    <3>2. n.state = "TERMINATED" /\ Kept(n, pcb[t])
      BY <1>4, <3>1, StateSet DEF Kept
    <3>3. /\ cpu' = "exit" /\ dying' = t /\ pcb' = [pcb EXCEPT ![t] = n]
          /\ work' = {u \in task_list : pcb[u].waiting_on = t}
      BY <2>1, <2>4, <3>1 DEF task_exit
    <3>4. pcb'[t] = n /\ \A u \in Task \ {t} : pcb'[u] = pcb[u]
      BY <1>2, <3>3
    <3>5. Lists' /\ Members'
      BY <1>1, <1>2, <2>1, <3>2, <3>4, DequeueMembers DEF Kept
    <3>6. Waiters'
      BY <1>2, <1>3, <3>2, <3>3, <3>4 DEF Waiters, Kept
    <3>7. Running'
      BY <1>2, <2>2, <3>2, <3>3, <3>4, Places DEF Running
    <3>8. Dead'
      BY <1>2, <1>3, <2>1, <3>2, <3>3, <3>4, Places DEF Dead
    <3> QED
      BY <3>5, <3>6, <3>7, <3>8 DEF QInv
  <2> QED
    BY <2>3, <2>4
<1>6. ASSUME PickReady PROVE QInv'
  <2>1. PICK r \in PCB : r = IF Deliverable(t) THEN Taken(t) ELSE pcb[t]
    BY <1>4
  <2>2. PICK n : n = [r EXCEPT !.state = "RUNNING"]
    OBVIOUS
  <2>3. n.state = "RUNNING" /\ Kept(n, pcb[t])
    BY <1>4, <2>1, <2>2, StateSet DEF Kept
  <2>4. /\ Dequeue(t) /\ pcb' = [pcb EXCEPT ![t] = n] /\ current' = t /\ cpu' = "run"
        /\ UNCHANGED <<zombie_list, next_pid, trapped, dying, work>>
    BY <1>1, <1>6, <2>1, <2>2 DEF PickReady, lists
  <2>5. pcb'[t] = n /\ \A u \in Task \ {t} : pcb'[u] = pcb[u]
    BY <1>2, <2>4
  <2>6. Lists' /\ Members'
    BY <1>1, <1>2, <2>3, <2>4, <2>5, DequeueMembers DEF Kept
  <2>7. Waiters'
    BY <1>2, <1>3, <2>3, <2>4, <2>5 DEF Waiters, Kept
  <2>8. Running'
    BY <1>2, <2>3, <2>4, <2>5, Places DEF Running
  <2>9. Dead'
    BY <1>2, <1>3, <2>4, <2>5, Places DEF Dead
  <2> QED
    BY <2>6, <2>7, <2>8, <2>9 DEF QInv
<1> QED
  BY <1>1, <1>2, <1>3, <1>5, <1>6 DEF PickNone, PickOther

LEMMA NextQ ==
  ASSUME QInv, ~WakeWaiters, [Next]_vars
  PROVE  QInv'
<1> USE QInvFacts
<1>1. TInv'
  BY NextType
<1>2. current \in Task /\ pcb \in [Task -> PCB] /\ pcb[current] \in PCB
  BY TInvFacts
<1>3. ASSUME Block PROVE QInv'
  <2>1. /\ cpu = "run" /\ current \in User \cup {WORKER} /\ cpu' = "block"
        /\ pcb' = [pcb EXCEPT ![current].state = "BLOCKED"]
        /\ UNCHANGED <<q, fifo, zombie_list, next_pid, current, dying, work>>
    BY <1>3 DEF Block, queues, lists
  <2>2. /\ current \notin {IDLE, VBE} /\ pcb[current].waiting_on = NIL
    BY <1>2, <2>1, Places DEF Running, Waiters
  <2>3. /\ pcb'[current].state = "BLOCKED" /\ Kept(pcb'[current], pcb[current])
        /\ \A t \in Task \ {current} : pcb'[t] = pcb[t]
    BY <1>2, <2>1, StateSet
  <2> QED
    BY <1>1, <2>1, <2>2, <2>3, CallQ DEF Kept
<1>4. ASSUME SyscallReturn PROVE QInv'
  <2>1. /\ cpu = "ret" /\ UNCHANGED <<q, fifo, zombie_list, next_pid, current>>
    BY <1>4 DEF SyscallReturn, queues, lists
  <2>2. pcb[current].state = "RUNNING" /\ pcb[current].waiting_on = NIL
    BY <1>2, <2>1 DEF Running, Waiters
  <2>3. /\ Taken(current) \in PCB /\ Kept(Taken(current), pcb[current])
        /\ Taken(current).state = "RUNNING" /\ Kept(pcb[current], pcb[current])
    BY <1>2, <2>2, TInvFacts, TakenType, TakenKept DEF Kept
  <2>4. CASE Fatal(current)
    <3>1. current \in User /\ task_exit(current, Taken(current))
      BY <1>4, <2>4 DEF SyscallReturn, Fatal, Deliverable
    <3> QED
      BY <1>1, <2>1, <2>3, <3>1, ExitQ
  <2>5. CASE ~Fatal(current)
    <3>1. PICK r : r = IF Deliverable(current) THEN Taken(current) ELSE pcb[current]
      OBVIOUS
    <3>2. pcb' = [pcb EXCEPT ![current] = r] /\ cpu' = "run" /\ UNCHANGED <<dying, work>>
      BY <1>4, <2>5, <3>1 DEF SyscallReturn
    <3>3. Kept(r, pcb[current]) /\ r.state = "RUNNING"
      BY <2>2, <2>3, <3>1
    <3>4. pcb'[current] = r /\ \A t \in Task \ {current} : pcb'[t] = pcb[t]
      BY <1>2, <3>2
    <3> QED
      BY <1>1, <2>1, <2>2, <3>2, <3>3, <3>4, CallQ DEF Kept
  <2> QED
    BY <2>4, <2>5
<1>5. ASSUME kernel_yield PROVE QInv'
  <2>1. /\ cpu = "run" /\ cpu' = "enter" /\ pcb' = pcb
        /\ UNCHANGED <<q, fifo, zombie_list, next_pid, current, dying, work>>
    BY <1>5 DEF kernel_yield, queues, lists
  <2>2. pcb[current].state = "RUNNING" /\ pcb[current].waiting_on = NIL
    BY <1>2, <2>1 DEF Running, Waiters
  <2> QED
    BY <1>1, <2>1, <2>2, CallQ
<1>6. ASSUME UNCHANGED vars PROVE QInv'
  BY <1>1, <1>6 DEF vars, queues, lists, QInv, Lists, Members, Waiters, Running, Dead, Ready
<1>7. ASSUME Switch PROVE QInv'
  BY <1>1, <1>7, ExitLoopQ, YieldQ, PickQ DEF Switch
<1> QED
  BY <1>1, <1>3, <1>4, <1>5, <1>6, <1>7, SyscallQ, InterruptQ DEF Next, Halted
-----------------------------------------------------------------------------
LEMMA QInvIntact ==
  ASSUME QInv
  PROVE  QueueIntact
<1> USE QInvFacts
<1>1. \A p \in Prio : fifo[p] \in Seq(Task) /\ DOMAIN fifo[p] = 1 .. Len(fifo[p])
  BY TInvFacts
<1>2. Low = 0 .. TopPrio - 1
  BY DEF Low
<1>3. Represents(q, fifo, 0 .. TopPrio - 1) /\ q.head[TopPrio] \in {NIL, VBE}
  BY <1>2 DEF Lists, Listed
<1>4. ASSUME NEW t \in Task \ {VBE}, cpu # "panic"
      PROVE  Ready(t) <=> Queued(t)
  <2>1. PICK p \in Low : p = pcb[t].priority
    BY DEF Members
  <2>2. Ready(t) <=> t \in Elems(fifo, p)
    BY <1>4, <2>1 DEF Members
  <2>3. DOMAIN fifo[p] = 1 .. Len(fifo[p])
    BY <1>1, LowFacts
  <2> QED
    BY <2>1, <2>2, <2>3 DEF Queued, Elems
<1>5. ASSUME NEW p \in Prio, NEW i \in DOMAIN fifo[p]
      PROVE  pcb[fifo[p][i]].priority = p
  <2>1. i \in 1 .. Len(fifo[p]) /\ fifo[p] \in Seq(Task)
    BY <1>1
  <2>2. p # TopPrio
    BY <2>1 DEF Lists, Listed
  <2>3. p \in Low /\ fifo[p][i] \in Task /\ fifo[p][i] \in Elems(fifo, p)
    BY <2>1, <2>2, LowFacts DEF Elems
  <2> QED
    BY <2>3 DEF Members
<1> QED
  BY <1>3, <1>4, <1>5 DEF QueueIntact

(* When nothing but the awaited exit wakes a task that is in waitpid(),    *)
(* the run queues stay lists and hold exactly the READY tasks, whatever    *)
(* programs, devices, alarms and the compositor's frames do, for any       *)
(* number of tasks, priorities and kernel stacks.                          *)
THEOREM QueuesIntact ==
  ASSUME ~WakeWaiters
  PROVE  Spec => []QueueIntact
<1>1. Init => QInv
  BY InitQ
<1>2. QInv /\ [Next]_vars => QInv'
  BY NextQ
<1>3. QInv => QueueIntact
  BY QInvIntact
<1> QED
  BY <1>1, <1>2, <1>3, PTL DEF Spec

(* Under the same condition task_yield() never fails to find a READY task: *)
(* the idle task is always in a queue, so neither the panic nor the        *)
(* recovery branch of its loop is reachable.                               *)
THEOREM YieldFindsReady ==
  ASSUME ~WakeWaiters
  PROVE  Spec => []PickFindsReady
<1>1. Init => QInv
  BY InitQ
<1>2. QInv /\ [Next]_vars => QInv'
  BY NextQ
<1>3. QInv => PickFindsReady
  BY DequeuedReady DEF PickFindsReady
<1> QED
  BY <1>1, <1>2, <1>3, PTL DEF Spec
-----------------------------------------------------------------------------
(* The queue that dequeue() takes is the highest one that is not empty.    *)
LEMMA DequeuedHighest ==
  ASSUME QInv, cpu = "pick", NEW u \in Task \ {VBE}, Ready(u)
  PROVE  pcb[u].priority <= pcb[dequeued(q)].priority
<1>1. TInv /\ Lists /\ Members /\ dequeued(q) # NIL
  BY DequeuedReady DEF QInv
<1>2. q \in RunQueues /\ WellFormed(q) /\ fifo \in [Prio -> Seq(Task)] /\ TopPrio \in Nat
  BY <1>1, TInvFacts, Numbers
<1>3. PICK h : h = highest_ready_prio(q)
  OBVIOUS
<1>4. /\ h \in Prio /\ dequeued(q) \in Task /\ dequeued(q) = q.head[h]
      /\ \A x \in Prio : q.head[x] # NIL => x <= h
  BY <1>1, <1>2, <1>3, DequeueFields
<1>5. PICK p \in Low : p = pcb[u].priority
  BY <1>1 DEF Members
<1>6. p <= h
  <2>1. u \in Elems(fifo, p) /\ p \in Prio
    BY <1>1, <1>5, LowFacts DEF Members
  <2>2. Linked(q, fifo[p], p) /\ fifo[p] \in Seq(Task)
    BY <1>1, <1>2, <2>1 DEF Lists, Listed, Represents
  <2>3. fifo[p] # <<>>
    BY <2>1, <2>2 DEF Elems
  <2>4. fifo[p][1] \in Task
    BY <2>2, <2>3
  <2>5. q.head[p] # NIL
    BY <2>2, <2>3, <2>4, Numbers DEF Linked
  <2> QED
    BY <1>4, <2>1, <2>5
<1>7. pcb[dequeued(q)].priority = h
  <2>1. CASE h = TopPrio
    BY <1>1, <1>4, <2>1 DEF Lists, Listed, Members
  <2>2. CASE h # TopPrio
    <3>1. h \in Low
      BY <1>4, <2>2, LowFacts
    <3>2. fifo[h] # <<>> /\ dequeued(q) = fifo[h][1]
      BY <1>1, <1>2, <1>3, <3>1, LowFacts, DequeueRepresents DEF Lists, Listed
    <3>3. 1 \in 1 .. Len(fifo[h])
      BY <1>2, <1>4, <3>2
    <3>4. dequeued(q) \in Elems(fifo, h)
      BY <3>2, <3>3 DEF Elems
    <3> QED
      BY <1>1, <1>4, <3>1, <3>4 DEF Members
  <2> QED
    BY <2>1, <2>2
<1> QED
  BY <1>5, <1>6, <1>7

LEMMA SwitchHighest ==
  ASSUME QInv, [Next]_vars
  PROVE  [cpu = "pick" /\ cpu' = "run" =>
            \A t \in Task \ {VBE} : Ready(t) => pcb[t].priority <= pcb[current'].priority]_vars
<1> SUFFICES ASSUME cpu = "pick", cpu' = "run", NEW t \in Task \ {VBE}, Ready(t)
             PROVE  pcb[t].priority <= pcb[current'].priority
  OBVIOUS
<1>1. CASE Syscall \/ Block \/ SyscallReturn \/ kernel_yield \/ Interrupt
  BY <1>1 DEF Syscall, sys_fork, task_fork, sys_exit, sys_waitpid, sys_kill, sys_signal, sys_sigret,
              sys_alarm, sys_pause, InUserMode, Block, SyscallReturn, kernel_yield,
              Interrupt, Tick, TickAlarm, TickEnd, task_unblock, Interruptible, Open
<1>2. CASE Switch
  <2>1. PickReady
    BY <1>2 DEF Switch, ExitWake, ExitEnd, YieldEnter, Reap, PickNone, PickOther, PickFatal,
                task_exit
  <2>2. current' = dequeued(q)
    BY <2>1 DEF PickReady
  <2> QED
    BY <2>2, DequeuedHighest
<1>3. CASE UNCHANGED vars
  BY <1>3 DEF vars
<1> QED
  BY <1>1, <1>2, <1>3 DEF Next, Halted

(* "The scheduler always picks the highest priority task that is ready to  *)
(* run", for every layout of the bitmaps and whatever decay has done.      *)
THEOREM SwitchesToHighest ==
  ASSUME ~WakeWaiters
  PROVE  Spec => PicksHighestReady
<1>1. Init => QInv
  BY InitQ
<1>2. QInv /\ [Next]_vars => QInv'
  BY NextQ
<1>3. QInv /\ [Next]_vars =>
        [cpu = "pick" /\ cpu' = "run" =>
           \A t \in Task \ {VBE} : Ready(t) => pcb[t].priority <= pcb[current'].priority]_vars
  BY SwitchHighest
<1> QED
  BY <1>1, <1>2, <1>3, PTL DEF Spec, PicksHighestReady
-----------------------------------------------------------------------------
(***************************************************************************)
(* Stacks, the current task and waitpid().  The steps of Scheduler are     *)
(* sorted by what they do to the task lists (StepKinds); each invariant    *)
(* then has one case for each kind.                                        *)
(***************************************************************************)
Alive == task_list \cup zombie_list
Used  == 1 .. next_kernel_stack - 1

(* A PCB is in one of the two lists until reap_zombies() frees it, and the *)
(* loops over the task list find only tasks that are in it.                *)
Listing ==
  /\ task_list \cap zombie_list = {} /\ BOOT \in task_list /\ zombie_list \subseteq User
  /\ cpu = "exit" => dying \in Alive \cap User
  /\ \A t \in Task : pcb[t].state = "UNUSED" <=> t \notin Alive
  /\ current \in Alive
  /\ next_pid >= 5 /\ \A t \in Alive : t < next_pid
  /\ cpu \in {"exit", "tick"} => work \subseteq task_list

(* Every stack carved out of the region is free or owned, once. *)
Stacks ==
  /\ \A t \in Task : pcb[t].kstack # NIL <=> t \in Alive \ {BOOT}
  /\ \A t \in Task : pcb[t].kstack # NIL => pcb[t].kstack \in Used
  /\ \A t, u \in Task : pcb[t].kstack # NIL /\ pcb[t].kstack = pcb[u].kstack => t = u
  /\ \A i \in 1 .. Len(free_kernel_stacks) :
       /\ free_kernel_stacks[i] \in Used
       /\ \A t \in Task : pcb[t].kstack # free_kernel_stacks[i]
       /\ \A j \in 1 .. Len(free_kernel_stacks) :
            free_kernel_stacks[i] = free_kernel_stacks[j] => i = j
  /\ \A s \in Used : \/ \E t \in Task : pcb[t].kstack = s
                     \/ \E i \in 1 .. Len(free_kernel_stacks) : free_kernel_stacks[i] = s

KInv == TInv /\ Listing /\ Stacks

LEMMA KInvFacts ==
  ASSUME KInv
  PROVE  TInv /\ Listing /\ Stacks
BY DEF KInv
LEMMA UsedStacks ==
  ASSUME TInv
  PROVE  Used \subseteq Stack /\ Used \subseteq Nat /\ NIL \notin Used
<1>1. next_kernel_stack \in 1 .. NStacks + 1 /\ NStacks \in Nat /\ NIL \notin Stack
  BY TInvFacts, SchedulerAssumption
<1> QED
  BY <1>1 DEF Used, Stack
-----------------------------------------------------------------------------
(* A PCB that keeps its stack, its place in the lists and its waitpid().   *)
Alike(a, b) ==
  /\ a.kstack = b.kstack /\ (a.state = "UNUSED" <=> b.state = "UNUSED")
  /\ a.waiting_on = b.waiting_on

AllAlike == \A t \in Task : Alike(pcb'[t], pcb[t])
SameLists == UNCHANGED <<task_list, zombie_list, next_pid, free_kernel_stacks, next_kernel_stack>>

LEMMA OneAlike ==
  ASSUME pcb \in [Task -> PCB], NEW c \in Task, NEW r, Alike(r, pcb[c]),
         pcb' = [pcb EXCEPT ![c] = r]
  PROVE  AllAlike
BY DEF AllAlike, Alike

LEMMA StateAlike ==
  ASSUME NEW r \in PCB, NEW s, s # "UNUSED", r.state # "UNUSED"
  PROVE  Alike([r EXCEPT !.state = s], r)
BY DEF PCB, Alike

LEMMA TakenAlike ==
  ASSUME TInv, NEW t \in Task
  PROVE  Alike(Taken(t), pcb[t])
<1>1. PICK r \in PCB : r = pcb[t]
  BY TInvFacts
<1>2. PICK a, b : Taken(t) = [r EXCEPT !.signal_bitmask = a, !.in_signal_handler = b]
  BY <1>1 DEF Taken
<1>3. Alike([r EXCEPT !.signal_bitmask = a, !.in_signal_handler = b], r)
  BY DEF PCB, Alike
<1> QED
  BY <1>1, <1>2, <1>3

LEMMA WakeAlike ==
  ASSUME TInv, NEW t \in Task, NEW r \in PCB, Alike(r, pcb[t]), Wake(t, r)
  PROVE  AllAlike
<1>1. PICK n : n = [r EXCEPT !.state = "READY"]
  OBVIOUS
<1>2. r.state = "BLOCKED" => Alike(n, pcb[t])
  <2>1. r.state = "BLOCKED" => Alike(n, r)
    BY <1>1, StateAlike
  <2> QED
    BY <2>1 DEF Alike
<1>3. \E m : Alike(m, pcb[t]) /\ pcb' = [pcb EXCEPT ![t] = m]
  BY <1>1, <1>2 DEF Wake
<1> QED
  BY <1>3, OneAlike, TInvFacts

LEMMA RaiseAlike ==
  ASSUME TInv, NEW t \in Task, NEW sig \in Signals, task_ipc_signal_raise(t, sig)
  PROVE  AllAlike
<1>1. PICK r \in PCB : r = pcb[t]
  BY TInvFacts
<1>2. PICK n : n = IF t \in Kernel THEN pcb[t]
                   ELSE [pcb[t] EXCEPT !.signal_bitmask = @ \cup {sig}]
  OBVIOUS
<1>3. PICK S \in SUBSET Signals : S = r.signal_bitmask \cup {sig}
  BY DEF PCB
<1>4. LET u == [r EXCEPT !.signal_bitmask = S] IN u \in PCB /\ Alike(u, r)
  BY DEF PCB, Alike
<1>5. n = r \/ n = [r EXCEPT !.signal_bitmask = S]
  BY <1>1, <1>2, <1>3
<1>6. n \in PCB /\ Alike(n, pcb[t])
  BY <1>1, <1>4, <1>5 DEF Alike
<1>7. Wake(t, n)
  BY <1>2 DEF task_ipc_signal_raise
<1> QED
  BY <1>6, <1>7, WakeAlike

LEMMA DecayedAlike ==
  ASSUME NEW r \in PCB
  PROVE  Alike(Decayed(r), r)
<1> DEFINE used == IF r.quanta_used < QuantaPunish THEN r.quanta_used + 1 ELSE QuantaPunish
           hit  == r.reset_count + 1 >= ResetDecay
           orig == IF hit /\ r.original_priority > 0 THEN r.original_priority - 1
                                                     ELSE r.original_priority
           count == IF hit THEN 0 ELSE r.reset_count + 1
           low  == IF r.priority > DecayRate THEN r.priority - DecayRate ELSE 0
<1>1. Decayed(r) = IF used < QuantaPunish THEN [r EXCEPT !.quanta_used = used]
                   ELSE IF r.priority = 0
                   THEN [r EXCEPT !.quanta_used = used, !.priority = orig,
                                  !.original_priority = orig, !.reset_count = count]
                   ELSE [r EXCEPT !.quanta_used = 0, !.priority = low]
  BY DEF Decayed, PCB
<1> HIDE DEF used, orig, count, low
<1>2. Alike([r EXCEPT !.quanta_used = used], r)
  BY DEF PCB, Alike
<1>3. Alike([r EXCEPT !.quanta_used = 0, !.priority = low], r)
  BY DEF PCB, Alike
<1>4. Alike([r EXCEPT !.quanta_used = used, !.priority = orig,
                      !.original_priority = orig, !.reset_count = count], r)
  BY DEF PCB, Alike
<1> QED
  BY <1>1, <1>2, <1>3, <1>4

LEMMA TickTailAlike ==
  ASSUME TInv, NEW r \in [Task -> PCB], NEW from, TickTail(r, from),
         \A t \in Task : Alike(r[t], pcb[t])
  PROVE  AllAlike /\ cpu' \in {from, "enter"}
<1>1. \A t \in Task : Alike(pcb'[t], r[t])
  <2>1. current \in Task /\ Alike(Decayed(r[current]), r[current])
    BY TInvFacts, DecayedAlike
  <2>2. pcb' = [r EXCEPT ![current] = Decayed(@)] \/ pcb' = r
    BY DEF TickTail
  <2>3. Alike(r[current], r[current]) /\ \A t \in Task : Alike(r[t], r[t])
    BY <2>1 DEF Alike
  <2> QED
    BY <2>1, <2>2, <2>3
<1>2. AllAlike
  BY <1>1 DEF AllAlike, Alike
<1> QED
  BY <1>2 DEF TickTail
-----------------------------------------------------------------------------
(* The kinds of steps.  A step of the first kind moves nobody; *)
Calm ==
  /\ SameLists /\ AllAlike /\ current' \in Alive
  /\ cpu # "exit" /\ cpu' # "exit"
  /\ cpu' = "tick" => work' \subseteq task_list

(* the others begin an exit, ... *)
Exits(t) ==
  /\ SameLists /\ AllAlike /\ current' = current
  /\ t \in Alive \cap User /\ cpu # "exit" /\ cpu' = "exit" /\ dying' = t
  /\ work' = {u \in task_list : pcb[u].waiting_on = t}

(* ... begin or end a waitpid(). *)
Waits(t) ==
  /\ SameLists /\ current' = current /\ cpu = "run" /\ cpu' = "enter"
  /\ t \in task_list \cup {NIL}
  /\ \A u \in Task : /\ pcb'[u].kstack = pcb[u].kstack
                     /\ pcb'[u].state = "UNUSED" <=> pcb[u].state = "UNUSED"
                     /\ pcb'[u].waiting_on = IF u = current THEN t ELSE pcb[u].waiting_on

Woken(t) ==
  /\ SameLists /\ current' = current /\ cpu = "exit" /\ cpu' = "exit" /\ dying' = dying
  /\ t \in work /\ work' = work \ {t}
  /\ \A u \in Task : /\ pcb'[u].kstack = pcb[u].kstack
                     /\ pcb'[u].state = "UNUSED" <=> pcb[u].state = "UNUSED"
                     /\ pcb'[u].waiting_on = IF u = t THEN NIL ELSE pcb[u].waiting_on

LEMMA ExitKind ==
  ASSUME KInv, cpu # "exit", NEW t \in Task, pcb[t].state # "UNUSED", t \in User,
         NEW r \in PCB, Alike(r, pcb[t]), task_exit(t, r), SameLists, current' = current
  PROVE  Calm \/ Exits(t)
<1> USE KInvFacts
<1>1. t \in Alive /\ current \in Alive /\ r.state # "UNUSED" /\ pcb \in [Task -> PCB]
  BY TInvFacts DEF Listing, Alike
<1>2. CASE t = INIT
  <2>1. AllAlike /\ cpu' = "panic"
    BY <1>1, <1>2, OneAlike DEF task_exit
  <2> QED
    BY <1>1, <2>1 DEF Calm
<1>3. CASE t # INIT
  <2>1. PICK n : n = [r EXCEPT !.state = "TERMINATED"]
    OBVIOUS
  <2>2. Alike(n, r)
    BY <1>1, <2>1, StateAlike
  <2>3. Alike(n, pcb[t])
    BY <2>2 DEF Alike
  <2>4. /\ pcb' = [pcb EXCEPT ![t] = n] /\ cpu' = "exit" /\ dying' = t
        /\ work' = {u \in task_list : pcb[u].waiting_on = t}
    BY <1>3, <2>1 DEF task_exit
  <2>5. AllAlike
    BY <1>1, <2>3, <2>4, OneAlike
  <2> QED
    BY <1>1, <2>4, <2>5 DEF Exits
<1> QED
  BY <1>2, <1>3

LEMMA SyscallKinds ==
  ASSUME KInv, Syscall
  PROVE  sys_fork \/ Calm \/ (\E t \in Task : Exits(t)) \/ \E t \in Task \cup {NIL} : Waits(t)
<1> USE KInvFacts
<1>1. /\ cpu = "run" /\ current \in User /\ current \in Task /\ pcb \in [Task -> PCB]
      /\ pcb[current] \in PCB /\ pcb[current].state # "UNUSED" /\ current \in Alive
  <2>1. InUserMode
    BY DEF Syscall, sys_fork, task_fork, sys_exit, sys_waitpid, sys_kill, sys_signal, sys_sigret,
           sys_alarm, sys_pause
  <2> QED
    BY <2>1, TInvFacts DEF InUserMode, Listing
<1>2. PICK r \in PCB : r = pcb[current]
  BY <1>1
<1>3. ASSUME sys_exit PROVE Calm \/ Exits(current)
  BY <1>1, <1>3, ExitKind DEF sys_exit, queues, lists, stacks, SameLists, Alike
<1>4. ASSUME NEW t \in Task \cup {NIL}, sys_waitpid(t) PROVE Calm \/ Waits(t)
  <2>1. CASE t \in task_list \cup {NIL}
    <3>1. PICK n : n = [r EXCEPT !.waiting_on = t, !.state = "BLOCKED"]
      OBVIOUS
    <3>2. n.kstack = r.kstack /\ n.state = "BLOCKED" /\ n.waiting_on = t
      BY <3>1 DEF PCB
    <3>3. pcb' = [pcb EXCEPT ![current].waiting_on = t, ![current].state = "BLOCKED"]
      BY <1>4, <2>1 DEF sys_waitpid
    <3>4. pcb'[current] = n /\ \A u \in Task \ {current} : pcb'[u] = pcb[u]
      BY <1>1, <1>2, <3>1, <3>3
    <3>5. \A u \in Task : /\ pcb'[u].kstack = pcb[u].kstack
                          /\ pcb'[u].state = "UNUSED" <=> pcb[u].state = "UNUSED"
                          /\ pcb'[u].waiting_on = IF u = current THEN t ELSE pcb[u].waiting_on
      BY <1>1, <1>2, <3>2, <3>4
    <3> QED
      BY <1>1, <1>4, <2>1, <3>5 DEF sys_waitpid, Waits, SameLists, lists, stacks
  <2>2. CASE t \notin task_list \cup {NIL}
    BY <1>1, <1>4, <2>2 DEF sys_waitpid, Calm, SameLists, lists, stacks, AllAlike, Alike
  <2> QED
    BY <2>1, <2>2
<1>5. ASSUME NEW t \in Killed, NEW sig \in Signals, sys_kill(t, sig) PROVE Calm
  <2>1. t \in Task
    BY SchedulerAssumption
  <2>2. AllAlike
    BY <1>1, <1>5, <2>1, RaiseAlike DEF sys_kill, AllAlike, Alike
  <2> QED
    BY <1>1, <1>5, <2>2 DEF sys_kill, Calm, SameLists, lists, stacks
<1>6. ASSUME NEW n, Alike(n, pcb[current]), pcb' = [pcb EXCEPT ![current] = n], cpu' = "ret",
             UNCHANGED <<lists, stacks, current>>
      PROVE  Calm
  BY <1>1, <1>6, OneAlike DEF Calm, SameLists, lists, stacks
<1>7. ASSUME NEW sig \in Handled, NEW on \in BOOLEAN, sys_signal(sig, on) PROVE Calm
  <2>1. PICK h : pcb' = [pcb EXCEPT ![current].signal_handlers = h]
    BY <1>7 DEF sys_signal
  <2>2. PICK n : n = [r EXCEPT !.signal_handlers = h]
    OBVIOUS
  <2>3. Alike(n, r)
    BY <2>2 DEF PCB, Alike
  <2>4. pcb' = [pcb EXCEPT ![current] = n]
    BY <1>1, <1>2, <2>1, <2>2
  <2> QED
    BY <1>2, <1>6, <1>7, <2>3, <2>4 DEF sys_signal
<1>8. ASSUME sys_sigret PROVE Calm
  <2>1. PICK n : n = [r EXCEPT !.in_signal_handler = FALSE]
    OBVIOUS
  <2>2. Alike(n, r)
    BY <2>1 DEF PCB, Alike
  <2>3. pcb' = [pcb EXCEPT ![current] = n]
    BY <1>1, <1>2, <1>8, <2>1 DEF sys_sigret
  <2> QED
    BY <1>2, <1>6, <1>8, <2>2, <2>3 DEF sys_sigret
<1>9. ASSUME NEW k \in 0 .. MaxAlarm, sys_alarm(k) PROVE Calm
  <2>1. PICK n : n = [r EXCEPT !.alarm_ticks = k]
    OBVIOUS
  <2>2. Alike(n, r)
    BY <2>1 DEF PCB, Alike
  <2>3. pcb' = [pcb EXCEPT ![current] = n]
    BY <1>1, <1>2, <1>9, <2>1 DEF sys_alarm
  <2> QED
    BY <1>2, <1>6, <1>9, <2>2, <2>3 DEF sys_alarm
<1>10. ASSUME sys_pause PROVE Calm
  BY <1>1, <1>10 DEF sys_pause, Calm, SameLists, lists, stacks, AllAlike, Alike
<1> QED
  BY <1>1, <1>3, <1>4, <1>5, <1>7, <1>8, <1>9, <1>10 DEF Syscall

LEMMA InterruptKinds ==
  ASSUME KInv, Interrupt
  PROVE  Calm
<1> USE KInvFacts
<1>1. /\ current \in Task /\ pcb \in [Task -> PCB] /\ trapped \in Open /\ current \in Alive
      /\ task_list \subseteq Task /\ work \subseteq Task
  BY TInvFacts DEF Listing
<1>2. ASSUME Tick PROVE Calm
  <2>1. PICK fired : fired = {t \in task_list : pcb[t].alarm_ticks = 1}
    OBVIOUS
  <2>2. PICK r : r = [t \in Task |->
                    IF t \in task_list /\ pcb[t].alarm_ticks > 0
                    THEN [pcb[t] EXCEPT !.alarm_ticks = @ - 1] ELSE pcb[t]]
    OBVIOUS
  <2>3. /\ cpu \in Open /\ UNCHANGED <<lists, stacks, current>>
        /\ IF fired = {}
           THEN TickTail(r, cpu)
           ELSE work' = fired /\ pcb' = r /\ cpu' = "tick"
    BY <1>2, <2>1, <2>2 DEF Tick, Interruptible
  <2>4. ASSUME NEW t \in Task PROVE r[t] \in PCB /\ Alike(r[t], pcb[t])
    <3>1. PICK c \in PCB : c = pcb[t]
      BY <1>1
    <3>2. c.alarm_ticks \in 0 .. MaxAlarm /\ MaxAlarm \in Nat
      BY SchedulerAssumption DEF PCB
    <3>3. CASE t \in task_list /\ c.alarm_ticks > 0
      <4>1. PICK k \in 0 .. MaxAlarm : k = c.alarm_ticks - 1
        BY <3>2, <3>3
      <4>2. r[t] = [c EXCEPT !.alarm_ticks = k]
        BY <2>2, <3>1, <3>3, <4>1
      <4>3. LET u == [c EXCEPT !.alarm_ticks = k] IN u \in PCB /\ Alike(u, c)
        BY DEF PCB, Alike
      <4> QED
        BY <3>1, <4>2, <4>3
    <3>4. CASE ~(t \in task_list /\ c.alarm_ticks > 0)
      BY <2>2, <3>1, <3>4 DEF Alike
    <3> QED
      BY <3>3, <3>4
  <2>5. r \in [Task -> PCB]
    BY <2>2, <2>4
  <2>6. CASE fired = {}
    <3>1. AllAlike /\ cpu' \in {cpu, "enter"}
      BY <2>3, <2>4, <2>5, <2>6, TickTailAlike
    <3> QED
      BY <1>1, <2>3, <3>1 DEF Calm, SameLists, lists, stacks, Open
  <2>7. CASE fired # {}
    BY <1>1, <2>1, <2>3, <2>4, <2>7 DEF Calm, SameLists, lists, stacks, Open, AllAlike
  <2> QED
    BY <2>6, <2>7
<1>3. ASSUME TickAlarm PROVE Calm
  <2>1. work # {} /\ Min(work) \in work /\ SIGALRM \in Signals /\ work \subseteq task_list
    BY <1>1, <1>3, MinIsLeast, Numbers, SchedulerAssumption DEF TickAlarm, Listing
  <2>2. AllAlike
    BY <1>1, <1>3, <2>1, RaiseAlike DEF TickAlarm
  <2> QED
    BY <1>1, <1>3, <2>1, <2>2 DEF TickAlarm, Calm, SameLists, lists, stacks
<1>4. ASSUME TickEnd PROVE Calm
  <2>1. \A t \in Task : Alike(pcb[t], pcb[t])
    BY DEF Alike
  <2>2. AllAlike /\ cpu' \in {trapped, "enter"}
    BY <1>1, <1>4, <2>1, TickTailAlike DEF TickEnd
  <2> QED
    BY <1>1, <1>4, <2>2 DEF TickEnd, Calm, SameLists, lists, stacks, Open
<1>5. ASSUME NEW t \in Task, task_unblock(t) PROVE Calm
  <2>1. pcb[t] \in PCB /\ Alike(pcb[t], pcb[t])
    BY <1>1 DEF Alike
  <2>2. AllAlike
    BY <1>5, <2>1, WakeAlike DEF task_unblock
  <2> QED
    BY <1>1, <1>5, <2>2 DEF task_unblock, Interruptible, Calm, SameLists, lists, stacks, Open
<1> QED
  BY <1>2, <1>3, <1>4, <1>5 DEF Interrupt

LEMMA SwitchKinds ==
  ASSUME KInv, Switch
  PROVE  \/ ExitEnd \/ Calm \/ (\E z \in Task : Reap(z))
         \/ (\E t \in Task : Exits(t)) \/ \E t \in Task : Woken(t)
<1> USE KInvFacts
<1>1. /\ current \in Task /\ pcb \in [Task -> PCB] /\ current \in Alive
      /\ task_list \subseteq Task /\ work \subseteq Task
      /\ pcb[current] \in PCB /\ pcb[current].state # "UNUSED"
  BY TInvFacts DEF Listing
<1>2. ASSUME ExitWake PROVE \E t \in Task : Woken(t)
  <2>1. PICK u \in work : u = Min(work)
    BY <1>1, <1>2, MinIsLeast, Numbers DEF ExitWake
  <2>2. u \in Task /\ u \in task_list /\ pcb[u].state # "UNUSED"
    BY <1>1, <1>2 DEF ExitWake, Listing, Alive
  <2>3. PICK r \in PCB : r = pcb[u]
    BY <1>1, <2>2
  <2>4. PICK n : n = [r EXCEPT !.waiting_on = NIL, !.state = "READY"]
    OBVIOUS
  <2>5. n.kstack = r.kstack /\ n.state = "READY" /\ n.waiting_on = NIL
    BY <2>4 DEF PCB
  <2>6. /\ cpu = "exit" /\ UNCHANGED <<lists, stacks, cpu, current, dying>>
        /\ work' = work \ {u}
        /\ pcb' = [pcb EXCEPT ![u].waiting_on = NIL, ![u].state = "READY"]
    BY <1>2, <2>1 DEF ExitWake
  <2>7. pcb'[u] = n /\ \A x \in Task \ {u} : pcb'[x] = pcb[x]
    BY <1>1, <2>2, <2>3, <2>4, <2>6
  <2>8. \A x \in Task : /\ pcb'[x].kstack = pcb[x].kstack
                        /\ pcb'[x].state = "UNUSED" <=> pcb[x].state = "UNUSED"
                        /\ pcb'[x].waiting_on = IF x = u THEN NIL ELSE pcb[x].waiting_on
    BY <2>2, <2>3, <2>5, <2>7
  <2> QED
    BY <2>2, <2>6, <2>8 DEF Woken, SameLists, lists, stacks
<1>3. ASSUME YieldEnter PROVE Calm
  <2>1. PICK n : n = [pcb[current] EXCEPT !.state = "READY"]
    OBVIOUS
  <2>2. Alike(n, pcb[current])
    BY <1>1, <2>1, StateAlike
  <2>3. AllAlike
    <3>1. CASE pcb' = pcb
      BY <3>1 DEF AllAlike, Alike
    <3>2. CASE pcb' = [pcb EXCEPT ![current].state = "READY"]
      BY <1>1, <2>1, <2>2, <3>2, OneAlike
    <3> QED
      BY <1>3, <3>1, <3>2 DEF YieldEnter
  <2> QED
    BY <1>1, <1>3, <2>3 DEF YieldEnter, Calm, SameLists, lists, stacks
<1>4. ASSUME PickNone \/ PickOther PROVE Calm
  BY <1>1, <1>4 DEF PickNone, PickOther, Calm, SameLists, lists, stacks, AllAlike, Alike
<1>5. ASSUME NEW t, t = dequeued(q), t # NIL, pcb[t].state = "READY"
      PROVE  t \in Task /\ t \in Alive /\ Alike(Taken(t), pcb[t]) /\ Taken(t) \in PCB
  <2>1. t \in Task
    BY <1>5, TInvFacts, DequeueFields
  <2> QED
    BY <1>1, <1>5, <2>1, TakenAlike, TakenType DEF Listing
<1>6. ASSUME PickFatal PROVE Calm \/ \E t \in Task : Exits(t)
  <2>1. PICK t : t = dequeued(q)
    OBVIOUS
  <2>2. /\ cpu = "pick" /\ t # NIL /\ pcb[t].state = "READY" /\ t \in User
        /\ task_exit(t, Taken(t)) /\ UNCHANGED <<lists, stacks, current>>
    BY <1>6, <2>1 DEF PickFatal, Fatal, Deliverable
  <2>3. t \in Task /\ Alike(Taken(t), pcb[t]) /\ Taken(t) \in PCB
    BY <1>5, <2>1, <2>2
  <2> QED
    BY <2>2, <2>3, ExitKind DEF SameLists, lists, stacks
<1>7. ASSUME PickReady PROVE Calm
  <2>1. PICK t : t = dequeued(q)
    OBVIOUS
  <2>2. PICK r : r = IF Deliverable(t) THEN Taken(t) ELSE pcb[t]
    OBVIOUS
  <2>3. /\ cpu = "pick" /\ t # NIL /\ pcb[t].state = "READY" /\ current' = t /\ cpu' = "run"
        /\ pcb' = [pcb EXCEPT ![t] = [r EXCEPT !.state = "RUNNING"]]
        /\ UNCHANGED <<lists, stacks>>
    BY <1>7, <2>1, <2>2 DEF PickReady
  <2>4. t \in Task /\ t \in Alive /\ Alike(Taken(t), pcb[t]) /\ Taken(t) \in PCB
    BY <1>5, <2>1, <2>3
  <2>5. r \in PCB /\ Alike(r, pcb[t]) /\ r.state # "UNUSED"
    BY <1>1, <2>2, <2>3, <2>4 DEF Alike
  <2>6. PICK n : n = [r EXCEPT !.state = "RUNNING"]
    OBVIOUS
  <2>7. Alike(n, pcb[t])
    <3>1. Alike(n, r)
      BY <2>5, <2>6, StateAlike
    <3> QED
      BY <2>5, <3>1 DEF Alike
  <2>8. AllAlike
    BY <1>1, <2>3, <2>4, <2>6, <2>7, OneAlike
  <2> QED
    BY <2>3, <2>4, <2>8 DEF Calm, SameLists, lists, stacks
<1> QED
  BY <1>2, <1>3, <1>4, <1>6, <1>7 DEF Switch

LEMMA StepKinds ==
  ASSUME KInv, [Next]_vars
  PROVE  \/ sys_fork \/ ExitEnd \/ Calm \/ (\E z \in Task : Reap(z))
         \/ (\E t \in Task : Exits(t)) \/ (\E t \in Task : Woken(t))
         \/ (\E t \in Task \cup {NIL} : Waits(t)) \/ UNCHANGED vars
<1> USE KInvFacts
<1>1. /\ current \in Task /\ pcb \in [Task -> PCB] /\ current \in Alive
      /\ pcb[current] \in PCB /\ pcb[current].state # "UNUSED"
  BY TInvFacts DEF Listing
<1>2. ASSUME Block PROVE Calm
  <2>1. PICK n : n = [pcb[current] EXCEPT !.state = "BLOCKED"]
    OBVIOUS
  <2>2. Alike(n, pcb[current])
    BY <1>1, <2>1, StateAlike
  <2>3. pcb' = [pcb EXCEPT ![current] = n]
    BY <1>1, <1>2, <2>1 DEF Block
  <2>4. AllAlike
    BY <1>1, <2>2, <2>3, OneAlike
  <2> QED
    BY <1>1, <1>2, <2>4 DEF Block, Calm, SameLists, lists, stacks
<1>3. ASSUME SyscallReturn PROVE Calm \/ \E t \in Task : Exits(t)
  <2>1. Alike(Taken(current), pcb[current]) /\ Taken(current) \in PCB
    BY <1>1, TakenAlike, TakenType
  <2>2. cpu = "ret" /\ UNCHANGED <<lists, stacks, current>>
    BY <1>3 DEF SyscallReturn
  <2>3. CASE Fatal(current)
    BY <1>1, <1>3, <2>1, <2>2, <2>3, ExitKind
       DEF SyscallReturn, Fatal, Deliverable, SameLists, lists, stacks
  <2>4. CASE ~Fatal(current)
    <3>1. PICK n : n = IF Deliverable(current) THEN Taken(current) ELSE pcb[current]
      OBVIOUS
    <3>2. Alike(n, pcb[current]) /\ pcb' = [pcb EXCEPT ![current] = n] /\ cpu' = "run"
      BY <1>3, <2>1, <2>4, <3>1 DEF SyscallReturn, Alike
    <3>3. AllAlike
      BY <1>1, <3>2, OneAlike
    <3> QED
      BY <1>1, <2>2, <3>2, <3>3 DEF Calm, SameLists, lists, stacks
  <2> QED
    BY <2>3, <2>4
<1>4. ASSUME kernel_yield PROVE Calm
  BY <1>1, <1>4 DEF kernel_yield, Calm, SameLists, lists, stacks, AllAlike, Alike
<1> QED
  BY <1>2, <1>3, <1>4, SyscallKinds, InterruptKinds, SwitchKinds DEF Next, Halted
-----------------------------------------------------------------------------
(* Kernel stacks. *)
LEMMA InitK ==
  ASSUME Init
  PROVE  KInv
<1>1. /\ task_list = Boot /\ zombie_list = {} /\ next_pid = 5 /\ cpu = "enter"
      /\ current = BOOT /\ work = {} /\ free_kernel_stacks = <<>> /\ next_kernel_stack = 5
      /\ pcb = [t \in Task |-> BootPCB(t)] /\ NIL \notin Stack /\ NStacks \in Nat
      /\ NStacks >= 4
  BY SchedulerAssumption DEF Init
<1>2. \A t \in Task : pcb[t].state = "UNUSED" <=> t \notin Boot
  BY <1>1 DEF BootPCB, NewTask, Unused, Boot, BOOT, INIT, IDLE, VBE, WORKER
<1>3. \A t \in Task : pcb[t].kstack = IF t \in {1, 2, 3, 4} THEN t ELSE NIL
  BY <1>1 DEF BootPCB, NewTask, Unused, BOOT, INIT, IDLE, VBE, WORKER
<1>4. {1, 2, 3, 4} \subseteq Stack /\ Used = {1, 2, 3, 4} /\ {1, 2, 3, 4} \subseteq Task
  BY <1>1, Numbers DEF Stack, Used, Boot, BOOT, INIT, IDLE, VBE, WORKER
<1>5. Listing
  BY <1>1, <1>2 DEF Listing, Alive, Boot, BOOT, INIT, IDLE, VBE, WORKER
<1>6. Stacks
  BY <1>1, <1>3, <1>4 DEF Stacks, Alive, Boot, BOOT, INIT, IDLE, VBE, WORKER
<1> QED
  BY <1>5, <1>6, InitType DEF KInv

(* Steps that leave the lists and the stacks as they are. *)
LEMMA StayK ==
  ASSUME KInv, TInv', SameLists, current' \in Alive,
         \A t \in Task : /\ pcb'[t].kstack = pcb[t].kstack
                         /\ pcb'[t].state = "UNUSED" <=> pcb[t].state = "UNUSED",
         cpu' = "exit" => dying' \in Alive \cap User,
         cpu' \in {"exit", "tick"} => work' \subseteq task_list
  PROVE  KInv'
<1> USE KInvFacts
<1>1. Listing'
  BY DEF Listing, SameLists, Alive
<1>2. Stacks'
  BY DEF Stacks, SameLists, Alive, Used
<1> QED
  BY <1>1, <1>2 DEF KInv

(* fork() hands out the stack that was freed last, or a new one. *)
LEMMA ForkK ==
  ASSUME KInv, TInv', sys_fork
  PROVE  KInv'
<1> USE KInvFacts
<1> DEFINE c == next_pid
           k == NewStack
<1>1. CASE ~CanAllocStack /\ UNCHANGED <<queues, pcb, lists, stacks>> /\ cpu' = "panic"
  BY <1>1, StayK DEF sys_fork, task_fork, SameLists, lists, stacks, Listing
<1>2. CASE /\ CanAllocStack /\ alloc_kernel_stack
           /\ pcb' = [pcb EXCEPT ![c] =
                        [pcb[current] EXCEPT !.state = "READY", !.kstack = k,
                           !.signal_bitmask = {}, !.signal_handlers = {}, !.alarm_ticks = 0]]
           /\ task_list' = task_list \cup {c} /\ c' = c + 1
           /\ cpu' = "ret" /\ UNCHANGED zombie_list
  <2>1. /\ c \in Task /\ c \in Nat /\ current \in Task /\ pcb \in [Task -> PCB]
        /\ pcb[current] \in PCB /\ UNCHANGED current /\ NIL \notin Stack
        /\ task_list \subseteq Task /\ zombie_list \subseteq Task
        /\ next_kernel_stack \in 1 .. NStacks + 1 /\ NStacks \in Nat
        /\ free_kernel_stacks \in Seq(Stack \cup {NIL})
    BY <1>2, TInvFacts, SchedulerAssumption DEF sys_fork, task_fork
  <2>2. PICK n : n = [pcb[current] EXCEPT !.state = "READY", !.kstack = k,
                        !.signal_bitmask = {}, !.signal_handlers = {}, !.alarm_ticks = 0]
    OBVIOUS
  <2>3. n.state = "READY" /\ n.kstack = k
    BY <2>1, <2>2 DEF PCB
  <2>4. /\ pcb'[c] = n /\ \A t \in Task \ {c} : pcb'[t] = pcb[t]
        /\ c \notin Alive /\ c \in User /\ c # BOOT
        /\ Alive' = Alive \cup {c}
    BY <1>2, <2>1, <2>2, Places DEF Listing, Alive, BOOT
  <2>5. /\ k \in Used' /\ k \in Nat /\ k # NIL /\ \A t \in Task : pcb[t].kstack # k
        /\ Used \subseteq Used' /\ \A s \in Used' : s \in Used \/ s = k
        /\ free_kernel_stacks' \in Seq(Stack \cup {NIL})
        /\ Len(free_kernel_stacks') <= Len(free_kernel_stacks)
        /\ \A i \in 1 .. Len(free_kernel_stacks') :
             /\ free_kernel_stacks'[i] # k
             /\ \E d \in {0, 1} : \A j \in 1 .. Len(free_kernel_stacks') :
                  /\ j + d \in 1 .. Len(free_kernel_stacks)
                  /\ free_kernel_stacks'[j] = free_kernel_stacks[j + d]
        /\ \A i \in 1 .. Len(free_kernel_stacks) :
             \/ free_kernel_stacks[i] = k
             \/ \E j \in 1 .. Len(free_kernel_stacks') :
                  free_kernel_stacks'[j] = free_kernel_stacks[i]
    <3>1. CASE free_kernel_stacks # <<>>
      <4>1. /\ k = free_kernel_stacks[1] /\ Len(free_kernel_stacks) \in Nat \ {0}
            /\ free_kernel_stacks' = Tail(free_kernel_stacks)
            /\ UNCHANGED next_kernel_stack
        BY <1>2, <2>1, <3>1 DEF NewStack, alloc_kernel_stack
      <4>2. /\ Len(free_kernel_stacks') = Len(free_kernel_stacks) - 1
            /\ free_kernel_stacks' \in Seq(Stack \cup {NIL})
            /\ \A j \in 1 .. Len(free_kernel_stacks') :
                 free_kernel_stacks'[j] = free_kernel_stacks[j + 1]
        BY <2>1, <3>1, <4>1, HeadTailProperties
      <4>3. k \in Used /\ \A t \in Task : pcb[t].kstack # k
        BY <4>1 DEF Stacks
      <4>4. Used' = Used /\ Used \subseteq Nat /\ NIL \notin Used
        BY <2>1, <4>1 DEF Used, Stack
      <4>5. \A i \in 1 .. Len(free_kernel_stacks') :
              free_kernel_stacks'[i] # k
        BY <4>1, <4>2 DEF Stacks
      <4>6. ASSUME NEW i \in 1 .. Len(free_kernel_stacks), free_kernel_stacks[i] # k
            PROVE  \E j \in 1 .. Len(free_kernel_stacks') :
                     free_kernel_stacks'[j] = free_kernel_stacks[i]
        <5>1. i - 1 \in 1 .. Len(free_kernel_stacks') /\ (i - 1) + 1 = i
          BY <4>1, <4>2, <4>6
        <5> QED
          BY <4>2, <5>1
      <4>7. \A j \in 1 .. Len(free_kernel_stacks') :
                  /\ j + 1 \in 1 .. Len(free_kernel_stacks)
                  /\ free_kernel_stacks'[j] = free_kernel_stacks[j + 1]
        BY <4>1, <4>2
      <4> QED
        BY <4>1, <4>2, <4>3, <4>4, <4>5, <4>6, <4>7
    <3>2. CASE free_kernel_stacks = <<>>
      <4>1. /\ k = next_kernel_stack /\ next_kernel_stack' = next_kernel_stack + 1
            /\ next_kernel_stack <= NStacks /\ UNCHANGED free_kernel_stacks
            /\ Len(free_kernel_stacks) = 0
        BY <1>2, <3>2 DEF NewStack, alloc_kernel_stack, CanAllocStack
      <4>2. k \in Used' /\ k \in Stack /\ Used' = Used \cup {k} /\ k \notin Used
        BY <2>1, <4>1 DEF Used, Stack
      <4>3. \A t \in Task : pcb[t].kstack # k
        BY <2>1, <4>2 DEF Stacks
      <4> QED
        BY <2>1, <4>1, <4>2, <4>3 DEF Stack
    <3> QED
      BY <3>1, <3>2
  <2> HIDE DEF k
  <2>6. Listing'
    <3>1. \A t \in Task : pcb'[t].state = "UNUSED" <=> t \notin Alive'
      BY <2>3, <2>4 DEF Listing
    <3>2. \A t \in Alive' : t < c'
      <4>1. \A t \in Alive : t \in Nat /\ t < c
        BY <2>1, Numbers DEF Listing, Alive
      <4> QED
        BY <1>2, <2>1, <2>4, <4>1
    <3> QED
      BY <1>2, <2>1, <2>4, <3>1, <3>2 DEF Listing, Alive
  <2> HIDE DEF c
  <2>7. \A t \in Task : pcb'[t].kstack = IF t = c THEN k ELSE pcb[t].kstack
    BY <2>3, <2>4
  <2>8. \A t \in Task : pcb'[t].kstack # NIL <=> t \in Alive' \ {BOOT}
    BY <2>4, <2>5, <2>7 DEF Stacks
  <2>9. \A t \in Task : pcb'[t].kstack # NIL => pcb'[t].kstack \in Used'
    BY <2>5, <2>7 DEF Stacks
  <2>10. \A t, u \in Task : pcb'[t].kstack # NIL /\ pcb'[t].kstack = pcb'[u].kstack => t = u
    BY <2>5, <2>7 DEF Stacks
  <2>11. ASSUME NEW i \in 1 .. Len(free_kernel_stacks')
         PROVE  /\ free_kernel_stacks'[i] \in Used'
                /\ \A t \in Task : pcb'[t].kstack # free_kernel_stacks'[i]
                /\ \A j \in 1 .. Len(free_kernel_stacks') :
                     free_kernel_stacks'[i] = free_kernel_stacks'[j] => i = j
    <3>1. PICK d \in {0, 1} : \A j \in 1 .. Len(free_kernel_stacks') :
                  /\ j + d \in 1 .. Len(free_kernel_stacks)
                  /\ free_kernel_stacks'[j] = free_kernel_stacks[j + d]
      BY <2>5, <2>11
    <3>2. /\ free_kernel_stacks'[i] \in Used'
          /\ \A t \in Task : pcb[t].kstack # free_kernel_stacks'[i]
      <4>1. PICK x \in 1 .. Len(free_kernel_stacks) :
              free_kernel_stacks'[i] = free_kernel_stacks[x]
        BY <3>1
      <4>2. /\ free_kernel_stacks[x] \in Used
            /\ \A t \in Task : pcb[t].kstack # free_kernel_stacks[x]
        BY DEF Stacks
      <4> QED
        BY <2>5, <4>1, <4>2
    <3>3. ASSUME NEW j \in 1 .. Len(free_kernel_stacks'),
                 free_kernel_stacks'[i] = free_kernel_stacks'[j]
          PROVE  i = j
      <4>1. /\ i + d \in 1 .. Len(free_kernel_stacks) /\ j + d \in 1 .. Len(free_kernel_stacks)
            /\ free_kernel_stacks[i + d] = free_kernel_stacks[j + d]
        BY <3>1, <3>3
      <4>2. \A x, y \in 1 .. Len(free_kernel_stacks) :
              free_kernel_stacks[x] = free_kernel_stacks[y] => x = y
        BY DEF Stacks
      <4>3. i + d = j + d
        BY <4>1, <4>2
      <4> QED
        BY <4>3
    <3> QED
      BY <2>5, <2>7, <3>2, <3>3
  <2>12. ASSUME NEW s \in Used'
         PROVE  \/ \E t \in Task : pcb'[t].kstack = s
                \/ \E i \in 1 .. Len(free_kernel_stacks') : free_kernel_stacks'[i] = s
    <3>1. CASE s = k
      BY <2>1, <2>7, <3>1
    <3>2. CASE s # k
      <4>1. s \in Used
        BY <2>5, <3>2
      <4>2. CASE \E t \in Task : pcb[t].kstack = s
        <5>1. PICK t \in Task : pcb[t].kstack = s
          BY <4>2
        <5>2. t # c
          <6>1. pcb[c].kstack = NIL /\ NIL \notin Used
            BY <2>1, <2>4 DEF Stacks, Used, Stack
          <6> QED
            BY <4>1, <5>1, <6>1
        <5> QED
          BY <2>7, <5>1, <5>2
      <4>3. CASE \E i \in 1 .. Len(free_kernel_stacks) : free_kernel_stacks[i] = s
        BY <2>5, <3>2, <4>3
      <4> QED
        BY <4>1, <4>2, <4>3 DEF Stacks
    <3> QED
      BY <3>1, <3>2
  <2>13. Stacks'
    BY <2>8, <2>9, <2>10, <2>11, <2>12 DEF Stacks
  <2> QED
    BY <2>6, <2>13 DEF KInv
<1> QED
  BY <1>1, <1>2 DEF sys_fork, task_fork

LEMMA ExitEndK ==
  ASSUME KInv, TInv', ExitEnd
  PROVE  KInv'
<1> USE KInvFacts
<1>1. /\ dying \in Alive \cap User /\ task_list' = task_list \ {dying} /\ cpu' = "enter"
      /\ zombie_list' = zombie_list \cup {dying} /\ BOOT \notin User
      /\ UNCHANGED <<pcb, next_pid, current, stacks>>
  BY Places DEF ExitEnd, Listing
<1>2. Alive' = Alive
  BY <1>1 DEF Alive
<1>3. Listing'
  BY <1>1, <1>2 DEF Listing
<1>4. Stacks'
  BY <1>1, <1>2 DEF Stacks, Used, stacks
<1> QED
  BY <1>3, <1>4 DEF KInv

(* reap_zombies() puts the stack of a zombie, which nobody else has, on    *)
(* top of the free ones.                                                   *)
LEMMA ReapK ==
  ASSUME KInv, TInv', NEW z \in Task, Reap(z)
  PROVE  KInv'
<1> USE KInvFacts
<1> DEFINE k == pcb[z].kstack
<1>1. /\ z \in zombie_list /\ z # current /\ zombie_list' = zombie_list \ {z}
      /\ free_kernel_stacks' = <<k>> \o free_kernel_stacks
      /\ pcb' = [pcb EXCEPT ![z] = Unused] /\ cpu' = "enter"
      /\ UNCHANGED <<task_list, next_pid, current, next_kernel_stack>>
      /\ pcb \in [Task -> PCB] /\ z \in User /\ z \notin task_list /\ BOOT \notin User
      /\ free_kernel_stacks \in Seq(Stack \cup {NIL})
  BY TInvFacts, Places DEF Reap, Listing
<1>2. /\ k \in Used /\ k # NIL /\ NIL \notin Used
      /\ \A t \in Task \ {z} : pcb[t].kstack # k
      /\ \A i \in 1 .. Len(free_kernel_stacks) : free_kernel_stacks[i] # k
  <2>1. k # NIL
    BY <1>1 DEF Stacks, Alive
  <2> QED
    BY <1>1, <2>1, UsedStacks DEF Stacks
<1>3. Unused.state = "UNUSED" /\ Unused.kstack = NIL
  BY DEF Unused, NewTask
<1>4. /\ pcb'[z] = Unused /\ \A t \in Task \ {z} : pcb'[t] = pcb[t]
      /\ Alive' = Alive \ {z} /\ Used' = Used
  BY <1>1 DEF Alive, Used
<1>5. Listing'
  BY <1>1, <1>3, <1>4 DEF Listing
<1> HIDE DEF k
<1>6. /\ Len(free_kernel_stacks') = Len(free_kernel_stacks) + 1
      /\ free_kernel_stacks'[1] = k /\ Len(free_kernel_stacks) \in Nat
      /\ \A i \in 1 .. Len(free_kernel_stacks) : free_kernel_stacks'[i + 1] = free_kernel_stacks[i]
  <2>1. <<k>> \in Seq({k}) /\ Len(<<k>>) = 1 /\ <<k>>[1] = k
    OBVIOUS
  <2> QED
    BY <1>1, <2>1
<1>7. \A t \in Task : pcb'[t].kstack = IF t = z THEN NIL ELSE pcb[t].kstack
  BY <1>3, <1>4
<1>8. \A t \in Task : pcb'[t].kstack # NIL <=> t \in Alive' \ {BOOT}
  BY <1>4, <1>7 DEF Stacks
<1>9. /\ \A t \in Task : pcb'[t].kstack # NIL => pcb'[t].kstack \in Used'
      /\ \A t, u \in Task : pcb'[t].kstack # NIL /\ pcb'[t].kstack = pcb'[u].kstack => t = u
  BY <1>4, <1>7 DEF Stacks
<1>10. ASSUME NEW i \in 1 .. Len(free_kernel_stacks')
       PROVE  /\ free_kernel_stacks'[i] \in Used'
              /\ \A t \in Task : pcb'[t].kstack # free_kernel_stacks'[i]
              /\ \A j \in 1 .. Len(free_kernel_stacks') :
                   free_kernel_stacks'[i] = free_kernel_stacks'[j] => i = j
  <2>1. \A j \in 1 .. Len(free_kernel_stacks') :
          \/ j = 1 /\ free_kernel_stacks'[j] = k
          \/ /\ j - 1 \in 1 .. Len(free_kernel_stacks)
             /\ free_kernel_stacks'[j] = free_kernel_stacks[j - 1]
    <3> TAKE j \in 1 .. Len(free_kernel_stacks')
    <3>1. CASE j = 1
      BY <1>6, <3>1
    <3>2. CASE j # 1
      <4>1. j - 1 \in 1 .. Len(free_kernel_stacks) /\ (j - 1) + 1 = j
        BY <1>6, <3>2
      <4> QED
        BY <1>6, <4>1
    <3> QED
      BY <3>1, <3>2
  <2>2. CASE i = 1
    <3>1. \A j \in 1 .. Len(free_kernel_stacks') :
            free_kernel_stacks'[i] = free_kernel_stacks'[j] => i = j
      BY <1>2, <1>6, <2>1, <2>2
    <3> QED
      BY <1>2, <1>4, <1>6, <1>7, <2>2, <3>1
  <2>3. CASE i # 1
    <3>1. PICK x \in 1 .. Len(free_kernel_stacks) :
            x = i - 1 /\ free_kernel_stacks'[i] = free_kernel_stacks[x]
      BY <2>1, <2>3
    <3>2. /\ free_kernel_stacks[x] \in Used /\ free_kernel_stacks[x] # k
          /\ \A t \in Task : pcb[t].kstack # free_kernel_stacks[x]
      BY <1>2 DEF Stacks
    <3>3. ASSUME NEW j \in 1 .. Len(free_kernel_stacks'),
                 free_kernel_stacks'[i] = free_kernel_stacks'[j]
          PROVE  i = j
      <4>1. j # 1 /\ j - 1 \in 1 .. Len(free_kernel_stacks)
            /\ free_kernel_stacks[x] = free_kernel_stacks[j - 1]
        BY <1>6, <2>1, <3>1, <3>2, <3>3
      <4>2. x = j - 1
        BY <4>1 DEF Stacks
      <4> QED
        BY <1>6, <3>1, <4>2
    <3> QED
      BY <1>2, <1>4, <1>7, <3>1, <3>2, <3>3
  <2> QED
    BY <2>2, <2>3
<1>11. ASSUME NEW s \in Used'
       PROVE  \/ \E t \in Task : pcb'[t].kstack = s
              \/ \E i \in 1 .. Len(free_kernel_stacks') : free_kernel_stacks'[i] = s
  <2>1. CASE s = k
    <3>1. 1 \in 1 .. Len(free_kernel_stacks')
      BY <1>6
    <3> QED
      BY <1>6, <2>1, <3>1
  <2>2. CASE s # k /\ \E t \in Task : pcb[t].kstack = s
    BY <1>7, <2>2 DEF k
  <2>3. CASE \E i \in 1 .. Len(free_kernel_stacks) : free_kernel_stacks[i] = s
    <3>1. PICK i \in 1 .. Len(free_kernel_stacks) : free_kernel_stacks[i] = s
      BY <2>3
    <3>2. i + 1 \in 1 .. Len(free_kernel_stacks') /\ free_kernel_stacks'[i + 1] = s
      BY <1>6, <3>1
    <3> QED
      BY <3>2
  <2> QED
    BY <1>4, <2>1, <2>2, <2>3 DEF Stacks
<1>12. Stacks'
  BY <1>8, <1>9, <1>10, <1>11 DEF Stacks
<1> QED
  BY <1>5, <1>12 DEF KInv

LEMMA NextK ==
  ASSUME KInv, [Next]_vars
  PROVE  KInv'
<1> USE KInvFacts
<1>1. TInv'
  BY NextType
<1>2. CASE Calm
  BY <1>1, <1>2, StayK DEF Calm, AllAlike, Alike
<1>3. ASSUME NEW t \in Task, Exits(t) PROVE KInv'
  BY <1>1, <1>3, StayK DEF Exits, AllAlike, Alike, Listing
<1>4. ASSUME NEW t \in Task, Woken(t) PROVE KInv'
  BY <1>1, <1>4, StayK DEF Woken, Listing
<1>5. ASSUME NEW t \in Task \cup {NIL}, Waits(t) PROVE KInv'
  BY <1>1, <1>5, StayK DEF Waits, Listing
<1>6. CASE UNCHANGED vars
  BY <1>1, <1>6, StayK DEF vars, lists, stacks, SameLists, Listing
<1> QED
  BY <1>1, <1>2, <1>3, <1>4, <1>5, <1>6, StepKinds, ForkK, ExitEndK, ReapK

LEMMA OneOwner ==
  ASSUME KInv
  PROVE  StacksExclusive
<1> USE KInvFacts
<1>1. pcb[current].state # "UNUSED" /\ DOMAIN free_kernel_stacks = 1 .. Len(free_kernel_stacks)
  BY TInvFacts DEF Listing
<1>2. ASSUME NEW s \in Used
      PROVE  Cardinality({t \in Task : pcb[t].kstack = s}
                   \cup {<<"free", i>> : i \in {j \in DOMAIN free_kernel_stacks :
                                                  free_kernel_stacks[j] = s}}) = 1
  <2> DEFINE O == {t \in Task : pcb[t].kstack = s}
             F == {j \in DOMAIN free_kernel_stacks : free_kernel_stacks[j] = s}
             P == {<<"free", i>> : i \in F}
  <2>0. s # NIL
    BY UsedStacks
  <2>1. \E x : O \cup P = {x}
    <3>1. CASE O # {}
      <4>1. PICK t \in Task : pcb[t].kstack = s
        BY <3>1
      <4>2. O = {t}
        BY <2>0, <4>1 DEF Stacks
      <4>3. F = {}
        BY <1>1, <4>1 DEF Stacks
      <4>4. P = {}
        BY <4>3
      <4> QED
        BY <4>2, <4>4
    <3>2. CASE O = {}
      <4>1. PICK i \in 1 .. Len(free_kernel_stacks) : free_kernel_stacks[i] = s
        BY <3>2 DEF Stacks
      <4>2. F = {i}
        BY <1>1, <4>1 DEF Stacks
      <4>3. P = {<<"free", i>>}
        BY <4>2
      <4> QED
        BY <3>2, <4>3
    <3> QED
      BY <3>1, <3>2
  <2> HIDE DEF O, P
  <2>2. Cardinality(O \cup P) = 1
    BY <2>1, FS_Singleton
  <2> QED
    BY <2>2 DEF O, P
<1> QED
  BY <1>1, <1>2 DEF StacksExclusive, Used

(* A kernel stack is freed once and never handed out while somebody runs   *)
(* on it, whichever tasks signals wake: fork(), task_exit() and            *)
(* reap_zombies() together.                                                *)
THEOREM StacksAreExclusive == Spec => []StacksExclusive
BY InitK, NextK, OneOwner, PTL DEF Spec
-----------------------------------------------------------------------------
(* The current task and the loaded address space.  The rest needs that     *)
(* nothing but the awaited exit wakes a waitpid(): a task that waits for   *)
(* itself and is woken is made READY by its own exit, and runs as a zombie.*)
At == IF cpu = "tick" THEN trapped ELSE cpu

CInv ==
  /\ At \in {"run", "ret"} => current \in task_list
  /\ At \in Open => cr3 = IF current \in User THEN current ELSE BOOT

(* A step that stays with the task that it found. *)
LEMMA StayC ==
  ASSUME CInv, UNCHANGED <<current, cr3>>, task_list \subseteq task_list',
         At' \in Open => At' = At \/ (At' \in {"run", "ret"} /\ At \in {"run", "ret"})
                         \/ (At' = "block" /\ At \in Open)
  PROVE  CInv'
BY DEF CInv, Open

LEMMA SyscallC ==
  ASSUME TInv, CInv, Syscall \/ Block \/ SyscallReturn \/ kernel_yield
  PROVE  CInv'
<1>1. /\ cpu \in {"run", "ret"} /\ UNCHANGED <<current, cr3>> /\ task_list \subseteq task_list'
      /\ cpu' \in {"run", "ret", "enter", "block", "panic", "exit"}
  BY DEF Syscall, sys_fork, task_fork, sys_exit, sys_waitpid, sys_kill, sys_signal, sys_sigret, sys_alarm,
         sys_pause, InUserMode, Block, SyscallReturn, kernel_yield, task_exit, lists
<1> QED
  BY <1>1, StayC DEF At, Open

LEMMA InterruptC ==
  ASSUME TInv, CInv, Interrupt
  PROVE  CInv'
<1>1. UNCHANGED <<current, cr3, task_list>> /\ trapped \in Open
  BY TInvFacts DEF Interrupt, Tick, TickAlarm, TickEnd, task_unblock, lists
<1>2. CASE Tick
  BY <1>1, <1>2, StayC DEF Tick, TickTail, Interruptible, At, Open
<1>3. CASE TickAlarm
  BY <1>1, <1>3, StayC DEF TickAlarm, At
<1>4. CASE TickEnd
  BY <1>1, <1>4, StayC DEF TickEnd, TickTail, At, Open
<1>5. CASE \E t \in Task : task_unblock(t)
  BY <1>1, <1>5, StayC DEF task_unblock, At
<1> QED
  BY <1>2, <1>3, <1>4, <1>5 DEF Interrupt

LEMMA NextC ==
  ASSUME KInv, QInv, CInv, [Next]_vars
  PROVE  CInv'
<1> USE KInvFacts, QInvFacts
<1>1. CASE PickReady
  <2>1. PICK t : t = dequeued(q)
    OBVIOUS
  <2>2. /\ t \in Task /\ pcb[t].state = "READY" /\ current' = t /\ cpu' = "run"
        /\ cr3' = (IF t \in User THEN t ELSE BOOT) /\ task_list' = task_list
    BY <1>1, <2>1, TInvFacts, DequeueFields DEF PickReady, lists
  <2>3. t \in task_list
    BY <2>2 DEF Listing, Alive, Dead
  <2> QED
    BY <2>2, <2>3 DEF CInv, At
<1>2. CASE ExitWake \/ ExitEnd \/ YieldEnter \/ (\E z \in Task : Reap(z))
           \/ PickNone \/ PickOther \/ PickFatal
  <2>1. cpu' \in {"exit", "enter", "pick", "panic", "wild"}
    BY <1>2 DEF ExitWake, ExitEnd, YieldEnter, Reap, PickNone, PickOther, PickFatal, task_exit
  <2> QED
    BY <2>1 DEF CInv, At, Open
<1>3. CASE UNCHANGED vars
  BY <1>3 DEF vars, lists, CInv, At
<1> QED
  BY <1>1, <1>2, <1>3, SyscallC, InterruptC DEF Next, Switch, Halted
-----------------------------------------------------------------------------
(* waitpid(): every target is listed, or its exit is at work on the waiter.*)
WInv ==
  \A t \in task_list : pcb[t].waiting_on # NIL =>
    \/ cpu = "exit" /\ t \in work
    \/ pcb[t].waiting_on \in task_list /\ pcb[t].waiting_on # dying

LEMMA NextW ==
  ASSUME KInv, QInv, WInv, [Next]_vars
  PROVE  WInv'
<1> USE KInvFacts, QInvFacts
<1>1. /\ TInv' /\ task_list \subseteq Task /\ NIL \notin Task /\ current \in Task
      /\ pcb \in [Task -> PCB]
      /\ cpu # "exit" => dying = NIL
      /\ cpu' # "exit" => dying' = NIL
  <2>1. TInv'
    BY NextType
  <2> QED
    BY <2>1, TInvFacts, Numbers DEF TInv, TypeOK
<1>2. CASE Calm
  BY <1>1, <1>2 DEF WInv, Calm, SameLists, AllAlike, Alike
<1>3. ASSUME NEW x \in Task, Exits(x) PROVE WInv'
  BY <1>1, <1>3 DEF WInv, Exits, SameLists, AllAlike, Alike
<1>4. ASSUME NEW x \in Task \cup {NIL}, Waits(x) PROVE WInv'
  BY <1>1, <1>4 DEF WInv, Waits, SameLists
<1>5. ASSUME NEW x \in Task, Woken(x) PROVE WInv'
  BY <1>1, <1>5 DEF WInv, Woken, SameLists
<1>6. CASE ExitEnd
  <2>1. /\ task_list' = task_list \ {dying} /\ pcb' = pcb /\ work = {} /\ cpu' = "enter"
    BY <1>6 DEF ExitEnd
  <2> QED
    BY <1>1, <2>1 DEF WInv
<1>7. ASSUME NEW z \in Task, Reap(z) PROVE WInv'
  <2>1. /\ z \notin task_list /\ task_list' = task_list /\ cpu # "exit" /\ cpu' # "exit"
        /\ \A t \in Task \ {z} : pcb'[t] = pcb[t]
    BY <1>1, <1>7 DEF Reap, Listing
  <2> QED
    BY <1>1, <2>1 DEF WInv
<1>8. CASE sys_fork
  <2>1. /\ cpu = "run" /\ cpu' # "exit" /\ next_pid \in Task /\ next_pid \notin task_list
        /\ pcb[current].state = "RUNNING"
    <3>1. cpu = "run" /\ cpu' \in {"ret", "panic"} /\ next_pid \in Task
      BY <1>8 DEF sys_fork, task_fork, InUserMode
    <3>2. next_pid \notin task_list
      BY <3>1, Numbers DEF Listing, Alive
    <3> QED
      BY <3>1, <3>2 DEF Running
  <2>2. pcb[current].waiting_on = NIL
    BY <1>1, <2>1 DEF Waiters
  <2>3. CASE UNCHANGED <<pcb, lists>>
    BY <1>1, <2>1, <2>3 DEF WInv, lists
  <2>4. CASE /\ task_list' = task_list \cup {next_pid}
             /\ pcb' = [pcb EXCEPT ![next_pid] =
                          [pcb[current] EXCEPT !.state = "READY", !.kstack = NewStack,
                             !.signal_bitmask = {}, !.signal_handlers = {}, !.alarm_ticks = 0]]
    <3>1. PICK n : n = [pcb[current] EXCEPT !.state = "READY", !.kstack = NewStack,
                          !.signal_bitmask = {}, !.signal_handlers = {}, !.alarm_ticks = 0]
      OBVIOUS
    <3>2. n.waiting_on = NIL
      <4>1. pcb[current] \in PCB
        BY <1>1
      <4> QED
        BY <2>2, <3>1, <4>1 DEF PCB
    <3>3. pcb'[next_pid] = n /\ \A t \in task_list : pcb'[t] = pcb[t]
      BY <1>1, <2>1, <2>4, <3>1
    <3> QED
      BY <1>1, <2>1, <2>4, <3>2, <3>3 DEF WInv
  <2> QED
    BY <1>8, <2>3, <2>4 DEF sys_fork, task_fork
<1>9. CASE UNCHANGED vars
  BY <1>9 DEF vars, lists, WInv
<1> QED
  BY <1>2, <1>3, <1>4, <1>5, <1>6, <1>7, <1>8, <1>9, StepKinds
-----------------------------------------------------------------------------
LEMMA InitCW ==
  ASSUME Init
  PROVE  CInv /\ WInv
<1>1. cpu = "enter" /\ task_list \subseteq Task /\ pcb = [t \in Task |-> BootPCB(t)]
  BY Numbers DEF Init
<1>2. \A t \in Task : pcb[t].waiting_on = NIL
  BY <1>1 DEF BootPCB, NewTask, Unused
<1> QED
  BY <1>1, <1>2 DEF CInv, WInv, At, Open

(* Between context switches the current task is the RUNNING one, is still  *)
(* listed, and has its own address space loaded: task_yield(), task_exit() *)
(* and the timer interrupt together.                                       *)
THEOREM CurrentTaskRuns ==
  ASSUME ~WakeWaiters
  PROVE  Spec => []CurrentIsRunning
<1>1. Init => KInv /\ QInv /\ CInv
  BY InitK, InitQ, InitCW
<1>2. KInv /\ QInv /\ CInv /\ [Next]_vars => (KInv /\ QInv /\ CInv)'
  BY NextK, NextQ, NextC
<1>3. KInv /\ QInv /\ CInv => CurrentIsRunning
  BY QInvFacts DEF CurrentIsRunning, CInv, At, Open, Running
<1> QED
  BY <1>1, <1>2, <1>3, PTL DEF Spec

(* A waitpid() never misses an exit: the task that it waits for is listed, *)
(* or the loop of task_exit() has still to wake the waiter.                *)
THEOREM NoExitMissed ==
  ASSUME ~WakeWaiters
  PROVE  Spec => []WaitTargetAlive
<1>1. Init => KInv /\ QInv /\ WInv
  BY InitK, InitQ, InitCW
<1>2. KInv /\ QInv /\ WInv /\ [Next]_vars => (KInv /\ QInv /\ WInv)'
  BY NextK, NextQ, NextW
<1>3. KInv /\ QInv /\ WInv => WaitTargetAlive
  BY DEF WInv, WaitTargetAlive
<1> QED
  BY <1>1, <1>2, <1>3, PTL DEF Spec
=============================================================================
