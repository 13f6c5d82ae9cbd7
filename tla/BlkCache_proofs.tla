--------------------------- MODULE BlkCache_proofs ---------------------------
(***************************************************************************)
(* The block cache for every number of entries, buckets, drives and        *)
(* sectors, on disks without unreadable sectors: the hash chains stay      *)
(* chains, every valid entry is found, and holds what the disk holds.      *)
(***************************************************************************)
EXTENDS BlkCache, FiniteSetTheorems, SequenceTheorems, WellFoundedInduction, TLAPS

LEMMA LeastOf ==
  ASSUME NEW S, S \subseteq Nat, S # {}
  PROVE  \E n \in S : \A m \in S : n <= m
<1>1. PICK x \in S : \A y \in S : ~(<<y, x>> \in OpToRel(<, Nat))
  BY NatLessThanWellFounded, WFMin
<1>2. \A y \in S : x <= y
  <2> TAKE y \in S
  <2>1. ~(<<y, x>> \in OpToRel(<, Nat)) /\ <<y, x>> \in Nat \X Nat
    BY <1>1
  <2>2. ~(y < x)
    BY <2>1, ZenonT(20) DEF OpToRel
  <2> QED
    BY <2>2
<1> QED
  BY <1>2

LEMMA UpTo ==
  ASSUME NEW N \in Nat, NEW B, 0 \in B, \A n \in 1 .. N : n - 1 \in B => n \in B
  PROVE  0 .. N \subseteq B
<1> DEFINE Bad == (0 .. N) \ B
<1>1. SUFFICES ASSUME Bad # {} PROVE FALSE
  OBVIOUS
<1>2. PICK n \in Bad : \A k \in Bad : n <= k
  <2>1. Bad \subseteq Nat
    OBVIOUS
  <2> QED
    BY <1>1, <2>1, LeastOf
<1>3. n # 0 /\ n \in 1 .. N /\ n - 1 \in 0 .. N
  BY <1>2
<1>4. n - 1 \in B
  BY <1>2, <1>3
<1> QED
  BY <1>2, <1>3, <1>4

(* What a loop computes from x with its N steps g.                         *)
Iteration(f, S, x, g, N) ==
  f \in [0 .. N -> S] /\ f[0] = x /\ \A n \in 1 .. N : f[n] = g[<<n, f[n - 1]>>]

LEMMA Iterates ==
  ASSUME NEW S, NEW x \in S, NEW N \in Nat, NEW g \in [(1 .. N) \X S -> S]
  PROVE  \E f : Iteration(f, S, x, g, N)
<1> USE DEF Iteration
<1> DEFINE Is(f, k) == Iteration(f, S, x, g, k)
           B == {k \in 0 .. N : \E f : Is(f, k)}
<1>1. 0 \in B
  <2>1. PICK f : f = [n \in 0 .. 0 |-> x]
    OBVIOUS
  <2>2. Is(f, 0)
    BY <2>1
  <2> QED
    BY <2>2
<1>2. ASSUME NEW k \in 1 .. N, k - 1 \in B PROVE k \in B
  <2>1. k - 1 \in 0 .. N
    OBVIOUS
  <2>2. PICK f : Is(f, k - 1)
    BY <1>2
  <2> DEFINE h == [n \in 0 .. k |-> IF n = k THEN g[<<k, f[k - 1]>>] ELSE f[n]]
  <2>3. h \in [0 .. k -> S]
    <3>1. f[k - 1] \in S
      BY <2>1, <2>2
    <3>2. g[<<k, f[k - 1]>>] \in S
      BY <3>1
    <3> QED
      BY <2>2, <3>2
  <2>4. h[0] = x
    BY <2>1, <2>2
  <2>5. ASSUME NEW n \in 1 .. k PROVE h[n] = g[<<n, h[n - 1]>>]
    <3>1. CASE n = k
      <4>1. k - 1 \in 0 .. k /\ k - 1 # k /\ k \in 0 .. k
        OBVIOUS
      <4>2. h[k - 1] = f[k - 1] /\ h[k] = g[<<k, f[k - 1]>>]
        BY <4>1
      <4> QED
        BY <3>1, <4>2
    <3>2. CASE n < k
      <4>1. n \in 1 .. k - 1 /\ n - 1 \in 0 .. k /\ n \in 0 .. k /\ n # k /\ n - 1 # k
        BY <2>1, <3>2
      <4>2. h[n] = f[n] /\ h[n - 1] = f[n - 1]
        BY <4>1, <2>1
      <4> QED
        BY <2>2, <4>1, <4>2
    <3> QED
      BY <3>1, <3>2, <2>1
  <2> HIDE DEF h
  <2>6. Is(h, k)
    BY <2>3, <2>4, <2>5
  <2> QED
    BY <2>6
<1> HIDE DEF B
<1>3. 0 .. N \subseteq B
  BY <1>1, <1>2, UpTo
<1> QED
  BY <1>3 DEF B
-----------------------------------------------------------------------------
(* What a cache is.                                                        *)
CacheEntry == [sector : Nat \X Nat, valid : BOOLEAN, data : Data \cup {NIL},
               hash_next : Entry \cup {NIL}]
CacheRecord == [entries : [Entry -> CacheEntry], hash_table : [Bucket -> Entry \cup {NIL}],
                lru : Seq(Entry), hung : BOOLEAN]

Bucketed(c, e) == blkcache_hash(c.entries[e].sector)
Succ(c, e) == c.entries[e].hash_next

(* The entries M are in the chains: the chain of a bucket leads along      *)
(* entries of that bucket, of growing rank, and each entry is the head of  *)
(* its chain or behind one other entry.                                    *)
Links(c, M, rank) ==
  /\ \A b \in Bucket : c.hash_table[b] # NIL =>
       c.hash_table[b] \in M /\ Bucketed(c, c.hash_table[b]) = b
  /\ \A e \in M :
       /\ Succ(c, e) # NIL => /\ Succ(c, e) \in M /\ rank[e] < rank[Succ(c, e)]
                              /\ Bucketed(c, Succ(c, e)) = Bucketed(c, e)
                              /\ c.hash_table[Bucketed(c, e)] # Succ(c, e)
                              /\ \A p \in M : Succ(c, p) = Succ(c, e) => p = e
       /\ c.hash_table[Bucketed(c, e)] = e \/ \E p \in M : Succ(c, p) = e

Linked(c, M) == \E rank \in [Entry -> Nat] : Links(c, M, rank)
-----------------------------------------------------------------------------
LEMMA HashType == \A s \in Nat \X Nat : blkcache_hash(s) \in Bucket
<1> TAKE s \in Nat \X Nat
<1>1. PICK x \in Nat, y \in Nat : x = s[1] /\ y = s[2]
  OBVIOUS
<1>2. PICK z \in Nat : z = x * HashMult + y
  BY BlkCacheAssumption
<1>3. z % NumBuckets \in 0 .. NumBuckets - 1
  BY BlkCacheAssumption
<1> QED
  BY <1>1, <1>2, <1>3 DEF blkcache_hash, Bucket

LEMMA SectorType == Sector \subseteq Nat \X Nat
<1>1. Drives \subseteq Nat /\ 0 .. Sectors - 1 \subseteq Nat
  BY BlkCacheAssumption
<1> QED
  BY <1>1 DEF Sector

LEMMA CacheFields ==
  ASSUME NEW c \in CacheRecord
  PROVE  /\ c.entries \in [Entry -> CacheEntry] /\ c.hash_table \in [Bucket -> Entry \cup {NIL}]
         /\ c.lru \in Seq(Entry) /\ c.hung \in BOOLEAN
         /\ \A e \in Entry : /\ c.entries[e] \in CacheEntry /\ c.entries[e].sector \in Nat \X Nat
                            /\ c.entries[e].valid \in BOOLEAN
                            /\ c.entries[e].data \in Data \cup {NIL}
                            /\ Succ(c, e) \in Entry \cup {NIL} /\ Bucketed(c, e) \in Bucket
<1>1. /\ c.entries \in [Entry -> CacheEntry] /\ c.hash_table \in [Bucket -> Entry \cup {NIL}]
      /\ c.lru \in Seq(Entry) /\ c.hung \in BOOLEAN
  BY DEF CacheRecord
<1>2. \A e \in Entry : c.entries[e] \in CacheEntry
  BY <1>1
<1>3. \A e \in Entry : /\ c.entries[e].sector \in Nat \X Nat /\ c.entries[e].valid \in BOOLEAN
                     /\ c.entries[e].data \in Data \cup {NIL}
                     /\ c.entries[e].hash_next \in Entry \cup {NIL}
  BY <1>2 DEF CacheEntry
<1>4. \A e \in Entry : Bucketed(c, e) \in Bucket
  BY <1>3, HashType DEF Bucketed
<1> QED
  BY <1>1, <1>2, <1>3, <1>4 DEF Succ
-----------------------------------------------------------------------------
(* The walk along the chain of a bucket.                                   *)
ChainIs(walk, c, b, M) ==
  /\ walk \in [0 .. MaxEntries -> M \cup {NIL}] /\ walk[0] = c.hash_table[b]
  /\ \A n \in 1 .. MaxEntries :
       walk[n] = IF walk[n - 1] = NIL THEN NIL ELSE Succ(c, walk[n - 1])
  /\ \A n \in 0 .. MaxEntries : walk[n] # NIL => Bucketed(c, walk[n]) = b

LEMMA Chains ==
  ASSUME NEW c \in CacheRecord, NEW M \in SUBSET Entry, NEW rank, Links(c, M, rank),
         NEW b \in Bucket
  PROVE  ChainIs(Chain(c, b), c, b, M)
<1> DEFINE S == {e \in M : Bucketed(c, e) = b} \cup {NIL}
           g == [p \in (1 .. MaxEntries) \X S |-> IF p[2] = NIL THEN NIL ELSE Succ(c, p[2])]
           head == c.hash_table[b]
           Step(f) == [n \in 0 .. MaxEntries |->
                         IF n = 0 THEN head
                         ELSE IF f[n - 1] = NIL THEN NIL ELSE Succ(c, f[n - 1])]
<1>1. MaxEntries \in Nat
  BY BlkCacheAssumption
<1>2. \A p \in S : p # NIL => Succ(c, p) \in S
  <2> TAKE p \in S
  <2>1. CASE p # NIL /\ Succ(c, p) # NIL
    <3>1. p \in M /\ Bucketed(c, p) = b
      BY <2>1
    <3>2. Succ(c, p) \in M /\ Bucketed(c, Succ(c, p)) = b
      BY <2>1, <3>1 DEF Links
    <3> QED
      BY <3>2
  <2> QED
    BY <2>1
<1>3. g \in [(1 .. MaxEntries) \X S -> S]
  BY <1>2
<1>4. head \in S
  BY DEF Links
<1> HIDE DEF S, g, head
<1>5. PICK f : Iteration(f, S, head, g, MaxEntries)
  BY <1>1, <1>3, <1>4, Iterates
<1>6. \A n \in 1 .. MaxEntries : f[n] = IF f[n - 1] = NIL THEN NIL ELSE Succ(c, f[n - 1])
  <2> TAKE n \in 1 .. MaxEntries
  <2>1. f[n] = g[<<n, f[n - 1]>>] /\ f[n - 1] \in S
    BY <1>1, <1>5 DEF Iteration
  <2> QED
    BY <2>1 DEF g
<1>7. f = Step(f)
  <2>1. \A n \in 0 .. MaxEntries : f[n] = Step(f)[n]
    <3> TAKE n \in 0 .. MaxEntries
    <3>1. CASE n = 0
      BY <1>5, <3>1 DEF Iteration
    <3>2. CASE n # 0
      <4>1. n \in 1 .. MaxEntries
        BY <1>1, <3>2
      <4> QED
        BY <1>6, <3>2, <4>1
    <3> QED
      BY <3>1, <3>2
  <2> QED
    BY <1>5, <2>1 DEF Iteration
<1>8. PICK walk : walk = Chain(c, b) /\ walk = (CHOOSE w : w = Step(w))
  BY DEF Chain, Succ, head
<1>9. walk = Step(walk)
  BY <1>7, <1>8
<1>10. \A n \in 0 .. MaxEntries : walk[n] \in S
  <2> DEFINE B == {n \in 0 .. MaxEntries : walk[n] \in S}
  <2>1. 0 \in B
    BY <1>1, <1>4, <1>9
  <2>2. ASSUME NEW n \in 1 .. MaxEntries, n - 1 \in B PROVE n \in B
    <3>1. n \in 0 .. MaxEntries /\ n # 0
      BY <1>1
    <3>2. walk[n] = IF walk[n - 1] = NIL THEN NIL ELSE Succ(c, walk[n - 1])
      BY <1>9, <3>1
    <3> QED
      BY <1>2, <2>2, <3>1, <3>2 DEF S
  <2> HIDE DEF B
  <2>3. 0 .. MaxEntries \subseteq B
    BY <1>1, <2>1, <2>2, UpTo
  <2> QED
    BY <2>3 DEF B
<1>11. walk \in [0 .. MaxEntries -> M \cup {NIL}]
  <2>1. \A n \in 0 .. MaxEntries : walk[n] \in M \cup {NIL}
    BY <1>10 DEF S
  <2>2. DOMAIN walk = 0 .. MaxEntries /\ walk = [n \in 0 .. MaxEntries |-> walk[n]]
    BY <1>9
  <2> QED
    BY <2>1, <2>2
<1>12. walk[0] = c.hash_table[b]
  BY <1>1, <1>9 DEF head
<1>13. \A n \in 1 .. MaxEntries :
         walk[n] = IF walk[n - 1] = NIL THEN NIL ELSE Succ(c, walk[n - 1])
  <2> TAKE n \in 1 .. MaxEntries
  <2>1. n \in 0 .. MaxEntries /\ n # 0
    BY <1>1
  <2> QED
    BY <1>9, <2>1
<1>14. \A n \in 0 .. MaxEntries : walk[n] # NIL => Bucketed(c, walk[n]) = b
  BY <1>10 DEF S
<1> QED
  BY <1>8, <1>11, <1>12, <1>13, <1>14 DEF ChainIs

(* Ranks grow along a chain.                                               *)
LEMMA ChainGrows ==
  ASSUME NEW c \in CacheRecord, NEW M \in SUBSET Entry, NEW rank \in [Entry -> Nat],
         Links(c, M, rank), NEW b \in Bucket, NEW walk, ChainIs(walk, c, b, M),
         NEW m \in 0 .. MaxEntries, walk[m] # NIL
  PROVE  \A n \in 0 .. m : walk[n] # NIL /\ (n < m => rank[walk[n]] < rank[walk[m]])
<1> DEFINE Ok(k) == walk[k] # NIL =>
                      \A n \in 0 .. k : walk[n] # NIL /\ (n < k => rank[walk[n]] < rank[walk[k]])
           Bad == {k \in 0 .. MaxEntries : ~ Ok(k)}
<1>1. MaxEntries \in Nat
  BY BlkCacheAssumption
<1>2. SUFFICES ASSUME Bad # {} PROVE FALSE
  <2>1. Ok(m)
    BY <1>2
  <2> QED
    BY <2>1
<1>3. PICK k \in Bad : \A j \in Bad : k <= j
  <2>1. Bad \subseteq Nat
    BY <1>1
  <2> QED
    BY <1>2, <2>1, LeastOf
<1>4. k \in 0 .. MaxEntries /\ ~ Ok(k)
  BY <1>3
<1>5. CASE k = 0
  <2>1. Ok(0)
    OBVIOUS
  <2> QED
    BY <1>4, <1>5, <2>1
<1>6. CASE k # 0
  <2>1. k - 1 \in 0 .. MaxEntries /\ k - 1 < k /\ k \in 1 .. MaxEntries
    BY <1>1, <1>4, <1>6
  <2>2. Ok(k - 1)
    BY <1>3, <2>1
  <2> HIDE DEF Bad, Ok
  <2>3. walk[k] # NIL
    BY <1>4 DEF Ok
  <2>4. walk[k] = IF walk[k - 1] = NIL THEN NIL ELSE Succ(c, walk[k - 1])
    BY <2>1 DEF ChainIs
  <2>5. PICK p \in M : p = walk[k - 1] /\ p # NIL
    BY <2>1, <2>3, <2>4 DEF ChainIs
  <2>6. PICK q \in M : q = walk[k] /\ rank[p] < rank[q]
    <3>1. walk[k] = Succ(c, p)
      BY <2>3, <2>4, <2>5
    <3> QED
      BY <2>3, <3>1 DEF Links
  <2>7. \A n \in 0 .. k - 1 : walk[n] # NIL /\ (n < k - 1 => rank[walk[n]] < rank[p])
    BY <2>2, <2>5 DEF Ok
  <2>8. ASSUME NEW n \in 0 .. k PROVE walk[n] # NIL /\ (n < k => rank[walk[n]] < rank[walk[k]])
    <3>1. CASE n = k
      BY <2>3, <3>1
    <3>2. CASE n = k - 1
      BY <2>5, <2>6, <3>2
    <3>3. CASE n # k /\ n # k - 1
      <4>1. n \in 0 .. k - 1 /\ n < k - 1 /\ n \in 0 .. MaxEntries
        BY <1>1, <1>4, <2>1, <3>3
      <4>2. PICK r \in M : r = walk[n]
        BY <2>7, <4>1 DEF ChainIs
      <4>3. rank[r] < rank[p]
        BY <2>7, <4>1, <4>2
      <4>4. rank[p] \in Nat /\ rank[q] \in Nat /\ rank[r] \in Nat
        OBVIOUS
      <4> QED
        BY <2>6, <2>7, <4>1, <4>2, <4>3, <4>4
    <3> QED
      BY <3>1, <3>2, <3>3
  <2> QED
    BY <1>4, <2>8 DEF Ok
<1> QED
  BY <1>5, <1>6

(* Chains end, and an entry is at one place of its chain.                  *)
LEMMA ChainOnce ==
  ASSUME NEW c \in CacheRecord, NEW M \in SUBSET Entry, NEW rank \in [Entry -> Nat],
         Links(c, M, rank), NEW b \in Bucket, NEW walk, ChainIs(walk, c, b, M)
  PROVE  /\ walk[MaxEntries] = NIL
         /\ \A n, m \in 0 .. MaxEntries : walk[n] # NIL /\ walk[n] = walk[m] => n = m
<1>1. MaxEntries \in Nat
  BY BlkCacheAssumption
<1>2. \A n, m \in 0 .. MaxEntries : walk[n] # NIL /\ walk[n] = walk[m] => n = m
  <2> SUFFICES ASSUME NEW n \in 0 .. MaxEntries, NEW m \in 0 .. MaxEntries,
                      walk[n] # NIL, walk[n] = walk[m], n # m
               PROVE  FALSE
    OBVIOUS
  <2>1. walk[n] \in Entry
    BY DEF ChainIs
  <2>2. rank[walk[n]] \in Nat
    BY <2>1
  <2>3. CASE n < m
    <3>1. n \in 0 .. m
      BY <1>1, <2>3
    <3>2. rank[walk[n]] < rank[walk[m]]
      BY <2>3, <3>1, ChainGrows
    <3> QED
      BY <2>2, <3>2
  <2>4. CASE m < n
    <3>1. m \in 0 .. n
      BY <1>1, <2>4
    <3>2. rank[walk[m]] < rank[walk[n]]
      BY <2>4, <3>1, ChainGrows
    <3> QED
      BY <2>2, <3>2
  <2> QED
    BY <1>1, <2>3, <2>4
<1>3. ASSUME walk[MaxEntries] # NIL PROVE FALSE
  <2>1. \A n \in 0 .. MaxEntries : walk[n] # NIL
    <3>1. PICK m \in 0 .. MaxEntries : m = MaxEntries
      BY <1>1
    <3>2. walk[m] # NIL
      BY <1>3, <3>1
    <3>3. ASSUME NEW n \in 0 .. m PROVE walk[n] # NIL
      <4>1. walk[n] # NIL /\ (n < m => rank[walk[n]] < rank[walk[m]])
        BY <3>2, ChainGrows
      <4> QED
        BY <4>1
    <3> QED
      BY <3>1, <3>3
  <2>2. walk \in [0 .. MaxEntries -> Entry]
    BY <2>1 DEF ChainIs
  <2>3. IsFiniteSet(0 .. MaxEntries) /\ Cardinality(0 .. MaxEntries) = MaxEntries + 1
    BY <1>1, FS_Interval
  <2>4. IsFiniteSet(Entry) /\ Cardinality(Entry) = MaxEntries
    BY <1>1, FS_Interval DEF Entry
  <2>5. PICK n, m \in 0 .. MaxEntries : n # m /\ walk[n] = walk[m]
    BY <1>1, <2>2, <2>3, <2>4, FS_PigeonHole
  <2> QED
    BY <1>2, <2>1, <2>5
<1> QED
  BY <1>2, <1>3

(* A chain comes to every entry of its bucket.                             *)
LEMMA ChainVisits ==
  ASSUME NEW c \in CacheRecord, NEW M \in SUBSET Entry, NEW rank \in [Entry -> Nat],
         Links(c, M, rank), NEW b \in Bucket, NEW walk, ChainIs(walk, c, b, M),
         NEW e \in M, Bucketed(c, e) = b
  PROVE  \E n \in 0 .. MaxEntries : walk[n] = e
<1> DEFINE Missed == {x \in M : Bucketed(c, x) = b /\ \A n \in 0 .. MaxEntries : walk[n] # x}
           R == {rank[x] : x \in Missed}
<1>1. SUFFICES ASSUME e \in Missed PROVE FALSE
  OBVIOUS
<1>2. R \subseteq Nat /\ R # {}
  BY <1>1
<1>3. PICK r \in R : \A s \in R : r <= s
  BY <1>2, LeastOf
<1>4. PICK x \in Missed : rank[x] = r
  BY <1>3
<1>5. x \in M /\ x # NIL /\ Bucketed(c, x) = b /\ \A n \in 0 .. MaxEntries : walk[n] # x
  BY <1>4, BlkCacheAssumption
<1>6. MaxEntries \in Nat /\ 0 \in 0 .. MaxEntries
  BY BlkCacheAssumption
<1>7. c.hash_table[b] # x
  BY <1>5, <1>6 DEF ChainIs
<1>8. PICK p \in M : Succ(c, p) = x
  BY <1>5, <1>7 DEF Links
<1>9. rank[p] < rank[x] /\ Bucketed(c, p) = b
  BY <1>5, <1>8 DEF Links
<1>10. p \notin Missed
  <2>1. rank[p] \in Nat /\ rank[x] \in Nat
    OBVIOUS
  <2> QED
    BY <1>3, <1>4, <1>9, <2>1
<1>11. PICK n \in 0 .. MaxEntries : walk[n] = p
  BY <1>9, <1>10
<1>12. p # NIL
  BY BlkCacheAssumption
<1>13. n # MaxEntries
  BY <1>11, <1>12, ChainOnce
<1>14. n + 1 \in 1 .. MaxEntries /\ n + 1 \in 0 .. MaxEntries /\ (n + 1) - 1 = n
  BY <1>6, <1>13
<1>15. walk[n + 1] = x
  BY <1>8, <1>11, <1>12, <1>14 DEF ChainIs
<1> QED
  BY <1>5, <1>14, <1>15
-----------------------------------------------------------------------------
(* Only pointers of the hash table differ between c and r.                 *)
SameBodies(c, r) ==
  /\ r \in CacheRecord /\ r.lru = c.lru /\ r.hung = c.hung
  /\ \A e \in Entry : /\ r.entries[e].sector = c.entries[e].sector
                      /\ r.entries[e].valid = c.entries[e].valid
                      /\ r.entries[e].data = c.entries[e].data

(* The entries E are those of c but for their pointers.                    *)
SameFields(E, c) ==
  /\ E \in [Entry -> CacheEntry]
  /\ \A x \in Entry : /\ E[x].sector = c.entries[x].sector /\ E[x].valid = c.entries[x].valid
                      /\ E[x].data = c.entries[x].data

Relinked(r, c, E, T) == r = [c EXCEPT !.entries = E, !.hash_table = T]

LEMMA Bodies ==
  ASSUME NEW c \in CacheRecord, NEW E, SameFields(E, c),
         NEW T \in [Bucket -> Entry \cup {NIL}],
         NEW r, Relinked(r, c, E, T)
  PROVE  SameBodies(c, r) /\ r.entries = E /\ r.hash_table = T
<1>1. r \in CacheRecord /\ r.entries = E /\ r.hash_table = T /\ r.lru = c.lru /\ r.hung = c.hung
  BY DEF CacheRecord, SameFields, Relinked
<1> QED
  BY <1>1 DEF SameBodies, SameFields

(* But for the pointer of e.                                               *)
NextSetTo(E, c, e, n) ==
  /\ SameFields(E, c)
  /\ \A x \in Entry : E[x].hash_next = IF x = e THEN n ELSE Succ(c, x)

LEMMA NextSet ==
  ASSUME NEW c \in CacheRecord, NEW e \in Entry, NEW n \in Entry \cup {NIL},
         NEW E, E = [c.entries EXCEPT ![e].hash_next = n]
  PROVE  NextSetTo(E, c, e, n)
<1>1. c.entries \in [Entry -> CacheEntry] /\ c.entries[e] \in CacheEntry
  BY CacheFields
<1>2. /\ E[e].sector = c.entries[e].sector /\ E[e].valid = c.entries[e].valid
      /\ E[e].data = c.entries[e].data /\ E[e].hash_next = n /\ E[e] \in CacheEntry
  BY <1>1 DEF CacheEntry
<1>3. \A x \in Entry : x # e => E[x] = c.entries[x]
  BY <1>1
<1>4. E \in [Entry -> CacheEntry]
  BY <1>1, <1>2, <1>3
<1> QED
  BY <1>2, <1>3, <1>4 DEF Succ, NextSetTo, SameFields

LEMMA Inserted ==
  ASSUME NEW c \in CacheRecord, NEW M \in SUBSET Entry, Linked(c, M), NEW e \in Entry, e \notin M
  PROVE  /\ SameBodies(c, hash_insert(c, e)) /\ Linked(hash_insert(c, e), M \cup {e})
<1>1. PICK b \in Bucket, h \in Entry \cup {NIL} : b = Bucketed(c, e) /\ h = c.hash_table[b]
  BY CacheFields
<1>2. PICK E, T : E = [c.entries EXCEPT ![e].hash_next = h] /\ T = [c.hash_table EXCEPT ![b] = e]
  OBVIOUS
<1>3. PICK r : r = hash_insert(c, e)
  OBVIOUS
<1>4. Relinked(r, c, E, T)
  <2>1. r = [c EXCEPT !.entries[e].hash_next = h, !.hash_table[b] = e]
    BY <1>1, <1>3, Zenon DEF hash_insert, Bucketed
  <2> QED
    BY <1>2, <2>1, Zenon DEF Relinked
<1>5. NextSetTo(E, c, e, h)
  BY <1>1, <1>2, NextSet, Zenon
<1>6. /\ T \in [Bucket -> Entry \cup {NIL}] /\ T[b] = e
      /\ \A d \in Bucket : d # b => T[d] = c.hash_table[d]
  BY <1>1, <1>2, CacheFields
<1>7. SameBodies(c, r) /\ r.entries = E /\ r.hash_table = T
  <2>1. SameFields(E, c) /\ T \in [Bucket -> Entry \cup {NIL}]
    BY <1>5, <1>6, Zenon DEF NextSetTo
  <2> QED
    BY <1>4, <2>1, Bodies, Zenon
<1>8. \A x \in Entry : /\ Bucketed(r, x) = Bucketed(c, x) /\ Bucketed(c, x) \in Bucket
                       /\ Succ(r, x) = IF x = e THEN h ELSE Succ(c, x)
  BY <1>5, <1>7, CacheFields DEF Bucketed, Succ, NextSetTo, SameFields
<1>9. PICK rank \in [Entry -> Nat] : Links(c, M, rank)
  BY DEF Linked
<1> DEFINE up == [x \in Entry |-> IF x = e THEN 0 ELSE rank[x] + 1]
           N == M \cup {e}
<1>10. up \in [Entry -> Nat] /\ up[e] = 0 /\ \A x \in Entry : x # e => up[x] = rank[x] + 1
  OBVIOUS
<1> HIDE DEF up, N
<1>11. h # NIL => h \in M /\ Bucketed(c, h) = b
  BY <1>1, <1>9 DEF Links
<1>12. ASSUME NEW p \in M, Succ(c, p) = h, h # NIL PROVE FALSE
  <2>1. Bucketed(c, p) = b
    BY <1>9, <1>11, <1>12 DEF Links
  <2> QED
    BY <1>1, <1>9, <1>12, <2>1 DEF Links
<1>13. e # NIL /\ e \notin M
  BY BlkCacheAssumption
<1>14. \A d \in Bucket : T[d] # NIL => T[d] \in N /\ Bucketed(r, T[d]) = d
  <2> TAKE d \in Bucket
  <2>1. CASE d = b
    BY <1>1, <1>6, <1>8, <2>1 DEF N
  <2>2. CASE d # b
    BY <1>6, <1>8, <1>9, <2>2 DEF N, Links
  <2> QED
    BY <2>1, <2>2
<1>15. ASSUME NEW x \in N
       PROVE  /\ Succ(r, x) # NIL => /\ Succ(r, x) \in N /\ up[x] < up[Succ(r, x)]
                                     /\ Bucketed(r, Succ(r, x)) = Bucketed(r, x)
                                     /\ T[Bucketed(r, x)] # Succ(r, x)
                                     /\ \A p \in N : Succ(r, p) = Succ(r, x) => p = x
              /\ T[Bucketed(r, x)] = x \/ \E p \in N : Succ(r, p) = x
  <2>1. CASE x = e
    <3>1. Succ(r, x) = h /\ Bucketed(r, x) = b /\ T[Bucketed(r, x)] = x
      BY <1>1, <1>6, <1>8, <2>1
    <3>2. ASSUME h # NIL
          PROVE  /\ h \in N /\ up[x] < up[h] /\ Bucketed(r, h) = b /\ x # h
                 /\ \A p \in N : Succ(r, p) = h => p = x
      <4>1. h \in M /\ h # e /\ Bucketed(r, h) = b
        BY <1>8, <1>11, <1>13, <3>2
      <4>2. up[x] < up[h]
        BY <1>10, <2>1, <4>1
      <4>3. \A p \in N : Succ(r, p) = h => p = x
        BY <1>8, <1>12, <2>1, <3>2 DEF N
      <4> QED
        BY <2>1, <4>1, <4>2, <4>3 DEF N
    <3> QED
      BY <3>1, <3>2
  <2>2. CASE x # e
    <3>1. x \in M /\ Succ(r, x) = Succ(c, x) /\ Bucketed(r, x) = Bucketed(c, x)
      BY <1>8, <2>2 DEF N
    <3>2. ASSUME Succ(c, x) # NIL
          PROVE  /\ Succ(r, x) \in N /\ up[x] < up[Succ(r, x)]
                 /\ Bucketed(r, Succ(r, x)) = Bucketed(r, x)
                 /\ T[Bucketed(r, x)] # Succ(r, x)
                 /\ \A p \in N : Succ(r, p) = Succ(r, x) => p = x
      <4> PICK n \in M : n = Succ(c, x)
        BY <1>9, <3>1, <3>2 DEF Links
      <4>1. /\ rank[x] < rank[n] /\ n # e /\ n # NIL
            /\ Bucketed(c, n) = Bucketed(c, x) /\ c.hash_table[Bucketed(c, x)] # n
            /\ \A p \in M : Succ(c, p) = n => p = x
        <5>1. n # e /\ n # NIL
          BY <1>13, <3>2
        <5> QED
          BY <1>9, <3>1, <3>2, <5>1 DEF Links
      <4>2. up[x] < up[n]
        BY <1>10, <2>2, <3>1, <4>1
      <4>3. T[Bucketed(r, x)] # n
        BY <1>1, <1>6, <1>8, <3>1, <4>1
      <4>4. \A p \in N : Succ(r, p) = n => p = x
        <5>1. h # n
          BY <1>12, <3>1, <3>2, <4>1
        <5> QED
          BY <1>8, <4>1, <5>1 DEF N
      <4> QED
        BY <1>8, <3>1, <4>1, <4>2, <4>3, <4>4 DEF N
    <3>3. T[Bucketed(r, x)] = x \/ \E p \in N : Succ(r, p) = x
      <4>1. CASE c.hash_table[Bucketed(c, x)] = x /\ Bucketed(c, x) = b
        <5>1. Succ(r, e) = x
          BY <1>1, <1>8, <4>1
        <5> QED
          BY <5>1 DEF N
      <4>2. CASE c.hash_table[Bucketed(c, x)] = x /\ Bucketed(c, x) # b
        BY <1>6, <1>8, <3>1, <4>2
      <4>3. CASE \E p \in M : Succ(c, p) = x
        <5>1. PICK p \in M : Succ(c, p) = x
          BY <4>3
        <5>2. Succ(r, p) = x
          BY <1>8, <1>13, <5>1
        <5> QED
          BY <5>2 DEF N
      <4> QED
        BY <1>9, <3>1, <4>1, <4>2, <4>3 DEF Links
    <3> QED
      BY <3>1, <3>2, <3>3
  <2> QED
    BY <2>1, <2>2
<1>16. Links(r, N, up)
  BY <1>7, <1>14, <1>15 DEF Links
<1> QED
  BY <1>3, <1>7, <1>10, <1>16 DEF Linked, N

(* e is taken out of its chain.                                            *)
Unlinked(r, c, M, e) ==
  /\ SameBodies(c, r)
  /\ \A d \in Bucket : r.hash_table[d] = IF c.hash_table[d] = e THEN Succ(c, e) ELSE c.hash_table[d]
  /\ \A x \in M \ {e} : Succ(r, x) = IF Succ(c, x) = e THEN Succ(c, e) ELSE Succ(c, x)

LEMMA UnlinkedLinks ==
  ASSUME NEW c \in CacheRecord, NEW M \in SUBSET Entry, NEW rank \in [Entry -> Nat],
         Links(c, M, rank), NEW e \in M, NEW r, Unlinked(r, c, M, e)
  PROVE  Links(r, M \ {e}, rank)
<1> DEFINE N == M \ {e}
<1>1. PICK s : s = Succ(c, e)
  OBVIOUS
<1>2. e # NIL /\ e \in Entry
  BY BlkCacheAssumption
<1>3. \A x \in Entry : Bucketed(r, x) = Bucketed(c, x) /\ Bucketed(c, x) \in Bucket
  BY CacheFields DEF Unlinked, SameBodies, Bucketed
<1>4. ASSUME NEW x \in M, Succ(c, x) # NIL
      PROVE  /\ Succ(c, x) \in M /\ rank[x] < rank[Succ(c, x)] /\ Succ(c, x) # x
             /\ Bucketed(c, Succ(c, x)) = Bucketed(c, x)
             /\ c.hash_table[Bucketed(c, x)] # Succ(c, x)
             /\ \A p \in M : Succ(c, p) = Succ(c, x) => p = x
  <2>1. /\ Succ(c, x) \in M /\ rank[x] < rank[Succ(c, x)]
        /\ Bucketed(c, Succ(c, x)) = Bucketed(c, x)
        /\ c.hash_table[Bucketed(c, x)] # Succ(c, x)
        /\ \A p \in M : Succ(c, p) = Succ(c, x) => p = x
    BY <1>4 DEF Links
  <2>2. rank[x] \in Nat
    OBVIOUS
  <2> QED
    BY <2>1, <2>2
<1>5. \A d \in Bucket : r.hash_table[d] # NIL =>
        r.hash_table[d] \in N /\ Bucketed(r, r.hash_table[d]) = d
  <2> TAKE d \in Bucket
  <2> HAVE r.hash_table[d] # NIL
  <2>1. CASE c.hash_table[d] = e
    <3>1. r.hash_table[d] = s /\ Bucketed(c, e) = d
      BY <1>1, <1>2, <2>1 DEF Unlinked, Links
    <3> QED
      BY <1>1, <1>3, <1>4, <3>1
  <2>2. CASE c.hash_table[d] # e
    <3>1. r.hash_table[d] = c.hash_table[d]
      BY <2>2 DEF Unlinked
    <3> QED
      BY <1>3, <2>2, <3>1 DEF Links
  <2> QED
    BY <2>1, <2>2
<1>6. ASSUME NEW x \in N, NEW n, n = Succ(r, x), n # NIL
      PROVE  /\ n \in N /\ rank[x] < rank[n] /\ Bucketed(r, n) = Bucketed(r, x)
             /\ r.hash_table[Bucketed(r, x)] # n /\ \A p \in N : Succ(r, p) = n => p = x
  <2>1. Bucketed(r, x) = Bucketed(c, x) /\ Bucketed(c, x) \in Bucket /\ x \in M /\ x # e
    BY <1>3
  <2>2. CASE Succ(c, x) = e
    <3>1. n = s /\ s # NIL
      BY <1>1, <1>6, <2>2 DEF Unlinked
    <3>2. rank[x] < rank[e] /\ Bucketed(c, e) = Bucketed(c, x) /\ c.hash_table[Bucketed(c, x)] # e
          /\ \A p \in M : Succ(c, p) = e => p = x
      BY <1>2, <1>4, <2>1, <2>2
    <3>3. s \in M /\ rank[e] < rank[s] /\ s # e /\ Bucketed(c, s) = Bucketed(c, e)
          /\ c.hash_table[Bucketed(c, e)] # s /\ \A p \in M : Succ(c, p) = s => p = e
      BY <1>1, <1>4, <3>1
    <3>4. rank[x] < rank[s]
      <4>1. rank[x] \in Nat /\ rank[e] \in Nat /\ rank[s] \in Nat
        BY <2>1, <3>3
      <4> QED
        BY <3>2, <3>3, <4>1
    <3>5. r.hash_table[Bucketed(r, x)] # n
      BY <2>1, <3>1, <3>2, <3>3 DEF Unlinked
    <3>6. \A p \in N : Succ(r, p) = n => p = x
      BY <3>1, <3>2, <3>3 DEF Unlinked
    <3>7. Bucketed(r, s) = Bucketed(c, s)
      BY <1>3, <3>3
    <3> QED
      BY <2>1, <3>1, <3>2, <3>3, <3>4, <3>5, <3>6, <3>7
  <2>3. CASE Succ(c, x) # e
    <3>1. n = Succ(c, x)
      BY <1>6, <2>3 DEF Unlinked
    <3>2. n \in M /\ n # e /\ rank[x] < rank[n] /\ Bucketed(c, n) = Bucketed(c, x)
          /\ c.hash_table[Bucketed(c, x)] # n /\ \A p \in M : Succ(c, p) = n => p = x
      BY <1>4, <1>6, <2>1, <2>3, <3>1
    <3>3. s # n
      BY <1>1, <2>1, <3>2
    <3>4. r.hash_table[Bucketed(r, x)] # n
      BY <1>1, <2>1, <3>2, <3>3 DEF Unlinked
    <3>5. \A p \in N : Succ(r, p) = n => p = x
      BY <1>1, <3>2, <3>3 DEF Unlinked
    <3> QED
      BY <1>3, <2>1, <3>2, <3>4, <3>5
  <2> QED
    BY <2>2, <2>3
<1>7. ASSUME NEW x \in N PROVE r.hash_table[Bucketed(r, x)] = x \/ \E p \in N : Succ(r, p) = x
  <2>1. Bucketed(r, x) = Bucketed(c, x) /\ Bucketed(c, x) \in Bucket /\ x \in M /\ x # e
    BY <1>3
  <2>2. CASE c.hash_table[Bucketed(c, x)] = x
    BY <2>1, <2>2 DEF Unlinked
  <2>3. ASSUME NEW p \in M, Succ(c, p) = x, p # e PROVE Succ(r, p) = x
    BY <2>1, <2>3 DEF Unlinked
  <2>4. CASE Succ(c, e) = x
    <3>1. x # NIL /\ Bucketed(c, x) = Bucketed(c, e)
      <4>1. x # NIL
        BY <2>1, BlkCacheAssumption
      <4> QED
        BY <1>4, <2>4, <4>1
    <3>2. CASE c.hash_table[Bucketed(c, e)] = e
      BY <2>1, <2>4, <3>1, <3>2 DEF Unlinked
    <3>3. ASSUME NEW q \in M, Succ(c, q) = e PROVE q \in N /\ Succ(r, q) = x
      BY <1>2, <1>4, <2>4, <3>3 DEF Unlinked
    <3> QED
      BY <3>2, <3>3 DEF Links
  <2> QED
    BY <2>1, <2>2, <2>3, <2>4 DEF Links
<1>8. \A x \in N :
        /\ Succ(r, x) # NIL => /\ Succ(r, x) \in N /\ rank[x] < rank[Succ(r, x)]
                               /\ Bucketed(r, Succ(r, x)) = Bucketed(r, x)
                               /\ r.hash_table[Bucketed(r, x)] # Succ(r, x)
                               /\ \A p \in N : Succ(r, p) = Succ(r, x) => p = x
        /\ r.hash_table[Bucketed(r, x)] = x \/ \E p \in N : Succ(r, p) = x
  BY <1>6, <1>7
<1> HIDE DEF N
<1>9. Links(r, N, rank)
  BY <1>5, <1>8 DEF Links
<1> QED
  BY <1>9 DEF N

(* The pointers of prev and of e are set, one after the other.             *)
SetNexts(E, c, p, n, e) == E = [c.entries EXCEPT ![p].hash_next = n, ![e].hash_next = NIL]

NextsSet(E, c, p, n, e) ==
  /\ SameFields(E, c)
  /\ E[p].hash_next = n /\ \A x \in Entry \ {p, e} : E[x].hash_next = Succ(c, x)

LEMMA TwoNexts ==
  ASSUME NEW c \in CacheRecord, NEW p \in Entry, NEW e \in Entry, p # e,
         NEW n \in Entry \cup {NIL}, NEW E, SetNexts(E, c, p, n, e)
  PROVE  NextsSet(E, c, p, n, e)
<1>1. c.entries \in [Entry -> CacheEntry] /\ c.entries[e] \in CacheEntry /\ c.entries[p] \in CacheEntry
  BY CacheFields
<1>2. /\ E[e].sector = c.entries[e].sector /\ E[e].valid = c.entries[e].valid
      /\ E[e].data = c.entries[e].data /\ E[e] \in CacheEntry
  BY <1>1 DEF CacheEntry, SetNexts
<1>3. /\ E[p].sector = c.entries[p].sector /\ E[p].valid = c.entries[p].valid
      /\ E[p].data = c.entries[p].data /\ E[p].hash_next = n /\ E[p] \in CacheEntry
  BY <1>1 DEF CacheEntry, SetNexts
<1>4. \A x \in Entry \ {p, e} : E[x] = c.entries[x]
  BY <1>1 DEF SetNexts
<1>5. E \in [Entry -> CacheEntry]
  BY <1>1, <1>2, <1>3, <1>4 DEF SetNexts
<1> QED
  BY <1>2, <1>3, <1>4, <1>5 DEF Succ, SameFields, NextsSet

LEMMA Removed ==
  ASSUME NEW c \in CacheRecord, NEW M \in SUBSET Entry, NEW rank \in [Entry -> Nat],
         Links(c, M, rank), NEW e \in M
  PROVE  Unlinked(hash_remove(c, e), c, M, e)
<1> DEFINE b    == Bucketed(c, e)
           walk == Chain(c, b)
           at   == {n \in 0 .. MaxEntries : walk[n] = e}
           next == Succ(c, e)
           prev == walk[Min(at) - 1]
           r    == hash_remove(c, e)
<1>1. r = IF at = {} THEN IF Looped(c, b) THEN Hung(c) ELSE c
          ELSE IF 0 \in at
          THEN [c EXCEPT !.hash_table[b] = next, !.entries[e].hash_next = NIL]
          ELSE [c EXCEPT !.entries = [@ EXCEPT ![prev].hash_next = next, ![e].hash_next = NIL]]
  BY Zenon DEF hash_remove, Bucketed, Succ
<1>2. b \in Bucket /\ b = Bucketed(c, e) /\ next \in Entry \cup {NIL} /\ next = Succ(c, e)
  BY CacheFields
<1>3. ChainIs(walk, c, b, M)
  BY <1>2, Chains
<1>4. at = {n \in 0 .. MaxEntries : walk[n] = e} /\ prev = walk[Min(at) - 1] /\ r = hash_remove(c, e)
  OBVIOUS
<1> HIDE DEF b, walk, at, next, prev, r
<1>5. MaxEntries \in Nat /\ e # NIL /\ e \in Entry
  BY BlkCacheAssumption
<1>6. PICK k \in 0 .. MaxEntries : walk[k] = e /\ at = {k}
  <2>1. PICK k \in 0 .. MaxEntries : walk[k] = e
    BY <1>2, <1>3, ChainVisits
  <2>2. \A n \in 0 .. MaxEntries : walk[n] = e => n = k
    BY <1>2, <1>3, <1>5, <2>1, ChainOnce
  <2> QED
    BY <1>4, <2>1, <2>2
<1>7. c.hash_table \in [Bucket -> Entry \cup {NIL}]
  BY CacheFields
<1>8. \A d \in Bucket : c.hash_table[d] = e => d = b
  BY <1>2, <1>5 DEF Links
<1>9. CASE k = 0
  <2>1. PICK E, T : E = [c.entries EXCEPT ![e].hash_next = NIL] /\ T = [c.hash_table EXCEPT ![b] = next]
    OBVIOUS
  <2>2. Relinked(r, c, E, T)
    <3>1. r = [c EXCEPT !.hash_table[b] = next, !.entries[e].hash_next = NIL]
      BY <1>6, <1>1, <1>9
    <3>2. c.entries \in [Entry -> CacheEntry] /\ DOMAIN c = {"entries", "hash_table", "lru", "hung"}
      BY DEF CacheRecord
    <3> QED
      BY <2>1, <3>1, <3>2 DEF Relinked, CacheRecord
  <2>3. NextSetTo(E, c, e, NIL)
    BY <1>5, <2>1, NextSet, Zenon
  <2>4. T \in [Bucket -> Entry \cup {NIL}] /\ T[b] = next /\ \A d \in Bucket : d # b => T[d] = c.hash_table[d]
    BY <1>2, <1>7, <2>1
  <2>5. SameBodies(c, r) /\ r.entries = E /\ r.hash_table = T
    <3>1. SameFields(E, c) /\ T \in [Bucket -> Entry \cup {NIL}]
      BY <2>3, <2>4, Zenon DEF NextSetTo
    <3> QED
      BY <2>2, <3>1, Bodies, Zenon
  <2>6. c.hash_table[b] = e
    BY <1>3, <1>6, <1>9 DEF ChainIs
  <2>7. ASSUME NEW x \in M \ {e} PROVE Succ(c, x) # e /\ Succ(r, x) = Succ(c, x)
    <3>1. Succ(c, x) # e
      BY <1>2, <1>5, <2>6 DEF Links
    <3> QED
      BY <2>3, <2>5, <3>1 DEF NextSetTo, Succ
  <2>8. \A d \in Bucket : r.hash_table[d] = IF c.hash_table[d] = e THEN next ELSE c.hash_table[d]
    BY <1>8, <2>4, <2>5, <2>6
  <2> QED
    BY <1>2, <1>4, <2>5, <2>7, <2>8 DEF Unlinked
<1>10. CASE k # 0
  <2>1. k \in 1 .. MaxEntries /\ k - 1 \in 0 .. MaxEntries /\ Min(at) = k
    <3>1. Min(at) = k
      BY <1>6, <1>5, <1>6 DEF Min
    <3> QED
      BY <1>6, <1>5, <1>10, <3>1
  <2>2. prev \in M /\ Succ(c, prev) = e /\ prev \in Entry
    <3>1. prev = walk[k - 1]
      BY <1>4, <2>1
    <3>2. prev \in M \cup {NIL} /\ e = IF prev = NIL THEN NIL ELSE Succ(c, prev)
      BY <1>3, <1>6, <2>1, <3>1 DEF ChainIs
    <3> QED
      BY <1>5, <3>2
  <2>3. prev # e
    <3>1. rank[prev] < rank[e] /\ rank[e] \in Nat
      BY <1>5, <2>2 DEF Links
    <3> QED
      BY <3>1
  <2>4. PICK E : SetNexts(E, c, prev, next, e)
    BY DEF SetNexts
  <2>5. r = [c EXCEPT !.entries = E]
    BY <1>6, <1>1, <1>10, <2>4 DEF SetNexts
  <2>6. NextsSet(E, c, prev, next, e)
    BY <1>2, <1>5, <2>2, <2>3, <2>4, TwoNexts, Zenon
  <2>7. SameBodies(c, r) /\ r.entries = E /\ r.hash_table = c.hash_table
    <3>1. r.entries = E /\ r.hash_table = c.hash_table /\ r.lru = c.lru /\ r.hung = c.hung /\ r \in CacheRecord
      BY <2>5, <2>6 DEF CacheRecord, SameFields, NextsSet
    <3> QED
      BY <2>6, <3>1 DEF SameBodies, SameFields, NextsSet
  <2>8. c.hash_table[b] # e
    BY <1>2, <1>5, <2>2 DEF Links
  <2>9. ASSUME NEW x \in M \ {e} PROVE Succ(r, x) = IF Succ(c, x) = e THEN next ELSE Succ(c, x)
    <3>1. CASE x = prev
      BY <2>2, <2>6, <2>7, <3>1 DEF Succ, NextsSet
    <3>2. CASE x # prev
      <4>1. Succ(c, x) # e
        BY <1>5, <2>2, <3>2 DEF Links
      <4>2. Succ(r, x) = Succ(c, x)
        BY <2>6, <2>7, <3>2 DEF Succ, NextsSet
      <4> QED
        BY <4>1, <4>2
    <3> QED
      BY <3>1, <3>2
  <2>10. \A d \in Bucket : c.hash_table[d] # e
    BY <1>8, <2>8
  <2> QED
    BY <1>2, <1>4, <2>7, <2>9, <2>10 DEF Unlinked
<1> QED
  BY <1>6, <1>9, <1>10
-----------------------------------------------------------------------------
(* The LRU list q holds each of the first Len(q) entries once.             *)
GoodLru(q) ==
  /\ q \in Seq(Entry) /\ Len(q) <= MaxEntries
  /\ \A k \in 1 .. Len(q) : q[k] \in 1 .. Len(q)
  /\ \A k, m \in 1 .. Len(q) : q[k] = q[m] => k = m
  /\ \A e \in 1 .. Len(q) : \E k \in 1 .. Len(q) : q[k] = e

(* q was n long or, if e is new, n - 1; now e is the first of n.           *)
Touched(r, c, e) ==
  /\ r \in CacheRecord /\ r.entries = c.entries /\ r.hash_table = c.hash_table /\ r.hung = c.hung
  /\ GoodLru(r.lru) /\ r.lru # <<>> /\ Head(r.lru) = e
  /\ Len(r.lru) = IF e = Len(c.lru) + 1 THEN Len(c.lru) + 1 ELSE Len(c.lru)

LEMMA Touches ==
  ASSUME NEW c \in CacheRecord, GoodLru(c.lru), NEW e \in Entry, e <= Len(c.lru) + 1
  PROVE  Touched(Touch(c, e), c, e)
<1> DEFINE at == {k \in DOMAIN c.lru : c.lru[k] = e}
           n  == IF at = {} THEN Len(c.lru) + 1 ELSE Min(at)
           s  == [k \in DOMAIN c.lru \cup {n} |->
                   IF k = 1 THEN e ELSE IF k <= n THEN c.lru[k - 1] ELSE c.lru[k]]
<1>1. Touch(c, e) = [c EXCEPT !.lru = s]
  BY Zenon DEF Touch
<1>2. PICK q \in Seq(Entry), L \in Nat : q = c.lru /\ L = Len(q) /\ DOMAIN q = 1 .. L
  BY CacheFields, LenProperties
<1>3. /\ L <= MaxEntries /\ \A k \in 1 .. L : q[k] \in 1 .. L
      /\ \A k, m \in 1 .. L : q[k] = q[m] => k = m
      /\ \A x \in 1 .. L : \E k \in 1 .. L : q[k] = x
  BY <1>2 DEF GoodLru
<1>4. MaxEntries \in Nat /\ e \in Nat /\ e >= 1 /\ e <= L + 1 /\ e <= MaxEntries
  BY <1>2, BlkCacheAssumption DEF Entry
<1> DEFINE N == IF e = L + 1 THEN L + 1 ELSE L
<1>5. n \in 1 .. N /\ (e = L + 1 => n = N) /\ (e # L + 1 => q[n] = e) /\ DOMAIN c.lru \cup {n} = 1 .. N
  <2>1. CASE e = L + 1
    <3>1. at = {}
      BY <1>2, <1>3, <2>1
    <3> QED
      BY <1>2, <2>1, <3>1
  <2>2. CASE e # L + 1
    <3>1. PICK k \in 1 .. L : q[k] = e
      BY <1>3, <1>4, <2>2
    <3>2. at = {m \in 1 .. L : q[m] = e}
      BY <1>2
    <3>3. \A m \in 1 .. L : q[m] = e => m = k
      BY <1>3, <3>1
    <3> HIDE DEF at
    <3>4. at = {k}
      BY <3>1, <3>2, <3>3
    <3>5. n = k
      BY <3>4 DEF Min
    <3> QED
      BY <1>2, <2>2, <3>1, <3>5
  <2> QED
    BY <2>1, <2>2
<1>6. s = [k \in 1 .. N |-> IF k = 1 THEN e ELSE IF k <= n THEN q[k - 1] ELSE q[k]]
  BY <1>2, <1>5
<1> HIDE DEF at, n, s
<1>7. N \in Nat /\ N >= 1 /\ L <= N /\ N <= MaxEntries /\ e <= N /\ (N = L \/ (N = L + 1 /\ n = N))
  <2>1. CASE e = L + 1
    BY <1>3, <1>4, <1>5, <2>1
  <2>2. CASE e # L + 1
    BY <1>3, <1>4, <1>5, <2>2
  <2> QED
    BY <2>1, <2>2
<1> HIDE DEF N
<1>8. \A k \in 1 .. N : s[k] \in 1 .. N
  <2> TAKE k \in 1 .. N
  <2>1. CASE k = 1
    BY <1>4, <1>6, <1>7, <2>1
  <2>2. CASE k # 1 /\ k <= n
    <3>1. k - 1 \in 1 .. L /\ s[k] = q[k - 1]
      BY <1>5, <1>6, <1>7, <2>2
    <3> QED
      BY <1>3, <1>7, <3>1
  <2>3. CASE k # 1 /\ k > n
    <3>1. k \in 1 .. L /\ s[k] = q[k]
      BY <1>5, <1>6, <1>7, <2>3
    <3> QED
      BY <1>3, <1>7, <3>1
  <2> QED
    BY <1>5, <2>1, <2>2, <2>3
(* Where the entry at k was. *)
<1> DEFINE from == [k \in 1 .. N |-> IF k = 1 THEN n ELSE IF k <= n THEN k - 1 ELSE k]
<1>9. \A k \in 1 .. N : \/ from[k] = L + 1 /\ e = L + 1 /\ s[k] = e
                        \/ from[k] \in 1 .. L /\ s[k] = q[from[k]]
  <2> TAKE k \in 1 .. N
  <2>1. CASE k = 1
    <3>1. from[k] = n /\ s[k] = e
      BY <1>6, <2>1
    <3>2. CASE e = L + 1
      <4>1. n = L + 1
        BY <1>5, <3>2 DEF N
      <4> QED
        BY <3>1, <3>2, <4>1
    <3>3. CASE e # L + 1
      <4>1. N = L
        BY <3>3 DEF N
      <4> QED
        BY <1>5, <3>1, <3>3, <4>1
    <3> QED
      BY <3>2, <3>3
  <2>2. CASE k # 1 /\ k <= n
    <3>1. k - 1 \in 1 .. L /\ s[k] = q[k - 1] /\ from[k] = k - 1
      BY <1>5, <1>6, <1>7, <2>2
    <3> QED
      BY <3>1
  <2>3. CASE k # 1 /\ k > n
    <3>1. k \in 1 .. L /\ s[k] = q[k] /\ from[k] = k
      BY <1>5, <1>6, <1>7, <2>3
    <3> QED
      BY <3>1
  <2> QED
    BY <1>5, <2>1, <2>2, <2>3
<1>10. \A k, m \in 1 .. N : from[k] = from[m] => k = m
  BY <1>5
<1> HIDE DEF from
<1>11. ASSUME NEW k \in 1 .. N, NEW m \in 1 .. N, s[k] = s[m] PROVE k = m
  <2>1. ASSUME NEW i \in 1 .. N
        PROVE  \/ from[i] = L + 1 /\ s[i] = L + 1
               \/ from[i] \in 1 .. L /\ s[i] = q[from[i]] /\ s[i] \in 1 .. L
    BY <1>3, <1>9
  <2>2. PICK a, b, v : a = from[k] /\ b = from[m] /\ v = s[k] /\ v = s[m]
    BY <1>11
  <2>3. (a = L + 1 /\ v = L + 1) \/ (a \in 1 .. L /\ v = q[a] /\ v \in 1 .. L)
    <3>1. \/ from[k] = L + 1 /\ s[k] = L + 1
          \/ from[k] \in 1 .. L /\ s[k] = q[from[k]] /\ s[k] \in 1 .. L
      BY <2>1
    <3> QED
      BY <2>2, <3>1
  <2>5. (b = L + 1 /\ v = L + 1) \/ (b \in 1 .. L /\ v = q[b] /\ v \in 1 .. L)
    <3>1. \/ from[m] = L + 1 /\ s[m] = L + 1
          \/ from[m] \in 1 .. L /\ s[m] = q[from[m]] /\ s[m] \in 1 .. L
      BY <2>1
    <3> QED
      BY <2>2, <3>1
  <2>4. a = b
    <3>1. CASE a \in 1 .. L
      <4>1. b \in 1 .. L /\ q[a] = q[b]
        BY <2>3, <2>5, <3>1
      <4> QED
        BY <1>3, <3>1, <4>1
    <3>2. CASE a = L + 1
      BY <2>3, <2>5, <3>2
    <3> QED
      BY <2>3, <3>1, <3>2
  <2> QED
    BY <1>10, <2>2, <2>4
<1>12. \A x \in 1 .. N : \E k \in 1 .. N : s[k] = x
  <2> TAKE x \in 1 .. N
  <2>1. CASE x = e
    BY <1>6, <1>7, <2>1
  <2>2. CASE x # e
    <3>1. x \in 1 .. L
      BY <1>7, <2>2 DEF N
    <3>2. PICK i \in 1 .. L : q[i] = x
      BY <1>3, <3>1
    <3>3. i # n
      BY <1>5, <1>7, <2>2, <3>2 DEF N
    <3>4. CASE i < n
      <4>1. i + 1 \in 1 .. N /\ i + 1 # 1 /\ i + 1 <= n /\ (i + 1) - 1 = i
        BY <1>5, <1>7, <3>4
      <4>2. s[i + 1] = q[i]
        BY <1>6, <4>1
      <4> QED
        BY <3>2, <4>1, <4>2
    <3>5. CASE i > n
      <4>1. i \in 1 .. N /\ i # 1 /\ ~(i <= n)
        BY <1>5, <1>7, <3>5
      <4>2. s[i] = q[i]
        BY <1>6, <4>1
      <4> QED
        BY <3>2, <4>1, <4>2
    <3> QED
      BY <1>5, <3>3, <3>4, <3>5
  <2> QED
    BY <2>1, <2>2
<1>13. s \in Seq(Entry) /\ Len(s) = N /\ s[1] = e /\ s # <<>> /\ Head(s) = e
  <2>1. \A k \in 1 .. N : s[k] \in Entry
    BY <1>4, <1>7, <1>8 DEF Entry
  <2>2. s \in [1 .. N -> Entry]
    BY <1>6, <2>1
  <2>3. s \in Seq(Entry)
    BY <1>7, <2>2, SeqDef
  <2>4. Len(s) = N
    BY <1>7, <2>2, <2>3, LenProperties
  <2>5. s[1] = e
    BY <1>6, <1>7
  <2>6. s # <<>>
    BY <1>7, <2>3, <2>4
  <2> QED
    BY <2>3, <2>4, <2>5, <2>6
<1>14. GoodLru(s)
  BY <1>7, <1>8, <1>11, <1>12, <1>13 DEF GoodLru
<1>15. PICK r : r = Touch(c, e)
  OBVIOUS
<1>16. /\ r \in CacheRecord /\ r.entries = c.entries /\ r.hash_table = c.hash_table
       /\ r.hung = c.hung /\ r.lru = s
  BY <1>1, <1>13, <1>15 DEF CacheRecord
<1> QED
  BY <1>2, <1>13, <1>14, <1>15, <1>16 DEF Touched, N
-----------------------------------------------------------------------------
ValidSet(c) == {e \in Entry : c.entries[e].valid}

(* The cache between two steps: every valid entry is used, in its chain,   *)
(* and the only one of its sector.                                         *)
Good(c) ==
  /\ c \in CacheRecord /\ c.hung = FALSE
  /\ GoodLru(c.lru) /\ Linked(c, ValidSet(c))
  /\ \A e \in ValidSet(c) : e <= Len(c.lru) /\ c.entries[e].sector \in Sector
  /\ \A e, f \in ValidSet(c) : c.entries[e].sector = c.entries[f].sector => e = f

LookupIs(c, s, e) ==
  \/ e \in ValidSet(c) /\ c.entries[e].sector = s
  \/ e = NIL /\ \A x \in ValidSet(c) : c.entries[x].sector # s

(* A lookup finds the entry of a sector, and ends.                         *)
LEMMA Lookups ==
  ASSUME NEW c, Good(c), NEW s \in Nat \X Nat
  PROVE  LookupIs(c, s, cache_lookup(c, s)) /\ Endless(c, s) = FALSE
<1> DEFINE b    == blkcache_hash(s)
           walk == Chain(c, b)
           hit  == {n \in 0 .. MaxEntries : walk[n] # NIL
                      /\ c.entries[walk[n]].valid /\ c.entries[walk[n]].sector = s}
           V    == ValidSet(c)
<1>1. cache_lookup(c, s) = IF hit = {} THEN NIL ELSE walk[Min(hit)]
  BY Zenon DEF cache_lookup
<1>2. b \in Bucket
  BY HashType
<1>3. c \in CacheRecord /\ V \in SUBSET Entry
  BY DEF Good, ValidSet
<1>4. PICK rank \in [Entry -> Nat] : Links(c, V, rank)
  BY DEF Good, Linked
<1>5. ChainIs(walk, c, b, V)
  BY <1>2, <1>3, <1>4, Chains
<1>6. MaxEntries \in Nat /\ NIL \notin Entry
  BY BlkCacheAssumption
<1> HIDE DEF b, walk, V
<1>7. ASSUME NEW e \in V, c.entries[e].sector = s PROVE hit # {}
  <2>1. Bucketed(c, e) = b
    BY <1>7 DEF Bucketed, b
  <2>2. PICK n \in 0 .. MaxEntries : walk[n] = e
    BY <1>2, <1>3, <1>4, <1>5, <2>1, ChainVisits
  <2>3. c.entries[e].valid /\ e # NIL
    BY <1>3, <1>6 DEF V, ValidSet
  <2>4. n \in hit
    BY <1>7, <2>2, <2>3
  <2> QED
    BY <2>4
<1>8. Endless(c, s) = FALSE
  <2>1. walk[MaxEntries] = NIL
    BY <1>2, <1>3, <1>4, <1>5, ChainOnce
  <2> QED
    BY <2>1 DEF Endless, Looped, walk, b
<1>9. CASE hit = {}
  <2>1. \A x \in V : c.entries[x].sector # s
    BY <1>7, <1>9
  <2> HIDE DEF hit
  <2>2. PICK l : l = cache_lookup(c, s) /\ l = NIL
    BY <1>1, <1>9
  <2>3. LookupIs(c, s, l)
    BY <2>1, <2>2 DEF LookupIs, V
  <2> QED
    BY <1>8, <2>2, <2>3
<1>10. CASE hit # {}
  <2>1. PICK n : n = Min(hit)
    OBVIOUS
  <2>2. n \in hit
    <3>1. hit \subseteq Nat
      BY <1>6
    <3>2. PICK m \in hit : \A k \in hit : m <= k
      BY <1>10, <3>1, LeastOf
    <3> HIDE DEF hit
    <3>3. Min(hit) \in hit
      BY <3>1, <3>2 DEF Min
    <3> QED
      BY <2>1, <3>3
  <2>3. PICK e \in V : e = walk[n] /\ c.entries[e].sector = s
    BY <1>5, <2>2 DEF ChainIs
  <2> HIDE DEF hit
  <2>4. cache_lookup(c, s) = e
    BY <1>1, <1>10, <2>1, <2>3
  <2>5. LookupIs(c, s, e)
    BY <2>3 DEF LookupIs, V
  <2> QED
    BY <1>8, <2>4, <2>5
<1> QED
  BY <1>9, <1>10
-----------------------------------------------------------------------------
(* The chains do not depend on anything else.                              *)
LEMMA SameLinks ==
  ASSUME NEW c \in CacheRecord, NEW r \in CacheRecord, NEW M \in SUBSET Entry, Linked(c, M),
         r.hash_table = c.hash_table,
         \A x \in M : Succ(r, x) = Succ(c, x) /\ r.entries[x].sector = c.entries[x].sector
  PROVE  Linked(r, M)
<1>1. PICK rank \in [Entry -> Nat] : Links(c, M, rank)
  BY DEF Linked
<1>2. \A x \in M : Bucketed(r, x) = Bucketed(c, x) /\ Bucketed(c, x) \in Bucket
  BY CacheFields DEF Bucketed
<1>3. \A b \in Bucket : r.hash_table[b] # NIL =>
        r.hash_table[b] \in M /\ Bucketed(r, r.hash_table[b]) = b
  BY <1>1, <1>2 DEF Links
<1>4. ASSUME NEW e \in M
      PROVE  /\ Succ(r, e) # NIL => /\ Succ(r, e) \in M /\ rank[e] < rank[Succ(r, e)]
                                    /\ Bucketed(r, Succ(r, e)) = Bucketed(r, e)
                                    /\ r.hash_table[Bucketed(r, e)] # Succ(r, e)
                                    /\ \A p \in M : Succ(r, p) = Succ(r, e) => p = e
             /\ r.hash_table[Bucketed(r, e)] = e \/ \E p \in M : Succ(r, p) = e
  <2>1. PICK n : n = Succ(c, e) /\ Succ(r, e) = n
    OBVIOUS
  <2>2. ASSUME n # NIL
        PROVE  /\ n \in M /\ rank[e] < rank[n] /\ Bucketed(r, n) = Bucketed(r, e)
               /\ r.hash_table[Bucketed(r, e)] # n /\ \A p \in M : Succ(r, p) = n => p = e
    <3>1. /\ n \in M /\ rank[e] < rank[n] /\ Bucketed(c, n) = Bucketed(c, e)
          /\ c.hash_table[Bucketed(c, e)] # n /\ \A p \in M : Succ(c, p) = n => p = e
      BY <1>1, <2>1, <2>2 DEF Links
    <3> QED
      BY <1>2, <3>1
  <2>3. r.hash_table[Bucketed(r, e)] = e \/ \E p \in M : Succ(r, p) = e
    BY <1>1, <1>2 DEF Links
  <2> QED
    BY <2>1, <2>2, <2>3
<1>5. Links(r, M, rank)
  BY <1>3, <1>4 DEF Links
<1> QED
  BY <1>5 DEF Linked

(* The entry e gets a sector and becomes valid.                            *)
Labelled(r, c, e, s) == r = [c EXCEPT !.entries[e].sector = s, !.entries[e].valid = TRUE]

LabelSet(r, c, e, s) ==
  /\ r \in CacheRecord /\ r.hash_table = c.hash_table /\ r.lru = c.lru /\ r.hung = c.hung
  /\ r.entries[e].sector = s /\ r.entries[e].valid
  /\ \A x \in Entry : Succ(r, x) = Succ(c, x) /\ r.entries[x].data = c.entries[x].data
  /\ \A x \in Entry \ {e} : /\ r.entries[x].sector = c.entries[x].sector
                            /\ r.entries[x].valid = c.entries[x].valid

LEMMA Labels ==
  ASSUME NEW c \in CacheRecord, NEW e \in Entry, NEW s \in Nat \X Nat, NEW r, Labelled(r, c, e, s)
  PROVE  LabelSet(r, c, e, s)
<1>1. c.entries \in [Entry -> CacheEntry] /\ c.entries[e] \in CacheEntry
  BY CacheFields
<1>2. PICK E : E = [c.entries EXCEPT ![e].sector = s, ![e].valid = TRUE]
  OBVIOUS
<1>3. r = [c EXCEPT !.entries = E]
  BY <1>1, <1>2 DEF Labelled, CacheRecord
<1>4. /\ E[e].sector = s /\ E[e].valid = TRUE /\ E[e].data = c.entries[e].data
      /\ E[e].hash_next = c.entries[e].hash_next /\ E[e] \in CacheEntry
  BY <1>1, <1>2 DEF CacheEntry
<1>5. \A x \in Entry \ {e} : E[x] = c.entries[x]
  BY <1>1, <1>2
<1>6. E \in [Entry -> CacheEntry]
  BY <1>1, <1>2, <1>4, <1>5
<1>7. r \in CacheRecord /\ r.hash_table = c.hash_table /\ r.lru = c.lru /\ r.hung = c.hung /\ r.entries = E
  BY <1>3, <1>6 DEF CacheRecord
<1> QED
  BY <1>4, <1>5, <1>7 DEF LabelSet, Succ

(* Nothing but the entry e changes, and e is now a valid entry of s.       *)
Placed(r, c, e, s) ==
  /\ Good(r) /\ e \in ValidSet(r) /\ r.entries[e].sector = s
  /\ r.lru # <<>> /\ Head(r.lru) = e
  /\ \A x \in Entry \ {e} : /\ r.entries[x].sector = c.entries[x].sector
                            /\ r.entries[x].valid = c.entries[x].valid
                            /\ r.entries[x].data = c.entries[x].data

LEMMA OutOfChain ==
  ASSUME NEW c \in CacheRecord, NEW M \in SUBSET Entry, Linked(c, M), NEW e \in M
  PROVE  SameBodies(c, hash_remove(c, e)) /\ Linked(hash_remove(c, e), M \ {e})
<1>1. PICK rank \in [Entry -> Nat] : Links(c, M, rank)
  BY DEF Linked
<1>2. PICK r : r = hash_remove(c, e)
  OBVIOUS
<1>3. Unlinked(r, c, M, e)
  BY <1>1, <1>2, Removed
<1>4. Links(r, M \ {e}, rank)
  BY <1>1, <1>3, UnlinkedLinks
<1> QED
  BY <1>2, <1>3, <1>4 DEF Linked, Unlinked

LEMMA Allocates ==
  ASSUME NEW c, Good(c), NEW s \in Sector, \A x \in ValidSet(c) : c.entries[x].sector # s
  PROVE  \E e \in Entry : Placed(cache_alloc(c, s), c, e, s)
<1> DEFINE used == Len(c.lru)
           e    == IF used < MaxEntries THEN used + 1 ELSE c.lru[used]
           out  == IF used = MaxEntries /\ c.entries[e].valid THEN hash_remove(c, e) ELSE c
           new  == [out EXCEPT !.entries[e].sector = s, !.entries[e].valid = TRUE]
           ins  == hash_insert(new, e)
           r    == Touch(ins, e)
           V    == ValidSet(c)
           M    == V \ {e}
<1>1. cache_alloc(c, s) = r
  BY Zenon DEF cache_alloc
<1>2. c \in CacheRecord /\ V \in SUBSET Entry /\ Linked(c, V) /\ GoodLru(c.lru)
  BY DEF Good, ValidSet
<1>3. MaxEntries \in Nat \ {0} /\ s \in Nat \X Nat
  BY BlkCacheAssumption, SectorType
<1>4. used \in Nat /\ used <= MaxEntries
  BY <1>2, LenProperties DEF GoodLru
<1>5. e \in Entry /\ e <= used + 1 /\ (used < MaxEntries => e \notin V)
  <2>1. CASE used < MaxEntries
    <3>1. e = used + 1 /\ e \in Entry
      BY <1>3, <1>4, <2>1 DEF Entry
    <3>2. e \notin V
      BY <1>4, <3>1 DEF Good
    <3> QED
      BY <1>4, <3>1, <3>2
  <2>2. CASE ~(used < MaxEntries)
    <3>1. used \in 1 .. Len(c.lru) /\ e = c.lru[used]
      BY <1>3, <1>4, <2>2
    <3> HIDE DEF e
    <3>2. e \in 1 .. used
      BY <1>2, <3>1 DEF GoodLru
    <3> QED
      BY <1>3, <1>4, <2>2, <3>2 DEF Entry
  <2> QED
    BY <2>1, <2>2
<1>6. Labelled(new, out, e, s)
  BY Zenon DEF Labelled
<1> HIDE DEF used, e, new, ins, r
<1>7. SameBodies(c, out) /\ Linked(out, M)
  <2>1. CASE e \in V /\ used = MaxEntries
    <3>1. out = hash_remove(c, e)
      BY <2>1 DEF ValidSet
    <3> HIDE DEF out, V
    <3> QED
      BY <1>2, <2>1, <3>1, OutOfChain
  <2>2. CASE ~(e \in V /\ used = MaxEntries)
    <3>1. out = c
      <4>1. ~(used = MaxEntries /\ c.entries[e].valid)
        BY <1>5, <2>2 DEF ValidSet
      <4> QED
        BY <4>1, Zenon
    <3>2. M = V
      <4>1. e \notin V
        BY <1>3, <1>4, <1>5, <2>2
      <4> QED
        BY <4>1
    <3>3. SameBodies(c, c)
      BY <1>2 DEF SameBodies
    <3> HIDE DEF out, V, M
    <3> QED
      BY <1>2, <3>1, <3>2, <3>3
  <2> QED
    BY <2>1, <2>2
<1> HIDE DEF out
<1>8. out \in CacheRecord
  BY <1>7 DEF SameBodies
<1>9. LabelSet(new, out, e, s)
  BY <1>3, <1>5, <1>6, <1>8, Labels
<1>10. M \in SUBSET Entry /\ e \notin M
  BY <1>2
<1> HIDE DEF M, V
<1>11. new \in CacheRecord /\ Linked(new, M)
  <2>1. new \in CacheRecord /\ new.hash_table = out.hash_table
    BY <1>9 DEF LabelSet
  <2>2. \A x \in M : Succ(new, x) = Succ(out, x) /\ new.entries[x].sector = out.entries[x].sector
    BY <1>9, <1>10 DEF LabelSet
  <2> QED
    BY <1>7, <1>8, <1>10, <2>1, <2>2, SameLinks
<1>12. SameBodies(new, ins) /\ Linked(ins, M \cup {e})
  BY <1>5, <1>10, <1>11, Inserted DEF ins
<1>13. ins \in CacheRecord /\ ins.lru = c.lru /\ ins.hung = FALSE
  BY <1>7, <1>9, <1>12 DEF SameBodies, LabelSet, Good
<1>14. Touched(r, ins, e)
  BY <1>2, <1>5, <1>13, Touches DEF r, used
<1>15. /\ r.entries[e].sector = s /\ r.entries[e].valid
       /\ \A x \in Entry \ {e} : /\ r.entries[x].sector = c.entries[x].sector
                                 /\ r.entries[x].valid = c.entries[x].valid
                                 /\ r.entries[x].data = c.entries[x].data
  <2>1. r.entries = ins.entries
    BY <1>14 DEF Touched
  <2>2. r.entries[e].sector = s /\ r.entries[e].valid
    BY <1>5, <1>9, <1>12, <2>1 DEF SameBodies, LabelSet
  <2>3. ASSUME NEW x \in Entry \ {e}
        PROVE  /\ r.entries[x].sector = c.entries[x].sector
               /\ r.entries[x].valid = c.entries[x].valid
               /\ r.entries[x].data = c.entries[x].data
    BY <1>7, <1>9, <1>12, <2>1 DEF SameBodies, LabelSet
  <2> QED
    BY <2>2, <2>3
<1>16. ValidSet(r) = M \cup {e}
  BY <1>5, <1>15 DEF ValidSet, M, V
<1>17. r \in CacheRecord /\ r.hung = FALSE /\ GoodLru(r.lru) /\ r.lru # <<>> /\ Head(r.lru) = e
  BY <1>13, <1>14 DEF Touched
<1>18. Linked(r, M \cup {e})
  <2>1. r.hash_table = ins.hash_table /\ r.entries = ins.entries
    BY <1>14 DEF Touched
  <2>2. M \cup {e} \in SUBSET Entry
    BY <1>5, <1>10
  <2> QED
    BY <1>12, <1>13, <1>17, <2>1, <2>2, SameLinks DEF Succ
<1>19. \A x \in ValidSet(r) : x <= Len(r.lru) /\ r.entries[x].sector \in Sector
  <2>1. Len(r.lru) = IF e = used + 1 THEN used + 1 ELSE used
    BY <1>13, <1>14 DEF Touched, used
  <2>2. e <= Len(r.lru) /\ used <= Len(r.lru) /\ Len(r.lru) \in Nat
    BY <1>4, <1>5, <2>1 DEF Entry
  <2>3. ASSUME NEW x \in M PROVE x <= Len(r.lru) /\ r.entries[x].sector \in Sector
    <3>1. x \in ValidSet(c) /\ x # e /\ x \in Entry /\ x \in Nat
      BY <1>10, <2>3, BlkCacheAssumption DEF M, V, Entry
    <3>2. x <= used /\ c.entries[x].sector \in Sector
      BY <3>1 DEF Good, used
    <3> QED
      BY <1>4, <1>15, <2>2, <3>1, <3>2
  <2> QED
    BY <1>15, <1>16, <2>2, <2>3
<1>20. \A x, y \in ValidSet(r) : r.entries[x].sector = r.entries[y].sector => x = y
  <2>1. \A x \in M : x \in ValidSet(c) /\ x \in Entry \ {e}
    BY <1>10 DEF M, V
  <2>2. \A x \in M : r.entries[x].sector = c.entries[x].sector /\ r.entries[x].sector # s
    BY <1>15, <2>1
  <2>3. \A x, y \in M : r.entries[x].sector = r.entries[y].sector => x = y
    BY <2>1, <2>2 DEF Good
  <2> QED
    BY <1>15, <1>16, <2>2, <2>3
<1>21. Good(r)
  BY <1>16, <1>17, <1>18, <1>19, <1>20 DEF Good
<1>22. e \in ValidSet(r)
  BY <1>16
<1>23. Placed(r, c, e, s)
  BY <1>15, <1>17, <1>21, <1>22 DEF Placed
<1> QED
  BY <1>1, <1>5, <1>23
-----------------------------------------------------------------------------
LEMMA StaysGood ==
  ASSUME NEW c, Good(c), NEW r \in CacheRecord, r.hung = c.hung, r.hash_table = c.hash_table,
         GoodLru(r.lru), Len(r.lru) = Len(c.lru),
         \A x \in Entry : /\ Succ(r, x) = Succ(c, x)
                          /\ r.entries[x].sector = c.entries[x].sector
                          /\ r.entries[x].valid = c.entries[x].valid
  PROVE  Good(r) /\ ValidSet(r) = ValidSet(c)
<1>1. ValidSet(r) = ValidSet(c)
  BY DEF ValidSet
<1>2. PICK V \in SUBSET Entry : V = ValidSet(c) /\ V = ValidSet(r)
  BY <1>1 DEF ValidSet
<1>3. c \in CacheRecord /\ Linked(c, V) /\ c.hung = FALSE
  BY <1>2 DEF Good
<1>4. Linked(r, V)
  BY <1>3, SameLinks
<1>5. \A e \in V : e <= Len(r.lru) /\ r.entries[e].sector \in Sector
  BY <1>2 DEF Good
<1>6. \A e, f \in V : r.entries[e].sector = r.entries[f].sector => e = f
  BY <1>2 DEF Good
<1> QED
  BY <1>2, <1>3, <1>4, <1>5, <1>6 DEF Good

Filled(r, c, e, v) ==
  /\ Good(r) /\ ValidSet(r) = ValidSet(c) /\ r.lru = c.lru /\ r.entries[e].data = v
  /\ \A x \in Entry : /\ r.entries[x].sector = c.entries[x].sector
                      /\ r.entries[x].valid = c.entries[x].valid
  /\ \A x \in Entry \ {e} : r.entries[x].data = c.entries[x].data

LEMMA Fills ==
  ASSUME NEW c, Good(c), NEW e \in Entry, NEW v \in Data
  PROVE  Filled(Fill(c, e, v), c, e, v)
<1>1. c \in CacheRecord
  BY DEF Good
<1>2. c.entries \in [Entry -> CacheEntry] /\ c.entries[e] \in CacheEntry
  BY <1>1, CacheFields
<1>3. PICK E : E = [c.entries EXCEPT ![e].data = v]
  OBVIOUS
<1>4. PICK r : r = Fill(c, e, v)
  OBVIOUS
<1>5. r = [c EXCEPT !.entries = E]
  BY <1>3, <1>4, Zenon DEF Fill
<1>6. /\ E[e].sector = c.entries[e].sector /\ E[e].valid = c.entries[e].valid /\ E[e].data = v
      /\ E[e].hash_next = c.entries[e].hash_next /\ E[e] \in CacheEntry
  BY <1>2, <1>3 DEF CacheEntry
<1>7. \A x \in Entry \ {e} : E[x] = c.entries[x]
  BY <1>2, <1>3
<1>8. E \in [Entry -> CacheEntry]
  BY <1>2, <1>3, <1>6, <1>7
<1>9. r \in CacheRecord /\ r.hash_table = c.hash_table /\ r.lru = c.lru /\ r.hung = c.hung /\ r.entries = E
  BY <1>1, <1>5, <1>8 DEF CacheRecord
<1>10. \A x \in Entry : /\ Succ(r, x) = Succ(c, x)
                        /\ r.entries[x].sector = c.entries[x].sector
                        /\ r.entries[x].valid = c.entries[x].valid
  BY <1>6, <1>7, <1>9 DEF Succ
<1>11. Good(r) /\ ValidSet(r) = ValidSet(c)
  <2>1. GoodLru(r.lru) /\ Len(r.lru) = Len(c.lru)
    BY <1>9 DEF Good
  <2> QED
    BY <1>9, <1>10, <2>1, StaysGood
<1> QED
  BY <1>4, <1>6, <1>7, <1>9, <1>10, <1>11 DEF Filled

(* A hit moves the entry to the front and changes nothing else.            *)
SameContents(r, c) == Good(r) /\ r.entries = c.entries /\ r.hash_table = c.hash_table

LEMMA Hits ==
  ASSUME NEW c, Good(c), NEW e \in ValidSet(c)
  PROVE  SameContents(Touch(c, e), c)
<1>1. c \in CacheRecord /\ GoodLru(c.lru) /\ e \in Entry /\ e <= Len(c.lru)
  BY DEF Good, ValidSet
<1>2. Len(c.lru) \in Nat /\ e \in Nat
  BY <1>1, LenProperties, BlkCacheAssumption DEF GoodLru, Entry
<1>3. PICK r : r = Touch(c, e)
  OBVIOUS
<1>4. Touched(r, c, e)
  BY <1>1, <1>2, <1>3, Touches
<1>5. Len(r.lru) = Len(c.lru)
  BY <1>1, <1>2, <1>4 DEF Touched
<1>6. Good(r)
  <2>1. \A x \in Entry : /\ Succ(r, x) = Succ(c, x)
                         /\ r.entries[x].sector = c.entries[x].sector
                         /\ r.entries[x].valid = c.entries[x].valid
    BY <1>4 DEF Touched, Succ
  <2> QED
    BY <1>4, <1>5, <2>1, StaysGood DEF Touched
<1> QED
  BY <1>3, <1>4, <1>6 DEF SameContents, Touched

(* The entry e holds v for s, the others are as they were.                 *)
Holding(r, c, e, s, v) ==
  /\ Good(r) /\ e \in ValidSet(r) /\ r.entries[e].sector = s /\ r.entries[e].data = v
  /\ \A x \in Entry \ {e} : /\ r.entries[x].sector = c.entries[x].sector
                            /\ r.entries[x].valid = c.entries[x].valid
                            /\ r.entries[x].data = c.entries[x].data

LEMMA FillsPlaced ==
  ASSUME NEW c, NEW r, NEW e \in Entry, NEW s, NEW v \in Data, Placed(r, c, e, s)
  PROVE  Holding(Fill(r, e, v), c, e, s, v)
<1>1. Good(r)
  BY DEF Placed
<1>2. PICK q : q = Fill(r, e, v)
  OBVIOUS
<1>3. Filled(q, r, e, v)
  BY <1>1, <1>2, Fills
<1>4. Good(q) /\ e \in ValidSet(q) /\ q.entries[e].sector = s /\ q.entries[e].data = v
  BY <1>3 DEF Filled, Placed
<1>5. ASSUME NEW x \in Entry \ {e}
      PROVE  /\ q.entries[x].sector = c.entries[x].sector
             /\ q.entries[x].valid = c.entries[x].valid
             /\ q.entries[x].data = c.entries[x].data
  BY <1>3 DEF Filled, Placed
<1> QED
  BY <1>2, <1>4, <1>5 DEF Holding

LEMMA Stores ==
  ASSUME NEW c, Good(c), NEW s \in Sector, NEW v \in Data
  PROVE  \E e \in Entry : Holding(Store(c, s, v), c, e, s, v)
<1>1. PICK e, n, r : e = cache_lookup(c, s) /\ n = cache_alloc(c, s) /\ r = Store(c, s, v)
  OBVIOUS
<1>2. LookupIs(c, s, e) /\ Endless(c, s) = FALSE
  <2>1. s \in Nat \X Nat
    BY SectorType
  <2> QED
    BY <1>1, <2>1, Lookups
<1>3. r = IF e # NIL THEN Touch(Fill(c, e, v), e) ELSE Fill(n, Head(n.lru), v)
  BY <1>1, <1>2 DEF Store
<1>4. CASE e = NIL
  <2>1. \A x \in ValidSet(c) : c.entries[x].sector # s
    <3>1. NIL \notin ValidSet(c)
      BY BlkCacheAssumption DEF ValidSet
    <3> QED
      BY <1>2, <1>4, <3>1 DEF LookupIs
  <2>2. PICK f \in Entry : Placed(n, c, f, s)
    BY <1>1, <2>1, Allocates
  <2>3. r = Fill(n, f, v)
    BY <1>3, <1>4, <2>2 DEF Placed
  <2>4. Holding(r, c, f, s, v)
    BY <2>2, <2>3, FillsPlaced
  <2> QED
    BY <1>1, <2>4
<1>5. CASE e # NIL
  <2>1. e \in ValidSet(c) /\ c.entries[e].sector = s /\ e \in Entry
    BY <1>2, <1>5 DEF LookupIs, ValidSet
  <2>2. PICK q : q = Fill(c, e, v)
    OBVIOUS
  <2>3. Filled(q, c, e, v)
    BY <2>1, <2>2, Fills
  <2>4. Good(q) /\ e \in ValidSet(q) /\ q.entries[e].sector = s
    BY <2>1, <2>3 DEF Filled
  <2>5. r = Touch(q, e)
    BY <1>3, <1>5, <2>2
  <2>6. SameContents(r, q)
    BY <2>4, <2>5, Hits
  <2>7. Good(r) /\ e \in ValidSet(r) /\ r.entries[e].sector = s /\ r.entries[e].data = v
    BY <2>3, <2>4, <2>6 DEF SameContents, Filled, ValidSet
  <2>8. ASSUME NEW x \in Entry \ {e}
        PROVE  /\ r.entries[x].sector = c.entries[x].sector
               /\ r.entries[x].valid = c.entries[x].valid
               /\ r.entries[x].data = c.entries[x].data
    BY <2>3, <2>6 DEF SameContents, Filled
  <2>9. Holding(r, c, e, s, v)
    BY <2>7, <2>8 DEF Holding
  <2> QED
    BY <1>1, <2>1, <2>9
<1> QED
  BY <1>4, <1>5
-----------------------------------------------------------------------------
(* The valid entries hold what the disk D holds, but f and those of the    *)
(* sectors X.                                                              *)
Coherent(c, D, X, f) ==
  \A e \in ValidSet(c) :
    e # f /\ c.entries[e].sector \notin X => c.entries[e].data = D[c.entries[e].sector]

LEMMA HeldCoherent ==
  ASSUME NEW c, NEW D, NEW X, NEW f, Coherent(c, D, X, f),
         NEW r, NEW e \in Entry, NEW s, Holding(r, c, e, s, D[s])
  PROVE  Coherent(r, D, X, f)
<1> SUFFICES ASSUME NEW x \in ValidSet(r), x # f, r.entries[x].sector \notin X
             PROVE  r.entries[x].data = D[r.entries[x].sector]
  BY DEF Coherent
<1>1. CASE x = e
  BY <1>1 DEF Holding
<1>2. CASE x # e
  <2>1. x \in Entry \ {e}
    BY <1>2 DEF ValidSet
  <2>2. x \in ValidSet(c) /\ r.entries[x].sector = c.entries[x].sector
        /\ r.entries[x].data = c.entries[x].data
    BY <2>1 DEF Holding, ValidSet
  <2> QED
    BY <2>2 DEF Coherent
<1> QED
  BY <1>1, <1>2

(* A batch stores sectors of the disk.                                     *)
LEMMA StoresAll ==
  ASSUME disk \in [Sector -> Data], NEW c, Good(c), NEW X, NEW f, Coherent(c, disk, X, f),
         NEW s, NEW n \in Nat, \A k \in 1 .. n : Span(s, n)[k] \in Sector
  PROVE  Good(StoreAll(c, s, n)) /\ Coherent(StoreAll(c, s, n), disk, X, f)
<1> DEFINE sec(k) == Span(s, n)[k]
           S == {x \in CacheRecord : Good(x) /\ Coherent(x, disk, X, f)}
           g == [p \in (1 .. n) \X S |-> Store(p[2], sec(p[1]), disk[sec(p[1])])]
           Step(w) == [k \in 0 .. n |-> IF k = 0 THEN c ELSE Store(w[k - 1], sec(k), disk[sec(k)])]
<1>1. ASSUME NEW x \in S, NEW k \in 1 .. n PROVE Store(x, sec(k), disk[sec(k)]) \in S
  <2>1. PICK t \in Sector, v \in Data : t = sec(k) /\ v = disk[t]
    OBVIOUS
  <2>2. Good(x) /\ Coherent(x, disk, X, f)
    OBVIOUS
  <2>3. PICK r : r = Store(x, t, v)
    OBVIOUS
  <2>4. PICK e \in Entry : Holding(r, x, e, t, v)
    BY <2>2, <2>3, Stores
  <2>5. Coherent(r, disk, X, f)
    BY <2>1, <2>2, <2>4, HeldCoherent
  <2>6. Good(r) /\ r \in CacheRecord
    BY <2>4 DEF Holding, Good
  <2> QED
    BY <2>1, <2>3, <2>5, <2>6
<1>2. c \in S
  BY DEF Good
<1>3. g \in [(1 .. n) \X S -> S]
  BY <1>1
<1> HIDE DEF S, g
<1>4. PICK h : Iteration(h, S, c, g, n)
  BY <1>2, <1>3, Iterates
<1>5. \A k \in 1 .. n : h[k] = Store(h[k - 1], sec(k), disk[sec(k)])
  <2> TAKE k \in 1 .. n
  <2>1. h[k] = g[<<k, h[k - 1]>>] /\ h[k - 1] \in S
    BY <1>4 DEF Iteration
  <2>2. <<k, h[k - 1]>> \in (1 .. n) \X S
    BY <2>1
  <2> QED
    BY <2>1, <2>2 DEF g
<1>6. h = Step(h)
  <2>1. \A k \in 0 .. n : h[k] = Step(h)[k]
    <3> TAKE k \in 0 .. n
    <3>1. CASE k = 0
      BY <1>4, <3>1 DEF Iteration
    <3>2. CASE k # 0
      <4>1. k \in 1 .. n
        BY <3>2
      <4> QED
        BY <1>5, <3>2, <4>1
    <3> QED
      BY <3>1, <3>2
  <2> QED
    BY <1>4, <2>1 DEF Iteration
<1>7. PICK w : w = (CHOOSE d : d = Step(d)) /\ StoreAll(c, s, n) = w[n]
  BY DEF StoreAll
<1>8. w = Step(w)
  BY <1>6, <1>7
<1>9. w[n] \in S
  <2> DEFINE B == {k \in 0 .. n : w[k] \in S}
  <2>1. 0 \in B
    BY <1>2, <1>8
  <2>2. ASSUME NEW k \in 1 .. n, k - 1 \in B PROVE k \in B
    <3>1. w[k] = Store(w[k - 1], sec(k), disk[sec(k)])
      BY <1>8
    <3>2. PICK x \in S : x = w[k - 1]
      BY <2>2
    <3>3. w[k] \in S
      BY <1>1, <3>1, <3>2
    <3> QED
      BY <3>3
  <2> HIDE DEF B
  <2>3. 0 .. n \subseteq B
    BY <2>1, <2>2, UpTo
  <2> QED
    BY <2>3 DEF B
<1> QED
  BY <1>7, <1>9 DEF S

(* A batch of hits.                                                        *)
LEMMA TouchesAll ==
  ASSUME NEW c, Good(c), NEW s, NEW n \in Nat, \A k \in 1 .. n : Span(s, n)[k] \in Sector,
         AllCached(c, s, n)
  PROVE  SameContents(TouchAll(c, s, n), c)
<1> DEFINE sec(k) == Span(s, n)[k]
           S == {x \in CacheRecord : SameContents(x, c)}
           g == [p \in (1 .. n) \X S |-> Touch(p[2], cache_lookup(p[2], sec(p[1])))]
           Step(w) == [k \in 0 .. n |->
                         IF k = 0 THEN c ELSE Touch(w[k - 1], cache_lookup(w[k - 1], sec(k)))]
<1>1. ASSUME NEW x \in S, NEW k \in 1 .. n PROVE Touch(x, cache_lookup(x, sec(k))) \in S
  <2>1. PICK t \in Sector : t = sec(k)
    OBVIOUS
  <2>2. PICK l, e : l = cache_lookup(c, t) /\ e = cache_lookup(x, t)
    OBVIOUS
  <2>3. Good(x) /\ x.entries = c.entries /\ x.hash_table = c.hash_table /\ t \in Nat \X Nat
    BY SectorType DEF SameContents
  <2>4. LookupIs(c, t, l) /\ LookupIs(x, t, e)
    BY <2>2, <2>3, Lookups
  <2>5. l # NIL
    BY <2>1, <2>2 DEF AllCached
  <2>6. ValidSet(x) = ValidSet(c)
    BY <2>3 DEF ValidSet
  <2>7. e \in ValidSet(x)
    BY <2>3, <2>4, <2>5, <2>6 DEF LookupIs
  <2>8. PICK r : r = Touch(x, e)
    OBVIOUS
  <2>9. SameContents(r, x)
    BY <2>3, <2>7, <2>8, Hits
  <2>10. SameContents(r, c) /\ r \in CacheRecord
    BY <2>3, <2>9 DEF SameContents, Good
  <2> QED
    BY <2>1, <2>2, <2>8, <2>10
<1>2. c \in S
  BY DEF Good, SameContents
<1>3. g \in [(1 .. n) \X S -> S]
  BY <1>1
<1> HIDE DEF S, g
<1>4. PICK h : Iteration(h, S, c, g, n)
  BY <1>2, <1>3, Iterates
<1>5. \A k \in 1 .. n : h[k] = Touch(h[k - 1], cache_lookup(h[k - 1], sec(k)))
  <2> TAKE k \in 1 .. n
  <2>1. h[k] = g[<<k, h[k - 1]>>] /\ h[k - 1] \in S
    BY <1>4 DEF Iteration
  <2>2. <<k, h[k - 1]>> \in (1 .. n) \X S
    BY <2>1
  <2> QED
    BY <2>1, <2>2 DEF g
<1>6. h = Step(h)
  <2>1. \A k \in 0 .. n : h[k] = Step(h)[k]
    <3> TAKE k \in 0 .. n
    <3>1. CASE k = 0
      BY <1>4, <3>1 DEF Iteration
    <3>2. CASE k # 0
      <4>1. k \in 1 .. n
        BY <3>2
      <4> QED
        BY <1>5, <3>2, <4>1
    <3> QED
      BY <3>1, <3>2
  <2> QED
    BY <1>4, <2>1 DEF Iteration
<1>7. PICK w : w = (CHOOSE d : d = Step(d)) /\ TouchAll(c, s, n) = w[n]
  BY DEF TouchAll
<1>8. w = Step(w)
  BY <1>6, <1>7
<1>9. w[n] \in S
  <2> DEFINE B == {k \in 0 .. n : w[k] \in S}
  <2>1. 0 \in B
    BY <1>2, <1>8
  <2>2. ASSUME NEW k \in 1 .. n, k - 1 \in B PROVE k \in B
    <3>1. w[k] = Touch(w[k - 1], cache_lookup(w[k - 1], sec(k)))
      BY <1>8
    <3>2. PICK x \in S : x = w[k - 1]
      BY <2>2
    <3>3. w[k] \in S
      BY <1>1, <3>1, <3>2
    <3> QED
      BY <3>3
  <2> HIDE DEF B
  <2>3. 0 .. n \subseteq B
    BY <2>1, <2>2, UpTo
  <2> QED
    BY <2>3 DEF B
<1> QED
  BY <1>7, <1>9 DEF S
-----------------------------------------------------------------------------
(* An entry is taken out of its chain and invalidated.                     *)
Cleared(q, r, e) == q = [r EXCEPT !.entries[e].valid = FALSE]
Dropped(q, c, e) ==
  /\ Good(q) /\ q.lru = c.lru /\ ValidSet(q) = ValidSet(c) \ {e}
  /\ \A x \in Entry : /\ q.entries[x].sector = c.entries[x].sector
                      /\ q.entries[x].data = c.entries[x].data

LEMMA Drops ==
  ASSUME NEW c, Good(c), NEW e \in ValidSet(c), NEW q, Cleared(q, hash_remove(c, e), e)
  PROVE  Dropped(q, c, e)
<1>1. c \in CacheRecord /\ e \in Entry /\ Linked(c, ValidSet(c)) /\ ValidSet(c) \in SUBSET Entry
  BY DEF Good, ValidSet
<1>2. PICK r : r = hash_remove(c, e)
  OBVIOUS
<1>3. SameBodies(c, r) /\ Linked(r, ValidSet(c) \ {e})
  BY <1>1, <1>2, OutOfChain
<1>4. r \in CacheRecord /\ r.entries \in [Entry -> CacheEntry] /\ r.entries[e] \in CacheEntry
  BY <1>1, <1>3, CacheFields DEF SameBodies
<1>5. PICK E : E = [r.entries EXCEPT ![e].valid = FALSE]
  OBVIOUS
<1>6. q = [r EXCEPT !.entries = E]
  BY <1>2, <1>5, Zenon DEF Cleared
<1>7. /\ E[e].sector = r.entries[e].sector /\ E[e].valid = FALSE /\ E[e].data = r.entries[e].data
      /\ E[e].hash_next = r.entries[e].hash_next /\ E[e] \in CacheEntry
  BY <1>1, <1>4, <1>5 DEF CacheEntry
<1>8. \A x \in Entry \ {e} : E[x] = r.entries[x]
  BY <1>4, <1>5
<1>9. E \in [Entry -> CacheEntry]
  BY <1>4, <1>5, <1>7, <1>8
<1>10. q \in CacheRecord /\ q.hash_table = r.hash_table /\ q.lru = r.lru /\ q.hung = r.hung /\ q.entries = E
  BY <1>4, <1>6, <1>9 DEF CacheRecord
<1>11. \A x \in Entry : /\ q.entries[x].sector = c.entries[x].sector
                        /\ q.entries[x].data = c.entries[x].data /\ Succ(q, x) = Succ(r, x)
  BY <1>3, <1>7, <1>8, <1>10 DEF SameBodies, Succ
<1>12. \A x \in Entry : q.entries[x].valid = (x # e /\ c.entries[x].valid)
  <2> TAKE x \in Entry
  <2>1. CASE x = e
    BY <1>7, <1>10, <2>1
  <2>2. CASE x # e
    <3>1. q.entries[x].valid = c.entries[x].valid /\ c.entries[x].valid \in BOOLEAN
      BY <1>1, <1>3, <1>8, <1>10, <2>2, CacheFields DEF SameBodies
    <3> QED
      BY <2>2, <3>1
  <2> QED
    BY <2>1, <2>2
<1>13. ValidSet(q) = ValidSet(c) \ {e}
  BY <1>12 DEF ValidSet
<1>14. PICK M \in SUBSET Entry : M = ValidSet(q) /\ M = ValidSet(c) \ {e}
  BY <1>1, <1>13
<1>15. Linked(q, M)
  <2>1. \A x \in M : Succ(q, x) = Succ(r, x) /\ q.entries[x].sector = r.entries[x].sector
    BY <1>3, <1>11 DEF SameBodies
  <2> QED
    BY <1>3, <1>4, <1>10, <1>14, <2>1, SameLinks
<1>16. q.lru = c.lru /\ q.hung = FALSE /\ GoodLru(q.lru)
  BY <1>3, <1>10 DEF SameBodies, Good
<1>17. \A x \in M : x <= Len(q.lru) /\ q.entries[x].sector \in Sector
  BY <1>11, <1>14, <1>16 DEF Good
<1>18. \A x, y \in M : q.entries[x].sector = q.entries[y].sector => x = y
  BY <1>11, <1>14 DEF Good
<1>19. Good(q)
  BY <1>10, <1>14, <1>15, <1>16, <1>17, <1>18 DEF Good
<1> QED
  BY <1>11, <1>13, <1>16, <1>19 DEF Dropped

(* After k rounds no entry up to k is one of the drive d; the others are   *)
(* as they were in c.                                                      *)
Swept(x, c, d, k) ==
  /\ Good(x) /\ x.lru = c.lru /\ ValidSet(x) \subseteq ValidSet(c)
  /\ \A e \in Entry : /\ x.entries[e].sector = c.entries[e].sector
                      /\ x.entries[e].data = c.entries[e].data
  /\ \A e \in ValidSet(x) : e <= k => c.entries[e].sector[1] # d

LEMMA Sweeps ==
  ASSUME NEW c, Good(c), NEW d
  PROVE  Swept(blkcache_invalidate(c, d), c, d, MaxEntries)
<1> DEFINE L == Len(c.lru)
           Hit(x, k) == k <= L /\ x.entries[k].valid /\ x.entries[k].sector[1] = d
           Out(x, k) == [hash_remove(x, k) EXCEPT !.entries[k].valid = FALSE]
           S == {x \in CacheRecord : Swept(x, c, d, 0)}
           g == [p \in (1 .. MaxEntries) \X S |-> IF Hit(p[2], p[1]) THEN Out(p[2], p[1]) ELSE p[2]]
           Step(w) == [k \in 0 .. MaxEntries |-> IF k = 0 THEN c
                         ELSE IF Hit(w[k - 1], k) THEN Out(w[k - 1], k) ELSE w[k - 1]]
<1>1. MaxEntries \in Nat /\ Entry = 1 .. MaxEntries
  BY BlkCacheAssumption DEF Entry
<1>2. ASSUME NEW x, NEW k \in Entry, NEW m, Swept(x, c, d, m), Hit(x, k), NEW r, r = Out(x, k)
      PROVE  /\ Good(r) /\ r.lru = c.lru /\ ValidSet(r) = ValidSet(x) \ {k} /\ r \in CacheRecord
             /\ \A e \in Entry : /\ r.entries[e].sector = c.entries[e].sector
                                 /\ r.entries[e].data = c.entries[e].data
  <2>1. Good(x) /\ k \in ValidSet(x)
    BY <1>2 DEF Swept, ValidSet
  <2>2. Cleared(r, hash_remove(x, k), k)
    BY <1>2, Zenon DEF Cleared
  <2>3. Dropped(r, x, k)
    BY <2>1, <2>2, Drops
  <2>4. \A e \in Entry : /\ r.entries[e].sector = c.entries[e].sector
                         /\ r.entries[e].data = c.entries[e].data
    BY <1>2, <2>3 DEF Swept, Dropped
  <2> QED
    BY <1>2, <2>3, <2>4 DEF Swept, Dropped, Good
<1> HIDE DEF Hit, Out
<1>3. ASSUME NEW x \in S, NEW k \in 1 .. MaxEntries, Hit(x, k) PROVE Out(x, k) \in S
  <2>1. Swept(x, c, d, 0) /\ k \in Entry
    BY <1>1
  <2>2. PICK r : r = Out(x, k)
    OBVIOUS
  <2>3. /\ Good(r) /\ r.lru = c.lru /\ ValidSet(r) = ValidSet(x) \ {k} /\ r \in CacheRecord
        /\ \A e \in Entry : /\ r.entries[e].sector = c.entries[e].sector
                            /\ r.entries[e].data = c.entries[e].data
    BY <1>2, <1>3, <2>1, <2>2
  <2>4. ValidSet(r) \subseteq ValidSet(c) /\ \A e \in ValidSet(r) : ~(e <= 0)
    <3>1. \A e \in ValidSet(r) : e \in Entry
      BY DEF ValidSet
    <3> QED
      BY <1>1, <2>1, <2>3, <3>1 DEF Swept
  <2>5. Swept(r, c, d, 0)
    BY <2>3, <2>4 DEF Swept
  <2> QED
    BY <2>2, <2>3, <2>5
<1>4. Swept(c, c, d, 0) /\ c \in S
  <2>1. \A e \in ValidSet(c) : ~(e <= 0)
    BY <1>1 DEF ValidSet
  <2>2. Swept(c, c, d, 0)
    BY <2>1 DEF Swept
  <2> QED
    BY <2>2 DEF Good
<1>5. g \in [(1 .. MaxEntries) \X S -> S]
  BY <1>3
<1> HIDE DEF S, g
<1>6. PICK h : Iteration(h, S, c, g, MaxEntries)
  BY <1>1, <1>4, <1>5, Iterates
<1>7. \A k \in 1 .. MaxEntries : h[k] = IF Hit(h[k - 1], k) THEN Out(h[k - 1], k) ELSE h[k - 1]
  <2> TAKE k \in 1 .. MaxEntries
  <2>1. h[k] = g[<<k, h[k - 1]>>] /\ h[k - 1] \in S
    BY <1>1, <1>6 DEF Iteration
  <2>2. <<k, h[k - 1]>> \in (1 .. MaxEntries) \X S
    BY <2>1
  <2> QED
    BY <2>1, <2>2 DEF g
<1>8. h = Step(h)
  <2>1. \A k \in 0 .. MaxEntries : h[k] = Step(h)[k]
    <3> TAKE k \in 0 .. MaxEntries
    <3>1. CASE k = 0
      BY <1>6, <3>1 DEF Iteration
    <3>2. CASE k # 0
      <4>1. k \in 1 .. MaxEntries
        BY <1>1, <3>2
      <4> QED
        BY <1>7, <3>2, <4>1
    <3> QED
      BY <3>1, <3>2
  <2> QED
    BY <1>6, <2>1 DEF Iteration
<1>9. PICK w : w = (CHOOSE f : f = Step(f)) /\ blkcache_invalidate(c, d) = w[MaxEntries]
  BY DEF blkcache_invalidate, Hit, Out
<1>10. w = Step(w)
  BY <1>8, <1>9
<1>11. Swept(w[MaxEntries], c, d, MaxEntries)
  <2> DEFINE B == {k \in 0 .. MaxEntries : Swept(w[k], c, d, k)}
  <2>1. 0 \in B
    BY <1>1, <1>4, <1>10
  <2>2. ASSUME NEW k \in 1 .. MaxEntries, k - 1 \in B PROVE k \in B
    <3>1. PICK x : x = w[k - 1]
      OBVIOUS
    <3>2. Swept(x, c, d, k - 1) /\ k \in Entry /\ k \in 0 .. MaxEntries
      BY <1>1, <2>2, <3>1
    <3>3. PICK r : r = w[k] /\ r = IF Hit(x, k) THEN Out(x, k) ELSE x
      <4>1. w[k] = IF Hit(w[k - 1], k) THEN Out(w[k - 1], k) ELSE w[k - 1]
        <5>1. k # 0 /\ k \in 0 .. MaxEntries
          BY <1>1
        <5>2. w[k] = Step(w)[k]
          BY <1>10
        <5> QED
          BY <5>1, <5>2
      <4> QED
        BY <3>1, <4>1
    <3>4. CASE Hit(x, k)
      <4>1. /\ Good(r) /\ r.lru = c.lru /\ ValidSet(r) = ValidSet(x) \ {k}
            /\ \A e \in Entry : /\ r.entries[e].sector = c.entries[e].sector
                                /\ r.entries[e].data = c.entries[e].data
        BY <1>2, <3>2, <3>3, <3>4
      <4>2. ASSUME NEW e \in ValidSet(r), e <= k PROVE c.entries[e].sector[1] # d
        <5>1. e \in ValidSet(x) /\ e # k /\ e \in Nat
          BY <1>1, <4>1, <4>2 DEF ValidSet
        <5>2. e <= k - 1
          BY <4>2, <5>1
        <5> QED
          BY <3>2, <5>1, <5>2 DEF Swept
      <4>3. Swept(r, c, d, k)
        BY <3>2, <4>1, <4>2 DEF Swept
      <4> QED
        BY <3>2, <3>3, <4>3
    <3>5. CASE ~ Hit(x, k)
      <4>1. r = x
        BY <3>3, <3>5
      <4>2. ASSUME NEW e \in ValidSet(x), e <= k PROVE c.entries[e].sector[1] # d
        <5>1. CASE e = k
          <6>1. e <= L /\ x.entries[e].valid
            BY <3>2, <4>2, <5>1 DEF Swept, Good, ValidSet
          <6>2. x.entries[e].sector[1] # d
            BY <3>5, <5>1, <6>1 DEF Hit
          <6> QED
            BY <3>2, <5>1, <6>2 DEF Swept
        <5>2. CASE e # k
          <6>1. e <= k - 1
            BY <1>1, <4>2, <5>2 DEF ValidSet
          <6> QED
            BY <3>2, <6>1 DEF Swept
        <5> QED
          BY <5>1, <5>2
      <4>3. Swept(x, c, d, k)
        BY <3>2, <4>2 DEF Swept
      <4> QED
        BY <3>2, <3>3, <4>1, <4>3
    <3> QED
      BY <3>4, <3>5
  <2> HIDE DEF B
  <2>3. 0 .. MaxEntries \subseteq B
    BY <1>1, <2>1, <2>2, UpTo
  <2> QED
    BY <1>1, <2>3 DEF B
<1> QED
  BY <1>9, <1>11
-----------------------------------------------------------------------------
(* The transfers the worker may wait for.                                  *)
Transfer ==
  {Idle} \cup [kind : {"read"}, entry : Entry, sector : Sector]
         \cup {o \in [kind : {"reads"}, sector : Sector, count : 2 .. MaxCount] : Fits(o.sector, o.count)}
         \cup [kind : {"write"}, sector : Sector, data : Data]

(* The entry a transfer will fill.                                         *)
Target(o) == IF o.kind = "read" THEN o.entry ELSE NIL

(* If the entry has become another sector's, that one is torn.             *)
LateRead(c, o, X) ==
  o.kind = "read" /\ o.entry \in ValidSet(c) /\ c.entries[o.entry].sector # o.sector
    => c.entries[o.entry].sector \in X

CacheInv ==
  /\ Good(cache) /\ disk \in [Sector -> Data] /\ op \in Transfer
  /\ Coherent(cache, disk, torn, Target(op)) /\ LateRead(cache, op, torn)

LEMMA TransferKinds ==
  ASSUME NEW o \in Transfer
  PROVE  /\ o.kind = "none" => o = Idle
         /\ o.kind = "read" => o.entry \in Entry /\ o.sector \in Sector
         /\ o.kind = "reads" => o.sector \in Sector /\ o.count \in Nat /\ Fits(o.sector, o.count)
         /\ o.kind = "write" => o.sector \in Sector /\ o.data \in Data
         /\ o.kind # "read" => Target(o) = NIL
<1>1. CASE o = Idle
  BY <1>1 DEF Idle, Target
<1>2. CASE o \in [kind : {"read"}, entry : Entry, sector : Sector]
  BY <1>2
<1>3. CASE o \in {x \in [kind : {"reads"}, sector : Sector, count : 2 .. MaxCount] : Fits(x.sector, x.count)}
  BY <1>3, BlkCacheAssumption DEF Target
<1>4. CASE o \in [kind : {"write"}, sector : Sector, data : Data]
  BY <1>4 DEF Target
<1> QED
  BY <1>1, <1>2, <1>3, <1>4 DEF Transfer

LEMMA IdleTransfer == Idle \in Transfer /\ Target(Idle) = NIL /\ \A c, X : LateRead(c, Idle, X)
  BY DEF Idle, Transfer, Target, LateRead

LEMMA SpanType ==
  ASSUME NEW s \in Sector, NEW n \in Nat, Fits(s, n)
  PROVE  \A k \in 1 .. n : Span(s, n)[k] \in Sector
<1> TAKE k \in 1 .. n
<1>1. s[1] \in Drives /\ s[2] \in 0 .. Sectors - 1 /\ s[2] + n <= Sectors /\ Sectors \in Nat
  BY BlkCacheAssumption DEF Sector, Fits
<1>2. Span(s, n)[k] = <<s[1], s[2] + k - 1>>
  BY DEF Span
<1>3. s[2] + k - 1 \in 0 .. Sectors - 1
  BY <1>1
<1> QED
  BY <1>1, <1>2, <1>3 DEF Sector

LEMMA SameCoherent ==
  ASSUME NEW c, NEW r, SameContents(r, c), NEW D, NEW X, NEW f, Coherent(c, D, X, f)
  PROVE  Good(r) /\ Coherent(r, D, X, f) /\ \A o, Y : LateRead(c, o, Y) => LateRead(r, o, Y)
  BY DEF SameContents, Coherent, LateRead, ValidSet

LEMMA WiderCoherent ==
  ASSUME NEW c, NEW D, NEW X, NEW f, Coherent(c, D, X, f), NEW Y, X \subseteq Y
  PROVE  Coherent(c, D, Y, f)
  BY DEF Coherent

(* The new entry is the transfer's, or its sector is torn.                 *)
LEMMA PlacedCoherent ==
  ASSUME NEW c, NEW D, NEW X, NEW f, Coherent(c, D, X, f),
         NEW r, NEW e \in Entry, NEW s, Placed(r, c, e, s),
         NEW Y, X \subseteq Y, NEW g, (g = e /\ f = NIL) \/ (g = f /\ s \in Y)
  PROVE  Coherent(r, D, Y, g)
<1> SUFFICES ASSUME NEW x \in ValidSet(r), x # g, r.entries[x].sector \notin Y
             PROVE  r.entries[x].data = D[r.entries[x].sector]
  BY DEF Coherent
<1>1. x # e
  BY DEF Placed
<1>2. x \in Entry \ {e} /\ x # NIL
  BY <1>1, BlkCacheAssumption DEF ValidSet
<1>3. x \in ValidSet(c) /\ r.entries[x].sector = c.entries[x].sector
      /\ r.entries[x].data = c.entries[x].data
  BY <1>2 DEF Placed, ValidSet
<1>4. x # f /\ c.entries[x].sector \notin X
  BY <1>2, <1>3
<1> QED
  BY <1>3, <1>4 DEF Coherent
-----------------------------------------------------------------------------
LEMMA InitCache == Init => CacheInv
<1> SUFFICES ASSUME Init PROVE CacheInv
  OBVIOUS
<1>1. MaxEntries \in Nat \ {0} /\ <<0, 0>> \in Nat \X Nat
  BY BlkCacheAssumption
<1> DEFINE none == [sector |-> <<0, 0>>, valid |-> FALSE, data |-> NIL, hash_next |-> NIL]
<1>2. none \in CacheEntry
  BY <1>1 DEF CacheEntry
<1>3. /\ cache.entries = [e \in Entry |-> none] /\ cache.hash_table = [b \in Bucket |-> NIL]
      /\ cache.lru = <<>> /\ cache.hung = FALSE
      /\ cache = [entries |-> [e \in Entry |-> none], hash_table |-> [b \in Bucket |-> NIL],
                  lru |-> <<>>, hung |-> FALSE]
  BY DEF Init
<1> HIDE DEF none
<1>4. cache \in CacheRecord
  BY <1>2, <1>3 DEF CacheRecord
<1>5. ValidSet(cache) = {}
  <2>1. \A e \in Entry : cache.entries[e] = none
    BY <1>3
  <2>2. none.valid = FALSE
    BY DEF none
  <2> QED
    BY <2>1, <2>2 DEF ValidSet
<1>6. GoodLru(cache.lru)
  BY <1>1, <1>3 DEF GoodLru
<1>7. Linked(cache, {})
  <2>1. PICK rank : rank = [e \in Entry |-> 0]
    OBVIOUS
  <2>2. rank \in [Entry -> Nat]
    BY <2>1
  <2>3. Links(cache, {}, rank)
    BY <1>3 DEF Links
  <2> QED
    BY <2>2, <2>3 DEF Linked
<1>8. Good(cache)
  BY <1>3, <1>4, <1>5, <1>6, <1>7 DEF Good
<1>9. Coherent(cache, disk, torn, Target(op))
  BY <1>5 DEF Coherent
<1> QED
  BY <1>8, <1>9, IdleTransfer DEF CacheInv, Init

(* A sector that is not cached gets an entry.                              *)
LEMMA Missed ==
  ASSUME NEW c, Good(c), NEW s \in Sector, cache_lookup(c, s) = NIL
  PROVE  \E e \in Entry : /\ Placed(cache_alloc(c, s), c, e, s)
                          /\ Head(cache_alloc(c, s).lru) = e
<1>1. PICK l : l = cache_lookup(c, s)
  OBVIOUS
<1>2. LookupIs(c, s, l)
  BY <1>1, SectorType, Lookups
<1>3. \A x \in ValidSet(c) : c.entries[x].sector # s
  <2>1. l = NIL /\ NIL \notin ValidSet(c)
    BY <1>1, BlkCacheAssumption DEF ValidSet
  <2> QED
    BY <1>2, <2>1 DEF LookupIs
<1> QED
  BY <1>3, Allocates DEF Placed

LEMMA Found ==
  ASSUME NEW c, Good(c), NEW s \in Sector
  PROVE  /\ Endless(c, s) = FALSE
         /\ cache_lookup(c, s) # NIL => cache_lookup(c, s) \in ValidSet(c)
<1>1. PICK l : l = cache_lookup(c, s)
  OBVIOUS
<1>2. LookupIs(c, s, l) /\ Endless(c, s) = FALSE
  BY <1>1, SectorType, Lookups
<1> QED
  BY <1>1, <1>2 DEF LookupIs

LEMMA ReadSector ==
  ASSUME Unreadable = {}, CacheInv, NEW s \in Sector, read_sector(s)
  PROVE  CacheInv'
<1>1. /\ Good(cache) /\ disk \in [Sector -> Data] /\ op = Idle /\ disk' = disk /\ torn' = torn
      /\ Coherent(cache, disk, torn, NIL)
  BY IdleTransfer DEF CacheInv, read_sector, Ready
<1>2. PICK e, n : e = cache_lookup(cache, s) /\ n = cache_alloc(cache, s)
  OBVIOUS
<1>3. Endless(cache, s) = FALSE /\ (e # NIL => e \in ValidSet(cache))
  BY <1>1, <1>2, Found
<1>4. IF e # NIL THEN cache' = Touch(cache, e) /\ op' = op
      ELSE IF InMemory(s) THEN cache' = FilledRead(n, Head(n.lru), s) /\ op' = op
      ELSE cache' = n /\ op' = [kind |-> "read", entry |-> Head(n.lru), sector |-> s]
  BY <1>2, <1>3 DEF read_sector
<1>5. CASE e # NIL
  <2>1. SameContents(cache', cache)
    BY <1>1, <1>3, <1>4, <1>5, Hits
  <2>2. Good(cache') /\ Coherent(cache', disk, torn, NIL)
    BY <1>1, <2>1, SameCoherent
  <2> QED
    BY <1>1, <1>4, <1>5, <2>2, IdleTransfer DEF CacheInv
<1>6. CASE e = NIL
  <2>1. PICK f \in Entry : Placed(n, cache, f, s) /\ Head(n.lru) = f
    BY <1>1, <1>2, <1>6, Missed
  <2>2. CASE InMemory(s)
    <3>1. cache' = Fill(n, f, disk[s]) /\ op' = op
      BY <1>4, <1>6, <2>1, <2>2 DEF FilledRead
    <3>2. Holding(cache', cache, f, s, disk[s])
      BY <1>1, <2>1, <3>1, FillsPlaced
    <3>3. Good(cache') /\ Coherent(cache', disk, torn, NIL)
      BY <1>1, <3>2, HeldCoherent DEF Holding
    <3> QED
      BY <1>1, <3>1, <3>3, IdleTransfer DEF CacheInv
  <2>3. CASE ~ InMemory(s)
    <3>1. cache' = n /\ op' = [kind |-> "read", entry |-> f, sector |-> s]
      BY <1>4, <1>6, <2>1, <2>3
    <3>2. op' \in Transfer /\ Target(op') = f
      BY <3>1 DEF Transfer, Target
    <3>3. Coherent(cache', disk, torn, f) /\ Good(cache')
      BY <1>1, <2>1, <3>1, PlacedCoherent DEF Placed
    <3>4. LateRead(cache', op', torn)
      BY <2>1, <3>1 DEF LateRead, Placed
    <3> QED
      BY <1>1, <3>2, <3>3, <3>4 DEF CacheInv
  <2> QED
    BY <2>2, <2>3
<1> QED
  BY <1>5, <1>6

LEMMA ReadEnds ==
  ASSUME Unreadable = {}, CacheInv, ReadDone
  PROVE  CacheInv'
<1>1. /\ Good(cache) /\ disk \in [Sector -> Data] /\ disk' = disk /\ torn' = torn /\ op' = Idle
      /\ op.kind = "read" /\ op \in Transfer /\ cache' = FilledRead(cache, op.entry, op.sector)
  BY DEF CacheInv, ReadDone, Done
<1>2. PICK e \in Entry, s \in Sector : e = op.entry /\ s = op.sector
  BY <1>1, TransferKinds
<1>3. Coherent(cache, disk, torn, e) /\ LateRead(cache, op, torn)
  BY <1>1, <1>2 DEF CacheInv, Target
<1>4. cache' = Fill(cache, e, disk[s])
  BY <1>1, <1>2 DEF FilledRead
<1>5. Filled(cache', cache, e, disk[s])
  BY <1>1, <1>4, Fills
<1>6. Coherent(cache', disk, torn, NIL)
  <2> SUFFICES ASSUME NEW x \in ValidSet(cache'), cache'.entries[x].sector \notin torn
               PROVE  cache'.entries[x].data = disk[cache'.entries[x].sector]
    BY DEF Coherent
  <2>1. x \in ValidSet(cache) /\ x \in Entry /\ cache'.entries[x].sector = cache.entries[x].sector
    BY <1>5 DEF Filled, ValidSet
  <2>2. CASE x = e
    <3>1. cache.entries[x].sector = s
      BY <1>1, <1>2, <1>3, <2>1, <2>2 DEF LateRead
    <3> QED
      BY <1>5, <2>1, <2>2, <3>1 DEF Filled
  <2>3. CASE x # e
    BY <1>3, <1>5, <2>1, <2>3 DEF Coherent, Filled
  <2> QED
    BY <2>2, <2>3
<1> QED
  BY <1>1, <1>5, <1>6, IdleTransfer DEF CacheInv, Filled

(* A batched read: all of it hits, or the disk is read.                    *)
LEMMA ReadBatch ==
  ASSUME Unreadable = {}, CacheInv, NEW s \in Sector, NEW n \in 2 .. MaxCount, Fits(s, n),
         read_sectors(s, n)
  PROVE  CacheInv'
<1>1. /\ Good(cache) /\ disk \in [Sector -> Data] /\ op = Idle /\ disk' = disk /\ torn' = torn
      /\ Coherent(cache, disk, torn, NIL)
  BY IdleTransfer DEF CacheInv, read_sectors, Ready
<1>2. n \in Nat /\ \A k \in 1 .. n : Span(s, n)[k] \in Sector
  BY SpanType, BlkCacheAssumption
<1>3. AnyEndless(cache, s, n) = FALSE
  BY <1>1, <1>2, Found DEF AnyEndless
<1>4. Readable(s, n) = TRUE
  BY DEF Readable
<1>5. CASE AllCached(cache, s, n)
  <2>1. cache' = TouchAll(cache, s, n) /\ op' = op
    BY <1>3, <1>5 DEF read_sectors
  <2>2. SameContents(cache', cache)
    BY <1>1, <1>2, <1>5, <2>1, TouchesAll
  <2>3. Good(cache') /\ Coherent(cache', disk, torn, NIL)
    BY <1>1, <2>2, SameCoherent
  <2> QED
    BY <1>1, <2>1, <2>3, IdleTransfer DEF CacheInv
<1>6. CASE ~ AllCached(cache, s, n) /\ ~ InMemory(s)
  <2>1. op' = [kind |-> "reads", sector |-> s, count |-> n] /\ cache' = cache
    BY <1>3, <1>6 DEF read_sectors
  <2>2. op' \in Transfer /\ Target(op') = NIL /\ op'.kind # "read"
    BY <2>1 DEF Transfer, Target
  <2> QED
    BY <1>1, <2>1, <2>2 DEF CacheInv, LateRead
<1>7. CASE ~ AllCached(cache, s, n) /\ InMemory(s)
  <2>1. op' = op /\ cache' = StoreAll(cache, s, n)
    BY <1>3, <1>4, <1>7 DEF read_sectors
  <2>2. Good(cache') /\ Coherent(cache', disk, torn, NIL)
    BY <1>1, <1>2, <2>1, StoresAll
  <2> QED
    BY <1>1, <2>1, <2>2, IdleTransfer DEF CacheInv
<1> QED
  BY <1>5, <1>6, <1>7

LEMMA BatchEnds ==
  ASSUME Unreadable = {}, CacheInv, ReadsDone
  PROVE  CacheInv'
<1>1. /\ Good(cache) /\ disk \in [Sector -> Data] /\ disk' = disk /\ torn' = torn /\ op' = Idle
      /\ op.kind = "reads" /\ op \in Transfer
      /\ cache' = IF Readable(op.sector, op.count) THEN StoreAll(cache, op.sector, op.count)
                  ELSE cache
  BY DEF CacheInv, ReadsDone, Done
<1>2. PICK s \in Sector, n \in Nat : s = op.sector /\ n = op.count /\ Fits(s, n)
  BY <1>1, TransferKinds
<1>3. \A k \in 1 .. n : Span(s, n)[k] \in Sector
  BY <1>2, SpanType
<1>4. Coherent(cache, disk, torn, NIL)
  BY <1>1 DEF CacheInv, Target
<1>5. cache' = StoreAll(cache, s, n)
  <2>1. Readable(s, n)
    BY DEF Readable
  <2> QED
    BY <1>1, <1>2, <2>1
<1>6. Good(cache') /\ Coherent(cache', disk, torn, NIL)
  BY <1>1, <1>3, <1>4, <1>5, StoresAll
<1> QED
  BY <1>1, <1>6, IdleTransfer DEF CacheInv

LEMMA WriteStarts ==
  ASSUME CacheInv, NEW s \in Sector, NEW v \in Data, write_sector(s, v)
  PROVE  CacheInv'
<1>1. /\ op = Idle /\ cache' = cache /\ disk' = disk /\ torn' = torn
      /\ op' = [kind |-> "write", sector |-> s, data |-> v]
  BY DEF write_sector, Ready
<1>2. op' \in Transfer /\ Target(op') = NIL /\ op'.kind # "read"
  BY <1>1 DEF Transfer, Target
<1>3. Coherent(cache, disk, torn, NIL)
  BY <1>1, IdleTransfer DEF CacheInv
<1> QED
  BY <1>1, <1>2, <1>3 DEF CacheInv, LateRead

LEMMA WriteEnds ==
  ASSUME CacheInv, WriteDone
  PROVE  CacheInv'
<1>1. /\ Good(cache) /\ disk \in [Sector -> Data] /\ op.kind = "write" /\ op \in Transfer /\ op' = Idle
      /\ disk' = [disk EXCEPT ![op.sector] = op.data]
      /\ cache' = Store(cache, op.sector, op.data) /\ torn' = torn \ {op.sector}
  BY DEF CacheInv, WriteDone, Done
<1>2. PICK s \in Sector, v \in Data : s = op.sector /\ v = op.data
  BY <1>1, TransferKinds
<1>3. Coherent(cache, disk, torn, NIL)
  BY <1>1 DEF CacheInv, Target
<1>4. PICK e \in Entry : Holding(cache', cache, e, s, v)
  BY <1>1, <1>2, Stores
<1>5. disk' \in [Sector -> Data] /\ disk'[s] = v /\ \A t \in Sector : t # s => disk'[t] = disk[t]
  BY <1>1, <1>2
<1>6. Coherent(cache', disk', torn', NIL)
  <2> SUFFICES ASSUME NEW x \in ValidSet(cache'), cache'.entries[x].sector \notin torn'
               PROVE  cache'.entries[x].data = disk'[cache'.entries[x].sector]
    BY DEF Coherent
  <2>1. CASE x = e
    BY <1>4, <1>5, <2>1 DEF Holding
  <2>2. CASE x # e
    <3>1. x \in Entry \ {e}
      BY <2>2 DEF ValidSet
    <3>2. x \in ValidSet(cache) /\ cache'.entries[x].sector = cache.entries[x].sector
          /\ cache'.entries[x].data = cache.entries[x].data
      BY <1>4, <3>1 DEF Holding, ValidSet
    <3>3. cache'.entries[x].sector \in Sector /\ cache'.entries[x].sector # s
      BY <1>4, <2>2 DEF Holding, Good
    <3>4. cache.entries[x].sector \notin torn /\ x # NIL
      BY <1>1, <1>2, <3>1, <3>2, <3>3, BlkCacheAssumption
    <3> QED
      BY <1>3, <1>5, <3>2, <3>3, <3>4 DEF Coherent
  <2> QED
    BY <2>1, <2>2
<1> QED
  BY <1>1, <1>4, <1>5, <1>6, IdleTransfer DEF CacheInv, Holding

LEMMA WriteFails ==
  ASSUME CacheInv, WriteFailed
  PROVE  CacheInv'
<1>1. /\ Good(cache) /\ disk \in [Sector -> Data] /\ op.kind = "write" /\ op \in Transfer /\ op' = Idle
      /\ disk' = disk \/ disk' = [disk EXCEPT ![op.sector] = op.data]
      /\ cache' = cache /\ torn' = torn \cup {op.sector}
  BY DEF CacheInv, WriteFailed, Done
<1>2. PICK s \in Sector, v \in Data : s = op.sector /\ v = op.data
  BY <1>1, TransferKinds
<1>3. Coherent(cache, disk, torn, NIL)
  BY <1>1 DEF CacheInv, Target
<1>4. disk' \in [Sector -> Data] /\ \A t \in Sector : t # s => disk'[t] = disk[t]
  BY <1>1, <1>2
<1>5. Coherent(cache', disk', torn', NIL)
  <2> SUFFICES ASSUME NEW x \in ValidSet(cache), cache.entries[x].sector \notin torn', x # NIL
               PROVE  cache.entries[x].data = disk'[cache.entries[x].sector]
    BY <1>1 DEF Coherent
  <2>1. cache.entries[x].sector \in Sector /\ cache.entries[x].sector # s
        /\ cache.entries[x].sector \notin torn
    BY <1>1, <1>2 DEF Good
  <2> QED
    BY <1>3, <1>4, <2>1 DEF Coherent
<1> QED
  BY <1>1, <1>4, <1>5, IdleTransfer DEF CacheInv

(* A program's call: what it leaves behind is torn.                        *)
LEMMA LeftLate ==
  ASSUME NEW U, Left(U) \subseteq torn'
  PROVE  LateRead(cache', op, torn') /\ U \subseteq torn'
  BY DEF Left, LateRead

LEMMA ProgramRead ==
  ASSUME Unreadable = {}, CacheInv, NEW s \in Sector, program_read(s)
  PROVE  CacheInv'
<1> DEFINE U == IF cache_lookup(cache, s) = NIL /\ ~InMemory(s) THEN {s} ELSE {}
<1>1. /\ Good(cache) /\ disk \in [Sector -> Data] /\ op \in Transfer /\ disk' = disk /\ op' = op
      /\ Coherent(cache, disk, torn, Target(op)) /\ torn' = torn \cup Left(U)
  BY Zenon DEF CacheInv, program_read
<1>2. PICK e, n : e = cache_lookup(cache, s) /\ n = cache_alloc(cache, s)
  OBVIOUS
<1>3. Endless(cache, s) = FALSE /\ (e # NIL => e \in ValidSet(cache))
  BY <1>1, <1>2, Found
<1>4. cache' = IF e # NIL THEN Touch(cache, e)
               ELSE IF InMemory(s) THEN FilledRead(n, Head(n.lru), s) ELSE n
  BY <1>2, <1>3 DEF program_read
<1>5. LateRead(cache', op, torn') /\ U \subseteq torn' /\ torn \subseteq torn'
  BY <1>1, LeftLate
<1>6. e = NIL /\ ~InMemory(s) => s \in torn'
  BY <1>2, <1>5
<1> HIDE DEF U
<1>7. PICK f : f = Target(op)
  OBVIOUS
<1>8. Good(cache') /\ Coherent(cache', disk, torn', f)
  <2>1. CASE e # NIL
    <3>1. SameContents(cache', cache)
      BY <1>1, <1>3, <1>4, <2>1, Hits
    <3> QED
      BY <1>1, <1>5, <1>7, <3>1, SameCoherent, WiderCoherent
  <2>2. CASE e = NIL
    <3>1. PICK x \in Entry : Placed(n, cache, x, s) /\ Head(n.lru) = x
      BY <1>1, <1>2, <2>2, Missed
    <3>2. CASE InMemory(s)
      <4>1. cache' = Fill(n, x, disk[s])
        BY <1>4, <2>2, <3>1, <3>2 DEF FilledRead
      <4>2. Holding(cache', cache, x, s, disk[s])
        BY <1>1, <3>1, <4>1, FillsPlaced
      <4>3. Coherent(cache', disk, torn, f)
        BY <1>1, <1>7, <4>2, HeldCoherent
      <4> QED
        BY <1>5, <4>2, <4>3, WiderCoherent DEF Holding
    <3>3. CASE ~ InMemory(s)
      <4>1. cache' = n /\ s \in torn'
        BY <1>4, <1>6, <2>2, <3>3
      <4>2. Coherent(n, disk, torn', f)
        BY <1>1, <1>5, <1>7, <3>1, <4>1, PlacedCoherent
      <4> QED
        BY <3>1, <4>1, <4>2 DEF Placed
    <3> QED
      BY <3>2, <3>3
  <2> QED
    BY <2>1, <2>2
<1> QED
  BY <1>1, <1>5, <1>7, <1>8 DEF CacheInv

LEMMA ProgramBatch ==
  ASSUME Unreadable = {}, CacheInv, NEW s \in Sector, NEW n \in 2 .. MaxCount, Fits(s, n),
         program_read_sectors(s, n)
  PROVE  CacheInv'
<1>1. /\ Good(cache) /\ disk \in [Sector -> Data] /\ op \in Transfer /\ disk' = disk /\ op' = op
      /\ Coherent(cache, disk, torn, Target(op)) /\ torn' = torn \cup Left({})
  BY DEF CacheInv, program_read_sectors
<1>2. n \in Nat /\ \A k \in 1 .. n : Span(s, n)[k] \in Sector
  BY SpanType, BlkCacheAssumption
<1>3. AnyEndless(cache, s, n) = FALSE
  BY <1>1, <1>2, Found DEF AnyEndless
<1>4. LateRead(cache', op, torn') /\ torn \subseteq torn'
  BY <1>1, LeftLate
<1>5. PICK f : f = Target(op)
  OBVIOUS
<1>6. Good(cache') /\ Coherent(cache', disk, torn, f)
  <2>1. CASE AllCached(cache, s, n)
    <3>1. cache' = TouchAll(cache, s, n)
      BY <1>3, <2>1 DEF program_read_sectors
    <3>2. SameContents(cache', cache)
      BY <1>1, <1>2, <2>1, <3>1, TouchesAll
    <3> QED
      BY <1>1, <1>5, <3>2, SameCoherent
  <2>2. CASE ~ AllCached(cache, s, n) /\ InMemory(s)
    <3>1. cache' = StoreAll(cache, s, n)
      BY <1>3, <2>2 DEF program_read_sectors, Readable
    <3> QED
      BY <1>1, <1>2, <1>5, <3>1, StoresAll
  <2>3. CASE ~ AllCached(cache, s, n) /\ ~ InMemory(s)
    <3>1. cache' = cache
      BY <1>3, <2>3 DEF program_read_sectors
    <3> QED
      BY <1>1, <1>5, <3>1
  <2> QED
    BY <2>1, <2>2, <2>3
<1>7. Coherent(cache', disk, torn', f)
  BY <1>4, <1>6, WiderCoherent
<1> QED
  BY <1>1, <1>4, <1>5, <1>6, <1>7 DEF CacheInv

LEMMA ImageReplaced ==
  ASSUME CacheInv, NEW d \in MemDrives, NEW image \in [0 .. Sectors - 1 -> Data],
         register_memdrive(d, image)
  PROVE  CacheInv'
<1>1. /\ Good(cache) /\ disk \in [Sector -> Data] /\ op = Idle /\ op' = op /\ torn' = torn
      /\ Coherent(cache, disk, torn, NIL)
      /\ disk' = [s \in Sector |-> IF s[1] = d THEN image[s[2]] ELSE disk[s]]
      /\ cache' = blkcache_invalidate(cache, d)
  BY IdleTransfer DEF CacheInv, register_memdrive, Ready
<1>2. disk' \in [Sector -> Data]
  <2>1. \A s \in Sector : disk'[s] \in Data
    <3> TAKE s \in Sector
    <3>1. s[2] \in 0 .. Sectors - 1
      BY DEF Sector
    <3> QED
      BY <1>1, <3>1
  <2> QED
    BY <1>1, <2>1
<1>3. Swept(cache', cache, d, MaxEntries)
  BY <1>1, Sweeps
<1>4. Coherent(cache', disk', torn', NIL)
  <2> SUFFICES ASSUME NEW x \in ValidSet(cache'), cache'.entries[x].sector \notin torn, x # NIL
               PROVE  cache'.entries[x].data = disk'[cache'.entries[x].sector]
    BY <1>1 DEF Coherent
  <2>1. x \in ValidSet(cache) /\ x \in Entry /\ cache'.entries[x].sector = cache.entries[x].sector
        /\ cache'.entries[x].data = cache.entries[x].data
    BY <1>3 DEF Swept, ValidSet
  <2>2. x <= MaxEntries
    BY <2>1, BlkCacheAssumption DEF Entry
  <2>3. PICK t \in Sector : t = cache.entries[x].sector /\ t[1] # d
    BY <1>1, <1>3, <2>1, <2>2 DEF Swept, Good
  <2>4. disk'[t] = disk[t]
    BY <1>1, <2>3
  <2> QED
    BY <1>1, <2>1, <2>3, <2>4 DEF Coherent
<1>5. Good(cache')
  BY <1>3 DEF Swept
<1> QED
  BY <1>1, <1>2, <1>4, <1>5, IdleTransfer DEF CacheInv

LEMMA CacheStep ==
  ASSUME Unreadable = {}, CacheInv, [Next]_vars
  PROVE  CacheInv'
<1>1. CASE UNCHANGED vars
  BY <1>1 DEF vars, CacheInv, Good, Coherent, LateRead
<1>2. CASE Next
  <2>1. ASSUME NEW s \in Sector, read_sector(s) \/ program_read(s) PROVE CacheInv'
    BY <2>1, ReadSector, ProgramRead
  <2>2. ASSUME NEW s \in Sector, NEW n \in 2 .. MaxCount, Fits(s, n),
               read_sectors(s, n) \/ program_read_sectors(s, n)
        PROVE  CacheInv'
    BY <2>2, ReadBatch, ProgramBatch
  <2>3. ASSUME NEW s \in Sector, NEW v \in Data, write_sector(s, v) PROVE CacheInv'
    BY <2>3, WriteStarts
  <2>4. CASE ReadDone
    BY <2>4, ReadEnds
  <2>5. CASE ReadsDone
    BY <2>5, BatchEnds
  <2>6. CASE WriteDone
    BY <2>6, WriteEnds
  <2>7. CASE WriteFailed
    BY <2>7, WriteFails
  <2>8. ASSUME NEW d \in MemDrives, NEW image \in [0 .. Sectors - 1 -> Data],
               register_memdrive(d, image)
        PROVE  CacheInv'
    BY <2>8, ImageReplaced
  <2> QED
    BY <1>2, <2>1, <2>2, <2>3, <2>4, <2>5, <2>6, <2>7, <2>8 DEF Next
<1> QED
  BY <1>1, <1>2
-----------------------------------------------------------------------------
LEMMA InvCoherent == CacheInv => CacheCoherent
<1> SUFFICES ASSUME CacheInv, NEW e \in Entry, Valid(e), ~Filling(e),
                    cache.entries[e].sector \notin torn
             PROVE  Holds(e)
  BY DEF CacheCoherent
<1>1. e \in ValidSet(cache)
  BY DEF Valid, ValidSet
<1>2. e # Target(op)
  BY BlkCacheAssumption DEF Filling, Target
<1> QED
  BY <1>1, <1>2 DEF CacheInv, Coherent, Holds

LEMMA InvIntact == CacheInv => CacheIntact
<1> SUFFICES ASSUME CacheInv PROVE CacheIntact
  OBVIOUS
<1>1. Good(cache) /\ GoodLru(cache.lru)
  BY DEF CacheInv, Good
<1>2. ASSUME NEW e \in Entry, Valid(e)
      PROVE  cache_lookup(cache, cache.entries[e].sector) = e
  <2>1. e \in ValidSet(cache)
    BY <1>2 DEF Valid, ValidSet
  <2>2. PICK s \in Sector : s = cache.entries[e].sector
    BY <1>1, <2>1 DEF Good
  <2>3. PICK l : l = cache_lookup(cache, s)
    OBVIOUS
  <2>4. LookupIs(cache, s, l)
    BY <1>1, <2>3, SectorType, Lookups
  <2>5. l = e
    BY <1>1, <2>1, <2>2, <2>4 DEF LookupIs, Good
  <2> QED
    BY <2>2, <2>3, <2>5
<1>3. PICK q \in Seq(Entry) : q = cache.lru /\ DOMAIN q = 1 .. Len(q)
  BY <1>1, LenProperties DEF GoodLru
<1>4. {q[k] : k \in 1 .. Len(q)} = 1 .. Len(q)
  BY <1>1, <1>3 DEF GoodLru
<1> QED
  BY <1>2, <1>3, <1>4 DEF CacheIntact

LEMMA InvChainsEnd == CacheInv => ChainsEnd
<1> SUFFICES ASSUME CacheInv PROVE ChainsEnd
  OBVIOUS
<1> DEFINE V == ValidSet(cache)
<1>1. cache \in CacheRecord /\ V \in SUBSET Entry /\ cache.hung = FALSE /\ Linked(cache, V)
  BY DEF CacheInv, Good, ValidSet
<1> HIDE DEF V
<1>2. PICK rank \in [Entry -> Nat] : Links(cache, V, rank)
  BY <1>1 DEF Linked
<1>3. ASSUME NEW b \in Bucket PROVE ChainIs(Chain(cache, b), cache, b, V)
  BY <1>1, <1>2, Chains
<1>4. ASSUME NEW b \in Bucket PROVE ~Looped(cache, b)
  <2>1. PICK walk : walk = Chain(cache, b)
    OBVIOUS
  <2>2. walk[MaxEntries] = NIL
    BY <1>1, <1>2, <1>3, <2>1, ChainOnce
  <2> QED
    BY <2>1, <2>2 DEF Looped
<1>5. ASSUME NEW a \in Bucket, NEW b \in Bucket, a # b
      PROVE  Range(Chain(cache, a)) \cap Range(Chain(cache, b)) \subseteq {NIL}
  <2>1. PICK x, y : x = Chain(cache, a) /\ y = Chain(cache, b)
    OBVIOUS
  <2>2. ChainIs(x, cache, a, V) /\ ChainIs(y, cache, b, V)
    BY <1>3, <2>1
  <2>3. ASSUME NEW n \in DOMAIN x, NEW m \in DOMAIN y, x[n] = y[m] PROVE x[n] = NIL
    <3>1. n \in 0 .. MaxEntries /\ m \in 0 .. MaxEntries
      BY <2>2, <2>3 DEF ChainIs
    <3>2. x[n] # NIL => Bucketed(cache, x[n]) = a
      BY <2>2, <3>1 DEF ChainIs
    <3>3. y[m] # NIL => Bucketed(cache, y[m]) = b
      BY <2>2, <3>1 DEF ChainIs
    <3> QED
      BY <1>5, <2>3, <3>2, <3>3
  <2>4. Range(x) \cap Range(y) \subseteq {NIL}
    BY <2>3 DEF Range
  <2> QED
    BY <2>1, <2>4
<1> QED
  BY <1>1, <1>4, <1>5 DEF ChainsEnd
-----------------------------------------------------------------------------
(* The invariant holds as long as no sector of a drive is unreadable: after *)
(* a failed read cache_alloc() finds an entry that is not valid but in its *)
(* chain, and inserts it a second time.                                    *)
LEMMA CacheInvariant ==
  ASSUME Unreadable = {}
  PROVE  Spec => []CacheInv
<1>1. Init => CacheInv
  BY InitCache
<1>2. CacheInv /\ [Next]_vars => CacheInv'
  BY CacheStep
<1> QED
  BY <1>1, <1>2, PTL DEF Spec

(* Whatever the worker reads, writes, evicts and abandons, and whatever    *)
(* the programs do meanwhile, a hit in blkcache_read_sector() returns what *)
(* the disk holds, but for the entry being filled and torn sectors.        *)
THEOREM CacheStaysCoherent ==
  ASSUME Unreadable = {}
  PROVE  Spec => []CacheCoherent
<1>1. Spec => []CacheInv
  BY CacheInvariant
<1>2. CacheInv => CacheCoherent
  BY InvCoherent
<1> QED
  BY <1>1, <1>2, PTL

(* cache_lookup() finds every valid entry under its sector, and the LRU    *)
(* list holds the used entries, each once.                                 *)
THEOREM CacheStaysIntact ==
  ASSUME Unreadable = {}
  PROVE  Spec => []CacheIntact
<1>1. Spec => []CacheInv
  BY CacheInvariant
<1>2. CacheInv => CacheIntact
  BY InvIntact
<1> QED
  BY <1>1, <1>2, PTL

(* No hash chain loops and no two share an entry: the walks of             *)
(* cache_lookup() and hash_remove() end.                                   *)
THEOREM ChainsStayFinite ==
  ASSUME Unreadable = {}
  PROVE  Spec => []ChainsEnd
<1>1. Spec => []CacheInv
  BY CacheInvariant
<1>2. CacheInv => ChainsEnd
  BY InvChainsEnd
<1> QED
  BY <1>1, <1>2, PTL
=============================================================================
