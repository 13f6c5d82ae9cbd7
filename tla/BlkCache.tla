------------------------------ MODULE BlkCache ------------------------------
(***************************************************************************)
(* The block cache (kernel/filesystem/blkcache.c) above the disk driver.   *)
(*                                                                         *)
(* A cache is the record                                                   *)
(*   entries     the entries: sector, valid, data and hash_next            *)
(*   hash_table  the first entry of each bucket                            *)
(*   lru         the used entries, most recently used first                *)
(*   hung        a walk along a hash chain does not end                    *)
(* and the static functions of the code are operators from cache to cache. *)
(*                                                                         *)
(* The disk worker gives up the processor while a transfer runs: op is the *)
(* transfer it waits for.  Meanwhile a program's system call may enter the *)
(* cache as well.  If it needs the disk it blocks on the channel lock, and *)
(* as a blocked program resumes in user mode, the rest of its call is      *)
(* never executed.                                                         *)
(***************************************************************************)
EXTENDS Integers, Sequences, FiniteSetsExt

CONSTANTS
  Drives,       \* disks
  MemDrives,    \* those in memory: read at once, never written
  Sectors,      \* the sectors 0 .. Sectors - 1 of every drive are used
  Data,         \* contents of sectors
  MaxEntries,   \* BLKCACHE_MAX_ENTRIES (256)
  NumBuckets,   \* BLKCACHE_NUM_BUCKETS (64)
  HashMult,     \* 2654435761
  MaxCount,     \* largest number of sectors of a read
  Unreadable,   \* the sectors that cannot be read
  Programs,     \* may programs use the cache while the worker waits?
  MaxTorn,      \* bound: sectors whose entry may be wrong at the same time
  NIL

Entry  == 1 .. MaxEntries
Bucket == 0 .. NumBuckets - 1
Sector == Drives \X (0 .. Sectors - 1)

ASSUME BlkCacheAssumption ==
  /\ Drives \subseteq Nat /\ MemDrives \subseteq Drives
  /\ Sectors \in Nat \ {0} /\ MaxEntries \in Nat \ {0} /\ NumBuckets \in Nat \ {0}
  /\ HashMult \in Nat /\ MaxCount \in Nat /\ Unreadable \subseteq Sector
  /\ MaxTorn \in Nat /\ Programs \in BOOLEAN /\ NIL \notin Entry /\ Data # {}

VARIABLES
  cache,
  disk,   \* what the drives hold
  op,     \* the transfer the worker waits for, [kind |-> "none"] for none
  torn    \* history: sectors whose last write failed or whose entry a
          \* program left unfilled

vars == <<cache, disk, op, torn>>

Idle == [kind |-> "none"]
Ready == op = Idle /\ ~cache.hung
Done(kind) == op.kind = kind /\ ~cache.hung
Waiting == op # Idle /\ ~cache.hung
-----------------------------------------------------------------------------
blkcache_hash(s) == (s[1] * HashMult + s[2]) % NumBuckets

(* The first MaxEntries + 1 pointers along the chain of a bucket. *)
Chain(c, b) ==
  LET walk[n \in 0 .. MaxEntries] ==
        IF n = 0 THEN c.hash_table[b]
        ELSE LET e == walk[n - 1] IN IF e = NIL THEN NIL ELSE c.entries[e].hash_next
  IN  walk

Looped(c, b) == Chain(c, b)[MaxEntries] # NIL

Hung(c) == [c EXCEPT !.hung = TRUE]

hash_remove(c, e) ==
  LET b    == blkcache_hash(c.entries[e].sector)
      walk == Chain(c, b)
      at   == {n \in 0 .. MaxEntries : walk[n] = e}
      next == c.entries[e].hash_next
      prev == walk[Min(at) - 1]
  IN  IF at = {} THEN IF Looped(c, b) THEN Hung(c) ELSE c
      ELSE IF 0 \in at
      THEN [c EXCEPT !.hash_table[b] = next, !.entries[e].hash_next = NIL]
      ELSE [c EXCEPT !.entries = [@ EXCEPT ![prev].hash_next = next, ![e].hash_next = NIL]]

hash_insert(c, e) ==
  LET b == blkcache_hash(c.entries[e].sector)
  IN  [c EXCEPT !.entries[e].hash_next = c.hash_table[b], !.hash_table[b] = e]

(* The entry of a sector, or NIL. *)
cache_lookup(c, s) ==
  LET chain == Chain(c, blkcache_hash(s))
      hit   == {n \in 0 .. MaxEntries : chain[n] # NIL
                  /\ c.entries[chain[n]].valid /\ c.entries[chain[n]].sector = s}
  IN  IF hit = {} THEN NIL ELSE chain[Min(hit)]

(* A lookup that never ends. *)
Endless(c, s) == Looped(c, blkcache_hash(s)) /\ cache_lookup(c, s) = NIL

(* lru_remove() and lru_push_front(): those before e, or all of them when  *)
(* e is new, move back by one.                                             *)
Touch(c, e) ==
  LET at == {k \in DOMAIN c.lru : c.lru[k] = e}
      n  == IF at = {} THEN Len(c.lru) + 1 ELSE Min(at)
  IN  [c EXCEPT !.lru = [k \in DOMAIN @ \cup {n} |->
                           IF k = 1 THEN e ELSE IF k <= n THEN @[k - 1] ELSE @[k]]]

cache_alloc_Linked(c, s) ==
  LET used == Len(c.lru)
      e    == IF used < MaxEntries THEN used + 1 ELSE c.lru[used]
      new  == [c EXCEPT !.entries[e].sector = s, !.entries[e].valid = TRUE]
  IN  Touch(hash_insert(new, e), e)

(* The next unused entry, or the least recently used one taken out of its  *)
(* chain, becomes the entry of s; it is now the first of lru.              *)
cache_alloc(c, s) ==
  LET used == Len(c.lru)
      e    == IF used < MaxEntries THEN used + 1 ELSE c.lru[used]
      out  == IF used = MaxEntries /\ c.entries[e].valid THEN hash_remove(c, e) ELSE c
      new  == [out EXCEPT !.entries[e].sector = s, !.entries[e].valid = TRUE]
  IN  Touch(hash_insert(new, e), e)

Fill(c, e, v) == [c EXCEPT !.entries[e].data = v]

Store_Alloc(c, s, v) ==
  LET n == cache_alloc(c, s)
  IN  IF Endless(c, s) THEN Hung(c) ELSE Fill(n, Head(n.lru), v)

(* What blkcache_read_sectors() and blkcache_write_sector() do to the      *)
(* cache with the contents v of a sector. *)
Store(c, s, v) ==
  LET e == cache_lookup(c, s)
      n == cache_alloc(c, s)
  IN  IF Endless(c, s) THEN Hung(c)
      ELSE IF e # NIL THEN Touch(Fill(c, e, v), e)
      ELSE Fill(n, Head(n.lru), v)

Span(s, n) == [k \in 1 .. n |-> <<s[1], s[2] + k - 1>>]

(* The sectors of a read, from left to right. *)
StoreAll(c, s, n) ==
  LET done[k \in 0 .. n] ==
        IF k = 0 THEN c ELSE Store(done[k - 1], Span(s, n)[k], disk[Span(s, n)[k]])
  IN  done[n]
TouchAll(c, s, n) ==
  LET done[k \in 0 .. n] ==
        IF k = 0 THEN c
        ELSE Touch(done[k - 1], cache_lookup(done[k - 1], Span(s, n)[k]))
  IN  done[n]

AllCached(c, s, n) == \A k \in 1 .. n : cache_lookup(c, Span(s, n)[k]) # NIL
Readable(s, n) == \A k \in 1 .. n : Span(s, n)[k] \notin Unreadable
Fits(s, n) == s[2] + n <= Sectors
InMemory(s) == s[1] \in MemDrives
-----------------------------------------------------------------------------
Init ==
  /\ disk \in [Sector -> Data]
  /\ cache = [entries |-> [e \in Entry |-> [sector |-> <<0, 0>>, valid |-> FALSE,
                                            data |-> NIL, hash_next |-> NIL]],
              hash_table |-> [b \in Bucket |-> NIL], lru |-> <<>>, hung |-> FALSE]
  /\ op = Idle /\ torn = {}

(* blkdev_read_sector() into entry e of cache c has returned. *)
FilledRead(c, e, s) ==
  IF s \in Unreadable THEN [c EXCEPT !.entries[e].valid = FALSE]
                      ELSE Fill(c, e, disk[s])

(* blkcache_read_sector(), by the worker.  A miss on a disk drive waits    *)
(* with the entry in place.                                                *)
read_sector(s) ==
  LET e == cache_lookup(cache, s)
      n == cache_alloc(cache, s)
  IN  /\ Ready
      /\ IF Endless(cache, s) THEN cache' = Hung(cache) /\ UNCHANGED op
         ELSE IF e # NIL THEN cache' = Touch(cache, e) /\ UNCHANGED op
         ELSE IF InMemory(s) THEN cache' = FilledRead(n, Head(n.lru), s) /\ UNCHANGED op
         ELSE cache' = n /\ op' = [kind |-> "read", entry |-> Head(n.lru), sector |-> s]
      /\ UNCHANGED <<disk, torn>>

(* By now a program may have evicted the entry and have made it another    *)
(* sector's.                                                               *)
ReadDone ==
  /\ Done("read")
  /\ cache' = FilledRead(cache, op.entry, op.sector)
  /\ op' = Idle
  /\ UNCHANGED <<disk, torn>>

(* blkcache_read_sectors() of n > 1 sectors.  The check that all of them   *)
(* are cached stops at the first that is not.                              *)
AnyEndless(c, s, n) ==
  \E k \in 1 .. n : Endless(c, Span(s, n)[k]) /\ AllCached(c, s, k - 1)

read_sectors(s, n) ==
  /\ Ready
  /\ IF AnyEndless(cache, s, n) THEN cache' = Hung(cache) /\ UNCHANGED op
     ELSE IF AllCached(cache, s, n) THEN cache' = TouchAll(cache, s, n) /\ UNCHANGED op
     ELSE IF ~InMemory(s)
     THEN op' = [kind |-> "reads", sector |-> s, count |-> n] /\ UNCHANGED cache
     ELSE /\ cache' = IF Readable(s, n) THEN StoreAll(cache, s, n) ELSE cache
          /\ UNCHANGED op
  /\ UNCHANGED <<disk, torn>>

ReadsDone ==
  /\ Done("reads")
  /\ cache' = IF Readable(op.sector, op.count) THEN StoreAll(cache, op.sector, op.count)
              ELSE cache
  /\ op' = Idle
  /\ UNCHANGED <<disk, torn>>

(* blkcache_write_sector(): to a drive in memory it fails at once. *)
write_sector(s, v) ==
  /\ Ready /\ ~InMemory(s)
  /\ op' = [kind |-> "write", sector |-> s, data |-> v]
  /\ UNCHANGED <<cache, disk, torn>>

WriteDone_NoUpdate ==
  /\ Done("write")
  /\ disk' = [disk EXCEPT ![op.sector] = op.data]
  /\ torn' = torn \ {op.sector}
  /\ op' = Idle
  /\ UNCHANGED cache

WriteDone ==
  /\ Done("write")
  /\ disk' = [disk EXCEPT ![op.sector] = op.data]
  /\ cache' = Store(cache, op.sector, op.data)
  /\ torn' = torn \ {op.sector}
  /\ op' = Idle

(* A write that fails leaves the old or the new contents on the disk. *)
WriteFailed ==
  /\ Done("write")
  /\ disk' \in {disk, [disk EXCEPT ![op.sector] = op.data]}
  /\ torn' = torn \cup {op.sector} /\ Cardinality(torn') <= MaxTorn
  /\ op' = Idle
  /\ UNCHANGED cache

(* What a program's call leaves behind: an entry that it never filled, or  *)
(* one that the worker's read will fill with another sector's contents.    *)
Left(unfilled) ==
  unfilled \cup
  (IF op.kind = "read" THEN {cache'.entries[op.entry].sector} \ {op.sector} ELSE {})

(* A program's read while the worker waits: what needs the disk is         *)
(* abandoned where it would wait for the channel.                          *)
program_read(s) ==
  LET e == cache_lookup(cache, s)
      n == cache_alloc(cache, s)
  IN  /\ Programs /\ Waiting
      /\ cache' = IF Endless(cache, s) THEN Hung(cache)
                  ELSE IF e # NIL THEN Touch(cache, e)
                  ELSE IF InMemory(s) THEN FilledRead(n, Head(n.lru), s)
                  ELSE n
      /\ torn' = torn \cup Left(IF e = NIL /\ ~InMemory(s) THEN {s} ELSE {})
      /\ Cardinality(torn') <= MaxTorn
      /\ UNCHANGED <<disk, op>>

(* Nothing of a batched read happens before its transfer, nor of a write.  *)
program_read_sectors(s, n) ==
  /\ Programs /\ Waiting
  /\ cache' = IF AnyEndless(cache, s, n) THEN Hung(cache)
              ELSE IF AllCached(cache, s, n) THEN TouchAll(cache, s, n)
              ELSE IF InMemory(s) /\ Readable(s, n) THEN StoreAll(cache, s, n)
              ELSE cache
  /\ torn' = torn \cup Left({}) /\ Cardinality(torn') <= MaxTorn
  /\ UNCHANGED <<disk, op>>

(* blkcache_invalidate(), entry by entry. *)
blkcache_invalidate(c, d) ==
  LET done[e \in 0 .. MaxEntries] ==
        IF e = 0 THEN c
        ELSE LET r == done[e - 1]
             IN  IF e <= Len(c.lru) /\ r.entries[e].valid /\ r.entries[e].sector[1] = d
                 THEN [hash_remove(r, e) EXCEPT !.entries[e].valid = FALSE]
                 ELSE r
  IN  done[MaxEntries]

(* blkcache_register_memdrive(): another image behind the drive. *)
register_memdrive(d, image) ==
  /\ Ready /\ d \in MemDrives
  /\ disk' = [s \in Sector |-> IF s[1] = d THEN image[s[2]] ELSE disk[s]]
  /\ cache' = blkcache_invalidate(cache, d)
  /\ UNCHANGED <<op, torn>>

Next ==
  \/ \E s \in Sector : read_sector(s) \/ program_read(s)
  \/ \E s \in Sector, n \in 2 .. MaxCount :
       Fits(s, n) /\ (read_sectors(s, n) \/ program_read_sectors(s, n))
  \/ \E s \in Sector, v \in Data : write_sector(s, v)
  \/ ReadDone \/ ReadsDone \/ WriteDone \/ WriteFailed
  \/ \E d \in MemDrives, image \in [0 .. Sectors - 1 -> Data] : register_memdrive(d, image)

Spec == Init /\ [][Next]_vars
-----------------------------------------------------------------------------
Valid(e) == cache.entries[e].valid
Filling(e) == op.kind = "read" /\ op.entry = e

Holds(e) == cache.entries[e].data = disk[cache.entries[e].sector]

(* What a hit returns is what the disk holds: after any sequence of reads, *)
(* batched reads, writes, evictions and replaced images, also with         *)
(* programs' calls in between, every valid entry but the one being filled  *)
(* holds its sector, unless a write of it failed or a program has left it  *)
(* unfilled.                                                               *)
(* blkcache_flush() relies on it: "write-through cache: nothing to flush   *)
(* for data".                                                              *)
CacheCoherent ==
  \A e \in Entry :
    Valid(e) /\ ~Filling(e) /\ cache.entries[e].sector \notin torn => Holds(e)

(* Every valid entry is found under its sector, no sector has two entries, *)
(* and the entries in use are the ones in the LRU list, each once.         *)
CacheIntact ==
  /\ \A e \in Entry : Valid(e) => cache_lookup(cache, cache.entries[e].sector) = e
  /\ {cache.lru[k] : k \in DOMAIN cache.lru} = 1 .. Len(cache.lru)

(* Every hash chain ends: no lookup, eviction or invalidation loops for    *)
(* ever, and an entry is in the chain of one bucket only.                  *)
ChainsEnd ==
  /\ ~cache.hung
  /\ \A b \in Bucket : ~Looped(cache, b)
  /\ \A a, b \in Bucket : a # b =>
       Range(Chain(cache, a)) \cap Range(Chain(cache, b)) \subseteq {NIL}
=============================================================================
