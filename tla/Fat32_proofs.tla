---------------------------- MODULE Fat32_proofs ----------------------------
(***************************************************************************)
(* The FAT32 file system for every number of clusters, slots, names, open  *)
(* files and sizes, when the power does not fail while the FAT cache is    *)
(* dirty: the chains of all files and directories are whole and disjoint.  *)
(***************************************************************************)
EXTENDS Fat32, FiniteSetTheorems, SequenceTheorems, WellFoundedInduction, TLAPS

LEMMA LeastOf ==
  ASSUME NEW S, S \subseteq Nat, S # {}
  PROVE  \E n \in S : \A m \in S : n <= m
<1>1. PICK x \in S : \A y \in S : ~(<<y, x>> \in OpToRel(<, Nat))
  BY NatLessThanWellFounded, WFMin
<1>2. \A y \in S : x <= y
  <2> TAKE y \in S
  <2>1. ~(<<y, x>> \in OpToRel(<, Nat)) /\ <<y, x>> \in Nat \X Nat
    BY <1>1
  <2>2. ~(y < x)
    BY <2>1, ZenonT(20) DEF OpToRel
  <2> QED
    BY <2>2
<1> QED
  BY <1>2

LEMMA MinIs ==
  ASSUME NEW S, S \subseteq Nat, S # {}
  PROVE  Min(S) \in S /\ \A m \in S : Min(S) <= m
<1>1. \E n \in S : \A m \in S : n =< m
  BY LeastOf
<1> QED
  BY <1>1 DEF Min

LEMMA UpTo ==
  ASSUME NEW N \in Nat, NEW B, 0 \in B, \A n \in 1 .. N : n - 1 \in B => n \in B
  PROVE  0 .. N \subseteq B
<1> DEFINE Bad == (0 .. N) \ B
<1>1. SUFFICES ASSUME Bad # {} PROVE FALSE
  OBVIOUS
<1>2. PICK n \in Bad : \A k \in Bad : n <= k
  <2>1. Bad \subseteq Nat
    OBVIOUS
  <2> QED
    BY <1>1, <2>1, LeastOf
<1>3. n # 0 /\ n \in 1 .. N /\ n - 1 \in 0 .. N
  BY <1>2
<1>4. n - 1 \in B
  BY <1>2, <1>3
<1> QED
  BY <1>2, <1>3, <1>4

LEMMA ClusterNat == Cluster \subseteq Nat /\ 0 \notin Cluster /\ END \notin Cluster
                    /\ END # 0 /\ root_cluster \in Cluster /\ Clusters \in Nat \ {0}
                    /\ \A c \in Cluster : c >= 2 /\ c <= Clusters + 1
BY Fat32Assumption DEF Cluster, END, root_cluster
-----------------------------------------------------------------------------
(* Chains.                                                                 *)

(* Every cluster is linked to one that was allocated later.                *)
LinksUp(f) == \A c \in Cluster : f[c] \in Cluster => c < f[c]

(* A walk along the links of f from cluster c on.                          *)
Walk(A, f, c) ==
  /\ A \in Seq(Cluster) /\ A # <<>> /\ A[1] = c
  /\ \A i \in 1 .. Len(A) - 1 : A[i + 1] = f[A[i]]

(* Its end is the end of a chain.                                          *)
ChainOf(A, f, c) == Walk(A, f, c) /\ f[A[Len(A)]] \notin Cluster

LEMMA WalkFields ==
  ASSUME NEW A, NEW f, NEW c, Walk(A, f, c)
  PROVE  /\ Len(A) \in Nat \ {0} /\ \A i \in 1 .. Len(A) : A[i] \in Cluster
         /\ A[Len(A)] \in Cluster /\ DOMAIN A = 1 .. Len(A)
<1>1. A \in Seq(Cluster) /\ A # <<>>
  BY DEF Walk
<1>2. Len(A) \in Nat \ {0}
  BY <1>1, EmptySeq
<1>3. \A i \in 1 .. Len(A) : A[i] \in Cluster
  BY <1>1, ElementOfSeq
<1> QED
  BY <1>1, <1>2, <1>3, LenProperties

LEMMA WalkOne ==
  ASSUME NEW f, NEW c \in Cluster
  PROVE  Walk(<<c>>, f, c) /\ Len(<<c>>) = 1
BY DEF Walk

LEMMA WalkAppend ==
  ASSUME NEW A, NEW f, NEW c, Walk(A, f, c), f[A[Len(A)]] \in Cluster
  PROVE  /\ Walk(Append(A, f[A[Len(A)]]), f, c)
         /\ Len(Append(A, f[A[Len(A)]])) = Len(A) + 1
<1> DEFINE x == f[A[Len(A)]]
           B == Append(A, x)
<1>1. A \in Seq(Cluster) /\ Len(A) \in Nat \ {0} /\ A[1] = c
  BY WalkFields DEF Walk
<1>2. B \in Seq(Cluster) /\ Len(B) = Len(A) + 1 /\ B # <<>> /\ B[Len(A) + 1] = x
      /\ \A i \in 1 .. Len(A) : B[i] = A[i]
  BY <1>1, AppendProperties
<1>3. B[1] = c
  BY <1>1, <1>2
<1>4. ASSUME NEW i \in 1 .. Len(B) - 1 PROVE B[i + 1] = f[B[i]]
  <2>1. CASE i = Len(A)
    BY <1>1, <1>2, <2>1
  <2>2. CASE i # Len(A)
    <3>1. i \in 1 .. Len(A) - 1 /\ i \in 1 .. Len(A) /\ i + 1 \in 1 .. Len(A)
      BY <1>1, <1>2, <2>2
    <3>2. A[i + 1] = f[A[i]]
      BY <3>1 DEF Walk
    <3> QED
      BY <1>2, <3>1, <3>2
  <2> QED
    BY <2>1, <2>2
<1> HIDE DEF x, B
<1>5. Walk(B, f, c) /\ Len(B) = Len(A) + 1
  BY <1>2, <1>3, <1>4 DEF Walk
<1> QED
  BY <1>5 DEF B, x

(* A walk climbs.                                                          *)
LEMMA WalkClimbs ==
  ASSUME NEW A, NEW f, NEW c, Walk(A, f, c), LinksUp(f)
  PROVE  /\ \A i \in 1 .. Len(A) : A[i] >= i + 1
         /\ \A i, j \in 1 .. Len(A) : i < j => A[i] < A[j]
         /\ Len(A) <= Clusters
<1>1. Len(A) \in Nat \ {0} /\ A[1] = c /\ \A i \in 1 .. Len(A) : A[i] \in Cluster
  BY WalkFields DEF Walk
<1>2. \A i \in 1 .. Len(A) - 1 : A[i] < A[i + 1]
  <2> TAKE i \in 1 .. Len(A) - 1
  <2>1. A[i + 1] = f[A[i]] /\ A[i] \in Cluster /\ A[i + 1] \in Cluster
    BY <1>1 DEF Walk
  <2> QED
    BY <2>1 DEF LinksUp
<1>3. \A i \in 1 .. Len(A) : A[i] \in Nat /\ A[i] >= 2 /\ A[i] <= Clusters + 1
  BY <1>1, ClusterNat
<1>4. PICK n \in Nat : n = Len(A) - 1
  BY <1>1
<1>5. ASSUME NEW i \in 1 .. Len(A) PROVE \A j \in 1 .. Len(A) : i < j => A[i] + (j - i) <= A[j]
  <2> DEFINE B == {k \in 0 .. n : i + k <= Len(A) => A[i] + k <= A[i + k]}
  <2>1. 0 \in B
    BY <1>3, <1>4
  <2>2. ASSUME NEW k \in 1 .. n, k - 1 \in B PROVE k \in B
    <3> SUFFICES ASSUME i + k <= Len(A) PROVE A[i] + k <= A[i + k]
      BY <1>4
    <3>1. A[i] + (k - 1) <= A[i + (k - 1)]
      BY <2>2
    <3>2. i + (k - 1) \in 1 .. Len(A) - 1 /\ (i + (k - 1)) + 1 = i + k /\ i + k \in 1 .. Len(A)
      BY <1>1, <1>4
    <3>3. A[i + (k - 1)] < A[i + k]
      BY <1>2, <3>2
    <3>4. A[i] \in Nat /\ A[i + k] \in Nat /\ A[i + (k - 1)] \in Nat
      BY <1>1, <1>3, <3>2
    <3> QED
      BY <3>1, <3>3, <3>4
  <2> HIDE DEF B
  <2>3. 0 .. n \subseteq B
    BY <2>1, <2>2, UpTo
  <2> TAKE j \in 1 .. Len(A)
  <2> HAVE i < j
  <2>4. j - i \in 0 .. n /\ i + (j - i) = j
    BY <1>1, <1>4
  <2> QED
    BY <2>3, <2>4 DEF B
<1>6. ASSUME NEW i \in 1 .. Len(A) PROVE A[i] >= i + 1
  <2>1. CASE i = 1
    BY <1>3, <2>1
  <2>2. CASE i # 1
    <3>1. 1 \in 1 .. Len(A) /\ 1 < i
      BY <1>1, <2>2
    <3>2. A[1] + (i - 1) <= A[i]
      BY <1>5, <3>1
    <3> QED
      BY <1>3, <3>1, <3>2
  <2> QED
    BY <2>1, <2>2
<1>7. ASSUME NEW i \in 1 .. Len(A), NEW j \in 1 .. Len(A), i < j PROVE A[i] < A[j]
  <2>1. A[i] + (j - i) <= A[j] /\ A[i] \in Nat /\ A[j] \in Nat
    BY <1>3, <1>5, <1>7
  <2> QED
    BY <1>7, <2>1
<1>8. Len(A) <= Clusters
  <2>1. Len(A) \in 1 .. Len(A)
    BY <1>1
  <2> QED
    BY <1>3, <1>6, <2>1, ClusterNat
<1> QED
  BY <1>6, <1>7, <1>8

(* What a loop computes from x with its N steps g.                         *)
Iteration(f, S, x, g, N) ==
  f \in [0 .. N -> S] /\ f[0] = x /\ \A n \in 1 .. N : f[n] = g[<<n, f[n - 1]>>]

LEMMA Iterates ==
  ASSUME NEW S, NEW x \in S, NEW N \in Nat, NEW g \in [(1 .. N) \X S -> S]
  PROVE  \E f : Iteration(f, S, x, g, N)
<1> USE DEF Iteration
<1> DEFINE Is(f, k) == Iteration(f, S, x, g, k)
           B == {k \in 0 .. N : \E f : Is(f, k)}
<1>1. 0 \in B
  <2>1. PICK f : f = [n \in 0 .. 0 |-> x]
    OBVIOUS
  <2>2. Is(f, 0)
    BY <2>1
  <2> QED
    BY <2>2
<1>2. ASSUME NEW k \in 1 .. N, k - 1 \in B PROVE k \in B
  <2>1. k - 1 \in 0 .. N
    OBVIOUS
  <2>2. PICK f : Is(f, k - 1)
    BY <1>2
  <2> DEFINE h == [n \in 0 .. k |-> IF n = k THEN g[<<k, f[k - 1]>>] ELSE f[n]]
  <2>3. h \in [0 .. k -> S]
    <3>1. f[k - 1] \in S
      BY <2>1, <2>2
    <3>2. g[<<k, f[k - 1]>>] \in S
      BY <3>1
    <3> QED
      BY <2>2, <3>2
  <2>4. h[0] = x
    BY <2>1, <2>2
  <2>5. ASSUME NEW n \in 1 .. k PROVE h[n] = g[<<n, h[n - 1]>>]
    <3>1. CASE n = k
      <4>1. k - 1 \in 0 .. k /\ k - 1 # k /\ k \in 0 .. k
        OBVIOUS
      <4>2. h[k - 1] = f[k - 1] /\ h[k] = g[<<k, f[k - 1]>>]
        BY <4>1
      <4> QED
        BY <3>1, <4>2
    <3>2. CASE n < k
      <4>1. n \in 1 .. k - 1 /\ n - 1 \in 0 .. k /\ n \in 0 .. k /\ n # k /\ n - 1 # k
        BY <2>1, <3>2
      <4>2. h[n] = f[n] /\ h[n - 1] = f[n - 1]
        BY <4>1, <2>1
      <4> QED
        BY <2>2, <4>1, <4>2
    <3> QED
      BY <3>1, <3>2, <2>1
  <2> HIDE DEF h
  <2>6. Is(h, k)
    BY <2>3, <2>4, <2>5
  <2> QED
    BY <2>6
<1> HIDE DEF B
<1>3. 0 .. N \subseteq B
  BY <1>1, <1>2, UpTo
<1> QED
  BY <1>3 DEF B

(* What fat32_resolve_chain() computes from cluster c on is a chain.       *)
LEMMA ChainIs ==
  ASSUME NEW v, LinksUp(v.fat), NEW c \in Cluster
  PROVE  ChainOf(Chain(v, c), v.fat, c)
<1> DEFINE fat == v.fat
           S == {A \in Seq(Cluster) : Walk(A, fat, c)}
           Far(A) == LET next == fat[A[Len(A)]]
                     IN  IF next \in Cluster THEN Append(A, next) ELSE A
           Step(h) == [n \in 1 .. Clusters |-> IF n = 1 THEN <<c>> ELSE Far(h[n - 1])]
           N == Clusters - 1
           g == [p \in (1 .. N) \X S |-> Far(p[2])]
<1>1. Clusters \in Nat \ {0} /\ N \in Nat
  BY ClusterNat
<1>2. \A A \in S : Far(A) \in S
  <2> TAKE A \in S
  <2>1. CASE fat[A[Len(A)]] \in Cluster
    <3>1. PICK D : D = Append(A, fat[A[Len(A)]])
      OBVIOUS
    <3>2. Walk(D, fat, c)
      BY <2>1, <3>1, WalkAppend
    <3> QED
      BY <2>1, <3>1, <3>2 DEF Walk
  <2>2. CASE fat[A[Len(A)]] \notin Cluster
    BY <2>2
  <2> QED
    BY <2>1, <2>2
<1>3. <<c>> \in S
  BY WalkOne
<1>4. g \in [(1 .. N) \X S -> S]
  BY <1>2
<1> HIDE DEF S, g, Far, N
<1>5. PICK f : Iteration(f, S, <<c>>, g, N)
  BY <1>1, <1>3, <1>4, Iterates
<1>6. \A n \in 1 .. N : f[n] = Far(f[n - 1]) /\ f[n - 1] \in S
  <2> TAKE n \in 1 .. N
  <2>1. f[n] = g[<<n, f[n - 1]>>] /\ f[n - 1] \in S
    BY <1>1, <1>5 DEF Iteration
  <2> QED
    BY <2>1 DEF g
<1>7. PICK h : h = [n \in 1 .. Clusters |-> f[n - 1]]
  OBVIOUS
<1>8. h = Step(h)
  <2>1. \A n \in 1 .. Clusters : h[n] = Step(h)[n]
    <3> TAKE n \in 1 .. Clusters
    <3>1. CASE n = 1
      BY <1>5, <1>7, <3>1 DEF Iteration
    <3>2. CASE n # 1
      <4>1. n - 1 \in 1 .. N /\ n - 1 \in 1 .. Clusters /\ (n - 1) - 1 \in Int
        BY <1>1, <3>2 DEF N
      <4>2. h[n] = f[n - 1] /\ h[n - 1] = f[(n - 1) - 1]
        BY <1>7, <4>1
      <4> QED
        BY <1>6, <3>2, <4>1, <4>2
    <3> QED
      BY <3>1, <3>2
  <2> QED
    BY <1>7, <2>1
<1>9. PICK walk : walk = (CHOOSE w : w = Step(w)) /\ Chain(v, c) = walk[Clusters]
  BY DEF Chain, Far
<1>10. walk = Step(walk)
  BY <1>8, <1>9
<1> DEFINE Ok(n) == /\ walk[n] \in S
                    /\ Len(walk[n]) = n \/ fat[walk[n][Len(walk[n])]] \notin Cluster
           B == {n \in 0 .. N : Ok(n + 1)}
<1>11. 0 \in B
  <2>1. walk[1] = <<c>>
    BY <1>1, <1>10
  <2> QED
    BY <1>1, <1>3, <2>1, WalkOne
<1>12. ASSUME NEW n \in 1 .. N, n - 1 \in B PROVE n \in B
  <2>1. n + 1 \in 1 .. Clusters /\ n + 1 # 1 /\ (n - 1) + 1 = n /\ (n + 1) - 1 = n /\ n \in 0 .. N
    BY <1>1 DEF N
  <2>2. walk[n + 1] = Far(walk[n])
    BY <1>10, <2>1
  <2>3. Ok(n)
    BY <1>12, <2>1
  <2>4. PICK A : A = walk[n]
    OBVIOUS
  <2>5. A \in S /\ Far(A) \in S /\ Walk(A, fat, c)
    BY <1>2, <2>3, <2>4 DEF S
  <2>6. CASE fat[A[Len(A)]] \in Cluster
    <3>1. Len(A) = n
      BY <2>3, <2>4, <2>6
    <3>2. Far(A) = Append(A, fat[A[Len(A)]])
      BY <2>6 DEF Far
    <3>3. Len(Far(A)) = n + 1
      BY <2>5, <2>6, <3>1, <3>2, WalkAppend
    <3> QED
      BY <2>1, <2>2, <2>4, <2>5, <3>3
  <2>7. CASE fat[A[Len(A)]] \notin Cluster
    <3>1. Far(A) = A
      BY <2>7 DEF Far
    <3> QED
      BY <2>1, <2>2, <2>4, <2>5, <2>7, <3>1
  <2> QED
    BY <2>6, <2>7
<1> HIDE DEF B
<1>13. N \in B
  BY <1>1, <1>11, <1>12, UpTo
<1>14. PICK A : A = walk[Clusters] /\ A = Chain(v, c)
  BY <1>9
<1>15. /\ A \in S /\ Walk(A, fat, c)
       /\ Len(A) = Clusters \/ fat[A[Len(A)]] \notin Cluster
  <2>1. N + 1 = Clusters
    BY <1>1 DEF N
  <2>2. Ok(Clusters)
    BY <1>13, <2>1 DEF B
  <2> QED
    BY <1>14, <2>2 DEF S
<1>16. fat[A[Len(A)]] \notin Cluster
  <2> SUFFICES ASSUME fat[A[Len(A)]] \in Cluster PROVE FALSE
    OBVIOUS
  <2>1. PICK D : D = Append(A, fat[A[Len(A)]])
    OBVIOUS
  <2>2. Walk(D, fat, c) /\ Len(D) = Len(A) + 1
    BY <1>15, <2>1, WalkAppend
  <2>3. Len(D) <= Clusters
    BY <2>2, WalkClimbs
  <2> QED
    BY <1>1, <1>15, <2>2, <2>3
<1> QED
  BY <1>14, <1>15, <1>16 DEF ChainOf

LEMMA NoChain ==
  ASSUME NEW v, NEW c, c \notin Cluster
  PROVE  Chain(v, c) = <<>>
BY DEF Chain

(* There is one chain from a cluster on, which depends on its clusters     *)
(* only.                                                                   *)
LEMMA ChainUnique ==
  ASSUME NEW A, NEW B, NEW f, NEW g, NEW c, ChainOf(A, f, c), ChainOf(B, g, c),
         \A i \in 1 .. Len(A) : f[A[i]] = g[A[i]]
  PROVE  A = B
<1> USE DEF ChainOf
<1>1. /\ Len(A) \in Nat \ {0} /\ \A i \in 1 .. Len(A) : A[i] \in Cluster
      /\ Len(B) \in Nat \ {0} /\ \A i \in 1 .. Len(B) : B[i] \in Cluster
  BY WalkFields
<1> DEFINE M == {k \in 0 .. Len(A) : k + 1 <= Len(A) /\ k + 1 <= Len(B) => A[k + 1] = B[k + 1]}
<1>2. 0 \in M
  BY <1>1 DEF Walk
<1>3. ASSUME NEW k \in 1 .. Len(A), k - 1 \in M PROVE k \in M
  <2> SUFFICES ASSUME k + 1 <= Len(A), k + 1 <= Len(B) PROVE A[k + 1] = B[k + 1]
    BY <1>1
  <2>1. k \in 1 .. Len(A) - 1 /\ k \in 1 .. Len(B) - 1 /\ (k - 1) + 1 = k /\ k \in 1 .. Len(A)
    BY <1>1
  <2>2. A[k] = B[k]
    BY <1>1, <1>3, <2>1
  <2>3. A[k + 1] = f[A[k]] /\ B[k + 1] = g[B[k]]
    BY <2>1 DEF Walk
  <2> QED
    BY <2>1, <2>2, <2>3
<1> HIDE DEF M
<1>4. 0 .. Len(A) \subseteq M
  BY <1>1, <1>2, <1>3, UpTo
<1>5. \A i \in 1 .. Len(A) : i <= Len(B) => A[i] = B[i]
  <2> TAKE i \in 1 .. Len(A)
  <2>1. i - 1 \in 0 .. Len(A) /\ (i - 1) + 1 = i
    BY <1>1
  <2>2. i - 1 \in M
    BY <1>4, <2>1
  <2>3. i <= Len(A) /\ i <= Len(B) => A[i] = B[i]
    BY <2>1, <2>2 DEF M
  <2> QED
    BY <1>1, <2>3
<1>6. Len(A) = Len(B)
  <2>1. CASE Len(A) < Len(B)
    <3>1. Len(A) \in 1 .. Len(A) /\ Len(A) \in 1 .. Len(B) - 1 /\ Len(A) + 1 \in 1 .. Len(B)
      BY <1>1, <2>1
    <3>2. A[Len(A)] = B[Len(A)] /\ B[Len(A) + 1] = g[B[Len(A)]] /\ B[Len(A) + 1] \in Cluster
      BY <1>1, <1>5, <2>1, <3>1 DEF Walk
    <3> QED
      BY <3>1, <3>2
  <2>2. CASE Len(B) < Len(A)
    <3>1. Len(B) \in 1 .. Len(A) - 1 /\ Len(B) \in 1 .. Len(A) /\ Len(B) + 1 \in 1 .. Len(A)
      BY <1>1, <2>2
    <3>2. A[Len(B)] = B[Len(B)] /\ A[Len(B) + 1] = f[A[Len(B)]] /\ A[Len(B) + 1] \in Cluster
      BY <1>1, <1>5, <2>2, <3>1 DEF Walk
    <3> QED
      BY <3>1, <3>2
  <2> QED
    BY <1>1, <2>1, <2>2
<1> QED
  BY <1>1, <1>5, <1>6, SeqEqual DEF Walk
-----------------------------------------------------------------------------
(* The FAT.                                                                *)

(* Links climb to clusters in use, no two to the same; what was never used *)
(* is behind what was.                                                     *)
FatOK(f) ==
  /\ f \in [Cluster -> Cluster \cup {0, END}] /\ LinksUp(f)
  /\ \A c \in Cluster : f[c] \in Cluster => f[f[c]] # 0
  /\ \A c, d \in Cluster : f[c] = f[d] /\ f[c] \in Cluster => c = d
  /\ \A c, d \in Cluster : c < d /\ f[d] # 0 => f[c] # 0

(* A cluster where a chain starts.                                         *)
IsStart(f, c) == c \in Cluster /\ f[c] # 0 /\ \A d \in Cluster : f[d] # c

LEMMA ChainUsed ==
  ASSUME NEW f, FatOK(f), NEW c, f[c] # 0, NEW A, ChainOf(A, f, c)
  PROVE  /\ \A i \in 1 .. Len(A) : f[A[i]] # 0
         /\ f[A[Len(A)]] = END
<1>1. Walk(A, f, c)
  BY DEF ChainOf
<1>2. Len(A) \in Nat \ {0} /\ \A i \in 1 .. Len(A) : A[i] \in Cluster
  BY <1>1, WalkFields
<1>3. ASSUME NEW i \in 1 .. Len(A) PROVE f[A[i]] # 0
  <2>1. CASE i = 1
    BY <1>1, <2>1 DEF Walk
  <2>2. CASE i # 1
    <3>1. i - 1 \in 1 .. Len(A) - 1 /\ i - 1 \in 1 .. Len(A) /\ (i - 1) + 1 = i
      BY <1>2, <2>2
    <3>2. A[(i - 1) + 1] = f[A[i - 1]]
      BY <1>1, <3>1 DEF Walk
    <3>3. A[i] = f[A[i - 1]] /\ A[i - 1] \in Cluster /\ A[i] \in Cluster
      BY <1>2, <3>1, <3>2
    <3> QED
      BY <3>3 DEF FatOK
  <2> QED
    BY <2>1, <2>2
<1>4. f[A[Len(A)]] = END
  <2>1. Len(A) \in 1 .. Len(A) /\ A[Len(A)] \in Cluster
    BY <1>2
  <2>2. f[A[Len(A)]] \in Cluster \cup {0, END} /\ f[A[Len(A)]] # 0
    BY <1>3, <2>1 DEF FatOK
  <2> QED
    BY <2>2 DEF ChainOf
<1> QED
  BY <1>3, <1>4

(* Chains from two starts have no cluster in common.                       *)
LEMMA ChainsApart ==
  ASSUME NEW f, FatOK(f), NEW a, NEW b, IsStart(f, a), IsStart(f, b), a # b,
         NEW A, NEW B, ChainOf(A, f, a), ChainOf(B, f, b)
  PROVE  \A i \in 1 .. Len(A), j \in 1 .. Len(B) : A[i] # B[j]
<1>1. Walk(A, f, a) /\ Walk(B, f, b)
  BY DEF ChainOf
<1>2. /\ Len(A) \in Nat \ {0} /\ \A i \in 1 .. Len(A) : A[i] \in Cluster
      /\ Len(B) \in Nat \ {0} /\ \A i \in 1 .. Len(B) : B[i] \in Cluster
  BY <1>1, WalkFields
<1>3. \A i \in 1 .. Len(A) : i # 1 => i - 1 \in 1 .. Len(A) /\ A[i] = f[A[i - 1]]
  <2> TAKE i \in 1 .. Len(A)
  <2> HAVE i # 1
  <2>1. i - 1 \in 1 .. Len(A) - 1 /\ (i - 1) + 1 = i /\ i - 1 \in 1 .. Len(A)
    BY <1>2
  <2>2. A[(i - 1) + 1] = f[A[i - 1]]
    BY <1>1, <2>1 DEF Walk
  <2> QED
    BY <2>1, <2>2
<1>4. \A i \in 1 .. Len(B) : i # 1 => i - 1 \in 1 .. Len(B) /\ B[i] = f[B[i - 1]]
  <2> TAKE i \in 1 .. Len(B)
  <2> HAVE i # 1
  <2>1. i - 1 \in 1 .. Len(B) - 1 /\ (i - 1) + 1 = i /\ i - 1 \in 1 .. Len(B)
    BY <1>2
  <2>2. B[(i - 1) + 1] = f[B[i - 1]]
    BY <1>1, <2>1 DEF Walk
  <2> QED
    BY <2>1, <2>2
<1> DEFINE M == {i \in 1 .. Len(A) : \E j \in 1 .. Len(B) : A[i] = B[j]}
<1>5. SUFFICES ASSUME M # {} PROVE FALSE
  OBVIOUS
<1>6. PICK i \in M : \A k \in M : i <= k
  <2>1. M \subseteq Nat
    BY <1>2
  <2> QED
    BY <1>5, <2>1, LeastOf
<1>7. PICK j \in 1 .. Len(B) : A[i] = B[j]
  BY <1>6
<1>8. i \in 1 .. Len(A) /\ A[1] = a /\ B[1] = b
  BY <1>1, <1>6 DEF Walk
<1>9. i # 1
  <2> SUFFICES ASSUME i = 1 PROVE FALSE
    OBVIOUS
  <2>1. B[j] = a /\ j # 1
    BY <1>7, <1>8
  <2>2. f[B[j - 1]] = a /\ B[j - 1] \in Cluster
    BY <1>2, <1>4, <2>1
  <2> QED
    BY <2>2 DEF IsStart
<1>10. j # 1
  <2> SUFFICES ASSUME j = 1 PROVE FALSE
    OBVIOUS
  <2>1. f[A[i - 1]] = b /\ A[i - 1] \in Cluster
    BY <1>2, <1>3, <1>7, <1>8, <1>9
  <2> QED
    BY <2>1 DEF IsStart
<1>11. i - 1 \in 1 .. Len(A) /\ A[i] = f[A[i - 1]] /\ j - 1 \in 1 .. Len(B) /\ B[j] = f[B[j - 1]]
  BY <1>3, <1>4, <1>8, <1>9, <1>10
<1>12. A[i - 1] = B[j - 1]
  <2>1. A[i - 1] \in Cluster /\ B[j - 1] \in Cluster /\ A[i] \in Cluster
    BY <1>2, <1>8, <1>11
  <2>2. f[A[i - 1]] = f[B[j - 1]] /\ f[A[i - 1]] \in Cluster
    BY <1>7, <1>11, <2>1
  <2> QED
    BY <2>1, <2>2 DEF FatOK
<1>13. i - 1 \in M /\ i \in Nat
  BY <1>2, <1>8, <1>11, <1>12
<1> HIDE DEF M
<1>14. i <= i - 1
  BY <1>6, <1>13
<1> QED
  BY <1>13, <1>14

FreeIn(f) == {c \in Cluster : f[c] = 0}

(* A free cluster becomes a chain of its own ...                           *)
AllocOp(f, new, g) ==
  FatOK(f) /\ FreeIn(f) # {} /\ new = Min(FreeIn(f)) /\ g = [f EXCEPT ![new] = END]

AllocDone(f, new, g) ==
  /\ new \in Cluster /\ f[new] = 0 /\ \A c \in Cluster : f[c] # new /\ (f[c] # 0 => c < new)
  /\ FatOK(g) /\ IsStart(g, new) /\ \A c : IsStart(f, c) => IsStart(g, c)
  /\ g \in [Cluster -> Cluster \cup {0, END}] /\ g[new] = END
  /\ \A c \in Cluster \ {new} : g[c] = f[c]

LEMMA AllocFat ==
  ASSUME NEW f, NEW new, NEW g, AllocOp(f, new, g)
  PROVE  AllocDone(f, new, g)
<1> USE DEF AllocOp
<1>1. f \in [Cluster -> Cluster \cup {0, END}]
  BY DEF FatOK
<1>2. FreeIn(f) \subseteq Nat
  BY ClusterNat DEF FreeIn
<1>3. new \in FreeIn(f) /\ \A c \in FreeIn(f) : new <= c
  BY <1>2, MinIs
<1>4. new \in Cluster /\ f[new] = 0
  BY <1>3 DEF FreeIn
<1>5. \A c \in Cluster : f[c] # new
  BY <1>4 DEF FatOK
<1>6. \A c \in Cluster : f[c] # 0 => c < new
  <2> TAKE c \in Cluster
  <2> HAVE f[c] # 0
  <2>1. c \in Nat /\ new \in Nat /\ c # new
    BY <1>4, ClusterNat
  <2>2. ~(new < c)
    BY <1>4 DEF FatOK
  <2> QED
    BY <2>1, <2>2
<1>7. g \in [Cluster -> Cluster \cup {0, END}] /\ g[new] = END
      /\ \A c \in Cluster \ {new} : g[c] = f[c]
  BY <1>1, <1>4
<1>8. \A c \in Cluster : g[c] \in Cluster => c # new /\ g[c] = f[c] /\ g[c] # new /\ f[c] \in Cluster
  BY <1>5, <1>7, ClusterNat
<1>9. LinksUp(g)
  BY <1>8 DEF LinksUp, FatOK
<1>10. \A c \in Cluster : g[c] \in Cluster => g[g[c]] # 0
  BY <1>7, <1>8 DEF FatOK
<1>11. \A c, d \in Cluster : g[c] = g[d] /\ g[c] \in Cluster => c = d
  BY <1>8 DEF FatOK
<1>12. ASSUME NEW c \in Cluster, NEW d \in Cluster, c < d, g[d] # 0 PROVE g[c] # 0
  <2>1. CASE c = new
    BY <1>7, <2>1, ClusterNat
  <2>2. CASE c # new /\ d = new
    <3>1. c \in Nat /\ new \in Nat
      BY <1>4, ClusterNat
    <3>2. c \notin FreeIn(f)
      BY <1>3, <1>12, <2>2, <3>1
    <3> QED
      BY <1>7, <2>2, <3>2 DEF FreeIn
  <2>3. CASE c # new /\ d # new
    BY <1>7, <1>12, <2>3 DEF FatOK
  <2> QED
    BY <2>1, <2>2, <2>3
<1>13. FatOK(g)
  BY <1>7, <1>9, <1>10, <1>11, <1>12 DEF FatOK
<1>14. \A c \in Cluster : g[c] # new
  BY <1>7, <1>8, <1>4, ClusterNat
<1>15. IsStart(g, new)
  BY <1>4, <1>7, <1>14, ClusterNat DEF IsStart
<1>16. \A c : IsStart(f, c) => IsStart(g, c)
  BY <1>4, <1>7, ClusterNat DEF IsStart
<1> QED
  BY <1>4, <1>5, <1>6, <1>7, <1>13, <1>15, <1>16 DEF AllocDone

(* ... or the end of a longer one.                                         *)
ExtendOp(f, new, last, g) ==
  /\ FatOK(f) /\ FreeIn(f) # {} /\ new = Min(FreeIn(f)) /\ last \in Cluster /\ f[last] = END
  /\ g = [[f EXCEPT ![new] = END] EXCEPT ![last] = new]

ExtendDone(f, new, last, g) ==
  /\ FatOK(g) /\ \A c : IsStart(f, c) => IsStart(g, c)
  /\ new \in Cluster /\ f[new] = 0 /\ new # last /\ g[last] = new /\ g[new] = END
  /\ \A c \in Cluster \ {new, last} : g[c] = f[c]

LEMMA ExtendFat ==
  ASSUME NEW f, NEW new, NEW last, NEW g, ExtendOp(f, new, last, g)
  PROVE  ExtendDone(f, new, last, g)
<1> USE DEF ExtendOp
<1>1. PICK h : h = [f EXCEPT ![new] = END]
  OBVIOUS
<1>2. /\ new \in Cluster /\ f[new] = 0 /\ \A c \in Cluster : f[c] # new /\ (f[c] # 0 => c < new)
      /\ FatOK(h) /\ IsStart(h, new) /\ \A c : IsStart(f, c) => IsStart(h, c)
      /\ h \in [Cluster -> Cluster \cup {0, END}] /\ h[new] = END
      /\ \A c \in Cluster \ {new} : h[c] = f[c]
  <2>1. AllocOp(f, new, h)
    BY <1>1 DEF AllocOp
  <2>2. AllocDone(f, new, h)
    BY <2>1, AllocFat
  <2> QED
    BY <2>2 DEF AllocDone
<1>3. last # new /\ last < new /\ g = [h EXCEPT ![last] = new] /\ h[last] = END
  BY <1>1, <1>2, ClusterNat
<1>4. /\ g \in [Cluster -> Cluster \cup {0, END}] /\ g[last] = new /\ g[new] = END
      /\ \A c \in Cluster \ {last} : g[c] = h[c]
  BY <1>2, <1>3
<1>5. \A c \in Cluster : h[c] # new
  BY <1>2 DEF IsStart
<1>6. LinksUp(g)
  BY <1>2, <1>3, <1>4 DEF LinksUp, FatOK
<1>7. \A c \in Cluster : (h[c] # 0 => g[c] # 0) /\ (g[c] # 0 => h[c] # 0)
  BY <1>2, <1>3, <1>4, ClusterNat
<1>8. \A c \in Cluster : g[c] \in Cluster => g[g[c]] # 0
  <2> TAKE c \in Cluster
  <2> HAVE g[c] \in Cluster
  <2>1. CASE c = last
    BY <1>4, <2>1, ClusterNat
  <2>2. CASE c # last
    BY <1>2, <1>4, <1>7, <2>2 DEF FatOK
  <2> QED
    BY <2>1, <2>2
<1>9. \A c, d \in Cluster : g[c] = g[d] /\ g[c] \in Cluster => c = d
  <2> TAKE c, d \in Cluster
  <2> HAVE g[c] = g[d] /\ g[c] \in Cluster
  <2>1. CASE c = last \/ d = last
    BY <1>4, <1>5, <2>1
  <2>2. CASE c # last /\ d # last
    BY <1>2, <1>4, <2>2 DEF FatOK
  <2> QED
    BY <2>1, <2>2
<1>10. \A c, d \in Cluster : c < d /\ g[d] # 0 => g[c] # 0
  BY <1>2, <1>7 DEF FatOK
<1>11. FatOK(g)
  BY <1>4, <1>6, <1>8, <1>9, <1>10 DEF FatOK
<1>12. ASSUME NEW c, IsStart(f, c) PROVE IsStart(g, c)
  <2>1. IsStart(h, c) /\ c # new
    BY <1>2, <1>12 DEF IsStart
  <2> QED
    BY <1>4, <1>7, <2>1 DEF IsStart
<1> QED
  BY <1>2, <1>3, <1>4, <1>11, <1>12 DEF ExtendDone

(* The chain that gets the new cluster.                                    *)
LEMMA ExtendedChain ==
  ASSUME NEW f, FatOK(f), FreeIn(f) # {}, NEW new, new = Min(FreeIn(f)),
         NEW c, f[c] # 0, NEW A, ChainOf(A, f, c),
         NEW g, g = [[f EXCEPT ![new] = END] EXCEPT ![A[Len(A)]] = new]
  PROVE  ChainOf(Append(A, new), g, c) /\ Len(Append(A, new)) = Len(A) + 1
<1>1. Walk(A, f, c) /\ f[A[Len(A)]] = END /\ \A i \in 1 .. Len(A) : f[A[i]] # 0
  BY ChainUsed DEF ChainOf
<1>2. PICK last : last = A[Len(A)]
  OBVIOUS
<1>3. last \in Cluster /\ Len(A) \in Nat \ {0} /\ \A i \in 1 .. Len(A) : A[i] \in Cluster
  BY <1>1, <1>2, WalkFields
<1>4. /\ new \in Cluster /\ f[new] = 0 /\ new # last /\ g[last] = new /\ g[new] = END
      /\ \A d \in Cluster \ {new, last} : g[d] = f[d]
  <2>1. ExtendOp(f, new, last, g)
    BY <1>1, <1>2, <1>3 DEF ExtendOp
  <2>2. ExtendDone(f, new, last, g)
    BY <2>1, ExtendFat
  <2> QED
    BY <2>2 DEF ExtendDone
<1>5. \A i \in 1 .. Len(A) - 1 : g[A[i]] = f[A[i]]
  <2> TAKE i \in 1 .. Len(A) - 1
  <2>1. i \in 1 .. Len(A) /\ Len(A) \in 1 .. Len(A) /\ i < Len(A)
    BY <1>3
  <2>2. A[i] < last /\ A[i] \in Cluster
    BY <1>1, <1>2, <1>3, <2>1, WalkClimbs DEF FatOK
  <2>3. A[i] # last /\ A[i] # new
    BY <1>1, <1>3, <1>4, <2>1, <2>2, ClusterNat
  <2> QED
    BY <1>4, <2>2, <2>3
<1>6. Walk(A, g, c)
  BY <1>1, <1>5 DEF Walk
<1>7. Walk(Append(A, new), g, c) /\ Len(Append(A, new)) = Len(A) + 1
  <2>1. g[A[Len(A)]] = new
    BY <1>2, <1>4
  <2> QED
    BY <1>4, <1>6, <2>1, WalkAppend
<1>8. Append(A, new)[Len(A) + 1] = new
  <2>1. A \in Seq(Cluster)
    BY <1>1 DEF Walk
  <2> QED
    BY <1>4, <2>1, AppendProperties
<1> QED
  BY <1>4, <1>7, <1>8, ClusterNat DEF ChainOf
-----------------------------------------------------------------------------
(* Volumes.                                                                *)

FatType   == [Cluster -> Cluster \cup {0, END}]
SlotsType == [Cluster -> [1 .. Slots -> SlotValue]]
CellsType == [Cluster -> [0 .. Cells - 1 -> Val \cup {NIL}]]
VolType   == [fat : FatType, slots : SlotsType, cells : CellsType]
Vol(f, s, l) == [fat |-> f, slots |-> s, cells |-> l]

Where == Cluster \X (1 .. Slots)
At(s, x) == s[x[1]][x[2]]

IsEntry(e) == e.kind \in {"file", "dir"} /\ e.name \in Name

(* Every entry of a file or directory has a chain of its own, which is not *)
(* the root's.                                                             *)
Owned(f, s) ==
  /\ \A x \in Where : IsEntry(At(s, x)) =>
       IsStart(f, At(s, x).cluster) /\ At(s, x).cluster # root_cluster
  /\ \A x, y \in Where :
       IsEntry(At(s, x)) /\ IsEntry(At(s, y)) /\ At(s, x).cluster = At(s, y).cluster => x = y

VolOK(v) ==
  v \in VolType /\ FatOK(v.fat) /\ Owned(v.fat, v.slots) /\ IsStart(v.fat, root_cluster)

(* w may follow v: chains start where they did.                            *)
StartsKept(v, w) == \A c : IsStart(v.fat, c) => IsStart(w.fat, c)

(* No entry has a chain from c on.                                         *)
NoEntry(v, c) == \A x \in Where : IsEntry(At(v.slots, x)) => At(v.slots, x).cluster # c

LEMMA VolFields ==
  ASSUME NEW v \in VolType
  PROVE  /\ v.fat \in FatType /\ v.slots \in SlotsType /\ v.cells \in CellsType
         /\ v = Vol(v.fat, v.slots, v.cells)
BY DEF VolType, Vol

LEMMA VolMake ==
  ASSUME NEW f, NEW s, NEW l
  PROVE  /\ Vol(f, s, l).fat = f /\ Vol(f, s, l).slots = s /\ Vol(f, s, l).cells = l
         /\ f \in FatType /\ s \in SlotsType /\ l \in CellsType => Vol(f, s, l) \in VolType
BY DEF VolType, Vol

LEMMA SlotKinds ==
  /\ Free \in SlotValue /\ Deleted \in SlotValue /\ \A n \in Name : Long(n) \in SlotValue
  /\ ~IsEntry(Free) /\ ~IsEntry(Deleted) /\ \A n : ~IsEntry(Long(n))
  /\ \A e \in SlotValue : e.kind \in {"file", "dir"} =>
       e \in [kind : {"file", "dir"}, name : Name \cup {".", ".."}, cluster : Cluster, size : 0 .. MaxSize]
<1>1. Free \in SlotValue /\ Deleted \in SlotValue /\ \A n \in Name : Long(n) \in SlotValue
  BY DEF SlotValue
<1>2. Free.kind = "end" /\ Deleted.kind = "deleted" /\ \A n : Long(n).kind = "lfn"
  BY DEF Free, Deleted, Long
<1>3. ~IsEntry(Free) /\ ~IsEntry(Deleted) /\ \A n : ~IsEntry(Long(n))
  BY <1>2 DEF IsEntry
<1>4. ASSUME NEW e \in SlotValue, e.kind \in {"file", "dir"}
      PROVE  e \in [kind : {"file", "dir"}, name : Name \cup {".", ".."}, cluster : Cluster, size : 0 .. MaxSize]
  BY <1>2, <1>4 DEF SlotValue
<1> QED
  BY <1>1, <1>3, <1>4

LEMMA EntryKind ==
  ASSUME NEW k \in {"file", "dir"}, NEW n, NEW c \in Cluster
  PROVE  /\ n \in Name \cup {".", ".."} => Entry(k, n, c) \in SlotValue
         /\ n \in Name => IsEntry(Entry(k, n, c))
         /\ n \in {".", ".."} => ~IsEntry(Entry(k, n, c))
         /\ Entry(k, n, c).cluster = c
<1>1. Entry(k, n, c).kind = k /\ Entry(k, n, c).name = n /\ Entry(k, n, c).cluster = c
  BY DEF Entry
<1>2. n \in Name \cup {".", ".."} => Entry(k, n, c) \in SlotValue
  BY Fat32Assumption DEF Entry, SlotValue
<1>3. n \in {".", ".."} => n \notin Name
  BY Fat32Assumption
<1> QED
  BY <1>1, <1>2, <1>3 DEF IsEntry

PutOp(s, e, a, b, z) == s \in SlotsType /\ e \in SlotValue /\ z = [s EXCEPT ![a][b] = e]
PutDone(s, e, a, b, z) ==
  z \in SlotsType /\ \A x \in Where : At(z, x) = IF x = <<a, b>> THEN e ELSE At(s, x)

LEMMA PutSlot ==
  ASSUME NEW s, NEW e, NEW a, NEW b, NEW z, PutOp(s, e, a, b, z)
  PROVE  PutDone(s, e, a, b, z)
<1> USE DEF PutOp
<1>1. z \in SlotsType
  <2>1. \A c \in Cluster : s[c] \in [1 .. Slots -> SlotValue]
    BY DEF SlotsType
  <2>2. [s[a] EXCEPT ![b] = e] \in [1 .. Slots -> SlotValue] \/ a \notin Cluster
    BY <2>1
  <2> QED
    BY <2>2 DEF SlotsType
<1>2. ASSUME NEW x \in Where PROVE At(z, x) = IF x = <<a, b>> THEN e ELSE At(s, x)
  <2>1. PICK c \in Cluster, k \in 1 .. Slots : x = <<c, k>>
    BY DEF Where
  <2>2. s[c] \in [1 .. Slots -> SlotValue] /\ s \in [Cluster -> [1 .. Slots -> SlotValue]]
    BY DEF SlotsType
  <2>3. CASE c = a
    <3>1. z[c] = [s[c] EXCEPT ![b] = e]
      BY <2>2, <2>3
    <3>2. z[c][k] = IF k = b THEN e ELSE s[c][k]
      BY <2>2, <3>1
    <3> QED
      BY <2>1, <2>3, <3>2 DEF At
  <2>4. CASE c # a
    <3>1. z[c] = s[c]
      BY <2>2, <2>4
    <3> QED
      BY <2>1, <2>4, <3>1 DEF At
  <2> QED
    BY <2>3, <2>4
<1> QED
  BY <1>1, <1>2 DEF PutDone

(* Slots change, and no entry is new.                                      *)
LEMMA SlotsChange ==
  ASSUME NEW v, VolOK(v), NEW s \in SlotsType,
         \A x \in Where : IsEntry(At(s, x)) =>
           IsEntry(At(v.slots, x)) /\ At(s, x).cluster = At(v.slots, x).cluster
  PROVE  /\ VolOK(Vol(v.fat, s, v.cells)) /\ StartsKept(v, Vol(v.fat, s, v.cells))
         /\ \A c : NoEntry(v, c) => NoEntry(Vol(v.fat, s, v.cells), c)
<1>1. PICK w : w = Vol(v.fat, s, v.cells)
  OBVIOUS
<1>2. w.fat = v.fat /\ w.slots = s /\ w \in VolType
  BY <1>1, VolFields, VolMake DEF VolOK
<1>3. Owned(w.fat, w.slots)
  BY <1>2 DEF Owned, VolOK
<1>4. \A c : NoEntry(v, c) => NoEntry(w, c)
  BY <1>2 DEF NoEntry
<1> QED
  BY <1>1, <1>2, <1>3, <1>4 DEF VolOK, StartsKept

(* One slot gets a value that is no entry ...                              *)
GoesOp(v, e, a, b, w) ==
  VolOK(v) /\ e \in SlotValue /\ ~IsEntry(e) /\ w = [v EXCEPT !.slots[a][b] = e]
GoesDone(v, w) == VolOK(w) /\ StartsKept(v, w) /\ \A c : NoEntry(v, c) => NoEntry(w, c)

LEMMA SlotGoes ==
  ASSUME NEW v, NEW e, NEW a, NEW b, NEW w, GoesOp(v, e, a, b, w)
  PROVE  GoesDone(v, w)
<1> USE DEF GoesOp
<1>1. PICK s : s = [v.slots EXCEPT ![a][b] = e]
  OBVIOUS
<1>2. v.slots \in SlotsType /\ v = Vol(v.fat, v.slots, v.cells)
  BY VolFields DEF VolOK
<1>3. w = Vol(v.fat, s, v.cells)
  BY <1>1, <1>2 DEF Vol
<1>4. s \in SlotsType /\ \A x \in Where : At(s, x) = IF x = <<a, b>> THEN e ELSE At(v.slots, x)
  <2>1. PutOp(v.slots, e, a, b, s)
    BY <1>1, <1>2 DEF PutOp
  <2>2. PutDone(v.slots, e, a, b, s)
    BY <2>1, PutSlot
  <2> QED
    BY <2>2 DEF PutDone
<1>5. \A x \in Where : IsEntry(At(s, x)) =>
           IsEntry(At(v.slots, x)) /\ At(s, x).cluster = At(v.slots, x).cluster
  BY <1>4
<1>6. /\ VolOK(Vol(v.fat, s, v.cells)) /\ StartsKept(v, Vol(v.fat, s, v.cells))
      /\ \A c : NoEntry(v, c) => NoEntry(Vol(v.fat, s, v.cells), c)
  BY <1>4, <1>5, SlotsChange
<1> QED
  BY <1>3, <1>6 DEF GoesDone

(* ... or an entry with a new chain.                                       *)
LEMMA SlotComes ==
  ASSUME NEW v, VolOK(v), NEW e \in SlotValue, IsStart(v.fat, e.cluster), e.cluster # root_cluster,
         NoEntry(v, e.cluster),
         NEW a, NEW b, NEW w, w = [v EXCEPT !.slots[a][b] = e]
  PROVE  VolOK(w) /\ StartsKept(v, w) /\ w.fat = v.fat
<1>1. PICK s : s = [v.slots EXCEPT ![a][b] = e]
  OBVIOUS
<1>2. v.slots \in SlotsType /\ v = Vol(v.fat, v.slots, v.cells)
      /\ v.fat \in FatType /\ v.cells \in CellsType
  BY VolFields DEF VolOK
<1>3. w = Vol(v.fat, s, v.cells)
  BY <1>1, <1>2 DEF Vol
<1>4. s \in SlotsType /\ \A x \in Where : At(s, x) = IF x = <<a, b>> THEN e ELSE At(v.slots, x)
  <2>1. PutOp(v.slots, e, a, b, s)
    BY <1>1, <1>2 DEF PutOp
  <2>2. PutDone(v.slots, e, a, b, s)
    BY <2>1, PutSlot
  <2> QED
    BY <2>2 DEF PutDone
<1>5. w \in VolType /\ w.fat = v.fat /\ w.slots = s
  <2>1. s \in SlotsType
    BY <1>4
  <2>2. PICK f, l : f = v.fat /\ l = v.cells
    OBVIOUS
  <2>3. w = Vol(f, s, l) /\ f \in FatType /\ l \in CellsType
    BY <1>2, <1>3, <2>2
  <2>4. Vol(f, s, l) \in VolType
    BY <2>1, <2>3 DEF Vol, VolType
  <2>5. Vol(f, s, l).fat = f /\ Vol(f, s, l).slots = s
    BY DEF Vol
  <2> QED
    BY <2>2, <2>3, <2>4, <2>5
<1>6. Owned(w.fat, w.slots)
  <2>1. \A x \in Where : IsEntry(At(s, x)) => IsStart(v.fat, At(s, x).cluster) /\ At(s, x).cluster # root_cluster
    BY <1>4 DEF VolOK, Owned
  <2>2. \A x, y \in Where :
          IsEntry(At(s, x)) /\ IsEntry(At(s, y)) /\ At(s, x).cluster = At(s, y).cluster => x = y
    BY <1>4 DEF VolOK, Owned, NoEntry
  <2> QED
    BY <1>5, <2>1, <2>2 DEF Owned
<1> QED
  BY <1>5, <1>6 DEF VolOK, StartsKept

(* The FAT changes, and chains start where they did.                       *)
LEMMA FatChange ==
  ASSUME NEW v, VolOK(v), NEW f, FatOK(f), \A c : IsStart(v.fat, c) => IsStart(f, c)
  PROVE  VolOK(Vol(f, v.slots, v.cells)) /\ StartsKept(v, Vol(f, v.slots, v.cells))
<1>1. PICK w : w = Vol(f, v.slots, v.cells)
  OBVIOUS
<1>2. w.fat = f /\ w.slots = v.slots /\ w \in VolType
  BY <1>1, VolFields, VolMake DEF VolOK, FatOK, FatType
<1>3. Owned(w.fat, w.slots)
  BY <1>2 DEF Owned, VolOK
<1> QED
  BY <1>1, <1>2, <1>3 DEF VolOK, StartsKept

(* The slots of a cluster change, and no entry is new.                     *)
RowOp(v, a, t, w) ==
  /\ VolOK(v) /\ t \in [1 .. Slots -> SlotValue] /\ w = [v EXCEPT !.slots[a] = t]
  /\ \A k \in 1 .. Slots : IsEntry(t[k]) => a \in Cluster /\ t[k] = v.slots[a][k]

RowDone(v, w) ==
  VolOK(w) /\ StartsKept(v, w) /\ w.fat = v.fat /\ \A c : NoEntry(v, c) => NoEntry(w, c)

LEMMA RowChange ==
  ASSUME NEW v, NEW a, NEW t, NEW w, RowOp(v, a, t, w)
  PROVE  RowDone(v, w)
<1> USE DEF RowOp
<1>1. PICK s : s = [v.slots EXCEPT ![a] = t]
  OBVIOUS
<1>2. v.slots \in SlotsType /\ v = Vol(v.fat, v.slots, v.cells)
  BY VolFields DEF VolOK
<1>3. w = Vol(v.fat, s, v.cells)
  BY <1>1, <1>2 DEF Vol
<1>4. s \in SlotsType
  BY <1>1, <1>2 DEF SlotsType
<1>5. ASSUME NEW x \in Where, IsEntry(At(s, x))
      PROVE  IsEntry(At(v.slots, x)) /\ At(s, x).cluster = At(v.slots, x).cluster
  <2>1. PICK c \in Cluster, k \in 1 .. Slots : x = <<c, k>>
    BY DEF Where
  <2>2. CASE c = a
    <3>1. s[c] = t
      BY <1>1, <1>2, <2>2 DEF SlotsType
    <3>2. At(s, x) = t[k] /\ At(v.slots, x) = v.slots[a][k]
      BY <2>1, <2>2, <3>1 DEF At
    <3> QED
      BY <1>5, <2>2, <3>2
  <2>3. CASE c # a
    <3>1. s[c] = v.slots[c]
      BY <1>1, <1>2, <2>3 DEF SlotsType
    <3>2. At(s, x) = At(v.slots, x)
      BY <2>1, <3>1 DEF At
    <3> QED
      BY <1>5, <3>2
  <2> QED
    BY <2>2, <2>3
<1>6. /\ VolOK(Vol(v.fat, s, v.cells)) /\ StartsKept(v, Vol(v.fat, s, v.cells))
      /\ \A c : NoEntry(v, c) => NoEntry(Vol(v.fat, s, v.cells), c)
  BY <1>4, <1>5, SlotsChange
<1>7. Vol(v.fat, s, v.cells).fat = v.fat
  BY DEF Vol
<1> QED
  BY <1>3, <1>6, <1>7 DEF RowDone
-----------------------------------------------------------------------------
(* Clusters.                                                               *)

LEMMA UsedEntries ==
  ASSUME NEW v, VolOK(v), NEW c, v.fat[c] = 0
  PROVE  NoEntry(v, c) /\ c # root_cluster
BY DEF VolOK, Owned, IsStart, NoEntry

LEMMA FreeIs == \A v : FreeClusters(v) = FreeIn(v.fat) /\ Allocated(v) = Min(FreeIn(v.fat))
BY DEF FreeClusters, FreeIn, Allocated

LEMMA SameChain ==
  ASSUME NEW v, NEW w, LinksUp(v.fat), LinksUp(w.fat), NEW c \in Cluster,
         \A i \in 1 .. Len(Chain(v, c)) : w.fat[Chain(v, c)[i]] = v.fat[Chain(v, c)[i]]
  PROVE  Chain(w, c) = Chain(v, c)
<1>1. PICK A, B, f, g : A = Chain(v, c) /\ B = Chain(w, c) /\ f = v.fat /\ g = w.fat
  OBVIOUS
<1>2. ChainOf(A, f, c) /\ ChainOf(B, g, c)
  BY <1>1, ChainIs
<1>3. \A i \in 1 .. Len(A) : f[A[i]] = g[A[i]]
  BY <1>1
<1>4. A = B
  BY <1>2, <1>3, ChainUnique
<1> QED
  BY <1>1, <1>4

TakenFrom(v, w, new) ==
  /\ VolOK(w) /\ StartsKept(v, w) /\ w.slots = v.slots /\ w.cells = v.cells
  /\ new \in Cluster /\ v.fat[new] = 0 /\ w.fat[new] = END /\ NoEntry(w, new) /\ new # root_cluster
  /\ FreeClusters(w) = FreeClusters(v) \ {new}

LEMMA AllocVol ==
  ASSUME NEW v, VolOK(v), FreeClusters(v) # {}
  PROVE  /\ TakenFrom(v, fat32_allocate_cluster(v), Allocated(v))
         /\ IsStart(fat32_allocate_cluster(v).fat, Allocated(v))
         /\ \A c \in Cluster : v.fat[c] # 0 => Chain(fat32_allocate_cluster(v), c) = Chain(v, c)
<1>1. PICK w, new, f, g : /\ w = fat32_allocate_cluster(v) /\ new = Allocated(v) /\ f = v.fat
                          /\ g = [f EXCEPT ![new] = END]
  OBVIOUS
<1>2. FatOK(f) /\ v \in VolType
  BY <1>1 DEF VolOK
<1>3. AllocDone(f, new, g)
  <2>1. AllocOp(f, new, g)
    BY <1>1, <1>2, FreeIs DEF AllocOp
  <2> QED
    BY <2>1, AllocFat
<1>4. w = Vol(g, v.slots, v.cells)
  <2>1. v = Vol(f, v.slots, v.cells)
    BY <1>1, <1>2, VolFields
  <2>2. w = [v EXCEPT !.fat[new] = END]
    BY <1>1 DEF fat32_allocate_cluster
  <2> QED
    BY <1>1, <2>1, <2>2 DEF Vol
<1>5. w.fat = g /\ w.slots = v.slots /\ w.cells = v.cells
  BY <1>4 DEF Vol
<1>6. VolOK(w) /\ StartsKept(v, w)
  <2>1. FatOK(g) /\ \A c : IsStart(v.fat, c) => IsStart(g, c)
    BY <1>1, <1>3 DEF AllocDone
  <2> QED
    BY <1>4, <2>1, FatChange
<1>7. new \in Cluster /\ f[new] = 0 /\ g[new] = END /\ IsStart(g, new)
      /\ \A c \in Cluster \ {new} : g[c] = f[c]
  BY <1>3 DEF AllocDone
<1>8. NoEntry(w, new) /\ new # root_cluster
  <2>1. NoEntry(v, new) /\ new # root_cluster
    BY <1>1, <1>7, UsedEntries
  <2> QED
    BY <1>5, <2>1 DEF NoEntry
<1>9. FreeClusters(w) = FreeClusters(v) \ {new}
  BY <1>1, <1>5, <1>7, ClusterNat DEF FreeClusters
<1>10. ASSUME NEW c \in Cluster, v.fat[c] # 0 PROVE Chain(w, c) = Chain(v, c)
  <2>1. LinksUp(v.fat) /\ LinksUp(w.fat)
    BY <1>6 DEF VolOK, FatOK
  <2>2. PICK A : A = Chain(v, c)
    OBVIOUS
  <2>3. ChainOf(A, f, c)
    BY <1>1, <2>1, <2>2, ChainIs
  <2>4. \A i \in 1 .. Len(A) : A[i] \in Cluster /\ f[A[i]] # 0
    <3>1. Walk(A, f, c)
      BY <2>3 DEF ChainOf
    <3> QED
      BY <1>1, <1>2, <1>10, <2>3, <3>1, ChainUsed, WalkFields
  <2>5. \A i \in 1 .. Len(A) : w.fat[A[i]] = v.fat[A[i]]
    BY <1>1, <1>5, <1>7, <2>4
  <2> QED
    BY <2>1, <2>2, <2>5, SameChain
<1> QED
  BY <1>1, <1>5, <1>6, <1>7, <1>8, <1>9, <1>10 DEF TakenFrom

LastOf(v, c) == Chain(v, c)[Len(Chain(v, c))]

LEMMA ExtendVol ==
  ASSUME NEW v, VolOK(v), FreeClusters(v) # {}, NEW c \in Cluster, v.fat[c] # 0
  PROVE  /\ TakenFrom(v, Extend(v, LastOf(v, c)), Allocated(v))
         /\ Len(Chain(Extend(v, LastOf(v, c)), c)) = Len(Chain(v, c)) + 1
<1>1. PICK w, new, f, A, last : /\ w = Extend(v, LastOf(v, c)) /\ new = Allocated(v) /\ f = v.fat
                                /\ A = Chain(v, c) /\ last = A[Len(A)]
  OBVIOUS
<1>2. PICK g : g = [[f EXCEPT ![new] = END] EXCEPT ![last] = new]
  OBVIOUS
<1>3. FatOK(f) /\ v \in VolType /\ FreeIn(f) # {} /\ new = Min(FreeIn(f)) /\ f[c] # 0
  BY <1>1, FreeIs DEF VolOK
<1>4. ChainOf(A, f, c) /\ Walk(A, f, c)
  BY <1>1, <1>3, ChainIs DEF FatOK, ChainOf
<1>5. last \in Cluster /\ f[last] = END
  BY <1>1, <1>3, <1>4, ChainUsed, WalkFields
<1>6. ExtendDone(f, new, last, g)
  <2>1. ExtendOp(f, new, last, g)
    BY <1>2, <1>3, <1>5 DEF ExtendOp
  <2> QED
    BY <2>1, ExtendFat
<1>7. ChainOf(Append(A, new), g, c) /\ Len(Append(A, new)) = Len(A) + 1
  BY <1>1, <1>2, <1>3, <1>4, ExtendedChain
<1>8. w = Vol(g, v.slots, v.cells)
  <2>1. v = Vol(f, v.slots, v.cells)
    BY <1>1, <1>3, VolFields
  <2>2. w = [[v EXCEPT !.fat[new] = END] EXCEPT !.fat[last] = new]
    BY <1>1 DEF Extend, fat32_allocate_cluster, LastOf
  <2>3. [v EXCEPT !.fat[new] = END] = Vol([f EXCEPT ![new] = END], v.slots, v.cells)
    BY <2>1 DEF Vol
  <2> QED
    BY <1>2, <2>2, <2>3 DEF Vol
<1>9. w.fat = g /\ w.slots = v.slots /\ w.cells = v.cells
  BY <1>8 DEF Vol
<1>10. VolOK(w) /\ StartsKept(v, w)
  <2>1. FatOK(g) /\ \A d : IsStart(v.fat, d) => IsStart(g, d)
    BY <1>1, <1>6 DEF ExtendDone
  <2> QED
    BY <1>8, <2>1, FatChange
<1>11. new \in Cluster /\ f[new] = 0 /\ g[new] = END /\ new # last /\ g[last] = new
       /\ \A d \in Cluster \ {new, last} : g[d] = f[d]
  BY <1>6 DEF ExtendDone
<1>12. NoEntry(w, new) /\ new # root_cluster
  <2>1. NoEntry(v, new) /\ new # root_cluster
    BY <1>1, <1>11, UsedEntries
  <2> QED
    BY <1>9, <2>1 DEF NoEntry
<1>13. FreeClusters(w) = FreeClusters(v) \ {new}
  <2>1. \A d \in Cluster : g[d] = 0 <=> f[d] = 0 /\ d # new
    BY <1>5, <1>11, ClusterNat
  <2> QED
    BY <1>1, <1>9, <2>1 DEF FreeClusters
<1>14. Chain(w, c) = Append(A, new)
  <2>1. PICK B, D : B = Chain(w, c) /\ D = Append(A, new)
    OBVIOUS
  <2>2. ChainOf(B, g, c) /\ ChainOf(D, g, c)
    BY <1>7, <1>9, <1>10, <2>1, ChainIs DEF VolOK, FatOK
  <2>3. B = D
    BY <2>2, ChainUnique
  <2> QED
    BY <2>1, <2>3
<1>15. TakenFrom(v, w, new)
  BY <1>1, <1>9, <1>10, <1>11, <1>12, <1>13 DEF TakenFrom
<1> QED
  BY <1>1, <1>7, <1>14, <1>15
-----------------------------------------------------------------------------
(* Directories.                                                            *)

LEMMA PlaceIn ==
  ASSUME NEW n \in Nat, NEW p \in 1 .. Slots * n
  PROVE  ((p - 1) \div Slots) + 1 \in 1 .. n /\ ((p - 1) % Slots) + 1 \in 1 .. Slots
<1>1. Slots \in Nat /\ Slots > 0
  BY Fat32Assumption
<1>2. PICK q \in Nat : q = p - 1
  BY <1>1
<1>3. PICK d, r \in Int : d = q \div Slots /\ r = q % Slots
  BY <1>1
<1>4. q = Slots * d + r /\ r >= 0 /\ r < Slots
  BY <1>1, <1>3
<1>5. Slots * n \in Nat /\ q < Slots * n
  BY <1>1, <1>2
<1>6. d < n
  <2> SUFFICES ASSUME n <= d PROVE FALSE
    BY <1>3
  <2>1. Slots * n <= Slots * d
    BY <1>1, <1>3
  <2> QED
    BY <1>1, <1>3, <1>4, <1>5, <2>1
<1>7. d >= 0
  <2> SUFFICES ASSUME d <= 0 - 1 PROVE FALSE
    BY <1>3
  <2>1. Slots * d <= Slots * (0 - 1)
    BY <1>1, <1>3
  <2> QED
    BY <1>1, <1>2, <1>3, <1>4, <2>1
<1> QED
  BY <1>1, <1>2, <1>3, <1>4, <1>6, <1>7

(* An entry that a search finds is in a slot of the chain.                 *)
InChain(v, c, x) == \E i \in 1 .. Len(Chain(v, c)) : x[1] = Chain(v, c)[i]

LEMMA PlacesAre ==
  ASSUME NEW v, LinksUp(v.fat), NEW c
  PROVE  /\ Len(Places(v, c)) \in Nat /\ DOMAIN Places(v, c) = 1 .. Len(Places(v, c))
         /\ \A q \in 1 .. Len(Places(v, c)) :
              c \in Cluster /\ Places(v, c)[q] \in Where /\ InChain(v, c, Places(v, c)[q])
<1>1. PICK A, P, n : A = Chain(v, c) /\ P = Places(v, c) /\ n = Len(A)
  OBVIOUS
<1>2. A \in Seq(Cluster) /\ n \in Nat /\ (A # <<>> => c \in Cluster)
  <2>1. CASE c \in Cluster
    <3>1. ChainOf(A, v.fat, c)
      BY <1>1, <2>1, ChainIs
    <3> QED
      BY <1>1, <2>1, <3>1, WalkFields DEF ChainOf, Walk
  <2>2. CASE c \notin Cluster
    <3>1. A = <<>>
      BY <1>1, <2>2, NoChain
    <3> QED
      BY <1>1, <3>1
  <2> QED
    BY <2>1, <2>2
<1>3. PICK N \in Nat : N = Slots * n
  BY <1>2, Fat32Assumption
<1>4. P = [p \in 1 .. N |-> <<A[((p - 1) \div Slots) + 1], ((p - 1) % Slots) + 1>>]
  BY <1>1, <1>3 DEF Places
<1>5. DOMAIN P = 1 .. N /\ Len(P) = N
  <2>1. DOMAIN P = 1 .. N
    BY <1>4
  <2> QED
    BY <1>3, <2>1
<1>6. ASSUME NEW q \in 1 .. N PROVE c \in Cluster /\ P[q] \in Where /\ InChain(v, c, P[q])
  <2>1. ((q - 1) \div Slots) + 1 \in 1 .. n /\ ((q - 1) % Slots) + 1 \in 1 .. Slots
    BY <1>2, <1>3, PlaceIn
  <2>2. PICK i, k : i = ((q - 1) \div Slots) + 1 /\ k = ((q - 1) % Slots) + 1
    OBVIOUS
  <2>3. P[q] = <<A[i], k>> /\ i \in 1 .. n /\ k \in 1 .. Slots
    BY <1>4, <2>1, <2>2
  <2>4. A # <<>>
    BY <1>1, <1>2, <2>3
  <2>5. A[i] \in Cluster
    BY <1>1, <1>2, <2>3, ElementOfSeq
  <2>6. P[q] \in Where /\ P[q][1] = A[i]
    BY <2>3, <2>5 DEF Where
  <2> QED
    BY <1>1, <1>2, <2>3, <2>4, <2>6 DEF InChain
<1> QED
  BY <1>1, <1>3, <1>5, <1>6

LEMMA EntryPlaces ==
  ASSUME NEW v, VolOK(v), NEW c, NEW x \in Entries(v, c)
  PROVE  /\ c \in Cluster /\ x \in Where /\ InChain(v, c, x)
         /\ Slot(v, x) = At(v.slots, x) /\ Slot(v, x) \in SlotValue /\ Slot(v, x).kind \in {"file", "dir"}
<1>1. PICK P, N : P = Places(v, c) /\ N = Len(P)
  OBVIOUS
<1>2. /\ N \in Nat /\ DOMAIN P = 1 .. N
      /\ \A q \in 1 .. N : c \in Cluster /\ P[q] \in Where /\ InChain(v, c, P[q])
  BY <1>1, PlacesAre DEF VolOK, FatOK
<1>3. PICK U : U = {p \in DOMAIN P : Slot(v, P[p]).kind = "end"} \cup {Len(P) + 1}
  OBVIOUS
<1>4. Min(U) \in Nat /\ Min(U) <= N + 1
  <2>1. U \subseteq Nat /\ N + 1 \in U
    BY <1>1, <1>2, <1>3
  <2> QED
    BY <2>1, MinIs
<1>5. PICK q \in 1 .. Min(U) - 1 : x = P[q] /\ Slot(v, P[q]).kind \in {"file", "dir"}
  BY <1>1, <1>3 DEF Entries
<1>6. q \in 1 .. N
  BY <1>2, <1>4
<1>7. c \in Cluster /\ x \in Where /\ InChain(v, c, x)
  BY <1>2, <1>5, <1>6
<1>8. Slot(v, x) = At(v.slots, x) /\ Slot(v, x) \in SlotValue
  <2>1. v.slots \in [Cluster -> [1 .. Slots -> SlotValue]]
    BY VolFields DEF VolOK, SlotsType
  <2> QED
    BY <1>7, <2>1 DEF Slot, At, Where
<1> QED
  BY <1>5, <1>7, <1>8

LEMMA FoundPlaces ==
  ASSUME NEW v, VolOK(v), NEW c, NEW n, Found(v, c, n) # {}, NEW x, x = fat32_finddir(v, c, n)
  PROVE  /\ x \in Entries(v, c) /\ c \in Cluster /\ x \in Where /\ InChain(v, c, x)
         /\ Slot(v, x) = At(v.slots, x) /\ Slot(v, x) \in SlotValue
         /\ Slot(v, x).kind \in {"file", "dir"} /\ Slot(v, x).name = n
<1>1. x \in Entries(v, c) /\ Slot(v, x).name = n
  BY DEF fat32_finddir, Found
<1> QED
  BY <1>1, EntryPlaces

LEMMA NamesIn ==
  /\ DirNames \subseteq Name /\ Root \notin DirNames
  /\ \A path \in Paths : /\ path[2] \in Name /\ path[1] \in DirNames \cup {Root}
                         /\ path[2] \notin DirNames /\ path = <<path[1], path[2]>>
BY Fat32Assumption DEF Name

(* Where a file or directory is found, there is an entry with a chain.     *)
LEMMA FoundEntry ==
  ASSUME NEW v, VolOK(v), NEW c, NEW n \in Name, Found(v, c, n) # {}, NEW x, x = fat32_finddir(v, c, n)
  PROVE  /\ x \in Where /\ InChain(v, c, x) /\ c \in Cluster /\ IsEntry(At(v.slots, x))
         /\ At(v.slots, x).name = n /\ Slot(v, x) = At(v.slots, x)
         /\ IsStart(v.fat, Slot(v, x).cluster) /\ Slot(v, x).cluster # root_cluster
<1>1. /\ c \in Cluster /\ x \in Where /\ InChain(v, c, x)
      /\ Slot(v, x) = At(v.slots, x) /\ Slot(v, x).kind \in {"file", "dir"} /\ Slot(v, x).name = n
  BY FoundPlaces
<1>2. IsEntry(At(v.slots, x))
  BY <1>1 DEF IsEntry
<1> QED
  BY <1>1, <1>2 DEF VolOK, Owned

LEMMA DirStarts ==
  ASSUME NEW v, VolOK(v), NEW d \in DirNames \cup {Root}, IsDir(v, d)
  PROVE  /\ IsStart(v.fat, DirCluster(v, d))
         /\ d # Root => /\ Found(v, root_cluster, d) # {} /\ d \in Name
                        /\ DirCluster(v, d) # root_cluster
                        /\ DirCluster(v, d) = Slot(v, fat32_finddir(v, root_cluster, d)).cluster
<1>1. CASE d = Root
  BY <1>1 DEF DirCluster, VolOK
<1>2. CASE d # Root
  <2>1. Found(v, root_cluster, d) # {} /\ d \in Name
    BY <1>2, NamesIn DEF IsDir
  <2>2. DirCluster(v, d) = Slot(v, fat32_finddir(v, root_cluster, d)).cluster
    BY <1>2 DEF DirCluster
  <2>3. PICK x : x = fat32_finddir(v, root_cluster, d)
    OBVIOUS
  <2>4. IsStart(v.fat, Slot(v, x).cluster) /\ Slot(v, x).cluster # root_cluster
    BY <2>1, <2>3, FoundEntry
  <2> QED
    BY <1>2, <2>1, <2>2, <2>3, <2>4
<1> QED
  BY <1>1, <1>2
-----------------------------------------------------------------------------
(* What the functions of fat32.c do to a volume.                           *)

Fine(v, w) == VolOK(w) /\ StartsKept(v, w)

LEMMA FineTwice ==
  ASSUME NEW u, NEW v, NEW w, Fine(u, v), Fine(v, w)
  PROVE  Fine(u, w)
BY DEF Fine, StartsKept

LEMMA UpdateEntry ==
  ASSUME NEW v, VolOK(v), NEW node, NEW size \in 0 .. MaxSize
  PROVE  /\ Fine(v, fat32_update_dir_entry(v, node, size))
         /\ fat32_update_dir_entry(v, node, size).fat = v.fat
<1>1. PICK x : x = fat32_finddir(v, node.parent, node.name)
  OBVIOUS
<1>2. CASE Found(v, node.parent, node.name) = {}
  BY <1>2 DEF fat32_update_dir_entry, Fine, StartsKept
<1>3. CASE Found(v, node.parent, node.name) # {}
  <2>1. x \in Where /\ At(v.slots, x) \in SlotValue /\ At(v.slots, x).kind \in {"file", "dir"}
    BY <1>1, <1>3, FoundPlaces
  <2>2. PICK a \in Cluster, b \in 1 .. Slots : x = <<a, b>>
    BY <2>1 DEF Where
  <2>3. PICK w : w = [v EXCEPT !.slots[a][b].size = size]
    OBVIOUS
  <2>4. w = fat32_update_dir_entry(v, node, size)
    BY <1>1, <1>3, <2>2, <2>3 DEF fat32_update_dir_entry
  <2>5. v = Vol(v.fat, v.slots, v.cells) /\ v.slots \in SlotsType
    BY VolFields DEF VolOK
  <2>6. PICK old, e : old = At(v.slots, x) /\ e = [old EXCEPT !.size = size]
    OBVIOUS
  <2>7. old \in [kind : {"file", "dir"}, name : Name \cup {".", ".."}, cluster : Cluster, size : 0 .. MaxSize]
    BY <2>1, <2>6, SlotKinds
  <2>8. /\ e \in [kind : {"file", "dir"}, name : Name \cup {".", ".."}, cluster : Cluster, size : 0 .. MaxSize]
        /\ e.kind = old.kind /\ e.name = old.name /\ e.cluster = old.cluster
    BY <2>6, <2>7
  <2>9. e \in SlotValue
    BY <2>8 DEF SlotValue
  <2>10. PICK s : s = [v.slots EXCEPT ![a][b] = e]
    OBVIOUS
  <2>11. w = Vol(v.fat, s, v.cells)
    <3>1. v.slots[a][b] = old
      BY <2>2, <2>6 DEF At
    <3>2. s = [v.slots EXCEPT ![a][b].size = size]
      BY <2>6, <2>10, <3>1
    <3> QED
      BY <2>3, <2>5, <3>2 DEF Vol
  <2>12. PutDone(v.slots, e, a, b, s)
    <3>1. PutOp(v.slots, e, a, b, s)
      BY <2>5, <2>9, <2>10 DEF PutOp
    <3> QED
      BY <3>1, PutSlot
  <2>13. s \in SlotsType
    BY <2>12 DEF PutDone
  <2>14. \A y \in Where : IsEntry(At(s, y)) =>
           IsEntry(At(v.slots, y)) /\ At(s, y).cluster = At(v.slots, y).cluster
    BY <2>2, <2>6, <2>8, <2>12 DEF PutDone, IsEntry
  <2>15. VolOK(w) /\ StartsKept(v, w)
    BY <2>11, <2>13, <2>14, SlotsChange
  <2>16. w.fat = v.fat
    BY <2>11 DEF Vol
  <2> QED
    BY <2>4, <2>15, <2>16 DEF Fine
<1> QED
  BY <1>2, <1>3

LEMMA DeleteEntry ==
  ASSUME NEW v, VolOK(v), NEW x \in Where
  PROVE  Fine(v, fat32_delete_lfn_chain(v, x))
<1>1. PICK a \in Cluster, b \in 1 .. Slots : x = <<a, b>>
  BY DEF Where
<1>2. PICK row : row = v.slots[a]
  OBVIOUS
<1>3. row \in [1 .. Slots -> SlotValue]
  BY <1>2, VolFields DEF VolOK, SlotsType
<1>4. PICK t : t = [k \in 1 .. Slots |->
                      IF k = b \/ (k = b - 1 /\ row[k].kind = "lfn") THEN Deleted ELSE row[k]]
  OBVIOUS
<1>5. PICK w : w = [v EXCEPT !.slots[a] = t]
  OBVIOUS
<1>6. w = fat32_delete_lfn_chain(v, x)
  <2>1. v = Vol(v.fat, v.slots, v.cells)
    BY VolFields DEF VolOK
  <2> QED
    BY <1>1, <1>2, <1>4, <1>5, <2>1 DEF fat32_delete_lfn_chain, Vol
<1>7. t \in [1 .. Slots -> SlotValue] /\ \A k \in 1 .. Slots : IsEntry(t[k]) => t[k] = row[k]
  BY <1>3, <1>4, SlotKinds
<1>8. RowOp(v, a, t, w)
  BY <1>2, <1>5, <1>7 DEF RowOp
<1>9. RowDone(v, w)
  BY <1>8, RowChange
<1> QED
  BY <1>6, <1>9 DEF RowDone, Fine

(* fat32_find_free_slots(): the directory as it is or one cluster longer.  *)
SearchOp(v, c, n, w) ==
  /\ VolOK(v) /\ c \in Cluster /\ v.fat[c] # 0 /\ w = fat32_find_free_slots(v, c, n)
  /\ FreeRuns(v, c, n) = {} => FreeClusters(v) # {}

SearchDone(v, c, n, w) ==
  /\ Fine(v, w) /\ \A d : v.fat[d] # 0 /\ NoEntry(v, d) => NoEntry(w, d)
  /\ FreeRuns(v, c, n) # {} => w = v
  /\ FreeRuns(v, c, n) = {} => \E d : FreeClusters(w) = FreeClusters(v) \ {d}

LEMMA SearchSlots ==
  ASSUME NEW v, NEW c, NEW n, NEW w, SearchOp(v, c, n, w)
  PROVE  SearchDone(v, c, n, w)
<1> USE DEF SearchOp
<1>1. CASE FreeRuns(v, c, n) # {}
  <2>1. w = v
    BY <1>1 DEF fat32_find_free_slots
  <2> QED
    BY <1>1, <2>1 DEF SearchDone, Fine, StartsKept
<1>2. CASE FreeRuns(v, c, n) = {}
  <2>1. PICK u, new : u = Extend(v, LastOf(v, c)) /\ new = Allocated(v)
    OBVIOUS
  <2>2. TakenFrom(v, u, new)
    BY <1>2, <2>1, ExtendVol
  <2>3. PICK t : t = [k \in 1 .. Slots |-> Free]
    OBVIOUS
  <2>4. w = [u EXCEPT !.slots[new] = t]
    BY <1>2, <2>1, <2>3 DEF fat32_find_free_slots, LastOf
  <2>5. RowOp(u, new, t, w)
    BY <2>2, <2>3, <2>4, SlotKinds DEF RowOp, TakenFrom
  <2>6. RowDone(u, w)
    BY <2>5, RowChange
  <2>7. Fine(v, w)
    <3>1. Fine(v, u) /\ Fine(u, w)
      BY <2>2, <2>6 DEF Fine, TakenFrom, RowDone
    <3> QED
      BY <3>1, FineTwice
  <2>8. \A d : NoEntry(v, d) => NoEntry(w, d)
    <3>1. \A d : NoEntry(v, d) => NoEntry(u, d)
      BY <2>2 DEF TakenFrom, NoEntry
    <3> QED
      BY <2>6, <3>1 DEF RowDone
  <2>9. FreeClusters(w) = FreeClusters(v) \ {new}
    <3>1. w.fat = u.fat
      BY <2>6 DEF RowDone
    <3> QED
      BY <2>2, <3>1, FreeIs DEF TakenFrom
  <2> QED
    BY <1>2, <2>7, <2>8, <2>9 DEF SearchDone
<1> QED
  BY <1>1, <1>2

(* fat32_write_dir_entries() of an entry with a chain that no entry has.   *)
WriteOp(v, e, name) ==
  /\ VolOK(v) /\ name \in Name /\ e \in SlotValue
  /\ IsStart(v.fat, e.cluster) /\ e.cluster # root_cluster /\ NoEntry(v, e.cluster)

LEMMA WriteEntries ==
  ASSUME NEW v, NEW e, NEW name, WriteOp(v, e, name), NEW c, NEW p
  PROVE  Fine(v, fat32_write_dir_entries(v, c, p, name, e))
<1> USE DEF WriteOp
<1>1. PICK at, sfn : /\ at = Places(v, c)[p] /\ sfn = Places(v, c)[p + SlotsOf(name) - 1]
  OBVIOUS
<1>2. PICK long : long = IF name \in LongNames
                         THEN [v EXCEPT !.slots[at[1]][at[2]] = Long(name)] ELSE v
  OBVIOUS
<1>3. PICK a, b : a = at[1] /\ b = at[2]
  OBVIOUS
<1>4. VolOK(long) /\ StartsKept(v, long) /\ NoEntry(long, e.cluster)
  <2>1. CASE name \in LongNames
    <3>1. long = [v EXCEPT !.slots[a][b] = Long(name)]
      BY <1>2, <1>3, <2>1
    <3>2. PICK x : x = Long(name)
      OBVIOUS
    <3>3. x \in SlotValue /\ ~IsEntry(x)
      BY <3>2, SlotKinds
    <3>4. GoesOp(v, x, a, b, long)
      BY <3>1, <3>2, <3>3 DEF GoesOp
    <3>5. GoesDone(v, long)
      BY <3>4, SlotGoes
    <3> QED
      BY <3>5 DEF GoesDone
  <2>2. CASE name \notin LongNames
    BY <1>2, <2>2 DEF StartsKept
  <2> QED
    BY <2>1, <2>2
<1>5. PICK i, j : i = sfn[1] /\ j = sfn[2]
  OBVIOUS
<1>6. PICK w : w = [long EXCEPT !.slots[i][j] = e]
  OBVIOUS
<1>7. w = fat32_write_dir_entries(v, c, p, name, e)
  BY <1>1, <1>2, <1>5, <1>6 DEF fat32_write_dir_entries
<1>8. IsStart(long.fat, e.cluster)
  BY <1>4 DEF StartsKept
<1>9. VolOK(w) /\ StartsKept(long, w)
  BY <1>4, <1>6, <1>8, SlotComes
<1>10. Fine(v, w)
  BY <1>4, <1>9, FineTwice DEF Fine
<1> QED
  BY <1>7, <1>10

LEMMA ClustersFinite == IsFiniteSet(Cluster)
BY FS_Interval, ClusterNat DEF Cluster

LEMMA MoreFree ==
  ASSUME NEW S \in SUBSET Cluster
  PROVE  /\ Cardinality(S) >= 1 => S # {}
         /\ Cardinality(S) >= 2 => \A d : S \ {d} # {}
<1>1. IsFiniteSet(S)
  BY ClustersFinite, FS_Subset
<1>2. Cardinality(S) >= 1 => S # {}
  BY FS_EmptySet
<1>3. ASSUME Cardinality(S) >= 2, NEW d PROVE S \ {d} # {}
  <2> SUFFICES ASSUME S \ {d} = {} PROVE FALSE
    OBVIOUS
  <2>1. S \subseteq {d} /\ IsFiniteSet({d}) /\ Cardinality({d}) = 1
    BY FS_Singleton
  <2>2. Cardinality(S) <= 1 /\ Cardinality(S) \in Nat
    BY <1>1, <2>1, FS_Subset, FS_CardinalityType
  <2> QED
    BY <1>3, <2>2
<1> QED
  BY <1>2, <1>3

(* There are enough free clusters for a new name in the directory at c.    *)
NewName(v, c, name) ==
  /\ VolOK(v) /\ IsStart(v.fat, c) /\ name \in Name
  /\ Cardinality(FreeClusters(v)) >= Needed(v, c, name)

LEMMA CreateFile ==
  ASSUME NEW v, NEW c, NEW name, NewName(v, c, name)
  PROVE  /\ Fine(v, fat32_create(v, c, name).vol)
         /\ IsStart(fat32_create(v, c, name).vol.fat, fat32_create(v, c, name).cluster)
<1> USE DEF NewName
<1>1. PICK dir, new, u, p, n : /\ n = SlotsOf(name) /\ dir = fat32_find_free_slots(v, c, n)
                               /\ new = Allocated(dir) /\ u = fat32_allocate_cluster(dir)
                               /\ p = Min(FreeRuns(dir, c, n))
  OBVIOUS
<1>2. PICK e, w : e = Entry("file", name, new) /\ w = fat32_write_dir_entries(u, c, p, name, e)
  OBVIOUS
<1>3. fat32_create(v, c, name).vol = w /\ fat32_create(v, c, name).cluster = new
  BY <1>1, <1>2 DEF fat32_create
<1>4. FreeClusters(v) \in SUBSET Cluster
  BY DEF FreeClusters
<1>5. FreeClusters(v) # {} /\ (FreeRuns(v, c, n) = {} => \A d : FreeClusters(v) \ {d} # {})
  <2>1. Cardinality(FreeClusters(v)) >= 1 /\ (FreeRuns(v, c, n) = {} => Cardinality(FreeClusters(v)) >= 2)
    <3>1. Cardinality(FreeClusters(v)) \in Nat
      BY <1>4, ClustersFinite, FS_Subset, FS_CardinalityType
    <3> QED
      BY <1>1, <3>1 DEF Needed
  <2> QED
    BY <1>4, <2>1, MoreFree
<1>6. SearchDone(v, c, n, dir)
  <2>1. SearchOp(v, c, n, dir)
    BY <1>1, <1>5 DEF SearchOp, IsStart
  <2> QED
    BY <2>1, SearchSlots
<1>7. Fine(v, dir) /\ FreeClusters(dir) # {}
  BY <1>5, <1>6 DEF SearchDone
<1>8. TakenFrom(dir, u, new) /\ IsStart(u.fat, new)
  BY <1>1, <1>7, AllocVol DEF Fine
<1>9. WriteOp(u, e, name)
  <2>1. new \in Cluster /\ VolOK(u) /\ NoEntry(u, new) /\ new # root_cluster
    BY <1>8 DEF TakenFrom
  <2>2. e \in SlotValue /\ e.cluster = new
    BY <1>2, <2>1, EntryKind
  <2> QED
    BY <1>8, <2>1, <2>2 DEF WriteOp
<1>10. Fine(u, w)
  BY <1>2, <1>9, WriteEntries
<1>11. Fine(v, w)
  <2>1. Fine(dir, u)
    BY <1>8 DEF TakenFrom, Fine
  <2>2. Fine(v, u)
    BY <1>7, <2>1, FineTwice
  <2> QED
    BY <1>10, <2>2, FineTwice
<1>12. IsStart(w.fat, new)
  BY <1>8, <1>10 DEF Fine, StartsKept
<1> QED
  BY <1>3, <1>11, <1>12

(* A new directory's own cluster changes nothing of another one.           *)
LEMMA SameRuns ==
  ASSUME NEW v, NEW w, VolOK(v), NEW c \in Cluster, v.fat[c] # 0, Chain(w, c) = Chain(v, c),
         NEW new, v.fat[new] = 0, \A d \in Cluster \ {new} : w.slots[d] = v.slots[d],
         NEW n \in {1, 2}
  PROVE  FreeRuns(w, c, n) = FreeRuns(v, c, n)
<1>1. PICK P, N : P = Places(v, c) /\ N = Len(P)
  OBVIOUS
<1>2. Places(w, c) = P
  BY <1>1 DEF Places
<1>3. /\ N \in Nat /\ \A q \in 1 .. N : P[q] \in Where /\ InChain(v, c, P[q])
  BY <1>1, PlacesAre DEF VolOK, FatOK
<1>4. \A i \in 1 .. Len(Chain(v, c)) : v.fat[Chain(v, c)[i]] # 0
  BY ChainIs, ChainUsed DEF VolOK, FatOK
<1>5. ASSUME NEW q \in 1 .. N PROVE Slot(w, P[q]) = Slot(v, P[q])
  <2>1. P[q][1] \in Cluster /\ v.fat[P[q][1]] # 0
    BY <1>3, <1>4 DEF InChain, Where
  <2>2. P[q][1] # new
    BY <2>1
  <2> QED
    BY <2>1, <2>2 DEF Slot
<1>6. ASSUME NEW p \in 1 .. N - n + 1
      PROVE  (\A q \in p .. p + n - 1 : Slot(w, P[q]).kind \in {"end", "deleted"})
               <=> (\A q \in p .. p + n - 1 : Slot(v, P[q]).kind \in {"end", "deleted"})
  <2>1. \A q \in p .. p + n - 1 : q \in 1 .. N
    BY <1>3
  <2> QED
    BY <1>5, <2>1
<1> QED
  BY <1>1, <1>2, <1>6 DEF FreeRuns

LEMMA CreateDir ==
  ASSUME NEW v, NEW c, NEW name, NewName(v, c, name)
  PROVE  Fine(v, fat32_mkdir(v, c, name))
<1> USE DEF NewName
<1>1. PICK u, new, t, n : /\ u = fat32_allocate_cluster(v) /\ new = Allocated(v) /\ n = SlotsOf(name)
                          /\ t = [k \in 1 .. Slots |->
                                    IF k = 1 THEN Entry("dir", ".", new)
                                    ELSE IF k = 2 THEN Entry("dir", "..", c) ELSE Free]
  OBVIOUS
<1>2. PICK own : own = [u EXCEPT !.slots[new] = t]
  OBVIOUS
<1>3. PICK dir, p : dir = fat32_find_free_slots(own, c, n) /\ p = Min(FreeRuns(dir, c, n))
  OBVIOUS
<1>4. PICK e, w : e = Entry("dir", name, new) /\ w = fat32_write_dir_entries(dir, c, p, name, e)
  OBVIOUS
<1>5. fat32_mkdir(v, c, name) = w
  BY <1>1, <1>2, <1>3, <1>4 DEF fat32_mkdir
<1>6. FreeClusters(v) \in SUBSET Cluster /\ c \in Cluster /\ v.fat[c] # 0
  BY DEF FreeClusters, IsStart
<1>7. FreeClusters(v) # {} /\ (FreeRuns(v, c, n) = {} => \A d : FreeClusters(v) \ {d} # {})
  <2>1. Cardinality(FreeClusters(v)) >= 1 /\ (FreeRuns(v, c, n) = {} => Cardinality(FreeClusters(v)) >= 2)
    <3>1. Cardinality(FreeClusters(v)) \in Nat
      BY <1>6, ClustersFinite, FS_Subset, FS_CardinalityType
    <3> QED
      BY <1>1, <3>1 DEF Needed
  <2> QED
    BY <1>6, <2>1, MoreFree
<1>8. TakenFrom(v, u, new) /\ IsStart(u.fat, new) /\ Chain(u, c) = Chain(v, c)
  BY <1>1, <1>6, <1>7, AllocVol
<1>9. new \in Cluster /\ VolOK(u) /\ NoEntry(u, new) /\ new # root_cluster /\ v.fat[new] = 0
      /\ u.slots = v.slots /\ FreeClusters(u) = FreeClusters(v) \ {new} /\ Fine(v, u)
  BY <1>8 DEF TakenFrom, Fine
<1>10. RowDone(u, own)
  <2>1. Entry("dir", ".", new) \in SlotValue /\ ~IsEntry(Entry("dir", ".", new))
    BY <1>9, EntryKind
  <2>2. Entry("dir", "..", c) \in SlotValue /\ ~IsEntry(Entry("dir", "..", c))
    BY <1>6, EntryKind
  <2>3. t \in [1 .. Slots -> SlotValue] /\ \A k \in 1 .. Slots : ~IsEntry(t[k])
    BY <1>1, <2>1, <2>2, SlotKinds
  <2>4. RowOp(u, new, t, own)
    BY <1>2, <1>9, <2>3 DEF RowOp
  <2> QED
    BY <2>4, RowChange
<1>11. VolOK(own) /\ own.fat = u.fat /\ NoEntry(own, new) /\ Fine(u, own)
  BY <1>9, <1>10 DEF RowDone, Fine
<1>12. \A d \in Cluster \ {new} : own.slots[d] = v.slots[d]
  <2>1. u.slots \in SlotsType /\ u = Vol(u.fat, u.slots, u.cells)
    BY <1>9, VolFields DEF VolOK
  <2>2. own.slots = [u.slots EXCEPT ![new] = t]
    BY <1>2, <2>1 DEF Vol
  <2> QED
    BY <1>9, <2>1, <2>2 DEF SlotsType
<1>13. Chain(own, c) = Chain(v, c)
  <2>1. LinksUp(u.fat) /\ LinksUp(own.fat)
    BY <1>9, <1>11 DEF VolOK, FatOK
  <2>2. Chain(own, c) = Chain(u, c)
    BY <1>6, <1>11, <2>1, SameChain
  <2> QED
    BY <1>8, <2>2
<1>14. n \in {1, 2}
  BY <1>1 DEF SlotsOf
<1>15. FreeRuns(own, c, n) = FreeRuns(v, c, n)
  BY <1>6, <1>9, <1>12, <1>13, <1>14, SameRuns
<1>16. FreeClusters(own) = FreeClusters(u) /\ own.fat[c] # 0 /\ own.fat[new] # 0
  <2>1. FreeClusters(own) = FreeClusters(u)
    BY <1>11, FreeIs
  <2>2. IsStart(u.fat, c)
    BY <1>9 DEF Fine, StartsKept
  <2> QED
    BY <1>8, <1>11, <2>1, <2>2 DEF IsStart
<1>17. SearchDone(own, c, n, dir)
  <2>1. SearchOp(own, c, n, dir)
    BY <1>3, <1>6, <1>7, <1>9, <1>11, <1>15, <1>16 DEF SearchOp
  <2> QED
    BY <2>1, SearchSlots
<1>18. Fine(own, dir) /\ NoEntry(dir, new)
  BY <1>11, <1>16, <1>17 DEF SearchDone
<1>19. IsStart(dir.fat, new)
  BY <1>8, <1>11, <1>18 DEF Fine, StartsKept
<1>20. WriteOp(dir, e, name)
  <2>1. e \in SlotValue /\ e.cluster = new
    BY <1>4, <1>9, EntryKind
  <2> QED
    BY <1>9, <1>18, <1>19, <2>1 DEF WriteOp, Fine
<1>21. Fine(dir, w)
  BY <1>4, <1>20, WriteEntries
<1>22. Fine(v, own)
  BY <1>9, <1>11, FineTwice
<1>23. Fine(v, dir)
  BY <1>18, <1>22, FineTwice
<1> QED
  BY <1>5, <1>21, <1>23, FineTwice
-----------------------------------------------------------------------------
(* Files.                                                                  *)

LEMMA ExtendType ==
  ASSUME NEW v \in VolType, FreeClusters(v) # {}, NEW last
  PROVE  Extend(v, last) \in VolType
<1>1. PICK new, f : new = Allocated(v) /\ f = v.fat
  OBVIOUS
<1>2. new \in Cluster
  <2>1. FreeIn(f) \subseteq Nat /\ FreeIn(f) # {} /\ new = Min(FreeIn(f))
    BY <1>1, FreeIs, ClusterNat DEF FreeIn
  <2>2. new \in FreeIn(f)
    BY <2>1, MinIs
  <2> QED
    BY <2>2 DEF FreeIn
<1>3. v = Vol(f, v.slots, v.cells) /\ f \in FatType /\ v.slots \in SlotsType /\ v.cells \in CellsType
  BY <1>1, VolFields
<1>4. PICK h, g : h = [f EXCEPT ![new] = END] /\ g = [h EXCEPT ![last] = new]
  OBVIOUS
<1>5. g \in FatType
  BY <1>2, <1>3, <1>4 DEF FatType
<1>6. Extend(v, last) = Vol(g, v.slots, v.cells)
  <2>1. fat32_allocate_cluster(v) = Vol(h, v.slots, v.cells)
    BY <1>1, <1>3, <1>4 DEF fat32_allocate_cluster, Vol
  <2> QED
    BY <1>1, <1>4, <2>1 DEF Extend, Vol
<1> QED
  BY <1>3, <1>5, <1>6, VolMake

(* The chain of a file grows at its end.                                   *)
LEMMA GrownFine ==
  ASSUME NEW v, VolOK(v), NEW c, IsStart(v.fat, c), NEW n \in Int
  PROVE  Fine(v, Grown(v, c, n))
<1> DEFINE Longer(k, w) == IF FreeClusters(w) = {} THEN w ELSE Extend(w, Chain(w, c)[k - 1])
           old == Len(Chain(v, c))
           Step(h) == [k \in old .. n |-> IF k = old THEN v ELSE Longer(k, h[k - 1])]
           N == n - old
           g == [p \in (1 .. N) \X VolType |-> Longer(old + p[1], p[2])]
<1>1. c \in Cluster /\ v.fat[c] # 0 /\ v \in VolType /\ LinksUp(v.fat)
  BY DEF IsStart, VolOK, FatOK
<1>2. old \in Nat
  <2>1. ChainOf(Chain(v, c), v.fat, c)
    BY <1>1, ChainIs
  <2> QED
    BY <2>1, WalkFields DEF ChainOf
<1>3. CASE n <= old
  BY <1>3 DEF Grown, Fine, StartsKept
<1>4. CASE ~(n <= old)
  <2>1. N \in Nat /\ old < n
    BY <1>2, <1>4
  <2>2. g \in [(1 .. N) \X VolType -> VolType]
    <3>1. \A k, w : w \in VolType => Longer(k, w) \in VolType
      BY ExtendType
    <3> QED
      BY <3>1
  <2> HIDE DEF g, Longer
  <2>3. PICK f : Iteration(f, VolType, v, g, N)
    BY <1>1, <2>1, <2>2, Iterates
  <2>4. PICK h : h = [k \in old .. n |-> f[k - old]]
    OBVIOUS
  <2>5. h = Step(h)
    <3>1. \A k \in old .. n : h[k] = Step(h)[k]
      <4> TAKE k \in old .. n
      <4>1. CASE k = old
        BY <1>2, <2>1, <2>3, <2>4, <4>1 DEF Iteration
      <4>2. CASE k # old
        <5>1. PICK j : j = k - old
          OBVIOUS
        <5>2. j \in 1 .. N /\ k - 1 \in old .. n /\ (k - 1) - old = j - 1 /\ old + j = k /\ j - 1 \in 0 .. N
          BY <1>2, <2>1, <4>2, <5>1
        <5>3. h[k] = f[j] /\ h[k - 1] = f[j - 1]
          BY <2>4, <5>1, <5>2
        <5>4. f[j] = g[<<j, f[j - 1]>>] /\ f[j - 1] \in VolType
          BY <2>3, <5>2 DEF Iteration
        <5>5. f[j] = Longer(old + j, f[j - 1])
          BY <5>2, <5>4 DEF g
        <5> QED
          BY <4>2, <5>2, <5>3, <5>5
      <4> QED
        BY <4>1, <4>2
    <3> QED
      BY <2>4, <3>1
  <2>6. PICK to : to = (CHOOSE w : w = Step(w)) /\ Grown(v, c, n) = to[n]
    BY <1>4 DEF Grown, Longer
  <2>7. to = Step(to)
    BY <2>5, <2>6
  <2> DEFINE Ok(k) == Fine(v, to[k]) /\ (FreeClusters(to[k]) = {} \/ Len(Chain(to[k], c)) = k)
             B == {j \in 0 .. N : Ok(old + j)}
  <2>8. 0 \in B
    <3>1. to[old] = v /\ old + 0 = old
      BY <1>2, <2>1, <2>7
    <3> QED
      BY <2>1, <3>1 DEF Fine, StartsKept
  <2>9. ASSUME NEW j \in 1 .. N, j - 1 \in B PROVE j \in B
    <3>1. PICK k : k = old + j
      OBVIOUS
    <3>2. k \in old .. n /\ k # old /\ k - 1 = old + (j - 1) /\ j \in 0 .. N
      BY <1>2, <2>1, <3>1
    <3>3. PICK w, u : w = to[k - 1] /\ u = to[k]
      OBVIOUS
    <3>4. u = Longer(k, w)
      BY <2>7, <3>2, <3>3
    <3>5. Fine(v, w) /\ (FreeClusters(w) = {} \/ Len(Chain(w, c)) = k - 1)
      BY <2>9, <3>2, <3>3
    <3>6. CASE FreeClusters(w) = {}
      <4>1. u = w
        BY <3>4, <3>6 DEF Longer
      <4> QED
        BY <3>1, <3>2, <3>3, <3>5, <3>6, <4>1
    <3>7. CASE FreeClusters(w) # {}
      <4>1. u = Extend(w, LastOf(w, c)) /\ Len(Chain(w, c)) = k - 1
        BY <3>4, <3>5, <3>7 DEF Longer, LastOf
      <4>2. VolOK(w) /\ w.fat[c] # 0
        BY <3>5 DEF Fine, StartsKept, IsStart
      <4>3. TakenFrom(w, u, Allocated(w)) /\ Len(Chain(u, c)) = (k - 1) + 1
        BY <1>1, <3>7, <4>1, <4>2, ExtendVol
      <4>4. Fine(w, u) /\ Len(Chain(u, c)) = k
        BY <1>2, <2>1, <3>2, <4>3 DEF TakenFrom, Fine
      <4>5. Fine(v, u)
        BY <3>5, <4>4, FineTwice
      <4> QED
        BY <3>1, <3>2, <3>3, <4>4, <4>5
    <3> QED
      BY <3>6, <3>7
  <2>10. old + N = n
    BY <1>2
  <2> HIDE DEF B, N
  <2>11. N \in B
    <3>1. N \in Nat
      BY <2>1
    <3>2. \A j \in 1 .. N : j - 1 \in B => j \in B
      BY <2>9
    <3>3. 0 .. N \subseteq B
      BY <2>8, <3>1, <3>2, UpTo
    <3> QED
      BY <3>1, <3>3
  <2> QED
    BY <2>6, <2>10, <2>11 DEF B
<1> QED
  BY <1>3, <1>4
LEMMA OneCell ==
  ASSUME NEW l \in CellsType, NEW a, NEW b, NEW x \in Val
  PROVE  [l EXCEPT ![a][b] = x] \in CellsType
<1>1. \A c \in Cluster : l[c] \in [0 .. Cells - 1 -> Val \cup {NIL}]
  BY DEF CellsType
<1>2. [l[a] EXCEPT ![b] = x] \in [0 .. Cells - 1 -> Val \cup {NIL}] \/ a \notin Cluster
  BY <1>1
<1> QED
  BY <1>2 DEF CellsType

(* Data that is written changes cells only.                                *)
LEMMA PutCells ==
  ASSUME NEW v \in VolType, NEW A, NEW off, NEW n \in Nat, NEW x \in Val
  PROVE  \E l \in CellsType : Put(v, A, off, n, x) = Vol(v.fat, v.slots, l)
<1> DEFINE S == {Vol(v.fat, v.slots, l) : l \in CellsType}
           Cell(k, w) == LET at == off + k - 1
                         IN  [w EXCEPT !.cells[A[(at \div Cells) + 1]][at % Cells] = x]
           Step(h) == [k \in 0 .. n |-> IF k = 0 THEN v ELSE Cell(k, h[k - 1])]
           g == [p \in (1 .. n) \X S |-> Cell(p[1], p[2])]
<1>1. v \in S
  BY VolFields
<1>2. ASSUME NEW k, NEW w \in S PROVE Cell(k, w) \in S
  <2>1. PICK l \in CellsType : w = Vol(v.fat, v.slots, l)
    OBVIOUS
  <2>2. PICK a, b : a = A[((off + k - 1) \div Cells) + 1] /\ b = (off + k - 1) % Cells
    OBVIOUS
  <2>3. PICK m : m = [l EXCEPT ![a][b] = x]
    OBVIOUS
  <2>4. m \in CellsType
    BY <2>3, OneCell
  <2>5. Cell(k, w) = [w EXCEPT !.cells[a][b] = x]
    BY <2>2
  <2>6. Cell(k, w) = Vol(v.fat, v.slots, m)
    BY <2>1, <2>3, <2>5 DEF Vol
  <2> QED
    BY <2>4, <2>6
<1>3. g \in [(1 .. n) \X S -> S]
  BY <1>2
<1> HIDE DEF g, S, Cell
<1>4. PICK f : Iteration(f, S, v, g, n)
  BY <1>1, <1>3, Iterates
<1>5. f = Step(f)
  <2>1. ASSUME NEW k \in 0 .. n PROVE f[k] = Step(f)[k]
    <3>1. CASE k = 0
      BY <1>4, <3>1 DEF Iteration
    <3>2. CASE k # 0
      <4>1. k \in 1 .. n /\ k - 1 \in 0 .. n
        BY <3>2
      <4>2. f[k] = g[<<k, f[k - 1]>>] /\ f[k - 1] \in S
        BY <1>4, <4>1 DEF Iteration
      <4> QED
        BY <3>2, <4>1, <4>2 DEF g
    <3> QED
      BY <3>1, <3>2
  <2>2. f \in [0 .. n -> S]
    BY <1>4 DEF Iteration
  <2> QED
    BY <2>1, <2>2
<1>6. PICK put : put = (CHOOSE w : w = Step(w)) /\ Put(v, A, off, n, x) = put[n]
  BY DEF Put, Cell
<1>7. put = Step(put)
  BY <1>5, <1>6
<1> DEFINE B == {k \in 0 .. n : put[k] \in S}
<1>8. 0 \in B
  BY <1>1, <1>7
<1>9. \A k \in 1 .. n : k - 1 \in B => k \in B
  <2> TAKE k \in 1 .. n
  <2> HAVE k - 1 \in B
  <2>1. put[k] = Cell(k, put[k - 1]) /\ put[k - 1] \in S
    BY <1>7
  <2> QED
    BY <1>2, <2>1
<1> HIDE DEF B
<1>10. 0 .. n \subseteq B
  BY <1>8, <1>9, UpTo
<1>11. put[n] \in S
  BY <1>10 DEF B
<1> QED
  BY <1>6, <1>11 DEF S

LEMMA PutFine ==
  ASSUME NEW v, VolOK(v), NEW A, NEW off, NEW n \in Nat, NEW x \in Val
  PROVE  Fine(v, Put(v, A, off, n, x)) /\ Put(v, A, off, n, x).fat = v.fat
<1>1. v \in VolType /\ v.fat \in FatType /\ v.slots \in SlotsType
  BY VolFields DEF VolOK
<1>2. PICK l \in CellsType : Put(v, A, off, n, x) = Vol(v.fat, v.slots, l)
  BY <1>1, PutCells
<1>3. PICK w : w = Put(v, A, off, n, x)
  OBVIOUS
<1>4. w.fat = v.fat /\ w.slots = v.slots /\ w \in VolType
  BY <1>1, <1>2, <1>3, VolMake
<1>5. VolOK(w) /\ StartsKept(v, w)
  BY <1>4 DEF VolOK, StartsKept
<1> QED
  BY <1>3, <1>4, <1>5 DEF Fine

LEMMA MaxTwo ==
  ASSUME NEW a \in Int, NEW b \in Int
  PROVE  /\ Max({a, b}) \in {a, b} /\ Max({a, b}) >= a /\ Max({a, b}) >= b
         /\ Min({a, b}) \in {a, b}
<1>1. \E m \in {a, b} : \A k \in {a, b} : m >= k
  <2>1. a >= b \/ b >= a
    OBVIOUS
  <2> QED
    BY <2>1
<1>2. \E m \in {a, b} : \A k \in {a, b} : m =< k
  <2>1. a =< b \/ b =< a
    OBVIOUS
  <2> QED
    BY <2>1
<1>3. Max({a, b}) \in {a, b} /\ \A k \in {a, b} : Max({a, b}) >= k
  BY <1>1 DEF Max
<1>4. Min({a, b}) \in {a, b}
  BY <1>2 DEF Min
<1> QED
  BY <1>3, <1>4
-----------------------------------------------------------------------------
(* Steps.                                                                  *)

(* An open file is a chain of its own, also after it has been unlinked.    *)
NodeOK(f, node) ==
  \E path, c, p, s : node = Node(path, c, p, s) /\ IsStart(f, c) /\ s \in 0 .. MaxSize

NodesOK(f, ns) ==
  ns = [h \in Handles |-> ns[h]] /\ \A h \in Handles : ns[h] # NIL => NodeOK(f, ns[h])

FInv == VolOK(vol) /\ NodesOK(vol.fat, nodes)

LEMMA NodesKept ==
  ASSUME NEW v, NEW w, StartsKept(v, w), NEW ns, NodesOK(v.fat, ns)
  PROVE  NodesOK(w.fat, ns)
BY DEF NodesOK, NodeOK, StartsKept

LEMMA NodeSet ==
  ASSUME NEW f, NEW ns, NodesOK(f, ns), NEW h \in Handles, NEW node, node = NIL \/ NodeOK(f, node)
  PROVE  NodesOK(f, [ns EXCEPT ![h] = node])
<1>1. PICK m : m = [ns EXCEPT ![h] = node]
  OBVIOUS
<1>2. m = [g \in Handles |-> m[g]] /\ \A g \in Handles : m[g] = IF g = h THEN node ELSE ns[g]
  BY <1>1 DEF NodesOK
<1>3. \A g \in Handles : m[g] # NIL => NodeOK(f, m[g])
  BY <1>2 DEF NodesOK
<1>4. NodesOK(f, m)
  BY <1>2, <1>3 DEF NodesOK
<1> QED
  BY <1>1, <1>4

LEMMA NodeIs ==
  ASSUME NEW path, NEW c, NEW p, NEW s
  PROVE  /\ Node(path, c, p, s).cluster = c /\ Node(path, c, p, s).size = s
         /\ \A z : [Node(path, c, p, s) EXCEPT !.size = z] = Node(path, c, p, z)
BY DEF Node

LEMMA InitFine == Init => FInv
<1> SUFFICES ASSUME Init PROVE FInv
  OBVIOUS
<1>1. PICK f, s, l : /\ f = [c \in Cluster |-> IF c = root_cluster THEN END ELSE 0]
                     /\ s = [c \in Cluster |-> [k \in 1 .. Slots |-> Free]]
                     /\ l = [c \in Cluster |-> [k \in 0 .. Cells - 1 |-> NIL]]
  OBVIOUS
<1>2. vol = Vol(f, s, l)
  BY <1>1 DEF Init, Vol
<1>3. f \in FatType /\ s \in SlotsType /\ l \in CellsType
  BY <1>1, SlotKinds DEF FatType, SlotsType, CellsType
<1>4. vol.fat = f /\ vol.slots = s /\ vol \in VolType
  BY <1>2, <1>3, VolMake
<1>5. \A c \in Cluster : f[c] \notin Cluster /\ (f[c] # 0 <=> c = root_cluster)
  BY <1>1, ClusterNat
<1>6. FatOK(f)
  <2>1. \A c, d \in Cluster : c < d /\ f[d] # 0 => f[c] # 0
    BY <1>5, ClusterNat DEF root_cluster
  <2> QED
    BY <1>3, <1>5, <2>1 DEF FatOK, FatType, LinksUp
<1>7. IsStart(f, root_cluster)
  BY <1>5, ClusterNat DEF IsStart
<1>8. \A x \in Where : At(s, x) = Free
  BY <1>1 DEF Where, At
<1>9. Owned(f, s)
  BY <1>8, SlotKinds DEF Owned
<1>10. VolOK(vol)
  BY <1>4, <1>6, <1>7, <1>9 DEF VolOK
<1>11. NodesOK(vol.fat, nodes)
  BY DEF Init, NodesOK
<1> QED
  BY <1>10, <1>11 DEF FInv

LEMMA OpenFine ==
  ASSUME FInv, NEW h \in Handles, NEW path \in Paths, NEW trunc \in BOOLEAN, Open(h, path, trunc)
  PROVE  FInv'
<1>1. PICK at, e, node : /\ at = fat32_finddir(vol, DirCluster(vol, path[1]), path[2]) /\ e = Slot(vol, at)
                         /\ node = Node(path, e.cluster, at[1], IF trunc THEN 0 ELSE e.size)
  OBVIOUS
<1>2. /\ IsDir(vol, path[1]) /\ Found(vol, DirCluster(vol, path[1]), path[2]) # {}
      /\ nodes' = [nodes EXCEPT ![h] = node]
      /\ vol' = IF trunc THEN fat32_update_dir_entry(vol, node, 0) ELSE vol
  BY <1>1 DEF Open, Exists
<1>3. VolOK(vol) /\ NodesOK(vol.fat, nodes) /\ MaxSize \in Nat
  BY Fat32Assumption DEF FInv
<1>4. at \in Where /\ e = At(vol.slots, at) /\ IsStart(vol.fat, e.cluster) /\ IsEntry(e)
  BY <1>1, <1>2, <1>3, NamesIn, FoundEntry
<1>5. e.size \in 0 .. MaxSize
  <2>1. e \in SlotValue
    BY <1>1, <1>2, <1>3, FoundPlaces
  <2>2. e \in [kind : {"file", "dir"}, name : Name \cup {".", ".."}, cluster : Cluster, size : 0 .. MaxSize]
    BY <1>4, <2>1, SlotKinds DEF IsEntry
  <2> QED
    BY <2>2
<1>6. NodeOK(vol.fat, node)
  <2>1. PICK s : s = IF trunc THEN 0 ELSE e.size
    OBVIOUS
  <2>2. s \in 0 .. MaxSize
    BY <1>3, <1>5, <2>1
  <2> QED
    BY <1>1, <1>4, <2>1, <2>2 DEF NodeOK
<1>7. NodesOK(vol.fat, nodes')
  BY <1>2, <1>3, <1>6, NodeSet
<1>8. Fine(vol, vol')
  <2>1. CASE trunc
    BY <1>2, <1>3, <2>1, UpdateEntry
  <2>2. CASE ~trunc
    BY <1>2, <1>3, <2>2 DEF Fine, StartsKept
  <2> QED
    BY <2>1, <2>2
<1> QED
  BY <1>7, <1>8, NodesKept DEF Fine, FInv

LEMMA OpenCreateFine ==
  ASSUME FInv, NEW h \in Handles, NEW path \in Paths, OpenCreate(h, path)
  PROVE  FInv'
<1>1. PICK c, new, node : /\ c = DirCluster(vol, path[1]) /\ new = fat32_create(vol, c, path[2])
                          /\ node = Node(path, new.cluster, new.parent, 0)
  OBVIOUS
<1>2. /\ IsDir(vol, path[1]) /\ Cardinality(FreeClusters(vol)) >= Needed(vol, c, path[2])
      /\ vol' = new.vol /\ nodes' = [nodes EXCEPT ![h] = node]
  BY <1>1 DEF OpenCreate
<1>3. VolOK(vol) /\ NodesOK(vol.fat, nodes)
  BY DEF FInv
<1>4. NewName(vol, c, path[2])
  <2>1. IsStart(vol.fat, c) /\ path[2] \in Name
    BY <1>1, <1>2, <1>3, NamesIn, DirStarts
  <2> QED
    BY <1>2, <1>3, <2>1 DEF NewName
<1>5. Fine(vol, vol') /\ IsStart(vol'.fat, new.cluster)
  BY <1>1, <1>2, <1>4, CreateFile
<1>6. NodeOK(vol'.fat, node)
  BY <1>1, <1>5, Fat32Assumption DEF NodeOK
<1>7. NodesOK(vol'.fat, nodes)
  BY <1>3, <1>5, NodesKept DEF Fine
<1>8. NodesOK(vol'.fat, nodes')
  BY <1>2, <1>6, <1>7, NodeSet
<1> QED
  BY <1>5, <1>8 DEF Fine, FInv
LEMMA CloseFine ==
  ASSUME FInv, NEW h \in Handles, Close(h)
  PROVE  FInv'
<1>1. vol' = vol /\ nodes' = [nodes EXCEPT ![h] = NIL]
  BY DEF Close
<1>2. NodesOK(vol.fat, nodes')
  BY <1>1, NodeSet DEF FInv
<1> QED
  BY <1>1, <1>2 DEF FInv

LEMMA WriteFine ==
  ASSUME FInv, NEW h \in Handles, NEW off \in 0 .. MaxSize, NEW n \in 1 .. MaxWrite, NEW x \in Val,
         fat32_write(h, off, n, x)
  PROVE  FInv'
<1>1. PICK node, size, grown, done :
        /\ node = nodes[h] /\ size = Max({node.size, off + n})
        /\ grown = WrittenTo(h, off, n) /\ done = Written(h, off, n)
  OBVIOUS
<1>2. /\ node # NIL /\ size <= MaxSize /\ nodes' = [nodes EXCEPT ![h].size = size]
      /\ vol' = IF done = 0 THEN grown
                ELSE fat32_update_dir_entry(Put(grown, Chain(grown, node.cluster), off, done, x), node, size)
  BY <1>1 DEF fat32_write
<1>3. VolOK(vol) /\ NodesOK(vol.fat, nodes) /\ MaxSize \in Nat /\ MaxWrite \in Nat
      /\ Cells \in Nat /\ Cells > 0
  BY Fat32Assumption DEF FInv
<1>4. PICK path, c, p, s : node = Node(path, c, p, s) /\ IsStart(vol.fat, c) /\ s \in 0 .. MaxSize
  BY <1>1, <1>2, <1>3 DEF NodesOK, NodeOK
<1>5. node.cluster = c /\ node.size = s
  BY <1>4, NodeIs
<1>6. off \in Nat /\ n \in Nat /\ size \in 0 .. MaxSize
  <2>1. off + n \in Nat /\ s \in Nat /\ off \in Nat /\ n \in Nat
    BY <1>3, <1>4
  <2>2. PICK b \in Nat : b = off + n
    BY <2>1
  <2>3. size = Max({s, b})
    BY <1>1, <1>5, <2>2
  <2>4. s \in Int /\ b \in Int
    BY <2>1
  <2>5. size \in {s, b}
    BY <2>3, <2>4, MaxTwo
  <2> QED
    BY <1>2, <1>3, <2>1, <2>5
<1>7. Fine(vol, grown) /\ VolOK(grown)
  <2>1. ((off + n - 1) \div Cells) + 1 \in Int
    BY <1>3, <1>6
  <2>2. grown = Grown(vol, c, ((off + n - 1) \div Cells) + 1)
    BY <1>1, <1>5 DEF WrittenTo
  <2> QED
    BY <1>3, <1>4, <2>1, <2>2, GrownFine DEF Fine
<1>8. done \in Nat
  <2>1. PICK k : k = Len(Chain(grown, c))
    OBVIOUS
  <2>2. k \in Nat
    <3>1. c \in Cluster /\ LinksUp(grown.fat)
      BY <1>4, <1>7 DEF IsStart, VolOK, FatOK
    <3>2. ChainOf(Chain(grown, c), grown.fat, c)
      BY <3>1, ChainIs
    <3> QED
      BY <2>1, <3>2, WalkFields DEF ChainOf
  <2>3. PICK r : r = k * Cells - off
    OBVIOUS
  <2>4. r \in Int
    BY <1>3, <1>6, <2>2, <2>3
  <2>5. PICK m : m = Min({n, r})
    OBVIOUS
  <2>6. m \in Int
    <3>1. n \in Int
      BY <1>6
    <3>2. m \in {n, r}
      BY <2>4, <2>5, <3>1, MaxTwo
    <3> QED
      BY <2>4, <3>1, <3>2
  <2>7. done = Max({0, m})
    BY <1>1, <1>5, <2>1, <2>3, <2>5 DEF Written
  <2> QED
    BY <2>6, <2>7, MaxTwo
<1>9. Fine(vol, vol')
  <2>1. CASE done = 0
    BY <1>2, <1>7, <2>1
  <2>2. CASE done # 0
    <3>1. PICK put : put = Put(grown, Chain(grown, node.cluster), off, done, x)
      OBVIOUS
    <3>2. Fine(grown, put)
      BY <1>7, <1>8, <3>1, PutFine
    <3>3. Fine(put, vol')
      BY <1>2, <1>6, <2>2, <3>1, <3>2, UpdateEntry DEF Fine
    <3>4. Fine(vol, put)
      BY <1>7, <3>2, FineTwice
    <3> QED
      BY <3>3, <3>4, FineTwice
  <2> QED
    BY <2>1, <2>2
<1>10. nodes' = [nodes EXCEPT ![h] = Node(path, c, p, size)]
  <2>1. nodes = [g \in Handles |-> nodes[g]]
    BY <1>3 DEF NodesOK
  <2>2. [node EXCEPT !.size = size] = Node(path, c, p, size)
    BY <1>4, NodeIs
  <2>3. PICK ns : ns = nodes
    OBVIOUS
  <2>4. [ns EXCEPT ![h].size = size] = [ns EXCEPT ![h] = [node EXCEPT !.size = size]]
    BY <1>1, <2>1, <2>3
  <2> QED
    BY <1>2, <2>2, <2>3, <2>4
<1>11. NodesOK(vol.fat, nodes')
  <2>1. NodeOK(vol.fat, Node(path, c, p, size))
    BY <1>4, <1>6 DEF NodeOK
  <2> QED
    BY <1>3, <1>10, <2>1, NodeSet
<1> QED
  BY <1>9, <1>11, NodesKept DEF Fine, FInv

LEMMA UnlinkFine ==
  ASSUME FInv, NEW path \in Paths, fat32_unlink(path)
  PROVE  FInv'
<1>1. PICK at : at = fat32_finddir(vol, DirCluster(vol, path[1]), path[2])
  OBVIOUS
<1>2. /\ Found(vol, DirCluster(vol, path[1]), path[2]) # {} /\ nodes' = nodes
      /\ vol' = fat32_delete_lfn_chain(vol, at)
  BY <1>1 DEF fat32_unlink, Exists
<1>3. at \in Where
  BY <1>1, <1>2, FoundPlaces DEF FInv
<1>4. Fine(vol, vol')
  BY <1>2, <1>3, DeleteEntry DEF FInv
<1> QED
  BY <1>2, <1>4, NodesKept DEF Fine, FInv

LEMMA MkdirFine ==
  ASSUME FInv, NEW d \in DirNames, sys_mkdir(d)
  PROVE  FInv'
<1>1. /\ Cardinality(FreeClusters(vol)) >= Needed(vol, root_cluster, d)
      /\ vol' = fat32_mkdir(vol, root_cluster, d) /\ nodes' = nodes
  BY DEF sys_mkdir
<1>2. NewName(vol, root_cluster, d)
  BY <1>1, NamesIn DEF NewName, FInv, VolOK
<1>3. Fine(vol, vol')
  BY <1>1, <1>2, CreateDir
<1> QED
  BY <1>1, <1>3, NodesKept DEF Fine, FInv

LEMMA RmdirFine ==
  ASSUME FInv, NEW d \in DirNames, fat32_rmdir(d)
  PROVE  FInv'
<1>1. PICK at : at = fat32_finddir(vol, root_cluster, d)
  OBVIOUS
<1>2. IsDir(vol, d) /\ vol' = fat32_delete_lfn_chain(vol, at) /\ nodes' = nodes
  BY <1>1 DEF fat32_rmdir
<1>3. at \in Where
  <2>1. Found(vol, root_cluster, d) # {}
    BY <1>2, NamesIn DEF IsDir
  <2> QED
    BY <1>1, <2>1, FoundPlaces DEF FInv
<1>4. Fine(vol, vol')
  BY <1>2, <1>3, DeleteEntry DEF FInv
<1> QED
  BY <1>2, <1>4, NodesKept DEF Fine, FInv

LEMMA AbandonedFine ==
  ASSUME FInv, Abandoned
  PROVE  FInv'
<1>1. FreeClusters(vol) # {} /\ nodes' = nodes /\ VolOK(vol)
  BY DEF Abandoned, FInv
<1>2. CASE vol' = fat32_allocate_cluster(vol)
  <2>1. Fine(vol, vol')
    BY <1>1, <1>2, AllocVol DEF TakenFrom, Fine
  <2> QED
    BY <1>1, <2>1, NodesKept DEF Fine, FInv
<1>3. ASSUME NEW path \in Paths \cup ({Root} \X DirNames), IsDir(vol, path[1]),
             NEW c, c = DirCluster(vol, path[1]), vol' = Extend(vol, Chain(vol, c)[Len(Chain(vol, c))])
      PROVE  FInv'
  <2>1. path[1] \in DirNames \cup {Root}
    BY NamesIn
  <2>2. IsStart(vol.fat, c)
    BY <1>1, <1>3, <2>1, DirStarts
  <2>3. c \in Cluster /\ vol.fat[c] # 0
    BY <2>2 DEF IsStart
  <2>4. vol' = Extend(vol, LastOf(vol, c))
    BY <1>3 DEF LastOf
  <2>5. TakenFrom(vol, vol', Allocated(vol))
    BY <1>1, <2>3, <2>4, ExtendVol
  <2>6. Fine(vol, vol')
    BY <2>5 DEF TakenFrom, Fine
  <2> QED
    BY <1>1, <2>6, NodesKept DEF Fine, FInv
<1> QED
  BY <1>2, <1>3 DEF Abandoned

LEMMA RebootFine ==
  ASSUME ~PowerLoss, FInv, Reboot
  PROVE  FInv'
<1>1. vol.fat = fat_disk /\ vol' = [vol EXCEPT !.fat = fat_disk] /\ nodes' = [h \in Handles |-> NIL]
  BY DEF Reboot
<1>2. vol' = vol
  <2>1. vol = Vol(vol.fat, vol.slots, vol.cells)
    BY VolFields DEF FInv, VolOK
  <2> QED
    BY <1>1, <2>1 DEF Vol
<1>3. NodesOK(vol.fat, nodes')
  BY <1>1 DEF NodesOK
<1> QED
  BY <1>2, <1>3 DEF FInv

LEMMA NextFine ==
  ASSUME ~PowerLoss, FInv, [Next]_vars
  PROVE  FInv'
<1>1. CASE UNCHANGED vars
  BY <1>1 DEF vars, FInv
<1>2. ASSUME NEW h \in Handles, NEW path \in Paths,
             OpenCreate(h, path) \/ \E trunc \in BOOLEAN : Open(h, path, trunc)
      PROVE  FInv'
  BY <1>2, OpenCreateFine, OpenFine
<1>3. ASSUME NEW h \in Handles, Close(h) PROVE FInv'
  BY <1>3, CloseFine
<1>4. ASSUME NEW h \in Handles, NEW off \in 0 .. MaxSize, NEW n \in 1 .. MaxWrite, NEW x \in Val,
             fat32_write(h, off, n, x)
      PROVE  FInv'
  BY <1>4, WriteFine
<1>5. ASSUME NEW path \in Paths, fat32_unlink(path) PROVE FInv'
  BY <1>5, UnlinkFine
<1>6. ASSUME NEW d \in DirNames, sys_mkdir(d) \/ fat32_rmdir(d) PROVE FInv'
  BY <1>6, MkdirFine, RmdirFine
<1>7. CASE Abandoned
  BY <1>7, AbandonedFine
<1>8. CASE Reboot
  BY <1>8, RebootFine
<1> QED
  BY <1>1, <1>2, <1>3, <1>4, <1>5, <1>6, <1>7, <1>8 DEF Next
-----------------------------------------------------------------------------
(* Every name has a chain of its own.                                      *)

LEMMA DirsApart ==
  ASSUME NEW v, VolOK(v), NEW d \in DirNames \cup {Root}, NEW e \in DirNames \cup {Root},
         IsDir(v, d), IsDir(v, e), DirCluster(v, d) = DirCluster(v, e)
  PROVE  d = e
<1>1. CASE d = Root \/ e = Root
  <2>1. DirCluster(v, Root) = root_cluster
    BY DEF DirCluster
  <2> QED
    BY <1>1, <2>1, DirStarts
<1>2. CASE d # Root /\ e # Root
  <2>1. PICK x, y : x = fat32_finddir(v, root_cluster, d) /\ y = fat32_finddir(v, root_cluster, e)
    OBVIOUS
  <2>2. /\ x \in Where /\ IsEntry(At(v.slots, x)) /\ At(v.slots, x).name = d
        /\ DirCluster(v, d) = At(v.slots, x).cluster
    BY <1>2, <2>1, DirStarts, FoundEntry
  <2>3. /\ y \in Where /\ IsEntry(At(v.slots, y)) /\ At(v.slots, y).name = e
        /\ DirCluster(v, e) = At(v.slots, y).cluster
    BY <1>2, <2>1, DirStarts, FoundEntry
  <2>4. x = y
    BY <2>2, <2>3 DEF VolOK, Owned
  <2> QED
    BY <2>2, <2>3, <2>4
<1> QED
  BY <1>1, <1>2

LEMMA FileIs ==
  ASSUME VolOK(vol), NEW path \in Files
  PROVE  /\ path \in Paths /\ path[1] \in DirNames \cup {Root} /\ IsDir(vol, path[1])
         /\ Place(path) \in Where /\ IsEntry(At(vol.slots, Place(path)))
         /\ At(vol.slots, Place(path)).name = path[2]
         /\ FileEntry(path).cluster = At(vol.slots, Place(path)).cluster
         /\ IsStart(vol.fat, FileEntry(path).cluster) /\ FileEntry(path).cluster # root_cluster
         /\ InChain(vol, DirCluster(vol, path[1]), Place(path))
<1>1. path \in Paths /\ IsDir(vol, path[1]) /\ Found(vol, DirCluster(vol, path[1]), path[2]) # {}
  BY DEF Files, Exists
<1>2. path[1] \in DirNames \cup {Root} /\ path[2] \in Name
  BY <1>1, NamesIn
<1>3. PICK x : x = Place(path)
  OBVIOUS
<1>4. /\ x \in Where /\ InChain(vol, DirCluster(vol, path[1]), x) /\ IsEntry(At(vol.slots, x))
      /\ At(vol.slots, x).name = path[2] /\ Slot(vol, x) = At(vol.slots, x)
      /\ IsStart(vol.fat, Slot(vol, x).cluster) /\ Slot(vol, x).cluster # root_cluster
  BY <1>1, <1>2, <1>3, FoundEntry DEF Place
<1> QED
  BY <1>1, <1>2, <1>3, <1>4 DEF FileEntry

LEMMA FilesApart ==
  ASSUME VolOK(vol), NEW p \in Files, NEW q \in Files, FileEntry(p).cluster = FileEntry(q).cluster
  PROVE  p = q
<1>1. PICK x, a, b : x = Place(p) /\ a = DirCluster(vol, p[1]) /\ b = DirCluster(vol, q[1])
  OBVIOUS
<1>2. Place(q) = x
  BY <1>1, FileIs DEF VolOK, Owned
<1>3. p[2] = q[2]
  BY <1>1, <1>2, FileIs
<1>4. InChain(vol, a, x) /\ InChain(vol, b, x) /\ IsStart(vol.fat, a) /\ IsStart(vol.fat, b)
  BY <1>1, <1>2, FileIs, DirStarts
<1>5. a = b
  <2> SUFFICES ASSUME a # b PROVE FALSE
    OBVIOUS
  <2>1. PICK A, B, f : A = Chain(vol, a) /\ B = Chain(vol, b) /\ f = vol.fat
    OBVIOUS
  <2>2. FatOK(f) /\ IsStart(f, a) /\ IsStart(f, b)
    BY <1>4, <2>1 DEF VolOK
  <2>3. ChainOf(A, f, a) /\ ChainOf(B, f, b)
    BY <2>1, <2>2, ChainIs DEF FatOK, IsStart
  <2>4. \A i \in 1 .. Len(A), j \in 1 .. Len(B) : A[i] # B[j]
    BY <2>2, <2>3, ChainsApart
  <2> QED
    BY <1>4, <2>1, <2>4 DEF InChain
<1>6. p[1] = q[1]
  BY <1>1, <1>5, FileIs, DirsApart
<1>7. p = <<p[1], p[2]>> /\ q = <<q[1], q[2]>>
  BY FileIs, NamesIn
<1> QED
  BY <1>3, <1>6, <1>7

LEMMA DirFileApart ==
  ASSUME VolOK(vol), NEW d \in Dirs \cup {Root}, NEW path \in Files
  PROVE  DirCluster(vol, d) # FileEntry(path).cluster
<1>1. CASE d = Root
  BY <1>1, FileIs DEF DirCluster
<1>2. CASE d # Root
  <2>1. d \in DirNames /\ IsDir(vol, d)
    BY <1>2 DEF Dirs
  <2>2. PICK x, y : x = fat32_finddir(vol, root_cluster, d) /\ y = Place(path)
    OBVIOUS
  <2>3. /\ x \in Where /\ IsEntry(At(vol.slots, x)) /\ At(vol.slots, x).name = d
        /\ DirCluster(vol, d) = At(vol.slots, x).cluster
    BY <1>2, <2>1, <2>2, DirStarts, FoundEntry
  <2>4. /\ y \in Where /\ IsEntry(At(vol.slots, y)) /\ At(vol.slots, y).name \notin DirNames
        /\ FileEntry(path).cluster = At(vol.slots, y).cluster
    BY <2>2, FileIs, NamesIn
  <2> QED
    BY <2>1, <2>3, <2>4 DEF VolOK, Owned
<1> QED
  BY <1>1, <1>2

LEMMA StartIs ==
  ASSUME VolOK(vol), NEW s \in Starts
  PROVE  \/ \E d \in Dirs \cup {Root} : s = <<DirCluster(vol, d), d>>
         \/ \E path \in Files : s = <<FileEntry(path).cluster, path>>
BY DEF Starts

LEMMA StartsApart ==
  ASSUME VolOK(vol), NEW s \in Starts
  PROVE  /\ IsStart(vol.fat, s[1])
         /\ \A t \in Starts : s # t => s[1] # t[1]
<1>1. \A d \in Dirs \cup {Root} : d \in DirNames \cup {Root} /\ IsDir(vol, d)
  BY DEF Dirs, IsDir
<1>2. CASE \E d \in Dirs \cup {Root} : s = <<DirCluster(vol, d), d>>
  <2>1. PICK d \in Dirs \cup {Root} : s = <<DirCluster(vol, d), d>>
    BY <1>2
  <2>2. IsStart(vol.fat, s[1])
    BY <1>1, <2>1, DirStarts
  <2>3. ASSUME NEW t \in Starts, s # t PROVE s[1] # t[1]
    <3>1. CASE \E e \in Dirs \cup {Root} : t = <<DirCluster(vol, e), e>>
      <4>1. PICK e \in Dirs \cup {Root} : t = <<DirCluster(vol, e), e>>
        BY <3>1
      <4>2. d # e
        BY <2>1, <2>3, <4>1
      <4>3. DirCluster(vol, d) # DirCluster(vol, e)
        BY <1>1, <4>2, DirsApart
      <4> QED
        BY <2>1, <4>1, <4>3
    <3>2. CASE \E path \in Files : t = <<FileEntry(path).cluster, path>>
      BY <2>1, <3>2, DirFileApart
    <3> QED
      BY <3>1, <3>2, StartIs
  <2> QED
    BY <2>2, <2>3
<1>3. CASE \E path \in Files : s = <<FileEntry(path).cluster, path>>
  <2>1. PICK p \in Files : s = <<FileEntry(p).cluster, p>>
    BY <1>3
  <2>2. IsStart(vol.fat, s[1])
    BY <2>1, FileIs
  <2>3. ASSUME NEW t \in Starts, s # t PROVE s[1] # t[1]
    <3>1. CASE \E e \in Dirs \cup {Root} : t = <<DirCluster(vol, e), e>>
      BY <2>1, <3>1, DirFileApart
    <3>2. CASE \E path \in Files : t = <<FileEntry(path).cluster, path>>
      <4>1. PICK q \in Files : t = <<FileEntry(q).cluster, q>>
        BY <3>2
      <4>2. p # q
        BY <2>1, <2>3, <4>1
      <4>3. FileEntry(p).cluster # FileEntry(q).cluster
        BY <4>2, FilesApart
      <4> QED
        BY <2>1, <4>1, <4>3
    <3> QED
      BY <3>1, <3>2, StartIs
  <2> QED
    BY <2>2, <2>3
<1> QED
  BY <1>2, <1>3, StartIs

LEMMA FineDisjoint == VolOK(vol) => ChainsDisjoint
<1> SUFFICES ASSUME VolOK(vol) PROVE ChainsDisjoint
  OBVIOUS
<1>1. TypeOK
  <2>1. vol.fat \in FatType /\ vol.slots \in SlotsType /\ vol.cells \in CellsType
    BY VolFields DEF VolOK
  <2>2. \A c \in Cluster : Range(vol.slots[c]) \subseteq SlotValue
    <3> TAKE c \in Cluster
    <3>1. PICK t : t = vol.slots[c]
      OBVIOUS
    <3>2. t \in [1 .. Slots -> SlotValue]
      BY <2>1, <3>1 DEF SlotsType
    <3>3. \A k \in DOMAIN t : t[k] \in SlotValue
      BY <3>2
    <3>4. Range(t) \subseteq SlotValue
      BY <3>3 DEF Range
    <3> QED
      BY <3>1, <3>4
  <2> QED
    BY <2>1, <2>2 DEF TypeOK, FatType, CellsType
<1>2. PICK f : f = vol.fat /\ FatOK(f)
  BY DEF VolOK
<1>3. \A s \in Starts : IsStart(f, s[1]) /\ ChainOf(Chain(vol, s[1]), f, s[1])
  <2> TAKE s \in Starts
  <2>1. IsStart(f, s[1])
    BY <1>2, StartsApart
  <2>2. s[1] \in Cluster /\ LinksUp(vol.fat)
    BY <1>2, <2>1 DEF IsStart, FatOK
  <2> QED
    BY <1>2, <2>1, <2>2, ChainIs
<1>4. ASSUME NEW s \in Starts
      PROVE  Chain(vol, s[1]) # <<>> /\ f[Chain(vol, s[1])[Len(Chain(vol, s[1]))]] = END
  <2>1. PICK A, c : A = Chain(vol, s[1]) /\ c = s[1]
    OBVIOUS
  <2>2. ChainOf(A, f, c) /\ f[c] # 0
    BY <1>3, <2>1 DEF IsStart
  <2>3. f[A[Len(A)]] = END
    BY <1>2, <2>2, ChainUsed
  <2> QED
    BY <2>1, <2>2, <2>3 DEF ChainOf, Walk
<1>5. ASSUME NEW s \in Starts, NEW t \in Starts, s # t
      PROVE  Range(Chain(vol, s[1])) \cap Range(Chain(vol, t[1])) = {}
  <2>1. PICK A, B, a, b : A = Chain(vol, s[1]) /\ B = Chain(vol, t[1]) /\ a = s[1] /\ b = t[1]
    OBVIOUS
  <2>2. ChainOf(A, f, a) /\ ChainOf(B, f, b) /\ IsStart(f, a) /\ IsStart(f, b)
    BY <1>3, <2>1
  <2>3. a # b
    BY <1>5, <2>1, StartsApart
  <2>4. \A i \in 1 .. Len(A), j \in 1 .. Len(B) : A[i] # B[j]
    BY <1>2, <2>2, <2>3, ChainsApart
  <2>5. DOMAIN A = 1 .. Len(A) /\ DOMAIN B = 1 .. Len(B)
    BY <2>2, WalkFields DEF ChainOf
  <2> QED
    BY <2>1, <2>4, <2>5 DEF Range
<1>6. \A s \in Starts :
        /\ Chain(vol, s[1]) # <<>> /\ vol.fat[Chain(vol, s[1])[Len(Chain(vol, s[1]))]] = END
        /\ \A t \in Starts : s # t => Range(Chain(vol, s[1])) \cap Range(Chain(vol, t[1])) = {}
  BY <1>2, <1>4, <1>5
<1> QED
  BY <1>1, <1>6 DEF ChainsDisjoint

(* The chains of all files and directories are whole and disjoint, when    *)
(* the power fails only while the FAT on the disk is the one in memory.    *)
(* After other failures the clusters of entries that fat32_create() or     *)
(* fat32_mkdir() has made are free again (fat32.c:1629), and are handed    *)
(* out a second time.                                                      *)
THEOREM ChainsStayDisjoint ==
  ASSUME ~PowerLoss
  PROVE  Spec => []ChainsDisjoint
<1>1. Init => FInv
  BY InitFine
<1>2. FInv /\ [Next]_vars => FInv'
  BY NextFine
<1>3. FInv => ChainsDisjoint
  BY FineDisjoint DEF FInv
<1> QED
  BY <1>1, <1>2, <1>3, PTL DEF Spec
=============================================================================
