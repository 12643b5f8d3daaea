----------------------------- MODULE Fat16Proofs -----------------------------
(***************************************************************************)
(* Proofs about module Fat16, for every size of the volume, of the table   *)
(* and of the directory and every number of failures and restarts: the     *)
(* chains of two directory entries share no cluster, end at an end mark,   *)
(* and are long enough for the files; while no file is written by path     *)
(* with a node for it open, what was reported as written is on the disk,   *)
(* and without failures nothing is left behind.                            *)
(*                                                                         *)
(* The table on the disk is not the table the driver works with: one       *)
(* sector of it is in the cache and may be newer.  The argument is about   *)
(* both, the disk's (Table) and the driver's (View).  At most one sector   *)
(* is pending, so each flush makes the first equal to the second: the disk *)
(* always holds an earlier state of the driver's table.                    *)
(***************************************************************************)
EXTENDS Fat16, FiniteSetTheorems, WellFoundedInduction, TLAPS
-----------------------------------------------------------------------------
(***************************************************************************)
(* Induction and recursion over the natural numbers in a form that the     *)
(* provers can instantiate: the library's theorems take operators as       *)
(* parameters, these take sets and functions.  A chain is walked by a      *)
(* function f[k \in Nat], that is a CHOOSE, and nothing is known of such a *)
(* function until one is shown to exist.                                   *)
(***************************************************************************)
Below == {p \in Nat \X Nat : p[1] < p[2]}

\* The order of the natural numbers as a set of pairs is well founded.
LEMMA BelowWellFounded == IsWellFoundedOn(Below, Nat)
  BY NatLessThanWellFounded, Zenon DEF OpToRel, Below

\* A nonempty set of natural numbers has a least element.
LEMMA LeastElement ==
  ASSUME NEW S \in SUBSET Nat, S # {}
  PROVE  \E m \in S : \A n \in S : m <= n
<1>1. PICK x \in S : \A y \in S : ~ (<<y, x>> \in Below)
  BY BelowWellFounded, WFMin
<1>2. ASSUME NEW y \in S PROVE x <= y
  <2>1. x \in Nat /\ y \in Nat
    OBVIOUS
  <2>2. <<y, x>> \in Nat \X Nat
    BY <2>1
  <2>3. ~(y < x)
    BY <1>1, <2>2 DEF Below
  <2> QED
    BY <2>1, <2>3
<1> QED
  BY <1>2

\* A set that contains 0 and the successor of each of its numbers contains
\* all natural numbers.
LEMMA SetInduction ==
  ASSUME NEW S, 0 \in S, \A n \in Nat : n \in S => n + 1 \in S
  PROVE  \A n \in Nat : n \in S
<1> SUFFICES ASSUME Nat \ S # {} PROVE FALSE
  OBVIOUS
<1>1. PICK m \in Nat \ S : \A n \in Nat \ S : m <= n
  BY LeastElement
<1>2. m # 0 /\ m - 1 \in Nat /\ m - 1 \in S
  BY <1>1
<1> QED
  BY <1>1, <1>2

\* The iteration of a function exists: it is the limit of its finite parts,
\* any two of which agree where both are defined.
LEMMA IterationExists ==
  ASSUME NEW V, NEW v0 \in V, NEW step \in [V -> V]
  PROVE  \E f \in [Nat -> V] : f[0] = v0 /\ \A n \in Nat : f[n + 1] = step[f[n]]
<1> DEFINE Part(g, m) == g[0] = v0 /\ \A n \in 0..(m - 1) : g[n + 1] = step[g[n]]
           Good == {m \in Nat : \E g \in [0..m -> V] : Part(g, m)}
<1>1. Good = Nat
  <2>1. 0 \in Good
    <3>1. [i \in 0..0 |-> v0] \in [0..0 -> V]
      OBVIOUS
    <3>2. Part([i \in 0..0 |-> v0], 0)
      OBVIOUS
    <3> QED
      BY <3>1, <3>2
  <2>2. ASSUME NEW m \in Nat, m \in Good PROVE m + 1 \in Good
    <3>1. PICK g \in [0..m -> V] : Part(g, m)
      BY <2>2
    <3> DEFINE h == [i \in 0..(m + 1) |-> IF i <= m THEN g[i] ELSE step[g[m]]]
    <3>2. h \in [0..(m + 1) -> V]
      OBVIOUS
    <3>3. Part(h, m + 1)
      BY <3>1
    <3> HIDE DEF Part, h
    <3>4. \E hh \in [0..(m + 1) -> V] : Part(hh, m + 1)
      BY <3>2, <3>3
    <3> QED
      BY <3>4
  <2> HIDE DEF Good
  <2>3. \A n \in Nat : n \in Good
    BY <2>1, <2>2, SetInduction
  <2> QED
    BY <2>3 DEF Good
<1>2. ASSUME NEW m \in Nat, NEW k \in Nat, m <= k, NEW g \in [0..m -> V],
             NEW h \in [0..k -> V], Part(g, m), Part(h, k)
      PROVE  \A i \in 0..m : g[i] = h[i]
  <2> DEFINE T == {i \in Nat : i <= m => g[i] = h[i]}
  <2>1. 0 \in T
    BY <1>2
  <2>2. ASSUME NEW n \in Nat, n \in T PROVE n + 1 \in T
    <3> SUFFICES ASSUME n + 1 <= m PROVE g[n + 1] = h[n + 1]
      OBVIOUS
    <3>1. g[n + 1] = step[g[n]] /\ h[n + 1] = step[h[n]] /\ g[n] = h[n]
      BY <1>2, <2>2
    <3> QED
      BY <3>1
  <2> HIDE DEF T
  <2>3. \A n \in Nat : n \in T
    BY <2>1, <2>2, SetInduction
  <2> QED
    BY <2>3 DEF T
<1> HIDE DEF Part
<1> DEFINE G(m) == CHOOSE g \in [0..m -> V] : Part(g, m)
<1>3. ASSUME NEW m \in Nat PROVE G(m) \in [0..m -> V] /\ Part(G(m), m)
  <2>1. \E g \in [0..m -> V] : Part(g, m)
    BY <1>1
  <2> QED
    BY <2>1, Zenon
<1> HIDE DEF G
<1> DEFINE F == [m \in Nat |-> G(m)[m]]
<1>4. F \in [Nat -> V]
  <2>1. ASSUME NEW m \in Nat PROVE G(m)[m] \in V
    <3>1. m \in 0..m
      OBVIOUS
    <3> QED
      BY <1>3, <3>1
  <2> QED
    BY <2>1
<1>5. F[0] = v0
  BY <1>3 DEF Part
<1>6. ASSUME NEW n \in Nat PROVE F[n + 1] = step[F[n]]
  <2>1. G(n) \in [0..n -> V] /\ Part(G(n), n)
    BY <1>3
  <2>2. G(n + 1) \in [0..(n + 1) -> V] /\ Part(G(n + 1), n + 1)
    <3>1. n + 1 \in Nat
      OBVIOUS
    <3> QED
      BY <1>3, <3>1
  <2>3. G(n)[n] = G(n + 1)[n]
    <3>1. n + 1 \in Nat /\ n <= n + 1 /\ n \in 0..n
      OBVIOUS
    <3> QED
      BY <1>2, <2>1, <2>2, <3>1
  <2>4. G(n + 1)[n + 1] = step[G(n + 1)[n]]
    BY <2>2 DEF Part
  <2> QED
    BY <2>3, <2>4
<1> HIDE DEF F
<1> QED
  BY <1>4, <1>5, <1>6
-----------------------------------------------------------------------------
Table == fats[1]
View  == IF cache.dirty THEN Patched(Table, cache.bytes) ELSE Table

Value == {0, EndMark} \cup Clusters
Loaded(s) == {k \in Entries : Sector(k) = s}

\* Records and functions have their fields and domains.
Shape ==
  /\ DOMAIN op = DOMAIN Idle /\ (op.pc = "idle" => op = Idle)
  /\ DOMAIN cache = {"lba", "bytes", "dirty"}
  /\ DOMAIN node = {"slot", "start", "size"}
  /\ DOMAIN dir = Slots /\ DOMAIN fats = 1..NumFats

\* The cached sector: that of the disk unless it is pending.
CacheSound(ca, T) ==
  /\ ca.dirty \in BOOLEAN
  /\ ca.bytes # <<>> => ca.bytes \in [Loaded(ca.lba) -> Value]
  /\ ~ca.dirty /\ ca.bytes # <<>> => ca.bytes = SectorOf(T, ca.lba)

\* A flush under way has written the first copy of the table.
CopySound ==
  /\ op.copy \in 1..NumFats
  /\ op.copy # 1 => FlushDue /\ Patched(Table, cache.bytes) = Table

\* No two entries point to one cluster, and none to a free one.
Linear(X) ==
  /\ X \in [Entries -> Value]
  /\ \A e, f \in Entries : X[e] \in Clusters /\ X[e] = X[f] => e = f
  /\ \A e \in Entries : X[e] \in Clusters => X[X[e]] # 0

\* A cluster in use that no entry points to.
Root(c, X) == c \in Clusters /\ X[c] # 0 /\ \A e \in Entries : X[e] # c

\* No other directory entry starts at c.
Apart(c, slot, d) == \A s \in Slots \ {slot} : d[s].start # c

DirSound(d, T, V) ==
  \A s \in Slots : d[s].start # 0 =>
    Root(d[s].start, T) /\ Root(d[s].start, V) /\ Apart(d[s].start, s, d)

NodeSound(n, d, V) == n.start # 0 => Root(n.start, V) /\ Apart(n.start, n.slot, d)

\* From here on the operation may write its start to the directory without
\* another flush.
StartOnDisk(o) ==
  o.pc \in {"walk", "read", "data", "dir"} \/ (o.kind # "stream" /\ o.pc \in {"count", "compare"})

StartSound(o, n, d, T, V) ==
  o.start # 0 =>
    /\ Root(o.start, V) /\ Apart(o.start, o.slot, d)
    /\ n.slot # o.slot => n.start # o.start
    /\ StartOnDisk(o) => Root(o.start, T)

StreamSound(o, n) == o.kind = "stream" => o.slot = n.slot /\ o.required # 0

\* The clusters taken and not yet part of a chain.
Collecting(o) == o.pc \in {"alloc", "link"}
Taking(o, n, d, V) ==
  /\ o.new \in Seq(Clusters)
  /\ Collecting(o) => o.i \in Nat \ {0}
  /\ ~Collecting(o) => Len(o.new) > 0
  /\ \A j, k \in 1..Len(o.new) : j # k => o.new[j] # o.new[k]
  /\ \A j \in 1..Len(o.new) :
       /\ V[o.new[j]] # 0
       /\ \A s \in Slots : d[s].start # o.new[j]
       /\ n.start # o.new[j] /\ o.start # o.new[j]
       /\ \A e \in Entries : V[e] = o.new[j] => j > 1 /\ (Collecting(o) => j <= o.i)
NewSound(o, n, d, V) ==
  /\ o.pc \in {"count", "compare"} => o.new = <<>>
  /\ o.pc \in {"alloc", "link", "tail", "attach"} => Taking(o, n, d, V)

OpSound(o, n, d, T, V) == StartSound(o, n, d, T, V) /\ StreamSound(o, n) /\ NewSound(o, n, d, V)

\* Sizes and offsets are natural numbers.
SizeSound(o, n, d) ==
  /\ n.size \in Nat /\ o.offset \in Nat /\ Len(o.bytes) \in Nat
  /\ \A s \in Slots : d[s].size \in Nat

FInv ==
  /\ Shape /\ CacheSound(cache, Table) /\ CopySound
  /\ Linear(Table) /\ Linear(View)
  /\ DirSound(dir, Table, View) /\ NodeSound(node, dir, View)
  /\ OpSound(op, node, dir, Table, View) /\ SizeSound(op, node, dir)

(***************************************************************************)
(* Lengths.  At least k clusters follow one another from r.                *)
(***************************************************************************)
Count(m) == cluster_count_for_bytes(m)
Long(X, r, k) == \A n \in 0..(k - 1) : Along(X, r)[n] \in Clusters

\* The chains are long enough for the sizes, but for the slots of a set.
DirLong(d, X, S) == \A s \in Slots \ S : Long(X, d[s].start, Count(d[s].size))
NodeLong(n, V) == Long(V, n.start, Count(n.size))

\* The number of clusters an operation needs, and where it starts.
Needs(o, n) ==
  /\ o.required \in Nat
  /\ o.kind = "stream" => o.required = Count(o.offset + Len(o.bytes)) /\ o.start = n.start
  /\ o.kind \notin {"stream", "mkdir"} => o.required = Count(Len(o.bytes))

\* What has been walked is the beginning of the chain.
Prefix(o, V) ==
  /\ o.chain \in Seq(Clusters)
  /\ \A n \in 1..Len(o.chain) : o.chain[n] = Along(V, o.start)[n - 1]

Walked(o, V) ==
  /\ o.pc \in {"count", "tail", "compare", "attach"} => Prefix(o, V)
  /\ o.pc \in {"count", "tail"} =>
       o.start \in Clusters /\ o.from \in Clusters /\ o.from = Along(V, o.start)[Len(o.chain)]
  /\ o.pc = "compare" => (Len(o.chain) = 0 => o.start = 0)
  /\ o.pc = "attach" => Len(o.chain) >= o.count /\ V[o.chain[Len(o.chain)]] = EndMark

\* The new clusters are linked up to this one.
LinkedTo(o) == IF Collecting(o) THEN o.i ELSE Len(o.new)
Extending(o, V) ==
  o.pc \in {"alloc", "link", "tail", "attach"} =>
    /\ o.count \in Nat /\ Long(V, o.start, o.count) /\ (o.count = 0 => o.start = 0)
    /\ Collecting(o) => o.chain = <<>>
    /\ IF o.pc = "alloc" THEN o.i = 1 /\ Len(o.new) < o.required - o.count
       ELSE Len(o.new) = o.required - o.count
    /\ ~Collecting(o) => o.count > 0
    /\ \A j \in 1..Len(o.new) : V[o.new[j]] = IF j < LinkedTo(o) THEN o.new[j + 1] ELSE EndMark

Extended(o, V) == o.pc \in {"flush", "walk", "data", "dir"} => Long(V, o.start, o.required)

OpLong(o, n, V) == Needs(o, n) /\ Walked(o, V) /\ Extending(o, V) /\ Extended(o, V)

\* The cached sector could be read.
Readable(ca) == \A k \in Entries : Sector(k) = ca.lba => ca.bytes # <<>>

LongEnoughAll ==
  /\ Readable(cache)
  /\ DirLong(dir, Table, early) /\ DirLong(dir, View, {}) /\ NodeLong(node, View)
  /\ OpLong(op, node, View)
LInv == ~lossy => LongEnoughAll

-----------------------------------------------------------------------------
(***************************************************************************)
(* Tables.                                                                 *)
(***************************************************************************)
LEMMA Numbers ==
  /\ TotalClusters \in Nat \ {0} /\ NumFats \in Nat \ {0} /\ EntriesPerSector \in Nat \ {0}
  /\ Clusters \subseteq Entries /\ EndMark \notin Clusters /\ 0 \notin Clusters /\ EndMark # 0
  /\ \A c \in Clusters : c \in Nat
  BY FatAssumption DEF Clusters, Entries, EndMark, EndOfChain

\* %fat16-allocate-clusters marks a free cluster.
LEMMA MarkFree ==
  ASSUME NEW X, Linear(X), NEW c \in Clusters, X[c] = 0
  PROVE  LET Y == [X EXCEPT ![c] = EndMark]
         IN  Linear(Y) /\ \A r \in Clusters : Root(r, X) => Root(r, Y)
<1> DEFINE Y == [X EXCEPT ![c] = EndMark]
<1>1. X \in [Entries -> Value] /\ c \in Entries
  BY Numbers DEF Linear
<1>2. Y \in [Entries -> Value] /\ Y[c] = EndMark /\ \A e \in Entries : e # c => Y[e] = X[e]
  BY <1>1 DEF Value
<1> HIDE DEF Y
<1>3. \A e, f \in Entries : Y[e] \in Clusters /\ Y[e] = Y[f] => e = f
  BY <1>2, Numbers DEF Linear
<1>4. \A e \in Entries : Y[e] \in Clusters => Y[Y[e]] # 0
  BY <1>2, Numbers DEF Linear
<1>5. ASSUME NEW r \in Clusters, Root(r, X) PROVE Root(r, Y)
  BY <1>2, <1>5, Numbers DEF Root
<1> QED
  BY <1>2, <1>3, <1>4, <1>5 DEF Linear, Y

\* %fat16-link-clusters and %fat16-extend-file point an entry to a cluster in
\* use that nothing points to.
LEMMA LinkTo ==
  ASSUME NEW X, Linear(X), NEW c, NEW d, Root(d, X)
  PROVE  LET Y == [X EXCEPT ![c] = d]
         IN  Linear(Y) /\ \A r \in Clusters : Root(r, X) /\ r # d => Root(r, Y)
<1> DEFINE Y == [X EXCEPT ![c] = d]
<1>1. X \in [Entries -> Value] /\ d \in Clusters /\ d # 0 /\ d \in Entries
  BY Numbers DEF Linear, Root
<1>2. /\ Y \in [Entries -> Value]
      /\ \A e \in Entries : Y[e] = IF e = c THEN d ELSE X[e]
  BY <1>1 DEF Value
<1> HIDE DEF Y
<1>3. \A e, f \in Entries : Y[e] \in Clusters /\ Y[e] = Y[f] => e = f
  BY <1>2 DEF Linear, Root
<1>4. \A e \in Entries : Y[e] \in Clusters => Y[Y[e]] # 0
  BY <1>1, <1>2, Numbers DEF Linear, Root
<1>5. ASSUME NEW r \in Clusters, Root(r, X), r # d PROVE Root(r, Y)
  BY <1>1, <1>2, <1>5, Numbers DEF Root
<1> QED
  BY <1>2, <1>3, <1>4, <1>5 DEF Linear, Y

-----------------------------------------------------------------------------
(***************************************************************************)
(* Chains.                                                                 *)
(***************************************************************************)
\* The recursive definition of Along defines a function.
LEMMA AlongDef ==
  ASSUME NEW X \in [Entries -> Value], NEW s \in Value
  PROVE  /\ Along(X, s) \in [Nat -> Value]
         /\ Along(X, s)[0] = s
         /\ \A n \in Nat : Along(X, s)[n + 1] = IF Along(X, s)[n] \in Clusters THEN X[Along(X, s)[n]]
                                                ELSE Along(X, s)[n]
<1> DEFINE step == [c \in Value |-> IF c \in Clusters THEN X[c] ELSE c]
           Body(e) == [n \in Nat |-> IF n = 0 THEN s
                                     ELSE IF e[n-1] \in Clusters THEN X[e[n-1]] ELSE e[n-1]]
<1>1. s \in Value /\ step \in [Value -> Value]
  BY Numbers DEF Value
<1>2. PICK f \in [Nat -> Value] : f[0] = s /\ \A n \in Nat : f[n + 1] = step[f[n]]
  <2>1. PICK st : st = step
    OBVIOUS
  <2>2. st \in [Value -> Value]
    BY <1>1, <2>1
  <2>3. \E f \in [Nat -> Value] : f[0] = s /\ \A n \in Nat : f[n + 1] = st[f[n]]
    <3>1. PICK V, v : V = Value /\ v = s
      OBVIOUS
    <3>2. v \in V /\ st \in [V -> V]
      BY <1>1, <2>2, <3>1
    <3> HIDE DEF step, Body
    <3>3. \E f \in [Nat -> V] : f[0] = v /\ \A n \in Nat : f[n + 1] = st[f[n]]
      BY <3>2, IterationExists, SMTT(60)
    <3> QED
      BY <3>1, <3>3
  <2> QED
    BY <2>1, <2>3
<1>3. f = Body(f)
  <2>1. ASSUME NEW n \in Nat PROVE f[n] = Body(f)[n]
    <3>1. CASE n = 0
      BY <1>2, <3>1
    <3>2. CASE n # 0
      <4>1. n - 1 \in Nat /\ (n - 1) + 1 = n
        BY <3>2
      <4>2. f[n] = step[f[n-1]] /\ f[n-1] \in Value
        BY <1>2, <4>1
      <4> QED
        BY <3>2, <4>2
    <3> QED
      BY <3>1, <3>2
  <2> QED
    BY <2>1
<1>4. Along(X, s) = CHOOSE e : e = Body(e)
  BY DEF Along
<1> HIDE DEF Body
<1>5. Along(X, s) = Body(Along(X, s))
  BY <1>3, <1>4, Zenon
<1>6. Along(X, s)[0] = s
  BY <1>5 DEF Body
<1>7. ASSUME NEW n \in Nat
      PROVE  Along(X, s)[n + 1] = IF Along(X, s)[n] \in Clusters THEN X[Along(X, s)[n]] ELSE Along(X, s)[n]
  <2>1. n + 1 \in Nat /\ n + 1 # 0 /\ (n + 1) - 1 = n
    OBVIOUS
  <2>2. PICK e : e = Along(X, s)
    OBVIOUS
  <2>3. e = Body(e)
    BY <1>5, <2>2
  <2>4. e[n + 1] = IF e[n] \in Clusters THEN X[e[n]] ELSE e[n]
    BY <2>1, <2>3 DEF Body
  <2> QED
    BY <2>2, <2>4
<1>8. Along(X, s) \in [Nat -> Value]
  <2> DEFINE S == {n \in Nat : Along(X, s)[n] \in Value}
  <2>1. 0 \in S
    BY <1>6
  <2>2. ASSUME NEW n \in Nat, n \in S PROVE n + 1 \in S
    BY <1>7, <2>2, Numbers
  <2> HIDE DEF S
  <2>3. \A n \in Nat : n \in S
    BY <2>1, <2>2, SetInduction
  <2>4. PICK e : e = Along(X, s)
    OBVIOUS
  <2>5. e = Body(e) /\ \A n \in Nat : e[n] \in Value
    BY <1>5, <2>3, <2>4 DEF S
  <2>6. e = [n \in Nat |-> e[n]]
    BY <2>5 DEF Body
  <2> QED
    BY <2>4, <2>5, <2>6
<1> QED
  BY <1>6, <1>7, <1>8

\* Two chains of a linear table that begin at two roots share no cluster: going
\* back from a shared cluster, both have the same predecessors down to a start.
LEMMA ChainsApart ==
  ASSUME NEW X, Linear(X), NEW s, NEW t, Root(s, X), Root(t, X), s # t
  PROVE  ChainSet(X, s) \cap ChainSet(X, t) = {}
<1> DEFINE S == {n \in Nat : \A m \in Nat : Along(X, s)[n] \in Clusters => Along(X, s)[n] # Along(X, t)[m]}
<1>1. /\ X \in [Entries -> Value] /\ s \in Clusters /\ t \in Clusters
      /\ s \in Value /\ t \in Value
      /\ \A e \in Entries : X[e] # s /\ X[e] # t
  BY DEF Linear, Root, Value
<1>2. /\ Along(X, s)[0] = s
      /\ \A n \in Nat : Along(X, s)[n + 1] = IF Along(X, s)[n] \in Clusters THEN X[Along(X, s)[n]]
                                             ELSE Along(X, s)[n]
  BY <1>1, AlongDef
<1>3. /\ Along(X, t)[0] = t
      /\ \A n \in Nat : Along(X, t)[n + 1] = IF Along(X, t)[n] \in Clusters THEN X[Along(X, t)[n]]
                                             ELSE Along(X, t)[n]
  BY <1>1, AlongDef
<1>4. PICK a : a = Along(X, s)
  OBVIOUS
<1>5. PICK b : b = Along(X, t)
  OBVIOUS
<1>6. /\ a[0] = s /\ \A n \in Nat : a[n + 1] = IF a[n] \in Clusters THEN X[a[n]] ELSE a[n]
      /\ b[0] = t /\ \A n \in Nat : b[n + 1] = IF b[n] \in Clusters THEN X[b[n]] ELSE b[n]
  BY <1>2, <1>3, <1>4, <1>5
<1>7. S = {n \in Nat : \A m \in Nat : a[n] \in Clusters => a[n] # b[m]}
  BY <1>4, <1>5
<1> HIDE DEF S
<1>8. \A m \in Nat : m # 0 => m - 1 \in Nat /\ (m - 1) + 1 = m
  OBVIOUS
<1>9. 0 \in S
  <2> SUFFICES ASSUME NEW m \in Nat, s = b[m] PROVE FALSE
    BY <1>6, <1>7
  <2>1. m # 0
    BY <1>6
  <2>2. b[m] = IF b[m-1] \in Clusters THEN X[b[m-1]] ELSE b[m-1]
    BY <1>6, <1>8, <2>1
  <2> QED
    BY <1>1, <2>2, Numbers
<1>10. ASSUME NEW n \in Nat, n \in S PROVE n + 1 \in S
  <2> SUFFICES ASSUME NEW m \in Nat, a[n + 1] \in Clusters, a[n + 1] = b[m] PROVE FALSE
    BY <1>7
  <2>1. a[n] \in Clusters /\ X[a[n]] = b[m]
    BY <1>6
  <2>2. m # 0
    BY <1>1, <1>6, <2>1, Numbers
  <2>3. b[m-1] \in Clusters /\ X[b[m-1]] = b[m]
    BY <1>6, <1>8, <2>2
  <2>4. a[n] = b[m-1]
    BY <2>1, <2>3, Numbers DEF Linear
  <2> QED
    BY <1>7, <1>8, <1>10, <2>1, <2>2, <2>4
<1>11. \A n \in Nat : n \in S
  BY <1>9, <1>10, SetInduction
<1>12. ASSUME NEW c \in ChainSet(X, s), c \in ChainSet(X, t) PROVE FALSE
  <2>1. c \in Clusters
    BY DEF ChainSet
  <2>2. PICK n \in 1..(TotalClusters + 1) : c = a[n - 1]
    BY <1>4 DEF ChainSet, Nth
  <2>3. PICK m \in 1..(TotalClusters + 1) : c = b[m - 1]
    BY <1>5, <1>12 DEF ChainSet, Nth
  <2>4. n - 1 \in Nat /\ m - 1 \in Nat
    BY Numbers
  <2> QED
    BY <1>7, <1>11, <2>1, <2>2, <2>3, <2>4
<1> QED
  BY <1>12

\* The invariant separates the chains of the directory.
LEMMA InvImpliesDisjoint == FInv => ChainsAreDisjoint
<1> SUFFICES ASSUME FInv, NEW s \in Started, NEW t \in Started, s # t
             PROVE  ChainSet(fats[1], dir[s].start) \cap ChainSet(fats[1], dir[t].start) = {}
  BY DEF ChainsAreDisjoint
<1>1. s \in Slots /\ t \in Slots /\ dir[s].start # 0 /\ dir[t].start # 0
  BY DEF Started, Used
<1>2. Root(dir[s].start, Table) /\ Root(dir[t].start, Table) /\ dir[s].start # dir[t].start /\ Linear(Table)
  BY <1>1 DEF FInv, DirSound, Apart
<1> QED
  BY <1>2, ChainsApart DEF Table
-----------------------------------------------------------------------------
(***************************************************************************)
(* The invariant holds at the beginning, and while no operation runs.      *)
(***************************************************************************)
LEMMA IdleFields ==
  /\ Idle.pc = "idle" /\ Idle.kind = "none" /\ Idle.start = 0 /\ Idle.copy = 1 /\ Idle.offset = 0
  /\ Idle.bytes = <<>> /\ Idle.new = <<>> /\ Idle.i = 1 /\ Idle.slot = 0
  BY DEF Idle

\* Nothing is required of an operation that has returned.
LEMMA IdleSound ==
  ASSUME NEW n, NEW d, NEW T, NEW V
  PROVE  OpSound(Idle, n, d, T, V)
  BY IdleFields DEF OpSound, StartSound, StreamSound, NewSound

\* A new volume.
LEMMA InitInv == Init => FInv
<1> SUFFICES ASSUME Init PROVE FInv
  OBVIOUS
<1>1. /\ Table = [c \in Entries |-> IF c < 2 THEN EndMark ELSE 0]
      /\ View = Table /\ ~cache.dirty /\ cache.bytes = <<>>
      /\ \A s \in Slots : dir[s].start = 0 /\ dir[s].size = 0
      /\ node.start = 0 /\ node.size = 0 /\ op = Idle
  BY Numbers DEF Init, Table, View, EmptyCache
<1>2. Shape
  BY DEF Init, Shape, EmptyCache
<1>3. CacheSound(cache, Table)
  BY <1>1 DEF CacheSound, Init, EmptyCache
<1>4. CopySound
  BY <1>1, IdleFields, Numbers DEF CopySound
<1>5. Linear(Table)
  <2>1. Table \in [Entries -> Value]
    BY <1>1 DEF Value
  <2>2. \A e \in Entries : Table[e] \notin Clusters
    BY <1>1, Numbers
  <2> QED
    BY <2>1, <2>2 DEF Linear
<1>6. DirSound(dir, Table, View) /\ NodeSound(node, dir, View) /\ SizeSound(op, node, dir)
  BY <1>1, IdleFields DEF DirSound, NodeSound, SizeSound
<1> QED
  BY <1>1, <1>2, <1>3, <1>4, <1>5, <1>6, IdleSound DEF FInv

-----------------------------------------------------------------------------
(***************************************************************************)
(* Steps that leave the table and the cache alone.                         *)
(***************************************************************************)
\* No flush is under way but at "flush" and where a sector is missing.
LEMMA NoFlush ==
  ASSUME FInv,
         \/ op.pc \in {"idle", "compare", "data", "dir", "read"} \/ Ready \/ ~cache.dirty
         \/ op.pc = "link" /\ ~(op.i < Len(op.new))
  PROVE  op.copy = 1
<1> SUFFICES ASSUME FlushDue PROVE FALSE
  BY DEF FInv, CopySound
<1> USE DEF FlushDue, At, Absent, Ready, Wanted, Touched, Walking
<1>1. CASE op.pc \in {"idle", "compare", "data", "dir", "read"}
  BY <1>1
<1>2. CASE Ready
  BY <1>2
<1>3. CASE ~cache.dirty
  BY <1>3
<1>4. CASE op.pc = "link" /\ ~(op.i < Len(op.new))
  BY <1>4
<1> QED
  BY <1>1, <1>2, <1>3, <1>4

\* What has to be shown when the table and the cache stay as they are.
LEMMA TablesStay ==
  ASSUME FInv, UNCHANGED <<fats, cache>>, Shape', op'.copy = 1,
         DirSound(dir', Table, View), NodeSound(node', dir', View),
         OpSound(op', node', dir', Table, View), SizeSound(op', node', dir')
  PROVE  FInv'
<1>1. Table' = Table /\ View' = View /\ cache' = cache
  BY DEF Table, View
<1>2. CacheSound(cache, Table) /\ Linear(Table) /\ Linear(View)
  BY DEF FInv
<1>3. CopySound'
  BY Numbers DEF CopySound
<1> QED
  BY <1>1, <1>2, <1>3 DEF FInv

\* An operation returns nil: what it took stays marked.
LEMMA Returns ==
  ASSUME FInv, UNCHANGED <<fats, cache, dir, node>>, op' = Idle
  PROVE  FInv'
<1>1. Shape'
  BY DEF FInv, Shape
<1>2. SizeSound(op', node', dir')
  BY IdleFields DEF FInv, SizeSound
<1>3. op'.copy = 1 /\ OpSound(op', node', dir', Table, View)
  BY IdleFields, IdleSound
<1>4. DirSound(dir', Table, View) /\ NodeSound(node', dir', View)
  BY DEF FInv
<1> QED
  BY <1>1, <1>2, <1>3, <1>4, TablesStay

\* An operation goes on with the same file, start and bytes.
SameFile(o, p) ==
  /\ DOMAIN p = DOMAIN o /\ p.kind = o.kind /\ p.slot = o.slot /\ p.start = o.start
  /\ p.required = o.required /\ p.offset = o.offset /\ p.bytes = o.bytes

\* Then only its program point and what it has collected have to be looked at.
LEMMA GoesOn ==
  ASSUME FInv, UNCHANGED <<fats, cache, dir, node>>, SameFile(op, op'), op'.copy = 1, op'.pc # "idle",
         StartOnDisk(op') => StartOnDisk(op) \/ View = Table,
         NewSound(op', node, dir, View)
  PROVE  FInv'
<1>1. Shape'
  BY DEF FInv, Shape, SameFile
<1>2. SizeSound(op', node', dir')
  BY DEF FInv, SizeSound, SameFile
<1>3. StartSound(op', node', dir', Table, View) /\ StreamSound(op', node')
  BY DEF FInv, OpSound, StartSound, StreamSound, SameFile
<1>4. DirSound(dir', Table, View) /\ NodeSound(node', dir', View) /\ NewSound(op', node', dir', View)
  BY DEF FInv
<1> QED
  BY <1>1, <1>2, <1>3, <1>4, TablesStay DEF OpSound

\* A file that holds bytes needs a cluster.
LEMMA CountPositive ==
  ASSUME NEW m \in Nat, m > 0
  PROVE  cluster_count_for_bytes(m) # 0
<1>1. ClusterSize \in Nat /\ ClusterSize > 0
  BY FatAssumption
<1>2. m = ClusterSize * (m \div ClusterSize) + (m % ClusterSize) /\ m \div ClusterSize \in Int
  BY <1>1
<1>3. m \div ClusterSize >= 0
  BY <1>1
<1>4. m % ClusterSize = 0 => m \div ClusterSize # 0
  BY <1>1, <1>2
<1> QED
  BY <1>2, <1>3, <1>4 DEF cluster_count_for_bytes

\* A byte vector has the length it was made with.
LEMMA BytesWritten ==
  ASSUME NEW v, NEW n \in Nat
  PROVE  Len(NewBytes(v, n)) = n
  BY DEF NewBytes

\* The operations that begin.
LEMMA Begins ==
  ASSUME FInv, NEW o, Begin(o), DOMAIN o = DOMAIN Idle, o.copy = 1, o.pc # "idle",
         o.offset \in Nat, Len(o.bytes) \in Nat, OpSound(o, node, dir, Table, View)
  PROVE  FInv'
<1>1. PICK b : op' = [o EXCEPT !.sure = b]
  BY DEF Begin
<1>2. /\ DOMAIN op' = DOMAIN o /\ op'.copy = o.copy /\ op'.pc = o.pc /\ op'.offset = o.offset
      /\ op'.bytes = o.bytes /\ op'.new = o.new /\ op'.i = o.i /\ op'.start = o.start
      /\ op'.slot = o.slot /\ op'.kind = o.kind /\ op'.required = o.required
  BY <1>1 DEF Idle
<1>3. UNCHANGED <<fats, cache, dir, node>>
  BY DEF Begin, disk
<1>4. Shape'
  BY <1>2, <1>3 DEF FInv, Shape
<1>5. SizeSound(op', node', dir')
  BY <1>2, <1>3 DEF FInv, SizeSound
<1>6. OpSound(op', node', dir', Table, View)
  BY <1>2, <1>3 DEF OpSound, StartSound, StreamSound, NewSound, StartOnDisk, Taking, Collecting
<1>7. DirSound(dir', Table, View) /\ NodeSound(node', dir', View)
  BY <1>3 DEF FInv
<1> QED
  BY <1>2, <1>3, <1>4, <1>5, <1>6, <1>7, TablesStay

\* fat16-create-file begins.
LEMMA CreateStep ==
  ASSUME FInv, NEW name, NEW n \in Lengths, fat16_create_file(name, n)
  PROVE  FInv'
<1> DEFINE o == [Idle EXCEPT !.kind = "create", !.name = name, !.slot = FirstFree,
                        !.bytes = NewBytes(ops, n), !.required = cluster_count_for_bytes(n),
                        !.pc = IF n = 0 THEN "dir" ELSE "alloc"]
<1>1. Begin(o)
  BY DEF fat16_create_file
<1>2. /\ DOMAIN o = DOMAIN Idle /\ o.copy = 1 /\ o.kind = "create" /\ o.offset = 0
      /\ o.bytes = NewBytes(ops, n) /\ o.start = 0 /\ o.new = <<>> /\ o.i = 1 /\ o.pc \in {"dir", "alloc"}
  BY DEF Idle
<1>3. n \in Nat
  BY FatAssumption
<1>4. Len(o.bytes) \in Nat
  BY <1>2, <1>3, BytesWritten
<1> HIDE DEF o
<1>5. OpSound(o, node, dir, Table, View)
  BY <1>2 DEF OpSound, StartSound, StreamSound, NewSound, Taking, Collecting
<1> QED
  BY <1>1, <1>2, <1>4, <1>5, Begins

\* fat16-create-directory begins.
LEMMA MakeDirectoryStep ==
  ASSUME FInv, NEW name, fat16_create_directory(name)
  PROVE  FInv'
<1> DEFINE o == [Idle EXCEPT !.kind = "mkdir", !.name = name, !.slot = FirstFree,
                        !.required = 1, !.pc = "alloc"]
<1>1. Begin(o)
  BY DEF fat16_create_directory
<1>2. /\ DOMAIN o = DOMAIN Idle /\ o.copy = 1 /\ o.kind = "mkdir" /\ o.offset = 0
      /\ o.bytes = <<>> /\ o.start = 0 /\ o.new = <<>> /\ o.i = 1 /\ o.pc = "alloc"
  BY DEF Idle
<1> HIDE DEF o
<1>5. OpSound(o, node, dir, Table, View)
  BY <1>2 DEF OpSound, StartSound, StreamSound, NewSound, Taking, Collecting
<1> QED
  BY <1>1, <1>2, <1>5, Begins

\* A file that is overwritten starts where its directory entry says.
LEMMA WriteStep ==
  ASSUME FInv, NEW name, NEW n \in Lengths, fat16_write_file(name, n)
  PROVE  FInv'
<1>1. PICK s \in Slots : s = SlotOf(name)
  BY DEF fat16_write_file, SlotsOf, SlotOf
<1> DEFINE o == [Idle EXCEPT !.kind = "write", !.name = name, !.slot = s,
                            !.bytes = NewBytes(ops, n), !.required = cluster_count_for_bytes(n),
                            !.start = dir[s].start, !.from = dir[s].start,
                            !.pc = IF dir[s].start = 0 THEN "compare" ELSE "count"]
<1>2. Begin(o)
  BY <1>1 DEF fat16_write_file
<1>3. /\ DOMAIN o = DOMAIN Idle /\ o.copy = 1 /\ o.kind = "write" /\ o.offset = 0 /\ o.slot = s
      /\ o.bytes = NewBytes(ops, n) /\ o.start = dir[s].start /\ o.new = <<>>
      /\ o.pc \in {"compare", "count"}
  BY DEF Idle
<1>4. n \in Nat
  BY FatAssumption
<1>5. Len(o.bytes) \in Nat
  BY <1>3, <1>4, BytesWritten
<1> HIDE DEF o
<1>6. DirSound(dir, Table, View) /\ NodeSound(node, dir, View)
  BY DEF FInv
<1>7. StartSound(o, node, dir, Table, View)
  <2> SUFFICES ASSUME o.start # 0
               PROVE  /\ Root(o.start, View) /\ Apart(o.start, o.slot, dir) /\ Root(o.start, Table)
                      /\ node.slot # o.slot => node.start # o.start
    BY DEF StartSound
  <2>1. Root(o.start, View) /\ Apart(o.start, o.slot, dir) /\ Root(o.start, Table)
    BY <1>3, <1>6 DEF DirSound
  <2>2. node.slot # o.slot => node.start # o.start
    BY <1>3, <1>6 DEF NodeSound, Apart
  <2> QED
    BY <2>1, <2>2
<1>8. StreamSound(o, node) /\ NewSound(o, node, dir, View)
  BY <1>3 DEF StreamSound, NewSound
<1> QED
  BY <1>2, <1>3, <1>5, <1>7, <1>8, Begins DEF OpSound

\* One that is written through a node starts where the node says.
LEMMA StreamStep ==
  ASSUME FInv, NEW offset \in {0, node.size}, NEW n \in Lengths, fat16_write_into(offset, n)
  PROVE  FInv'
<1> DEFINE o == [Idle EXCEPT !.kind = "stream", !.name = dir[node.slot].name, !.slot = node.slot,
                        !.bytes = NewBytes(ops, n), !.offset = offset,
                        !.required = cluster_count_for_bytes(offset + n),
                        !.start = node.start, !.from = node.start,
                        !.pc = IF node.start = 0 THEN "compare" ELSE "count"]
<1>1. Begin(o) /\ n > 0
  BY DEF fat16_write_into
<1>2. /\ DOMAIN o = DOMAIN Idle /\ o.copy = 1 /\ o.kind = "stream" /\ o.offset = offset
      /\ o.slot = node.slot /\ o.bytes = NewBytes(ops, n) /\ o.start = node.start /\ o.new = <<>>
      /\ o.required = cluster_count_for_bytes(offset + n) /\ o.pc \in {"compare", "count"}
  BY DEF Idle
<1>3. n \in Nat /\ offset \in Nat
  BY FatAssumption DEF FInv, SizeSound
<1>4. Len(o.bytes) \in Nat
  BY <1>2, <1>3, BytesWritten
<1> HIDE DEF o
<1>5. o.required # 0
  BY <1>1, <1>2, <1>3, CountPositive
<1>6. NodeSound(node, dir, View)
  BY DEF FInv
<1>7. StartSound(o, node, dir, Table, View)
  BY <1>2, <1>6 DEF StartSound, NodeSound, StartOnDisk
<1>8. StreamSound(o, node) /\ NewSound(o, node, dir, View)
  BY <1>2, <1>5 DEF StreamSound, NewSound
<1> QED
  BY <1>1, <1>2, <1>3, <1>4, <1>7, <1>8, Begins DEF OpSound

\* fat16-read-file begins.
LEMMA ReadStep ==
  ASSUME FInv, NEW name, fat16_read_file(name)
  PROVE  FInv'
<1> DEFINE o == [Idle EXCEPT !.kind = "read", !.name = name, !.slot = SlotOf(name),
                        !.from = dir[SlotOf(name)].start, !.pc = "walk"]
<1>1. Begin(o)
  BY DEF fat16_read_file
<1>2. /\ DOMAIN o = DOMAIN Idle /\ o.copy = 1 /\ o.kind = "read" /\ o.offset = 0
      /\ o.bytes = <<>> /\ o.start = 0 /\ o.pc = "walk"
  BY DEF Idle
<1> HIDE DEF o
<1>5. OpSound(o, node, dir, Table, View)
  BY <1>2 DEF OpSound, StartSound, StreamSound, NewSound
<1> QED
  BY <1>1, <1>2, <1>5, Begins

\* A node is opened or closed: it starts where its directory entry says.
LEMMA NodeStep ==
  ASSUME FInv, CloseNode \/ \E f \in FileNames : fat16_resolve_node(f)
  PROVE  FInv'
<1>1. op' = op /\ op = Idle /\ UNCHANGED <<fats, cache, dir>>
  BY DEF CloseNode, fat16_resolve_node, At, disk, FInv, Shape
<1>2. DirSound(dir, Table, View) /\ SizeSound(op, node, dir)
  BY DEF FInv
<1>3. /\ DOMAIN node' = {"slot", "start", "size"}
      /\ NodeSound(node', dir, View) /\ node'.size \in Nat
  <2>1. CASE CloseNode
    BY <2>1 DEF CloseNode, NodeSound
  <2>2. ASSUME NEW f \in FileNames, fat16_resolve_node(f)
        PROVE  DOMAIN node' = {"slot", "start", "size"} /\ NodeSound(node', dir, View) /\ node'.size \in Nat
    <3>1. PICK s \in Slots : s = SlotOf(f)
      BY <2>2 DEF fat16_resolve_node, SlotsOf, SlotOf
    <3>2. node' = [slot |-> s, start |-> dir[s].start, size |-> dir[s].size]
      BY <2>2, <3>1 DEF fat16_resolve_node
    <3> QED
      BY <1>2, <3>2 DEF DirSound, SizeSound, NodeSound
  <2> QED
    BY <2>1, <2>2
<1>4. Shape'
  BY <1>1, <1>3 DEF FInv, Shape
<1>5. SizeSound(op', node', dir')
  BY <1>1, <1>2, <1>3 DEF SizeSound
<1>6. op'.copy = 1 /\ OpSound(op', node', dir', Table, View)
  BY <1>1, IdleFields, IdleSound
<1> QED
  BY <1>1, <1>2, <1>3, <1>4, <1>5, <1>6, TablesStay

\* fat16-cluster-chain goes one cluster on, whatever the entry.
LEMMA WalkSound ==
  ASSUME FInv, Walking, NEW entry, UNCHANGED <<fats, cache, dir, node>>,
         op' = [Walk(entry) EXCEPT !.copy = 1]
  PROVE  FInv'
<1>1. DOMAIN op = DOMAIN Idle
  BY DEF FInv, Shape
<1>2. PICK chain, from, pc, i :
        \/ pc = AfterWalk /\ Walk(entry) = [op EXCEPT !.chain = chain, !.pc = pc, !.i = i]
        \/ pc = op.pc /\ i = op.i /\ Walk(entry) = [op EXCEPT !.chain = chain, !.from = from]
  <2>1. CASE Ends(entry) \/ Len(Append(op.chain, op.from)) = TotalClusters + 2
    BY <2>1 DEF Walk
  <2>2. CASE ~(Ends(entry) \/ Len(Append(op.chain, op.from)) = TotalClusters + 2)
    BY <2>2 DEF Walk
  <2> QED
    BY <2>1, <2>2
<1>3. /\ DOMAIN op' = DOMAIN op /\ op'.copy = 1 /\ op'.kind = op.kind /\ op'.slot = op.slot
      /\ op'.start = op.start /\ op'.required = op.required /\ op'.offset = op.offset
      /\ op'.bytes = op.bytes /\ op'.new = op.new /\ op'.pc = pc /\ op'.i = i
  BY <1>1, <1>2 DEF Idle
<1>4. \/ op.pc = pc /\ op.i = i
      \/ op.pc = "count" /\ pc = "compare"
      \/ op.pc = "tail" /\ pc = "attach"
      \/ op.pc = "walk" /\ pc \in {"read", "data"}
  BY <1>2 DEF Walking, AfterWalk, At
<1>5. pc # "idle" /\ (StartOnDisk(op') => StartOnDisk(op))
  BY <1>3, <1>4 DEF StartOnDisk, Walking
<1>6. NewSound(op, node, dir, View)
  BY DEF FInv, OpSound
<1>7. NewSound(op', node, dir, View)
  <2>1. CASE op.pc = pc /\ op.i = i
    BY <1>3, <1>6, <2>1 DEF NewSound, Taking, Collecting
  <2>2. CASE op.pc = "count" /\ pc = "compare"
    BY <1>3, <1>6, <2>2 DEF NewSound
  <2>3. CASE op.pc = "tail" /\ pc = "attach"
    BY <1>3, <1>6, <2>3 DEF NewSound, Taking, Collecting
  <2>4. CASE op.pc = "walk" /\ pc \in {"read", "data"}
    BY <1>3, <2>4 DEF NewSound
  <2> QED
    BY <1>4, <2>1, <2>2, <2>3, <2>4
<1> QED
  BY <1>3, <1>5, <1>7, GoesOn DEF SameFile

\* An entry is looked up on the way along a chain.
LEMMA ChainStep ==
  ASSUME FInv, cluster_chain
  PROVE  FInv'
<1>1. Walking /\ Ready /\ UNCHANGED <<fats, cache, dir, node>>
  BY DEF cluster_chain, disk
<1>2. PICK entry : op' = Walk(entry)
  BY DEF cluster_chain
<1>3. op.copy = 1
  BY <1>1, NoFlush
<1>4. op' = [Walk(entry) EXCEPT !.copy = 1]
  <2>1. Walk(entry).copy = 1 /\ Walk(entry) = [k \in DOMAIN op |-> Walk(entry)[k]]
    BY <1>3 DEF Walk, FInv, Shape, Idle
  <2> QED
    BY <1>2, <2>1
<1> QED
  BY <1>1, <1>4, WalkSound

\* A cluster that is in use, or that cannot be looked up, is passed over.
LEMMA PassSound ==
  ASSUME FInv, At("alloc"), UNCHANGED <<fats, cache, dir, node>>,
         op' = [PassedOver EXCEPT !.copy = 1]
  PROVE  FInv'
<1>1. DOMAIN op = DOMAIN Idle /\ NewSound(op, node, dir, View)
  BY DEF FInv, Shape, OpSound
<1>2. /\ DOMAIN op' = DOMAIN op /\ op'.copy = 1 /\ op'.kind = op.kind /\ op'.slot = op.slot
      /\ op'.start = op.start /\ op'.required = op.required /\ op'.offset = op.offset
      /\ op'.bytes = op.bytes /\ op'.new = op.new /\ op'.pc = op.pc /\ op'.i = op.i
  BY <1>1 DEF Idle, PassedOver
<1>3. NewSound(op', node, dir, View)
  BY <1>1, <1>2 DEF NewSound, Taking, Collecting
<1>4. op'.pc # "idle" /\ ~StartOnDisk(op')
  BY <1>2 DEF At, StartOnDisk
<1> QED
  BY <1>2, <1>3, <1>4, GoesOn DEF SameFile

\* The number of clusters has decided.
LEMMA CompareStep ==
  ASSUME FInv, Compare
  PROVE  FInv'
<1>1. op.pc = "compare" /\ UNCHANGED <<fats, cache, dir, node>>
  BY DEF Compare, disk, At
<1>2. CASE op' = Idle
  BY <1>1, <1>2, Returns
<1>3. CASE op' # Idle
  <2> DEFINE o == [op EXCEPT !.count = Len(op.chain), !.chain = <<>>, !.i = 1]
  <2>1. \/ op' = [o EXCEPT !.pc = "alloc", !.from = 2]
        \/ op.required = 0 /\ op' = [o EXCEPT !.pc = "dir"]
        \/ op' = [o EXCEPT !.pc = IF op.kind = "stream" THEN "flush" ELSE "walk", !.from = op.start]
    BY <1>3 DEF Compare, ReturnNil
  <2>2. DOMAIN op = DOMAIN Idle
    BY DEF FInv, Shape
  <2>3. /\ DOMAIN o = DOMAIN Idle /\ o.copy = op.copy /\ o.kind = op.kind /\ o.slot = op.slot
        /\ o.start = op.start /\ o.required = op.required /\ o.offset = op.offset
        /\ o.bytes = op.bytes /\ o.new = op.new /\ o.i = 1
    BY <2>2 DEF Idle
  <2> HIDE DEF o
  <2>4. /\ DOMAIN op' = DOMAIN o /\ op'.copy = o.copy /\ op'.kind = o.kind /\ op'.slot = o.slot
        /\ op'.start = o.start /\ op'.required = o.required /\ op'.offset = o.offset
        /\ op'.bytes = o.bytes /\ op'.new = o.new /\ op'.i = o.i
        /\ \/ op'.pc \in {"alloc", "flush"}
           \/ op'.pc = "dir" /\ op.required = 0
           \/ op'.pc = "walk" /\ op.kind # "stream"
    BY <2>1, <2>3 DEF Idle
  <2>5. op.copy = 1
    BY <1>1, NoFlush
  <2>6. op.new = <<>> /\ StreamSound(op, node)
    BY <1>1 DEF FInv, OpSound, NewSound
  <2>7. StartOnDisk(op') => StartOnDisk(op)
    BY <1>1, <2>4, <2>6 DEF StartOnDisk, StreamSound
  <2>8. NewSound(op', node, dir, View)
    BY <2>3, <2>4, <2>6 DEF NewSound, Taking, Collecting
  <2>9. op'.pc # "idle" /\ op'.copy = 1 /\ SameFile(op, op')
    BY <2>2, <2>3, <2>4, <2>5 DEF SameFile
  <2> QED
    BY <1>1, <2>7, <2>8, <2>9, GoesOn
<1> QED
  BY <1>2, <1>3

\* The new clusters begin the file, or its old end is looked for.
LEMMA LinkedStep ==
  ASSUME FInv, Linked
  PROVE  FInv'
<1>1. op.pc = "link" /\ op.i = Len(op.new) /\ UNCHANGED <<fats, cache, dir>>
  BY DEF Linked, disk, At
<1>2. op.copy = 1
  BY <1>1, NoFlush DEF FInv, OpSound, NewSound, Taking, Collecting
<1>3. DOMAIN op = DOMAIN Idle /\ DOMAIN node = {"slot", "start", "size"}
  BY DEF FInv, Shape
<1>4. Taking(op, node, dir, View) /\ op.i \in Nat \ {0}
  BY <1>1 DEF FInv, OpSound, NewSound, Taking, Collecting
<1>5. CASE op.count > 0
  <2>1. op' = [op EXCEPT !.pc = "tail", !.from = op.start] /\ node' = node
    BY <1>5 DEF Linked
  <2>2. /\ DOMAIN op' = DOMAIN op /\ op'.copy = op.copy /\ op'.kind = op.kind /\ op'.slot = op.slot
        /\ op'.start = op.start /\ op'.required = op.required /\ op'.offset = op.offset
        /\ op'.bytes = op.bytes /\ op'.new = op.new /\ op'.pc = "tail"
    BY <1>3, <2>1 DEF Idle
  <2>3. NewSound(op', node, dir, View)
    BY <1>1, <1>4, <2>2 DEF NewSound, Taking, Collecting
  <2>4. ~StartOnDisk(op') /\ SameFile(op, op')
    BY <2>2 DEF StartOnDisk, SameFile
  <2> QED
    BY <1>1, <1>2, <2>1, <2>2, <2>3, <2>4, GoesOn
<1>6. CASE ~(op.count > 0)
  <2>1. op' = [op EXCEPT !.pc = "flush", !.start = op.new[1]]
    BY <1>6 DEF Linked
  <2>2. /\ DOMAIN op' = DOMAIN op /\ op'.copy = op.copy /\ op'.kind = op.kind /\ op'.slot = op.slot
        /\ op'.start = op.new[1] /\ op'.required = op.required /\ op'.offset = op.offset
        /\ op'.bytes = op.bytes /\ op'.pc = "flush"
    BY <1>3, <2>1 DEF Idle
  <2>3. /\ DOMAIN node' = DOMAIN node /\ node'.slot = node.slot /\ node'.size = node.size
        /\ \/ op.kind = "stream" /\ node'.start = op.new[1]
           \/ node'.start = node.start
    BY <1>3 DEF Linked
  <2>4. /\ Root(op.new[1], View) /\ op.new[1] # node.start
        /\ \A s \in Slots : dir[s].start # op.new[1]
    <3>1. 1 \in 1..Len(op.new) /\ op.new[1] \in Clusters
      BY <1>1, <1>4 DEF Taking
    <3> QED
      BY <1>4, <3>1 DEF Taking, Root
  <2>5. Shape'
    BY <1>1, <2>2, <2>3 DEF FInv, Shape
  <2>6. SizeSound(op', node', dir')
    BY <1>1, <2>2, <2>3 DEF FInv, SizeSound
  <2>7. NodeSound(node', dir', View)
    BY <1>1, <2>3, <2>4 DEF FInv, NodeSound, Apart
  <2>8. StreamSound(op', node') /\ NewSound(op', node', dir', View)
    BY <2>2, <2>3 DEF FInv, OpSound, StreamSound, NewSound
  <2>9. StartSound(op', node', dir', Table, View)
    BY <1>1, <2>2, <2>3, <2>4, <2>8 DEF StartSound, StartOnDisk, Apart, StreamSound
  <2>10. DirSound(dir', Table, View)
    BY <1>1 DEF FInv
  <2> QED
    BY <1>1, <1>2, <2>2, <2>5, <2>6, <2>7, <2>8, <2>9, <2>10, TablesStay DEF OpSound
<1> QED
  BY <1>5, <1>6

\* The table is on the disk before the data and the directory entry are written.
LEMMA FlushedStep ==
  ASSUME FInv, Flushed
  PROVE  FInv'
<1>1. op.pc = "flush" /\ ~cache.dirty /\ UNCHANGED <<fats, cache, dir, node>>
  BY DEF Flushed, disk, At
<1>2. op.copy = 1
  BY <1>1, NoFlush
<1>3. DOMAIN op = DOMAIN Idle
  BY DEF FInv, Shape
<1>4. /\ DOMAIN op' = DOMAIN op /\ op'.copy = op.copy /\ op'.kind = op.kind /\ op'.slot = op.slot
      /\ op'.start = op.start /\ op'.required = op.required /\ op'.offset = op.offset
      /\ op'.bytes = op.bytes /\ op'.pc \in {"data", "walk"}
  BY <1>3 DEF Idle, Flushed
<1>5. NewSound(op', node, dir, View) /\ op'.pc # "idle"
  BY <1>4 DEF NewSound
<1>6. View = Table
  BY <1>1 DEF View
<1> QED
  BY <1>1, <1>2, <1>4, <1>5, <1>6, GoesOn DEF SameFile

\* A sector of data is written.
LEMMA DataStep ==
  ASSUME FInv, write_lba_list
  PROVE  FInv'
<1>1. op.pc = "data" /\ UNCHANGED <<fats, cache, dir, node>>
  BY DEF write_lba_list, At
<1>2. op.copy = 1
  BY <1>1, NoFlush
<1>3. DOMAIN op = DOMAIN Idle
  BY DEF FInv, Shape
<1>4. PICK i : op' = [op EXCEPT !.i = i]
  BY DEF write_lba_list
<1>5. /\ DOMAIN op' = DOMAIN op /\ op'.copy = op.copy /\ op'.kind = op.kind /\ op'.slot = op.slot
      /\ op'.start = op.start /\ op'.required = op.required /\ op'.offset = op.offset
      /\ op'.bytes = op.bytes /\ op'.pc = op.pc
  BY <1>3, <1>4 DEF Idle
<1>6. NewSound(op', node, dir, View) /\ op'.pc # "idle" /\ StartOnDisk(op)
  BY <1>1, <1>5 DEF NewSound, StartOnDisk
<1> QED
  BY <1>1, <1>2, <1>5, <1>6, GoesOn DEF SameFile

\* All sectors are written.
LEMMA WrittenStep ==
  ASSUME FInv, DataWritten
  PROVE  FInv'
<1>1. op.pc = "data" /\ UNCHANGED <<fats, cache, dir>> /\ op' = [op EXCEPT !.pc = "dir"]
  BY DEF DataWritten, At, disk
<1>2. op.copy = 1
  BY <1>1, NoFlush
<1>3. DOMAIN op = DOMAIN Idle /\ DOMAIN node = {"slot", "start", "size"} /\ SizeSound(op, node, dir)
  BY DEF FInv, Shape
<1>4. /\ DOMAIN op' = DOMAIN op /\ op'.copy = op.copy /\ op'.kind = op.kind /\ op'.slot = op.slot
      /\ op'.start = op.start /\ op'.required = op.required /\ op'.offset = op.offset
      /\ op'.bytes = op.bytes /\ op'.pc = "dir"
  BY <1>1, <1>3 DEF Idle
<1>5. /\ DOMAIN node' = DOMAIN node /\ node'.slot = node.slot /\ node'.start = node.start
      /\ node'.size \in Nat
  BY <1>3 DEF DataWritten, SizeSound
<1>6. Shape'
  BY <1>1, <1>4, <1>5 DEF FInv, Shape
<1>7. SizeSound(op', node', dir')
  BY <1>1, <1>3, <1>4, <1>5 DEF SizeSound
<1>8. NewSound(op', node', dir', View) /\ StreamSound(op', node')
  BY <1>4, <1>5 DEF FInv, OpSound, NewSound, StreamSound
<1>9. StartSound(op', node', dir', Table, View)
  BY <1>1, <1>4, <1>5 DEF FInv, OpSound, StartSound, StartOnDisk
<1>10. DirSound(dir', Table, View) /\ NodeSound(node', dir', View)
  BY <1>1, <1>5 DEF FInv, NodeSound
<1> QED
  BY <1>1, <1>2, <1>4, <1>6, <1>7, <1>8, <1>9, <1>10, TablesStay DEF OpSound

\* The directory entry is written: its chain is on the disk and no other entry's.
LEMMA DirectoryStep ==
  ASSUME FInv, finish_directory_update
  PROVE  FInv'
<1>1. op.pc = "dir" /\ op' = Idle /\ UNCHANGED <<fats, cache, node>>
  BY DEF finish_directory_update, At
<1>2. /\ DOMAIN dir = Slots /\ StartSound(op, node, dir, Table, View) /\ SizeSound(op, node, dir)
      /\ DirSound(dir, Table, View) /\ NodeSound(node, dir, View)
  BY DEF FInv, Shape, OpSound
<1>3. PICK e : dir' = [dir EXCEPT ![op.slot] = e] /\ e.start = op.start /\ e.size = NewSize
  <2> DEFINE e == [name |-> op.name, start |-> op.start, size |-> NewSize]
  <2>1. dir' = [dir EXCEPT ![op.slot] = e] /\ e.start = op.start /\ e.size = NewSize
    BY DEF finish_directory_update
  <2> QED
    BY <2>1
<1>4. DOMAIN dir' = Slots /\ \A s \in Slots : dir'[s] = IF s = op.slot THEN e ELSE dir[s]
  BY <1>2, <1>3
<1>5. NewSize \in Nat
  BY <1>2 DEF NewSize, SizeSound
<1>6. op.start # 0 =>
        /\ Root(op.start, Table) /\ Root(op.start, View)
        /\ \A s \in Slots : s # op.slot => dir[s].start # op.start
        /\ node.slot # op.slot => node.start # op.start
  BY <1>1, <1>2 DEF StartSound, StartOnDisk, Apart
<1>7. DirSound(dir', Table, View)
  <2> SUFFICES ASSUME NEW s \in Slots, dir'[s].start # 0
               PROVE  /\ Root(dir'[s].start, Table) /\ Root(dir'[s].start, View)
                      /\ Apart(dir'[s].start, s, dir')
    BY DEF DirSound
  <2>1. CASE s = op.slot
    BY <1>3, <1>4, <1>6, <2>1 DEF Apart
  <2>2. CASE s # op.slot
    BY <1>2, <1>3, <1>4, <1>6, <2>2 DEF Apart, DirSound
  <2> QED
    BY <2>1, <2>2
<1>8. NodeSound(node, dir', View)
  BY <1>2, <1>3, <1>4, <1>6 DEF NodeSound, Apart
<1>9. Shape' /\ op'.copy = 1 /\ OpSound(op', node', dir', Table, View)
  BY <1>1, <1>4, IdleFields, IdleSound DEF FInv, Shape
<1>10. SizeSound(op', node', dir')
  BY <1>1, <1>2, <1>3, <1>4, <1>5, IdleFields DEF SizeSound
<1> QED
  BY <1>1, <1>7, <1>8, <1>9, <1>10, TablesStay
-----------------------------------------------------------------------------
(***************************************************************************)
(* Steps that change the cached sector or the table.                       *)
(***************************************************************************)
LEMMA PatchedTwice ==
  ASSUME NEW T, NEW b
  PROVE  Patched(Patched(T, b), b) = Patched(T, b)
  BY DEF Patched

\* Entries that nothing depends on any more: the disk catches up with the driver.
LEMMA DiskCatchesUp ==
  ASSUME NEW d, NEW n, NEW o, NEW T, NEW V, DirSound(d, T, V), OpSound(o, n, d, T, V)
  PROVE  DirSound(d, V, V) /\ OpSound(o, n, d, V, V)
  BY DEF DirSound, OpSound, StartSound

\* One copy of the table is written: the disk holds the driver's table.
LEMMA FlushStep ==
  ASSUME FInv, flush_fat_cache
  PROVE  FInv'
<1> DEFINE b == cache.bytes
<1>1. /\ FlushDue /\ cache.dirty /\ View = Patched(Table, b) /\ UNCHANGED <<dir, node>>
      /\ fats' = [fats EXCEPT ![op.copy] = Patched(@, b)]
      /\ op' = [op EXCEPT !.copy = IF op.copy = NumFats THEN 1 ELSE @ + 1]
      /\ cache' = [cache EXCEPT !.dirty = op.copy # NumFats]
  BY DEF flush_fat_cache, FlushDue, View
<1>2. /\ DOMAIN op = DOMAIN Idle /\ DOMAIN cache = {"lba", "bytes", "dirty"} /\ DOMAIN fats = 1..NumFats
      /\ op.copy \in 1..NumFats /\ (op.copy # 1 => Patched(Table, b) = Table)
      /\ CacheSound(cache, Table) /\ (op.pc = "idle" => op = Idle)
  BY DEF FInv, Shape, CopySound
<1>3. /\ DOMAIN cache' = DOMAIN cache /\ cache'.bytes = b /\ cache'.lba = cache.lba
      /\ cache'.dirty = (op.copy # NumFats)
  BY <1>1, <1>2
<1>4. Table' = View
  <2>1. CASE op.copy = 1
    BY <1>1, <1>2, <2>1, Numbers DEF Table
  <2>2. CASE op.copy # 1
    BY <1>1, <1>2, <2>2, Numbers DEF Table
  <2> QED
    BY <2>1, <2>2
<1>5. Patched(Table', b) = Table'
  BY <1>1, <1>4, PatchedTwice
<1>6. View' = View
  BY <1>3, <1>4, <1>5 DEF View
<1>7. /\ DOMAIN op' = DOMAIN op /\ op'.pc = op.pc /\ op'.kind = op.kind /\ op'.slot = op.slot
      /\ op'.start = op.start /\ op'.required = op.required /\ op'.offset = op.offset
      /\ op'.bytes = op.bytes /\ op'.new = op.new /\ op'.i = op.i /\ op'.from = op.from
      /\ op'.chain = op.chain /\ op'.copy = IF op.copy = NumFats THEN 1 ELSE op.copy + 1
  BY <1>1, <1>2 DEF Idle
<1>8. Linear(View) /\ NodeSound(node, dir, View) /\ SizeSound(op, node, dir)
  BY DEF FInv
<1>9. DirSound(dir, View, View) /\ OpSound(op, node, dir, View, View)
  BY DiskCatchesUp DEF FInv
<1>10. Shape'
  <2>1. op.pc # "idle"
    BY <1>1 DEF FlushDue, At, Absent, Wanted, Touched, Walking
  <2>2. DOMAIN fats' = DOMAIN fats
    BY <1>1
  <2> QED
    BY <1>1, <1>2, <1>3, <1>7, <2>1, <2>2 DEF FInv, Shape
<1>11. CacheSound(cache', Table')
  <2>1. b # <<>> => b \in [Loaded(cache.lba) -> Value]
    BY <1>2 DEF CacheSound
  <2>2. b # <<>> => b = SectorOf(Table', cache.lba)
    BY <1>1, <1>4, <2>1 DEF SectorOf, Patched, Loaded
  <2> QED
    BY <1>3, <2>1, <2>2 DEF CacheSound
<1>12. CopySound'
  <2>0. op.copy # NumFats => cache'.dirty
    BY <1>3, Zenon
  <2>1. op'.copy \in 1..NumFats /\ (op'.copy # 1 => cache'.dirty)
    BY <1>2, <1>7, <2>0, Numbers
  <2>2. op.pc = "flush" \/ Absent
    BY <1>1 DEF FlushDue, At
  <2>3. Absent' = Absent
    <3>1. Touched' = Touched
      BY <1>7 DEF Touched, Walking, At
    <3>2. Wanted' = Wanted
      BY <1>7, <3>1 DEF Wanted, At
    <3> QED
      BY <1>3, <3>2 DEF Absent
  <2>4. op'.copy # 1 => FlushDue'
    BY <1>7, <2>1, <2>2, <2>3 DEF FlushDue, At
  <2> QED
    BY <1>3, <1>5, <2>1, <2>4 DEF CopySound
<1>13. OpSound(op', node, dir, View, View) /\ SizeSound(op', node, dir)
  BY <1>7, <1>8, <1>9 DEF OpSound, StartSound, StreamSound, NewSound, StartOnDisk, Taking, Collecting, SizeSound
<1>14. dir' = dir /\ node' = node
  BY <1>1
<1> QED
  BY <1>4, <1>6, <1>8, <1>9, <1>10, <1>11, <1>12, <1>13, <1>14 DEF FInv

\* A sector is read into the cache, or cannot be read.
LEMMA SectorStep ==
  ASSUME FInv, fat_sector_bytes
  PROVE  FInv'
<1>1. /\ ~cache.dirty /\ UNCHANGED <<fats, dir, op, node>>
      /\ \/ cache' = [lba |-> Sector(Wanted), bytes |-> SectorOf(Table, Sector(Wanted)), dirty |-> FALSE]
         \/ cache' = [lba |-> Sector(Wanted), bytes |-> <<>>, dirty |-> FALSE]
  BY DEF fat_sector_bytes, FlushDue, disk, Table, FInv, CacheSound
<1>2. Table' = Table /\ View' = View /\ View = Table
  BY <1>1 DEF View, Table
<1>3. op.copy = 1
  BY <1>1, NoFlush
<1>4. Linear(Table)
  BY DEF FInv
<1>5. CacheSound(cache', Table')
  <2>1. SectorOf(Table, Sector(Wanted)) \in [Loaded(Sector(Wanted)) -> Value]
    BY <1>4 DEF SectorOf, Loaded, Linear
  <2>2. CASE cache' = [lba |-> Sector(Wanted), bytes |-> SectorOf(Table, Sector(Wanted)), dirty |-> FALSE]
    <3>1. cache'.lba = Sector(Wanted) /\ cache'.bytes = SectorOf(Table, Sector(Wanted)) /\ cache'.dirty = FALSE
      BY <2>2
    <3> QED
      BY <1>2, <2>1, <3>1 DEF CacheSound
  <2>3. CASE cache' = [lba |-> Sector(Wanted), bytes |-> <<>>, dirty |-> FALSE]
    BY <2>3 DEF CacheSound
  <2> QED
    BY <1>1, <2>2, <2>3
<1>6. CopySound'
  BY <1>1, <1>3, Numbers DEF CopySound
<1>7. Shape'
  BY <1>1 DEF FInv, Shape
<1> QED
  BY <1>1, <1>2, <1>5, <1>6, <1>7 DEF FInv

\* Power is lost: what was only in the cache is gone.
LEMMA RestartStep ==
  ASSUME FInv, Restart
  PROVE  FInv'
<1>1. /\ op' = Idle /\ cache' = EmptyCache /\ node' = [slot |-> 0, start |-> 0, size |-> 0]
      /\ UNCHANGED <<fats, dir>>
  BY DEF Restart, disk
<1>2. Table' = Table /\ View' = Table
  BY <1>1 DEF Table, View, EmptyCache
<1>3. DirSound(dir', Table, Table)
  BY <1>1 DEF FInv, DirSound
<1>4. NodeSound(node', dir', Table) /\ SizeSound(op', node', dir')
  BY <1>1, IdleFields DEF FInv, NodeSound, SizeSound
<1>5. OpSound(op', node', dir', Table, Table)
  BY <1>1, IdleSound
<1>6. CacheSound(cache', Table) /\ CopySound' /\ Shape'
  BY <1>1, IdleFields, Numbers DEF CacheSound, EmptyCache, CopySound, FInv, Shape
<1>7. Linear(Table)
  BY DEF FInv
<1> QED
  BY <1>2, <1>3, <1>4, <1>5, <1>6, <1>7 DEF FInv

\* The reader of an entry is given nil.
LEMMA EvictionStep ==
  ASSUME FInv, EvictionFails
  PROVE  FInv'
<1>1. UNCHANGED <<fats, cache, dir, node>>
  BY DEF EvictionFails, disk
<1>2. CASE Walking
  <2>0. ~At("alloc")
    BY <1>2 DEF Walking, At
  <2>1. op' = [Walk(NilEntry) EXCEPT !.copy = 1]
    BY <1>2, <2>0 DEF EvictionFails
  <2> QED
    BY <1>1, <1>2, <2>1, WalkSound
<1>3. CASE ~Walking /\ At("alloc")
  <2>1. op' = [PassedOver EXCEPT !.copy = 1]
    BY <1>3 DEF EvictionFails
  <2> QED
    BY <1>1, <1>3, <2>1, PassSound
<1>4. CASE ~Walking /\ ~At("alloc")
  <2>1. op' = Idle
    BY <1>4 DEF EvictionFails
  <2> QED
    BY <1>1, <2>1, Returns
<1> QED
  BY <1>2, <1>3, <1>4

\* %fat16-set-fat-entry: the driver's table changes in one entry, the disk's
\* in none.
LEMMA SetEntry ==
  ASSUME FInv, UNCHANGED fats, NEW c, cache.lba = Sector(c), NEW v \in Value, set_fat_entry(c, v)
  PROVE  /\ Table' = Table /\ View' = [View EXCEPT ![c] = v] /\ CacheSound(cache', Table')
         /\ DOMAIN cache' = DOMAIN cache
<1> DEFINE b == cache.bytes
<1>1. b # <<>> /\ cache' = [cache EXCEPT !.bytes[c] = v, !.dirty = TRUE]
  BY DEF set_fat_entry
<1>2. DOMAIN cache = {"lba", "bytes", "dirty"} /\ Linear(View) /\ Linear(Table)
  BY DEF FInv, Shape
<1>3. b \in [Loaded(cache.lba) -> Value] /\ (~cache.dirty => b = SectorOf(Table, cache.lba))
  BY <1>1 DEF FInv, CacheSound
<1>4. cache'.bytes = [b EXCEPT ![c] = v] /\ cache'.dirty /\ cache'.lba = cache.lba /\ DOMAIN cache' = DOMAIN cache
  BY <1>1, <1>2
<1>5. Table' = Table /\ Table \in [Entries -> Value]
  BY <1>2 DEF Table, Linear
<1>6. View = Patched(Table, b)
  <2>1. CASE cache.dirty
    BY <2>1 DEF View
  <2>2. CASE ~cache.dirty
    BY <1>3, <1>5, <2>2 DEF View, Patched, SectorOf
  <2> QED
    BY <2>1, <2>2
<1>7. c \in Entries => c \in Loaded(cache.lba)
  BY DEF Loaded
<1>8. View' = Patched(Table, cache'.bytes)
  BY <1>4, <1>5 DEF View
<1>9. View' = [View EXCEPT ![c] = v]
  <2> DEFINE w == cache'.bytes
  <2>0. View \in [Entries -> Value]
    BY <1>2 DEF Linear
  <2>1. DOMAIN w = Loaded(cache.lba) /\ \A k \in Loaded(cache.lba) : w[k] = IF k = c THEN v ELSE b[k]
    BY <1>3, <1>4
  <2> HIDE DEF w
  <2>2. View' = [k \in Entries |-> IF k \in Loaded(cache.lba) THEN w[k] ELSE Table[k]]
    BY <1>8, <2>1 DEF Patched, w
  <2>3. \A k \in Entries : View[k] = IF k \in Loaded(cache.lba) THEN b[k] ELSE Table[k]
    BY <1>3, <1>6 DEF Patched
  <2>4. \A k \in Entries : View'[k] = [View EXCEPT ![c] = v][k]
    BY <1>7, <2>0, <2>1, <2>2, <2>3
  <2> QED
    BY <2>0, <2>2, <2>4
<1>10. cache'.bytes \in [Loaded(cache'.lba) -> Value]
  BY <1>3, <1>4
<1> QED
  BY <1>4, <1>5, <1>9, <1>10 DEF CacheSound

\* The driver's table changes and the disk's does not.
LEMMA TableMoves ==
  ASSUME FInv, UNCHANGED <<fats, dir, node>>, NEW Y, View' = Y, CacheSound(cache', Table),
         DOMAIN cache' = DOMAIN cache, SameFile(op, op'), op'.copy = 1, op'.pc # "idle", ~StartOnDisk(op'),
         Linear(Y), DirSound(dir, Table, Y), NodeSound(node, dir, Y),
         op.start # 0 => Root(op.start, Y), NewSound(op', node, dir, Y)
  PROVE  FInv'
<1>1. Table' = Table /\ View' = Y
  BY DEF Table
<1>2. Shape'
  BY DEF FInv, Shape, SameFile
<1>3. SizeSound(op', node', dir')
  BY DEF FInv, SizeSound, SameFile
<1>4. StartSound(op', node', dir', Table, Y) /\ StreamSound(op', node')
  BY DEF FInv, OpSound, StartSound, StreamSound, SameFile
<1>5. CopySound'
  BY Numbers DEF CopySound
<1>6. Linear(Table) /\ dir' = dir /\ node' = node
  BY DEF FInv
<1> QED
  BY <1>1, <1>2, <1>3, <1>4, <1>5, <1>6 DEF FInv, OpSound

\* A cluster is taken: it was free, so no chain and no operation had it.
LEMMA TakeStep ==
  ASSUME FInv, allocate_clusters
  PROVE  FInv'
<1>1. /\ At("alloc") /\ op.pc = "alloc" /\ Ready /\ UNCHANGED <<fats, dir, node>>
      /\ op.copy = 1 /\ DOMAIN op = DOMAIN Idle
  BY NoFlush DEF allocate_clusters, disk, At, FInv, Shape
<1>2. CASE fat_entry(op.from) # 0
  <2>1. op' = PassedOver /\ UNCHANGED cache
    BY <1>2 DEF allocate_clusters
  <2>2. op' = [PassedOver EXCEPT !.copy = 1]
    <3>1. PassedOver.copy = 1 /\ PassedOver = [k \in DOMAIN op |-> PassedOver[k]]
      BY <1>1 DEF PassedOver, Idle
    <3> QED
      BY <2>1, <3>1
  <2> QED
    BY <1>1, <2>1, <2>2, PassSound
<1>3. CASE fat_entry(op.from) = 0
  <2>1. PICK c : c = op.from
    OBVIOUS
  <2>2. op' = Taken /\ set_fat_entry(c, EndMark) /\ cache.bytes # <<>> /\ cache.bytes[c] = 0
    BY <1>3, <2>1 DEF allocate_clusters, fat_entry, set_fat_entry
  <2>3. c \in Clusters /\ cache.lba = Sector(c)
    BY <1>1, <2>1 DEF Ready, Wanted, Touched, At
  <2>4. View[c] = 0
    <3>1. /\ cache.bytes \in [Loaded(cache.lba) -> Value]
          /\ ~cache.dirty => cache.bytes = SectorOf(Table, cache.lba)
      BY <2>2 DEF FInv, CacheSound
    <3>2. c \in Loaded(cache.lba) /\ c \in Entries
      BY <2>3, Numbers DEF Loaded
    <3> QED
      BY <2>2, <3>1, <3>2 DEF View, Patched, SectorOf, Loaded
  <2>5. EndMark \in Value
    BY DEF Value
  <2>6. Table' = Table /\ View' = [View EXCEPT ![c] = EndMark] /\ CacheSound(cache', Table') /\ DOMAIN cache' = DOMAIN cache
    BY <1>1, <2>2, <2>3, <2>5, SetEntry
  <2>7. PICK X : X = View
    OBVIOUS
  <2>8. PICK Y : Y = [X EXCEPT ![c] = EndMark]
    OBVIOUS
  <2>9. Linear(X) /\ X[c] = 0 /\ View' = Y /\ NewSound(op, node, dir, X)
    BY <2>4, <2>6, <2>7, <2>8 DEF FInv, OpSound
  <2>10. Linear(Y) /\ \A r \in Clusters : Root(r, X) => Root(r, Y)
    BY <2>3, <2>8, <2>9, MarkFree
  <2>11. \A r : Root(r, X) => Root(r, Y) /\ r # c
    BY <2>9, <2>10 DEF Root
  <2>12. DirSound(dir, Table, X) /\ NodeSound(node, dir, X) /\ StartSound(op, node, dir, Table, X)
    BY <2>7 DEF FInv, OpSound
  <2>13. DirSound(dir, Table, Y) /\ NodeSound(node, dir, Y) /\ (op.start # 0 => Root(op.start, Y))
    BY <2>11, <2>12 DEF DirSound, NodeSound, StartSound
  <2>14. /\ \A s \in Slots : dir[s].start # c
         /\ node.start # c /\ op.start # c
    BY <2>3, <2>11, <2>12, Numbers DEF DirSound, NodeSound, StartSound
  <2>15. /\ DOMAIN op' = DOMAIN op /\ op'.copy = op.copy /\ op'.kind = op.kind /\ op'.slot = op.slot
         /\ op'.start = op.start /\ op'.required = op.required /\ op'.offset = op.offset
         /\ op'.bytes = op.bytes /\ op'.i = op.i /\ op'.new = Append(op.new, c)
         /\ op'.pc \in {"alloc", "link"}
    BY <1>1, <2>1, <2>2 DEF Taken, Idle
  <2>16. Taking(op, node, dir, X) /\ op.new \in Seq(Clusters) /\ op.i \in Nat \ {0}
    BY <1>1, <2>9 DEF NewSound, Taking, Collecting
  <2>17. /\ X \in [Entries -> Value] /\ c \in Entries /\ Y[c] # 0
         /\ \A e \in Entries : e # c => Y[e] = X[e]
         /\ Y[c] \notin Clusters
    BY <2>3, <2>8, <2>9, Numbers DEF Linear
  <2>18. Taking(op', node, dir, Y)
    <3> DEFINE new == op'.new
               L == Len(op.new)
    <3>1. /\ new \in Seq(Clusters) /\ Len(new) = L + 1 /\ L \in Nat /\ new[L + 1] = c
          /\ \A j \in 1..L : new[j] = op.new[j] /\ new[j] \in Clusters /\ j \in 1..Len(op.new)
      BY <2>3, <2>15, <2>16
    <3>2. \A j \in 1..L :
            /\ X[new[j]] # 0
            /\ \A s \in Slots : dir[s].start # new[j]
            /\ node.start # new[j] /\ op.start # new[j]
            /\ \A e \in Entries : X[e] = new[j] => j > 1 /\ j <= op.i
      BY <1>1, <2>16, <3>1 DEF Taking, Collecting
    <3>3. \A j, k \in 1..L : j # k => new[j] # new[k]
      BY <2>16, <3>1 DEF Taking
    <3> HIDE DEF new
    <3>4. \A j \in 1..L : new[j] # c
      BY <2>9, <3>2
    <3>5. \A j, k \in 1..(L + 1) : j # k => new[j] # new[k]
      BY <3>1, <3>3, <3>4
    <3>6. \A j \in 1..(L + 1) :
            /\ Y[new[j]] # 0
            /\ \A s \in Slots : dir[s].start # new[j]
            /\ node.start # new[j] /\ op.start # new[j]
      <4> SUFFICES ASSUME NEW j \in 1..(L + 1)
                   PROVE  /\ Y[new[j]] # 0
                          /\ \A s \in Slots : dir[s].start # new[j]
                          /\ node.start # new[j] /\ op.start # new[j]
        OBVIOUS
      <4>1. CASE j = L + 1
        BY <2>14, <2>17, <3>1, <4>1
      <4>2. CASE j # L + 1
        BY <2>17, <3>1, <3>2, <3>4, <4>2, Numbers, SMTT(30)
      <4> QED
        BY <4>1, <4>2
    <3>7. ASSUME NEW j \in 1..(L + 1), NEW e \in Entries, Y[e] = new[j]
          PROVE  j > 1 /\ j <= op.i
      <4>1. new[j] \in Clusters
        BY <2>3, <3>1
      <4>2. e # c /\ X[e] = new[j]
        BY <2>17, <3>7, <4>1
      <4>3. CASE j = L + 1
        BY <2>9, <3>1, <4>1, <4>2, <4>3 DEF Linear
      <4>4. CASE j # L + 1
        BY <3>1, <3>2, <4>2, <4>4
      <4> QED
        BY <4>3, <4>4
    <3>8. Len(new) = L + 1 /\ op'.start = op.start /\ op'.i = op.i /\ Collecting(op')
      BY <2>15, <3>1 DEF Collecting
    <3> QED
      BY <2>16, <3>1, <3>5, <3>6, <3>7, <3>8 DEF Taking, new
  <2>19. NewSound(op', node, dir, Y) /\ ~StartOnDisk(op') /\ SameFile(op, op') /\ op'.pc # "idle"
    BY <2>15, <2>18 DEF NewSound, StartOnDisk, SameFile
  <2> QED
    BY <1>1, <2>6, <2>9, <2>10, <2>13, <2>15, <2>19, TableMoves
<1> QED
  BY <1>2, <1>3

\* A cluster of the operation becomes the successor of another cluster: the
\* starts of the directory, of the node and of the operation stay what they are.
LEMMA PointTo ==
  ASSUME FInv, NEW c, NEW t, Root(t, View), NEW Y, Y = [View EXCEPT ![c] = t],
         \A s \in Slots : dir[s].start # t, node.start # t, op.start # t
  PROVE  /\ Linear(Y) /\ DirSound(dir, Table, Y) /\ NodeSound(node, dir, Y)
         /\ op.start # 0 => Root(op.start, Y)
<1>1. PICK X : X = View
  OBVIOUS
<1>2. Linear(X) /\ DirSound(dir, Table, X) /\ NodeSound(node, dir, X) /\ StartSound(op, node, dir, Table, X)
  BY <1>1 DEF FInv, OpSound
<1>3. Linear(Y) /\ \A r \in Clusters : Root(r, X) /\ r # t => Root(r, Y)
  BY <1>1, <1>2, LinkTo
<1>4. \A r : Root(r, X) /\ r # t => Root(r, Y)
  BY <1>3 DEF Root
<1> QED
  BY <1>2, <1>3, <1>4 DEF DirSound, NodeSound, StartSound

\* Each new cluster is made to point to the next one, which nothing points to yet.
LEMMA LinkStep ==
  ASSUME FInv, link_clusters
  PROVE  FInv'
<1>1. /\ op.pc = "link" /\ op.i < Len(op.new) /\ Ready /\ UNCHANGED <<fats, dir, node>>
      /\ op.copy = 1 /\ DOMAIN op = DOMAIN Idle
  BY NoFlush DEF link_clusters, disk, At, FInv, Shape
<1>2. CASE cache.bytes = <<>>
  BY <1>1, <1>2, Returns DEF link_clusters, ReturnNil
<1>3. CASE cache.bytes # <<>>
  <2>1. PICK c, t : c = op.new[op.i] /\ t = op.new[op.i + 1]
    OBVIOUS
  <2>2. set_fat_entry(c, t) /\ op' = [op EXCEPT !.i = @ + 1]
    BY <1>3, <2>1 DEF link_clusters
  <2>3. cache.lba = Sector(c)
    BY <1>1, <2>1 DEF Ready, Wanted, Touched, At, Walking
  <2>4. Taking(op, node, dir, View) /\ op.new \in Seq(Clusters) /\ op.i \in Nat \ {0} /\ Linear(View)
    BY <1>1 DEF FInv, OpSound, NewSound, Taking, Collecting
  <2>5. op.i \in 1..Len(op.new) /\ op.i + 1 \in 1..Len(op.new) /\ c \in Clusters /\ t \in Clusters
    BY <1>1, <2>1, <2>4
  <2>6. \A j \in 1..Len(op.new) :
          /\ View[op.new[j]] # 0
          /\ \A s \in Slots : dir[s].start # op.new[j]
          /\ node.start # op.new[j] /\ op.start # op.new[j]
          /\ \A e \in Entries : View[e] = op.new[j] => j > 1 /\ j <= op.i
    BY <1>1, <2>4 DEF Taking, Collecting
  <2>7. /\ Root(t, View) /\ node.start # t /\ op.start # t
        /\ \A s \in Slots : dir[s].start # t
    BY <2>1, <2>4, <2>5, <2>6 DEF Root
  <2>8. t \in Value
    BY <2>5 DEF Value
  <2>9. /\ Table' = Table /\ View' = [View EXCEPT ![c] = t] /\ CacheSound(cache', Table')
        /\ DOMAIN cache' = DOMAIN cache
    BY <1>1, <2>2, <2>3, <2>8, SetEntry
  <2>10. PICK Y : Y = [View EXCEPT ![c] = t]
    OBVIOUS
  <2>11. /\ Linear(Y) /\ DirSound(dir, Table, Y) /\ NodeSound(node, dir, Y)
         /\ op.start # 0 => Root(op.start, Y)
    BY <2>7, <2>10, PointTo
  <2>12. /\ DOMAIN op' = DOMAIN op /\ op'.copy = op.copy /\ op'.kind = op.kind /\ op'.slot = op.slot
         /\ op'.start = op.start /\ op'.required = op.required /\ op'.offset = op.offset
         /\ op'.bytes = op.bytes /\ op'.i = op.i + 1 /\ op'.new = op.new /\ op'.pc = "link"
    BY <1>1, <2>2 DEF Idle
  <2>13. \A e \in Entries : Y[e] = IF e = c THEN t ELSE View[e]
    BY <2>4, <2>10 DEF Linear
  <2>14. \A j, k \in 1..Len(op.new) : j # k => op.new[j] # op.new[k]
    BY <2>4 DEF Taking
  <2>15. \A j \in 1..Len(op.new) : Y[op.new[j]] # 0
    <3>1. \A j \in 1..Len(op.new) : op.new[j] \in Clusters
      BY <2>4
    <3>2. t # 0 /\ \A k \in Clusters : k \in Entries
      BY <2>5, Numbers
    <3> QED
      BY <2>6, <2>13, <3>1, <3>2
  <2>16. ASSUME NEW j \in 1..Len(op.new), NEW e \in Entries, Y[e] = op.new[j]
         PROVE  j > 1 /\ j <= op.i + 1
    <3>1. CASE e = c
      BY <2>1, <2>4, <2>5, <2>13, <2>14, <2>16, <3>1
    <3>2. CASE e # c
      BY <2>4, <2>6, <2>13, <2>16, <3>2
    <3> QED
      BY <3>1, <3>2
  <2>17. Taking(op', node, dir, Y)
    BY <2>4, <2>6, <2>12, <2>14, <2>15, <2>16 DEF Taking, Collecting
  <2>18. NewSound(op', node, dir, Y) /\ ~StartOnDisk(op') /\ SameFile(op, op') /\ op'.pc # "idle"
    BY <2>12, <2>17 DEF NewSound, StartOnDisk, SameFile
  <2> QED
    BY <1>1, <2>9, <2>10, <2>11, <2>12, <2>18, TableMoves
<1> QED
  BY <1>2, <1>3

\* The last cluster found of the old chain is made to point to the first new one.
LEMMA AttachStep ==
  ASSUME FInv, AttachToOld
  PROVE  FInv'
<1>1. /\ op.pc = "attach" /\ Ready /\ UNCHANGED <<fats, dir, node>>
      /\ op.copy = 1 /\ DOMAIN op = DOMAIN Idle
  BY NoFlush DEF AttachToOld, disk, At, FInv, Shape
<1>2. CASE cache.bytes = <<>>
  BY <1>1, <1>2, Returns DEF AttachToOld, ReturnNil
<1>3. CASE cache.bytes # <<>>
  <2>1. PICK c, t : c = op.chain[Len(op.chain)] /\ t = op.new[1]
    OBVIOUS
  <2>2. set_fat_entry(c, t) /\ op' = [op EXCEPT !.pc = "flush", !.chain = <<>>]
    BY <1>3, <2>1 DEF AttachToOld
  <2>3. cache.lba = Sector(c)
    BY <1>1, <2>1 DEF Ready, Wanted, Touched, At, Walking
  <2>4. Taking(op, node, dir, View) /\ op.new \in Seq(Clusters) /\ Len(op.new) > 0
    BY <1>1 DEF FInv, OpSound, NewSound, Taking, Collecting
  <2>5. 1 \in 1..Len(op.new) /\ t \in Clusters
    BY <2>1, <2>4
  <2>6. /\ Root(t, View) /\ node.start # t /\ op.start # t
        /\ \A s \in Slots : dir[s].start # t
    BY <2>1, <2>4, <2>5 DEF Taking, Root
  <2>7. t \in Value
    BY <2>5 DEF Value
  <2>8. /\ Table' = Table /\ View' = [View EXCEPT ![c] = t] /\ CacheSound(cache', Table')
        /\ DOMAIN cache' = DOMAIN cache
    BY <1>1, <2>2, <2>3, <2>7, SetEntry
  <2>9. PICK Y : Y = [View EXCEPT ![c] = t]
    OBVIOUS
  <2>10. /\ Linear(Y) /\ DirSound(dir, Table, Y) /\ NodeSound(node, dir, Y)
         /\ op.start # 0 => Root(op.start, Y)
    BY <2>6, <2>9, PointTo
  <2>11. /\ DOMAIN op' = DOMAIN op /\ op'.copy = op.copy /\ op'.kind = op.kind /\ op'.slot = op.slot
         /\ op'.start = op.start /\ op'.required = op.required /\ op'.offset = op.offset
         /\ op'.bytes = op.bytes /\ op'.pc = "flush"
    BY <1>1, <2>2 DEF Idle
  <2>12. NewSound(op', node, dir, Y) /\ ~StartOnDisk(op') /\ SameFile(op, op') /\ op'.pc # "idle"
    BY <2>11 DEF NewSound, StartOnDisk, SameFile
  <2> QED
    BY <1>1, <2>8, <2>9, <2>10, <2>11, <2>12, TableMoves
<1> QED
  BY <1>2, <1>3

-----------------------------------------------------------------------------
\* The operation gives up.
LEMMA FailSteps ==
  ASSUME FInv, FlushFails \/ DataFails \/ DirectoryFails \/ ReadDone \/ OutOfClusters
  PROVE  FInv'
<1>1. op' = Idle /\ UNCHANGED <<fats, cache, dir, node>>
  BY DEF FlushFails, DataFails, DirectoryFails, ReadDone, OutOfClusters, WriteFails, ReturnNil, disk
<1> QED
  BY <1>1, Returns

\* Every step keeps the tables linear and the starts apart.
LEMMA StepInv == FInv /\ [Next]_vars => FInv'
<1> SUFFICES ASSUME FInv, [Next]_vars PROVE FInv'
  OBVIOUS
<1>1. CASE UNCHANGED vars
  BY <1>1 DEF vars, disk, FInv, Shape, CopySound, Table, View, FlushDue, Absent, Wanted, Touched, Walking, At
<1>2. ASSUME NEW f \in FileNames, NEW n \in Lengths, fat16_create_file(f, n) PROVE FInv'
  BY <1>2, CreateStep
<1>3. ASSUME NEW f \in FileNames, NEW n \in Lengths, fat16_write_file(f, n) PROVE FInv'
  BY <1>3, WriteStep
<1>4. ASSUME NEW d \in DirNames, fat16_create_directory(d) PROVE FInv'
  BY <1>4, MakeDirectoryStep
<1>5. ASSUME NEW f \in FileNames, fat16_read_file(f) PROVE FInv'
  BY <1>5, ReadStep
<1>6. ASSUME NEW f \in FileNames, fat16_resolve_node(f) PROVE FInv'
  BY <1>6, NodeStep
<1>7. ASSUME NEW offset \in {0, node.size}, NEW n \in Lengths, fat16_write_into(offset, n) PROVE FInv'
  BY <1>7, StreamStep
<1>8. CASE CloseNode
  BY <1>8, NodeStep
<1>9. CASE flush_fat_cache
  BY <1>9, FlushStep
<1>10. CASE FlushFails \/ DataFails \/ DirectoryFails \/ ReadDone \/ OutOfClusters
  BY <1>10, FailSteps
<1>11. CASE EvictionFails
  BY <1>11, EvictionStep
<1>12. CASE fat_sector_bytes
  BY <1>12, SectorStep
<1>13. CASE cluster_chain
  BY <1>13, ChainStep
<1>14. CASE Compare
  BY <1>14, CompareStep
<1>15. CASE allocate_clusters
  BY <1>15, TakeStep
<1>16. CASE link_clusters
  BY <1>16, LinkStep
<1>17. CASE Linked
  BY <1>17, LinkedStep
<1>18. CASE AttachToOld
  BY <1>18, AttachStep
<1>19. CASE Flushed
  BY <1>19, FlushedStep
<1>20. CASE write_lba_list
  BY <1>20, DataStep
<1>21. CASE DataWritten
  BY <1>21, WrittenStep
<1>22. CASE finish_directory_update
  BY <1>22, DirectoryStep
<1>23. CASE Restart
  BY <1>23, RestartStep
<1> QED
  BY <1>1, <1>2, <1>3, <1>4, <1>5, <1>6, <1>7, <1>8, <1>9, <1>10, <1>11, <1>12, <1>13, <1>14,
     <1>15, <1>16, <1>17, <1>18, <1>19, <1>20, <1>21, <1>22, <1>23 DEF Next

\* Whatever step fails and wherever power is lost, two directory entries never
\* share a cluster (%fat16-allocate-clusters, %fat16-flush-fat-cache and the
\* order in which fat16-create-file and %fat16-extend-file use them).
THEOREM ChainsStayApart == Spec => []ChainsAreDisjoint
<1>1. Spec => []FInv
  BY InitInv, StepInv, PTL DEF Spec
<1> QED
  BY <1>1, InvImpliesDisjoint, PTL
-----------------------------------------------------------------------------
(***************************************************************************)
(* The chain of a root: it visits no cluster twice, it ends, and it grows  *)
(* only.                                                                   *)
(***************************************************************************)
\* Before a cluster there are clusters only.
LEMMA ChainBack ==
  ASSUME NEW X \in [Entries -> Value], NEW r \in Value, NEW k \in Nat, Along(X, r)[k] \in Clusters
  PROVE  Long(X, r, k + 1)
<1>1. PICK a : a = Along(X, r)
  OBVIOUS
<1>2. \A n \in Nat : a[n + 1] = IF a[n] \in Clusters THEN X[a[n]] ELSE a[n]
  BY <1>1, AlongDef
<1> DEFINE S == {j \in Nat : j <= k => a[k - j] \in Clusters}
<1>3. 0 \in S
  BY <1>1
<1>4. ASSUME NEW j \in Nat, j \in S PROVE j + 1 \in S
  <2> SUFFICES ASSUME j + 1 <= k PROVE a[k - (j + 1)] \in Clusters
    OBVIOUS
  <2>1. k - (j + 1) \in Nat /\ (k - (j + 1)) + 1 = k - j /\ a[k - j] \in Clusters
    BY <1>4
  <2> QED
    BY <1>2, <2>1
<1> HIDE DEF S
<1>5. \A j \in Nat : j \in S
  BY <1>3, <1>4, SetInduction
<1>6. ASSUME NEW n \in 0..k PROVE a[n] \in Clusters
  <2>1. k - n \in Nat /\ k - n <= k /\ k - (k - n) = n
    OBVIOUS
  <2> QED
    BY <1>5, <2>1 DEF S
<1> QED
  BY <1>1, <1>6 DEF Long

\* Two places of the chain from a root hold different clusters.
LEMMA ChainInjective ==
  ASSUME NEW X, Linear(X), NEW r, Root(r, X), NEW m \in Nat, NEW n \in Nat, n < m,
         Along(X, r)[m] \in Clusters
  PROVE  Along(X, r)[n] # Along(X, r)[m]
<1>1. X \in [Entries -> Value] /\ r \in Value /\ \A e \in Entries : X[e] # r
  BY DEF Linear, Root, Value
<1>2. PICK a : a = Along(X, r)
  OBVIOUS
<1>3. a[0] = r /\ \A k \in Nat : a[k + 1] = IF a[k] \in Clusters THEN X[a[k]] ELSE a[k]
  <2>1. /\ Along(X, r)[0] = r
        /\ \A k \in Nat : Along(X, r)[k + 1] = IF Along(X, r)[k] \in Clusters THEN X[Along(X, r)[k]]
                                               ELSE Along(X, r)[k]
    BY <1>1, AlongDef
  <2> QED
    BY <1>2, <2>1
<1> DEFINE S == {k \in Nat : \A j \in Nat : k < j /\ a[j] \in Clusters => a[j] # a[k]}
<1>4. ASSUME NEW j \in Nat, j > 0, a[j] \in Clusters
      PROVE  j - 1 \in Nat /\ a[j - 1] \in Clusters /\ a[j - 1] \in Entries /\ a[j] = X[a[j - 1]]
  <2>1. j - 1 \in Nat /\ (j - 1) + 1 = j
    BY <1>4
  <2>2. a[j] = IF a[j - 1] \in Clusters THEN X[a[j - 1]] ELSE a[j - 1]
    BY <1>3, <2>1
  <2> QED
    BY <1>4, <2>1, <2>2, Numbers
<1>5. 0 \in S
  BY <1>1, <1>3, <1>4
<1>6. ASSUME NEW k \in Nat, k \in S PROVE k + 1 \in S
  <2> SUFFICES ASSUME NEW j \in Nat, k + 1 < j, a[j] \in Clusters, a[j] = a[k + 1] PROVE FALSE
    OBVIOUS
  <2>1. j - 1 \in Nat /\ k < j - 1 /\ a[j - 1] \in Clusters /\ a[j - 1] \in Entries /\ a[j] = X[a[j - 1]]
    BY <1>4
  <2>2. a[k] \in Entries /\ a[k + 1] = X[a[k]]
    BY <1>3, Numbers
  <2>3. a[j - 1] = a[k]
    BY <2>1, <2>2 DEF Linear
  <2> QED
    BY <1>6, <2>1, <2>3
<1> HIDE DEF S
<1>7. \A k \in Nat : k \in S
  BY <1>5, <1>6, SetInduction
<1> QED
  BY <1>2, <1>7 DEF S

\* No chain is longer than the volume.
LEMMA ChainBound ==
  ASSUME NEW X, Linear(X), NEW r, Root(r, X), NEW k \in Nat, Long(X, r, k)
  PROVE  k <= TotalClusters
<1> DEFINE f == [n \in 0..(k - 1) |-> Along(X, r)[n]]
<1>1. f \in [0..(k - 1) -> Clusters]
  BY DEF Long
<1>2. ASSUME NEW m \in 0..(k - 1), NEW n \in 0..(k - 1), f[m] = f[n] PROVE m = n
  <2>1. m \in Nat /\ n \in Nat /\ Along(X, r)[m] \in Clusters /\ Along(X, r)[n] \in Clusters
    BY DEF Long
  <2>2. Along(X, r)[m] = Along(X, r)[n]
    BY <1>2
  <2>3. ~(m < n) /\ ~(n < m)
    BY <2>1, <2>2, ChainInjective
  <2> QED
    BY <2>1, <2>3
<1> HIDE DEF f
<1>3. f \in Injection(0..(k - 1), Clusters)
  BY <1>1, <1>2 DEF Injection, IsInjective
<1>4. IsFiniteSet(Clusters) /\ Cardinality(Clusters) = TotalClusters
  <2>1. 2 \in Int /\ TotalClusters + 1 \in Int /\ ~(2 > TotalClusters + 1)
    BY Numbers
  <2> QED
    BY <2>1, FS_Interval, Numbers, SMTT(30) DEF Clusters
<1>5. Cardinality(0..(k - 1)) = k
  <2>1. 0 \in Int /\ k - 1 \in Int
    OBVIOUS
  <2>2. Cardinality(0..(k - 1)) = IF 0 > k - 1 THEN 0 ELSE (k - 1) - 0 + 1
    BY <2>1, FS_Interval
  <2> QED
    BY <2>2
<1>6. Cardinality(0..(k - 1)) <= Cardinality(Clusters)
  BY <1>3, <1>4, FS_Injection
<1> QED
  BY <1>4, <1>5, <1>6

\* It never meets a free cluster.
LEMMA ChainInUse ==
  ASSUME NEW X, Linear(X), NEW r, Root(r, X), NEW n \in Nat
  PROVE  Along(X, r)[n] # 0 /\ (Along(X, r)[n] \in Clusters => X[Along(X, r)[n]] # 0)
<1>1. X \in [Entries -> Value] /\ r \in Value /\ r \in Clusters /\ X[r] # 0
  BY DEF Linear, Root, Value
<1>2. PICK a : a = Along(X, r)
  OBVIOUS
<1>3. a[0] = r /\ \A k \in Nat : a[k + 1] = IF a[k] \in Clusters THEN X[a[k]] ELSE a[k]
  <2>1. /\ Along(X, r)[0] = r
        /\ \A k \in Nat : Along(X, r)[k + 1] = IF Along(X, r)[k] \in Clusters THEN X[Along(X, r)[k]]
                                               ELSE Along(X, r)[k]
    BY <1>1, AlongDef
  <2> QED
    BY <1>2, <2>1
<1> DEFINE S == {k \in Nat : a[k] # 0 /\ (a[k] \in Clusters => X[a[k]] # 0)}
<1>4. 0 \in S
  BY <1>1, <1>3, Numbers
<1>5. ASSUME NEW k \in Nat, k \in S PROVE k + 1 \in S
  BY <1>3, <1>5, Numbers DEF Linear
<1> HIDE DEF S
<1>6. \A k \in Nat : k \in S
  BY <1>4, <1>5, SetInduction
<1> QED
  BY <1>2, <1>6 DEF S

\* It ends in an end mark.
LEMMA ChainEnds ==
  ASSUME NEW X, Linear(X), NEW r, Root(r, X)
  PROVE  Nth(X, r)[TotalClusters + 1] >= EndOfChain
<1>1. X \in [Entries -> Value] /\ r \in Value /\ TotalClusters \in Nat /\ TotalClusters + 1 \in Nat
  BY Numbers DEF Linear, Root, Value
<1>2. Along(X, r)[TotalClusters] \notin Clusters
  <2> SUFFICES ASSUME Along(X, r)[TotalClusters] \in Clusters PROVE FALSE
    OBVIOUS
  <2>1. Long(X, r, TotalClusters + 1)
    BY <1>1, ChainBack
  <2>2. TotalClusters + 1 <= TotalClusters
    BY <1>1, <2>1, ChainBound
  <2> QED
    BY <1>1, <2>2
<1>3. Along(X, r)[TotalClusters] \in Value /\ Along(X, r)[TotalClusters] # 0
  <2>1. Along(X, r) \in [Nat -> Value]
    BY <1>1, AlongDef
  <2>2. Along(X, r)[TotalClusters] # 0
    BY <1>1, ChainInUse
  <2> QED
    BY <1>1, <2>1, <2>2
<1>4. Along(X, r)[TotalClusters] = EndMark
  BY <1>2, <1>3 DEF Value
<1>5. Nth(X, r)[TotalClusters + 1] = Along(X, r)[TotalClusters]
  BY <1>1 DEF Nth
<1> QED
  BY <1>4, <1>5 DEF EndMark, EndOfChain

\* It has as many clusters as it is long.
LEMMA LongCardinality ==
  ASSUME NEW X, Linear(X), NEW r, Root(r, X), NEW k \in Nat, Long(X, r, k)
  PROVE  Cardinality(ChainSet(X, r)) >= k
<1> DEFINE f == [n \in 0..(k - 1) |-> Along(X, r)[n]]
           C == ChainSet(X, r)
<1>1. k <= TotalClusters /\ TotalClusters \in Nat
  BY ChainBound, Numbers
<1>2. \A n \in 0..(k - 1) : f[n] \in C
  <2> SUFFICES ASSUME NEW n \in 0..(k - 1) PROVE Along(X, r)[n] \in C
    OBVIOUS
  <2>1. n + 1 \in 1..(TotalClusters + 1) /\ (n + 1) - 1 = n
    BY <1>1
  <2>2. Nth(X, r)[n + 1] = Along(X, r)[n]
    BY <2>1 DEF Nth
  <2>3. Along(X, r)[n] \in Clusters
    BY DEF Long
  <2> QED
    BY <2>1, <2>2, <2>3 DEF ChainSet
<1>3. f \in [0..(k - 1) -> C]
  BY <1>2
<1>4. ASSUME NEW m \in 0..(k - 1), NEW n \in 0..(k - 1), f[m] = f[n] PROVE m = n
  <2>1. m \in Nat /\ n \in Nat /\ Along(X, r)[m] \in Clusters /\ Along(X, r)[n] \in Clusters
    BY DEF Long
  <2>2. Along(X, r)[m] = Along(X, r)[n]
    BY <1>4
  <2>3. ~(m < n) /\ ~(n < m)
    BY <2>1, <2>2, ChainInjective
  <2> QED
    BY <2>1, <2>3
<1>5. IsFiniteSet(C)
  <2>1. IsFiniteSet(Clusters)
    <3>1. 2 \in Int /\ TotalClusters + 1 \in Int
      BY <1>1
    <3> QED
      BY <3>1, FS_Interval DEF Clusters
  <2>2. C \in SUBSET Clusters
    BY DEF ChainSet
  <2> HIDE DEF C
  <2> QED
    BY <2>1, <2>2, FS_Subset
<1> HIDE DEF f
<1>6. f \in Injection(0..(k - 1), C)
  BY <1>3, <1>4 DEF Injection, IsInjective
<1>7. Cardinality(0..(k - 1)) = k
  <2>1. 0 \in Int /\ k - 1 \in Int
    OBVIOUS
  <2>2. Cardinality(0..(k - 1)) = IF 0 > k - 1 THEN 0 ELSE (k - 1) - 0 + 1
    BY <2>1, FS_Interval
  <2> QED
    BY <2>2
<1> HIDE DEF C
<1>8. Cardinality(0..(k - 1)) <= Cardinality(C) /\ Cardinality(C) \in Nat
  BY <1>5, <1>6, FS_Injection, FS_CardinalityType
<1> QED
  BY <1>7, <1>8 DEF C

\* The first k clusters from r are the same in two tables.
SameTo(X, Y, r, k) == \A n \in 0..(k - 1) : Along(Y, r)[n] = Along(X, r)[n]

\* An entry that ends a chain, or a free one, is changed: no chain gets shorter.
LEMMA LongKept ==
  ASSUME NEW X \in [Entries -> Value], NEW Y \in [Entries -> Value], NEW c, NEW t, X[c] \notin Clusters,
         Y = [X EXCEPT ![c] = t], NEW r \in Value, NEW k \in Nat, Long(X, r, k)
  PROVE  SameTo(X, Y, r, k) /\ Long(Y, r, k)
<1>1. PICK a : a = Along(X, r)
  OBVIOUS
<1>2. PICK b : b = Along(Y, r)
  OBVIOUS
<1>3. /\ a[0] = r /\ \A n \in Nat : a[n + 1] = IF a[n] \in Clusters THEN X[a[n]] ELSE a[n]
      /\ b[0] = r /\ \A n \in Nat : b[n + 1] = IF b[n] \in Clusters THEN Y[b[n]] ELSE b[n]
  <2>1. /\ Along(X, r)[0] = r
        /\ \A n \in Nat : Along(X, r)[n + 1] = IF Along(X, r)[n] \in Clusters THEN X[Along(X, r)[n]]
                                               ELSE Along(X, r)[n]
    BY AlongDef
  <2>2. /\ Along(Y, r)[0] = r
        /\ \A n \in Nat : Along(Y, r)[n + 1] = IF Along(Y, r)[n] \in Clusters THEN Y[Along(Y, r)[n]]
                                               ELSE Along(Y, r)[n]
    BY AlongDef
  <2> QED
    BY <1>1, <1>2, <2>1, <2>2
<1>4. \A n \in 0..(k - 1) : a[n] \in Clusters
  BY <1>1 DEF Long
<1> DEFINE S == {n \in Nat : n < k => b[n] = a[n]}
<1>5. 0 \in S
  BY <1>3
<1>6. ASSUME NEW n \in Nat, n \in S PROVE n + 1 \in S
  <2> SUFFICES ASSUME n + 1 < k PROVE b[n + 1] = a[n + 1]
    OBVIOUS
  <2>1. n \in 0..(k - 1) /\ n + 1 \in 0..(k - 1) /\ b[n] = a[n]
    BY <1>6
  <2>2. a[n] \in Clusters /\ a[n] \in Entries /\ X[a[n]] \in Clusters /\ a[n + 1] = X[a[n]]
    BY <1>3, <1>4, <2>1, Numbers
  <2>3. Y[a[n]] = X[a[n]]
    BY <2>2
  <2> QED
    BY <1>3, <2>1, <2>2, <2>3
<1> HIDE DEF S
<1>7. \A n \in Nat : n \in S
  BY <1>5, <1>6, SetInduction
<1>8. \A n \in 0..(k - 1) : b[n] = a[n]
  BY <1>7 DEF S
<1> QED
  BY <1>1, <1>2, <1>4, <1>8 DEF Long, SameTo

\* Clusters that point each to the next are a chain.
LEMMA Follows ==
  ASSUME NEW X \in [Entries -> Value], NEW r \in Value, NEW q \in Seq(Clusters), NEW m \in Nat,
         Len(q) > 0, Along(X, r)[m] = q[1],
         \A j \in 1..Len(q) : j < Len(q) => X[q[j]] = q[j + 1]
  PROVE  \A j \in 1..Len(q) : Along(X, r)[m + j - 1] = q[j]
<1>0. \A n \in Nat : Along(X, r)[n + 1] = IF Along(X, r)[n] \in Clusters THEN X[Along(X, r)[n]]
                                           ELSE Along(X, r)[n]
  BY AlongDef
<1>1. PICK a : a = Along(X, r)
  OBVIOUS
<1>2. \A n \in Nat : a[n + 1] = IF a[n] \in Clusters THEN X[a[n]] ELSE a[n]
  BY <1>0, <1>1
<1> DEFINE S == {j \in Nat : j < Len(q) => a[m + j] = q[j + 1]}
<1>3. 0 \in S
  BY <1>1
<1>4. ASSUME NEW j \in Nat, j \in S PROVE j + 1 \in S
  <2> SUFFICES ASSUME j + 1 < Len(q) PROVE a[m + (j + 1)] = q[(j + 1) + 1]
    OBVIOUS
  <2>1. m + j \in Nat /\ (m + j) + 1 = m + (j + 1) /\ a[m + j] = q[j + 1] /\ j + 1 \in 1..Len(q)
    BY <1>4
  <2>2. q[j + 1] \in Clusters /\ X[q[j + 1]] = q[(j + 1) + 1]
    BY <2>1
  <2> QED
    BY <1>2, <2>1, <2>2
<1> HIDE DEF S
<1>5. \A j \in Nat : j \in S
  BY <1>3, <1>4, SetInduction
<1>6. ASSUME NEW j \in 1..Len(q) PROVE a[m + j - 1] = q[j]
  <2>1. j - 1 \in Nat /\ j - 1 < Len(q) /\ m + (j - 1) = m + j - 1 /\ (j - 1) + 1 = j
    OBVIOUS
  <2> QED
    BY <1>5, <2>1 DEF S
<1> QED
  BY <1>1, <1>6
-----------------------------------------------------------------------------
(***************************************************************************)
(* The chains are long enough.                                             *)
(***************************************************************************)
LEMMA CountType ==
  ASSUME NEW m \in Nat
  PROVE  Count(m) \in Nat /\ Count(0) = 0 /\ (m > 0 => Count(m) > 0)
<1>1. ClusterSize \in Nat /\ ClusterSize > 0
  BY FatAssumption
<1>2. m \div ClusterSize \in Nat
  BY <1>1
<1>3. Count(m) \in Nat /\ Count(0) = 0
  BY <1>2 DEF Count, cluster_count_for_bytes
<1> QED
  BY <1>3, CountPositive DEF Count

\* A start is a cluster or 0.
LEMMA StartsTyped ==
  ASSUME FInv
  PROVE  op.start \in Value /\ node.start \in Value /\ \A s \in Slots : dir[s].start \in Value
  BY DEF FInv, OpSound, StartSound, NodeSound, DirSound, Root, Value

\* Nothing is required of an operation that has returned.
LEMMA IdleLong ==
  ASSUME NEW n, NEW V
  PROVE  OpLong(Idle, n, V)
<1>1. Idle.required = 0 /\ Len(Idle.bytes) = 0
  BY DEF Idle
<1>2. Count(0) = 0
  BY DEF Count, cluster_count_for_bytes
<1> QED
  BY <1>1, <1>2, IdleFields DEF OpLong, Needs, Walked, Extending, Extended

\* The empty cache holds the sector of no entry.
LEMMA EmptyReadable == Readable(EmptyCache)
<1>1. ASSUME NEW k \in Entries PROVE Sector(k) # NoSector
  <2>1. k \in Nat /\ EntriesPerSector \in Nat /\ EntriesPerSector > 0
    BY Numbers DEF Entries
  <2>2. k \div EntriesPerSector >= 0
    BY <2>1
  <2> QED
    BY <2>2 DEF Sector, NoSector
<1> QED
  BY <1>1 DEF Readable, EmptyCache

\* A new volume.
LEMMA InitLong == Init => LInv
<1> SUFFICES ASSUME Init PROVE LongEnoughAll
  BY DEF LInv
<1>1. /\ cache = EmptyCache /\ op = Idle /\ View = Table
      /\ \A s \in Slots : dir[s].start = 0 /\ dir[s].size = 0
      /\ node.start = 0 /\ node.size = 0
  BY DEF Init, View, EmptyCache
<1>2. Readable(cache)
  BY <1>1, EmptyReadable
<1>3. Count(0) = 0
  BY CountType
<1>4. \A X, r : Long(X, r, 0)
  BY DEF Long
<1> QED
  BY <1>1, <1>2, <1>3, <1>4, IdleLong DEF LongEnoughAll, DirLong, NodeLong

\* Steps that leave the table, the cache and the directory alone.
LEMMA LongStays ==
  ASSUME LongEnoughAll, UNCHANGED <<fats, cache, dir, early>>,
         NodeLong(node', View), OpLong(op', node', View)
  PROVE  LongEnoughAll'
<1>1. Table' = Table /\ View' = View
  BY DEF Table, View
<1> QED
  BY <1>1 DEF LongEnoughAll

\* An operation returns nil.
LEMMA LongReturns ==
  ASSUME LongEnoughAll, UNCHANGED <<fats, cache, dir, early, node>>, op' = Idle
  PROVE  LongEnoughAll'
<1>1. NodeLong(node', View) /\ OpLong(op', node', View)
  BY IdleLong DEF LongEnoughAll
<1> QED
  BY <1>1, LongStays

\* An operation begins.
LEMMA LongBegins ==
  ASSUME LongEnoughAll, NEW o, Begin(o), DOMAIN o = DOMAIN Idle, OpLong(o, node, View)
  PROVE  LongEnoughAll'
<1>1. PICK b : op' = [o EXCEPT !.sure = b]
  BY DEF Begin
<1>2. /\ op'.pc = o.pc /\ op'.offset = o.offset /\ op'.bytes = o.bytes /\ op'.new = o.new
      /\ op'.i = o.i /\ op'.start = o.start /\ op'.kind = o.kind /\ op'.required = o.required
      /\ op'.chain = o.chain /\ op'.from = o.from /\ op'.count = o.count
  BY <1>1 DEF Idle
<1>3. UNCHANGED <<fats, cache, dir, node, early>>
  BY DEF Begin, disk
<1>4. OpLong(op', node', View)
  BY <1>2, <1>3
  DEF OpLong, Needs, Walked, Extending, Extended, Prefix, LinkedTo, Collecting
<1>5. NodeLong(node', View)
  BY <1>3 DEF LongEnoughAll
<1> QED
  BY <1>3, <1>4, <1>5, LongStays

\* fat16-create-file needs as many clusters as the bytes take up.
LEMMA LongCreate ==
  ASSUME FInv, LongEnoughAll, NEW name, NEW n \in Lengths, fat16_create_file(name, n)
  PROVE  LongEnoughAll'
<1> DEFINE o == [Idle EXCEPT !.kind = "create", !.name = name, !.slot = FirstFree,
                        !.bytes = NewBytes(ops, n), !.required = cluster_count_for_bytes(n),
                        !.pc = IF n = 0 THEN "dir" ELSE "alloc"]
<1>1. Begin(o)
  BY DEF fat16_create_file
<1>2. /\ DOMAIN o = DOMAIN Idle /\ o.kind = "create" /\ o.bytes = NewBytes(ops, n)
      /\ o.required = Count(n) /\ o.start = 0 /\ o.new = <<>> /\ o.i = 1 /\ o.count = 0
      /\ o.chain = <<>> /\ o.pc = IF n = 0 THEN "dir" ELSE "alloc"
  BY DEF Idle, Count
<1>3. n \in Nat
  BY FatAssumption
<1>4. Len(o.bytes) = n
  BY <1>2, <1>3, BytesWritten
<1> HIDE DEF o
<1>5. Count(n) \in Nat /\ Count(0) = 0 /\ (n # 0 => Count(n) > 0)
  BY <1>3, CountType
<1>6. \A X, r : Long(X, r, 0)
  BY DEF Long
<1>7. Needs(o, node)
  BY <1>2, <1>4, <1>5 DEF Needs
<1>8. Walked(o, View) /\ Extended(o, View)
  BY <1>2, <1>5, <1>6 DEF Walked, Extended
<1>9. Extending(o, View)
  BY <1>2, <1>3, <1>5, <1>6 DEF Extending, Collecting
<1> QED
  BY <1>1, <1>2, <1>7, <1>8, <1>9, LongBegins DEF OpLong

\* fat16-create-directory needs one.
LEMMA LongMakeDirectory ==
  ASSUME LongEnoughAll, NEW name, fat16_create_directory(name)
  PROVE  LongEnoughAll'
<1> DEFINE o == [Idle EXCEPT !.kind = "mkdir", !.name = name, !.slot = FirstFree,
                        !.required = 1, !.pc = "alloc"]
<1>1. Begin(o)
  BY DEF fat16_create_directory
<1>2. /\ DOMAIN o = DOMAIN Idle /\ o.kind = "mkdir" /\ o.required = 1 /\ o.start = 0
      /\ o.new = <<>> /\ o.i = 1 /\ o.count = 0 /\ o.chain = <<>> /\ o.pc = "alloc"
  BY DEF Idle
<1> HIDE DEF o
<1>3. \A X, r : Long(X, r, 0)
  BY DEF Long
<1>4. Needs(o, node) /\ Walked(o, View) /\ Extended(o, View) /\ Extending(o, View)
  BY <1>2, <1>3 DEF Needs, Walked, Extended, Extending, Collecting
<1> QED
  BY <1>1, <1>2, <1>4, LongBegins DEF OpLong

\* The walk from a start has walked nothing yet.
LEMMA WalkBegins ==
  ASSUME FInv, NEW o, o.start \in Value, o.from = o.start, o.chain = <<>>,
         o.pc = IF o.start = 0 THEN "compare" ELSE "count", o.start # EndMark
  PROVE  Walked(o, View) /\ Extending(o, View) /\ Extended(o, View)
<1>1. View \in [Entries -> Value] /\ o.pc \in {"compare", "count"}
  BY DEF FInv, Linear
<1>2. Along(View, o.start)[0] = o.start
  <2>1. PICK X, s : X = View /\ s = o.start
    OBVIOUS
  <2>2. Along(X, s)[0] = s
    BY <1>1, <2>1, AlongDef
  <2> QED
    BY <2>1, <2>2
<1>3. Prefix(o, View) /\ Len(o.chain) = 0
  BY DEF Prefix
<1>4. o.start # 0 => o.start \in Clusters
  BY DEF Value
<1> QED
  BY <1>1, <1>2, <1>3, <1>4 DEF Walked, Extending, Extended

\* fat16-write-file begins at the start in the directory.
LEMMA LongWrite ==
  ASSUME FInv, LongEnoughAll, NEW name, NEW n \in Lengths, fat16_write_file(name, n)
  PROVE  LongEnoughAll'
<1>1. PICK s \in Slots : s = SlotOf(name)
  BY DEF fat16_write_file, SlotsOf, SlotOf
<1> DEFINE o == [Idle EXCEPT !.kind = "write", !.name = name, !.slot = s,
                            !.bytes = NewBytes(ops, n), !.required = cluster_count_for_bytes(n),
                            !.start = dir[s].start, !.from = dir[s].start,
                            !.pc = IF dir[s].start = 0 THEN "compare" ELSE "count"]
<1>2. Begin(o)
  BY <1>1 DEF fat16_write_file
<1>3. /\ DOMAIN o = DOMAIN Idle /\ o.kind = "write" /\ o.bytes = NewBytes(ops, n)
      /\ o.required = Count(n) /\ o.start = dir[s].start /\ o.from = o.start /\ o.chain = <<>>
      /\ o.pc = IF o.start = 0 THEN "compare" ELSE "count"
  BY DEF Idle, Count
<1>4. n \in Nat
  BY FatAssumption
<1>5. Len(o.bytes) = n
  BY <1>3, <1>4, BytesWritten
<1> HIDE DEF o
<1>6. Needs(o, node)
  BY <1>3, <1>4, <1>5, CountType DEF Needs
<1>7. o.start \in Value /\ o.start # EndMark
  BY <1>3, Numbers DEF FInv, DirSound, Root, Value
<1>8. Walked(o, View) /\ Extending(o, View) /\ Extended(o, View)
  BY <1>3, <1>7, WalkBegins
<1> QED
  BY <1>2, <1>3, <1>6, <1>8, LongBegins DEF OpLong

\* write-from! begins at the start in the node.
LEMMA LongStream ==
  ASSUME FInv, LongEnoughAll, NEW offset \in {0, node.size}, NEW n \in Lengths, fat16_write_into(offset, n)
  PROVE  LongEnoughAll'
<1> DEFINE o == [Idle EXCEPT !.kind = "stream", !.name = dir[node.slot].name, !.slot = node.slot,
                        !.bytes = NewBytes(ops, n), !.offset = offset,
                        !.required = cluster_count_for_bytes(offset + n),
                        !.start = node.start, !.from = node.start,
                        !.pc = IF node.start = 0 THEN "compare" ELSE "count"]
<1>1. Begin(o)
  BY DEF fat16_write_into
<1>2. /\ DOMAIN o = DOMAIN Idle /\ o.kind = "stream" /\ o.offset = offset
      /\ o.bytes = NewBytes(ops, n) /\ o.start = node.start /\ o.from = o.start
      /\ o.required = Count(offset + n) /\ o.chain = <<>>
      /\ o.pc = IF o.start = 0 THEN "compare" ELSE "count"
  BY DEF Idle, Count
<1>3. n \in Nat /\ offset \in Nat /\ offset + n \in Nat
  BY FatAssumption DEF FInv, SizeSound
<1>4. Len(o.bytes) = n
  BY <1>2, <1>3, BytesWritten
<1> HIDE DEF o
<1>5. Needs(o, node)
  <2>1. Count(offset + n) \in Nat
    BY <1>3, CountType
  <2> QED
    BY <1>2, <1>4, <2>1 DEF Needs
<1>6. o.start \in Value /\ o.start # EndMark
  BY <1>2, Numbers DEF FInv, NodeSound, Root, Value
<1>7. Walked(o, View) /\ Extending(o, View) /\ Extended(o, View)
  BY <1>2, <1>6, WalkBegins
<1> QED
  BY <1>1, <1>2, <1>5, <1>7, LongBegins DEF OpLong

\* fat16-read-file needs none.
LEMMA LongRead ==
  ASSUME LongEnoughAll, NEW name, fat16_read_file(name)
  PROVE  LongEnoughAll'
<1> DEFINE o == [Idle EXCEPT !.kind = "read", !.name = name, !.slot = SlotOf(name),
                        !.from = dir[SlotOf(name)].start, !.pc = "walk"]
<1>1. Begin(o)
  BY DEF fat16_read_file
<1>2. DOMAIN o = DOMAIN Idle /\ o.kind = "read" /\ o.bytes = <<>> /\ o.required = 0 /\ o.pc = "walk"
  BY DEF Idle
<1> HIDE DEF o
<1>3. Count(0) = 0 /\ \A X, r : Long(X, r, 0)
  BY CountType DEF Long
<1>4. Needs(o, node) /\ Walked(o, View) /\ Extending(o, View) /\ Extended(o, View)
  BY <1>2, <1>3 DEF Needs, Walked, Extending, Extended
<1> QED
  BY <1>1, <1>2, <1>4, LongBegins DEF OpLong

\* A node is opened with the start and the size of its directory entry.
LEMMA LongNode ==
  ASSUME FInv, LongEnoughAll, CloseNode \/ \E f \in FileNames : fat16_resolve_node(f)
  PROVE  LongEnoughAll'
<1>1. op' = Idle /\ UNCHANGED <<fats, cache, dir, early>>
  BY DEF CloseNode, fat16_resolve_node, At, disk, book, FInv, Shape
<1>2. Count(0) = 0 /\ \A X, r : Long(X, r, 0)
  BY CountType DEF Long
<1>3. NodeLong(node', View)
  <2>1. CASE CloseNode
    BY <1>2, <2>1 DEF CloseNode, NodeLong
  <2>2. ASSUME NEW f \in FileNames, fat16_resolve_node(f) PROVE NodeLong(node', View)
    <3>1. PICK s \in Slots : s = SlotOf(f)
      BY <2>2 DEF fat16_resolve_node, SlotsOf, SlotOf
    <3>2. node'.start = dir[s].start /\ node'.size = dir[s].size
      BY <2>2, <3>1 DEF fat16_resolve_node
    <3> QED
      BY <3>2 DEF LongEnoughAll, DirLong, NodeLong
  <2> QED
    BY <2>1, <2>2
<1> QED
  BY <1>1, <1>3, IdleLong, LongStays

\* A step of fat16-cluster-chain whose entry could be looked up: it follows the
\* chain, and ends at the end mark and nowhere before.
LEMMA LongWalk ==
  ASSUME FInv, LongEnoughAll, cluster_chain
  PROVE  LongEnoughAll'
<1>1. Walking /\ Ready /\ UNCHANGED <<fats, cache, dir, node, early>> /\ DOMAIN op = DOMAIN Idle
  BY DEF cluster_chain, disk, book, FInv, Shape
<1>2. NodeLong(node', View) /\ OpLong(op, node, View)
  BY <1>1 DEF LongEnoughAll
<1>3. PICK q, entry : q = Append(op.chain, op.from) /\ entry = fat_entry(op.from)
  OBVIOUS
<1>4. IF Ends(entry) \/ Len(q) = TotalClusters + 2
      THEN op' = [op EXCEPT !.chain = q, !.pc = AfterWalk, !.i = 1]
      ELSE op' = [op EXCEPT !.chain = q, !.from = entry]
  BY <1>3 DEF cluster_chain, Walk
<1>5. /\ op'.kind = op.kind /\ op'.start = op.start /\ op'.required = op.required
      /\ op'.offset = op.offset /\ op'.bytes = op.bytes /\ op'.count = op.count /\ op'.new = op.new
      /\ op'.chain = q
      /\ IF Ends(entry) \/ Len(q) = TotalClusters + 2 THEN op'.pc = AfterWalk
         ELSE op'.pc = op.pc /\ op'.from = entry
  BY <1>1, <1>4 DEF Idle
<1>6. Needs(op', node')
  BY <1>1, <1>2, <1>5 DEF OpLong, Needs
<1>7. CASE op.pc = "walk"
  <2>1. op'.pc \in {"walk", "read", "data"}
    BY <1>5, <1>7 DEF AfterWalk, At
  <2>2. Extended(op', View)
    BY <1>2, <1>5, <1>7 DEF OpLong, Extended
  <2>3. Walked(op', View) /\ Extending(op', View)
    BY <2>1 DEF Walked, Extending
  <2> QED
    BY <1>1, <1>2, <1>6, <2>2, <2>3, LongStays DEF OpLong
<1>8. CASE op.pc # "walk"
  <2>1. op.pc \in {"count", "tail"}
    BY <1>1, <1>8 DEF Walking
  <2>2. PICK X, r : X = View /\ r = op.start
    OBVIOUS
  <2>3. Linear(X) /\ X \in [Entries -> Value] /\ StartSound(op, node, dir, Table, X)
    BY <2>2 DEF FInv, OpSound, Linear
  <2>4. /\ r \in Clusters /\ r \in Value /\ op.from \in Clusters /\ op.from \in Entries
        /\ op.chain \in Seq(Clusters)
        /\ op.from = Along(X, r)[Len(op.chain)]
        /\ \A n \in 1..Len(op.chain) : op.chain[n] = Along(X, r)[n - 1]
    BY <1>2, <2>1, <2>2, Numbers DEF OpLong, Walked, Prefix, Value
  <2>5. Root(r, X)
    BY <2>2, <2>3, <2>4, Numbers DEF StartSound
  <2>6. PICK k \in Nat : k = Len(op.chain)
    BY <2>4
  <2>7. /\ q \in Seq(Clusters) /\ Len(q) = k + 1 /\ q[k + 1] = op.from
        /\ \A n \in 1..k : q[n] = op.chain[n]
    BY <1>3, <2>4, <2>6
  <2>8. \A n \in 1..Len(q) : q[n] = Along(X, r)[n - 1]
    BY <2>4, <2>6, <2>7
  <2>9. Long(X, r, k + 1)
    BY <2>3, <2>4, <2>6, ChainBack
  <2>10. Len(q) # TotalClusters + 2
    <3>1. k + 1 <= TotalClusters
      BY <2>3, <2>5, <2>9, ChainBound
    <3> QED
      BY <2>7, <3>1, Numbers
  <2>11. entry = X[op.from]
    <3>1. cache.lba = Sector(op.from)
      BY <1>1, <2>1 DEF Ready, Wanted, Touched, At, Walking
    <3>2. cache.bytes # <<>>
      BY <2>4, <3>1 DEF LongEnoughAll, Readable
    <3>3. /\ cache.bytes \in [Loaded(cache.lba) -> Value]
          /\ ~cache.dirty => cache.bytes = SectorOf(Table, cache.lba)
      BY <3>2 DEF FInv, CacheSound
    <3>4. op.from \in Loaded(cache.lba)
      BY <2>4, <3>1 DEF Loaded
    <3>5. entry = cache.bytes[op.from]
      BY <1>3, <3>2 DEF fat_entry
    <3> QED
      BY <2>2, <2>4, <3>3, <3>4, <3>5 DEF View, Patched, SectorOf, Loaded
  <2>12. /\ Along(X, r)[k + 1] = entry /\ entry \in Value /\ entry # 0
    <3>0. X \in [Entries -> Value] /\ r \in Value
      BY <2>3, <2>4
    <3>1. Along(X, r) \in [Nat -> Value]
      BY <3>0, AlongDef
    <3>2. \A n \in Nat : Along(X, r)[n + 1] = IF Along(X, r)[n] \in Clusters THEN X[Along(X, r)[n]]
                                              ELSE Along(X, r)[n]
      BY <3>0, AlongDef
    <3>3. Along(X, r)[k + 1] # 0
      BY <2>3, <2>5, ChainInUse
    <3>4. PICK a : a = Along(X, r)
      OBVIOUS
    <3>5. a[k + 1] = X[op.from]
      BY <2>4, <2>6, <3>2, <3>4
    <3> QED
      BY <2>11, <3>1, <3>3, <3>4, <3>5
  <2>13. CASE Ends(entry)
    <3>1. entry = EndMark
      BY <2>12, <2>13, FatAssumption DEF Ends, NilEntry, Value, Clusters, EndOfChain, EndMark
    <3>2. op'.pc = AfterWalk
      BY <1>5, <2>13
    <3>3. \/ op.pc = "count" /\ op'.pc = "compare"
          \/ op.pc = "tail" /\ op'.pc = "attach"
      BY <2>1, <3>2 DEF AfterWalk, At
    <3>4. Extended(op', View) /\ Prefix(op', View)
      BY <1>5, <2>2, <2>7, <2>8, <3>3 DEF Extended, Prefix
    <3>5. CASE op.pc = "count" /\ op'.pc = "compare"
      BY <1>1, <1>2, <1>5, <1>6, <2>7, <3>4, <3>5, LongStays DEF OpLong, Walked, Extending
    <3>6. CASE op.pc = "tail" /\ op'.pc = "attach"
      <4>1. Extending(op', View)
        BY <1>2, <1>5, <3>6 DEF OpLong, Extending, Collecting, LinkedTo
      <4>2. op.count \in Nat /\ Long(X, r, op.count)
        BY <1>2, <2>2, <3>6 DEF OpLong, Extending
      <4>3. ~(op.count > k + 1)
        <5> SUFFICES ASSUME op.count > k + 1 PROVE FALSE
          OBVIOUS
        <5>1. Along(X, r)[k + 1] \in Clusters
          BY <4>2 DEF Long
        <5> QED
          BY <2>12, <3>1, <5>1, Numbers
      <4>4. View[op'.chain[Len(op'.chain)]] = EndMark /\ Len(op'.chain) >= op'.count
        BY <1>5, <2>2, <2>7, <2>11, <3>1, <4>2, <4>3
      <4>5. Walked(op', View)
        BY <3>4, <3>6, <4>4 DEF Walked
      <4> QED
        BY <1>1, <1>2, <1>6, <3>4, <4>1, <4>5, LongStays DEF OpLong
    <3> QED
      BY <3>3, <3>5, <3>6
  <2>14. CASE ~Ends(entry)
    <3>1. op'.pc = op.pc /\ op'.from = entry
      BY <1>5, <2>10, <2>14
    <3>2. entry \in Clusters
      BY <2>12, <2>14 DEF Ends, Value, EndMark, EndOfChain
    <3>3. Walked(op', View)
      BY <1>5, <2>1, <2>2, <2>4, <2>7, <2>8, <2>12, <3>1, <3>2 DEF Walked, Prefix
    <3>4. Extending(op', View) /\ Extended(op', View)
      BY <1>2, <1>5, <2>1, <3>1 DEF OpLong, Extending, Extended, Collecting, LinkedTo
    <3> QED
      BY <1>1, <1>2, <1>6, <3>3, <3>4, LongStays DEF OpLong
  <2> QED
    BY <2>13, <2>14
<1> QED
  BY <1>7, <1>8

\* The chain is as long as it was counted: what is missing will be allocated.
LEMMA LongCompare ==
  ASSUME FInv, LongEnoughAll, Compare
  PROVE  LongEnoughAll'
<1>1. op.pc = "compare" /\ UNCHANGED <<fats, cache, dir, node, early>> /\ DOMAIN op = DOMAIN Idle
  BY DEF Compare, disk, At, FInv, Shape
<1>2. CASE op' = Idle
  BY <1>1, <1>2, LongReturns
<1>3. CASE op' # Idle
  <2> DEFINE o == [op EXCEPT !.count = Len(op.chain), !.chain = <<>>, !.i = 1]
  <2>1. \/ op.required > Len(op.chain) /\ op' = [o EXCEPT !.pc = "alloc", !.from = 2]
        \/ op.required = 0 /\ op' = [o EXCEPT !.pc = "dir"]
        \/ /\ ~(op.required > Len(op.chain))
           /\ op' = [o EXCEPT !.pc = IF op.kind = "stream" THEN "flush" ELSE "walk", !.from = op.start]
    BY <1>3 DEF Compare, ReturnNil
  <2>2. /\ DOMAIN o = DOMAIN Idle /\ o.kind = op.kind /\ o.start = op.start /\ o.required = op.required
        /\ o.offset = op.offset /\ o.bytes = op.bytes /\ o.new = op.new /\ o.i = 1
        /\ o.count = Len(op.chain) /\ o.chain = <<>>
    BY <1>1 DEF Idle
  <2> HIDE DEF o
  <2>3. /\ op'.kind = o.kind /\ op'.start = o.start /\ op'.required = o.required
        /\ op'.offset = o.offset /\ op'.bytes = o.bytes /\ op'.new = o.new /\ op'.i = o.i
        /\ op'.count = o.count /\ op'.chain = o.chain
        /\ \/ op'.pc = "alloc" /\ op.required > Len(op.chain)
           \/ op'.pc \in {"flush", "walk"} /\ ~(op.required > Len(op.chain))
           \/ op'.pc = "dir" /\ op.required = 0
    BY <2>1, <2>2 DEF Idle
  <2>4. NodeLong(node', View) /\ OpLong(op, node, View)
    BY <1>1 DEF LongEnoughAll
  <2>5. /\ op.chain \in Seq(Clusters) /\ Len(op.chain) \in Nat /\ op.required \in Nat
        /\ \A n \in 1..Len(op.chain) : op.chain[n] = Along(View, op.start)[n - 1]
        /\ Len(op.chain) = 0 => op.start = 0
    BY <1>1, <2>4 DEF OpLong, Walked, Prefix, Needs
  <2>6. Long(View, op.start, Len(op.chain))
    <3> SUFFICES ASSUME NEW n \in 0..(Len(op.chain) - 1) PROVE Along(View, op.start)[n] \in Clusters
      BY DEF Long
    <3>1. n + 1 \in 1..Len(op.chain) /\ (n + 1) - 1 = n
      BY <2>5
    <3> QED
      BY <2>5, <3>1
  <2>7. op.new = <<>>
    BY <1>1 DEF FInv, OpSound, NewSound
  <2>8. Needs(op', node')
    BY <1>1, <2>2, <2>3, <2>4 DEF OpLong, Needs
  <2>9. Walked(op', View)
    BY <2>3 DEF Walked
  <2>10. Extending(op', View)
    BY <2>2, <2>3, <2>5, <2>6, <2>7 DEF Extending, Collecting
  <2>11. Extended(op', View)
    <3>1. op'.pc \in {"flush", "walk", "dir"} => Long(View, op.start, op.required)
      BY <2>3, <2>5, <2>6 DEF Long
    <3> QED
      BY <2>2, <2>3, <3>1 DEF Extended
  <2> QED
    BY <1>1, <2>4, <2>8, <2>9, <2>10, <2>11, LongStays DEF OpLong
<1> QED
  BY <1>2, <1>3

\* All new clusters are linked.
LEMMA LongLinked ==
  ASSUME FInv, LongEnoughAll, Linked
  PROVE  LongEnoughAll'
<1>1. /\ op.pc = "link" /\ op.i = Len(op.new) /\ UNCHANGED <<fats, cache, dir, early>>
      /\ DOMAIN op = DOMAIN Idle /\ DOMAIN node = {"slot", "start", "size"}
  BY DEF Linked, disk, book, At, FInv, Shape
<1>2. NodeLong(node, View) /\ OpLong(op, node, View) /\ Taking(op, node, dir, View)
  BY <1>1 DEF LongEnoughAll, FInv, OpSound, NewSound
<1>3. /\ op.new \in Seq(Clusters) /\ op.i \in Nat \ {0} /\ Len(op.new) \in Nat \ {0}
      /\ op.count \in Nat /\ Long(View, op.start, op.count) /\ (op.count = 0 => op.start = 0)
      /\ Len(op.new) = op.required - op.count /\ op.required \in Nat
      /\ \A j \in 1..Len(op.new) : View[op.new[j]] = IF j < Len(op.new) THEN op.new[j + 1] ELSE EndMark
  BY <1>1, <1>2 DEF Taking, Collecting, OpLong, Extending, LinkedTo, Needs
<1>4. CASE op.count > 0
  <2>1. op' = [op EXCEPT !.pc = "tail", !.from = op.start] /\ node' = node
    BY <1>4 DEF Linked
  <2>2. /\ op'.kind = op.kind /\ op'.start = op.start /\ op'.required = op.required /\ op'.offset = op.offset
        /\ op'.bytes = op.bytes /\ op'.new = op.new /\ op'.pc = "tail" /\ op'.from = op.start
        /\ op'.count = op.count /\ op'.chain = op.chain
    BY <1>1, <2>1 DEF Idle
  <2>3. Needs(op', node') /\ Extended(op', View)
    BY <1>2, <2>1, <2>2 DEF OpLong, Needs, Extended
  <2>4. Extending(op', View)
    BY <1>3, <1>4, <2>2 DEF Extending, Collecting, LinkedTo
  <2>5. Walked(op', View)
    <3>1. PICK X, r : X = View /\ r = op.start
      OBVIOUS
    <3>2. X \in [Entries -> Value] /\ r \in Value
      BY <3>1, StartsTyped DEF FInv, Linear
    <3>3. Along(X, r)[0] = r
      BY <3>2, AlongDef
    <3>4. r \in Clusters
      BY <1>3, <1>4, <3>1, <3>3 DEF Long
    <3>5. op.chain = <<>>
      BY <1>1, <1>2 DEF OpLong, Extending, Collecting
    <3> QED
      BY <2>2, <3>1, <3>3, <3>4, <3>5 DEF Walked, Prefix
  <2> QED
    BY <1>1, <1>2, <2>1, <2>3, <2>4, <2>5, LongStays DEF OpLong
<1>5. CASE ~(op.count > 0)
  <2>1. op' = [op EXCEPT !.pc = "flush", !.start = op.new[1]]
    BY <1>5 DEF Linked
  <2>2. /\ op'.kind = op.kind /\ op'.start = op.new[1] /\ op'.required = op.required
        /\ op'.offset = op.offset /\ op'.bytes = op.bytes /\ op'.pc = "flush"
    BY <1>1, <2>1 DEF Idle
  <2>3. /\ node'.size = node.size
        /\ node'.start = IF op.kind = "stream" THEN op.new[1] ELSE node.start
    BY <1>1, <1>3, <1>5 DEF Linked
  <2>4. Needs(op', node')
    BY <1>2, <2>2, <2>3 DEF OpLong, Needs
  <2>5. NodeLong(node', View)
    <3>1. CASE op.kind = "stream"
      <4>1. node.start = 0
        BY <1>2, <1>3, <1>5, <3>1 DEF OpLong, Needs
      <4>2. node.size \in Nat /\ Count(node.size) \in Nat
        BY CountType DEF FInv, SizeSound
      <4>3. Count(node.size) = 0
        <5>1. PICK X : X = View
          OBVIOUS
        <5>2. X \in [Entries -> Value] /\ 0 \in Value
          BY <5>1 DEF FInv, Linear, Value
        <5>3. Along(X, 0)[0] = 0
          BY <5>2, AlongDef
        <5>4. Count(node.size) > 0 => Along(X, 0)[0] \in Clusters
          BY <1>2, <4>1, <4>2, <5>1 DEF NodeLong, Long
        <5> QED
          BY <4>2, <5>3, <5>4, Numbers
      <4> QED
        BY <2>3, <4>3 DEF NodeLong, Long
    <3>2. CASE op.kind # "stream"
      BY <1>2, <2>3, <3>2 DEF NodeLong
    <3> QED
      BY <3>1, <3>2
  <2>6. Long(View, op.new[1], Len(op.new))
    <3>1. PICK X, r, q : X = View /\ r = op.new[1] /\ q = op.new
      OBVIOUS
    <3>2. X \in [Entries -> Value] /\ r \in Value /\ q \in Seq(Clusters) /\ Len(q) > 0
      BY <1>3, <3>1 DEF FInv, Linear, Value
    <3>3. Along(X, r)[0] = q[1]
      BY <3>1, <3>2, AlongDef
    <3>4. \A j \in 1..Len(q) : j < Len(q) => X[q[j]] = q[j + 1]
      BY <1>3, <3>1
    <3>5. \A j \in 1..Len(q) : Along(X, r)[0 + j - 1] = q[j]
      BY <3>2, <3>3, <3>4, Follows
    <3>6. ASSUME NEW n \in 0..(Len(q) - 1) PROVE Along(X, r)[n] \in Clusters
      <4>1. n + 1 \in 1..Len(q) /\ 0 + (n + 1) - 1 = n
        BY <3>2
      <4> QED
        BY <3>2, <3>5, <4>1
    <3> QED
      BY <3>1, <3>6 DEF Long
  <2>7. Extended(op', View)
    BY <1>3, <1>5, <2>2, <2>6 DEF Extended
  <2>8. Walked(op', View) /\ Extending(op', View)
    BY <2>2 DEF Walked, Extending
  <2> QED
    BY <1>1, <2>4, <2>5, <2>7, <2>8, LongStays DEF OpLong
<1> QED
  BY <1>4, <1>5

\* The table is on the disk; a sector of data is written; all of them are.
LEMMA LongFlushed ==
  ASSUME FInv, LongEnoughAll, Flushed \/ write_lba_list
  PROVE  LongEnoughAll'
<1>1. UNCHANGED <<fats, cache, dir, node, early>> /\ DOMAIN op = DOMAIN Idle
  BY DEF Flushed, write_lba_list, disk, book, FInv, Shape
<1>2. /\ op'.kind = op.kind /\ op'.start = op.start /\ op'.required = op.required
      /\ op'.offset = op.offset /\ op'.bytes = op.bytes
      /\ op.pc \in {"flush", "data"} /\ op'.pc \in {"walk", "data"}
  <2>1. CASE Flushed
    BY <1>1, <2>1 DEF Flushed, At, Idle
  <2>2. CASE write_lba_list
    <3>1. op.pc = "data" /\ \E k : op' = [op EXCEPT !.i = k + 1]
      BY <2>2 DEF write_lba_list, At
    <3> QED
      BY <1>1, <3>1 DEF Idle
  <2> QED
    BY <2>1, <2>2
<1>3. NodeLong(node', View) /\ OpLong(op, node, View)
  BY <1>1 DEF LongEnoughAll
<1>4. Needs(op', node') /\ Extended(op', View)
  BY <1>1, <1>2, <1>3 DEF OpLong, Needs, Extended
<1>5. Walked(op', View) /\ Extending(op', View)
  BY <1>2 DEF Walked, Extending
<1> QED
  BY <1>1, <1>3, <1>4, <1>5, LongStays DEF OpLong

\* All data are written: the size kept in the node may grow.
LEMMA LongWritten ==
  ASSUME FInv, LongEnoughAll, DataWritten
  PROVE  LongEnoughAll'
<1> DEFINE end == op.offset + Len(op.bytes)
<1>1. /\ UNCHANGED <<fats, cache, dir, early>> /\ DOMAIN op = DOMAIN Idle
      /\ DOMAIN node = {"slot", "start", "size"}
      /\ op.pc = "data" /\ op' = [op EXCEPT !.pc = "dir"]
      /\ node' = IF op.kind = "stream" /\ end > node.size THEN [node EXCEPT !.size = end] ELSE node
  BY DEF DataWritten, disk, book, FInv, Shape, At
<1>2. /\ op'.kind = op.kind /\ op'.start = op.start /\ op'.required = op.required
      /\ op'.offset = op.offset /\ op'.bytes = op.bytes /\ op'.pc = "dir"
  BY <1>1 DEF Idle
<1>3. /\ node'.start = node.start
      /\ node'.size = node.size \/ (op.kind = "stream" /\ node'.size = end)
  BY <1>1
<1>4. NodeLong(node, View) /\ OpLong(op, node, View)
  BY DEF LongEnoughAll
<1>5. Long(View, op.start, op.required)
  BY <1>1, <1>4 DEF OpLong, Extended
<1>6. NodeLong(node', View)
  <2>1. CASE node'.size = node.size
    BY <1>3, <1>4, <2>1 DEF NodeLong
  <2>2. CASE op.kind = "stream" /\ node'.size = end
    BY <1>3, <1>4, <1>5, <2>2 DEF NodeLong, OpLong, Needs
  <2> QED
    BY <1>3, <2>1, <2>2
<1>7. Needs(op', node') /\ Extended(op', View)
  BY <1>2, <1>3, <1>4, <1>5 DEF OpLong, Needs, Extended
<1>8. Walked(op', View) /\ Extending(op', View)
  BY <1>2 DEF Walked, Extending
<1> QED
  BY <1>1, <1>6, <1>7, <1>8, LongStays DEF OpLong

\* The directory entry is written: its chain is long enough in the driver's
\* table, and on the disk if no sector is pending.
LEMMA LongDirectory ==
  ASSUME FInv, LongEnoughAll, finish_directory_update
  PROVE  LongEnoughAll'
<1>1. /\ UNCHANGED <<fats, cache, node>> /\ op.pc = "dir" /\ op' = Idle /\ DOMAIN dir = Slots
      /\ dir' = [dir EXCEPT ![op.slot] = [name |-> op.name, start |-> op.start, size |-> NewSize]]
      /\ early' = IF cache.dirty THEN early \cup {op.slot} ELSE early \ {op.slot}
  BY DEF finish_directory_update, At, FInv, Shape
<1>2. Table' = Table /\ View' = View /\ cache' = cache /\ node' = node
  BY <1>1 DEF Table, View
<1>3. NodeLong(node, View) /\ OpLong(op, node, View) /\ Long(View, op.start, op.required)
  BY <1>1 DEF LongEnoughAll, OpLong, Extended
<1>4. Long(View, op.start, Count(NewSize))
  <2>1. CASE op.kind = "mkdir"
    <3>1. NewSize = 0 /\ Count(0) = 0
      BY <2>1, CountType DEF NewSize
    <3> QED
      BY <3>1 DEF Long
  <2>2. CASE op.kind = "stream"
    <3>1. NewSize = node.size
      BY <2>2 DEF NewSize
    <3> QED
      BY <1>3, <2>2, <3>1 DEF NodeLong, OpLong, Needs
  <2>3. CASE op.kind \notin {"mkdir", "stream"}
    <3>1. NewSize = Len(op.bytes)
      BY <2>3 DEF NewSize
    <3> QED
      BY <1>3, <2>3, <3>1 DEF OpLong, Needs
  <2> QED
    BY <2>1, <2>2, <2>3
<1>5. /\ \A s \in Slots : s # op.slot => dir'[s] = dir[s]
      /\ op.slot \in Slots => dir'[op.slot].start = op.start /\ dir'[op.slot].size = NewSize
  BY <1>1
<1>6. DirLong(dir', View, {})
  BY <1>4, <1>5 DEF LongEnoughAll, DirLong
<1>7. DirLong(dir', Table, early')
  <2>1. CASE cache.dirty
    BY <1>1, <1>5, <2>1 DEF LongEnoughAll, DirLong
  <2>2. CASE ~cache.dirty
    BY <1>6, <2>2 DEF View, DirLong
  <2> QED
    BY <2>1, <2>2
<1>8. Readable(cache)
  BY DEF LongEnoughAll
<1>9. OpLong(op', node', View)
  BY <1>1, IdleLong
<1> QED
  BY <1>2, <1>3, <1>6, <1>7, <1>8, <1>9 DEF LongEnoughAll

\* One copy of the table is written: the disk holds the driver's table.
LEMMA LongFlush ==
  ASSUME FInv, LongEnoughAll, flush_fat_cache
  PROVE  LongEnoughAll'
<1> DEFINE b == cache.bytes
<1>1. /\ FlushDue /\ cache.dirty /\ View = Patched(Table, b) /\ UNCHANGED <<dir, node>>
      /\ fats' = [fats EXCEPT ![op.copy] = Patched(@, b)] /\ early' = {}
      /\ op' = [op EXCEPT !.copy = IF op.copy = NumFats THEN 1 ELSE @ + 1]
      /\ cache' = [cache EXCEPT !.dirty = op.copy # NumFats]
  BY DEF flush_fat_cache, FlushDue, View
<1>2. /\ DOMAIN op = DOMAIN Idle /\ DOMAIN cache = {"lba", "bytes", "dirty"} /\ DOMAIN fats = 1..NumFats
      /\ op.copy \in 1..NumFats /\ (op.copy # 1 => Patched(Table, b) = Table)
  BY DEF FInv, Shape, CopySound
<1>3. cache'.bytes = b /\ cache'.lba = cache.lba
  BY <1>1, <1>2
<1>4. Table' = View
  <2>1. CASE op.copy = 1
    BY <1>1, <1>2, <2>1, Numbers DEF Table
  <2>2. CASE op.copy # 1
    BY <1>1, <1>2, <2>2, Numbers DEF Table
  <2> QED
    BY <2>1, <2>2
<1>5. View' = View
  <2>1. Patched(Table', b) = Table'
    BY <1>1, <1>4, PatchedTwice
  <2> QED
    BY <1>3, <1>4, <2>1 DEF View
<1>6. /\ op'.kind = op.kind /\ op'.start = op.start /\ op'.required = op.required
      /\ op'.offset = op.offset /\ op'.bytes = op.bytes /\ op'.pc = op.pc /\ op'.chain = op.chain
      /\ op'.from = op.from /\ op'.count = op.count /\ op'.new = op.new /\ op'.i = op.i
  BY <1>1, <1>2 DEF Idle
<1>7. OpLong(op', node, View)
  <2>1. OpLong(op, node, View)
    BY DEF LongEnoughAll
  <2> QED
    BY <1>6, <2>1 DEF OpLong, Needs, Walked, Prefix, Extending, Extended, Collecting, LinkedTo
<1>8. Readable(cache')
  BY <1>3 DEF LongEnoughAll, Readable
<1> QED
  BY <1>1, <1>4, <1>5, <1>7, <1>8 DEF LongEnoughAll

\* A sector is read into the cache.
LEMMA LongSector ==
  ASSUME FInv, LongEnoughAll, fat_sector_bytes, ~lossy'
  PROVE  LongEnoughAll'
<1>1. /\ ~cache.dirty /\ UNCHANGED <<fats, dir, op, node, early>>
      /\ cache' = [lba |-> Sector(Wanted), bytes |-> SectorOf(Table, Sector(Wanted)), dirty |-> FALSE]
  BY DEF fat_sector_bytes, FlushDue, disk, Table, FInv, CacheSound
<1>2. Table' = Table /\ View' = View
  BY <1>1 DEF View, Table
<1>3. Readable(cache')
  <2>1. cache'.lba = Sector(Wanted) /\ cache'.bytes = SectorOf(Table, Sector(Wanted))
    BY <1>1
  <2>2. ASSUME NEW k \in Entries, Sector(k) = Sector(Wanted)
        PROVE  SectorOf(Table, Sector(Wanted)) # <<>>
    <3>1. k \in DOMAIN SectorOf(Table, Sector(Wanted))
      BY <2>2 DEF SectorOf
    <3> QED
      BY <3>1
  <2> QED
    BY <2>1, <2>2 DEF Readable
<1> QED
  BY <1>1, <1>2, <1>3 DEF LongEnoughAll

\* Power is lost while no directory entry is ahead of the table.
LEMMA LongRestart ==
  ASSUME FInv, LongEnoughAll, Restart, ~lossy'
  PROVE  LongEnoughAll'
<1>1. /\ op' = Idle /\ cache' = EmptyCache /\ node'.start = 0 /\ node'.size = 0
      /\ UNCHANGED <<fats, dir>> /\ early = {} /\ early' = {}
  BY DEF Restart, disk
<1>2. Table' = Table /\ View' = Table
  BY <1>1 DEF Table, View, EmptyCache
<1>3. DirLong(dir', Table, {})
  BY <1>1 DEF LongEnoughAll
<1>4. NodeLong(node', Table)
  <2>1. Count(0) = 0
    BY CountType
  <2> QED
    BY <1>1, <2>1 DEF NodeLong, Long
<1> QED
  BY <1>1, <1>2, <1>3, <1>4, IdleLong, EmptyReadable DEF LongEnoughAll
-----------------------------------------------------------------------------
\* %fat16-set-fat-entry on an entry that points to no cluster: what was long
\* enough still is.
LEMMA LongGrows ==
  ASSUME FInv, LongEnoughAll, UNCHANGED <<fats, dir, node, early>>,
         NEW c, NEW t \in Value, cache.lba = Sector(c), set_fat_entry(c, t), View[c] \notin Clusters,
         NEW Y, Y = [View EXCEPT ![c] = t], OpLong(op', node, Y)
  PROVE  LongEnoughAll'
<1>1. Table' = Table /\ View' = Y
  BY SetEntry
<1>2. PICK X : X = View
  OBVIOUS
<1>3. X \in [Entries -> Value] /\ Y \in [Entries -> Value] /\ X[c] \notin Clusters /\ Y = [X EXCEPT ![c] = t]
  BY <1>2 DEF FInv, Linear
<1>4. NodeLong(node, Y)
  <2>1. PICK r \in Value, k \in Nat : r = node.start /\ k = Count(node.size)
    BY StartsTyped, CountType DEF FInv, SizeSound
  <2>2. Long(X, r, k)
    BY <1>2, <2>1 DEF LongEnoughAll, NodeLong
  <2>3. Long(Y, r, k)
    BY <1>3, <2>2, LongKept
  <2> QED
    BY <2>1, <2>3 DEF NodeLong
<1>5. DirLong(dir, Y, {})
  <2> SUFFICES ASSUME NEW s \in Slots PROVE Long(Y, dir[s].start, Count(dir[s].size))
    BY DEF DirLong
  <2>1. PICK r \in Value, k \in Nat : r = dir[s].start /\ k = Count(dir[s].size)
    BY StartsTyped, CountType DEF FInv, SizeSound
  <2>2. Long(X, r, k)
    BY <1>2, <2>1 DEF LongEnoughAll, DirLong
  <2>3. Long(Y, r, k)
    BY <1>3, <2>2, LongKept
  <2> QED
    BY <2>1, <2>3
<1>6. Readable(cache')
  <2>1. /\ cache.bytes # <<>> /\ DOMAIN cache = {"lba", "bytes", "dirty"}
        /\ cache' = [cache EXCEPT !.bytes[c] = t, !.dirty = TRUE]
    BY DEF set_fat_entry, FInv, Shape
  <2>2. cache'.lba = cache.lba /\ cache'.bytes = [cache.bytes EXCEPT ![c] = t]
    BY <2>1
  <2>3. DOMAIN cache'.bytes = Loaded(cache.lba)
    BY <2>1, <2>2 DEF FInv, CacheSound
  <2>4. ASSUME NEW k \in Entries, Sector(k) = cache.lba PROVE cache'.bytes # <<>>
    <3>1. k \in DOMAIN cache'.bytes
      BY <2>3, <2>4 DEF Loaded
    <3> QED
      BY <3>1
  <2> QED
    BY <2>2, <2>4 DEF Readable
<1> QED
  BY <1>1, <1>4, <1>5, <1>6 DEF LongEnoughAll

\* The chain an operation is to extend is kept by such a change too.
LEMMA StartKept ==
  ASSUME FInv, Linear(View), NEW c, NEW t \in Value, View[c] \notin Clusters, NEW Y, Y = [View EXCEPT ![c] = t],
         NEW k \in Nat, Long(View, op.start, k)
  PROVE  Long(Y, op.start, k)
<1>1. PICK X, r : X = View /\ r = op.start
  OBVIOUS
<1>2. X \in [Entries -> Value] /\ Y \in [Entries -> Value] /\ r \in Value
  BY <1>1, StartsTyped DEF Linear
<1>3. Long(Y, r, k)
  <2>1. Long(X, r, k) /\ X[c] \notin Clusters /\ Y = [X EXCEPT ![c] = t]
    BY <1>1
  <2> QED
    BY <1>2, <2>1, LongKept
<1> QED
  BY <1>1, <1>3

\* One cluster of the search.
LEMMA LongTake ==
  ASSUME FInv, LongEnoughAll, allocate_clusters
  PROVE  LongEnoughAll'
<1>1. /\ op.pc = "alloc" /\ Ready /\ UNCHANGED <<fats, dir, node, early>> /\ DOMAIN op = DOMAIN Idle
  BY DEF allocate_clusters, disk, book, At, FInv, Shape
<1>2. OpLong(op, node, View) /\ NodeLong(node, View) /\ Taking(op, node, dir, View)
  BY <1>1 DEF LongEnoughAll, FInv, OpSound, NewSound
<1>3. /\ op.count \in Nat /\ Long(View, op.start, op.count) /\ (op.count = 0 => op.start = 0)
      /\ op.chain = <<>> /\ op.i = 1 /\ Len(op.new) < op.required - op.count
      /\ op.required \in Nat /\ op.new \in Seq(Clusters)
      /\ \A j \in 1..Len(op.new) : View[op.new[j]] = EndMark
  <2>1. op.new \in Seq(Clusters) /\ op.required \in Nat
    BY <1>2 DEF Taking, OpLong, Needs
  <2> QED
    BY <1>1, <1>2, <2>1 DEF OpLong, Extending, Collecting, LinkedTo
<1>4. CASE fat_entry(op.from) # 0
  <2>1. op' = PassedOver /\ UNCHANGED cache
    BY <1>4 DEF allocate_clusters
  <2>2. /\ op'.kind = op.kind /\ op'.start = op.start /\ op'.required = op.required
        /\ op'.offset = op.offset /\ op'.bytes = op.bytes /\ op'.pc = "alloc" /\ op'.chain = op.chain
        /\ op'.count = op.count /\ op'.new = op.new /\ op'.i = op.i
    BY <1>1, <2>1 DEF PassedOver, Idle
  <2>3. OpLong(op', node', View)
    BY <1>1, <1>2, <2>2 DEF OpLong, Needs, Walked, Extending, Extended, Collecting, LinkedTo
  <2> QED
    BY <1>1, <1>2, <2>1, <2>3, LongStays
<1>5. CASE fat_entry(op.from) = 0
  <2>1. PICK c : c = op.from
    OBVIOUS
  <2>2. op' = Taken /\ set_fat_entry(c, EndMark) /\ cache.bytes # <<>> /\ cache.bytes[c] = 0
    BY <1>5, <2>1 DEF allocate_clusters, fat_entry, set_fat_entry
  <2>3. c \in Clusters /\ cache.lba = Sector(c)
    BY <1>1, <2>1 DEF Ready, Wanted, Touched, At
  <2>4. View[c] = 0 /\ c \in Entries
    <3>1. /\ cache.bytes \in [Loaded(cache.lba) -> Value]
          /\ ~cache.dirty => cache.bytes = SectorOf(Table, cache.lba)
      BY <2>2 DEF FInv, CacheSound
    <3>2. c \in Loaded(cache.lba) /\ c \in Entries
      BY <2>3, Numbers DEF Loaded
    <3> QED
      BY <2>2, <3>1, <3>2 DEF View, Patched, SectorOf, Loaded
  <2>5. PICK Y : Y = [View EXCEPT ![c] = EndMark]
    OBVIOUS
  <2>6. EndMark \in Value /\ View[c] \notin Clusters /\ Linear(View)
    BY <2>4, Numbers DEF Value, FInv
  <2>7. Long(Y, op.start, op.count)
    BY <1>3, <2>5, <2>6, StartKept
  <2>8. \A e \in Entries : Y[e] = IF e = c THEN EndMark ELSE View[e]
    BY <2>5, <2>6 DEF Linear
  <2>9. /\ op'.kind = op.kind /\ op'.start = op.start /\ op'.required = op.required
        /\ op'.offset = op.offset /\ op'.bytes = op.bytes /\ op'.chain = op.chain
        /\ op'.count = op.count /\ op'.i = op.i /\ op'.new = Append(op.new, c)
        /\ op'.pc = IF Len(op.new) + 1 = op.required - op.count THEN "link" ELSE "alloc"
    BY <1>1, <2>1, <2>2 DEF Taken, Idle
  <2>10. Len(op'.new) = Len(op.new) + 1 /\ Len(op.new) \in Nat
    BY <1>3, <2>3, <2>9
  <2>11. \A j \in 1..Len(op'.new) : Y[op'.new[j]] = EndMark
    <3> SUFFICES ASSUME NEW j \in 1..(Len(op.new) + 1) PROVE Y[op'.new[j]] = EndMark
      BY <2>10
    <3>1. CASE j = Len(op.new) + 1
      BY <1>3, <2>3, <2>4, <2>8, <2>9, <3>1
    <3>2. CASE j # Len(op.new) + 1
      <4>1. j \in 1..Len(op.new) /\ op'.new[j] = op.new[j] /\ op.new[j] \in Clusters
        BY <1>3, <2>3, <2>9, <2>10, <3>2
      <4> QED
        BY <1>3, <2>8, <4>1, Numbers
    <3> QED
      BY <3>1, <3>2
  <2>12. Extending(op', Y)
    <3>1. \A j \in 1..Len(op'.new) : ~(j < op'.i)
      BY <1>3, <2>9, <2>10
    <3>2. op'.pc = "alloc" => Len(op'.new) < op'.required - op'.count
      BY <1>3, <2>9, <2>10
    <3>3. op'.pc # "alloc" => Len(op'.new) = op'.required - op'.count
      BY <2>9, <2>10
    <3> QED
      BY <1>3, <2>7, <2>9, <2>11, <3>1, <3>2, <3>3 DEF Extending, Collecting, LinkedTo
  <2>13. Needs(op', node) /\ Walked(op', Y) /\ Extended(op', Y)
    BY <1>2, <2>9 DEF OpLong, Needs, Walked, Extended
  <2> QED
    BY <1>1, <2>2, <2>3, <2>5, <2>6, <2>12, <2>13, LongGrows DEF OpLong
<1> QED
  BY <1>4, <1>5

\* Each new cluster is made to point to the next one.
LEMMA LongLink ==
  ASSUME FInv, LongEnoughAll, link_clusters
  PROVE  LongEnoughAll'
<1>1. /\ op.pc = "link" /\ op.i < Len(op.new) /\ Ready /\ UNCHANGED <<fats, dir, node, early>>
      /\ DOMAIN op = DOMAIN Idle
  BY DEF link_clusters, disk, book, At, FInv, Shape
<1>2. CASE cache.bytes = <<>>
  BY <1>1, <1>2, LongReturns DEF link_clusters, ReturnNil
<1>3. CASE cache.bytes # <<>>
  <2>1. PICK c, t : c = op.new[op.i] /\ t = op.new[op.i + 1]
    OBVIOUS
  <2>2. set_fat_entry(c, t) /\ op' = [op EXCEPT !.i = @ + 1]
    BY <1>3, <2>1 DEF link_clusters
  <2>3. cache.lba = Sector(c)
    BY <1>1, <2>1 DEF Ready, Wanted, Touched, At, Walking
  <2>4. /\ Taking(op, node, dir, View) /\ op.new \in Seq(Clusters) /\ op.i \in Nat \ {0} /\ Linear(View)
        /\ OpLong(op, node, View)
    BY <1>1 DEF FInv, OpSound, NewSound, Taking, Collecting, LongEnoughAll
  <2>5. op.i \in 1..Len(op.new) /\ op.i + 1 \in 1..Len(op.new) /\ c \in Clusters /\ t \in Clusters /\ t \in Value
    BY <1>1, <2>1, <2>4 DEF Value
  <2>6. /\ op.count \in Nat /\ Long(View, op.start, op.count) /\ (op.count = 0 => op.start = 0)
        /\ op.chain = <<>> /\ Len(op.new) = op.required - op.count
        /\ \A j \in 1..Len(op.new) : View[op.new[j]] = IF j < op.i THEN op.new[j + 1] ELSE EndMark
    BY <1>1, <2>4 DEF OpLong, Extending, Collecting, LinkedTo
  <2>7. View[c] = EndMark /\ View[c] \notin Clusters /\ c \in Entries
    BY <2>1, <2>4, <2>5, <2>6, Numbers
  <2>8. PICK Y : Y = [View EXCEPT ![c] = t]
    OBVIOUS
  <2>9. Long(Y, op.start, op.count)
    BY <2>4, <2>5, <2>6, <2>7, <2>8, StartKept
  <2>10. \A e \in Entries : Y[e] = IF e = c THEN t ELSE View[e]
    BY <2>4, <2>8 DEF Linear
  <2>11. /\ op'.kind = op.kind /\ op'.start = op.start /\ op'.required = op.required
         /\ op'.offset = op.offset /\ op'.bytes = op.bytes /\ op'.chain = op.chain
         /\ op'.count = op.count /\ op'.i = op.i + 1 /\ op'.new = op.new /\ op'.pc = "link"
    BY <1>1, <2>2 DEF Idle
  <2>12. ASSUME NEW j \in 1..Len(op.new)
         PROVE  Y[op.new[j]] = IF j < op.i + 1 THEN op.new[j + 1] ELSE EndMark
    <3>1. op.new[j] \in Clusters /\ op.new[j] \in Entries
      BY <2>4, Numbers
    <3>2. CASE j = op.i
      BY <2>1, <2>4, <2>10, <3>1, <3>2
    <3>3. CASE j # op.i
      <4>1. op.new[j] # c
        BY <2>1, <2>4, <2>5, <3>3 DEF Taking
      <4>2. j < op.i + 1 <=> j < op.i
        BY <2>4, <3>3
      <4> QED
        BY <2>6, <2>10, <3>1, <4>1, <4>2
    <3> QED
      BY <3>2, <3>3
  <2>13. Extending(op', Y)
    BY <2>6, <2>9, <2>11, <2>12 DEF Extending, Collecting, LinkedTo
  <2>14. Needs(op', node) /\ Walked(op', Y) /\ Extended(op', Y)
    BY <2>4, <2>11 DEF OpLong, Needs, Walked, Extended
  <2> QED
    BY <1>1, <2>2, <2>3, <2>5, <2>7, <2>8, <2>13, <2>14, LongGrows DEF OpLong
<1> QED
  BY <1>2, <1>3

\* The last cluster of the old chain is made to point to the first new one: the
\* chain now has as many clusters as the operation needs.
LEMMA LongAttach ==
  ASSUME FInv, LongEnoughAll, AttachToOld
  PROVE  LongEnoughAll'
<1>1. /\ op.pc = "attach" /\ Ready /\ UNCHANGED <<fats, dir, node, early>> /\ DOMAIN op = DOMAIN Idle
  BY DEF AttachToOld, disk, book, At, FInv, Shape
<1>2. CASE cache.bytes = <<>>
  BY <1>1, <1>2, LongReturns DEF AttachToOld, ReturnNil
<1>3. CASE cache.bytes # <<>>
  <2>1. PICK c, t : c = op.chain[Len(op.chain)] /\ t = op.new[1]
    OBVIOUS
  <2>2. set_fat_entry(c, t) /\ op' = [op EXCEPT !.pc = "flush", !.chain = <<>>]
    BY <1>3, <2>1 DEF AttachToOld
  <2>3. cache.lba = Sector(c)
    BY <1>1, <2>1 DEF Ready, Wanted, Touched, At, Walking
  <2>4. /\ Taking(op, node, dir, View) /\ op.new \in Seq(Clusters) /\ Linear(View) /\ Len(op.new) > 0
        /\ OpLong(op, node, View)
    BY <1>1 DEF FInv, OpSound, NewSound, Taking, Collecting, LongEnoughAll
  <2>5. PICK X, r, q : X = View /\ r = op.start /\ q = op.new
    OBVIOUS
  <2>6. /\ op.count \in Nat /\ op.count > 0 /\ Len(q) = op.required - op.count /\ op.required \in Nat
        /\ \A j \in 1..Len(q) : X[q[j]] = IF j < Len(q) THEN q[j + 1] ELSE EndMark
    BY <1>1, <2>4, <2>5 DEF OpLong, Extending, Collecting, LinkedTo, Needs
  <2>7. /\ op.chain \in Seq(Clusters) /\ Len(op.chain) >= op.count /\ X[c] = EndMark
        /\ \A n \in 1..Len(op.chain) : op.chain[n] = Along(X, r)[n - 1]
    BY <1>1, <2>1, <2>4, <2>5 DEF OpLong, Walked, Prefix
  <2>8. PICK m \in Nat : m = Len(op.chain) /\ m > 0
    BY <2>6, <2>7
  <2>9. c \in Clusters /\ c \in Entries /\ c = Along(X, r)[m - 1] /\ X[c] \notin Clusters
    BY <2>1, <2>7, <2>8, Numbers
  <2>10. t \in Clusters /\ t \in Value
    BY <2>1, <2>4 DEF Value
  <2>11. PICK Y : Y = [View EXCEPT ![c] = t]
    OBVIOUS
  <2>12. Long(X, r, m)
    <3> SUFFICES ASSUME NEW n \in 0..(m - 1) PROVE Along(X, r)[n] \in Clusters
      BY DEF Long
    <3>1. n + 1 \in 1..Len(op.chain) /\ (n + 1) - 1 = n
      BY <2>8
    <3> QED
      BY <2>7, <3>1
  <2>13. /\ Y \in [Entries -> Value] /\ r \in Value /\ q \in Seq(Clusters)
         /\ \A e \in Entries : Y[e] = IF e = c THEN t ELSE X[e]
    BY <2>4, <2>5, <2>10, <2>11, StartsTyped DEF Linear
  <2>14. Long(Y, r, m) /\ \A n \in 0..(m - 1) : Along(Y, r)[n] = Along(X, r)[n]
    <3>1. X \in [Entries -> Value] /\ Y \in [Entries -> Value] /\ Y = [X EXCEPT ![c] = t]
      BY <2>4, <2>5, <2>11, <2>13 DEF Linear
    <3>2. r \in Value /\ m \in Nat /\ X[c] \notin Clusters
      BY <2>8, <2>9, <2>13
    <3>3. (\A n \in 0..(m - 1) : Along(Y, r)[n] = Along(X, r)[n]) /\ Long(Y, r, m)
      <4>1. PICK k : k = m
        OBVIOUS
      <4>2. k \in Nat /\ Long(X, r, k)
        BY <2>12, <3>2, <4>1
      <4>3. Long(Y, r, k)
        BY <3>1, <3>2, <4>2, LongKept
      <4>4. SameTo(X, Y, r, k)
        BY <3>1, <3>2, <4>2, LongKept
      <4> QED
        BY <4>1, <4>3, <4>4 DEF SameTo
    <3> QED
      BY <3>3
  <2>15. Along(Y, r)[m] = q[1]
    <3>1. \A n \in Nat : Along(Y, r)[n + 1] = IF Along(Y, r)[n] \in Clusters THEN Y[Along(Y, r)[n]]
                                              ELSE Along(Y, r)[n]
      <4>1. Y \in [Entries -> Value] /\ r \in Value
        BY <2>13
      <4> QED
        BY <4>1, AlongDef
    <3>2. PICK a : a = Along(Y, r)
      OBVIOUS
    <3>3. m - 1 \in Nat /\ (m - 1) + 1 = m /\ m - 1 \in 0..(m - 1)
      BY <2>8
    <3>4. a[m - 1] = c
      BY <2>9, <2>14, <3>2, <3>3
    <3>5. a[m] = Y[c]
      BY <2>9, <3>1, <3>2, <3>3, <3>4
    <3> QED
      BY <2>1, <2>5, <2>9, <2>13, <3>2, <3>5
  <2>16. \A j \in 1..Len(q) : j < Len(q) => Y[q[j]] = q[j + 1]
    <3> SUFFICES ASSUME NEW j \in 1..Len(q), j < Len(q) PROVE Y[q[j]] = q[j + 1]
      OBVIOUS
    <3>1. q[j] \in Clusters /\ q[j + 1] \in Clusters /\ q[j] \in Entries
      BY <2>13, Numbers
    <3>2. X[q[j]] = q[j + 1] /\ q[j] # c
      BY <2>6, <2>9, <3>1
    <3> QED
      BY <2>13, <3>1, <3>2
  <2>17. Len(q) > 0
    BY <2>4, <2>5
  <2>18. \A j \in 1..Len(q) : Along(Y, r)[m + j - 1] = q[j]
    BY <2>13, <2>15, <2>16, <2>17, Follows
  <2>19. Long(Y, r, op.required)
    <3> SUFFICES ASSUME NEW n \in 0..(op.required - 1) PROVE Along(Y, r)[n] \in Clusters
      BY DEF Long
    <3>1. n < m + Len(q)
      BY <2>6, <2>7, <2>8, <2>13
    <3>2. CASE n < m
      BY <2>14, <3>2 DEF Long
    <3>3. CASE ~(n < m)
      <4>1. PICK j \in 1..Len(q) : m + j - 1 = n
        <5>1. (n - m) + 1 \in 1..Len(q) /\ m + ((n - m) + 1) - 1 = n
          BY <2>6, <2>13, <3>1, <3>3
        <5> QED
          BY <5>1
      <4> QED
        BY <2>13, <2>18, <4>1
    <3> QED
      BY <3>2, <3>3
  <2>20. /\ op'.kind = op.kind /\ op'.start = op.start /\ op'.required = op.required
         /\ op'.offset = op.offset /\ op'.bytes = op.bytes /\ op'.pc = "flush"
    BY <1>1, <2>2 DEF Idle
  <2>21. Needs(op', node) /\ Walked(op', Y) /\ Extending(op', Y) /\ Extended(op', Y)
    BY <2>4, <2>5, <2>19, <2>20 DEF OpLong, Needs, Walked, Extending, Extended
  <2>22. View[c] \notin Clusters
    BY <2>5, <2>9
  <2> QED
    BY <1>1, <2>2, <2>3, <2>10, <2>11, <2>21, <2>22, LongGrows DEF OpLong
<1> QED
  BY <1>2, <1>3
-----------------------------------------------------------------------------
\* A lost entry is never found again.
LEMMA LossyStays == FInv /\ [Next]_vars /\ lossy => lossy'
<1> SUFFICES ASSUME lossy, [Next]_vars, FInv PROVE lossy'
  OBVIOUS
<1> USE DEF Begin, book
<1>1. CASE UNCHANGED vars
  BY <1>1 DEF vars
<1>2. ASSUME NEW f \in FileNames, NEW n \in Lengths, fat16_create_file(f, n) \/ fat16_write_file(f, n) PROVE lossy'
  BY <1>2 DEF fat16_create_file, fat16_write_file
<1>3. ASSUME NEW d \in DirNames, fat16_create_directory(d) PROVE lossy'
  BY <1>3 DEF fat16_create_directory
<1>4. ASSUME NEW f \in FileNames, fat16_read_file(f) \/ fat16_resolve_node(f) PROVE lossy'
  BY <1>4 DEF fat16_read_file, fat16_resolve_node
<1>5. ASSUME NEW offset \in {0, node.size}, NEW n \in Lengths, fat16_write_into(offset, n) PROVE lossy'
  BY <1>5 DEF fat16_write_into
<1>6. CASE CloseNode \/ flush_fat_cache \/ fat_sector_bytes \/ EvictionFails \/ cluster_chain \/ Compare
  BY <1>6 DEF CloseNode, flush_fat_cache, fat_sector_bytes, EvictionFails, cluster_chain, Compare
<1>7. CASE FlushFails \/ DataFails \/ DirectoryFails \/ ReadDone \/ OutOfClusters
  BY <1>7 DEF FlushFails, DataFails, DirectoryFails, ReadDone, OutOfClusters, WriteFails
<1>8. CASE allocate_clusters \/ link_clusters \/ Linked \/ AttachToOld \/ Flushed
  BY <1>8 DEF allocate_clusters, link_clusters, Linked, AttachToOld, Flushed
<1>9. CASE write_lba_list \/ DataWritten \/ finish_directory_update
  BY <1>9 DEF write_lba_list, DataWritten, finish_directory_update
<1>10. CASE Restart
  BY <1>10 DEF Restart
<1> QED
  BY <1>1, <1>2, <1>3, <1>4, <1>5, <1>6, <1>7, <1>8, <1>9, <1>10 DEF Next

\* Every step keeps the chains long enough while no entry is lost.
LEMMA StepLong == FInv /\ LInv /\ [Next]_vars => LInv'
<1> SUFFICES ASSUME FInv, LInv, [Next]_vars, ~lossy' PROVE LongEnoughAll'
  BY DEF LInv
<1>0. LongEnoughAll
  BY LossyStays DEF LInv
<1>1. CASE UNCHANGED vars
  BY <1>0, <1>1 DEF vars, disk, book, LongEnoughAll, Table, View
<1>2. ASSUME NEW f \in FileNames, NEW n \in Lengths, fat16_create_file(f, n) PROVE LongEnoughAll'
  BY <1>0, <1>2, LongCreate
<1>3. ASSUME NEW f \in FileNames, NEW n \in Lengths, fat16_write_file(f, n) PROVE LongEnoughAll'
  BY <1>0, <1>3, LongWrite
<1>4. ASSUME NEW d \in DirNames, fat16_create_directory(d) PROVE LongEnoughAll'
  BY <1>0, <1>4, LongMakeDirectory
<1>5. ASSUME NEW f \in FileNames, fat16_read_file(f) PROVE LongEnoughAll'
  BY <1>0, <1>5, LongRead
<1>6. CASE CloseNode \/ \E f \in FileNames : fat16_resolve_node(f)
  BY <1>0, <1>6, LongNode
<1>7. ASSUME NEW offset \in {0, node.size}, NEW n \in Lengths, fat16_write_into(offset, n)
      PROVE  LongEnoughAll'
  BY <1>0, <1>7, LongStream
<1>8. CASE flush_fat_cache
  BY <1>0, <1>8, LongFlush
<1>9. CASE FlushFails \/ DataFails \/ DirectoryFails \/ ReadDone \/ OutOfClusters
  <2>1. op' = Idle /\ UNCHANGED <<fats, cache, dir, early, node>>
    BY <1>9 DEF FlushFails, DataFails, DirectoryFails, ReadDone, OutOfClusters, WriteFails, ReturnNil, disk, book
  <2> QED
    BY <1>0, <2>1, LongReturns
<1>10. CASE EvictionFails
  BY <1>10 DEF EvictionFails
<1>11. CASE fat_sector_bytes
  BY <1>0, <1>11, LongSector
<1>12. CASE cluster_chain
  BY <1>0, <1>12, LongWalk
<1>13. CASE Compare
  BY <1>0, <1>13, LongCompare
<1>14. CASE allocate_clusters
  BY <1>0, <1>14, LongTake
<1>15. CASE link_clusters
  BY <1>0, <1>15, LongLink
<1>16. CASE Linked
  BY <1>0, <1>16, LongLinked
<1>17. CASE AttachToOld
  BY <1>0, <1>17, LongAttach
<1>18. CASE Flushed \/ write_lba_list
  BY <1>0, <1>18, LongFlushed
<1>19. CASE DataWritten
  BY <1>0, <1>19, LongWritten
<1>20. CASE finish_directory_update
  BY <1>0, <1>20, LongDirectory
<1>21. CASE Restart
  BY <1>0, <1>21, LongRestart
<1> QED
  BY <1>1, <1>2, <1>3, <1>4, <1>5, <1>6, <1>7, <1>8, <1>9, <1>10, <1>11, <1>12, <1>13, <1>14,
     <1>15, <1>16, <1>17, <1>18, <1>19, <1>20, <1>21 DEF Next

\* Chains that are long enough have as many clusters on the disk.
LEMMA InvImpliesConsistent == FInv /\ LInv => VolumeConsistent
<1> SUFFICES ASSUME FInv, LInv PROVE VolumeConsistent
  OBVIOUS
<1>1. Linear(Table) /\ \A s \in Slots : dir[s].start # 0 => Root(dir[s].start, Table)
  BY DEF FInv, DirSound
<1>2. ASSUME NEW s \in Started PROVE Nth(fats[1], dir[s].start)[TotalClusters + 1] >= EndOfChain
  <2>1. PICK X, r : X = Table /\ r = dir[s].start
    OBVIOUS
  <2>2. Linear(X) /\ Root(r, X)
    BY <1>1, <2>1 DEF Started, Used
  <2>3. Nth(X, r)[TotalClusters + 1] >= EndOfChain
    BY <2>2, ChainEnds
  <2> QED
    BY <2>1, <2>3 DEF Table
<1>3. ASSUME ~lossy, NEW s \in Used \ early PROVE LongEnough(s)
  <2>1. PICK X, r, k : X = Table /\ r = dir[s].start /\ k = Count(dir[s].size)
    OBVIOUS
  <2>2. s \in Slots \ early /\ dir[s].size \in Nat
    BY DEF Used, FInv, SizeSound
  <2>3. k \in Nat /\ Long(X, r, k)
    BY <1>3, <2>1, <2>2, CountType DEF LInv, LongEnoughAll, DirLong
  <2>4. Cardinality(ChainSet(X, r)) >= k
    <3>1. CASE r # 0
      <4>1. Linear(X) /\ Root(r, X)
        BY <1>1, <2>1, <2>2, <3>1
      <4> QED
        BY <2>3, <4>1, LongCardinality
    <3>2. CASE r = 0
      <4>1. k = 0
        <5>1. X \in [Entries -> Value] /\ r \in Value
          BY <1>1, <2>1, <3>2 DEF Linear, Value
        <5>2. Along(X, r)[0] = r
          BY <5>1, AlongDef
        <5>3. k > 0 => Along(X, r)[0] \in Clusters
          BY <2>3 DEF Long
        <5> QED
          BY <2>3, <3>2, <5>2, <5>3, Numbers
      <4>2. Cardinality(ChainSet(X, r)) \in Nat
        <5>1. IsFiniteSet(Clusters) /\ ChainSet(X, r) \subseteq Clusters
          BY FS_Interval, Numbers DEF Clusters, ChainSet
        <5> QED
          BY <5>1, FS_Subset, FS_CardinalityType
      <4> QED
        BY <4>1, <4>2
    <3> QED
      BY <3>1, <3>2
  <2> QED
    BY <2>1, <2>4 DEF LongEnough, Table, Count
<1> QED
  BY <1>2, <1>3 DEF VolumeConsistent

\* Wherever power is lost and whatever write fails, every chain a directory entry
\* starts runs on the disk to an end mark; it is long enough for the size of the
\* file, with the two exceptions VolumeConsistent names (%fat16-set-fat-entry,
\* %fat16-extend-file, fat16-cluster-chain, %fat16-finish-directory-update).
THEOREM VolumeStaysConsistent == Spec => []VolumeConsistent
<1>1. Init => FInv /\ LInv
  BY InitInv, InitLong
<1>2. FInv /\ LInv /\ [Next]_vars => (FInv /\ LInv)'
  BY StepInv, StepLong
<1> QED
  BY <1>1, <1>2, InvImpliesConsistent, PTL DEF Spec
-----------------------------------------------------------------------------
(***************************************************************************)
(* Who works on what.  A file is not written by path while a node for it   *)
(* is open (SharedFiles is FALSE).                                         *)
(***************************************************************************)
\* A free entry is empty, and no two entries have one name.
DirNamed(d) ==
  /\ \A s \in Slots : d[s].name = NoName => d[s].start = 0
  /\ \A s, t \in Slots : d[s].name = d[t].name /\ d[s].name # NoName => s = t

\* An open node is for a file.
NodeNamed(n, d) ==
  IF n.slot = 0 THEN n.start = 0 /\ n.size = 0 ELSE n.slot \in Slots /\ d[n.slot].name \in FileNames

\* Who the operation works for, and on which entry.
MakesEntry(o) == o.kind \in {"create", "mkdir"}
OpNamed(o, n, d) ==
  o.pc # "idle" =>
    /\ o.slot \in Slots /\ o.kind \in {"create", "mkdir", "write", "stream", "read"}
    /\ o.name \in IF o.kind = "mkdir" THEN DirNames ELSE FileNames
    /\ IF MakesEntry(o) THEN d[o.slot].name = NoName /\ \A s \in Slots : d[s].name # o.name
       ELSE d[o.slot].name = o.name
    /\ o.kind \in {"create", "mkdir", "write"} => n.slot # o.slot
    /\ o.kind = "stream" => n.slot = o.slot
    /\ o.kind = "read" => o.start = 0 /\ o.pc \in {"walk", "read"}
    /\ o.kind = "create" => ~o.sure

NamesInv ==
  /\ DirNamed(dir) /\ NodeNamed(node, dir) /\ OpNamed(op, node, dir)
  /\ faults \in Nat /\ (lossy => faults # 0)
  /\ op.pc # "idle" /\ op.kind # "read" => op.name \notin known
  /\ \A f \in known \cap FileNames : \E s \in Slots : dir[s].name = f

\* An operation and a node start where the directory entry says, if it says so.
StartsAgree(o, n, d) ==
  /\ o.pc # "idle" /\ o.kind # "read" /\ d[o.slot].start # 0 => o.start = d[o.slot].start
  /\ n.slot # 0 /\ d[n.slot].start # 0 => n.start = d[n.slot].start
  /\ o.kind = "write" /\ o.pc \in {"count", "compare"} => o.start = d[o.slot].start

\* What an operation needs it to have collected.
Shaped(o) ==
  /\ o.pc \in {"flush", "walk", "data"} /\ o.kind # "read" => o.required > 0
  /\ o.pc = "flush" => o.chain = <<>>
  /\ o.kind = "mkdir" =>
       /\ o.required = 1 /\ o.bytes = <<>> /\ o.offset = 0
       /\ o.pc \in {"alloc", "link", "flush", "data", "dir"} /\ o.count = 0
       /\ o.pc = "flush" => o.new = <<o.start>>

\* What has been walked to read or to write.
Here(o, d) == IF o.kind = "read" THEN d[o.slot].start ELSE o.start
Length(o, d) == IF o.kind = "read" THEN Count(d[o.slot].size) ELSE o.required
Followed(o, d, V) ==
  /\ o.pc \in {"walk", "data", "read"} =>
       /\ o.chain \in Seq(Clusters)
       /\ \A n \in 1..Len(o.chain) : o.chain[n] = Along(V, Here(o, d))[n - 1]
  /\ o.pc = "walk" => o.from \in Clusters /\ o.from = Along(V, Here(o, d))[Len(o.chain)]
  /\ o.pc \in {"data", "read"} => Len(o.chain) >= Length(o, d)

\* Unless an entry could not be read.
TaskSound(o, n, d, V) == StartsAgree(o, n, d) /\ Shaped(o) /\ Followed(o, d, V)
TaskInv == ~lossy => TaskSound(op, node, dir, View)

-----------------------------------------------------------------------------
(***************************************************************************)
(* What is left behind.  Without a failure every cluster in use is in a    *)
(* file or has been taken by the operation, and the copies of the table    *)
(* are equal but for the sector that is pending.                           *)
(***************************************************************************)
\* The clusters an operation has taken, and those of its file.
Held(o, V) ==
  (IF o.pc \in {"alloc", "link", "tail", "attach"} THEN {o.new[j] : j \in 1..Len(o.new)} ELSE {})
  \cup (IF o.start = 0 THEN {} ELSE ChainSet(V, o.start))
InFiles(d, V) == UNION {ChainSet(V, d[s].start) : s \in {t \in Slots : d[t].start # 0}}
Accounted(o, d, V) == \A c \in Clusters : V[c] # 0 => c \in InFiles(d, V) \/ c \in Held(o, V)

\* Outside the cached sector; a flush under way has reached the first copies.
CopiesAgree ==
  \A k \in 1..NumFats :
    /\ Patched(fats[k], cache.bytes) = Patched(Table, cache.bytes)
    /\ ~cache.dirty \/ k < op.copy => fats[k] = Table

Tidy ==
  /\ Accounted(op, dir, View) /\ CopiesAgree
  /\ cache.dirty => op.pc \in {"alloc", "link", "tail", "attach", "flush"}
  /\ op.pc = "read" => op.kind = "read"

TidyInv == faults = 0 /\ ~full => Tidy

-----------------------------------------------------------------------------
\* A new volume: there is no file.
LEMMA InitNames == Init => NamesInv
<1> SUFFICES ASSUME Init PROVE NamesInv
  OBVIOUS
<1>1. /\ \A s \in Slots : dir[s].name = NoName /\ dir[s].start = 0
      /\ node.slot = 0 /\ node.start = 0 /\ node.size = 0 /\ op = Idle /\ known = {} /\ faults = 0 /\ ~lossy
  BY DEF Init
<1>2. DirNamed(dir) /\ NodeNamed(node, dir)
  BY <1>1 DEF DirNamed, NodeNamed
<1>3. OpNamed(op, node, dir) /\ op.pc = "idle"
  BY <1>1, IdleFields DEF OpNamed
<1> QED
  BY <1>1, <1>2, <1>3 DEF NamesInv

\* Slots are numbered from 1.
LEMMA SlotNumbers == 0 \notin Slots /\ Slots \subseteq Nat /\ NoName \notin FileNames /\ NoName \notin DirNames
  BY FatAssumption

\* A failure is counted, and only a failure loses an entry.
FaultsCounted ==
  \/ faults' = faults /\ lossy' = lossy
  \/ faults' = faults + 1

\* The count of failures stays a number, and is not 0 once an entry is lost.
LEMMA FaultsSound ==
  ASSUME NamesInv, FaultsCounted
  PROVE  faults' \in Nat /\ (lossy' => faults' # 0)
  BY DEF NamesInv, FaultsCounted

\* An operation begins.
LEMMA NamesBegin ==
  ASSUME NamesInv, NEW o, Begin(o), DOMAIN o = DOMAIN Idle, o.pc # "idle",
         \A b \in BOOLEAN : (b => o.name \in known) => OpNamed([o EXCEPT !.sure = b], node, dir)
  PROVE  NamesInv'
<1>1. /\ UNCHANGED <<dir, node, faults, lossy>> /\ op' = [o EXCEPT !.sure = o.name \in known]
      /\ known' = IF o.kind = "read" THEN known ELSE known \ {o.name}
  BY DEF Begin, disk
<1>2. OpNamed(op', node, dir)
  <2>1. PICK b \in BOOLEAN : b <=> o.name \in known
    OBVIOUS
  <2>2. op' = [o EXCEPT !.sure = b]
    BY <1>1, <2>1, Zenon
  <2> QED
    BY <2>1, <2>2
<1>3. op'.name = o.name /\ op'.kind = o.kind
  BY <1>1 DEF Idle
<1>4. op'.kind # "read" => op'.name \notin known'
  BY <1>1, <1>3
<1>5. \A f \in known' \cap FileNames : \E s \in Slots : dir[s].name = f
  BY <1>1 DEF NamesInv
<1> QED
  BY <1>1, <1>2, <1>4, <1>5 DEF NamesInv

\* A free slot is found.
LEMMA FreeSlot ==
  ASSUME FreeSlots # {}
  PROVE  FirstFree \in Slots /\ dir[FirstFree].name = NoName
<1>1. FreeSlots \in SUBSET Nat
  BY SlotNumbers DEF FreeSlots, SlotsOf
<1>2. \E s \in FreeSlots : \A t \in FreeSlots : s <= t
  BY <1>1, LeastElement
<1>3. FirstFree \in FreeSlots
  BY <1>2 DEF FirstFree
<1> QED
  BY <1>3 DEF FreeSlots, SlotsOf

\* A new file or directory gets a free entry.
LEMMA NamesMake ==
  ASSUME NamesInv,
         \/ \E f \in FileNames, n \in Lengths : fat16_create_file(f, n)
         \/ \E d \in DirNames : fat16_create_directory(d)
  PROVE  NamesInv'
<1>1. PICK o, name : /\ Begin(o) /\ SlotsOf(name) = {} /\ FreeSlots # {} /\ DOMAIN o = DOMAIN Idle
                     /\ o.name = name /\ o.slot = FirstFree /\ o.pc \in {"dir", "alloc"}
                     /\ \/ o.kind = "create" /\ name \in FileNames
                        \/ o.kind = "mkdir" /\ name \in DirNames
  <2>1. ASSUME NEW f \in FileNames, NEW n \in Lengths, fat16_create_file(f, n)
        PROVE  \E o, name : /\ Begin(o) /\ SlotsOf(name) = {} /\ FreeSlots # {} /\ DOMAIN o = DOMAIN Idle
                            /\ o.name = name /\ o.slot = FirstFree /\ o.pc \in {"dir", "alloc"}
                            /\ \/ o.kind = "create" /\ name \in FileNames
                               \/ o.kind = "mkdir" /\ name \in DirNames
    <3> DEFINE o == [Idle EXCEPT !.kind = "create", !.name = f, !.slot = FirstFree,
                        !.bytes = NewBytes(ops, n), !.required = cluster_count_for_bytes(n),
                        !.pc = IF n = 0 THEN "dir" ELSE "alloc"]
    <3>1. Begin(o) /\ SlotsOf(f) = {} /\ FreeSlots # {}
      BY <2>1 DEF fat16_create_file
    <3>2. DOMAIN o = DOMAIN Idle /\ o.name = f /\ o.slot = FirstFree /\ o.pc \in {"dir", "alloc"} /\ o.kind = "create"
      BY DEF Idle
    <3> HIDE DEF o
    <3> QED
      BY <3>1, <3>2
  <2>2. ASSUME NEW d \in DirNames, fat16_create_directory(d)
        PROVE  \E o, name : /\ Begin(o) /\ SlotsOf(name) = {} /\ FreeSlots # {} /\ DOMAIN o = DOMAIN Idle
                            /\ o.name = name /\ o.slot = FirstFree /\ o.pc \in {"dir", "alloc"}
                            /\ \/ o.kind = "create" /\ name \in FileNames
                               \/ o.kind = "mkdir" /\ name \in DirNames
    <3> DEFINE o == [Idle EXCEPT !.kind = "mkdir", !.name = d, !.slot = FirstFree,
                        !.required = 1, !.pc = "alloc"]
    <3>1. Begin(o) /\ SlotsOf(d) = {} /\ FreeSlots # {}
      BY <2>2 DEF fat16_create_directory
    <3>2. DOMAIN o = DOMAIN Idle /\ o.name = d /\ o.slot = FirstFree /\ o.pc = "alloc" /\ o.kind = "mkdir"
      BY DEF Idle
    <3> HIDE DEF o
    <3> QED
      BY <3>1, <3>2
  <2> QED
    BY <2>1, <2>2
<1>2. /\ o.slot \in Slots /\ dir[o.slot].name = NoName /\ (\A s \in Slots : dir[s].name # name)
      /\ node.slot # o.slot
  <2>1. o.slot \in Slots /\ dir[o.slot].name = NoName
    BY <1>1, FreeSlot
  <2>2. node.slot # o.slot
    BY <2>1, SlotNumbers DEF NamesInv, NodeNamed
  <2> QED
    BY <1>1, <2>1, <2>2 DEF SlotsOf
<1>3. ASSUME NEW b \in BOOLEAN, b => o.name \in known
      PROVE  OpNamed([o EXCEPT !.sure = b], node, dir)
  <2>1. PICK p : p = [o EXCEPT !.sure = b]
    OBVIOUS
  <2>2. p.pc = o.pc /\ p.slot = o.slot /\ p.kind = o.kind /\ p.name = o.name /\ p.sure = b
    BY <1>1, <2>1 DEF Idle
  <2>3. p.kind = "create" => ~b
    BY <1>1, <1>2, <1>3, <2>2 DEF NamesInv
  <2>4. OpNamed(p, node, dir)
    BY <1>1, <1>2, <2>2, <2>3 DEF OpNamed, MakesEntry
  <2> QED
    BY <2>1, <2>4
<1>4. o.pc # "idle"
  BY <1>1
<1> QED
  BY <1>1, <1>3, <1>4, NamesBegin

\* The entry a name has.
LEMMA NamedSlot ==
  ASSUME NEW name, SlotsOf(name) # {}
  PROVE  SlotOf(name) \in Slots /\ dir[SlotOf(name)].name = name
  BY DEF SlotsOf, SlotOf

\* A file that exists is written or read.
LEMMA NamesOpen ==
  ASSUME ~SharedFiles, NamesInv,
         \/ \E f \in FileNames, n \in Lengths : fat16_write_file(f, n)
         \/ \E f \in FileNames : fat16_read_file(f)
         \/ \E offset \in {0, node.size}, n \in Lengths : fat16_write_into(offset, n)
  PROVE  NamesInv'
<1> DEFINE Opens(o) ==
      /\ Begin(o) /\ DOMAIN o = DOMAIN Idle /\ o.pc # "idle" /\ o.slot \in Slots
      /\ o.name \in FileNames /\ dir[o.slot].name = o.name
      /\ \/ o.kind = "write" /\ node.slot # o.slot
         \/ o.kind = "stream" /\ node.slot = o.slot
         \/ o.kind = "read" /\ o.start = 0 /\ o.pc = "walk"
<1>1. PICK o : Opens(o)
  <2>1. ASSUME NEW f \in FileNames, NEW n \in Lengths, fat16_write_file(f, n) PROVE \E o : Opens(o)
    <3>1. PICK s : s = SlotOf(f)
      OBVIOUS
    <3> DEFINE o == [Idle EXCEPT !.kind = "write", !.name = f, !.slot = s,
                            !.bytes = NewBytes(ops, n), !.required = cluster_count_for_bytes(n),
                            !.start = dir[s].start, !.from = dir[s].start,
                            !.pc = IF dir[s].start = 0 THEN "compare" ELSE "count"]
    <3>2. Begin(o) /\ SlotsOf(f) # {} /\ node.slot # s
      BY <2>1, <3>1 DEF fat16_write_file
    <3>3. /\ DOMAIN o = DOMAIN Idle /\ o.name = f /\ o.slot = s /\ o.pc \in {"compare", "count"} /\ o.kind = "write"
      BY DEF Idle
    <3>4. s \in Slots /\ dir[s].name = f
      BY <3>1, <3>2, NamedSlot
    <3> HIDE DEF o
    <3> QED
      BY <3>2, <3>3, <3>4
  <2>2. ASSUME NEW f \in FileNames, fat16_read_file(f) PROVE \E o : Opens(o)
    <3>1. PICK s : s = SlotOf(f)
      OBVIOUS
    <3> DEFINE o == [Idle EXCEPT !.kind = "read", !.name = f, !.slot = s, !.from = dir[s].start, !.pc = "walk"]
    <3>2. Begin(o) /\ SlotsOf(f) # {}
      BY <2>2, <3>1 DEF fat16_read_file
    <3>3. /\ DOMAIN o = DOMAIN Idle /\ o.name = f /\ o.slot = s /\ o.pc = "walk" /\ o.kind = "read" /\ o.start = 0
      BY DEF Idle
    <3>4. s \in Slots /\ dir[s].name = f
      BY <3>1, <3>2, NamedSlot
    <3> HIDE DEF o
    <3> QED
      BY <3>2, <3>3, <3>4
  <2>3. ASSUME NEW offset \in {0, node.size}, NEW n \in Lengths, fat16_write_into(offset, n) PROVE \E o : Opens(o)
    <3> DEFINE o == [Idle EXCEPT !.kind = "stream", !.name = dir[node.slot].name, !.slot = node.slot,
                        !.bytes = NewBytes(ops, n), !.offset = offset,
                        !.required = cluster_count_for_bytes(offset + n),
                        !.start = node.start, !.from = node.start,
                        !.pc = IF node.start = 0 THEN "compare" ELSE "count"]
    <3>2. Begin(o) /\ node.slot # 0
      BY <2>3 DEF fat16_write_into
    <3>3. /\ DOMAIN o = DOMAIN Idle /\ o.name = dir[node.slot].name /\ o.slot = node.slot
          /\ o.pc \in {"compare", "count"} /\ o.kind = "stream"
      BY DEF Idle
    <3>4. node.slot \in Slots /\ dir[node.slot].name \in FileNames
      BY <3>2 DEF NamesInv, NodeNamed
    <3> HIDE DEF o
    <3> QED
      BY <3>2, <3>3, <3>4
  <2> QED
    BY <2>1, <2>2, <2>3
<1>2. ASSUME NEW b \in BOOLEAN PROVE OpNamed([o EXCEPT !.sure = b], node, dir)
  <2>1. PICK p : p = [o EXCEPT !.sure = b]
    OBVIOUS
  <2>2. /\ p.pc = o.pc /\ p.slot = o.slot /\ p.kind = o.kind /\ p.name = o.name /\ p.start = o.start
    BY <1>1, <2>1 DEF Idle
  <2>3. OpNamed(p, node, dir)
    BY <1>1, <2>2 DEF OpNamed, MakesEntry
  <2> QED
    BY <2>1, <2>3
<1> QED
  BY <1>1, <1>2, NamesBegin

\* The operation goes on, or returns nil with its file as it was.
SameJob(o, p) ==
  /\ p.kind = o.kind /\ p.slot = o.slot /\ p.name = o.name /\ p.sure = o.sure
  /\ o.kind = "read" => p.start = o.start /\ p.pc \in {"walk", "read"}

\* An operation under way goes on, and nothing about who it works for changes.
LEMMA NamesGoOn ==
  ASSUME NamesInv, UNCHANGED dir, FaultsCounted, op.pc # "idle",
         node' = node \/ (op.kind = "stream" /\ node'.slot = node.slot),
         known' = known \/ (Untouched /\ op' = Idle), op' = Idle \/ SameJob(op, op')
  PROVE  NamesInv'
<1>1. DirNamed(dir) /\ NodeNamed(node, dir) /\ OpNamed(op, node, dir)
  BY DEF NamesInv
<1>2. NodeNamed(node', dir')
  BY <1>1, SlotNumbers DEF NodeNamed, OpNamed
<1>3. OpNamed(op', node', dir') /\ (op'.pc # "idle" => SameJob(op, op') /\ known' = known)
  <2>1. CASE op' = Idle
    BY <2>1, IdleFields DEF OpNamed
  <2>2. CASE op' # Idle
    BY <1>1, <2>2 DEF OpNamed, MakesEntry, SameJob
  <2> QED
    BY <2>1, <2>2
<1>4. op'.pc # "idle" /\ op'.kind # "read" => op'.name \notin known'
  BY <1>3 DEF NamesInv, SameJob
<1>5. \A f \in known' \cap FileNames : \E s \in Slots : dir'[s].name = f
  <2>1. CASE known' = known
    BY <2>1 DEF NamesInv
  <2>2. CASE known' = known \cup {op.name} /\ op.sure
    <3>1. op.kind \in {"write", "stream", "read"} => dir[op.slot].name = op.name /\ op.slot \in Slots
      BY <1>1 DEF OpNamed, MakesEntry
    <3>2. op.kind = "mkdir" => op.name \notin FileNames
      BY <1>1, FatAssumption DEF OpNamed
    <3>3. op.kind # "create"
      BY <1>1, <2>2 DEF OpNamed
    <3>4. op.kind \in {"create", "mkdir", "write", "stream", "read"}
      BY <1>1 DEF OpNamed
    <3> QED
      BY <2>2, <3>1, <3>2, <3>3, <3>4 DEF NamesInv
  <2> QED
    BY <2>1, <2>2 DEF Untouched
<1> QED
  BY <1>1, <1>2, <1>3, <1>4, <1>5, FaultsSound DEF NamesInv

\* The directory entry is written.
LEMMA NamesFinish ==
  ASSUME FInv, NamesInv, finish_directory_update
  PROVE  NamesInv'
<1>1. /\ op.pc = "dir" /\ op' = Idle /\ UNCHANGED <<node, faults, lossy>> /\ DOMAIN dir = Slots
      /\ dir' = [dir EXCEPT ![op.slot] = [name |-> op.name, start |-> op.start, size |-> NewSize]]
      /\ known' \subseteq known \cup {op.name}
  BY DEF finish_directory_update, At, FInv, Shape
<1>2. DirNamed(dir) /\ NodeNamed(node, dir) /\ OpNamed(op, node, dir)
  BY DEF NamesInv
<1>3. /\ op.slot \in Slots /\ op.name # NoName
      /\ dir[op.slot].name \in {NoName, op.name}
      /\ dir[op.slot].name = NoName => \A s \in Slots : dir[s].name # op.name
      /\ op.kind \in {"create", "mkdir", "write"} => node.slot # op.slot
      /\ op.kind = "stream" => op.name \in FileNames
      /\ op.kind \in {"create", "mkdir", "write", "stream"}
  BY <1>1, <1>2, SlotNumbers DEF OpNamed, MakesEntry
<1>4. \A s \in Slots : dir'[s].name = IF s = op.slot THEN op.name ELSE dir[s].name
  BY <1>1, <1>3
<1>5. \A s \in Slots : s # op.slot => dir'[s] = dir[s]
  BY <1>1
<1>6. DirNamed(dir')
  <2>1. \A s \in Slots : dir'[s].name = NoName => dir'[s].start = 0
    BY <1>2, <1>3, <1>4, <1>5 DEF DirNamed
  <2>2. \A s \in Slots : s # op.slot => dir[s].name # op.name
    BY <1>2, <1>3 DEF DirNamed
  <2>3. \A s, t \in Slots : dir'[s].name = dir'[t].name /\ dir'[s].name # NoName => s = t
    BY <1>2, <1>4, <2>2 DEF DirNamed
  <2> QED
    BY <2>1, <2>3 DEF DirNamed
<1>7. NodeNamed(node', dir')
  BY <1>1, <1>2, <1>3, <1>4 DEF NodeNamed
<1>8. OpNamed(op', node', dir') /\ op'.pc = "idle"
  BY <1>1, IdleFields DEF OpNamed
<1>9. \A f \in known' \cap FileNames : \E s \in Slots : dir'[s].name = f
  <2> SUFFICES ASSUME NEW f \in known' \cap FileNames PROVE \E s \in Slots : dir'[s].name = f
    OBVIOUS
  <2>1. CASE f = op.name
    BY <1>3, <1>4, <2>1
  <2>2. CASE f # op.name
    <3>1. PICK s \in Slots : dir[s].name = f
      BY <1>1, <2>2 DEF NamesInv
    <3>2. s # op.slot
      BY <1>3, <2>2, <3>1, SlotNumbers
    <3> QED
      BY <1>4, <3>1, <3>2
  <2> QED
    BY <2>1, <2>2
<1> QED
  BY <1>1, <1>6, <1>7, <1>8, <1>9 DEF NamesInv

\* A node is opened or closed, or the machine starts again.
LEMMA NamesRest ==
  ASSUME FInv, NamesInv, CloseNode \/ Restart \/ \E f \in FileNames : fat16_resolve_node(f)
  PROVE  NamesInv'
<1>1. UNCHANGED <<dir, known>> /\ op'.pc = "idle" /\ FaultsCounted
  BY IdleFields DEF CloseNode, Restart, fat16_resolve_node, At, disk, book, Fault, FaultsCounted
<1>2. NodeNamed(node', dir)
  <2>1. CASE CloseNode \/ Restart
    BY <2>1 DEF CloseNode, Restart, NodeNamed
  <2>2. ASSUME NEW f \in FileNames, fat16_resolve_node(f) PROVE NodeNamed(node', dir)
    <3>1. SlotOf(f) \in Slots /\ dir[SlotOf(f)].name = f
      BY <2>2, NamedSlot DEF fat16_resolve_node
    <3>2. node'.slot = SlotOf(f)
      BY <2>2 DEF fat16_resolve_node
    <3> QED
      BY <3>1, <3>2, SlotNumbers DEF NodeNamed
  <2> QED
    BY <2>1, <2>2
<1>3. OpNamed(op', node', dir)
  BY <1>1 DEF OpNamed
<1> QED
  BY <1>1, <1>2, <1>3, FaultsSound DEF NamesInv

\* The steps of an operation under way.
LEMMA NamesStep ==
  ASSUME FInv, NamesInv,
         \/ flush_fat_cache \/ FlushFails \/ EvictionFails \/ fat_sector_bytes \/ cluster_chain \/ Compare
         \/ OutOfClusters \/ allocate_clusters \/ link_clusters \/ Linked \/ AttachToOld \/ Flushed
         \/ write_lba_list \/ DataFails \/ DataWritten \/ DirectoryFails \/ ReadDone
  PROVE  NamesInv'
<1>0. DOMAIN op = DOMAIN Idle /\ DOMAIN node = {"slot", "start", "size"} /\ OpNamed(op, node, dir)
  BY DEF FInv, Shape, NamesInv
<1> DEFINE Fine == /\ UNCHANGED dir /\ FaultsCounted /\ op.pc # "idle"
                   /\ node' = node \/ (op.kind = "stream" /\ node'.slot = node.slot)
                   /\ known' = known \/ (Untouched /\ op' = Idle)
                   /\ op' = Idle \/ SameJob(op, op')
<1>1. CASE FlushFails \/ DataFails \/ DirectoryFails \/ ReadDone \/ OutOfClusters
  <2>1. Fine
    BY <1>1 DEF FlushFails, DataFails, DirectoryFails, ReadDone, OutOfClusters, WriteFails, Fault, ReturnNil,
         disk, book, At, FaultsCounted
  <2> QED
    BY <2>1, NamesGoOn
<1>2. CASE flush_fat_cache
  <2>1. /\ op.pc # "idle" /\ UNCHANGED <<dir, node, known, faults, lossy>>
        /\ op' = [op EXCEPT !.copy = IF op.copy = NumFats THEN 1 ELSE @ + 1]
    BY <1>2 DEF flush_fat_cache, FlushDue, At, Absent, Wanted, Touched, Walking
  <2>2. SameJob(op, op')
    <3>1. op'.kind = op.kind /\ op'.slot = op.slot /\ op'.name = op.name /\ op'.sure = op.sure
          /\ op'.start = op.start /\ op'.pc = op.pc
      BY <1>0, <2>1 DEF Idle
    <3> QED
      BY <1>0, <2>1, <3>1 DEF SameJob, OpNamed
  <2> QED
    BY <2>1, <2>2, NamesGoOn DEF FaultsCounted
<1>3. CASE fat_sector_bytes
  <2>1. /\ op.pc # "idle" /\ UNCHANGED <<dir, node, known, op>> /\ FaultsCounted
    BY <1>3 DEF fat_sector_bytes, At, Absent, Wanted, Touched, Walking, disk, Fault, FaultsCounted
  <2>2. SameJob(op, op')
    BY <1>0, <2>1 DEF SameJob, OpNamed
  <2> QED
    BY <2>1, <2>2, NamesGoOn
<1>4. ASSUME NEW entry, Walking, op' = Walk(entry) \/ op' = [Walk(entry) EXCEPT !.copy = 1]
      PROVE  SameJob(op, op')
  <2>1. PICK w : w = Walk(entry)
    OBVIOUS
  <2>2. /\ DOMAIN w = DOMAIN Idle /\ w.kind = op.kind /\ w.slot = op.slot /\ w.name = op.name /\ w.sure = op.sure
        /\ w.start = op.start /\ (w.pc = op.pc \/ w.pc = AfterWalk)
    BY <1>0, <2>1 DEF Walk, Idle
  <2>3. /\ op'.kind = op.kind /\ op'.slot = op.slot /\ op'.name = op.name /\ op'.sure = op.sure
        /\ op'.start = op.start /\ (op'.pc = op.pc \/ op'.pc = AfterWalk)
    BY <1>4, <2>1, <2>2 DEF Idle
  <2>4. op.kind = "read" => op'.pc \in {"walk", "read"}
    BY <1>0, <1>4, <2>3 DEF AfterWalk, OpNamed, Walking, At
  <2> QED
    BY <2>3, <2>4 DEF SameJob
<1>5. CASE EvictionFails
  <2>1. UNCHANGED <<dir, node, known>> /\ FaultsCounted /\ Absent
    BY <1>5 DEF EvictionFails, Fault, disk, FaultsCounted
  <2>2. op.pc # "idle"
    BY <2>1 DEF Absent, Wanted, Touched, Walking, At
  <2>3. op' = Idle \/ SameJob(op, op')
    <3>1. CASE Walking
      <4>1. op' = [Walk(NilEntry) EXCEPT !.copy = 1]
        BY <1>5, <3>1 DEF EvictionFails, Walking, At
      <4> QED
        BY <1>4, <3>1, <4>1
    <3>2. CASE ~Walking /\ At("alloc")
      <4>1. op' = [PassedOver EXCEPT !.copy = 1]
        BY <1>5, <3>2 DEF EvictionFails
      <4>2. op'.kind = op.kind /\ op'.slot = op.slot /\ op'.name = op.name /\ op'.sure = op.sure
            /\ op'.start = op.start /\ op'.pc = op.pc
        BY <1>0, <4>1 DEF PassedOver, Idle
      <4> QED
        BY <1>0, <2>2, <4>2 DEF SameJob, OpNamed
    <3>3. CASE ~Walking /\ ~At("alloc")
      BY <1>5, <3>3 DEF EvictionFails
    <3> QED
      BY <3>1, <3>2, <3>3
  <2> QED
    BY <2>1, <2>2, <2>3, NamesGoOn
<1>6. CASE cluster_chain
  <2>1. UNCHANGED <<dir, node, known, faults, lossy>> /\ op.pc # "idle" /\ Walking /\ op' = Walk(fat_entry(op.from))
    BY <1>6 DEF cluster_chain, disk, book, Walking
  <2> QED
    BY <1>4, <2>1, NamesGoOn DEF FaultsCounted
<1>7. CASE Compare
  <2>1. /\ UNCHANGED <<dir, node, faults, lossy>> /\ op.pc = "compare"
        /\ known' = known \/ (Untouched /\ op' = Idle)
    <3>1. UNCHANGED <<dir, node, faults, lossy>> /\ op.pc = "compare"
      BY <1>7 DEF Compare, disk, At
    <3>2. CASE op.required < Len(op.chain) /\ op.kind = "write"
      <4>1. Untouched /\ op' = Idle
        BY <1>7, <3>2 DEF Compare, ReturnNil
      <4> QED
        BY <3>1, <4>1
    <3>3. CASE ~(op.required < Len(op.chain) /\ op.kind = "write")
      <4>1. UNCHANGED <<known, want>>
        BY <1>7, <3>3 DEF Compare
      <4> QED
        BY <3>1, <4>1
    <3> QED
      BY <3>2, <3>3
  <2>2. op' = Idle \/ SameJob(op, op')
    <3> SUFFICES ASSUME op' # Idle PROVE SameJob(op, op')
      OBVIOUS
    <3> DEFINE o == [op EXCEPT !.count = Len(op.chain), !.chain = <<>>, !.i = 1]
    <3>1. \/ op' = [o EXCEPT !.pc = "alloc", !.from = 2]
          \/ op' = [o EXCEPT !.pc = "dir"]
          \/ op' = [o EXCEPT !.pc = IF op.kind = "stream" THEN "flush" ELSE "walk", !.from = op.start]
      BY <1>7 DEF Compare, ReturnNil
    <3>2. /\ DOMAIN o = DOMAIN Idle /\ o.kind = op.kind /\ o.slot = op.slot /\ o.name = op.name /\ o.sure = op.sure
      BY <1>0 DEF Idle
    <3> HIDE DEF o
    <3>3. op'.kind = op.kind /\ op'.slot = op.slot /\ op'.name = op.name /\ op'.sure = op.sure
      BY <3>1, <3>2 DEF Idle
    <3>4. op.kind # "read"
      BY <1>0, <2>1 DEF OpNamed
    <3> QED
      BY <3>3, <3>4 DEF SameJob
  <2> QED
    BY <2>1, <2>2, NamesGoOn DEF FaultsCounted
<1>8. CASE allocate_clusters \/ link_clusters \/ Linked \/ AttachToOld \/ Flushed \/ write_lba_list \/ DataWritten
  <2>1. UNCHANGED <<dir, known, faults, lossy>> /\ op.pc \in {"alloc", "link", "attach", "flush", "data"}
    BY <1>8 DEF allocate_clusters, link_clusters, Linked, AttachToOld, Flushed, write_lba_list, DataWritten, disk, book, At
  <2>2. node' = node \/ (op.kind = "stream" /\ node'.slot = node.slot)
    BY <1>0, <1>8 DEF allocate_clusters, link_clusters, Linked, AttachToOld, Flushed, write_lba_list, DataWritten
  <2>3. op' = Idle \/ (op'.kind = op.kind /\ op'.slot = op.slot /\ op'.name = op.name /\ op'.sure = op.sure)
    BY <1>0, <1>8 DEF allocate_clusters, link_clusters, Linked, AttachToOld, Flushed, write_lba_list, DataWritten,
         PassedOver, Taken, ReturnNil, Idle
  <2>4. op.kind # "read"
    BY <1>0, <2>1 DEF OpNamed
  <2> QED
    BY <2>1, <2>2, <2>3, <2>4, NamesGoOn DEF FaultsCounted, SameJob
<1> QED
  BY <1>1, <1>2, <1>3, <1>5, <1>6, <1>7, <1>8

\* Every step keeps the names apart.
LEMMA StepNames == ASSUME ~SharedFiles, FInv, NamesInv, [Next]_vars PROVE NamesInv'
<1>1. CASE UNCHANGED vars
  BY <1>1 DEF vars, disk, book, NamesInv
<1>2. CASE \/ \E f \in FileNames, n \in Lengths : fat16_create_file(f, n)
           \/ \E d \in DirNames : fat16_create_directory(d)
  BY <1>2, NamesMake
<1>3. CASE \/ \E f \in FileNames, n \in Lengths : fat16_write_file(f, n)
           \/ \E f \in FileNames : fat16_read_file(f)
           \/ \E offset \in {0, node.size}, n \in Lengths : fat16_write_into(offset, n)
  BY <1>3, NamesOpen
<1>4. CASE CloseNode \/ Restart \/ \E f \in FileNames : fat16_resolve_node(f)
  BY <1>4, NamesRest
<1>5. CASE finish_directory_update
  BY <1>5, NamesFinish
<1>6. CASE \/ flush_fat_cache \/ FlushFails \/ EvictionFails \/ fat_sector_bytes \/ cluster_chain \/ Compare
           \/ OutOfClusters \/ allocate_clusters \/ link_clusters \/ Linked \/ AttachToOld \/ Flushed
           \/ write_lba_list \/ DataFails \/ DataWritten \/ DirectoryFails \/ ReadDone
  BY <1>6, NamesStep
<1> QED
  BY <1>1, <1>2, <1>3, <1>4, <1>5, <1>6 DEF Next

-----------------------------------------------------------------------------
(***************************************************************************)
(* What is walked, written and read is the chain of the file.              *)
(***************************************************************************)
LEMMA TaskIdle ==
  ASSUME NEW n, NEW d, NEW V, n.slot # 0 /\ d[n.slot].start # 0 => n.start = d[n.slot].start
  PROVE  TaskSound(Idle, n, d, V)
  BY IdleFields DEF TaskSound, StartsAgree, Shaped, Followed

\* An operation returns nil.
LEMMA TaskReturns ==
  ASSUME TaskSound(op, node, dir, View), op' = Idle, UNCHANGED <<node, dir>>
  PROVE  TaskSound(op', node', dir', View')
<1>1. node'.slot # 0 /\ dir'[node'.slot].start # 0 => node'.start = dir'[node'.slot].start
  BY DEF TaskSound, StartsAgree
<1> QED
  BY <1>1, TaskIdle

\* The first sector of a chain that has one.
LEMMA ChainStarts ==
  ASSUME NEW V \in [Entries -> Value], NEW r \in Value, NEW k \in Nat, k > 0, Long(V, r, k)
  PROVE  r \in Clusters /\ Along(V, r)[0] = r
<1>1. Along(V, r)[0] = r
  BY AlongDef
<1>2. Along(V, r)[0] \in Clusters
  BY DEF Long
<1> QED
  BY <1>1, <1>2

\* An operation begins.
LEMMA TaskBegin ==
  ASSUME TaskSound(op, node, dir, View), NEW o, Begin(o), DOMAIN o = DOMAIN Idle,
         TaskSound(o, node, dir, View)
  PROVE  TaskSound(op', node', dir', View')
<1>1. PICK b : op' = [o EXCEPT !.sure = b]
  BY DEF Begin
<1>2. /\ op'.pc = o.pc /\ op'.offset = o.offset /\ op'.bytes = o.bytes /\ op'.new = o.new /\ op'.slot = o.slot
      /\ op'.start = o.start /\ op'.kind = o.kind /\ op'.required = o.required
      /\ op'.chain = o.chain /\ op'.from = o.from /\ op'.count = o.count
  BY <1>1 DEF Idle
<1>3. UNCHANGED <<dir, node>> /\ View' = View
  BY DEF Begin, disk, View, Table
<1> QED
  BY <1>2, <1>3 DEF TaskSound, StartsAgree, Shaped, Followed, Here, Length

\* A new file has no chain yet.
LEMMA TaskCreate ==
  ASSUME NamesInv, TaskSound(op, node, dir, View), NEW name, NEW n \in Lengths, fat16_create_file(name, n)
  PROVE  TaskSound(op', node', dir', View')
<1> DEFINE o == [Idle EXCEPT !.kind = "create", !.name = name, !.slot = FirstFree,
                        !.bytes = NewBytes(ops, n), !.required = cluster_count_for_bytes(n),
                        !.pc = IF n = 0 THEN "dir" ELSE "alloc"]
<1>1. Begin(o) /\ FreeSlots # {}
  BY DEF fat16_create_file
<1>2. /\ DOMAIN o = DOMAIN Idle /\ o.kind = "create" /\ o.slot = FirstFree /\ o.pc \in {"dir", "alloc"}
  BY DEF Idle
<1> HIDE DEF o
<1>3. dir[o.slot].start = 0
  BY <1>1, <1>2, FreeSlot DEF NamesInv, DirNamed
<1>4. TaskSound(o, node, dir, View)
  BY <1>2, <1>3 DEF TaskSound, StartsAgree, Shaped, Followed
<1> QED
  BY <1>1, <1>2, <1>4, TaskBegin

\* Nor has a new directory.
LEMMA TaskMakeDirectory ==
  ASSUME NamesInv, TaskSound(op, node, dir, View), NEW name, fat16_create_directory(name)
  PROVE  TaskSound(op', node', dir', View')
<1> DEFINE o == [Idle EXCEPT !.kind = "mkdir", !.name = name, !.slot = FirstFree,
                        !.required = 1, !.pc = "alloc"]
<1>1. Begin(o) /\ FreeSlots # {}
  BY DEF fat16_create_directory
<1>2. /\ DOMAIN o = DOMAIN Idle /\ o.kind = "mkdir" /\ o.slot = FirstFree /\ o.pc = "alloc"
      /\ o.required = 1 /\ o.count = 0 /\ o.bytes = <<>> /\ o.offset = 0
  BY DEF Idle
<1> HIDE DEF o
<1>3. dir[o.slot].start = 0
  BY <1>1, <1>2, FreeSlot DEF NamesInv, DirNamed
<1>4. TaskSound(o, node, dir, View)
  BY <1>2, <1>3 DEF TaskSound, StartsAgree, Shaped, Followed
<1> QED
  BY <1>1, <1>2, <1>4, TaskBegin

\* A file that is written by path starts where its directory entry says.
LEMMA TaskWrite ==
  ASSUME TaskSound(op, node, dir, View), NEW name, NEW n \in Lengths, fat16_write_file(name, n)
  PROVE  TaskSound(op', node', dir', View')
<1>1. PICK s : s = SlotOf(name)
  OBVIOUS
<1> DEFINE o == [Idle EXCEPT !.kind = "write", !.name = name, !.slot = s,
                            !.bytes = NewBytes(ops, n), !.required = cluster_count_for_bytes(n),
                            !.start = dir[s].start, !.from = dir[s].start,
                            !.pc = IF dir[s].start = 0 THEN "compare" ELSE "count"]
<1>2. Begin(o)
  BY <1>1 DEF fat16_write_file
<1>3. DOMAIN o = DOMAIN Idle /\ o.kind = "write" /\ o.slot = s /\ o.start = dir[s].start /\ o.pc \in {"compare", "count"}
  BY DEF Idle
<1> HIDE DEF o
<1>4. TaskSound(o, node, dir, View)
  BY <1>3 DEF TaskSound, StartsAgree, Shaped, Followed
<1> QED
  BY <1>2, <1>3, <1>4, TaskBegin

\* One that is written through a node starts where the node says.
LEMMA TaskStream ==
  ASSUME TaskSound(op, node, dir, View), NEW offset \in {0, node.size}, NEW n \in Lengths, fat16_write_into(offset, n)
  PROVE  TaskSound(op', node', dir', View')
<1> DEFINE o == [Idle EXCEPT !.kind = "stream", !.name = dir[node.slot].name, !.slot = node.slot,
                        !.bytes = NewBytes(ops, n), !.offset = offset,
                        !.required = cluster_count_for_bytes(offset + n),
                        !.start = node.start, !.from = node.start,
                        !.pc = IF node.start = 0 THEN "compare" ELSE "count"]
<1>1. Begin(o) /\ node.slot # 0
  BY DEF fat16_write_into
<1>2. /\ DOMAIN o = DOMAIN Idle /\ o.kind = "stream" /\ o.slot = node.slot /\ o.start = node.start
      /\ o.pc \in {"compare", "count"}
  BY DEF Idle
<1> HIDE DEF o
<1>3. TaskSound(o, node, dir, View)
  BY <1>1, <1>2 DEF TaskSound, StartsAgree, Shaped, Followed
<1> QED
  BY <1>1, <1>2, <1>3, TaskBegin

\* A file that is read starts at the first cluster of its chain.
LEMMA TaskRead ==
  ASSUME FInv, LongEnoughAll, TaskSound(op, node, dir, View), NEW name, fat16_read_file(name)
  PROVE  TaskSound(op', node', dir', View')
<1>1. PICK s : s = SlotOf(name)
  OBVIOUS
<1> DEFINE o == [Idle EXCEPT !.kind = "read", !.name = name, !.slot = s, !.from = dir[s].start, !.pc = "walk"]
<1>2. Begin(o) /\ s \in Slots /\ dir[s].size > 0
  BY <1>1, NamedSlot DEF fat16_read_file
<1>3. /\ DOMAIN o = DOMAIN Idle /\ o.kind = "read" /\ o.slot = s /\ o.pc = "walk" /\ o.from = dir[s].start
      /\ o.chain = <<>>
  BY DEF Idle
<1> HIDE DEF o
<1>4. dir[s].start \in Clusters /\ Along(View, dir[s].start)[0] = dir[s].start
  <2>1. View \in [Entries -> Value] /\ dir[s].start \in Value
    BY <1>2, StartsTyped DEF FInv, Linear
  <2>2. Count(dir[s].size) \in Nat /\ Count(dir[s].size) > 0
    BY <1>2, CountType DEF FInv, SizeSound
  <2>3. Long(View, dir[s].start, Count(dir[s].size))
    BY <1>2 DEF LongEnoughAll, DirLong
  <2>4. PICK V, r, k : V = View /\ r = dir[s].start /\ k = Count(dir[s].size)
    OBVIOUS
  <2>5. V \in [Entries -> Value] /\ r \in Value /\ k \in Nat /\ k > 0 /\ Long(V, r, k)
    BY <2>1, <2>2, <2>3, <2>4
  <2> QED
    BY <2>4, <2>5, ChainStarts
<1>5. Followed(o, dir, View)
  BY <1>3, <1>4 DEF Followed, Here
<1>6. TaskSound(o, node, dir, View)
  BY <1>3, <1>5 DEF TaskSound, StartsAgree, Shaped
<1> QED
  BY <1>2, <1>3, <1>6, TaskBegin

\* What a walk reads is the entry of the driver's table.
LEMMA EntryRead ==
  ASSUME FInv, Readable(cache), NEW c \in Entries, cache.lba = Sector(c)
  PROVE  fat_entry(c) = View[c]
<1>1. cache.bytes # <<>>
  BY DEF Readable
<1>2. cache.bytes \in [Loaded(cache.lba) -> Value] /\ (~cache.dirty => cache.bytes = SectorOf(Table, cache.lba))
  BY <1>1 DEF FInv, CacheSound
<1>3. c \in Loaded(cache.lba)
  BY DEF Loaded
<1> QED
  BY <1>1, <1>2, <1>3 DEF fat_entry, View, Patched, SectorOf, Loaded

\* A chain is followed by one cluster; it has a mark at its end only.
LEMMA FollowOn ==
  ASSUME NEW X, Linear(X), NEW r, Root(r, X), NEW q \in Seq(Clusters),
         \A n \in 1..Len(q) : q[n] = Along(X, r)[n - 1],
         NEW c \in Clusters, c = Along(X, r)[Len(q)]
  PROVE  /\ \A n \in 1..Len(Append(q, c)) : Append(q, c)[n] = Along(X, r)[n - 1]
         /\ Len(Append(q, c)) = Len(q) + 1 /\ Append(q, c) \in Seq(Clusters)
         /\ Len(q) + 1 <= TotalClusters
         /\ Along(X, r)[Len(q) + 1] = X[c]
         /\ X[c] = EndMark \/ X[c] \in Clusters
         /\ X[c] = EndMark => \A k \in Nat : Long(X, r, k) => k <= Len(q) + 1
<1>1. PICK k \in Nat : k = Len(q)
  OBVIOUS
<1>2. X \in [Entries -> Value] /\ r \in Value /\ c \in Entries
  BY Numbers DEF Linear, Root, Value
<1>3. Append(q, c) \in Seq(Clusters) /\ Len(Append(q, c)) = k + 1 /\ Append(q, c)[k + 1] = c
      /\ \A n \in 1..k : Append(q, c)[n] = q[n]
  BY <1>1
<1>4. Long(X, r, k + 1)
  BY <1>1, <1>2, ChainBack
<1>5. k + 1 <= TotalClusters
  BY <1>4, ChainBound
<1>6. \A n \in Nat : Along(X, r)[n + 1] = IF Along(X, r)[n] \in Clusters THEN X[Along(X, r)[n]] ELSE Along(X, r)[n]
  BY <1>2, AlongDef
<1>7. PICK a : a = Along(X, r)
  OBVIOUS
<1>8. a[k + 1] = X[c]
  BY <1>1, <1>6, <1>7
<1>9. X[c] # 0
  BY <1>1, ChainInUse
<1>10. X[c] = EndMark \/ X[c] \in Clusters
  BY <1>2, <1>9 DEF Value
<1>11. ASSUME NEW m \in Nat, Long(X, r, m), X[c] = EndMark, m > k + 1 PROVE FALSE
  <2>1. Along(X, r)[k + 1] \in Clusters
    BY <1>11 DEF Long
  <2> QED
    BY <1>7, <1>8, <1>11, <2>1, Numbers
<1>12. \A n \in 1..(k + 1) : Append(q, c)[n] = a[n - 1]
  BY <1>1, <1>3, <1>7
<1> QED
  BY <1>1, <1>3, <1>5, <1>7, <1>8, <1>10, <1>11, <1>12

\* The walk to the clusters that are to be written or read.
LEMMA TaskWalk ==
  ASSUME FInv, LongEnoughAll, NamesInv, TaskSound(op, node, dir, View), cluster_chain
  PROVE  TaskSound(op', node', dir', View')
<1>1. Walking /\ Ready /\ UNCHANGED <<fats, cache, dir, node>> /\ DOMAIN op = DOMAIN Idle
  BY DEF cluster_chain, disk, book, FInv, Shape
<1>2. View' = View
  BY <1>1 DEF View, Table
<1>3. PICK q, entry : q = Append(op.chain, op.from) /\ entry = fat_entry(op.from)
  OBVIOUS
<1>4. IF Ends(entry) \/ Len(q) = TotalClusters + 2
      THEN op' = [op EXCEPT !.chain = q, !.pc = AfterWalk, !.i = 1]
      ELSE op' = [op EXCEPT !.chain = q, !.from = entry]
  BY <1>3 DEF cluster_chain, Walk
<1>5. /\ op'.kind = op.kind /\ op'.start = op.start /\ op'.required = op.required /\ op'.slot = op.slot
      /\ op'.offset = op.offset /\ op'.bytes = op.bytes /\ op'.count = op.count /\ op'.new = op.new
      /\ op'.chain = q
      /\ IF Ends(entry) \/ Len(q) = TotalClusters + 2 THEN op'.pc = AfterWalk
         ELSE op'.pc = op.pc /\ op'.from = entry
  BY <1>1, <1>4 DEF Idle
<1>6. StartsAgree(op, node, dir) /\ Shaped(op) /\ Followed(op, dir, View) /\ OpNamed(op, node, dir)
  BY DEF TaskSound, NamesInv
<1>7. CASE op.pc # "walk"
  <2>1. op.pc \in {"count", "tail"}
    BY <1>1, <1>7 DEF Walking
  <2>2. op'.pc \in {"count", "tail", "compare", "attach"} /\ (op.pc = "tail" => op'.pc \in {"tail", "attach"})
    BY <1>5, <2>1 DEF AfterWalk, At
  <2>3. op.kind # "mkdir"
    BY <1>6, <2>1 DEF Shaped
  <2>4. Shaped(op') /\ Followed(op', dir', View')
    BY <1>5, <2>2, <2>3 DEF Shaped, Followed
  <2>5. StartsAgree(op', node', dir')
    <3>1. op.pc # "idle" /\ op'.pc # "idle" /\ (op'.pc \in {"count", "compare"} => op.pc \in {"count", "compare"})
      BY <2>1, <2>2
    <3> QED
      BY <1>1, <1>5, <1>6, <3>1 DEF StartsAgree
  <2> QED
    BY <2>4, <2>5 DEF TaskSound
<1>8. CASE op.pc = "walk"
  <2>1. PICK X, r : X = View /\ r = Here(op, dir)
    OBVIOUS
  <2>2. /\ op.chain \in Seq(Clusters) /\ op.from \in Clusters /\ op.from = Along(X, r)[Len(op.chain)]
        /\ \A n \in 1..Len(op.chain) : op.chain[n] = Along(X, r)[n - 1]
    BY <1>6, <1>8, <2>1 DEF Followed
  <2>3. Linear(X) /\ X \in [Entries -> Value] /\ r \in Value
    <3>1. op.pc # "idle" => op.slot \in Slots
      BY <1>6 DEF OpNamed
    <3> QED
      BY <1>8, <2>1, <3>1, StartsTyped DEF FInv, Linear, Here
  <2>4. r \in Clusters
    <3>1. PICK k \in Nat : k = Len(op.chain)
      BY <2>2
    <3>2. Long(X, r, k + 1)
      BY <2>2, <2>3, <3>1, ChainBack
    <3>3. k + 1 \in Nat /\ k + 1 > 0
      OBVIOUS
    <3> QED
      BY <2>3, <3>2, <3>3, ChainStarts
  <2>5. Root(r, X)
    <3>1. op.slot \in Slots
      BY <1>6, <1>8 DEF OpNamed
    <3> QED
      BY <2>1, <2>4, <3>1, Numbers DEF Here, FInv, DirSound, OpSound, StartSound
  <2>6. /\ \A n \in 1..Len(q) : q[n] = Along(X, r)[n - 1]
        /\ Len(q) = Len(op.chain) + 1 /\ q \in Seq(Clusters) /\ Len(q) <= TotalClusters
        /\ Along(X, r)[Len(q)] = X[op.from]
        /\ X[op.from] = EndMark \/ X[op.from] \in Clusters
        /\ X[op.from] = EndMark => \A k \in Nat : Long(X, r, k) => k <= Len(q)
    <3>1. PICK ch, c, m : ch = op.chain /\ c = op.from /\ m = Len(ch) + 1
      OBVIOUS
    <3>2. ch \in Seq(Clusters) /\ c \in Clusters /\ c = Along(X, r)[Len(ch)] /\ \A n \in 1..Len(ch) : ch[n] = Along(X, r)[n - 1]
      BY <2>2, <3>1
    <3>3. /\ \A n \in 1..Len(Append(ch, c)) : Append(ch, c)[n] = Along(X, r)[n - 1]
          /\ Len(Append(ch, c)) = m /\ Append(ch, c) \in Seq(Clusters) /\ m <= TotalClusters
          /\ Along(X, r)[m] = X[c]
          /\ X[c] = EndMark \/ X[c] \in Clusters
          /\ X[c] = EndMark => \A k \in Nat : Long(X, r, k) => k <= m
      BY <2>3, <2>5, <3>1, <3>2, FollowOn
    <3>4. q = Append(ch, c)
      BY <1>3, <3>1
    <3> QED
      BY <3>1, <3>3, <3>4
  <2>7. entry = X[op.from]
    <3>1. op.from \in Entries /\ cache.lba = Sector(op.from)
      BY <1>1, <1>8, <2>2, Numbers DEF Ready, Wanted, Touched, At, Walking
    <3>2. Readable(cache)
      BY DEF LongEnoughAll
    <3> QED
      BY <1>3, <2>1, <3>1, <3>2, EntryRead
  <2>8. Len(q) # TotalClusters + 2 /\ (Ends(entry) <=> entry = EndMark)
    <3>1. Len(q) # TotalClusters + 2
      BY <2>6, Numbers
    <3>2. Ends(EndMark)
      BY DEF Ends, EndMark, EndOfChain
    <3>3. \A c \in Clusters : ~Ends(c)
      BY FatAssumption DEF Ends, Clusters, EndOfChain, NilEntry
    <3> QED
      BY <2>6, <2>7, <3>1, <3>2, <3>3
  <2>9. op.kind # "mkdir"
    BY <1>6, <1>8 DEF Shaped
  <2>10. StartsAgree(op', node', dir')
    <3>1. op'.pc \in {"walk", "read", "data"}
      BY <1>5, <1>8 DEF AfterWalk, At
    <3> QED
      BY <1>1, <1>5, <1>6, <1>8, <3>1 DEF StartsAgree
  <2>11. Here(op', dir') = r
    BY <1>1, <1>5, <2>1 DEF Here
  <2>12. Shaped(op')
    BY <1>5, <1>6, <1>8, <2>9 DEF Shaped, AfterWalk, At
  <2>13. CASE entry # EndMark
    <3>1. op'.pc = "walk" /\ op'.from = entry
      BY <1>5, <1>8, <2>8, <2>13
    <3>2. Followed(op', dir', View')
      BY <1>2, <1>5, <2>1, <2>6, <2>7, <2>11, <2>13, <3>1 DEF Followed
    <3> QED
      BY <2>10, <2>12, <3>2 DEF TaskSound
  <2>14. CASE entry = EndMark
    <3>1. op'.pc = IF op.kind = "read" THEN "read" ELSE "data"
      BY <1>5, <1>8, <2>8, <2>14 DEF AfterWalk, At
    <3>2. Length(op', dir') \in Nat /\ Long(X, r, Length(op', dir'))
      <4>1. CASE op.kind = "read"
        <5>1. op.slot \in Slots
          BY <1>6, <1>8 DEF OpNamed
        <5>2. Count(dir[op.slot].size) \in Nat
          BY <5>1, CountType DEF FInv, SizeSound
        <5>3. Length(op', dir') = Count(dir[op.slot].size) /\ r = dir[op.slot].start
          BY <1>1, <1>5, <2>1, <4>1 DEF Length, Here
        <5> QED
          BY <2>1, <5>1, <5>2, <5>3 DEF LongEnoughAll, DirLong
      <4>2. CASE op.kind # "read"
        <5>1. Length(op', dir') = op.required /\ r = op.start
          BY <1>1, <1>5, <2>1, <4>2 DEF Length, Here
        <5> QED
          BY <1>8, <2>1, <5>1 DEF LongEnoughAll, OpLong, Needs, Extended
      <4> QED
        BY <4>1, <4>2
    <3>3. Len(q) >= Length(op', dir')
      BY <2>6, <2>7, <2>14, <3>2
    <3>4. Followed(op', dir', View')
      BY <1>2, <1>5, <2>1, <2>6, <2>11, <3>1, <3>3 DEF Followed
    <3> QED
      BY <2>10, <2>12, <3>4 DEF TaskSound
  <2> QED
    BY <2>13, <2>14
<1> QED
  BY <1>7, <1>8

\* The number of clusters decides.
LEMMA TaskCompare ==
  ASSUME FInv, FInv', LongEnoughAll, LongEnoughAll', NamesInv, TaskSound(op, node, dir, View), Compare
  PROVE  TaskSound(op', node', dir', View')
<1>1. op.pc = "compare" /\ UNCHANGED <<fats, cache, dir, node>> /\ DOMAIN op = DOMAIN Idle
  BY DEF Compare, disk, At, FInv, Shape
<1>2. View' = View
  BY <1>1 DEF View, Table
<1>3. CASE op' = Idle
  BY <1>1, <1>3, TaskReturns
<1>4. CASE op' # Idle
  <2> DEFINE o == [op EXCEPT !.count = Len(op.chain), !.chain = <<>>, !.i = 1]
  <2>1. \/ op.required > Len(op.chain) /\ op' = [o EXCEPT !.pc = "alloc", !.from = 2]
        \/ op.required = 0 /\ op' = [o EXCEPT !.pc = "dir"]
        \/ /\ ~(op.required > Len(op.chain)) /\ op.required # 0
           /\ op' = [o EXCEPT !.pc = IF op.kind = "stream" THEN "flush" ELSE "walk", !.from = op.start]
    BY <1>4 DEF Compare, ReturnNil
  <2>2. /\ DOMAIN o = DOMAIN Idle /\ o.kind = op.kind /\ o.start = op.start /\ o.required = op.required
        /\ o.slot = op.slot /\ o.chain = <<>>
    BY <1>1 DEF Idle
  <2> HIDE DEF o
  <2>3. /\ op'.kind = op.kind /\ op'.start = op.start /\ op'.required = op.required /\ op'.slot = op.slot
        /\ op'.chain = <<>>
        /\ \/ op'.pc = "alloc"
           \/ op'.pc = "dir"
           \/ op.required # 0 /\ op'.pc \in {"flush", "walk"} /\ op'.from = op.start
    BY <2>1, <2>2 DEF Idle
  <2>4. op.kind # "mkdir" /\ StartsAgree(op, node, dir)
    BY <1>1 DEF TaskSound, Shaped
  <2>5. op.required \in Nat
    BY DEF LongEnoughAll, OpLong, Needs
  <2>6. StartsAgree(op', node', dir')
    BY <1>1, <2>3, <2>4 DEF StartsAgree
  <2>7. Shaped(op')
    BY <2>3, <2>4, <2>5 DEF Shaped
  <2>8. Followed(op', dir', View')
    <3> SUFFICES ASSUME op'.pc = "walk"
                 PROVE  op'.from \in Clusters /\ op'.from = Along(View', Here(op', dir'))[0]
      BY <2>3 DEF Followed
    <3>1. Long(View', op'.start, op'.required)
      BY DEF LongEnoughAll, OpLong, Extended
    <3>2. PICK V, r, k : V = View' /\ r = op'.start /\ k = op'.required
      OBVIOUS
    <3>3. V \in [Entries -> Value] /\ r \in Value
      BY <1>2, <2>3, <3>2, StartsTyped DEF FInv, Linear
    <3>4. k \in Nat /\ k > 0 /\ Long(V, r, k)
      BY <2>3, <2>5, <3>1, <3>2
    <3>5. r \in Clusters /\ Along(V, r)[0] = r
      BY <3>3, <3>4, ChainStarts
    <3>6. Here(op', dir') = r /\ op'.from = r
      <4>1. op'.from = op.start
        BY <2>3
      <4>2. op.kind # "read"
        BY <1>1 DEF NamesInv, OpNamed
      <4> QED
        BY <2>3, <3>2, <4>1, <4>2 DEF Here
    <3> QED
      BY <3>2, <3>5, <3>6
  <2> QED
    BY <2>6, <2>7, <2>8 DEF TaskSound
<1> QED
  BY <1>3, <1>4

\* The table changes, and the operation has not come to its data.
LEMMA TaskTable ==
  ASSUME TaskSound(op, node, dir, View), UNCHANGED <<node, dir>>,
         op.pc \in {"alloc", "link", "attach"}, op'.pc \in {"alloc", "link", "flush"},
         op'.pc = "flush" => op.pc = "attach" /\ op.required > 0 /\ op'.chain = <<>>,
         op'.kind = op.kind, op'.slot = op.slot, op'.start = op.start, op'.required = op.required,
         op'.bytes = op.bytes, op'.offset = op.offset, op'.count = op.count
  PROVE  TaskSound(op', node', dir', View')
<1>1. StartsAgree(op', node', dir')
  BY DEF TaskSound, StartsAgree
<1>2. Shaped(op')
  BY DEF TaskSound, Shaped
<1>3. Followed(op', dir', View')
  BY DEF Followed
<1> QED
  BY <1>1, <1>2, <1>3 DEF TaskSound

\* A cluster is taken or passed over.
LEMMA TaskTake ==
  ASSUME FInv, TaskSound(op, node, dir, View), allocate_clusters
  PROVE  TaskSound(op', node', dir', View')
<1>1. /\ op.pc = "alloc" /\ UNCHANGED <<node, dir>> /\ DOMAIN op = DOMAIN Idle
      /\ op' = PassedOver \/ op' = Taken
  BY DEF allocate_clusters, disk, At, FInv, Shape
<1>2. /\ op'.kind = op.kind /\ op'.slot = op.slot /\ op'.start = op.start /\ op'.required = op.required
      /\ op'.bytes = op.bytes /\ op'.offset = op.offset /\ op'.count = op.count /\ op'.pc \in {"alloc", "link"}
  BY <1>1 DEF PassedOver, Taken, Idle
<1> QED
  BY <1>1, <1>2, TaskTable

\* A new cluster is linked.
LEMMA TaskLink ==
  ASSUME FInv, LongEnoughAll, TaskSound(op, node, dir, View), link_clusters
  PROVE  TaskSound(op', node', dir', View')
<1>1. /\ op.pc = "link" /\ UNCHANGED <<node, dir>> /\ DOMAIN op = DOMAIN Idle
      /\ op' = Idle \/ op' = [op EXCEPT !.i = @ + 1]
  BY DEF link_clusters, disk, At, FInv, Shape, ReturnNil
<1>2. CASE op' = Idle
  BY <1>1, <1>2, TaskReturns
<1>3. CASE op' = [op EXCEPT !.i = @ + 1]
  <2>1. /\ op'.kind = op.kind /\ op'.slot = op.slot /\ op'.start = op.start /\ op'.required = op.required
        /\ op'.bytes = op.bytes /\ op'.offset = op.offset /\ op'.count = op.count /\ op'.pc = "link"
    BY <1>1, <1>3 DEF Idle
  <2> QED
    BY <1>1, <2>1, TaskTable
<1> QED
  BY <1>1, <1>2, <1>3

\* The old chain is extended.
LEMMA TaskAttach ==
  ASSUME FInv, LongEnoughAll, TaskSound(op, node, dir, View), AttachToOld
  PROVE  TaskSound(op', node', dir', View')
<1>1. /\ op.pc = "attach" /\ UNCHANGED <<node, dir>> /\ DOMAIN op = DOMAIN Idle
      /\ op' = Idle \/ op' = [op EXCEPT !.pc = "flush", !.chain = <<>>]
  BY DEF AttachToOld, disk, At, FInv, Shape, ReturnNil
<1>2. CASE op' = Idle
  BY <1>1, <1>2, TaskReturns
<1>3. CASE op' = [op EXCEPT !.pc = "flush", !.chain = <<>>]
  <2>1. /\ op'.kind = op.kind /\ op'.slot = op.slot /\ op'.start = op.start /\ op'.required = op.required
        /\ op'.bytes = op.bytes /\ op'.offset = op.offset /\ op'.count = op.count /\ op'.pc = "flush"
        /\ op'.chain = <<>>
    BY <1>1, <1>3 DEF Idle
  <2>2. op.required > 0
    <3>1. op.count \in Nat /\ op.count > 0 /\ Len(op.new) = op.required - op.count /\ op.required \in Nat
      BY <1>1 DEF LongEnoughAll, OpLong, Extending, Needs, Collecting
    <3>2. Len(op.new) > 0
      BY <1>1 DEF FInv, OpSound, NewSound, Taking, Collecting
    <3> QED
      BY <3>1, <3>2
  <2> QED
    BY <1>1, <2>1, <2>2, TaskTable
<1> QED
  BY <1>1, <1>2, <1>3

\* All new clusters are linked: a file that had none starts here.
LEMMA TaskLinked ==
  ASSUME FInv, LongEnoughAll, NamesInv, TaskSound(op, node, dir, View), Linked
  PROVE  TaskSound(op', node', dir', View')
<1>1. /\ op.pc = "link" /\ op.i = Len(op.new) /\ UNCHANGED dir /\ DOMAIN op = DOMAIN Idle
      /\ DOMAIN node = {"slot", "start", "size"}
  BY DEF Linked, disk, At, FInv, Shape
<1>2. /\ op.count \in Nat /\ (op.count = 0 => op.start = 0) /\ op.chain = <<>> /\ op.required \in Nat
      /\ Len(op.new) = op.required - op.count
  BY <1>1 DEF LongEnoughAll, OpLong, Extending, Needs, Collecting
<1>3. op.new \in Seq(Clusters) /\ Len(op.new) > 0
  BY <1>1 DEF FInv, OpSound, NewSound, Taking, Collecting
<1>4. StartsAgree(op, node, dir) /\ Shaped(op) /\ OpNamed(op, node, dir)
  BY DEF TaskSound, NamesInv
<1>5. CASE op.count > 0
  <2>1. op' = [op EXCEPT !.pc = "tail", !.from = op.start] /\ node' = node
    BY <1>2, <1>5 DEF Linked
  <2>2. /\ op'.kind = op.kind /\ op'.slot = op.slot /\ op'.start = op.start /\ op'.pc = "tail"
    BY <1>1, <2>1 DEF Idle
  <2>3. op.kind # "mkdir"
    BY <1>4, <1>5 DEF Shaped
  <2> QED
    BY <1>1, <1>4, <2>1, <2>2, <2>3 DEF TaskSound, StartsAgree, Shaped, Followed
<1>6. CASE op.count = 0
  <2>1. /\ op' = [op EXCEPT !.pc = "flush", !.start = op.new[1]]
        /\ node' = IF op.kind = "stream" THEN [node EXCEPT !.start = op.new[1]] ELSE node
    BY <1>2, <1>6 DEF Linked
  <2>2. /\ op'.kind = op.kind /\ op'.slot = op.slot /\ op'.start = op.new[1] /\ op'.pc = "flush"
        /\ op'.required = op.required /\ op'.bytes = op.bytes /\ op'.offset = op.offset /\ op'.count = op.count
        /\ op'.chain = <<>> /\ op'.new = op.new
    BY <1>1, <1>2, <2>1 DEF Idle
  <2>3. op.kind # "read" /\ dir[op.slot].start = 0
    BY <1>1, <1>2, <1>4, <1>6 DEF StartsAgree, OpNamed
  <2>4. node'.slot # 0 /\ dir[node'.slot].start # 0 => node'.start = dir[node'.slot].start
    <3>1. CASE op.kind = "stream"
      <4>1. node.slot = op.slot /\ node'.slot = node.slot
        BY <1>1, <1>4, <2>1, <3>1 DEF OpNamed
      <4> QED
        BY <2>3, <4>1
    <3>2. CASE op.kind # "stream"
      BY <1>4, <2>1, <3>2 DEF StartsAgree
    <3> QED
      BY <3>1, <3>2
  <2>5. StartsAgree(op', node', dir')
    BY <1>1, <2>2, <2>3, <2>4 DEF StartsAgree
  <2>6. op'.required > 0
    BY <1>2, <1>3, <1>6, <2>2
  <2>7. op'.kind = "mkdir" => op'.new = <<op'.start>>
    <3> SUFFICES ASSUME op.kind = "mkdir" PROVE op.new = <<op.new[1]>>
      BY <2>2
    <3>1. Len(op.new) = 1
      BY <1>2, <1>4, <1>6 DEF Shaped
    <3> QED
      BY <1>3, <3>1
  <2>8. Shaped(op')
    BY <1>4, <2>2, <2>6, <2>7 DEF Shaped
  <2> QED
    BY <2>2, <2>5, <2>8 DEF TaskSound, Followed
<1> QED
  BY <1>2, <1>5, <1>6

\* The table is on the disk.
LEMMA TaskFlushed ==
  ASSUME FInv, LongEnoughAll, NamesInv, TaskSound(op, node, dir, View), Flushed
  PROVE  TaskSound(op', node', dir', View')
<1>1. /\ op.pc = "flush" /\ UNCHANGED <<fats, cache, node, dir>> /\ DOMAIN op = DOMAIN Idle
      /\ op' = IF op.kind = "mkdir" THEN [op EXCEPT !.pc = "data", !.i = 1, !.chain = op.new]
               ELSE [op EXCEPT !.pc = "walk", !.from = op.start]
  BY DEF Flushed, disk, At, FInv, Shape
<1>2. View' = View
  BY <1>1 DEF View, Table
<1>3. /\ op'.kind = op.kind /\ op'.slot = op.slot /\ op'.start = op.start /\ op'.required = op.required
      /\ op'.bytes = op.bytes /\ op'.offset = op.offset /\ op'.count = op.count
      /\ IF op.kind = "mkdir" THEN op'.pc = "data" /\ op'.chain = op.new
         ELSE op'.pc = "walk" /\ op'.from = op.start /\ op'.chain = op.chain
  BY <1>1 DEF Idle
<1>4. StartsAgree(op, node, dir) /\ Shaped(op) /\ OpNamed(op, node, dir)
  BY DEF TaskSound, NamesInv
<1>5. op.kind # "read" /\ op.required > 0 /\ op.chain = <<>> /\ (op.kind = "mkdir" => op.new = <<op.start>> /\ op.required = 1)
  BY <1>1, <1>4 DEF Shaped, OpNamed
<1>6. StartsAgree(op', node', dir')
  BY <1>1, <1>3, <1>4 DEF StartsAgree
<1>7. Shaped(op')
  BY <1>3, <1>4, <1>5 DEF Shaped
<1>8. op.start \in Clusters /\ Along(View, op.start)[0] = op.start
  <2>1. Long(View, op.start, op.required) /\ op.required \in Nat
    BY <1>1 DEF LongEnoughAll, OpLong, Extended, Needs
  <2>2. PICK V, r, k : V = View /\ r = op.start /\ k = op.required
    OBVIOUS
  <2>3. V \in [Entries -> Value] /\ r \in Value
    BY <2>2, StartsTyped DEF FInv, Linear
  <2>4. k \in Nat /\ k > 0 /\ Long(V, r, k)
    BY <1>5, <2>1, <2>2
  <2> QED
    BY <2>2, <2>3, <2>4, ChainStarts
<1>9. Here(op', dir') = op.start
  BY <1>3, <1>5 DEF Here
<1>10. Followed(op', dir', View')
  <2>1. CASE op.kind = "mkdir"
    <3>1. op'.pc = "data" /\ op'.chain = <<op.start>> /\ op'.required = 1 /\ op'.kind # "read"
      BY <1>3, <1>5, <2>1
    <3>2. op'.chain \in Seq(Clusters) /\ Len(op'.chain) = 1 /\ op'.chain[1] = op.start
      BY <1>8, <3>1
    <3>3. \A n \in 1..Len(op'.chain) : op'.chain[n] = Along(View', Here(op', dir'))[n - 1]
      BY <1>2, <1>8, <1>9, <3>2
    <3> QED
      BY <3>1, <3>2, <3>3 DEF Followed, Length
  <2>2. CASE op.kind # "mkdir"
    <3>1. op'.pc = "walk" /\ op'.from = op.start /\ op'.chain = <<>>
      BY <1>3, <1>5, <2>2
    <3> QED
      BY <1>2, <1>8, <1>9, <3>1 DEF Followed
  <2> QED
    BY <2>1, <2>2
<1> QED
  BY <1>6, <1>7, <1>10 DEF TaskSound

\* The table or the disk changes, and the driver sees the same.
LEMMA TaskStays ==
  ASSUME TaskSound(op, node, dir, View), View' = View, UNCHANGED dir,
         node'.slot = node.slot, node'.start = node.start,
         op'.kind = op.kind, op'.slot = op.slot, op'.start = op.start, op'.required = op.required,
         op'.bytes = op.bytes, op'.offset = op.offset, op'.count = op.count, op'.new = op.new,
         op'.chain = op.chain, op'.from = op.from, (op'.pc = op.pc \/ (op'.pc = "dir" /\ op.pc = "data"))
  PROVE  TaskSound(op', node', dir', View')
<1>1. StartsAgree(op', node', dir')
  BY DEF TaskSound, StartsAgree
<1>2. Shaped(op')
  BY DEF TaskSound, Shaped
<1>3. Followed(op', dir', View')
  BY DEF TaskSound, Followed, Here, Length
<1> QED
  BY <1>1, <1>2, <1>3 DEF TaskSound

\* A flush makes the disk's table equal to the driver's.
LEMMA FlushViews ==
  ASSUME FInv, flush_fat_cache
  PROVE  Table' = View /\ View' = View /\ cache'.bytes = cache.bytes /\ cache'.dirty = (op.copy # NumFats)
<1> DEFINE b == cache.bytes
<1>1. /\ View = Patched(Table, b)
      /\ fats' = [fats EXCEPT ![op.copy] = Patched(@, b)]
      /\ cache' = [cache EXCEPT !.dirty = op.copy # NumFats]
  BY DEF flush_fat_cache, FlushDue, View
<1>2. /\ DOMAIN cache = {"lba", "bytes", "dirty"} /\ DOMAIN fats = 1..NumFats
      /\ op.copy \in 1..NumFats /\ (op.copy # 1 => Patched(Table, b) = Table)
  BY DEF FInv, Shape, CopySound
<1>3. cache'.bytes = b /\ cache'.dirty = (op.copy # NumFats)
  BY <1>1, <1>2
<1>4. Table' = View
  <2>1. CASE op.copy = 1
    BY <1>1, <1>2, <2>1, Numbers DEF Table
  <2>2. CASE op.copy # 1
    BY <1>1, <1>2, <2>2, Numbers DEF Table
  <2> QED
    BY <2>1, <2>2
<1>5. Patched(Table', b) = Table'
  BY <1>1, <1>4, PatchedTwice
<1> QED
  BY <1>3, <1>4, <1>5 DEF View

\* The table, the cache or the data are written or read.
LEMMA TaskTransfer ==
  ASSUME FInv, TaskSound(op, node, dir, View), flush_fat_cache \/ fat_sector_bytes \/ write_lba_list \/ DataWritten
  PROVE  TaskSound(op', node', dir', View')
<1>1. DOMAIN op = DOMAIN Idle /\ DOMAIN node = {"slot", "start", "size"}
  BY DEF FInv, Shape
<1>2. View' = View
  <2>1. CASE flush_fat_cache
    BY <2>1, FlushViews
  <2>2. CASE fat_sector_bytes
    BY <2>2 DEF fat_sector_bytes, FlushDue, disk, View, Table, FInv, CacheSound
  <2>3. CASE write_lba_list \/ DataWritten
    BY <2>3 DEF write_lba_list, DataWritten, disk, View, Table
  <2> QED
    BY <2>1, <2>2, <2>3
<1>3. UNCHANGED dir /\ node'.slot = node.slot /\ node'.start = node.start
  BY <1>1 DEF flush_fat_cache, fat_sector_bytes, write_lba_list, DataWritten, disk
<1>4. \/ op' = op
      \/ \E c : op' = [op EXCEPT !.copy = c]
      \/ \E k : op' = [op EXCEPT !.i = k]
      \/ (op' = [op EXCEPT !.pc = "dir"] /\ op.pc = "data")
  BY DEF flush_fat_cache, fat_sector_bytes, write_lba_list, DataWritten, At
<1>5. /\ op'.kind = op.kind /\ op'.slot = op.slot /\ op'.start = op.start /\ op'.required = op.required
      /\ op'.bytes = op.bytes /\ op'.offset = op.offset /\ op'.count = op.count /\ op'.new = op.new
      /\ op'.chain = op.chain /\ op'.from = op.from /\ (op'.pc = op.pc \/ (op'.pc = "dir" /\ op.pc = "data"))
  BY <1>1, <1>4 DEF Idle
<1> QED
  BY <1>2, <1>3, <1>5, TaskStays

\* The directory entry is written.
LEMMA TaskFinish ==
  ASSUME FInv, LongEnoughAll, NamesInv, TaskSound(op, node, dir, View), finish_directory_update
  PROVE  TaskSound(op', node', dir', View')
<1>1. /\ op.pc = "dir" /\ op' = Idle /\ UNCHANGED node /\ DOMAIN dir = Slots
      /\ dir' = [dir EXCEPT ![op.slot] = [name |-> op.name, start |-> op.start, size |-> NewSize]]
  BY DEF finish_directory_update, At, FInv, Shape
<1>2. NodeNamed(node, dir) /\ OpNamed(op, node, dir) /\ StartsAgree(op, node, dir) /\ Needs(op, node)
  BY DEF NamesInv, TaskSound, LongEnoughAll, OpLong
<1>3. node.slot # 0 /\ dir'[node.slot].start # 0 => node.start = dir'[node.slot].start
  <2> SUFFICES ASSUME node.slot # 0, dir'[node.slot].start # 0 PROVE node.start = dir'[node.slot].start
    OBVIOUS
  <2>1. node.slot \in Slots
    BY <1>2 DEF NodeNamed
  <2>2. CASE node.slot # op.slot
    <3>1. dir'[node.slot] = dir[node.slot]
      BY <1>1, <2>1, <2>2
    <3> QED
      BY <1>2, <3>1 DEF StartsAgree
  <2>3. CASE node.slot = op.slot
    <3>1. dir'[node.slot].start = op.start
      BY <1>1, <2>1, <2>3
    <3>2. op.kind = "stream"
      BY <1>1, <1>2, <2>3 DEF OpNamed
    <3> QED
      BY <1>2, <3>1, <3>2 DEF Needs
  <2> QED
    BY <2>2, <2>3
<1> QED
  BY <1>1, <1>3, TaskIdle

\* A node is opened or closed, or the machine starts again.
LEMMA TaskRest ==
  ASSUME FInv, CloseNode \/ Restart \/ \E f \in FileNames : fat16_resolve_node(f)
  PROVE  TaskSound(op', node', dir', View')
<1>1. op' = Idle /\ dir' = dir
  BY DEF CloseNode, Restart, fat16_resolve_node, At, disk, FInv, Shape
<1>2. node'.slot # 0 /\ dir[node'.slot].start # 0 => node'.start = dir[node'.slot].start
  BY DEF CloseNode, Restart, fat16_resolve_node
<1> QED
  BY <1>1, <1>2, TaskIdle

\* Every step keeps what is walked, written and read the chain of the file.
LEMMA StepTask ==
  ASSUME ~SharedFiles, FInv, FInv', LongEnoughAll, LongEnoughAll', NamesInv, TaskSound(op, node, dir, View),
         [Next]_vars, ~lossy'
  PROVE  TaskSound(op', node', dir', View')
<1>1. CASE UNCHANGED vars
  BY <1>1 DEF vars, disk, View, Table
<1>2. ASSUME NEW f \in FileNames, NEW n \in Lengths, fat16_create_file(f, n) PROVE TaskSound(op', node', dir', View')
  BY <1>2, TaskCreate
<1>3. ASSUME NEW f \in FileNames, NEW n \in Lengths, fat16_write_file(f, n) PROVE TaskSound(op', node', dir', View')
  BY <1>3, TaskWrite
<1>4. ASSUME NEW d \in DirNames, fat16_create_directory(d) PROVE TaskSound(op', node', dir', View')
  BY <1>4, TaskMakeDirectory
<1>5. ASSUME NEW f \in FileNames, fat16_read_file(f) PROVE TaskSound(op', node', dir', View')
  BY <1>5, TaskRead
<1>6. CASE CloseNode \/ Restart \/ \E f \in FileNames : fat16_resolve_node(f)
  BY <1>6, TaskRest
<1>7. ASSUME NEW offset \in {0, node.size}, NEW n \in Lengths, fat16_write_into(offset, n)
      PROVE  TaskSound(op', node', dir', View')
  BY <1>7, TaskStream
<1>8. CASE flush_fat_cache \/ fat_sector_bytes \/ write_lba_list \/ DataWritten
  BY <1>8, TaskTransfer
<1>9. CASE FlushFails \/ DataFails \/ DirectoryFails \/ ReadDone \/ OutOfClusters
  <2>1. op' = Idle /\ UNCHANGED <<dir, node>>
    BY <1>9 DEF FlushFails, DataFails, DirectoryFails, ReadDone, OutOfClusters, WriteFails, ReturnNil, disk
  <2> QED
    BY <2>1, TaskReturns
<1>10. CASE EvictionFails
  BY <1>10 DEF EvictionFails
<1>11. CASE cluster_chain
  BY <1>11, TaskWalk
<1>12. CASE Compare
  BY <1>12, TaskCompare
<1>13. CASE allocate_clusters
  BY <1>13, TaskTake
<1>14. CASE link_clusters
  BY <1>14, TaskLink
<1>15. CASE Linked
  BY <1>15, TaskLinked
<1>16. CASE AttachToOld
  BY <1>16, TaskAttach
<1>17. CASE Flushed
  BY <1>17, TaskFlushed
<1>18. CASE finish_directory_update
  BY <1>18, TaskFinish
<1> QED
  BY <1>1, <1>2, <1>3, <1>4, <1>5, <1>6, <1>7, <1>8, <1>9, <1>10, <1>11, <1>12, <1>13, <1>14,
     <1>15, <1>16, <1>17, <1>18 DEF Next

\* A new volume: no operation is under way.
LEMMA InitTask == Init => TaskInv
<1> SUFFICES ASSUME Init PROVE TaskSound(op, node, dir, View)
  BY DEF TaskInv
<1>1. op = Idle /\ node.slot = 0
  BY DEF Init
<1> QED
  BY <1>1, TaskIdle

-----------------------------------------------------------------------------
(***************************************************************************)
(* What is left behind.                                                    *)
(***************************************************************************)
LEMMA InChain ==
  ASSUME NEW X, NEW r, NEW n \in 0..TotalClusters, Along(X, r)[n] \in Clusters
  PROVE  Along(X, r)[n] \in ChainSet(X, r)
<1>1. PICK a : a = Along(X, r)
  OBVIOUS
<1>2. n + 1 \in 1..(TotalClusters + 1) /\ (n + 1) - 1 = n
  BY Numbers
<1>3. Nth(X, r)[n + 1] = a[n]
  BY <1>1, <1>2 DEF Nth
<1> QED
  BY <1>1, <1>2, <1>3 DEF ChainSet

\* A member of a chain is at some place of it.
LEMMA OfChain ==
  ASSUME NEW X, NEW r, NEW c \in ChainSet(X, r)
  PROVE  c \in Clusters /\ \E n \in 0..TotalClusters : c = Along(X, r)[n]
<1>1. PICK a : a = Along(X, r)
  OBVIOUS
<1>2. PICK k \in 1..(TotalClusters + 1) : c = Nth(X, r)[k]
  BY DEF ChainSet
<1>3. k - 1 \in 0..TotalClusters /\ c = a[k - 1]
  BY <1>1, <1>2, Numbers DEF Nth
<1> QED
  BY <1>1, <1>3 DEF ChainSet

\* An entry that ends a chain, or a free one, is changed: no chain loses a cluster.
LEMMA ChainsGrow ==
  ASSUME NEW X \in [Entries -> Value], NEW Y \in [Entries -> Value], NEW c, NEW t, X[c] \notin Clusters,
         Y = [X EXCEPT ![c] = t], NEW r \in Value
  PROVE  ChainSet(X, r) \subseteq ChainSet(Y, r)
<1> SUFFICES ASSUME NEW x \in ChainSet(X, r) PROVE x \in ChainSet(Y, r)
  OBVIOUS
<1>1. PICK n \in 0..TotalClusters : x \in Clusters /\ x = Along(X, r)[n]
  BY OfChain
<1>2. n \in Nat /\ n + 1 \in Nat /\ n \in 0..((n + 1) - 1)
  BY Numbers
<1>3. Long(X, r, n + 1)
  BY <1>1, <1>2, ChainBack
<1>4. SameTo(X, Y, r, n + 1)
  BY <1>2, <1>3, LongKept
<1>5. Along(Y, r)[n] = x
  BY <1>1, <1>2, <1>4 DEF SameTo
<1> QED
  BY <1>1, <1>5, InChain

\* What is linked to a chain is in it.
LEMMA LinkedInChain ==
  ASSUME NEW X, Linear(X), NEW r, Root(r, X), NEW q \in Seq(Clusters), NEW m \in Nat,
         Len(q) > 0, Along(X, r)[m] = q[1],
         \A j \in 1..Len(q) : j < Len(q) => X[q[j]] = q[j + 1]
  PROVE  \A j \in 1..Len(q) : q[j] \in ChainSet(X, r)
<1>1. X \in [Entries -> Value] /\ r \in Value
  BY DEF Linear, Root, Value
<1>2. \A j \in 1..Len(q) : Along(X, r)[m + j - 1] = q[j]
  BY <1>1, Follows
<1> TAKE j \in 1..Len(q)
<1>3. PICK n \in Nat : n = m + j - 1
  OBVIOUS
<1>4. Along(X, r)[n] = q[j] /\ q[j] \in Clusters
  BY <1>2, <1>3
<1>5. Long(X, r, n + 1)
  BY <1>1, <1>4, ChainBack
<1>6. n + 1 <= TotalClusters
  BY <1>5, ChainBound
<1> QED
  BY <1>4, <1>6, InChain, Numbers

\* No cluster of a file or of the operation gets lost.
LEMMA FilesGrow ==
  ASSUME FInv, NEW Y \in [Entries -> Value], NEW c, NEW t, View[c] \notin Clusters,
         Y = [View EXCEPT ![c] = t]
  PROVE  /\ InFiles(dir, View) \subseteq InFiles(dir, Y)
         /\ ChainSet(View, op.start) \subseteq ChainSet(Y, op.start)
<1>1. View \in [Entries -> Value]
  BY DEF FInv, Linear
<1>2. \A r \in Value : ChainSet(View, r) \subseteq ChainSet(Y, r)
  BY <1>1, ChainsGrow
<1>3. op.start \in Value /\ \A s \in Slots : dir[s].start \in Value
  BY StartsTyped
<1> QED
  BY <1>2, <1>3 DEF InFiles

\* A new volume: no cluster is in use.
LEMMA InitTidy == Init => TidyInv
<1> SUFFICES ASSUME Init PROVE Tidy
  BY DEF TidyInv
<1>1. /\ \A k \in 1..NumFats : fats[k] = [c \in Entries |-> IF c < 2 THEN EndMark ELSE 0]
      /\ cache = EmptyCache /\ ~cache.dirty /\ op = Idle /\ op.pc = "idle"
  BY IdleFields DEF Init, EmptyCache
<1>2. \A k \in 1..NumFats : fats[k] = Table
  <2>1. 1 \in 1..NumFats
    BY Numbers
  <2> QED
    BY <1>1, <2>1 DEF Table
<1>3. View = [c \in Entries |-> IF c < 2 THEN EndMark ELSE 0]
  BY <1>1, <1>2, Numbers DEF View, Table
<1>4. \A c \in Clusters : View[c] = 0
  BY <1>3, Numbers DEF Clusters
<1>5. CopiesAgree
  BY <1>2 DEF CopiesAgree
<1> QED
  BY <1>1, <1>4, <1>5 DEF Tidy, Accounted

\* The table, the cache and the directory stay as they are.
LEMMA TidyStays ==
  ASSUME Tidy, UNCHANGED <<fats, cache, dir>>, op'.copy = 1,
         op.pc \in {"alloc", "link", "tail", "attach", "flush"} /\ cache.dirty =>
           op'.pc \in {"alloc", "link", "tail", "attach", "flush"},
         op'.pc = "read" => op'.kind = "read",
         Held(op, View) \subseteq Held(op', View) \cup InFiles(dir, View)
  PROVE  Tidy'
<1>1. View' = View /\ Table' = Table
  BY DEF View, Table
<1>2. Accounted(op', dir', View')
  BY <1>1 DEF Tidy, Accounted
<1>3. CopiesAgree'
  BY <1>1 DEF Tidy, CopiesAgree
<1> QED
  BY <1>2, <1>3 DEF Tidy

\* An operation begins with nothing.
LEMMA TidyBegin ==
  ASSUME FInv, Tidy, NEW o, Begin(o), DOMAIN o = DOMAIN Idle, o.copy = 1, o.pc # "read"
  PROVE  Tidy'
<1>1. PICK b : op' = [o EXCEPT !.sure = b]
  BY DEF Begin
<1>2. op'.copy = 1 /\ op'.pc # "read"
  BY <1>1 DEF Idle
<1>3. op = Idle /\ UNCHANGED <<fats, cache, dir>>
  BY DEF Begin, At, disk, FInv, Shape
<1>4. Held(op, View) = {} /\ op.pc = "idle"
  BY <1>3, IdleFields DEF Held
<1> QED
  BY <1>2, <1>3, <1>4, TidyStays

\* Every operation that can begin does so.
LEMMA TidyBegins ==
  ASSUME FInv, Tidy,
         \/ \E f \in FileNames, n \in Lengths : fat16_create_file(f, n) \/ fat16_write_file(f, n)
         \/ \E d \in DirNames : fat16_create_directory(d)
         \/ \E f \in FileNames : fat16_read_file(f)
         \/ \E offset \in {0, node.size}, n \in Lengths : fat16_write_into(offset, n)
  PROVE  Tidy'
<1>1. ASSUME NEW f \in FileNames, NEW n \in Lengths, fat16_create_file(f, n) PROVE Tidy'
  <2> DEFINE o == [Idle EXCEPT !.kind = "create", !.name = f, !.slot = FirstFree,
                        !.bytes = NewBytes(ops, n), !.required = cluster_count_for_bytes(n),
                        !.pc = IF n = 0 THEN "dir" ELSE "alloc"]
  <2>1. Begin(o) /\ DOMAIN o = DOMAIN Idle /\ o.copy = 1 /\ o.pc # "read"
    BY <1>1 DEF fat16_create_file, Idle
  <2> QED
    BY <2>1, TidyBegin
<1>2. ASSUME NEW f \in FileNames, NEW n \in Lengths, fat16_write_file(f, n) PROVE Tidy'
  <2>1. PICK s : s = SlotOf(f)
    OBVIOUS
  <2> DEFINE o == [Idle EXCEPT !.kind = "write", !.name = f, !.slot = s,
                            !.bytes = NewBytes(ops, n), !.required = cluster_count_for_bytes(n),
                            !.start = dir[s].start, !.from = dir[s].start,
                            !.pc = IF dir[s].start = 0 THEN "compare" ELSE "count"]
  <2>2. Begin(o)
    BY <1>2, <2>1 DEF fat16_write_file
  <2>3. DOMAIN o = DOMAIN Idle /\ o.copy = 1 /\ o.pc # "read"
    BY DEF Idle
  <2> QED
    BY <2>2, <2>3, TidyBegin
<1>3. ASSUME NEW d \in DirNames, fat16_create_directory(d) PROVE Tidy'
  <2> DEFINE o == [Idle EXCEPT !.kind = "mkdir", !.name = d, !.slot = FirstFree,
                        !.required = 1, !.pc = "alloc"]
  <2>1. Begin(o) /\ DOMAIN o = DOMAIN Idle /\ o.copy = 1 /\ o.pc # "read"
    BY <1>3 DEF fat16_create_directory, Idle
  <2> QED
    BY <2>1, TidyBegin
<1>4. ASSUME NEW f \in FileNames, fat16_read_file(f) PROVE Tidy'
  <2> DEFINE o == [Idle EXCEPT !.kind = "read", !.name = f, !.slot = SlotOf(f),
                        !.from = dir[SlotOf(f)].start, !.pc = "walk"]
  <2>1. Begin(o) /\ DOMAIN o = DOMAIN Idle /\ o.copy = 1 /\ o.pc # "read"
    BY <1>4 DEF fat16_read_file, Idle
  <2> QED
    BY <2>1, TidyBegin
<1>5. ASSUME NEW offset \in {0, node.size}, NEW n \in Lengths, fat16_write_into(offset, n) PROVE Tidy'
  <2> DEFINE o == [Idle EXCEPT !.kind = "stream", !.name = dir[node.slot].name, !.slot = node.slot,
                        !.bytes = NewBytes(ops, n), !.offset = offset,
                        !.required = cluster_count_for_bytes(offset + n),
                        !.start = node.start, !.from = node.start,
                        !.pc = IF node.start = 0 THEN "compare" ELSE "count"]
  <2>1. Begin(o)
    BY <1>5 DEF fat16_write_into
  <2>2. DOMAIN o = DOMAIN Idle /\ o.copy = 1 /\ o.pc # "read"
    BY DEF Idle
  <2> QED
    BY <2>1, <2>2, TidyBegin
<1> QED
  BY <1>1, <1>2, <1>3, <1>4, <1>5

\* A node is opened or closed.
LEMMA TidyNode ==
  ASSUME FInv, Tidy, CloseNode \/ \E f \in FileNames : fat16_resolve_node(f)
  PROVE  Tidy'
<1>1. UNCHANGED <<fats, cache, dir, op>> /\ op = Idle
  BY DEF CloseNode, fat16_resolve_node, disk, At, FInv, Shape
<1>2. op.copy = 1 /\ op.pc = "idle"
  BY <1>1, IdleFields
<1> QED
  BY <1>1, <1>2, TidyStays

\* A walk goes on: what was taken for an extension is kept till it is attached.
LEMMA TidyWalk ==
  ASSUME FInv, NamesInv, Tidy, cluster_chain
  PROVE  Tidy'
<1>1. Walking /\ Ready /\ UNCHANGED <<fats, cache, dir>> /\ DOMAIN op = DOMAIN Idle /\ op' = Walk(fat_entry(op.from))
  BY DEF cluster_chain, disk, FInv, Shape
<1>2. /\ op'.copy = op.copy /\ op'.kind = op.kind /\ op'.start = op.start /\ op'.new = op.new
      /\ op'.pc = op.pc \/ op'.pc = AfterWalk
  BY <1>1 DEF Walk, Idle
<1>3. op.copy = 1
  BY <1>1, NoFlush
<1>4. CASE op.pc = "tail"
  <2>1. op'.pc \in {"tail", "attach"}
    BY <1>2, <1>4 DEF AfterWalk, At
  <2>2. Held(op, View) \subseteq Held(op', View)
    BY <1>2, <1>4, <2>1 DEF Held
  <2> QED
    BY <1>1, <1>2, <1>3, <1>4, <2>1, <2>2, TidyStays
<1>5. CASE op.pc # "tail"
  <2>1. op.pc \in {"count", "walk"}
    BY <1>1, <1>5 DEF Walking
  <2>2. Held(op, View) \subseteq Held(op', View)
    BY <1>2, <2>1 DEF Held
  <2>3. op'.pc = "read" => op'.kind = "read"
    BY <1>2, <2>1 DEF AfterWalk, At
  <2> QED
    BY <1>1, <1>2, <1>3, <2>1, <2>2, <2>3, TidyStays
<1> QED
  BY <1>4, <1>5

\* The number of clusters decides; a file that is not written keeps its clusters.
LEMMA TidyCompare ==
  ASSUME FInv, NamesInv, TaskSound(op, node, dir, View), Tidy, Compare
  PROVE  Tidy'
<1>1. op.pc = "compare" /\ UNCHANGED <<fats, cache, dir>> /\ DOMAIN op = DOMAIN Idle
  BY DEF Compare, disk, At, FInv, Shape
<1>2. op.copy = 1
  BY <1>1, NoFlush
<1>3. CASE op.required < Len(op.chain) /\ op.kind = "write"
  <2>1. op' = Idle
    BY <1>3 DEF Compare, ReturnNil
  <2>2. op.start = dir[op.slot].start /\ op.slot \in Slots
    BY <1>1, <1>3 DEF TaskSound, StartsAgree, NamesInv, OpNamed
  <2>3. Held(op, View) \subseteq InFiles(dir, View)
    BY <1>1, <2>2 DEF Held, InFiles
  <2>4. op'.copy = 1 /\ op'.pc = "idle"
    BY <2>1, IdleFields
  <2> QED
    BY <1>1, <2>3, <2>4, TidyStays
<1>4. CASE ~(op.required < Len(op.chain) /\ op.kind = "write")
  <2> DEFINE o == [op EXCEPT !.count = Len(op.chain), !.chain = <<>>, !.i = 1]
  <2>1. \/ op' = [o EXCEPT !.pc = "alloc", !.from = 2]
        \/ op' = [o EXCEPT !.pc = "dir"]
        \/ op' = [o EXCEPT !.pc = IF op.kind = "stream" THEN "flush" ELSE "walk", !.from = op.start]
    BY <1>4 DEF Compare
  <2>2. DOMAIN o = DOMAIN Idle /\ o.copy = op.copy /\ o.start = op.start
    BY <1>1 DEF Idle
  <2> HIDE DEF o
  <2>3. op'.copy = 1 /\ op'.start = op.start /\ op'.pc \in {"alloc", "dir", "flush", "walk"}
    BY <1>2, <2>1, <2>2 DEF Idle
  <2>4. Held(op, View) \subseteq Held(op', View)
    BY <1>1, <2>3 DEF Held
  <2> QED
    BY <1>1, <2>3, <2>4, TidyStays
<1> QED
  BY <1>3, <1>4

\* The clusters of a file that had none are linked: they are its chain.
LEMMA TidyLinked ==
  ASSUME FInv, LongEnoughAll, Tidy, Linked
  PROVE  Tidy'
<1>1. /\ op.pc = "link" /\ op.i = Len(op.new) /\ UNCHANGED <<fats, cache, dir>> /\ DOMAIN op = DOMAIN Idle
  BY DEF Linked, disk, At, FInv, Shape
<1>2. /\ op.count \in Nat /\ (op.count = 0 => op.start = 0)
      /\ \A j \in 1..Len(op.new) : View[op.new[j]] = IF j < op.i THEN op.new[j + 1] ELSE EndMark
  BY <1>1 DEF LongEnoughAll, OpLong, Extending, Collecting, LinkedTo
<1>3. Taking(op, node, dir, View)
  BY <1>1 DEF FInv, OpSound, NewSound
<1>4. op.copy = 1
  BY <1>1, NoFlush
<1>5. CASE op.count > 0
  <2>1. op' = [op EXCEPT !.pc = "tail", !.from = op.start]
    BY <1>5 DEF Linked
  <2>2. op'.pc = "tail" /\ op'.new = op.new /\ op'.start = op.start /\ op'.copy = op.copy
    BY <1>1, <2>1 DEF Idle
  <2>3. Held(op, View) \subseteq Held(op', View)
    BY <1>1, <2>2 DEF Held
  <2> QED
    BY <1>1, <1>4, <2>2, <2>3, TidyStays
<1>6. CASE op.count = 0
  <2>1. op' = [op EXCEPT !.pc = "flush", !.start = op.new[1]]
    BY <1>6 DEF Linked
  <2>2. op'.pc = "flush" /\ op'.start = op.new[1] /\ op'.copy = op.copy
    BY <1>1, <2>1 DEF Idle
  <2>3. PICK q : q = op.new
    OBVIOUS
  <2>4. q \in Seq(Clusters) /\ Len(q) > 0 /\ q[1] \in Clusters
    <3>1. q \in Seq(Clusters) /\ op.i \in Nat \ {0}
      BY <1>1, <1>3, <2>3 DEF Taking, Collecting
    <3> QED
      BY <1>1, <2>3, <3>1
  <2>5. Root(q[1], View)
    BY <1>3, <2>3, <2>4 DEF Taking, Root
  <2>6. Linear(View) /\ Along(View, q[1])[0] = q[1] /\ \A j \in 1..Len(q) : j < Len(q) => View[q[j]] = q[j + 1]
    <3>1. Linear(View)
      BY DEF FInv
    <3>2. View \in [Entries -> Value] /\ q[1] \in Value
      BY <2>4, <3>1 DEF Linear, Value
    <3> QED
      BY <1>1, <1>2, <2>3, <3>1, <3>2, AlongDef
  <2>7. \A j \in 1..Len(q) : q[j] \in ChainSet(View, q[1])
    BY <2>4, <2>5, <2>6, LinkedInChain
  <2>8. q[1] # 0
    BY <2>4, Numbers
  <2>9. Held(op, View) \subseteq Held(op', View)
    BY <1>1, <1>2, <1>6, <2>2, <2>3, <2>7, <2>8 DEF Held
  <2> QED
    BY <1>1, <1>4, <2>2, <2>9, TidyStays
<1> QED
  BY <1>2, <1>5, <1>6

\* The table is on the disk; data are written; the operation has read its file.
LEMMA TidyData ==
  ASSUME FInv, NamesInv, Tidy, Flushed \/ write_lba_list \/ DataWritten \/ ReadDone
  PROVE  Tidy'
<1>1. UNCHANGED <<fats, cache, dir>> /\ DOMAIN op = DOMAIN Idle
  BY DEF Flushed, write_lba_list, DataWritten, ReadDone, disk, FInv, Shape
<1>2. CASE Flushed
  <2>1. op.pc = "flush" /\ ~cache.dirty
    BY <1>2 DEF Flushed, At
  <2>2. op'.copy = op.copy /\ op'.start = op.start /\ op'.pc \in {"data", "walk"}
    BY <1>1, <1>2 DEF Flushed, Idle
  <2>3. Held(op, View) \subseteq Held(op', View)
    BY <2>1, <2>2 DEF Held
  <2> QED
    BY <1>1, <2>1, <2>2, <2>3, NoFlush, TidyStays
<1>3. CASE write_lba_list \/ DataWritten
  <2>1. op.pc = "data" /\ op'.copy = op.copy /\ op'.start = op.start /\ op'.pc \in {"data", "dir"}
    BY <1>1, <1>3 DEF write_lba_list, DataWritten, At, Idle
  <2>2. Held(op, View) \subseteq Held(op', View)
    BY <2>1 DEF Held
  <2> QED
    BY <1>1, <2>1, <2>2, NoFlush, TidyStays
<1>4. CASE ReadDone
  <2>1. op.pc = "read" /\ op' = Idle
    BY <1>4 DEF ReadDone, ReturnNil, At
  <2>2. op.start = 0
    BY <2>1 DEF Tidy, NamesInv, OpNamed
  <2>3. Held(op, View) = {}
    BY <2>1, <2>2 DEF Held
  <2>4. op'.copy = 1 /\ op'.pc = "idle"
    BY <2>1, IdleFields
  <2> QED
    BY <1>1, <2>1, <2>3, <2>4, TidyStays
<1> QED
  BY <1>2, <1>3, <1>4

\* Tables that agree outside a sector still do when an entry in it is set.
LEMMA PatchedAlike ==
  ASSUME NEW X, NEW Y, NEW b, NEW c, NEW v, Patched(X, b) = Patched(Y, b)
  PROVE  Patched(X, [b EXCEPT ![c] = v]) = Patched(Y, [b EXCEPT ![c] = v])
<1> DEFINE w == [b EXCEPT ![c] = v]
<1>1. DOMAIN w = DOMAIN b
  OBVIOUS
<1>2. \A e \in Entries : e \notin DOMAIN b => X[e] = Y[e]
  <2> SUFFICES ASSUME NEW e \in Entries, e \notin DOMAIN b PROVE X[e] = Y[e]
    OBVIOUS
  <2>1. Patched(X, b)[e] = X[e] /\ Patched(Y, b)[e] = Y[e]
    BY DEF Patched
  <2> QED
    BY <2>1
<1> HIDE DEF w
<1>3. Patched(X, w) = Patched(Y, w)
  BY <1>1, <1>2 DEF Patched
<1> QED
  BY <1>3 DEF w

\* An entry of the driver's table is set for an operation that keeps what it has.
LEMMA TidyTable ==
  ASSUME FInv, FInv', Tidy, UNCHANGED <<fats, dir>>, NEW c \in Clusters, cache.lba = Sector(c),
         NEW v \in Value, View[c] \notin Clusters, set_fat_entry(c, v), op'.copy = 1,
         op'.pc \in {"alloc", "link", "flush"},
         Held(op, View) \subseteq Held(op', View'), View[c] = 0 => c \in Held(op', View')
  PROVE  Tidy'
<1>1. Table' = Table /\ View' = [View EXCEPT ![c] = v]
  BY SetEntry
<1>2. View \in [Entries -> Value] /\ View' \in [Entries -> Value] /\ Clusters \subseteq Entries
  BY Numbers DEF FInv, Linear
<1>3. InFiles(dir, View) \subseteq InFiles(dir, View')
  BY <1>1, <1>2, FilesGrow
<1>4. Accounted(op', dir', View')
  <2> SUFFICES ASSUME NEW k \in Clusters, View'[k] # 0 PROVE k \in InFiles(dir, View') \/ k \in Held(op', View')
    BY DEF Accounted
  <2>1. CASE View[k] # 0
    <3>1. k \in InFiles(dir, View) \/ k \in Held(op, View)
      BY <2>1 DEF Tidy, Accounted
    <3> QED
      BY <1>3, <3>1
  <2>2. CASE View[k] = 0
    <3>1. k = c
      BY <1>1, <1>2, <2>2
    <3> QED
      BY <2>2, <3>1
  <2> QED
    BY <2>1, <2>2
<1>5. CopiesAgree'
  <2>1. /\ DOMAIN cache = {"lba", "bytes", "dirty"}
        /\ cache' = [cache EXCEPT !.bytes[c] = v, !.dirty = TRUE]
    BY DEF set_fat_entry, FInv, Shape
  <2>2. cache'.bytes = [cache.bytes EXCEPT ![c] = v] /\ cache'.dirty
    BY <2>1
  <2>3. ASSUME NEW k \in 1..NumFats PROVE Patched(fats[k], cache'.bytes) = Patched(Table, cache'.bytes)
    <3>1. Patched(fats[k], cache.bytes) = Patched(Table, cache.bytes)
      BY DEF Tidy, CopiesAgree
    <3> QED
      BY <2>2, <3>1, PatchedAlike
  <2> QED
    BY <1>1, <2>2, <2>3 DEF CopiesAgree
<1> QED
  BY <1>4, <1>5 DEF Tidy

\* A cluster is taken.
LEMMA TidyTake ==
  ASSUME FInv, FInv', LongEnoughAll, Tidy, allocate_clusters
  PROVE  Tidy'
<1>1. /\ op.pc = "alloc" /\ Ready /\ UNCHANGED <<fats, dir>> /\ DOMAIN op = DOMAIN Idle
      /\ Wanted # NoEntry
  BY DEF allocate_clusters, disk, At, FInv, Shape, Ready
<1>2. op.from \in Clusters /\ cache.lba = Sector(op.from)
  BY <1>1 DEF Ready, Wanted, Touched, At, NoEntry, Walking
<1>3. fat_entry(op.from) = View[op.from]
  <2>1. PICK g : g = op.from
    OBVIOUS
  <2>2. g \in Clusters /\ cache.lba = Sector(g) /\ g \in Entries
    BY <1>2, <2>1, Numbers
  <2>3. fat_entry(g) = View[g]
    BY <2>2, EntryRead DEF LongEnoughAll
  <2> QED
    BY <2>1, <2>3
<1>4. op.copy = 1
  BY <1>1, NoFlush
<1>5. CASE fat_entry(op.from) # 0
  <2>1. op' = PassedOver /\ UNCHANGED cache
    BY <1>5 DEF allocate_clusters
  <2>2. op'.pc = op.pc /\ op'.new = op.new /\ op'.start = op.start /\ op'.copy = op.copy
    BY <1>1, <2>1 DEF PassedOver, Idle
  <2>3. Held(op, View) \subseteq Held(op', View)
    BY <2>2 DEF Held
  <2> QED
    BY <1>1, <1>4, <2>1, <2>2, <2>3, TidyStays
<1>6. CASE fat_entry(op.from) = 0
  <2>1. op' = Taken /\ set_fat_entry(op.from, EndMark)
    BY <1>6 DEF allocate_clusters
  <2>2. /\ op'.pc \in {"alloc", "link"} /\ op'.new = Append(op.new, op.from) /\ op'.start = op.start
        /\ op'.copy = op.copy
    BY <1>1, <2>1 DEF Taken, Idle
  <2>3. PICK q, f : q = op.new /\ f = op.from
    OBVIOUS
  <2>4. q \in Seq(Clusters)
    BY <1>1, <2>3 DEF FInv, OpSound, NewSound, Taking
  <2>5. \A x : (\E j \in 1..Len(q) : x = q[j]) \/ x = f => \E j \in 1..Len(Append(q, f)) : x = Append(q, f)[j]
    <3>1. Len(Append(q, f)) = Len(q) + 1 /\ Append(q, f)[Len(q) + 1] = f /\ Len(q) \in Nat
          /\ \A j \in 1..Len(q) : Append(q, f)[j] = q[j]
      BY <2>4
    <3>2. 1..Len(q) \subseteq 1..(Len(q) + 1) /\ Len(q) + 1 \in 1..(Len(q) + 1)
      BY <3>1
    <3> QED
      BY <3>1, <3>2
  <2>6. View' = [View EXCEPT ![f] = EndMark] /\ View' \in [Entries -> Value] /\ View[f] \notin Clusters /\ EndMark \in Value
    BY <1>2, <1>3, <1>6, <2>1, <2>3, <1>1, SetEntry, Numbers DEF FInv, Linear, Value
  <2>7. ChainSet(View, op.start) \subseteq ChainSet(View', op.start)
    BY <2>6, FilesGrow
  <2>8. Held(op, View) \subseteq Held(op', View') /\ f \in Held(op', View')
    <3>1. PICK s : s = op.start
      OBVIOUS
    <3>2. Held(op, View) = {q[j] : j \in 1..Len(q)} \cup (IF s = 0 THEN {} ELSE ChainSet(View, s))
      BY <1>1, <2>3, <3>1 DEF Held
    <3>3. PICK w : w = Append(q, f)
      OBVIOUS
    <3>4. Held(op', View') = {w[j] : j \in 1..Len(w)} \cup (IF s = 0 THEN {} ELSE ChainSet(View', s))
      BY <2>2, <2>3, <3>1, <3>3 DEF Held
    <3>5. \A x : (\E j \in 1..Len(q) : x = q[j]) \/ x = f => \E j \in 1..Len(w) : x = w[j]
      BY <2>5, <3>3
    <3> QED
      BY <2>7, <3>1, <3>2, <3>4, <3>5
  <2> QED
    BY <1>1, <1>2, <1>4, <2>1, <2>2, <2>3, <2>6, <2>8, TidyTable
<1> QED
  BY <1>5, <1>6

\* A new cluster is linked to the next one.
LEMMA TidyLink ==
  ASSUME FInv, FInv', LongEnoughAll, Tidy, link_clusters
  PROVE  Tidy'
<1>1. /\ op.pc = "link" /\ op.i < Len(op.new) /\ Ready /\ UNCHANGED <<fats, dir>> /\ DOMAIN op = DOMAIN Idle
  BY DEF link_clusters, disk, At, FInv, Shape
<1>2. Taking(op, node, dir, View)
  BY <1>1 DEF FInv, OpSound, NewSound
<1>3. op.new \in Seq(Clusters) /\ op.i \in Nat \ {0}
  BY <1>1, <1>2 DEF Taking, Collecting
<1>4. PICK c, t : c = op.new[op.i] /\ t = op.new[op.i + 1]
  OBVIOUS
<1>5. c \in Clusters /\ t \in Clusters /\ t \in Value /\ op.i \in 1..Len(op.new)
  BY <1>1, <1>3, <1>4 DEF Value
<1>6. cache.lba = Sector(c)
  BY <1>1, <1>4 DEF Ready, Wanted, Touched, At, Walking
<1>7. cache.bytes # <<>>
  BY <1>5, <1>6, Numbers DEF LongEnoughAll, Readable
<1>8. set_fat_entry(c, t) /\ op' = [op EXCEPT !.i = @ + 1]
  BY <1>4, <1>7 DEF link_clusters
<1>9. op'.pc = "link" /\ op'.new = op.new /\ op'.start = op.start /\ op'.copy = op.copy
  BY <1>1, <1>8 DEF Idle
<1>10. View[c] = EndMark
  <2>1. \A j \in 1..Len(op.new) : View[op.new[j]] = IF j < op.i THEN op.new[j + 1] ELSE EndMark
    BY <1>1 DEF LongEnoughAll, OpLong, Extending, Collecting, LinkedTo
  <2> QED
    BY <1>3, <1>4, <1>5, <2>1
<1>11. View' = [View EXCEPT ![c] = t] /\ View' \in [Entries -> Value]
  BY <1>1, <1>5, <1>6, <1>8, SetEntry DEF FInv, Linear
<1>12. ChainSet(View, op.start) \subseteq ChainSet(View', op.start)
  BY <1>10, <1>11, FilesGrow, Numbers
<1>13. Held(op, View) \subseteq Held(op', View')
  BY <1>1, <1>9, <1>12 DEF Held
<1>14. op'.copy = 1
  BY <1>1, <1>9, NoFlush
<1> QED
  BY <1>1, <1>5, <1>6, <1>8, <1>9, <1>10, <1>13, <1>14, TidyTable, Numbers

\* The old chain with its last entry pointing to the first new cluster goes on there.
LEMMA AttachedChain ==
  ASSUME FInv, LongEnoughAll, op.pc = "attach", NEW c, NEW t,
         c = op.chain[Len(op.chain)], t = op.new[1], View' = [View EXCEPT ![c] = t]
  PROVE  /\ c \in Clusters /\ View[c] = EndMark /\ t \in Clusters
         /\ Len(op.chain) \in Nat /\ Along(View', op.start)[Len(op.chain)] = t
         /\ \A j \in 1..Len(op.new) : j < Len(op.new) => View'[op.new[j]] = op.new[j + 1]
<1>1. /\ op.new \in Seq(Clusters) /\ Len(op.new) > 0 /\ Linear(View) /\ OpLong(op, node, View)
  BY DEF FInv, OpSound, NewSound, Taking, Collecting, LongEnoughAll
<1>2. PICK X, Y, r, q : X = View /\ Y = View' /\ r = op.start /\ q = op.new
  OBVIOUS
<1>3. /\ op.count \in Nat /\ op.count > 0
      /\ \A j \in 1..Len(q) : X[q[j]] = IF j < Len(q) THEN q[j + 1] ELSE EndMark
  BY <1>1, <1>2 DEF OpLong, Extending, Collecting, LinkedTo
<1>4. /\ op.chain \in Seq(Clusters) /\ Len(op.chain) >= op.count /\ X[c] = EndMark
      /\ \A n \in 1..Len(op.chain) : op.chain[n] = Along(X, r)[n - 1]
  BY <1>1, <1>2 DEF OpLong, Walked, Prefix
<1>5. PICK m \in Nat : m = Len(op.chain) /\ m > 0
  BY <1>3, <1>4
<1>6. c \in Clusters /\ c \in Entries /\ c = Along(X, r)[m - 1] /\ X[c] \notin Clusters
  BY <1>4, <1>5, Numbers
<1>7. t \in Clusters /\ t \in Value
  BY <1>1 DEF Value
<1>8. /\ X \in [Entries -> Value] /\ Y \in [Entries -> Value] /\ r \in Value /\ Y = [X EXCEPT ![c] = t]
      /\ \A e \in Entries : Y[e] = IF e = c THEN t ELSE X[e]
  BY <1>1, <1>2, <1>7, StartsTyped DEF Linear
<1>9. Long(X, r, m)
  <2>1. m - 1 \in Nat /\ (m - 1) + 1 = m
    BY <1>5
  <2>2. PICK k \in Nat : k = m - 1
    BY <2>1
  <2>3. Long(X, r, k + 1)
    BY <1>6, <1>8, <2>2, ChainBack
  <2> QED
    BY <2>1, <2>2, <2>3
<1>10. SameTo(X, Y, r, m)
  BY <1>5, <1>6, <1>8, <1>9, LongKept
<1>11. Along(Y, r)[m] = t
  <2>1. \A n \in Nat : Along(Y, r)[n + 1] = IF Along(Y, r)[n] \in Clusters THEN Y[Along(Y, r)[n]]
                                            ELSE Along(Y, r)[n]
    <3>1. PICK Z : Z = Y
      OBVIOUS
    <3>2. Z \in [Entries -> Value] /\ r \in Value
      BY <1>8, <3>1
    <3>3. \A n \in Nat : Along(Z, r)[n + 1] = IF Along(Z, r)[n] \in Clusters THEN Z[Along(Z, r)[n]]
                                              ELSE Along(Z, r)[n]
      BY <3>2, AlongDef
    <3> QED
      BY <3>1, <3>3
  <2>2. PICK a, b : a = Along(Y, r) /\ b = Along(X, r)
    OBVIOUS
  <2>3. m - 1 \in Nat /\ (m - 1) + 1 = m /\ m - 1 \in 0..(m - 1)
    BY <1>5
  <2>4. a[m - 1] = c
    BY <1>6, <1>10, <2>2, <2>3 DEF SameTo
  <2>5. a[(m - 1) + 1] = Y[c]
    BY <1>6, <2>1, <2>2, <2>3, <2>4
  <2>6. Y[c] = t
    BY <1>6, <1>8
  <2> QED
    BY <2>2, <2>3, <2>5, <2>6
<1>12. ASSUME NEW j \in 1..Len(q), j < Len(q) PROVE Y[q[j]] = q[j + 1]
  <2>1. q[j] \in Clusters /\ q[j + 1] \in Clusters /\ q[j] \in Entries
    BY <1>1, <1>2, <1>12, Numbers
  <2>2. X[q[j]] = q[j + 1] /\ q[j] # c
    BY <1>3, <1>6, <1>12, <2>1
  <2> QED
    BY <1>8, <2>1, <2>2
<1> QED
  BY <1>2, <1>4, <1>5, <1>6, <1>7, <1>11, <1>12

\* The old chain gets the new clusters.
LEMMA TidyAttach ==
  ASSUME FInv, FInv', LongEnoughAll, Tidy, AttachToOld
  PROVE  Tidy'
<1>1. /\ op.pc = "attach" /\ Ready /\ UNCHANGED <<fats, dir>> /\ DOMAIN op = DOMAIN Idle
  BY DEF AttachToOld, disk, At, FInv, Shape
<1>2. PICK c, t : c = op.chain[Len(op.chain)] /\ t = op.new[1]
  OBVIOUS
<1>3. op.pc = "attach" /\ c \in Clusters
  <2>1. OpLong(op, node, View) /\ op.pc = "attach"
    BY <1>1 DEF LongEnoughAll
  <2>2. op.chain \in Seq(Clusters) /\ Len(op.chain) > 0
    BY <2>1 DEF OpLong, Walked, Prefix, Extending, Collecting
  <2> QED
    BY <1>2, <2>1, <2>2
<1>4. cache.lba = Sector(c)
  BY <1>1, <1>2 DEF Ready, Wanted, Touched, At, Walking
<1>5. cache.bytes # <<>>
  BY <1>3, <1>4, Numbers DEF LongEnoughAll, Readable
<1>6. set_fat_entry(c, t) /\ op' = [op EXCEPT !.pc = "flush", !.chain = <<>>]
  BY <1>2, <1>5 DEF AttachToOld
<1>7. op'.pc = "flush" /\ op'.start = op.start /\ op'.copy = op.copy
  BY <1>1, <1>6 DEF Idle
<1>8. t \in Value
  BY <1>1, <1>2 DEF FInv, OpSound, NewSound, Taking, Collecting, Value
<1>9. View' = [View EXCEPT ![c] = t]
  BY <1>1, <1>4, <1>6, <1>8, SetEntry
<1>10. /\ View[c] = EndMark /\ Len(op.chain) \in Nat /\ Along(View', op.start)[Len(op.chain)] = t
       /\ \A j \in 1..Len(op.new) : j < Len(op.new) => View'[op.new[j]] = op.new[j + 1]
  BY <1>2, <1>9, <1>3, AttachedChain
<1>11. PICK Y : Y = View'
  OBVIOUS
<1>12. Linear(Y) /\ Y \in [Entries -> Value]
  BY <1>11 DEF FInv, Linear
<1>13. /\ op.new \in Seq(Clusters) /\ Len(op.new) > 0 /\ op.count \in Nat /\ op.count > 0
       /\ Len(op.chain) >= op.count /\ op.chain \in Seq(Clusters)
       /\ \A n \in 1..Len(op.chain) : op.chain[n] = Along(View, op.start)[n - 1]
  BY <1>1 DEF FInv, OpSound, NewSound, Taking, Collecting, LongEnoughAll, OpLong, Extending, Walked, Prefix
<1>14. op.start \in Clusters
  <2>1. Along(View, op.start)[0] = op.start
    BY StartsTyped, AlongDef DEF FInv, Linear
  <2>2. 1 \in 1..Len(op.chain) /\ op.chain[1] \in Clusters
    BY <1>13
  <2> QED
    BY <1>13, <2>1, <2>2
<1>15. Root(op.start, Y)
  <2>1. op'.start # 0
    BY <1>7, <1>14, Numbers
  <2> QED
    BY <1>7, <1>11, <2>1 DEF FInv, OpSound, StartSound
<1>16. PICK q, r, m : q = op.new /\ r = op.start /\ m = Len(op.chain)
  OBVIOUS
<1>17. \A j \in 1..Len(q) : q[j] \in ChainSet(Y, r)
  <2>1. /\ q \in Seq(Clusters) /\ m \in Nat /\ Len(q) > 0 /\ Along(Y, r)[m] = q[1] /\ Root(r, Y)
        /\ \A j \in 1..Len(q) : j < Len(q) => Y[q[j]] = q[j + 1]
    BY <1>2, <1>13, <1>15, <1>16, <1>10, <1>11
  <2> QED
    BY <1>12, <2>1, LinkedInChain
<1>18. ChainSet(View, op.start) \subseteq ChainSet(Y, op.start)
  BY <1>9, <1>12, <1>10, <1>11, FilesGrow, Numbers
<1>19. Held(op, View) \subseteq Held(op', View')
  <2>1. r # 0
    BY <1>14, <1>16, Numbers
  <2>2. Held(op', View') = ChainSet(Y, r)
    BY <1>7, <1>16, <1>11, <2>1 DEF Held
  <2>3. Held(op, View) = {q[j] : j \in 1..Len(q)} \cup ChainSet(View, r)
    BY <1>1, <1>16, <2>1 DEF Held
  <2> QED
    BY <1>16, <1>17, <1>18, <2>2, <2>3
<1>20. op'.copy = 1
  BY <1>1, <1>7, NoFlush
<1> QED
  BY <1>1, <1>3, <1>4, <1>6, <1>7, <1>8, <1>19, <1>20, <1>10, TidyTable, Numbers

\* One copy of the table is written: it is the driver's table.
LEMMA TidyFlush ==
  ASSUME FInv, Tidy, flush_fat_cache
  PROVE  Tidy'
<1>1. Table' = View /\ View' = View /\ cache'.bytes = cache.bytes /\ cache'.dirty = (op.copy # NumFats)
  BY FlushViews
<1>2. /\ cache.dirty /\ UNCHANGED dir /\ DOMAIN op = DOMAIN Idle /\ DOMAIN fats = 1..NumFats
      /\ op' = [op EXCEPT !.copy = IF op.copy = NumFats THEN 1 ELSE @ + 1]
      /\ fats' = [fats EXCEPT ![op.copy] = Patched(@, cache.bytes)]
      /\ op.copy \in 1..NumFats /\ (op.copy # 1 => Patched(Table, cache.bytes) = Table)
  BY DEF flush_fat_cache, FlushDue, FInv, Shape, CopySound
<1>3. /\ op'.copy = (IF op.copy = NumFats THEN 1 ELSE op.copy + 1)
      /\ op'.pc = op.pc /\ op'.kind = op.kind /\ op'.start = op.start /\ op'.new = op.new
  BY <1>2 DEF Idle
<1>4. Held(op', View') = Held(op, View)
  BY <1>1, <1>3 DEF Held
<1>5. Accounted(op', dir', View')
  BY <1>1, <1>2, <1>4 DEF Tidy, Accounted
<1>6. PICK b : b = cache.bytes
  OBVIOUS
<1>7. View = Patched(Table, b)
  BY <1>2, <1>6 DEF View
<1>8. Patched(View, b) = View
  BY <1>7, PatchedTwice
<1>9. \A k \in 1..NumFats : Patched(fats[k], b) = View
  BY <1>6, <1>7 DEF Tidy, CopiesAgree
<1>10. ASSUME NEW k \in 1..NumFats PROVE Patched(fats'[k], b) = View
  <2>1. CASE k = op.copy
    <3>1. fats'[k] = View
      BY <1>2, <1>6, <1>9, <2>1
    <3> QED
      BY <1>8, <3>1
  <2>2. CASE k # op.copy
    BY <1>2, <1>9, <2>2
  <2> QED
    BY <2>1, <2>2
<1>11. ASSUME NEW k \in 1..NumFats, ~cache'.dirty \/ k < op'.copy PROVE fats'[k] = View
  <2>1. CASE k = op.copy
    BY <1>2, <1>6, <1>9, <2>1
  <2>2. CASE k # op.copy
    <3>1. k < op.copy
      <4>1. PICK m \in 1..NumFats : m = op.copy
        BY <1>2
      <4>2. CASE m = NumFats
        BY <1>3, <2>2, <4>1, <4>2, Numbers
      <4>3. CASE m # NumFats
        <5>1. cache'.dirty /\ op'.copy = m + 1
          BY <1>1, <1>3, <4>1, <4>3
        <5>2. k < m + 1
          BY <1>11, <5>1
        <5> QED
          BY <2>2, <4>1, <5>2, Numbers
      <4> QED
        BY <4>2, <4>3
    <3>2. fats[k] = Table
      BY <3>1 DEF Tidy, CopiesAgree
    <3>3. op.copy # 1
      BY <3>1
    <3> QED
      BY <1>2, <1>6, <1>7, <2>2, <3>2, <3>3
  <2> QED
    BY <2>1, <2>2
<1>12. CopiesAgree'
  BY <1>1, <1>6, <1>8, <1>10, <1>11 DEF CopiesAgree
<1>13. cache'.dirty => op'.pc \in {"alloc", "link", "tail", "attach", "flush"}
  BY <1>2, <1>3 DEF Tidy
<1>14. op'.pc = "read" => op'.kind = "read"
  BY <1>3 DEF Tidy
<1> QED
  BY <1>5, <1>12, <1>13, <1>14 DEF Tidy

\* Another sector is read: none was pending.
LEMMA TidySector ==
  ASSUME FInv, Tidy, fat_sector_bytes
  PROVE  Tidy'
<1>1. ~cache.dirty /\ UNCHANGED <<fats, dir, op>> /\ DOMAIN cache = {"lba", "bytes", "dirty"}
  BY DEF fat_sector_bytes, FlushDue, disk, FInv, Shape
<1>2. ~cache'.dirty
  BY DEF fat_sector_bytes
<1>3. View' = View /\ Table' = Table
  BY <1>1, <1>2 DEF View, Table
<1>4. \A k \in 1..NumFats : fats[k] = Table
  BY <1>1 DEF Tidy, CopiesAgree
<1>5. CopiesAgree'
  BY <1>1, <1>3, <1>4 DEF CopiesAgree
<1> QED
  BY <1>1, <1>2, <1>3, <1>5 DEF Tidy, Accounted

\* The entry is written: what the operation had is the file's.
LEMMA TidyFinish ==
  ASSUME FInv, NamesInv, TaskSound(op, node, dir, View), Tidy, finish_directory_update
  PROVE  Tidy'
<1>1. /\ op.pc = "dir" /\ op' = Idle /\ UNCHANGED <<fats, cache>> /\ DOMAIN dir = Slots
      /\ dir' = [dir EXCEPT ![op.slot] = [name |-> op.name, start |-> op.start, size |-> NewSize]]
  BY DEF finish_directory_update, At, FInv, Shape
<1>2. View' = View /\ Table' = Table /\ ~cache'.dirty
  BY <1>1 DEF View, Table, Tidy
<1>3. op.slot \in Slots /\ (dir[op.slot].start # 0 => op.start = dir[op.slot].start)
  BY <1>1 DEF TaskSound, StartsAgree, NamesInv, OpNamed
<1>4. \A s \in Slots : dir'[s].start = IF s = op.slot THEN op.start ELSE dir[s].start
  BY <1>1
<1>5. Held(op, View) \subseteq InFiles(dir', View)
  BY <1>1, <1>3, <1>4 DEF Held, InFiles
<1>6. InFiles(dir, View) \subseteq InFiles(dir', View)
  BY <1>3, <1>4 DEF InFiles
<1>7. Accounted(op', dir', View')
  BY <1>2, <1>5, <1>6 DEF Tidy, Accounted
<1>8. op'.copy = 1 /\ op'.pc = "idle"
  BY <1>1, IdleFields
<1>9. \A k \in 1..NumFats : fats[k] = Table
  BY <1>1, <1>2 DEF Tidy, CopiesAgree
<1>10. CopiesAgree'
  BY <1>1, <1>2, <1>9 DEF CopiesAgree
<1> QED
  BY <1>2, <1>7, <1>8, <1>10 DEF Tidy

\* No step without a failure, and with a cluster left, leaves anything behind.
LEMMA StepTidy ==
  ASSUME ~SharedFiles, FInv, FInv', LongEnoughAll, NamesInv, TaskSound(op, node, dir, View), Tidy,
         [Next]_vars, faults' = 0, ~full'
  PROVE  Tidy'
<1>1. CASE UNCHANGED vars
  BY <1>1 DEF vars, disk, View, Table, Tidy, CopiesAgree
<1>2. CASE \/ \E f \in FileNames, n \in Lengths : fat16_create_file(f, n) \/ fat16_write_file(f, n)
           \/ \E d \in DirNames : fat16_create_directory(d)
           \/ \E f \in FileNames : fat16_read_file(f)
           \/ \E offset \in {0, node.size}, n \in Lengths : fat16_write_into(offset, n)
  BY <1>2, TidyBegins
<1>3. CASE CloseNode \/ \E f \in FileNames : fat16_resolve_node(f)
  BY <1>3, TidyNode
<1>4. CASE flush_fat_cache
  BY <1>4, TidyFlush
<1>5. CASE FlushFails \/ EvictionFails \/ DataFails \/ DirectoryFails \/ Restart
  <2>1. faults' = faults + 1
    BY <1>5 DEF FlushFails, EvictionFails, DataFails, DirectoryFails, Restart, WriteFails, Fault
  <2> QED
    BY <2>1 DEF NamesInv
<1>6. CASE fat_sector_bytes
  BY <1>6, TidySector
<1>7. CASE cluster_chain
  BY <1>7, TidyWalk
<1>8. CASE Compare
  BY <1>8, TidyCompare
<1>9. CASE OutOfClusters
  BY <1>9 DEF OutOfClusters
<1>10. CASE allocate_clusters
  BY <1>10, TidyTake
<1>11. CASE link_clusters
  BY <1>11, TidyLink
<1>12. CASE Linked
  BY <1>12, TidyLinked
<1>13. CASE AttachToOld
  BY <1>13, TidyAttach
<1>14. CASE Flushed \/ write_lba_list \/ DataWritten \/ ReadDone
  BY <1>14, TidyData
<1>15. CASE finish_directory_update
  BY <1>15, TidyFinish
<1> QED
  BY <1>1, <1>2, <1>3, <1>4, <1>5, <1>6, <1>7, <1>8, <1>9, <1>10, <1>11, <1>12, <1>13, <1>14, <1>15 DEF Next

\* Failures and a full volume are not forgotten.
LEMMA FullStays == NamesInv /\ [Next]_vars /\ faults' = 0 /\ ~full' => faults = 0 /\ ~full
<1> SUFFICES ASSUME NamesInv, [Next]_vars, faults' = 0, ~full' PROVE faults = 0 /\ ~full
  OBVIOUS
<1>1. faults \in Nat
  BY DEF NamesInv
<1>2. CASE UNCHANGED vars
  BY <1>2 DEF vars, book
<1>3. CASE \/ \E f \in FileNames, n \in Lengths : fat16_create_file(f, n) \/ fat16_write_file(f, n)
           \/ \E d \in DirNames : fat16_create_directory(d)
           \/ \E f \in FileNames : fat16_read_file(f) \/ fat16_resolve_node(f)
           \/ \E offset \in {0, node.size}, n \in Lengths : fat16_write_into(offset, n)
           \/ CloseNode
  <2>1. \A o : Begin(o) => faults' = faults /\ full' = full
    BY DEF Begin
  <2>2. CASE CloseNode \/ \E f \in FileNames : fat16_resolve_node(f)
    BY <2>2 DEF CloseNode, fat16_resolve_node, book
  <2>3. CASE \E f \in FileNames, n \in Lengths : fat16_create_file(f, n) \/ fat16_write_file(f, n)
    BY <2>1, <2>3 DEF fat16_create_file, fat16_write_file
  <2>4. CASE \/ \E d \in DirNames : fat16_create_directory(d)
             \/ \E f \in FileNames : fat16_read_file(f)
             \/ \E offset \in {0, node.size}, n \in Lengths : fat16_write_into(offset, n)
    BY <2>1, <2>4 DEF fat16_create_directory, fat16_read_file, fat16_write_into
  <2> QED
    BY <1>3, <2>2, <2>3, <2>4
<1>4. CASE FlushFails \/ EvictionFails \/ DataFails \/ DirectoryFails \/ Restart
  BY <1>1, <1>4 DEF FlushFails, EvictionFails, DataFails, DirectoryFails, Restart, WriteFails, Fault
<1>5. CASE OutOfClusters
  BY <1>5 DEF OutOfClusters
<1>6. CASE flush_fat_cache \/ fat_sector_bytes \/ cluster_chain \/ Compare \/ allocate_clusters
  BY <1>1, <1>6 DEF flush_fat_cache, fat_sector_bytes, cluster_chain, Compare, allocate_clusters, Fault, book
<1>7. CASE link_clusters \/ Linked \/ AttachToOld \/ Flushed \/ write_lba_list \/ DataWritten \/ ReadDone
           \/ finish_directory_update
  BY <1>7 DEF link_clusters, Linked, AttachToOld, Flushed, write_lba_list, DataWritten, ReadDone,
       finish_directory_update, book
<1> QED
  BY <1>2, <1>3, <1>4, <1>5, <1>6, <1>7 DEF Next

\* With no operation under way, what is accounted for is in the files.
LEMMA TidyImpliesNothingLeft == FInv /\ NamesInv /\ TidyInv => NothingLeftBehind
<1> SUFFICES ASSUME FInv, NamesInv, Tidy, op.pc = "idle"
             PROVE  /\ ~cache.dirty
                    /\ \A k \in 1..NumFats : fats[k] = fats[1]
                    /\ {c \in Clusters : fats[1][c] # 0} = UNION {ChainSet(fats[1], dir[s].start) : s \in Started}
  BY DEF TidyInv, NothingLeftBehind, At
<1>1. ~cache.dirty /\ View = Table /\ op = Idle
  BY DEF Tidy, View, FInv, Shape
<1>2. \A k \in 1..NumFats : fats[k] = Table
  BY <1>1 DEF Tidy, CopiesAgree
<1>3. Started = {s \in Slots : dir[s].start # 0}
  BY DEF Started, Used, NamesInv, DirNamed
<1>4. Held(op, View) = {}
  BY <1>1, IdleFields DEF Held
<1>5. InFiles(dir, Table) = UNION {ChainSet(Table, dir[s].start) : s \in Started}
  BY <1>3 DEF InFiles
<1>6. ASSUME NEW c \in Clusters, Table[c] # 0 PROVE c \in InFiles(dir, Table)
  BY <1>1, <1>4, <1>6 DEF Tidy, Accounted
<1>7. ASSUME NEW c \in InFiles(dir, Table) PROVE c \in Clusters /\ Table[c] # 0
  <2>1. PICK s \in Slots : dir[s].start # 0 /\ c \in ChainSet(Table, dir[s].start)
    BY DEF InFiles
  <2>2. PICK X, r : X = Table /\ r = dir[s].start
    OBVIOUS
  <2>3. Linear(X) /\ Root(r, X) /\ c \in ChainSet(X, r)
    BY <2>1, <2>2 DEF FInv, DirSound
  <2>4. PICK n \in 0..TotalClusters : c \in Clusters /\ c = Along(X, r)[n]
    BY <2>3, OfChain
  <2>5. n \in Nat
    OBVIOUS
  <2> QED
    BY <2>2, <2>3, <2>4, <2>5, ChainInUse
<1> QED
  BY <1>1, <1>2, <1>5, <1>6, <1>7 DEF Table

\* While no file is written by path with a node for it open: the names, the
\* chains and what is walked along them agree, whatever fails.
LEMMA TasksStaySound ==
  ASSUME ~SharedFiles
  PROVE  Spec => [](FInv /\ LInv /\ NamesInv /\ TaskInv)
<1>1. Init => FInv /\ LInv /\ NamesInv /\ TaskInv
  BY InitInv, InitLong, InitNames, InitTask
<1>2. FInv /\ LInv /\ NamesInv /\ TaskInv /\ [Next]_vars => (FInv /\ LInv /\ NamesInv /\ TaskInv)'
  <2> SUFFICES ASSUME FInv, LInv, NamesInv, TaskInv, [Next]_vars PROVE (FInv /\ LInv /\ NamesInv /\ TaskInv)'
    OBVIOUS
  <2>1. FInv' /\ LInv' /\ NamesInv'
    BY StepInv, StepLong, StepNames
  <2>2. ASSUME ~lossy' PROVE TaskSound(op', node', dir', View')
    <3>1. ~lossy
      BY <2>2, LossyStays
    <3>2. LongEnoughAll /\ LongEnoughAll' /\ TaskSound(op, node, dir, View)
      BY <2>1, <2>2, <3>1 DEF LInv, TaskInv
    <3> QED
      BY <2>1, <2>2, <3>2, StepTask
  <2>3. TaskInv'
    BY <2>2 DEF TaskInv
  <2> QED
    BY <2>1, <2>3
<1> QED
  BY <1>1, <1>2, PTL DEF Spec

\* NothingLeftBehind: without failures and while clusters are left, an operation
\* of fat16.lisp that has returned leaves no pending sector, equal copies of the
\* table and no cluster that belongs to no file, as long as no file is written by
\* path while a node for it is open.
THEOREM NothingIsLeft ==
  ASSUME ~SharedFiles
  PROVE  Spec => []NothingLeftBehind
<1>1. Init => TidyInv
  BY InitTidy
<1>2. FInv /\ LInv /\ NamesInv /\ TaskInv /\ (FInv /\ LInv /\ NamesInv /\ TaskInv)' /\ TidyInv /\ [Next]_vars
        => TidyInv'
  <2> SUFFICES ASSUME FInv, LInv, NamesInv, TaskInv, FInv', TidyInv, [Next]_vars, faults' = 0, ~full'
               PROVE  Tidy'
    BY DEF TidyInv
  <2>1. faults = 0 /\ ~full
    BY FullStays
  <2>2. ~lossy
    BY <2>1 DEF NamesInv
  <2>3. LongEnoughAll /\ TaskSound(op, node, dir, View) /\ Tidy
    BY <2>1, <2>2 DEF LInv, TaskInv, TidyInv
  <2> QED
    BY <2>3, StepTidy
<1>3. FInv /\ NamesInv /\ TidyInv => NothingLeftBehind
  BY TidyImpliesNothingLeft
<1> QED
  BY <1>1, <1>2, <1>3, TasksStaySound, PTL DEF Spec

-----------------------------------------------------------------------------
(***************************************************************************)
(* What the sectors hold.  Byte p of a file is in the cluster at Place(p)  *)
(* of its chain.                                                           *)
(***************************************************************************)
Place(p)  == (p - 1) \div ClusterSize
Within(p) == ((p - 1) % ClusterSize) + 1
Byte(V, dt, r, p) == dt[Along(V, r)[Place(p)]][Within(p)]
Bytes(V, dt, e)   == [p \in 1..e.size |-> Byte(V, dt, e.start, p)]

\* The bytes of the file an operation is to write, and which of them it has written.
Given(o) == (\E S : o.bytes \in Seq(S)) /\ (o.kind # "stream" => o.offset = 0)
Span(o)  == (o.offset + 1)..(o.offset + Len(o.bytes))
NewWritten(o, V, dt) ==
  o.pc \in {"data", "dir"} =>
    \A p \in Span(o) : (o.pc = "dir" \/ ~(Place(p) + 1 >= o.i)) => Byte(V, dt, o.start, p) = o.bytes[p - o.offset]

\* A file whose content was known keeps it until its data are written; through a
\* node, outside what is written.
OldKept(o, d, V, dt, W) ==
  o.kind \in {"write", "stream"} /\ o.sure /\ o.pc # "idle" =>
    /\ W[o.name] = [p \in 1..d[o.slot].size |-> W[o.name][p]]
    /\ \A p \in 1..d[o.slot].size :
         (o.pc \notin {"data", "dir"} \/ (o.kind = "stream" /\ p \notin Span(o))) =>
           Byte(V, dt, d[o.slot].start, p) = W[o.name][p]

\* The size in the node of a file whose content is known.
Longer(x, y) == IF x > y THEN x ELSE y
NodeSized(o, n, d, K) ==
  /\ o.kind = "stream" /\ o.pc # "idle" /\ o.sure =>
       /\ o.offset <= d[o.slot].size
       /\ n.size = IF o.pc = "dir" THEN Longer(o.offset + Len(o.bytes), d[o.slot].size) ELSE d[o.slot].size
  /\ n.slot # 0 /\ d[n.slot].name \in K => n.size = d[n.slot].size

\* A file whose content is known holds it, along the driver's table and, but for
\* the entries in early, along the disk's.
KnownHeld(d, V, dt, K, W) ==
  /\ DOMAIN W = Names /\ DOMAIN dt = Clusters
  /\ \A s \in Slots : d[s].name \in K \cap FileNames => W[d[s].name] = Bytes(V, dt, d[s])
DiskFollows(d, V, T, S) == \A s \in Slots \ S : SameTo(V, T, d[s].start, Count(d[s].size))

Holds ==
  /\ KnownHeld(dir, View, data, known, want) /\ DiskFollows(dir, View, Table, early)
  /\ Given(op) /\ OldKept(op, dir, View, data, want) /\ NodeSized(op, node, dir, known) /\ NewWritten(op, View, data)
ContInv == ~lossy => Holds

\* The sectors of a file of m bytes are those of its bytes.
LEMMA PlaceBound ==
  ASSUME NEW m \in Nat, NEW p \in 1..m
  PROVE  Place(p) \in Nat /\ Place(p) < Count(m) /\ Within(p) \in 1..ClusterSize
<1>1. ClusterSize \in Nat /\ ClusterSize > 0
  BY FatAssumption
<1>2. PICK c \in Nat : c = ClusterSize /\ c > 0
  BY <1>1
<1>3. PICK q, r, Q, R : q = (p - 1) \div c /\ r = (p - 1) % c /\ Q = m \div c /\ R = m % c
  OBVIOUS
<1>4. q \in Nat /\ r \in Nat /\ r < c /\ p - 1 = c * q + r
  BY <1>2, <1>3
<1>5. Q \in Nat /\ R \in Nat /\ R < c /\ m = c * Q + R
  BY <1>2, <1>3
<1>6. \A a, b \in Nat : a < b => c * a + c <= c * b
  <2> SUFFICES ASSUME NEW a \in Nat, NEW b \in Nat, a < b PROVE c * a + c <= c * b
    OBVIOUS
  <2>1. PICK d \in Nat : b = a + 1 + d
    <3>1. b - a - 1 \in Nat /\ b = a + 1 + (b - a - 1)
      OBVIOUS
    <3> QED
      BY <3>1
  <2>2. c * b = c * a + c + c * d /\ c * d \in Nat
    BY <1>2, <2>1
  <2>3. c * a \in Nat
    BY <1>2
  <2> QED
    BY <1>2, <2>2, <2>3
<1>7. PICK x, y \in Nat : x = c * q /\ y = c * Q
  BY <1>2, <1>4, <1>5
<1>8. q <= Q
  <2> SUFFICES ASSUME Q < q PROVE FALSE
    BY <1>4, <1>5
  <2>1. y + c <= x
    BY <1>4, <1>5, <1>6, <1>7
  <2> QED
    BY <1>2, <1>4, <1>5, <1>7, <2>1
<1>9. R = 0 => q < Q
  <2> SUFFICES ASSUME R = 0, q = Q PROVE FALSE
    BY <1>4, <1>5, <1>8
  <2> QED
    BY <1>4, <1>5, <1>7
<1>10. Count(m) = IF R = 0 THEN Q ELSE Q + 1
  BY <1>2, <1>3 DEF Count, cluster_count_for_bytes
<1> QED
  BY <1>2, <1>3, <1>4, <1>5, <1>8, <1>9, <1>10 DEF Place, Within

\* Where a byte is, from its sector.
LEMMA PlaceOf ==
  ASSUME NEW p \in Nat, p > 0
  PROVE  Place(p) \in Nat /\ Within(p) \in 1..ClusterSize /\ Place(p) * ClusterSize + Within(p) = p
<1>1. ClusterSize \in Nat /\ ClusterSize > 0
  BY FatAssumption
<1>2. PICK c \in Nat : c = ClusterSize /\ c > 0
  BY <1>1
<1>3. PICK q, r : q = (p - 1) \div c /\ r = (p - 1) % c
  OBVIOUS
<1>4. q \in Nat /\ r \in Nat /\ r < c /\ p - 1 = c * q + r
  BY <1>2, <1>3
<1>5. q * c = c * q /\ c * q \in Nat
  BY <1>2, <1>4
<1> QED
  BY <1>2, <1>3, <1>4, <1>5 DEF Place, Within

\* A later byte is in the same sector or a later one.
LEMMA PlaceOrder ==
  ASSUME NEW p \in Nat, NEW o \in Nat, o < p
  PROVE  o \div ClusterSize <= Place(p) /\ o \div ClusterSize \in Nat
<1>1. ClusterSize \in Nat /\ ClusterSize > 0
  BY FatAssumption
<1>2. CASE o = 0
  BY <1>1, <1>2, PlaceOf
<1>3. CASE o > 0
  <2>1. PICK c \in Nat : c = ClusterSize /\ c > 0
    BY <1>1
  <2>2. PICK q, r, Q, R : q = o \div c /\ r = o % c /\ Q = (p - 1) \div c /\ R = (p - 1) % c
    OBVIOUS
  <2>3. q \in Nat /\ r \in Nat /\ r < c /\ o = c * q + r
    BY <2>1, <2>2
  <2>4. Q \in Nat /\ R \in Nat /\ R < c /\ p - 1 = c * Q + R
    BY <2>1, <2>2
  <2>5. q <= Q
    <3> SUFFICES ASSUME Q < q PROVE FALSE
      BY <2>3, <2>4
    <3>1. PICK d \in Nat : q = Q + 1 + d
      <4>1. q - Q - 1 \in Nat /\ q = Q + 1 + (q - Q - 1)
        BY <2>3, <2>4
      <4> QED
        BY <4>1
    <3>2. c * q = c * Q + c + c * d /\ c * d \in Nat /\ c * Q \in Nat
      BY <2>1, <2>4, <3>1
    <3> QED
      BY <2>1, <2>3, <2>4, <3>2
  <2> QED
    BY <2>1, <2>2, <2>3, <2>5 DEF Place
<1> QED
  BY <1>2, <1>3

\* Bytes are a function on their numbers.
LEMMA BytesOf ==
  ASSUME NEW b, \E S : b \in Seq(S)
  PROVE  Len(b) \in Nat /\ b = [p \in 1..Len(b) |-> b[p]]
  OBVIOUS

\* What an operation is given to write is a sequence.
LEMMA BytesGiven ==
  ASSUME NEW v, NEW n \in Nat
  PROVE  \E S : NewBytes(v, n) \in Seq(S)
<1> DEFINE S == {10 * v + i : i \in 1..n}
<1>1. NewBytes(v, n) \in [1..n -> S]
  BY DEF NewBytes
<1>2. NewBytes(v, n) \in Seq(S)
  BY <1>1
<1> QED
  BY <1>2

\* Where the first clusters are the same, the bytes are.
LEMMA BytesStay ==
  ASSUME NEW X, NEW Y, NEW r, NEW m \in Nat, SameTo(X, Y, r, Count(m)), NEW dt, NEW p \in 1..m
  PROVE  Byte(Y, dt, r, p) = Byte(X, dt, r, p)
<1>1. Place(p) \in Nat /\ Place(p) < Count(m)
  BY PlaceBound
<1>2. Place(p) \in 0..(Count(m) - 1)
  BY <1>1, CountType
<1>3. Along(Y, r)[Place(p)] = Along(X, r)[Place(p)]
  BY <1>2 DEF SameTo
<1> QED
  BY <1>3 DEF Byte

\* A byte of a file is in a cluster of its chain.
LEMMA InFile ==
  ASSUME FInv, LongEnoughAll, NEW s \in Slots, NEW p \in 1..dir[s].size
  PROVE  /\ Along(View, dir[s].start)[Place(p)] \in Clusters /\ Place(p) \in Nat
         /\ dir[s].start # 0 /\ Root(dir[s].start, View) /\ Apart(dir[s].start, s, dir)
<1>1. PICK V, r, m : V = View /\ r = dir[s].start /\ m = dir[s].size
  OBVIOUS
<1>2. m \in Nat /\ p \in 1..m
  BY <1>1 DEF FInv, SizeSound
<1>3. Place(p) \in Nat /\ Place(p) < Count(m) /\ Count(m) \in Nat
  BY <1>2, PlaceBound, CountType
<1>4. Long(V, r, Count(m))
  BY <1>1 DEF LongEnoughAll, DirLong
<1>5. V \in [Entries -> Value] /\ r \in Value
  BY <1>1, StartsTyped DEF FInv, Linear
<1>6. r \in Clusters
  <2>1. PICK k \in Nat : k = Count(m) /\ k > 0
    BY <1>3
  <2> QED
    BY <1>4, <1>5, <2>1, ChainStarts
<1>7. Along(V, r)[Place(p)] \in Clusters
  <2>1. Place(p) \in 0..(Count(m) - 1)
    BY <1>3
  <2> QED
    BY <1>4, <2>1 DEF Long
<1>8. r # 0
  BY <1>6, Numbers
<1> QED
  BY <1>1, <1>3, <1>7, <1>8 DEF FInv, DirSound

\* An operation that has returned has nothing to write.
LEMMA IdleHolds ==
  ASSUME NEW d, NEW V, NEW dt, NEW W
  PROVE  Given(Idle) /\ OldKept(Idle, d, V, dt, W) /\ NewWritten(Idle, V, dt)
<1>1. Idle.bytes \in Seq({})
  BY IdleFields
<1> QED
  BY <1>1, IdleFields DEF Given, OldKept, NewWritten

\* A new volume: no content is known.
LEMMA InitHolds == Init => ContInv
<1> SUFFICES ASSUME Init PROVE Holds
  BY DEF ContInv
<1>1. op = Idle /\ known = {} /\ View = Table /\ node.slot = 0 /\ DOMAIN want = Names /\ DOMAIN data = Clusters
  BY DEF Init, View, EmptyCache
<1>2. KnownHeld(dir, View, data, known, want) /\ DiskFollows(dir, View, Table, early)
  BY <1>1 DEF KnownHeld, DiskFollows, SameTo
<1>3. NodeSized(op, node, dir, known)
  BY <1>1, IdleFields DEF NodeSized
<1> QED
  BY <1>1, <1>2, <1>3, IdleHolds DEF Holds

\* The operation goes on with nothing written.
SameFacts(o, p) ==
  p.kind = o.kind /\ p.slot = o.slot /\ p.name = o.name /\ p.sure = o.sure /\ p.bytes = o.bytes /\ p.offset = o.offset

\* Then what the sectors hold is not disturbed.
LEMMA HoldsGoesOn ==
  ASSUME Holds, op.pc # "idle", UNCHANGED <<dir, data, want, known>>, View' = View,
         DiskFollows(dir, View, Table', early'), SameFacts(op, op'),
         node'.slot = node.slot, node'.size = node.size,
         op.pc \in {"data", "dir"} => op'.pc \in {"data", "dir"},
         op.kind = "stream" => (op'.pc = "dir" <=> op.pc = "dir"),
         NewWritten(op', View, data)
  PROVE  Holds'
<1>1. KnownHeld(dir', View', data', known', want')
  BY DEF Holds, KnownHeld
<1>2. Given(op')
  BY DEF Holds, Given, SameFacts
<1>3. OldKept(op', dir', View', data', want')
  BY DEF Holds, OldKept, SameFacts, Span
<1>4. NodeSized(op', node', dir', known')
  BY DEF Holds, NodeSized, SameFacts
<1> QED
  BY <1>1, <1>2, <1>3, <1>4 DEF Holds

\* The operation returns nil.
LEMMA HoldsReturns ==
  ASSUME FInv, NamesInv, Holds, UNCHANGED <<dir, data, want, early>>, View' = View, Table' = Table, op' = Idle,
         node'.slot = node.slot, node'.size = node.size,
         \/ known' = known
         \/ Untouched /\ op.pc \notin {"idle", "data", "dir", "read", "walk"}
  PROVE  Holds'
<1>1. DiskFollows(dir', View', Table', early')
  BY DEF Holds
<1>2. ASSUME NEW s \in Slots, dir[s].name \in known' \cap FileNames PROVE want[dir[s].name] = Bytes(View, data, dir[s])
  <2>1. CASE dir[s].name \in known
    BY <1>2, <2>1 DEF Holds, KnownHeld
  <2>2. CASE dir[s].name \notin known
    <3>1. /\ Untouched /\ op.sure /\ dir[s].name = op.name /\ op.pc \notin {"idle", "data", "dir", "read", "walk"}
      BY <1>2, <2>2 DEF Untouched
    <3>2. OpNamed(op, node, dir) /\ DirNamed(dir)
      BY DEF NamesInv
    <3>3. op.kind \in {"write", "stream"} /\ op.slot \in Slots /\ dir[op.slot].name = op.name
      BY <1>2, <3>1, <3>2, FatAssumption DEF OpNamed, MakesEntry
    <3>4. s = op.slot
      <4>1. op.name # NoName
        BY <1>2, <3>1, SlotNumbers
      <4> QED
        BY <3>1, <3>2, <3>3, <4>1 DEF DirNamed
    <3>5. /\ want[op.name] = [p \in 1..dir[s].size |-> want[op.name][p]]
          /\ \A p \in 1..dir[s].size : Byte(View, data, dir[s].start, p) = want[op.name][p]
      BY <3>1, <3>3, <3>4 DEF Holds, OldKept
    <3>6. [p \in 1..dir[s].size |-> want[op.name][p]] = [p \in 1..dir[s].size |-> Byte(View, data, dir[s].start, p)]
      BY <3>5
    <3> QED
      BY <3>1, <3>5, <3>6 DEF Bytes
  <2> QED
    BY <2>1, <2>2
<1>3. KnownHeld(dir', View', data', known', want')
  BY <1>2 DEF Holds, KnownHeld
<1>4. ASSUME node.slot # 0, dir[node.slot].name \in known' PROVE node.size = dir[node.slot].size
  <2>1. CASE dir[node.slot].name \in known
    BY <1>4, <2>1 DEF Holds, NodeSized
  <2>2. CASE dir[node.slot].name \notin known
    <3>1. /\ Untouched /\ op.sure /\ dir[node.slot].name = op.name /\ op.pc \notin {"idle", "data", "dir", "read", "walk"}
      BY <1>4, <2>2 DEF Untouched
    <3>2. OpNamed(op, node, dir) /\ DirNamed(dir) /\ NodeNamed(node, dir)
      BY DEF NamesInv
    <3>3. node.slot \in Slots /\ op.name \in FileNames /\ op.name # NoName
      BY <1>4, <3>1, <3>2, SlotNumbers DEF NodeNamed
    <3>4. op.kind \in {"write", "stream"} /\ op.slot \in Slots /\ dir[op.slot].name = op.name
      BY <3>1, <3>2, <3>3, FatAssumption DEF OpNamed, MakesEntry
    <3>5. node.slot = op.slot
      BY <3>1, <3>2, <3>3, <3>4 DEF DirNamed
    <3>6. op.kind = "stream"
      BY <3>1, <3>2, <3>4, <3>5 DEF OpNamed
    <3> QED
      BY <3>1, <3>5, <3>6 DEF Holds, NodeSized
  <2> QED
    BY <2>1, <2>2
<1>5. NodeSized(op', node', dir', known')
  BY <1>4, IdleFields DEF NodeSized
<1> QED
  BY <1>1, <1>3, <1>5, IdleHolds DEF Holds

\* An operation as it was given, but for what is known of its file.
SameTask(p, o) ==
  /\ p.pc = o.pc /\ p.kind = o.kind /\ p.slot = o.slot /\ p.name = o.name /\ p.bytes = o.bytes
  /\ p.offset = o.offset

\* An operation begins: its file's content is open, and kept for the time being.
LEMMA HoldsBegin ==
  ASSUME FInv, NamesInv, Holds, NEW o, Begin(o), DOMAIN o = DOMAIN Idle, Given(o),
         o.pc # "data", o.pc = "dir" => o.kind # "stream" /\ Span(o) = {},
         o.kind \in {"write", "stream"} => o.slot \in Slots /\ o.name \in FileNames /\ dir[o.slot].name = o.name,
         o.kind = "stream" => o.slot = node.slot /\ node.slot # 0 /\ o.offset \in {0, node.size}
  PROVE  Holds'
<1>1. /\ UNCHANGED <<dir, data, fats, cache, node, want, early>>
      /\ op' = [o EXCEPT !.sure = o.name \in known]
      /\ known' = IF o.kind = "read" THEN known ELSE known \ {o.name}
  BY DEF Begin, disk
<1>2. View' = View /\ Table' = Table
  BY <1>1 DEF View, Table
<1>3. SameTask(op', o)
  BY <1>1 DEF SameTask, Idle
<1>4. op'.sure => o.name \in known
  BY <1>1 DEF Idle
<1>5. KnownHeld(dir', View', data', known', want')
  BY <1>1, <1>2 DEF Holds, KnownHeld
<1>6. DiskFollows(dir', View', Table', early')
  BY <1>1, <1>2 DEF Holds
<1>7. Given(op')
  BY <1>3 DEF Given, SameTask
<1>8. NewWritten(op', View', data')
  <2> SUFFICES ASSUME op'.pc = "dir" PROVE Span(op') = {}
    BY <1>3 DEF NewWritten, SameTask
  <2> QED
    BY <1>3 DEF SameTask, Span
<1>9. OldKept(op', dir', View', data', want')
  <2> SUFFICES ASSUME op'.kind \in {"write", "stream"}, op'.sure
               PROVE  /\ want[op'.name] = [p \in 1..dir[op'.slot].size |-> want[op'.name][p]]
                      /\ \A p \in 1..dir[op'.slot].size :
                           Byte(View, data, dir[op'.slot].start, p) = want[op'.name][p]
    BY <1>1, <1>2 DEF OldKept
  <2>1. PICK s : s = op'.slot
    OBVIOUS
  <2>2. s \in Slots /\ dir[s].name = op'.name /\ op'.name \in known \cap FileNames
    BY <1>3, <1>4, <2>1 DEF SameTask
  <2>3. want[op'.name] = Bytes(View, data, dir[s])
    BY <2>2 DEF Holds, KnownHeld
  <2>4. want[op'.name] = [p \in 1..dir[s].size |-> Byte(View, data, dir[s].start, p)]
    BY <2>3 DEF Bytes
  <2>5. PICK w, m, r : w = want[op'.name] /\ m = dir[s].size /\ r = dir[s].start
    OBVIOUS
  <2>6. w = [p \in 1..m |-> Byte(View, data, r, p)]
    BY <2>4, <2>5
  <2>7. \A p \in 1..m : w[p] = Byte(View, data, r, p)
    BY <2>6
  <2>8. w = [p \in 1..m |-> w[p]]
    BY <2>6
  <2> QED
    BY <2>1, <2>5, <2>7, <2>8
<1>10. NodeSized(op', node', dir', known')
  <2>1. ASSUME node.slot # 0, dir[node.slot].name \in known PROVE node.size = dir[node.slot].size
    BY <2>1 DEF Holds, NodeSized
  <2>2. node.slot # 0 /\ dir[node.slot].name \in known' => node.size = dir[node.slot].size
    BY <1>1, <2>1
  <2>3. ASSUME op'.kind = "stream", op'.sure
        PROVE  op'.offset <= dir[op'.slot].size /\ node.size = dir[op'.slot].size /\ op'.pc # "dir"
    <3>1. op'.slot = node.slot /\ node.slot # 0 /\ dir[node.slot].name \in known /\ op'.offset \in {0, node.size}
          /\ op'.pc # "dir"
      BY <1>3, <1>4, <2>3 DEF SameTask
    <3>2. node.size = dir[node.slot].size /\ node.size \in Nat
      BY <2>1, <3>1 DEF FInv, SizeSound
    <3> QED
      BY <3>1, <3>2
  <2> QED
    BY <1>1, <2>2, <2>3 DEF NodeSized
<1> QED
  BY <1>5, <1>6, <1>7, <1>8, <1>9, <1>10 DEF Holds

\* Every operation that can begin does so.
LEMMA HoldsBegins ==
  ASSUME FInv, NamesInv, Holds,
         \/ \E f \in FileNames, n \in Lengths : fat16_create_file(f, n) \/ fat16_write_file(f, n)
         \/ \E d \in DirNames : fat16_create_directory(d)
         \/ \E f \in FileNames : fat16_read_file(f)
         \/ \E offset \in {0, node.size}, n \in Lengths : fat16_write_into(offset, n)
  PROVE  Holds'
<1>0. <<>> \in Seq({})
  OBVIOUS
<1>1. ASSUME NEW f \in FileNames, NEW n \in Lengths, fat16_create_file(f, n) PROVE Holds'
  <2>0. n \in Nat
    BY FatAssumption
  <2>1. PICK b : b = NewBytes(ops, n)
    OBVIOUS
  <2> DEFINE o == [Idle EXCEPT !.kind = "create", !.name = f, !.slot = FirstFree,
                        !.bytes = b, !.required = cluster_count_for_bytes(n),
                        !.pc = IF n = 0 THEN "dir" ELSE "alloc"]
  <2>2. Begin(o)
    BY <1>1, <2>1 DEF fat16_create_file
  <2>3. /\ DOMAIN o = DOMAIN Idle /\ o.kind = "create" /\ o.bytes = b /\ o.offset = 0 /\ o.pc \in {"dir", "alloc"}
        /\ (o.pc = "dir" => n = 0)
    BY DEF Idle
  <2>4. Len(b) = n /\ \E S : b \in Seq(S)
    BY <2>0, <2>1, BytesWritten, BytesGiven
  <2> HIDE DEF o
  <2>5. Given(o)
    BY <2>3, <2>4 DEF Given
  <2>6. o.pc = "dir" => Span(o) = {}
    BY <2>3, <2>4 DEF Span
  <2> QED
    BY <2>2, <2>3, <2>5, <2>6, HoldsBegin
<1>2. ASSUME NEW f \in FileNames, NEW n \in Lengths, fat16_write_file(f, n) PROVE Holds'
  <2>0. n \in Nat
    BY FatAssumption
  <2>1. PICK b, s : b = NewBytes(ops, n) /\ s = SlotOf(f)
    OBVIOUS
  <2> DEFINE o == [Idle EXCEPT !.kind = "write", !.name = f, !.slot = s,
                            !.bytes = b, !.required = cluster_count_for_bytes(n),
                            !.start = dir[s].start, !.from = dir[s].start,
                            !.pc = IF dir[s].start = 0 THEN "compare" ELSE "count"]
  <2>2. Begin(o) /\ SlotsOf(f) # {}
    BY <1>2, <2>1 DEF fat16_write_file
  <2>3. /\ DOMAIN o = DOMAIN Idle /\ o.kind = "write" /\ o.bytes = b /\ o.offset = 0 /\ o.pc \in {"compare", "count"}
        /\ o.slot = s /\ o.name = f
    BY DEF Idle
  <2>4. \E S : b \in Seq(S)
    BY <2>0, <2>1, BytesGiven
  <2>5. s \in Slots /\ dir[s].name = f
    BY <2>1, <2>2, NamedSlot
  <2> HIDE DEF o
  <2>6. Given(o)
    BY <2>3, <2>4 DEF Given
  <2> QED
    BY <2>2, <2>3, <2>5, <2>6, HoldsBegin
<1>3. ASSUME NEW d \in DirNames, fat16_create_directory(d) PROVE Holds'
  <2> DEFINE o == [Idle EXCEPT !.kind = "mkdir", !.name = d, !.slot = FirstFree,
                        !.required = 1, !.pc = "alloc"]
  <2>1. Begin(o) /\ DOMAIN o = DOMAIN Idle /\ o.kind = "mkdir" /\ o.bytes = <<>> /\ o.offset = 0 /\ o.pc = "alloc"
    BY <1>3 DEF fat16_create_directory, Idle
  <2> HIDE DEF o
  <2>2. Given(o)
    BY <1>0, <2>1 DEF Given
  <2> QED
    BY <2>1, <2>2, HoldsBegin
<1>4. ASSUME NEW f \in FileNames, fat16_read_file(f) PROVE Holds'
  <2> DEFINE o == [Idle EXCEPT !.kind = "read", !.name = f, !.slot = SlotOf(f),
                        !.from = dir[SlotOf(f)].start, !.pc = "walk"]
  <2>1. Begin(o) /\ DOMAIN o = DOMAIN Idle /\ o.kind = "read" /\ o.bytes = <<>> /\ o.offset = 0 /\ o.pc = "walk"
    BY <1>4 DEF fat16_read_file, Idle
  <2> HIDE DEF o
  <2>2. Given(o)
    BY <1>0, <2>1 DEF Given
  <2> QED
    BY <2>1, <2>2, HoldsBegin
<1>5. ASSUME NEW offset \in {0, node.size}, NEW n \in Lengths, fat16_write_into(offset, n) PROVE Holds'
  <2>0. n \in Nat
    BY FatAssumption
  <2>1. PICK b, s : b = NewBytes(ops, n) /\ s = node.slot
    OBVIOUS
  <2> DEFINE o == [Idle EXCEPT !.kind = "stream", !.name = dir[s].name, !.slot = s,
                        !.bytes = b, !.offset = offset,
                        !.required = cluster_count_for_bytes(offset + n),
                        !.start = node.start, !.from = node.start,
                        !.pc = IF node.start = 0 THEN "compare" ELSE "count"]
  <2>2. Begin(o) /\ s # 0
    BY <1>5, <2>1 DEF fat16_write_into
  <2>3. /\ DOMAIN o = DOMAIN Idle /\ o.kind = "stream" /\ o.bytes = b /\ o.offset = offset
        /\ o.pc \in {"compare", "count"} /\ o.slot = s /\ o.name = dir[s].name
    BY DEF Idle
  <2>4. \E S : b \in Seq(S)
    BY <2>0, <2>1, BytesGiven
  <2>5. s \in Slots /\ dir[s].name \in FileNames
    BY <2>1, <2>2 DEF NamesInv, NodeNamed
  <2> HIDE DEF o
  <2>6. Given(o)
    BY <2>3, <2>4 DEF Given
  <2> QED
    BY <2>1, <2>2, <2>3, <2>5, <2>6, HoldsBegin
<1> QED
  BY <1>1, <1>2, <1>3, <1>4, <1>5

\* A node gets the size in the directory; a restart finds the disk's table.
LEMMA HoldsRest ==
  ASSUME FInv, LongEnoughAll, Holds, CloseNode \/ Restart \/ \E f \in FileNames : fat16_resolve_node(f), ~lossy'
  PROVE  Holds'
<1>1. /\ UNCHANGED <<dir, data, fats, known, want>> /\ op' = Idle
      /\ node'.slot # 0 => node'.size = dir[node'.slot].size
  BY DEF CloseNode, Restart, fat16_resolve_node, At, disk, book, FInv, Shape
<1>2. NodeSized(op', node', dir', known')
  BY <1>1, IdleFields DEF NodeSized
<1>3. CASE ~Restart
  <2>1. UNCHANGED <<cache, early>>
    BY <1>3 DEF CloseNode, fat16_resolve_node, book
  <2>2. View' = View /\ Table' = Table
    BY <1>1, <2>1 DEF View, Table
  <2> QED
    BY <1>1, <1>2, <2>1, <2>2, IdleHolds DEF Holds
<1>4. CASE Restart
  <2>1. cache' = EmptyCache /\ early = {} /\ early' = {}
    BY <1>4 DEF Restart
  <2>2. View' = Table /\ Table' = Table
    BY <1>1, <2>1 DEF View, Table, EmptyCache
  <2>3. DiskFollows(dir', View', Table', early')
    BY <2>2 DEF DiskFollows, SameTo
  <2>4. ASSUME NEW s \in Slots, dir[s].name \in known \cap FileNames PROVE want[dir[s].name] = Bytes(Table, data, dir[s])
    <3>1. want[dir[s].name] = Bytes(View, data, dir[s])
      BY <2>4 DEF Holds, KnownHeld
    <3>2. PICK m, r, V, T : m = dir[s].size /\ r = dir[s].start /\ V = View /\ T = Table
      OBVIOUS
    <3>3. m \in Nat /\ SameTo(V, T, r, Count(m))
      BY <2>1, <3>2 DEF Holds, DiskFollows, FInv, SizeSound
    <3>4. \A p \in 1..m : Byte(T, data, r, p) = Byte(V, data, r, p)
      BY <3>3, BytesStay
    <3>5. [p \in 1..m |-> Byte(T, data, r, p)] = [p \in 1..m |-> Byte(V, data, r, p)]
      BY <3>4
    <3> QED
      BY <3>1, <3>2, <3>5 DEF Bytes
  <2>5. KnownHeld(dir', View', data', known', want')
    BY <1>1, <2>2, <2>4 DEF Holds, KnownHeld
  <2> QED
    BY <1>1, <1>2, <2>3, <2>5, IdleHolds DEF Holds
<1> QED
  BY <1>3, <1>4

\* An entry that ends a chain, or a free one, is changed: every file keeps its bytes.
LEMMA HoldsTable ==
  ASSUME FInv, LongEnoughAll, NamesInv, Holds, UNCHANGED <<fats, dir, data, want, known, early, node>>,
         NEW c, NEW t \in Value, cache.lba = Sector(c), set_fat_entry(c, t), View[c] \notin Clusters,
         op.pc \in {"alloc", "link", "attach"}, op'.pc \in {"alloc", "link", "flush"}, SameFacts(op, op')
  PROVE  Holds'
<1>1. Table' = Table /\ View' = [View EXCEPT ![c] = t]
  BY SetEntry
<1>2. PICK X, Y : X = View /\ Y = View'
  OBVIOUS
<1>3. X \in [Entries -> Value] /\ Y \in [Entries -> Value] /\ X[c] \notin Clusters /\ Y = [X EXCEPT ![c] = t]
  BY <1>1, <1>2 DEF FInv, Linear
<1>4. ASSUME NEW s \in Slots
      PROVE  /\ SameTo(X, Y, dir[s].start, Count(dir[s].size))
             /\ \A p \in 1..dir[s].size : Byte(Y, data, dir[s].start, p) = Byte(X, data, dir[s].start, p)
  <2>1. PICK r \in Value, m \in Nat : r = dir[s].start /\ m = dir[s].size
    BY StartsTyped DEF FInv, SizeSound
  <2>2. Count(m) \in Nat /\ Long(X, r, Count(m))
    BY <1>2, <2>1, CountType DEF LongEnoughAll, DirLong
  <2>3. SameTo(X, Y, r, Count(m))
    <3>1. PICK k \in Nat : k = Count(m)
      BY <2>2
    <3> QED
      BY <1>3, <2>2, <3>1, LongKept
  <2>4. \A p \in 1..m : Byte(Y, data, r, p) = Byte(X, data, r, p)
    BY <2>3, BytesStay
  <2> QED
    BY <2>1, <2>3, <2>4
<1>5. KnownHeld(dir', View', data', known', want')
  <2> SUFFICES ASSUME NEW s \in Slots, dir[s].name \in known \cap FileNames PROVE want[dir[s].name] = Bytes(Y, data, dir[s])
    BY <1>2 DEF Holds, KnownHeld
  <2>1. want[dir[s].name] = Bytes(X, data, dir[s])
    BY <1>2 DEF Holds, KnownHeld
  <2>2. PICK m, r : m = dir[s].size /\ r = dir[s].start
    OBVIOUS
  <2>3. \A p \in 1..m : Byte(Y, data, r, p) = Byte(X, data, r, p)
    BY <1>4, <2>2
  <2>4. [p \in 1..m |-> Byte(Y, data, r, p)] = [p \in 1..m |-> Byte(X, data, r, p)]
    BY <2>3
  <2> QED
    BY <2>1, <2>2, <2>4 DEF Bytes
<1>6. DiskFollows(dir', View', Table', early')
  <2> SUFFICES ASSUME NEW s \in Slots \ early PROVE SameTo(Y, Table, dir[s].start, Count(dir[s].size))
    BY <1>1, <1>2 DEF DiskFollows
  <2>1. SameTo(X, Table, dir[s].start, Count(dir[s].size))
    BY <1>2 DEF Holds, DiskFollows
  <2>2. SameTo(X, Y, dir[s].start, Count(dir[s].size))
    BY <1>4
  <2> QED
    BY <2>1, <2>2 DEF SameTo
<1>7. Given(op')
  BY DEF Holds, Given, SameFacts
<1>8. OldKept(op', dir', View', data', want')
  <2> SUFFICES ASSUME op.kind \in {"write", "stream"}, op.sure
               PROVE  /\ want[op.name] = [p \in 1..dir[op.slot].size |-> want[op.name][p]]
                      /\ \A p \in 1..dir[op.slot].size : Byte(Y, data, dir[op.slot].start, p) = want[op.name][p]
    BY <1>2 DEF OldKept, SameFacts
  <2>1. /\ want[op.name] = [p \in 1..dir[op.slot].size |-> want[op.name][p]]
        /\ \A p \in 1..dir[op.slot].size : Byte(X, data, dir[op.slot].start, p) = want[op.name][p]
    BY <1>2 DEF Holds, OldKept
  <2>2. op.slot \in Slots
    BY DEF NamesInv, OpNamed
  <2> QED
    BY <1>4, <2>1, <2>2
<1>9. NodeSized(op', node', dir', known')
  BY DEF Holds, NodeSized, SameFacts
<1>10. NewWritten(op', View', data')
  BY DEF NewWritten
<1> QED
  BY <1>5, <1>6, <1>7, <1>8, <1>9, <1>10 DEF Holds

\* A cluster is taken or passed over.
LEMMA HoldsTake ==
  ASSUME FInv, LongEnoughAll, NamesInv, Holds, allocate_clusters
  PROVE  Holds'
<1>1. /\ op.pc = "alloc" /\ Ready /\ UNCHANGED <<fats, data, dir, want, known, early, node>>
      /\ DOMAIN op = DOMAIN Idle /\ Wanted # NoEntry
  BY DEF allocate_clusters, disk, book, At, FInv, Shape, Ready
<1>2. op.from \in Clusters /\ cache.lba = Sector(op.from)
  BY <1>1 DEF Ready, Wanted, Touched, At, NoEntry, Walking
<1>3. CASE fat_entry(op.from) # 0
  <2>1. op' = PassedOver /\ UNCHANGED cache
    BY <1>3 DEF allocate_clusters
  <2>2. op'.pc = "alloc" /\ SameFacts(op, op')
    BY <1>1, <2>1 DEF PassedOver, Idle, SameFacts
  <2>3. View' = View /\ Table' = Table
    BY <1>1, <2>1 DEF View, Table
  <2>4. NewWritten(op', View, data)
    BY <2>2 DEF NewWritten
  <2>5. DiskFollows(dir, View, Table', early')
    BY <1>1, <2>3 DEF Holds
  <2> QED
    BY <1>1, <2>2, <2>3, <2>4, <2>5, HoldsGoesOn
<1>4. CASE fat_entry(op.from) = 0
  <2>1. op' = Taken /\ set_fat_entry(op.from, EndMark)
    BY <1>4 DEF allocate_clusters
  <2>2. op'.pc \in {"alloc", "link"} /\ SameFacts(op, op')
    BY <1>1, <2>1 DEF Taken, Idle, SameFacts
  <2>3. PICK f : f = op.from
    OBVIOUS
  <2>4. f \in Clusters /\ cache.lba = Sector(f) /\ f \in Entries
    BY <1>2, <2>3, Numbers
  <2>5. fat_entry(f) = View[f]
    BY <2>4, EntryRead DEF LongEnoughAll
  <2>6. View[f] \notin Clusters /\ EndMark \in Value /\ set_fat_entry(f, EndMark)
    BY <1>4, <2>1, <2>3, <2>5, Numbers DEF Value
  <2> QED
    BY <1>1, <2>2, <2>4, <2>6, HoldsTable
<1> QED
  BY <1>3, <1>4

\* A new cluster is linked to the next one.
LEMMA HoldsLink ==
  ASSUME FInv, LongEnoughAll, NamesInv, Holds, link_clusters
  PROVE  Holds'
<1>1. /\ op.pc = "link" /\ op.i < Len(op.new) /\ Ready /\ UNCHANGED <<fats, data, dir, want, known, early, node>>
      /\ DOMAIN op = DOMAIN Idle
  BY DEF link_clusters, disk, book, At, FInv, Shape
<1>2. Taking(op, node, dir, View)
  BY <1>1 DEF FInv, OpSound, NewSound
<1>3. op.new \in Seq(Clusters) /\ op.i \in Nat \ {0}
  BY <1>1, <1>2 DEF Taking, Collecting
<1>4. PICK c, t : c = op.new[op.i] /\ t = op.new[op.i + 1]
  OBVIOUS
<1>5. c \in Clusters /\ t \in Clusters /\ t \in Value /\ op.i \in 1..Len(op.new)
  BY <1>1, <1>3, <1>4 DEF Value
<1>6. cache.lba = Sector(c)
  BY <1>1, <1>4 DEF Ready, Wanted, Touched, At, Walking
<1>7. cache.bytes # <<>>
  BY <1>5, <1>6, Numbers DEF LongEnoughAll, Readable
<1>8. set_fat_entry(c, t) /\ op' = [op EXCEPT !.i = @ + 1]
  BY <1>4, <1>7 DEF link_clusters
<1>9. op'.pc = "link" /\ SameFacts(op, op')
  BY <1>1, <1>8 DEF Idle, SameFacts
<1>10. View[c] = EndMark
  <2>1. \A j \in 1..Len(op.new) : View[op.new[j]] = IF j < op.i THEN op.new[j + 1] ELSE EndMark
    BY <1>1 DEF LongEnoughAll, OpLong, Extending, Collecting, LinkedTo
  <2> QED
    BY <1>3, <1>4, <1>5, <2>1
<1> QED
  BY <1>1, <1>5, <1>6, <1>8, <1>9, <1>10, HoldsTable, Numbers

\* The old chain gets the new clusters.
LEMMA HoldsAttach ==
  ASSUME FInv, LongEnoughAll, NamesInv, Holds, AttachToOld
  PROVE  Holds'
<1>1. /\ op.pc = "attach" /\ Ready /\ UNCHANGED <<fats, data, dir, want, known, early, node>>
      /\ DOMAIN op = DOMAIN Idle
  BY DEF AttachToOld, disk, book, At, FInv, Shape
<1>2. PICK c, t : c = op.chain[Len(op.chain)] /\ t = op.new[1]
  OBVIOUS
<1>3. c \in Clusters /\ View[c] = EndMark
  <2>1. OpLong(op, node, View)
    BY DEF LongEnoughAll
  <2>2. op.chain \in Seq(Clusters) /\ Len(op.chain) > 0 /\ View[c] = EndMark
    BY <1>1, <1>2, <2>1 DEF OpLong, Walked, Prefix, Extending, Collecting
  <2> QED
    BY <1>2, <2>2
<1>4. cache.lba = Sector(c)
  BY <1>1, <1>2 DEF Ready, Wanted, Touched, At, Walking
<1>5. cache.bytes # <<>>
  BY <1>3, <1>4, Numbers DEF LongEnoughAll, Readable
<1>6. set_fat_entry(c, t) /\ op' = [op EXCEPT !.pc = "flush", !.chain = <<>>]
  BY <1>2, <1>5 DEF AttachToOld
<1>7. op'.pc = "flush" /\ SameFacts(op, op')
  BY <1>1, <1>6 DEF Idle, SameFacts
<1>8. t \in Value
  BY <1>1, <1>2 DEF FInv, OpSound, NewSound, Taking, Collecting, Value
<1> QED
  BY <1>1, <1>3, <1>4, <1>6, <1>7, <1>8, HoldsTable, Numbers

\* An operation that looks at an entry has not come to its data.
LEMMA EntryWanted ==
  ASSUME Wanted # NoEntry
  PROVE  op.pc \in {"count", "tail", "walk", "alloc", "link", "attach"}
  BY DEF Wanted, Touched, Walking, At, NoEntry

\* Before the first sector nothing is written yet.
LEMMA NothingWritten ==
  ASSUME FInv, NEW o, o.offset = op.offset, o.bytes = op.bytes, o.pc # "dir", o.i = 1, NEW V, NEW dt
  PROVE  NewWritten(o, V, dt)
<1> SUFFICES ASSUME NEW p \in Span(o) PROVE Place(p) + 1 >= o.i
  BY DEF NewWritten
<1>1. op.offset \in Nat /\ Len(op.bytes) \in Nat
  BY DEF FInv, SizeSound
<1>2. p \in Nat /\ p > 0
  BY <1>1 DEF Span
<1>3. Place(p) \in Nat
  BY <1>2, PlaceOf
<1> QED
  BY <1>3

\* The table is written or read.
LEMMA HoldsTransfer ==
  ASSUME FInv, Holds, flush_fat_cache \/ fat_sector_bytes, ~lossy'
  PROVE  Holds'
<1>1. DOMAIN op = DOMAIN Idle
  BY DEF FInv, Shape
<1>2. CASE flush_fat_cache
  <2>1. UNCHANGED <<dir, data, want, known, node>> /\ FlushDue /\ \E c : op' = [op EXCEPT !.copy = c]
    BY <1>2 DEF flush_fat_cache
  <2>2. op.pc \in {"count", "tail", "walk", "alloc", "link", "attach", "flush"}
    BY <2>1, EntryWanted DEF FlushDue, Absent, At
  <2>3. op'.pc = op.pc /\ SameFacts(op, op')
    BY <1>1, <2>1 DEF Idle, SameFacts
  <2>4. View' = View /\ Table' = View
    BY <1>2, FlushViews
  <2>5. DiskFollows(dir, View, Table', early')
    BY <2>4 DEF DiskFollows, SameTo
  <2>6. NewWritten(op', View, data)
    BY <2>2, <2>3 DEF NewWritten
  <2> QED
    BY <2>1, <2>2, <2>3, <2>4, <2>5, <2>6, HoldsGoesOn
<1>3. CASE fat_sector_bytes
  <2>1. UNCHANGED <<fats, dir, data, want, known, early, node, op>> /\ Absent
    BY <1>3 DEF fat_sector_bytes, disk
  <2>2. op.pc \in {"count", "tail", "walk", "alloc", "link", "attach"}
    BY <2>1, EntryWanted DEF Absent
  <2>3. View' = View /\ Table' = Table
    BY <1>3 DEF fat_sector_bytes, FlushDue, disk, View, Table, FInv, CacheSound
  <2>4. DiskFollows(dir, View, Table', early') /\ NewWritten(op', View, data) /\ SameFacts(op, op')
    BY <2>1, <2>3 DEF Holds, SameFacts
  <2> QED
    BY <2>1, <2>2, <2>3, <2>4, HoldsGoesOn
<1> QED
  BY <1>2, <1>3

\* A chain is followed.
LEMMA HoldsWalk ==
  ASSUME FInv, Holds, cluster_chain
  PROVE  Holds'
<1>1. /\ Walking /\ UNCHANGED <<fats, cache, dir, data, want, known, early, node>> /\ DOMAIN op = DOMAIN Idle
      /\ op' = Walk(fat_entry(op.from))
  BY DEF cluster_chain, disk, book, FInv, Shape
<1>2. View' = View /\ Table' = Table
  BY <1>1 DEF View, Table
<1>3. op.pc \in {"count", "tail", "walk"}
  BY <1>1 DEF Walking
<1>4. PICK q, e : q = Append(op.chain, op.from) /\ e = fat_entry(op.from)
  OBVIOUS
<1>5. \/ op' = [op EXCEPT !.chain = q, !.pc = AfterWalk, !.i = 1]
      \/ op' = [op EXCEPT !.chain = q, !.from = e]
  BY <1>1, <1>4 DEF Walk
<1>6. SameFacts(op, op') /\ ((op'.pc = AfterWalk /\ op'.i = 1) \/ op'.pc = op.pc)
  BY <1>1, <1>5 DEF Idle, SameFacts
<1>7. AfterWalk \notin {"dir", "idle"}
  BY <1>3 DEF AfterWalk, At
<1>8. NewWritten(op', View, data)
  <2>1. CASE op'.pc = op.pc
    BY <1>3, <2>1 DEF NewWritten
  <2>2. CASE op'.pc = AfterWalk /\ op'.i = 1
    BY <1>6, <1>7, <2>2, NothingWritten DEF SameFacts
  <2> QED
    BY <1>6, <2>1, <2>2
<1>9. DiskFollows(dir, View, Table', early')
  BY <1>1, <1>2 DEF Holds
<1> QED
  BY <1>1, <1>2, <1>3, <1>6, <1>7, <1>8, <1>9, HoldsGoesOn

\* The number of clusters decides.
LEMMA HoldsCompare ==
  ASSUME FInv, LongEnoughAll, NamesInv, TaskSound(op, node, dir, View), Holds, Compare
  PROVE  Holds'
<1>1. /\ op.pc = "compare" /\ UNCHANGED <<fats, cache, dir, data, node, early>> /\ DOMAIN op = DOMAIN Idle
  BY DEF Compare, disk, At, FInv, Shape
<1>2. View' = View /\ Table' = Table
  BY <1>1 DEF View, Table
<1>3. CASE op.required < Len(op.chain) /\ op.kind = "write"
  <2>1. op' = Idle /\ Untouched
    BY <1>3 DEF Compare, ReturnNil
  <2>2. UNCHANGED want
    BY <2>1 DEF Untouched
  <2> QED
    BY <1>1, <1>2, <2>1, <2>2, HoldsReturns
<1>4. CASE ~(op.required < Len(op.chain) /\ op.kind = "write")
  <2> DEFINE o == [op EXCEPT !.count = Len(op.chain), !.chain = <<>>, !.i = 1]
  <2>1. /\ \/ op' = [o EXCEPT !.pc = "alloc", !.from = 2]
           \/ op.required = 0 /\ op' = [o EXCEPT !.pc = "dir"]
           \/ op' = [o EXCEPT !.pc = IF op.kind = "stream" THEN "flush" ELSE "walk", !.from = op.start]
        /\ UNCHANGED <<known, want>>
    BY <1>4 DEF Compare
  <2>2. DOMAIN o = DOMAIN Idle /\ o.pc = op.pc /\ SameFacts(op, o)
    BY <1>1 DEF Idle, SameFacts
  <2> HIDE DEF o
  <2>3. /\ SameFacts(op, op')
        /\ op'.pc \in {"alloc", "flush", "walk"} \/ (op.required = 0 /\ op'.pc = "dir")
    BY <2>1, <2>2 DEF Idle, SameFacts
  <2>4. op.required = 0 => op.kind # "stream" /\ Len(op.bytes) = 0
    <3> SUFFICES ASSUME op.required = 0 PROVE op.kind # "stream" /\ Len(op.bytes) = 0
      OBVIOUS
    <3>1. op.kind # "stream"
      BY DEF FInv, OpSound, StreamSound
    <3>2. op.kind # "mkdir"
      BY <1>1 DEF TaskSound, Shaped
    <3>3. Count(Len(op.bytes)) = 0 /\ Len(op.bytes) \in Nat
      BY <3>1, <3>2 DEF LongEnoughAll, OpLong, Needs, FInv, SizeSound
    <3> QED
      BY <3>1, <3>3, CountType
  <2>5. NewWritten(op', View, data)
    <3>1. op'.pc = "dir" => Span(op') = {}
      <4> SUFFICES ASSUME op'.pc = "dir" PROVE Span(op') = {}
        OBVIOUS
      <4>1. op'.bytes = op.bytes /\ op'.offset = op.offset /\ Len(op.bytes) = 0 /\ op.offset \in Nat
        BY <2>3, <2>4 DEF SameFacts, FInv, SizeSound
      <4>2. (op.offset + 1)..(op.offset + 0) = {}
        BY <4>1
      <4> QED
        BY <4>1, <4>2 DEF Span
    <3> QED
      BY <2>3, <3>1 DEF NewWritten
  <2>6. op.kind = "stream" => op'.pc # "dir"
    BY <2>3, <2>4
  <2>7. DiskFollows(dir, View, Table', early')
    BY <1>1, <1>2 DEF Holds
  <2> QED
    BY <1>1, <1>2, <2>1, <2>3, <2>5, <2>6, <2>7, HoldsGoesOn
<1> QED
  BY <1>3, <1>4

\* The table is finished, or written.
LEMMA HoldsLinked ==
  ASSUME FInv, Holds, Linked \/ Flushed
  PROVE  Holds'
<1>1. UNCHANGED <<fats, cache, dir, data, want, known, early>> /\ DOMAIN op = DOMAIN Idle
      /\ DOMAIN node = {"slot", "start", "size"}
  BY DEF Linked, Flushed, disk, book, FInv, Shape
<1>2. View' = View /\ Table' = Table
  BY <1>1 DEF View, Table
<1>3. op.pc \in {"link", "flush"} /\ node'.slot = node.slot /\ node'.size = node.size
  BY <1>1 DEF Linked, Flushed, At
<1>4. /\ SameFacts(op, op')
      /\ op'.pc \in {"tail", "flush", "walk"} \/ (op'.pc = "data" /\ op'.i = 1)
  <2>1. CASE Linked
    <3>1. op' = [op EXCEPT !.pc = "tail", !.from = op.start] \/ op' = [op EXCEPT !.pc = "flush", !.start = op.new[1]]
      BY <2>1 DEF Linked
    <3> QED
      BY <1>1, <3>1 DEF Idle, SameFacts
  <2>2. CASE Flushed
    <3>1. \/ op' = [op EXCEPT !.pc = "data", !.i = 1, !.chain = op.new]
          \/ op' = [op EXCEPT !.pc = "walk", !.from = op.start]
      BY <2>2 DEF Flushed
    <3> QED
      BY <1>1, <3>1 DEF Idle, SameFacts
  <2> QED
    BY <2>1, <2>2
<1>5. NewWritten(op', View, data)
  <2>1. CASE op'.pc \in {"tail", "flush", "walk"}
    BY <2>1 DEF NewWritten
  <2>2. CASE op'.pc = "data" /\ op'.i = 1
    BY <1>4, <2>2, NothingWritten DEF SameFacts
  <2> QED
    BY <1>4, <2>1, <2>2
<1>6. DiskFollows(dir, View, Table', early')
  BY <1>1, <1>2 DEF Holds
<1> QED
  BY <1>1, <1>2, <1>3, <1>4, <1>5, <1>6, HoldsGoesOn

\* An operation returns nil, and says so.
LEMMA HoldsNil ==
  ASSUME FInv, NamesInv, Holds, FlushFails \/ DataFails \/ DirectoryFails \/ ReadDone \/ OutOfClusters
  PROVE  Holds'
<1>1. /\ UNCHANGED <<fats, cache, dir, data, want, early, node>> /\ op' = Idle
      /\ \/ known' = known
         \/ Untouched /\ op.pc = "alloc"
  BY DEF FlushFails, DataFails, DirectoryFails, ReadDone, OutOfClusters, WriteFails, ReturnNil, Untouched, At, disk, book
<1>2. View' = View /\ Table' = Table
  BY <1>1 DEF View, Table
<1> QED
  BY <1>1, <1>2, HoldsReturns

-----------------------------------------------------------------------------
(***************************************************************************)
(* The data are written.                                                   *)
(***************************************************************************)
\* The bytes an operation is to write are in the sectors it writes.
LEMMA SpanPlaced ==
  ASSUME FInv, LongEnoughAll, NamesInv, TaskSound(op, node, dir, View), Holds, op.pc = "data", NEW p \in Span(op)
  PROVE  /\ p \in Nat /\ p > 0 /\ 1 <= p - op.offset /\ p - op.offset <= Len(op.bytes)
         /\ Place(p) \in Nat /\ Within(p) \in 1..ClusterSize /\ Place(p) * ClusterSize + Within(p) = p
         /\ Place(p) + 1 >= FirstSector /\ Place(p) + 1 <= op.required /\ op.required <= Len(op.chain)
         /\ FirstSector \in Nat /\ FirstSector > 0
         /\ op.kind \in {"stream", "create", "write"} /\ (op.kind # "stream" => op.offset = 0)
<1>1. /\ op.offset \in Nat /\ Len(op.bytes) \in Nat /\ (op.kind # "stream" => op.offset = 0)
      /\ op.required \in Nat
  BY DEF FInv, SizeSound, Holds, Given, LongEnoughAll, OpLong, Needs
<1>2. p \in Nat /\ p > op.offset /\ p <= op.offset + Len(op.bytes) /\ p > 0
  BY <1>1 DEF Span
<1>3. op.kind \in {"stream", "create", "write"}
  <2>1. op.kind # "read" /\ op.kind \in {"create", "mkdir", "write", "stream", "read"}
    BY DEF NamesInv, OpNamed
  <2>2. op.kind # "mkdir"
    <3> SUFFICES ASSUME op.kind = "mkdir" PROVE FALSE
      OBVIOUS
    <3>1. op.bytes = <<>>
      BY DEF TaskSound, Shaped
    <3>2. Len(op.bytes) = 0
      BY <3>1
    <3> QED
      BY <1>1, <1>2, <3>2
  <2> QED
    BY <2>1, <2>2
<1>4. Place(p) \in Nat /\ Within(p) \in 1..ClusterSize /\ Place(p) * ClusterSize + Within(p) = p
  BY <1>2, PlaceOf
<1>5. Place(p) < op.required
  <2>1. PICK m \in Nat : m = op.offset + Len(op.bytes)
    BY <1>1
  <2>2. op.required = Count(m)
    <3>1. CASE op.kind = "stream"
      BY <2>1, <3>1 DEF LongEnoughAll, OpLong, Needs
    <3>2. CASE op.kind # "stream"
      <4>1. op.required = Count(Len(op.bytes)) /\ m = Len(op.bytes)
        BY <1>1, <1>3, <2>1, <3>2 DEF LongEnoughAll, OpLong, Needs
      <4> QED
        BY <4>1
    <3> QED
      BY <3>1, <3>2
  <2>3. p \in 1..m
    BY <1>2, <2>1
  <2> QED
    BY <2>2, <2>3, PlaceBound
<1>6. op.required <= Len(op.chain)
  <2>1. op.kind # "read"
    BY <1>3
  <2> QED
    BY <2>1 DEF TaskSound, Followed, Length
<1>7. FirstSector \in Nat /\ FirstSector > 0 /\ Place(p) + 1 >= FirstSector
  <2>1. CASE op.kind = "stream"
    <3>1. op.offset \div ClusterSize <= Place(p) /\ op.offset \div ClusterSize \in Nat
      BY <1>1, <1>2, PlaceOrder
    <3>2. PICK x \in Nat : x = op.offset \div ClusterSize
      BY <3>1
    <3>3. FirstSector = x + 1
      BY <2>1, <3>2 DEF FirstSector
    <3> QED
      BY <1>4, <3>1, <3>2, <3>3
  <2>2. CASE op.kind # "stream"
    BY <1>4, <2>2 DEF FirstSector
  <2> QED
    BY <2>1, <2>2
<1> QED
  BY <1>1, <1>2, <1>3, <1>4, <1>5, <1>6, <1>7

\* What is written of them to a sector is in its place.
LEMMA ContentPlaced ==
  ASSUME FInv, LongEnoughAll, NamesInv, TaskSound(op, node, dir, View), Holds, op.pc = "data", NEW p \in Span(op),
         NEW k \in Nat, Place(p) = k - 1
  PROVE  Content(k)[Within(p)] = op.bytes[p - op.offset]
<1>1. /\ p \in Nat /\ p > 0 /\ 1 <= p - op.offset /\ p - op.offset <= Len(op.bytes)
      /\ Within(p) \in 1..ClusterSize /\ Place(p) * ClusterSize + Within(p) = p
      /\ op.kind \in {"stream", "create", "write"} /\ (op.kind # "stream" => op.offset = 0)
  BY SpanPlaced
<1>2. (k - 1) * ClusterSize + Within(p) = p
  BY <1>1
<1>3. op.offset \in Nat /\ Len(op.bytes) \in Nat
  BY DEF FInv, SizeSound
<1>4. CASE op.kind = "stream"
  <2>1. Content(k) = Overlaid(data[op.chain[k]], op.bytes, op.offset, k)
    BY <1>4 DEF Content
  <2>2. PICK w, z, y : w \in 1..ClusterSize /\ w = Within(p) /\ z = (k - 1) * ClusterSize /\ y = data[op.chain[k]]
    BY <1>1
  <2>3. z + w = p /\ z \in Int
    BY <1>1, <1>2, <2>2, FatAssumption
  <2>4. PICK x : x = z + w - op.offset
    OBVIOUS
  <2>5. Content(k)[w] = IF 1 <= x /\ x <= Len(op.bytes) THEN op.bytes[x] ELSE y[w]
    BY <2>1, <2>2, <2>4 DEF Overlaid
  <2>6. x = p - op.offset
    BY <1>3, <2>2, <2>3, <2>4
  <2> QED
    BY <1>1, <2>2, <2>5, <2>6
<1>5. CASE op.kind # "stream"
  <2>1. Content(k) = Chunk(op.bytes, k) /\ op.offset = 0
    BY <1>1, <1>5 DEF Content
  <2> QED
    BY <1>1, <1>2, <1>3, <2>1 DEF Chunk
<1> QED
  BY <1>4, <1>5

\* And what is not written of a file with a node is kept.
LEMMA ContentKept ==
  ASSUME FInv, op.kind = "stream", NEW p \in Nat, p > 0, p \notin Span(op), NEW k \in Nat, Place(p) = k - 1
  PROVE  Content(k)[Within(p)] = data[op.chain[k]][Within(p)]
<1>1. Within(p) \in 1..ClusterSize /\ Place(p) * ClusterSize + Within(p) = p
  BY PlaceOf
<1>2. (k - 1) * ClusterSize + Within(p) = p
  BY <1>1
<1>3. op.offset \in Nat /\ Len(op.bytes) \in Nat
  BY DEF FInv, SizeSound
<1>4. ~(1 <= p - op.offset /\ p - op.offset <= Len(op.bytes))
  BY <1>3 DEF Span
<1>5. Content(k) = Overlaid(data[op.chain[k]], op.bytes, op.offset, k)
  BY DEF Content
<1>6. PICK w, z, y : w \in 1..ClusterSize /\ w = Within(p) /\ z = (k - 1) * ClusterSize /\ y = data[op.chain[k]]
  BY <1>1
<1>7. z + w = p /\ z \in Int
  BY <1>1, <1>2, <1>6, FatAssumption
<1>8. PICK x : x = z + w - op.offset
  OBVIOUS
<1>9. Content(k)[w] = IF 1 <= x /\ x <= Len(op.bytes) THEN op.bytes[x] ELSE y[w]
  BY <1>5, <1>6, <1>8 DEF Overlaid
<1>10. x = p - op.offset
  BY <1>3, <1>6, <1>7, <1>8
<1> QED
  BY <1>4, <1>6, <1>9, <1>10

\* The clusters of a root's chain are in its set.
LEMMA RootChain ==
  ASSUME NEW X, Linear(X), NEW r, Root(r, X), NEW n \in Nat, Along(X, r)[n] \in Clusters
  PROVE  Along(X, r)[n] \in ChainSet(X, r) /\ n + 1 <= TotalClusters
<1>1. X \in [Entries -> Value] /\ r \in Value
  BY DEF Linear, Root, Value
<1>2. PICK c : c = Along(X, r)[n]
  OBVIOUS
<1>3. Long(X, r, n + 1)
  BY <1>1, <1>2, ChainBack
<1>4. n + 1 <= TotalClusters
  BY <1>3, ChainBound
<1>5. n \in 0..TotalClusters
  BY <1>4, Numbers
<1> QED
  BY <1>4, <1>5, InChain

\* One sector of data is written.
LEMMA HoldsData ==
  ASSUME FInv, LongEnoughAll, NamesInv, TaskSound(op, node, dir, View), Holds, write_lba_list
  PROVE  Holds'
<1>1. /\ op.pc = "data" /\ ToWrite # {} /\ DOMAIN op = DOMAIN Idle /\ DOMAIN data = Clusters
      /\ UNCHANGED <<fats, dir, cache, node, known, want, early>>
  BY DEF write_lba_list, At, book, FInv, Shape, Holds, KnownHeld
<1>2. View' = View /\ Table' = Table
  BY <1>1 DEF View, Table
<1>3. op.kind # "read" /\ op.slot \in Slots /\ OpNamed(op, node, dir)
  BY <1>1 DEF NamesInv, OpNamed
<1>4. op.required \in Nat /\ op.offset \in Nat /\ FirstSector \in Nat /\ FirstSector > 0
  <2>1. op.required \in Nat /\ op.offset \in Nat /\ ClusterSize \in Nat /\ ClusterSize > 0
    BY FatAssumption DEF FInv, SizeSound, LongEnoughAll, OpLong, Needs
  <2>2. op.offset \div ClusterSize \in Nat
    BY <2>1
  <2> QED
    BY <2>1, <2>2 DEF FirstSector
<1>5. PICK k : /\ k \in ToWrite /\ \A j \in ToWrite : k <= j
               /\ data' = [data EXCEPT ![op.chain[k]] = Content(k)] /\ op' = [op EXCEPT !.i = k + 1]
  <2>1. ToWrite \in SUBSET Nat
    BY <1>4 DEF ToWrite
  <2>2. \E j \in ToWrite : \A l \in ToWrite : j <= l
    BY <1>1, <2>1, LeastElement
  <2> QED
    BY <2>2 DEF write_lba_list
<1>6. PICK X, r, c : X = View /\ r = op.start /\ c = op.chain[k]
  OBVIOUS
<1>7. k \in Nat /\ k > 0 /\ k <= Len(op.chain) /\ c \in Clusters /\ c = Along(X, r)[k - 1]
  <2>1. k \in Nat /\ k > 0 /\ k <= Len(op.chain)
    BY <1>4, <1>5 DEF ToWrite
  <2>2. op.chain \in Seq(Clusters) /\ \A n \in 1..Len(op.chain) : op.chain[n] = Along(X, r)[n - 1]
    BY <1>1, <1>3, <1>6 DEF TaskSound, Followed, Here
  <2> QED
    BY <1>6, <2>1, <2>2
<1>8. Linear(X) /\ X \in [Entries -> Value] /\ r \in Clusters /\ Root(r, X) /\ Apart(r, op.slot, dir)
  <2>1. Long(X, r, op.required) /\ op.required > 0
    BY <1>1, <1>3, <1>6 DEF LongEnoughAll, OpLong, Extended, TaskSound, Shaped
  <2>2. X \in [Entries -> Value] /\ r \in Value /\ Linear(X)
    BY <1>6, StartsTyped DEF FInv, Linear
  <2>3. PICK n \in Nat : n = op.required /\ n > 0
    BY <1>4, <2>1
  <2>4. r \in Clusters
    BY <2>1, <2>2, <2>3, ChainStarts
  <2> QED
    BY <1>6, <2>2, <2>4, Numbers DEF FInv, OpSound, StartSound
<1>9. PICK m \in Nat : m = k - 1
  BY <1>7
<1>10. ASSUME NEW n \in Nat, n # m, Along(X, r)[n] \in Clusters PROVE Along(X, r)[n] # c
  <2>1. CASE n < m
    BY <1>7, <1>8, <1>9, <1>10, <2>1, ChainInjective
  <2>2. CASE m < n
    BY <1>7, <1>8, <1>9, <1>10, <2>2, ChainInjective
  <2> QED
    BY <1>10, <2>1, <2>2
<1>11. /\ DOMAIN data' = Clusters /\ data'[c] = Content(k) /\ \A x \in Clusters : x # c => data'[x] = data[x]
  BY <1>1, <1>5, <1>6, <1>7
<1>12. ASSUME NEW s \in Slots, s # op.slot, NEW p \in 1..dir[s].size
       PROVE  Byte(X, data', dir[s].start, p) = Byte(X, data, dir[s].start, p)
  <2>1. PICK t, n : t = dir[s].start /\ n = Place(p)
    OBVIOUS
  <2>2. Along(X, t)[n] \in Clusters /\ n \in Nat /\ t # 0 /\ Root(t, X)
    BY <1>6, <2>1, InFile
  <2>3. t # r
    BY <1>8, <1>12, <2>1 DEF Apart
  <2>4. Along(X, t)[n] \in ChainSet(X, t)
    BY <1>8, <2>2, RootChain
  <2>5. c \in ChainSet(X, r)
    BY <1>7, <1>8, <1>9, RootChain
  <2>6. ChainSet(X, t) \cap ChainSet(X, r) = {}
    BY <1>8, <2>2, <2>3, ChainsApart
  <2>7. data'[Along(X, t)[n]] = data[Along(X, t)[n]]
    BY <1>11, <2>2, <2>4, <2>5, <2>6
  <2> QED
    BY <2>1, <2>7 DEF Byte
<1>13. KnownHeld(dir', View', data', known', want')
  <2> SUFFICES ASSUME NEW s \in Slots, dir[s].name \in known \cap FileNames PROVE want[dir[s].name] = Bytes(X, data', dir[s])
    BY <1>1, <1>2, <1>6, <1>11 DEF Holds, KnownHeld
  <2>1. want[dir[s].name] = Bytes(X, data, dir[s])
    BY <1>6 DEF Holds, KnownHeld
  <2>2. s # op.slot
    <3>1. op.name \notin known
      BY <1>1, <1>3 DEF NamesInv
    <3>2. dir[op.slot].name \in {NoName, op.name}
      BY <1>1, <1>3 DEF OpNamed
    <3> QED
      BY <3>1, <3>2, SlotNumbers
  <2>3. PICK n, t : n = dir[s].size /\ t = dir[s].start
    OBVIOUS
  <2>4. \A p \in 1..n : Byte(X, data', t, p) = Byte(X, data, t, p)
    BY <1>12, <2>2, <2>3
  <2>5. [p \in 1..n |-> Byte(X, data', t, p)] = [p \in 1..n |-> Byte(X, data, t, p)]
    BY <2>4
  <2> QED
    BY <2>1, <2>3, <2>5 DEF Bytes
<1>14. DiskFollows(dir', View', Table', early')
  BY <1>1, <1>2 DEF Holds
<1>15. SameFacts(op, op') /\ op'.pc = op.pc /\ op'.i = k + 1 /\ op'.start = op.start
  BY <1>1, <1>5 DEF Idle, SameFacts
<1>16. Given(op')
  BY <1>15 DEF Holds, Given, SameFacts
<1>17. NodeSized(op', node', dir', known')
  BY <1>1, <1>15 DEF Holds, NodeSized, SameFacts
<1>18. NewWritten(op', View', data')
  <2> SUFFICES ASSUME NEW p \in Span(op), ~(Place(p) + 1 >= k + 1) PROVE Byte(X, data', r, p) = op.bytes[p - op.offset]
    BY <1>1, <1>2, <1>6, <1>15 DEF NewWritten, SameFacts, Span
  <2>1. PICK n \in Nat : n = Place(p) /\ n + 1 >= FirstSector /\ n + 1 <= op.required /\ op.required <= Len(op.chain)
    BY <1>1, SpanPlaced
  <2>2. n + 1 <= k
    BY <1>7, <2>1
  <2>3. Along(X, r)[n] \in Clusters
    <3>1. Long(X, r, op.required)
      BY <1>1, <1>6 DEF LongEnoughAll, OpLong, Extended
    <3>2. n \in 0..(op.required - 1)
      BY <1>4, <2>1
    <3> QED
      BY <3>1, <3>2 DEF Long
  <2>4. CASE n + 1 = k
    <3>1. Content(k)[Within(p)] = op.bytes[p - op.offset]
      BY <1>1, <1>7, <2>1, <2>4, ContentPlaced
    <3>2. Along(X, r)[Place(p)] = c
      BY <1>7, <2>1, <2>4
    <3> QED
      BY <1>11, <3>1, <3>2 DEF Byte
  <2>5. CASE n + 1 < k
    <3>1. n + 1 \notin ToWrite
      BY <1>5, <1>7, <2>5
    <3>2. ~(n + 1 >= op.i)
      BY <1>4, <2>1, <3>1, <1>7 DEF ToWrite
    <3>3. Byte(X, data, r, p) = op.bytes[p - op.offset]
      BY <1>1, <1>6, <2>1, <3>2 DEF Holds, NewWritten
    <3>4. Along(X, r)[n] # c
      BY <1>7, <1>9, <1>10, <2>1, <2>3, <2>5
    <3> QED
      BY <1>11, <2>1, <2>3, <3>3, <3>4 DEF Byte
  <2> QED
    BY <1>7, <2>2, <2>4, <2>5
<1>19. OldKept(op', dir', View', data', want')
  <2> SUFFICES ASSUME op.kind \in {"write", "stream"}, op.sure
               PROVE  /\ want[op.name] = [p \in 1..dir[op.slot].size |-> want[op.name][p]]
                      /\ \A p \in 1..dir[op.slot].size : op.kind = "stream" /\ p \notin Span(op) =>
                           Byte(X, data', dir[op.slot].start, p) = want[op.name][p]
    BY <1>1, <1>2, <1>6, <1>15 DEF OldKept, SameFacts, Span
  <2>1. want[op.name] = [p \in 1..dir[op.slot].size |-> want[op.name][p]]
    BY <1>1 DEF Holds, OldKept
  <2>2. ASSUME NEW p \in 1..dir[op.slot].size, op.kind = "stream", p \notin Span(op)
        PROVE  Byte(X, data', dir[op.slot].start, p) = want[op.name][p]
    <3>1. Byte(X, data, dir[op.slot].start, p) = want[op.name][p]
      BY <1>1, <1>6, <2>2 DEF Holds, OldKept
    <3>2. PICK n : n = Place(p)
      OBVIOUS
    <3>3. Along(X, dir[op.slot].start)[n] \in Clusters /\ n \in Nat /\ dir[op.slot].start # 0
      BY <1>3, <1>6, <3>2, InFile
    <3>4. dir[op.slot].start = r
      BY <1>1, <1>3, <1>6, <3>3 DEF TaskSound, StartsAgree
    <3>5. CASE n = m
      <4>1. p \in Nat /\ p > 0
        BY <1>3 DEF FInv, SizeSound
      <4>2. Content(k)[Within(p)] = data[op.chain[k]][Within(p)]
        BY <1>7, <1>9, <2>2, <3>2, <3>5, <4>1, ContentKept
      <4>3. Along(X, r)[Place(p)] = c
        BY <1>7, <1>9, <3>2, <3>5
      <4> QED
        BY <1>6, <1>11, <3>1, <3>4, <4>2, <4>3 DEF Byte
    <3>6. CASE n # m
      <4>1. Along(X, r)[n] # c
        BY <1>10, <3>3, <3>4, <3>6
      <4> QED
        BY <1>11, <3>1, <3>2, <3>3, <3>4, <4>1 DEF Byte
    <3> QED
      BY <3>5, <3>6
  <2> QED
    BY <2>1, <2>2
<1> QED
  BY <1>13, <1>14, <1>16, <1>17, <1>18, <1>19 DEF Holds

\* All sectors are written; the node of the file gets the new size.
LEMMA HoldsWritten ==
  ASSUME FInv, LongEnoughAll, NamesInv, TaskSound(op, node, dir, View), Holds, DataWritten
  PROVE  Holds'
<1> DEFINE end == op.offset + Len(op.bytes)
<1>1. /\ op.pc = "data" /\ ToWrite = {} /\ DOMAIN op = DOMAIN Idle /\ DOMAIN node = {"slot", "start", "size"}
      /\ UNCHANGED <<fats, data, dir, cache, known, want, early>>
      /\ op' = [op EXCEPT !.pc = "dir"]
      /\ node' = IF op.kind = "stream" /\ end > node.size THEN [node EXCEPT !.size = end] ELSE node
  BY DEF DataWritten, disk, book, At, FInv, Shape
<1>2. View' = View /\ Table' = Table
  BY <1>1 DEF View, Table
<1>3. SameFacts(op, op') /\ op'.pc = "dir" /\ op'.start = op.start
  BY <1>1 DEF Idle, SameFacts
<1>4. KnownHeld(dir', View', data', known', want') /\ DiskFollows(dir', View', Table', early')
  BY <1>1, <1>2 DEF Holds
<1>5. Given(op')
  BY <1>3 DEF Holds, Given, SameFacts
<1>6. OldKept(op', dir', View', data', want')
  BY <1>1, <1>2, <1>3 DEF Holds, OldKept, SameFacts, Span
<1>7. /\ node'.slot = node.slot
      /\ node'.size = IF op.kind = "stream" /\ end > node.size THEN end ELSE node.size
  BY <1>1
<1>8. NodeSized(op', node', dir', known')
  <2>1. ASSUME op.kind = "stream", op.sure
        PROVE  op.offset <= dir[op.slot].size /\ node'.size = Longer(end, dir[op.slot].size)
    <3>1. op.offset <= dir[op.slot].size /\ node.size = dir[op.slot].size
      BY <1>1, <2>1 DEF Holds, NodeSized
    <3> QED
      BY <1>7, <2>1, <3>1 DEF Longer
  <2>2. ASSUME node.slot # 0, dir[node.slot].name \in known PROVE node'.size = dir[node.slot].size
    <3>1. node.size = dir[node.slot].size
      BY <2>2 DEF Holds, NodeSized
    <3>2. op.kind # "stream"
      BY <1>1, <2>2 DEF NamesInv, OpNamed, MakesEntry
    <3> QED
      BY <1>7, <3>1, <3>2
  <2> QED
    BY <1>1, <1>3, <1>7, <2>1, <2>2 DEF NodeSized, SameFacts
<1>9. NewWritten(op', View', data')
  <2> SUFFICES ASSUME NEW p \in Span(op) PROVE Byte(View, data, op.start, p) = op.bytes[p - op.offset]
    BY <1>1, <1>2, <1>3 DEF NewWritten, SameFacts, Span
  <2>1. PICK n \in Nat : n = Place(p) + 1 /\ n >= FirstSector /\ n <= op.required /\ op.required <= Len(op.chain)
                         /\ FirstSector \in Nat
    BY <1>1, SpanPlaced
  <2>2. op.required \in Nat /\ Len(op.chain) \in Nat
    <3>1. op.chain \in Seq(Clusters)
      BY <1>1 DEF TaskSound, Followed
    <3> QED
      BY <3>1 DEF LongEnoughAll, OpLong, Needs
  <2>3. ~(n >= op.i)
    <3> SUFFICES ASSUME n >= op.i PROVE n \in ToWrite
      BY <1>1
    <3>1. n \in FirstSector..op.required /\ n <= Len(op.chain)
      BY <2>1, <2>2
    <3> QED
      BY <3>1 DEF ToWrite
  <2> QED
    BY <1>1, <2>1, <2>3 DEF Holds, NewWritten
<1> QED
  BY <1>4, <1>5, <1>6, <1>8, <1>9 DEF Holds

\* What the directory entry is about to promise is what the sectors hold.
LEMMA ExpectedHeld ==
  ASSUME FInv, LongEnoughAll, NamesInv, TaskSound(op, node, dir, View), Holds, op.pc = "dir",
         op.kind \in {"create", "write", "stream"}, op.kind = "stream" => op.sure
  PROVE  Expected = [p \in 1..NewSize |-> Byte(View, data, op.start, p)]
<1>1. /\ op.offset \in Nat /\ Len(op.bytes) \in Nat /\ op.bytes = [p \in 1..Len(op.bytes) |-> op.bytes[p]]
      /\ (op.kind # "stream" => op.offset = 0)
  BY BytesOf DEF FInv, SizeSound, Holds, Given
<1>2. PICK b, l, o, r : /\ b = op.bytes /\ l = Len(op.bytes) /\ o = op.offset /\ r = op.start
                        /\ l \in Nat /\ o \in Nat
  BY <1>1
<1>3. \A p \in (o + 1)..(o + l) : Byte(View, data, r, p) = b[p - o]
  BY <1>2 DEF Holds, NewWritten, Span
<1>4. CASE op.kind # "stream"
  <2>1. Expected = b /\ NewSize = l /\ o = 0 /\ b = [p \in 1..l |-> b[p]]
    BY <1>1, <1>2, <1>4 DEF Expected, NewSize
  <2>2. \A p \in 1..l : Byte(View, data, r, p) = b[p]
    <3> TAKE p \in 1..l
    <3>1. p \in (o + 1)..(o + l) /\ p - o = p
      BY <1>2, <2>1
    <3>2. Byte(View, data, r, p) = b[p - o]
      BY <1>3, <3>1
    <3> QED
      BY <3>1, <3>2
  <2>3. [p \in 1..l |-> Byte(View, data, r, p)] = [p \in 1..l |-> b[p]]
    BY <2>2
  <2> QED
    BY <1>2, <2>1, <2>3
<1>5. CASE op.kind = "stream"
  <2>0. dir[op.slot].size \in Nat
    BY DEF FInv, SizeSound, NamesInv, OpNamed
  <2>1. PICK w, m, s : w = want[op.name] /\ m = dir[op.slot].size /\ s = dir[op.slot].start /\ m \in Nat
    BY <2>0
  <2>2. /\ w = [p \in 1..m |-> w[p]]
        /\ \A p \in 1..m : p \notin (o + 1)..(o + l) => Byte(View, data, s, p) = w[p]
    BY <1>2, <1>5, <2>1 DEF Holds, OldKept, Span
  <2>3. o <= m /\ NewSize = Longer(o + l, m)
    BY <1>2, <1>5, <2>1 DEF Holds, NodeSized, NewSize
  <2>4. Len(w) = m
    <3>1. PICK g : g = [p \in 1..m |-> w[p]]
      OBVIOUS
    <3>2. Len(g) = m
      BY <2>1, <3>1
    <3> QED
      BY <2>2, <3>1, <3>2
  <2>5. Expected = [p \in 1..Longer(o + l, m) |-> IF p > o /\ p <= o + l THEN b[p - o] ELSE w[p]]
    BY <1>2, <1>5, <2>1, <2>4 DEF Expected, Longer
  <2>6. ASSUME NEW p \in 1..Longer(o + l, m)
        PROVE  Byte(View, data, r, p) = IF p > o /\ p <= o + l THEN b[p - o] ELSE w[p]
    <3>1. CASE p > o /\ p <= o + l
      BY <1>2, <1>3, <2>1, <3>1 DEF Longer
    <3>2. CASE ~(p > o /\ p <= o + l)
      <4>1. p \in 1..m /\ p \notin (o + 1)..(o + l)
        BY <1>2, <2>1, <2>3, <3>2 DEF Longer
      <4>2. Byte(View, data, s, p) = w[p]
        BY <2>2, <4>1
      <4>3. op.slot \in Slots /\ op.kind # "read"
        BY <1>5 DEF NamesInv, OpNamed
      <4>4. s # 0
        BY <2>1, <4>1, <4>3, InFile
      <4>5. s = r
        BY <1>2, <2>1, <4>3, <4>4 DEF TaskSound, StartsAgree
      <4> QED
        BY <3>2, <4>2, <4>5
    <3> QED
      BY <3>1, <3>2
  <2>7. PICK M : M = Longer(o + l, m)
    OBVIOUS
  <2>8. [p \in 1..M |-> Byte(View, data, r, p)] = [p \in 1..M |-> IF p > o /\ p <= o + l THEN b[p - o] ELSE w[p]]
    BY <2>6, <2>7
  <2> QED
    BY <1>2, <2>3, <2>5, <2>7, <2>8
<1> QED
  BY <1>4, <1>5

\* The directory entry is written, and the operation says that it succeeded.
LEMMA HoldsFinish ==
  ASSUME FInv, LongEnoughAll, NamesInv, TaskSound(op, node, dir, View), Holds, finish_directory_update
  PROVE  Holds'
<1>1. /\ op.pc = "dir" /\ op' = Idle /\ DOMAIN dir = Slots /\ DOMAIN want = Names /\ DOMAIN data = Clusters
      /\ UNCHANGED <<fats, data, cache, node>>
      /\ dir' = [dir EXCEPT ![op.slot] = [name |-> op.name, start |-> op.start, size |-> NewSize]]
      /\ early' = IF cache.dirty THEN early \cup {op.slot} ELSE early \ {op.slot}
      /\ IF op.kind = "stream" /\ ~op.sure THEN UNCHANGED <<known, want>>
         ELSE known' = known \cup {op.name} /\ want' = [want EXCEPT ![op.name] = Expected]
  BY DEF finish_directory_update, At, FInv, Shape, Holds, KnownHeld
<1>2. View' = View /\ Table' = Table
  BY <1>1 DEF View, Table
<1>3. OpNamed(op, node, dir) /\ DirNamed(dir) /\ NodeNamed(node, dir) /\ op.name \notin known
  BY <1>1 DEF NamesInv, OpNamed
<1>4. /\ op.slot \in Slots /\ op.kind \in {"create", "mkdir", "write", "stream"} /\ op.name # NoName
      /\ op.name \in Names /\ (op.name \in FileNames => op.kind # "mkdir")
      /\ (op.kind # "stream" => node.slot # op.slot)
  BY <1>1, <1>3, FatAssumption DEF OpNamed, Names
<1>5. /\ \A s \in Slots : s # op.slot => dir'[s] = dir[s]
      /\ dir'[op.slot].name = op.name /\ dir'[op.slot].start = op.start /\ dir'[op.slot].size = NewSize
  BY <1>1, <1>4
<1>6. ASSUME NEW s \in Slots, s # op.slot PROVE dir[s].name # op.name
  BY <1>1, <1>3, <1>4, <1>6 DEF OpNamed, DirNamed, MakesEntry
<1>7. ASSUME NEW s \in Slots, s # op.slot, dir'[s].name \in known'
      PROVE  dir[s].name \in known /\ (dir[s].name \in Names => want'[dir[s].name] = want[dir[s].name])
  <2>1. dir'[s] = dir[s] /\ dir[s].name # op.name
    BY <1>5, <1>6, <1>7
  <2>2. CASE op.kind = "stream" /\ ~op.sure
    BY <1>1, <1>7, <2>1, <2>2
  <2>3. CASE ~(op.kind = "stream" /\ ~op.sure)
    <3>1. known' = known \cup {op.name} /\ want' = [want EXCEPT ![op.name] = Expected]
      BY <1>1, <2>3
    <3> QED
      BY <1>1, <1>7, <2>1, <3>1
  <2> QED
    BY <2>2, <2>3
<1>8. DOMAIN want' = Names
  BY <1>1
<1>9. KnownHeld(dir', View', data', known', want')
  <2> SUFFICES ASSUME NEW s \in Slots, dir'[s].name \in known' \cap FileNames
               PROVE  want'[dir'[s].name] = Bytes(View, data, dir'[s])
    BY <1>1, <1>2, <1>8 DEF KnownHeld
  <2>1. CASE s # op.slot
    <3>1. dir'[s] = dir[s] /\ dir[s].name \in known /\ want'[dir[s].name] = want[dir[s].name]
      BY <1>5, <1>7, <2>1 DEF Names
    <3>2. want[dir[s].name] = Bytes(View, data, dir[s])
      BY <3>1 DEF Holds, KnownHeld
    <3> QED
      BY <3>1, <3>2
  <2>2. CASE s = op.slot
    <3>1. op.name \in FileNames /\ op.name \in known'
      BY <1>5, <2>2
    <3>2. op.kind \in {"create", "write", "stream"} /\ (op.kind = "stream" => op.sure)
      BY <1>1, <1>3, <1>4, <3>1
    <3>3. want' = [want EXCEPT ![op.name] = Expected]
      BY <1>1, <3>2
    <3>4. want'[op.name] = Expected
      BY <1>1, <1>4, <3>3
    <3>5. Expected = [p \in 1..NewSize |-> Byte(View, data, op.start, p)]
      BY <1>1, <3>2, ExpectedHeld
    <3> QED
      BY <1>5, <2>2, <3>4, <3>5 DEF Bytes
  <2> QED
    BY <2>1, <2>2
<1>10. DiskFollows(dir', View', Table', early')
  <2>1. CASE cache.dirty
    <3>1. Slots \ early' = Slots \ (early \cup {op.slot})
      BY <1>1, <2>1
    <3>2. \A s \in Slots \ early' : s # op.slot /\ s \in Slots \ early
      BY <3>1
    <3> QED
      BY <1>2, <1>5, <3>2 DEF Holds, DiskFollows
  <2>2. CASE ~cache.dirty
    BY <1>2, <2>2 DEF View, DiskFollows, SameTo
  <2> QED
    BY <2>1, <2>2
<1>11. NodeSized(op', node', dir', known')
  <2> SUFFICES ASSUME node.slot # 0, dir'[node.slot].name \in known' PROVE node.size = dir'[node.slot].size
    BY <1>1, IdleFields DEF NodeSized
  <2>1. node.slot \in Slots
    BY <1>3 DEF NodeNamed
  <2>2. CASE node.slot # op.slot
    <3>1. dir'[node.slot] = dir[node.slot] /\ dir[node.slot].name \in known
      BY <1>5, <1>7, <2>1, <2>2
    <3> QED
      BY <3>1 DEF Holds, NodeSized
  <2>3. CASE node.slot = op.slot
    BY <1>4, <1>5, <2>3 DEF NewSize
  <2> QED
    BY <2>2, <2>3
<1> QED
  BY <1>1, <1>9, <1>10, <1>11, IdleHolds DEF Holds

\* Every step keeps what the sectors of the known files hold, while no entry of
\* the table is lost.
LEMMA StepHolds ==
  ASSUME ~SharedFiles, FInv, LongEnoughAll, NamesInv, TaskSound(op, node, dir, View), Holds, [Next]_vars, ~lossy'
  PROVE  Holds'
<1>1. CASE UNCHANGED vars
  BY <1>1 DEF vars, disk, book, View, Table, Holds
<1>2. CASE \/ \E f \in FileNames, n \in Lengths : fat16_create_file(f, n) \/ fat16_write_file(f, n)
           \/ \E d \in DirNames : fat16_create_directory(d)
           \/ \E f \in FileNames : fat16_read_file(f)
           \/ \E offset \in {0, node.size}, n \in Lengths : fat16_write_into(offset, n)
  BY <1>2, HoldsBegins
<1>3. CASE CloseNode \/ Restart \/ \E f \in FileNames : fat16_resolve_node(f)
  BY <1>3, HoldsRest
<1>4. CASE flush_fat_cache \/ fat_sector_bytes
  BY <1>4, HoldsTransfer
<1>5. CASE FlushFails \/ DataFails \/ DirectoryFails \/ ReadDone \/ OutOfClusters
  BY <1>5, HoldsNil
<1>6. CASE EvictionFails
  BY <1>6 DEF EvictionFails
<1>7. CASE cluster_chain
  BY <1>7, HoldsWalk
<1>8. CASE Compare
  BY <1>8, HoldsCompare
<1>9. CASE allocate_clusters
  BY <1>9, HoldsTake
<1>10. CASE link_clusters
  BY <1>10, HoldsLink
<1>11. CASE Linked \/ Flushed
  BY <1>11, HoldsLinked
<1>12. CASE AttachToOld
  BY <1>12, HoldsAttach
<1>13. CASE write_lba_list
  BY <1>13, HoldsData
<1>14. CASE DataWritten
  BY <1>14, HoldsWritten
<1>15. CASE finish_directory_update
  BY <1>15, HoldsFinish
<1> QED
  BY <1>1, <1>2, <1>3, <1>4, <1>5, <1>6, <1>7, <1>8, <1>9, <1>10, <1>11, <1>12, <1>13, <1>14, <1>15 DEF Next

\* What the driver's table leads to is what the disk's leads to, and what a reader
\* collects.
LEMMA HoldsImpliesReported == FInv /\ LInv /\ NamesInv /\ TaskInv /\ ContInv => ReportedWritesAreOnDisk
<1> SUFFICES ASSUME FInv, LInv, NamesInv, TaskInv, ContInv, ~lossy
             PROVE  /\ \A f \in known \cap FileNames : SlotOf(f) \notin early => WrittenFile(f)
                    /\ At("read") /\ op.name \in known => ReadBack = want[op.name]
  BY DEF ReportedWritesAreOnDisk
<1>1. LongEnoughAll /\ TaskSound(op, node, dir, View) /\ Holds /\ VolumeConsistent
  BY InvImpliesConsistent DEF LInv, TaskInv, ContInv
<1>2. ASSUME NEW f \in known \cap FileNames, SlotOf(f) \notin early PROVE WrittenFile(f)
  <2>1. PICK s \in Slots : dir[s].name = f
    BY DEF NamesInv
  <2>2. SlotsOf(f) = {s}
    BY <2>1, SlotNumbers DEF SlotsOf, NamesInv, DirNamed
  <2>3. SlotOf(f) = s
    BY <2>2 DEF SlotOf
  <2>4. Cardinality(SlotsOf(f)) = 1
    BY <2>2, FS_Singleton
  <2>5. LongEnough(s)
    <3>1. s \in Used \ early
      BY <1>2, <2>1, <2>3, SlotNumbers DEF Used
    <3> QED
      BY <1>1, <3>1 DEF VolumeConsistent
  <2>6. want[f] = Bytes(View, data, dir[s])
    BY <1>1, <2>1 DEF Holds, KnownHeld
  <2>7. PICK X, T, r, m : X = View /\ T = Table /\ r = dir[s].start /\ m = dir[s].size
    OBVIOUS
  <2>8. m \in Nat /\ Linear(X) /\ SameTo(X, T, r, Count(m))
    BY <1>1, <1>2, <2>3, <2>7 DEF FInv, SizeSound, Holds, DiskFollows
  <2>9. ASSUME NEW p \in 1..m
        PROVE  data[Nth(T, r)[Place(p) + 1]][Within(p)] = Byte(X, data, r, p)
    <3>1. PICK n : n = Place(p)
      OBVIOUS
    <3>2. Along(X, r)[n] \in Clusters /\ n \in Nat /\ Root(r, X)
      BY <1>1, <2>7, <3>1, InFile
    <3>3. n + 1 <= TotalClusters
      BY <2>8, <3>2, RootChain
    <3>4. n + 1 \in 1..(TotalClusters + 1) /\ (n + 1) - 1 = n
      BY <3>2, <3>3, Numbers
    <3>5. PICK a : a = Along(T, r)
      OBVIOUS
    <3>6. Nth(T, r)[n + 1] = a[n]
      BY <3>4, <3>5 DEF Nth
    <3>7. Byte(T, data, r, p) = Byte(X, data, r, p)
      BY <2>8, BytesStay
    <3> QED
      BY <3>1, <3>5, <3>6, <3>7 DEF Byte
  <2>10. OnDisk(s) = [p \in 1..m |-> data[Nth(T, r)[Place(p) + 1]][Within(p)]]
    BY <2>7 DEF OnDisk, Table, Place, Within
  <2>11. [p \in 1..m |-> data[Nth(T, r)[Place(p) + 1]][Within(p)]] = [p \in 1..m |-> Byte(X, data, r, p)]
    BY <2>9
  <2>12. OnDisk(s) = want[f]
    BY <2>6, <2>7, <2>10, <2>11 DEF Bytes
  <2> QED
    BY <2>3, <2>4, <2>5, <2>12 DEF WrittenFile
<1>3. ASSUME At("read"), op.name \in known PROVE ReadBack = want[op.name]
  <2>1. op.pc = "read" /\ op.kind = "read"
    BY <1>3 DEF At, NamesInv
  <2>2. op.slot \in Slots /\ dir[op.slot].name = op.name /\ op.name \in FileNames
    BY <2>1 DEF NamesInv, OpNamed, MakesEntry
  <2>3. want[op.name] = Bytes(View, data, dir[op.slot])
    BY <1>1, <1>3, <2>2 DEF Holds, KnownHeld
  <2>4. PICK X, q, r, m : X = View /\ q = op.chain /\ r = dir[op.slot].start /\ m = dir[op.slot].size
    OBVIOUS
  <2>5. m \in Nat /\ q \in Seq(Clusters) /\ Len(q) >= Count(m) /\ \A n \in 1..Len(q) : q[n] = Along(X, r)[n - 1]
    BY <1>1, <2>1, <2>2, <2>4 DEF FInv, SizeSound, TaskSound, Followed, Here, Length
  <2>6. ASSUME NEW p \in 1..m PROVE data[q[Place(p) + 1]][Within(p)] = Byte(X, data, r, p)
    <3>1. PICK n : n = Place(p)
      OBVIOUS
    <3>2. n \in Nat /\ n < Count(m) /\ Count(m) \in Nat
      BY <2>5, <3>1, PlaceBound, CountType
    <3>3. n + 1 \in 1..Len(q) /\ (n + 1) - 1 = n
      BY <2>5, <3>2
    <3>4. q[n + 1] = Along(X, r)[n]
      BY <2>5, <3>3
    <3> QED
      BY <3>1, <3>4 DEF Byte
  <2>7. ReadBack = [p \in 1..m |-> data[q[Place(p) + 1]][Within(p)]]
    BY <2>4 DEF ReadBack, Place, Within
  <2>8. [p \in 1..m |-> data[q[Place(p) + 1]][Within(p)]] = [p \in 1..m |-> Byte(X, data, r, p)]
    BY <2>6
  <2> QED
    BY <2>3, <2>4, <2>7, <2>8 DEF Bytes
<1> QED
  BY <1>2, <1>3

\* ReportedWritesAreOnDisk: what an operation of fat16.lisp that returned t has
\* written is on the disk whatever fails later and wherever power is lost, and
\* fat16-read-file returns it, as long as no file is written by path while a node
\* for it is open and with the two exceptions the property names.
THEOREM WritesAreOnDisk ==
  ASSUME ~SharedFiles
  PROVE  Spec => []ReportedWritesAreOnDisk
<1>1. Init => ContInv
  BY InitHolds
<1>2. FInv /\ LInv /\ NamesInv /\ TaskInv /\ ContInv /\ [Next]_vars => ContInv'
  <2> SUFFICES ASSUME FInv, LInv, NamesInv, TaskInv, ContInv, [Next]_vars, ~lossy' PROVE Holds'
    BY DEF ContInv
  <2>1. ~lossy
    BY LossyStays
  <2>2. LongEnoughAll /\ TaskSound(op, node, dir, View) /\ Holds
    BY <2>1 DEF LInv, TaskInv, ContInv
  <2> QED
    BY <2>2, StepHolds
<1>3. FInv /\ LInv /\ NamesInv /\ TaskInv /\ ContInv => ReportedWritesAreOnDisk
  BY HoldsImpliesReported
<1> QED
  BY <1>1, <1>2, <1>3, TasksStaySound, PTL DEF Spec
=============================================================================
