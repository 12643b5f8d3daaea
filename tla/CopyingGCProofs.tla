--------------------------- MODULE CopyingGCProofs ---------------------------
(***************************************************************************)
(* Proofs about module CopyingGC, for every well-formed heap and any       *)
(* number of collections: no object and no block is copied twice, what     *)
(* has been scanned refers to the To space only, and the graph that is     *)
(* reachable from the roots and the cells stays what it was.               *)
(*                                                                         *)
(* GInv says, in the middle of a collection, what is where: which          *)
(* objects of the From space have been moved, that every value refers to   *)
(* something of its kind in one of the two spaces, that a block belongs to *)
(* one object and is still in the From space, without a copy, until its    *)
(* owner is scanned.  K gives the kind of each object or block by its      *)
(* identity, which the copies inherit.                                     *)
(*                                                                         *)
(* ContentsInv adds what things contain: whatever has not been moved holds *)
(* what it held in the heap of the first collection, up to the places of   *)
(* what it refers to (Faithful), and so do the roots and the cells (Meant). *)
(* Between two collections the things reached in the two heaps then form   *)
(* pairs, and their graphs are the same (SameGraph).                       *)
(***************************************************************************)
EXTENDS CopyingGC, FiniteSetTheorems, WellFoundedInduction, TLAPS

InFrom(a) == from_start <= a /\ a < from_start + Half

\* What is at each address: g is origin.
KindAt(K, g) == [a \in DOMAIN g |-> K[g[a]]]

\* a is the old place of an object that has been copied.
Moved(m, k, a) == k[a] \in ObjectKinds /\ InFrom(a) /\ Forwarded(m[a][1])

\* Nothing in the To space is a copy of what is at a.
Fresh(g, a) == \A x \in DOMAIN g : InTo(x) => g[x] # g[a]

\* x in the To space has been scanned, or is being scanned.
Scanned(k, bl, x) == InTo(x) /\ (k[x] \in ObjectKinds => x + k[x] \in bl)

Refers(v) == IsRef(v) => InTo(Addr(v))

Places(K, m, g, p) ==
  /\ DOMAIN m = DOMAIN g
  /\ p \in Int /\ p % 16 = 0 /\ to_start <= p /\ p <= to_start + Half
  /\ \A a \in DOMAIN g : /\ a \in Int /\ a % 16 = 0 /\ g[a] \in DOMAIN K
                         /\ InFrom(a) \/ (InTo(a) /\ a < p)

OneEach(g) == \A a, b \in DOMAIN g : g[a] = g[b] /\ (InTo(a) <=> InTo(b)) => a = b

Sound(m, k) == \A a \in DOMAIN k : ~Moved(m, k, a) => WellPlaced(m[a], a, k)

Forwarding(m, k, g) ==
  \A a \in DOMAIN k : k[a] \in ObjectKinds /\ InFrom(a) =>
    IF Moved(m, k, a) THEN Addr(m[a][1]) \in DOMAIN k /\ g[Addr(m[a][1])] = g[a]
    ELSE Fresh(g, a)

\* A block has one owner.
Owned(m, k) ==
  \A a, b \in DOMAIN k : ~Moved(m, k, a) /\ ~Moved(m, k, b) =>
    \A p \in Pointers(k[a], m[a]), q \in Pointers(k[b], m[b]) : m[a][p[1]] = m[b][q[1]] => a = b

\* The blocks of what has not been scanned have not been copied.
Waiting(m, k, g, bl) ==
  \A a \in DOMAIN k : ~Moved(m, k, a) =>
    \A p \in Pointers(k[a], m[a]) :
      (IF k[a] \in ObjectKinds THEN a + k[a] \notin bl ELSE InFrom(a) /\ Fresh(g, a)) =>
        InFrom(m[a][p[1]]) /\ Fresh(g, m[a][p[1]])

\* What has been scanned refers to the To space, but for the words still to come.
Done(m, k, bl, f) ==
  \A x \in DOMAIN k : Scanned(k, bl, x) =>
    /\ \A i \in Values(k[x], m[x]) : Refers(m[x][i]) \/ \E j \in 1..Len(f) : f[j] = <<x, i>>
    /\ \A p \in Pointers(k[x], m[x]) : InTo(m[x][p[1]])

Copied(k, w) == /\ Tag(w) \in ObjectKinds /\ Addr(w) \in DOMAIN k /\ InTo(Addr(w))
                /\ k[Addr(w)] = Tag(w)

\* Every copied object is in the queue or has been popped.
Queued(k, q, bl) ==
  /\ q \in Seq(Int) /\ bl \subseteq Int
  /\ \A w \in bl : Copied(k, w)
  /\ \A j \in 1..Len(q) : Copied(k, q[j]) /\ q[j] \notin bl
  /\ \A i, j \in 1..Len(q) : q[i] = q[j] => i = j
  /\ \A x \in DOMAIN k : InTo(x) /\ k[x] \in ObjectKinds =>
       x + k[x] \in bl \/ \E j \in 1..Len(q) : q[j] = x + k[x]

Pending(m, k, bl, f) ==
  /\ f \in Seq(Int \X Int)
  /\ \A j \in 1..Len(f) : /\ f[j][1] \in DOMAIN k /\ Scanned(k, bl, f[j][1])
                          /\ f[j][2] \in Values(k[f[j][1]], m[f[j][1]])

CoreAt(K, k, m, g, p, q, bl, f) ==
  /\ Places(K, m, g, p) /\ OneEach(g) /\ Sound(m, k) /\ Forwarding(m, k, g) /\ Owned(m, k)
  /\ Waiting(m, k, g, bl) /\ Done(m, k, bl, f) /\ Queued(k, q, bl) /\ Pending(m, k, bl, f)
Core(K, m, g, p, q, bl, f) == CoreAt(K, KindAt(K, g), m, g, p, q, bl, f)

\* The roots and the cells, and which of them have been visited.
Visited(s, n, k) ==
  /\ s \in Seq(Int) /\ \A i \in 1..Len(s) : IsValue(s[i], k)
  /\ \A i \in 1..Len(s) : i < n => Refers(s[i])

Stage(k) ==
  /\ phase \in {"idle", "roots", "scan", "cells", "rescan"} /\ next \in Nat \ {0}
  /\ phase = "scan" => next = 1
  /\ Visited(roots, CASE phase = "roots" -> next [] phase = "idle" -> 1 [] OTHER -> Len(roots) + 1, k)
  /\ Visited(cells, CASE phase = "cells" -> next [] phase = "rescan" -> Len(cells) + 1 [] OTHER -> 1, k)
  /\ phase \notin {"scan", "rescan"} => fields = <<>>
  /\ phase = "idle" => queue = <<>> /\ black = {} /\ \A a \in DOMAIN mem : InFrom(a)

Spaces == <<from_start, to_start>> \in {<<Base, Base + Half>>, <<Base + Half, Base>>}

Kinds(K) == KindAt(K, origin)
Now(K) == Core(K, mem, origin, to_ptr, queue, black, fields)

GInv(K) ==
  /\ Spaces
  /\ Core(K, mem, origin, to_ptr, queue, black, fields)
  /\ Stage(KindAt(K, origin))
-----------------------------------------------------------------------------
(***************************************************************************)
(* Words and addresses.                                                    *)
(***************************************************************************)
\* A word is its address and its tag.
LEMMA WordParts ==
  ASSUME NEW w \in Int
  PROVE  /\ Tag(w) \in 0..15 /\ Addr(w) \in Int /\ Addr(w) % 16 = 0 /\ Addr(w) + Tag(w) = w
  BY DEF Tag, Addr

LEMMA Tagged ==
  ASSUME NEW a \in Int, a % 16 = 0, NEW t \in 0..15
  PROVE  a + t \in Int /\ Tag(a + t) = t /\ Addr(a + t) = a
  BY DEF Tag, Addr

LEMMA ForwardTag ==
  ASSUME NEW a \in Int, a % 16 = 0
  PROVE  Tag(a + TAG_FORWARD) = TAG_FORWARD /\ Addr(a + TAG_FORWARD) = a
  BY DEF Tag, Addr, TAG_FORWARD

\* A rounded size is a positive multiple of 16.
LEMMA Rounded ==
  ASSUME NEW n \in Nat \ {0}
  PROVE  os_heap_align_up(n) \in Nat \ {0} /\ os_heap_align_up(n) % 16 = 0
  BY DEF os_heap_align_up

LEMMA Aligned ==
  ASSUME NEW a \in Int, NEW b \in Int, a % 16 = 0, b % 16 = 0
  PROVE  (a + b) % 16 = 0
  OBVIOUS

LEMMA KindNumbers ==
  /\ ObjectKinds = {1, 3, 5, 7} /\ ObjectKinds \subseteq 0..15
  /\ TAG_FORWARD = 15 /\ NIL = 3
  /\ RAW_BLOCK \notin ObjectKinds /\ VECTOR_BLOCK \notin ObjectKinds /\ STREAM_STRUCT \notin ObjectKinds
  BY DEF ObjectKinds, TAG_CONS, TAG_SYMBOL, TAG_STRING, TAG_INSTANCE, TAG_FORWARD, NIL,
         RAW_BLOCK, VECTOR_BLOCK, STREAM_STRUCT

\* The two spaces do not overlap.
LEMMA SpacesApart ==
  ASSUME Spaces
  PROVE  /\ from_start \in Int /\ to_start \in Int /\ Half \in Nat
         /\ from_start % 16 = 0 /\ to_start % 16 = 0
         /\ from_start > 4096 /\ to_start > 4096 /\ to_start >= Base
         /\ \A a \in Int : ~(InFrom(a) /\ InTo(a))
<1>1. /\ Base \in Int /\ Half \in Nat /\ Base % 16 = 0 /\ Half % 16 = 0 /\ Base > 4096
      /\ (Base + Half) % 16 = 0
  BY GCAssumption, Aligned DEF MAGIC_MUST_BE_BELOW
<1>2. \/ from_start = Base /\ to_start = Base + Half
      \/ from_start = Base + Half /\ to_start = Base
  BY DEF Spaces
<1>3. ASSUME NEW a \in Int PROVE ~(InFrom(a) /\ InTo(a))
  BY <1>1, <1>2 DEF InFrom, InTo
<1>4. /\ from_start \in Int /\ to_start \in Int
      /\ from_start > 4096 /\ to_start > 4096 /\ to_start >= Base
  BY <1>1, <1>2
<1>5. from_start % 16 = 0 /\ to_start % 16 = 0
  <2>1. CASE from_start = Base /\ to_start = Base + Half
    BY <1>1, <2>1
  <2>2. CASE from_start = Base + Half /\ to_start = Base
    BY <1>1, <2>2
  <2> QED
    BY <1>2, <2>1, <2>2
<1> QED
  BY <1>1, <1>3, <1>4, <1>5

LEMMA Apart ==
  ASSUME Spaces, NEW a \in Int
  PROVE  ~(InFrom(a) /\ InTo(a))
  BY SpacesApart
-----------------------------------------------------------------------------
(***************************************************************************)
(* What a collection writes into an object keeps its layout.               *)
(***************************************************************************)
USE DEF TAG_CONS, TAG_SYMBOL, TAG_STRING, TAG_INSTANCE, RAW_BLOCK, VECTOR_BLOCK, STREAM_STRUCT

Same(k, u, v) == Layout(k, v) /\ Values(k, v) = Values(k, u) /\ Pointers(k, v) = Pointers(k, u)

\* Layout, Values and Pointers, kind by kind.
LEMMA LayoutTable ==
  ASSUME NEW u
  PROVE  /\ Layout(TAG_CONS, u) <=> u \in Seq(Int) /\ Len(u) = 2
         /\ Layout(TAG_SYMBOL, u) <=> u \in Seq(Int) /\ Len(u) = 4
         /\ Layout(TAG_STRING, u) <=> u \in Seq(Int) /\ Len(u) > 0 /\ u[1] \in 0..(Base - 1)
         /\ Layout(TAG_INSTANCE, u) <=> /\ u \in Seq(Int) /\ Len(u) = 4 /\ Tag(u[1]) # TAG_FORWARD
                                        /\ u[1] = MAGIC_BIGNUM => u[3] \in Nat
         /\ Layout(VECTOR_BLOCK, u) <=>
              /\ u \in Seq(Int) /\ Len(u) > 0 /\ u[1] \in Nat /\ VectorTotal(u) \in Nat
              /\ Len(u) = 1 + u[1] + VectorTotal(u)
         /\ Layout(STREAM_STRUCT, u) <=> /\ u \in Seq(Int) /\ Len(u) = 6
                                         /\ u[1] # 0 => u[3] \in Nat \ {0}
  BY DEF Layout

LEMMA ValueTable ==
  ASSUME NEW u
  PROVE  /\ Values(TAG_CONS, u) = 1..2 /\ Values(TAG_SYMBOL, u) = 1..4
         /\ Values(TAG_INSTANCE, u) = InstanceValues(u[1])
         /\ Values(VECTOR_BLOCK, u) = (2 + u[1])..Len(u)
         /\ Values(STREAM_STRUCT, u) = {4, 5, 6}
         /\ \A k : k \notin {TAG_CONS, TAG_SYMBOL, TAG_INSTANCE, VECTOR_BLOCK, STREAM_STRUCT} => Values(k, u) = {}
  BY DEF Values

PointedMagics == {MAGIC_VECTOR, MAGIC_BIGNUM, MAGIC_STREAM}

LEMMA PointerTable ==
  ASSUME NEW u
  PROVE  /\ u[1] \notin PointedMagics => Pointers(TAG_INSTANCE, u) = {}
         /\ u[1] = MAGIC_VECTOR => Pointers(TAG_INSTANCE, u) = IF u[2] # 0 THEN {<<2, VECTOR_BLOCK>>} ELSE {}
         /\ u[1] = MAGIC_BIGNUM => Pointers(TAG_INSTANCE, u) = IF u[3] # 0 THEN {<<4, RAW_BLOCK>>} ELSE {}
         /\ u[1] = MAGIC_STREAM => Pointers(TAG_INSTANCE, u) = {<<2, STREAM_STRUCT>>}
         /\ Pointers(STREAM_STRUCT, u) = IF u[1] # 0 THEN {<<2, RAW_BLOCK>>} ELSE {}
  BY DEF Pointers, PointedMagics, MAGIC_VECTOR, MAGIC_BIGNUM, MAGIC_STREAM

LEMMA NoPointers ==
  ASSUME NEW k, k \notin {TAG_INSTANCE, STREAM_STRUCT}, NEW u
  PROVE  Pointers(k, u) = {}
  BY DEF Pointers

\* The three kinds of instances with blocks hold no values themselves.
LEMMA InstanceTable ==
  ASSUME NEW magic
  PROVE  /\ InstanceValues(magic) \subseteq {2, 3, 4}
         /\ magic \in PointedMagics => InstanceValues(magic) = {}
  BY DEF InstanceValues, PointedMagics, MAGIC_FUNCTION_NATIVE, MAGIC_FUNCTION_INTERPRETED, MAGIC_MACRO,
         MAGIC_BUILTIN_CLASS, MAGIC_STANDARD_CLASS, MAGIC_PROCESS, MAGIC_BLOCK_EXIT, MAGIC_CLASS_INSTANCE,
         MAGIC_CATCH_EXIT, MAGIC_GO_EXIT, MAGIC_VECTOR, MAGIC_BIGNUM, MAGIC_STREAM

\* The words with values and with pointers are words of the object, and not
\* the same ones.
LEMMA WordsOf ==
  ASSUME NEW k, NEW u, Layout(k, u)
  PROVE  /\ \A i \in Values(k, u) : i \in 1..Len(u)
         /\ \A p \in Pointers(k, u) : p[1] \in 1..Len(u) /\ p[1] \in {2, 4} /\ p[1] \notin Values(k, u)
         /\ Pointers(k, u) # {} => Values(k, u) = {} \/ k = STREAM_STRUCT
<1>1. CASE k = TAG_INSTANCE
  <2>1. Values(k, u) = InstanceValues(u[1]) /\ Len(u) = 4
    BY <1>1, ValueTable, LayoutTable
  <2>2. \A p \in Pointers(k, u) : p[1] \in {2, 4} /\ u[1] \in PointedMagics
    <3>1. u[1] \in PointedMagics \/ Pointers(k, u) = {}
      BY <1>1, PointerTable
    <3>2. \A p \in Pointers(k, u) : p \in {<<2, VECTOR_BLOCK>>, <<4, RAW_BLOCK>>, <<2, STREAM_STRUCT>>}
      BY <1>1, <3>1, PointerTable DEF PointedMagics
    <3> QED
      BY <3>1, <3>2
  <2> QED
    BY <2>1, <2>2, InstanceTable
<1>2. CASE k = STREAM_STRUCT
  <2>1. Values(k, u) = {4, 5, 6} /\ Len(u) = 6
    BY <1>2, ValueTable, LayoutTable
  <2>2. \A p \in Pointers(k, u) : p[1] = 2
    BY <1>2, PointerTable
  <2> QED
    BY <1>2, <2>1, <2>2
<1>3. CASE k # TAG_INSTANCE /\ k # STREAM_STRUCT
  <2>1. Pointers(k, u) = {}
    BY <1>3, NoPointers
  <2>2. CASE k = TAG_CONS
    BY <2>1, <2>2, ValueTable, LayoutTable
  <2>3. CASE k = TAG_SYMBOL
    BY <2>1, <2>3, ValueTable, LayoutTable
  <2>4. CASE k = VECTOR_BLOCK
    <3>1. Values(k, u) = (2 + u[1])..Len(u) /\ u[1] \in Nat
      BY <2>4, ValueTable, LayoutTable
    <3> QED
      BY <2>1, <3>1
  <2>5. CASE k \notin {TAG_CONS, TAG_SYMBOL, VECTOR_BLOCK}
    <3>1. Values(k, u) = {}
      BY <1>3, <2>5, ValueTable
    <3> QED
      BY <2>1, <3>1
  <2> QED
    BY <2>2, <2>3, <2>4, <2>5
<1> QED
  BY <1>1, <1>2, <1>3

\* A value word is overwritten.
LEMMA ValueWritten ==
  ASSUME NEW k, NEW u, Layout(k, u), NEW i \in Values(k, u), NEW x \in Int
  PROVE  Same(k, u, [u EXCEPT ![i] = x])
<1>0. PICK v : v = [u EXCEPT ![i] = x]
  OBVIOUS
<1> SUFFICES Same(k, u, v)
  BY <1>0
<1>1. u \in Seq(Int) /\ i \in 1..Len(u)
  BY WordsOf DEF Layout
<1>2. v \in Seq(Int) /\ Len(v) = Len(u) /\ \A j \in 1..Len(u) : j # i => v[j] = u[j]
  BY <1>0, <1>1
<1>3. CASE k = TAG_INSTANCE
  <2>1. i \in {2, 3, 4} /\ Len(u) = 4 /\ u[1] \notin PointedMagics /\ Tag(u[1]) # TAG_FORWARD
    BY <1>3, ValueTable, LayoutTable, InstanceTable
  <2>2. v[1] = u[1] /\ u[1] # MAGIC_BIGNUM
    BY <1>2, <2>1 DEF PointedMagics
  <2>3. Layout(k, v)
    BY <1>2, <1>3, <2>1, <2>2, LayoutTable
  <2>4. Values(k, v) = Values(k, u)
    BY <1>3, <2>2, ValueTable
  <2>5. Pointers(k, v) = {} /\ Pointers(k, u) = {}
    BY <1>3, <2>1, <2>2, PointerTable
  <2> QED
    BY <2>3, <2>4, <2>5 DEF Same
<1>4. CASE k = STREAM_STRUCT
  <2>1. i \in {4, 5, 6} /\ Len(u) = 6 /\ (u[1] # 0 => u[3] \in Nat \ {0})
    BY <1>4, ValueTable, LayoutTable
  <2>2. v[1] = u[1] /\ v[2] = u[2] /\ v[3] = u[3]
    BY <1>2, <2>1
  <2>3. Layout(k, v)
    BY <1>2, <1>4, <2>1, <2>2, LayoutTable
  <2>4. Values(k, v) = Values(k, u)
    BY <1>4, ValueTable
  <2>5. Pointers(k, v) = Pointers(k, u)
    BY <1>4, <2>2, PointerTable
  <2> QED
    BY <2>3, <2>4, <2>5 DEF Same
<1>5. CASE k = VECTOR_BLOCK
  <2>0. /\ u[1] \in Nat /\ VectorTotal(u) \in Nat /\ Len(u) = 1 + u[1] + VectorTotal(u)
        /\ i \in (2 + u[1])..Len(u)
    BY <1>5, ValueTable, LayoutTable
  <2>1. v[1] = u[1] /\ \A j \in 1..u[1] : v[1 + j] = u[1 + j]
    <3>1. 1 \in 1..Len(u) /\ 1 # i
      BY <2>0
    <3>2. ASSUME NEW j \in 1..u[1] PROVE 1 + j \in 1..Len(u) /\ 1 + j # i
      BY <2>0
    <3> QED
      BY <1>2, <3>1, <3>2
  <2>2. Dimensions(v) = Dimensions(u)
    BY <2>0, <2>1 DEF Dimensions
  <2>3. VectorTotal(v) = VectorTotal(u)
    BY <2>2 DEF VectorTotal
  <2>4. Layout(k, v)
    BY <1>2, <1>5, <2>0, <2>1, <2>3, LayoutTable
  <2>5. Values(k, v) = Values(k, u)
    BY <1>2, <1>5, <2>1, ValueTable
  <2>6. Pointers(k, v) = {} /\ Pointers(k, u) = {}
    BY <1>5, NoPointers
  <2> QED
    BY <2>4, <2>5, <2>6 DEF Same
<1>6. CASE k = TAG_CONS
  <2>1. Layout(k, v)
    BY <1>2, <1>6, LayoutTable
  <2>2. Values(k, v) = Values(k, u)
    BY <1>6, ValueTable
  <2>3. Pointers(k, v) = {} /\ Pointers(k, u) = {}
    BY <1>6, NoPointers
  <2> QED
    BY <2>1, <2>2, <2>3 DEF Same
<1>7. CASE k = TAG_SYMBOL
  <2>1. Layout(k, v)
    BY <1>2, <1>7, LayoutTable
  <2>2. Values(k, v) = Values(k, u)
    BY <1>7, ValueTable
  <2>3. Pointers(k, v) = {} /\ Pointers(k, u) = {}
    BY <1>7, NoPointers
  <2> QED
    BY <2>1, <2>2, <2>3 DEF Same
<1>8. k \in {TAG_CONS, TAG_SYMBOL, TAG_INSTANCE, STREAM_STRUCT, VECTOR_BLOCK}
  BY ValueTable
<1> QED
  BY <1>3, <1>4, <1>5, <1>6, <1>7, <1>8

\* A pointer is overwritten.
LEMMA PointerWritten ==
  ASSUME NEW k, NEW u, Layout(k, u), NEW p \in Pointers(k, u), NEW x \in Int \ {0}
  PROVE  Same(k, u, [u EXCEPT ![p[1]] = x])
<1>0. PICK i, v : i = p[1] /\ v = [u EXCEPT ![p[1]] = x]
  OBVIOUS
<1> SUFFICES Same(k, u, v)
  BY <1>0
<1>1. u \in Seq(Int) /\ i \in 1..Len(u) /\ i \in {2, 4}
  BY <1>0, WordsOf DEF Layout
<1>2. v \in Seq(Int) /\ Len(v) = Len(u) /\ v[i] = x /\ \A j \in 1..Len(u) : j # i => v[j] = u[j]
  BY <1>0, <1>1
<1>3. CASE k = TAG_INSTANCE
  <2>1. /\ Len(u) = 4 /\ Tag(u[1]) # TAG_FORWARD /\ (u[1] = MAGIC_BIGNUM => u[3] \in Nat)
        /\ u[1] \in PointedMagics
    BY <1>3, LayoutTable, PointerTable
  <2>2. v[1] = u[1] /\ v[3] = u[3]
    BY <1>1, <1>2, <2>1
  <2>3. u[1] = MAGIC_VECTOR => u[2] # 0 /\ i = 2 /\ v[2] # 0
    BY <1>0, <1>2, <1>3, PointerTable
  <2>4. Layout(k, v)
    BY <1>2, <1>3, <2>1, <2>2, LayoutTable
  <2>5. Values(k, v) = Values(k, u)
    BY <1>3, <2>2, ValueTable
  <2>6. Pointers(k, v) = Pointers(k, u)
    BY <1>3, <2>1, <2>2, <2>3, PointerTable DEF PointedMagics
  <2> QED
    BY <2>4, <2>5, <2>6 DEF Same
<1>4. CASE k = STREAM_STRUCT
  <2>1. i = 2 /\ Len(u) = 6 /\ (u[1] # 0 => u[3] \in Nat \ {0})
    BY <1>0, <1>4, LayoutTable, PointerTable
  <2>2. v[1] = u[1] /\ v[3] = u[3]
    BY <1>2, <2>1
  <2>3. Layout(k, v)
    BY <1>2, <1>4, <2>1, <2>2, LayoutTable
  <2>4. Values(k, v) = Values(k, u)
    BY <1>4, ValueTable
  <2>5. Pointers(k, v) = Pointers(k, u)
    BY <1>4, <2>2, PointerTable
  <2> QED
    BY <2>3, <2>4, <2>5 DEF Same
<1>5. k \in {TAG_INSTANCE, STREAM_STRUCT}
  BY NoPointers
<1> QED
  BY <1>3, <1>4, <1>5
-----------------------------------------------------------------------------
(***************************************************************************)
(* An object is copied: gc_copy_value up to the value it returns.          *)
(***************************************************************************)
\* l knows all that k knows.
Extends(k, l) == \A x \in DOMAIN k : x \in DOMAIN l /\ l[x] = k[x]

\* What was well placed stays so when addresses are added, and so is its copy.
LEMMA PlacedStays ==
  ASSUME NEW k, NEW l, Extends(k, l), NEW u, NEW a \in DOMAIN k, NEW b, l[b] = k[a], WellPlaced(u, a, k)
  PROVE  WellPlaced(u, b, l)
<1>1. \A v : IsValue(v, k) => IsValue(v, l)
  BY DEF IsValue, Extends
<1> QED
  BY <1>1 DEF WellPlaced, Extends

LEMMA ValueStays ==
  ASSUME NEW k, NEW l, Extends(k, l), NEW v, IsValue(v, k)
  PROVE  IsValue(v, l)
  BY DEF IsValue, Extends

\* A pointer points to a block.
LEMMA PointsToBlock ==
  ASSUME NEW k, NEW u, NEW p \in Pointers(k, u)
  PROVE  p[2] \notin ObjectKinds
<1>1. p \in {<<2, VECTOR_BLOCK>>, <<4, RAW_BLOCK>>, <<2, STREAM_STRUCT>>, <<2, RAW_BLOCK>>}
  BY DEF Pointers
<1> QED
  BY <1>1, KindNumbers

LEMMA ObjectWords ==
  ASSUME NEW k \in ObjectKinds, NEW u, Layout(k, u)
  PROVE  u \in Seq(Int) /\ Len(u) > 0
<1>1. k \in {TAG_CONS, TAG_SYMBOL, TAG_STRING, TAG_INSTANCE}
  BY DEF ObjectKinds
<1> QED
  BY <1>1, LayoutTable

LEMMA OwnedCopied ==
  ASSUME NEW k, NEW m, NEW k2, NEW m2, Owned(m, k),
         \A x, y \in DOMAIN k2 : ~Moved(m2, k2, x) /\ ~Moved(m2, k2, y) =>
           \E v, w \in DOMAIN k : /\ ~Moved(m, k, v) /\ m2[x] = m[v] /\ k2[x] = k[v]
                                  /\ ~Moved(m, k, w) /\ m2[y] = m[w] /\ k2[y] = k[w]
                                  /\ v = w => x = y
  PROVE  Owned(m2, k2)
<1>1. ASSUME NEW x \in DOMAIN k2, NEW y \in DOMAIN k2, ~Moved(m2, k2, x), ~Moved(m2, k2, y),
             NEW r \in Pointers(k2[x], m2[x]), NEW s \in Pointers(k2[y], m2[y]),
             m2[x][r[1]] = m2[y][s[1]]
      PROVE  x = y
  <2>1. PICK v, w \in DOMAIN k : /\ ~Moved(m, k, v) /\ m2[x] = m[v] /\ k2[x] = k[v]
                                 /\ ~Moved(m, k, w) /\ m2[y] = m[w] /\ k2[y] = k[w]
                                 /\ v = w => x = y
    BY <1>1
  <2>2. m[v][r[1]] = m[w][s[1]] /\ r \in Pointers(k[v], m[v]) /\ s \in Pointers(k[w], m[w])
    BY <1>1, <2>1
  <2>3. v = w
    BY <2>1, <2>2 DEF Owned
  <2> QED
    BY <2>1, <2>3
<1> QED
  BY <1>1 DEF Owned

\* The memory when the object at a has been copied to p.
WithCopy(m, a, p) == Put([m EXCEPT ![a][1] = p + TAG_FORWARD], p, m[a])

\* n bytes fit in the To space after p.
Room(p, n) == n \in Nat \ {0} /\ n % 16 = 0 /\ p + n <= to_start + Half

ObjectCopied(K, k, m2, g2, p2, q2, kind) ==
  /\ CoreAt(K, KindAt(K, g2), m2, g2, p2, q2, black, fields)
  /\ Extends(k, KindAt(K, g2)) /\ KindAt(K, g2)[to_ptr] = kind /\ to_ptr \in DOMAIN KindAt(K, g2)

LEMMA CopyObject ==
  ASSUME Spaces, NEW K, NEW k, k = Kinds(K), Now(K),
         NEW a \in DOMAIN origin, InFrom(a), k[a] \in ObjectKinds, ~Moved(mem, k, a),
         NEW n, Room(to_ptr, n)
  PROVE  ObjectCopied(K, k, WithCopy(mem, a, to_ptr), Put(origin, to_ptr, origin[a]), to_ptr + n,
                      Append(queue, to_ptr + k[a]), k[a])
<1> SUFFICES ASSUME NEW m2, m2 = WithCopy(mem, a, to_ptr),
                    NEW g2, g2 = Put(origin, to_ptr, origin[a]), NEW k2, k2 = KindAt(K, g2),
                    NEW q2, q2 = Append(queue, to_ptr + k[a])
             PROVE  /\ CoreAt(K, k2, m2, g2, to_ptr + n, q2, black, fields)
                    /\ Extends(k, k2) /\ k2[to_ptr] = k[a] /\ to_ptr \in DOMAIN k2
  BY DEF ObjectCopied
<1>00. CoreAt(K, k, mem, origin, to_ptr, queue, black, fields)
  BY DEF Now, Core, Kinds
<1>0. n \in Nat \ {0} /\ n % 16 = 0 /\ to_ptr + n <= to_start + Half
  BY DEF Room
<1>1. /\ DOMAIN k = DOMAIN origin /\ DOMAIN mem = DOMAIN origin /\ a \in Int /\ to_ptr \in Int /\ to_ptr % 16 = 0
      /\ InTo(to_ptr) /\ ~InFrom(to_ptr) /\ to_ptr \notin DOMAIN origin /\ a # to_ptr /\ ~InTo(a)
      /\ \A x \in DOMAIN origin : x \in Int /\ x % 16 = 0 /\ (InFrom(x) \/ InTo(x))
  <2>1. /\ DOMAIN mem = DOMAIN origin /\ to_ptr \in Int /\ to_ptr % 16 = 0 /\ to_start <= to_ptr
        /\ \A x \in DOMAIN origin : x \in Int /\ x % 16 = 0 /\ (InFrom(x) \/ (InTo(x) /\ x < to_ptr))
    BY <1>00 DEF CoreAt, Places
  <2>2. DOMAIN k = DOMAIN origin
    BY DEF KindAt, Kinds
  <2>3. InTo(to_ptr)
    <3>1. to_start \in Int /\ Half \in Int /\ to_start <= to_ptr /\ to_ptr \in Int /\ n \in Int /\ n > 0 /\ to_ptr + n <= to_start + Half
      BY <1>0, <2>1, SpacesApart
    <3> QED
      BY <3>1 DEF InTo
  <2>4. to_ptr \notin DOMAIN origin
    BY <2>1, <2>3, SpacesApart
  <2>5. a \in Int /\ ~InFrom(to_ptr) /\ ~InTo(a)
    <3>1. a \in Int /\ to_ptr \in Int
      BY <2>1
    <3> QED
      BY <2>3, <3>1, Apart
  <2>6. a # to_ptr
    BY <2>4
  <2> QED
    BY <2>1, <2>2, <2>3, <2>4, <2>5, <2>6
<1>2. /\ DOMAIN g2 = DOMAIN origin \cup {to_ptr} /\ g2[to_ptr] = origin[a] /\ \A x \in DOMAIN origin : g2[x] = origin[x]
  BY <1>1 DEF Put
<1>3. DOMAIN k2 = DOMAIN origin \cup {to_ptr} /\ k2[to_ptr] = k[a] /\ \A x \in DOMAIN origin : k2[x] = k[x]
  BY <1>1, <1>2 DEF KindAt, Kinds
<1>4. Extends(k, k2)
  BY <1>1, <1>3 DEF Extends
<1>5. WellPlaced(mem[a], a, k) /\ Fresh(origin, a) /\ Layout(k[a], mem[a])
  BY <1>00, <1>1 DEF CoreAt, Sound, Forwarding, WellPlaced
<1>6. mem[a] \in Seq(Int) /\ Len(mem[a]) > 0
  BY <1>5, ObjectWords
<1>7. /\ DOMAIN m2 = DOMAIN origin \cup {to_ptr} /\ m2[to_ptr] = mem[a] /\ m2[a][1] = to_ptr + TAG_FORWARD
      /\ \A x \in DOMAIN origin : x # a => m2[x] = mem[x]
  BY <1>1, <1>6 DEF Put, WithCopy
<1>8. Forwarded(m2[a][1]) /\ Addr(m2[a][1]) = to_ptr
  <2>1. PICK w : w = m2[a][1]
    OBVIOUS
  <2>2. w = to_ptr + TAG_FORWARD
    BY <1>7, <2>1
  <2>3. Tag(w) = TAG_FORWARD /\ Addr(w) = to_ptr
    BY <1>1, <2>2, ForwardTag
  <2> QED
    BY <1>1, <2>1, <2>3 DEF Forwarded
<1> DEFINE src(x) == IF x = to_ptr THEN a ELSE x
<1>9. /\ Moved(m2, k2, a) /\ ~Moved(m2, k2, to_ptr)
      /\ \A x \in DOMAIN origin : x # a => (Moved(m2, k2, x) <=> Moved(mem, k, x))
  BY <1>1, <1>3, <1>7, <1>8 DEF Moved
<1>10. ASSUME NEW x \in DOMAIN k2, ~Moved(m2, k2, x)
       PROVE  /\ x # a /\ src(x) \in DOMAIN k /\ ~Moved(mem, k, src(x))
              /\ m2[x] = mem[src(x)] /\ k2[x] = k[src(x)] /\ g2[x] = origin[src(x)]
  BY <1>1, <1>2, <1>3, <1>7, <1>9, <1>10
<1>11. Places(K, m2, g2, to_ptr + n)
  <2>1. to_ptr + n \in Int /\ (to_ptr + n) % 16 = 0 /\ to_start <= to_ptr + n /\ to_ptr + n <= to_start + Half /\ to_ptr < to_ptr + n
    <3>1. to_start \in Int /\ to_start <= to_ptr /\ to_ptr \in Int /\ to_ptr % 16 = 0 /\ n \in Int /\ n > 0 /\ n % 16 = 0
      BY <1>00, <1>0, SpacesApart DEF CoreAt, Places
    <3>2. (to_ptr + n) % 16 = 0
      BY <3>1, Aligned
    <3> QED
      BY <1>0, <3>1, <3>2
  <2>2. g2[to_ptr] \in DOMAIN K
    BY <1>00, <1>2 DEF CoreAt, Places
  <2>3. ASSUME NEW x \in DOMAIN origin
        PROVE  /\ x \in Int /\ x % 16 = 0 /\ g2[x] \in DOMAIN K
               /\ InFrom(x) \/ (InTo(x) /\ x < to_ptr + n)
    <3>1. /\ x \in Int /\ x % 16 = 0 /\ origin[x] \in DOMAIN K
          /\ InFrom(x) \/ (InTo(x) /\ x < to_ptr)
      BY <1>00 DEF CoreAt, Places
    <3> QED
      BY <1>1, <1>2, <2>1, <3>1
  <2> QED
    BY <1>1, <1>2, <1>7, <2>1, <2>2, <2>3 DEF Places
<1>12. OneEach(g2)
  BY <1>00, <1>1, <1>2, <1>5 DEF OneEach, Fresh, CoreAt
<1>13. Sound(m2, k2)
  <2> SUFFICES ASSUME NEW x \in DOMAIN k2, ~Moved(m2, k2, x) PROVE WellPlaced(m2[x], x, k2)
    BY DEF Sound
  <2>1. WellPlaced(mem[src(x)], src(x), k)
    BY <1>00, <1>10 DEF CoreAt, Sound
  <2>2. PICK y, u : y = src(x) /\ u = m2[x]
    OBVIOUS
  <2>3. y \in DOMAIN k /\ k2[x] = k[y] /\ WellPlaced(u, y, k)
    BY <1>10, <2>1, <2>2
  <2>4. WellPlaced(u, x, k2)
    BY <1>4, <2>3, PlacedStays
  <2> QED
    BY <2>2, <2>4
<1>14. ASSUME NEW x \in DOMAIN origin, ~InTo(x), x # a, Fresh(origin, x) PROVE Fresh(g2, x)
  BY <1>00, <1>1, <1>2, <1>14 DEF Fresh, OneEach, CoreAt
<1>15. Forwarding(m2, k2, g2)
  <2> SUFFICES ASSUME NEW x \in DOMAIN k2, k2[x] \in ObjectKinds, InFrom(x)
               PROVE  IF Moved(m2, k2, x) THEN Addr(m2[x][1]) \in DOMAIN k2 /\ g2[Addr(m2[x][1])] = g2[x]
                      ELSE Fresh(g2, x)
    BY DEF Forwarding
  <2>1. CASE x = a
    BY <1>2, <1>3, <1>8, <1>9, <2>1
  <2>2. CASE x # a
    <3>0. x # to_ptr
      BY <1>1
    <3>1. x \in DOMAIN origin /\ k[x] = k2[x] /\ m2[x] = mem[x] /\ g2[x] = origin[x] /\ x \in DOMAIN k
      BY <1>1, <1>2, <1>3, <1>7, <2>2, <3>0
    <3>3. ~InTo(x)
      BY <1>1, <3>1, SpacesApart
    <3>2. IF Moved(mem, k, x) THEN Addr(mem[x][1]) \in DOMAIN k /\ origin[Addr(mem[x][1])] = origin[x] ELSE Fresh(origin, x)
      BY <1>00, <3>1 DEF CoreAt, Forwarding
    <3> QED
      <4>1. CASE Moved(mem, k, x)
        BY <1>1, <1>2, <1>3, <1>9, <2>2, <3>1, <3>2, <4>1
      <4>2. CASE ~Moved(mem, k, x)
        BY <1>9, <1>14, <2>2, <3>3, <3>1, <3>2, <4>2
      <4> QED
        BY <4>1, <4>2
  <2> QED
    BY <2>1, <2>2
<1>16. Owned(m2, k2)
  <2>1. Owned(mem, k)
    BY <1>00 DEF CoreAt
  <2>2. ASSUME NEW x \in DOMAIN k2, NEW y \in DOMAIN k2, ~Moved(m2, k2, x), ~Moved(m2, k2, y)
        PROVE  \E v, w \in DOMAIN k : /\ ~Moved(mem, k, v) /\ m2[x] = mem[v] /\ k2[x] = k[v]
                                      /\ ~Moved(mem, k, w) /\ m2[y] = mem[w] /\ k2[y] = k[w]
                                      /\ v = w => x = y
    <3>1. PICK v, w : v = src(x) /\ w = src(y)
      OBVIOUS
    <3> QED
      BY <1>10, <2>2, <3>1
  <2> QED
    BY <2>1, <2>2, OwnedCopied
<1>17. \A t \in 0..15 : to_ptr + t \notin black
  <2>1. \A w \in black : Addr(w) \in DOMAIN k
    BY <1>00 DEF CoreAt, Queued, Copied
  <2> QED
    BY <1>1, <2>1, Tagged, ZenonT(30)
<1>18. a + k[a] \notin black
  <2>1. \A w \in black : InTo(Addr(w))
    BY <1>00 DEF CoreAt, Queued, Copied
  <2>2. Addr(a + k[a]) = a
    BY <1>1, Tagged, KindNumbers
  <2> QED
    BY <1>1, <2>1, <2>2
<1>19. Waiting(m2, k2, g2, black)
  <2> SUFFICES ASSUME NEW x \in DOMAIN k2, ~Moved(m2, k2, x), NEW r \in Pointers(k2[x], m2[x]),
                      IF k2[x] \in ObjectKinds THEN x + k2[x] \notin black ELSE InFrom(x) /\ Fresh(g2, x)
               PROVE  InFrom(m2[x][r[1]]) /\ Fresh(g2, m2[x][r[1]])
    BY DEF Waiting
  <2>1. PICK y, t : y = src(x) /\ t = m2[x][r[1]]
    OBVIOUS
  <2>2. y \in DOMAIN k /\ ~Moved(mem, k, y) /\ r \in Pointers(k[y], mem[y]) /\ t = mem[y][r[1]]
    BY <1>10, <2>1
  <2>3. IF k[y] \in ObjectKinds THEN y + k[y] \notin black ELSE InFrom(y) /\ Fresh(origin, y)
    <3>1. CASE x = to_ptr
      BY <1>3, <1>18, <2>1, <3>1
    <3>2. CASE x # to_ptr
      <4>1. y = x /\ k2[x] = k[y] /\ x \in DOMAIN origin /\ g2[x] = origin[x]
        BY <1>2, <1>3, <2>1, <3>2
      <4>2. Fresh(g2, x) => Fresh(origin, x)
        BY <1>2, <4>1 DEF Fresh
      <4> QED
        BY <4>1, <4>2
    <3> QED
      BY <3>1, <3>2
  <2>4. InFrom(t) /\ Fresh(origin, t)
    BY <1>00, <2>2, <2>3 DEF CoreAt, Waiting
  <2>5. t \in DOMAIN k /\ k[t] \notin ObjectKinds
    <3>1. WellPlaced(mem[y], y, k)
      BY <1>00, <2>2 DEF CoreAt, Sound
    <3> QED
      BY <2>2, <3>1, PointsToBlock DEF WellPlaced
  <2> QED
    BY <1>1, <1>14, <2>1, <2>4, <2>5, SpacesApart
<1>20. Done(m2, k2, black, fields)
  <2> SUFFICES ASSUME NEW x \in DOMAIN k2, Scanned(k2, black, x)
               PROVE  /\ \A i \in Values(k2[x], m2[x]) : Refers(m2[x][i]) \/ \E j \in 1..Len(fields) : fields[j] = <<x, i>>
                      /\ \A r \in Pointers(k2[x], m2[x]) : InTo(m2[x][r[1]])
    BY DEF Done
  <2>1. x # to_ptr /\ x # a
    BY <1>1, <1>3, <1>17, KindNumbers DEF Scanned
  <2>2. x \in DOMAIN k /\ k2[x] = k[x] /\ m2[x] = mem[x] /\ Scanned(k, black, x)
    BY <1>1, <1>3, <1>7, <2>1 DEF Scanned
  <2> QED
    BY <1>00, <2>2 DEF CoreAt, Done
<1>21. Queued(k2, q2, black)
  <2>0. /\ queue \in Seq(Int) /\ black \subseteq Int
        /\ \A w \in black : Copied(k, w)
        /\ \A j \in 1..Len(queue) : Copied(k, queue[j]) /\ queue[j] \notin black
        /\ \A i, j \in 1..Len(queue) : queue[i] = queue[j] => i = j
        /\ \A x \in DOMAIN k : InTo(x) /\ k[x] \in ObjectKinds =>
             x + k[x] \in black \/ \E j \in 1..Len(queue) : queue[j] = x + k[x]
    BY <1>00 DEF CoreAt, Queued
  <2>1. \A w : Copied(k, w) => Copied(k2, w) /\ w # to_ptr + k[a]
    <3>1. Addr(to_ptr + k[a]) = to_ptr
      BY <1>1, Tagged, KindNumbers
    <3> QED
      BY <1>1, <1>4, <3>1 DEF Copied, Extends
  <2>2. Copied(k2, to_ptr + k[a]) /\ to_ptr + k[a] \in Int /\ to_ptr + k[a] \notin black
    BY <1>1, <1>3, <1>17, Tagged, KindNumbers, ZenonT(30) DEF Copied
  <2>3. /\ q2 \in Seq(Int) /\ Len(q2) = Len(queue) + 1 /\ q2[Len(queue) + 1] = to_ptr + k[a]
        /\ \A j \in 1..Len(queue) : q2[j] = queue[j]
    BY <2>0, <2>2
  <2>4. \A j \in 1..Len(q2) : Copied(k2, q2[j]) /\ q2[j] \notin black
    BY <2>0, <2>1, <2>2, <2>3
  <2>5. \A i, j \in 1..Len(q2) : q2[i] = q2[j] => i = j
    BY <2>0, <2>1, <2>3
  <2>6. ASSUME NEW x \in DOMAIN k2, InTo(x), k2[x] \in ObjectKinds
        PROVE  x + k2[x] \in black \/ \E j \in 1..Len(q2) : q2[j] = x + k2[x]
    <3>1. CASE x = to_ptr
      BY <1>3, <2>0, <2>3, <3>1
    <3>2. CASE x # to_ptr
      <4>1. x + k2[x] \in black \/ \E j \in 1..Len(queue) : queue[j] = x + k2[x]
        BY <1>1, <1>3, <2>0, <2>6, <3>2
      <4> QED
        BY <2>0, <2>3, <4>1
    <3> QED
      BY <3>1, <3>2
  <2> QED
    BY <2>0, <2>1, <2>3, <2>4, <2>5, <2>6 DEF Queued
<1>22. Pending(m2, k2, black, fields)
  <2> SUFFICES ASSUME NEW j \in 1..Len(fields)
               PROVE  /\ fields[j][1] \in DOMAIN k2 /\ Scanned(k2, black, fields[j][1])
                      /\ fields[j][2] \in Values(k2[fields[j][1]], m2[fields[j][1]])
    BY <1>00 DEF Pending, CoreAt
  <2>1. PICK x, i : x = fields[j][1] /\ i = fields[j][2]
    OBVIOUS
  <2>2. x \in DOMAIN k /\ Scanned(k, black, x) /\ i \in Values(k[x], mem[x])
    BY <1>00, <2>1 DEF CoreAt, Pending
  <2>3. x \in DOMAIN k2 /\ k2[x] = k[x] /\ m2[x] = mem[x] /\ Scanned(k2, black, x)
    BY <1>1, <1>3, <1>7, <2>2 DEF Scanned
  <2> QED
    BY <2>1, <2>2, <2>3
<1> QED
  BY <1>00, <1>3, <1>4, <1>11, <1>12, <1>13, <1>15, <1>16, <1>19, <1>20, <1>21, <1>22 DEF CoreAt
-----------------------------------------------------------------------------
(***************************************************************************)
(* gc_copy_value(w) for a Lisp value w: unless it stops the machine, what  *)
(* comes back is a value that refers to the To space.                      *)
(***************************************************************************)
\* Copy(w) with names for the new values.
Copying(w, p2, q2, g2) ==
  /\ p2 = IF Moves(w) THEN to_ptr + CopyBytes(w) ELSE to_ptr
  /\ q2 = IF Moves(w) THEN Append(queue, to_ptr + Tag(w)) ELSE queue
  /\ g2 = IF Moves(w) THEN Put(origin, to_ptr, origin[Addr(w)]) ELSE origin

\* What holds of the memory m2 and the value v afterwards.
GoodCopy(K, v, m2, p2, q2, g2) ==
  /\ Core(K, m2, g2, p2, q2, black, fields)
  /\ Extends(Kinds(K), KindAt(K, g2))
  /\ IsValue(v, KindAt(K, g2)) /\ Refers(v)

LEMMA SizePositive ==
  ASSUME NEW k \in ObjectKinds, NEW u, Layout(k, u)
  PROVE  os_heap_align_up(ObjectSize(k, u[1])) \in Nat \ {0} /\ os_heap_align_up(ObjectSize(k, u[1])) % 16 = 0
<1>1. k \in {TAG_CONS, TAG_SYMBOL, TAG_STRING, TAG_INSTANCE}
  BY DEF ObjectKinds
<1>2. k = TAG_STRING => u[1] \in Nat
  BY LayoutTable, GCAssumption
<1>3. ObjectSize(k, u[1]) \in Nat \ {0}
  BY <1>1, <1>2 DEF ObjectSize
<1> QED
  BY <1>3, Rounded

\* A reference that is a value.
LEMMA References ==
  ASSUME NEW k, NEW w, IsValue(w, k), IsRef(w)
  PROVE  /\ w \in Int /\ Tag(w) \in ObjectKinds /\ Tag(w) \in 0..15 /\ Tag(w) # TAG_FORWARD
         /\ Addr(w) \in DOMAIN k /\ k[Addr(w)] = Tag(w)
  BY KindNumbers DEF IsValue

\* The value made of an address and a tag.
LEMMA ValueAt ==
  ASSUME NEW k, NEW x \in DOMAIN k, x \in Int, x % 16 = 0, x > 4096, k[x] \in ObjectKinds, InTo(x)
  PROVE  IsValue(x + k[x], k) /\ Refers(x + k[x]) /\ Addr(x + k[x]) = x /\ Tag(x + k[x]) = k[x]
<1>1. PICK t : t = k[x]
  OBVIOUS
<1>2. t \in 0..15 /\ t \in ObjectKinds
  BY <1>1, KindNumbers
<1>3. x + t \in Int /\ Tag(x + t) = t /\ Addr(x + t) = x
  BY <1>2, Tagged
<1> QED
  BY <1>1, <1>2, <1>3 DEF IsValue, Refers

LEMMA CopyWord ==
  ASSUME NEW K, Spaces, Now(K), NEW w, IsValue(w, Kinds(K)), ~CopyFails(w),
         NEW p2, NEW q2, NEW g2, Copying(w, p2, q2, g2)
  PROVE  GoodCopy(K, gc_copy_value(w), MemAfter(w), p2, q2, g2)
<1> DEFINE k == Kinds(K)
<1>0. CoreAt(K, k, mem, origin, to_ptr, queue, black, fields)
  BY DEF Now, Core, Kinds
<1>1. Followed(w) => IsRef(w) /\ ~InTo(Addr(w))
  BY DEF Followed, IsRef
<1>2. ASSUME NEW x \in DOMAIN k PROVE x \in DOMAIN origin /\ x \in Int /\ x % 16 = 0 /\ (InFrom(x) \/ InTo(x))
  BY <1>0, <1>2 DEF CoreAt, Places, Kinds, KindAt
<1>3. CASE ~Followed(w)
  <2>1. MemAfter(w) = mem /\ gc_copy_value(w) = w /\ p2 = to_ptr /\ q2 = queue /\ g2 = origin
    BY <1>3 DEF Copying, Moves, NeedsCopy, MemAfter, gc_copy_value
  <2>2. Refers(w)
    BY <1>3 DEF Followed, Refers, IsRef
  <2> QED
    BY <2>1, <2>2 DEF GoodCopy, Now, Extends, Kinds
<1>4. CASE Followed(w) /\ Forwarded(mem[Addr(w)][1])
  <2>1. PICK a, y : a = Addr(w) /\ y = Addr(mem[a][1])
    OBVIOUS
  <2>2. MemAfter(w) = mem /\ gc_copy_value(w) = y + Tag(w) /\ p2 = to_ptr /\ q2 = queue /\ g2 = origin
    BY <1>4, <2>1 DEF Copying, Moves, NeedsCopy, MemAfter, gc_copy_value
  <2>3. a \in DOMAIN k /\ k[a] = Tag(w) /\ Tag(w) \in ObjectKinds /\ InFrom(a)
    BY <1>1, <1>2, <1>4, <2>1, References DEF Kinds
  <2>4. Moved(mem, k, a)
    BY <1>4, <2>1, <2>3 DEF Moved
  <2>5. y \in DOMAIN k /\ origin[y] = origin[a] /\ InTo(y)
    BY <1>0, <1>4, <2>1, <2>3, <2>4 DEF CoreAt, Forwarding, Forwarded
  <2>6. k[y] = Tag(w)
    BY <2>3, <2>5 DEF Kinds, KindAt
  <2>7. y \in Int /\ y % 16 = 0 /\ y > 4096
    BY <1>2, <2>5, SpacesApart DEF InTo
  <2>8. IsValue(y + k[y], k) /\ Refers(y + k[y])
    BY <2>3, <2>5, <2>6, <2>7, ValueAt
  <2> QED
    BY <2>2, <2>6, <2>8 DEF GoodCopy, Now, Extends, Kinds
<1>5. CASE Followed(w) /\ ~Forwarded(mem[Addr(w)][1])
  <2>1. PICK a, n : a = Addr(w) /\ n = CopyBytes(w)
    OBVIOUS
  <2>2. a \in DOMAIN k /\ k[a] = Tag(w) /\ Tag(w) \in ObjectKinds /\ Tag(w) # TAG_FORWARD /\ InFrom(a)
    BY <1>1, <1>2, <1>5, <2>1, References DEF Kinds
  <2>3. Moves(w)
    BY <1>5, <2>2 DEF CopyFails, NeedsCopy
  <2>4. /\ MemAfter(w) = WithCopy(mem, a, to_ptr) /\ gc_copy_value(w) = to_ptr + k[a] /\ p2 = to_ptr + n
        /\ q2 = Append(queue, to_ptr + k[a]) /\ g2 = Put(origin, to_ptr, origin[a])
    BY <1>5, <2>1, <2>2, <2>3 DEF Copying, MemAfter, gc_copy_value, WithCopy
  <2>5. ~Moved(mem, k, a)
    BY <1>5, <2>1 DEF Moved
  <2>6. Layout(k[a], mem[a])
    BY <1>0, <2>2, <2>5 DEF CoreAt, Sound, WellPlaced
  <2>7. n \in Nat \ {0} /\ n % 16 = 0
    BY <2>1, <2>2, <2>6, SizePositive DEF CopyBytes
  <2>8. to_ptr + n <= to_start + Half
    BY <2>1, <2>3 DEF Moves, gc_to_alloc_fits
  <2>9. PICK l : l = KindAt(K, g2)
    OBVIOUS
  <2>10. /\ CoreAt(K, l, MemAfter(w), g2, to_ptr + n, q2, black, fields)
         /\ Extends(k, l) /\ l[to_ptr] = k[a] /\ to_ptr \in DOMAIN l
    <3>1. Room(to_ptr, n)
      BY <2>7, <2>8 DEF Room
    <3>2. a \in DOMAIN origin
      BY <1>2, <2>2
    <3>3. PICK c : c = Kinds(K)
      OBVIOUS
    <3>4. ObjectCopied(K, c, WithCopy(mem, a, to_ptr), Put(origin, to_ptr, origin[a]), to_ptr + n,
                       Append(queue, to_ptr + c[a]), c[a])
      BY <2>2, <2>5, <3>1, <3>2, <3>3, CopyObject
    <3> QED
      BY <2>4, <2>9, <3>3, <3>4 DEF ObjectCopied
  <2>11. to_ptr \in Int /\ to_ptr % 16 = 0 /\ to_ptr > 4096 /\ InTo(to_ptr)
    BY <1>0, <2>7, <2>8, SpacesApart DEF CoreAt, Places, InTo
  <2>12. IsValue(to_ptr + l[to_ptr], l) /\ Refers(to_ptr + l[to_ptr])
    BY <2>2, <2>10, <2>11, ValueAt
  <2> QED
    BY <2>4, <2>9, <2>10, <2>12 DEF GoodCopy, Core
<1> QED
  BY <1>3, <1>4, <1>5
-----------------------------------------------------------------------------
(***************************************************************************)
(* The copied value is stored back into a word of the object scanned.      *)
(***************************************************************************)
LEMMA SetSlot ==
  ASSUME Spaces, NEW K, NEW k, NEW m, NEW g, NEW p, NEW q, NEW bl, NEW f,
         k = KindAt(K, g), CoreAt(K, k, m, g, p, q, bl, f), f # <<>>,
         NEW x, NEW i, f[1] = <<x, i>>, NEW v, IsValue(v, k), Refers(v)
  PROVE  CoreAt(K, k, [m EXCEPT ![x][i] = v], g, p, q, bl, Tail(f))
<1>1. PICK m2, u, u2, f2 : m2 = [m EXCEPT ![x][i] = v] /\ u = m[x] /\ u2 = [u EXCEPT ![i] = v] /\ f2 = Tail(f)
  OBVIOUS
<1> SUFFICES CoreAt(K, k, m2, g, p, q, bl, f2)
  BY <1>1
<1>2. f \in Seq(Int \X Int) /\ 1 \in 1..Len(f)
  BY DEF CoreAt, Pending
<1>3. x \in DOMAIN k /\ Scanned(k, bl, x) /\ i \in Values(k[x], u) /\ InTo(x)
  BY <1>1, <1>2 DEF CoreAt, Pending, Scanned
<1>4. DOMAIN k = DOMAIN g /\ DOMAIN m = DOMAIN g /\ x \in Int
  BY <1>3 DEF CoreAt, Places, KindAt
<1>5. DOMAIN m2 = DOMAIN g /\ m2[x] = u2 /\ \A y \in DOMAIN g : y # x => m2[y] = m[y]
  BY <1>1, <1>3, <1>4
<1>6. ~Moved(m, k, x) /\ ~Moved(m2, k, x)
  BY <1>3, <1>4, Apart DEF Moved
<1>7. WellPlaced(u, x, k) /\ Layout(k[x], u)
  BY <1>1, <1>3, <1>6 DEF CoreAt, Sound, WellPlaced
<1>8. Layout(k[x], u2) /\ Values(k[x], u2) = Values(k[x], u) /\ Pointers(k[x], u2) = Pointers(k[x], u)
  BY <1>1, <1>3, <1>7, ValueWritten DEF Same, IsValue
<1>9. u \in Seq(Int) /\ i \in 1..Len(u) /\ \A r \in Pointers(k[x], u) : r[1] \in 1..Len(u) /\ r[1] # i
  BY <1>3, <1>7, WordsOf DEF Layout
<1>10. u2[i] = v /\ \A j \in 1..Len(u) : j # i => u2[j] = u[j]
  BY <1>1, <1>9
<1>11. \A y \in DOMAIN k : Moved(m2, k, y) <=> Moved(m, k, y)
  BY <1>4, <1>5, <1>6 DEF Moved
<1>12. ASSUME NEW y \in DOMAIN k
       PROVE  /\ Pointers(k[y], m2[y]) = Pointers(k[y], m[y])
              /\ \A r \in Pointers(k[y], m[y]) : m2[y][r[1]] = m[y][r[1]]
              /\ Values(k[y], m2[y]) = Values(k[y], m[y])
              /\ \A j \in Values(k[y], m[y]) : IF y = x /\ j = i THEN m2[y][j] = v ELSE m2[y][j] = m[y][j]
  <2>1. CASE y = x
    <3>1. \A j \in Values(k[x], u) : j \in 1..Len(u)
      BY <1>7, WordsOf
    <3> QED
      BY <1>1, <1>5, <1>8, <1>9, <1>10, <2>1, <3>1
  <2>2. CASE y # x
    BY <1>4, <1>5, <2>2
  <2> QED
    BY <2>1, <2>2
<1>13. Places(K, m2, g, p) /\ OneEach(g) /\ Queued(k, q, bl)
  BY <1>4, <1>5 DEF CoreAt, Places
<1>14. Sound(m2, k)
  <2> SUFFICES ASSUME NEW y \in DOMAIN k, ~Moved(m2, k, y) PROVE WellPlaced(m2[y], y, k)
    BY DEF Sound
  <2>1. WellPlaced(m[y], y, k)
    BY <1>11 DEF CoreAt, Sound
  <2>2. CASE y = x
    <3>1. PICK kx : kx = k[x]
      OBVIOUS
    <3>2. ASSUME NEW j \in Values(kx, u2) PROVE IsValue(u2[j], k)
      <4>1. j \in Values(kx, u) /\ j \in 1..Len(u) /\ IsValue(u[j], k)
        BY <1>7, <1>8, <3>1, <3>2, WordsOf DEF WellPlaced
      <4> QED
        BY <1>10, <4>1
    <3>3. ASSUME NEW r \in Pointers(kx, u2) PROVE u2[r[1]] \in DOMAIN k /\ k[u2[r[1]]] = r[2]
      <4>1. r \in Pointers(kx, u) /\ u2[r[1]] = u[r[1]]
        BY <1>8, <1>9, <1>10, <3>1, <3>3
      <4> QED
        BY <1>7, <3>1, <4>1 DEF WellPlaced
    <3> QED
      BY <1>5, <1>4, <1>8, <2>2, <3>1, <3>2, <3>3 DEF WellPlaced
  <2>3. CASE y # x
    BY <1>4, <1>5, <2>1, <2>3
  <2> QED
    BY <2>2, <2>3
<1>15. Forwarding(m2, k, g)
  <2> SUFFICES ASSUME NEW y \in DOMAIN k, k[y] \in ObjectKinds, InFrom(y)
               PROVE  IF Moved(m2, k, y) THEN Addr(m2[y][1]) \in DOMAIN k /\ g[Addr(m2[y][1])] = g[y]
                      ELSE Fresh(g, y)
    BY DEF Forwarding
  <2>1. y # x
    BY <1>3, <1>4, Apart
  <2>2. m2[y] = m[y] /\ (Moved(m2, k, y) <=> Moved(m, k, y))
    BY <1>4, <1>5, <1>11, <2>1
  <2> QED
    BY <2>2 DEF CoreAt, Forwarding
<1>16. Owned(m2, k)
  <2>1. Owned(m, k)
    BY DEF CoreAt
  <2> QED
    BY <1>11, <1>12, <2>1 DEF Owned
<1>17. Waiting(m2, k, g, bl)
  <2> SUFFICES ASSUME NEW y \in DOMAIN k, ~Moved(m2, k, y), NEW r \in Pointers(k[y], m2[y]),
                      IF k[y] \in ObjectKinds THEN y + k[y] \notin bl ELSE InFrom(y) /\ Fresh(g, y)
               PROVE  InFrom(m2[y][r[1]]) /\ Fresh(g, m2[y][r[1]])
    BY DEF Waiting
  <2>1. ~Moved(m, k, y) /\ r \in Pointers(k[y], m[y]) /\ m2[y][r[1]] = m[y][r[1]]
    BY <1>11, <1>12
  <2> QED
    BY <2>1 DEF CoreAt, Waiting
<1>18. f2 \in Seq(Int \X Int) /\ Len(f2) = Len(f) - 1 /\ \A j \in 1..Len(f2) : f2[j] = f[j + 1]
  BY <1>1, <1>2
<1>19. Done(m2, k, bl, f2)
  <2> SUFFICES ASSUME NEW y \in DOMAIN k, Scanned(k, bl, y)
               PROVE  /\ \A j \in Values(k[y], m2[y]) : Refers(m2[y][j]) \/ \E n \in 1..Len(f2) : f2[n] = <<y, j>>
                      /\ \A r \in Pointers(k[y], m2[y]) : InTo(m2[y][r[1]])
    BY DEF Done
  <2>1. /\ \A j \in Values(k[y], m[y]) : Refers(m[y][j]) \/ \E n \in 1..Len(f) : f[n] = <<y, j>>
        /\ \A r \in Pointers(k[y], m[y]) : InTo(m[y][r[1]])
    BY DEF CoreAt, Done
  <2>2. ASSUME NEW j \in Values(k[y], m2[y])
        PROVE  Refers(m2[y][j]) \/ \E n \in 1..Len(f2) : f2[n] = <<y, j>>
    <3>1. j \in Values(k[y], m[y])
      BY <1>12
    <3>2. CASE y = x /\ j = i
      BY <1>12, <3>1, <3>2
    <3>3. CASE ~(y = x /\ j = i)
      <4>1. m2[y][j] = m[y][j]
        BY <1>12, <3>1, <3>3
      <4>2. CASE Refers(m[y][j])
        BY <4>1, <4>2
      <4>3. CASE \E n \in 1..Len(f) : f[n] = <<y, j>>
        <5>1. PICK n \in 1..Len(f) : f[n] = <<y, j>>
          BY <4>3
        <5>2. n # 1
          BY <3>3, <5>1
        <5>3. n - 1 \in 1..Len(f2) /\ f2[n - 1] = f[n]
          BY <1>2, <1>18, <5>2, SMTT(60)
        <5> QED
          BY <5>1, <5>3
      <4> QED
        BY <2>1, <3>1, <4>2, <4>3
    <3> QED
      BY <3>2, <3>3
  <2> QED
    BY <1>12, <2>1, <2>2
<1>20. Pending(m2, k, bl, f2)
  <2> SUFFICES ASSUME NEW j \in 1..Len(f2)
               PROVE  /\ f2[j][1] \in DOMAIN k /\ Scanned(k, bl, f2[j][1])
                      /\ f2[j][2] \in Values(k[f2[j][1]], m2[f2[j][1]])
    BY <1>18 DEF Pending
  <2>1. PICK n, y, o : n = j + 1 /\ y = f[n][1] /\ o = f[n][2]
    OBVIOUS
  <2>2. n \in 1..Len(f) /\ f2[j] = f[n]
    BY <1>2, <1>18, <2>1
  <2>3. y \in DOMAIN k /\ Scanned(k, bl, y) /\ o \in Values(k[y], m[y])
    BY <2>1, <2>2 DEF CoreAt, Pending
  <2>4. o \in Values(k[y], m2[y])
    BY <1>12, <2>3
  <2> QED
    BY <2>1, <2>2, <2>3, <2>4
<1> QED
  BY <1>13, <1>14, <1>15, <1>16, <1>17, <1>19, <1>20 DEF CoreAt
-----------------------------------------------------------------------------
(***************************************************************************)
(* An object is popped from the queue.  Its blocks, if it has any, are     *)
(* copied to the addresses N, s telling from where.                        *)
(***************************************************************************)
\* v is u with its pointers redirected to the copies.
Redirected(u, v, k, N, s) ==
  /\ Layout(k, v) /\ Values(k, v) = Values(k, u) /\ Pointers(k, v) = Pointers(k, u)
  /\ \A i \in Values(k, u) : v[i] = u[i]
  /\ \A r \in Pointers(k, u) : v[r[1]] \in N /\ s[v[r[1]]] = u[r[1]]

\* The blocks to be copied: they belong to the object at a, or to one of themselves.
Blocks(K, a, N, s) ==
  /\ \A n \in N : /\ s[n] \in DOMAIN origin /\ K[origin[s[n]]] \notin ObjectKinds
                  /\ InFrom(s[n]) /\ Fresh(origin, s[n])
                  /\ \E o \in DOMAIN origin :
                       /\ o = a \/ \E j \in N : o = s[j]
                       /\ \E r \in Pointers(K[origin[o]], mem[o]) : mem[o][r[1]] = s[n]
  /\ \A n, j \in N : s[n] = s[j] => n = j

\* The To space up to p2 holds the copies.
Room2(N, p2) ==
  /\ p2 \in Int /\ p2 % 16 = 0 /\ to_ptr <= p2 /\ p2 <= to_start + Half
  /\ \A n \in N : n \in Int /\ n % 16 = 0 /\ to_ptr <= n /\ n < p2

Names(N, s, g2) ==
  /\ DOMAIN g2 = DOMAIN origin \cup N
  /\ \A n \in N : g2[n] = origin[s[n]]
  /\ \A x \in DOMAIN origin \ N : g2[x] = origin[x]

Words(K, a, N, s, m2) ==
  /\ DOMAIN m2 = DOMAIN origin \cup N
  /\ \A n \in N : Redirected(mem[s[n]], m2[n], K[origin[s[n]]], N, s)
  /\ Redirected(mem[a], m2[a], K[origin[a]], N, s)
  /\ \A x \in DOMAIN origin \ {a} : m2[x] = mem[x]

\* What is still to be copied: words of the object or of the copies of its blocks.
Fields(K, a, N, k2, m2, f2) ==
  /\ f2 \in Seq(Int \X Int)
  /\ \A j \in 1..Len(f2) : f2[j][1] \in N \cup {a} /\ f2[j][2] \in Values(k2[f2[j][1]], m2[f2[j][1]])
  /\ \A x \in N \cup {a} : \A i \in Values(k2[x], m2[x]) :
       Refers(m2[x][i]) \/ \E j \in 1..Len(f2) : f2[j] = <<x, i>>

LEMMA RedirectedPlaced ==
  ASSUME NEW k, NEW k2, Extends(k, k2), NEW N, NEW s, \A n \in N : n \in DOMAIN k2 /\ k2[n] = k[s[n]],
         NEW x \in DOMAIN k, NEW y, k2[y] = k[x], NEW u, NEW v, WellPlaced(u, x, k), Redirected(u, v, k[x], N, s)
  PROVE  WellPlaced(v, y, k2)
<1>1. PICK c : c = k[x]
  OBVIOUS
<1>2. Layout(c, v)
  BY <1>1 DEF Redirected
<1>3. ASSUME NEW i \in Values(c, v) PROVE IsValue(v[i], k2)
  <2>1. i \in Values(c, u) /\ v[i] = u[i]
    BY <1>1, <1>3 DEF Redirected
  <2>2. IsValue(u[i], k)
    BY <1>1, <2>1 DEF WellPlaced
  <2> QED
    BY <2>1, <2>2, ValueStays
<1>4. ASSUME NEW r \in Pointers(c, v) PROVE v[r[1]] \in DOMAIN k2 /\ k2[v[r[1]]] = r[2]
  <2>1. PICK n : n = v[r[1]]
    OBVIOUS
  <2>2. r \in Pointers(c, u) /\ n \in N /\ s[n] = u[r[1]]
    BY <1>1, <1>4, <2>1 DEF Redirected
  <2>3. k[u[r[1]]] = r[2]
    BY <1>1, <2>2 DEF WellPlaced
  <2> QED
    BY <2>1, <2>2, <2>3
<1> QED
  BY <1>1, <1>2, <1>3, <1>4 DEF WellPlaced

\* Ownership carries over when every pointer comes from an old one.
LEMMA OwnersKept ==
  ASSUME NEW k, NEW m, NEW k2, NEW m2, Owned(m, k), NEW src,
         \A x \in DOMAIN k2 : ~Moved(m2, k2, x) =>
           /\ src[x] \in DOMAIN k /\ ~Moved(m, k, src[x])
           /\ Pointers(k2[x], m2[x]) = Pointers(k[src[x]], m[src[x]]),
         \A x, y \in DOMAIN k2 : ~Moved(m2, k2, x) /\ ~Moved(m2, k2, y) =>
           \A r \in Pointers(k2[x], m2[x]), t \in Pointers(k2[y], m2[y]) :
             m2[x][r[1]] = m2[y][t[1]] =>
               m[src[x]][r[1]] = m[src[y]][t[1]] /\ (src[x] = src[y] => x = y)
  PROVE  Owned(m2, k2)
<1>1. ASSUME NEW x \in DOMAIN k2, NEW y \in DOMAIN k2, ~Moved(m2, k2, x), ~Moved(m2, k2, y),
             NEW r \in Pointers(k2[x], m2[x]), NEW t \in Pointers(k2[y], m2[y]),
             m2[x][r[1]] = m2[y][t[1]]
      PROVE  x = y
  <2>1. PICK v, w : v = src[x] /\ w = src[y]
    OBVIOUS
  <2>2. /\ v \in DOMAIN k /\ ~Moved(m, k, v) /\ r \in Pointers(k[v], m[v])
        /\ w \in DOMAIN k /\ ~Moved(m, k, w) /\ t \in Pointers(k[w], m[w])
    BY <1>1, <2>1
  <2>3. m[v][r[1]] = m[w][t[1]] /\ (v = w => x = y)
    BY <1>1, <2>1
  <2>4. v = w
    BY <2>2, <2>3 DEF Owned
  <2> QED
    BY <2>3, <2>4
<1> QED
  BY <1>1 DEF Owned
\* What a step that keeps the spaces makes of the invariant.
Onward(K, m2, g2, p2, q2, bl2, f2) ==
  Core(K, m2, g2, p2, q2, bl2, f2) /\ Extends(Kinds(K), KindAt(K, g2))

LEMMA PopObject ==
  ASSUME Spaces, NEW K, Now(K), fields = <<>>, queue # <<>>,
         NEW a, a = Addr(queue[1]), NEW N, NEW s, NEW p2, NEW g2, NEW m2, NEW f2,
         Blocks(K, a, N, s), Room2(N, p2), Names(N, s, g2), Words(K, a, N, s, m2),
         Fields(K, a, N, KindAt(K, g2), m2, f2)
  PROVE  Onward(K, m2, g2, p2, Tail(queue), black \cup {queue[1]}, f2)
<1>0. PICK k, k2, w, q2, bl2 : /\ k = Kinds(K) /\ k2 = KindAt(K, g2) /\ w = queue[1]
                               /\ q2 = Tail(queue) /\ bl2 = black \cup {w}
  OBVIOUS
<1> SUFFICES CoreAt(K, k2, m2, g2, p2, q2, bl2, f2) /\ Extends(k, k2)
  BY <1>0 DEF Core, Onward
<1>1. CoreAt(K, k, mem, origin, to_ptr, queue, black, fields)
  BY <1>0 DEF Now, Core, Kinds
<1>2. /\ DOMAIN k = DOMAIN origin /\ DOMAIN mem = DOMAIN origin
      /\ \A x \in DOMAIN origin : /\ x \in Int /\ x % 16 = 0 /\ origin[x] \in DOMAIN K
                                  /\ k[x] = K[origin[x]]
                                  /\ InFrom(x) \/ (InTo(x) /\ x < to_ptr)
  <2>1. DOMAIN k = DOMAIN origin /\ \A x \in DOMAIN origin : k[x] = K[origin[x]]
    BY <1>0 DEF Kinds, KindAt
  <2> QED
    BY <1>1, <2>1 DEF CoreAt, Places
<1>3. /\ w \in Int /\ Copied(k, w) /\ w \notin black /\ 1 \in 1..Len(queue)
      /\ a \in DOMAIN origin /\ InTo(a) /\ k[a] = Tag(w) /\ k[a] \in ObjectKinds /\ a + k[a] = w
  <2>1. queue \in Seq(Int) /\ 1 \in 1..Len(queue)
    BY <1>1 DEF CoreAt, Queued
  <2>2. w \in Int /\ Copied(k, w) /\ w \notin black
    BY <1>0, <1>1, <2>1 DEF CoreAt, Queued
  <2>3. a = Addr(w) /\ a + Tag(w) = w
    BY <1>0, <2>2, WordParts
  <2> QED
    BY <1>2, <2>1, <2>2, <2>3 DEF Copied
<1>4. ASSUME NEW n \in N
      PROVE  /\ n \in Int /\ n % 16 = 0 /\ to_ptr <= n /\ n < p2 /\ InTo(n) /\ ~InFrom(n) /\ n \notin DOMAIN origin
             /\ g2[n] = origin[s[n]] /\ k2[n] = k[s[n]] /\ s[n] \in DOMAIN origin /\ k[s[n]] \notin ObjectKinds
             /\ InFrom(s[n]) /\ Fresh(origin, s[n])
  <2>1. n \in Int /\ n % 16 = 0 /\ to_ptr <= n /\ n < p2
    BY DEF Room2
  <2>2. to_start <= to_ptr /\ to_ptr \in Int /\ p2 \in Int /\ p2 <= to_start + Half /\ to_start \in Int /\ Half \in Int
    BY <1>1, SpacesApart DEF CoreAt, Places, Room2
  <2>3. InTo(n)
    BY <2>1, <2>2 DEF InTo
  <2>4. ~InFrom(n)
    BY <2>1, <2>3, Apart
  <2>5. n \notin DOMAIN origin
    BY <1>2, <2>1, <2>2, <2>4
  <2>6. /\ s[n] \in DOMAIN origin /\ K[origin[s[n]]] \notin ObjectKinds /\ InFrom(s[n]) /\ Fresh(origin, s[n])
    BY DEF Blocks
  <2>7. g2[n] = origin[s[n]] /\ n \in DOMAIN g2
    BY DEF Names
  <2>8. k2[n] = k[s[n]] /\ k[s[n]] \notin ObjectKinds
    BY <1>0, <1>2, <2>6, <2>7 DEF KindAt
  <2> QED
    BY <2>1, <2>3, <2>4, <2>5, <2>6, <2>7, <2>8
<1>5. ASSUME NEW x \in DOMAIN origin
      PROVE  x \in DOMAIN k2 /\ x \notin N /\ g2[x] = origin[x] /\ k2[x] = k[x]
  <2>1. x \notin N /\ x \in DOMAIN g2 /\ g2[x] = origin[x]
    BY <1>4 DEF Names
  <2> QED
    BY <1>0, <1>2, <2>1 DEF KindAt
<1>6. DOMAIN k2 = DOMAIN origin \cup N /\ DOMAIN g2 = DOMAIN origin \cup N /\ DOMAIN m2 = DOMAIN origin \cup N
  BY <1>0 DEF KindAt, Names, Words
<1>7. Extends(k, k2)
  BY <1>2, <1>5 DEF Extends
<1>8. \A x \in DOMAIN origin : x # a => m2[x] = mem[x]
  BY DEF Words
<1>9. /\ Redirected(mem[a], m2[a], k[a], N, s)
      /\ \A n \in N : Redirected(mem[s[n]], m2[n], k[s[n]], N, s)
  BY <1>2, <1>3, <1>4 DEF Words
<1>10. /\ ~Moved(mem, k, a) /\ ~Moved(m2, k2, a)
       /\ \A n \in N : ~Moved(m2, k2, n) /\ ~Moved(mem, k, s[n])
       /\ \A x \in DOMAIN origin : Moved(m2, k2, x) <=> Moved(mem, k, x)
  <2>1. ~Moved(mem, k, a) /\ ~Moved(m2, k2, a)
    BY <1>2, <1>3, Apart DEF Moved
  <2>2. \A n \in N : ~Moved(m2, k2, n) /\ ~Moved(mem, k, s[n])
    BY <1>4 DEF Moved
  <2>3. \A x \in DOMAIN origin : x # a => (Moved(m2, k2, x) <=> Moved(mem, k, x))
    BY <1>5, <1>8 DEF Moved
  <2> QED
    BY <2>1, <2>2, <2>3
<1>11. Places(K, m2, g2, p2)
  <2>1. p2 \in Int /\ p2 % 16 = 0 /\ to_start <= p2 /\ p2 <= to_start + Half /\ to_ptr <= p2 /\ to_ptr \in Int
    <3>1. to_start <= to_ptr /\ to_ptr \in Int /\ to_start \in Int
      BY <1>1, SpacesApart DEF CoreAt, Places
    <3>2. p2 \in Int /\ p2 % 16 = 0 /\ to_ptr <= p2 /\ p2 <= to_start + Half
      BY DEF Room2
    <3> QED
      BY <3>1, <3>2
  <2>2. ASSUME NEW x \in DOMAIN origin
        PROVE  x \in Int /\ x % 16 = 0 /\ g2[x] \in DOMAIN K /\ (InFrom(x) \/ (InTo(x) /\ x < p2))
    BY <1>2, <1>5, <2>1
  <2>3. ASSUME NEW n \in N
        PROVE  n \in Int /\ n % 16 = 0 /\ g2[n] \in DOMAIN K /\ (InFrom(n) \/ (InTo(n) /\ n < p2))
    BY <1>2, <1>4
  <2> QED
    BY <1>6, <2>1, <2>2, <2>3 DEF Places
<1>12. ASSUME NEW x \in DOMAIN origin, InFrom(x), Fresh(origin, x), \A n \in N : s[n] # x
       PROVE  Fresh(g2, x)
  <2> SUFFICES ASSUME NEW y \in DOMAIN g2, InTo(y) PROVE g2[y] # g2[x]
    BY DEF Fresh
  <2>1. CASE y \in N
    <3>1. s[y] \in DOMAIN origin /\ InFrom(s[y]) /\ g2[y] = origin[s[y]] /\ s[y] # x
      BY <1>4, <1>12, <2>1
    <3>2. ~InTo(s[y]) /\ ~InTo(x)
      BY <1>2, <1>12, <3>1, Apart
    <3>3. origin[s[y]] # origin[x]
      BY <1>1, <3>1, <3>2 DEF CoreAt, OneEach
    <3> QED
      BY <1>5, <3>1, <3>3
  <2>2. CASE y \in DOMAIN origin
    BY <1>5, <1>12, <2>2 DEF Fresh
  <2> QED
    BY <1>6, <2>1, <2>2
<1>13. OneEach(g2)
  <2> SUFFICES ASSUME NEW x \in DOMAIN g2, NEW y \in DOMAIN g2, g2[x] = g2[y], InTo(x) <=> InTo(y) PROVE x = y
    BY DEF OneEach
  <2>1. CASE x \in N /\ y \in N
    <3>1. /\ s[x] \in DOMAIN origin /\ InFrom(s[x]) /\ g2[x] = origin[s[x]]
          /\ s[y] \in DOMAIN origin /\ InFrom(s[y]) /\ g2[y] = origin[s[y]]
      BY <1>4, <2>1
    <3>2. ~InTo(s[x]) /\ ~InTo(s[y])
      BY <1>2, <3>1, Apart
    <3>3. s[x] = s[y]
      BY <1>1, <3>1, <3>2 DEF CoreAt, OneEach
    <3> QED
      BY <2>1, <3>3 DEF Blocks
  <2>2. CASE x \in N /\ y \in DOMAIN origin
    BY <1>4, <1>5, <2>2 DEF Fresh
  <2>3. CASE x \in DOMAIN origin /\ y \in N
    BY <1>4, <1>5, <2>3 DEF Fresh
  <2>4. CASE x \in DOMAIN origin /\ y \in DOMAIN origin
    BY <1>1, <1>5, <2>4 DEF CoreAt, OneEach
  <2> QED
    BY <1>6, <2>1, <2>2, <2>3, <2>4
<1>14. \A n \in N : n \in DOMAIN k2 /\ k2[n] = k[s[n]]
  BY <1>4, <1>6
<1>15. Sound(m2, k2)
  <2> SUFFICES ASSUME NEW x \in DOMAIN k2, ~Moved(m2, k2, x) PROVE WellPlaced(m2[x], x, k2)
    BY DEF Sound
  <2>1. CASE x \in N
    <3>1. PICK y, u, v : y = s[x] /\ u = mem[y] /\ v = m2[x]
      OBVIOUS
    <3>2. y \in DOMAIN k /\ WellPlaced(u, y, k) /\ k2[x] = k[y] /\ Redirected(u, v, k[y], N, s)
      BY <1>1, <1>2, <1>4, <1>9, <1>10, <2>1, <3>1 DEF CoreAt, Sound
    <3> QED
      BY <1>7, <1>14, <3>1, <3>2, RedirectedPlaced
  <2>2. CASE x = a
    <3>1. PICK u, v : u = mem[a] /\ v = m2[a]
      OBVIOUS
    <3>2. a \in DOMAIN k /\ WellPlaced(u, a, k) /\ k2[a] = k[a] /\ Redirected(u, v, k[a], N, s)
      BY <1>1, <1>2, <1>3, <1>5, <1>9, <1>10, <3>1 DEF CoreAt, Sound
    <3> QED
      BY <1>7, <1>14, <2>2, <3>1, <3>2, RedirectedPlaced
  <2>3. CASE x \in DOMAIN origin /\ x # a
    <3>1. x \in DOMAIN k /\ WellPlaced(mem[x], x, k) /\ k2[x] = k[x] /\ m2[x] = mem[x]
      BY <1>1, <1>2, <1>5, <1>8, <1>10, <2>3 DEF CoreAt, Sound
    <3> QED
      BY <1>7, <3>1, PlacedStays
  <2> QED
    BY <1>6, <2>1, <2>2, <2>3
<1>16. Forwarding(m2, k2, g2)
  <2> SUFFICES ASSUME NEW x \in DOMAIN k2, k2[x] \in ObjectKinds, InFrom(x)
               PROVE  IF Moved(m2, k2, x) THEN Addr(m2[x][1]) \in DOMAIN k2 /\ g2[Addr(m2[x][1])] = g2[x]
                      ELSE Fresh(g2, x)
    BY DEF Forwarding
  <2>1. x \in DOMAIN origin /\ x # a
    BY <1>2, <1>3, <1>4, <1>6, Apart
  <2>2. m2[x] = mem[x] /\ k2[x] = k[x] /\ g2[x] = origin[x] /\ (Moved(m2, k2, x) <=> Moved(mem, k, x))
    BY <1>5, <1>8, <1>10, <2>1
  <2>3. IF Moved(mem, k, x) THEN Addr(mem[x][1]) \in DOMAIN k /\ origin[Addr(mem[x][1])] = origin[x]
        ELSE Fresh(origin, x)
    BY <1>1, <1>2, <2>1, <2>2 DEF CoreAt, Forwarding
  <2>4. CASE Moved(mem, k, x)
    BY <1>2, <1>5, <2>2, <2>3, <2>4
  <2>5. CASE ~Moved(mem, k, x)
    <3>1. \A n \in N : s[n] # x
      BY <1>4, <2>2
    <3> QED
      BY <1>12, <2>1, <2>2, <2>3, <2>5, <3>1
  <2> QED
    BY <2>4, <2>5
<1>17. PICK src : src = [x \in DOMAIN k2 |-> IF x \in N THEN s[x] ELSE x]
  OBVIOUS
<1>18. ASSUME NEW x \in DOMAIN k2, ~Moved(m2, k2, x)
       PROVE  /\ src[x] \in DOMAIN k /\ ~Moved(mem, k, src[x]) /\ k2[x] = k[src[x]]
              /\ Pointers(k2[x], m2[x]) = Pointers(k[src[x]], mem[src[x]])
              /\ WellPlaced(mem[src[x]], src[x], k)
              /\ \A r \in Pointers(k2[x], m2[x]) :
                   IF x \in N \cup {a} THEN m2[x][r[1]] \in N /\ s[m2[x][r[1]]] = mem[src[x]][r[1]]
                   ELSE m2[x][r[1]] = mem[src[x]][r[1]]
  <2>1. PICK y : y = src[x]
    OBVIOUS
  <2>2. y = IF x \in N THEN s[x] ELSE x
    BY <1>17, <2>1
  <2>3. y \in DOMAIN k /\ ~Moved(mem, k, y) /\ k2[x] = k[y]
    BY <1>2, <1>4, <1>5, <1>6, <1>10, <1>18, <2>2
  <2>4. WellPlaced(mem[y], y, k)
    BY <1>1, <2>3 DEF CoreAt, Sound
  <2>5. CASE x \in N \cup {a}
    <3>1. Redirected(mem[y], m2[x], k[y], N, s)
      BY <1>3, <1>4, <1>9, <2>2, <2>5
    <3> QED
      BY <2>1, <2>3, <2>4, <2>5, <3>1 DEF Redirected
  <2>6. CASE x \notin N \cup {a}
    <3>1. y = x /\ m2[x] = mem[y]
      BY <1>6, <1>8, <2>2, <2>6
    <3> QED
      BY <2>1, <2>3, <2>4, <2>6, <3>1
  <2> QED
    BY <2>5, <2>6
\* The old target of a pointer is an address of the old memory.
<1>19. ASSUME NEW x \in DOMAIN k, ~Moved(mem, k, x), NEW r \in Pointers(k[x], mem[x])
       PROVE  mem[x][r[1]] \in DOMAIN origin /\ mem[x][r[1]] \notin N /\ k[mem[x][r[1]]] \notin ObjectKinds
  <2>1. WellPlaced(mem[x], x, k)
    BY <1>1, <1>19 DEF CoreAt, Sound
  <2> QED
    BY <1>2, <1>5, <2>1, PointsToBlock DEF WellPlaced
<1>20. Owned(m2, k2)
  <2>1. Owned(mem, k)
    BY <1>1 DEF CoreAt
  <2>2. ASSUME NEW x \in DOMAIN k2, NEW y \in DOMAIN k2, ~Moved(m2, k2, x), ~Moved(m2, k2, y),
               NEW r \in Pointers(k2[x], m2[x]), NEW t \in Pointers(k2[y], m2[y]), m2[x][r[1]] = m2[y][t[1]]
        PROVE  mem[src[x]][r[1]] = mem[src[y]][t[1]] /\ (src[x] = src[y] => x = y)
    <3>1. PICK v, z, d : v = src[x] /\ z = src[y] /\ d = m2[x][r[1]]
      OBVIOUS
    <3>2. /\ v \in DOMAIN k /\ ~Moved(mem, k, v) /\ r \in Pointers(k[v], mem[v])
          /\ IF x \in N \cup {a} THEN d \in N /\ s[d] = mem[v][r[1]] ELSE d = mem[v][r[1]]
      BY <1>18, <2>2, <3>1
    <3>3. /\ z \in DOMAIN k /\ ~Moved(mem, k, z) /\ t \in Pointers(k[z], mem[z])
          /\ IF y \in N \cup {a} THEN d \in N /\ s[d] = mem[z][t[1]] ELSE d = mem[z][t[1]]
      BY <1>18, <2>2, <3>1
    <3>4. mem[v][r[1]] \notin N /\ mem[z][t[1]] \notin N
      BY <1>19, <3>2, <3>3
    <3>5. mem[v][r[1]] = mem[z][t[1]] /\ (x \in N \cup {a} <=> y \in N \cup {a})
      BY <3>2, <3>3, <3>4
    <3>6. v = (IF x \in N THEN s[x] ELSE x) /\ z = (IF y \in N THEN s[y] ELSE y)
      BY <1>17, <3>1
    <3>7. \A n \in N : s[n] # a
      BY <1>3, <1>4
    <3>8. ASSUME v = z PROVE x = y
      <4>1. CASE x \notin N /\ y \notin N
        BY <3>6, <3>8, <4>1
      <4>2. CASE x \in N /\ y \in N
        BY <3>6, <3>8, <4>2 DEF Blocks
      <4>3. CASE x \in N /\ y \notin N
        BY <3>5, <3>6, <3>7, <3>8, <4>3
      <4>4. CASE x \notin N /\ y \in N
        BY <3>5, <3>6, <3>7, <3>8, <4>4
      <4> QED
        BY <4>1, <4>2, <4>3, <4>4
    <3> QED
      BY <3>1, <3>5, <3>8
  <2> QED
    BY <1>18, <2>1, <2>2, OwnersKept
<1>21. Waiting(m2, k2, g2, bl2)
  <2> SUFFICES ASSUME NEW x \in DOMAIN k2, ~Moved(m2, k2, x), NEW r \in Pointers(k2[x], m2[x]),
                      IF k2[x] \in ObjectKinds THEN x + k2[x] \notin bl2 ELSE InFrom(x) /\ Fresh(g2, x)
               PROVE  InFrom(m2[x][r[1]]) /\ Fresh(g2, m2[x][r[1]])
    BY DEF Waiting
  <2>1. x # a
    BY <1>0, <1>3, <1>5
  <2>2. x \notin N
    BY <1>4
  <2>3. x \in DOMAIN origin /\ m2[x] = mem[x] /\ k2[x] = k[x] /\ ~Moved(mem, k, x) /\ g2[x] = origin[x]
    BY <1>5, <1>6, <1>8, <1>10, <2>1, <2>2
  <2>4. PICK t : t = mem[x][r[1]]
    OBVIOUS
  <2>5. Fresh(g2, x) => Fresh(origin, x)
    BY <1>5, <1>6, <2>3 DEF Fresh
  <2>6. InFrom(t) /\ Fresh(origin, t)
    BY <1>0, <1>1, <1>2, <2>3, <2>4, <2>5 DEF CoreAt, Waiting
  <2>7. t \in DOMAIN origin
    BY <1>2, <1>19, <2>3, <2>4
  <2>8. ASSUME NEW n \in N, s[n] = t PROVE FALSE
    <3>1. PICK o \in DOMAIN origin : /\ o = a \/ \E j \in N : o = s[j]
                                    /\ \E z \in Pointers(K[origin[o]], mem[o]) : mem[o][z[1]] = s[n]
      BY DEF Blocks
    <3>2. PICK z \in Pointers(k[o], mem[o]) : mem[o][z[1]] = t
      BY <1>2, <2>8, <3>1
    <3>3. ~Moved(mem, k, o)
      BY <1>10, <3>1
    <3>4. o = x
      BY <1>1, <1>2, <2>3, <2>4, <3>2, <3>3 DEF CoreAt, Owned
    <3>5. PICK j \in N : x = s[j]
      BY <2>1, <3>1, <3>4
    <3>6. k2[x] \notin ObjectKinds /\ g2[j] = g2[x] /\ InTo(j) /\ j \in DOMAIN g2
      BY <1>4, <1>6, <2>3, <3>5
    <3> QED
      BY <3>6 DEF Fresh
  <2> QED
    BY <1>12, <2>3, <2>4, <2>6, <2>7, <2>8
<1>22. \A v \in DOMAIN k : v + k[v] = w /\ k[v] \in ObjectKinds => v = a
  <2> SUFFICES ASSUME NEW v \in DOMAIN k, v + k[v] = w, k[v] \in ObjectKinds PROVE v = a
    OBVIOUS
  <2>1. PICK t : t = k[v]
    OBVIOUS
  <2>2. v \in Int /\ v % 16 = 0 /\ t \in 0..15
    BY <1>2, <2>1, KindNumbers
  <2>3. Addr(v + t) = v
    BY <2>2, Tagged
  <2> QED
    BY <1>0, <2>1, <2>3
<1>23. Done(m2, k2, bl2, f2)
  <2> SUFFICES ASSUME NEW x \in DOMAIN k2, Scanned(k2, bl2, x)
               PROVE  /\ \A i \in Values(k2[x], m2[x]) : Refers(m2[x][i]) \/ \E j \in 1..Len(f2) : f2[j] = <<x, i>>
                      /\ \A r \in Pointers(k2[x], m2[x]) : InTo(m2[x][r[1]])
    BY DEF Done
  <2>1. CASE x \in N \cup {a}
    <3>1. \A r \in Pointers(k2[x], m2[x]) : m2[x][r[1]] \in N
      BY <1>10, <1>18, <2>1
    <3> QED
      BY <1>0, <1>4, <2>1, <3>1 DEF Fields
  <2>2. CASE x \notin N \cup {a}
    <3>1. x \in DOMAIN k /\ m2[x] = mem[x] /\ k2[x] = k[x] /\ x # a
      BY <1>2, <1>5, <1>6, <1>8, <2>2
    <3>2. Scanned(k, black, x)
      BY <1>0, <1>22, <3>1 DEF Scanned
    <3>3. Len(fields) = 0
      OBVIOUS
    <3>4. /\ \A i \in Values(k[x], mem[x]) : Refers(mem[x][i]) \/ \E j \in 1..Len(fields) : fields[j] = <<x, i>>
          /\ \A r \in Pointers(k[x], mem[x]) : InTo(mem[x][r[1]])
      BY <1>1, <3>1, <3>2 DEF CoreAt, Done
    <3> QED
      BY <3>1, <3>3, <3>4
  <2> QED
    BY <2>1, <2>2
<1>24. Queued(k2, q2, bl2)
  <2>0. /\ queue \in Seq(Int) /\ black \subseteq Int
        /\ \A v \in black : Copied(k, v)
        /\ \A j \in 1..Len(queue) : Copied(k, queue[j]) /\ queue[j] \notin black
        /\ \A i, j \in 1..Len(queue) : queue[i] = queue[j] => i = j
        /\ \A x \in DOMAIN k : InTo(x) /\ k[x] \in ObjectKinds =>
             x + k[x] \in black \/ \E j \in 1..Len(queue) : queue[j] = x + k[x]
    BY <1>1 DEF CoreAt, Queued
  <2>1. \A v : Copied(k, v) => Copied(k2, v)
    BY <1>7 DEF Copied, Extends
  <2>2. q2 \in Seq(Int) /\ Len(q2) = Len(queue) - 1 /\ \A j \in 1..Len(q2) : q2[j] = queue[j + 1] /\ j + 1 \in 1..Len(queue)
    BY <1>0, <2>0
  <2>3. bl2 \subseteq Int /\ \A v \in bl2 : Copied(k2, v)
    BY <1>0, <1>3, <2>0, <2>1
  <2>4. \A j \in 1..Len(q2) : Copied(k2, q2[j]) /\ q2[j] \notin bl2
    <3> SUFFICES ASSUME NEW j \in 1..Len(q2) PROVE Copied(k2, q2[j]) /\ q2[j] \notin bl2
      OBVIOUS
    <3>1. q2[j] = queue[j + 1] /\ j + 1 \in 1..Len(queue) /\ j + 1 # 1
      BY <2>2
    <3>2. q2[j] # w
      BY <1>0, <1>3, <2>0, <3>1
    <3> QED
      BY <1>0, <2>0, <2>1, <3>1, <3>2
  <2>5. \A i, j \in 1..Len(q2) : q2[i] = q2[j] => i = j
    <3> SUFFICES ASSUME NEW i \in 1..Len(q2), NEW j \in 1..Len(q2), q2[i] = q2[j] PROVE i = j
      OBVIOUS
    <3>1. i + 1 \in 1..Len(queue) /\ j + 1 \in 1..Len(queue) /\ queue[i + 1] = queue[j + 1]
      BY <2>2
    <3>2. i + 1 = j + 1
      BY <2>0, <3>1
    <3> QED
      BY <3>2
  <2>6. ASSUME NEW x \in DOMAIN k2, InTo(x), k2[x] \in ObjectKinds
        PROVE  x + k2[x] \in bl2 \/ \E j \in 1..Len(q2) : q2[j] = x + k2[x]
    <3>1. x \in DOMAIN k /\ k2[x] = k[x]
      BY <1>2, <1>4, <1>5, <1>6, <2>6
    <3>2. CASE x + k[x] \in black
      BY <1>0, <3>1, <3>2
    <3>3. CASE \E j \in 1..Len(queue) : queue[j] = x + k[x]
      <4>1. PICK j \in 1..Len(queue) : queue[j] = x + k[x]
        BY <3>3
      <4>2. CASE j = 1
        BY <1>0, <3>1, <4>1, <4>2
      <4>3. CASE j # 1
        <5>1. j - 1 \in 1..Len(q2) /\ q2[j - 1] = queue[j]
          BY <2>0, <2>2, <4>3
        <5> QED
          BY <3>1, <4>1, <5>1
      <4> QED
        BY <4>2, <4>3
    <3> QED
      BY <2>0, <2>6, <3>1, <3>2, <3>3
  <2> QED
    BY <2>2, <2>3, <2>4, <2>5, <2>6 DEF Queued
<1>25. Pending(m2, k2, bl2, f2)
  <2> SUFFICES ASSUME NEW j \in 1..Len(f2)
               PROVE  /\ f2[j][1] \in DOMAIN k2 /\ Scanned(k2, bl2, f2[j][1])
                      /\ f2[j][2] \in Values(k2[f2[j][1]], m2[f2[j][1]])
    BY DEF Pending, Fields
  <2>1. PICK x : x = f2[j][1]
    OBVIOUS
  <2>2. x \in N \cup {a} /\ f2[j][2] \in Values(k2[x], m2[x])
    BY <1>0, <2>1 DEF Fields
  <2>3. x \in DOMAIN k2 /\ Scanned(k2, bl2, x)
    BY <1>0, <1>3, <1>4, <1>5, <1>6, <2>2 DEF Scanned
  <2> QED
    BY <2>1, <2>2, <2>3
<1> QED
  BY <1>7, <1>11, <1>13, <1>15, <1>16, <1>20, <1>21, <1>23, <1>24, <1>25 DEF CoreAt
-----------------------------------------------------------------------------
(***************************************************************************)
(* The four ways to scan an object.                                        *)
(***************************************************************************)
LEMMA Top ==
  ASSUME Spaces, NEW K, Now(K), queue # <<>>, NEW k, k = Kinds(K), NEW a, a = Addr(queue[1])
  PROVE  /\ Head(queue) = queue[1] /\ queue[1] \in Int /\ queue[1] \notin black
         /\ a \in DOMAIN k /\ a \in DOMAIN origin /\ InTo(a) /\ a \in Int /\ a + k[a] = queue[1]
         /\ k[a] = Tag(queue[1]) /\ k[a] \in ObjectKinds /\ ~Moved(mem, k, a)
         /\ Layout(k[a], mem[a]) /\ WellPlaced(mem[a], a, k) /\ a < to_ptr
<1>1. CoreAt(K, k, mem, origin, to_ptr, queue, black, fields)
  BY DEF Now, Core, Kinds
<1>2. PICK w : w = queue[1]
  OBVIOUS
<1>3. queue \in Seq(Int) /\ 1 \in 1..Len(queue) /\ Head(queue) = queue[1]
  BY <1>1 DEF CoreAt, Queued
<1>4. w \in Int /\ Copied(k, w) /\ w \notin black
  BY <1>1, <1>2, <1>3 DEF CoreAt, Queued
<1>5. Addr(w) + Tag(w) = w
  BY <1>4, WordParts
<1>6. a \in DOMAIN k /\ InTo(a) /\ k[a] = Tag(w) /\ k[a] \in ObjectKinds
  BY <1>2, <1>4 DEF Copied
<1>7. a \in DOMAIN origin /\ a \in Int /\ (InFrom(a) \/ (InTo(a) /\ a < to_ptr))
  BY <1>1, <1>6 DEF CoreAt, Places, Kinds, KindAt
<1>8. ~InFrom(a)
  BY <1>6, <1>7, Apart
<1>9. ~Moved(mem, k, a)
  BY <1>8 DEF Moved
<1>10. WellPlaced(mem[a], a, k) /\ Layout(k[a], mem[a])
  BY <1>1, <1>6, <1>9, SMTT(30) DEF CoreAt, Sound, WellPlaced
<1> QED
  BY <1>2, <1>3, <1>4, <1>5, <1>6, <1>7, <1>8, <1>9, <1>10

\* The block a popped object points to has not been copied.
LEMMA TopPointer ==
  ASSUME Spaces, NEW K, Now(K), queue # <<>>, NEW k, k = Kinds(K), NEW a, a = Addr(queue[1]),
         NEW r \in Pointers(k[a], mem[a]), NEW b, b = mem[a][r[1]]
  PROVE  /\ b \in DOMAIN origin /\ b \in DOMAIN k /\ b # a /\ k[b] = r[2] /\ k[b] \notin ObjectKinds
         /\ InFrom(b) /\ Fresh(origin, b)
         /\ Layout(k[b], mem[b]) /\ WellPlaced(mem[b], b, k) /\ ~Moved(mem, k, b)
<1>1. CoreAt(K, k, mem, origin, to_ptr, queue, black, fields)
  BY DEF Now, Core, Kinds
<1>2. /\ a \in DOMAIN k /\ ~Moved(mem, k, a) /\ k[a] \in ObjectKinds /\ a + k[a] \notin black
      /\ WellPlaced(mem[a], a, k)
  BY Top
<1>3. b \in DOMAIN k /\ k[b] = r[2] /\ k[b] \notin ObjectKinds
  BY <1>2, PointsToBlock DEF WellPlaced
<1>4. InFrom(b) /\ Fresh(origin, b)
  BY <1>1, <1>2 DEF CoreAt, Waiting
<1>5. ~Moved(mem, k, b)
  BY <1>3 DEF Moved
<1>6. WellPlaced(mem[b], b, k)
  BY <1>1, <1>3, <1>5 DEF CoreAt, Sound
<1>7. b \in DOMAIN origin
  BY <1>3 DEF Kinds, KindAt
<1> QED
  BY <1>2, <1>3, <1>4, <1>5, <1>6, <1>7, ZenonT(30) DEF WellPlaced

\* The words TracedWords gives are words with values, and it leaves out only NIL.
Traces(words, u, values) ==
  /\ words \in Seq(Int) /\ \A j \in 1..Len(words) : words[j] \in values
  /\ \A i \in values : u[i] = NIL \/ \E j \in 1..Len(words) : words[j] = i

LEMMA TracedValues ==
  ASSUME NEW u
  PROVE  Traces(TracedWords(u), u, InstanceValues(u[1]))
<1> USE DEF MAGIC_FUNCTION_NATIVE, MAGIC_FUNCTION_INTERPRETED, MAGIC_MACRO, MAGIC_BUILTIN_CLASS,
        MAGIC_STANDARD_CLASS, MAGIC_PROCESS, MAGIC_BLOCK_EXIT, MAGIC_CLASS_INSTANCE, MAGIC_CATCH_EXIT,
        MAGIC_GO_EXIT
<1>1. CASE u[1] = MAGIC_FUNCTION_NATIVE
  <2>1. InstanceValues(u[1]) = {4} /\ TracedWords(u) = IF u[4] # NIL THEN <<4>> ELSE <<>>
    BY <1>1 DEF InstanceValues, TracedWords
  <2> QED
    BY <2>1 DEF Traces
<1>2. CASE u[1] \in {MAGIC_FUNCTION_INTERPRETED, MAGIC_MACRO, MAGIC_BUILTIN_CLASS, MAGIC_STANDARD_CLASS}
  <2>1. InstanceValues(u[1]) = {2, 3, 4} /\ TracedWords(u) = <<2, 3, 4>>
    BY <1>2 DEF InstanceValues, TracedWords
  <2> QED
    BY <2>1 DEF Traces
<1>3. CASE u[1] = MAGIC_PROCESS
  <2>1. InstanceValues(u[1]) = {2, 4} /\ TracedWords(u) = <<2, 4>>
    BY <1>3 DEF InstanceValues, TracedWords
  <2> QED
    BY <2>1 DEF Traces
<1>4. CASE u[1] \in {MAGIC_BLOCK_EXIT, MAGIC_CLASS_INSTANCE, MAGIC_CATCH_EXIT}
  <2>1. InstanceValues(u[1]) = {2, 3} /\ TracedWords(u) = <<2, 3>>
    BY <1>4 DEF InstanceValues, TracedWords
  <2> QED
    BY <2>1 DEF Traces
<1>5. CASE u[1] = MAGIC_GO_EXIT
  <2>1. InstanceValues(u[1]) = {2} /\ TracedWords(u) = <<2>>
    BY <1>5 DEF InstanceValues, TracedWords
  <2> QED
    BY <2>1 DEF Traces
<1>6. CASE u[1] \notin {MAGIC_FUNCTION_NATIVE, MAGIC_FUNCTION_INTERPRETED, MAGIC_MACRO, MAGIC_BUILTIN_CLASS,
                        MAGIC_STANDARD_CLASS, MAGIC_PROCESS, MAGIC_BLOCK_EXIT, MAGIC_CLASS_INSTANCE,
                        MAGIC_CATCH_EXIT, MAGIC_GO_EXIT}
  <2>1. InstanceValues(u[1]) = {} /\ TracedWords(u) = <<>>
    BY <1>6 DEF InstanceValues, TracedWords
  <2> QED
    BY <2>1 DEF Traces
<1> QED
  BY <1>1, <1>2, <1>3, <1>4, <1>5, <1>6

LEMMA ScannedValues ==
  ASSUME NEW w, Tag(w) \in ObjectKinds, NEW u, u = mem[Addr(w)], Layout(Tag(w), u)
  PROVE  Traces(ScannedWords(w), u, Values(Tag(w), u))
<1>1. CASE Tag(w) = TAG_CONS
  <2>1. ScannedWords(w) = <<1, 2>> /\ Values(Tag(w), u) = 1..2
    BY <1>1, ValueTable DEF ScannedWords
  <2> QED
    BY <2>1 DEF Traces
<1>2. CASE Tag(w) = TAG_SYMBOL
  <2>1. ScannedWords(w) = <<1, 2, 3, 4>> /\ Values(Tag(w), u) = 1..4
    BY <1>2, ValueTable DEF ScannedWords
  <2> QED
    BY <2>1 DEF Traces
<1>3. CASE Tag(w) = TAG_STRING
  <2>1. ScannedWords(w) = <<>> /\ Values(Tag(w), u) = {}
    BY <1>3, ValueTable, SMTT(60) DEF ScannedWords
  <2> QED
    BY <2>1 DEF Traces
<1>4. CASE Tag(w) = TAG_INSTANCE
  <2>1. ScannedWords(w) = TracedWords(u) /\ Values(Tag(w), u) = InstanceValues(u[1])
    BY <1>4, ValueTable DEF ScannedWords
  <2> QED
    BY <2>1, TracedValues
<1> QED
  BY <1>1, <1>2, <1>3, <1>4 DEF ObjectKinds
LEMMA SlotsOf ==
  ASSUME NEW a \in Int, NEW t \in Seq(Int)
  PROVE  /\ Slots(a, t) \in Seq(Int \X Int) /\ Len(Slots(a, t)) = Len(t)
         /\ \A j \in 1..Len(t) : Slots(a, t)[j] = <<a, t[j]>>
  BY DEF Slots

\* A block without pointers is copied as it is.
LEMMA Unredirected ==
  ASSUME NEW k, NEW u, NEW N, NEW s, Layout(k, u), Pointers(k, u) = {}
  PROVE  Redirected(u, u, k, N, s)
  BY DEF Redirected

LEMMA PlainStep ==
  ASSUME Spaces, NEW K, Now(K), NEW w, ScanPlain(w)
  PROVE  Onward(K, mem', origin', to_ptr', queue', black', fields')
<1>1. PICK a, k, u, t, f2 : a = Addr(w) /\ k = Kinds(K) /\ u = mem[a] /\ t = ScannedWords(w) /\ f2 = Slots(a, t)
  OBVIOUS
<1>2. /\ w = queue[1] /\ queue # <<>> /\ fields = <<>>
      /\ a \in DOMAIN k /\ a \in Int /\ k[a] = Tag(w) /\ k[a] \in ObjectKinds /\ Layout(k[a], u)
  <2>1. w = Head(queue) /\ queue # <<>> /\ fields = <<>>
    BY DEF ScanPlain, Popping
  <2>2. w = queue[1]
    BY <2>1, <1>1, Top
  <2> QED
    BY <2>1, <2>2, <1>1, Top
<1>3. /\ fields' = f2 /\ queue' = Tail(queue) /\ black' = black \cup {w} /\ mem' = mem /\ to_ptr' = to_ptr
      /\ origin' = origin
  BY <1>1 DEF ScanPlain, Popped
<1>4. Pointers(k[a], u) = {}
  <2>1. CASE k[a] = TAG_INSTANCE
    <3>1. ~(u[1] = MAGIC_VECTOR /\ u[2] # 0) /\ ~(u[1] = MAGIC_BIGNUM /\ u[3] # 0) /\ u[1] # MAGIC_STREAM
      BY <1>1, <1>2, <2>1 DEF ScanPlain, IsVector, IsBignum, IsStream, Is
    <3> QED
      BY <2>1, <3>1, PointerTable DEF PointedMagics
  <2>2. CASE k[a] # TAG_INSTANCE
    BY <1>2, <2>2, NoPointers, KindNumbers
  <2> QED
    BY <2>1, <2>2
<1>5. Traces(t, u, Values(k[a], u))
  BY <1>1, <1>2, ScannedValues
<1>6. f2 \in Seq(Int \X Int) /\ Len(f2) = Len(t) /\ \A j \in 1..Len(t) : f2[j] = <<a, t[j]>>
  <2>1. a \in Int /\ t \in Seq(Int)
    BY <1>2, <1>5 DEF Traces
  <2>2. /\ Slots(a, t) \in Seq(Int \X Int) /\ Len(Slots(a, t)) = Len(t)
        /\ \A j \in 1..Len(t) : Slots(a, t)[j] = <<a, t[j]>>
    BY <2>1, SlotsOf
  <2> QED
    BY <1>1, <2>2
<1>7. PICK N, s : N = {} /\ s = <<>>
  OBVIOUS
<1>8. Blocks(K, a, N, s) /\ Names(N, s, origin)
  BY <1>7 DEF Blocks, Names
<1>9. Room2(N, to_ptr)
  BY <1>7 DEF Room2, Now, Core, CoreAt, Places
<1>10. Words(K, a, N, s, mem)
  <2>1. DOMAIN mem = DOMAIN origin /\ k[a] = K[origin[a]]
    BY <1>1, <1>2 DEF Now, Core, CoreAt, Places, Kinds, KindAt
  <2>2. Redirected(u, u, k[a], N, s)
    BY <1>2, <1>4, Unredirected
  <2> QED
    BY <1>1, <1>7, <2>1, <2>2 DEF Words
<1>11. Fields(K, a, N, k, mem, f2)
  <2>1. ASSUME NEW i \in Values(k[a], u)
        PROVE  Refers(u[i]) \/ \E j \in 1..Len(f2) : f2[j] = <<a, i>>
    <3>1. CASE u[i] = NIL
      BY <3>1 DEF Refers, IsRef
    <3>2. CASE \E j \in 1..Len(t) : t[j] = i
      BY <1>6, <3>2
    <3> QED
      BY <1>5, <3>1, <3>2 DEF Traces
  <2>2. ASSUME NEW j \in 1..Len(f2) PROVE f2[j][1] = a /\ f2[j][2] \in Values(k[a], u)
    BY <1>5, <1>6 DEF Traces
  <2>3. \A x \in N \cup {a} : x = a /\ mem[x] = u
    BY <1>1, <1>7
  <2>4. f2 \in Seq(Int \X Int) /\ \A j \in 1..Len(f2) : f2[j][1] \in N \cup {a}
    BY <1>6, <2>2
  <2>5. ASSUME NEW j \in 1..Len(f2) PROVE f2[j][2] \in Values(k[f2[j][1]], mem[f2[j][1]])
    BY <1>1, <2>2
  <2>6. ASSUME NEW x \in N \cup {a}, NEW i \in Values(k[x], mem[x])
        PROVE  Refers(mem[x][i]) \/ \E j \in 1..Len(f2) : f2[j] = <<x, i>>
    BY <2>1, <2>3
  <2> QED
    BY <2>4, <2>5, <2>6 DEF Fields
<1>12. Onward(K, mem, origin, to_ptr, Tail(queue), black \cup {queue[1]}, f2)
  BY <1>1, <1>2, <1>8, <1>9, <1>10, <1>11, PopObject DEF Kinds
<1> QED
  BY <1>2, <1>3, <1>12

\* The fields f2 are the words with values of a block with words u, copied to p.
BlockFields(f2, p, k, u) ==
  /\ f2 \in Seq(Int \X Int)
  /\ \A j \in 1..Len(f2) : f2[j][1] = p /\ f2[j][2] \in Values(k, u)
  /\ \A i \in Values(k, u) : Refers(u[i]) \/ \E j \in 1..Len(f2) : f2[j] = <<p, i>>

\* The memory when the block at b, word i of the object at a, has been moved to p.
WithBlock(m, a, i, b, p) == Put([m EXCEPT ![a][i] = p], p, m[b])

\* A block without pointers is copied to the end of the To space.
LEMMA OneBlock ==
  ASSUME Spaces, NEW K, Now(K), fields = <<>>, queue # <<>>, NEW a, a = Addr(queue[1]),
         NEW i, NEW kind, Pointers(Kinds(K)[a], mem[a]) = {<<i, kind>>},
         NEW b, b = mem[a][i], Pointers(kind, mem[b]) = {},
         NEW n, Room(to_ptr, n), NEW f2, BlockFields(f2, to_ptr, kind, mem[b])
  PROVE  Onward(K, WithBlock(mem, a, i, b, to_ptr), Put(origin, to_ptr, origin[b]), to_ptr + n,
                Tail(queue), black \cup {queue[1]}, f2)
<1>1. PICK k, u, v, m2, g2, N, s :
        /\ k = Kinds(K) /\ u = mem[a] /\ v = [u EXCEPT ![i] = to_ptr]
        /\ m2 = WithBlock(mem, a, i, b, to_ptr) /\ g2 = Put(origin, to_ptr, origin[b])
        /\ N = {to_ptr} /\ s = [x \in {to_ptr} |-> b]
  OBVIOUS
<1>2. CoreAt(K, k, mem, origin, to_ptr, queue, black, fields)
  BY <1>1 DEF Now, Core, Kinds
<1>3. /\ a \in DOMAIN k /\ a \in DOMAIN origin /\ a < to_ptr /\ InTo(a) /\ a \in Int
      /\ k[a] \in ObjectKinds /\ Layout(k[a], u) /\ WellPlaced(u, a, k)
  BY <1>1, Top
<1>4. PICK r : r = <<i, kind>>
  OBVIOUS
<1>5. r \in Pointers(k[a], mem[a]) /\ b = mem[a][r[1]] /\ r[1] = i /\ r[2] = kind
  BY <1>1, <1>4
<1>6. /\ b \in DOMAIN origin /\ b \in DOMAIN k /\ b # a /\ k[b] = kind /\ kind \notin ObjectKinds
      /\ InFrom(b) /\ Fresh(origin, b) /\ Layout(kind, mem[b])
  BY <1>1, <1>5, TopPointer
<1>7. /\ DOMAIN mem = DOMAIN origin /\ DOMAIN k = DOMAIN origin /\ to_ptr \in Int /\ to_ptr % 16 = 0
      /\ to_start <= to_ptr /\ to_start \in Int /\ to_start > 4096 /\ Half \in Int
      /\ \A x \in DOMAIN origin : k[x] = K[origin[x]] /\ x \in Int
      /\ \A x \in DOMAIN origin : InFrom(x) \/ x < to_ptr
  BY <1>1, <1>2, SpacesApart DEF CoreAt, Places, Kinds, KindAt
<1>8. n \in Int /\ n > 0 /\ n % 16 = 0 /\ to_ptr + n <= to_start + Half
  BY DEF Room
<1>9. to_ptr \notin DOMAIN origin
  <2>1. InTo(to_ptr)
    BY <1>7, <1>8 DEF InTo
  <2>2. ~InFrom(to_ptr)
    BY <1>7, <2>1, Apart
  <2> QED
    BY <1>7, <2>2
<1>10. i \in 1..Len(u) /\ u \in Seq(Int) /\ i \notin Values(k[a], u) /\ Values(k[a], u) = {}
  <2>1. i \in 1..Len(u) /\ i \notin Values(k[a], u)
    BY <1>1, <1>3, <1>5, WordsOf
  <2>2. k[a] # STREAM_STRUCT /\ Pointers(k[a], u) # {}
    BY <1>1, <1>3, <1>5, KindNumbers
  <2>3. Values(k[a], u) = {}
    BY <1>3, <2>2, WordsOf
  <2> QED
    BY <1>3, <2>1, <2>3 DEF Layout
<1>11. Same(k[a], u, v)
  <2>1. to_ptr \in Int \ {0}
    BY <1>7
  <2> QED
    BY <1>1, <1>3, <1>5, <2>1, PointerWritten
<1>12. v[i] = to_ptr
  BY <1>1, <1>10
<1>13. /\ DOMAIN m2 = DOMAIN origin \cup {to_ptr} /\ m2[to_ptr] = mem[b] /\ m2[a] = v
       /\ \A x \in DOMAIN origin : x # a => m2[x] = mem[x]
  BY <1>1, <1>3, <1>7, <1>9 DEF WithBlock, Put
<1>14. /\ DOMAIN g2 = DOMAIN origin \cup {to_ptr} /\ g2[to_ptr] = origin[b]
       /\ \A x \in DOMAIN origin : g2[x] = origin[x]
  BY <1>1, <1>9 DEF Put
<1>15. N = {to_ptr} /\ s[to_ptr] = b
  BY <1>1
<1>16. Blocks(K, a, N, s)
  <2>1. K[origin[b]] \notin ObjectKinds
    BY <1>6, <1>7
  <2>2. \E o \in DOMAIN origin : /\ o = a \/ \E j \in N : o = s[j]
                                 /\ \E z \in Pointers(K[origin[o]], mem[o]) : mem[o][z[1]] = b
    BY <1>3, <1>5, <1>7
  <2> QED
    BY <1>6, <1>15, <2>1, <2>2 DEF Blocks
<1>17. Room2(N, to_ptr + n)
  <2>1. (to_ptr + n) % 16 = 0
    BY <1>7, <1>8, Aligned
  <2> QED
    BY <1>7, <1>8, <1>15, <2>1, SMTT(60) DEF Room2
<1>18. Names(N, s, g2)
  BY <1>14, <1>15 DEF Names
<1>19. Words(K, a, N, s, m2)
  <2>1. Redirected(mem[b], m2[to_ptr], K[origin[b]], N, s)
    BY <1>6, <1>7, <1>13, Unredirected
  <2>2. Redirected(u, v, k[a], N, s)
    <3>1. Pointers(k[a], u) = {r}
      BY <1>1, <1>4
    <3> QED
      BY <1>1, <1>5, <1>10, <1>11, <1>12, <1>15, <3>1 DEF Redirected, Same
  <2> QED
    BY <1>1, <1>3, <1>7, <1>13, <1>15, <2>1, <2>2 DEF Words
<1>20. Fields(K, a, N, KindAt(K, g2), m2, f2)
  <2>1. PICK k2 : k2 = KindAt(K, g2)
    OBVIOUS
  <2>2. k2[to_ptr] = kind /\ k2[a] = k[a]
    BY <1>3, <1>6, <1>7, <1>14, <2>1 DEF KindAt
  <2>3. Values(k2[to_ptr], m2[to_ptr]) = Values(kind, mem[b]) /\ Values(k2[a], m2[a]) = {}
    BY <1>10, <1>11, <1>13, <2>2 DEF Same
  <2>4. m2[to_ptr] = mem[b]
    BY <1>13
  <2> QED
    BY <1>15, <2>1, <2>3, <2>4 DEF Fields, BlockFields
<1>21. Onward(K, m2, g2, to_ptr + n, Tail(queue), black \cup {queue[1]}, f2)
  BY <1>16, <1>17, <1>18, <1>19, <1>20, PopObject
<1> QED
  BY <1>1, <1>21
\* The object at the head of the queue, for the scanning actions.
LEMMA Popped1 ==
  ASSUME Spaces, NEW K, Now(K), NEW w, Popping(w), NEW a, a = Addr(w)
  PROVE  /\ w = queue[1] /\ queue # <<>> /\ fields = <<>> /\ a = Addr(queue[1]) /\ a \in Int
         /\ a \in DOMAIN Kinds(K) /\ Kinds(K)[a] = Tag(w) /\ Tag(w) \in ObjectKinds
         /\ Layout(Tag(w), mem[a]) /\ to_ptr \in Int
<1>1. w = Head(queue) /\ queue # <<>> /\ fields = <<>>
  BY DEF Popping
<1>2. w = queue[1]
  BY <1>1, Top
<1>3. to_ptr \in Int
  BY DEF Now, Core, CoreAt, Places
<1> QED
  BY <1>1, <1>2, <1>3, Top

LEMMA RawBlocks ==
  ASSUME NEW u
  PROVE  Pointers(RAW_BLOCK, u) = {} /\ Values(RAW_BLOCK, u) = {}
  BY DEF Pointers, Values

LEMMA BignumStep ==
  ASSUME Spaces, NEW K, Now(K), NEW w, gc_relocate_bignum(w)
  PROVE  Onward(K, mem', origin', to_ptr', queue', black', fields')
<1>1. PICK a, b, n : a = Addr(w) /\ b = mem[a][4] /\ n = os_heap_align_up(8 * mem[a][3])
  OBVIOUS
<1>2. Popping(w) /\ IsBignum(w)
  BY DEF gc_relocate_bignum
<1>3. /\ w = queue[1] /\ queue # <<>> /\ fields = <<>> /\ a = Addr(queue[1])
      /\ Kinds(K)[a] = Tag(w) /\ Layout(Tag(w), mem[a])
  BY <1>1, <1>2, Popped1
<1>4. CASE Halts
  BY <1>4 DEF Halts, Now, Onward, Extends, Kinds
<1>5. CASE /\ gc_to_alloc_fits(n) /\ Relocate(a, 4, b, n) /\ fields' = <<>> /\ Popped(w)
  <2>1. Tag(w) = TAG_INSTANCE /\ mem[a][1] = MAGIC_BIGNUM /\ mem[a][3] # 0
    BY <1>1, <1>2 DEF IsBignum, Is
  <2>2. mem[a][3] \in Nat \ {0}
    BY <1>3, <2>1, LayoutTable
  <2>3. 8 * mem[a][3] \in Nat \ {0}
    BY <2>2
  <2>4. Room(to_ptr, n)
    BY <1>1, <1>5, <2>3, Rounded DEF Room, gc_to_alloc_fits
  <2>5. Pointers(Kinds(K)[a], mem[a]) = {<<4, RAW_BLOCK>>}
    BY <1>3, <2>1, PointerTable
  <2>6. Pointers(RAW_BLOCK, mem[b]) = {} /\ Values(RAW_BLOCK, mem[b]) = {}
    BY RawBlocks
  <2>7. BlockFields(<<>>, to_ptr, RAW_BLOCK, mem[b])
    BY <2>6 DEF BlockFields
  <2>8. Onward(K, WithBlock(mem, a, 4, b, to_ptr), Put(origin, to_ptr, origin[b]), to_ptr + n,
             Tail(queue), black \cup {queue[1]}, <<>>)
    BY <1>1, <1>3, <2>4, <2>5, <2>6, <2>7, OneBlock
  <2> QED
    BY <1>3, <1>5, <2>8 DEF Relocate, Popped, WithBlock
<1> QED
  BY <1>1, <1>4, <1>5 DEF gc_relocate_bignum

\* The elements of a vector block are its values, and all of them are traced.
LEMMA VectorFields ==
  ASSUME NEW u, Layout(VECTOR_BLOCK, u), NEW p \in Int
  PROVE  /\ BlockFields(Slots(p, VectorData(u)), p, VECTOR_BLOCK, u)
         /\ VectorBytes(u) \in Nat \ {0}
<1>1. /\ u[1] \in Nat /\ VectorTotal(u) \in Nat /\ Len(u) = 1 + u[1] + VectorTotal(u)
      /\ Values(VECTOR_BLOCK, u) = (2 + u[1])..Len(u)
  BY LayoutTable, ValueTable
<1>2. PICK d, t, f2, n, h : d = VectorData(u) /\ t = VectorTotal(u) /\ f2 = Slots(p, d) /\ n = Len(u) /\ h = u[1]
  OBVIOUS
<1>3. h \in Nat /\ t \in Nat /\ n = 1 + h + t /\ Values(VECTOR_BLOCK, u) = (2 + h)..n
  BY <1>1, <1>2
<1>4. d = [j \in 1..t |-> 1 + h + j]
  BY <1>2 DEF VectorData
<1>5. d \in Seq(Int) /\ Len(d) = t /\ \A j \in 1..t : d[j] = 1 + h + j
  BY <1>3, <1>4
<1>6. f2 \in Seq(Int \X Int) /\ Len(f2) = t /\ \A j \in 1..t : f2[j] = <<p, d[j]>>
  BY <1>2, <1>5, SlotsOf
<1>7. ASSUME NEW j \in 1..Len(f2) PROVE f2[j][1] = p /\ f2[j][2] \in Values(VECTOR_BLOCK, u)
  <2>1. j \in Int /\ 1 <= j /\ j <= t /\ f2[j] = <<p, 1 + h + j>>
    BY <1>3, <1>5, <1>6
  <2>2. 1 + h + j \in (2 + h)..n
    BY <1>3, <2>1
  <2> QED
    BY <1>3, <2>1, <2>2
<1>8. ASSUME NEW i \in Values(VECTOR_BLOCK, u) PROVE \E j \in 1..Len(f2) : f2[j] = <<p, i>>
  <2>1. i \in (2 + h)..n
    BY <1>3
  <2>2. PICK j : j = i - 1 - h
    OBVIOUS
  <2>3. j \in 1..t /\ 1 + h + j = i
    BY <1>3, <2>1, <2>2
  <2> QED
    BY <1>5, <1>6, <2>3
<1>9. VectorBytes(u) = 8 * n
  BY <1>2, <1>3 DEF VectorBytes
<1>10. 8 * n \in Nat \ {0}
  BY <1>3
<1> QED
  BY <1>2, <1>6, <1>7, <1>8, <1>9, <1>10 DEF BlockFields

LEMMA VectorStep ==
  ASSUME Spaces, NEW K, Now(K), NEW w, gc_relocate_vector_block(w)
  PROVE  Onward(K, mem', origin', to_ptr', queue', black', fields')
<1>1. PICK a, b, u, n, f2 : /\ a = Addr(w) /\ b = mem[a][2] /\ u = mem[b]
                            /\ n = os_heap_align_up(VectorBytes(u)) /\ f2 = Slots(to_ptr, VectorData(u))
  OBVIOUS
<1>2. Popping(w) /\ IsVector(w)
  BY DEF gc_relocate_vector_block
<1>3. /\ w = queue[1] /\ queue # <<>> /\ fields = <<>> /\ a = Addr(queue[1]) /\ to_ptr \in Int
      /\ Kinds(K)[a] = Tag(w) /\ Layout(Tag(w), mem[a])
  BY <1>1, <1>2, Popped1
<1>4. CASE Halts
  BY <1>4 DEF Halts, Now, Onward, Extends, Kinds
<1>5. CASE /\ gc_to_alloc_fits(n) /\ Relocate(a, 2, b, n) /\ fields' = f2 /\ Popped(w)
  <2>1. Tag(w) = TAG_INSTANCE /\ mem[a][1] = MAGIC_VECTOR /\ mem[a][2] # 0
    BY <1>1, <1>2 DEF IsVector, Is
  <2>2. Pointers(Kinds(K)[a], mem[a]) = {<<2, VECTOR_BLOCK>>}
    BY <1>3, <2>1, PointerTable
  <2>3. Layout(VECTOR_BLOCK, u)
    <3>1. PICK k, r : k = Kinds(K) /\ r = <<2, VECTOR_BLOCK>>
      OBVIOUS
    <3>2. r \in Pointers(k[a], mem[a]) /\ b = mem[a][r[1]] /\ r[2] = VECTOR_BLOCK
      BY <1>1, <2>2, <3>1
    <3>3. Layout(k[b], mem[b]) /\ k[b] = r[2]
      BY <1>3, <3>1, <3>2, TopPointer
    <3> QED
      BY <1>1, <3>2, <3>3
  <2>4. BlockFields(f2, to_ptr, VECTOR_BLOCK, u) /\ VectorBytes(u) \in Nat \ {0}
    BY <1>1, <1>3, <2>3, VectorFields
  <2>5. Room(to_ptr, n)
    BY <1>1, <1>5, <2>4, Rounded DEF Room, gc_to_alloc_fits
  <2>6. Pointers(VECTOR_BLOCK, mem[b]) = {}
    BY NoPointers
  <2>7. Onward(K, WithBlock(mem, a, 2, b, to_ptr), Put(origin, to_ptr, origin[b]), to_ptr + n,
             Tail(queue), black \cup {queue[1]}, f2)
    BY <1>1, <1>3, <2>2, <2>4, <2>5, <2>6, OneBlock
  <2> QED
    BY <1>3, <1>5, <2>7 DEF Relocate, Popped, WithBlock
<1> QED
  BY <1>1, <1>4, <1>5 DEF gc_relocate_vector_block
StructFields(p) == Slots(p, StreamRefs)

LEMMA StructFieldsOf ==
  ASSUME NEW p \in Int, NEW u
  PROVE  BlockFields(StructFields(p), p, STREAM_STRUCT, u)
<1>1. StructFields(p) = <<<<p, 4>>, <<p, 5>>, <<p, 6>>>>
  BY DEF StructFields, Slots, StreamRefs
<1>2. Values(STREAM_STRUCT, u) = {4, 5, 6}
  BY ValueTable, SMTT(30)
<1> QED
  BY <1>1, <1>2 DEF BlockFields

\* The memory when the struct at b, word 2 of the object at a, and its buffer at c
\* have been moved to p and d.
WithStream(m, a, b, c, p, d) == [Put(Put([m EXCEPT ![a][2] = p], p, m[b]), d, m[c]) EXCEPT ![p][2] = d]

\* The struct of a stream and its buffer are copied.
LEMMA TwoBlocks ==
  ASSUME Spaces, NEW K, Now(K), fields = <<>>, queue # <<>>, NEW a, a = Addr(queue[1]),
         Pointers(Kinds(K)[a], mem[a]) = {<<2, STREAM_STRUCT>>},
         NEW b, b = mem[a][2], mem[b][1] # 0, NEW c, c = mem[b][2],
         NEW n, n \in Nat \ {0}, n % 16 = 0, Room(to_ptr, 48 + n)
  PROVE  Onward(K, WithStream(mem, a, b, c, to_ptr, to_ptr + 48),
              Put(Put(origin, to_ptr, origin[b]), to_ptr + 48, origin[c]), to_ptr + (48 + n),
              Tail(queue), black \cup {queue[1]}, StructFields(to_ptr))
<1>1. PICK k, u, v, st, st2, p, d, m2, g2, f2 :
        /\ k = Kinds(K) /\ p = to_ptr /\ d = to_ptr + 48
        /\ u = mem[a] /\ v = [u EXCEPT ![2] = p]
        /\ st = mem[b] /\ st2 = [st EXCEPT ![2] = d]
        /\ m2 = WithStream(mem, a, b, c, p, d)
        /\ g2 = Put(Put(origin, p, origin[b]), d, origin[c])
        /\ f2 = StructFields(p)
  OBVIOUS
<1>2. CoreAt(K, k, mem, origin, to_ptr, queue, black, fields)
  BY <1>1 DEF Now, Core, Kinds
<1>3. /\ a \in DOMAIN k /\ a \in DOMAIN origin /\ a < to_ptr /\ InTo(a) /\ a \in Int
      /\ k[a] \in ObjectKinds /\ Layout(k[a], u) /\ WellPlaced(u, a, k)
  BY <1>1, Top
<1>4. PICK r : r = <<2, STREAM_STRUCT>>
  OBVIOUS
<1>5. r \in Pointers(k[a], mem[a]) /\ b = mem[a][r[1]] /\ r[1] = 2 /\ r[2] = STREAM_STRUCT
  BY <1>1, <1>4, SMTT(60)
<1>6. /\ b \in DOMAIN origin /\ b \in DOMAIN k /\ b # a /\ k[b] = STREAM_STRUCT /\ k[b] \notin ObjectKinds
      /\ InFrom(b) /\ Fresh(origin, b) /\ Layout(k[b], mem[b]) /\ WellPlaced(mem[b], b, k) /\ ~Moved(mem, k, b)
  BY <1>1, <1>5, TopPointer
<1>7. PICK z : z = <<2, RAW_BLOCK>>
  OBVIOUS
<1>8. Pointers(k[b], mem[b]) = {z} /\ z[1] = 2 /\ z[2] = RAW_BLOCK /\ mem[b][z[1]] = c
  BY <1>6, <1>7, PointerTable
<1>9. c \in DOMAIN k /\ k[c] = RAW_BLOCK /\ k[c] \notin ObjectKinds
  BY <1>6, <1>8, KindNumbers DEF WellPlaced
<1>10. InFrom(c) /\ Fresh(origin, c)
  BY <1>2, <1>6, <1>8 DEF CoreAt, Waiting
<1>11. ~Moved(mem, k, c)
  BY <1>9 DEF Moved
<1>12. Layout(RAW_BLOCK, mem[c])
  BY <1>2, <1>9, <1>11, SMTT(60) DEF CoreAt, Sound, WellPlaced
<1>13. /\ DOMAIN mem = DOMAIN origin /\ DOMAIN k = DOMAIN origin /\ to_ptr \in Int /\ to_ptr % 16 = 0
       /\ to_start <= to_ptr /\ to_start \in Int /\ to_start > 4096 /\ Half \in Int
       /\ \A x \in DOMAIN origin : k[x] = K[origin[x]] /\ x \in Int
       /\ \A x \in DOMAIN origin : InFrom(x) \/ x < to_ptr
  BY <1>1, <1>2, SpacesApart, SMTT(60) DEF CoreAt, Places, Kinds, KindAt
<1>14. n \in Int /\ n > 0 /\ to_ptr + (48 + n) <= to_start + Half
  BY DEF Room
<1>15. /\ p \in Int /\ p % 16 = 0 /\ p = to_ptr /\ d \in Int /\ d % 16 = 0 /\ d = p + 48 /\ p # d
       /\ p > 4096 /\ d > 4096
  <2>1. (to_ptr + 48) % 16 = 0
    BY <1>13, Aligned
  <2> QED
    BY <1>1, <1>13, <2>1
<1>16. p \notin DOMAIN origin /\ d \notin DOMAIN origin
  <2>1. InTo(p) /\ InTo(d)
    BY <1>13, <1>14, <1>15 DEF InTo
  <2>2. ~InFrom(p) /\ ~InFrom(d)
    BY <1>15, <2>1, Apart
  <2> QED
    BY <1>13, <1>15, <2>2
<1>17. PICK N, s : N = {p, d} /\ s = [x \in {p, d} |-> IF x = p THEN b ELSE c]
  OBVIOUS
<1>18. s[p] = b /\ s[d] = c /\ b # c
  BY <1>6, <1>9, <1>15, <1>17, KindNumbers
<1>19. /\ DOMAIN g2 = DOMAIN origin \cup {p, d} /\ g2[p] = origin[b] /\ g2[d] = origin[c]
       /\ \A x \in DOMAIN origin : g2[x] = origin[x]
  <2>1. PICK g1 : g1 = Put(origin, p, origin[b])
    OBVIOUS
  <2>2. /\ DOMAIN g1 = DOMAIN origin \cup {p} /\ g1[p] = origin[b]
        /\ \A x \in DOMAIN origin : g1[x] = origin[x]
    BY <1>16, <2>1, SMTT(60) DEF Put
  <2>3. g2 = [x \in DOMAIN g1 \cup {d} |-> IF x = d THEN origin[c] ELSE g1[x]]
    BY <1>1, <2>1 DEF Put
  <2> QED
    BY <1>15, <1>16, <2>2, <2>3
<1>20. /\ DOMAIN m2 = DOMAIN origin \cup {p, d} /\ m2[p] = st2 /\ m2[a] = v /\ m2[d] = mem[c]
       /\ \A x \in DOMAIN origin : x # a => m2[x] = mem[x]
  <2>1. PICK m0, m1 : m0 = Put([mem EXCEPT ![a][2] = p], p, st) /\ m1 = Put(m0, d, mem[c])
    BY SMTT(60)
  <2>2. /\ DOMAIN m0 = DOMAIN origin \cup {p} /\ m0[p] = st /\ m0[a] = v
        /\ \A x \in DOMAIN origin : x # a => m0[x] = mem[x]
    BY <1>1, <1>3, <1>13, <1>16, <2>1, SMTT(60) DEF Put
  <2>3. /\ DOMAIN m1 = DOMAIN origin \cup {p, d} /\ m1[p] = st /\ m1[a] = v /\ m1[d] = mem[c]
        /\ \A x \in DOMAIN origin : x # a => m1[x] = mem[x]
    <3>1. m1 = [x \in DOMAIN m0 \cup {d} |-> IF x = d THEN mem[c] ELSE m0[x]]
      BY <2>1 DEF Put
    <3>2. a # d /\ a \in DOMAIN m0 /\ p \in DOMAIN m0 /\ \A x \in DOMAIN origin : x # d /\ x \in DOMAIN m0
      BY <1>3, <1>16, <2>2, SMTT(30)
    <3> QED
      BY <1>15, <2>2, <3>1, <3>2
  <2>4. m2 = [m1 EXCEPT ![p][2] = d]
    BY <1>1, <2>1, ZenonT(30) DEF WithStream
  <2>5. DOMAIN m2 = DOMAIN m1 /\ m2[p] = st2 /\ \A x \in DOMAIN m1 : x # p => m2[x] = m1[x]
    BY <1>1, <2>3, <2>4, ZenonT(30)
  <2> QED
    BY <1>3, <1>15, <1>16, <2>3, <2>5
<1>21. v[2] = p /\ Same(k[a], u, v) /\ Values(k[a], u) = {}
  <2>1. 2 \in 1..Len(u) /\ u \in Seq(Int)
    <3>1. r \in Pointers(k[a], u) /\ r[1] = 2
      BY <1>1, <1>5
    <3>2. r[1] \in 1..Len(u)
      BY <1>3, <3>1, WordsOf, SMTT(30)
    <3> QED
      BY <1>3, <3>1, <3>2 DEF Layout
  <2>2. k[a] # STREAM_STRUCT /\ Pointers(k[a], u) # {}
    BY <1>1, <1>3, <1>5, KindNumbers
  <2>3. Values(k[a], u) = {}
    BY <1>3, <2>2, WordsOf
  <2>4. p \in Int \ {0}
    BY <1>15, SMTT(30)
  <2>5. Same(k[a], u, [u EXCEPT ![r[1]] = p])
    BY <1>1, <1>3, <1>5, <2>4, PointerWritten, SMTT(30)
  <2> QED
    BY <1>1, <1>5, <2>1, <2>3, <2>5
<1>22. st2[2] = d /\ Same(STREAM_STRUCT, st, st2) /\ \A i \in {4, 5, 6} : st2[i] = st[i]
  <2>1. Layout(STREAM_STRUCT, st) /\ z \in Pointers(STREAM_STRUCT, st) /\ d \in Int \ {0}
    BY <1>1, <1>6, <1>8, <1>15
  <2>2. st \in Seq(Int) /\ Len(st) = 6
    BY <2>1, LayoutTable
  <2>3. Same(STREAM_STRUCT, st, [st EXCEPT ![z[1]] = d])
    BY <2>1, PointerWritten, SMTT(30)
  <2>4. st2[2] = d /\ \A i \in {4, 5, 6} : st2[i] = st[i]
    <3>1. st2 = [st EXCEPT ![2] = d]
      BY <1>1, Zenon
    <3>2. 2 \in DOMAIN st /\ \A i \in {4, 5, 6} : i \in DOMAIN st /\ i # 2
      BY <2>2
    <3> QED
      BY <3>1, <3>2, Zenon
  <2> QED
    BY <1>1, <1>8, <2>3, <2>4, ZenonT(30)
<1>23. Blocks(K, a, N, s)
  <2>1. K[origin[b]] \notin ObjectKinds /\ K[origin[c]] \notin ObjectKinds /\ c \in DOMAIN origin
    BY <1>6, <1>9, <1>13
  <2>2. \E o \in DOMAIN origin : /\ o = a \/ \E j \in N : o = s[j]
                                 /\ \E y \in Pointers(K[origin[o]], mem[o]) : mem[o][y[1]] = b
    BY <1>3, <1>5, <1>13
  <2>3. \E o \in DOMAIN origin : /\ o = a \/ \E j \in N : o = s[j]
                                 /\ \E y \in Pointers(K[origin[o]], mem[o]) : mem[o][y[1]] = c
    <3>1. p \in N /\ b = s[p] /\ z \in Pointers(K[origin[b]], mem[b]) /\ mem[b][z[1]] = c
      BY <1>6, <1>8, <1>13, <1>17, <1>18, SMTT(60)
    <3> QED
      BY <1>6, <3>1
  <2>4. \A x \in N : x = p \/ x = d
    BY <1>17
  <2>5. \A x, y \in N : s[x] = s[y] => x = y
    BY <1>18, <2>4
  <2>6. ASSUME NEW x \in N
        PROVE  /\ s[x] \in DOMAIN origin /\ K[origin[s[x]]] \notin ObjectKinds /\ InFrom(s[x]) /\ Fresh(origin, s[x])
               /\ \E o \in DOMAIN origin : /\ o = a \/ \E j \in N : o = s[j]
                                           /\ \E y \in Pointers(K[origin[o]], mem[o]) : mem[o][y[1]] = s[x]
    <3>1. CASE x = p
      BY <1>6, <1>18, <2>1, <2>2, <3>1
    <3>2. CASE x = d
      BY <1>10, <1>18, <2>1, <2>3, <3>2
    <3> QED
      BY <2>4, <3>1, <3>2
  <2> QED
    BY <2>5, <2>6 DEF Blocks
<1>24. Room2(N, to_ptr + (48 + n))
  <2>1. (48 + n) % 16 = 0
    BY <1>14, Aligned
  <2>2. (to_ptr + (48 + n)) % 16 = 0
    BY <1>13, <1>14, <2>1, Aligned
  <2> QED
    BY <1>13, <1>14, <1>15, <1>17, <2>2 DEF Room2
<1>25. Names(N, s, g2)
  BY <1>16, <1>17, <1>18, <1>19, SMTT(30) DEF Names
<1>26. Words(K, a, N, s, m2)
  <2>1. Redirected(mem[c], m2[d], K[origin[c]], N, s)
    <3>1. Layout(RAW_BLOCK, mem[c]) /\ Pointers(RAW_BLOCK, mem[c]) = {} /\ K[origin[c]] = RAW_BLOCK
      BY <1>9, <1>12, <1>13, RawBlocks, SMTT(60)
    <3> QED
      BY <1>20, <3>1, Unredirected, ZenonT(30)
  <2>2. Redirected(u, v, k[a], N, s)
    <3>1. Pointers(k[a], u) = {r} /\ u[2] = b
      BY <1>1, <1>4, <1>5
    <3>2. Layout(k[a], v) /\ Values(k[a], v) = Values(k[a], u) /\ Pointers(k[a], v) = Pointers(k[a], u)
      BY <1>21 DEF Same
    <3>3. v[r[1]] \in N /\ s[v[r[1]]] = u[r[1]]
      BY <1>5, <1>17, <1>18, <1>21, <3>1, SMTT(60)
    <3> QED
      BY <1>21, <3>1, <3>2, <3>3 DEF Redirected
  <2>3. Redirected(st, st2, STREAM_STRUCT, N, s)
    <3>1. Pointers(STREAM_STRUCT, st) = {z} /\ st[z[1]] = c /\ Values(STREAM_STRUCT, st) = {4, 5, 6}
      BY <1>1, <1>6, <1>8, ValueTable
    <3> QED
      BY <1>8, <1>17, <1>18, <1>22, <3>1, SMTT(60) DEF Redirected, Same
  <2>4. K[origin[b]] = STREAM_STRUCT /\ K[origin[a]] = k[a]
    BY <1>3, <1>6, <1>13
  <2>5. \A x \in N : Redirected(mem[s[x]], m2[x], K[origin[s[x]]], N, s)
    <3> SUFFICES ASSUME NEW x \in N PROVE Redirected(mem[s[x]], m2[x], K[origin[s[x]]], N, s)
      BY SMTT(30)
    <3>1. CASE x = p
      BY <1>1, <1>18, <1>20, <2>3, <2>4, <3>1, ZenonT(30)
    <3>2. CASE x = d
      BY <1>18, <1>20, <2>1, <3>2, ZenonT(30)
    <3> QED
      BY <1>17, <3>1, <3>2
  <2> QED
    BY <1>1, <1>17, <1>20, <2>2, <2>4, <2>5, ZenonT(30) DEF Words
<1>27. Fields(K, a, N, KindAt(K, g2), m2, f2)
  <2>1. PICK k2 : k2 = KindAt(K, g2)
    OBVIOUS
  <2>2. k2[p] = STREAM_STRUCT /\ k2[a] = k[a] /\ k2[d] = RAW_BLOCK
    BY <1>3, <1>6, <1>9, <1>13, <1>19, <2>1 DEF KindAt
  <2>3. /\ Values(k2[p], m2[p]) = {4, 5, 6} /\ Values(k2[a], m2[a]) = {}
        /\ Values(k2[d], m2[d]) = {}
    <3>1. Values(STREAM_STRUCT, st2) = {4, 5, 6} /\ Values(RAW_BLOCK, mem[c]) = {}
      BY ValueTable, RawBlocks
    <3>2. Values(k[a], v) = {}
      BY <1>21 DEF Same
    <3> QED
      BY <1>20, <2>2, <3>1, <3>2
  <2>4. f2 = <<<<p, 4>>, <<p, 5>>, <<p, 6>>>>
    BY <1>1 DEF StructFields, Slots, StreamRefs
  <2>5. f2 \in Seq(Int \X Int) /\ Len(f2) = 3 /\ \A i \in {4, 5, 6} : \E j \in 1..Len(f2) : f2[j] = <<p, i>>
    BY <1>15, <2>4, SMTT(60)
  <2>6. \A j \in 1..Len(f2) : f2[j][1] = p /\ f2[j][2] \in {4, 5, 6}
    BY <2>4
  <2> QED
    BY <1>17, <2>1, <2>3, <2>5, <2>6 DEF Fields
<1>28. Onward(K, m2, g2, to_ptr + (48 + n), Tail(queue), black \cup {queue[1]}, f2)
  BY <1>23, <1>24, <1>25, <1>26, <1>27, PopObject
<1> QED
  BY <1>1, <1>28, ZenonT(30)
LEMMA StreamStep ==
  ASSUME Spaces, NEW K, Now(K), NEW w, gc_relocate_stream(w)
  PROVE  Onward(K, mem', origin', to_ptr', queue', black', fields')
<1>1. PICK a, b, st, c, n, bytes :
        /\ a = Addr(w) /\ b = mem[a][2] /\ st = mem[b] /\ c = st[2] /\ n = os_heap_align_up(st[3])
        /\ bytes = os_heap_align_up(StreamStructBytes) + (IF st[1] = 0 THEN 0 ELSE n)
  OBVIOUS
<1>2. Popping(w) /\ IsStream(w)
  BY DEF gc_relocate_stream
<1>3. /\ w = queue[1] /\ queue # <<>> /\ fields = <<>> /\ a = Addr(queue[1]) /\ to_ptr \in Int
      /\ Kinds(K)[a] = Tag(w) /\ Layout(Tag(w), mem[a])
  BY <1>1, <1>2, Popped1
<1>4. os_heap_align_up(StreamStructBytes) = 48
  BY DEF os_heap_align_up, StreamStructBytes
<1>5. CASE Halts
  BY <1>5 DEF Halts, Now, Onward, Extends, Kinds
<1>6. Pointers(Kinds(K)[a], mem[a]) = {<<2, STREAM_STRUCT>>}
  <2>1. Tag(w) = TAG_INSTANCE /\ mem[a][1] = MAGIC_STREAM
    BY <1>1, <1>2 DEF IsStream, Is
  <2> QED
    BY <1>3, <2>1, PointerTable
<1>7. Layout(STREAM_STRUCT, st)
  <2>1. PICK k, r : k = Kinds(K) /\ r = <<2, STREAM_STRUCT>>
    OBVIOUS
  <2>2. r \in Pointers(k[a], mem[a]) /\ b = mem[a][r[1]] /\ r[2] = STREAM_STRUCT
    BY <1>1, <1>6, <2>1
  <2>3. Layout(k[b], mem[b]) /\ k[b] = r[2]
    BY <1>3, <2>1, <2>2, TopPointer
  <2> QED
    BY <1>1, <2>2, <2>3
<1>8. CASE gc_to_alloc_fits(bytes) /\ ~Halts /\ st[1] = 0
  <2>1. /\ mem' = WithBlock(mem, a, 2, b, to_ptr) /\ origin' = Put(origin, to_ptr, origin[b])
        /\ to_ptr' = to_ptr + 48 /\ fields' = StructFields(to_ptr)
        /\ queue' = Tail(queue) /\ black' = black \cup {queue[1]}
    BY <1>1, <1>3, <1>4, <1>8 DEF gc_relocate_stream, Popped, WithBlock, StructFields
  <2>2. Room(to_ptr, 48)
    BY <1>1, <1>4, <1>8 DEF Room, gc_to_alloc_fits
  <2>3. Pointers(STREAM_STRUCT, mem[b]) = {}
    BY <1>1, <1>8, PointerTable
  <2>4. BlockFields(StructFields(to_ptr), to_ptr, STREAM_STRUCT, mem[b])
    BY <1>3, StructFieldsOf
  <2>5. Onward(K, WithBlock(mem, a, 2, b, to_ptr), Put(origin, to_ptr, origin[b]), to_ptr + 48,
             Tail(queue), black \cup {queue[1]}, StructFields(to_ptr))
    BY <1>1, <1>3, <1>6, <2>2, <2>3, <2>4, OneBlock, ZenonT(30)
  <2> QED
    BY <2>1, <2>5
<1>9. CASE gc_to_alloc_fits(bytes) /\ ~Halts /\ st[1] # 0
  <2>1. /\ mem' = WithStream(mem, a, b, c, to_ptr, to_ptr + 48)
        /\ origin' = Put(Put(origin, to_ptr, origin[b]), to_ptr + 48, origin[c])
        /\ to_ptr' = to_ptr + (48 + n) /\ fields' = StructFields(to_ptr)
        /\ queue' = Tail(queue) /\ black' = black \cup {queue[1]}
    BY <1>1, <1>3, <1>4, <1>9, ZenonT(30) DEF gc_relocate_stream, Popped, WithStream, StructFields
  <2>2. n \in Nat \ {0} /\ n % 16 = 0
    <3>1. st[3] \in Nat \ {0}
      BY <1>7, <1>9, LayoutTable
    <3> QED
      BY <1>1, <3>1, Rounded
  <2>3. Room(to_ptr, 48 + n)
    <3>1. (48 + n) % 16 = 0
      BY <2>2, Aligned, SMTT(30)
    <3> QED
      BY <1>1, <1>4, <1>9, <2>2, <3>1 DEF Room, gc_to_alloc_fits
  <2>4. Onward(K, WithStream(mem, a, b, c, to_ptr, to_ptr + 48),
             Put(Put(origin, to_ptr, origin[b]), to_ptr + 48, origin[c]), to_ptr + (48 + n),
             Tail(queue), black \cup {queue[1]}, StructFields(to_ptr))
    BY <1>1, <1>3, <1>6, <1>9, <2>2, <2>3, TwoBlocks, ZenonT(30)
  <2> QED
    BY <2>1, <2>4
<1>10. Halts \/ gc_to_alloc_fits(bytes)
  BY <1>1, ZenonT(30) DEF gc_relocate_stream
<1> QED
  BY <1>5, <1>8, <1>9, <1>10

LEMMA ScanStep ==
  ASSUME Spaces, NEW K, Now(K), Scan
  PROVE  Onward(K, mem', origin', to_ptr', queue', black', fields')
<1>1. PICK w : ScanPlain(w) \/ gc_relocate_bignum(w) \/ gc_relocate_vector_block(w) \/ gc_relocate_stream(w)
  BY SMTT(30) DEF Scan
<1> QED
  BY <1>1, PlainStep, BignumStep, VectorStep, StreamStep
LEMMA FieldStep ==
  ASSUME Spaces, NEW K, Now(K), CopyField
  PROVE  Onward(K, mem', origin', to_ptr', queue', black', fields')
<1>1. PICK a, i, w : a = Head(fields)[1] /\ i = Head(fields)[2] /\ w = mem[a][i]
  OBVIOUS
<1>2. PICK k : k = Kinds(K)
  OBVIOUS
<1>3. CoreAt(K, k, mem, origin, to_ptr, queue, black, fields)
  BY <1>2, SMTT(60) DEF Now, Core, Kinds
<1>4. fields # <<>> /\ fields \in Seq(Int \X Int)
  BY <1>3 DEF CopyField, CoreAt, Pending
<1>5. fields[1] = <<a, i>> /\ 1 \in 1..Len(fields)
  BY <1>1, <1>4
<1>6. a \in DOMAIN k /\ InTo(a) /\ i \in Values(k[a], mem[a])
  <2>1. fields[1][1] = a /\ fields[1][2] = i
    BY <1>5
  <2>2. \A j \in 1..Len(fields) : /\ fields[j][1] \in DOMAIN k /\ InTo(fields[j][1])
                                  /\ fields[j][2] \in Values(k[fields[j][1]], mem[fields[j][1]])
    BY <1>3 DEF CoreAt, Pending, Scanned
  <2>3. fields[1][1] \in DOMAIN k /\ InTo(fields[1][1]) /\ fields[1][2] \in Values(k[fields[1][1]], mem[fields[1][1]])
    BY <1>5, <2>2
  <2> QED
    BY <2>1, <2>3
<1>7. ~Moved(mem, k, a)
  <2>1. a \in Int
    BY <1>2, <1>3, <1>6 DEF CoreAt, Places, Kinds, KindAt
  <2> QED
    BY <1>6, <2>1, Apart DEF Moved
<1>8. IsValue(w, k)
  BY <1>1, <1>3, <1>6, <1>7 DEF CoreAt, Sound, WellPlaced
<1>9. CASE Halts
  BY <1>9 DEF Halts, Now, Onward, Extends, Kinds
<1>10. CASE ~CopyFails(w) /\ ~Halts
  <2>1. /\ Copy(w) /\ mem' = [MemAfter(w) EXCEPT ![a][i] = gc_copy_value(w)] /\ fields' = Tail(fields)
        /\ black' = black
    BY <1>1, <1>10, ZenonT(30) DEF CopyField
  <2>2. Copying(w, to_ptr', queue', origin')
    BY <2>1 DEF Copy, Copying
  <2>3. PICK p2, q2, g2, v, m2 : /\ p2 = to_ptr' /\ q2 = queue' /\ g2 = origin'
                                 /\ v = gc_copy_value(w) /\ m2 = MemAfter(w)
    OBVIOUS
  <2>4. GoodCopy(K, v, m2, p2, q2, g2)
    BY <1>2, <1>8, <1>10, <2>2, <2>3, CopyWord
  <2>5. PICK k2 : k2 = KindAt(K, g2)
    OBVIOUS
  <2>6. CoreAt(K, k2, m2, g2, p2, q2, black, fields) /\ IsValue(v, k2) /\ Refers(v)
    BY <2>4, <2>5 DEF GoodCopy, Core
  <2>7. CoreAt(K, k2, [m2 EXCEPT ![a][i] = v], g2, p2, q2, black, Tail(fields))
    BY <1>4, <1>5, <2>5, <2>6, SetSlot
  <2> QED
    BY <2>1, <2>3, <2>4, <2>5, <2>7, SMTT(30) DEF Onward, Core, GoodCopy
<1> QED
  BY <1>1, <1>9, <1>10 DEF CopyField
-----------------------------------------------------------------------------
(***************************************************************************)
(* The steps that keep the spaces.                                         *)
(***************************************************************************)
SpacesKept == from_start' = from_start /\ to_start' = to_start

LEMMA Kept ==
  ASSUME Spaces, SpacesKept, NEW K, Onward(K, mem', origin', to_ptr', queue', black', fields')
  PROVE  Spaces' /\ Now(K)'
<1>1. PICK k2 : k2 = KindAt(K, origin')
  OBVIOUS
<1>2. CoreAt(K, k2, mem', origin', to_ptr', queue', black', fields') /\ Kinds(K)' = k2
  BY <1>1 DEF Onward, Core, Kinds, KindAt
<1>3. \A a : (InTo(a)' <=> InTo(a)) /\ (InFrom(a)' <=> InFrom(a))
  BY DEF SpacesKept, InTo, InFrom
<1>4. Spaces'
  BY DEF Spaces, SpacesKept
<1>5. Places(K, mem, origin, to_ptr)'
  BY <1>2, <1>3 DEF CoreAt, Places, SpacesKept
<1>6. OneEach(origin)'
  BY <1>2, <1>3 DEF CoreAt, OneEach
<1>7. \A m, c, x : Moved(m, c, x)' <=> Moved(m, c, x)
  BY <1>3 DEF Moved, Forwarded
<1>8. \A g, x : Fresh(g, x)' <=> Fresh(g, x)
  BY <1>3 DEF Fresh
<1>9. \A c, bl, x : Scanned(c, bl, x)' <=> Scanned(c, bl, x)
  BY <1>3 DEF Scanned
<1>10. \A v : (Refers(v)' <=> Refers(v)) /\ \A c : Copied(c, v)' <=> Copied(c, v)
  BY <1>3 DEF Refers, Copied
<1>11. Sound(mem, Kinds(K))'
  BY <1>2, <1>7 DEF CoreAt, Sound
<1>12. Forwarding(mem, Kinds(K), origin)'
  BY <1>2, <1>3, <1>7, <1>8 DEF CoreAt, Forwarding
<1>13. Owned(mem, Kinds(K))'
  BY <1>2, <1>7 DEF CoreAt, Owned
<1>14. Waiting(mem, Kinds(K), origin, black)'
  BY <1>2, <1>3, <1>7, <1>8 DEF CoreAt, Waiting
<1>15. Done(mem, Kinds(K), black, fields)'
  BY <1>2, <1>3, <1>9, <1>10 DEF CoreAt, Done
<1>16. Queued(Kinds(K), queue, black)'
  BY <1>2, <1>3, <1>10 DEF CoreAt, Queued
<1>17. Pending(mem, Kinds(K), black, fields)'
  BY <1>2, <1>9 DEF CoreAt, Pending
<1> QED
  BY <1>4, <1>5, <1>6, <1>11, <1>12, <1>13, <1>14, <1>15, <1>16, <1>17 DEF Now, Core, CoreAt, Kinds
LEMMA VisitedStays ==
  ASSUME NEW s, NEW n, NEW k, NEW l, Visited(s, n, k), Extends(k, l)
  PROVE  Visited(s, n, l)
<1>1. \A v : IsValue(v, k) => IsValue(v, l)
  BY ValueStays
<1> QED
  BY <1>1 DEF Visited

LEMMA VisitedNext ==
  ASSUME NEW s, NEW n \in 1..Len(s), NEW k, NEW l, Visited(s, n, k), Extends(k, l),
         NEW v, IsValue(v, l), Refers(v)
  PROVE  Visited([s EXCEPT ![n] = v], n + 1, l)
<1>1. PICK t : t = [s EXCEPT ![n] = v]
  OBVIOUS
<1>2. s \in Seq(Int) /\ v \in Int /\ Len(s) \in Nat
  BY DEF Visited, IsValue
<1>3. t \in Seq(Int) /\ Len(t) = Len(s) /\ t[n] = v /\ \A i \in 1..Len(s) : i # n => t[i] = s[i]
  BY <1>1, <1>2
<1>4. Visited(s, n, l)
  BY VisitedStays
<1>5. ASSUME NEW i \in 1..Len(t) PROVE IsValue(t[i], l) /\ (i < n + 1 => Refers(t[i]))
  <2>1. CASE i = n
    BY <1>3, <2>1
  <2>2. CASE i # n
    BY <1>2, <1>3, <1>4, <2>2 DEF Visited
  <2> QED
    BY <2>1, <2>2
<1> QED
  BY <1>1, <1>3, <1>5 DEF Visited

\* How far the roots and the cells have been visited.
RootsAt == CASE phase = "roots" -> next [] phase = "idle" -> 1 [] OTHER -> Len(roots) + 1
CellsAt == CASE phase = "cells" -> next [] phase = "rescan" -> Len(cells) + 1 [] OTHER -> 1

Phases == phase \in {"idle", "roots", "scan", "cells", "rescan"} /\ next \in Nat \ {0}
Resting == queue = <<>> /\ black = {} /\ \A a \in DOMAIN mem : InFrom(a)

LEMMA StageParts ==
  ASSUME NEW k
  PROVE  Stage(k) <=> /\ Phases /\ (phase = "scan" => next = 1)
                      /\ Visited(roots, RootsAt, k) /\ Visited(cells, CellsAt, k)
                      /\ phase \notin {"scan", "rescan"} => fields = <<>>
                      /\ phase = "idle" => Resting
  BY DEF Stage, Phases, RootsAt, CellsAt, Resting

LEMMA StageMade ==
  ASSUME SpacesKept, NEW K, NEW n, NEW j, NEW k2, k2 = KindAt(K, origin'),
         Phases', (phase = "scan" => next = 1)',
         Visited(roots', n, k2), n = RootsAt', Visited(cells', j, k2), j = CellsAt',
         (phase \notin {"scan", "rescan"} => fields = <<>>)', phase' # "idle"
  PROVE  Stage(Kinds(K))'
<1>1. Kinds(K)' = k2
  BY DEF Kinds, KindAt
<1>2. \A v : Refers(v)' <=> Refers(v)
  BY DEF SpacesKept, Refers, InTo
<1>3. Visited(roots, RootsAt, Kinds(K))' /\ Visited(cells, CellsAt, Kinds(K))'
  BY <1>1, <1>2 DEF Visited
<1> QED
  BY <1>3 DEF Stage, Phases, RootsAt, CellsAt
LEMMA GInvParts ==
  ASSUME NEW K
  PROVE  GInv(K) <=> Spaces /\ Now(K) /\ Stage(Kinds(K))
  BY DEF GInv, Now, Kinds

LEMMA GInvMade ==
  ASSUME NEW K, Spaces', Now(K)', Stage(Kinds(K))'
  PROVE  GInv(K)'
  BY DEF GInv, Now, Kinds

Same1 == UNCHANGED <<mem, roots, cells, from_start, to_start, to_ptr, queue, fields, phase, next, origin, black>>

LEMMA SameStep ==
  ASSUME NEW K, GInv(K), Same1
  PROVE  GInv(K)'
<1>1. Spaces /\ Now(K) /\ Stage(Kinds(K))
  BY GInvParts
<1>2. SpacesKept /\ Onward(K, mem', origin', to_ptr', queue', black', fields')
  BY <1>1 DEF Same1, SpacesKept, Onward, Now, Extends, Kinds
<1>3. Spaces' /\ Now(K)'
  BY <1>1, <1>2, Kept
<1>4. Stage(Kinds(K))'
  <2>1. \A v : (Refers(v)' <=> Refers(v)) /\ (InFrom(v)' <=> InFrom(v))
    BY <1>2 DEF SpacesKept, Refers, InTo, InFrom
  <2> QED
    BY <1>1, <2>1 DEF Same1, Stage, Visited, Kinds, KindAt
<1> QED
  BY <1>3, <1>4, GInvMade

LEMMA HaltStep ==
  ASSUME NEW K, GInv(K), Halts
  PROVE  GInv(K)'
  BY SameStep DEF Halts, Same1

\* CopyRoot, CopyField and FixupCell: a copied word.
LEMMA WordStep ==
  ASSUME NEW K, GInv(K), NEW w, IsValue(w, Kinds(K)), ~CopyFails(w), Copy(w), mem' = MemAfter(w),
         UNCHANGED <<from_start, to_start, fields, black>>
  PROVE  /\ Onward(K, mem', origin', to_ptr', queue', black', fields')
         /\ IsValue(gc_copy_value(w), KindAt(K, origin')) /\ Refers(gc_copy_value(w))
<1>1. Spaces /\ Now(K)
  BY GInvParts
<1>2. Copying(w, to_ptr', queue', origin')
  BY DEF Copy, Copying
<1>3. PICK p2, q2, g2, v, m2 : /\ p2 = to_ptr' /\ q2 = queue' /\ g2 = origin'
                               /\ v = gc_copy_value(w) /\ m2 = MemAfter(w)
  OBVIOUS
<1>4. GoodCopy(K, v, m2, p2, q2, g2)
  BY <1>1, <1>2, <1>3, CopyWord
<1> QED
  BY <1>3, <1>4 DEF GoodCopy, Onward

LEMMA RootStep ==
  ASSUME NEW K, GInv(K), CopyRoot
  PROVE  GInv(K)'
<1>1. PICK w : w = roots[next]
  OBVIOUS
<1>2. Spaces /\ Now(K) /\ Stage(Kinds(K)) /\ phase = "roots" /\ next <= Len(roots)
  BY GInvParts DEF CopyRoot
<1>3. /\ Visited(roots, next, Kinds(K)) /\ Visited(cells, 1, Kinds(K)) /\ fields = <<>>
      /\ next \in 1..Len(roots) /\ roots \in Seq(Int)
  BY <1>2 DEF Stage, Visited
<1>4. IsValue(w, Kinds(K))
  BY <1>1, <1>3 DEF Visited
<1>5. CASE Halts
  BY <1>5, HaltStep
<1>6. CASE ~CopyFails(w) /\ ~Halts
  <2>1. /\ Copy(w) /\ mem' = MemAfter(w) /\ roots' = [roots EXCEPT ![next] = gc_copy_value(w)]
        /\ next' = next + 1 /\ SpacesKept
        /\ UNCHANGED <<cells, from_start, to_start, fields, phase, black>>
    BY <1>1, <1>6 DEF CopyRoot, SpacesKept
  <2>2. PICK v, k2, r2, n : v = gc_copy_value(w) /\ k2 = KindAt(K, origin') /\ r2 = [roots EXCEPT ![next] = v] /\ n = next + 1
    OBVIOUS
  <2>3. Onward(K, mem', origin', to_ptr', queue', black', fields') /\ IsValue(v, k2) /\ Refers(v)
    BY <1>4, <1>6, <2>1, <2>2, WordStep
  <2>4. Spaces' /\ Now(K)'
    BY <1>2, <2>1, <2>3, Kept
  <2>5. Extends(Kinds(K), k2)
    BY <2>2, <2>3 DEF Onward
  <2>6. Visited(r2, n, k2) /\ Visited(cells, 1, k2)
    BY <1>3, <2>2, <2>3, <2>5, VisitedNext, VisitedStays
  <2>7. Visited(roots', n, k2) /\ Visited(cells', 1, k2) /\ n = RootsAt' /\ 1 = CellsAt'
    BY <1>2, <2>1, <2>2, <2>6 DEF RootsAt, CellsAt
  <2>8. Phases' /\ phase' = "roots" /\ fields' = <<>>
    BY <1>2, <1>3, <2>1 DEF Phases, Stage
  <2>9. Stage(Kinds(K))'
    BY <2>1, <2>2, <2>7, <2>8, StageMade
  <2> QED
    BY <2>4, <2>9, GInvMade
<1> QED
  BY <1>1, <1>5, <1>6 DEF CopyRoot

LEMMA CellStep ==
  ASSUME NEW K, GInv(K), FixupCell
  PROVE  GInv(K)'
<1>1. PICK w : w = cells[next]
  OBVIOUS
<1>2. /\ Spaces /\ Now(K) /\ Stage(Kinds(K)) /\ next <= Len(cells)
      /\ (phase = "scan" /\ ScanDone) \/ phase = "cells"
  BY GInvParts DEF FixupCell
<1>3. /\ Visited(roots, Len(roots) + 1, Kinds(K)) /\ Visited(cells, next, Kinds(K)) /\ fields = <<>>
      /\ next \in 1..Len(cells) /\ cells \in Seq(Int)
  BY <1>2 DEF Stage, Visited, ScanDone
<1>4. IsValue(w, Kinds(K))
  BY <1>1, <1>3 DEF Visited
<1>5. CASE Halts
  BY <1>5, HaltStep
<1>6. CASE ~CopyFails(w) /\ ~Halts
  <2>1. /\ Copy(w) /\ mem' = MemAfter(w) /\ cells' = [cells EXCEPT ![next] = gc_copy_value(w)]
        /\ next' = next + 1 /\ phase' = "cells" /\ SpacesKept
        /\ UNCHANGED <<roots, from_start, to_start, fields, black>>
    BY <1>1, <1>6 DEF FixupCell, SpacesKept
  <2>2. PICK v, k2, c2, n, l : /\ v = gc_copy_value(w) /\ k2 = KindAt(K, origin')
                               /\ c2 = [cells EXCEPT ![next] = v] /\ n = next + 1 /\ l = Len(roots) + 1
    OBVIOUS
  <2>3. Onward(K, mem', origin', to_ptr', queue', black', fields') /\ IsValue(v, k2) /\ Refers(v)
    BY <1>4, <1>6, <2>1, <2>2, WordStep
  <2>4. Spaces' /\ Now(K)'
    BY <1>2, <2>1, <2>3, Kept
  <2>5. Extends(Kinds(K), k2)
    BY <2>2, <2>3 DEF Onward
  <2>6. Visited(c2, n, k2) /\ Visited(roots, l, k2)
    BY <1>3, <2>2, <2>3, <2>5, VisitedNext, VisitedStays
  <2>7. Visited(roots', l, k2) /\ Visited(cells', n, k2) /\ l = RootsAt' /\ n = CellsAt'
    BY <2>1, <2>2, <2>6 DEF RootsAt, CellsAt
  <2>8. Phases' /\ phase' = "cells" /\ fields' = <<>>
    BY <1>2, <1>3, <2>1 DEF Phases, Stage
  <2>9. Stage(Kinds(K))'
    BY <2>1, <2>2, <2>7, <2>8, StageMade
  <2> QED
    BY <2>4, <2>9, GInvMade
<1> QED
  BY <1>1, <1>5, <1>6 DEF FixupCell
\* Scan and CopyField leave the roots and the cells alone.
LEMMA ObjectStep ==
  ASSUME NEW K, GInv(K), phase \in {"scan", "rescan"}, SpacesKept,
         UNCHANGED <<roots, cells, phase, next>>,
         Onward(K, mem', origin', to_ptr', queue', black', fields')
  PROVE  GInv(K)'
<1>1. Spaces /\ Now(K) /\ Stage(Kinds(K))
  BY GInvParts
<1>2. PICK k2, n, j : k2 = KindAt(K, origin') /\ n = RootsAt /\ j = CellsAt
  OBVIOUS
<1>3. Visited(roots, n, Kinds(K)) /\ Visited(cells, j, Kinds(K)) /\ Phases /\ (phase = "scan" => next = 1)
  BY <1>1, <1>2, StageParts
<1>4. Extends(Kinds(K), k2)
  BY <1>2 DEF Onward
<1>5. Visited(roots, n, k2) /\ Visited(cells, j, k2)
  BY <1>3, <1>4, VisitedStays
<1>6. Visited(roots', n, k2) /\ Visited(cells', j, k2) /\ n = RootsAt' /\ j = CellsAt'
  BY <1>2, <1>5 DEF RootsAt, CellsAt
<1>7. Phases' /\ (phase = "scan" => next = 1)' /\ phase' # "idle" /\ (phase \notin {"scan", "rescan"} => fields = <<>>)'
  BY <1>3 DEF Phases
<1>8. Stage(Kinds(K))'
  BY <1>2, <1>6, <1>7, StageMade
<1> QED
  BY <1>1, <1>8, Kept, GInvMade

LEMMA ScanGInv ==
  ASSUME NEW K, GInv(K), Scan
  PROVE  GInv(K)'
<1>1. PICK w : ScanPlain(w) \/ gc_relocate_bignum(w) \/ gc_relocate_vector_block(w) \/ gc_relocate_stream(w)
  BY SMTT(30) DEF Scan
<1>2. Popping(w) /\ (Popped(w) \/ Halts)
  BY <1>1, ZenonT(30) DEF ScanPlain, gc_relocate_bignum, gc_relocate_vector_block, gc_relocate_stream
<1>3. phase \in {"scan", "rescan"} /\ SpacesKept /\ UNCHANGED <<roots, cells, phase, next>>
  BY <1>2 DEF Popping, Popped, Halts, SpacesKept
<1>4. Onward(K, mem', origin', to_ptr', queue', black', fields')
  BY GInvParts, ScanStep
<1> QED
  BY <1>3, <1>4, ObjectStep

LEMMA FieldGInv ==
  ASSUME NEW K, GInv(K), CopyField
  PROVE  GInv(K)'
<1>1. SpacesKept /\ UNCHANGED <<roots, cells, phase, next>> /\ fields # <<>>
  BY DEF CopyField, Halts, SpacesKept
<1>2. phase \in {"scan", "rescan"}
  BY <1>1, GInvParts, StageParts
<1>3. Onward(K, mem', origin', to_ptr', queue', black', fields')
  BY GInvParts, FieldStep
<1> QED
  BY <1>1, <1>2, <1>3, ObjectStep, SMTT(60)

\* All of a sequence visited is all of it visited, however far one went past it.
LEMMA AllVisited ==
  ASSUME NEW s, NEW n \in Int, NEW k, Visited(s, n, k), n > Len(s), NEW n2
  PROVE  Visited(s, n2, k)
  BY DEF Visited

\* The steps from one stage to the next move nothing.
LEMMA NothingMoves ==
  ASSUME NEW K, GInv(K), UNCHANGED <<mem, from_start, to_start, to_ptr, queue, fields, origin, black>>
  PROVE  /\ SpacesKept /\ Kinds(K) = KindAt(K, origin') /\ Spaces' /\ Now(K)'
         /\ Visited(roots, RootsAt, Kinds(K)) /\ Visited(cells, CellsAt, Kinds(K)) /\ Phases
<1>1. SpacesKept /\ Kinds(K) = KindAt(K, origin') /\ Spaces /\ Now(K) /\ Stage(Kinds(K))
  BY GInvParts DEF SpacesKept, Kinds, KindAt
<1>2. Onward(K, mem', origin', to_ptr', queue', black', fields')
  BY <1>1 DEF Onward, Now, Extends
<1> QED
  BY <1>1, <1>2, Kept, StageParts

LEMMA RootsDoneStep ==
  ASSUME NEW K, GInv(K), RootsDone
  PROVE  GInv(K)'
<1>1. PICK k, n, r, c : k = Kinds(K) /\ n = Len(roots) + 1 /\ r = roots /\ c = cells
  OBVIOUS
<1>2. /\ SpacesKept /\ k = KindAt(K, origin') /\ Spaces' /\ Now(K)'
      /\ Visited(roots, RootsAt, k) /\ Visited(cells, CellsAt, k) /\ Phases
  BY <1>1, NothingMoves DEF RootsDone
<1>3. Visited(r, next, k) /\ Visited(c, 1, k) /\ next > Len(r) /\ next \in Int
  BY <1>1, <1>2 DEF RootsDone, RootsAt, CellsAt, Phases
<1>4. Visited(r, n, k)
  BY <1>3, AllVisited
<1>5. Visited(roots', n, k) /\ Visited(cells', 1, k) /\ n = RootsAt' /\ 1 = CellsAt'
  BY <1>1, <1>3, <1>4 DEF RootsDone, RootsAt, CellsAt
<1>6. Phases' /\ phase' = "scan" /\ next' = 1
  BY DEF RootsDone, Phases
<1>7. Stage(Kinds(K))'
  BY <1>2, <1>5, <1>6, StageMade
<1> QED
  BY <1>2, <1>7, GInvMade

LEMMA CellsDoneStep ==
  ASSUME NEW K, GInv(K), CellsDone
  PROVE  GInv(K)'
<1>1. PICK k, n, j, r, c : k = Kinds(K) /\ n = Len(roots) + 1 /\ j = Len(cells) + 1 /\ r = roots /\ c = cells
  OBVIOUS
<1>2. /\ SpacesKept /\ k = KindAt(K, origin') /\ Spaces' /\ Now(K)'
      /\ Visited(roots, RootsAt, k) /\ Visited(cells, CellsAt, k) /\ Phases /\ (phase = "scan" => next = 1)
  BY <1>1, NothingMoves, GInvParts, StageParts DEF CellsDone
<1>3. Visited(r, n, k) /\ Visited(c, next, k) /\ next > Len(c) /\ next \in Int
  BY <1>1, <1>2 DEF CellsDone, RootsAt, CellsAt, Phases
<1>4. Visited(c, j, k)
  BY <1>3, AllVisited
<1>5. Visited(roots', n, k) /\ Visited(cells', j, k) /\ n = RootsAt' /\ j = CellsAt'
  BY <1>1, <1>3, <1>4 DEF CellsDone, RootsAt, CellsAt
<1>6. Phases' /\ phase' = "rescan"
  BY <1>2 DEF CellsDone, Phases
<1>7. Stage(Kinds(K))'
  BY <1>2, <1>5, <1>6, StageMade
<1> QED
  BY <1>2, <1>7, GInvMade
LEMMA BeginStep ==
  ASSUME NEW K, GInv(K), Begin
  PROVE  GInv(K)'
<1>1. PICK k, p : k = Kinds(K) /\ p = to_start
  OBVIOUS
<1>2. /\ Spaces /\ Now(K) /\ Resting /\ fields = <<>> /\ phase = "idle"
      /\ Visited(roots, 1, k) /\ Visited(cells, 1, k)
  BY <1>1, GInvParts, StageParts DEF Begin, RootsAt, CellsAt
<1>3. CoreAt(K, k, mem, origin, to_ptr, queue, black, fields)
  BY <1>1, <1>2 DEF Now, Core, Kinds
<1>4. Places(K, mem, origin, p)
  <2>1. p \in Int /\ p % 16 = 0 /\ p <= p + Half
    BY <1>1, <1>2, SpacesApart
  <2>2. \A a \in DOMAIN origin : InFrom(a) /\ a \in Int /\ a % 16 = 0 /\ origin[a] \in DOMAIN K
    BY <1>2, <1>3 DEF CoreAt, Places, Resting
  <2> QED
    BY <1>1, <1>3, <2>1, <2>2 DEF CoreAt, Places
<1>5. CoreAt(K, k, mem, origin, p, queue, black, fields)
  BY <1>3, <1>4 DEF CoreAt
<1>6. /\ UNCHANGED <<mem, origin, fields, roots, cells>> /\ SpacesKept /\ to_ptr' = p /\ queue' = queue /\ black' = black
      /\ phase' = "roots" /\ next' = 1
  BY <1>1, <1>2 DEF Begin, Resting, SpacesKept
<1>7. Onward(K, mem', origin', to_ptr', queue', black', fields') /\ k = KindAt(K, origin')
  BY <1>1, <1>5, <1>6 DEF Onward, Core, Extends, Kinds
<1>8. Spaces' /\ Now(K)'
  BY <1>2, <1>6, <1>7, Kept
<1>9. Visited(roots', 1, k) /\ Visited(cells', 1, k) /\ 1 = RootsAt' /\ 1 = CellsAt'
  BY <1>2, <1>6 DEF RootsAt, CellsAt
<1>10. Phases' /\ phase' # "scan" /\ phase' # "idle" /\ fields' = <<>>
  BY <1>2, <1>6 DEF Phases
<1>11. Stage(Kinds(K))'
  BY <1>6, <1>7, <1>9, <1>10, StageMade
<1> QED
  BY <1>8, <1>11, GInvMade
-----------------------------------------------------------------------------
(***************************************************************************)
(* The flip.                                                               *)
(***************************************************************************)
\* Word 0 of an object never reads as a forwarding header, whichever space
\* the To space is: the length of a string lies below the heap.
LEMMA NotForwarded ==
  ASSUME Spaces, NEW a, NEW k, k[a] \in ObjectKinds, NEW u, WellPlaced(u, a, k)
  PROVE  ~(Tag(u[1]) = TAG_FORWARD /\ (InTo(Addr(u[1])) \/ InFrom(Addr(u[1]))))
<1>1. Layout(k[a], u) /\ \A i \in Values(k[a], u) : IsValue(u[i], k)
  BY DEF WellPlaced
<1>2. CASE k[a] \in {TAG_CONS, TAG_SYMBOL}
  <2>1. IsValue(u[1], k)
    BY <1>1, <1>2, ValueTable
  <2>2. Tag(u[1]) # TAG_FORWARD
    <3>1. Tag(NIL) # TAG_FORWARD
      BY DEF Tag, NIL, TAG_FORWARD
    <3>2. IsRef(u[1]) => Tag(u[1]) \in ObjectKinds
      BY <2>1 DEF IsValue
    <3>3. Tag(u[1]) = TAG_FORWARD => IsRef(u[1])
      BY <3>1 DEF IsRef, os_tag_is_heap_ref
    <3> QED
      BY <3>2, <3>3, KindNumbers
  <2> QED
    BY <2>2
<1>3. CASE k[a] = TAG_STRING
  <2>1. u[1] \in 0..(Base - 1) /\ Base \in Int
    BY <1>1, <1>3, LayoutTable, GCAssumption
  <2>2. Addr(u[1]) < Base
    BY <2>1 DEF Addr, Tag
  <2>3. from_start >= Base /\ to_start >= Base
    BY GCAssumption DEF Spaces
  <2>4. Addr(u[1]) \in Int /\ from_start \in Int /\ to_start \in Int
    BY <2>1, WordParts, SpacesApart
  <2> QED
    BY <2>1, <2>2, <2>3, <2>4 DEF InTo, InFrom
<1>4. CASE k[a] = TAG_INSTANCE
  BY <1>1, <1>4, LayoutTable
<1> QED
  BY <1>2, <1>3, <1>4 DEF ObjectKinds

\* Once the queue has run dry, all the To space refers to the To space.
LEMMA AllScanned ==
  ASSUME NEW K, GInv(K), ScanDone, NEW k, k = Kinds(K), NEW a \in DOMAIN k, InTo(a)
  PROVE  /\ WellPlaced(mem[a], a, k)
         /\ \A i \in Values(k[a], mem[a]) : Refers(mem[a][i])
         /\ \A p \in Pointers(k[a], mem[a]) : InTo(mem[a][p[1]])
<1>1. Spaces /\ CoreAt(K, k, mem, origin, to_ptr, queue, black, fields) /\ Len(queue) = 0 /\ Len(fields) = 0
  BY GInvParts DEF Now, Core, Kinds, ScanDone
<1>2. a \in Int
  BY <1>1 DEF CoreAt, Places, Kinds, KindAt
<1>3. ~Moved(mem, k, a)
  BY <1>1, <1>2, Apart DEF Moved
<1>4. Scanned(k, black, a)
  BY <1>1 DEF CoreAt, Queued, Scanned
<1>5. \A i \in Values(k[a], mem[a]) : Refers(mem[a][i])
  BY <1>1, <1>4 DEF CoreAt, Done
<1>6. \A p \in Pointers(k[a], mem[a]) : InTo(mem[a][p[1]])
  BY <1>1, <1>4 DEF CoreAt, Done
<1> QED
  BY <1>1, <1>3, <1>5, <1>6 DEF CoreAt, Sound

Survivors == {x \in DOMAIN mem : InTo(x)}

\* What is known of the To space holds of the heap that is left of it.
LEMMA ValueKept ==
  ASSUME NEW k, DOMAIN k = DOMAIN mem, NEW l, l = [a \in Survivors |-> k[a]],
         NEW v, IsValue(v, k), Refers(v)
  PROVE  IsValue(v, l)
  BY DEF IsValue, Refers, Survivors

LEMMA PlacedKept ==
  ASSUME NEW K, GInv(K), ScanDone, NEW k, k = Kinds(K), NEW l, l = [a \in Survivors |-> k[a]],
         NEW a \in Survivors
  PROVE  WellPlaced(mem[a], a, l) /\ \A p \in Pointers(l[a], mem[a]) : InTo(mem[a][p[1]])
<1>1. DOMAIN k = DOMAIN mem
  BY GInvParts DEF Now, Core, CoreAt, Places, Kinds, KindAt
<1>2. a \in DOMAIN k /\ InTo(a) /\ l[a] = k[a]
  BY <1>1 DEF Survivors
<1>3. /\ WellPlaced(mem[a], a, k)
      /\ \A i \in Values(k[a], mem[a]) : Refers(mem[a][i])
      /\ \A p \in Pointers(k[a], mem[a]) : InTo(mem[a][p[1]])
  BY <1>2, AllScanned
<1>4. \A i \in Values(k[a], mem[a]) : IsValue(mem[a][i], l)
  BY <1>1, <1>3, ValueKept DEF WellPlaced
<1>5. \A p \in Pointers(k[a], mem[a]) : mem[a][p[1]] \in DOMAIN l /\ l[mem[a][p[1]]] = p[2]
  BY <1>1, <1>3 DEF WellPlaced, Survivors
<1> QED
  BY <1>2, <1>3, <1>4, <1>5 DEF WellPlaced
LEMMA FlipStep ==
  ASSUME NEW K, GInv(K), Flip
  PROVE  GInv(K)'
<1>1. PICK k, l, S : k = Kinds(K) /\ S = Survivors /\ l = [a \in S |-> k[a]]
  OBVIOUS
<1>2. /\ Spaces /\ CoreAt(K, k, mem, origin, to_ptr, queue, black, fields)
      /\ queue = <<>> /\ fields = <<>> /\ phase = "rescan"
      /\ Visited(roots, Len(roots) + 1, k) /\ Visited(cells, Len(cells) + 1, k) /\ Phases
  BY <1>1, GInvParts, StageParts DEF Now, Core, Kinds, Flip, ScanDone, RootsAt, CellsAt
<1>3. /\ from_start' = to_start /\ to_start' = from_start /\ to_ptr' = from_start
      /\ mem' = [a \in S |-> mem[a]] /\ origin' = [a \in S |-> origin[a]]
      /\ roots' = roots /\ cells' = cells /\ queue' = <<>> /\ black' = {} /\ fields' = <<>>
      /\ phase' = "idle" /\ next' = next
  BY <1>1, <1>2 DEF Flip, Survivors
<1>4. \A a : (InTo(a)' <=> InFrom(a)) /\ (InFrom(a)' <=> InTo(a))
  BY <1>3 DEF InTo, InFrom
<1>5. DOMAIN mem = DOMAIN k /\ DOMAIN origin = DOMAIN k /\ S \subseteq DOMAIN k /\ DOMAIN l = S
      /\ \A a \in S : InTo(a) /\ a \in Int /\ a % 16 = 0 /\ origin[a] \in DOMAIN K /\ ~InFrom(a)
  <2>1. DOMAIN mem = DOMAIN k /\ DOMAIN origin = DOMAIN k /\ S \subseteq DOMAIN k /\ DOMAIN l = S
    BY <1>1, <1>2 DEF CoreAt, Places, Kinds, KindAt, Survivors
  <2>2. \A a \in S : InTo(a) /\ a \in Int /\ a % 16 = 0 /\ origin[a] \in DOMAIN K
    BY <1>1, <1>2 DEF CoreAt, Places, Survivors
  <2> QED
    BY <1>2, <2>1, <2>2, Apart
<1>6. Kinds(K)' = l
  BY <1>1, <1>3, <1>5 DEF Kinds, KindAt
<1>7. \A a \in S : mem'[a] = mem[a] /\ origin'[a] = origin[a] /\ l[a] = k[a]
  BY <1>1, <1>3
<1>8. DOMAIN mem' = S /\ DOMAIN origin' = S
  BY <1>3
<1>9. \A a \in S : WellPlaced(mem[a], a, l) /\ \A p \in Pointers(l[a], mem[a]) : InTo(mem[a][p[1]])
  BY <1>1, <1>5, PlacedKept DEF Flip
<1>10. \A a \in S : ~Moved(mem, l, a)' /\ ~Moved(mem, k, a)
  <2> TAKE a \in S
  <2>1. ~Moved(mem, k, a)
    BY <1>5 DEF Moved
  <2>2. CASE l[a] \in ObjectKinds
    BY <1>2, <1>4, <1>6, <1>7, <1>9, <2>1, <2>2, NotForwarded DEF Moved, Forwarded
  <2>3. CASE l[a] \notin ObjectKinds
    BY <1>6, <2>1, <2>3 DEF Moved
  <2> QED
    BY <2>2, <2>3
<1>11. Spaces'
  BY <1>2, <1>3 DEF Spaces
<1>12. Places(K, mem, origin, to_ptr)'
  <2>1. from_start \in Int /\ from_start % 16 = 0 /\ from_start <= from_start + Half
    BY <1>2, SpacesApart
  <2> QED
    BY <1>3, <1>4, <1>5, <1>7, <1>8, <2>1 DEF Places
<1>13. OneEach(origin)'
  <2>1. \A a, b \in S : origin[a] = origin[b] => a = b
    BY <1>2, <1>5 DEF CoreAt, OneEach
  <2> QED
    BY <1>7, <1>8, <2>1 DEF OneEach
<1>14. Sound(mem, l)'
  BY <1>5, <1>6, <1>7, <1>9 DEF Sound
<1>15. \A g, a : Fresh(g, a)' <=> \A x \in DOMAIN g : InFrom(x) => g[x] # g[a]
  BY <1>4 DEF Fresh
<1>16. \A a \in S : Fresh(origin, a)' /\ \A b \in S : Fresh(origin, b)'
  BY <1>5, <1>8, <1>15
<1>17. Forwarding(mem, l, origin)'
  BY <1>5, <1>10, <1>16 DEF Forwarding
<1>18. Owned(mem, l)'
  <2>1. \A a, b \in S : \A p \in Pointers(k[a], mem[a]), q \in Pointers(k[b], mem[b]) :
          mem[a][p[1]] = mem[b][q[1]] => a = b
    BY <1>2, <1>5, <1>10 DEF CoreAt, Owned
  <2> QED
    BY <1>5, <1>6, <1>7, <2>1 DEF Owned
<1>19. Waiting(mem, l, origin, black)'
  <2>1. \A a \in S : \A p \in Pointers(l[a], mem[a]) : mem[a][p[1]] \in S /\ InTo(mem[a][p[1]])
    BY <1>5, <1>9 DEF WellPlaced
  <2>2. ASSUME NEW a \in S, NEW p \in Pointers(l[a], mem'[a])
        PROVE  InFrom(mem[a][p[1]])' /\ Fresh(origin, mem[a][p[1]])'
    <3>1. PICK b : b = mem[a][p[1]]
      OBVIOUS
    <3>2. mem'[a][p[1]] = b /\ b \in S /\ InTo(b)
      BY <1>7, <2>1, <3>1
    <3>3. InFrom(b)' /\ Fresh(origin, b)'
      BY <1>4, <1>16, <3>2
    <3> QED
      BY <3>2, <3>3 DEF InFrom, Fresh, InTo
  <2> QED
    BY <1>5, <2>2 DEF Waiting
<1>20. Done(mem, l, black, fields)' /\ Pending(mem, l, black, fields)' /\ Queued(l, queue, black)'
  <2>1. \A a \in S : ~InTo(a)'
    BY <1>4, <1>5
  <2>2. Done(mem, l, black, fields)'
    BY <1>5, <2>1 DEF Done, Scanned
  <2>3. Queued(l, queue, black)'
    BY <1>3, <1>5, <2>1 DEF Queued
  <2>4. Pending(mem, l, black, fields)'
    BY <1>3 DEF Pending
  <2> QED
    BY <2>2, <2>3, <2>4
<1>21. Now(K)'
  BY <1>6, <1>12, <1>13, <1>14, <1>17, <1>18, <1>19, <1>20 DEF Now, Core, CoreAt, Kinds
<1>22. /\ roots \in Seq(Int) /\ \A i \in 1..Len(roots) : IsValue(roots[i], l)
       /\ cells \in Seq(Int) /\ \A i \in 1..Len(cells) : IsValue(cells[i], l)
  <2>1. ASSUME NEW s, Visited(s, Len(s) + 1, k)
        PROVE  s \in Seq(Int) /\ \A i \in 1..Len(s) : IsValue(s[i], l)
    <3>1. \A i \in 1..Len(s) : IsValue(s[i], k) /\ Refers(s[i])
      BY <2>1 DEF Visited
    <3> QED
      BY <1>1, <1>5, <2>1, <3>1, ValueKept DEF Visited
  <2> QED
    BY <1>2, <2>1
<1>23. Visited(roots, 1, l)' /\ Visited(cells, 1, l)'
  BY <1>3, <1>22 DEF Visited
<1>24. Resting'
  BY <1>3, <1>4, <1>5, <1>8 DEF Resting
<1>25. Stage(Kinds(K))'
  BY <1>2, <1>3, <1>6, <1>23, <1>24 DEF Stage, Phases, Resting
<1> QED
  BY <1>11, <1>21, <1>25, GInvMade
-----------------------------------------------------------------------------
(***************************************************************************)
(* The heap a behaviour starts from.                                       *)
(***************************************************************************)
LEMMA InitGInv ==
  ASSUME Init, NEW h \in InitialHeaps, mem = h.mem, roots = h.roots, cells = h.cells
  PROVE  GInv(h.kind)
<1>1. PICK K, k : K = h.kind /\ k = Kinds(K)
  OBVIOUS
<1>2. WellFormed(h)
  BY HeapsAssumption
<1>3. /\ from_start = Base /\ to_start = Base + Half /\ to_ptr = Base + Half
      /\ queue = <<>> /\ fields = <<>> /\ phase = "idle" /\ next = 1 /\ black = {}
      /\ origin = [a \in DOMAIN mem |-> a]
  BY DEF Init
<1>4. Spaces
  BY <1>3 DEF Spaces
<1>5. /\ DOMAIN mem = DOMAIN K /\ DOMAIN origin = DOMAIN K /\ DOMAIN k = DOMAIN K
      /\ \A a \in DOMAIN K : origin[a] = a /\ k[a] = K[a]
  BY <1>1, <1>2, <1>3 DEF WellFormed, Kinds, KindAt
<1>6. Extends(K, k)
  BY <1>5 DEF Extends
<1>7. \A a \in DOMAIN K : a \in Int /\ a % 16 = 0 /\ InFrom(a) /\ ~InTo(a)
  <2>1. \A a \in DOMAIN K : a \in Base..(Base + Half - 1) /\ a % 16 = 0
    BY <1>1, <1>2 DEF WellFormed
  <2>2. Base \in Int /\ Half \in Int
    BY GCAssumption
  <2> QED
    BY <1>3, <2>1, <2>2 DEF InFrom, InTo
<1>8. \A a \in DOMAIN K : WellPlaced(mem[a], a, k)
  <2> TAKE a \in DOMAIN K
  <2>1. WellPlaced(mem[a], a, K)
    BY <1>1, <1>2 DEF WellFormed
  <2>2. k[a] = K[a]
    BY <1>5
  <2>3. PICK u : u = mem[a]
    OBVIOUS
  <2> QED
    BY <1>6, <2>1, <2>2, <2>3, PlacedStays
<1>9. \A a \in DOMAIN K : ~Moved(mem, k, a)
  BY <1>4, <1>8, NotForwarded DEF Moved, Forwarded
<1>10. \A a : Fresh(origin, a)
  BY <1>5, <1>7 DEF Fresh
<1>11. Places(K, mem, origin, to_ptr)
  <2>1. to_start \in Int /\ to_start % 16 = 0 /\ to_start <= to_start + Half /\ to_ptr = to_start
    BY <1>3, <1>4, SpacesApart
  <2> QED
    BY <1>5, <1>7, <2>1 DEF Places
<1>12. OneEach(origin) /\ Sound(mem, k)
  BY <1>5, <1>8 DEF OneEach, Sound
<1>13. Forwarding(mem, k, origin)
  BY <1>5, <1>9, <1>10 DEF Forwarding
<1>14. Owned(mem, k)
  <2>1. \A a, b \in DOMAIN K : \A p \in Pointers(K[a], mem[a]), q \in Pointers(K[b], mem[b]) :
          mem[a][p[1]] = mem[b][q[1]] => a = b
    BY <1>1, <1>2 DEF WellFormed
  <2> QED
    BY <1>5, <2>1 DEF Owned
<1>15. Waiting(mem, k, origin, black)
  <2>1. \A a \in DOMAIN K : \A p \in Pointers(k[a], mem[a]) : mem[a][p[1]] \in DOMAIN K
    BY <1>5, <1>8 DEF WellPlaced
  <2> QED
    BY <1>5, <1>7, <1>10, <2>1 DEF Waiting
<1>16. Done(mem, k, black, fields) /\ Queued(k, queue, black) /\ Pending(mem, k, black, fields)
  BY <1>3, <1>5, <1>7 DEF Done, Scanned, Queued, Pending
<1>17. Now(K)
  BY <1>1, <1>11, <1>12, <1>13, <1>14, <1>15, <1>16 DEF Now, Core, CoreAt, Kinds
<1>18. Visited(roots, 1, k) /\ Visited(cells, 1, k)
  <2>1. /\ roots \in Seq(Int) /\ cells \in Seq(Int)
        /\ \A v \in Range(roots) \cup Range(cells) : IsValue(v, K)
    BY <1>1, <1>2 DEF WellFormed
  <2>2. ASSUME NEW s \in Seq(Int), NEW i \in 1..Len(s) PROVE s[i] \in Range(s)
    BY DEF Range
  <2>3. \A v : IsValue(v, K) => IsValue(v, k)
    BY <1>6, ValueStays
  <2>4. \A i \in 1..Len(roots) : IsValue(roots[i], k)
    BY <2>1, <2>2, <2>3
  <2>5. \A i \in 1..Len(cells) : IsValue(cells[i], k)
    BY <2>1, <2>2, <2>3
  <2> QED
    BY <2>1, <2>4, <2>5 DEF Visited
<1>19. Stage(k)
  BY <1>3, <1>5, <1>7, <1>18 DEF Stage
<1> QED
  BY <1>1, <1>4, <1>17, <1>19, GInvParts
-----------------------------------------------------------------------------
(***************************************************************************)
(* What follows from the invariant, and the theorems.                      *)
(***************************************************************************)
LEMMA NextGInv ==
  ASSUME NEW K, GInv(K), [Next]_vars
  PROVE  GInv(K)'
<1>1. CASE UNCHANGED vars
  BY <1>1, SameStep DEF vars, Same1
<1>2. CASE Next
  BY <1>2, BeginStep, RootStep, RootsDoneStep, ScanGInv, FieldGInv, CellStep, CellsDoneStep, FlipStep DEF Next
<1> QED
  BY <1>1, <1>2

\* The invariant, whatever heap the behaviour started from.
GCInv == \E h \in InitialHeaps : GInv(h.kind)

\* GCInv holds in every state of the collector.
THEOREM CollectorInvariant == Spec => []GCInv
<1>1. Init => GCInv
  BY InitGInv DEF Init, GCInv
<1>2. GCInv /\ [Next]_vars => GCInv'
  <2> SUFFICES ASSUME NEW h \in InitialHeaps, GInv(h.kind), [Next]_vars
               PROVE  GCInv'
    BY DEF GCInv
  <2>1. PICK K : K = h.kind
    OBVIOUS
  <2>2. GInv(K)'
    BY <2>1, NextGInv
  <2> QED
    BY <2>1, <2>2 DEF GCInv
<1> QED
  BY <1>1, <1>2, PTL DEF Spec

LEMMA GInvCopiedOnce ==
  ASSUME NEW K, GInv(K)
  PROVE  CopiedOnce
<1>1. DOMAIN mem = DOMAIN origin /\ OneEach(origin)
  BY GInvParts DEF Now, Core, CoreAt, Places
<1> QED
  BY <1>1 DEF CopiedOnce, OneEach

\* The references of an object are values of the object, or of its block.
LEMMA ChildIsValue ==
  ASSUME NEW k, NEW w, NEW a, a = Addr(w), k[a] = Tag(w), Tag(w) \in ObjectKinds, NEW v \in Children(w)
  PROVE  /\ IsRef(v)
         /\ \/ \E i \in Values(k[a], mem[a]) : v = mem[a][i]
            \/ \E p \in Pointers(k[a], mem[a]) : \E i \in Values(p[2], mem[mem[a][p[1]]]) :
                 p[2] \notin ObjectKinds /\ v = mem[mem[a][p[1]]][i]
<1>1. IsRef(v)
  BY DEF Children
<1>2. CASE IsVector(w)
  <2>1. Tag(w) = TAG_INSTANCE /\ mem[a][1] = MAGIC_VECTOR /\ mem[a][2] # 0 /\ ~IsBignum(w)
    BY <1>2 DEF IsVector, IsBignum, Is, MAGIC_VECTOR, MAGIC_BIGNUM
  <2>2. PICK b, p : b = mem[a][2] /\ p = <<2, VECTOR_BLOCK>>
    OBVIOUS
  <2>3. p \in Pointers(k[a], mem[a]) /\ p[1] = 2 /\ p[2] = VECTOR_BLOCK
    BY <2>1, <2>2, PointerTable
  <2>4. Block(w) = b /\ BlockValueWords(w) = Values(VECTOR_BLOCK, mem[b])
    <3>1. ~IsStream(w)
      BY <2>1 DEF IsStream, Is, MAGIC_VECTOR, MAGIC_STREAM
    <3>2. Block(w) = b
      BY <2>1, <2>2 DEF Block
    <3>3. BlockValueWords(w) = (2 + mem[b][1])..Len(mem[b])
      BY <1>2, <2>2, <3>1 DEF BlockValueWords
    <3> QED
      BY <3>2, <3>3, ValueTable
  <2>5. PICK i \in Values(VECTOR_BLOCK, mem[b]) : v = mem[b][i]
    BY <1>2, <2>4 DEF Children
  <2> QED
    BY <1>1, <2>2, <2>3, <2>5, KindNumbers
<1>3. CASE IsStream(w)
  <2>1. Tag(w) = TAG_INSTANCE /\ mem[a][1] = MAGIC_STREAM /\ ~IsBignum(w) /\ ~IsVector(w)
    BY <1>3 DEF IsVector, IsBignum, IsStream, Is, MAGIC_VECTOR, MAGIC_BIGNUM, MAGIC_STREAM
  <2>2. PICK b, p : b = mem[a][2] /\ p = <<2, STREAM_STRUCT>>
    OBVIOUS
  <2>3. p \in Pointers(k[a], mem[a]) /\ p[1] = 2 /\ p[2] = STREAM_STRUCT
    BY <2>1, <2>2, PointerTable
  <2>4. Block(w) = b /\ BlockValueWords(w) = Values(STREAM_STRUCT, mem[b])
    BY <1>3, <2>1, <2>2, ValueTable DEF Block, BlockValueWords
  <2>5. PICK i \in Values(STREAM_STRUCT, mem[b]) : v = mem[b][i]
    BY <1>3, <2>4 DEF Children
  <2> QED
    BY <1>1, <2>2, <2>3, <2>5, KindNumbers
<1>4. CASE ~IsVector(w) /\ ~IsStream(w)
  <2>1. PICK i \in ValueWords(w) : v = mem[a][i]
    BY <1>4 DEF Children
  <2>2. Tag(w) \in {TAG_CONS, TAG_SYMBOL, TAG_STRING, TAG_INSTANCE}
    BY DEF ObjectKinds
  <2>3. ValueWords(w) = Values(k[a], mem[a])
    <3>1. CASE Tag(w) = TAG_CONS
      BY <3>1, ValueTable DEF ValueWords
    <3>2. CASE Tag(w) = TAG_SYMBOL
      BY <3>2, ValueTable DEF ValueWords
    <3>3. CASE Tag(w) = TAG_STRING
      BY <3>3, ValueTable DEF ValueWords
    <3>4. CASE Tag(w) = TAG_INSTANCE
      BY <3>4, ValueTable DEF ValueWords
    <3> QED
      BY <2>2, <3>1, <3>2, <3>3, <3>4
  <2> QED
    BY <1>1, <2>1, <2>3
<1> QED
  BY <1>2, <1>3, <1>4

LEMMA GInvBlack ==
  ASSUME NEW K, GInv(K)
  PROVE  BlackPointsToTo
<1> SUFFICES ASSUME fields = <<>>, NEW w \in black, NEW v \in Children(w)
             PROVE  InTo(Addr(v))
  BY DEF BlackPointsToTo
<1>1. PICK k, a : k = Kinds(K) /\ a = Addr(w)
  OBVIOUS
<1>2. Spaces /\ CoreAt(K, k, mem, origin, to_ptr, queue, black, fields) /\ Len(fields) = 0
  BY <1>1, GInvParts DEF Now, Core, Kinds
<1>3. w \in Int /\ Copied(k, w)
  BY <1>2 DEF CoreAt, Queued
<1>4. a + Tag(w) = w
  BY <1>1, <1>3, WordParts
<1>5. a \in DOMAIN k /\ InTo(a) /\ k[a] = Tag(w) /\ k[a] \in ObjectKinds /\ Scanned(k, black, a)
  BY <1>1, <1>3, <1>4 DEF Copied, Scanned
<1>6. \A x \in DOMAIN k : Scanned(k, black, x) =>
        /\ \A i \in Values(k[x], mem[x]) : Refers(mem[x][i])
        /\ \A p \in Pointers(k[x], mem[x]) : InTo(mem[x][p[1]])
  BY <1>2 DEF CoreAt, Done
<1>7. WellPlaced(mem[a], a, k)
  <2>1. a \in Int
    BY <1>1, <1>2, <1>5 DEF CoreAt, Places, Kinds, KindAt
  <2>2. ~Moved(mem, k, a)
    BY <1>2, <1>5, <2>1, Apart DEF Moved
  <2> QED
    BY <1>2, <1>5, <2>2 DEF CoreAt, Sound
<1>8. CASE \E i \in Values(k[a], mem[a]) : v = mem[a][i]
  BY <1>1, <1>5, <1>6, <1>8, ChildIsValue DEF Refers
<1>9. CASE \E p \in Pointers(k[a], mem[a]) : \E i \in Values(p[2], mem[mem[a][p[1]]]) :
             p[2] \notin ObjectKinds /\ v = mem[mem[a][p[1]]][i]
  <2>1. PICK p \in Pointers(k[a], mem[a]) : \E i \in Values(p[2], mem[mem[a][p[1]]]) :
             p[2] \notin ObjectKinds /\ v = mem[mem[a][p[1]]][i]
    BY <1>9
  <2>2. PICK b : b = mem[a][p[1]]
    OBVIOUS
  <2>3. b \in DOMAIN k /\ k[b] = p[2] /\ InTo(b)
    BY <1>5, <1>6, <1>7, <2>2 DEF WellPlaced
  <2>4. Scanned(k, black, b)
    BY <2>1, <2>3 DEF Scanned
  <2>5. Refers(v)
    BY <1>6, <2>1, <2>2, <2>3, <2>4
  <2> QED
    BY <1>1, <1>5, <2>5, ChildIsValue DEF Refers
<1> QED
  BY <1>1, <1>5, <1>8, <1>9, ChildIsValue

\* No object and no block is copied twice: in the To space there is one copy of
\* each, because whoever reaches a copied object finds the forwarding header in
\* its word 0 (gc_copy_value), and a block is copied with its only owner.
THEOREM OneCopy == Spec => []CopiedOnce
<1>1. GCInv => CopiedOnce
  BY GInvCopiedOnce DEF GCInv
<1> QED
  BY <1>1, CollectorInvariant, PTL

\* Between two objects, everything scanned refers to the To space: the rules
\* of gc_scan_queue leave out no word that holds a value.
THEOREM NothingLeft == Spec => []BlackPointsToTo
<1>1. GCInv => BlackPointsToTo
  BY GInvBlack DEF GCInv
<1> QED
  BY <1>1, CollectorInvariant, PTL
\* The queue never holds more than its capacity.
QueueFits == Len(queue) <= GC_QUEUE_CAPACITY

LEMMA QueueStep ==
  ASSUME NEW K, GInv(K), QueueFits, [Next]_vars
  PROVE  QueueFits'
<1>1. queue \in Seq(Int) /\ GC_QUEUE_CAPACITY \in Int /\ GC_QUEUE_CAPACITY >= 0
  BY GInvParts, GCAssumption, SMTT(30) DEF Now, Core, CoreAt, Queued
<1>2. \/ UNCHANGED queue \/ queue' = <<>>
      \/ queue # <<>> /\ queue' = Tail(queue)
      \/ \E w : Copy(w)
  BY ZenonT(30) DEF Next, vars, Begin, CopyRoot, RootsDone, Scan, ScanPlain, gc_relocate_bignum, gc_relocate_vector_block,
         gc_relocate_stream, Popping, Popped, CopyField, FixupCell, CellsDone, Flip, Halts
<1>3. ASSUME NEW w, Copy(w) PROVE QueueFits'
  <2>1. CASE Moves(w)
    <3>1. queue' = Append(queue, to_ptr + Tag(w)) /\ ~gc_queue_full
      BY <1>3, <2>1 DEF Copy, Moves
    <3> QED
      BY <1>1, <3>1 DEF QueueFits, gc_queue_full
  <2>2. CASE ~Moves(w)
    BY <1>3, <2>2 DEF Copy, QueueFits
  <2> QED
    BY <2>1, <2>2
<1>4. CASE UNCHANGED queue
  BY <1>4 DEF QueueFits
<1>5. CASE queue' = <<>>
  BY <1>1, <1>5 DEF QueueFits
<1>6. CASE queue # <<>> /\ queue' = Tail(queue)
  BY <1>1, <1>6 DEF QueueFits
<1> QED
  BY <1>2, <1>3, <1>4, <1>5, <1>6

\* The To pointer and the queue stay within their bounds, the spaces are the two
\* halves and everything has an identity.
THEOREM CollectorTypes == Spec => []TypeOK
<1>1. Init => QueueFits
  BY GCAssumption DEF Init, QueueFits
<1>2. GCInv /\ QueueFits /\ [Next]_vars => QueueFits'
  BY QueueStep DEF GCInv
<1>3. GCInv /\ QueueFits => TypeOK
  <2> SUFFICES ASSUME NEW K, GInv(K), QueueFits PROVE TypeOK
    BY DEF GCInv
  <2>1. Spaces /\ Places(K, mem, origin, to_ptr) /\ Phases
    BY GInvParts, StageParts DEF Now, Core, CoreAt
  <2>2. {from_start, to_start} = {Base, Base + Half}
    BY <2>1 DEF Spaces
  <2> QED
    BY <2>1, <2>2 DEF TypeOK, Places, Phases, QueueFits
<1> QED
  BY <1>1, <1>2, <1>3, CollectorInvariant, PTL DEF Spec
-----------------------------------------------------------------------------
(***************************************************************************)
(* What an object contains, up to the places of what it refers to.  H is   *)
(* the memory of the heap the behaviour started from, where everything is  *)
(* its own identity.                                                       *)
(***************************************************************************)
\* What the word w stands for under the identities g.
NameIn(g, w) ==
  IF ~IsRef(w) THEN <<w, 0>> ELSE IF Addr(w) \in DOMAIN g THEN <<Tag(w), g[Addr(w)]>> ELSE Dangling

Plain(kind, u) == {i \in 1..Len(u) : i \notin Values(kind, u) /\ \A p \in Pointers(kind, u) : i # p[1]}

\* The words v mean under g2 what the words u mean under g.
Alike(kind, v, g2, u, g) ==
  /\ Same(kind, u, v) /\ Len(v) = Len(u)
  /\ \A i \in Values(kind, u) : NameIn(g2, v[i]) = NameIn(g, u[i])
  /\ \A p \in Pointers(kind, u) : g2[v[p[1]]] = g[u[p[1]]]
  /\ \A i \in Plain(kind, u) : v[i] = u[i]

Identity(K) == [a \in DOMAIN K |-> a]

\* What has not been moved has the contents it had at first.
Faithful(H, K, m, k, g) ==
  \A x \in DOMAIN k : ~Moved(m, k, x) => Alike(k[x], m[x], g, H[g[x]], Identity(K))

LEMMA AlikeTwice ==
  ASSUME NEW kind, NEW u, NEW g, NEW v, NEW g2, NEW w, NEW g3,
         Alike(kind, v, g2, u, g), Alike(kind, w, g3, v, g2)
  PROVE  Alike(kind, w, g3, u, g)
<1>1. /\ Values(kind, v) = Values(kind, u) /\ Pointers(kind, v) = Pointers(kind, u) /\ Len(v) = Len(u)
      /\ Values(kind, w) = Values(kind, v) /\ Pointers(kind, w) = Pointers(kind, v) /\ Len(w) = Len(v)
      /\ Layout(kind, w)
  BY DEF Alike, Same
<1>2. Plain(kind, v) = Plain(kind, u)
  BY <1>1 DEF Plain
<1>3. \A i \in Values(kind, u) : NameIn(g3, w[i]) = NameIn(g, u[i])
  BY <1>1 DEF Alike
<1>4. \A p \in Pointers(kind, u) : g3[w[p[1]]] = g[u[p[1]]]
  BY <1>1 DEF Alike
<1>5. \A i \in Plain(kind, u) : w[i] = u[i]
  BY <1>2 DEF Alike
<1> QED
  BY <1>1, <1>3, <1>4, <1>5 DEF Alike, Same

\* A step keeps the contents when each object is alike to one there was before.
LEMMA FaithKept ==
  ASSUME NEW H, NEW K, NEW m, NEW k, NEW g, Faithful(H, K, m, k, g), NEW m2, NEW k2, NEW g2,
         \A x \in DOMAIN k2 : ~Moved(m2, k2, x) =>
           \E y \in DOMAIN k : /\ ~Moved(m, k, y) /\ k2[x] = k[y] /\ g2[x] = g[y]
                               /\ Alike(k[y], m2[x], g2, m[y], g)
  PROVE  Faithful(H, K, m2, k2, g2)
<1> SUFFICES ASSUME NEW x \in DOMAIN k2, ~Moved(m2, k2, x)
             PROVE  Alike(k2[x], m2[x], g2, H[g2[x]], Identity(K))
  BY DEF Faithful
<1>1. PICK y \in DOMAIN k : /\ ~Moved(m, k, y) /\ k2[x] = k[y] /\ g2[x] = g[y]
                            /\ Alike(k[y], m2[x], g2, m[y], g)
  OBVIOUS
<1>2. Alike(k[y], m[y], g, H[g[y]], Identity(K))
  BY <1>1 DEF Faithful
<1>3. Alike(k[y], m2[x], g2, H[g[y]], Identity(K))
  BY <1>1, <1>2, AlikeTwice
<1> QED
  BY <1>1, <1>3

\* The name of a value stays when addresses are added.
LEMMA NameStays ==
  ASSUME NEW k, NEW g, DOMAIN k = DOMAIN g, NEW g2, Extends(g, g2), NEW v, IsValue(v, k)
  PROVE  NameIn(g2, v) = NameIn(g, v)
  BY DEF NameIn, IsValue, Extends

\* Words that are left as they are.
LEMMA AlikeUnchanged ==
  ASSUME NEW k, NEW g, DOMAIN k = DOMAIN g, NEW g2, Extends(g, g2), NEW a, NEW u, WellPlaced(u, a, k)
  PROVE  Alike(k[a], u, g2, u, g)
<1>1. Same(k[a], u, u)
  BY DEF WellPlaced, Same
<1>2. ASSUME NEW i \in Values(k[a], u) PROVE NameIn(g2, u[i]) = NameIn(g, u[i])
  BY NameStays DEF WellPlaced
<1>3. ASSUME NEW p \in Pointers(k[a], u) PROVE g2[u[p[1]]] = g[u[p[1]]]
  BY DEF WellPlaced, Extends
<1> QED
  BY <1>1, <1>2, <1>3 DEF Alike

\* A value is replaced by one of the same name.
LEMMA AlikeValue ==
  ASSUME NEW k, NEW g, DOMAIN k = DOMAIN g, NEW a, NEW u, WellPlaced(u, a, k),
         NEW i \in Values(k[a], u), NEW x \in Int, NameIn(g, x) = NameIn(g, u[i])
  PROVE  Alike(k[a], [u EXCEPT ![i] = x], g, u, g)
<1>0. PICK v, c : v = [u EXCEPT ![i] = x] /\ c = k[a]
  OBVIOUS
<1> SUFFICES Alike(c, v, g, u, g)
  BY <1>0
<1>1. Layout(c, u) /\ i \in Values(c, u)
  BY <1>0 DEF WellPlaced
<1>2. Same(c, u, v)
  BY <1>0, <1>1, ValueWritten
<1>3. u \in Seq(Int) /\ i \in 1..Len(u) /\ \A p \in Pointers(c, u) : p[1] \in 1..Len(u) /\ p[1] # i
  BY <1>1, WordsOf DEF Layout
<1>4. Len(v) = Len(u) /\ v[i] = x /\ \A j \in 1..Len(u) : j # i => v[j] = u[j]
  BY <1>0, <1>3
<1>5. \A j \in Values(c, u) : j \in 1..Len(u)
  BY <1>1, WordsOf
<1>6. \A j \in Values(c, u) : NameIn(g, v[j]) = NameIn(g, u[j])
  BY <1>4, <1>5
<1>7. \A p \in Pointers(c, u) : g[v[p[1]]] = g[u[p[1]]]
  BY <1>3, <1>4
<1>8. \A j \in Plain(c, u) : v[j] = u[j]
  BY <1>1, <1>4 DEF Plain
<1> QED
  BY <1>2, <1>4, <1>6, <1>7, <1>8 DEF Alike

\* The only pointer is replaced by one to a copy of what it pointed to.
LEMMA AlikePointer ==
  ASSUME NEW k, NEW g, DOMAIN k = DOMAIN g, NEW g2, Extends(g, g2), NEW a, NEW u, WellPlaced(u, a, k),
         NEW i, NEW c, Pointers(k[a], u) = {<<i, c>>}, NEW x \in Int \ {0}, g2[x] = g[u[i]]
  PROVE  Alike(k[a], [u EXCEPT ![i] = x], g2, u, g)
<1>0. PICK v, d, r : v = [u EXCEPT ![i] = x] /\ d = k[a] /\ r = <<i, c>>
  OBVIOUS
<1> SUFFICES Alike(d, v, g2, u, g)
  BY <1>0
<1>1. Layout(d, u) /\ r \in Pointers(d, u) /\ r[1] = i /\ Pointers(d, u) = {r}
  BY <1>0 DEF WellPlaced
<1>2. Same(d, u, v)
  <2>1. Same(d, u, [u EXCEPT ![r[1]] = x])
    BY <1>1, PointerWritten
  <2> QED
    BY <1>0, <1>1, <2>1
<1>3. u \in Seq(Int) /\ i \in 1..Len(u) /\ i \notin Values(d, u)
  BY <1>1, WordsOf DEF Layout
<1>4. Len(v) = Len(u) /\ v[i] = x /\ \A j \in 1..Len(u) : j # i => v[j] = u[j]
  BY <1>0, <1>3
<1>5. ASSUME NEW j \in Values(d, u) PROVE NameIn(g2, v[j]) = NameIn(g, u[j])
  <2>1. j \in 1..Len(u) /\ j # i
    BY <1>1, <1>3, WordsOf
  <2>2. IsValue(u[j], k)
    BY <1>0 DEF WellPlaced
  <2> QED
    BY <1>4, <2>1, <2>2, NameStays
<1>6. \A p \in Pointers(d, u) : g2[v[p[1]]] = g[u[p[1]]]
  BY <1>1, <1>4
<1>7. \A j \in Plain(d, u) : v[j] = u[j]
  BY <1>1, <1>4 DEF Plain
<1> QED
  BY <1>2, <1>4, <1>5, <1>6, <1>7 DEF Alike

-----------------------------------------------------------------------------
(***************************************************************************)
(* Every step of a collection keeps the contents.                          *)
(***************************************************************************)
\* Where things are, for the steps that add a copy at to_ptr.
LEMMA NowPlaces ==
  ASSUME Spaces, NEW K, Now(K), NEW k, k = Kinds(K)
  PROVE  /\ CoreAt(K, k, mem, origin, to_ptr, queue, black, fields)
         /\ DOMAIN mem = DOMAIN origin /\ DOMAIN k = DOMAIN origin /\ to_ptr \in Int
         /\ to_start <= to_ptr /\ to_start \in Int /\ to_start > 4096 /\ Half \in Int
         /\ \A x \in DOMAIN origin : k[x] = K[origin[x]] /\ x \in Int /\ ~(InFrom(x) /\ InTo(x))
         /\ \A x \in DOMAIN origin : InFrom(x) \/ (InTo(x) /\ x < to_ptr)
<1>1. CoreAt(K, k, mem, origin, to_ptr, queue, black, fields)
  BY DEF Now, Core, Kinds
<1> QED
  BY <1>1, SpacesApart DEF CoreAt, Places, Kinds, KindAt

\* There is nothing yet where something is to be copied.
LEMMA RoomIsFree ==
  ASSUME Spaces, NEW K, Now(K), NEW p \in Int, to_ptr <= p, p < to_start + Half
  PROVE  p \notin DOMAIN origin /\ InTo(p) /\ ~InFrom(p) /\ p # 0
<1>1. PICK k : k = Kinds(K)
  OBVIOUS
<1>2. /\ to_ptr \in Int /\ to_start \in Int /\ to_start <= to_ptr /\ Half \in Int /\ to_start > 4096
      /\ \A x \in DOMAIN origin : InFrom(x) \/ (InTo(x) /\ x < to_ptr)
  BY <1>1, NowPlaces
<1>3. InTo(p) /\ p # 0
  BY <1>2 DEF InTo
<1>4. ~InFrom(p)
  BY <1>3, Apart
<1> QED
  BY <1>2, <1>3, <1>4

\* gc_copy_value copies an object.
LEMMA FaithCopy ==
  ASSUME Spaces, NEW K, Now(K), NEW H, NEW k, k = Kinds(K), Faithful(H, K, mem, k, origin),
         NEW a \in DOMAIN origin, InFrom(a), k[a] \in ObjectKinds, ~Moved(mem, k, a), to_ptr < to_start + Half,
         NEW g2, g2 = Put(origin, to_ptr, origin[a]), NEW m2, m2 = WithCopy(mem, a, to_ptr)
  PROVE  /\ Faithful(H, K, m2, KindAt(K, g2), g2) /\ Extends(origin, g2) /\ g2[to_ptr] = origin[a]
         /\ \A x \in DOMAIN mem : InTo(x) => m2[x] = mem[x]
<1>1. /\ CoreAt(K, k, mem, origin, to_ptr, queue, black, fields)
      /\ DOMAIN mem = DOMAIN origin /\ DOMAIN k = DOMAIN origin /\ to_ptr \in Int
      /\ \A x \in DOMAIN origin : ~(InFrom(x) /\ InTo(x))
  BY NowPlaces
<1>2. to_ptr \notin DOMAIN origin /\ InTo(to_ptr) /\ ~InFrom(to_ptr)
  BY <1>1, RoomIsFree
<1>3. PICK k2 : k2 = KindAt(K, g2)
  OBVIOUS
<1>4. /\ DOMAIN k2 = DOMAIN origin \cup {to_ptr} /\ g2[to_ptr] = origin[a] /\ k2[to_ptr] = k[a]
      /\ \A x \in DOMAIN origin : g2[x] = origin[x] /\ k2[x] = k[x]
      /\ Extends(origin, g2)
  <2>1. PICK g, p, b : g = origin /\ p = to_ptr /\ b = g[a]
    OBVIOUS
  <2>2. p \notin DOMAIN g /\ a \in DOMAIN g /\ g2 = Put(g, p, b) /\ k = KindAt(K, g)
    BY <1>2, <2>1 DEF Kinds
  <2>3. /\ DOMAIN g2 = DOMAIN g \cup {p} /\ DOMAIN k2 = DOMAIN g \cup {p}
        /\ g2[p] = g[a] /\ k2[p] = k[a]
        /\ \A x \in DOMAIN g : g2[x] = g[x] /\ k2[x] = k[x]
        /\ Extends(g, g2)
    BY <1>3, <2>1, <2>2 DEF Put, KindAt, Extends
  <2> QED
    BY <2>1, <2>3
<1>5. WellPlaced(mem[a], a, k)
  BY <1>1 DEF CoreAt, Sound
<1>6. mem[a] \in Seq(Int) /\ Len(mem[a]) > 0
  BY <1>5, ObjectWords DEF WellPlaced
<1>7. /\ m2[to_ptr] = mem[a] /\ m2[a][1] = to_ptr + TAG_FORWARD
      /\ \A x \in DOMAIN origin : x # a => m2[x] = mem[x]
  <2>1. PICK u : u = [mem EXCEPT ![a][1] = to_ptr + TAG_FORWARD]
    OBVIOUS
  <2>2. DOMAIN u = DOMAIN origin /\ u[a] = [mem[a] EXCEPT ![1] = to_ptr + TAG_FORWARD]
        /\ \A x \in DOMAIN origin : x # a => u[x] = mem[x]
    BY <1>1, <2>1
  <2>3. u[a][1] = to_ptr + TAG_FORWARD
    BY <1>6, <2>2
  <2>4. m2 = Put(u, to_ptr, mem[a])
    BY <2>1 DEF WithCopy
  <2> QED
    BY <1>2, <2>2, <2>3, <2>4 DEF Put
<1>8. Moved(m2, k2, a)
  <2>1. to_ptr % 16 = 0
    BY <1>1 DEF CoreAt, Places
  <2>2. Forwarded(m2[a][1])
    BY <1>1, <1>2, <1>7, <2>1, ForwardTag DEF Forwarded
  <2> QED
    BY <1>4, <2>2 DEF Moved
<1>9. ASSUME NEW x \in DOMAIN k2, ~Moved(m2, k2, x)
      PROVE  \E y \in DOMAIN k : /\ ~Moved(mem, k, y) /\ k2[x] = k[y] /\ g2[x] = origin[y]
                                 /\ Alike(k[y], m2[x], g2, mem[y], origin)
  <2>1. CASE x = to_ptr
    <3>1. Alike(k[a], mem[a], g2, mem[a], origin)
      BY <1>1, <1>4, <1>5, AlikeUnchanged
    <3> QED
      BY <1>1, <1>4, <1>7, <2>1, <3>1
  <2>2. CASE x # to_ptr
    <3>1. x \in DOMAIN origin /\ x # a /\ m2[x] = mem[x] /\ k2[x] = k[x] /\ g2[x] = origin[x]
      BY <1>4, <1>7, <1>8, <1>9, <2>2
    <3>2. ~Moved(mem, k, x)
      BY <1>9, <3>1 DEF Moved
    <3>3. WellPlaced(mem[x], x, k)
      BY <1>1, <3>1, <3>2 DEF CoreAt, Sound
    <3>4. Alike(k[x], mem[x], g2, mem[x], origin)
      BY <1>1, <1>4, <3>3, AlikeUnchanged
    <3> QED
      BY <1>1, <3>1, <3>2, <3>4
  <2> QED
    BY <2>1, <2>2
<1>10. Faithful(H, K, m2, k2, g2)
  BY <1>9, FaithKept
<1>11. \A x \in DOMAIN mem : InTo(x) => m2[x] = mem[x]
  BY <1>1, <1>7
<1> QED
  BY <1>3, <1>4, <1>10, <1>11

\* The name of a value that refers to x.
LEMMA NameAt ==
  ASSUME NEW g, NEW x \in DOMAIN g, x \in Int, x % 16 = 0, NEW t \in ObjectKinds, x + t # NIL
  PROVE  NameIn(g, x + t) = <<t, g[x]>>
<1>1. t \in 0..15 /\ t \in {1, 3, 5, 7}
  BY KindNumbers
<1>2. Tag(x + t) = t /\ Addr(x + t) = x
  BY <1>1, Tagged
<1>3. IsRef(x + t)
  BY <1>1, <1>2 DEF IsRef, os_tag_is_heap_ref
<1> QED
  BY <1>2, <1>3 DEF NameIn

\* gc_copy_value keeps what its word stands for, and all contents.
FaithAfter(H, K, w, v, m2, g2) ==
  /\ Faithful(H, K, m2, KindAt(K, g2), g2) /\ Extends(origin, g2)
  /\ NameIn(g2, v) = NameIn(origin, w)
  /\ \A x \in DOMAIN mem : InTo(x) => m2[x] = mem[x]

LEMMA FaithWord ==
  ASSUME NEW K, Spaces, Now(K), NEW H, Faithful(H, K, mem, Kinds(K), origin),
         NEW w, IsValue(w, Kinds(K)), ~CopyFails(w), NEW p2, NEW q2, NEW g2, Copying(w, p2, q2, g2)
  PROVE  FaithAfter(H, K, w, gc_copy_value(w), MemAfter(w), g2)
<1>0. PICK k : k = Kinds(K)
  OBVIOUS
<1>1. /\ CoreAt(K, k, mem, origin, to_ptr, queue, black, fields)
      /\ DOMAIN mem = DOMAIN origin /\ DOMAIN k = DOMAIN origin /\ to_ptr \in Int
      /\ to_start <= to_ptr /\ to_start \in Int /\ to_start > 4096 /\ Half \in Int
      /\ \A x \in DOMAIN origin : k[x] = K[origin[x]] /\ x \in Int /\ ~(InFrom(x) /\ InTo(x))
      /\ \A x \in DOMAIN origin : InFrom(x) \/ (InTo(x) /\ x < to_ptr)
  BY <1>0, NowPlaces
<1>2. \A x \in DOMAIN origin : x % 16 = 0
  BY <1>1 DEF CoreAt, Places
<1>3. Followed(w) => IsRef(w) /\ ~InTo(Addr(w))
  BY DEF Followed, IsRef
<1>4. CASE ~Moves(w) /\ ~(Followed(w) /\ Forwarded(mem[Addr(w)][1]))
  <2>1. MemAfter(w) = mem /\ gc_copy_value(w) = w /\ g2 = origin
    BY <1>4 DEF Copying, MemAfter, gc_copy_value
  <2> QED
    BY <2>1 DEF FaithAfter, Extends, Kinds
<1>5. CASE Followed(w) /\ Forwarded(mem[Addr(w)][1])
  <2>1. PICK a, y, t : a = Addr(w) /\ y = Addr(mem[a][1]) /\ t = Tag(w)
    OBVIOUS
  <2>2. MemAfter(w) = mem /\ gc_copy_value(w) = y + t /\ g2 = origin
    BY <1>5, <2>1 DEF Copying, Moves, NeedsCopy, MemAfter, gc_copy_value
  <2>3. IsRef(w) /\ a \in DOMAIN k /\ k[a] = t /\ t \in ObjectKinds /\ InFrom(a)
    BY <1>0, <1>1, <1>3, <1>5, <2>1, References
  <2>4. Moved(mem, k, a)
    BY <1>5, <2>1, <2>3 DEF Moved
  <2>5. y \in DOMAIN k /\ origin[y] = origin[a] /\ InTo(y)
    BY <1>1, <1>5, <2>1, <2>3, <2>4 DEF CoreAt, Forwarding, Forwarded
  <2>6. y + t # NIL
    <3>1. y > 4096 /\ y \in Int
      BY <1>1, <2>5 DEF InTo
    <3> QED
      BY <2>3, <3>1, KindNumbers
  <2>7. NameIn(origin, y + t) = <<t, origin[y]>>
    BY <1>1, <1>2, <2>3, <2>5, <2>6, NameAt
  <2>8. NameIn(origin, w) = <<t, origin[a]>>
    BY <1>1, <2>1, <2>3 DEF NameIn
  <2> QED
    BY <2>2, <2>5, <2>7, <2>8 DEF FaithAfter, Extends, Kinds
<1>6. CASE Moves(w)
  <2>1. PICK a, t, m2 : a = Addr(w) /\ t = Tag(w) /\ m2 = WithCopy(mem, a, to_ptr)
    OBVIOUS
  <2>2. Followed(w) /\ ~Forwarded(mem[a][1]) /\ gc_to_alloc_fits(CopyBytes(w))
    BY <1>6, <2>1 DEF Moves, NeedsCopy
  <2>3. IsRef(w) /\ a \in DOMAIN k /\ k[a] = t /\ t \in ObjectKinds /\ InFrom(a) /\ a \in DOMAIN origin
    BY <1>0, <1>1, <1>3, <2>1, <2>2, References
  <2>4. MemAfter(w) = m2 /\ gc_copy_value(w) = to_ptr + t /\ g2 = Put(origin, to_ptr, origin[a])
    BY <1>6, <2>1, <2>2 DEF Copying, MemAfter, gc_copy_value, WithCopy
  <2>5. ~Moved(mem, k, a)
    BY <2>2 DEF Moved
  <2>6. to_ptr < to_start + Half
    <3>1. Layout(t, mem[a])
      BY <1>1, <2>3, <2>5 DEF CoreAt, Sound, WellPlaced
    <3>2. CopyBytes(w) \in Nat \ {0}
      BY <2>1, <2>3, <3>1, SizePositive DEF CopyBytes
    <3>3. to_ptr + CopyBytes(w) <= to_start + Half
      BY <2>2 DEF gc_to_alloc_fits
    <3> QED
      BY <1>1, <3>2, <3>3
  <2>7. /\ Faithful(H, K, m2, KindAt(K, g2), g2) /\ Extends(origin, g2) /\ g2[to_ptr] = origin[a]
        /\ \A x \in DOMAIN mem : InTo(x) => m2[x] = mem[x]
    BY <1>0, <2>1, <2>3, <2>4, <2>5, <2>6, FaithCopy
  <2>8. to_ptr \in DOMAIN g2 /\ to_ptr % 16 = 0
    BY <1>1, <2>4 DEF Put, CoreAt, Places
  <2>9. to_ptr + t # NIL
    BY <1>1, <2>3, KindNumbers
  <2>10. NameIn(g2, to_ptr + t) = <<t, origin[a]>>
    BY <1>1, <2>3, <2>7, <2>8, <2>9, NameAt
  <2>11. NameIn(origin, w) = <<t, origin[a]>>
    BY <2>1, <2>3 DEF NameIn
  <2> QED
    BY <2>4, <2>7, <2>10, <2>11 DEF FaithAfter
<1> QED
  BY <1>4, <1>5, <1>6

\* The copied value is stored into a word of the object scanned.
LEMMA FaithSlot ==
  ASSUME Spaces, NEW H, NEW K, NEW k, NEW m, NEW g, DOMAIN k = DOMAIN g, DOMAIN m = DOMAIN g,
         Sound(m, k), Faithful(H, K, m, k, g), NEW x \in DOMAIN g, x \in Int, InTo(x),
         NEW i \in Values(k[x], m[x]), NEW v \in Int, NameIn(g, v) = NameIn(g, m[x][i])
  PROVE  Faithful(H, K, [m EXCEPT ![x][i] = v], k, g)
<1>1. PICK m2 : m2 = [m EXCEPT ![x][i] = v]
  OBVIOUS
<1>2. m2[x] = [m[x] EXCEPT ![i] = v] /\ \A y \in DOMAIN g : y # x => m2[y] = m[y]
  BY <1>1
<1>3. ~Moved(m, k, x)
  BY Apart DEF Moved
<1>4. Extends(g, g)
  BY DEF Extends
<1>5. ASSUME NEW y \in DOMAIN k, ~Moved(m2, k, y)
      PROVE  ~Moved(m, k, y) /\ Alike(k[y], m2[y], g, m[y], g)
  <2>1. CASE y = x
    <3>1. WellPlaced(m[x], x, k)
      BY <1>3 DEF Sound
    <3>2. Alike(k[x], [m[x] EXCEPT ![i] = v], g, m[x], g)
      BY <3>1, AlikeValue
    <3> QED
      BY <1>2, <1>3, <2>1, <3>2
  <2>2. CASE y # x
    <3>1. m2[y] = m[y] /\ ~Moved(m, k, y)
      BY <1>2, <1>5, <2>2 DEF Moved
    <3>2. WellPlaced(m[y], y, k)
      BY <3>1 DEF Sound
    <3> QED
      BY <1>4, <3>1, <3>2, AlikeUnchanged
  <2> QED
    BY <2>1, <2>2
<1>6. Faithful(H, K, m2, k, g)
  BY <1>5, FaithKept
<1> QED
  BY <1>1, <1>6

\* n in N is a new copy of the block s[n].
NewBlocks(k, N, s, m2, g2) ==
  \A n \in N : /\ n \notin DOMAIN origin /\ s[n] \in DOMAIN origin /\ k[s[n]] \notin ObjectKinds
               /\ Alike(k[s[n]], m2[n], g2, mem[s[n]], origin)

OthersStay(a, m2) == \A x \in DOMAIN origin : x # a => m2[x] = mem[x]

\* The blocks s[n] are copied to n, and the object at a is pointed to a copy.
LEMMA FaithBlocks ==
  ASSUME Spaces, NEW K, Now(K), NEW H, NEW k, k = Kinds(K), Faithful(H, K, mem, k, origin),
         NEW a \in DOMAIN origin, ~Moved(mem, k, a), NEW N, NEW s, NEW m2, NEW g2, NEW k2, k2 = KindAt(K, g2),
         Names(N, s, g2), NewBlocks(k, N, s, m2, g2), Alike(k[a], m2[a], g2, mem[a], origin), OthersStay(a, m2)
  PROVE  Faithful(H, K, m2, k2, g2) /\ Extends(origin, g2)
<1>1. /\ CoreAt(K, k, mem, origin, to_ptr, queue, black, fields)
      /\ DOMAIN mem = DOMAIN origin /\ DOMAIN k = DOMAIN origin
      /\ \A x \in DOMAIN origin : k[x] = K[origin[x]]
  BY NowPlaces
<1>2. /\ DOMAIN g2 = DOMAIN origin \cup N /\ DOMAIN k2 = DOMAIN origin \cup N
      /\ \A x \in DOMAIN origin : g2[x] = origin[x] /\ k2[x] = k[x]
      /\ \A n \in N : g2[n] = origin[s[n]] /\ k2[n] = k[s[n]] /\ s[n] \in DOMAIN origin /\ n \notin DOMAIN origin
                     /\ k[s[n]] \notin ObjectKinds /\ Alike(k[s[n]], m2[n], g2, mem[s[n]], origin)
      /\ \A x \in DOMAIN origin : x # a => m2[x] = mem[x]
  BY <1>1 DEF Names, KindAt, NewBlocks, OthersStay
<1>3. Extends(origin, g2)
  BY <1>2 DEF Extends
<1>4. ASSUME NEW x \in DOMAIN k2, ~Moved(m2, k2, x)
      PROVE  \E y \in DOMAIN k : /\ ~Moved(mem, k, y) /\ k2[x] = k[y] /\ g2[x] = origin[y]
                                 /\ Alike(k[y], m2[x], g2, mem[y], origin)
  <2>1. CASE x \in N
    <3>1. ~Moved(mem, k, s[x])
      BY <1>2, <2>1 DEF Moved
    <3> QED
      BY <1>1, <1>2, <2>1, <3>1
  <2>2. CASE x = a
    BY <1>1, <1>2, <2>2
  <2>3. CASE x \in DOMAIN origin /\ x # a
    <3>1. m2[x] = mem[x] /\ k2[x] = k[x] /\ g2[x] = origin[x]
      BY <1>2, <2>3
    <3>2. ~Moved(mem, k, x)
      BY <1>4, <3>1 DEF Moved
    <3>3. WellPlaced(mem[x], x, k)
      BY <1>1, <2>3, <3>2 DEF CoreAt, Sound
    <3>4. Alike(k[x], mem[x], g2, mem[x], origin)
      BY <1>1, <1>3, <3>3, AlikeUnchanged
    <3> QED
      BY <1>1, <2>3, <3>1, <3>2, <3>4
  <2> QED
    BY <1>2, <2>1, <2>2, <2>3
<1>5. Faithful(H, K, m2, k2, g2)
  BY <1>4, FaithKept
<1> QED
  BY <1>3, <1>5

\* The object popped has one block, without pointers or with none to be followed.
LEMMA FaithOne ==
  ASSUME Spaces, NEW K, Now(K), NEW H, Faithful(H, K, mem, Kinds(K), origin),
         queue # <<>>, NEW a, a = Addr(queue[1]),
         NEW i, NEW kind, Pointers(Kinds(K)[a], mem[a]) = {<<i, kind>>},
         NEW b, b = mem[a][i], to_ptr < to_start + Half,
         NEW m2, m2 = WithBlock(mem, a, i, b, to_ptr), NEW g2, g2 = Put(origin, to_ptr, origin[b])
  PROVE  Faithful(H, K, m2, KindAt(K, g2), g2) /\ Extends(origin, g2)
<1>1. PICK k, k2, r, p, s : /\ k = Kinds(K) /\ k2 = KindAt(K, g2) /\ r = <<i, kind>> /\ p = to_ptr
                            /\ s = [x \in {to_ptr} |-> b]
  OBVIOUS
<1>2. /\ DOMAIN mem = DOMAIN origin /\ DOMAIN k = DOMAIN origin /\ p \in Int
  BY <1>1, NowPlaces
<1>3. p \notin DOMAIN origin /\ p # 0
  BY <1>1, <1>2, RoomIsFree
<1>4. a \in DOMAIN origin /\ ~Moved(mem, k, a) /\ WellPlaced(mem[a], a, k)
  BY <1>1, Top
<1>5. r \in Pointers(k[a], mem[a]) /\ b = mem[a][r[1]] /\ r[1] = i /\ r[2] = kind
  BY <1>1
<1>6. b \in DOMAIN origin /\ b # a /\ k[b] \notin ObjectKinds /\ WellPlaced(mem[b], b, k)
  BY <1>1, <1>5, TopPointer
<1>7. Names({p}, s, g2)
  <2>1. g2 = Put(origin, p, origin[b])
    BY <1>1
  <2> QED
    BY <1>1, <1>3, <2>1 DEF Names, Put
<1>8. Extends(origin, g2) /\ g2[p] = origin[b]
  BY <1>1, <1>3, <1>7 DEF Names, Extends
<1>9. m2[p] = mem[b] /\ m2[a] = [mem[a] EXCEPT ![i] = p] /\ \A x \in DOMAIN origin : x # a => m2[x] = mem[x]
  <2>1. PICK u : u = [mem EXCEPT ![a][i] = p]
    OBVIOUS
  <2>2. DOMAIN u = DOMAIN origin /\ u[a] = [mem[a] EXCEPT ![i] = p]
        /\ \A x \in DOMAIN origin : x # a => u[x] = mem[x]
    BY <1>2, <1>4, <2>1
  <2>3. m2 = Put(u, p, mem[b])
    BY <1>1, <2>1 DEF WithBlock
  <2>4. \A x \in DOMAIN origin : m2[x] = u[x]
    BY <1>3, <2>2, <2>3 DEF Put
  <2>5. m2[p] = mem[b]
    BY <2>3 DEF Put
  <2> QED
    BY <1>4, <2>2, <2>4, <2>5
<1>10. Alike(k[b], m2[p], g2, mem[b], origin)
  BY <1>2, <1>6, <1>8, <1>9, AlikeUnchanged
<1>11. Alike(k[a], m2[a], g2, mem[a], origin)
  <2>1. Pointers(k[a], mem[a]) = {<<i, kind>>} /\ g2[p] = origin[mem[a][i]] /\ p \in Int \ {0}
    BY <1>1, <1>2, <1>3, <1>8
  <2>2. Alike(k[a], [mem[a] EXCEPT ![i] = p], g2, mem[a], origin)
    BY <1>2, <1>4, <1>8, <2>1, AlikePointer
  <2> QED
    BY <1>9, <2>2
<1>12. NewBlocks(k, {p}, s, m2, g2)
  BY <1>1, <1>3, <1>6, <1>10 DEF NewBlocks
<1>13. OthersStay(a, m2)
  BY <1>9 DEF OthersStay
<1>14. Faithful(H, K, mem, k, origin)
  BY <1>1
<1>15. Faithful(H, K, m2, k2, g2)
  BY <1>1, <1>4, <1>7, <1>11, <1>12, <1>13, <1>14, FaithBlocks
<1> QED
  BY <1>1, <1>8, <1>15

\* The stream popped is at a, its struct at b, the buffer at c: the struct moves
\* to to_ptr, the buffer to d.
StreamMoved(k, a, b, c, d, m2, g2) ==
  /\ a = Addr(queue[1]) /\ Pointers(k[a], mem[a]) = {<<2, STREAM_STRUCT>>}
  /\ b = mem[a][2] /\ mem[b][1] # 0 /\ c = mem[b][2]
  /\ d = to_ptr + 48 /\ d < to_start + Half
  /\ m2 = WithStream(mem, a, b, c, to_ptr, d)
  /\ g2 = Put(Put(origin, to_ptr, origin[b]), d, origin[c])

LEMMA FaithTwo ==
  ASSUME Spaces, NEW K, Now(K), NEW H, queue # <<>>, NEW k, k = Kinds(K), Faithful(H, K, mem, k, origin),
         NEW a, NEW b, NEW c, NEW d, NEW m2, NEW g2, StreamMoved(k, a, b, c, d, m2, g2)
  PROVE  Faithful(H, K, m2, KindAt(K, g2), g2) /\ Extends(origin, g2)
<1>1. PICK r, z, p, s : /\ r = <<2, STREAM_STRUCT>> /\ z = <<2, RAW_BLOCK>> /\ p = to_ptr
                        /\ s = [x \in {to_ptr, d} |-> IF x = to_ptr THEN b ELSE c]
  OBVIOUS
<1>2. /\ CoreAt(K, k, mem, origin, to_ptr, queue, black, fields)
      /\ DOMAIN mem = DOMAIN origin /\ DOMAIN k = DOMAIN origin
  BY NowPlaces
<1>3. /\ p = to_ptr /\ p \in Int /\ d \in Int /\ p < d /\ to_ptr <= p /\ to_ptr <= d
      /\ p < to_start + Half /\ d < to_start + Half
  <2>1. to_ptr \in Int /\ to_start \in Int /\ Half \in Int
    BY NowPlaces
  <2>2. p = to_ptr
    BY <1>1
  <2>3. d = to_ptr + 48 /\ d < to_start + Half
    BY DEF StreamMoved
  <2> QED
    BY <2>1, <2>2, <2>3
<1>4. p \notin DOMAIN origin /\ p # 0
  BY <1>3, RoomIsFree
<1>5. d \notin DOMAIN origin /\ d # 0
  BY <1>3, RoomIsFree
<1>6. p # d
  BY <1>3
<1>7. a = Addr(queue[1])
  BY DEF StreamMoved
<1>8. a \in DOMAIN origin /\ ~Moved(mem, k, a) /\ WellPlaced(mem[a], a, k)
  BY <1>7, Top
<1>9. r \in Pointers(k[a], mem[a]) /\ b = mem[a][r[1]] /\ r[1] = 2 /\ r[2] = STREAM_STRUCT
  BY <1>1 DEF StreamMoved
<1>10. /\ b \in DOMAIN origin /\ b # a /\ k[b] = STREAM_STRUCT /\ k[b] \notin ObjectKinds
       /\ WellPlaced(mem[b], b, k)
  <2>1. /\ b \in DOMAIN origin /\ b # a /\ k[b] = r[2] /\ k[b] \notin ObjectKinds
        /\ WellPlaced(mem[b], b, k)
    BY <1>7, <1>9, TopPointer
  <2> QED
    BY <1>9, <2>1
<1>11. Pointers(k[b], mem[b]) = {z} /\ z[1] = 2 /\ z[2] = RAW_BLOCK /\ mem[b][z[1]] = c
  <2>1. mem[b][1] # 0 /\ c = mem[b][2]
    BY DEF StreamMoved
  <2> QED
    BY <1>1, <1>10, <2>1, PointerTable
<1>12. c \in DOMAIN origin /\ k[c] = RAW_BLOCK /\ k[c] \notin ObjectKinds
  <2>1. z \in Pointers(k[b], mem[b])
    BY <1>11
  <2>2. mem[b][z[1]] \in DOMAIN k /\ k[mem[b][z[1]]] = z[2]
    BY <1>10, <2>1 DEF WellPlaced
  <2> QED
    BY <1>2, <1>11, <2>2, KindNumbers
<1>13. WellPlaced(mem[c], c, k)
  <2>1. ~Moved(mem, k, c)
    BY <1>12 DEF Moved
  <2> QED
    BY <1>2, <1>12, <2>1 DEF CoreAt, Sound
<1>14. /\ DOMAIN g2 = DOMAIN origin \cup {p, d} /\ g2[p] = origin[b] /\ g2[d] = origin[c]
       /\ \A x \in DOMAIN origin : g2[x] = origin[x]
  <2>1. PICK g1 : g1 = Put(origin, p, origin[b])
    OBVIOUS
  <2>2. /\ DOMAIN g1 = DOMAIN origin \cup {p} /\ g1[p] = origin[b]
        /\ \A x \in DOMAIN origin : g1[x] = origin[x]
    BY <1>4, <2>1 DEF Put
  <2>3. g2 = Put(g1, d, origin[c])
    BY <1>1, <2>1 DEF StreamMoved
  <2>4. g2 = [x \in DOMAIN g1 \cup {d} |-> IF x = d THEN origin[c] ELSE g1[x]]
    BY <2>3 DEF Put
  <2> QED
    BY <1>5, <1>6, <2>2, <2>4
<1>15. s[p] = b /\ s[d] = c
  BY <1>1, <1>6
<1>16. Names({p, d}, s, g2)
  BY <1>14, <1>15 DEF Names
<1>17. Extends(origin, g2)
  BY <1>14 DEF Extends
<1>18. PICK v, t : v = [mem[a] EXCEPT ![2] = p] /\ t = [mem[b] EXCEPT ![2] = d]
  OBVIOUS
<1>19. m2[p] = t /\ m2[a] = v /\ m2[d] = mem[c] /\ \A x \in DOMAIN origin : x # a => m2[x] = mem[x]
  <2>1. PICK m0, m1 : m0 = Put([mem EXCEPT ![a][2] = p], p, mem[b]) /\ m1 = Put(m0, d, mem[c])
    OBVIOUS
  <2>2. /\ DOMAIN m0 = DOMAIN origin \cup {p} /\ m0[p] = mem[b] /\ m0[a] = v
        /\ \A x \in DOMAIN origin : x # a => m0[x] = mem[x]
    BY <1>2, <1>4, <1>8, <1>18, <2>1 DEF Put
  <2>3. /\ DOMAIN m1 = DOMAIN origin \cup {p, d} /\ m1[p] = mem[b] /\ m1[a] = v
        /\ m1[d] = mem[c] /\ \A x \in DOMAIN origin : x # a => m1[x] = mem[x]
    <3>1. m1 = [x \in DOMAIN m0 \cup {d} |-> IF x = d THEN mem[c] ELSE m0[x]]
      BY <2>1 DEF Put
    <3>2. a # d /\ a \in DOMAIN m0 /\ p \in DOMAIN m0 /\ \A x \in DOMAIN origin : x # d /\ x \in DOMAIN m0
      BY <1>5, <1>8, <2>2
    <3> QED
      BY <1>6, <2>2, <3>1, <3>2
  <2>4. m2 = [m1 EXCEPT ![p][2] = d]
    BY <1>1, <2>1, ZenonT(30) DEF StreamMoved, WithStream
  <2>5. /\ DOMAIN m2 = DOMAIN m1 /\ m2[p] = t
        /\ \A x \in DOMAIN m1 : x # p => m2[x] = m1[x]
    BY <1>18, <2>3, <2>4, ZenonT(30)
  <2> QED
    BY <1>4, <1>6, <1>8, <2>3, <2>5
<1>20. Alike(k[a], m2[a], g2, mem[a], origin)
  <2>1. Pointers(k[a], mem[a]) = {<<2, STREAM_STRUCT>>} /\ b = mem[a][2]
    BY DEF StreamMoved
  <2>2. g2[p] = origin[mem[a][2]] /\ p \in Int \ {0}
    BY <1>3, <1>4, <1>14, <2>1
  <2>3. Alike(k[a], [mem[a] EXCEPT ![2] = p], g2, mem[a], origin)
    BY <1>2, <1>8, <1>17, <2>1, <2>2, AlikePointer
  <2> QED
    BY <1>18, <1>19, <2>3
<1>21. Alike(k[b], m2[p], g2, mem[b], origin)
  <2>1. g2[d] = origin[mem[b][2]] /\ d \in Int \ {0} /\ Pointers(k[b], mem[b]) = {<<2, RAW_BLOCK>>}
    BY <1>1, <1>3, <1>5, <1>11, <1>14
  <2>2. Alike(k[b], [mem[b] EXCEPT ![2] = d], g2, mem[b], origin)
    BY <1>2, <1>10, <1>17, <2>1, AlikePointer
  <2> QED
    BY <1>18, <1>19, <2>2
<1>22. Alike(k[c], m2[d], g2, mem[c], origin)
  BY <1>2, <1>12, <1>13, <1>17, <1>19, AlikeUnchanged
<1>23. NewBlocks(k, {p, d}, s, m2, g2)
  BY <1>4, <1>5, <1>10, <1>12, <1>15, <1>21, <1>22 DEF NewBlocks
<1>24. OthersStay(a, m2)
  BY <1>19 DEF OthersStay
<1>25. PICK N, k2 : N = {p, d} /\ k2 = KindAt(K, g2)
  OBVIOUS
<1>26. Names(N, s, g2) /\ NewBlocks(k, N, s, m2, g2)
  BY <1>16, <1>23, <1>25
<1>27. Faithful(H, K, m2, k2, g2)
  BY <1>8, <1>20, <1>24, <1>25, <1>26, FaithBlocks
<1> QED
  BY <1>17, <1>25, <1>27

\* What a step makes of the contents.
FaithOn(H, K, m2, g2) == Faithful(H, K, m2, KindAt(K, g2), g2) /\ Extends(origin, g2)

LEMMA FaithSame ==
  ASSUME NEW K, NEW H, Faithful(H, K, mem, Kinds(K), origin)
  PROVE  FaithOn(H, K, mem, origin)
  BY DEF FaithOn, Extends, Kinds

LEMMA FaithBignum ==
  ASSUME Spaces, NEW K, Now(K), NEW H, Faithful(H, K, mem, Kinds(K), origin), NEW w, gc_relocate_bignum(w)
  PROVE  FaithOn(H, K, mem', origin')
<1>1. PICK a, b, n : a = Addr(w) /\ b = mem[a][4] /\ n = os_heap_align_up(8 * mem[a][3])
  OBVIOUS
<1>2. Popping(w) /\ IsBignum(w)
  BY DEF gc_relocate_bignum
<1>3. /\ w = queue[1] /\ queue # <<>> /\ a = Addr(queue[1]) /\ to_ptr \in Int
      /\ Kinds(K)[a] = Tag(w) /\ Layout(Tag(w), mem[a])
  BY <1>1, <1>2, Popped1
<1>4. CASE Halts
  BY <1>4, FaithSame DEF Halts
<1>5. CASE gc_to_alloc_fits(n) /\ Relocate(a, 4, b, n)
  <2>1. Tag(w) = TAG_INSTANCE /\ mem[a][1] = MAGIC_BIGNUM /\ mem[a][3] # 0
    BY <1>1, <1>2 DEF IsBignum, Is
  <2>2. mem[a][3] \in Nat \ {0}
    BY <1>3, <2>1, LayoutTable
  <2>3. 8 * mem[a][3] \in Nat \ {0}
    BY <2>2
  <2>4. n \in Nat \ {0}
    BY <1>1, <2>3, Rounded
  <2>5. to_ptr < to_start + Half
    <3>1. to_ptr + n <= to_start + Half /\ to_start \in Int /\ Half \in Int
      BY <1>5, SpacesApart DEF gc_to_alloc_fits
    <3> QED
      BY <1>3, <2>4, <3>1
  <2>6. Pointers(Kinds(K)[a], mem[a]) = {<<4, RAW_BLOCK>>}
    BY <1>3, <2>1, PointerTable
  <2>7. PICK m2, g2 : m2 = mem' /\ g2 = origin'
    OBVIOUS
  <2>8. m2 = WithBlock(mem, a, 4, b, to_ptr) /\ g2 = Put(origin, to_ptr, origin[b])
    BY <1>5, <2>7 DEF Relocate, WithBlock
  <2>9. Faithful(H, K, m2, KindAt(K, g2), g2) /\ Extends(origin, g2)
    BY <1>1, <1>3, <2>5, <2>6, <2>8, FaithOne
  <2> QED
    BY <2>7, <2>9 DEF FaithOn
<1> QED
  BY <1>1, <1>4, <1>5 DEF gc_relocate_bignum

LEMMA FaithVector ==
  ASSUME Spaces, NEW K, Now(K), NEW H, Faithful(H, K, mem, Kinds(K), origin), NEW w, gc_relocate_vector_block(w)
  PROVE  FaithOn(H, K, mem', origin')
<1>1. PICK a, b, u, n : /\ a = Addr(w) /\ b = mem[a][2] /\ u = mem[b]
                        /\ n = os_heap_align_up(VectorBytes(u))
  OBVIOUS
<1>2. Popping(w) /\ IsVector(w)
  BY DEF gc_relocate_vector_block
<1>3. /\ w = queue[1] /\ queue # <<>> /\ a = Addr(queue[1]) /\ to_ptr \in Int
      /\ Kinds(K)[a] = Tag(w) /\ Layout(Tag(w), mem[a])
  BY <1>1, <1>2, Popped1
<1>4. CASE Halts
  BY <1>4, FaithSame DEF Halts
<1>5. CASE gc_to_alloc_fits(n) /\ Relocate(a, 2, b, n)
  <2>1. Tag(w) = TAG_INSTANCE /\ mem[a][1] = MAGIC_VECTOR /\ mem[a][2] # 0
    BY <1>1, <1>2 DEF IsVector, Is
  <2>2. Pointers(Kinds(K)[a], mem[a]) = {<<2, VECTOR_BLOCK>>}
    BY <1>3, <2>1, PointerTable
  <2>3. Layout(VECTOR_BLOCK, u)
    <3>1. PICK k, r : k = Kinds(K) /\ r = <<2, VECTOR_BLOCK>>
      OBVIOUS
    <3>2. r \in Pointers(k[a], mem[a]) /\ b = mem[a][r[1]] /\ r[2] = VECTOR_BLOCK
      BY <1>1, <2>2, <3>1
    <3>3. Layout(k[b], mem[b]) /\ k[b] = r[2]
      BY <1>3, <3>1, <3>2, TopPointer
    <3> QED
      BY <1>1, <3>2, <3>3
  <2>4. n \in Nat \ {0}
    BY <1>1, <1>3, <2>3, VectorFields, Rounded
  <2>5. to_ptr < to_start + Half
    <3>1. to_ptr + n <= to_start + Half /\ to_start \in Int /\ Half \in Int
      BY <1>5, SpacesApart DEF gc_to_alloc_fits
    <3> QED
      BY <1>3, <2>4, <3>1
  <2>6. PICK m2, g2 : m2 = mem' /\ g2 = origin'
    OBVIOUS
  <2>7. m2 = WithBlock(mem, a, 2, b, to_ptr) /\ g2 = Put(origin, to_ptr, origin[b])
    BY <1>5, <2>6 DEF Relocate, WithBlock
  <2>8. Faithful(H, K, m2, KindAt(K, g2), g2) /\ Extends(origin, g2)
    BY <1>1, <1>3, <2>2, <2>5, <2>7, FaithOne
  <2> QED
    BY <2>6, <2>8 DEF FaithOn
<1> QED
  BY <1>1, <1>4, <1>5 DEF gc_relocate_vector_block

LEMMA FaithStream ==
  ASSUME Spaces, NEW K, Now(K), NEW H, Faithful(H, K, mem, Kinds(K), origin), NEW w, gc_relocate_stream(w)
  PROVE  FaithOn(H, K, mem', origin')
<1>1. PICK a, b, st, c, n, bytes, m2, g2 :
        /\ a = Addr(w) /\ b = mem[a][2] /\ st = mem[b] /\ c = st[2] /\ n = os_heap_align_up(st[3])
        /\ bytes = os_heap_align_up(StreamStructBytes) + (IF st[1] = 0 THEN 0 ELSE n)
        /\ m2 = mem' /\ g2 = origin'
  OBVIOUS
<1>2. Popping(w) /\ IsStream(w)
  BY ZenonT(30) DEF gc_relocate_stream
<1>3. /\ w = queue[1] /\ queue # <<>> /\ a = Addr(queue[1]) /\ to_ptr \in Int
      /\ Kinds(K)[a] = Tag(w) /\ Layout(Tag(w), mem[a]) /\ to_start \in Int /\ Half \in Int
  BY <1>1, <1>2, Popped1, SpacesApart
<1>4. os_heap_align_up(StreamStructBytes) = 48
  BY DEF os_heap_align_up, StreamStructBytes
<1>5. CASE Halts
  BY <1>5, FaithSame DEF Halts
<1>6. Pointers(Kinds(K)[a], mem[a]) = {<<2, STREAM_STRUCT>>}
  <2>1. Tag(w) = TAG_INSTANCE /\ mem[a][1] = MAGIC_STREAM
    BY <1>1, <1>2 DEF IsStream, Is
  <2> QED
    BY <1>3, <2>1, PointerTable
<1>7. Layout(STREAM_STRUCT, st)
  <2>1. PICK k, r : k = Kinds(K) /\ r = <<2, STREAM_STRUCT>>
    OBVIOUS
  <2>2. r \in Pointers(k[a], mem[a]) /\ b = mem[a][r[1]] /\ r[2] = STREAM_STRUCT
    BY <1>1, <1>6, <2>1
  <2>3. Layout(k[b], mem[b]) /\ k[b] = r[2]
    BY <1>3, <2>1, <2>2, TopPointer
  <2> QED
    BY <1>1, <2>2, <2>3
<1>8. CASE gc_to_alloc_fits(bytes) /\ ~Halts /\ st[1] = 0
  <2>1. m2 = WithBlock(mem, a, 2, b, to_ptr) /\ g2 = Put(origin, to_ptr, origin[b])
    BY <1>1, <1>3, <1>4, <1>8 DEF gc_relocate_stream, WithBlock
  <2>2. to_ptr < to_start + Half
    <3>1. to_ptr + 48 <= to_start + Half
      BY <1>1, <1>4, <1>8 DEF gc_to_alloc_fits
    <3> QED
      BY <1>3, <3>1
  <2>3. Faithful(H, K, m2, KindAt(K, g2), g2) /\ Extends(origin, g2)
    BY <1>1, <1>3, <1>6, <2>1, <2>2, FaithOne
  <2> QED
    BY <1>1, <2>3 DEF FaithOn
<1>9. CASE gc_to_alloc_fits(bytes) /\ ~Halts /\ st[1] # 0
  <2>1. PICK d : d = to_ptr + 48
    OBVIOUS
  <2>2. m2 = WithStream(mem, a, b, c, to_ptr, d) /\ g2 = Put(Put(origin, to_ptr, origin[b]), d, origin[c])
    BY <1>1, <1>3, <1>4, <1>9, <2>1, ZenonT(30) DEF gc_relocate_stream, WithStream
  <2>3. n \in Nat \ {0}
    <3>1. st[3] \in Nat \ {0}
      BY <1>7, <1>9, LayoutTable
    <3> QED
      BY <1>1, <3>1, Rounded
  <2>4. d < to_start + Half
    <3>1. to_ptr + (48 + n) <= to_start + Half
      BY <1>1, <1>4, <1>9 DEF gc_to_alloc_fits
    <3> QED
      BY <1>3, <2>1, <2>3, <3>1
  <2>5. Faithful(H, K, m2, KindAt(K, g2), g2) /\ Extends(origin, g2)
    <3>1. b = mem[a][2] /\ mem[b][1] # 0 /\ c = mem[b][2] /\ queue # <<>> /\ a = Addr(queue[1])
      BY <1>1, <1>3, <1>9
    <3>2. PICK k : k = Kinds(K)
      OBVIOUS
    <3>3. StreamMoved(k, a, b, c, d, m2, g2)
      BY <1>6, <2>1, <2>2, <2>4, <3>1, <3>2, Zenon DEF StreamMoved
    <3> QED
      BY <3>1, <3>2, <3>3, FaithTwo
  <2> QED
    BY <1>1, <2>5 DEF FaithOn
<1>10. Halts \/ gc_to_alloc_fits(bytes)
  BY <1>1, Zenon DEF gc_relocate_stream
<1> QED
  BY <1>5, <1>8, <1>9, <1>10

LEMMA FaithScan ==
  ASSUME Spaces, NEW K, Now(K), NEW H, Faithful(H, K, mem, Kinds(K), origin), Scan
  PROVE  FaithOn(H, K, mem', origin')
<1>1. PICK w : ScanPlain(w) \/ gc_relocate_bignum(w) \/ gc_relocate_vector_block(w) \/ gc_relocate_stream(w)
  BY SMTT(30) DEF Scan
<1>2. CASE ScanPlain(w)
  BY <1>2, FaithSame, SMTT(60) DEF ScanPlain
<1> QED
  BY <1>1, <1>2, FaithBignum, FaithVector, FaithStream

LEMMA FaithField ==
  ASSUME Spaces, NEW K, Now(K), NEW H, Faithful(H, K, mem, Kinds(K), origin), CopyField
  PROVE  FaithOn(H, K, mem', origin')
<1>1. PICK a, i, w, k : a = Head(fields)[1] /\ i = Head(fields)[2] /\ w = mem[a][i] /\ k = Kinds(K)
  OBVIOUS
<1>2. /\ CoreAt(K, k, mem, origin, to_ptr, queue, black, fields)
      /\ DOMAIN mem = DOMAIN origin /\ DOMAIN k = DOMAIN origin
      /\ \A x \in DOMAIN origin : x \in Int
  BY <1>1, NowPlaces, SMTT(60)
<1>3. fields # <<>> /\ fields \in Seq(Int \X Int)
  BY <1>2, ZenonT(30) DEF CopyField, CoreAt, Pending
<1>4. fields[1] = Head(fields) /\ 1 \in 1..Len(fields)
  BY <1>3
<1>5. a \in DOMAIN origin /\ a \in Int /\ InTo(a) /\ i \in Values(k[a], mem[a])
  <2>1. \A j \in 1..Len(fields) : /\ fields[j][1] \in DOMAIN k /\ InTo(fields[j][1])
                                  /\ fields[j][2] \in Values(k[fields[j][1]], mem[fields[j][1]])
    BY <1>2 DEF CoreAt, Pending, Scanned
  <2>2. fields[1][1] \in DOMAIN k /\ InTo(fields[1][1]) /\ fields[1][2] \in Values(k[fields[1][1]], mem[fields[1][1]])
    BY <1>4, <2>1
  <2> QED
    BY <1>1, <1>2, <1>4, <2>2
<1>6. ~Moved(mem, k, a)
  BY <1>5, Apart DEF Moved
<1>7. IsValue(w, k)
  BY <1>1, <1>2, <1>5, <1>6 DEF CoreAt, Sound, WellPlaced
<1>8. CASE Halts
  BY <1>8, FaithSame DEF Halts
<1>9. CASE ~CopyFails(w) /\ ~Halts
  <2>1. Copy(w) /\ mem' = [MemAfter(w) EXCEPT ![a][i] = gc_copy_value(w)]
    BY <1>1, <1>9, ZenonT(30) DEF CopyField
  <2>2. Copying(w, to_ptr', queue', origin')
    BY <2>1 DEF Copy, Copying
  <2>3. PICK p2, q2, g2, v, m2 : /\ p2 = to_ptr' /\ q2 = queue' /\ g2 = origin'
                                 /\ v = gc_copy_value(w) /\ m2 = MemAfter(w)
    OBVIOUS
  <2>4. GoodCopy(K, v, m2, p2, q2, g2)
    BY <1>1, <1>7, <1>9, <2>2, <2>3, CopyWord
  <2>5. FaithAfter(H, K, w, v, m2, g2)
    BY <1>1, <1>7, <1>9, <2>2, <2>3, FaithWord
  <2>6. PICK k2 : k2 = KindAt(K, g2)
    OBVIOUS
  <2>7. DOMAIN m2 = DOMAIN g2 /\ DOMAIN k2 = DOMAIN g2 /\ Sound(m2, k2) /\ IsValue(v, k2)
    BY <2>4, <2>6 DEF GoodCopy, Core, CoreAt, Places, KindAt
  <2>8. Faithful(H, K, m2, k2, g2) /\ Extends(origin, g2) /\ NameIn(g2, v) = NameIn(origin, w) /\ m2[a] = mem[a]
    BY <1>2, <1>5, <2>5, <2>6 DEF FaithAfter
  <2>9. a \in DOMAIN g2 /\ k2[a] = k[a]
    <3>1. a \in DOMAIN g2 /\ g2[a] = origin[a]
      BY <1>5, <2>8 DEF Extends
    <3> QED
      BY <1>1, <1>5, <2>6, <3>1 DEF Kinds, KindAt
  <2>10. NameIn(g2, w) = NameIn(origin, w)
    BY <1>2, <1>7, <2>8, NameStays
  <2>11. i \in Values(k2[a], m2[a]) /\ v \in Int /\ NameIn(g2, v) = NameIn(g2, m2[a][i])
    BY <1>1, <1>5, <2>7, <2>8, <2>9, <2>10 DEF IsValue
  <2>12. Faithful(H, K, [m2 EXCEPT ![a][i] = v], k2, g2)
    BY <1>5, <2>7, <2>8, <2>9, <2>11, FaithSlot
  <2> QED
    BY <2>1, <2>3, <2>6, <2>8, <2>12 DEF FaithOn
<1> QED
  BY <1>1, <1>8, <1>9 DEF CopyField

-----------------------------------------------------------------------------
(***************************************************************************)
(* The invariant with the contents: the heap was H at first, the roots R   *)
(* and the cells C.                                                        *)
(***************************************************************************)
\* The words s stand for what the words S stood for.
Meant(s, S, g, K) ==
  Len(s) = Len(S) /\ \A i \in 1..Len(s) : NameIn(g, s[i]) = NameIn(Identity(K), S[i])

Preserved(H, R, C, K) ==
  /\ Faithful(H, K, mem, Kinds(K), origin)
  /\ Meant(roots, R, origin, K) /\ Meant(cells, C, origin, K)

\* The words that are not copied stand for what they stood for.
LEMMA MeantStays ==
  ASSUME NEW k, NEW g, DOMAIN k = DOMAIN g, NEW g2, Extends(g, g2), NEW s, NEW n, Visited(s, n, k),
         NEW S, NEW K, Meant(s, S, g, K)
  PROVE  Meant(s, S, g2, K)
<1>1. ASSUME NEW i \in 1..Len(s) PROVE NameIn(g2, s[i]) = NameIn(g, s[i])
  BY NameStays DEF Visited
<1> QED
  BY <1>1 DEF Meant

\* And so does the one that is.
LEMMA MeantNext ==
  ASSUME NEW k, NEW g, DOMAIN k = DOMAIN g, NEW g2, Extends(g, g2), NEW s, NEW n \in 1..Len(s), Visited(s, n, k),
         NEW S, NEW K, Meant(s, S, g, K), NEW v \in Int, NameIn(g2, v) = NameIn(g, s[n])
  PROVE  Meant([s EXCEPT ![n] = v], S, g2, K)
<1>1. PICK t : t = [s EXCEPT ![n] = v]
  OBVIOUS
<1>2. s \in Seq(Int)
  BY DEF Visited
<1>3. Len(t) = Len(s) /\ t[n] = v /\ \A i \in 1..Len(s) : i # n => t[i] = s[i]
  BY <1>1, <1>2
<1>4. Meant(s, S, g2, K)
  BY MeantStays
<1>5. ASSUME NEW i \in 1..Len(t) PROVE NameIn(g2, t[i]) = NameIn(Identity(K), S[i])
  <2>1. CASE i = n
    BY <1>3, <2>1 DEF Meant
  <2>2. CASE i # n
    BY <1>3, <1>4, <2>2 DEF Meant
  <2> QED
    BY <2>1, <2>2
<1> QED
  BY <1>1, <1>3, <1>4, <1>5 DEF Meant

\* A step that keeps the spaces and does to the contents what FaithOn says.
LEMMA FaithPrime ==
  ASSUME SpacesKept, NEW H, NEW K, FaithOn(H, K, mem', origin')
  PROVE  Faithful(H, K, mem, Kinds(K), origin)'
<1>1. \A m, c, x : Moved(m, c, x)' <=> Moved(m, c, x)
  BY DEF SpacesKept, InTo, InFrom, Moved, Forwarded
<1>2. PICK k2, m2, g2 : k2 = KindAt(K, origin') /\ m2 = mem' /\ g2 = origin'
  OBVIOUS
<1>3. Faithful(H, K, m2, k2, g2)
  BY <1>2 DEF FaithOn
<1>4. Kinds(K)' = k2
  BY <1>2 DEF Kinds, KindAt
<1> QED
  BY <1>1, <1>2, <1>3, <1>4 DEF Faithful

LEMMA KindsDomain ==
  ASSUME NEW K
  PROVE  DOMAIN Kinds(K) = DOMAIN origin
  BY DEF Kinds, KindAt

\* The steps that copy nothing.
LEMMA StillKept ==
  ASSUME NEW K, NEW H, NEW R, NEW C, Preserved(H, R, C, K), SpacesKept, UNCHANGED <<mem, roots, cells, origin>>
  PROVE  Preserved(H, R, C, K)'
<1>1. FaithOn(H, K, mem', origin')
  BY FaithSame DEF Preserved
<1>2. Faithful(H, K, mem, Kinds(K), origin)'
  BY <1>1, FaithPrime
<1> QED
  BY <1>2 DEF Preserved, Meant

\* CopyRoot and FixupCell: a word of a sequence is copied.
LEMMA WordKept ==
  ASSUME NEW K, GInv(K), NEW H, Faithful(H, K, mem, Kinds(K), origin),
         NEW w, IsValue(w, Kinds(K)), ~CopyFails(w), Copy(w), mem' = MemAfter(w), SpacesKept
  PROVE  /\ Faithful(H, K, mem, Kinds(K), origin)' /\ Extends(origin, origin')
         /\ NameIn(origin', gc_copy_value(w)) = NameIn(origin, w) /\ gc_copy_value(w) \in Int
<1>1. Spaces /\ Now(K)
  BY GInvParts
<1>2. Copying(w, to_ptr', queue', origin')
  BY DEF Copy, Copying
<1>3. PICK p2, q2, g2, v, m2 : /\ p2 = to_ptr' /\ q2 = queue' /\ g2 = origin'
                               /\ v = gc_copy_value(w) /\ m2 = MemAfter(w)
  OBVIOUS
<1>4. FaithAfter(H, K, w, v, m2, g2)
  BY <1>1, <1>2, <1>3, FaithWord
<1>5. GoodCopy(K, v, m2, p2, q2, g2)
  BY <1>1, <1>2, <1>3, CopyWord
<1>6. Faithful(H, K, m2, KindAt(K, g2), g2) /\ Extends(origin, g2) /\ NameIn(g2, v) = NameIn(origin, w)
  BY <1>4 DEF FaithAfter
<1>7. FaithOn(H, K, mem', origin')
  BY <1>3, <1>6 DEF FaithOn
<1>8. v \in Int
  BY <1>5 DEF GoodCopy, IsValue
<1> QED
  BY <1>3, <1>6, <1>7, <1>8, FaithPrime

LEMMA RootKept ==
  ASSUME NEW K, GInv(K), NEW H, NEW R, NEW C, Preserved(H, R, C, K), CopyRoot
  PROVE  Preserved(H, R, C, K)'
<1>1. PICK w, v, k : w = roots[next] /\ v = gc_copy_value(w) /\ k = Kinds(K)
  OBVIOUS
<1>2. Stage(k) /\ phase = "roots" /\ next <= Len(roots)
  BY <1>1, GInvParts DEF CopyRoot
<1>3. /\ Visited(roots, next, k) /\ Visited(cells, 1, k) /\ next \in 1..Len(roots)
  BY <1>2 DEF Stage, Visited
<1>4. IsValue(w, k)
  BY <1>1, <1>3 DEF Visited
<1>5. CASE Halts
  BY <1>5, StillKept DEF Halts, SpacesKept
<1>6. CASE ~CopyFails(w) /\ ~Halts
  <2>1. /\ Copy(w) /\ mem' = MemAfter(w) /\ roots' = [roots EXCEPT ![next] = v]
        /\ SpacesKept /\ cells' = cells
    BY <1>1, <1>6 DEF CopyRoot, SpacesKept
  <2>2. PICK g2, n : g2 = origin' /\ n = next
    OBVIOUS
  <2>3. /\ Faithful(H, K, mem, Kinds(K), origin)' /\ Extends(origin, g2)
        /\ NameIn(g2, v) = NameIn(origin, roots[n]) /\ v \in Int
    BY <1>1, <1>4, <1>6, <2>1, <2>2, WordKept DEF Preserved
  <2>4. DOMAIN k = DOMAIN origin /\ Meant(roots, R, origin, K) /\ Meant(cells, C, origin, K)
    BY <1>1, KindsDomain DEF Preserved
  <2>5. Meant([roots EXCEPT ![n] = v], R, g2, K) /\ Meant(cells, C, g2, K)
    BY <1>3, <2>2, <2>3, <2>4, MeantNext, MeantStays
  <2>6. Meant(roots', R, origin', K) /\ Meant(cells', C, origin', K)
    BY <2>1, <2>2, <2>5
  <2> QED
    BY <2>3, <2>6 DEF Preserved, Meant
<1> QED
  BY <1>1, <1>5, <1>6 DEF CopyRoot

LEMMA CellKept ==
  ASSUME NEW K, GInv(K), NEW H, NEW R, NEW C, Preserved(H, R, C, K), FixupCell
  PROVE  Preserved(H, R, C, K)'
<1>1. PICK w, v, k : w = cells[next] /\ v = gc_copy_value(w) /\ k = Kinds(K)
  OBVIOUS
<1>2. Stage(k) /\ next <= Len(cells) /\ ((phase = "scan" /\ ScanDone) \/ phase = "cells")
  BY <1>1, GInvParts DEF FixupCell
<1>3. /\ Visited(roots, Len(roots) + 1, k) /\ Visited(cells, next, k) /\ next \in 1..Len(cells)
  BY <1>2 DEF Stage, Visited
<1>4. IsValue(w, k)
  BY <1>1, <1>3 DEF Visited
<1>5. CASE Halts
  BY <1>5, StillKept DEF Halts, SpacesKept
<1>6. CASE ~CopyFails(w) /\ ~Halts
  <2>1. /\ Copy(w) /\ mem' = MemAfter(w) /\ cells' = [cells EXCEPT ![next] = v]
        /\ SpacesKept /\ roots' = roots
    BY <1>1, <1>6 DEF FixupCell, SpacesKept
  <2>2. PICK g2, n, l : g2 = origin' /\ n = next /\ l = Len(roots) + 1
    OBVIOUS
  <2>3. /\ Faithful(H, K, mem, Kinds(K), origin)' /\ Extends(origin, g2)
        /\ NameIn(g2, v) = NameIn(origin, cells[n]) /\ v \in Int
    BY <1>1, <1>4, <1>6, <2>1, <2>2, WordKept DEF Preserved
  <2>4. DOMAIN k = DOMAIN origin /\ Meant(roots, R, origin, K) /\ Meant(cells, C, origin, K)
    BY <1>1, KindsDomain DEF Preserved
  <2>5. Meant([cells EXCEPT ![n] = v], C, g2, K) /\ Meant(roots, R, g2, K)
    BY <1>3, <2>2, <2>3, <2>4, MeantNext, MeantStays
  <2>6. Meant(roots', R, origin', K) /\ Meant(cells', C, origin', K)
    BY <2>1, <2>2, <2>5
  <2> QED
    BY <2>3, <2>6 DEF Preserved, Meant
<1> QED
  BY <1>1, <1>5, <1>6 DEF FixupCell

\* Scan and CopyField.
LEMMA ObjectKept ==
  ASSUME NEW K, GInv(K), NEW H, NEW R, NEW C, Preserved(H, R, C, K), SpacesKept, UNCHANGED <<roots, cells>>,
         FaithOn(H, K, mem', origin')
  PROVE  Preserved(H, R, C, K)'
<1>1. PICK k, n, j, g2 : k = Kinds(K) /\ n = RootsAt /\ j = CellsAt /\ g2 = origin'
  OBVIOUS
<1>2. Visited(roots, n, k) /\ Visited(cells, j, k) /\ DOMAIN k = DOMAIN origin /\ Extends(origin, g2)
  BY <1>1, GInvParts, StageParts, KindsDomain DEF FaithOn
<1>3. Meant(roots, R, origin, K) /\ Meant(cells, C, origin, K)
  BY DEF Preserved
<1>4. Meant(roots, R, g2, K) /\ Meant(cells, C, g2, K)
  BY <1>2, <1>3, MeantStays
<1>5. Faithful(H, K, mem, Kinds(K), origin)'
  BY FaithPrime
<1> QED
  BY <1>1, <1>4, <1>5 DEF Preserved, Meant

LEMMA ScanKept ==
  ASSUME NEW K, GInv(K), NEW H, NEW R, NEW C, Preserved(H, R, C, K), Scan
  PROVE  Preserved(H, R, C, K)'
<1>1. PICK w : ScanPlain(w) \/ gc_relocate_bignum(w) \/ gc_relocate_vector_block(w) \/ gc_relocate_stream(w)
  BY SMTT(30) DEF Scan
<1>2. Popped(w) \/ Halts
  BY <1>1, ZenonT(30) DEF ScanPlain, gc_relocate_bignum, gc_relocate_vector_block, gc_relocate_stream
<1>3. SpacesKept /\ UNCHANGED <<roots, cells>>
  BY <1>2 DEF Popped, Halts, SpacesKept
<1>4. FaithOn(H, K, mem', origin')
  BY GInvParts, FaithScan, SMTT(60) DEF Preserved
<1> QED
  BY <1>3, <1>4, ObjectKept

LEMMA FieldKept ==
  ASSUME NEW K, GInv(K), NEW H, NEW R, NEW C, Preserved(H, R, C, K), CopyField
  PROVE  Preserved(H, R, C, K)'
<1>1. SpacesKept /\ UNCHANGED <<roots, cells>>
  BY DEF CopyField, Halts, SpacesKept
<1>2. FaithOn(H, K, mem', origin')
  BY GInvParts, FaithField DEF Preserved
<1> QED
  BY <1>1, <1>2, ObjectKept

\* The name of a value that refers to a survivor.
LEMMA NameKept ==
  ASSUME NEW k, NEW g, DOMAIN k = DOMAIN g, DOMAIN g = DOMAIN mem, NEW l, l = [a \in Survivors |-> g[a]],
         NEW v, IsValue(v, k), Refers(v)
  PROVE  NameIn(l, v) = NameIn(g, v)
  BY DEF NameIn, IsValue, Refers, Survivors

LEMMA FlipKept ==
  ASSUME NEW K, GInv(K), NEW H, NEW R, NEW C, Preserved(H, R, C, K), Flip
  PROVE  Preserved(H, R, C, K)'
<1>1. PICK k, g, l, c, S, z : /\ k = Kinds(K) /\ g = origin /\ S = Survivors
                              /\ l = [a \in Survivors |-> g[a]] /\ c = [a \in Survivors |-> k[a]]
                              /\ z = [a \in Survivors |-> mem[a]]
  OBVIOUS
<1>2. /\ Spaces /\ CoreAt(K, k, mem, g, to_ptr, queue, black, fields)
      /\ DOMAIN mem = DOMAIN g /\ DOMAIN k = DOMAIN g /\ \A x \in DOMAIN g : k[x] = K[g[x]] /\ x \in Int
      /\ Visited(roots, Len(roots) + 1, k) /\ Visited(cells, Len(cells) + 1, k)
  <2>1. Spaces /\ Now(K) /\ Visited(roots, Len(roots) + 1, k) /\ Visited(cells, Len(cells) + 1, k)
    BY <1>1, GInvParts, StageParts DEF Flip, RootsAt, CellsAt
  <2> QED
    BY <1>1, <2>1, NowPlaces
<1>3. /\ mem' = z /\ origin' = l /\ roots' = roots /\ cells' = cells
      /\ from_start' = to_start /\ to_start' = from_start
  BY <1>1 DEF Flip, Survivors
<1>4. /\ DOMAIN l = S /\ DOMAIN c = S /\ \A a \in S : l[a] = g[a] /\ c[a] = k[a] /\ z[a] = mem[a]
      /\ \A a \in S : a \in DOMAIN g /\ InTo(a)
  BY <1>1, <1>2 DEF Survivors
<1>5. Kinds(K)' = c
  <2>1. Kinds(K)' = KindAt(K, l)
    BY <1>3 DEF Kinds, KindAt
  <2> QED
    BY <1>1, <1>2, <1>4, <2>1 DEF KindAt
<1>6. ASSUME NEW a \in S PROVE Alike(c[a], z[a], l, H[l[a]], Identity(K))
  <2>1. /\ WellPlaced(mem[a], a, k) /\ \A i \in Values(k[a], mem[a]) : Refers(mem[a][i])
        /\ \A p \in Pointers(k[a], mem[a]) : InTo(mem[a][p[1]])
    BY <1>1, <1>2, <1>4, <1>6, AllScanned DEF Flip
  <2>2. ~Moved(mem, k, a)
    BY <1>2, <1>4, <1>6, Apart DEF Moved
  <2>3. Alike(k[a], mem[a], g, H[g[a]], Identity(K))
    BY <1>1, <1>2, <1>4, <1>6, <2>2 DEF Preserved, Faithful
  <2>4. ASSUME NEW i \in Values(k[a], mem[a]) PROVE NameIn(l, mem[a][i]) = NameIn(g, mem[a][i])
    BY <1>1, <1>2, <2>1, <2>4, NameKept DEF WellPlaced
  <2>5. ASSUME NEW p \in Pointers(k[a], mem[a]) PROVE l[mem[a][p[1]]] = g[mem[a][p[1]]]
    <3>1. mem[a][p[1]] \in DOMAIN g /\ InTo(mem[a][p[1]])
      BY <1>2, <2>1, <2>5 DEF WellPlaced
    <3>2. mem[a][p[1]] \in S
      BY <1>1, <1>2, <3>1 DEF Survivors
    <3> QED
      BY <1>4, <3>2
  <2>6. Alike(k[a], mem[a], l, mem[a], g)
    BY <2>1, <2>4, <2>5 DEF Alike, Same, WellPlaced
  <2>7. Alike(k[a], mem[a], l, H[g[a]], Identity(K))
    BY <2>3, <2>6, AlikeTwice
  <2> QED
    BY <1>4, <1>6, <2>7
<1>7. Faithful(H, K, mem, Kinds(K), origin)'
  <2>1. Faithful(H, K, z, c, l)'
    BY <1>4, <1>6 DEF Faithful
  <2> QED
    BY <1>3, <1>5, <2>1 DEF Faithful
<1>8. ASSUME NEW s, Visited(s, Len(s) + 1, k), NEW T, Meant(s, T, g, K)
      PROVE  Meant(s, T, l, K)
  <2>1. ASSUME NEW i \in 1..Len(s) PROVE NameIn(l, s[i]) = NameIn(g, s[i])
    <3>1. IsValue(s[i], k) /\ Refers(s[i])
      BY <1>8 DEF Visited
    <3> QED
      BY <1>1, <1>2, <3>1, NameKept
  <2> QED
    BY <1>8, <2>1 DEF Meant
<1>9. Meant(roots, R, l, K) /\ Meant(cells, C, l, K)
  BY <1>1, <1>2, <1>8 DEF Preserved
<1> QED
  BY <1>3, <1>7, <1>9 DEF Preserved, Meant

LEMMA NextKept ==
  ASSUME NEW K, GInv(K), NEW H, NEW R, NEW C, Preserved(H, R, C, K), [Next]_vars
  PROVE  Preserved(H, R, C, K)'
<1>1. CASE UNCHANGED vars \/ Begin \/ RootsDone \/ CellsDone
  BY <1>1, StillKept DEF vars, Begin, RootsDone, CellsDone, SpacesKept
<1>2. CASE Next
  BY <1>1, <1>2, RootKept, ScanKept, FieldKept, CellKept, FlipKept DEF Next
<1> QED
  BY <1>1, <1>2

\* At first everything is what it is.
LEMMA InitKept ==
  ASSUME Init, NEW h \in InitialHeaps, mem = h.mem, roots = h.roots, cells = h.cells
  PROVE  Preserved(h.mem, h.roots, h.cells, h.kind)
<1>1. PICK K, k, I : K = h.kind /\ k = Kinds(K) /\ I = Identity(K)
  OBVIOUS
<1>2. DOMAIN mem = DOMAIN K /\ origin = I
  BY <1>1, HeapsAssumption DEF Init, Identity, WellFormed
<1>3. DOMAIN k = DOMAIN I /\ DOMAIN I = DOMAIN K /\ \A x \in DOMAIN K : I[x] = x
  BY <1>1, <1>2, KindsDomain DEF Identity
<1>4. Extends(I, I)
  BY DEF Extends
<1>5. GInv(K)
  BY <1>1, InitGInv
<1>6. Sound(mem, k) /\ Visited(roots, 1, k) /\ Visited(cells, 1, k)
  <2>1. Now(K) /\ phase = "idle"
    BY <1>5, GInvParts DEF Init
  <2>2. Visited(roots, 1, k) /\ Visited(cells, 1, k)
    BY <1>1, <1>5, <2>1, GInvParts, StageParts DEF RootsAt, CellsAt
  <2> QED
    BY <1>1, <2>1, <2>2 DEF Now, Core, CoreAt, Kinds
<1>7. ASSUME NEW x \in DOMAIN k, ~Moved(mem, k, x) PROVE Alike(k[x], mem[x], I, mem[I[x]], I)
  <2>1. WellPlaced(mem[x], x, k)
    BY <1>6, <1>7 DEF Sound
  <2> QED
    BY <1>3, <1>4, <2>1, AlikeUnchanged
<1> QED
  BY <1>1, <1>2, <1>7 DEF Preserved, Faithful, Meant

-----------------------------------------------------------------------------
(***************************************************************************)
(* The graph of a heap that is given by its memory m, its identities g,    *)
(* its roots r and its cells c: Graph of module CopyingGC, which speaks of *)
(* the heap of the current state.                                          *)
(***************************************************************************)
IsIn(m, w, magic) == Tag(w) = TAG_INSTANCE /\ m[Addr(w)][1] = magic
VectorIn(m, w) == IsIn(m, w, MAGIC_VECTOR) /\ m[Addr(w)][2] # 0
BignumIn(m, w) == IsIn(m, w, MAGIC_BIGNUM) /\ m[Addr(w)][3] # 0
StreamIn(m, w) == IsIn(m, w, MAGIC_STREAM)

ValueWordsIn(m, w) ==
  CASE Tag(w) = TAG_CONS -> 1..2
    [] Tag(w) = TAG_SYMBOL -> 1..4
    [] Tag(w) = TAG_STRING -> {}
    [] OTHER -> InstanceValues(m[Addr(w)][1])

BlockIn(m, w) == IF BignumIn(m, w) THEN m[Addr(w)][4] ELSE m[Addr(w)][2]

BlockWordsIn(m, w) ==
  CASE VectorIn(m, w) -> (2 + m[m[Addr(w)][2]][1])..Len(m[m[Addr(w)][2]])
    [] StreamIn(m, w) -> {4, 5, 6}
    [] OTHER -> {}

NamedIn(m, g, a, values) ==
  [i \in 1..Len(m[a]) |-> IF i \in values THEN NameIn(g, m[a][i]) ELSE <<m[a][i], 0>>]

ContentsIn(m, g, w) ==
  CASE VectorIn(m, w) \/ BignumIn(m, w) -> NamedIn(m, g, BlockIn(m, w), BlockWordsIn(m, w))
    [] StreamIn(m, w) ->
         [NamedIn(m, g, BlockIn(m, w), BlockWordsIn(m, w)) EXCEPT ![2] = <<0, 0>>]
         \o (IF m[BlockIn(m, w)][1] = 0 THEN <<>> ELSE m[m[BlockIn(m, w)][2]])
    [] OTHER -> NamedIn(m, g, Addr(w), ValueWordsIn(m, w))

ChildrenIn(m, w) ==
  {v \in IF VectorIn(m, w) \/ StreamIn(m, w)
         THEN {m[BlockIn(m, w)][i] : i \in BlockWordsIn(m, w)}
         ELSE {m[Addr(w)][i] : i \in ValueWordsIn(m, w)} : IsRef(v)}

FirstIn(m, r, c) == {w \in {v \in Range(r) \cup Range(c) : IsRef(v)} : Addr(w) \in DOMAIN m}
NextIn(m, w) == {v \in ChildrenIn(m, w) : Addr(v) \in DOMAIN m}

LiveIn(m, r, c) ==
  LET within[n \in Nat] ==
        IF n = 0 THEN FirstIn(m, r, c)
        ELSE LET near == within[n-1]
             IN  near \cup UNION {NextIn(m, w) : w \in near}
  IN  within[Cardinality(DOMAIN m)]

GraphIn(m, g, r, c) ==
  [roots  |-> [i \in 1..Len(r) |-> NameIn(g, r[i])],
   cells  |-> [i \in 1..Len(c) |-> NameIn(g, c[i])],
   bodies |-> {<<NameIn(g, w), ContentsIn(m, g, w)>> : w \in LiveIn(m, r, c)}]

\* The two agree word for word.
LEMMA GraphHere == Graph = GraphIn(mem, origin, roots, cells)
  BY Zenon DEF Graph, GraphIn, Reachable, LiveIn, Present, RootValues, FirstIn, NextIn, Children, ChildrenIn,
       Contents, ContentsIn, BlockValueWords, BlockWordsIn, ValueWords, ValueWordsIn, Block, BlockIn,
       Named, NamedIn, Name, NameIn, Is, IsIn, IsVector, VectorIn, IsBignum, BignumIn, IsStream, StreamIn

-----------------------------------------------------------------------------
(***************************************************************************)
(* What is reached level by level is the least set that holds the first    *)
(* level and is closed, when there are as many levels as things to reach.  *)
(***************************************************************************)
Below == {p \in Nat \X Nat : p[1] < p[2]}

\* The order of the natural numbers as a set of pairs is well founded.
LEMMA BelowWellFounded == IsWellFoundedOn(Below, Nat)
  BY NatLessThanWellFounded, Zenon DEF OpToRel, Below

\* Induction, for sets of numbers.
LEMMA SetInduction ==
  ASSUME NEW S, 0 \in S, \A n \in Nat : n \in S => n + 1 \in S
  PROVE  \A n \in Nat : n \in S
<1> SUFFICES ASSUME Nat \ S # {} PROVE FALSE
  OBVIOUS
<1>1. PICK x \in Nat \ S : \A y \in Nat \ S : ~ (<<y, x>> \in Below)
  BY BelowWellFounded, WFMin
<1>2. x # 0 /\ x - 1 \in Nat /\ x - 1 < x
  BY <1>1
<1>3. <<x - 1, x>> \in Below
  BY <1>1, <1>2 DEF Below
<1>4. x - 1 \in S
  BY <1>1, <1>2, <1>3
<1> QED
  BY <1>1, <1>2, <1>4

\* f[n] is what is reached from B in n steps; c[w] follows w.
Levels(f, B, c) ==
  f[0] = B /\ \A n \in Nat : f[n + 1] = f[n] \cup UNION {c[w] : w \in f[n]}

Paths(U, B, c, n) ==
  {s \in [0..n -> U] : s[0] \in B /\ \A j \in 0..(n - 1) : s[j + 1] = s[j] \/ s[j + 1] \in c[s[j]]}

\* There is such a function: a level is what the paths of that length end in.
LEMMA LevelsExist ==
  ASSUME NEW U, NEW B \in SUBSET U, NEW c \in [U -> SUBSET U]
  PROVE  Levels([n \in Nat |-> {s[n] : s \in Paths(U, B, c, n)}], B, c)
<1>1. ASSUME NEW w \in B PROVE \E s \in Paths(U, B, c, 0) : w = s[0]
  <2>1. PICK s : s = [j \in 0..0 |-> w]
    OBVIOUS
  <2>2. s \in [0..0 -> U] /\ s[0] = w
    BY <2>1
  <2> QED
    BY <2>2 DEF Paths
<1>2. {s[0] : s \in Paths(U, B, c, 0)} = B
  BY <1>1 DEF Paths
<1>3. ASSUME NEW n \in Nat, NEW s \in Paths(U, B, c, n + 1)
      PROVE  \E t \in Paths(U, B, c, n) : s[n + 1] = t[n] \/ s[n + 1] \in c[t[n]]
  <2>1. PICK t : t = [j \in 0..n |-> s[j]]
    OBVIOUS
  <2>2. t \in [0..n -> U] /\ \A j \in 0..n : t[j] = s[j]
    BY <2>1 DEF Paths
  <2>3. \A j \in 0..(n - 1) : j \in 0..n /\ j + 1 \in 0..n /\ j \in 0..((n + 1) - 1)
    OBVIOUS
  <2>4. t \in Paths(U, B, c, n)
    BY <2>2, <2>3 DEF Paths
  <2>5. s[n + 1] = s[n] \/ s[n + 1] \in c[s[n]]
    BY DEF Paths
  <2> QED
    BY <2>2, <2>4, <2>5
<1>4. ASSUME NEW n \in Nat, NEW t \in Paths(U, B, c, n), NEW w \in U, w = t[n] \/ w \in c[t[n]]
      PROVE  \E s \in Paths(U, B, c, n + 1) : w = s[n + 1]
  <2>1. PICK s : s = [j \in 0..(n + 1) |-> IF j = n + 1 THEN w ELSE t[j]]
    OBVIOUS
  <2>2. s \in [0..(n + 1) -> U] /\ s[n + 1] = w /\ \A j \in 0..n : s[j] = t[j]
    BY <2>1 DEF Paths
  <2>3. ASSUME NEW j \in 0..((n + 1) - 1) PROVE s[j + 1] = s[j] \/ s[j + 1] \in c[s[j]]
    <3>1. CASE j = n
      BY <1>4, <2>2, <3>1
    <3>2. CASE j # n
      <4>1. j \in 0..(n - 1) /\ j \in 0..n /\ j + 1 \in 0..n
        BY <3>2
      <4> QED
        BY <2>2, <4>1 DEF Paths
    <3> QED
      BY <3>1, <3>2
  <2>4. s[0] \in B
    BY <2>2 DEF Paths
  <2> QED
    BY <2>2, <2>3, <2>4 DEF Paths
<1>5. PICK f : f = [n \in Nat |-> {s[n] : s \in Paths(U, B, c, n)}]
  OBVIOUS
<1>6. ASSUME NEW n \in Nat PROVE f[n + 1] = f[n] \cup UNION {c[w] : w \in f[n]}
  <2>1. f[n] = {s[n] : s \in Paths(U, B, c, n)} /\ f[n + 1] = {s[n + 1] : s \in Paths(U, B, c, n + 1)}
    BY <1>5
  <2>2. ASSUME NEW w \in f[n + 1] PROVE w \in f[n] \cup UNION {c[v] : v \in f[n]}
    BY <1>3, <2>1, <2>2
  <2>3. ASSUME NEW w, w \in f[n] \/ \E v \in f[n] : w \in c[v] PROVE w \in f[n + 1]
    <3>1. PICK t \in Paths(U, B, c, n) : w = t[n] \/ w \in c[t[n]]
      BY <2>1, <2>3
    <3>2. t[n] \in U
      BY DEF Paths
    <3>3. w \in U
      BY <3>1, <3>2
    <3> QED
      BY <1>4, <2>1, <3>1, <3>3
  <2> QED
    BY <2>2, <2>3
<1>7. f[0] = B
  BY <1>2, <1>5
<1> QED
  BY <1>5, <1>6, <1>7 DEF Levels

ClosedUnder(S, c) == \A w \in S : c[w] \subseteq S

\* The levels stay among the things there are, and within every closed set.
LEMMA LevelsWithin ==
  ASSUME NEW U, NEW B \in SUBSET U, NEW c \in [U -> SUBSET U], NEW f, Levels(f, B, c),
         NEW C \in SUBSET U, B \subseteq C, ClosedUnder(C, c)
  PROVE  \A n \in Nat : f[n] \subseteq C /\ B \subseteq f[n]
<1>1. PICK S : S = {n \in Nat : f[n] \subseteq C /\ B \subseteq f[n]}
  OBVIOUS
<1>2. 0 \in S
  BY <1>1 DEF Levels
<1>3. ASSUME NEW n \in Nat, n \in S PROVE n + 1 \in S
  <2>1. f[n + 1] = f[n] \cup UNION {c[w] : w \in f[n]} /\ n + 1 \in Nat
    BY DEF Levels
  <2>2. f[n] \subseteq C /\ B \subseteq f[n]
    BY <1>1, <1>3
  <2>3. \A w \in f[n] : c[w] \subseteq C
    BY <2>2 DEF ClosedUnder
  <2> QED
    BY <1>1, <2>1, <2>2, <2>3
<1>4. \A n \in Nat : n \in S
  BY <1>2, <1>3, SetInduction
<1> QED
  BY <1>1, <1>4

\* A level that is not closed is smaller than the next one.
LEMMA LevelsFill ==
  ASSUME NEW U, NEW B \in SUBSET U, NEW c \in [U -> SUBSET U], NEW f, Levels(f, B, c),
         IsFiniteSet(U), NEW N \in Nat, Cardinality(U) <= N
  PROVE  ClosedUnder(f[N], c)
<1>1. PICK S : S = {n \in Nat : ClosedUnder(f[n], c) \/ Cardinality(f[n]) >= n}
  OBVIOUS
<1>2. ASSUME NEW n \in Nat PROVE f[n] \subseteq U /\ IsFiniteSet(f[n]) /\ Cardinality(f[n]) \in Nat
  <2>1. ClosedUnder(U, c)
    BY DEF ClosedUnder
  <2>2. f[n] \subseteq U
    BY <2>1, LevelsWithin
  <2> QED
    BY <2>2, FS_Subset, FS_CardinalityType
<1>3. 0 \in S
  BY <1>1, <1>2
<1>4. ASSUME NEW n \in Nat, n \in S PROVE n + 1 \in S
  <2>1. f[n + 1] = f[n] \cup UNION {c[w] : w \in f[n]} /\ n + 1 \in Nat
    BY DEF Levels
  <2>2. CASE ClosedUnder(f[n], c)
    <3>1. f[n + 1] = f[n]
      BY <2>1, <2>2 DEF ClosedUnder
    <3> QED
      BY <1>1, <2>1, <2>2, <3>1
  <2>3. CASE ~ClosedUnder(f[n], c)
    <3>1. PICK w \in f[n] : ~(c[w] \subseteq f[n])
      BY <2>3 DEF ClosedUnder
    <3>2. f[n] \subseteq f[n + 1] /\ f[n + 1] # f[n]
      BY <2>1, <3>1
    <3>3. PICK s, t : s = f[n] /\ t = f[n + 1]
      OBVIOUS
    <3>4. s \subseteq t /\ s # t /\ IsFiniteSet(t) /\ Cardinality(s) \in Nat /\ Cardinality(t) \in Nat
      BY <1>2, <2>1, <3>2, <3>3
    <3>5. Cardinality(s) <= Cardinality(t) /\ Cardinality(s) # Cardinality(t)
      BY <3>4, FS_Subset
    <3>6. Cardinality(s) >= n
      BY <1>1, <1>4, <2>3, <3>3
    <3>7. Cardinality(t) >= n + 1
      BY <3>4, <3>5, <3>6
    <3> QED
      BY <1>1, <2>1, <3>3, <3>7
  <2> QED
    BY <2>2, <2>3
<1>5. N \in S
  BY <1>3, <1>4, SetInduction
<1>6. CASE Cardinality(f[N]) >= N
  <2>1. Cardinality(f[N]) <= Cardinality(U) /\ Cardinality(U) \in Nat /\ (Cardinality(f[N]) = Cardinality(U) => f[N] = U)
    BY <1>2, FS_Subset, FS_CardinalityType
  <2>2. f[N] = U
    BY <1>2, <1>6, <2>1
  <2> QED
    BY <2>2 DEF ClosedUnder
<1> QED
  BY <1>1, <1>5, <1>6

\* The references of a heap, and what the live ones are.
Refs(k) == {w \in Int : IsRef(w) /\ IsValue(w, k)}

NextMap(m, k) == [w \in Refs(k) |-> NextIn(m, w)]

\* Where the references of a heap lead stays among them.
Contained(m, k, r, c) ==
  /\ FirstIn(m, r, c) \subseteq Refs(k)
  /\ \A w \in Refs(k) : NextIn(m, w) \subseteq Refs(k)
  /\ IsFiniteSet(Refs(k)) /\ Cardinality(DOMAIN m) \in Nat
  /\ Cardinality(Refs(k)) <= Cardinality(DOMAIN m)

\* The recursive definition in LiveIn defines the levels.
LEMMA LiveLevels ==
  ASSUME NEW m, NEW k, NEW r, NEW c, Contained(m, k, r, c)
  PROVE  \E f : Levels(f, FirstIn(m, r, c), NextMap(m, k)) /\ LiveIn(m, r, c) = f[Cardinality(DOMAIN m)]
<1> DEFINE Body(f) == [n \in Nat |-> IF n = 0 THEN FirstIn(m, r, c)
                                     ELSE LET near == f[n-1]
                                          IN  near \cup UNION {NextIn(m, w) : w \in near}]
           chosen == CHOOSE f : f = Body(f)
<1>1. PICK U, B, s : U = Refs(k) /\ B = FirstIn(m, r, c) /\ s = NextMap(m, k)
  OBVIOUS
<1>2. B \in SUBSET U /\ s \in [U -> SUBSET U] /\ \A w \in U : s[w] = NextIn(m, w)
  BY <1>1 DEF Contained, NextMap
<1>3. PICK l : l = [n \in Nat |-> {t[n] : t \in Paths(U, B, s, n)}]
  OBVIOUS
<1>4. Levels(l, B, s)
  BY <1>2, <1>3, LevelsExist
<1>5. \A n \in Nat : l[n] \subseteq U
  <2>1. ClosedUnder(U, s)
    BY <1>2 DEF ClosedUnder
  <2> QED
    BY <1>2, <1>4, <2>1, LevelsWithin
<1>6. l = Body(l)
  <2>1. ASSUME NEW n \in Nat PROVE l[n] = Body(l)[n]
    <3>1. CASE n = 0
      BY <1>1, <1>4, <3>1 DEF Levels
    <3>2. CASE n # 0
      <4>1. n - 1 \in Nat /\ (n - 1) + 1 = n
        BY <3>2
      <4>2. l[n] = l[n - 1] \cup UNION {s[w] : w \in l[n - 1]}
        BY <1>4, <4>1 DEF Levels
      <4>3. \A w \in l[n - 1] : s[w] = NextIn(m, w)
        BY <1>2, <1>5, <4>1
      <4>4. UNION {s[w] : w \in l[n - 1]} = UNION {NextIn(m, w) : w \in l[n - 1]}
        BY <4>3
      <4> QED
        BY <3>2, <4>2, <4>4
    <3> QED
      BY <3>1, <3>2
  <2>2. DOMAIN l = Nat
    BY <1>3
  <2>3. l = [n \in Nat |-> l[n]]
    BY <1>3
  <2>4. Body(l) = [n \in Nat |-> Body(l)[n]]
    OBVIOUS
  <2> HIDE DEF Body
  <2> QED
    BY <2>1, <2>3, <2>4
<1>7. LiveIn(m, r, c) = chosen[Cardinality(DOMAIN m)]
  BY Zenon DEF LiveIn
<1>8. chosen = Body(chosen)
  <2> HIDE DEF Body
  <2> QED
    BY <1>6, Zenon
<1>9. PICK f : f = chosen
  OBVIOUS
<1>10. f = Body(f) /\ LiveIn(m, r, c) = f[Cardinality(DOMAIN m)]
  BY <1>7, <1>8, <1>9
<1> HIDE DEF chosen
<1>11. f[0] = B
  BY <1>1, <1>10
<1>12. ASSUME NEW n \in Nat PROVE f[n + 1] = f[n] \cup UNION {NextIn(m, w) : w \in f[n]}
  <2>1. n + 1 # 0 /\ n + 1 \in Nat /\ (n + 1) - 1 = n
    OBVIOUS
  <2>2. f[n + 1] = Body(f)[n + 1]
    BY <1>10
  <2> QED
    BY <2>1, <2>2
<1> HIDE DEF Body
<1>13. ASSUME NEW n \in Nat, f[n] \subseteq U
       PROVE  f[n + 1] \subseteq U /\ f[n + 1] = f[n] \cup UNION {s[w] : w \in f[n]}
  <2>1. \A w \in f[n] : s[w] = NextIn(m, w) /\ NextIn(m, w) \subseteq U
    BY <1>1, <1>2, <1>13 DEF Contained
  <2>2. UNION {s[w] : w \in f[n]} = UNION {NextIn(m, w) : w \in f[n]}
    BY <2>1
  <2> QED
    BY <1>12, <1>13, <2>1, <2>2
<1>14. PICK S : S = {n \in Nat : f[n] \subseteq U}
  OBVIOUS
<1>15. 0 \in S
  BY <1>2, <1>11, <1>14
<1>16. ASSUME NEW n \in Nat, n \in S PROVE n + 1 \in S
  BY <1>13, <1>14, <1>16
<1>17. \A n \in Nat : n \in S
  BY <1>15, <1>16, SetInduction
<1>18. Levels(f, B, s)
  BY <1>11, <1>13, <1>14, <1>17 DEF Levels
<1> QED
  BY <1>1, <1>10, <1>18

\* The live references are the least set that holds those of the roots and the
\* cells and is closed.
LEMMA LiveIsLeast ==
  ASSUME NEW m, NEW k, NEW r, NEW c, Contained(m, k, r, c)
  PROVE  /\ FirstIn(m, r, c) \subseteq LiveIn(m, r, c)
         /\ LiveIn(m, r, c) \subseteq Refs(k)
         /\ \A w \in LiveIn(m, r, c) : NextIn(m, w) \subseteq LiveIn(m, r, c)
         /\ \A C \in SUBSET Refs(k) :
              FirstIn(m, r, c) \subseteq C /\ (\A w \in C : NextIn(m, w) \subseteq C)
                => LiveIn(m, r, c) \subseteq C
<1>1. PICK U, B, s, N : U = Refs(k) /\ B = FirstIn(m, r, c) /\ s = NextMap(m, k) /\ N = Cardinality(DOMAIN m)
  OBVIOUS
<1>2. B \in SUBSET U /\ s \in [U -> SUBSET U] /\ \A w \in U : s[w] = NextIn(m, w)
  BY <1>1 DEF Contained, NextMap
<1>3. PICK f : Levels(f, B, s) /\ LiveIn(m, r, c) = f[N]
  BY <1>1, LiveLevels
<1>4. N \in Nat /\ IsFiniteSet(U) /\ Cardinality(U) <= N
  BY <1>1 DEF Contained
<1>5. ASSUME NEW C \in SUBSET U, B \subseteq C, \A w \in C : NextIn(m, w) \subseteq C
      PROVE  f[N] \subseteq C /\ B \subseteq f[N]
  <2>1. ClosedUnder(C, s)
    BY <1>2, <1>5 DEF ClosedUnder
  <2> QED
    BY <1>2, <1>3, <1>4, <1>5, <2>1, LevelsWithin
<1>6. f[N] \subseteq U /\ B \subseteq f[N]
  BY <1>1, <1>2, <1>5 DEF Contained
<1>7. ClosedUnder(f[N], s)
  BY <1>2, <1>3, <1>4, LevelsFill
<1>8. \A w \in f[N] : NextIn(m, w) \subseteq f[N]
  BY <1>2, <1>6, <1>7 DEF ClosedUnder
<1> QED
  BY <1>1, <1>3, <1>5, <1>6, <1>8

-----------------------------------------------------------------------------
(***************************************************************************)
(* A heap and a copy of it, both at rest: nothing has been moved.          *)
(***************************************************************************)
HeldIn(m, a, kind) == {v \in {m[a][i] : i \in Values(kind, m[a])} : IsRef(v)}

\* What an object without a block contains is in the object.
LEMMA OnItsOwn ==
  ASSUME NEW m, NEW g, NEW w, Tag(w) \in ObjectKinds, ~VectorIn(m, w), ~BignumIn(m, w), ~StreamIn(m, w)
  PROVE  /\ ContentsIn(m, g, w) = NamedIn(m, g, Addr(w), Values(Tag(w), m[Addr(w)]))
         /\ ChildrenIn(m, w) = HeldIn(m, Addr(w), Tag(w))
<1>1. ValueWordsIn(m, w) = Values(Tag(w), m[Addr(w)])
  <2>1. CASE Tag(w) = TAG_CONS
    BY <2>1, ValueTable DEF ValueWordsIn
  <2>2. CASE Tag(w) = TAG_SYMBOL
    BY <2>2, ValueTable DEF ValueWordsIn
  <2>3. CASE Tag(w) = TAG_STRING
    BY <2>3, ValueTable, SMTT(30) DEF ValueWordsIn
  <2>4. CASE Tag(w) = TAG_INSTANCE
    BY <2>4, ValueTable DEF ValueWordsIn
  <2> QED
    BY <2>1, <2>2, <2>3, <2>4 DEF ObjectKinds
<1>2. ContentsIn(m, g, w) = NamedIn(m, g, Addr(w), ValueWordsIn(m, w))
  BY DEF ContentsIn
<1>3. ChildrenIn(m, w) = {v \in {m[Addr(w)][i] : i \in ValueWordsIn(m, w)} : IsRef(v)}
  BY DEF ChildrenIn
<1> QED
  BY <1>1, <1>2, <1>3 DEF HeldIn

LEMMA AsVector ==
  ASSUME NEW m, NEW g, NEW w, VectorIn(m, w), NEW b, b = m[Addr(w)][2]
  PROVE  /\ ContentsIn(m, g, w) = NamedIn(m, g, b, Values(VECTOR_BLOCK, m[b]))
         /\ ChildrenIn(m, w) = HeldIn(m, b, VECTOR_BLOCK)
<1>1. ~BignumIn(m, w) /\ ~StreamIn(m, w)
  BY DEF VectorIn, BignumIn, StreamIn, IsIn, MAGIC_VECTOR, MAGIC_BIGNUM, MAGIC_STREAM
<1>2. BlockIn(m, w) = b
  BY <1>1 DEF BlockIn
<1>3. BlockWordsIn(m, w) = Values(VECTOR_BLOCK, m[b])
  <2>1. BlockWordsIn(m, w) = (2 + m[b][1])..Len(m[b])
    BY <1>1 DEF BlockWordsIn
  <2> QED
    BY <2>1, ValueTable
<1>4. ContentsIn(m, g, w) = NamedIn(m, g, BlockIn(m, w), BlockWordsIn(m, w))
  BY <1>1 DEF ContentsIn
<1>5. ChildrenIn(m, w) = {v \in {m[BlockIn(m, w)][i] : i \in BlockWordsIn(m, w)} : IsRef(v)}
  BY DEF ChildrenIn
<1> QED
  BY <1>2, <1>3, <1>4, <1>5 DEF HeldIn

LEMMA AsBignum ==
  ASSUME NEW m, NEW g, NEW w, BignumIn(m, w), NEW b, b = m[Addr(w)][4]
  PROVE  ContentsIn(m, g, w) = NamedIn(m, g, b, {}) /\ ChildrenIn(m, w) = {}
<1>1. ~VectorIn(m, w) /\ ~StreamIn(m, w) /\ Tag(w) = TAG_INSTANCE /\ m[Addr(w)][1] = MAGIC_BIGNUM
  BY DEF VectorIn, BignumIn, StreamIn, IsIn, MAGIC_VECTOR, MAGIC_BIGNUM, MAGIC_STREAM
<1>2. BlockIn(m, w) = b /\ BlockWordsIn(m, w) = {}
  BY <1>1 DEF BlockIn, BlockWordsIn
<1>3. ValueWordsIn(m, w) = {}
  <2>1. InstanceValues(m[Addr(w)][1]) = {}
    BY <1>1, InstanceTable DEF PointedMagics
  <2> QED
    BY <1>1, <2>1 DEF ValueWordsIn
<1>4. ContentsIn(m, g, w) = NamedIn(m, g, BlockIn(m, w), BlockWordsIn(m, w))
  BY <1>1 DEF ContentsIn
<1>5. ChildrenIn(m, w) = {v \in {m[Addr(w)][i] : i \in ValueWordsIn(m, w)} : IsRef(v)}
  BY <1>1, Zenon DEF ChildrenIn
<1> QED
  BY <1>2, <1>3, <1>4, <1>5

Buffer(m, b) == IF m[b][1] = 0 THEN <<>> ELSE m[m[b][2]]

LEMMA AsStream ==
  ASSUME NEW m, NEW g, NEW w, StreamIn(m, w), NEW b, b = m[Addr(w)][2]
  PROVE  /\ ContentsIn(m, g, w) =
              [NamedIn(m, g, b, Values(STREAM_STRUCT, m[b])) EXCEPT ![2] = <<0, 0>>] \o Buffer(m, b)
         /\ ChildrenIn(m, w) = HeldIn(m, b, STREAM_STRUCT)
<1>1. ~VectorIn(m, w) /\ ~BignumIn(m, w)
  BY DEF VectorIn, BignumIn, StreamIn, IsIn, MAGIC_VECTOR, MAGIC_BIGNUM, MAGIC_STREAM
<1>2. BlockIn(m, w) = b
  BY <1>1 DEF BlockIn
<1>3. BlockWordsIn(m, w) = Values(STREAM_STRUCT, m[b])
  BY <1>1, ValueTable DEF BlockWordsIn
<1>4. ContentsIn(m, g, w) = [NamedIn(m, g, BlockIn(m, w), BlockWordsIn(m, w)) EXCEPT ![2] = <<0, 0>>]
                               \o (IF m[BlockIn(m, w)][1] = 0 THEN <<>> ELSE m[m[BlockIn(m, w)][2]])
  BY <1>1 DEF ContentsIn
<1>5. ChildrenIn(m, w) = {v \in {m[BlockIn(m, w)][i] : i \in BlockWordsIn(m, w)} : IsRef(v)}
  BY <1>1 DEF ChildrenIn
<1> QED
  BY <1>2, <1>3, <1>4, <1>5, Zenon DEF HeldIn, Buffer

\* What is at x is what was at g[x] in the heap H.
Twins(m, k, g, H, K) ==
  /\ DOMAIN m = DOMAIN k /\ DOMAIN g = DOMAIN k /\ DOMAIN H = DOMAIN K
  /\ \A x \in DOMAIN k : /\ g[x] \in DOMAIN K /\ k[x] = K[g[x]] /\ WellPlaced(m[x], x, k)
                         /\ Alike(k[x], m[x], g, H[g[x]], Identity(K))
  /\ \A y \in DOMAIN K : y \in Int /\ y % 16 = 0 /\ y # 0 /\ WellPlaced(H[y], y, K)

Pair(w, v, k, g, K) ==
  w \in Refs(k) /\ v \in Refs(K) /\ Tag(w) = Tag(v) /\ g[Addr(w)] = Addr(v)

\* Values with the same name are the same plain word or a pair.
LEMMA Pairing ==
  ASSUME NEW m, NEW k, NEW g, NEW H, NEW K, Twins(m, k, g, H, K), NEW w, NEW v,
         IsValue(w, k), IsValue(v, K), NameIn(g, w) = NameIn(Identity(K), v)
  PROVE  (IsRef(w) <=> IsRef(v)) /\ (IsRef(w) => Pair(w, v, k, g, K)) /\ (~IsRef(w) => w = v)
<1>1. PICK a, b, s, t : a = Addr(w) /\ b = Addr(v) /\ s = Tag(w) /\ t = Tag(v)
  OBVIOUS
<1>2. w \in Int /\ v \in Int
  BY DEF IsValue
<1>3. IsRef(w) => a \in DOMAIN g /\ g[a] \in Int /\ g[a] # 0
  BY <1>1 DEF IsValue, Twins
<1>4. IsRef(v) => b \in DOMAIN K /\ b # 0
  BY <1>1 DEF IsValue, Twins
<1>5. NameIn(g, w) = IF IsRef(w) THEN <<s, g[a]>> ELSE <<w, 0>>
  BY <1>1, <1>3 DEF NameIn
<1>6. NameIn(Identity(K), v) = IF IsRef(v) THEN <<t, b>> ELSE <<v, 0>>
  BY <1>1, <1>4 DEF NameIn, Identity
<1>7. (IF IsRef(w) THEN <<s, g[a]>> ELSE <<w, 0>>) = IF IsRef(v) THEN <<t, b>> ELSE <<v, 0>>
  BY <1>5, <1>6
<1>8. CASE IsRef(w)
  <2>1. IsRef(v) /\ s = t /\ g[a] = b
    BY <1>3, <1>4, <1>7, <1>8
  <2> QED
    BY <1>1, <1>2, <1>8, <2>1 DEF Pair, Refs
<1>9. CASE ~IsRef(w)
  <2>1. ~IsRef(v) /\ w = v
    BY <1>3, <1>4, <1>7, <1>9
  <2> QED
    BY <1>9, <2>1
<1> QED
  BY <1>8, <1>9

\* Of two things that are alike each holds the pairs of what the other holds.
LEMMA HeldPairs ==
  ASSUME NEW m, NEW k, NEW g, NEW H, NEW K, Twins(m, k, g, H, K), NEW a \in DOMAIN k, NEW b, b = g[a],
         NEW kind, kind = k[a]
  PROVE  /\ \A w \in HeldIn(m, a, kind) : w \in Refs(k) /\ \E v \in HeldIn(H, b, kind) : Pair(w, v, k, g, K)
         /\ \A v \in HeldIn(H, b, kind) : v \in Refs(K) /\ \E w \in HeldIn(m, a, kind) : Pair(w, v, k, g, K)
<1>1. PICK u, t : u = m[a] /\ t = H[b]
  OBVIOUS
<1>2. WellPlaced(u, a, k) /\ WellPlaced(t, b, K) /\ Alike(kind, u, g, t, Identity(K)) /\ K[b] = kind
  BY <1>1 DEF Twins
<1>3. Values(kind, u) = Values(kind, t)
  BY <1>2 DEF Alike, Same
<1>4. ASSUME NEW i \in Values(kind, u)
      PROVE  IsValue(u[i], k) /\ IsValue(t[i], K) /\ NameIn(g, u[i]) = NameIn(Identity(K), t[i])
  BY <1>2, <1>3 DEF WellPlaced, Alike
<1>5. ASSUME NEW i \in Values(kind, u)
      PROVE  /\ (IsRef(u[i]) <=> IsRef(t[i])) /\ (IsRef(u[i]) => Pair(u[i], t[i], k, g, K))
  BY <1>4, Pairing
<1>6. \A w : w \in HeldIn(m, a, kind) <=> IsRef(w) /\ \E i \in Values(kind, u) : w = u[i]
  BY <1>1 DEF HeldIn
<1>7. \A v : v \in HeldIn(H, b, kind) <=> IsRef(v) /\ \E i \in Values(kind, u) : v = t[i]
  BY <1>1, <1>3 DEF HeldIn
<1>8. \A w, v : Pair(w, v, k, g, K) => w \in Refs(k) /\ v \in Refs(K)
  BY DEF Pair
<1> QED
  BY <1>5, <1>6, <1>7, <1>8

\* Words without pointers are named alike.
LEMMA NamedAlike ==
  ASSUME NEW m, NEW a, NEW g, NEW H, NEW b, NEW K, NEW kind, Alike(kind, m[a], g, H[b], Identity(K)),
         Pointers(kind, H[b]) = {}
  PROVE  NamedIn(m, g, a, Values(kind, m[a])) = NamedIn(H, Identity(K), b, Values(kind, H[b]))
<1>1. PICK u, t, J : u = m[a] /\ t = H[b] /\ J = Identity(K)
  OBVIOUS
<1>2. Values(kind, u) = Values(kind, t) /\ Len(u) = Len(t)
  BY <1>1 DEF Alike, Same
<1>3. ASSUME NEW i \in 1..Len(t)
      PROVE  (IF i \in Values(kind, t) THEN NameIn(g, u[i]) ELSE <<u[i], 0>>)
               = IF i \in Values(kind, t) THEN NameIn(J, t[i]) ELSE <<t[i], 0>>
  <2>1. CASE i \in Values(kind, t)
    BY <1>1, <2>1 DEF Alike
  <2>2. CASE i \notin Values(kind, t)
    <3>1. i \in Plain(kind, t)
      BY <1>1, <2>2 DEF Plain
    <3>2. u[i] = t[i]
      BY <1>1, <3>1 DEF Alike
    <3> QED
      BY <2>2, <3>2
  <2> QED
    BY <2>1, <2>2
<1>4. NamedIn(m, g, a, Values(kind, m[a])) =
        [i \in 1..Len(t) |-> IF i \in Values(kind, t) THEN NameIn(g, u[i]) ELSE <<u[i], 0>>]
  BY <1>1, <1>2 DEF NamedIn
<1>5. NamedIn(H, Identity(K), b, Values(kind, H[b])) =
        [i \in 1..Len(t) |-> IF i \in Values(kind, t) THEN NameIn(J, t[i]) ELSE <<t[i], 0>>]
  BY <1>1 DEF NamedIn
<1> QED
  BY <1>3, <1>4, <1>5

\* Instances that are alike are of one sort, with a block or without.
LEMMA SameHead ==
  ASSUME NEW u, NEW g, NEW t, NEW J, Alike(TAG_INSTANCE, u, g, t, J), Layout(TAG_INSTANCE, t)
  PROVE  /\ u[1] = t[1]
         /\ u[1] = MAGIC_VECTOR => (u[2] # 0 <=> t[2] # 0)
         /\ u[1] = MAGIC_BIGNUM => (u[3] # 0 <=> t[3] # 0)
<1>1. Len(t) = 4 /\ Pointers(TAG_INSTANCE, u) = Pointers(TAG_INSTANCE, t)
  BY LayoutTable DEF Alike, Same
<1>2. Values(TAG_INSTANCE, t) \subseteq {2, 3, 4}
  BY ValueTable, InstanceTable
<1>3. \A p \in Pointers(TAG_INSTANCE, t) : p[1] \in {2, 4}
  BY WordsOf
<1>4. 1 \in Plain(TAG_INSTANCE, t)
  BY <1>1, <1>2, <1>3 DEF Plain
<1>5. u[1] = t[1]
  BY <1>4 DEF Alike
<1>6. ASSUME u[1] = MAGIC_VECTOR PROVE u[2] # 0 <=> t[2] # 0
  <2>1. /\ Pointers(TAG_INSTANCE, u) = IF u[2] # 0 THEN {<<2, VECTOR_BLOCK>>} ELSE {}
        /\ Pointers(TAG_INSTANCE, t) = IF t[2] # 0 THEN {<<2, VECTOR_BLOCK>>} ELSE {}
    BY <1>5, <1>6, PointerTable
  <2> QED
    BY <1>1, <2>1
<1>7. ASSUME u[1] = MAGIC_BIGNUM PROVE u[3] # 0 <=> t[3] # 0
  <2>1. /\ Pointers(TAG_INSTANCE, u) = IF u[3] # 0 THEN {<<4, RAW_BLOCK>>} ELSE {}
        /\ Pointers(TAG_INSTANCE, t) = IF t[3] # 0 THEN {<<4, RAW_BLOCK>>} ELSE {}
    BY <1>5, <1>7, PointerTable
  <2> QED
    BY <1>1, <2>1
<1> QED
  BY <1>5, <1>6, <1>7

\* What a pointer points to is what it pointed to.
LEMMA PointedTwin ==
  ASSUME NEW m, NEW k, NEW g, NEW H, NEW K, Twins(m, k, g, H, K), NEW a \in DOMAIN k,
         NEW p \in Pointers(k[a], H[g[a]]), NEW b, b = m[a][p[1]], NEW d, d = H[g[a]][p[1]]
  PROVE  b \in DOMAIN k /\ g[b] = d /\ k[b] = p[2]
<1>1. WellPlaced(m[a], a, k) /\ Alike(k[a], m[a], g, H[g[a]], Identity(K)) /\ WellPlaced(H[g[a]], g[a], K)
      /\ K[g[a]] = k[a]
  BY DEF Twins
<1>2. p \in Pointers(k[a], m[a])
  BY <1>1 DEF Alike, Same
<1>3. b \in DOMAIN k /\ k[b] = p[2]
  BY <1>1, <1>2 DEF WellPlaced
<1>4. d \in DOMAIN K
  BY <1>1 DEF WellPlaced
<1>5. g[b] = Identity(K)[d]
  BY <1>1 DEF Alike
<1> QED
  BY <1>3, <1>4, <1>5 DEF Identity

\* The buffer of a stream, and its struct but for the word that points there.
LEMMA StreamTwin ==
  ASSUME NEW m, NEW k, NEW g, NEW H, NEW K, Twins(m, k, g, H, K), NEW b \in DOMAIN k, k[b] = STREAM_STRUCT,
         NEW d, d = g[b]
  PROVE  /\ Buffer(m, b) = Buffer(H, d)
         /\ [NamedIn(m, g, b, Values(STREAM_STRUCT, m[b])) EXCEPT ![2] = <<0, 0>>]
              = [NamedIn(H, Identity(K), d, Values(STREAM_STRUCT, H[d])) EXCEPT ![2] = <<0, 0>>]
<1>1. PICK u, t, J : u = m[b] /\ t = H[d] /\ J = Identity(K)
  OBVIOUS
<1>2. Alike(STREAM_STRUCT, u, g, t, J) /\ WellPlaced(t, d, K) /\ K[d] = STREAM_STRUCT
  BY <1>1 DEF Twins
<1>3. Layout(STREAM_STRUCT, t)
  BY <1>2 DEF WellPlaced
<1>4. Len(t) = 6 /\ Len(u) = 6 /\ Values(STREAM_STRUCT, u) = {4, 5, 6} /\ Values(STREAM_STRUCT, t) = {4, 5, 6}
  BY <1>2, <1>3, LayoutTable, ValueTable DEF Alike
<1>5. Pointers(STREAM_STRUCT, t) = IF t[1] # 0 THEN {<<2, RAW_BLOCK>>} ELSE {}
  BY PointerTable
<1>6. u[1] = t[1] /\ u[3] = t[3]
  <2>1. 1 \in Plain(STREAM_STRUCT, t) /\ 3 \in Plain(STREAM_STRUCT, t)
    BY <1>4, <1>5 DEF Plain
  <2> QED
    BY <1>2, <2>1 DEF Alike
<1>7. NameIn(g, u[4]) = NameIn(J, t[4]) /\ NameIn(g, u[5]) = NameIn(J, t[5]) /\ NameIn(g, u[6]) = NameIn(J, t[6])
  BY <1>2, <1>4 DEF Alike
<1>8. PICK x, y : x = NamedIn(m, g, b, Values(STREAM_STRUCT, m[b]))
                  /\ y = NamedIn(H, Identity(K), d, Values(STREAM_STRUCT, H[d]))
  OBVIOUS
<1>9. x = [i \in 1..6 |-> IF i \in {4, 5, 6} THEN NameIn(g, u[i]) ELSE <<u[i], 0>>]
  BY <1>1, <1>4, <1>8 DEF NamedIn
<1>10. y = [i \in 1..6 |-> IF i \in {4, 5, 6} THEN NameIn(J, t[i]) ELSE <<t[i], 0>>]
  BY <1>1, <1>4, <1>8 DEF NamedIn
<1>11. ASSUME NEW i \in 1..6, i # 2 PROVE x[i] = y[i]
  <2>1. i = 1 \/ i = 3 \/ i = 4 \/ i = 5 \/ i = 6
    BY <1>11
  <2>2. x[i] = (IF i \in {4, 5, 6} THEN NameIn(g, u[i]) ELSE <<u[i], 0>>)
    BY <1>9
  <2>3. y[i] = (IF i \in {4, 5, 6} THEN NameIn(J, t[i]) ELSE <<t[i], 0>>)
    BY <1>10
  <2> QED
    BY <1>6, <1>7, <2>1, <2>2, <2>3
<1>12. [x EXCEPT ![2] = <<0, 0>>] = [y EXCEPT ![2] = <<0, 0>>]
  <2>1. DOMAIN x = 1..6 /\ DOMAIN y = 1..6
    BY <1>9, <1>10
  <2>2. [x EXCEPT ![2] = <<0, 0>>] = [i \in 1..6 |-> IF i = 2 THEN <<0, 0>> ELSE x[i]]
    BY <2>1
  <2>3. [y EXCEPT ![2] = <<0, 0>>] = [i \in 1..6 |-> IF i = 2 THEN <<0, 0>> ELSE y[i]]
    BY <2>1
  <2> QED
    BY <1>11, <2>2, <2>3
<1>13. Buffer(m, b) = Buffer(H, d)
  <2>1. CASE t[1] = 0
    BY <1>1, <1>6, <2>1 DEF Buffer
  <2>2. CASE t[1] # 0
    <3>1. PICK e, f, p : e = u[2] /\ f = t[2] /\ p = <<2, RAW_BLOCK>>
      OBVIOUS
    <3>2. p \in Pointers(k[b], H[g[b]]) /\ p[1] = 2 /\ p[2] = RAW_BLOCK /\ e = m[b][p[1]] /\ f = H[g[b]][p[1]]
      BY <1>1, <1>5, <2>2, <3>1
    <3>3. e \in DOMAIN k /\ g[e] = f /\ k[e] = RAW_BLOCK
      BY <3>2, PointedTwin
    <3>4. Alike(RAW_BLOCK, m[e], g, H[f], J) /\ WellPlaced(H[f], f, K) /\ WellPlaced(m[e], e, k) /\ K[f] = RAW_BLOCK
      BY <1>1, <3>3 DEF Twins
    <3>5. m[e] \in Seq(Int) /\ H[f] \in Seq(Int) /\ Len(m[e]) = Len(H[f])
      BY <3>3, <3>4 DEF WellPlaced, Layout, Alike
    <3>6. Values(RAW_BLOCK, H[f]) = {} /\ Pointers(RAW_BLOCK, H[f]) = {}
      BY DEF Values, Pointers
    <3>7. ASSUME NEW i \in 1..Len(H[f]) PROVE m[e][i] = H[f][i]
      <4>1. i \in Plain(RAW_BLOCK, H[f])
        BY <3>6 DEF Plain
      <4> QED
        BY <3>4, <4>1 DEF Alike
    <3>8. m[e] = H[f]
      <4>1. PICK o, n : o = m[e] /\ n = H[f]
        OBVIOUS
      <4>2. o = [i \in 1..Len(n) |-> o[i]] /\ n = [i \in 1..Len(n) |-> n[i]]
        BY <3>5, <4>1
      <4>3. \A i \in 1..Len(n) : o[i] = n[i]
        BY <3>7, <4>1
      <4> QED
        BY <4>1, <4>2, <4>3
    <3> QED
      BY <1>1, <1>6, <2>2, <3>1, <3>8 DEF Buffer
  <2> QED
    BY <2>1, <2>2
<1> QED
  BY <1>8, <1>12, <1>13


\* References that are a pair refer to the same contents.
LEMMA PairBodies ==
  ASSUME NEW m, NEW k, NEW g, NEW H, NEW K, Twins(m, k, g, H, K), NEW w, NEW v, Pair(w, v, k, g, K)
  PROVE  /\ ContentsIn(m, g, w) = ContentsIn(H, Identity(K), v)
         /\ \/ ChildrenIn(m, w) = {} /\ ChildrenIn(H, v) = {}
            \/ \E b \in DOMAIN k : /\ ChildrenIn(m, w) = HeldIn(m, b, k[b])
                                   /\ ChildrenIn(H, v) = HeldIn(H, g[b], k[b])
<1>1. PICK a, c, t, J : a = Addr(w) /\ c = Addr(v) /\ t = Tag(w) /\ J = Identity(K)
  OBVIOUS
<1>2. t \in ObjectKinds /\ a \in DOMAIN k /\ k[a] = t /\ Tag(v) = t /\ g[a] = c
  BY <1>1 DEF Pair, Refs, IsValue
<1>3. Alike(t, m[a], g, H[c], J) /\ WellPlaced(m[a], a, k) /\ WellPlaced(H[c], c, K) /\ K[c] = t
  BY <1>1, <1>2 DEF Twins
<1>4. CASE ~VectorIn(m, w) /\ ~BignumIn(m, w) /\ ~StreamIn(m, w)
  <2>1. /\ Pointers(t, H[c]) = {}
        /\ ~VectorIn(H, v) /\ ~BignumIn(H, v) /\ ~StreamIn(H, v)
    <3>1. CASE t = TAG_INSTANCE
      <4>1. Layout(TAG_INSTANCE, H[c])
        BY <1>3, <3>1 DEF WellPlaced
      <4>2. /\ m[a][1] = H[c][1]
            /\ m[a][1] = MAGIC_VECTOR => (m[a][2] # 0 <=> H[c][2] # 0)
            /\ m[a][1] = MAGIC_BIGNUM => (m[a][3] # 0 <=> H[c][3] # 0)
        BY <1>3, <3>1, <4>1, SameHead
      <4>3. ~VectorIn(H, v) /\ ~BignumIn(H, v) /\ ~StreamIn(H, v)
        BY <1>1, <1>2, <1>4, <3>1, <4>2 DEF VectorIn, BignumIn, StreamIn, IsIn
      <4>4. /\ H[c][1] = MAGIC_VECTOR => H[c][2] = 0
            /\ H[c][1] = MAGIC_BIGNUM => H[c][3] = 0
            /\ H[c][1] # MAGIC_STREAM
        BY <1>1, <1>2, <3>1, <4>3 DEF VectorIn, BignumIn, StreamIn, IsIn
      <4>5. Pointers(TAG_INSTANCE, H[c]) = {}
        <5>1. CASE H[c][1] = MAGIC_VECTOR
          BY <4>4, <5>1, PointerTable
        <5>2. CASE H[c][1] = MAGIC_BIGNUM
          BY <4>4, <5>2, PointerTable
        <5>3. CASE H[c][1] # MAGIC_VECTOR /\ H[c][1] # MAGIC_BIGNUM
          BY <4>4, <5>3, PointerTable DEF PointedMagics
        <5> QED
          BY <5>1, <5>2, <5>3
      <4> QED
        BY <3>1, <4>3, <4>5
    <3>2. CASE t # TAG_INSTANCE
      <4>1. Pointers(t, H[c]) = {}
        BY <1>2, <3>2, NoPointers DEF ObjectKinds
      <4> QED
        BY <1>2, <3>2, <4>1 DEF VectorIn, BignumIn, StreamIn, IsIn
    <3> QED
      BY <3>1, <3>2
  <2>2. ContentsIn(m, g, w) = NamedIn(m, g, a, Values(t, m[a])) /\ ChildrenIn(m, w) = HeldIn(m, a, t)
    BY <1>1, <1>2, <1>4, OnItsOwn
  <2>3. ContentsIn(H, J, v) = NamedIn(H, J, c, Values(t, H[c])) /\ ChildrenIn(H, v) = HeldIn(H, c, t)
    BY <1>1, <1>2, <2>1, OnItsOwn
  <2>4. NamedIn(m, g, a, Values(t, m[a])) = NamedIn(H, J, c, Values(t, H[c]))
    BY <1>1, <1>3, <2>1, NamedAlike
  <2> QED
    BY <1>1, <1>2, <2>2, <2>3, <2>4
<1>5. CASE VectorIn(m, w) \/ BignumIn(m, w) \/ StreamIn(m, w)
  <2>1. t = TAG_INSTANCE
    BY <1>1, <1>5 DEF VectorIn, BignumIn, StreamIn, IsIn
  <2>2. Layout(TAG_INSTANCE, H[c])
    BY <1>3, <2>1 DEF WellPlaced
  <2>3. /\ m[a][1] = H[c][1]
        /\ m[a][1] = MAGIC_VECTOR => (m[a][2] # 0 <=> H[c][2] # 0)
        /\ m[a][1] = MAGIC_BIGNUM => (m[a][3] # 0 <=> H[c][3] # 0)
    BY <1>3, <2>1, <2>2, SameHead
  <2>4. CASE VectorIn(m, w)
    <3>1. PICK b, d, p : b = m[a][2] /\ d = H[c][2] /\ p = <<2, VECTOR_BLOCK>>
      OBVIOUS
    <3>2. H[c][1] = MAGIC_VECTOR /\ H[c][2] # 0 /\ VectorIn(H, v)
      BY <1>1, <1>2, <2>1, <2>3, <2>4 DEF VectorIn, IsIn
    <3>3. p \in Pointers(k[a], H[g[a]]) /\ p[1] = 2 /\ p[2] = VECTOR_BLOCK
      BY <1>2, <2>1, <3>1, <3>2, PointerTable
    <3>4. b \in DOMAIN k /\ g[b] = d /\ k[b] = VECTOR_BLOCK
      BY <1>2, <3>1, <3>3, PointedTwin
    <3>5. Alike(VECTOR_BLOCK, m[b], g, H[d], J) /\ Pointers(VECTOR_BLOCK, H[d]) = {}
      <4>1. Pointers(VECTOR_BLOCK, H[d]) = {}
        BY DEF Pointers
      <4> QED
        BY <1>1, <3>4, <4>1 DEF Twins
    <3>6. ContentsIn(m, g, w) = NamedIn(m, g, b, Values(VECTOR_BLOCK, m[b]))
          /\ ChildrenIn(m, w) = HeldIn(m, b, VECTOR_BLOCK)
      BY <1>1, <2>4, <3>1, AsVector
    <3>7. ContentsIn(H, J, v) = NamedIn(H, J, d, Values(VECTOR_BLOCK, H[d]))
          /\ ChildrenIn(H, v) = HeldIn(H, d, VECTOR_BLOCK)
      BY <1>1, <3>1, <3>2, AsVector
    <3>8. NamedIn(m, g, b, Values(VECTOR_BLOCK, m[b])) = NamedIn(H, J, d, Values(VECTOR_BLOCK, H[d]))
      BY <1>1, <3>5, NamedAlike
    <3> QED
      BY <1>1, <3>4, <3>6, <3>7, <3>8
  <2>5. CASE BignumIn(m, w)
    <3>1. PICK b, d, p : b = m[a][4] /\ d = H[c][4] /\ p = <<4, RAW_BLOCK>>
      OBVIOUS
    <3>2. H[c][1] = MAGIC_BIGNUM /\ H[c][3] # 0 /\ BignumIn(H, v)
      BY <1>1, <1>2, <2>1, <2>3, <2>5 DEF BignumIn, IsIn
    <3>3. p \in Pointers(k[a], H[g[a]]) /\ p[1] = 4 /\ p[2] = RAW_BLOCK
      BY <1>2, <2>1, <3>1, <3>2, PointerTable
    <3>4. b \in DOMAIN k /\ g[b] = d /\ k[b] = RAW_BLOCK
      BY <1>2, <3>1, <3>3, PointedTwin
    <3>5. Alike(RAW_BLOCK, m[b], g, H[d], J)
      BY <1>1, <3>4 DEF Twins
    <3>6. Pointers(RAW_BLOCK, H[d]) = {} /\ Values(RAW_BLOCK, m[b]) = {} /\ Values(RAW_BLOCK, H[d]) = {}
      BY DEF Pointers, Values
    <3>7. ContentsIn(m, g, w) = NamedIn(m, g, b, {}) /\ ChildrenIn(m, w) = {}
      BY <1>1, <2>5, <3>1, AsBignum
    <3>8. ContentsIn(H, J, v) = NamedIn(H, J, d, {}) /\ ChildrenIn(H, v) = {}
      BY <1>1, <3>1, <3>2, AsBignum
    <3>9. NamedIn(m, g, b, Values(RAW_BLOCK, m[b])) = NamedIn(H, J, d, Values(RAW_BLOCK, H[d]))
      BY <1>1, <3>5, <3>6, NamedAlike
    <3> QED
      BY <1>1, <3>6, <3>7, <3>8, <3>9
  <2>6. CASE StreamIn(m, w)
    <3>1. PICK b, d, p : b = m[a][2] /\ d = H[c][2] /\ p = <<2, STREAM_STRUCT>>
      OBVIOUS
    <3>2. H[c][1] = MAGIC_STREAM /\ StreamIn(H, v)
      BY <1>1, <1>2, <2>1, <2>3, <2>6 DEF StreamIn, IsIn
    <3>3. p \in Pointers(k[a], H[g[a]]) /\ p[1] = 2 /\ p[2] = STREAM_STRUCT
      BY <1>2, <2>1, <3>1, <3>2, PointerTable
    <3>4. b \in DOMAIN k /\ g[b] = d /\ k[b] = STREAM_STRUCT
      BY <1>2, <3>1, <3>3, PointedTwin
    <3>5. PICK x, y : x = NamedIn(m, g, b, Values(STREAM_STRUCT, m[b]))
                      /\ y = NamedIn(H, J, d, Values(STREAM_STRUCT, H[d]))
      OBVIOUS
    <3>6. ContentsIn(m, g, w) = [x EXCEPT ![2] = <<0, 0>>] \o Buffer(m, b)
          /\ ChildrenIn(m, w) = HeldIn(m, b, STREAM_STRUCT)
      BY <1>1, <2>6, <3>1, <3>5, AsStream
    <3>7. ContentsIn(H, J, v) = [y EXCEPT ![2] = <<0, 0>>] \o Buffer(H, d)
          /\ ChildrenIn(H, v) = HeldIn(H, d, STREAM_STRUCT)
      BY <1>1, <3>1, <3>2, <3>5, AsStream
    <3>8. Buffer(m, b) = Buffer(H, d) /\ [x EXCEPT ![2] = <<0, 0>>] = [y EXCEPT ![2] = <<0, 0>>]
      BY <1>1, <3>4, <3>5, StreamTwin
    <3>9. ContentsIn(m, g, w) = ContentsIn(H, J, v)
      BY <3>6, <3>7, <3>8
    <3> QED
      BY <1>1, <3>4, <3>6, <3>7, <3>9
  <2> QED
    BY <1>5, <2>4, <2>5, <2>6
<1> QED
  BY <1>4, <1>5

LEMMA SelfTwins ==
  ASSUME NEW m, NEW k, NEW g, NEW H, NEW K, Twins(m, k, g, H, K)
  PROVE  Twins(H, K, Identity(K), H, K)
<1>1. PICK J : J = Identity(K)
  OBVIOUS
<1>2. DOMAIN J = DOMAIN K /\ (\A y \in DOMAIN K : J[y] = y) /\ Extends(J, J)
  BY <1>1 DEF Identity, Extends
<1>3. ASSUME NEW y \in DOMAIN K PROVE Alike(K[y], H[y], J, H[J[y]], J)
  <2>1. WellPlaced(H[y], y, K)
    BY DEF Twins
  <2>2. Alike(K[y], H[y], J, H[y], J)
    BY <1>2, <2>1, AlikeUnchanged
  <2> QED
    BY <1>2, <2>2
<1> QED
  BY <1>1, <1>2, <1>3 DEF Twins

\* Every reference is half of a pair.
LEMMA TwinOf ==
  ASSUME NEW m, NEW k, NEW g, NEW H, NEW K, Twins(m, k, g, H, K), NEW w \in Refs(k)
  PROVE  \E v : Pair(w, v, k, g, K)
<1>1. PICK b, t, v : b = g[Addr(w)] /\ t = Tag(w) /\ v = b + t
  OBVIOUS
<1>2. t \in ObjectKinds /\ Addr(w) \in DOMAIN k /\ k[Addr(w)] = t /\ w \in Int
  BY <1>1 DEF Refs, IsValue
<1>3. b \in DOMAIN K /\ b \in Int /\ b % 16 = 0 /\ b # 0 /\ K[b] = t
  BY <1>1, <1>2 DEF Twins
<1>4. t \in 0..15
  BY <1>2 DEF ObjectKinds
<1>5. v \in Int /\ Tag(v) = t /\ Addr(v) = b
  BY <1>1, <1>3, <1>4, Tagged
<1>6. v # NIL
  BY <1>3, <1>5 DEF NIL, Addr, Tag
<1>7. IsRef(v)
  BY <1>2, <1>5, <1>6 DEF IsRef, os_tag_is_heap_ref, ObjectKinds
<1> QED
  BY <1>1, <1>2, <1>3, <1>5, <1>7 DEF Pair, Refs, IsValue

\* From a pair of references the same pairs are reached.
LEMMA NextPairs ==
  ASSUME NEW m, NEW k, NEW g, NEW H, NEW K, Twins(m, k, g, H, K), NEW w, NEW v, Pair(w, v, k, g, K)
  PROVE  /\ NextIn(m, w) \subseteq Refs(k)
         /\ \A x \in NextIn(m, w) : \E y \in NextIn(H, v) : Pair(x, y, k, g, K)
         /\ \A y \in NextIn(H, v) : \E x \in NextIn(m, w) : Pair(x, y, k, g, K)
<1>1. DOMAIN m = DOMAIN k /\ DOMAIN H = DOMAIN K
  BY DEF Twins
<1>2. ASSUME NEW x, NEW y, Pair(x, y, k, g, K) PROVE Addr(x) \in DOMAIN m /\ Addr(y) \in DOMAIN H
  BY <1>1, <1>2 DEF Pair, Refs, IsValue
<1>3. CASE ChildrenIn(m, w) = {} /\ ChildrenIn(H, v) = {}
  BY <1>3 DEF NextIn
<1>4. ASSUME NEW b \in DOMAIN k, ChildrenIn(m, w) = HeldIn(m, b, k[b]), ChildrenIn(H, v) = HeldIn(H, g[b], k[b])
      PROVE  /\ \A x \in ChildrenIn(m, w) : x \in Refs(k) /\ \E y \in ChildrenIn(H, v) : Pair(x, y, k, g, K)
             /\ \A y \in ChildrenIn(H, v) : \E x \in ChildrenIn(m, w) : Pair(x, y, k, g, K)
  BY <1>4, HeldPairs
<1> QED
  BY <1>2, <1>3, <1>4, PairBodies DEF NextIn

\* No more references than places.
LEMMA FewRefs ==
  ASSUME NEW k, IsFiniteSet(DOMAIN k)
  PROVE  /\ IsFiniteSet(Refs(k)) /\ Cardinality(DOMAIN k) \in Nat
         /\ Cardinality(Refs(k)) <= Cardinality(DOMAIN k)
<1>1. PICK f : f = [w \in Refs(k) |-> Addr(w)]
  OBVIOUS
<1>2. ASSUME NEW w \in Refs(k) PROVE f[w] \in DOMAIN k /\ w = f[w] + k[f[w]]
  <2>1. w \in Int /\ Addr(w) \in DOMAIN k /\ k[Addr(w)] = Tag(w)
    BY DEF Refs, IsValue
  <2>2. Addr(w) + Tag(w) = w
    BY <2>1, WordParts
  <2> QED
    BY <1>1, <2>1, <2>2
<1>3. f \in [Refs(k) -> DOMAIN k]
  BY <1>1, <1>2
<1>4. \A w, v \in Refs(k) : f[w] = f[v] => w = v
  BY <1>2
<1>5. f \in Injection(Refs(k), DOMAIN k)
  BY <1>3, <1>4 DEF Injection, IsInjective
<1>6. PICK U, D : U = Refs(k) /\ D = DOMAIN k
  OBVIOUS
<1>7. f \in Injection(U, D) /\ IsFiniteSet(D)
  BY <1>5, <1>6
<1>8. IsFiniteSet(U) /\ Cardinality(U) <= Cardinality(D)
  BY <1>7, FS_Injection
<1>9. Cardinality(D) \in Nat
  BY <1>7, FS_CardinalityType
<1> QED
  BY <1>6, <1>8, <1>9

\* All of s are Lisp values.
Holds(s, k) == s \in Seq(Int) /\ \A i \in 1..Len(s) : IsValue(s[i], k)

LEMMA TwinsContained ==
  ASSUME NEW m, NEW k, NEW g, NEW H, NEW K, Twins(m, k, g, H, K), IsFiniteSet(DOMAIN k),
         NEW r, Holds(r, k), NEW c, Holds(c, k)
  PROVE  Contained(m, k, r, c)
<1>1. FirstIn(m, r, c) \subseteq Refs(k)
  <2>1. \A v \in Range(r) \cup Range(c) : IsValue(v, k)
    <3>1. DOMAIN r = 1..Len(r) /\ DOMAIN c = 1..Len(c)
      BY DEF Holds
    <3> QED
      BY <3>1 DEF Holds, Range
  <2> QED
    BY <2>1 DEF FirstIn, Refs, IsValue
<1>2. ASSUME NEW w \in Refs(k) PROVE NextIn(m, w) \subseteq Refs(k)
  <2>1. PICK v : Pair(w, v, k, g, K)
    BY TwinOf
  <2> QED
    BY <2>1, NextPairs
<1>3. DOMAIN m = DOMAIN k
  BY DEF Twins
<1> QED
  BY <1>1, <1>2, <1>3, FewRefs DEF Contained

\* The references among values with the same names are pairs.
LEMMA FirstPairs ==
  ASSUME NEW m, NEW k, NEW g, NEW H, NEW K, Twins(m, k, g, H, K),
         NEW r, NEW c, NEW R, NEW C, Holds(r, k), Holds(c, k), Holds(R, K), Holds(C, K),
         Meant(r, R, g, K), Meant(c, C, g, K)
  PROVE  /\ \A x \in FirstIn(m, r, c) : \E y \in FirstIn(H, R, C) : Pair(x, y, k, g, K)
         /\ \A y \in FirstIn(H, R, C) : \E x \in FirstIn(m, r, c) : Pair(x, y, k, g, K)
<1>1. ASSUME NEW s, NEW S, Holds(s, k), Holds(S, K), Meant(s, S, g, K), NEW i \in 1..Len(S)
      PROVE  (IsRef(s[i]) <=> IsRef(S[i])) /\ (IsRef(s[i]) => Pair(s[i], S[i], k, g, K))
  <2>1. IsValue(s[i], k) /\ IsValue(S[i], K) /\ NameIn(g, s[i]) = NameIn(Identity(K), S[i])
    BY <1>1 DEF Holds, Meant
  <2> QED
    BY <2>1, Pairing
<1>2. DOMAIN r = 1..Len(R) /\ DOMAIN R = 1..Len(R) /\ DOMAIN c = 1..Len(C) /\ DOMAIN C = 1..Len(C)
  BY DEF Holds, Meant
<1>3. DOMAIN m = DOMAIN k /\ DOMAIN H = DOMAIN K
  BY DEF Twins
<1>4. \A x, y : Pair(x, y, k, g, K) => Addr(x) \in DOMAIN m /\ Addr(y) \in DOMAIN H
  BY <1>3 DEF Pair, Refs, IsValue
<1>5. ASSUME NEW x \in FirstIn(m, r, c) PROVE \E y \in FirstIn(H, R, C) : Pair(x, y, k, g, K)
  <2>1. IsRef(x) /\ ((\E i \in 1..Len(R) : x = r[i]) \/ (\E i \in 1..Len(C) : x = c[i]))
    BY <1>2 DEF FirstIn, Range
  <2>2. CASE \E i \in 1..Len(R) : x = r[i]
    <3>1. PICK i \in 1..Len(R) : x = r[i]
      BY <2>2
    <3>2. IsRef(R[i]) /\ Pair(x, R[i], k, g, K)
      BY <1>1, <2>1, <3>1
    <3> QED
      BY <1>2, <1>4, <3>1, <3>2 DEF FirstIn, Range
  <2>3. CASE \E i \in 1..Len(C) : x = c[i]
    <3>1. PICK i \in 1..Len(C) : x = c[i]
      BY <2>3
    <3>2. IsRef(C[i]) /\ Pair(x, C[i], k, g, K)
      BY <1>1, <2>1, <3>1
    <3> QED
      BY <1>2, <1>4, <3>1, <3>2 DEF FirstIn, Range
  <2> QED
    BY <2>1, <2>2, <2>3
<1>6. ASSUME NEW y \in FirstIn(H, R, C) PROVE \E x \in FirstIn(m, r, c) : Pair(x, y, k, g, K)
  <2>1. IsRef(y) /\ ((\E i \in 1..Len(R) : y = R[i]) \/ (\E i \in 1..Len(C) : y = C[i]))
    BY <1>2 DEF FirstIn, Range
  <2>2. CASE \E i \in 1..Len(R) : y = R[i]
    <3>1. PICK i \in 1..Len(R) : y = R[i]
      BY <2>2
    <3>2. IsRef(r[i]) /\ Pair(r[i], y, k, g, K)
      BY <1>1, <2>1, <3>1
    <3> QED
      BY <1>2, <1>4, <3>1, <3>2 DEF FirstIn, Range
  <2>3. CASE \E i \in 1..Len(C) : y = C[i]
    <3>1. PICK i \in 1..Len(C) : y = C[i]
      BY <2>3
    <3>2. IsRef(c[i]) /\ Pair(c[i], y, k, g, K)
      BY <1>1, <2>1, <3>1
    <3> QED
      BY <1>2, <1>4, <3>1, <3>2 DEF FirstIn, Range
  <2> QED
    BY <2>1, <2>2, <2>3
<1> QED
  BY <1>5, <1>6

\* What is live in the one is live in the other.
LEMMA LivePairs ==
  ASSUME NEW m, NEW k, NEW g, NEW H, NEW K, Twins(m, k, g, H, K), IsFiniteSet(DOMAIN k), IsFiniteSet(DOMAIN K),
         NEW r, NEW c, NEW R, NEW C, Holds(r, k), Holds(c, k), Holds(R, K), Holds(C, K),
         Meant(r, R, g, K), Meant(c, C, g, K)
  PROVE  /\ \A x \in LiveIn(m, r, c) : \E y \in LiveIn(H, R, C) : Pair(x, y, k, g, K)
         /\ \A y \in LiveIn(H, R, C) : \E x \in LiveIn(m, r, c) : Pair(x, y, k, g, K)
<1>1. Contained(m, k, r, c)
  BY TwinsContained
<1>2. Contained(H, K, R, C)
  BY SelfTwins, TwinsContained
<1>3. PICK L, M : L = LiveIn(m, r, c) /\ M = LiveIn(H, R, C)
  OBVIOUS
<1>4. /\ FirstIn(m, r, c) \subseteq L /\ L \subseteq Refs(k) /\ \A w \in L : NextIn(m, w) \subseteq L
      /\ FirstIn(H, R, C) \subseteq M /\ M \subseteq Refs(K) /\ \A w \in M : NextIn(H, w) \subseteq M
  BY <1>1, <1>2, <1>3, LiveIsLeast
<1>5. \A x, y : Pair(x, y, k, g, K) => x \in Refs(k) /\ y \in Refs(K)
  BY DEF Pair
<1>6. PICK D : D = {x \in Refs(k) : \E y \in M : Pair(x, y, k, g, K)}
  OBVIOUS
<1>7. FirstIn(m, r, c) \subseteq D
  BY <1>4, <1>5, <1>6, FirstPairs
<1>8. ASSUME NEW w \in D PROVE NextIn(m, w) \subseteq D
  <2>1. PICK v \in M : Pair(w, v, k, g, K)
    BY <1>6
  <2>2. \A x \in NextIn(m, w) : \E y \in NextIn(H, v) : Pair(x, y, k, g, K)
    BY <2>1, NextPairs
  <2>3. NextIn(H, v) \subseteq M
    BY <1>4
  <2> QED
    BY <1>5, <1>6, <2>2, <2>3
<1>9. L \subseteq D
  <2>1. D \in SUBSET Refs(k)
    BY <1>6
  <2> QED
    BY <1>1, <1>3, <1>7, <1>8, <2>1, LiveIsLeast
<1>10. PICK E : E = {y \in Refs(K) : \E x \in L : Pair(x, y, k, g, K)}
  OBVIOUS
<1>11. FirstIn(H, R, C) \subseteq E
  BY <1>4, <1>5, <1>10, FirstPairs
<1>12. ASSUME NEW v \in E PROVE NextIn(H, v) \subseteq E
  <2>1. PICK w \in L : Pair(w, v, k, g, K)
    BY <1>10
  <2>2. \A y \in NextIn(H, v) : \E x \in NextIn(m, w) : Pair(x, y, k, g, K)
    BY <2>1, NextPairs
  <2>3. NextIn(m, w) \subseteq L
    BY <1>4
  <2> QED
    BY <1>5, <1>10, <2>2, <2>3
<1>13. M \subseteq E
  <2>1. E \in SUBSET Refs(K)
    BY <1>10
  <2> QED
    BY <1>2, <1>3, <1>11, <1>12, <2>1, LiveIsLeast
<1> QED
  BY <1>3, <1>6, <1>9, <1>10, <1>13

\* The graphs are the same.
LEMMA SameGraph ==
  ASSUME NEW m, NEW k, NEW g, NEW H, NEW K, Twins(m, k, g, H, K), IsFiniteSet(DOMAIN k), IsFiniteSet(DOMAIN K),
         NEW r, NEW c, NEW R, NEW C, Holds(r, k), Holds(c, k), Holds(R, K), Holds(C, K),
         Meant(r, R, g, K), Meant(c, C, g, K)
  PROVE  GraphIn(m, g, r, c) = GraphIn(H, Identity(K), R, C)
<1>1. PICK L, M, J : L = LiveIn(m, r, c) /\ M = LiveIn(H, R, C) /\ J = Identity(K)
  OBVIOUS
<1>2. /\ \A x \in L : \E y \in M : Pair(x, y, k, g, K)
      /\ \A y \in M : \E x \in L : Pair(x, y, k, g, K)
  BY <1>1, LivePairs
<1>3. ASSUME NEW x, NEW y, Pair(x, y, k, g, K)
      PROVE  NameIn(g, x) = NameIn(J, y) /\ ContentsIn(m, g, x) = ContentsIn(H, J, y)
  <2>1. ContentsIn(m, g, x) = ContentsIn(H, J, y)
    BY <1>1, <1>3, PairBodies
  <2>2. DOMAIN g = DOMAIN k
    BY DEF Twins
  <2>3. IsRef(x) /\ IsRef(y) /\ Addr(x) \in DOMAIN g /\ Addr(y) \in DOMAIN K /\ Tag(x) = Tag(y) /\ g[Addr(x)] = Addr(y)
    BY <1>3, <2>2 DEF Pair, Refs, IsValue
  <2>4. NameIn(g, x) = <<Tag(x), g[Addr(x)]>>
    BY <2>3 DEF NameIn
  <2>5. NameIn(J, y) = <<Tag(y), Addr(y)>>
    BY <1>1, <2>3 DEF NameIn, Identity
  <2> QED
    BY <2>1, <2>3, <2>4, <2>5
<1>4. {<<NameIn(g, w), ContentsIn(m, g, w)>> : w \in L} = {<<NameIn(J, w), ContentsIn(H, J, w)>> : w \in M}
  BY <1>2, <1>3
<1>5. [i \in 1..Len(r) |-> NameIn(g, r[i])] = [i \in 1..Len(R) |-> NameIn(J, R[i])]
  BY <1>1 DEF Meant
<1>6. [i \in 1..Len(c) |-> NameIn(g, c[i])] = [i \in 1..Len(C) |-> NameIn(J, C[i])]
  BY <1>1 DEF Meant
<1> QED
  BY <1>1, <1>4, <1>5, <1>6 DEF GraphIn

\* The heap as it was given, in a collector at rest.
LEMMA RestTwins ==
  ASSUME NEW h \in InitialHeaps, NEW K, K = h.kind, GInv(K), phase = "idle",
         NEW H, H = h.mem, NEW R, NEW C, Preserved(H, R, C, K)
  PROVE  /\ Twins(mem, Kinds(K), origin, H, K)
         /\ IsFiniteSet(DOMAIN Kinds(K)) /\ IsFiniteSet(DOMAIN K)
         /\ Holds(roots, Kinds(K)) /\ Holds(cells, Kinds(K))
<1>1. WellFormed(h)
  BY HeapsAssumption
<1>2. PICK k : k = Kinds(K)
  OBVIOUS
<1>3. CoreAt(K, k, mem, origin, to_ptr, queue, black, fields) /\ Spaces
  BY <1>2, GInvParts DEF Now, Core, Kinds
<1>4. \A a \in DOMAIN mem : InFrom(a)
  BY GInvParts, StageParts DEF Resting
<1>5. /\ DOMAIN mem = DOMAIN origin /\ DOMAIN k = DOMAIN origin
      /\ \A x \in DOMAIN origin : x \in Int /\ origin[x] \in DOMAIN K /\ k[x] = K[origin[x]]
  BY <1>2, <1>3 DEF CoreAt, Places, Kinds, KindAt
<1>6. Holds(roots, k) /\ Holds(cells, k)
  BY <1>2, GInvParts, StageParts DEF Visited, Holds
<1>7. \A x \in DOMAIN k : ~Moved(mem, k, x)
  <2>1. SUFFICES ASSUME NEW x \in DOMAIN k, Moved(mem, k, x) PROVE FALSE
    OBVIOUS
  <2>2. Addr(mem[x][1]) \in DOMAIN k
    BY <1>3, <2>1 DEF CoreAt, Forwarding, Moved
  <2>3. InTo(Addr(mem[x][1])) /\ InFrom(Addr(mem[x][1])) /\ Addr(mem[x][1]) \in Int
    BY <1>4, <1>5, <2>1, <2>2 DEF Moved, Forwarded
  <2> QED
    BY <1>3, <2>3, Apart
<1>8. \A x \in DOMAIN k : WellPlaced(mem[x], x, k) /\ Alike(k[x], mem[x], origin, H[origin[x]], Identity(K))
  BY <1>2, <1>3, <1>7 DEF CoreAt, Sound, Preserved, Faithful
<1>9. ASSUME NEW y \in DOMAIN K
      PROVE  y \in Base..(Base + Half - 1) /\ y \in Int /\ y % 16 = 0 /\ y # 0 /\ WellPlaced(H[y], y, K)
  <2>1. y \in Base..(Base + Half - 1) /\ y % 16 = 0 /\ WellPlaced(H[y], y, K)
    BY <1>1 DEF WellFormed
  <2> QED
    BY <2>1, GCAssumption DEF MAGIC_MUST_BE_BELOW
<1>10. DOMAIN H = DOMAIN K
  BY <1>1 DEF WellFormed
<1>11. Twins(mem, k, origin, H, K)
  BY <1>5, <1>8, <1>9, <1>10 DEF Twins
<1>12. IsFiniteSet(DOMAIN K)
  <2>1. Base \in Int /\ Base + Half - 1 \in Int
    BY GCAssumption
  <2>2. IsFiniteSet(Base..(Base + Half - 1))
    BY <2>1, FS_Interval
  <2>3. DOMAIN K \subseteq Base..(Base + Half - 1)
    BY <1>9
  <2> QED
    BY <2>2, <2>3, FS_Subset
<1>13. IsFiniteSet(DOMAIN k)
  <2>1. PICK p, q : p = from_start /\ q = from_start + Half - 1
    OBVIOUS
  <2>2. p \in Int /\ q \in Int
    BY <1>3, <2>1, GCAssumption DEF Spaces
  <2>3. IsFiniteSet(p..q)
    BY <2>2, FS_Interval
  <2>4. DOMAIN k \subseteq p..q
    BY <1>4, <1>5, <2>1, <2>2, GCAssumption DEF InFrom
  <2> QED
    BY <2>3, <2>4, FS_Subset
<1> QED
  BY <1>2, <1>6, <1>11, <1>12, <1>13

\* The graph the behaviour started with.
GraphAt(h) == GraphIn(h.mem, Identity(h.kind), h.roots, h.cells)

\* The invariant, with what the objects contain: for a heap h of those a
\* collection may find, everything is as it was in h, up to the places.
ContentsInv ==
  \E h \in InitialHeaps : /\ GInv(h.kind) /\ Preserved(h.mem, h.roots, h.cells, h.kind)
                          /\ before = GraphAt(h)

LEMMA BeforeStays ==
  ASSUME [Next]_vars
  PROVE  before' = before
<1>1. Scan => before' = before
  BY ZenonT(30) DEF Scan, ScanPlain, gc_relocate_bignum, gc_relocate_vector_block, gc_relocate_stream, Popped, Halts
<1>2. CopyRoot => before' = before
  BY DEF CopyRoot, Halts
<1>3. CopyField => before' = before
  BY DEF CopyField, Halts
<1>4. FixupCell => before' = before
  BY DEF FixupCell, Halts
<1>5. Begin \/ RootsDone \/ CellsDone \/ Flip \/ UNCHANGED vars => before' = before
  BY DEF Begin, RootsDone, CellsDone, Flip, vars
<1> QED
  BY <1>1, <1>2, <1>3, <1>4, <1>5, Zenon DEF Next

LEMMA InitContents ==
  ASSUME Init
  PROVE  ContentsInv
<1>1. PICK h \in InitialHeaps : mem = h.mem /\ roots = h.roots /\ cells = h.cells
  BY DEF Init
<1>2. GInv(h.kind) /\ Preserved(h.mem, h.roots, h.cells, h.kind)
  BY <1>1, InitGInv, InitKept
<1>3. origin = Identity(h.kind)
  BY <1>1, HeapsAssumption DEF Init, Identity, WellFormed
<1>4. before = GraphAt(h)
  <2>1. before = Graph
    BY DEF Init
  <2>2. Graph = GraphIn(mem, origin, roots, cells)
    BY GraphHere
  <2> QED
    BY <1>1, <1>3, <2>1, <2>2 DEF GraphAt
<1> QED
  BY <1>2, <1>4 DEF ContentsInv

LEMMA NextContents ==
  ASSUME ContentsInv, [Next]_vars
  PROVE  ContentsInv'
<1>1. PICK h \in InitialHeaps : GInv(h.kind) /\ Preserved(h.mem, h.roots, h.cells, h.kind) /\ before = GraphAt(h)
  BY DEF ContentsInv
<1>2. PICK K, H, R, C, G : K = h.kind /\ H = h.mem /\ R = h.roots /\ C = h.cells /\ G = GraphAt(h)
  OBVIOUS
<1>3. GInv(K)'
  BY <1>1, <1>2, NextGInv
<1>4. Preserved(H, R, C, K)'
  BY <1>1, <1>2, NextKept
<1>5. before' = G
  BY <1>1, <1>2, BeforeStays
<1>6. (GInv(h.kind) /\ Preserved(h.mem, h.roots, h.cells, h.kind))'
  BY <1>2, <1>3, <1>4
<1>7. (before = GraphAt(h))'
  BY <1>2, <1>5 DEF GraphAt
<1> QED
  BY <1>6, <1>7 DEF ContentsInv

\* Whatever has not been left behind contains, at every step of a collection,
\* what it contained before the first one, and the roots and the cells mean
\* what they meant (gc_copy_value, the gc_relocate functions, the flip).
THEOREM ContentsKept == Spec => []ContentsInv
<1>1. Init => ContentsInv
  BY InitContents
<1>2. ContentsInv /\ [Next]_vars => ContentsInv'
  BY NextContents
<1> QED
  BY <1>1, <1>2, PTL DEF Spec

\* A collection changes nothing a program can see: the graph of the objects
\* reachable from the roots and the cells is the one the collections started
\* from (os_gc_collect_body as a whole).
THEOREM GraphKept == Spec => []GraphPreserved
<1>1. ASSUME ContentsInv, phase = "idle" PROVE Graph = before
  <2>1. PICK h \in InitialHeaps : GInv(h.kind) /\ Preserved(h.mem, h.roots, h.cells, h.kind) /\ before = GraphAt(h)
    BY <1>1 DEF ContentsInv
  <2>2. PICK K, H, R, C, k : K = h.kind /\ H = h.mem /\ R = h.roots /\ C = h.cells /\ k = Kinds(K)
    OBVIOUS
  <2>3. /\ Twins(mem, k, origin, H, K) /\ IsFiniteSet(DOMAIN k) /\ IsFiniteSet(DOMAIN K)
        /\ Holds(roots, k) /\ Holds(cells, k)
    BY <1>1, <2>1, <2>2, RestTwins
  <2>4. Holds(R, K) /\ Holds(C, K)
    <3>1. /\ R \in Seq(Int) /\ C \in Seq(Int) /\ \A v \in Range(R) \cup Range(C) : IsValue(v, K)
      BY <2>2, HeapsAssumption DEF WellFormed
    <3> QED
      BY <3>1 DEF Holds, Range
  <2>5. Meant(roots, R, origin, K) /\ Meant(cells, C, origin, K)
    BY <2>1, <2>2 DEF Preserved
  <2>6. GraphIn(mem, origin, roots, cells) = GraphIn(H, Identity(K), R, C)
    BY <2>3, <2>4, <2>5, SameGraph
  <2> QED
    BY <2>1, <2>2, <2>6, GraphHere DEF GraphAt
<1>2. ContentsInv => GraphPreserved
  BY <1>1 DEF GraphPreserved
<1> QED
  BY <1>2, ContentsKept, PTL
=============================================================================
