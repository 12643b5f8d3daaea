------------------------------ MODULE CopyingGC ------------------------------
(***************************************************************************)
(* The copying collector of src/c/runtime.c: os_gc_collect_body,           *)
(* gc_copy_value, the FIFO of grey objects, the per-kind scanning rules    *)
(* and the fix-up of the Function Cells.                                   *)
(*                                                                         *)
(* Memory is a function from object addresses to the sequence of 64-bit    *)
(* words stored there, words being integers as in the code: the low four   *)
(* bits are the tag, the rest the address.  This keeps the collector's     *)
(* central ambiguity: word 0 of a string is its raw length, whose low four *)
(* bits can equal TAG_FORWARD.                                             *)
(*                                                                         *)
(* The collection is one critical section in the code (interrupts off); it *)
(* is cut here into one step per copied word and per relocated block, so   *)
(* that what holds in the middle can be stated too.                        *)
(***************************************************************************)
EXTENDS Integers, Sequences, SequencesExt, FiniteSets

CONSTANTS
  InitialHeaps,       \* set of [mem, roots, cells, kind]: heaps a collection may find,
                      \* and what is at each address
  Base, Half,         \* the half-spaces [Base, Base+Half) and [Base+Half, Base+2*Half)
  GC_QUEUE_CAPACITY,  \* entries of g_gc_queue
  MaxCollections      \* bound: collections in a behaviour

TAG_CONS == 1
TAG_SYMBOL == 3
TAG_STRING == 5
TAG_INSTANCE == 7
TAG_FORWARD == 15
MAGIC_FUNCTION_NATIVE == 14
MAGIC_FUNCTION_INTERPRETED == 30
MAGIC_PROCESS == 46
MAGIC_MACRO == 62
MAGIC_BLOCK_EXIT == 78
MAGIC_STREAM == 94
MAGIC_CLASS_INSTANCE == 110
MAGIC_CATCH_EXIT == 126
MAGIC_GO_EXIT == 142
MAGIC_BIGNUM == 158
MAGIC_VECTOR == 174
MAGIC_FLOAT == 190
MAGIC_BUILTIN_CLASS == 206
MAGIC_STANDARD_CLASS == 222
MAGIC_MUST_BE_BELOW == 4096   \* os_heap_init panics when the heap starts lower
NIL == TAG_SYMBOL     \* the symbol NIL lives outside the half-spaces

Tag(w)  == w % 16
Addr(w) == w - Tag(w)
os_heap_align_up(n) == 16 * ((n + 15) \div 16)

ASSUME GCAssumption ==
  /\ Base \in Nat /\ Base % 16 = 0 /\ Base > MAGIC_MUST_BE_BELOW
  /\ Half \in Nat /\ Half % 16 = 0
  /\ GC_QUEUE_CAPACITY \in Nat \ {0} /\ MaxCollections \in Nat

VARIABLES
  mem,         \* address -> words, for both half-spaces
  roots,       \* the root slots, in the order os_gc_collect_body visits them
  cells,       \* cell[0] of each Function Cell, in list order
  from_start, to_start, to_ptr,
  queue,       \* g_gc_queue: grey objects, tagged
  fields,      \* <<block, word>>: the words of the scanned object still to be copied
  phase,       \* "idle" and the stages of os_gc_collect_body
  next,        \* the root or the cell to be visited next
  halted,      \* the collector stopped the machine
  collections,
  origin,      \* ghost: address -> identity of the object
  before,      \* ghost: the reachable graph before the first collection
  black        \* ghost: copies already scanned in this collection

vars == <<mem, roots, cells, from_start, to_start, to_ptr, queue, fields, phase, next,
          halted, collections, origin, before, black>>

InTo(a) == to_start <= a /\ a < to_start + Half

\* TAG_FORWARD counts as a reference here; gc_copy_value returns it unchanged.
os_tag_is_heap_ref(tag) ==
  tag \in {TAG_CONS, TAG_SYMBOL, TAG_STRING, TAG_INSTANCE, TAG_FORWARD}

(***************************************************************************)
(* gc_copy_value in three parts: does the word make a copy, what value     *)
(* comes back, and what happens to the memory.  words[1] of an object is   *)
(* word 0 of the code.                                                     *)
(***************************************************************************)
Put(f, a, v) == [x \in DOMAIN f \cup {a} |-> IF x = a THEN v ELSE f[x]]

\* Mutant: the range check is dropped.
ForwardedByTagAlone(word0) == Tag(word0) = TAG_FORWARD

Forwarded(word0) == Tag(word0) = TAG_FORWARD /\ InTo(Addr(word0))

Followed(w) == w # NIL /\ os_tag_is_heap_ref(Tag(w)) /\ ~InTo(Addr(w))

\* A stray TAG_FORWARD value is returned as it is: only four tags are copied.
NeedsCopy(w) ==
  /\ Followed(w) /\ Tag(w) # TAG_FORWARD
  /\ ~Forwarded(mem[Addr(w)][1])

ObjectSize(tag, word0) ==
  CASE tag = TAG_CONS     -> 16
    [] tag = TAG_SYMBOL   -> 32
    [] tag = TAG_STRING   -> 8 + word0
    [] tag = TAG_INSTANCE -> 32

\* gc_to_alloc: a full To space stops the machine, as does a full queue.
gc_to_alloc_fits(bytes) == to_ptr + bytes <= to_start + Half
gc_queue_full == Len(queue) >= GC_QUEUE_CAPACITY

CopyBytes(w) == os_heap_align_up(ObjectSize(Tag(w), mem[Addr(w)][1]))

Moves(w) == NeedsCopy(w) /\ gc_to_alloc_fits(CopyBytes(w)) /\ ~gc_queue_full

gc_copy_value(w) ==
  IF Followed(w) /\ Forwarded(mem[Addr(w)][1]) THEN Addr(mem[Addr(w)][1]) + Tag(w)
  ELSE IF Moves(w) THEN to_ptr + Tag(w)
  ELSE w

\* Mutant: no forwarding header is left behind.
MemAfterNoHeader(w) == IF Moves(w) THEN Put(mem, to_ptr, mem[Addr(w)]) ELSE mem

\* The object's words appear at the end of the To space, its word 0 becomes
\* the forwarding header.
MemAfter(w) ==
  IF Moves(w)
  THEN Put([mem EXCEPT ![Addr(w)][1] = to_ptr + TAG_FORWARD], to_ptr, mem[Addr(w)])
  ELSE mem

\* The state of the To space after gc_copy_value(w), the memory apart.
Copy(w) ==
  /\ to_ptr' = IF Moves(w) THEN to_ptr + CopyBytes(w) ELSE to_ptr
  /\ queue'  = IF Moves(w) THEN Append(queue, to_ptr + Tag(w)) ELSE queue
  /\ origin' = IF Moves(w) THEN Put(origin, to_ptr, origin[Addr(w)]) ELSE origin
  /\ UNCHANGED halted

CopyFails(w) == NeedsCopy(w) /\ ~Moves(w)

\* The To space or the queue is full: the machine stops there.
Halts ==
  /\ halted' = TRUE
  /\ UNCHANGED <<mem, roots, cells, from_start, to_start, to_ptr, queue, fields, phase, next,
                 collections, origin, before, black>>

(***************************************************************************)
(* Which words hold Lisp values.  A vector block is <<rank, dims, data>>,  *)
(* the struct of a stream <<kind has a buffer, str_buf, str_cap,           *)
(* mount_file_node, self_handle, pending_transfer>>; a buffer of no bytes  *)
(* counts as none.                                                         *)
(***************************************************************************)
TracedWords(words) ==
  CASE words[1] = MAGIC_FUNCTION_NATIVE -> IF words[4] # NIL THEN <<4>> ELSE <<>>
    [] words[1] \in {MAGIC_FUNCTION_INTERPRETED, MAGIC_MACRO,
                     MAGIC_BUILTIN_CLASS, MAGIC_STANDARD_CLASS} -> <<2, 3, 4>>
    [] words[1] = MAGIC_PROCESS -> <<2, 4>>
    [] words[1] \in {MAGIC_BLOCK_EXIT, MAGIC_CLASS_INSTANCE, MAGIC_CATCH_EXIT} -> <<2, 3>>
    [] words[1] = MAGIC_GO_EXIT -> <<2>>
    [] OTHER -> <<>>

ScannedWords(w) ==
  CASE Tag(w) = TAG_CONS     -> <<1, 2>>
    [] Tag(w) = TAG_SYMBOL   -> <<1, 2, 3, 4>>
    [] Tag(w) = TAG_STRING   -> <<>>
    [] Tag(w) = TAG_INSTANCE -> TracedWords(mem[Addr(w)])

Dimensions(block) == [i \in 1..block[1] |-> block[1 + i]]
VectorTotal(block) ==
  LET dims == Dimensions(block)
      product[i \in 0..Len(dims)] == IF i = 0 THEN 1 ELSE product[i-1] * dims[i]
  IN  product[Len(dims)]
VectorData(block) == [i \in 1..VectorTotal(block) |-> 1 + block[1] + i]
VectorBytes(block) == 8 * (1 + block[1] + VectorTotal(block))

StreamStructBytes == 48
StreamRefs == <<4, 5, 6>>

Is(w, magic) == Tag(w) = TAG_INSTANCE /\ mem[Addr(w)][1] = magic
IsVector(w) == Is(w, MAGIC_VECTOR) /\ mem[Addr(w)][2] # 0
IsBignum(w) == Is(w, MAGIC_BIGNUM) /\ mem[Addr(w)][3] # 0
IsStream(w) == Is(w, MAGIC_STREAM)

-----------------------------------------------------------------------------
(***************************************************************************)
(* What a heap means: the graph of the objects reachable from the roots    *)
(* and the cells, by identity, raw blocks folded into their owners.        *)
(***************************************************************************)
IsRef(w) == w # NIL /\ os_tag_is_heap_ref(Tag(w))
Dangling == <<-1, 0>>
Name(w) == IF ~IsRef(w) THEN <<w, 0>>
           ELSE IF Addr(w) \in DOMAIN origin THEN <<Tag(w), origin[Addr(w)]>> ELSE Dangling

\* The words of an object that hold Lisp values, by the layouts the
\* constructors give to each kind (comments of MAGIC_* in runtime.h) and not by
\* the collector's own rules.
InstanceValues(magic) ==
  CASE magic = MAGIC_FUNCTION_NATIVE -> {4}
    [] magic \in {MAGIC_FUNCTION_INTERPRETED, MAGIC_MACRO,
                  MAGIC_BUILTIN_CLASS, MAGIC_STANDARD_CLASS} -> {2, 3, 4}
    [] magic = MAGIC_PROCESS -> {2, 4}
    [] magic \in {MAGIC_BLOCK_EXIT, MAGIC_CLASS_INSTANCE, MAGIC_CATCH_EXIT} -> {2, 3}
    [] magic = MAGIC_GO_EXIT -> {2}
    [] OTHER -> {}

ValueWords(w) ==
  CASE Tag(w) = TAG_CONS -> 1..2
    [] Tag(w) = TAG_SYMBOL -> 1..4
    [] Tag(w) = TAG_STRING -> {}
    [] OTHER -> InstanceValues(mem[Addr(w)][1])

\* The values of a block: everything in a vector after the header, the three
\* references of a stream, no word of a bignum's limbs.
BlockValueWords(w) ==
  CASE IsVector(w) -> LET block == mem[mem[Addr(w)][2]] IN (2 + block[1])..Len(block)
    [] IsStream(w) -> {4, 5, 6}
    [] OTHER -> {}

Block(w) == IF IsBignum(w) THEN mem[Addr(w)][4] ELSE mem[Addr(w)][2]

\* Contents with references replaced by the names of what they refer to.
Named(a, values) ==
  [i \in 1..Len(mem[a]) |-> IF i \in values THEN Name(mem[a][i]) ELSE <<mem[a][i], 0>>]

Contents(w) ==
  CASE IsVector(w) \/ IsBignum(w) -> Named(Block(w), BlockValueWords(w))
    [] IsStream(w) ->
         [Named(Block(w), BlockValueWords(w)) EXCEPT ![2] = <<0, 0>>]
         \o (IF mem[Block(w)][1] = 0 THEN <<>> ELSE mem[mem[Block(w)][2]])
    [] OTHER -> Named(Addr(w), ValueWords(w))

\* The references an object holds.
Children(w) ==
  {v \in IF IsVector(w) \/ IsStream(w)
         THEN {mem[Block(w)][i] : i \in BlockValueWords(w)}
         ELSE {mem[Addr(w)][i] : i \in ValueWords(w)} : IsRef(v)}

RootValues == {v \in Range(roots) \cup Range(cells) : IsRef(v)}

Present(ws) == {w \in ws : Addr(w) \in DOMAIN mem}

Reachable ==
  LET within[n \in Nat] ==
        IF n = 0 THEN Present(RootValues)
        ELSE LET near == within[n-1]
             IN  near \cup UNION {Present(Children(w)) : w \in near}
  IN  within[Cardinality(DOMAIN mem)]

Graph ==
  [roots  |-> [i \in 1..Len(roots) |-> Name(roots[i])],
   cells  |-> [i \in 1..Len(cells) |-> Name(cells[i])],
   bodies |-> {<<Name(w), Contents(w)>> : w \in Reachable}]

-----------------------------------------------------------------------------
(***************************************************************************)
(* Well-formed heaps.  What is at an address is an object, told by the tag *)
(* of the words that refer to it, or a block some object owns.             *)
(***************************************************************************)
RAW_BLOCK == 0       \* limbs, or the buffer of a stream
VECTOR_BLOCK == 2
STREAM_STRUCT == 4
ObjectKinds == {TAG_CONS, TAG_SYMBOL, TAG_STRING, TAG_INSTANCE}

Values(kind, words) ==
  CASE kind = TAG_CONS      -> 1..2
    [] kind = TAG_SYMBOL    -> 1..4
    [] kind = TAG_INSTANCE  -> InstanceValues(words[1])
    [] kind = VECTOR_BLOCK  -> (2 + words[1])..Len(words)
    [] kind = STREAM_STRUCT -> {4, 5, 6}
    [] OTHER                -> {}

\* <<i, k>>: word i points to a block of kind k.
Pointers(kind, words) ==
  CASE kind = TAG_INSTANCE /\ words[1] = MAGIC_VECTOR /\ words[2] # 0 -> {<<2, VECTOR_BLOCK>>}
    [] kind = TAG_INSTANCE /\ words[1] = MAGIC_BIGNUM /\ words[3] # 0 -> {<<4, RAW_BLOCK>>}
    [] kind = TAG_INSTANCE /\ words[1] = MAGIC_STREAM -> {<<2, STREAM_STRUCT>>}
    [] kind = STREAM_STRUCT /\ words[1] # 0 -> {<<2, RAW_BLOCK>>}
    [] OTHER -> {}

\* Lengths and headers.  The length of a string is below every address of the
\* heap, which is what tells it from a forwarding header (gc_copy_value).
Layout(kind, words) ==
  /\ words \in Seq(Int)
  /\ kind = TAG_CONS => Len(words) = 2
  /\ kind = TAG_SYMBOL => Len(words) = 4
  /\ kind = TAG_STRING => Len(words) > 0 /\ words[1] \in 0..(Base - 1)
  /\ kind = TAG_INSTANCE =>
       /\ Len(words) = 4 /\ Tag(words[1]) # TAG_FORWARD
       /\ words[1] = MAGIC_BIGNUM => words[3] \in Nat
  /\ kind = VECTOR_BLOCK =>
       /\ Len(words) > 0 /\ words[1] \in Nat /\ VectorTotal(words) \in Nat
       /\ Len(words) = 1 + words[1] + VectorTotal(words)
  /\ kind = STREAM_STRUCT =>
       Len(words) = 6 /\ (words[1] # 0 => words[3] \in Nat \ {0})

\* v is a Lisp value: a reference has the tag of what it refers to.
IsValue(v, kinds) ==
  v \in Int /\ (IsRef(v) => /\ Tag(v) \in ObjectKinds /\ Addr(v) \in DOMAIN kinds
                            /\ kinds[Addr(v)] = Tag(v))

WellPlaced(words, a, kinds) ==
  /\ Layout(kinds[a], words)
  /\ \A i \in Values(kinds[a], words) : IsValue(words[i], kinds)
  /\ \A p \in Pointers(kinds[a], words) :
       words[p[1]] \in DOMAIN kinds /\ kinds[words[p[1]]] = p[2]

WellFormed(h) ==
  /\ DOMAIN h.mem = DOMAIN h.kind
  /\ \A a \in DOMAIN h.kind :
       /\ a \in Base..(Base + Half - 1) /\ a % 16 = 0
       /\ h.kind[a] \in ObjectKinds \cup {RAW_BLOCK, VECTOR_BLOCK, STREAM_STRUCT}
       /\ WellPlaced(h.mem[a], a, h.kind)
  /\ \A a, b \in DOMAIN h.kind :
       \A p \in Pointers(h.kind[a], h.mem[a]), q \in Pointers(h.kind[b], h.mem[b]) :
         h.mem[a][p[1]] = h.mem[b][q[1]] => a = b
  /\ h.roots \in Seq(Int) /\ h.cells \in Seq(Int)
  /\ \A v \in Range(h.roots) \cup Range(h.cells) : IsValue(v, h.kind)

ASSUME HeapsAssumption == \A h \in InitialHeaps : WellFormed(h)

-----------------------------------------------------------------------------
Init ==
  /\ \E h \in InitialHeaps : mem = h.mem /\ roots = h.roots /\ cells = h.cells
  /\ from_start = Base /\ to_start = Base + Half /\ to_ptr = Base + Half
  /\ queue = <<>> /\ fields = <<>> /\ phase = "idle" /\ next = 1 /\ halted = FALSE
  /\ collections = 0
  /\ origin = [a \in DOMAIN mem |-> a]
  /\ before = Graph
  /\ black = {}

\* os_gc_collect_body: reset the To pointer and the queue.
Begin ==
  /\ phase = "idle" /\ collections < MaxCollections
  /\ collections' = collections + 1
  /\ to_ptr' = to_start /\ queue' = <<>> /\ black' = {}
  /\ phase' = "roots" /\ next' = 1
  /\ UNCHANGED <<mem, roots, cells, from_start, to_start, fields, halted, origin, before>>

\* One root slot: global_environment, g_dynamic_bindings, the symbol table,
\* the g_sym_* globals, the registered roots, the shadow stacks.
CopyRoot ==
  /\ phase = "roots" /\ ~halted /\ next <= Len(roots)
  /\ IF CopyFails(roots[next]) THEN Halts
     ELSE /\ Copy(roots[next])
          /\ mem' = MemAfter(roots[next])
          /\ roots' = [roots EXCEPT ![next] = gc_copy_value(@)]
          /\ next' = next + 1
          /\ UNCHANGED <<cells, from_start, to_start, fields, phase, collections, before, black>>

RootsDone ==
  /\ phase = "roots" /\ ~halted /\ next > Len(roots)
  /\ phase' = "scan" /\ next' = 1
  /\ UNCHANGED <<mem, roots, cells, from_start, to_start, to_ptr, queue, fields, halted,
                 collections, origin, before, black>>

\* gc_scan_queue pops the next grey object.
Popping(w) ==
  /\ phase \in {"scan", "rescan"} /\ ~halted
  /\ fields = <<>> /\ queue # <<>>
  /\ w = Head(queue)

\* Mutant: gc_queue_pop does not advance the head.
PoppedNotAdvanced(w) ==
  /\ UNCHANGED queue /\ black' = black \cup {w}
  /\ UNCHANGED <<roots, cells, from_start, to_start, phase, next, halted, collections, before>>

Popped(w) ==
  /\ queue' = Tail(queue) /\ black' = black \cup {w}
  /\ UNCHANGED <<roots, cells, from_start, to_start, phase, next, halted, collections, before>>

\* The words i of the block at a, to be passed to gc_copy_value in turn.
Slots(a, indices) == [k \in 1..Len(indices) |-> <<a, indices[k]>>]

ScanPlain(w) ==
  /\ Popping(w)
  /\ ~IsVector(w) /\ ~IsBignum(w) /\ ~IsStream(w)
  /\ fields' = Slots(Addr(w), ScannedWords(w))
  /\ Popped(w)
  /\ UNCHANGED <<mem, to_ptr, origin>>

\* The block at src is copied to the end of the To space, which it advances by
\* bytes, and word i of the object at a is pointed to the copy.
Relocate(a, i, src, bytes) ==
  /\ mem' = Put([mem EXCEPT ![a][i] = to_ptr], to_ptr, mem[src])
  /\ origin' = Put(origin, to_ptr, origin[src])
  /\ to_ptr' = to_ptr + bytes

gc_relocate_bignum(w) ==
  LET bytes == os_heap_align_up(8 * mem[Addr(w)][3])
  IN  /\ Popping(w) /\ IsBignum(w)
      /\ IF ~gc_to_alloc_fits(bytes) THEN Halts
         ELSE /\ Relocate(Addr(w), 4, mem[Addr(w)][4], bytes)
              /\ fields' = <<>>
              /\ Popped(w)

\* words[1] is set after the elements are copied; nothing reads it in between.
gc_relocate_vector_block(w) ==
  LET block == mem[mem[Addr(w)][2]]
      bytes == os_heap_align_up(VectorBytes(block))
  IN  /\ Popping(w) /\ IsVector(w)
      /\ IF ~gc_to_alloc_fits(bytes) THEN Halts
         ELSE /\ Relocate(Addr(w), 2, mem[Addr(w)][2], bytes)
              /\ fields' = Slots(to_ptr, VectorData(block))
              /\ Popped(w)

\* The struct, then the string buffer if the kind has one.
gc_relocate_stream(w) ==
  LET old    == mem[Addr(w)][2]
      struct == mem[old]
      dst    == to_ptr
      buf    == to_ptr + os_heap_align_up(StreamStructBytes)
      bytes  == os_heap_align_up(StreamStructBytes)
                  + (IF struct[1] = 0 THEN 0 ELSE os_heap_align_up(struct[3]))
      moved  == Put([mem EXCEPT ![Addr(w)][2] = dst], dst, struct)
      named  == Put(origin, dst, origin[old])
  IN  /\ Popping(w) /\ IsStream(w)
      /\ IF ~gc_to_alloc_fits(bytes) THEN Halts
         ELSE /\ to_ptr' = to_ptr + bytes
              /\ mem' = IF struct[1] = 0 THEN moved
                        ELSE [Put(moved, buf, mem[struct[2]]) EXCEPT ![dst][2] = buf]
              /\ origin' = IF struct[1] = 0 THEN named ELSE Put(named, buf, origin[struct[2]])
              /\ fields' = Slots(dst, StreamRefs)
              /\ Popped(w)

Scan ==
  \E w \in {queue[i] : i \in 1..Len(queue)} :
    \/ ScanPlain(w)
    \/ gc_relocate_bignum(w)
    \/ gc_relocate_vector_block(w)
    \/ gc_relocate_stream(w)

\* words[i] = gc_copy_value(words[i]) for the object being scanned.
CopyField ==
  LET a == Head(fields)[1]
      i == Head(fields)[2]
  IN  /\ fields # <<>> /\ ~halted
      /\ IF CopyFails(mem[a][i]) THEN Halts
         ELSE /\ Copy(mem[a][i])
              /\ mem' = [MemAfter(mem[a][i]) EXCEPT ![a][i] = gc_copy_value(mem[a][i])]
              /\ fields' = Tail(fields)
              /\ UNCHANGED <<roots, cells, from_start, to_start, phase, next, collections,
                             before, black>>

ScanDone == fields = <<>> /\ queue = <<>>

\* Mutant: the new address is not written back to the cell.
FixupCellNotStored ==
  /\ (phase = "scan" /\ ScanDone) \/ phase = "cells"
  /\ ~halted /\ next <= Len(cells)
  /\ Copy(cells[next])
  /\ mem' = MemAfter(cells[next])
  /\ next' = next + 1 /\ phase' = "cells"
  /\ UNCHANGED <<cells, roots, from_start, to_start, fields, collections, before, black>>

\* gc_fixup_all_function_cells: cell[0] of every Function Cell.
FixupCell ==
  /\ (phase = "scan" /\ ScanDone) \/ phase = "cells"
  /\ ~halted /\ next <= Len(cells)
  /\ IF CopyFails(cells[next]) THEN Halts
     ELSE /\ Copy(cells[next])
          /\ mem' = MemAfter(cells[next])
          /\ cells' = [cells EXCEPT ![next] = gc_copy_value(@)]
          /\ next' = next + 1 /\ phase' = "cells"
          /\ UNCHANGED <<roots, from_start, to_start, fields, collections, before, black>>

CellsDone ==
  /\ (phase = "scan" /\ ScanDone) \/ phase = "cells"
  /\ ~halted /\ next > Len(cells)
  /\ phase' = "rescan"
  /\ UNCHANGED <<mem, roots, cells, from_start, to_start, to_ptr, queue, fields, next, halted,
                 collections, origin, before, black>>

\* The flip.  The old From space is dead: its objects are dropped.
Flip ==
  /\ phase = "rescan" /\ ~halted /\ ScanDone
  /\ from_start' = to_start /\ to_start' = from_start /\ to_ptr' = from_start
  /\ mem' = [a \in {x \in DOMAIN mem : InTo(x)} |-> mem[a]]
  /\ origin' = [a \in {x \in DOMAIN mem : InTo(x)} |-> origin[a]]
  /\ phase' = "idle" /\ black' = {}
  /\ UNCHANGED <<roots, cells, queue, fields, next, halted, collections, before>>

Next == Begin \/ CopyRoot \/ RootsDone \/ Scan \/ CopyField \/ FixupCell \/ CellsDone \/ Flip

Spec == Init /\ [][Next]_vars /\ WF_vars(Next)

-----------------------------------------------------------------------------
\* Type invariant: queue entries and slots are words, the phase is one of the
\* stages of os_gc_collect_body.
TypeOK ==
  /\ phase \in {"idle", "roots", "scan", "cells", "rescan"}
  /\ {from_start, to_start} = {Base, Base + Half}
  /\ to_start <= to_ptr /\ to_ptr <= to_start + Half
  /\ Len(queue) <= GC_QUEUE_CAPACITY
  /\ DOMAIN origin = DOMAIN mem

\* A finished collection has changed nothing a program can see: the graph
\* reachable from roots and cells is the one the collection started from,
\* object for object and word for word (os_gc_collect_body as a whole).
GraphPreserved == phase = "idle" => Graph = before

\* No object is copied twice: the To space holds one copy per object and per
\* block (forwarding test of gc_copy_value; "the same object would be copied
\* twice and the header of the first copy taken for data").
CopiedOnce ==
  \A a, b \in {x \in DOMAIN mem : InTo(x)} : a # b => origin[a] # origin[b]

\* A scanned copy refers only to the To space: once the queue is empty
\* nothing live is left behind in the old half (gc_scan_queue, the per-kind
\* rules of gc_scan_instance).
BlackPointsToTo ==
  fields = <<>> => \A w \in black : \A v \in Children(w) : InTo(Addr(v))

\* Every collection that begins ends with a flip: each object enters the
\* queue once, so gc_scan_queue runs dry, and neither a full queue
\* (gc_queue_push) nor a full To space (gc_to_alloc) stops the machine.
CollectionEnds == [](phase = "roots" => <>(phase = "idle"))

=============================================================================
