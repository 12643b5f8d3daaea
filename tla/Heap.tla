-------------------------------- MODULE Heap --------------------------------
(***************************************************************************)
(* The Lisp heap of the kernel: two equal half-spaces, a bump allocator,   *)
(* and the protocol that turns heap exhaustion into a <storage-exhausted>  *)
(* condition instead of a hang (src/c/runtime.c, documents/                *)
(* heap-exhaustion.md).                                                    *)
(*                                                                         *)
(* The From space has two limits below its true end: the "soft end", past  *)
(* which the allocator collects and, if that does not help, raises the     *)
(* mark g_heap_exhausted_pending and opens the reserve; and the "floor",   *)
(* past which it panics.  The mark is consumed at the entry of os_eval and *)
(* in the primitives that make large objects; the condition handlers run   *)
(* on the reserve.                                                         *)
(*                                                                         *)
(* The state of the C globals is the record heap.  os_alloc_bytes and      *)
(* os_gc_collect run with interrupts off and are one step each.  The       *)
(* signal path runs with interrupts on, so it is cut at the points where   *)
(* the timer can switch to another process between a read and a write of   *)
(* the globals: the test of g_in_heap_signal, and the load and the store   *)
(* of heap_apply_soft_end.  What the collector does to single objects is   *)
(* the subject of module CopyingGC: here a collection keeps any amount of  *)
(* the data, in whole allocation units.                                    *)
(***************************************************************************)
EXTENDS Integers, FiniteSets, SequencesExt

CONSTANTS
  Procs,               \* processes that run Lisp code
  HeapBase, HeapSize,  \* the arguments of os_heap_init
  WordSize,            \* 2^64: addresses and sizes are computed modulo this
  HEAP_SIGNAL_RESERVE, \* bytes between the normal soft end and the true end
  HEAP_HARD_FLOOR,     \* bytes between the floor and the true end
  SmallSizes,          \* byte sizes requested by os_make_cons and the like
  LargeRequests,       \* [header, dims]: create-vector and create-array have a
                       \* header object and dimensions, create-string a length
  MaxSignalDepth       \* bound: nested activations of the signal path

OS_HEAP_ALIGN == 16
INSTANCE_BYTES == 32
MAX_ARRAY_RANK == 8
Overflow == -1          \* vector_block_bytes and create-string give up

(***************************************************************************)
(* The half-space arithmetic.                                              *)
(***************************************************************************)
Wrap(x) == IF x < WordSize THEN x ELSE x - WordSize

os_heap_align_up(n) == 16 * (Wrap(n + (OS_HEAP_ALIGN - 1)) \div 16)

Base   == os_heap_align_up(HeapBase)
Lost   == Base - HeapBase
Usable == IF HeapSize > Lost THEN HeapSize - Lost ELSE 0
Half   == 16 * ((Usable \div 2) \div 16)

ASSUME HeapAssumption ==
  /\ HeapBase \in Nat /\ HeapSize \in Nat /\ WordSize \in Nat
  /\ HeapBase + 16 + 2 * HeapSize < WordSize
  /\ HEAP_SIGNAL_RESERVE \in Nat /\ HEAP_SIGNAL_RESERVE % 16 = 0
  /\ HEAP_HARD_FLOOR \in Nat /\ HEAP_HARD_FLOOR % 16 = 0
  /\ 2 * HEAP_HARD_FLOOR <= HEAP_SIGNAL_RESERVE
  /\ SmallSizes \subseteq 1..64
  /\ HeapBase + 16 + HeapSize + 80 < WordSize
  /\ MaxSignalDepth \in Nat \ {0}

ASSUME RequestAssumption ==
  \A r \in LargeRequests :
    /\ r = [header |-> r.header, dims |-> r.dims]
    /\ r.header \in BOOLEAN
    /\ r.dims \in Seq(0..(WordSize - 1)) /\ Len(r.dims) <= MAX_ARRAY_RANK
    /\ ~r.header => Len(r.dims) = 1

VARIABLES
  heap,       \* the C globals: half-spaces, limits and the two flags
  panicked,   \* os_panic was called: the machine has stopped
  pc,         \* where each process is between two preemption points
  sig,        \* activations of os_heap_signal_exhausted running handlers
  tmp,        \* soft end loaded by heap_apply_soft_end and not yet stored
  req,        \* the large request a process has been cleared for
  outcome     \* what the last exhaustion gave the process

vars == <<heap, panicked, pc, sig, tmp, req, outcome>>

(***************************************************************************)
(* heap_apply_soft_end, heap_update_soft_end, heap_open_reserve, the flip  *)
(* at the end of os_gc_collect_body.                                       *)
(***************************************************************************)
\* Mutant: the reserve is always open.
SoftEndAlwaysFloor(h) == h.floor_end

SoftEndFor(h) ==
  IF h.pending \/ h.in_signal THEN h.floor_end ELSE h.soft_end_normal

heap_apply_soft_end(h) == [h EXCEPT !.soft_end = SoftEndFor(h)]

ReserveEnabled(h) ==
  /\ HEAP_SIGNAL_RESERVE > 0
  /\ (h.from_end - h.from_start) \div 8 >= HEAP_SIGNAL_RESERVE

heap_update_soft_end(h) ==
  heap_apply_soft_end(
    [h EXCEPT
       !.soft_end_normal = h.from_end - (IF ReserveEnabled(h) THEN HEAP_SIGNAL_RESERVE ELSE 0),
       !.floor_end       = h.from_end - (IF ReserveEnabled(h) THEN HEAP_HARD_FLOOR ELSE 0)])

\* Mutant: the mark is raised but the soft end is not moved.
HeapOpenReserveNotApplied(h) == [h EXCEPT !.pending = TRUE]

heap_open_reserve(h) == heap_apply_soft_end([h EXCEPT !.pending = TRUE])

\* The amounts of data a collection may keep: whole units, no more than is used.
Survivors(h) == {16 * k : k \in 0..((h.from_ptr - h.from_start) \div 16)}

\* Mutant: the flip does not recompute the soft end and the floor.
OsGcCollectStaleEnds(h, live) ==
  [h EXCEPT !.from_start = h.to_start, !.from_end = h.to_end,
            !.from_ptr = h.to_start + live,
            !.to_start = h.from_start, !.to_end = h.from_end]

os_gc_collect(h, live) ==
  heap_update_soft_end(
    [h EXCEPT !.from_start = h.to_start,
              !.from_end   = h.to_end,
              !.from_ptr   = h.to_start + live,
              !.to_start   = h.from_start,
              !.to_end     = h.from_end])

\* Mutant: an uneven split, the larger part first.
OsHeapInitUneven ==
  heap_update_soft_end(
    [from_start |-> Base,             from_ptr |-> Base, from_end |-> Base + Half + 16,
     to_start   |-> Base + Half + 16, to_end   |-> Base + Half + Half,
     soft_end   |-> 0, soft_end_normal |-> 0, floor_end |-> 0,
     pending    |-> FALSE, in_signal |-> FALSE])

os_heap_init ==
  heap_update_soft_end(
    [from_start |-> Base,        from_ptr |-> Base, from_end |-> Base + Half,
     to_start   |-> Base + Half, to_end   |-> Base + Half + Half,
     soft_end   |-> 0, soft_end_normal |-> 0, floor_end |-> 0,
     pending    |-> FALSE, in_signal |-> FALSE])

(***************************************************************************)
(* os_alloc_bytes: the common path, and the slow path that collects, opens *)
(* the reserve and finally panics.                                         *)
(***************************************************************************)
Exceeds(h, aligned) == Wrap(h.from_ptr + aligned) > h.soft_end

Bump(h, aligned) == [h EXCEPT !.from_ptr = Wrap(@ + aligned)]

os_alloc_bytes_slow(h, aligned, live) ==
  LET collected == os_gc_collect(h, live)
  IN  IF Exceeds(collected, aligned) THEN heap_open_reserve(collected) ELSE collected

os_alloc_bytes(n) ==
  LET aligned == os_heap_align_up(n)
  IN  \/ /\ ~Exceeds(heap, aligned)
         /\ heap' = Bump(heap, aligned)
         /\ UNCHANGED panicked
      \/ /\ Exceeds(heap, aligned)
         /\ \E live \in Survivors(heap) :
              LET h == os_alloc_bytes_slow(heap, aligned, live)
              IN  /\ heap' = IF Exceeds(h, aligned) THEN h ELSE Bump(h, aligned)
                  /\ panicked' = Exceeds(h, aligned)

(***************************************************************************)
(* heap_request_fits: measured against the normal soft end, by a           *)
(* difference so that a huge request cannot wrap.                          *)
(***************************************************************************)
\* Mutant: the sum of pointer and request is compared, and can wrap.
HeapRequestFitsBySum(h, bytes) ==
  /\ bytes <= WordSize - 1 - (OS_HEAP_ALIGN - 1)
  /\ h.from_ptr < h.soft_end_normal
  /\ Wrap(h.from_ptr + os_heap_align_up(bytes)) <= h.soft_end_normal

\* Mutant: the room is measured up to the floor.
HeapRequestFitsFloor(h, bytes) ==
  /\ bytes <= WordSize - 1 - (OS_HEAP_ALIGN - 1)
  /\ h.from_ptr < h.floor_end
  /\ os_heap_align_up(bytes) <= h.floor_end - h.from_ptr

heap_request_fits(h, bytes) ==
  /\ bytes <= WordSize - 1 - (OS_HEAP_ALIGN - 1)
  /\ h.from_ptr < h.soft_end_normal
  /\ os_heap_align_up(bytes) <= h.soft_end_normal - h.from_ptr

(***************************************************************************)
(* The size of a large request.  Every multiplication and addition is      *)
(* checked where it is made, so a product that overflows is not brought    *)
(* back into range by a later factor, were it zero.                        *)
(***************************************************************************)
Checked(n) == IF n \in 0..(WordSize - 1) THEN n ELSE Overflow

CheckedPlus(x, y)  == IF x = Overflow THEN Overflow ELSE Checked(x + y)
CheckedTimes(x, y) == IF x = Overflow THEN Overflow ELSE Checked(x * y)

\* Mutant: the product of the dimensions is not checked and wraps.
VectorBlockBytesUnchecked(dims) ==
  CheckedTimes(CheckedPlus(FoldLeft(LAMBDA t, d : (t * d) % WordSize, 1, dims),
                           1 + Len(dims)), 8)

\* The rank, the dimensions and one word for each element.
vector_block_bytes(dims) ==
  CheckedTimes(CheckedPlus(FoldLeft(CheckedTimes, 1, dims), 1 + Len(dims)), 8)

\* create-string adds the word that holds the length.
RequestBytes(r) ==
  IF r.header THEN vector_block_bytes(r.dims) ELSE CheckedPlus(r.dims[1], 8)

NoRequest == [header |-> FALSE, dims |-> <<>>]

-----------------------------------------------------------------------------
Init ==
  /\ heap = os_heap_init
  /\ panicked = FALSE
  /\ pc = [p \in Procs |-> "run"]
  /\ sig = [p \in Procs |-> 0]
  /\ tmp = [p \in Procs |-> 0]
  /\ req = [p \in Procs |-> NoRequest]
  /\ outcome = [p \in Procs |-> "none"]

At(p, l) == ~panicked /\ pc[p] = l

Goto(p, l) == pc' = [pc EXCEPT ![p] = l]

\* os_make_cons, os_make_instance, ... anywhere in evaluation, handlers included.
AllocSmall(p) ==
  /\ At(p, "run")
  /\ \E n \in SmallSizes : os_alloc_bytes(n)
  /\ UNCHANGED <<pc, sig, tmp, req, outcome>>

\* os_repl_step: the collection at the safe point above GC_TRIGGER_HEAP_RATIO (0.8).
ReplCollect(p) ==
  /\ At(p, "run") /\ sig[p] = 0
  /\ 10 * (heap.from_ptr - heap.from_start) > 8 * (heap.from_end - heap.from_start)
  /\ \E live \in Survivors(heap) : heap' = os_gc_collect(heap, live)
  /\ UNCHANGED <<panicked, pc, sig, tmp, req, outcome>>

\* The test at the top of os_heap_signal_exhausted.  A nested call gives the
\* evaluator EVAL-ERROR; otherwise the process goes on to set the flag.
SignalTest(p) ==
  IF heap.in_signal
  THEN /\ outcome' = [outcome EXCEPT ![p] = "eval_error"]
       /\ UNCHANGED pc
  ELSE /\ sig[p] < MaxSignalDepth
       /\ Goto(p, "enter")
       /\ UNCHANGED outcome

\* os_eval's entry, when the mark is up.
EvalEntry(p) ==
  /\ At(p, "run")
  /\ heap.pending
  /\ SignalTest(p)
  /\ UNCHANGED <<heap, panicked, sig, tmp, req>>

\* create-vector, create-array, create-string up to the decision to allocate:
\* heap_signal_if_pending, then heap_signal_if_too_large, which may collect once.
LargePrimitive(p, r) ==
  /\ At(p, "run")
  /\ \/ /\ heap.pending \/ RequestBytes(r) = Overflow
        /\ SignalTest(p)
        /\ UNCHANGED <<heap, req>>
     \/ /\ ~heap.pending /\ RequestBytes(r) # Overflow
        /\ heap_request_fits(heap, RequestBytes(r))
        /\ Goto(p, IF r.header THEN "header" ELSE "block")
        /\ req' = [req EXCEPT ![p] = r]
        /\ UNCHANGED <<heap, outcome>>
     \/ /\ ~heap.pending /\ RequestBytes(r) # Overflow
        /\ ~heap_request_fits(heap, RequestBytes(r))
        /\ RequestBytes(r) <= heap.soft_end_normal - heap.from_start
        /\ \E live \in Survivors(heap) :
             LET h == os_gc_collect(heap, live)
             IN  /\ heap' = h
                 /\ IF heap_request_fits(h, RequestBytes(r))
                    THEN /\ Goto(p, IF r.header THEN "header" ELSE "block")
                         /\ req' = [req EXCEPT ![p] = r]
                         /\ UNCHANGED outcome
                    ELSE SignalTest(p) /\ UNCHANGED req
     \/ /\ ~heap.pending /\ RequestBytes(r) # Overflow
        /\ ~heap_request_fits(heap, RequestBytes(r))
        /\ RequestBytes(r) > heap.soft_end_normal - heap.from_start
        /\ SignalTest(p)
        /\ UNCHANGED <<heap, req>>
  /\ UNCHANGED <<panicked, sig, tmp>>

\* os_make_instance(MAGIC_VECTOR, ...) before the block of an array.
AllocHeader(p) ==
  /\ At(p, "header")
  /\ os_alloc_bytes(INSTANCE_BYTES)
  /\ Goto(p, "block")
  /\ UNCHANGED <<sig, tmp, req, outcome>>

\* alloc_vector_block, which computes the size again, or the string itself.
AllocBlock(p) ==
  /\ At(p, "block")
  /\ os_alloc_bytes(RequestBytes(req[p]))
  /\ Goto(p, "run")
  /\ req' = [req EXCEPT ![p] = NoRequest]
  /\ UNCHANGED <<sig, tmp, outcome>>

\* g_in_heap_signal = 1; g_heap_exhausted_pending = 0; the load of heap_apply_soft_end.
SignalEnter(p) ==
  /\ At(p, "enter")
  /\ LET h == [heap EXCEPT !.in_signal = TRUE, !.pending = FALSE]
     IN  /\ heap' = h
         /\ tmp' = [tmp EXCEPT ![p] = SoftEndFor(h)]
  /\ Goto(p, "apply_in")
  /\ UNCHANGED <<panicked, sig, req, outcome>>

\* The handlers have returned: g_in_heap_signal = 0; the load of heap_apply_soft_end.
SignalLeave(p) ==
  /\ At(p, "run") /\ sig[p] > 0
  /\ LET h == [heap EXCEPT !.in_signal = FALSE]
     IN  /\ heap' = h
         /\ tmp' = [tmp EXCEPT ![p] = SoftEndFor(h)]
  /\ Goto(p, "apply_out")
  /\ UNCHANGED <<panicked, sig, req, outcome>>

\* The store of heap_apply_soft_end, at the entry and at the exit of the signal path.
ApplySoftEnd(p) ==
  /\ At(p, "apply_in") \/ At(p, "apply_out")
  /\ heap' = [heap EXCEPT !.soft_end = tmp[p]]
  /\ tmp' = [tmp EXCEPT ![p] = 0]
  /\ sig' = [sig EXCEPT ![p] = IF pc[p] = "apply_in" THEN @ + 1 ELSE @ - 1]
  /\ outcome' = [outcome EXCEPT ![p] = IF pc[p] = "apply_in" THEN @ ELSE "condition"]
  /\ Goto(p, "run")
  /\ UNCHANGED <<panicked, req>>

\* Two processes can be in the signal path at once when the test of
\* g_in_heap_signal is preempted; each returns through SignalLeave.
Next ==
  \E p \in Procs :
    \/ AllocSmall(p)
    \/ ReplCollect(p)
    \/ EvalEntry(p)
    \/ \E r \in LargeRequests : LargePrimitive(p, r)
    \/ AllocHeader(p)
    \/ AllocBlock(p)
    \/ SignalEnter(p)
    \/ SignalLeave(p)
    \/ ApplySoftEnd(p)

Spec == Init /\ [][Next]_vars

-----------------------------------------------------------------------------
\* The addresses of the two half-spaces, their ends included.
Addresses == Base..(Base + Half + Half)

HeapFields ==
  [from_start : Addresses, from_ptr : Addresses, from_end : Addresses,
   to_start : Addresses, to_end : Addresses,
   soft_end : Addresses, soft_end_normal : Addresses, floor_end : Addresses,
   pending : BOOLEAN, in_signal : BOOLEAN]

CtlType ==
  /\ panicked \in BOOLEAN
  /\ pc \in [Procs -> {"run", "header", "block", "enter", "apply_in", "apply_out"}]
  /\ sig \in [Procs -> 0..MaxSignalDepth]
  /\ tmp \in [Procs -> Addresses \cup {0}]
  /\ req \in [Procs -> LargeRequests \cup {NoRequest}]
  /\ outcome \in [Procs -> {"none", "eval_error", "condition"}]

\* Type invariant: every pointer and limit, loaded ones included, is an address
\* of the heap that os_heap_init laid out, whatever sizes are requested
\* (heap_request_fits compares a difference because a sum could wrap).
TypeOK == heap \in HeapFields /\ CtlType

\* The allocation pointer stays inside the current From space and never
\* passes the floor: os_alloc_bytes either returns memory of the From half
\* or panics (runtime.c os_alloc_bytes, os_alloc_bytes_slow).
AllocationStaysBelowFloor ==
  /\ heap.from_start <= heap.from_ptr
  /\ heap.from_ptr <= heap.floor_end
  /\ heap.floor_end <= heap.from_end

\* Everything in the From space fits in the To space, so a copying collection
\* cannot run out of room, whatever it keeps (os_heap_init's comment on equal
\* half-spaces), and every object starts on an OS_HEAP_ALIGN boundary.
SurvivorsFit ==
  /\ heap.from_ptr - heap.from_start <= heap.to_end - heap.to_start
  /\ heap.from_ptr % 16 = 0 /\ heap.to_start % 16 = 0

\* Outside heap_apply_soft_end, the allocator compares with the limit that
\* the two flags call for, in the half-space in use.
SoftEndFollowsFlags ==
  (\A p \in Procs : pc[p] \notin {"apply_in", "apply_out"})
     => heap.soft_end = SoftEndFor(heap)

\* Any number of processes: the limit stops following the flags in one way
\* only, when the store of heap_apply_soft_end writes a limit that other
\* processes have changed since it was loaded.
SoftEndLostOnlyByLateStore ==
  [][SoftEndFollowsFlags /\ ~SoftEndFollowsFlags'
     => \E p \in Procs : /\ pc[p] \in {"apply_in", "apply_out"}
                         /\ tmp[p] # SoftEndFor(heap)
                         /\ heap'.soft_end = tmp[p]]_vars

\* EVAL-ERROR in place of the condition is given only to code that runs
\* inside a handler of an earlier exhaustion: "do not nest"
\* (os_heap_signal_exhausted).
EvalErrorOnlyNested ==
  \A p \in Procs : outcome[p] = "eval_error" => sig[p] > 0

\* An allocation that eats into the reserve leaves the mark up or happens while
\* the condition is being signalled; nothing takes the reserve silently.
ReserveIsAnnounced ==
  [][heap'.from_start = heap.from_start /\ heap'.from_ptr > heap.from_ptr
       /\ heap'.from_ptr > heap'.soft_end_normal
     => heap'.pending \/ heap'.in_signal]_vars

\* The elements that create-vector, create-array and create-string write
\* (counted exactly) fit into the block they were cleared for: no overflow of the
\* size computation makes a block too small
\* (comment of vector_block_bytes: "a small block is allocated and the elements
\* are written past it").
Elements(dims) == FoldLeft(LAMBDA t, d : t * d, 1, dims)

NeededBytes(r) ==
  IF r.header THEN 8 * (1 + Len(r.dims) + Elements(r.dims)) ELSE 8 + r.dims[1]

ElementsFit ==
  \A p \in Procs : pc[p] \in {"header", "block"} =>
    NeededBytes(req[p]) <= RequestBytes(req[p])

\* A request that was cleared is served: the header object allocated between
\* the check and the block, and the collections on the way, do not lead to
\* os_panic, provided the part of the reserve above the floor holds a header
\* (the check leaves out the header; see LargeRequestsSpareReserve).
PanicForCleared ==
  /\ ReserveEnabled(heap)
  /\ HEAP_SIGNAL_RESERVE - HEAP_HARD_FLOOR >= INSTANCE_BYTES
  /\ \E p \in Procs : pc[p] \in {"header", "block"} /\ pc'[p] # pc[p]
  /\ panicked'

ClearedRequestsNeverPanic == [][~PanicForCleared]_vars

\* "The reserve is there to signal with; large allocations are not fed from
\* it" (comment of heap_request_fits).
LargeRequestsSpareReserve ==
  [][\A p \in Procs : pc[p] = "block" /\ pc'[p] = "run" /\ ~heap.pending /\ ~heap.in_signal
       => heap'.from_ptr <= heap'.soft_end_normal]_vars
=============================================================================
