----------------------------- MODULE HeapProofs -----------------------------
(***************************************************************************)
(* Proofs about module Heap for every heap base and size, every reserve    *)
(* and floor, and every set of requests.  The theorems with Procs = {p}    *)
(* are about one process running Lisp (the boot phase, the batch and       *)
(* unit-test builds, and every stretch of execution without a switch):     *)
(* with several the invariant does not hold, because the store of          *)
(* heap_apply_soft_end can come late.  LimitLostByLateStore, for any       *)
(* number of processes, says that nothing else breaks it.                  *)
(***************************************************************************)
EXTENDS Heap, TLAPS

(***************************************************************************)
(* The inductive invariant, in named parts.                                *)
(***************************************************************************)
ReserveInUse == HEAP_SIGNAL_RESERVE > 0 /\ Half \div 8 >= HEAP_SIGNAL_RESERVE

\* The fields are integers; that they are addresses of the heap follows from the
\* parts below.
IntFields ==
  [from_start : Int, from_ptr : Int, from_end : Int, to_start : Int, to_end : Int,
   soft_end : Int, soft_end_normal : Int, floor_end : Int,
   pending : BOOLEAN, in_signal : BOOLEAN]

\* The two half-spaces are [Base, Base + Half) and [Base + Half, Base + 2*Half).
Halves(h) ==
  /\ \/ h.from_start = Base /\ h.to_start = Base + Half
     \/ h.from_start = Base + Half /\ h.to_start = Base
  /\ h.from_end = h.from_start + Half
  /\ h.to_end = h.to_start + Half

Limits(h) ==
  /\ h.soft_end_normal = h.from_end - (IF ReserveInUse THEN HEAP_SIGNAL_RESERVE ELSE 0)
  /\ h.floor_end = h.from_end - (IF ReserveInUse THEN HEAP_HARD_FLOOR ELSE 0)

Pointer(h) ==
  /\ h.from_start <= h.from_ptr /\ h.from_ptr <= h.floor_end
  /\ h.from_ptr % 16 = 0

HeapInv(h) == h \in IntFields /\ Halves(h) /\ Limits(h) /\ Pointer(h)

\* The part of the reserve above the floor holds a header object.
HeaderInReserve == ReserveInUse /\ HEAP_SIGNAL_RESERVE - HEAP_HARD_FLOOR >= INSTANCE_BYTES

\* A size that heap_request_fits let through.
Cleared(n) == n \in Nat /\ n + 16 <= WordSize /\ os_heap_align_up(n) <= Half

\* The bytes left below the floor.
Left(h) == h.floor_end - h.from_ptr

\* There is room for d bytes and then a block of n.
Room(h, d, n) == d + os_heap_align_up(n) <= Left(h)

\* Where the process is, the flag of the signal path and the soft end agree.
ProcInv(p) ==
  /\ pc[p] \in {"run", "header", "block"} =>
       /\ heap.soft_end = SoftEndFor(heap)
       /\ sig[p] \in {0, 1} /\ (heap.in_signal <=> sig[p] = 1)
  /\ pc[p] = "enter" =>
       /\ heap.soft_end = SoftEndFor(heap)
       /\ sig[p] = 0 /\ ~heap.in_signal
  /\ pc[p] = "apply_in" =>
       /\ tmp[p] = SoftEndFor(heap)
       /\ heap.soft_end \in {heap.soft_end_normal, heap.floor_end}
       /\ sig[p] = 0 /\ heap.in_signal
  /\ pc[p] = "apply_out" =>
       /\ tmp[p] = SoftEndFor(heap)
       /\ heap.soft_end \in {heap.soft_end_normal, heap.floor_end}
       /\ sig[p] = 1 /\ ~heap.in_signal
  /\ pc[p] \in {"header", "block"} => Cleared(RequestBytes(req[p]))
  /\ HeaderInReserve /\ pc[p] = "header" => Room(heap, INSTANCE_BYTES, RequestBytes(req[p]))
  /\ HeaderInReserve /\ pc[p] = "block" => Room(heap, 0, RequestBytes(req[p]))
  /\ outcome[p] = "eval_error" => sig[p] = 1

IInv == HeapInv(heap) /\ CtlType /\ \A p \in Procs : ProcInv(p)

-----------------------------------------------------------------------------
\* Rounding up to OS_HEAP_ALIGN does not wrap for sizes heap_request_fits lets
\* through, and gives a multiple of 16 in n .. n+15.
LEMMA AlignUp ==
  ASSUME NEW n \in Nat, n + 15 < WordSize
  PROVE  /\ os_heap_align_up(n) \in Nat
         /\ n <= os_heap_align_up(n) /\ os_heap_align_up(n) <= n + 15
         /\ os_heap_align_up(n) % 16 = 0
BY HeapAssumption DEF os_heap_align_up, Wrap, OS_HEAP_ALIGN

\* The half-spaces that os_heap_init lays out are aligned, equal and inside
\* the address range, with room to add a whole half without wrapping.
LEMMA Layout ==
  /\ Base \in Nat /\ Base % 16 = 0 /\ Half \in Nat /\ Half % 16 = 0
  /\ (Base + Half) % 16 = 0
  /\ Base + Half + Half + Half < WordSize
  /\ Base + Half + Half + 80 < WordSize
<1>1. HeapBase \in Nat /\ HeapBase + 15 < WordSize
  BY HeapAssumption
<1>2. Base \in Nat /\ Base % 16 = 0 /\ HeapBase <= Base /\ Base <= HeapBase + 15
  BY <1>1, AlignUp DEF Base
<1>3. Usable \in Nat /\ Usable <= HeapSize
  BY <1>2, HeapAssumption DEF Usable, Lost
<1>4. Half \in Nat /\ Half % 16 = 0 /\ 2 * Half <= Usable
  BY <1>3 DEF Half
<1>5. (Base + Half) % 16 = 0
  BY <1>2, <1>4
<1> QED BY <1>2, <1>3, <1>4, <1>5, HeapAssumption

\* A size is a number of one word, or Overflow.
LEMMA SizeType == ASSUME NEW r PROVE RequestBytes(r) \in {Overflow} \cup 0..(WordSize - 1)
<1>1. ASSUME NEW n PROVE Checked(n) \in {Overflow} \cup 0..(WordSize - 1)
  BY DEF Checked
<1>2. ASSUME NEW x, NEW y PROVE CheckedPlus(x, y) \in {Overflow} \cup 0..(WordSize - 1)
  BY <1>1 DEF CheckedPlus
<1>3. ASSUME NEW x, NEW y PROVE CheckedTimes(x, y) \in {Overflow} \cup 0..(WordSize - 1)
  BY <1>1 DEF CheckedTimes
<1>4. vector_block_bytes(r.dims) \in {Overflow} \cup 0..(WordSize - 1)
  <2> DEFINE words == CheckedPlus(FoldLeft(CheckedTimes, 1, r.dims), 1 + Len(r.dims))
  <2> HIDE DEF words
  <2>1. CheckedTimes(words, 8) \in {Overflow} \cup 0..(WordSize - 1)
    BY <1>3
  <2> QED BY <2>1 DEF vector_block_bytes, words
<1> QED BY <1>2, <1>4, Zenon DEF RequestBytes

\* Every pointer and limit of a well-formed heap is an address of the heap.
LEMMA InRange ==
  ASSUME NEW h, HeapInv(h)
  PROVE  /\ h.from_start \in Addresses /\ h.from_ptr \in Addresses /\ h.from_end \in Addresses
         /\ h.to_start \in Addresses /\ h.to_end \in Addresses
         /\ h.soft_end_normal \in Addresses /\ h.floor_end \in Addresses
         /\ SoftEndFor(h) \in Addresses
<1>1. /\ h.from_start \in Int /\ h.from_end \in Int /\ h.to_start \in Int /\ h.to_end \in Int
      /\ h.from_ptr \in Int /\ h.soft_end_normal \in Int /\ h.floor_end \in Int
      /\ Halves(h) /\ Limits(h) /\ Pointer(h)
  BY DEF HeapInv, IntFields
<1>2. /\ h.from_start \in Addresses /\ h.from_end \in Addresses
      /\ h.to_start \in Addresses /\ h.to_end \in Addresses
  BY <1>1, Layout DEF Halves, Addresses
<1>3. ReserveInUse => HEAP_SIGNAL_RESERVE <= Half
  BY Layout, HeapAssumption DEF ReserveInUse
<1>4. /\ h.from_start <= h.soft_end_normal /\ h.soft_end_normal <= h.floor_end
      /\ h.floor_end <= h.from_end
  <2>1. /\ HEAP_SIGNAL_RESERVE \in Nat /\ HEAP_HARD_FLOOR \in Nat /\ Half \in Nat
        /\ HEAP_HARD_FLOOR <= HEAP_SIGNAL_RESERVE
    BY HeapAssumption, Layout
  <2>2. CASE ReserveInUse
    BY <1>1, <1>3, <2>1, <2>2 DEF Halves, Limits
  <2>3. CASE ~ReserveInUse
    BY <1>1, <2>1, <2>3 DEF Halves, Limits
  <2> QED BY <2>2, <2>3
<1>5. h.soft_end_normal \in Addresses /\ h.floor_end \in Addresses /\ h.from_ptr \in Addresses
  BY <1>1, <1>2, <1>4, Layout DEF Addresses, Pointer
<1> QED BY <1>2, <1>5 DEF SoftEndFor

\* heap_update_soft_end computes the limits of the half-space in use, with the
\* floor above the start when the reserve is on.
LEMMA UpdateSoftEnd ==
  ASSUME NEW h \in IntFields, Halves(h)
  PROVE  LET u == heap_update_soft_end(h)
         IN  /\ u \in IntFields /\ Halves(u) /\ Limits(u)
             /\ u.soft_end = SoftEndFor(u)
             /\ u.from_ptr = h.from_ptr /\ u.from_start = h.from_start
             /\ u.pending = h.pending /\ u.in_signal = h.in_signal
             /\ u.from_start <= u.soft_end_normal /\ u.soft_end_normal <= u.floor_end
             /\ u.floor_end <= u.from_end
<1>1. /\ h.from_start \in Int /\ h.from_end \in Int /\ h.to_start \in Int /\ h.to_end \in Int
      /\ h.pending \in BOOLEAN /\ h.in_signal \in BOOLEAN /\ h.from_ptr \in Int
  BY DEF IntFields
<1>2. h.from_end - h.from_start = Half
  BY <1>1, Layout DEF Halves
<1>3. ReserveEnabled(h) <=> ReserveInUse
  BY <1>2 DEF ReserveEnabled, ReserveInUse
<1> DEFINE nrm == h.from_end - (IF ReserveEnabled(h) THEN HEAP_SIGNAL_RESERVE ELSE 0)
           flr == h.from_end - (IF ReserveEnabled(h) THEN HEAP_HARD_FLOOR ELSE 0)
           v   == [h EXCEPT !.soft_end_normal = nrm, !.floor_end = flr]
<1>4. /\ v \in IntFields /\ Halves(v) /\ Limits(v)
      /\ v.from_ptr = h.from_ptr /\ v.from_start = h.from_start
      /\ v.pending = h.pending /\ v.in_signal = h.in_signal /\ v.from_end = h.from_end
  <2>1. /\ nrm \in Int /\ flr \in Int
        /\ nrm = h.from_end - (IF ReserveInUse THEN HEAP_SIGNAL_RESERVE ELSE 0)
        /\ flr = h.from_end - (IF ReserveInUse THEN HEAP_HARD_FLOOR ELSE 0)
    BY <1>1, <1>3, HeapAssumption
  <2> HIDE DEF nrm, flr
  <2>2. /\ v \in IntFields /\ v.soft_end_normal = nrm /\ v.floor_end = flr
        /\ v.from_start = h.from_start /\ v.from_end = h.from_end /\ v.from_ptr = h.from_ptr
        /\ v.to_start = h.to_start /\ v.to_end = h.to_end
        /\ v.pending = h.pending /\ v.in_signal = h.in_signal
    BY <2>1 DEF IntFields
  <2> HIDE DEF v
  <2> QED BY <2>1, <2>2 DEF Halves, Limits
<1>5. /\ v.from_start <= v.soft_end_normal /\ v.soft_end_normal <= v.floor_end
      /\ v.floor_end <= v.from_end
  <2> HIDE DEF v
  <2>1. v.from_end = v.from_start + Half
    BY <1>1, <1>4 DEF Halves
  <2>2. ReserveInUse => HEAP_SIGNAL_RESERVE <= Half
    BY Layout, HeapAssumption DEF ReserveInUse
  <2> QED BY <1>1, <1>4, <2>1, <2>2, HeapAssumption, Layout DEF Limits
<1>6. heap_update_soft_end(h) = [v EXCEPT !.soft_end = SoftEndFor(v)]
  BY DEF heap_update_soft_end, heap_apply_soft_end
<1>7. SoftEndFor(v) \in Int
  BY <1>4 DEF SoftEndFor, IntFields
<1> DEFINE u == [v EXCEPT !.soft_end = SoftEndFor(v)]
<1>8. /\ u \in IntFields /\ u.soft_end = SoftEndFor(v)
      /\ u.from_start = v.from_start /\ u.from_ptr = v.from_ptr /\ u.from_end = v.from_end
      /\ u.to_start = v.to_start /\ u.to_end = v.to_end
      /\ u.soft_end_normal = v.soft_end_normal /\ u.floor_end = v.floor_end
      /\ u.pending = v.pending /\ u.in_signal = v.in_signal
  <2> HIDE DEF v
  <2> QED BY <1>4, <1>7 DEF IntFields
<1>9. SoftEndFor(u) = SoftEndFor(v)
  <2> HIDE DEF v
  <2> HIDE DEF u
  <2> QED BY <1>8 DEF SoftEndFor
<1> HIDE DEF v
<1>10. Halves(u) /\ Limits(u)
  <2> HIDE DEF u
  <2> QED BY <1>4, <1>8 DEF Halves, Limits
<1> HIDE DEF u
<1>11. heap_update_soft_end(h) = u
  BY <1>6 DEF u
<1> QED BY <1>4, <1>5, <1>8, <1>9, <1>10, <1>11

\* A collection, whatever it keeps, leaves a well-formed heap whose soft end
\* follows the flags.
LEMMA Collect ==
  ASSUME NEW h, HeapInv(h), NEW live \in Survivors(h)
  PROVE  LET g == os_gc_collect(h, live)
         IN  /\ HeapInv(g) /\ g.soft_end = SoftEndFor(g)
             /\ g.pending = h.pending /\ g.in_signal = h.in_signal
             /\ Left(g) >= Left(h)
<1>1. /\ h \in IntFields /\ Halves(h) /\ Limits(h) /\ Pointer(h)
      /\ h.from_start \in Int /\ h.from_end \in Int /\ h.to_start \in Int /\ h.to_end \in Int
      /\ h.from_ptr \in Int /\ h.pending \in BOOLEAN /\ h.in_signal \in BOOLEAN
      /\ h.floor_end \in Int
  BY DEF HeapInv, IntFields
<1>2. /\ live \in Nat /\ live % 16 = 0 /\ live <= h.from_ptr - h.from_start
  <2>1. h.from_ptr - h.from_start \in Nat
    BY <1>1 DEF Pointer
  <2> QED BY <2>1 DEF Survivors
<1> DEFINE ptr == h.to_start + live
           f == [h EXCEPT !.from_start = h.to_start,
              !.from_end   = h.to_end,
              !.from_ptr   = ptr,
              !.to_start   = h.from_start,
              !.to_end     = h.from_end]
           g == heap_update_soft_end(f)
<1>3. /\ f \in IntFields /\ f.from_start = h.to_start /\ f.from_end = h.to_end
      /\ f.from_ptr = h.to_start + live /\ f.to_start = h.from_start /\ f.to_end = h.from_end
      /\ f.pending = h.pending /\ f.in_signal = h.in_signal
  <2>1. ptr \in Int
    BY <1>1, <1>2
  <2> HIDE DEF ptr, g
  <2>2. f \in IntFields
    BY <1>1, <2>1 DEF IntFields
  <2>3. /\ f.from_start = h.to_start /\ f.from_end = h.to_end
        /\ f.from_ptr = ptr /\ f.to_start = h.from_start /\ f.to_end = h.from_end
        /\ f.pending = h.pending /\ f.in_signal = h.in_signal
    BY <1>1 DEF IntFields
  <2> QED BY <2>2, <2>3 DEF ptr
<1>4. os_gc_collect(h, live) = g
  BY DEF os_gc_collect
<1> HIDE DEF f
<1>5. Halves(f)
  BY <1>1, <1>3, Layout DEF Halves
<1>6. /\ g \in IntFields /\ Halves(g) /\ Limits(g) /\ g.soft_end = SoftEndFor(g)
      /\ g.from_ptr = f.from_ptr /\ g.from_start = f.from_start
      /\ g.pending = f.pending /\ g.in_signal = f.in_signal
  BY <1>3, <1>5, UpdateSoftEnd
<1> HIDE DEF g
<1>7. g.from_end \in Int /\ g.floor_end \in Int /\ g.from_end = g.from_start + Half
  BY <1>6 DEF IntFields, Halves
<1>8. /\ h.from_ptr - h.from_start <= g.floor_end - g.from_start
      /\ g.floor_end - g.from_start = h.floor_end - h.from_start
  <2> DEFINE off == IF ReserveInUse THEN HEAP_HARD_FLOOR ELSE 0
  <2>1. off \in Int
    BY HeapAssumption
  <2>2. h.floor_end = h.from_end - off /\ g.floor_end = g.from_end - off
    BY <1>1, <1>6 DEF Limits
  <2>3. h.from_end = h.from_start + Half /\ f.from_start \in Int
    BY <1>1, <1>3 DEF Halves
  <2> HIDE DEF off
  <2> QED BY <1>1, <1>6, <1>7, <2>1, <2>2, <2>3, Layout DEF Pointer
<1>9. h.to_start % 16 = 0
  BY <1>1, Layout DEF Halves
<1>10. Pointer(g)
  BY <1>1, <1>2, <1>3, <1>6, <1>7, <1>8, <1>9 DEF Pointer
<1>11. Left(g) >= Left(h)
  BY <1>1, <1>2, <1>3, <1>6, <1>7, <1>8 DEF Left
<1> QED BY <1>3, <1>4, <1>6, <1>10, <1>11 DEF HeapInv

\* Opening the reserve moves only the soft end, to the floor.
LEMMA OpenReserve ==
  ASSUME NEW h, HeapInv(h)
  PROVE  LET g == heap_open_reserve(h)
         IN  /\ HeapInv(g) /\ g.soft_end = SoftEndFor(g) /\ g.soft_end = g.floor_end
             /\ g.pending /\ g.in_signal = h.in_signal /\ g.from_ptr = h.from_ptr
             /\ Left(g) = Left(h)
<1> DEFINE f == [h EXCEPT !.pending = TRUE]
           g == [f EXCEPT !.soft_end = SoftEndFor(f)]
<1>1. /\ f \in IntFields /\ f.pending = TRUE /\ f.in_signal = h.in_signal
      /\ f.from_ptr = h.from_ptr /\ f.from_start = h.from_start /\ f.from_end = h.from_end
      /\ f.to_start = h.to_start /\ f.to_end = h.to_end
      /\ f.soft_end_normal = h.soft_end_normal /\ f.floor_end = h.floor_end
  BY DEF HeapInv, IntFields
<1> HIDE DEF f
<1>2. SoftEndFor(f) = f.floor_end /\ f.floor_end \in Int
  BY <1>1 DEF SoftEndFor, IntFields
<1>3. /\ g \in IntFields /\ g.pending = TRUE /\ g.in_signal = h.in_signal
      /\ g.from_ptr = h.from_ptr /\ g.from_start = h.from_start /\ g.from_end = h.from_end
      /\ g.to_start = h.to_start /\ g.to_end = h.to_end /\ g.soft_end = f.floor_end
      /\ g.soft_end_normal = h.soft_end_normal /\ g.floor_end = h.floor_end
  BY <1>1, <1>2 DEF IntFields
<1>4. heap_open_reserve(h) = g
  BY DEF heap_open_reserve, heap_apply_soft_end, f
<1> HIDE DEF g
<1>5. HeapInv(g)
  BY <1>3 DEF HeapInv, Halves, Limits, Pointer
<1>6. SoftEndFor(g) = g.floor_end /\ Left(g) = Left(h)
  BY <1>3 DEF SoftEndFor, Left
<1> QED BY <1>1, <1>3, <1>4, <1>5, <1>6

\* Bumping the pointer by an aligned size that stays below the soft end.
LEMMA BumpOk ==
  ASSUME NEW h, HeapInv(h), h.soft_end = SoftEndFor(h),
         NEW a \in Nat, a % 16 = 0, a <= Half \/ a <= 80, ~Exceeds(h, a)
  PROVE  LET g == Bump(h, a)
         IN  /\ HeapInv(g) /\ g.soft_end = SoftEndFor(g)
             /\ g.pending = h.pending /\ g.in_signal = h.in_signal
             /\ g.from_start = h.from_start
             /\ g.from_ptr = h.from_ptr + a /\ g.from_ptr <= h.soft_end
             /\ g.soft_end_normal = h.soft_end_normal /\ Left(g) = Left(h) - a
<1>1. /\ h \in IntFields /\ Halves(h) /\ Limits(h) /\ Pointer(h)
      /\ h.from_start \in Int /\ h.from_end \in Int /\ h.from_ptr \in Int
      /\ h.floor_end \in Int /\ h.soft_end_normal \in Int /\ h.soft_end \in Int
  BY DEF HeapInv, IntFields
<1>2. h.from_end <= Base + Half + Half /\ h.floor_end <= h.from_end
  BY <1>1, Layout, HeapAssumption DEF Halves, Limits
<1>3. h.from_ptr + a < WordSize
  BY <1>1, <1>2, Layout, HeapAssumption DEF Pointer
<1>4. h.soft_end <= h.floor_end
  BY <1>1, HeapAssumption DEF SoftEndFor, Limits
<1>5. h.from_ptr + a <= h.soft_end
  BY <1>1, <1>3 DEF Exceeds, Wrap
<1> DEFINE g == Bump(h, a)
<1>6. /\ g \in IntFields /\ g.from_ptr = h.from_ptr + a
      /\ g.from_start = h.from_start /\ g.from_end = h.from_end
      /\ g.to_start = h.to_start /\ g.to_end = h.to_end /\ g.soft_end = h.soft_end
      /\ g.soft_end_normal = h.soft_end_normal /\ g.floor_end = h.floor_end
      /\ g.pending = h.pending /\ g.in_signal = h.in_signal
  BY <1>1, <1>3 DEF Bump, Wrap, IntFields
<1> HIDE DEF g
<1>7. HeapInv(g)
  BY <1>1, <1>4, <1>5, <1>6 DEF HeapInv, Halves, Limits, Pointer
<1>8. SoftEndFor(g) = SoftEndFor(h)
  BY <1>6 DEF SoftEndFor
<1>9. Left(g) = Left(h) - a
  BY <1>1, <1>6 DEF Left
<1> QED BY <1>5, <1>6, <1>7, <1>8, <1>9 DEF g

\* What does not fit with the soft end at the floor is more than is left.
LEMMA ExceedsFloor ==
  ASSUME NEW h, HeapInv(h), h.soft_end = h.floor_end,
         NEW a \in Nat, a <= Half \/ a <= 80, Exceeds(h, a)
  PROVE  Left(h) < a
<1>1. /\ Halves(h) /\ Limits(h) /\ Pointer(h)
      /\ h.from_start \in Int /\ h.from_end \in Int /\ h.from_ptr \in Int
      /\ h.floor_end \in Int
  BY DEF HeapInv, IntFields
<1>2. h.from_end <= Base + Half + Half /\ h.floor_end <= h.from_end
  BY <1>1, Layout, HeapAssumption DEF Halves, Limits
<1>3. h.from_ptr + a < WordSize
  BY <1>1, <1>2, Layout, HeapAssumption DEF Pointer
<1> QED BY <1>1, <1>3 DEF Exceeds, Wrap, Left

\* os_alloc_bytes returns memory below the floor or panics, keeps the soft end
\* in step with the flags, and takes reserve bytes only with a flag up.
LEMMA AllocBytes ==
  ASSUME HeapInv(heap), heap.soft_end = SoftEndFor(heap),
         NEW n \in Nat, n + 15 < WordSize,
         os_heap_align_up(n) <= Half \/ os_heap_align_up(n) <= 80,
         panicked \in BOOLEAN, os_alloc_bytes(n)
  PROVE  /\ HeapInv(heap') /\ heap'.soft_end = SoftEndFor(heap')
         /\ heap'.in_signal = heap.in_signal /\ panicked' \in BOOLEAN
         /\ heap'.from_ptr > heap'.soft_end_normal => heap'.pending \/ heap'.in_signal
         /\ Left(heap') >= Left(heap) - os_heap_align_up(n)
         /\ panicked' => panicked \/ Left(heap) < os_heap_align_up(n)
<1> DEFINE a == os_heap_align_up(n)
<1>1. a \in Nat /\ a % 16 = 0 /\ (a <= Half \/ a <= 80)
  BY AlignUp
<1> HIDE DEF a
<1>2. ASSUME NEW h, HeapInv(h), h.soft_end = SoftEndFor(h), ~Exceeds(h, a)
      PROVE  LET g == Bump(h, a)
             IN  /\ HeapInv(g) /\ g.soft_end = SoftEndFor(g)
                 /\ g.in_signal = h.in_signal
                 /\ g.from_ptr > g.soft_end_normal => g.pending \/ g.in_signal
                 /\ Left(g) = Left(h) - a
  <2> DEFINE g == Bump(h, a)
  <2>1. /\ HeapInv(g) /\ g.soft_end = SoftEndFor(g)
        /\ g.pending = h.pending /\ g.in_signal = h.in_signal
        /\ g.from_ptr <= h.soft_end /\ g.soft_end_normal = h.soft_end_normal
        /\ Left(g) = Left(h) - a
    BY <1>1, <1>2, BumpOk
  <2>2. h.soft_end_normal \in Int /\ g.from_ptr \in Int /\ h.floor_end \in Int
    BY <1>2, <2>1 DEF HeapInv, IntFields
  <2> HIDE DEF g
  <2>3. g.from_ptr > g.soft_end_normal => g.pending \/ g.in_signal
    BY <1>2, <2>1, <2>2 DEF SoftEndFor
  <2> QED BY <2>1, <2>3 DEF g
<1>i. Left(heap) \in Int
  BY DEF Left, HeapInv, IntFields
<1>3. CASE ~Exceeds(heap, a) /\ heap' = Bump(heap, a) /\ UNCHANGED panicked
  BY <1>1, <1>2, <1>3, <1>i DEF a
<1>4. ASSUME NEW live \in Survivors(heap),
             heap' = LET h == os_alloc_bytes_slow(heap, a, live)
                     IN  IF Exceeds(h, a) THEN h ELSE Bump(h, a),
             panicked' = Exceeds(os_alloc_bytes_slow(heap, a, live), a)
      PROVE  /\ HeapInv(heap') /\ heap'.soft_end = SoftEndFor(heap')
             /\ heap'.in_signal = heap.in_signal /\ panicked' \in BOOLEAN
             /\ heap'.from_ptr > heap'.soft_end_normal => heap'.pending \/ heap'.in_signal
             /\ Left(heap') >= Left(heap) - a
             /\ panicked' => Left(heap) < a
  <2> DEFINE c == os_gc_collect(heap, live)
             h == os_alloc_bytes_slow(heap, a, live)
  <2>1. /\ HeapInv(c) /\ c.soft_end = SoftEndFor(c) /\ c.in_signal = heap.in_signal
        /\ Left(c) >= Left(heap)
    BY Collect
  <2>2. h = IF Exceeds(c, a) THEN heap_open_reserve(c) ELSE c
    BY DEF os_alloc_bytes_slow
  <2> HIDE DEF c
  <2>3. /\ HeapInv(h) /\ h.soft_end = SoftEndFor(h) /\ h.in_signal = heap.in_signal
        /\ Exceeds(c, a) => h.pending /\ h.soft_end = h.floor_end
        /\ Left(h) = Left(c)
    <3>1. CASE Exceeds(c, a)
      BY <3>1, <2>1, <2>2, OpenReserve
    <3>2. CASE ~Exceeds(c, a)
      BY <3>2, <2>1, <2>2
    <3> QED BY <3>1, <3>2
  <2>4. Exceeds(h, a) => h.pending /\ h.soft_end = h.floor_end
    <3>1. CASE Exceeds(c, a)
      BY <3>1, <2>3
    <3>2. CASE ~Exceeds(c, a)
      BY <3>2, <2>2
    <3> QED BY <3>1, <3>2
  <2>5. panicked' \in BOOLEAN
    BY <1>4 DEF Exceeds
  <2>6. panicked' => Exceeds(h, a)
    BY <1>4, Zenon
  <2> HIDE DEF h
  <2>l. Left(h) \in Int /\ Left(c) \in Int
    BY <2>1, <2>3 DEF Left, HeapInv, IntFields
  <2>x. Exceeds(h, a) => Left(heap) < a
    <3>1. Exceeds(h, a) => Left(h) < a
      BY <1>1, <2>3, <2>4, ExceedsFloor
    <3> QED BY <1>1, <1>i, <2>1, <2>3, <2>l, <3>1
  <2>8. CASE Exceeds(h, a)
    <3>1. heap' = h
      BY <1>4, <2>8 DEF h
    <3>2. Left(heap') >= Left(heap) - a
      BY <1>1, <1>i, <2>1, <2>3, <2>l, <3>1
    <3> QED BY <3>1, <3>2, <2>3, <2>4, <2>5, <2>8, <2>x
  <2>9. CASE ~Exceeds(h, a)
    <3>1. heap' = Bump(h, a)
      BY <1>4, <2>9 DEF h
    <3>2. Left(heap') >= Left(heap) - a
      BY <1>1, <1>2, <1>i, <2>1, <2>3, <2>l, <2>9, <3>1
    <3> QED BY <3>1, <3>2, <2>3, <2>5, <2>9, <2>6, <2>x, <1>2
  <2> QED BY <2>8, <2>9
<1> QED BY <1>3, <1>4 DEF os_alloc_bytes, a

\* What an allocation step leaves of the invariant, whatever the process was
\* allocating for: used by the three allocating actions.
LEMMA AllocPreserves ==
  ASSUME NEW p \in Procs, IInv, pc[p] \in {"run", "header", "block"},
         NEW n \in Nat, n + 15 < WordSize,
         os_heap_align_up(n) <= Half \/ os_heap_align_up(n) <= 80,
         os_alloc_bytes(n)
  PROVE  /\ HeapInv(heap') /\ heap'.soft_end = SoftEndFor(heap')
         /\ heap'.in_signal = heap.in_signal /\ panicked' \in BOOLEAN
         /\ heap'.from_ptr > heap'.soft_end_normal => heap'.pending \/ heap'.in_signal
         /\ Left(heap') >= Left(heap) - os_heap_align_up(n)
         /\ panicked' => panicked \/ Left(heap) < os_heap_align_up(n)
<1>1. HeapInv(heap) /\ heap.soft_end = SoftEndFor(heap) /\ panicked \in BOOLEAN
  BY DEF IInv, ProcInv, CtlType
<1> QED BY <1>1, AllocBytes

\* Initially the invariant holds: os_heap_init gives a well-formed heap.
LEMMA InitInv == ASSUME Init PROVE IInv
<1> DEFINE z == [from_start |-> Base,        from_ptr |-> Base, from_end |-> Base + Half,
     to_start   |-> Base + Half, to_end   |-> Base + Half + Half,
     soft_end   |-> 0, soft_end_normal |-> 0, floor_end |-> 0,
     pending    |-> FALSE, in_signal |-> FALSE]
           u == heap_update_soft_end(z)
<1>1. heap = u
  BY DEF Init, os_heap_init
<1>2. /\ z \in IntFields /\ Halves(z) /\ z.from_ptr = Base /\ z.from_start = Base
      /\ z.pending = FALSE /\ z.in_signal = FALSE
  BY Layout DEF IntFields, Halves
<1> HIDE DEF z
<1>3. /\ u \in IntFields /\ Halves(u) /\ Limits(u) /\ u.soft_end = SoftEndFor(u)
      /\ u.from_ptr = Base /\ u.from_start = Base /\ u.in_signal = FALSE
      /\ u.from_start <= u.soft_end_normal /\ u.soft_end_normal <= u.floor_end
  BY <1>2, UpdateSoftEnd
<1> HIDE DEF u
<1>4. HeapInv(heap)
  <2>1. u.soft_end_normal \in Int /\ u.floor_end \in Int
    BY <1>3 DEF IntFields
  <2> QED BY <1>1, <1>3, <2>1, Layout DEF HeapInv, Pointer
<1>5. CtlType
  <2>1. 0 \in 0..MaxSignalDepth
    BY HeapAssumption
  <2>2. panicked \in BOOLEAN /\ req \in [Procs -> LargeRequests \cup {NoRequest}]
    BY DEF Init
  <2>3. /\ pc \in [Procs -> {"run", "header", "block", "enter", "apply_in", "apply_out"}]
        /\ outcome \in [Procs -> {"none", "eval_error", "condition"}]
    BY DEF Init
  <2>4. sig \in [Procs -> 0..MaxSignalDepth] /\ tmp \in [Procs -> Addresses \cup {0}]
    BY <2>1 DEF Init
  <2> QED BY <2>2, <2>3, <2>4 DEF CtlType
<1>7. \A p \in Procs : ProcInv(p)
  BY <1>1, <1>3, Layout, HeapAssumption DEF Init, ProcInv
<1> QED BY <1>4, <1>5, <1>7 DEF IInv

\* One process: every step preserves the invariant.
LEMMA StepInv ==
  ASSUME NEW p, Procs = {p}, IInv, [Next]_vars
  PROVE  IInv'
<1> p \in Procs
  OBVIOUS
<1>0. /\ HeapInv(heap) /\ CtlType /\ ProcInv(p)
  BY DEF IInv
<1>k. ASSUME HeapInv(heap'), CtlType', ProcInv(p)' PROVE IInv'
  BY <1>k DEF IInv
<1>l. Left(heap) \in Int
  BY <1>0 DEF HeapInv, IntFields, Left
<1>32. 32 \in Nat /\ 32 + 15 < WordSize /\ os_heap_align_up(32) <= 80 /\ os_heap_align_up(32) = 32
  BY HeapAssumption DEF os_heap_align_up, Wrap, OS_HEAP_ALIGN
<1>1. CASE AllocSmall(p)
  <2>1. PICK n \in SmallSizes : os_alloc_bytes(n)
    BY <1>1 DEF AllocSmall
  <2>2. n \in Nat /\ n + 15 < WordSize /\ os_heap_align_up(n) <= 80
    BY <2>1, HeapAssumption, AlignUp
  <2>3. pc[p] = "run" /\ UNCHANGED <<pc, sig, tmp, req, outcome>>
    BY <1>1 DEF AllocSmall, At
  <2>4. /\ HeapInv(heap') /\ heap'.soft_end = SoftEndFor(heap')
        /\ heap'.in_signal = heap.in_signal /\ panicked' \in BOOLEAN
    BY <2>1, <2>2, <2>3, AllocPreserves
  <2>5. CtlType' /\ ProcInv(p)'
    BY <1>0, <2>3, <2>4 DEF CtlType, ProcInv, SoftEndFor
  <2> QED BY <2>4, <2>5, <1>k
<1>2. CASE AllocHeader(p)
  <2>1. pc[p] = "header" /\ pc' = [pc EXCEPT ![p] = "block"] /\ UNCHANGED <<sig, tmp, req, outcome>>
    BY <1>2 DEF AllocHeader, At, Goto
  <2>2. /\ HeapInv(heap') /\ heap'.soft_end = SoftEndFor(heap')
        /\ heap'.in_signal = heap.in_signal /\ panicked' \in BOOLEAN
        /\ Left(heap') >= Left(heap) - 32
    BY <1>2, <1>32, <2>1, AllocPreserves DEF AllocHeader, INSTANCE_BYTES
  <2>c. Left(heap') \in Int
    BY <2>2 DEF HeapInv, IntFields, Left
  <2> DEFINE b == RequestBytes(req[p])
  <2>d. Cleared(b) /\ (HeaderInReserve => Room(heap, INSTANCE_BYTES, b))
    BY <1>0, <2>1 DEF ProcInv
  <2>e. b \in Nat /\ b + 15 < WordSize
    BY <2>d, HeapAssumption DEF Cleared
  <2> HIDE DEF b
  <2>f. os_heap_align_up(b) \in Nat
    BY <2>e, AlignUp
  <2>g. HeaderInReserve => Room(heap', 0, b)
    BY <1>l, <2>2, <2>c, <2>d, <2>f DEF Room, INSTANCE_BYTES
  <2>h. req'[p] = req[p] /\ pc'[p] = "block" /\ sig'[p] = sig[p] /\ outcome'[p] = outcome[p]
    BY <1>0, <2>1 DEF CtlType
  <2>3. CtlType'
    BY <1>0, <2>1, <2>2 DEF CtlType
  <2>4. ProcInv(p)'
    BY <1>0, <2>1, <2>2, <2>d, <2>g, <2>h DEF ProcInv, SoftEndFor, b
  <2> QED BY <2>2, <2>3, <2>4, <1>k
<1>3. CASE AllocBlock(p)
  <2>1. /\ pc[p] = "block" /\ pc' = [pc EXCEPT ![p] = "run"]
        /\ req' = [req EXCEPT ![p] = NoRequest] /\ UNCHANGED <<sig, tmp, outcome>>
    BY <1>3 DEF AllocBlock, At, Goto
  <2>2. /\ HeapInv(heap') /\ heap'.soft_end = SoftEndFor(heap')
        /\ heap'.in_signal = heap.in_signal /\ panicked' \in BOOLEAN
    <3> DEFINE b == RequestBytes(req[p])
    <3>1. Cleared(b) /\ os_alloc_bytes(b)
      BY <1>0, <1>3, <2>1 DEF ProcInv, AllocBlock
    <3> HIDE DEF b
    <3>2. b \in Nat /\ b + 15 < WordSize /\ os_heap_align_up(b) <= Half
      BY <3>1, HeapAssumption DEF Cleared
    <3> QED BY <2>1, <3>1, <3>2, AllocPreserves
  <2>3. CtlType' /\ ProcInv(p)'
    BY <1>0, <2>1, <2>2 DEF CtlType, ProcInv, SoftEndFor
  <2> QED BY <2>2, <2>3, <1>k
<1>4. CASE ReplCollect(p)
  <2>1. PICK live \in Survivors(heap) : heap' = os_gc_collect(heap, live)
    BY <1>4 DEF ReplCollect
  <2>2. /\ HeapInv(heap') /\ heap'.soft_end = SoftEndFor(heap')
        /\ heap'.in_signal = heap.in_signal
    BY <1>0, <2>1, Collect
  <2>3. pc[p] = "run" /\ UNCHANGED <<panicked, pc, sig, tmp, req, outcome>>
    BY <1>4 DEF ReplCollect, At
  <2>4. CtlType' /\ ProcInv(p)'
    BY <1>0, <2>2, <2>3 DEF CtlType, ProcInv, SoftEndFor
  <2> QED BY <2>2, <2>4, <1>k
<1>5. CASE EvalEntry(p)
  <2>1. /\ pc[p] = "run" /\ SignalTest(p) /\ UNCHANGED <<heap, panicked, sig, tmp, req>>
    BY <1>5 DEF EvalEntry, At
  <2>2. CtlType' /\ ProcInv(p)'
    BY <1>0, <2>1 DEF CtlType, ProcInv, SoftEndFor, SignalTest, Goto
  <2> QED BY <1>0, <2>1, <2>2, <1>k
<1>6. ASSUME NEW r \in LargeRequests, LargePrimitive(p, r) PROVE IInv'
  <2>1. pc[p] = "run" /\ UNCHANGED <<panicked, sig, tmp>>
    BY <1>6 DEF LargePrimitive, At
  <2>2. /\ HeapInv(heap') /\ heap'.soft_end = SoftEndFor(heap')
        /\ heap'.in_signal = heap.in_signal
    <3>1. CASE heap' = heap
      BY <3>1, <1>0, <2>1 DEF ProcInv
    <3>2. ASSUME NEW live \in Survivors(heap), heap' = os_gc_collect(heap, live)
          PROVE  /\ HeapInv(heap') /\ heap'.soft_end = SoftEndFor(heap')
                 /\ heap'.in_signal = heap.in_signal
      BY <1>0, <3>2, Collect
    <3> QED BY <1>6, <3>1, <3>2 DEF LargePrimitive
  <2>3. \/ SignalTest(p) /\ UNCHANGED req
        \/ /\ \/ pc' = [pc EXCEPT ![p] = "header"]
              \/ pc' = [pc EXCEPT ![p] = "block"]
           /\ req' = [req EXCEPT ![p] = r] /\ RequestBytes(r) # Overflow
           /\ UNCHANGED outcome
           /\ heap_request_fits(heap', RequestBytes(r))
    BY <1>6 DEF LargePrimitive, Goto
  <2>4. CASE SignalTest(p) /\ UNCHANGED req
    <3>1. CtlType' /\ ProcInv(p)'
      BY <1>0, <2>1, <2>2, <2>4 DEF CtlType, ProcInv, SoftEndFor, SignalTest, Goto
    <3> QED BY <2>2, <3>1, <1>k
  <2>5. CASE /\ \/ pc' = [pc EXCEPT ![p] = "header"]
                \/ pc' = [pc EXCEPT ![p] = "block"]
             /\ req' = [req EXCEPT ![p] = r] /\ RequestBytes(r) # Overflow
             /\ UNCHANGED outcome
             /\ heap_request_fits(heap', RequestBytes(r))
    <3>1. PICK b, h : b = RequestBytes(r) /\ h = heap'
      OBVIOUS
    <3>2. b \in Nat
      BY <2>5, <3>1, SizeType, HeapAssumption
    <3>3. HeapInv(h) /\ heap_request_fits(h, b)
      BY <2>2, <2>5, <3>1
    <3>4. /\ h.from_ptr \in Int /\ h.from_start \in Int /\ h.soft_end_normal \in Int
          /\ h.from_end \in Int /\ h.floor_end \in Int
      BY <3>3 DEF HeapInv, IntFields
    <3>5. h.soft_end_normal - h.from_ptr <= Half
      <4>1. h.from_end = h.from_start + Half /\ h.from_start <= h.from_ptr
        BY <3>3 DEF HeapInv, Halves, Pointer
      <4>2. h.soft_end_normal <= h.from_end
        BY <3>3, <3>4, HeapAssumption DEF HeapInv, Limits
      <4> QED BY <3>4, <4>1, <4>2, Layout
    <3>6. b + 16 <= WordSize
      BY <3>2, <3>3, HeapAssumption DEF heap_request_fits, OS_HEAP_ALIGN
    <3>7. os_heap_align_up(b) \in Nat
      BY <3>2, <3>6, HeapAssumption, AlignUp
    <3>8. Cleared(b)
      BY <3>2, <3>3, <3>4, <3>5, <3>6, <3>7, Layout DEF heap_request_fits, Cleared
    <3>9. Room(h, 0, b) /\ (HeaderInReserve => Room(h, INSTANCE_BYTES, b))
      <4>1. os_heap_align_up(b) <= h.soft_end_normal - h.from_ptr
        BY <3>3 DEF heap_request_fits
      <4>2. h.soft_end_normal <= h.floor_end
        BY <3>3, <3>4, HeapAssumption DEF HeapInv, Limits
      <4>3. HeaderInReserve => h.soft_end_normal + 32 <= h.floor_end
        BY <3>3, <3>4, HeapAssumption DEF HeapInv, Limits, HeaderInReserve, INSTANCE_BYTES
      <4> QED BY <3>4, <3>7, <4>1, <4>2, <4>3 DEF Room, Left, INSTANCE_BYTES
    <3>10. CtlType'
      BY <1>0, <2>1, <2>5 DEF CtlType
    <3>11. /\ req'[p] = r /\ pc'[p] \in {"header", "block"}
           /\ sig'[p] = sig[p] /\ outcome'[p] = outcome[p]
      BY <1>0, <2>1, <2>5 DEF CtlType
    <3>12. ProcInv(p)'
      BY <1>0, <2>1, <2>2, <3>1, <3>8, <3>9, <3>11 DEF ProcInv, SoftEndFor
    <3> QED BY <2>2, <3>10, <3>12, <1>k
  <2> QED BY <2>3, <2>4, <2>5
<1>7. ASSUME NEW b \in BOOLEAN, NEW q \in BOOLEAN,
             heap' = [heap EXCEPT !.in_signal = b, !.pending = q],
             tmp' = [tmp EXCEPT ![p] = SoftEndFor(heap')]
      PROVE  /\ HeapInv(heap') /\ tmp' \in [Procs -> Addresses \cup {0}]
             /\ tmp'[p] = SoftEndFor(heap') /\ heap'.in_signal = b
             /\ heap'.soft_end = heap.soft_end /\ heap'.floor_end = heap.floor_end
             /\ heap'.soft_end_normal = heap.soft_end_normal
  <2>1. /\ heap' \in IntFields /\ heap'.in_signal = b /\ heap'.pending = q
        /\ heap'.from_start = heap.from_start /\ heap'.from_end = heap.from_end
        /\ heap'.to_start = heap.to_start /\ heap'.to_end = heap.to_end
        /\ heap'.from_ptr = heap.from_ptr /\ heap'.floor_end = heap.floor_end
        /\ heap'.soft_end_normal = heap.soft_end_normal /\ heap'.soft_end = heap.soft_end
    BY <1>0, <1>7 DEF HeapInv, IntFields
  <2>2. HeapInv(heap')
    BY <1>0, <2>1 DEF HeapInv, Halves, Limits, Pointer
  <2>3. SoftEndFor(heap') \in Addresses
    BY <2>2, InRange
  <2> QED BY <1>0, <1>7, <2>1, <2>2, <2>3 DEF CtlType
<1>8. CASE SignalEnter(p)
  <2>1. /\ heap' = [heap EXCEPT !.in_signal = TRUE, !.pending = FALSE]
        /\ tmp' = [tmp EXCEPT ![p] = SoftEndFor(heap')]
        /\ pc[p] = "enter" /\ pc' = [pc EXCEPT ![p] = "apply_in"]
        /\ UNCHANGED <<panicked, sig, req, outcome>>
    BY <1>8 DEF SignalEnter, At, Goto
  <2>2. /\ HeapInv(heap') /\ tmp' \in [Procs -> Addresses \cup {0}]
        /\ tmp'[p] = SoftEndFor(heap') /\ heap'.in_signal = TRUE
        /\ heap'.soft_end = heap.soft_end /\ heap'.floor_end = heap.floor_end
        /\ heap'.soft_end_normal = heap.soft_end_normal
    BY <2>1, <1>7
  <2>3. CtlType' /\ ProcInv(p)'
    BY <1>0, <2>1, <2>2 DEF CtlType, ProcInv, SoftEndFor
  <2> QED BY <2>2, <2>3, <1>k
<1>9. CASE SignalLeave(p)
  <2>1. /\ heap' = [heap EXCEPT !.in_signal = FALSE, !.pending = heap.pending]
        /\ tmp' = [tmp EXCEPT ![p] = SoftEndFor(heap')]
        /\ pc[p] = "run" /\ sig[p] > 0 /\ pc' = [pc EXCEPT ![p] = "apply_out"]
        /\ UNCHANGED <<panicked, sig, req, outcome>>
    <3>1. heap \in IntFields
      BY <1>0 DEF HeapInv
    <3>2. [heap EXCEPT !.in_signal = FALSE, !.pending = heap.pending] = [heap EXCEPT !.in_signal = FALSE]
      BY <3>1 DEF IntFields
    <3> QED BY <1>9, <3>2 DEF SignalLeave, At, Goto
  <2>2. heap.pending \in BOOLEAN
    BY <1>0 DEF HeapInv, IntFields
  <2>3. /\ HeapInv(heap') /\ tmp' \in [Procs -> Addresses \cup {0}]
        /\ tmp'[p] = SoftEndFor(heap') /\ heap'.in_signal = FALSE
        /\ heap'.soft_end = heap.soft_end /\ heap'.floor_end = heap.floor_end
        /\ heap'.soft_end_normal = heap.soft_end_normal
    BY <2>1, <2>2, <1>7
  <2>4. CtlType' /\ ProcInv(p)'
    BY <1>0, <2>1, <2>3 DEF CtlType, ProcInv, SoftEndFor
  <2> QED BY <2>3, <2>4, <1>k
<1>10. CASE ApplySoftEnd(p)
  <2>1. /\ heap' = [heap EXCEPT !.soft_end = tmp[p]] /\ tmp' = [tmp EXCEPT ![p] = 0]
        /\ pc[p] \in {"apply_in", "apply_out"} /\ pc' = [pc EXCEPT ![p] = "run"]
        /\ sig' = [sig EXCEPT ![p] = IF pc[p] = "apply_in" THEN @ + 1 ELSE @ - 1]
        /\ outcome' = [outcome EXCEPT ![p] = IF pc[p] = "apply_in" THEN @ ELSE "condition"]
        /\ UNCHANGED <<panicked, req>>
    BY <1>10 DEF ApplySoftEnd, At, Goto
  <2>2. tmp[p] \in Int /\ tmp[p] = SoftEndFor(heap)
    BY <1>0, <2>1 DEF CtlType, ProcInv, SoftEndFor, HeapInv, IntFields
  <2>3. /\ heap' \in IntFields /\ heap'.in_signal = heap.in_signal /\ heap'.pending = heap.pending
        /\ heap'.from_start = heap.from_start /\ heap'.from_end = heap.from_end
        /\ heap'.to_start = heap.to_start /\ heap'.to_end = heap.to_end
        /\ heap'.from_ptr = heap.from_ptr /\ heap'.floor_end = heap.floor_end
        /\ heap'.soft_end_normal = heap.soft_end_normal /\ heap'.soft_end = tmp[p]
    BY <1>0, <2>1, <2>2 DEF HeapInv, IntFields
  <2>4. HeapInv(heap') /\ heap'.soft_end = SoftEndFor(heap')
    BY <1>0, <2>2, <2>3 DEF HeapInv, Halves, Limits, Pointer, SoftEndFor
  <2>5. CtlType'
    <3>1. sig' \in [Procs -> 0..MaxSignalDepth]
      BY <1>0, <2>1, HeapAssumption DEF CtlType, ProcInv
    <3> QED BY <1>0, <2>1, <3>1 DEF CtlType
  <2>6. ProcInv(p)'
    BY <1>0, <2>1, <2>3, <2>4 DEF CtlType, ProcInv, SoftEndFor
  <2> QED BY <2>4, <2>5, <2>6, <1>k
<1>11. CASE UNCHANGED vars
  BY <1>11 DEF vars, IInv, CtlType, ProcInv, HeapInv, SoftEndFor, Halves, Limits, Pointer, Room, Left
<1> QED
  BY <1>1, <1>2, <1>3, <1>4, <1>5, <1>6, <1>8, <1>9, <1>10, <1>11 DEF Next

\* One process: whatever is requested, every pointer and limit stays an
\* address of the two half-spaces (Heap!TypeOK).
THEOREM TypeCorrect ==
  ASSUME NEW p, Procs = {p}
  PROVE  Spec => []TypeOK
<1>1. Init => IInv
  BY InitInv
<1>2. IInv /\ [Next]_vars => IInv'
  BY StepInv
<1>3. IInv => TypeOK
  <2> SUFFICES ASSUME IInv PROVE TypeOK
    OBVIOUS
  <2>1. HeapInv(heap) /\ CtlType /\ ProcInv(p)
    BY DEF IInv
  <2>2. heap.soft_end \in Addresses
    <3>1. heap.soft_end \in {SoftEndFor(heap), heap.soft_end_normal, heap.floor_end}
      BY <2>1 DEF ProcInv, CtlType
    <3> QED BY <2>1, <3>1, InRange
  <2>3. heap \in HeapFields
    BY <2>1, <2>2, InRange DEF HeapInv, IntFields, HeapFields
  <2> QED BY <2>1, <2>3 DEF TypeOK
<1> QED BY <1>1, <1>2, <1>3, PTL DEF Spec

\* One process: whatever the heap's base and size, the reserve, the floor and
\* the requests, the allocation pointer stays below the floor of the half in
\* use (Heap!AllocationStaysBelowFloor).
THEOREM AllocationSafe ==
  ASSUME NEW p, Procs = {p}
  PROVE  Spec => []AllocationStaysBelowFloor
<1>1. Init => IInv
  BY InitInv
<1>2. IInv /\ [Next]_vars => IInv'
  BY StepInv
<1>3. IInv => AllocationStaysBelowFloor
  <2> SUFFICES ASSUME HeapInv(heap) PROVE AllocationStaysBelowFloor
    BY DEF IInv
  <2>1. heap.from_end \in Int
    BY DEF HeapInv, IntFields
  <2> QED BY <2>1, HeapAssumption DEF HeapInv, Limits, Pointer, AllocationStaysBelowFloor
<1> QED BY <1>1, <1>2, <1>3, PTL DEF Spec

\* One process: a copying collection always has room, and allocation stays
\* on OS_HEAP_ALIGN boundaries (Heap!SurvivorsFit).
THEOREM CollectionHasRoom ==
  ASSUME NEW p, Procs = {p}
  PROVE  Spec => []SurvivorsFit
<1>1. Init => IInv
  BY InitInv
<1>2. IInv /\ [Next]_vars => IInv'
  BY StepInv
<1>3. IInv => SurvivorsFit
  <2> SUFFICES ASSUME HeapInv(heap) PROVE SurvivorsFit
    BY DEF IInv
  <2>1. /\ heap.from_end \in Int /\ heap.from_start \in Int /\ heap.to_start \in Int
        /\ heap.to_end \in Int /\ heap.from_ptr \in Int
        /\ Halves(heap) /\ Limits(heap) /\ Pointer(heap)
    BY DEF HeapInv, IntFields
  <2>2. heap.floor_end <= heap.from_end
    BY <2>1, HeapAssumption DEF Limits
  <2>3. heap.from_ptr - heap.from_start <= Half
    BY <2>1, <2>2, Layout, HeapAssumption DEF Halves, Pointer, Limits
  <2>4. heap.to_end - heap.to_start = Half /\ heap.to_start % 16 = 0
    BY <2>1, Layout DEF Halves
  <2> QED BY <2>1, <2>3, <2>4 DEF SurvivorsFit, Pointer
<1> QED BY <1>1, <1>2, <1>3, PTL DEF Spec

\* One process: no allocation enters the reserve without the mark up or a
\* signal in progress (Heap!ReserveIsAnnounced).
THEOREM ReserveAnnounced ==
  ASSUME NEW p, Procs = {p}
  PROVE  Spec => ReserveIsAnnounced
<1> DEFINE A == heap'.from_start = heap.from_start /\ heap'.from_ptr > heap.from_ptr
                  /\ heap'.from_ptr > heap'.soft_end_normal
                => heap'.pending \/ heap'.in_signal
<1>1. Init => IInv
  BY InitInv
<1>2. IInv /\ [Next]_vars => IInv'
  BY StepInv
<1>3. IInv /\ [Next]_vars => [A]_vars
  <2> SUFFICES ASSUME IInv, Next PROVE A
    OBVIOUS
  <2> p \in Procs
    OBVIOUS
  <2>0. HeapInv(heap) /\ CtlType /\ ProcInv(p) /\ heap.from_ptr \in Int /\ heap.from_start \in Int
    BY DEF IInv, HeapInv, IntFields
  <2>1. ASSUME NEW n \in Nat, n + 15 < WordSize, pc[p] \in {"run", "header", "block"},
               os_heap_align_up(n) <= Half \/ os_heap_align_up(n) <= 80, os_alloc_bytes(n)
        PROVE  A
    BY <2>1, AllocPreserves
  <2>2. CASE AllocSmall(p)
    <3>1. PICK n \in SmallSizes : os_alloc_bytes(n)
      BY <2>2 DEF AllocSmall
    <3>2. n \in Nat /\ n + 15 < WordSize /\ os_heap_align_up(n) <= 80 /\ pc[p] = "run"
      BY <2>2, <3>1, HeapAssumption, AlignUp DEF AllocSmall, At
    <3> QED BY <2>1, <3>1, <3>2
  <2>3. CASE AllocHeader(p)
    <3>1. 32 + 15 < WordSize /\ os_heap_align_up(32) <= 80
      BY HeapAssumption DEF os_heap_align_up, Wrap, OS_HEAP_ALIGN
    <3> QED BY <2>1, <2>3, <3>1 DEF AllocHeader, At, INSTANCE_BYTES
  <2>4. CASE AllocBlock(p)
    <3>1. pc[p] = "block" /\ Cleared(RequestBytes(req[p])) /\ os_alloc_bytes(RequestBytes(req[p]))
      BY <2>0, <2>4 DEF ProcInv, AllocBlock, At
    <3>2. PICK b : b = RequestBytes(req[p])
      OBVIOUS
    <3>3. b \in Nat /\ b + 15 < WordSize /\ os_heap_align_up(b) <= Half
      BY <3>1, <3>2, HeapAssumption DEF Cleared
    <3> QED BY <2>1, <3>1, <3>2, <3>3
  <2>5. ASSUME NEW live \in Survivors(heap), heap' = os_gc_collect(heap, live)
        PROVE  A
    <3>1. heap'.from_start = heap.to_start /\ heap'.from_ptr = heap.to_start + live
      <4> DEFINE f == [heap EXCEPT !.from_start = heap.to_start, !.from_end = heap.to_end,
                         !.from_ptr = heap.to_start + live,
                         !.to_start = heap.from_start, !.to_end = heap.from_end]
      <4>1. /\ DOMAIN f = DOMAIN heap /\ f.from_start = heap.to_start
            /\ f.from_ptr = heap.to_start + live
        BY <2>0 DEF HeapInv, IntFields
      <4>2. heap' = heap_update_soft_end(f)
        BY <2>5 DEF os_gc_collect
      <4>3. DOMAIN heap = {"from_start", "from_ptr", "from_end", "to_start", "to_end", "soft_end",
                           "soft_end_normal", "floor_end", "pending", "in_signal"}
        BY <2>0 DEF HeapInv, IntFields
      <4> HIDE DEF f
      <4> QED BY <4>1, <4>2, <4>3 DEF heap_update_soft_end, heap_apply_soft_end
    <3>2. live \in Nat /\ live <= heap.from_ptr - heap.from_start
      <4>1. heap.from_ptr - heap.from_start \in Nat
        BY <2>0 DEF HeapInv, Pointer
      <4> QED BY <4>1 DEF Survivors
    <3> QED BY <2>0, <3>1, <3>2
  <2>6. CASE heap'.from_ptr = heap.from_ptr
    BY <2>0, <2>6
  <2>7. ASSUME NEW r \in LargeRequests, LargePrimitive(p, r) PROVE A
    <3>1. CASE UNCHANGED heap
      BY <2>6, <3>1
    <3>2. CASE \E live \in Survivors(heap) : heap' = os_gc_collect(heap, live)
      BY <2>5, <3>2
    <3> QED BY <2>7, <3>1, <3>2 DEF LargePrimitive
  <2>8. CASE ReplCollect(p)
    BY <2>5, <2>8 DEF ReplCollect
  <2>9. CASE EvalEntry(p)
    BY <2>6, <2>9 DEF EvalEntry
  <2>10. CASE SignalEnter(p) \/ SignalLeave(p) \/ ApplySoftEnd(p)
    <3>1. heap'.from_ptr = heap.from_ptr
      BY <2>0, <2>10 DEF SignalEnter, SignalLeave, ApplySoftEnd, HeapInv, IntFields
    <3> QED BY <2>6, <3>1
  <2> QED BY <2>2, <2>3, <2>4, <2>7, <2>8, <2>9, <2>10 DEF Next
<1> QED BY <1>1, <1>2, <1>3, PTL DEF Spec, ReserveIsAnnounced

\* One process: a large request that was found to fit is served, however full the
\* heap is, whatever the collections on the way keep
\* (Heap!ClearedRequestsNeverPanic).
THEOREM ClearedServed ==
  ASSUME NEW r, Procs = {r}
  PROVE  Spec => ClearedRequestsNeverPanic
<1>1. Init => IInv
  BY InitInv
<1>2. IInv /\ [Next]_vars => IInv'
  BY StepInv
<1>3. IInv /\ [Next]_vars => [~PanicForCleared]_vars
  <2> SUFFICES ASSUME IInv, Next, ReserveEnabled(heap),
                      HEAP_SIGNAL_RESERVE - HEAP_HARD_FLOOR >= INSTANCE_BYTES,
                      pc[r] \in {"header", "block"}, pc'[r] # pc[r]
               PROVE  ~panicked'
    BY DEF PanicForCleared
  <2>1. HeapInv(heap) /\ CtlType /\ ProcInv(r) /\ r \in Procs
    BY DEF IInv
  <2>2. HeaderInReserve
    <3>1. heap.from_end - heap.from_start = Half
      BY <2>1, Layout DEF HeapInv, IntFields, Halves
    <3> QED BY <3>1 DEF HeaderInReserve, ReserveInUse, ReserveEnabled
  <2>3. PICK b : b = RequestBytes(req[r])
    OBVIOUS
  <2>4. Cleared(b)
    BY <2>1, <2>3 DEF ProcInv
  <2>5. b \in Nat /\ b + 15 < WordSize /\ os_heap_align_up(b) <= Half
    BY <2>4, HeapAssumption DEF Cleared
  <2>6. os_heap_align_up(b) \in Nat /\ Left(heap) \in Int
    BY <2>1, <2>5, AlignUp DEF HeapInv, IntFields, Left
  <2>7. CASE AllocHeader(r)
    <3>1. 32 \in Nat /\ 32 + 15 < WordSize /\ os_heap_align_up(32) = 32
      BY HeapAssumption DEF os_heap_align_up, Wrap, OS_HEAP_ALIGN
    <3>2. pc[r] = "header" /\ ~panicked /\ os_alloc_bytes(32)
      BY <2>7 DEF AllocHeader, At, INSTANCE_BYTES
    <3>3. panicked' => Left(heap) < 32
      BY <2>1, <3>1, <3>2, AllocPreserves
    <3>4. 32 + os_heap_align_up(b) <= Left(heap)
      BY <2>1, <2>2, <2>3, <3>2 DEF ProcInv, Room, INSTANCE_BYTES
    <3> QED BY <2>6, <3>3, <3>4
  <2>8. CASE AllocBlock(r)
    <3>1. pc[r] = "block" /\ ~panicked /\ os_alloc_bytes(b)
      BY <2>3, <2>8 DEF AllocBlock, At
    <3>2. panicked' => Left(heap) < os_heap_align_up(b)
      BY <2>1, <2>5, <3>1, AllocPreserves
    <3>3. 0 + os_heap_align_up(b) <= Left(heap)
      BY <2>1, <2>2, <2>3, <3>1 DEF ProcInv, Room
    <3> QED BY <2>6, <3>2, <3>3
  <2>9. AllocHeader(r) \/ AllocBlock(r)
    BY <2>1 DEF Next, At, AllocSmall, ReplCollect, EvalEntry, LargePrimitive,
                SignalEnter, SignalLeave, ApplySoftEnd
  <2> QED BY <2>7, <2>8, <2>9
<1> QED BY <1>1, <1>2, <1>3, PTL DEF Spec, ClearedRequestsNeverPanic

-----------------------------------------------------------------------------
(***************************************************************************)
(* Any number of processes.  What is left of the invariant are the types:  *)
(* limits loaded by one process and stored after a step of another can be  *)
(* any address.                                                            *)
(***************************************************************************)
SharedInv ==
  /\ heap \in IntFields
  /\ pc \in [Procs -> {"run", "header", "block", "enter", "apply_in", "apply_out"}]
  /\ tmp \in [Procs -> Int]

Follows(h) == h \in IntFields /\ h.soft_end = SoftEndFor(h)

\* heap_apply_soft_end makes the soft end follow the flags.
LEMMA Applied ==
  ASSUME NEW h \in IntFields
  PROVE  Follows(heap_apply_soft_end(h))
<1> DEFINE g == heap_apply_soft_end(h)
<1>1. SoftEndFor(h) \in Int
  BY DEF SoftEndFor, IntFields
<1>2. /\ g \in IntFields /\ g.soft_end = SoftEndFor(h)
      /\ g.pending = h.pending /\ g.in_signal = h.in_signal
      /\ g.floor_end = h.floor_end /\ g.soft_end_normal = h.soft_end_normal
  BY <1>1 DEF heap_apply_soft_end, IntFields
<1> HIDE DEF g
<1>3. SoftEndFor(g) = SoftEndFor(h)
  BY <1>2 DEF SoftEndFor
<1> QED BY <1>2, <1>3 DEF Follows, g

\* So does a collection, whatever the state of the limits before it.
LEMMA CollectApplies ==
  ASSUME NEW h \in IntFields, NEW live \in Survivors(h)
  PROVE  Follows(os_gc_collect(h, live))
<1>1. live \in Int
  BY DEF Survivors, IntFields
<1> DEFINE f == [h EXCEPT !.from_start = h.to_start,
              !.from_end   = h.to_end,
              !.from_ptr   = h.to_start + live,
              !.to_start   = h.from_start,
              !.to_end     = h.from_end]
<1>2. f \in IntFields
  <2>1. h.to_start + live \in Int /\ h.to_start \in Int /\ h.to_end \in Int
    BY <1>1 DEF IntFields
  <2> QED BY <2>1 DEF IntFields
<1>3. os_gc_collect(h, live) = heap_update_soft_end(f)
  BY DEF os_gc_collect
<1> HIDE DEF f
<1> DEFINE nrm == f.from_end - (IF ReserveEnabled(f) THEN HEAP_SIGNAL_RESERVE ELSE 0)
           flr == f.from_end - (IF ReserveEnabled(f) THEN HEAP_HARD_FLOOR ELSE 0)
           v   == [f EXCEPT !.soft_end_normal = nrm, !.floor_end = flr]
<1>4. nrm \in Int /\ flr \in Int
  BY <1>2, HeapAssumption DEF IntFields
<1> HIDE DEF nrm, flr
<1>5. v \in IntFields
  BY <1>2, <1>4 DEF IntFields
<1>6. heap_update_soft_end(f) = heap_apply_soft_end(v)
  BY DEF heap_update_soft_end, nrm, flr
<1> HIDE DEF v
<1> QED BY <1>3, <1>5, <1>6, Applied

\* An allocation keeps what it finds, or collects: any size, Overflow included.
LEMMA AllocFollows ==
  ASSUME heap \in IntFields, NEW n \in Int, os_alloc_bytes(n)
  PROVE  heap' \in IntFields /\ (Follows(heap) => Follows(heap'))
<1> DEFINE a == os_heap_align_up(n)
<1>1. a \in Int
  BY HeapAssumption DEF os_heap_align_up, Wrap, OS_HEAP_ALIGN
<1> HIDE DEF a
<1>2. ASSUME NEW h \in IntFields
      PROVE  Bump(h, a) \in IntFields /\ (Follows(h) => Follows(Bump(h, a)))
  <2> DEFINE g == Bump(h, a)
  <2>1. Wrap(h.from_ptr + a) \in Int
    <3>1. h.from_ptr + a \in Int /\ WordSize \in Int
      BY <1>1, HeapAssumption DEF IntFields
    <3> QED BY <3>1 DEF Wrap
  <2>2. /\ g \in IntFields /\ g.soft_end = h.soft_end
        /\ g.pending = h.pending /\ g.in_signal = h.in_signal
        /\ g.floor_end = h.floor_end /\ g.soft_end_normal = h.soft_end_normal
    BY <2>1 DEF Bump, IntFields
  <2> HIDE DEF g
  <2> QED BY <2>2 DEF Follows, SoftEndFor, g
<1>3. ASSUME NEW live \in Survivors(heap)
      PROVE  Follows(os_alloc_bytes_slow(heap, a, live))
  <2> DEFINE c == os_gc_collect(heap, live)
             f == [c EXCEPT !.pending = TRUE]
  <2>1. Follows(c)
    BY CollectApplies
  <2> HIDE DEF c
  <2>2. f \in IntFields
    BY <2>1 DEF Follows, IntFields
  <2>3. Follows(heap_open_reserve(c))
    BY <2>2, Applied DEF heap_open_reserve
  <2> QED BY <2>1, <2>3 DEF os_alloc_bytes_slow, c
<1>4. CASE heap' = Bump(heap, a)
  BY <1>2, <1>4
<1>5. ASSUME NEW live \in Survivors(heap),
             heap' = LET h == os_alloc_bytes_slow(heap, a, live)
                     IN  IF Exceeds(h, a) THEN h ELSE Bump(h, a)
      PROVE  Follows(heap')
  <2> DEFINE h == os_alloc_bytes_slow(heap, a, live)
  <2>1. Follows(h) /\ h \in IntFields
    BY <1>3 DEF Follows
  <2>2. heap' = h \/ heap' = Bump(h, a)
    BY <1>5
  <2> HIDE DEF h
  <2> QED BY <1>2, <2>1, <2>2
<1> QED BY <1>4, <1>5 DEF os_alloc_bytes, a, Follows

\* Initially the soft end follows the flags.
LEMMA SharedInit == ASSUME Init PROVE SharedInv
<1>1. HeapInv(heap) /\ CtlType
  BY InitInv DEF IInv
<1>2. Addresses \cup {0} \subseteq Int
  BY Layout DEF Addresses
<1>3. tmp \in [Procs -> Addresses \cup {0}]
  BY <1>1 DEF CtlType
<1>4. tmp \in [Procs -> Int]
  BY <1>2, <1>3
<1> QED BY <1>1, <1>4 DEF SharedInv, HeapInv, CtlType

\* A step of any process keeps the types, and if the limit stops following the
\* flags, it is the store of heap_apply_soft_end with a limit that is not the one
\* called for.
LEMMA SharedStep ==
  ASSUME SharedInv, NEW p \in Procs,
         \/ AllocSmall(p) \/ ReplCollect(p) \/ EvalEntry(p)
         \/ \E r \in LargeRequests : LargePrimitive(p, r)
         \/ AllocHeader(p) \/ AllocBlock(p)
         \/ SignalEnter(p) \/ SignalLeave(p) \/ ApplySoftEnd(p)
  PROVE  /\ SharedInv'
         /\ SoftEndFollowsFlags /\ ~SoftEndFollowsFlags'
              => /\ pc[p] \in {"apply_in", "apply_out"}
                 /\ tmp[p] # SoftEndFor(heap)
                 /\ heap'.soft_end = tmp[p]
<1> DEFINE Quiet(q) == pc[q] \notin {"apply_in", "apply_out"}
<1>q. ASSUME Quiet(p), heap' \in IntFields, Follows(heap) => Follows(heap'),
             UNCHANGED tmp,
             \/ UNCHANGED pc
             \/ \E l \in {"run", "header", "block", "enter"} : pc' = [pc EXCEPT ![p] = l]
      PROVE  SharedInv' /\ (SoftEndFollowsFlags => SoftEndFollowsFlags')
  <2>1. SharedInv'
    BY <1>q DEF SharedInv
  <2>2. \A q \in Procs : pc'[q] \notin {"apply_in", "apply_out"} => Quiet(q)
    BY <1>q DEF SharedInv
  <2> QED BY <1>q, <2>1, <2>2 DEF SharedInv, SoftEndFollowsFlags, Follows
<1>0. heap \in IntFields
  BY DEF SharedInv
<1>1. CASE AllocSmall(p)
  <2>1. PICK n \in SmallSizes : os_alloc_bytes(n)
    BY <1>1 DEF AllocSmall
  <2>2. n \in Int
    BY HeapAssumption
  <2> QED BY <1>q, <1>0, <1>1, <2>1, <2>2, AllocFollows DEF AllocSmall, At
<1>2. ASSUME NEW live \in Survivors(heap), heap' = os_gc_collect(heap, live)
      PROVE  heap' \in IntFields /\ Follows(heap')
  BY <1>0, <1>2, CollectApplies DEF Follows
<1>3. CASE ReplCollect(p)
  BY <1>q, <1>2, <1>3 DEF ReplCollect, At
<1>4. CASE EvalEntry(p)
  BY <1>q, <1>0, <1>4 DEF EvalEntry, At, SignalTest, Goto
<1>5. ASSUME NEW r \in LargeRequests, LargePrimitive(p, r)
      PROVE  SharedInv' /\ (SoftEndFollowsFlags => SoftEndFollowsFlags')
  <2>1. Quiet(p) /\ UNCHANGED tmp
    BY <1>5 DEF LargePrimitive, At
  <2>2. heap' \in IntFields /\ (Follows(heap) => Follows(heap'))
    <3>1. UNCHANGED heap \/ \E live \in Survivors(heap) : heap' = os_gc_collect(heap, live)
      BY <1>5 DEF LargePrimitive
    <3> QED BY <1>0, <1>2, <3>1
  <2>3. \/ UNCHANGED pc
        \/ \E l \in {"run", "header", "block", "enter"} : pc' = [pc EXCEPT ![p] = l]
    BY <1>5 DEF LargePrimitive, SignalTest, Goto
  <2> QED BY <1>q, <2>1, <2>2, <2>3
<1>6. CASE AllocHeader(p)
  BY <1>q, <1>0, <1>6, AllocFollows DEF AllocHeader, At, Goto, INSTANCE_BYTES
<1>7. CASE AllocBlock(p)
  <2>1. PICK b : b = RequestBytes(req[p])
    OBVIOUS
  <2>2. b \in Int
    BY <2>1, SizeType, HeapAssumption DEF Overflow
  <2>3. os_alloc_bytes(b) /\ Quiet(p) /\ UNCHANGED tmp /\ pc' = [pc EXCEPT ![p] = "run"]
    BY <1>7, <2>1 DEF AllocBlock, At, Goto
  <2> QED BY <1>q, <1>0, <2>2, <2>3, AllocFollows
<1>8. CASE SignalEnter(p) \/ SignalLeave(p)
  <2>1. \E b \in BOOLEAN, q \in BOOLEAN, l \in {"apply_in", "apply_out"} :
          /\ heap' = [heap EXCEPT !.in_signal = b, !.pending = q]
          /\ tmp' = [tmp EXCEPT ![p] = SoftEndFor(heap')]
          /\ pc' = [pc EXCEPT ![p] = l]
    <3>1. CASE SignalEnter(p)
      BY <3>1 DEF SignalEnter, Goto
    <3>2. CASE SignalLeave(p)
      <4>1. heap.pending \in BOOLEAN
        BY <1>0 DEF IntFields
      <4>2. [heap EXCEPT !.in_signal = FALSE] = [heap EXCEPT !.in_signal = FALSE, !.pending = heap.pending]
        BY <1>0 DEF IntFields
      <4>3. /\ heap' = [heap EXCEPT !.in_signal = FALSE, !.pending = heap.pending]
            /\ tmp' = [tmp EXCEPT ![p] = SoftEndFor(heap')]
            /\ pc' = [pc EXCEPT ![p] = "apply_out"]
        BY <3>2, <4>2 DEF SignalLeave, Goto
      <4> QED BY <4>1, <4>3
    <3> QED BY <1>8, <3>1, <3>2
  <2>2. PICK b \in BOOLEAN, q \in BOOLEAN, l \in {"apply_in", "apply_out"} :
          /\ heap' = [heap EXCEPT !.in_signal = b, !.pending = q]
          /\ tmp' = [tmp EXCEPT ![p] = SoftEndFor(heap')]
          /\ pc' = [pc EXCEPT ![p] = l]
    BY <2>1
  <2>3. heap' \in IntFields /\ SoftEndFor(heap') \in Int
    <3>1. heap' \in IntFields
      BY <1>0, <2>2 DEF IntFields
    <3> QED BY <3>1 DEF SoftEndFor, IntFields
  <2>4. SharedInv'
    BY <2>2, <2>3 DEF SharedInv
  <2>5. SoftEndFollowsFlags'
    BY <2>2 DEF SharedInv, SoftEndFollowsFlags
  <2> QED BY <2>4, <2>5
<1>9. CASE ApplySoftEnd(p)
  <2>1. /\ heap' = [heap EXCEPT !.soft_end = tmp[p]] /\ tmp' = [tmp EXCEPT ![p] = 0]
        /\ pc[p] \in {"apply_in", "apply_out"} /\ pc' = [pc EXCEPT ![p] = "run"]
        /\ tmp[p] \in Int
    BY <1>9 DEF ApplySoftEnd, At, Goto, SharedInv
  <2>2. /\ heap' \in IntFields /\ heap'.soft_end = tmp[p]
        /\ heap'.in_signal = heap.in_signal /\ heap'.pending = heap.pending
        /\ heap'.floor_end = heap.floor_end /\ heap'.soft_end_normal = heap.soft_end_normal
    BY <1>0, <2>1 DEF IntFields
  <2>3. SharedInv'
    BY <2>1, <2>2 DEF SharedInv
  <2>4. SoftEndFor(heap') = SoftEndFor(heap)
    BY <2>2 DEF SoftEndFor
  <2> QED BY <2>1, <2>2, <2>3, <2>4 DEF SoftEndFollowsFlags
<1> QED
  BY <1>1, <1>3, <1>4, <1>5, <1>6, <1>7, <1>8, <1>9

\* Any number of processes, in any interleaving: the limit the allocator compares
\* with stops being the one the flags call for only when a process stores a limit
\* that others have changed since it loaded it (Heap!SoftEndLostOnlyByLateStore).
THEOREM LimitLostByLateStore == Spec => SoftEndLostOnlyByLateStore
<1> DEFINE A == SoftEndFollowsFlags /\ ~SoftEndFollowsFlags'
                => \E p \in Procs : /\ pc[p] \in {"apply_in", "apply_out"}
                                    /\ tmp[p] # SoftEndFor(heap)
                                    /\ heap'.soft_end = tmp[p]
<1>1. Init => SharedInv
  BY SharedInit
<1>2. SharedInv /\ [Next]_vars => SharedInv' /\ [A]_vars
  <2>1. ASSUME SharedInv, Next PROVE SharedInv' /\ A
    <3>1. PICK p \in Procs :
            \/ AllocSmall(p) \/ ReplCollect(p) \/ EvalEntry(p)
            \/ \E r \in LargeRequests : LargePrimitive(p, r)
            \/ AllocHeader(p) \/ AllocBlock(p)
            \/ SignalEnter(p) \/ SignalLeave(p) \/ ApplySoftEnd(p)
      BY <2>1 DEF Next
    <3> QED BY <2>1, <3>1, SharedStep
  <2>2. ASSUME SharedInv, UNCHANGED vars PROVE SharedInv'
    BY <2>2 DEF SharedInv, vars
  <2> QED BY <2>1, <2>2
<1> QED BY <1>1, <1>2, PTL DEF Spec, SoftEndLostOnlyByLateStore
=============================================================================
