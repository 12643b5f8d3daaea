------------------------------- MODULE MCHeap -------------------------------
(* Heap for one process, with halves of 384 bytes and words of 12 bits,    *)
(* and for two, with halves of 128.  Dimensions are below WordSize / 32,   *)
(* as the magnitudes of fixnums are below 2^59.                            *)
EXTENDS Heap

MCSmallSizes == {16, 32}

Array(dims) == [header |-> TRUE, dims |-> dims]
String(len) == [header |-> FALSE, dims |-> <<len>>]

MCLargeRequests ==
  {Array(<<>>), Array(<<6>>), Array(<<3, 13>>), Array(<<0, 64, 64>>),
   String(120),
   Array(<<100, 5>>),     \* added to a pointer, its size wraps
   Array(<<64, 64>>),     \* the product wraps to 0
   Array(<<63, 65>>),     \* wraps when the rank and the dimensions are added
   Array(<<64, 8>>),      \* wraps when multiplied by 8
   Array(<<64, 64, 0>>)}  \* wraps before the zero

\* Two processes share a smaller heap, with fewer requests.
CONSTANTS Sharing, SharedSize, SharedReserve
MCSharedRequests == {Array(<<6>>), String(120)}

VARIABLES instance, heap2, panicked2, pc2, sig2, tmp2, req2, outcome2

vars2 == <<heap2, panicked2, pc2, sig2, tmp2, req2, outcome2>>

Shared == INSTANCE Heap WITH
  Procs <- Sharing, HeapSize <- SharedSize, LargeRequests <- MCSharedRequests,
  HEAP_SIGNAL_RESERVE <- SharedReserve, HEAP_HARD_FLOOR <- 0,
  heap <- heap2, panicked <- panicked2, pc <- pc2, sig <- sig2,
  tmp <- tmp2, req <- req2, outcome <- outcome2

\* Each behaviour runs one of the two heaps and leaves the other as it starts.
MCInit == instance \in {"alone", "shared"} /\ Init /\ Shared!Init

MCNext ==
  \/ instance = "alone" /\ Next /\ UNCHANGED <<instance, vars2>>
  \/ instance = "shared" /\ Shared!Next /\ UNCHANGED <<instance, vars>>

MCSpec == MCInit /\ [][MCNext]_<<instance, vars, vars2>>

\* Two processes: the limit stops following the flags only when the store of
\* heap_apply_soft_end comes late (Heap!SoftEndLostOnlyByLateStore).
SharedSoftEndLostOnlyByLateStore == Shared!SoftEndLostOnlyByLateStore
=============================================================================
