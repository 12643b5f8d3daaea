# A verification project for isiki

isiki is an ISLisp system that runs on bare x86-64: UEFI boot, a kernel in C
(`src/src/c`), a Lisp runtime with a copying collector, an interpreter and a
compiler, four Lisp processes switched by the timer, each with a virtual
console, and file systems in Lisp (`src/src/lisp`). The modules here model the
parts whose correctness depends on the order of things (allocation and
collection, preemption, interrupts, the console, streams and the 9P client,
writing to a disk that can fail), the compiler against the evaluator, and the
library of integers, sequences and text. TLC checks them on small instances;
TLAPS proves the central invariants for every size.

Paths below are relative to the repository's `src/`.

## 1. Inventory

| component | state it keeps | operations | interacts with |
|---|---|---|---|
| Heap (`runtime.c`) | `g_from_*`, `g_to_*`, soft end, reserve flags, exhaustion mark | `os_heap_init`, `os_alloc_bytes`, `os_gc_collect`, `os_heap_signal_exhausted`, large primitives | every allocation; `os_eval` polls the mark; the REPL collects after each form |
| Collector (`runtime.c`) | To pointer, queue of grey objects, forward headers in From | `gc_copy_value`, scan by kind, function-cell fix-up, flip | roots from the shadow stack, the extra-root table, function cells, processes |
| Shadow stack (`runtime.h`) | a list of `gc_rootnode` per process | `GC_PROTECT`, its cleanup | reads `get_current_process()`, the process with the display focus |
| Scheduler (`process.c`, `interrupt.c`) | the run queue (a ring), a PCB and a stack per process, `g_za_stack_low` | `spawn`, `process_scheduler_start`, `c_timer_switch`, the stack check | preempts everything that runs with interrupts on |
| Frame buffers (`framebuffer.c`) | per buffer a ring of text rows, cursor, view offset; the pixels | `write_char`, scrolling, paging, switching, backspace | written by processes and by the keyboard handler |
| Console input (`interrupt.c`, `process.c`, `reader.c`, `repl.c`) | a line buffer per process, `prompt_shown`, the focus | keyboard handler, `os_read`, `os_wait_for_more_input`, `read-char` | keyboard interrupt against readers |
| FAT16/32 (`fat16.lisp`, `fat32.lisp`) | the disk, one cached table sector with a dirty flag, open file nodes | create, overwrite, extend, write through a node, read, make directory | IDE sectors below, streams and mount above |
| IDE (`ide.lisp`, `drivers/ide.c`) | device registers, a sector buffer | read and write a sector | FAT |
| Streams (`stream.c`, `stream_lisp.c`) | buffer, offset, pending characters | open, read, write, flush, close | console, FAT nodes, 9P fids |
| 9P (`virtio9p.c`, `drivers/virtqueue.c`) | session, fids, request and reply buffers, ring indices | open, create, read, write, close, load | streams, loader |
| Mount (`mount.c`) | table of mount points | resolve, dispatch by kind | 9P, FAT |
| Evaluator (`eval.c`) | environments, control-transfer exits, dynamic bindings | special forms, `catch`, `block`, `unwind-protect`, conditions | heap, compiler |
| Compiler (`za.c`) and transpiler (`transpile.lisp`) | code buffers | compile, patch, link | evaluator, stack limit |
| Reader, printer, arithmetic, symbols, environments, library, disassembler, boot | see `PROJECT.json` | mostly pure functions or straight-line I/O | |

What is hard here, and what makes each part correct:

* **Exhaustion.** The last bytes of a half-space are a reserve in which the
  condition handlers run. The mark that reports exhaustion is set in the
  allocator and consumed at the entry of `os_eval`; the flags and limits are
  globals shared by all processes. The size of an array is computed from
  dimensions that the program chooses. Correct: no allocation crosses the floor, the
  soft end is the one the flags call for, every use of the reserve is announced,
  and no size is too small for what will be written. That a set mark is consumed
  cannot be promised: compiled code does not look at it (`runtime.c`:5555), and a
  process at its prompt does not come to `os_eval` before its user types.
* **Collection.** Whether an object was moved is read from its first word, which
  for some kinds is raw data. Correct: the reachable graph after a collection is
  the one before it, nothing is copied twice, nothing overflows, and it ends.
* **Preemption.** The timer can switch between any two instructions of code with
  interrupts on; only some paths mask them. Correct: protected variables are
  roots, the ring has every process, a suspended process left its stack sound.
* **Interrupts against output and input.** The keyboard handler writes to the
  frame buffer that a process is writing to and appends to the line that a
  reader is resetting. Correct: indices stay in range, the cursor returns to the
  screen, every confirmed line is read once, in order, to the end.
* **Compiled code.** A function is interpreted until it is compiled, and callers
  must not notice. The compiler keeps values in cells of the frame, decides which
  cells are roots and for how long, and shares cells between forms. Correct: the
  same value, effects and exits as the evaluator, wherever the collector runs.
* **Remote files.** One request buffer, one reply buffer and one pair of
  descriptors serve all processes; a poll can give up and the answer come later;
  requests are refused, reads and writes are short. Correct: a reply answers its
  request, a stream is a cursor in its file, every call ends.
* **Representations.** Integers move between tagged words and limbs, the reader
  takes one character too many, arrays are laid out row by row. Correct: results
  are exact in one representation, what is printed is read back, what is written
  is read at that place only.
* **The disk.** A change takes sectors of the table (two copies), of data and of
  the directory; each may fail and power may be lost between any two. Correct:
  chains stay disjoint and complete, and a reported success is on the disk.

`PROJECT.json` lists the hazards line by line with the properties that cover them.

## 2. Modules

| module | models | lines of code behind it |
|---|---|---|
| `Heap`, `MCHeap` | allocator, limits, reserve, exhaustion signal | `runtime.c` 294-340, 526-577, 1607-1687, 3670-3687, 5466-5569, 10630-10845, 11142; `eval.c` 1157; `repl.c` 75 |
| `HeapProofs` | theorems about `Heap` | |
| `CopyingGC`, `MCCopyingGC`, `CopyingGCProofs` | the collection itself, on words | `runtime.c` 2900-3690 |
| `ShadowStack`, `ShadowStackProofs` | `GC_PROTECT` under preemption and focus changes | `runtime.h` 1260-1300, `process.c`, `interrupt.c` |
| `Scheduler`, `MCScheduler`, `SchedulerProofs` | processes, ring, stacks, timer switch | `process.c`, `interrupt.c` 555 |
| `Terminal` | abstract: a text of lines and a window on it | comments of `framebuffer.h` |
| `FrameBuffer`, `FrameBufferProofs` | the ring, incremental drawing, paging, switching | `framebuffer.c`, keyboard part of `interrupt.c` |
| `OutputRace` | with its theorems: `write_char` load by load against the keyboard and other writers | `framebuffer.c` 150-330 |
| `Console`, `ConsoleProofs` | keyboard handler, line buffers, prompt, readers | `interrupt.c`, `process.c` 440-474, `reader.c`, `repl.c` |
| `Fat16`, `Fat16Proofs` | writing to a FAT16 volume with failures and loss of power | `fat16.lisp`, `file-node.lisp`, `ide.lisp` |
| `Lisp` | objects, variables, function cells, live exits: the store | `runtime.c` 5760-6061 and the primitives used by programs |
| `Interpreter` | the evaluator | `eval.c` |
| `Compiler` | what the compiler decides before it emits code: accepted forms, captured and assigned variables, safe operands | `za.c` 1190-3176 |
| `Codegen` | the code emitted for each form | `za.c` 3177-7680 |
| `Machine`, `MCMachine` | compiled code at work, with the collector; the programs | `za.c`, `runtime.c` 6047 |
| `FileCursor` | abstract: a stream is a position in a file | what the functions of `stream_lisp.c` promise |
| `P9Client` | 9P messages, client, virtqueue | `p9.c`, `virtio9p.c`, `transport_virtio9p.c`, `drivers/virtqueue.c` |
| `Streams`, `MCStreams` | streams on host files, FAT files and strings | `stream.c`, `stream_lisp.c`, `mount.c` |
| `Fixnum` | tagged words | `runtime.h` 288-345, `runtime.c` 6732-7260, `za.c` 3220-3531 |
| `Bignum`, `Arithmetic` | limbs and the integer functions; programs that call them | `runtime.c` 6153-8983 |
| `Vectors` | lists, strings and arrays | `runtime.c` 9863-11497 |
| `Text` | objects that have a text; printer, `format`, reader, `read` and `load` | `print.c`, `format.c`, `reader.c`, `load.c` |
| `MCLibrary` | the last three on small instances | |

How they fit together: `Heap` treats a collection as "keeps any amount of the
data, in whole units" and `CopyingGC` shows what a collection does to the data.
`ShadowStack` is about where the roots that `CopyingGC` is given come from.
`FrameBuffer` runs every call to completion and is shown to implement
`Terminal`; `OutputRace` takes the counters of one buffer and cuts `write_char`
into loads and stores. `Console` produces the characters, `FrameBuffer` shows
them. `Scheduler` is what justifies the interleaving and the fairness of the
other modules. `Machine` extends `Interpreter` and `Codegen`: the same program is
run by both. `Streams` extends `P9Client` and is shown to implement `FileCursor`.
`Text` extends `Bignum`, whose integers it prints and reads. A proof module extends
the module it is about.

### Correspondence of state and actions

* **Heap.** The record `heap` holds the C globals. `os_alloc_bytes` and
  `os_gc_collect` run with interrupts off and are single steps. The signal path
  runs with interrupts on, so the test of `g_in_heap_signal` (`SignalTest`), its
  setting (`SignalEnter`), its clearing (`SignalLeave`) and the load and store of
  `heap_apply_soft_end` (`ApplySoftEnd`) are separate steps of a process. A large
  request is a list of dimensions; `vector_block_bytes` multiplies them, adds one
  word for the rank and one for each, and multiplies by 8, in words modulo `WordSize`,
  each step with the check the code makes (`Checked`). `Overflow` is what the
  code returns when a check fails. An address plus a size wraps too (`Wrap`).
* **CopyingGC.** Memory is a function from addresses to sequences of words, words
  are integers with their tag bits, so a raw length can look like a forward
  header. One step per copied word or relocated block. Roots, function cells
  and the queue are as in the code, a full queue or To space halts. A heap a collection
  may find is `WellFormed`: the tag of a reference says what is at the address, a
  block has one owner, word 0 of a string is less than any address of the heap.
* **ShadowStack.** A node is a C frame `<<process, depth>>`, reused by the next
  call at that depth. `get_current_process` is the focus, not the running process.
  Every process evaluates, and the focus may move at any step. `GC_PROTECT` is
  the load of the head (`ProtectInit`) and the store of the node (`ProtectLink`). A
  finer cut adds nothing: between the load of the focus and the access to the list
  of that process others do only what they could have done just before. `audited`
  is the code's own audit (`g_gc_lifo_violations > 0`). `lost` is a history variable: some node
  was linked when its successor was no longer the head.
* **Scheduler.** A cell of the ring per process; `c_timer_switch` is one step
  with its stack check, its panic, and the update of the limit used by compiled code.
* **FrameBuffer / Terminal.** A monitor cell holds a character, black, the
  cursor, the indicator, or two glyphs over one another (`draw_char` clears
  nothing).
* **OutputRace.** Every statement that reads and writes a counter is a load and a
  store; the value compared is the one loaded.
* **Console.** The handler is one step; `reset_line` is three, `ensure_data`
  several. What the reader makes of characters is left open.
* **Fat16.** A cluster is one sector. Each `write-sector` is a step. `cache` is
  `*fat16-fat-cache-lba*`, `-bytes*` and `-dirty*`; `op` is the operation in
  progress, its `pc` names the function it is in; `node` is an open
  `<fat16-file-node>`. The loop that walks a chain, the search for a free cluster
  and the linking are one table entry per step, because each entry can force the
  cached sector out. Names are model strings and the directory is the root
  directory: paths, 8.3 conversion and the bytes of entries are left out. A
  failed transfer of a data or directory sector is a failed write; reads of
  directory and data sectors are taken to succeed. `write-from!` is walked from
  the start of the chain where the code may resume from the cluster it
  remembers in the node. Two variables are the model's own: `early` holds the
  directory slots written while a table sector was pending, `lossy` says that
  the reader of an entry was given nil, or that power was lost while `early` was
  not empty.
* **Lisp, Interpreter.** A form is a tuple, already macro-expanded where the
  compiler would find it so; a value is a tagged tuple; the store holds frames,
  dynamic variables, function cells, live blocks, and the effects so far. An
  operator returns the value and the store, and a control transfer is a value,
  as in the code.
* **Compiler, Codegen.** `za_try_compile_defun` gives the instructions of a function,
  or refuses it. An instruction is a tuple that stands for the few machine
  instructions the C function emits; cells of the frame are offsets, as in the
  code, so that cells shared by mistake are shared here.
* **Machine.** `acts` is the stack of activations, `rax` the register, `head` the list
  of roots that `za_gc_link` and `za_gc_unlink` change. Where a helper allocates, the
  collector may run: every heap value in a cell that is not a root becomes
  `Stale`. `code` is what `Codegen` makes of the program, `expected` what `Interpreter`
  makes of it.
* **P9Client, Streams.** A message is a record; its length is what the parser compares.
  Building, sending, waiting and parsing are separate steps, with interrupts off
  between send and receive only. `todo` holds the requests an operation has still
  to make. `beyond` collects what has happened for which the code has no
  provision: a poll that gave up, a short write, bytes read ahead before a write,
  and so on; each is named where it is set.
* **Bignum, Arithmetic.** An integer is a tagged word or a sign and a sequence of
  limbs, as in the code; width of tag, word and limb are constants. `acc` is the
  result of the last call and `exact` the integer it should be.
* **Vectors.** `store` is the memory, `expected` what each object should contain at
  each tuple of indices.
* **Text.** Characters are strings of length one. `cc_format` makes the text,
  `os_read_stream_ex` reads it, `limit` is where the stream fails.

## 3. Runs

All bounds are constants of the configurations. `pass` unless noted.

| run | question | bounds |
|---|---|---|
| `heap` | one process: limits, reserve, mark, signal, sizes of arrays; two processes: what can make the soft end disagree with the flags | one process: halves of 384 bytes, reserve 48, floor 16, ten large requests, among them dimensions whose product, sum with the rank, or product with 8 wraps, with and without a zero; two: halves of 128, reserve 16, floor 0, two large requests; words of 12 bits; handlers nested twice |
| `gc` | graph preserved, copied once, queue suffices, ends | about 7,500 heaps: every way to link two conses, a vector and a string whose length looks like a forward header, and one object of each other kind; two collections in a row, halves that fill up |
| `shadow_shared` | the roots are exactly the protected variables until a link or a cleanup finds another head than it assumes | three processes, any focus changes, two nested scopes each; nothing is explored beyond such a step, where the properties say nothing |
| `scheduler` | ring, stacks, limit of compiled code, turns | four processes (`PROCESS_COUNT`), stacks of four words with a margin of two |
| `framebuffer` | the ring and incremental drawing implement `Terminal`, backspace included | two buffers of 2x2 cells, three history rows, nine characters: the ring wraps |
| `output_one_writer` | ring and cursor of one writer interrupted anywhere | three rows, two columns, seven history rows; no bound on the behaviour |
| `console` | lines read once, in order, to the end, and a prompt before each wait | two REPLs, one of which also calls `read-char`; a buffer of three characters, three keys and any focus changes |
| `fat16_files` | chains disjoint and complete, reports true, nothing left behind | five clusters in two table sectors, two copies, two files and a directory, lengths 0 to 3 clusters, three operations, two failures or losses of power anywhere |
| `compiler` | compiled code does what the evaluator does, uses no stale value, leaves no root behind, returns | 595 programs: each special form in its variants, 322 pairs of one form inside another, 242 with a `go` out of an open form; two collections anywhere |
| `compiler_let` (violation) | a cell that is a root is not linked again | one program |
| `streams` | replies answer requests, fids are accounted for, a stream is a cursor, operations end | one process, four operations, a write buffer and a read chunk of two bytes, one refused request, one poll that gives up, short reads and writes, ring indices modulo 4 |
| `library` | integers exact; sequences as written; text read back; `load` complete | fixnums of three bits and limbs of two, integers up to 40 in nine values on either side of each boundary; three objects of five elements; two forms out of 40, tokens of ten characters, a stream that fails anywhere |

Bounds and why they suffice. Of the two table sectors the first has the entries
of two clusters and the second of three: a file of two clusters lies in one
sector and leaves a failed flush pending there, a file of three crosses the
boundary, so that the cached sector is forced out in the middle of the search,
the linking and the walk. Five clusters fill up with two files. Two failures let
a retry meet what the first one left. In the frame buffer the counters are compared with
`rows` and `hist_rows` only, and the runs reach every wrap. In the collector a
heap with four objects that can be linked in any way has all sharing and cycles
of a binary graph up to that size. In `compiler` a program is a shape of code the
compiler has a case for, and the pairs put every such form where the cells of
another one are open. Two pairs are left out, a quasiquote in a quasiquote and an
`flet` in an `flet`, as are assignment inside an `flet`, a let in a later initial value, and
a `go` that leaves a linked cell which the code after it links again. A stream of four operations opens a file, fills a buffer
of two bytes and still has one operation to find it wrong. With fixnums of three
bits and limbs of two, numbers of one to three limbs and every carry occur below
40; the code does not look at the widths except through these constants.

`CHECK_DEADLOCK FALSE` is used where the system may stop: a halted machine
(heap, scheduler), a bound on keys, characters or operations.

### What the violation run shows

`compiler_let`: `za_compile_let` compiles the initial values with the scopes around
the let (`za.c`:4404). A let inside the second value has therefore the same depth
as the let being compiled, and the same cells: it overwrites the first variable
and links its cell again. `(let ((a 1) (b (let ((c 5)) c))) a)` gives 5 when
compiled and 1 when interpreted. `compiler` contains no such program.

### Further configurations

These are kept beside the modules and can be run with
`tlc -config X.cfg M`; each one shows a disagreement.

| configuration | what it shows |
|---|---|
| `MCHeap_nested` | `g_in_heap_signal` is shared: a process in no handler gets EVAL-ERROR because another one is signalling (`runtime.c`:5468) |
| `MCHeap_large` | `primitive_create_vector` checks the block, then allocates the header first: the block can end in the reserve (`runtime.c`:10836) |
| `ShadowStack_audit` | a list of roots breaks before the audit of the cleanup has counted anything (`runtime.h`:1287) |
| `OutputRace_two` | two writers: the cursor can stay below the last row (`framebuffer.c`:289) |
| `OutputRace_view` | a stale store of `count` after an echo and a page-up leaves the view above the oldest row (`framebuffer.c`:165) |
| `Fat16_retry` | after a failed flush the same `fat16-write-file` tried again reports t without a flush (`fat16.lisp`:949): the new clusters are in the cached table only, and a loss of power cuts the file |
| `Fat16_evict` | the nil of a failed table access ends a chain like an end mark (`fat16.lisp`:270): a write reports success for a truncated file |
| `Fat16_shared` | a file written by path while a node for it is open: the size in the node is stale and the file is cut (`fat16.lisp`:640) |
| `MCMachine_go` | a `go` out of an open let or argument list leaves its cells linked, and the list of roots closes on itself (`za.c`:7232) |
| `MCMachine_flet` | a variable assigned only inside an `flet` is copied, not boxed (`za.c`:2692): the assignment is lost |

`MCMachine_go`: `za_compile_let`, `za_compile_call` and the operands hand the tagbody on to
the forms inside them, and `za_compile_go` (`za.c`:7232) refuses only to leave open levels of
`catch` and `unwind-protect`. A jump out of a let, an argument list or an operand leaves
its cells on the list of roots. If the next turn, or a form after the tag, links
one of them while it is the head, the node becomes its own successor:
`(tagbody top (let ((a i)) ... (if ... (go top) 0)))`. The next collection follows the
list for ever. `compiler` keeps the jumps after which no such cell is linked again: the
14 forms that a `go` can leave, left forwards and followed by any of the 18, less the 18 pairs in
`ForwardPrograms`, and those left backwards that have no cell linked.

`ShadowStack_audit`: process 0 loads the head of the list, which is a node of process 1; a tick;
process 1 cleans up; process 0 links its node to the dead one; process 1 protects
a variable in the same frame, whose node now points to the node of process 0, which
points back. No cleanup has met a wrong head, so the audit of `gc_unprotect_node`
(`runtime.h`:1265) counts nothing, and the next collection does not end.

Four more disagreements shape the statement of a property instead of breaking
it: a character erased with backspace comes back at the next redraw
(`ImplementsTerminal` lets the cell be black); `prompt_shown` is shared, so a REPL may
wait with its prompt on another screen (`PromptBeforeWait`); `read-char` of a process
without the focus takes the characters of the one that has it (`stray` in
`LinesInOrder`); and `load` forgets the delimiter after an atom (`lost` in `LoadedInOrder`).
Others were met in reading and are kept out of the programs and inputs:

* compiled code and evaluator: `setq` of a constant; `#'` of an undefined name;
  `return-from` a block that has ended; a quasiquote inside an unquote; an `flet` in
  an `flet`; a rest parameter captured by a lambda; arguments are evaluated before
  the function is looked up; `(+ x)` is not compiled;
* integers: `div`, `mod`, `gcd`, `lcm` and `isqrt` of something that is not an integer use
  an empty magnitude (`runtime.c`:6352);
* sequences: `(elt nil 0)` is a domain error, `make-array` ignores dimensions after the
  eighth, `length` of a circular list does not end;
* text: strings of 128 characters and more are cut (`reader.c`:348); `#2A()` reads back
  with other dimensions than a 0 by 3 array has; a symbol named `READ-ERROR` inside a
  list makes the list a read error; `~B` and `~X` print a bignum in decimal; a form nil
  at the top level ends `load` without a word (`load.c`:73).

## 4. Fairness

* `CopyingGC`: the collection is one uninterrupted piece of C, so weak fairness
  of `Next`.
* `Scheduler`: `spawn` at boot is straight-line code, and the timer keeps
  ticking; a process itself owes nothing.
* `Console`: weak fairness of each reader, from the round robin of the timer.
  The user owes nothing: keys have no fairness.
* `Machine`: one process runs compiled code, which the timer gives its turns: weak
  fairness of `Next`.
* `Streams`: each process goes on with its operation, and the host serves the queue.
  The code does not depend on the latter, as a poll gives up after
  `VIRTQ_POLL_SPIN_LIMIT` turns; the model bounds the number of polls that do, so the
  host has to answer the others. Programs need not start another operation.
* `Heap`, `FrameBuffer`, `OutputRace`, `ShadowStack`, `Fat16` have safety properties only.

## 5. Proofs

Each theorem is `Spec => []P` for the property `P` of the same line (and
`Spec => ImplementsTerminal` for the refinement), for every value of the constants.

| theorem | property | for every |
|---|---|---|
| `HeapProofs!TypeCorrect`, `AllocationSafe`, `CollectionHasRoom`, `ReserveAnnounced`, `ClearedServed` | `TypeOK`, `AllocationStaysBelowFloor`, `SurvivorsFit`, `ReserveIsAnnounced`, `ClearedRequestsNeverPanic` | base, size, word size, reserve, floor and requests; one process |
| `HeapProofs!LimitLostByLateStore` | `SoftEndLostOnlyByLateStore` (the run checks it of its second heap, as `SharedSoftEndLostOnlyByLateStore`) | the same, and number of processes |
| `CopyingGCProofs!OneCopy`, `NothingLeft`, `GraphKept`, `CollectorTypes` | `CopiedOnce`, `BlackPointsToTo`, `GraphPreserved`, `TypeOK` | well-formed heap, with any sharing and cycles, size of the halves, capacity of the queue, number of collections |
| `ShadowStackProofs!ListsAlwaysEnd`, `ProtectedVisited`, `DeadNotVisited` | `ListsEnd`, `ProtectedAreRoots`, `NoDeadRoots` | number of processes and depth of scopes, interleaving and movement of the focus |
| `SchedulerProofs!RingIsRotation`, `StacksSound`, `LimitIsCurrents` | `RingShape`, `SuspendedStacksSound`, `StackLowIsCurrents` | number of processes and layout with disjoint stacks |
| `FrameBufferProofs!ScreenImplementsTerminal` | `ImplementsTerminal` | screen, history, set of buffers, characters and writes |
| `OutputRace!RingSafe` | `RingInBounds` | number of writers and dimensions |
| `OutputRace!CursorSafe` | `CursorOnScreen` | dimensions; one writer |
| `ConsoleProofs!LinesReadInOrder`, `PromptShown` | `LinesInOrder`, `PromptBeforeWait` | number of processes, characters, buffer size and keys |
| `Fat16Proofs!ChainsStayApart`, `VolumeStaysConsistent` | `ChainsAreDisjoint`, `VolumeConsistent` | volume, table sectors and copies, directory, lengths, operations and failures, shared files included |
| `Fat16Proofs!NothingIsLeft` | `NothingLeftBehind` | the same, no file written by path while a node for it is open |
| `Fat16Proofs!WritesAreOnDisk` | `ReportedWritesAreOnDisk` | the same, and size of a cluster and contents |

The arguments:

* **Heap.** `IInv == HeapInv(heap) /\ CtlType /\ \A p : ProcInv(p)`. `HeapInv` says
  that the halves are equal, aligned and disjoint, that soft end and floor lie
  where the flags put them, and that the pointer is below the floor, which gives the
  addresses their ranges; `ProcInv` ties a value loaded and not yet stored to the state
  it came from, and a request that was cleared and is not yet allocated to the room
  there is for it, now or after a collection. Without it the store of
  `heap_apply_soft_end` could write anything. The hypothesis `Procs = {p}` of these
  theorems is one the code does not guarantee; with several processes the store can come
  late, and `LimitLostByLateStore` says, without the hypothesis, that nothing else makes
  the soft end disagree with the flags. `SharedInv` is what is left of the invariant for
  it. The lemmas take the allocator apart (`AlignUp`, `Layout`, `UpdateSoftEnd`, `Collect`,
  `OpenReserve`, `BumpOk`, `AllocBytes`), `StepInv` has one step per action.
* **CopyingGC.** `GInv(K)` says what is where in the middle of a collection; `K` gives the
  kind of every object and block by its identity, which copies inherit. An object of
  the From space is moved if its word 0 is a forwarding header into the To space
  (`Moved`). Everything not moved has the layout of its kind, and each of its values
  refers to something of the right kind (`Sound`): this is what makes the test of
  `gc_copy_value` right, for no word 0 of a proper object can read as a header
  (`NotForwarded`: values have other tags, magic numbers end in 0xE, lengths lie below
  the heap). A header leads to the copy with the same identity, and what has no
  header has no copy (`Forwarding`). A block has no header: it is copied once
  because it has one owner (`Owned`) and, until that is scanned, is still in the From
  space without a copy (`Waiting`). Every copy is in the queue or has been scanned
  (`Queued`), and what has been scanned refers to the To space but for the words
  listed in `fields` (`Done`). `CopyObject` and `PopObject` are the two ways the heap
  changes; `ScanStep` reduces the four scanning rules to the second, and it is there
  that every word which holds a value must be among those scanned (`ScannedValues`).
  The flip keeps the invariant because the queue is empty (`AllScanned`). TLC checked
  `GInv` on the heaps of the run first.

  `GraphPreserved` speaks of contents. `ContentsInv` adds to `GInv` that what has not
  been moved holds, word by word, what it held in the heap of the first collection
  (`Faithful`): the same plain words, references to things of the same identity
  (`Alike`), and that the roots and cells mean what they meant (`Meant`). A copy is
  alike when it is made and when its words are redirected (`FaithWord`, `FaithTwo`), so
  each rule of the scan keeps `Faithful`. This is not yet the graph, which is
  what a recursive function reaches in as many levels as there are objects. That
  function exists (`LevelsExist`); as each level that adds nothing ends the search, it
  yields the least set that holds the roots and is closed (`LevelsFill`, `LiveIsLeast`).
  At rest the set of things that have a partner in the other heap is such a set, on
  both sides, and partners have the same contents: the two graphs are equal (`SameGraph`).
* **ShadowStack.** There is no hypothesis on who runs or on the focus. `IInv` says that,
  until a link or a cleanup meets another head than it assumes, the lists are stacks:
  there is a numbering of their nodes from the end (`Stacked`) such that each node in
  scope is on one list at one place, and is linked to the one below it. A link is a
  push (`Pushed`), a cleanup a pop (`Popped`), and to initialise a node that is on no list
  changes nothing (`Initialised`). What the collector visits is a walk along `next`
  fields, a function defined by recursion: `FromHead` and `Reached` say what it returns
  after k steps, and no list is longer than there are nodes (`ListsAreShort`).
* **Scheduler.** `IInv` is the type invariant, `RingShape`, `SuspendedStacksSound`,
  `StackLowIsCurrents`, and that no process runs before all are spawned: the
  timer is enabled last, and until then the ring may be incomplete.
* **FrameBuffer.** The mapping to `Terminal` is a function of the state, and every
  step is shown to map to a step of the terminal or a stutter. Its invariant says
  that each buffer is a ring with its counters in range (`Sound`), that nothing
  has been written beyond the cursor (`Fresh`: an opened row need not be cleared),
  and that the monitor shows the window of the focused buffer (`Shows`). Each
  kind of step moves the window, the ring or the monitor, and has a lemma for each
  of them; that the monitor drawn a cell at a time equals the picture drawn at once
  is where the work is.
* **OutputRace.** `RingInv` adds to `RingInBounds` that a loaded count is in range;
  it holds for any writers because a store only ever writes a value that was
  tested. `CursorInv(w)` says for each point of `write_char` how far the cursor may
  be off; it needs that no other writer moves it.
* **Console.** `LinesInOrder` compares what was read with what was confirmed. The
  invariant says that what was confirmed is what was read followed by the buffer
  from `read_pos` on (`Unread`), or that a line is still being typed (`LineOpen`), at
  each point of `reset_line` between its three stores. `PromptBeforeWait` needs to
  know, at each point of `ensure_data`, whether the shared `prompt_shown` may have
  been set or reset by others since it was read.
* **Fat16.** There are always two tables, the disk's (`Table`) and the driver's
  (`View`, with the pending sector patched in). `FInv` says of both that no two
  entries point to one cluster and none to a free one (`Linear`), and that every
  start, in the directory, in the node or held by the operation, is a cluster in
  use that nothing points to (`Root`) and that no other directory entry has. The clusters
  an operation has taken are in use and not yet reachable (`Taking`), which is what
  a failure at any point leaves behind. A flush makes `Table` equal to `View`, a
  restart `View` equal to `Table`. Two chains of a linear table from different
  roots do not meet (`ChainsApart`, by induction along both).

  `VolumeConsistent` needs more. A chain from a root never repeats a cluster, so by
  counting it is at most as long as the volume and ends in an end mark
  (`ChainInjective`, `ChainBound`, `ChainEnds`). `LInv` adds lengths: unless an entry
  was lost, every chain is long enough in the driver's table, and on the disk but
  for the entries in `early`; what an operation has counted, walked, taken and
  linked so far adds up to what it will need (`Needs`, `Walked`, `Extending`,
  `Extended`). Setting an entry that points nowhere shortens no chain (`LongKept`).
  TLC checked `LInv` on the instance of `fat16_files` first. The first attempt, without
  `early`, could not be completed: the state it got stuck on is reachable, and is
  the one `Fat16_retry` shows.

  `NothingLeftBehind` is about what an operation is doing to whom. `NamesInv` says that
  no two entries have one name and that the operation, the node and the entry they work
  on belong to one file; it is where two writers of one file are excluded, which the code
  does not exclude and `Fat16_shared` shows to lose data. `TaskInv` says that both
  start where the directory says, and that what was walked before data are written or
  read is the beginning of the chain. Then, as long as nothing fails, every cluster in use
  is in the chain of an entry, in that of the operation, or among those it has taken
  (`Accounted`), the copies of the table agree outside the cached sector
  (`CopiesAgree`), and a sector is pending only between the first allocation and the
  flush (`Tidy`). Chains only grow (`ChainsGrow`), and what is linked to one is in it
  (`LinkedInChain`).

  `ReportedWritesAreOnDisk` compares bytes, so `Holds` says where each is. Byte p of a
  file is in the cluster at `Place(p)` of its chain. A file whose content is known
  holds it along the driver's table (`KnownHeld`), and the disk's table has the same
  chain as far as the size reaches (`DiskFollows`) but for the entries in `early`,
  those the property excludes: a restart then forgets nothing that was
  reported. While a file is being written it is not among the known ones, and
  the invariant follows it: until its data are written the file has its old bytes, and
  an extension through a node keeps those outside the range it writes (`OldKept`); of
  the new ones, those in clusters already written are there (`NewWritten`). `NodeSized`
  says that the node's size is the directory's, which decides how much of the file
  is old; it fails once the file is written by path beside the node, hence the
  assumption `~SharedFiles` of both theorems. A sector written for one file changes
  no byte of another because chains do not meet, and setting an entry of the table
  leaves every chain as far as it was counted: `ChainsApart` and `LongKept` again.

Induction. The theorems of the library about induction take operators as
parameters, which the provers cannot instantiate. `Fat16Proofs`, `ShadowStackProofs` and `CopyingGCProofs` prove it for
sets (`SetInduction`), from the well-foundedness of the naturals. A recursive function is a
CHOOSE, so its defining equation holds only once some function satisfies it: in
`Fat16Proofs` because an iterated function exists (`IterationExists`), in
`ShadowStackProofs` because the numbering says which function it is.

Assumptions are the named `ASSUME`s of the modules: positive dimensions, disjoint
stacks, a word wide enough for the addresses of the heap, a reserve at least twice
the floor, small objects of at most 64 bytes, requests of at most eight dimensions (`RequestAssumption`), cluster numbers below the end marks of
a 16-bit table, directory slots numbered from 1 and no file with the name of a free
one. TLC evaluates them.

Only model-checked:

* `Heap`: `ElementsFit`, an induction over the dimensions; the theorems take from
  `vector_block_bytes` that what it returns is a word or `Overflow`;
* liveness: `CollectionEnds`, `EveryProcessRuns`, `LineIsRead`,
  `Terminates`, `OperationsEnd`. The prover has no rules for fairness;
* `CopyingGC`: that the machine does not halt, which is part of `CollectionEnds` (the queue
  suffices for the heaps of the run only: the code stops on a heap with more live objects than
  the queue has room for);
* `Machine`, `Streams` with the refinement of `FileCursor`, and `MCLibrary`: `Interpreter`,
  `Codegen`, `Bignum`, `Vectors` and `Text` are recursive operators over programs,
  limbs and characters, which the prover does not take, and the others extend them.

## 6. Not modelled

Instruction encodings, relocation and disassembly, boot, PCI and port I/O
(straight-line device access), the benchmarks, the build-time transpiler. Inside
the modelled parts:

* pixels, colours and fonts; whether a glyph is drawn on the screen of another
  buffer when the focus moves in the middle of `write_char`;
* the registration of extra roots, which happens at boot and when a stream is made;
* floating point numbers, in the arithmetic, the printer and the compiler;
* macros, declarations other than that of fixnums, classes and the handlers of
  conditions in the evaluator; the stack guard of compiled code;
* several processes in `Streams`: the modules allow them, and the properties are
  stated up to the first overlap of two calls, but the instance with two is too
  large for TLC;
* `format` to a FAT file while the collector runs, which its comment
  (`format.c`:158) calls a known defect: `Text` has no collector;
* FAT32, long names, subdirectories and partitions; matching of paths with mount
  points; the port protocol of IDE.

## 7. Plan

1. **Proofs.** The fast paths of `Fixnum` exact for every width.
2. **Files.** Subdirectories in `Fat16` and the FAT32 differences (growing a directory,
   long names, the free-cluster hint). Properties: no garbage entries after power
   loss.
3. **Conditions.** Handlers, `with-handler` and dynamic bindings across processes.
