------------------------------- MODULE Fat16 --------------------------------
(***************************************************************************)
(* Writing to a FAT16 volume (src/lisp/fat16.lisp): files are created,     *)
(* overwritten, extended and written through an open node, directories are *)
(* created, all with one cached sector of the file allocation table that   *)
(* is written back to every copy of the table when another sector is       *)
(* needed or an operation asks for it.                                     *)
(*                                                                         *)
(* Every write-sector is a step of its own: it may fail, and the machine   *)
(* may stop before or after it.  The operations run one at a time, as they *)
(* do when one process uses the volume.                                    *)
(*                                                                         *)
(* A cluster is one sector of ClusterSize bytes.  The directory is the     *)
(* root directory, one sector of Slots entries; its content is a function  *)
(* from slots to entries.  An entry of the table is 0 for a free cluster,  *)
(* a cluster number, or at least EndOfChain; entries 0 and 1 belong to no  *)
(* cluster and are marks.                                                  *)
(***************************************************************************)
EXTENDS Integers, Sequences, FiniteSets

CONSTANTS
  TotalClusters,     \* data clusters of the volume, numbered from 2
  EntriesPerSector,  \* table entries in a sector
  NumFats,           \* copies of the table
  ClusterSize,
  Slots,             \* entries of the root directory, a set 1..n
  FileNames, DirNames,
  Lengths,           \* lengths of the byte vectors written
  Faults,            \* what may fail: a "write" of the operation itself, a "read" of
                     \* the table, the write of a sector on its "evict"ion from the
                     \* cache; "restart" is a loss of power
  SharedFiles,       \* may a file be written by path while a node for it is open?
  MaxOps, MaxFaults  \* bounds: operations, and failures and restarts together

EndOfChain == 65528
EndMark    == 65535

\* An entry of the directory that belongs to no file.
NoName == "unused"

\* Entries are 16 bits wide: a cluster number is no end mark.  No file has the
\* name of an unused entry; slot 0 is none.
ASSUME FatAssumption ==
  /\ TotalClusters \in Nat \ {0} /\ TotalClusters + 1 < EndOfChain /\ EntriesPerSector \in Nat \ {0}
  /\ NumFats \in Nat \ {0} /\ ClusterSize \in Nat \ {0}
  /\ Lengths \subseteq Nat /\ MaxOps \in Nat /\ MaxFaults \in Nat
  /\ FileNames \cap DirNames = {} /\ NoName \notin FileNames \cup DirNames
  /\ Slots \subseteq Nat \ {0}
  /\ Faults \subseteq {"write", "read", "evict", "restart"} /\ SharedFiles \in BOOLEAN

Names    == FileNames \cup DirNames
Clusters == 2..(TotalClusters + 1)
Entries  == 0..(TotalClusters + 1)

\* The sector of the table that holds the entry of a cluster.
Sector(c) == c \div EntriesPerSector
NoSector == -1
NoEntry  == -1

VARIABLES
  fats,    \* copy of the table -> number -> entry, on the disk
  data,    \* cluster -> bytes, on the disk
  dir,     \* slot -> [name, start, size], on the disk
  cache,   \* *fat16-fat-cache-lba*, -bytes*, -dirty*
  op,      \* the operation in progress
  node,    \* the open <fat16-file-node>: slot (0 when none), start, size
  known,   \* files whose content the last operation on them determined
  want,    \* file -> that content
  full,    \* has an operation run out of clusters?
  early,   \* slots whose entry was written while a sector of the table was pending
  lossy,   \* has the reader of an entry been given nil, or has the machine stopped
           \* with such a slot?
  ops, faults

disk == <<fats, data, dir>>
book == <<known, want, full, early, lossy>>
vars == <<disk, cache, op, node, book, ops, faults>>

(***************************************************************************)
(* The cached sector.  <<>> stands for the nil of a failed read.           *)
(***************************************************************************)
EmptyCache == [lba |-> NoSector, bytes |-> <<>>, dirty |-> FALSE]
SectorOf(table, s) == [c \in {k \in Entries : Sector(k) = s} |-> table[c]]
Patched(table, bytes) ==
  [c \in Entries |-> IF c \in DOMAIN bytes THEN bytes[c] ELSE table[c]]

NilEntry == -1
fat_entry(c) == IF cache.bytes = <<>> THEN NilEntry ELSE cache.bytes[c]
Ends(entry)  == entry = NilEntry \/ entry >= EndOfChain

\* %fat16-set-fat-entry, once its sector is the cached one.
set_fat_entry(c, value) ==
  /\ cache.bytes # <<>>
  /\ cache' = [cache EXCEPT !.bytes[c] = value, !.dirty = TRUE]

(***************************************************************************)
(* Sizes and contents.                                                     *)
(***************************************************************************)
cluster_count_for_bytes(n) ==
  IF n = 0 THEN 0
  ELSE IF n % ClusterSize = 0 THEN n \div ClusterSize ELSE (n \div ClusterSize) + 1

\* Sector k of a whole-file write, padded with zeros.
Chunk(bytes, k) ==
  [j \in 1..ClusterSize |->
     LET p == (k - 1) * ClusterSize + j IN IF p <= Len(bytes) THEN bytes[p] ELSE 0]

\* Sector k of a write at an offset: read, patched and written back.
Overlaid(old, bytes, offset, k) ==
  [j \in 1..ClusterSize |->
     LET p == (k - 1) * ClusterSize + j - offset
     IN  IF 1 <= p /\ p <= Len(bytes) THEN bytes[p] ELSE old[j]]

\* The bytes written by operation number v.
NewBytes(v, n) == [i \in 1..n |-> 10 * v + i]

SlotsOf(name) == {s \in Slots : dir[s].name = name}
FreeSlots     == SlotsOf(NoName)
SlotOf(name)  == CHOOSE s \in SlotsOf(name) : TRUE
FirstFree     == CHOOSE s \in FreeSlots : \A t \in FreeSlots : s <= t

-----------------------------------------------------------------------------
Idle ==
  [pc |-> "idle", kind |-> "none", name |-> NoName, slot |-> 0, bytes |-> <<>>, offset |-> 0,
   start |-> 0, required |-> 0, count |-> 0, from |-> 2, new |-> <<>>, i |-> 1,
   chain |-> <<>>, copy |-> 1, sure |-> FALSE]

Init ==
  /\ fats = [k \in 1..NumFats |-> [c \in Entries |-> IF c < 2 THEN EndMark ELSE 0]]
  /\ data = [c \in Clusters |-> [j \in 1..ClusterSize |-> 0]]
  /\ dir = [s \in Slots |-> [name |-> NoName, start |-> 0, size |-> 0]]
  /\ cache = EmptyCache
  /\ op = Idle
  /\ node = [slot |-> 0, start |-> 0, size |-> 0]
  /\ known = {} /\ want = [f \in Names |-> <<>>]
  /\ full = FALSE /\ early = {} /\ lossy = FALSE /\ ops = 0 /\ faults = 0

At(l) == op.pc = l

\* An operation has begun: its file's content is open until it succeeds.
Begin(o) ==
  /\ At("idle") /\ ops < MaxOps
  /\ ops' = ops + 1
  /\ op' = [o EXCEPT !.sure = o.name \in known]
  /\ known' = IF o.kind = "read" THEN known ELSE known \ {o.name}
  /\ UNCHANGED <<disk, cache, node, want, full, early, lossy, faults>>

\* The operation returns nil.  What it has put into the cache stays there; a
\* file it has not begun to change is as it was.
ReturnNil == op' = Idle

Untouched ==
  /\ known' = IF op.sure THEN known \cup {op.name} ELSE known
  /\ UNCHANGED want

Fault(kind) == kind \in Faults /\ faults < MaxFaults /\ faults' = faults + 1

WriteFails == Fault("write") /\ ReturnNil /\ UNCHANGED <<disk, cache, node, book, ops>>

-----------------------------------------------------------------------------
\* fat16-create-file: the name is new and a slot is free.
fat16_create_file(name, n) ==
  /\ SlotsOf(name) = {} /\ FreeSlots # {}
  /\ Begin([Idle EXCEPT !.kind = "create", !.name = name, !.slot = FirstFree,
                        !.bytes = NewBytes(ops, n), !.required = cluster_count_for_bytes(n),
                        !.pc = IF n = 0 THEN "dir" ELSE "alloc"])

\* fat16-create-directory: one cluster, which will hold "." and "..".
fat16_create_directory(name) ==
  /\ SlotsOf(name) = {} /\ FreeSlots # {}
  /\ Begin([Idle EXCEPT !.kind = "mkdir", !.name = name, !.slot = FirstFree,
                        !.required = 1, !.pc = "alloc"])

\* fat16-write-file: the chain of the file is counted first.
fat16_write_file(name, n) ==
  /\ SlotsOf(name) # {}
  /\ SharedFiles \/ node.slot # SlotOf(name)
  /\ LET s == SlotOf(name)
     IN  Begin([Idle EXCEPT !.kind = "write", !.name = name, !.slot = s,
                            !.bytes = NewBytes(ops, n), !.required = cluster_count_for_bytes(n),
                            !.start = dir[s].start, !.from = dir[s].start,
                            !.pc = IF dir[s].start = 0 THEN "compare" ELSE "count"])

\* write-from!: the same through an open node, at an offset within the file.
fat16_write_into(offset, n) ==
  /\ node.slot # 0 /\ n > 0
  /\ Begin([Idle EXCEPT !.kind = "stream", !.name = dir[node.slot].name, !.slot = node.slot,
                        !.bytes = NewBytes(ops, n), !.offset = offset,
                        !.required = cluster_count_for_bytes(offset + n),
                        !.start = node.start, !.from = node.start,
                        !.pc = IF node.start = 0 THEN "compare" ELSE "count"])

\* fat16-read-file of a file that is not empty.
fat16_read_file(name) ==
  /\ SlotsOf(name) # {} /\ dir[SlotOf(name)].size > 0
  /\ Begin([Idle EXCEPT !.kind = "read", !.name = name, !.slot = SlotOf(name),
                        !.from = dir[SlotOf(name)].start, !.pc = "walk"])

\* fat16-resolve-node, and closing the stream.
fat16_resolve_node(name) ==
  /\ At("idle") /\ node.slot = 0 /\ SlotsOf(name) # {}
  /\ node' = [slot |-> SlotOf(name), start |-> dir[SlotOf(name)].start,
              size |-> dir[SlotOf(name)].size]
  /\ UNCHANGED <<disk, cache, op, book, ops, faults>>

CloseNode ==
  /\ At("idle") /\ node.slot # 0
  /\ node' = [slot |-> 0, start |-> 0, size |-> 0]
  /\ UNCHANGED <<disk, cache, op, book, ops, faults>>

(***************************************************************************)
(* %fat16-fat-sector-bytes and %fat16-flush-fat-cache: before the entry of *)
(* a cluster is looked at, a pending sector is written to every copy of    *)
(* the table and the wanted one is read.                                   *)
(***************************************************************************)
Walking == op.pc \in {"count", "tail", "walk"}
Touched ==
  CASE Walking \/ At("alloc") -> op.from
    [] At("link") /\ op.i < Len(op.new) -> op.new[op.i]
    [] At("attach")           -> op.chain[Len(op.chain)]
    [] OTHER                  -> NoEntry

Wanted == IF At("alloc") /\ op.from \notin Clusters THEN NoEntry ELSE Touched
Ready  == Wanted # NoEntry /\ cache.lba = Sector(Wanted)
Absent == Wanted # NoEntry /\ cache.lba # Sector(Wanted)

FlushDue == cache.dirty /\ (At("flush") \/ Absent)

\* Mutant: the last copy of the table is left out.
FlushAllButLast ==
  /\ FlushDue
  /\ fats' = [fats EXCEPT ![1] = Patched(@, cache.bytes)]
  /\ cache' = [cache EXCEPT !.dirty = FALSE] /\ early' = {}
  /\ UNCHANGED <<data, dir, op, node, known, want, full, lossy, ops, faults>>

\* One copy of the table is written.
flush_fat_cache ==
  /\ FlushDue
  /\ fats' = [fats EXCEPT ![op.copy] = Patched(@, cache.bytes)]
  /\ op' = [op EXCEPT !.copy = IF op.copy = NumFats THEN 1 ELSE @ + 1]
  /\ cache' = [cache EXCEPT !.dirty = op.copy # NumFats] /\ early' = {}
  /\ UNCHANGED <<data, dir, node, known, want, full, lossy, ops, faults>>

\* The flush an operation asks for fails: the sector stays pending.
FlushFails == At("flush") /\ FlushDue /\ WriteFails

fat_sector_bytes ==
  /\ Absent /\ ~FlushDue
  /\ \/ /\ cache' = [lba |-> Sector(Wanted), bytes |-> SectorOf(fats[1], Sector(Wanted)), dirty |-> FALSE]
        /\ UNCHANGED <<faults, lossy>>
     \/ /\ Fault("read") /\ lossy' = TRUE
        /\ cache' = [lba |-> Sector(Wanted), bytes |-> <<>>, dirty |-> FALSE]
  /\ UNCHANGED <<disk, op, node, known, want, full, early, ops>>

(***************************************************************************)
(* What the operations do with the entry they asked for, nil included.     *)
(***************************************************************************)
AfterWalk == CASE At("count") -> "compare" [] At("tail") -> "attach"
               [] OTHER -> IF op.kind = "read" THEN "read" ELSE "data"

\* fat16-cluster-chain, for the number of clusters, for the last cluster, and
\* for the clusters to write or read: nil ends the chain.
Walk(entry) ==
  LET chain == Append(op.chain, op.from)
  IN  IF Ends(entry) \/ Len(chain) = TotalClusters + 2
      THEN [op EXCEPT !.chain = chain, !.pc = AfterWalk, !.i = 1]
      ELSE [op EXCEPT !.chain = chain, !.from = entry]

\* %fat16-find-free-cluster-from: nil is not a free cluster.
Taken == [op EXCEPT !.from = @ + 1, !.new = Append(@, op.from),
                    !.pc = IF Len(op.new) + 1 = op.required - op.count THEN "link" ELSE @]
PassedOver == [op EXCEPT !.from = @ + 1]

\* Mutant: the wanted sector replaces one that could not be written.
EvictionDropsSector ==
  /\ Absent /\ FlushDue /\ Fault("evict") /\ lossy' = TRUE
  /\ cache' = [lba |-> Sector(Wanted), bytes |-> SectorOf(fats[1], Sector(Wanted)), dirty |-> FALSE]
  /\ op' = [op EXCEPT !.copy = 1]
  /\ UNCHANGED <<disk, node, known, want, full, early, ops>>

\* The sector could not be made available because the pending one could not be
\* written: the reader of the entry is given nil.
EvictionFails ==
  /\ Absent /\ FlushDue /\ Fault("evict") /\ lossy' = TRUE
  /\ op' = CASE Walking -> [Walk(NilEntry) EXCEPT !.copy = 1]
             [] At("alloc") -> [PassedOver EXCEPT !.copy = 1]
             [] OTHER -> Idle
  /\ UNCHANGED <<disk, cache, node, known, want, full, early, ops>>

cluster_chain ==
  /\ Walking /\ Ready
  /\ op' = Walk(fat_entry(op.from))
  /\ UNCHANGED <<disk, cache, node, book, ops, faults>>

\* The number of clusters decides: overwrite, extend, or (by path) give up.
\* fat16-write-file refuses to shrink; write-from! does not need to.
Compare ==
  LET current == Len(op.chain)
      o == [op EXCEPT !.count = current, !.chain = <<>>, !.i = 1]
      refused == op.required < current /\ op.kind = "write"
  IN  /\ At("compare")
      /\ IF refused THEN ReturnNil /\ Untouched
         ELSE /\ op' = CASE op.required > current -> [o EXCEPT !.pc = "alloc", !.from = 2]
                         [] op.required = 0 -> [o EXCEPT !.pc = "dir"]
                         [] OTHER -> [o EXCEPT !.pc = IF op.kind = "stream" THEN "flush" ELSE "walk",
                                               !.from = op.start]
              /\ UNCHANGED <<known, want>>
      /\ UNCHANGED <<disk, cache, node, full, early, lossy, ops, faults>>

(***************************************************************************)
(* %fat16-allocate-clusters, %fat16-link-clusters, %fat16-extend-file.     *)
(***************************************************************************)
\* No cluster is left; the ones already taken are not given back.
OutOfClusters ==
  /\ At("alloc") /\ op.from \notin Clusters
  /\ ReturnNil /\ Untouched /\ full' = TRUE
  /\ UNCHANGED <<disk, cache, node, early, lossy, ops, faults>>

\* One cluster of the search: taken and marked as an end, or passed over.
allocate_clusters ==
  /\ At("alloc") /\ Ready
  /\ IF fat_entry(op.from) # 0
     THEN op' = PassedOver /\ UNCHANGED cache
     ELSE op' = Taken /\ set_fat_entry(op.from, EndMark)
  /\ UNCHANGED <<disk, node, book, ops, faults>>

\* Each new cluster is made to point to the next one.
link_clusters ==
  /\ At("link") /\ op.i < Len(op.new) /\ Ready
  /\ IF cache.bytes = <<>> THEN ReturnNil /\ UNCHANGED cache
     ELSE /\ set_fat_entry(op.new[op.i], op.new[op.i + 1])
          /\ op' = [op EXCEPT !.i = @ + 1]
  /\ UNCHANGED <<disk, node, book, ops, faults>>

\* All are linked: look for the end of the old chain, or begin the file here.
Linked ==
  /\ At("link") /\ op.i = Len(op.new)
  /\ op' = IF op.count > 0 THEN [op EXCEPT !.pc = "tail", !.from = op.start]
           ELSE [op EXCEPT !.pc = "flush", !.start = op.new[1]]
  /\ node' = IF op.kind = "stream" /\ op.count = 0 THEN [node EXCEPT !.start = op.new[1]] ELSE node
  /\ UNCHANGED <<disk, cache, book, ops, faults>>

\* The last cluster of the old chain is made to point to the first new one.
AttachToOld ==
  /\ At("attach") /\ Ready
  /\ IF cache.bytes = <<>> THEN ReturnNil /\ UNCHANGED cache
     ELSE /\ set_fat_entry(op.chain[Len(op.chain)], op.new[1])
          /\ op' = [op EXCEPT !.pc = "flush", !.chain = <<>>]
  /\ UNCHANGED <<disk, node, book, ops, faults>>

\* Mutant: the data are written while the table is still in the cache.
FlushedLater ==
  /\ At("flush")
  /\ op' = IF op.kind = "mkdir" THEN [op EXCEPT !.pc = "data", !.i = 1, !.chain = op.new]
           ELSE [op EXCEPT !.pc = "walk", !.from = op.start]
  /\ UNCHANGED <<disk, cache, node, book, ops, faults>>

\* The table is on the disk: go on to the data.
Flushed ==
  /\ At("flush") /\ ~cache.dirty
  /\ op' = IF op.kind = "mkdir" THEN [op EXCEPT !.pc = "data", !.i = 1, !.chain = op.new]
           ELSE [op EXCEPT !.pc = "walk", !.from = op.start]
  /\ UNCHANGED <<disk, cache, node, book, ops, faults>>

(***************************************************************************)
(* %fat16-write-file-data, the write loop of %fat16-write-into-impl, and   *)
(* the cluster of a new directory.                                         *)
(***************************************************************************)
Content(k) ==
  CASE op.kind = "stream" -> Overlaid(data[op.chain[k]], op.bytes, op.offset, k)
    [] op.kind = "mkdir"  -> Chunk(<<op.start, 0>>, k)
    [] OTHER              -> Chunk(op.bytes, k)

FirstSector == IF op.kind = "stream" THEN (op.offset \div ClusterSize) + 1 ELSE 1
\* Mutant: the last sector is left out.
ToWriteButLast == {k \in FirstSector..(op.required - 1) : k >= op.i /\ k <= Len(op.chain)}

ToWrite == {k \in FirstSector..op.required : k >= op.i /\ k <= Len(op.chain)}

\* One sector of data is written.
write_lba_list ==
  /\ At("data") /\ ToWrite # {}
  /\ LET k == CHOOSE k \in ToWrite : \A j \in ToWrite : k <= j
     IN  /\ data' = [data EXCEPT ![op.chain[k]] = Content(k)]
         /\ op' = [op EXCEPT !.i = k + 1]
  /\ UNCHANGED <<fats, dir, cache, node, book, ops, faults>>

DataFails == At("data") /\ ToWrite # {} /\ WriteFails

\* All sectors, or as many as the chain has, are written.
DataWritten ==
  LET end == op.offset + Len(op.bytes)
  IN  /\ At("data") /\ ToWrite = {}
      /\ op' = [op EXCEPT !.pc = "dir"]
      /\ node' = IF op.kind = "stream" /\ end > node.size THEN [node EXCEPT !.size = end] ELSE node
      /\ UNCHANGED <<disk, cache, book, ops, faults>>

NewSize ==
  CASE op.kind = "mkdir"  -> 0
    [] op.kind = "stream" -> node.size
    [] OTHER              -> Len(op.bytes)

\* What a reader of the file is to find after the operation.
Expected ==
  LET end == op.offset + Len(op.bytes)
      old == want[op.name]
  IN  IF op.kind # "stream" THEN op.bytes
      ELSE [p \in 1..(IF end > Len(old) THEN end ELSE Len(old)) |->
              IF p > op.offset /\ p <= end THEN op.bytes[p - op.offset] ELSE old[p]]

\* %fat16-finish-directory-update, or the entry of a new file or directory;
\* the operation returns t.
finish_directory_update ==
  /\ At("dir")
  /\ dir' = [dir EXCEPT ![op.slot] = [name |-> op.name, start |-> op.start, size |-> NewSize]]
  /\ op' = Idle
  /\ early' = IF cache.dirty THEN early \cup {op.slot} ELSE early \ {op.slot}
  /\ IF op.kind = "stream" /\ ~op.sure THEN UNCHANGED <<known, want>>
     ELSE /\ known' = known \cup {op.name}
          /\ want' = [want EXCEPT ![op.name] = Expected]
  /\ UNCHANGED <<fats, data, cache, node, full, lossy, ops, faults>>

DirectoryFails == At("dir") /\ WriteFails

ReadDone == At("read") /\ ReturnNil /\ UNCHANGED <<disk, cache, node, book, ops, faults>>

\* Power is lost and the machine boots again.
Restart ==
  /\ Fault("restart")
  /\ op' = Idle /\ cache' = EmptyCache
  /\ node' = [slot |-> 0, start |-> 0, size |-> 0]
  /\ lossy' = (lossy \/ early # {}) /\ early' = {}
  /\ UNCHANGED <<disk, known, want, full, ops>>

Next ==
  \/ \E f \in FileNames, n \in Lengths : fat16_create_file(f, n) \/ fat16_write_file(f, n)
  \/ \E d \in DirNames : fat16_create_directory(d)
  \/ \E f \in FileNames : fat16_read_file(f) \/ fat16_resolve_node(f)
  \/ \E offset \in {0, node.size}, n \in Lengths : fat16_write_into(offset, n)
  \/ CloseNode
  \/ flush_fat_cache \/ FlushFails \/ EvictionFails \/ fat_sector_bytes
  \/ cluster_chain \/ Compare
  \/ OutOfClusters \/ allocate_clusters \/ link_clusters \/ Linked \/ AttachToOld \/ Flushed
  \/ write_lba_list \/ DataFails \/ DataWritten
  \/ finish_directory_update \/ DirectoryFails
  \/ ReadDone
  \/ Restart

Spec == Init /\ [][Next]_vars

-----------------------------------------------------------------------------
\* The clusters of the chain from s in order; after the end, the end mark.
Along(table, s) ==
  LET e[n \in Nat] == IF n = 0 THEN s
                      ELSE LET c == e[n - 1] IN IF c \in Clusters THEN table[c] ELSE c
  IN  e
Nth(table, s) == [n \in 1..(TotalClusters + 1) |-> Along(table, s)[n - 1]]
ChainSet(table, s) == {Nth(table, s)[n] : n \in 1..(TotalClusters + 1)} \cap Clusters

Used    == {s \in Slots : dir[s].name # NoName}
Started == {s \in Used : dir[s].start # 0}

LongEnough(s) ==
  Cardinality(ChainSet(fats[1], dir[s].start)) >= cluster_count_for_bytes(dir[s].size)

\* What fat16-read-file returns of an entry after a restart, if its chain is
\* long enough.
OnDisk(s) ==
  [p \in 1..dir[s].size |->
     data[Nth(fats[1], dir[s].start)[((p - 1) \div ClusterSize) + 1]][((p - 1) % ClusterSize) + 1]]

\* Whatever step fails and wherever power is lost, two directory entries never
\* share a cluster: %fat16-allocate-clusters marks what it takes before it
\* looks on, and the table reaches the disk before the entry that starts a chain.
ChainsAreDisjoint ==
  \A s, t \in Started : s # t =>
    ChainSet(fats[1], dir[s].start) \cap ChainSet(fats[1], dir[t].start) = {}

\* Whatever step the power is lost at or a write fails at, every chain a
\* directory entry starts runs on the disk to an end mark.  It is long enough for
\* the size of the file, unless an entry of the table could not be looked up,
\* or fat16-write-file wrote the directory entry while the sector a failed
\* %fat16-flush-fat-cache had left pending was still in the cache.
VolumeConsistent ==
  /\ \A s \in Started : Nth(fats[1], dir[s].start)[TotalClusters + 1] >= EndOfChain
  /\ ~lossy => \A s \in Used \ early : LongEnough(s)

\* "nil when the writing of any stage fails, t on success" (fat16-write-file):
\* what an operation that returned t has written is on the disk, whatever
\* happens to later operations on other files.
WrittenFile(f) ==
  /\ Cardinality(SlotsOf(f)) = 1 /\ LongEnough(SlotOf(f))
  /\ OnDisk(SlotOf(f)) = want[f]
SuccessMeansWritten == \A f \in known \cap FileNames : WrittenFile(f)

ReadBack ==
  [p \in 1..dir[op.slot].size |->
     data[op.chain[((p - 1) \div ClusterSize) + 1]][((p - 1) % ClusterSize) + 1]]

\* The same, with the two exceptions of VolumeConsistent; and fat16-read-file,
\* which follows the cached table, returns it with no exception for what is pending.
ReportedWritesAreOnDisk ==
  ~lossy =>
    /\ \A f \in known \cap FileNames : SlotOf(f) \notin early => WrittenFile(f)
    /\ At("read") /\ op.name \in known => ReadBack = want[op.name]

\* Without failures and a full disk an operation leaves nothing behind: no
\* pending sector, equal copies of the table, and no cluster that is marked
\* and belongs to no file.
NothingLeftBehind ==
  At("idle") /\ faults = 0 /\ ~full =>
    /\ ~cache.dirty
    /\ \A k \in 1..NumFats : fats[k] = fats[1]
    /\ {c \in Clusters : fats[1][c] # 0} = UNION {ChainSet(fats[1], dir[s].start) : s \in Started}

=============================================================================
