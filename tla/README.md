# mulan-lsm: a TLA+ development

This directory specifies the storage engine in `src/src/`, an LSM tree with a write-ahead
log, a manifest, leveled compaction, snapshots and one background thread. TLC checks the
specifications on small instances; TLAPS proves the main safety results about the tree, its
readers and their cache, its threads, its directory, its skip list and the bytes of its log for
every value of the constants. Line numbers below are those of `src/src/`.

## 1. The system

| part | state | operations | what makes it correct |
|---|---|---|---|
| `Db` (`db.rs`) | `DbInner` under one mutex: VersionSet, memtable, log writer, `id_gen`, `bg_compaction_scheduled`, `shutting_down` | open, put, delete, get, get_at, iterators, new_snapshot, compact_once, drop | reads show the newest visible version; what was promised survives a crash |
| background thread (`db.rs` 577) | waits on the condition variable | compacts while some level has a score | full L0s are compacted, nobody sleeps for ever, closing ends |
| `Version`, `VersionSet` (`version.rs`) | files per level, log number, last sequence, `compact_pointer`, snapshot list | apply_edit, write_new_version, recover, acquire, release | L1+ disjoint, commits are replayed |
| compaction (`compaction.rs`) | none between calls | score, pick, merge and cut | no view changes; garbage goes; levels stay disjoint |
| `MemTable`, `SkipList` | entries of the current log, sorted | put, apply, get_entry, flush | newest version first |
| WAL (`wal.rs`) | appended file in 32 KB blocks | add_record, sync, read_records | a prefix of the records is read back |
| manifest (`manifest.rs`) | appended file of VersionEdits; `CURRENT` | append, write_current, recover_manifest | a synced edit is replayed |
| numbers (`file_meta.rs`) | the next number | new_file_number, bump_to | no number of a file in use is given out |
| iterators (`iterator.rs`) | a heap of sources | next, seek | each key once, newest visible version, Deletes hidden |
| `TableCache` (`table_cache.rs`) | map and eviction queue under its own mutex | get, evict | bounded; readers keep what they use |
| SSTable, bloom filter (`sstable/`, `bloom.rs`) | immutable files: blocks, index, filter, footer | build, open, search, iterate | what was written is found |
| varints, internal keys (`varint.rs`, `internal_key.rs`) | none | encode, decode, compare | decoding undoes encoding; newer versions first |

Interaction: every write, flush, compaction and recovery holds the mutex `Db.inner` from its
first to its last step, disk operations included. A put appends to the log, applies to the
memtable and, when that is full, flushes it in the same critical section. Compactions are
run by the background thread or by `compact_once`. Stalled writers and the idle thread wait
on the same condition variable. `get` gives the mutex up once it has the memtable's answer
and the current Version, and goes on in immutable files through the TableCache.

What is hard: the order of disk operations against crashes and failures; versions kept for
snapshots against the levels' invariants; the choice of files over long histories
(rotation points, lists that are only appended to); and wake-ups on a shared condition
variable. `PROJECT.json` lists these hazards at their lines.

## 2. Modules

State machines:

- `KVStore` is what a database promises its user: a map, a count of writes, and the frozen
  views of the registered snapshots.
- `LsmTree` is the tree: the memtable, the levels, `compact_pointer`, numbers, snapshots
  and handles. One action per operation, because each holds the mutex: `Write` (with the
  flush inside it), `NewSnapshot`, `DropGuard`, `Compact(level)` (pick, merge, drop, cut,
  commit), `Reopen`. A file is a number and a set of entries; sizes in bytes are left open,
  so a memtable may be full at any time, an output may be cut anywhere, and any level may
  be the one to compact. `PointReads` is `get`: the memtable, L0 from the newest file, one
  file of each deeper level by binary search, with every result the search may have on a
  list that is not sorted. `Read` is the scan.
- `ReadPath` extends `LsmTree` with readers that go on after the unlock. `Get`, `GetAt` and
  `OpenIterator` are the critical section that captures the memtable's answer and the
  Version; `Hit`, `Miss` and `Insert` are the two critical sections of `TableCache::get`
  with the opening of the file between them; `OpenSource` opens a file past the cache, as
  iterators do. A compaction commits and then evicts file by file (`Evict`), still holding
  the mutex, while readers run. `wrong` collects the answers that the ghost `history` does
  not bear out.
- `DurableLog` is what a directory promises across crashes: writes in order without holes;
  a crash takes a tail of them, never one that was promised.
- `Durability` cuts opening, writing, flushing, compacting and closing at every disk
  operation. `pc` is the operation and its next disk operation. `Crash` may happen in every
  state and leaves of each appended file what was synced and any part of the rest, possibly
  a torn record; `IoError` lets a disk operation in `Faults` fail with the error path the
  code has. `sync_writes` is chosen at each opening. The ghost `sure` collects writes when
  a synced put returns, a flush commits or a closing ends.
- `BgWork` is the threads: `Stall`, `FinishPut`, `FailPut`, `Return` (the `notify_one` after the
  unlock), `BgSleep`, `BgCompact`, `BgStop`, `Close`, `CompactOnce`, and waits that return
  unasked. The tree is kept as far as scores and picking depend on it: files in L0, keys
  below (a key stands for one file's worth of data) and rotation points.
- `WriteAhead` is the log in bytes, with its block offset, and the skip list beside it.
  `LogWrite` is a put or a delete (`NewEntries`): the entry is encoded, cut into pieces, appended and applied
  (`LogAndApply`), or it fills the memtable and both are replaced (`FreshLog`); any write may
  fill it. `LogReopen` reads back what a crash has left and goes on after the last entry.
- `WritePath` adds the rest of the database in bytes: manifest and SSTables. Writing,
  flushing, compacting and reopening (from a log that was cut at a record) run the formats
  below on what really comes up. Its log and its memtable behave as in `WriteAhead`
  (`LogSpec`, a property of the run).

Formats, as operators on sequences of bytes:

- `Powers` (powers of numbers); `Varint` (`varint.rs`, and integers of fixed width);
  `InternalKeys` (both orders, encoding, `internal_key.rs`);
- `SkipList` (an arena of nodes: insertion at a drawn height, descent, `skiplist.rs`);
- `LogFormat` (fragments, trailers, checksums, reassembly up to the first bad piece, log
  entries, `wal.rs`); `EditFormat` (the tagged fields of a VersionEdit, `manifest.rs`);
- `BlockFormat` (shared prefixes, restart points, search, `sstable/block.rs`);
  `TableFormat` (data blocks, index, bloom filter, metaindex, footer, point lookup,
  `sstable/table.rs`, `bloom.rs`);
- `Iterators` (the heap of the merge, and `DBIter`, `iterator.rs`).

The loops of `Varint`, `LogFormat` and `SkipList` are recursive functions over the number of
turns, which the provers can unfold; those of the other formats are recursive operators.

Proofs: `NumberLemmas` (minima, maxima, induction, recursion, powers and remainders),
`LsmTreeProofs`, `ReadPathProofs`, `BgWorkProofs`, `DurabilityProofs`, `RecoveryProofs`,
`SkipListProofs`, `WriteAheadProofs`. For TLC: `MCLsmTree`, `MCReadPath`, `MCDurability`,
`MCWritePath` add symmetry, views, fault sets and byte strings; `BgWork` needs none.

The machines look at the same operations from different sides. In `LsmTree` each is atomic
and its data exact; `ReadPath` composes that tree with readers and the cache; `Durability`
cuts it at disk operations, its data being the identity of each write; `WriteAhead` and
`WritePath` keep it atomic and go down to the bytes; `BgWork` keeps what scheduling depends on.

## 3. Runs

| run | instance | shows |
|---|---|---|
| `LsmSnapshots` | 2 keys, 2 values, 3 writes, 2 handles, 4 levels | types, get = scan on sorted lists, refinement of `KVStore` |
| `LsmMerge` | 3 keys, 4 writes, no snapshots, 4 levels, cuts anywhere | unique numbers, disjoint levels, newer above older, get = scan, garbage collected, refinement |
| `ReadPath` | 2 readers, 1 handle, 1 key, 3 writes, a cache of 2 tables or none | no open fails, gets and iterators show the moment they captured, the cache keeps its map and queue together and is overgrown by races only |
| `WritePath` | 2 user keys (one a prefix of the other), 4 writes, 2 restarts, 2 choices of options | log = memtable, skip list in order, every cut of the log, with zeros behind it or without, leaves its first writes, manifest = version, tables find their entries, gets (on a sorted level 1) and scans return the newest, refinement of `WriteAhead` |
| `DurCrashes` | 3 openings, 3 writes, torn log tails, 9 fault points | memory = what a restart finds, commits replayed, live files immutable, refinement of `DurableLog` |
| `BgThreads` | 3 writers, L0 limit 4, 2 keys, 3 levels, 1 failed compaction | no lost wake-up, stalls end, sleepers wake, closing returns |
| `LsmUnsortedList` | 2 keys, 3 writes | **violated**: `get` misses a key (version.rs 97, db.rs 428) |
| `LsmSharedSeq` | 1 key, 2 handles | **violated**: dropping one of two equal snapshots unregisters both (version.rs 232) |
| `LsmSplitKey` | 1 key, 1 handle | **violated**: a cut inside a key lets a deleted value come back (compaction.rs 302) |
| `DurTornManifest` | as `DurCrashes`, torn manifest tails | **violated**: edits appended behind a torn one are never replayed (version.rs 172) |
| `DurFailedFlush` | one fault: creating the next log | **violated**: acknowledged writes are lost (db.rs 445) |
| `BgRotation` | 2 writers, 3 keys | **violated**: stalled writers wait for ever (compaction.rs 152) |

The violated properties are claims of comments and documents, quoted in `PROJECT.json`
under `findings`. Each instance is the smallest that shows its trace.

Bounds. Three writes are enough for a key with a value, a Delete and a newer value, or for
two files in L0 and an entry in the memtable; the fourth in `LsmMerge` gives a third version
below two others. Four levels are the fewest where the base-level test has two levels to
look at below the output of a compaction. In `LsmTree` file numbers are hidden by a view that
keeps their order, so restarts need no bound. In `Durability` three openings are one creation
and two recoveries, so recoveries are cut by crashes and recovered from; `MaxCompact` lets
two compactions start, also of two files. Its view forgets the history of the manifest and
files nothing can name again; it is not used where manifest records may be torn. In
`BgThreads` two keys under a base of 1 weigh in level 1 exactly as much as a full L0 (the
tie that L0 wins), while a half-full L0 is outweighed by a level that has nothing to pick.

`ReadPath`: two readers are enough to load one table at the same time; three files and a
cache of two make pops happen beside hits; `MaxRaces` stops gets from beginning after so many
double loads. With one key nothing is asked of the search over keys, which `LsmMerge` and
the proof of `PointReadsAgree` cover. A handle serves one reader at a time. A miss and the
opening that follows are one step, since no file ever goes away (`OpensSucceed`). There is no
restart: neither readers nor the cache outlive a `Db`.

`WritePath` scales the formats down so that their borders are met: a byte has 4 bits
and the wider fields 1 to 3 bytes, a log block has 14 bytes (a header, and few more, so that
records are cut in two and three and blocks end in trailers), a block restarts every 2
entries, one of the options puts every entry in a block of its own, the skip list has 2
levels. Value lengths include 0 and one longer than a varint byte can hold, and values end in
zeros, which a cut with zeros behind it does not change. A restart takes the place of a write, so
there are four writes, three around one restart or two around two. The four numbers fit one
byte; numbers of two and three bytes are encoded and decoded on their own
(`MCNumbersAssumption`), and the theorems go up to the last one. Level 0 is compacted from one file on,
as any positive score is enough. The checksum
keeps the role of the CRC: zeros in place of the end of a piece's data are noticed
(`ChecksumNoticesLoss`, which TLC evaluates for the instance). A crash leaves the log cut at any
byte, with or without zeros up to its old length; `CutLeavesPrefix` and `ZerosLeavePrefix` look
at all cuts in every state, `Reopen` goes on from those at the ends of records (`LogReopen` from
every cut; those with zeros read like one of these).

Conditions of the passing runs, which the code does not enforce:

- `ListsSorted` in `GetAgreesWithScan` and in what counts as a wrong answer of a get in
  `ReadPath`, and `ListSorted` in `GetReturnsNewest`: `LsmUnsortedList` shows what happens otherwise;
- no cut inside a key while snapshots exist (`SplitInsideKey`): `LsmSplitKey`;
- no two live handles with one number in `IteratorShowsSnapshot` (the run has one handle,
  the theorem says `GuardsDiffer`): `LsmSharedSeq`;
- no torn manifest record, and no failure inside a flush, a commit of a compaction or an
  append to the log (`TornTails`, `Faults`): `DurTornManifest`, `DurFailedFlush`;
- no level that outweighs a full L0: `BgRotation`; and no more writers than
  `LEVEL0_STOP_WRITES_TRIGGER` (`FewWriters`). With one more, each of the flushes that fill
  L0 may be followed by a delayed `notify_one` that wakes a stalled writer instead of the
  thread; then all sleep. Setting `Stop = 2`, `Trigger = 1` in `BgThreads.cfg` shows it.

Names of files are taken to survive a crash once the file was made, and everything that a
`sync_all` covered to stay. An SSTable appears when it is written whole: no edit names one
that was written in part, and the next file of its number truncates it. The database may be
closed for good, and writes are bounded, so deadlock is not checked.

Noticed besides, with no run of their own: the TableCache may hold more tables than its
capacity after two threads loaded one table (table_cache.rs 45; `OnlyRacesOvergrow` says by
how many); the background thread spins while the only data is in the last level
(compaction.rs 55); after a failed `wal.sync` the sequence number is given out again
(db.rs 268); after a failed commit of a compaction its file numbers are; the comment at
version.rs 111 says that `compact_pointer` is not persisted, and it is.

Fairness. Only `BgWork` has liveness properties. The background thread and a writer inside a
put are weakly fair: they are runnable threads and the mutex keeps nobody out for ever (when
L0 is full, every writer ends up asleep, so the thread has no rival). Nobody is obliged to
begin a put, a compaction or the closing, and waits need not return unasked.

## 4. Proofs

For all keys, values, handles, levels, readers, capacities and numbers of writes, and in bytes up to
the last sequence number:

| theorem | says | condition |
|---|---|---|
| `InductiveInvariant`, `TypeCorrect`, `FileNumbersAreUnique`, `LevelsStayDisjoint`, `NewerStaysAbove` | the structure of the tree | `CutsAreSafe` |
| `Implementation` | `LsmTree` implements `KVStore` | `CutsAreSafe` |
| `DeletesStayDeleted` | a step that writes nothing changes no latest value (refuted by `LsmSplitKey` for other cuts) | `CutsAreSafe` |
| `HeldViewsAreStable` | no step changes what a live handle reads (refuted by `LsmSharedSeq` for equal handles) | `CutsAreSafe`, `GuardsDiffer` |
| `GarbageIsCollected` | without snapshots a deeper level keeps one version of a key, the last no Delete | none |
| `PointReadsAgree` | `get` finds what a scan shows, where the lists are sorted | `CutsAreSafe` |
| `ReadersLeaveTree`, `ReadPathImplements` | with readers and a cache beside it, the tree does what it does alone, and implements `KVStore` | none; `CutsAreSafe` |
| `OpensAlwaysSucceed` | a reader finds every file of its Version | `CutsAreSafe` |
| `ReadersWellTyped` | types of readers and cache; a cached reader is that of the file with its number | `CutsAreSafe` |
| `CachedReadersAreQueued`, `CacheStaysBounded` | every cached reader is in the queue; the cache outgrows its capacity by races only | `CutsAreSafe` |
| `GetsReturnCaptured` | a get returns the newest version as of its critical section, where the lists it captured are sorted | `CutsAreSafe`, `GuardsDiffer` |
| `IteratorsShowSnapshots` | an iterator shows its snapshot's view | `CutsAreSafe`, `GuardsDiffer` |
| `LimitHolds` | L0 holds at most `Stop` files | none |
| `NoWakeUpLost` | the background thread does not sleep on work that nobody will tell it of | `FewWriters` |
| `DurabilityTypes` | types at every disk operation; every number in use is below the generator | `GentleFaults` |
| `CommitsAreReplayed` | replaying the manifest gives the Version and the log in force | `GentleFaults` |
| `LiveFilesStay` | no step overwrites or removes a file of the current Version | `GentleFaults` |
| `LiveStaysRecoverable` | between operations a restart finds exactly what the running database shows, numbered without holes | `LosslessFaults` |
| `PromisesAreKept` | what a synced put, a flush or a closing promised stays in the directory | `LosslessFaults` |
| `DirectoryIsLog` | `Durability` implements `DurableLog` | `LosslessFaults` |
| `InsertKeepsOrder`, `MemtableStaysWellFormed` | every level of a skip list holds the nodes that reach it, in order | `Ordered` |
| `LowerBoundIsFirst`, `FindsLatest` | a search returns the first entry not before its key, the latest of equal ones | `Ordered` |
| `IterShowsAll` | an iteration shows every entry once, in order | `Ordered` |
| `InsertedIsFound` | entries stay, and the last one inserted is found at once | `Ordered` |
| `LogStaysTyped` | the log is bytes, no block is filled past its end, writes are numbered without holes | `WritesAssumption` |
| `MemtableStaysLog` | the log, read back and decoded, is the writes since the last flush, and they are the entries of the skip list | `WritesAssumption` |
| `SkipListStaysWellFormed` | the memtable's levels are linked and every entry is found by its key | `WritesAssumption` |
| `CutLogOpens` | a log cut at any byte reads as its first writes, with every one that is there whole | `WritesAssumption` |
| `ZeroedLogOpens` | the same with zeros in place of what is lost | `WritesAssumption`, `ChecksumNoticesLoss` |

`CutsAreSafe`: no output is cut inside a key, or there are no snapshots. The assumption is
needed, as `LsmSplitKey` shows; without snapshots it costs nothing, since a merge then keeps
one version of a key.
`GentleFaults`: a crash cuts the manifest between records, not inside one (`DurTornManifest`
shows the need), and of the manifest's appends and syncs only some may fail: those of the
creation, and the sync of a recovery, whose error leaves no database (`DurFailedFlush` shows
what goes on after a failed flush). Crashes everywhere and torn log tails are allowed.
`LosslessFaults` is `GentleFaults` without the failures that leave the memtable and the log
apart: those of a put's append and sync and of a flush before its commit (`DurFailedFlush`).
`FaultsAssumption`: a torn record is no whole record, and only disk operations fail.
`Ordered`: the order of the keys is strict and total, as the key type's `Ord` is;
`WriteAheadProofs` proves it of internal keys (`KeysOrdered`). The assumptions on the constants of
the log say that widths are positive and ascend, that a block holds a header and a piece's length
fits the header (`WidthsAssumption`, `BlockAssumption`), and (`WritesAssumption`) that keys and
values are byte strings whose lengths fit WORD bytes (u32), that keys are not empty (put and delete
refuse others), and that no more writes are made than LONG bytes (u64) can number. Which values a
write may have is open (`Values`): any set for each sequence number, so a write that a crash
took may be made again with another value.
`ChecksumNoticesLoss`: where the end of the data of a piece is replaced by zeros, and its
checksum is the same, the data is the same. No checksum of a fixed width notices every change;
this is what recovery relies on, and of the CRC it is true but for a chance of 2^-32 in each
crash. `CutLogOpens` does not need it.

*The tree.* `IInv` adds to the four invariants that sequence numbers are used once and do
not exceed `lastSeq`. Levels stay disjoint because the inputs from the next level are all
that overlap the hull of the picked files (`InputsShape`), so what stays lies on one side
of every output (`OneSide`, `RestBesideInputs`), and cuts between keys separate the outputs
(`OutputsDisjoint`). Newer stays above older because all of L0 is picked together, and below
L0 only one file holds a key (`OneFilePerKey`, `AboveMerged`, `BelowMerged`). Views do not
change because a version is dropped only if every view that sees it sees a newer one that
is kept, or it is a Delete with nothing older anywhere below (`VisibleKept`,
`CompactViews`); the second case uses that newer is above older.

*Point reads.* The search of a level returns its only candidate (`SearchLands`,
`LevelSearch`); since newer is above older, the first level with a visible version has the
newest one of the tree (`TopDown`).

*Readers.* `DiskInv`: live files are in the directory, under numbers that nobody else has or
will have. `ReadersInv`: what a reader has yet to look into is in the directory (files only
come), and what it cached or opened is the file of that number. For iterators, `HistoryInv`
relates the tree to every entry ever written, and `ScanInv` says that what an iterator has
gathered and what it has yet to open together show the view of its snapshot (`Gathered`):
true when it begins, because the snapshot is registered and the tree's view at it has not
moved, and kept because what it captured does not change. For gets, `GetInv` says the same of
the one key, as long as nothing was found, and that what is looked into first is newer
(`NewerFirst`, from newer above older): so the next file has the newest version of all that is
left, or none (`ProbePromises`), and a table that was opened is that of the next file when it
is inserted, whatever came between.

*The cache.* `CacheInv`: the queue has the number of every cached reader, is at most `races`
longer than the map, and at most `races` longer than the capacity. A hit moves a number that
is there, so the queue does not grow (`HitCache`, from what `retain` leaves, `WithoutShrinks`);
an eviction takes a number from the queue if it takes a reader from the map (`EvictCache`); an
insertion pops exactly if the map is full, and lengthens the queue without the map only if
another thread has inserted the same table (`InsertCache`). `OnlyRacesOvergrow` follows, since
distinct readers have distinct places in the queue (`QueueCovers`).

*Wake-ups.* A writer sleeps only on account of data, and compactions move data without
losing it. So the background thread falls asleep only when no writer sleeps; from then on
every flush leaves a notification still to come, which can reach nobody else. For another
writer to stall, L0 would need as many files as there are other writers about to notify:
`FewWriters` rules that out (`BgSleepsAlone`, `NextWake`). Above powers and products the
proof needs only that a level has a score exactly when it holds something (`ScoreIsData`)
and that there is a best one (`BestExists`).

*The directory.* `IInv` of `DurabilityProofs` says of every prefix of the manifest that a
crash may leave, and not only of the whole, that it replays to files that exist, numbered
below the next number it carries (`PrefixesConsistent`): these prefixes are what a crash
turns into the manifest. Of the running process it says that the records already appended
replay to the Version in force, or, between the append and the end of the sync, to the one
the commit makes (`Committed`), and that the edit being prepared adds only files under fresh
numbers (`Fresh`, `Numbered`) which exist by the time it is appended (`Ready`). The recovery
removes files only when the whole manifest is synced (`AllSynced`), so no prefix misses them.
A directory whose creation was interrupted never opens (`Dead`).

*What a restart finds.* `Data` of `RecoveryProofs` adds the entries. Every cut of the manifest
that a crash may leave is `Sufficient`: the SSTables it names hold the numbers 1 to its
`last_sequence`, each once (`Dense`), and its log goes on from there (`Chain`), so a replay
finds every number up to the last (`HeldIsDense`). Of the running process it says that the
memtable is what the current log holds (`MemIsLog`), that `lastSeq` counts what both files
hold (`Counted`), that a flush or recovery puts the log's entries into the SSTable of its edit
before the edit names an empty log (`SstWritten`, `NextLog`), and that logs under numbers the
manifest does not know of are empty (`EmptyAhead`), so a number given out a second time after
a crash does not bring old entries back.

*The directory as a log.* `Survives` of `RecoveryProofs`: whichever cut of the manifest a
crash leaves, a recovery finds the same entries (`CutsAgree`), because an edit that is
appended and not yet synced only says in other files what the edits before it say (`LogMoved`,
`NothingMoved`); and what was promised lies in SSTables that every cut names, or in the synced
part of the log that it names (`SureIsSafe`). So only a log loses anything in a crash. What is
left is again numbered without holes, and a part of the writes numbered without holes is all
of them up to some number (`TailOf`): the crash took a tail. A creation that was interrupted
holds nothing (`DeadSurvives`).

*The skip list.* `WellFormed` says of every level, for itself, that each node points to the
first of the nodes behind it that reach the level; nodes are ordered by key, and of equal keys
the later one is ahead (`Ahead`), which is where insert puts it. Every stride of a walk leads to
a node with more nodes ahead of it (`StrideForward`, `PassedGrows`), so the walk ends, at the
last node before the key (`WalkEnds`), on every level (`FindPrevFinds`, since the nodes of a
level are on the levels below, `LevelsNest`). Linked in behind those, the new node is the first
behind its predecessor, and has the first of what was behind that behind itself. `SkipSpec` is a
memtable that is inserted into. `WellFormed` is what `SkipListWellFormed` checks in `WritePath`.

*The bytes of an entry.* The digits of a number to a base give back the number (`DigitsValue`,
from `DigitStep`, digit by digit), so decoding undoes encoding: for fixed integers, for varints
with more bytes behind them (`VarintDecoded`), for a run behind its length (`PrefixedDecoded`), for
two of them in a row (`TwoRead`), and for an entry (`EntryDecoded`).

*The log.* The reader is followed along the file by a `Chain`: the states it has behind each
piece, from `StartState`, each a `Step` from the one before. The reader passes any chain and its
records are those of the last state, if what is behind it is `Quiet` (`ReadChain`; the number of
turns that the loop is given is enough because each two of them pass a header). A turn of
`add_record` makes the chain longer by one state, after a trailer or without one (`PieceBehind`), and
the turns of a record together add the record and nothing else (`RecordAdded`), whatever the borders of
blocks cut. A cut keeps every `Step` that ends before it (`StepKept`). Behind the last of them the
reader stops: its header is cut, or its data (`CutPiece`), and where zeros follow, either its type is
0 and the reader skips to blocks in which there is nothing but zeros, or its checksum does not fit
(`LostPiece`, where `ChecksumNoticesLoss` is used). So what is read is the records of a state of the
chain (`CutReads`, `LossReads`). `LogInv` says that the log has a chain to its end, whose records are
the encodings of the writes since the last flush, with a state for the end of each record
(`LogOf`), and that the block offset is where the chain's end lies in its block. It is
inductive: after a recovery the log is empty, and the entries that were read are the first of the
writes, so `SeqAfter` numbers go on without holes. The typing and both prefix properties follow from it.

*The memtable beside it.* `MemInv` adds that the list is well formed and that its nodes are the
writes since the flush, in the order they came (`Holds`). Internal keys are strictly and totally
ordered (`KeysOrdered`), so the theorems of `SkipListProofs` apply; no two writes have one
sequence number, so the search for a key ends at its own node.

Only model-checked: what `WritePath` adds to `WriteAhead` (`TypeOK`, `ManifestTellsVersion`,
`TablesFindTheirEntries`, `GetReturnsNewest`, `ScanReturnsNewest`, and that it implements
`LogSpec`), because the formats of blocks, tables and edits and the merge are recursive operators,
which the provers cannot take; and liveness, which is out of their reach, too.

## 5. Not modelled, and what is left

Not modelled: the spelling of file names, the CRC polynomial, the chances of
`random_height`, `allowed_seeks` (which nothing reads), error texts; `error.rs` and `lib.rs`;
functions only tests call (`BloomFilter::from_keys`, `MemTable::put` and `delete`).
Snapshots in bytes, more than two levels in bytes, and crashes between the disk operations
of one action in bytes are left to `LsmTree` and `Durability`.
