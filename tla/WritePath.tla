------------------------------ MODULE WritePath ------------------------------
(***************************************************************************)
(* The bytes of a database: what a write puts into the log, the memtable,  *)
(* an SSTable and the manifest, and what reads and recovery find in them.  *)
(*                                                                         *)
(* The formats are those of LogFormat, EditFormat, TableFormat, SkipList   *)
(* and Iterators; this machine produces their inputs the way Db does.      *)
(* Every action is an operation under the mutex of Db.  There are no       *)
(* snapshots, and two levels.                                              *)
(***************************************************************************)
EXTENDS WriteAhead, EditFormat, Iterators

CONSTANTS
  Asked,             \* user keys that are read
  AllOptions,        \* the choices of Options.block_size and memtable_flush_entries
  BITS_PER_KEY,      \* Options.bloom_bits_per_key
  FLUSH_BYTES,       \* Options.memtable_max_bytes
  COMPARATOR,        \* the name of the comparator
  MaxReopens         \* bound on restarts

ASSUME BytesAssumption ==
  /\ AllOptions \subseteq [blockSize : Nat, flushEntries : Nat \ {0}]
  /\ FLUSH_BYTES \in Nat

VARIABLES
  options,           \* Options
  memBytes,          \* approx_bytes of the memtable
  manifest, manifestOffset,
  levels,            \* the files of levels 0 and 1
  pointer,           \* compact_pointer of level 0
  logNumber, next,   \* the number of the log, the next number to give out
  disk,              \* the bytes of the SSTables
  floor,             \* ghost: the newest sequence number that was compacted
  reopens            \* bound: restarts so far

vars == <<options, wal, walOffset, list, memBytes, lastSeq, manifest, manifestOffset, levels, pointer,
          logNumber, next, disk, history, ends, floor, reopens>>

Seqs == INSTANCE SequencesExt

(***************************************************************************)
(* The state a manifest stands for: VersionSet::recover.                   *)
(***************************************************************************)
NoVersion == [levels |-> <<<<>>, <<>>>>, log |-> 0, next |-> 0, lastSeq |-> 0, pointer |-> <<>>]

Given(n, old) == IF n = Unset THEN old ELSE n

MetasOf(new) == [i \in DOMAIN new |-> new[i].meta]

FilesAt(edit, level) == MetasOf(SelectSeq(edit.new, LAMBDA f : f.level = level))

IsDeleted(edit, level, meta) ==
  \E i \in DOMAIN edit.deleted : edit.deleted[i] = [level |-> level, number |-> meta.number]

\* apply_edit, and the scalars of write_new_version.
ApplyEdit(v, edit) ==
  [levels |-> [i \in 1..2 |-> SelectSeq(v.levels[i], LAMBDA f : ~IsDeleted(edit, i - 1, f))
                               \o FilesAt(edit, i - 1)],
   log |-> Given(edit.log, v.log), next |-> Given(edit.next, v.next),
   lastSeq |-> Given(edit.lastSeq, v.lastSeq),
   pointer |-> IF edit.pointers = <<>> THEN v.pointer ELSE edit.pointers[Len(edit.pointers)].key]

RECURSIVE ReplayEdits(_, _)
ReplayEdits(v, records) ==
  IF records = <<>> THEN v ELSE ReplayEdits(ApplyEdit(v, DecodeEdit(Head(records)).edit), Tail(records))

RecoverVersion(file) == ReplayEdits(NoVersion, ReadRecords(file))

\* The version in memory, without the sequence number.
Current == [levels |-> levels, log |-> logNumber, next |-> next, lastSeq |-> lastSeq, pointer |-> pointer]

\* ManifestWriter::append, and what write_new_version keeps of the version.
Install(record, new) ==
  /\ manifest' = manifest \o record.bytes
  /\ manifestOffset' = record.offset
  /\ levels' = new.levels
  /\ logNumber' = new.log
  /\ pointer' = new.pointer

\* write_new_version, the last block of the manifest being filled up to offset.
Commit(v, offset, edit) == Install(AddRecord(EncodeEdit(edit), offset), ApplyEdit(v, edit))

(***************************************************************************)
(* The memtable (memtable.rs).                                             *)
(***************************************************************************)
\* Replays entries; the heights are drawn from the pattern hs, again and again.
RECURSIVE ReplayEntries(_, _, _)
ReplayEntries(l, entries, hs) ==
  IF entries = <<>> THEN l
  ELSE ReplayEntries(Applied(l, Head(entries), Head(hs)), Tail(entries), Tail(hs) \o <<Head(hs)>>)

NumEntries(l) == Len(l.nodes) - 1

\* get_entry.
AnswerAt(l, n, user) ==
  IF n = Memory!NIL THEN NotFound
  ELSE IF l.nodes[n].key.user # user THEN NotFound
  ELSE [ok |-> TRUE, vtype |-> l.nodes[n].key.vtype, value |-> l.nodes[n].value]

MemGet(l, user, seq) == AnswerAt(l, Memory!LowerBound(l, InternalKey(user, seq, Put)), user)

\* snapshot_entries.
Encoded(entries) ==
  [i \in DOMAIN entries |-> [key |-> EncodeKey(entries[i].key), value |-> entries[i].value]]

MemItems(l, seq) == Encoded(SelectSeq(Memory!Iter(l), LAMBDA e : e.key.seq <= seq))

(***************************************************************************)
(* Writing.                                                                *)
(***************************************************************************)
\* The file of a table is written.
Store(number, file) == disk' = [n \in DOMAIN disk \cup {number} |-> IF n = number THEN file ELSE disk[n]]

MetaOf(number, entries, file) == FileMeta(number, Len(file), entries[1].key, entries[Len(entries)].key)

TableOf(entries) == BuildTable(entries, options.blockSize, BITS_PER_KEY)

\* Mutant: the memtable is replaced, and the log is not.
ReplacedKeepingLog ==
  /\ list' = Memory!EmptyList
  /\ memBytes' = 0
  /\ UNCHANGED <<wal, walOffset, ends>>

\* The next log, and a new memtable.
Replaced ==
  /\ FreshLog
  /\ memBytes' = 0

\* The table of a memtable, the next log and the edit that commits both.
FlushEntries(entries, file, seq, v, offset) ==
  /\ Store(v.next, file)
  /\ next' = v.next + 2
  /\ Commit(v, offset,
            [EmptyEdit EXCEPT !.new = <<[level |-> 0, meta |-> MetaOf(v.next, entries, file)]>>,
                              !.log = v.next + 1, !.next = v.next + 2, !.lastSeq = seq])
  /\ Replaced

\* flush_memtable, and the same steps in recover_open.
Flush(l, seq, v, offset) == FlushEntries(Memory!Iter(l), TableOf(Memory!Iter(l)), seq, v, offset)

IsFull(l, bytes) == NumEntries(l) >= options.flushEntries \/ (FLUSH_BYTES > 0 /\ bytes >= FLUSH_BYTES)

\* The log is appended to and the memtable applied; a full memtable is flushed.
WriteApplied(record, applied, bytes) ==
  IF IsFull(applied, bytes) THEN Flush(applied, lastSeq + 1, Current, manifestOffset)
  ELSE /\ Extend(record, applied)
       /\ memBytes' = bytes
       /\ UNCHANGED <<manifest, manifestOffset, levels, pointer, logNumber, next, disk>>

\* write.  Bound: every restart leaves one write less to be made.
Write(entry, height) ==
  /\ lastSeq + reopens < Len(Values)
  /\ Numbered(entry)
  /\ WriteApplied(AddRecord(EncodeEntry(entry), walOffset), Applied(list, entry, height),
                  memBytes + Len(entry.user) + Len(entry.value))
  /\ UNCHANGED <<options, floor, reopens>>

(***************************************************************************)
(* Recovery: recover_open after a crash that left m bytes of the log, and  *)
(* zeros up to the length n.                                               *)
(***************************************************************************)
\* The entries of the log become a table; an empty log is only replaced.
RecoverWith(v, entries, seq, hs) ==
  /\ lastSeq' = seq
  /\ history' = SubSeq(history, 1, seq)
  /\ IF entries # <<>> THEN Flush(ReplayEntries(Memory!EmptyList, entries, hs), seq, v, OffsetOf(manifest))
     ELSE /\ Commit(v, OffsetOf(manifest), [EmptyEdit EXCEPT !.log = v.next, !.next = v.next + 1])
          /\ next' = v.next + 1
          /\ Replaced
          /\ UNCHANGED disk

Recover(v, decoded, hs) ==
  /\ AllDecode(decoded)
  /\ RecoverWith(v, EntriesIn(decoded), SeqAfter(v.lastSeq, EntriesIn(decoded)), hs)

Reopen(m, n, hs) ==
  /\ reopens < MaxReopens
  /\ reopens' = reopens + 1
  /\ Recover(RecoverVersion(manifest), DecodeAll(ReadRecords(Remains(wal, m, n))), hs)
  /\ UNCHANGED <<options, floor>>

(***************************************************************************)
(* Compaction of level 0: do_compaction with no snapshots, and its commit. *)
(***************************************************************************)
SrcOf(meta) == TableIter(OpenTable(disk[meta.number]))

\* The entries a merge hands out, one stream after the other in order.
RECURSIVE Drained(_)
Drained(merger) == IF merger.heap = {} THEN <<>> ELSE <<Top(merger)>> \o Drained(Pop(merger))

\* The newest version of each user key, unless it is a Delete: level 1 is
\* the last one.
KeptAt(merged) ==
  SelectSeq([i \in DOMAIN merged |-> i],
            LAMBDA i : /\ TypeOf(merged[i].key) = Put
                       /\ i > 1 => UserOf(merged[i - 1].key) # UserOf(merged[i].key))

Picked(merged, at) ==
  [i \in DOMAIN at |-> [key |-> DecodeKey(merged[at[i]].key).key, value |-> merged[at[i]].value]]

Kept(merged) == Picked(merged, KeptAt(merged))

Overlaps(meta, files) ==
  \E i, j \in DOMAIN files : /\ ~BytesBefore(meta.largest.user, files[i].smallest.user)
                             /\ ~BytesBefore(files[j].largest.user, meta.smallest.user)

Inputs == levels[1] \o SelectSeq(levels[2], LAMBDA f : Overlaps(f, levels[1]))

Streams(files) == [i \in DOMAIN files |-> SrcOf(files[i])]

DeletedBy(inputs) ==
  [i \in DOMAIN inputs |-> [level |-> IF i <= Len(levels[1]) THEN 0 ELSE 1, number |-> inputs[i].number]]

\* The edit without a new file, and with one.
CompactEdit(inputs) == [EmptyEdit EXCEPT !.deleted = DeletedBy(inputs), !.next = next]

CompactEditWith(inputs, meta) ==
  [CompactEdit(inputs) EXCEPT !.next = next + 1, !.new = <<[level |-> 1, meta |-> meta]>>,
                              !.pointers = <<[level |-> 0, key |-> meta.largest.user]>>]

CompactInto(inputs, entries, file) ==
  /\ Store(next, file)
  /\ Commit(Current, manifestOffset, CompactEditWith(inputs, MetaOf(next, entries, file)))
  /\ next' = next + 1

CompactEntries(inputs, entries) ==
  IF entries = <<>>
  THEN /\ Commit(Current, manifestOffset, CompactEdit(inputs))
       /\ UNCHANGED <<disk, next>>
  ELSE CompactInto(inputs, entries, TableOf(entries))

\* Any positive score is enough: one file in level 0.
Compact ==
  /\ levels[1] # <<>>
  /\ floor' = lastSeq
  /\ CompactEntries(Inputs, Kept(Drained(Merging(Streams(Inputs)))))
  /\ UNCHANGED <<options, wal, walOffset, list, memBytes, lastSeq, history, ends, reopens>>

(***************************************************************************)
(* create_new numbers the manifest 1 and the log 2.                        *)
(***************************************************************************)
Created ==
  AddRecord(EncodeEdit([EmptyEdit EXCEPT !.comparator = COMPARATOR, !.log = 2, !.next = 3, !.lastSeq = 0]), 0)

Init ==
  /\ options \in AllOptions
  /\ LogInit
  /\ memBytes = 0
  /\ manifest = Created.bytes /\ manifestOffset = Created.offset
  /\ levels = <<<<>>, <<>>>> /\ pointer = <<>>
  /\ logNumber = 2 /\ next = 3
  /\ disk = <<>>
  /\ floor = 0 /\ reopens = 0

\* Restarts are tried where the log ends with a record: CutLeavesPrefix
\* and ZerosLeavePrefix tell that every other cut reads like one of these.
RecordEnds == {0} \cup {ends[i] : i \in DOMAIN ends}

HeightPatterns == {<<2, 1, 1>>}

Next ==
  \/ \E entry \in NewEntries, height \in 1..MAX_HEIGHT : Write(entry, height)
  \/ \E end \in RecordEnds, hs \in HeightPatterns : Reopen(end, end, hs)
  \/ Compact

Spec == Init /\ [][Next]_vars

(***************************************************************************)
(* Reads.                                                                  *)
(***************************************************************************)
LastOf(files) == IF files = <<>> THEN <<>> ELSE <<files[Len(files)]>>

\* find_file_for_key, in a sorted level: the last file that does not begin
\* behind the key, if the key is not behind its end.
FileFor(files, user) ==
  SelectSeq(LastOf(SelectSeq(files, LAMBDA f : ~BytesBefore(user, f.smallest.user))),
            LAMBDA f : ~BytesBefore(f.largest.user, user))

FromTable(meta, user, seq) == GetEntry(OpenTable(disk[meta.number]), user, seq)

\* The first answer, of the memtable or of a file.
RECURSIVE FirstHit(_, _, _, _)
FirstHit(hit, files, user, seq) ==
  IF hit.ok \/ files = <<>> THEN hit
  ELSE FirstHit(FromTable(Head(files), user, seq), Tail(files), user, seq)

\* A Delete hides what is behind it.
Seen(hit) ==
  IF ~hit.ok THEN NotFound
  ELSE IF hit.vtype = Delete THEN NotFound
  ELSE [ok |-> TRUE, value |-> hit.value]

\* get_at: the memtable, level 0 from the newest file on, one file of level 1.
Get(user, seq) ==
  Seen(FirstHit(MemGet(list, user, seq), Seqs!Reverse(levels[1]) \o FileFor(levels[2], user), user, seq))

\* new_iterator_at, run to its end.
Scan(seq) == DBIter(<<VecIter(MemItems(list, seq))>> \o Streams(levels[1] \o levels[2]), seq)

\* What a read at a sequence number must return, from the operations.
Newest(user, seq) ==
  LET ops == {i \in 1..seq : history[i].user = user}
  IN IF ops = {} THEN NotFound
     ELSE IF history[Max(ops)].vtype = Delete THEN NotFound
     ELSE [ok |-> TRUE, value |-> history[Max(ops)].value]

(***************************************************************************)
(* Properties.                                                             *)
(***************************************************************************)
\* Types: bytes are bytes, and a block is never filled past its end
\* (WalWriter::block_offset).
TypeOK ==
  /\ \A file \in {manifest} \cup {disk[n] : n \in DOMAIN disk} :
       \A i \in DOMAIN file : file[i] \in 0..(BYTE - 1)
  /\ manifestOffset \in 0..BLOCK_SIZE
  /\ DOMAIN disk \subseteq 3..(next - 1)
  /\ logNumber \in 2..(next - 1)

\* Replaying the manifest gives the version in memory: every edit, cut into
\* pieces and encoded field by field, is decoded to what was applied
\* (VersionEdit::encode, decode; VersionSet::recover).
ManifestTellsVersion ==
  RecoverVersion(manifest) = [Current EXCEPT !.lastSeq = Saved]

\* A table, what it holds, and its entry in the version.
Agree(reader, entries, meta) ==
  /\ reader.ok /\ reader.bloom.ok
  /\ meta.size = Len(reader.file)
  /\ Head(entries).key = EncodeKey(meta.smallest)
  /\ entries[Len(entries)].key = EncodeKey(meta.largest)
  /\ \A e \in {entries[j] : j \in DOMAIN entries} :
       GetEntry(reader, UserOf(e.key), SeqOf(e.key)) =
         [ok |-> TRUE, vtype |-> TypeOf(e.key), value |-> e.value]

Finds(reader, meta) == Agree(reader, Drained(Merging(<<TableIter(reader)>>)), meta)

\* Every entry of a table is found by a search for its own key, whatever
\* restart points and blocks it lies between, and the table's bounds are its
\* first and last key (TableBuilder, TableReader::get_entry).
TablesFindTheirEntries ==
  \A level \in 1..2 : \A i \in DOMAIN levels[level] :
    Finds(OpenTable(disk[levels[level][i].number]), levels[level][i])

\* apply_edit appends the file of a compaction to the list of level 1, wherever
\* its keys lie, and find_file_for_key needs the list in order (LsmUnsortedList).
ListSorted ==
  \A i \in 2..Len(levels[2]) : BytesBefore(levels[2][i - 1].largest.user, levels[2][i].smallest.user)

\* Where level 1 is in order, a point read at any sequence number that was not
\* compacted away returns the newest operation at or before it, whichever of
\* memtable, filter, index and data block it has to pass (Db::get_at).
GetReturnsNewest ==
  ListSorted => \A user \in Asked, seq \in floor..lastSeq : Get(user, seq) = Newest(user, seq)

Shows(pairs, seq) ==
  /\ {pairs[i] : i \in DOMAIN pairs} =
       {<<user, Newest(user, seq).value>> : user \in {u \in Users : Newest(u, seq).ok}}
  /\ \A i \in 2..Len(pairs) : BytesBefore(pairs[i - 1][1], pairs[i][1])

\* A scan at such a sequence number shows each user key once, in order, with
\* what a point read returns (MergingIterator, DBIter).
ScanReturnsNewest ==
  \A seq \in floor..lastSeq : Shows(Scan(seq), seq)
===============================================================================
