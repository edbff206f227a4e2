------------------------------ MODULE WriteAhead ------------------------------
(***************************************************************************)
(* The write-ahead log and the memtable beside it: a write appends to both *)
(* (Db::write), a flush replaces both, and recovery reads back what a      *)
(* crash has left of the log (Db::recover_open).                           *)
(*                                                                         *)
(* The log is kept in bytes (LogFormat), the memtable as its skip list.    *)
(* What a flush writes elsewhere is left out, and any write may fill the   *)
(* memtable; WritePath adds the tables and the manifest.                   *)
(***************************************************************************)
EXTENDS LogFormat

CONSTANTS
  MAX_HEIGHT,        \* levels of the skip list (12)
  Users,             \* user keys, as sequences of bytes
  Values             \* for each sequence number, the values that may be put with it

\* Lengths and sequence numbers fit their fields: key and value lengths are
\* u32, and no database lives to use up its sequence numbers, which are u64.
ASSUME WritesAssumption ==
  /\ MAX_HEIGHT \in Nat \ {0}
  /\ Users \subseteq Seq(0..(BYTE - 1))
  /\ \A u \in Users : u # <<>> /\ Len(u) < Power(BYTE, WORD)
  /\ Values \in Seq(SUBSET Seq(0..(BYTE - 1)))
  /\ \A seq \in DOMAIN Values : \A v \in Values[seq] : Len(v) < Power(BYTE, WORD)
  /\ Len(Values) < Power(BYTE, LONG)

VARIABLES
  wal, walOffset,    \* the current log and WalWriter::block_offset
  list,              \* the skip list of the memtable
  lastSeq,           \* VersionSet::last_sequence, the memtable's as well
  history,           \* ghost: the operations, by sequence number
  ends               \* ghost: where the records of the log end

logVars == <<wal, walOffset, list, lastSeq, history, ends>>

Memory == INSTANCE SkipList WITH NoKey <- InternalKey(<<>>, 0, Put), Before <- KeyBefore

(***************************************************************************)
(* Writing.                                                                *)
(***************************************************************************)
Entry(user, seq, vtype, value) == [user |-> user, seq |-> seq, vtype |-> vtype, value |-> value]

\* put and delete, at any sequence number.
Puts == UNION {{Entry(user, seq, Put, value) : user \in Users, value \in Values[seq]} : seq \in DOMAIN Values}

Deletes == {Entry(user, seq, Delete, <<>>) : user \in Users, seq \in DOMAIN Values}

Writable == Puts \cup Deletes

\* What the next write may be.
NewEntries == {e \in Writable : e.seq = lastSeq + 1}

\* MemTable::apply.
Applied(l, e, height) == Memory!Insert(l, InternalKey(e.user, e.seq, e.vtype), e.value, height)

\* A new log and an empty memtable.
FreshLog ==
  /\ wal' = <<>>
  /\ walOffset' = 0
  /\ list' = Memory!EmptyList
  /\ ends' = <<>>

\* What add_record appends, and the entry applied.
Extend(record, applied) ==
  /\ wal' = wal \o record.bytes
  /\ walOffset' = record.offset
  /\ list' = applied
  /\ ends' = Append(ends, Len(wal) + Len(record.bytes))

LogAndApply(entry, height) ==
  Extend(AddRecord(EncodeEntry(entry), walOffset), Applied(list, entry, height))

Numbered(entry) ==
  /\ lastSeq' = entry.seq
  /\ history' = Append(history, entry)

\* write: a memtable that it fills is flushed, with the log.
LogWrite(entry, height) ==
  /\ Numbered(entry)
  /\ FreshLog \/ LogAndApply(entry, height)

(***************************************************************************)
(* Recovery after a crash that left m bytes of the log, and zeros up to    *)
(* the length n.                                                           *)
(***************************************************************************)
Remains(file, m, n) == SubSeq(file, 1, m) \o Zeros(n - m)

DecodeAll(records) == [i \in DOMAIN records |-> DecodeEntry(records[i])]

AllDecode(decoded) == \A i \in DOMAIN decoded : decoded[i].ok

EntriesIn(decoded) == [i \in DOMAIN decoded |-> decoded[i].entry]

\* The sequence number after a replay.
SeqAfter(saved, entries) == IF entries = <<>> THEN saved ELSE Max({saved, entries[Len(entries)].seq})

\* The last sequence number of the manifest: that of the write before the log.
Saved == lastSeq - Len(ends)

\* The entries become a table, and the log is replaced.
Replay(decoded) ==
  /\ AllDecode(decoded)
  /\ lastSeq' = SeqAfter(Saved, EntriesIn(decoded))
  /\ history' = SubSeq(history, 1, lastSeq')

\* The log may have lost its end.  Zeros in place of the end give nothing else:
\* that is ZerosLeavePrefix.
LogReopen ==
  /\ FreshLog
  /\ \E m \in 0..Len(wal) : Replay(DecodeAll(ReadRecords(Remains(wal, m, m))))

LogInit ==
  /\ wal = <<>> /\ walOffset = 0
  /\ list = Memory!EmptyList
  /\ lastSeq = 0
  /\ history = <<>> /\ ends = <<>>

LogNext ==
  \/ \E entry \in NewEntries, height \in 1..MAX_HEIGHT : LogWrite(entry, height)
  \/ LogReopen

\* Log and memtable; checked as a property of WritePath: whatever the tables
\* and the manifest do beside them, the two move as here (flush_memtable,
\* recover_open).
LogSpec == LogInit /\ [][LogNext]_logVars

(***************************************************************************)
(* Properties.                                                             *)
(***************************************************************************)
\* Types: bytes are bytes, a block is never filled past its end
\* (WalWriter::block_offset), and writes are numbered without holes.
LogTypeOK ==
  /\ wal \in Seq(0..(BYTE - 1))
  /\ walOffset \in 0..BLOCK_SIZE
  /\ lastSeq = Len(history) /\ lastSeq \in 0..Len(Values)
  /\ Len(ends) \in 0..lastSeq

\* On every level of the skip list each node points to the first of the nodes
\* behind it that reach the level: whatever heights were drawn, the walk down
\* the levels finds every entry (SkipList::insert, get).
SkipListWellFormed ==
  /\ Memory!WellFormed(list)
  /\ \A n \in 2..Len(list.nodes) : Memory!Find(list, list.nodes[n].key) = n

\* The writes from one sequence number to another.
Writes(from, to) == SubSeq(history, from, to)

DecodesTo(decoded, entries) == AllDecode(decoded) /\ EntriesIn(decoded) = entries

\* The log holds what the memtable holds: reading the records back and
\* decoding them gives the writes in order, wherever the borders of blocks
\* cut them, and they are the entries of the skip list (write, recover_open).
MemtableIsLog ==
  /\ DecodesTo(DecodeAll(ReadRecords(wal)), Writes(Saved + 1, lastSeq))
  /\ {[key |-> n.key, value |-> n.value] : n \in {list.nodes[i] : i \in 2..Len(list.nodes)}}
       = {[key |-> InternalKey(e.user, e.seq, e.vtype), value |-> e.value] :
            e \in {history[i] : i \in (Saved + 1)..lastSeq}}

\* What is read back of a log are its first entries, with every one whose
\* record ends at or before m.
IsPrefix(decoded, m) ==
  /\ Len(decoded) <= Len(ends)
  /\ DecodesTo(decoded, Writes(Saved + 1, Saved + Len(decoded)))
  /\ \A i \in DOMAIN ends : ends[i] <= m => i <= Len(decoded)

\* A log that a crash has cut at any byte opens, and recovery finds the first
\* writes of it, with every one whose record is there whole (read_records:
\* "stops at the torn piece").
CutLeavesPrefix ==
  \A m \in 0..Len(wal) : IsPrefix(DecodeAll(ReadRecords(Remains(wal, m, m))), m)

\* The same when the file has kept its length, and zeros behind the cut: a
\* type that is 0 is passed over, and a checksum notices lost data.
ZerosLeavePrefix ==
  \A m \in 0..Len(wal) : IsPrefix(DecodeAll(ReadRecords(Remains(wal, m, Len(wal)))), m)

(***************************************************************************)
(* No checksum notices every change.  What is needed of it is that zeros   *)
(* in place of the end of the data of a piece do not pass for the data.    *)
(***************************************************************************)
\* What a piece of the log may hold.
Texts == UNION {{Slice(s, from, to) : from, to \in 0..Len(s)} : s \in {EncodeEntry(e) : e \in Writable}}

ChecksumNoticesLoss ==
  \A rtype \in {Full, First, Middle, Last}, data \in Texts : \A m \in 0..Len(data) :
    Checksum(rtype, Remains(data, m, Len(data))) = Checksum(rtype, data) => Remains(data, m, Len(data)) = data
===============================================================================
