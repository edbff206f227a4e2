----------------------------- MODULE Durability -----------------------------
(***************************************************************************)
(* The directory of mulan-lsm and how its contents survive: the manifest   *)
(* that CURRENT names, the log, the SSTables, and the operations that      *)
(* change them, cut at every disk operation.  The process may die, or the  *)
(* machine lose what was not synced, between any two of them, and a disk   *)
(* operation named in Faults may fail.  Every operation holds the mutex    *)
(* for its whole length, so one is in progress at a time and pc is global. *)
(*                                                                         *)
(* What an entry holds is left out: it is its sequence number and the      *)
(* identity of the write.  Compaction keeps every entry here; which ones   *)
(* it may drop, and where files lie, is the subject of LsmTree.  Names of  *)
(* files are taken to survive once made, and what a sync covered to stay.  *)
(***************************************************************************)
EXTENDS Integers, FiniteSets, Sequences

CONSTANTS Faults,       \* the disk operations that may fail: values of pc
          TornTails,    \* what a crash may cut inside a record: "log", "manifest"
          Torn,         \* a record of which only a part was written
          MaxWrites,    \* bound of the model: writes ever begun
          MaxOpens,     \* bound of the model: how often the database is opened
          MaxCompact    \* bound of the model: compactions start below this number

ASSUME DurabilityAssumption ==
  /\ TornTails \subseteq {"log", "manifest"}
  /\ MaxWrites \in Nat
  /\ MaxOpens \in Nat
  /\ MaxCompact \in Nat

VARIABLES dir,       \* "empty", "unnamed" (files but no CURRENT) or "named"
          manifest,  \* the one manifest: its number never changes
          logs,      \* the log files that exist, by number
          ssts,      \* the entries of the SSTables that exist, by number
          pc,        \* the operation in progress and its next disk operation
          sync,      \* options.sync_writes of this opening
          mem,       \* the memtable
          frozen,    \* the memtable that a flush has taken out
          live,      \* the numbers of the files of the current Version
          wal,       \* version_set.log_number and wal_number
          lastSeq,   \* last_sequence, which is also the memtable's seq
          nextNum,   \* id_gen
          edit,      \* the VersionEdit being prepared
          issued,    \* ghost: how many writes were begun
          sure,      \* ghost: the writes that the code has put on disk and reported so
          opens      \* ghost: bounds the openings

disk   == <<dir, manifest, logs, ssts>>
memory == <<sync, mem, frozen, live, wal, lastSeq, nextNum, edit>>
ghosts == <<issued, sure, opens>>
vars   == <<disk, pc, memory, ghosts>>

Closed  == <<"closed", "">>
Running == <<"running", "">>

Steps == {Closed, Running, <<"put", "append">>, <<"put", "sync">>, <<"close", "sync">>}
  \cup {"create"}  \X {"append", "sync", "current", "log"}
  \cup {"recover"} \X {"sst", "log", "append", "sync", "open", "clean"}
  \cup {"flush"}   \X {"sst", "log", "old", "append", "sync"}
  \cup {"compact"} \X {"sst", "append", "sync"}

Entry  == [seq : Nat, id : Nat]
Edit   == [add : SUBSET Nat, del : SUBSET Nat, log : Nat, next : Nat, seq : Nat]
Unset  == 0       \* a field an edit does not carry; also the number of no file
NoEdit == [add |-> {}, del |-> {}, log |-> Unset, next |-> Unset, seq |-> Unset]

\* A torn record is not taken for a whole one; a disk operation may fail, nothing else.
ASSUME FaultsAssumption ==
  /\ Torn \notin Entry \cup Edit
  /\ Faults \subseteq Steps \ {Closed, Running}

----------------------------------------------------------------------------
(* Files that are appended to: the logs and the manifest *)

EmptyFile == [recs |-> <<>>, synced |-> 0]

Appended(f, r) == [f EXCEPT !.recs = Append(@, r)]

Synced(f) == [f EXCEPT !.synced = Len(f.recs)]

\* read_records stops at the first piece whose checksum fails.
Readable(f) ==
  LET torn == {i \in DOMAIN f.recs : f.recs[i] = Torn}
  IN IF torn = {} THEN f.recs
     ELSE SubSeq(f.recs, 1, (CHOOSE i \in torn : \A j \in torn : i <= j) - 1)

RecordsIn(f) == LET r == Readable(f) IN {r[i] : i \in DOMAIN r}

\* What a crash may leave of f: everything synced and a part of the rest, possibly
\* with the beginning of the next record.
Remains(f, mayTear) ==
  LET cut(n) == SubSeq(f.recs, 1, n)
  IN {[recs |-> cut(n), synced |-> n] : n \in f.synced .. Len(f.recs)}
       \cup {[recs |-> Append(cut(n), Torn), synced |-> n + 1] :
               n \in IF mayTear THEN f.synced .. Len(f.recs) - 1 ELSE {}}

\* What a failed append may leave: nothing, or the beginning of the record.
AfterFailedAppend(f) == {f, Appended(f, Torn)}

----------------------------------------------------------------------------
(* Replaying the manifest *)

\* Mutant: the first edit that carries a field decides.
Earliest(edits, field) ==
  LET carrying == {i \in DOMAIN edits : edits[i][field] # Unset}
  IN IF carrying = {} THEN Unset
     ELSE edits[CHOOSE i \in carrying : \A j \in carrying : i <= j][field]

\* A scalar field of the recovered VersionSet: the last edit that carries it decides.
Latest(edits, field) ==
  LET carrying == {i \in DOMAIN edits : edits[i][field] # Unset}
  IN IF carrying = {} THEN Unset
     ELSE edits[CHOOSE i \in carrying : \A j \in carrying : i >= j][field]

\* apply_edit, for one edit and for all of them: files deleted, then files added.
Apply(nums, e) == (nums \ e.del) \cup e.add

LiveAfter(edits) ==
  UNION {{n \in edits[i].add : \A j \in i + 1 .. Len(edits) : n \notin edits[j].del} :
           i \in DOMAIN edits}

\* VersionSet::recover
Replay(edits) ==
  [live |-> LiveAfter(edits),
   log  |-> Latest(edits, "log"),
   next |-> Latest(edits, "next"),
   seq  |-> Latest(edits, "seq")]

OnDisk == Replay(Readable(manifest))

LogEntries(n) == IF n \in DOMAIN logs THEN RecordsIn(logs[n]) ELSE {}

EntriesOf(nums) == UNION {ssts[n] : n \in nums \cap DOMAIN ssts}

\* The writes an opening of the directory as it is now would find.
DiskContent ==
  IF dir = "named" THEN EntriesOf(OnDisk.live) \cup LogEntries(OnDisk.log) ELSE {}

\* The writes the running database shows.
MemoryContent == mem \cup EntriesOf(live)

----------------------------------------------------------------------------
Forgotten ==
  /\ sync' = FALSE
  /\ mem' = {}
  /\ frozen' = {}
  /\ live' = {}
  /\ wal' = Unset
  /\ lastSeq' = 0
  /\ nextNum' = Unset
  /\ edit' = NoEdit

Init ==
  /\ dir = "empty"
  /\ manifest = EmptyFile
  /\ logs = <<>>
  /\ ssts = <<>>
  /\ pc = Closed
  /\ sync = FALSE /\ mem = {} /\ frozen = {} /\ live = {}
  /\ wal = Unset /\ lastSeq = 0 /\ nextNum = Unset /\ edit = NoEdit
  /\ issued = 0 /\ sure = {} /\ opens = 0

\* WalWriter::create opens for appending: what an existing file holds stays.
WithLog(n) == [m \in DOMAIN logs \cup {n} |-> IF m \in DOMAIN logs THEN logs[m] ELSE EmptyFile]

\* Db::open on an empty directory, up to the creation of the manifest file.
OpenNew ==
  /\ pc = Closed /\ dir = "empty" /\ opens < MaxOpens
  /\ dir' = "unnamed"
  /\ pc' = <<"create", "append">>
  /\ sync' \in BOOLEAN
  /\ nextNum' = 3       \* 1 is the manifest, 2 the log
  /\ edit' = [NoEdit EXCEPT !.log = 2, !.next = 3]
  /\ opens' = opens + 1
  /\ UNCHANGED <<manifest, logs, ssts, mem, frozen, live, wal, lastSeq, issued, sure>>

\* write_current: CURRENT appears whole, by renaming.  Until then a directory that is
\* not empty and has no CURRENT is refused by Db::open.
WriteCurrent ==
  /\ pc = <<"create", "current">>
  /\ dir' = "named"
  /\ pc' = <<"create", "log">>
  /\ UNCHANGED <<manifest, logs, ssts, memory, ghosts>>

\* Mutant: the numbering of files starts again.
NumbersFromStart(v) == 3

NumbersFrom(v) == v.next

\* Mutant: an empty log is opened again and appended to, whatever its tail is.
SameLog(v) == v.log

FreshLog(v) == NumbersFrom(v)

\* Mutant: last_sequence is not advanced past the log.
SeqOfManifest(v, r) == v.seq

\* The memtable starts at the last_sequence of the manifest and advances with the log.
RecoveredSeq(v, r) ==
  CHOOSE s \in {v.seq} \cup {e.seq : e \in r} : s >= v.seq /\ \A e \in r : s >= e.seq

\* recover_open up to its first write: the manifest and the log are replayed.  What the
\* log gives goes to a new SSTable; if it gives nothing, only the log is replaced.
OpenExisting ==
  /\ pc = Closed /\ dir = "named" /\ opens < MaxOpens
  /\ LET v == OnDisk
         r == LogEntries(v.log)
     IN /\ mem' = r
        /\ live' = v.live
        /\ wal' = v.log
        /\ lastSeq' = RecoveredSeq(v, r)
        /\ nextNum' = NumbersFrom(v) + 1
        /\ IF r # {}
             THEN /\ pc' = <<"recover", "sst">>
                  /\ edit' = [NoEdit EXCEPT !.add = {NumbersFrom(v)}]
             ELSE /\ pc' = <<"recover", "append">>
                  /\ edit' = [NoEdit EXCEPT !.log = FreshLog(v), !.next = NumbersFrom(v) + 1]
  /\ sync' \in BOOLEAN
  /\ opens' = opens + 1
  /\ UNCHANGED <<disk, frozen, issued, sure>>

\* remove_obsolete_files: what is neither live nor the log goes, unless removing it
\* fails, which is ignored.
Clean ==
  /\ pc = <<"recover", "clean">>
  /\ \E spared \in SUBSET (DOMAIN ssts \ live) :
       ssts' = [n \in spared \cup (DOMAIN ssts \cap live) |-> ssts[n]]
  /\ \E spared \in SUBSET (DOMAIN logs \ {wal}) :
       logs' = [n \in spared \cup (DOMAIN logs \cap {wal}) |-> logs[n]]
  /\ pc' = Running
  /\ UNCHANGED <<dir, manifest, memory, ghosts>>

----------------------------------------------------------------------------
(* Steps that several operations share *)

\* An SSTable is written and synced: the frozen or the recovered memtable, or the merged
\* inputs of a compaction.  Flush and recovery then number the next log.
WriteSst ==
  /\ pc[2] = "sst"
  /\ LET written == IF pc[1] = "compact" THEN EntriesOf(edit.del) ELSE mem \cup frozen
     IN ssts' = [n \in DOMAIN ssts \cup edit.add |-> IF n \in edit.add THEN written ELSE ssts[n]]
  /\ IF pc[1] = "compact"
       THEN /\ pc' = <<"compact", "append">>
            /\ UNCHANGED <<edit, nextNum>>
       ELSE /\ pc' = <<pc[1], "log">>
            /\ edit' = [edit EXCEPT !.log = nextNum]
            /\ nextNum' = nextNum + 1
  /\ UNCHANGED <<dir, manifest, logs, sync, mem, frozen, live, wal, lastSeq, ghosts>>

\* The next log is made before the edit that names it; a recovery has its edit ready.
MakeLog ==
  /\ pc \in {<<"flush", "log">>, <<"recover", "log">>}
  /\ logs' = WithLog(edit.log)
  /\ IF pc[1] = "flush"
       THEN pc' = <<"flush", "old">> /\ UNCHANGED edit
       ELSE pc' = <<"recover", "append">> /\ edit' = [edit EXCEPT !.next = nextNum, !.seq = lastSeq]
  /\ UNCHANGED <<dir, manifest, ssts, sync, mem, frozen, live, wal, lastSeq, nextNum, ghosts>>

\* write_new_version, its first half: the edit is appended to the manifest.
AppendEdit ==
  /\ pc[2] = "append" /\ pc[1] # "put"
  /\ manifest' = Appended(manifest, edit)
  /\ pc' = <<pc[1], "sync">>
  /\ UNCHANGED <<dir, logs, ssts, memory, ghosts>>

AfterCommit == [create |-> <<"create", "current">>, recover |-> <<"recover", "open">>,
                flush  |-> Running,                 compact |-> Running]

\* Mutant: the numbers a compaction took from its private id_gen are not taken over.
NumbersForgotten(e) == nextNum

\* id_gen.bump_to after the commit of a compaction.
NumbersAfter(e) == IF pc[1] = "compact" THEN e.next ELSE nextNum

\* Its second half: the manifest is synced, then the edit becomes the current Version
\* and the operation takes what follows from the commit.
SyncEdit ==
  /\ pc[2] = "sync" /\ pc[1] \notin {"put", "close"}
  /\ manifest' = Synced(manifest)
  /\ live' = Apply(live, edit)
  /\ wal' = IF edit.log = Unset THEN wal ELSE edit.log
  /\ mem' = IF pc[1] = "recover" THEN {} ELSE mem
  /\ frozen' = {}
  /\ nextNum' = NumbersAfter(edit)
  /\ edit' = NoEdit
  /\ pc' = AfterCommit[pc[1]]
  /\ sure' = IF pc[1] = "flush" THEN sure \cup frozen ELSE sure
  /\ UNCHANGED <<dir, logs, ssts, sync, lastSeq, issued, opens>>

\* The log to write to is opened, in a recovery once more.
OpenLog ==
  /\ pc \in {<<"create", "log">>, <<"recover", "open">>}
  /\ logs' = WithLog(wal)
  /\ pc' = IF pc[1] = "create" THEN Running ELSE <<"recover", "clean">>
  /\ UNCHANGED <<dir, manifest, ssts, memory, ghosts>>


----------------------------------------------------------------------------
(* Db::write and flush_memtable *)

BeginPut ==
  /\ pc = Running
  /\ issued < MaxWrites
  /\ pc' = <<"put", "append">>
  /\ UNCHANGED <<disk, memory, ghosts>>

NewEntry == [seq |-> lastSeq + 1, id |-> issued + 1]

\* The entry goes to the memtable only now that the log has it.  Then the write returns,
\* or the memtable is full and is taken out to be flushed before the write returns.
Take(e) ==
  /\ lastSeq' = e.seq
  /\ \/ /\ mem' = mem \cup {e}
        /\ pc' = Running
        /\ sure' = IF sync THEN sure \cup {e} ELSE sure
        /\ UNCHANGED <<frozen, nextNum, edit>>
     \/ /\ frozen' = mem \cup {e}
        /\ mem' = {}
        /\ pc' = <<"flush", "sst">>
        /\ edit' = [NoEdit EXCEPT !.add = {nextNum}]
        /\ nextNum' = nextNum + 1
        /\ UNCHANGED sure

AppendWrite ==
  /\ pc = <<"put", "append">>
  /\ logs' = [logs EXCEPT ![wal] = Appended(@, NewEntry)]
  /\ issued' = issued + 1
  /\ IF sync
       THEN /\ pc' = <<"put", "sync">>
            /\ UNCHANGED <<mem, frozen, lastSeq, nextNum, edit, sure>>
       ELSE Take(NewEntry)
  /\ UNCHANGED <<dir, manifest, ssts, sync, live, wal, opens>>

SyncWrite ==
  /\ pc = <<"put", "sync">>
  /\ logs' = [logs EXCEPT ![wal] = Synced(@)]
  /\ Take([seq |-> lastSeq + 1, id |-> issued])
  /\ UNCHANGED <<dir, manifest, ssts, sync, live, wal, issued, opens>>

\* The old log is synced before the edit that abandons it.
SyncOldLog ==
  /\ pc = <<"flush", "old">>
  /\ logs' = [logs EXCEPT ![wal] = Synced(@)]
  /\ pc' = <<"flush", "append">>
  /\ edit' = [edit EXCEPT !.next = nextNum, !.seq = lastSeq]
  /\ UNCHANGED <<dir, manifest, ssts, sync, mem, frozen, live, wal, lastSeq, nextNum, ghosts>>

----------------------------------------------------------------------------
(* run_one_compaction, Db::drop, failures *)

\* Some of the live files are merged into one, numbered by a private id_gen.
BeginCompact ==
  /\ pc = Running
  /\ nextNum < MaxCompact
  /\ \E inputs \in (SUBSET live) \ {{}} :
       edit' = [NoEdit EXCEPT !.add = {nextNum}, !.del = inputs, !.next = nextNum + 1]
  /\ pc' = <<"compact", "sst">>
  /\ UNCHANGED <<disk, sync, mem, frozen, live, wal, lastSeq, nextNum, ghosts>>

BeginClose ==
  /\ pc = Running
  /\ pc' = <<"close", "sync">>
  /\ UNCHANGED <<disk, memory, ghosts>>

\* The log is synced, so that everything written is on disk when the database is closed.
FinishClose ==
  /\ pc = <<"close", "sync">>
  /\ logs' = [logs EXCEPT ![wal] = Synced(@)]
  /\ sure' = sure \cup MemoryContent
  /\ pc' = Closed
  /\ Forgotten
  /\ UNCHANGED <<dir, manifest, ssts, issued, opens>>

\* At any moment, also when no process runs: what was not synced may be lost.
Crash ==
  /\ manifest' \in Remains(manifest, "manifest" \in TornTails)
  /\ \E left \in [DOMAIN logs -> UNION {Remains(logs[n], "log" \in TornTails) : n \in DOMAIN logs}] :
       /\ \A n \in DOMAIN logs : left[n] \in Remains(logs[n], "log" \in TornTails)
       /\ logs' = left
  /\ pc' = Closed
  /\ Forgotten
  /\ UNCHANGED <<dir, ssts, ghosts>>

\* A disk operation fails and the error is returned by every caller.  A failed opening
\* leaves no Db; Db::drop ignores the error; a failed put or compaction leaves the Db as
\* it is in memory at that point, and it goes on.
IoError ==
  /\ pc \in Faults
  /\ manifest' \in IF pc[2] = "append" /\ pc[1] # "put" THEN AfterFailedAppend(manifest) ELSE {manifest}
  /\ logs' \in IF pc = <<"put", "append">>
                 THEN {[logs EXCEPT ![wal] = f] : f \in AfterFailedAppend(logs[wal])} ELSE {logs}
  /\ IF pc[1] \in {"create", "recover", "close"}
       THEN pc' = Closed /\ Forgotten
       ELSE /\ pc' = Running
            /\ frozen' = {} /\ edit' = NoEdit
            /\ UNCHANGED <<sync, mem, live, wal, lastSeq, nextNum>>
  /\ UNCHANGED <<dir, ssts, ghosts>>

Next ==
  \/ OpenNew \/ WriteCurrent \/ OpenExisting \/ Clean
  \/ WriteSst \/ MakeLog \/ AppendEdit \/ SyncEdit \/ OpenLog
  \/ BeginPut \/ AppendWrite \/ SyncWrite \/ SyncOldLog
  \/ BeginCompact \/ BeginClose \/ FinishClose
  \/ Crash \/ IoError

Spec == Init /\ [][Next]_vars

----------------------------------------------------------------------------
(* Properties *)

File == [recs : Seq(Entry \cup Edit \cup {Torn}), synced : Nat]

\* Types; every file the process relies on is numbered below the generator, which is
\* what makes the next number a fresh one (file_meta.rs, "numbers are never reused").
TypeOK ==
  /\ dir \in {"empty", "unnamed", "named"}
  /\ manifest \in File /\ manifest.synced <= Len(manifest.recs)
  /\ \A n \in DOMAIN logs : n \in Nat /\ logs[n] \in File /\ logs[n].synced <= Len(logs[n].recs)
  /\ \A n \in DOMAIN ssts : n \in Nat /\ ssts[n] \in SUBSET Entry
  /\ pc \in Steps
  /\ sync \in BOOLEAN
  /\ mem \in SUBSET Entry /\ frozen \in SUBSET Entry
  /\ live \in SUBSET Nat
  /\ edit \in Edit
  /\ wal \in Nat /\ lastSeq \in Nat /\ nextNum \in Nat
  /\ issued \in Nat /\ sure \in SUBSET Entry /\ opens \in Nat
  /\ pc # Closed => \A n \in live \cup {wal} : n = Unset \/ n < nextNum

\* Between two operations the running database shows exactly what a restart would find,
\* and its sequence number is that of its last write: nothing is visible that is not
\* in the log or in a committed file, and nothing recoverable is hidden.
LiveIsRecoverable ==
  pc = Running => /\ MemoryContent = DiskContent
                  /\ lastSeq = Cardinality(MemoryContent)

\* An edit that was appended and synced is committed: replaying the manifest gives the
\* Version and the log number that the running database has (version.rs,
\* write_new_version: a recovery replays the state with this edit).
CommitsReplayed ==
  pc = Running => OnDisk.live = live /\ OnDisk.log = wal

\* A file of the current Version is neither overwritten nor removed by any step.
LiveFilesImmutable ==
  [][\A n \in live : n \in DOMAIN ssts' /\ ssts'[n] = ssts[n]]_vars

\* The writes that were promised (a put with sync_writes, a flush, an orderly close) are
\* on disk, whatever crashed or failed since.
AcknowledgedSurvives == sure \subseteq DiskContent

\* The directory is the abstract log: flush, compaction, recovery and cleaning change
\* nothing at any of their disk operations; a crash at any of them takes a tail.
Log == INSTANCE DurableLog WITH kept <- DiskContent

ImplementsDurableLog == Log!Spec
=============================================================================
