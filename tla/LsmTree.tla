------------------------------ MODULE LsmTree ------------------------------
(***************************************************************************)
(* The tree of mulan-lsm: the memtable, the levels of immutable SSTables,  *)
(* the snapshots that hold back compaction, and the operations that move   *)
(* entries between them.  Every operation of the code runs under one mutex *)
(* (Db.inner), so each is one action.  Disk failures and crashes in the    *)
(* middle of an operation are the subject of Durability.                   *)
(*                                                                         *)
(* An SSTable is its number and the set of its entries: its order is the   *)
(* order of internal keys.  The list of files of a level is a set here,    *)
(* since apply_edit only appends files whose numbers are fresh and larger  *)
(* than all before them: the list order is the order of the numbers.       *)
(***************************************************************************)
EXTENDS Integers, FiniteSets

CONSTANTS Keys,           \* user keys: positive numbers, ordered as the bytes are
          Values,         \* what put may store
          Absent,         \* what get and a scan show for a key that is not there
          Tombstone,      \* the value of a Delete entry
          Guards,         \* SnapshotGuard handles the users may hold at a time
          NoSnapshot,     \* what an unused handle holds
          NumLevels,      \* NUM_LEVELS
          FlushEntries,   \* options.memtable_flush_entries
          L0StopWrites,   \* LEVEL0_STOP_WRITES_TRIGGER (never reached in manual mode)
          SplitInsideKey, \* may a size limit be hit between two versions of one key?
          MaxSeq          \* bound of the model: how many writes there may be

ASSUME LsmAssumption ==
  /\ Keys \subseteq Nat \ {0}
  /\ IsFiniteSet(Keys)
  /\ Tombstone \notin Values
  /\ Absent \notin Values
  /\ NoSnapshot \notin Nat
  /\ NumLevels \in Nat \ {0, 1}
  /\ FlushEntries \in Nat \ {0}
  /\ L0StopWrites \in Nat \ {0}
  /\ SplitInsideKey \in BOOLEAN
  /\ MaxSeq \in Nat

VARIABLES mem,       \* the entries of the memtable
          files,     \* files[level]: the SSTables of the current Version
          pointer,   \* compact_pointer[level], NoKey when empty
          lastSeq,   \* last_sequence, which is also the memtable's seq
          nextNum,   \* id_gen: the next file number
          snapshots, \* the registered snapshot sequence numbers
          guard      \* guard[g]: the seq of a live SnapshotGuard

vars == <<mem, files, pointer, lastSeq, nextNum, snapshots, guard>>

Levels == 0 .. NumLevels - 1
NoKey  == 0
Entry  == [key : Keys, seq : Nat, val : Values \cup {Tombstone}]
File   == [num : Nat, ents : SUBSET Entry]

----------------------------------------------------------------------------
(* Entries, files and versions *)

\* The order of internal keys: user key ascending, then newest first.
Before(d, e) == d.key < e.key \/ (d.key = e.key /\ d.seq > e.seq)

KeysIn(S) == {e.key : e \in S}

\* user_key_overlap: neither of the two spanned intervals lies wholly on one side
\* of the other.
Overlap(J, K) == /\ \E a \in J, b \in K : a >= b
                 /\ \E a \in J, b \in K : a <= b

EntriesIn(F) == UNION {f.ents : f \in F}

\* Version::get_overlaps, with the interval given by the keys that span it.
GetOverlaps(level, K) == {f \in files[level] : Overlap(KeysIn(f.ents), K)}

\* Everything a scan merges: the memtable and every file of the Version.
Store == mem \cup UNION {EntriesIn(files[level]) : level \in Levels}

\* The newest version of k that a reader at s sees in S: none or one entry.
Newest(S, k, s) ==
  {e \in S : /\ e.key = k
             /\ e.seq <= s
             /\ \A d \in S : d.key = k /\ d.seq <= s => d.seq <= e.seq}

\* DBIter::advance shows that version unless it is a Delete.
Visible(S, k, s) == {e \in Newest(S, k, s) : e.val # Tombstone}

ValueOf(E) == IF E = {} THEN Absent ELSE (CHOOSE e \in E : TRUE).val

\* What a scan at s reports for k.
Read(k, s) == ValueOf(Visible(Store, k, s))

----------------------------------------------------------------------------
Init ==
  /\ mem = {}
  /\ files = [level \in Levels |-> {}]
  /\ pointer = [level \in Levels |-> NoKey]
  /\ lastSeq = 0
  /\ nextNum = 3       \* the manifest took number 1 and the first log number 2
  /\ snapshots = {}
  /\ guard = [g \in Guards |-> NoSnapshot]

\* Mutant: the numbers of the file and of the log are read but not consumed.
FlushWithoutNumber(S) ==
  /\ mem' = {}
  /\ files' = [files EXCEPT ![0] = @ \cup {[num |-> nextNum, ents |-> S]}]
  /\ UNCHANGED nextNum

\* The memtable S becomes the newest L0 file; its number and the number of the next
\* log are taken one after the other.
FlushOf(S) ==
  /\ mem' = {}
  /\ files' = [files EXCEPT ![0] = @ \cup {[num |-> nextNum, ents |-> S]}]
  /\ nextNum' = nextNum + 2

\* Db::write: wait out the L0 limit, number the entry, and flush in the same critical
\* section once the memtable is full by entries, or by bytes (which the model leaves
\* open: the size of a value is arbitrary).
Write(k, v) ==
  /\ Cardinality(files[0]) < L0StopWrites
  /\ lastSeq < MaxSeq
  /\ LET S == mem \cup {[key |-> k, seq |-> lastSeq + 1, val |-> v]}
     IN \/ FlushOf(S)
        \/ /\ Cardinality(S) < FlushEntries
           /\ mem' = S
           /\ UNCHANGED <<files, nextNum>>
  /\ lastSeq' = lastSeq + 1
  /\ UNCHANGED <<pointer, snapshots, guard>>

NewSnapshot(g) ==
  /\ guard[g] = NoSnapshot
  /\ guard' = [guard EXCEPT ![g] = lastSeq]
  /\ snapshots' = snapshots \cup {lastSeq}
  /\ UNCHANGED <<mem, files, pointer, lastSeq, nextNum>>

\* release_snapshot retains the numbers different from seq: the list behaves as a set.
DropGuard(g) ==
  /\ guard[g] # NoSnapshot
  /\ guard' = [guard EXCEPT ![g] = NoSnapshot]
  /\ snapshots' = snapshots \ {guard[g]}
  /\ UNCHANGED <<mem, files, pointer, lastSeq, nextNum>>

\* Db::drop, which syncs the log, then Db::open: the replayed memtable goes straight
\* to L0 (sst and log numbers), or else only a new log is numbered.  The snapshots
\* were in memory.
Reopen ==
  /\ IF mem = {}
       THEN /\ nextNum' = nextNum + 1
            /\ UNCHANGED <<mem, files>>
       ELSE FlushOf(mem)
  /\ snapshots' = {}
  /\ guard' = [g \in Guards |-> NoSnapshot]
  /\ UNCHANGED <<pointer, lastSeq>>

----------------------------------------------------------------------------
(* Compaction: pick_compaction, do_compaction, run_one_compaction *)

\* L1+: the first file of the list beyond the rotation point.
Beyond(level) ==
  {f \in files[level] : pointer[level] = NoKey \/ \E k \in KeysIn(f.ents) : k > pointer[level]}

\* Mutant: L0 picks its newest file alone, as deeper levels pick one file.
NewestFileOnly(level) ==
  IF level = 0 THEN {f \in files[0] : \A g \in files[0] : g.num <= f.num}
  ELSE {f \in Beyond(level) : \A g \in Beyond(level) : f.num <= g.num}

\* inputs[0]: every file of L0, one file of a deeper level, none when the pointer has
\* passed them all (pick_compaction then returns None).
PickedFiles(level) ==
  IF level = 0 THEN files[0]
  ELSE {f \in Beyond(level) : \A g \in Beyond(level) : f.num <= g.num}

\* Mutant: the interval of each input by itself instead of the hull of them all.
OverlapsOfEach(level) ==
  UNION {GetOverlaps(level + 1, KeysIn(f.ents)) : f \in PickedFiles(level)}

\* inputs[1]: the files of the next level that overlap the hull of inputs[0].
OverlappedFiles(level) == GetOverlaps(level + 1, KeysIn(EntriesIn(PickedFiles(level))))

\* Mutant: off by one, the level right below the output is not looked at.
BaseLevelFromThirdLevel(level, k) ==
  \A deeper \in level + 3 .. NumLevels - 1 : GetOverlaps(deeper, {k}) = {}

\* is_base_level_for_user_key: no file below the output level spans k.
IsBaseLevel(level, k) ==
  \A deeper \in level + 2 .. NumLevels - 1 : GetOverlaps(deeper, {k}) = {}

\* Mutant: the newest registered snapshot instead of the oldest.
AtMostNewest(seq) == snapshots = {} \/ \E s \in snapshots : seq <= s

\* seq <= oldest_snapshot_seq(), which is MAX_SEQUENCE when no snapshot is registered.
AtMostOldest(seq) == \A s \in snapshots : seq <= s

\* Mutant: Deletes are always carried down.
DroppedVersionsOnly(level, E, e) ==
  \E d \in E : d.key = e.key /\ d.seq > e.seq /\ AtMostOldest(d.seq)

\* Mutant: what a snapshot still sees is dropped too.
DroppedForAll(level, E, e) ==
  \/ \E d \in E : d.key = e.key /\ d.seq > e.seq
  \/ e.val = Tombstone /\ AtMostOldest(e.seq) /\ IsBaseLevel(level, e.key)

\* A version goes when the merge saw a newer one that every snapshot sees; a Delete that
\* every snapshot sees goes at the base level.
Dropped(level, E, e) ==
  \/ \E d \in E : d.key = e.key /\ d.seq > e.seq /\ AtMostOldest(d.seq)
  \/ e.val = Tombstone /\ AtMostOldest(e.seq) /\ IsBaseLevel(level, e.key)

Kept(level, E) == {e \in E : ~Dropped(level, E, e)}

\* Where the output may be cut: before any entry but the first.  TARGET_FILE_SIZE and
\* the overlap with the grandparents are sizes in bytes, which values make arbitrary.
\* The code does not look at the user key when it cuts; without SplitInsideKey only
\* the behaviours are considered in which no cut separates two versions of a key.
Cuts(K) ==
  {C \in SUBSET K :
     \A c \in C : /\ \E e \in K : Before(e, c)
                  /\ SplitInsideKey \/ \A e \in K : Before(e, c) => e.key # c.key}

\* How many output files are finished before the one that e goes to.
Segment(C, e) == Cardinality({c \in C : c = e \/ Before(c, e)})

OutputFiles(K, C) ==
  {[num  |-> nextNum + Segment(C, e),
    ents |-> {d \in K : Segment(C, d) = Segment(C, e)}] : e \in K}

\* The largest user key of the last output file.
LargestKey(K) == CHOOSE k \in KeysIn(K) : \A j \in KeysIn(K) : j <= k

\* Mutant: the numbers that the private id_gen handed out are not taken over.
BumpForgotten(n) == UNCHANGED nextNum

\* id_gen.bump_to, after the commit.
BumpTo(n) == nextNum' = nextNum + n

\* One compaction from level, on any level that compaction_score may rank first: it
\* ranks every level that holds a file, by sizes the model leaves open.
Compact(level) ==
  /\ level < NumLevels - 1
  /\ PickedFiles(level) # {}
  /\ LET inputs == PickedFiles(level) \cup OverlappedFiles(level)
         K      == Kept(level, EntriesIn(inputs))
     IN \E C \in Cuts(K) :
          /\ files' = [files EXCEPT
                         ![level]     = @ \ PickedFiles(level),
                         ![level + 1] = (@ \ OverlappedFiles(level)) \cup OutputFiles(K, C)]
          /\ IF K = {}
               THEN UNCHANGED <<pointer, nextNum>>
               ELSE /\ pointer' = [pointer EXCEPT ![level] = LargestKey(K)]
                    /\ BumpTo(Cardinality(C) + 1)
  /\ UNCHANGED <<mem, lastSeq, snapshots, guard>>

Next ==
  \/ \E k \in Keys, v \in Values \cup {Tombstone} : Write(k, v)
  \/ \E g \in Guards : NewSnapshot(g) \/ DropGuard(g)
  \/ \E level \in Levels : Compact(level)
  \/ Reopen

Spec == Init /\ [][Next]_vars

----------------------------------------------------------------------------
(* Point reads: Db::get, get_at, get_from_sstables, find_file_for_key *)

\* g is the file after f in the list of a level.
NextInList(level, f, g) ==
  /\ f.num < g.num
  /\ \A h \in files[level] : ~(f.num < h.num /\ h.num < g.num)

\* Mutant: a file whose smallest key is k itself is passed over.
StartsBefore(f, k) == \E j \in KeysIn(f.ents) : j < k

StartsBy(f, k) == \E j \in KeysIn(f.ents) : j <= k

\* The files on which partition_point(smallest <= k) may land: the list changes from
\* true to false after them.  There is one when the list is sorted; on another list the
\* library leaves the result open.
MayLandOn(level, k) ==
  {f \in files[level] :
     /\ StartsBy(f, k)
     /\ \A g \in files[level] : NextInList(level, f, g) => ~StartsBy(g, k)}

MayLandBefore(level, k) ==
  \A f \in files[level] : (\A g \in files[level] : f.num <= g.num) => ~StartsBy(f, k)

\* The files of a level that get looks into, in the sets it may look into together.
Probes(level, k) ==
  IF level = 0 THEN {files[0]}
  ELSE {{f} : f \in MayLandOn(level, k)} \cup (IF MayLandBefore(level, k) THEN {{}} ELSE {})

\* Mutant: L0 from its oldest file on.
FirstHitOldestFirst(F, k, s) ==
  UNION {Newest(f.ents, k, s) :
           f \in {h \in F : \A g \in F : g.num < h.num => Newest(g.ents, k, s) = {}}}

\* In L0 the newest file that has a version decides; elsewhere there is one file.
FirstHit(F, k, s) ==
  UNION {Newest(f.ents, k, s) :
           f \in {h \in F : \A g \in F : g.num > h.num => Newest(g.ents, k, s) = {}}}

\* get returns the version e: the memtable has none, the levels above may have missed.
MayReturn(k, s, e) ==
  \/ e \in Newest(mem, k, s)
  \/ /\ Newest(mem, k, s) = {}
     /\ \E level \in Levels :
          /\ \E F \in Probes(level, k) : e \in FirstHit(F, k, s)
          /\ \A above \in 0 .. level - 1 : \E F \in Probes(above, k) : FirstHit(F, k, s) = {}

MayMiss(k, s) ==
  /\ Newest(mem, k, s) = {}
  /\ \A level \in Levels : \E F \in Probes(level, k) : FirstHit(F, k, s) = {}

PointReads(k, s) ==
  {ValueOf({e} \ {d \in {e} : d.val = Tombstone}) : e \in {d \in Store : MayReturn(k, s, d)}}
    \cup (IF MayMiss(k, s) THEN {Absent} ELSE {})

----------------------------------------------------------------------------
(* Properties *)

\* Types, and what every file has: a fresh number of its own, finitely many entries and
\* at least one.
TypeOK ==
  /\ mem \in SUBSET Entry
  /\ IsFiniteSet(mem)
  /\ files \in [Levels -> SUBSET File]
  /\ \A level \in Levels : IsFiniteSet(files[level])
  /\ \A level \in Levels : \A f \in files[level] :
       f.num < nextNum /\ f.ents # {} /\ IsFiniteSet(f.ents)
  /\ pointer \in [Levels -> Keys \cup {NoKey}]
  /\ lastSeq \in Nat
  /\ nextNum \in Nat
  /\ snapshots \in SUBSET (0 .. lastSeq)
  /\ guard \in [Guards -> (0 .. lastSeq) \cup {NoSnapshot}]

\* No file number is used twice in a Version, on one level or on two, whatever the
\* interleaving of flushes (two numbers each) and compactions (a private id_gen).
NumbersUnique ==
  \A i, j \in Levels : \A f \in files[i], g \in files[j] :
    f.num = g.num => i = j /\ f = g

\* Below L0 the files of a level span disjoint intervals of user keys (version.rs,
\* NUM_LEVELS), so one file per level can hold a key.
LevelsDisjoint ==
  \A level \in Levels \ {0} : \A f, g \in files[level] :
    f # g => ~Overlap(KeysIn(f.ents), KeysIn(g.ents))

\* Of two versions of a key the newer lies strictly higher, in the memtable, in a
\* shallower level or in a later file of L0: the order in which get looks (db.rs,
\* get_from_sstables) and the reason a Delete may go at the base level.
NewerAbove ==
  /\ \A level \in Levels : \A a \in mem, b \in EntriesIn(files[level]) :
       a.key = b.key => a.seq > b.seq
  /\ \A i, j \in Levels : i < j =>
       \A a \in EntriesIn(files[i]), b \in EntriesIn(files[j]) :
         a.key = b.key => a.seq > b.seq
  /\ \A f, g \in files[0] : f.num > g.num =>
       \A a \in f.ents, b \in g.ents : a.key = b.key => a.seq > b.seq

\* The list of every deeper level ascends by smallest key, as find_file_for_key needs.
ListsSorted ==
  \A level \in Levels \ {0} : \A f, g \in files[level] :
    f.num < g.num => \A a \in f.ents, b \in g.ents : a.key < b.key

\* Where the lists are sorted, a point read is the read of a scan, for the latest view
\* and for every registered snapshot: looking top down and stopping at the first
\* version found loses nothing (db.rs, get and get_at).
GetAgreesWithScan ==
  ListsSorted =>
    \A k \in Keys, s \in snapshots \cup {lastSeq} : PointReads(k, s) = {Read(k, s)}

\* With no snapshot ever taken, merging leaves one version of a key in a deeper level
\* and no Delete in the last one: garbage is really collected.
GarbageCollected ==
  Guards = {} =>
    /\ \A level \in Levels \ {0} : \A a, b \in EntriesIn(files[level]) :
         a.key = b.key => a = b
    /\ \A a \in EntriesIn(files[NumLevels - 1]) : a.val # Tombstone

\* The database is the abstract store: a put, a delete and a snapshot do there what they
\* do here; flushes, compactions and the recovery of the files change no view, neither
\* the latest nor that of a registered snapshot.
KV == INSTANCE KVStore WITH
        db    <- [k \in Keys |-> Read(k, lastSeq)],
        clock <- lastSeq,
        pins  <- {[at |-> s, view |-> [k \in Keys |-> Read(k, s)]] : s \in snapshots}

ImplementsKVStore == KV!Spec

----------------------------------------------------------------------------
(* What the comments of the repository say and the code does not do *)

\* find_file_for_key finds the file of a key by binary search because the lists below
\* L0 are sorted by smallest key: some outcome of the search gives the latest value.
GetFindsLatest ==
  \A k \in Keys : Read(k, lastSeq) \in PointReads(k, lastSeq)

\* While a SnapshotGuard is alive, compaction does not take away what it reads.
GuardViewStable ==
  [][\A g \in Guards : guard[g] # NoSnapshot /\ guard'[g] = guard[g] =>
       \A k \in Keys : Read(k, guard[g])' = Read(k, guard[g])]_vars

\* A Delete is dropped only where no older version of its key is left below it to come
\* back: a step that writes nothing changes no latest value.
NoResurrection ==
  [][lastSeq' = lastSeq => \A k \in Keys : Read(k, lastSeq)' = Read(k, lastSeq)]_vars
=============================================================================
