------------------------------ MODULE ReadPath ------------------------------
(***************************************************************************)
(* Readers beside the tree of LsmTree.  Db::get, get_at and the opening of *)
(* an iterator capture the memtable's answer and the Version in one        *)
(* critical section of Db.inner and look into the files afterwards, with   *)
(* the mutex given up: get through the TableCache, which has a mutex of    *)
(* its own and opens missing files outside it, an iterator by opening      *)
(* every file.  Meanwhile the tree flushes, compacts and evicts.           *)
(*                                                                         *)
(* A step of a reader is one critical section of the cache or one opening  *)
(* of a file.  A compaction commits in one step, and then evicts the files *)
(* it replaced one by one, still holding Db.inner.                         *)
(***************************************************************************)
EXTENDS LsmTree, Sequences

CONSTANTS Readers,     \* the threads that read
          Capacities,  \* the values options.table_cache_size may have
          MaxRaces     \* bound of the model: no get begins after so many races

ASSUME ReadersAssumption ==
  /\ Capacities \subseteq Nat
  /\ Capacities # {}
  /\ MaxRaces \in Nat

VARIABLES history,   \* every entry ever written: what reads are judged by
          disk,      \* the SSTables in the directory
          capacity,  \* CacheInner.capacity
          entries,   \* CacheInner.entries: the readers held, by number
          order,     \* CacheInner.order: the numbers, next to go first
          evicting,  \* the files that a committed compaction has yet to evict
          rd,        \* rd[r]: what a reader has captured, and where it is
          wrong,     \* the answers given so far that the history does not bear out
          races      \* how often a table was inserted that another had inserted since

tree     == <<mem, files, pointer, lastSeq, nextNum, snapshots, guard>>
cache    == <<entries, order, races>>
readers  == <<rd, wrong>>
readVars == <<tree, history, disk, capacity, cache, evicting, readers>>

AllFiles == UNION {files[level] : level \in Levels}
Nums(F)  == {f.num : f \in F}

\* A get has a key, and NoKey stands for the opening of an iterator.  todo[level] has the
\* numbers of the captured files not looked into yet, table the reader that was opened
\* and is not in the cache yet; sorted tells whether the captured lists were.
Reader == [pc     : {"idle", "lookup", "insert", "scan"},
           key    : Keys \cup {NoKey},
           seq    : Nat,
           pin    : Guards \cup {NoSnapshot},
           todo   : [Levels -> SUBSET Nat],
           table  : SUBSET File,
           got    : SUBSET Entry,
           sorted : BOOLEAN]

Nothing == [level \in Levels |-> {}]

Idle == [pc |-> "idle", key |-> NoKey, seq |-> 0, pin |-> NoSnapshot, todo |-> Nothing,
         table |-> {}, got |-> {}, sorted |-> TRUE]

ReadInit ==
  /\ Init
  /\ history = {}
  /\ disk = {}
  /\ capacity \in Capacities
  /\ entries = {}
  /\ order = <<>>
  /\ evicting = {}
  /\ rd = [r \in Readers |-> Idle]
  /\ wrong = {}
  /\ races = 0

----------------------------------------------------------------------------
(* The tree, under Db.inner *)

\* Nobody holds Db.inner between steps but a compaction that still evicts.
DbFree == evicting = {}

Put(k, v) ==
  /\ DbFree
  /\ Write(k, v)
  /\ history' = history \cup {[key |-> k, seq |-> lastSeq + 1, val |-> v]}
  /\ disk' = disk \cup AllFiles'
  /\ UNCHANGED <<capacity, cache, evicting, readers>>

Pin(g) ==
  /\ DbFree
  /\ NewSnapshot(g)
  /\ UNCHANGED <<history, disk, capacity, cache, evicting, readers>>

\* A bound of the model where it guards a read: a handle serves one reader at a time.
Unused(g) == \A r \in Readers : rd[r].pin # g

\* A get_at or new_iterator_at on its way borrows the SnapshotGuard.
Unpin(g) ==
  /\ DbFree
  /\ Unused(g)
  /\ DropGuard(g)
  /\ UNCHANGED <<history, disk, capacity, cache, evicting, readers>>

\* Mutant: remove_obsolete_ssts, which the code keeps but does not call, at the end of
\* a compaction.
LiveOnly == AllFiles'

\* The replaced files stay in the directory.
Retained == disk \cup AllFiles'

\* run_one_compaction up to the commit.
CompactFiles(level) ==
  /\ DbFree
  /\ Compact(level)
  /\ disk' = Retained
  /\ evicting' = Nums(AllFiles) \ Nums(AllFiles')
  /\ UNCHANGED <<history, capacity, cache, readers>>

\* The queue without a number, wherever it stands: VecDeque::retain.
Without(n) ==
  LET upTo[i \in 0 .. Len(order)] ==
        IF i = 0 THEN <<>>
        ELSE IF order[i] = n THEN upTo[i - 1] ELSE Append(upTo[i - 1], order[i])
  IN upTo[Len(order)]

\* TableCache::evict, of one of the replaced files.
Evict(n) ==
  /\ evicting' = evicting \ {n}
  /\ entries' = {f \in entries : f.num # n}
  /\ order' = Without(n)
  /\ UNCHANGED <<tree, history, disk, capacity, readers, races>>

----------------------------------------------------------------------------
(* Readers *)

\* The level of the next file; and there the newest file of L0, or the only one.
Top(todo) == CHOOSE level \in Levels : /\ todo[level] # {}
                                       /\ \A above \in 0 .. level - 1 : todo[above] = {}

\* There the first one in the order of the list.
OldestFirst(todo) == CHOOSE n \in todo[Top(todo)] : \A m \in todo[Top(todo)] : n <= m

NextFile(todo) == CHOOSE n \in todo[Top(todo)] : \A m \in todo[Top(todo)] : m <= n

\* Mutant: files that have left the Version in the meantime are passed over.
StillCurrent(todo) == [level \in Levels |-> todo[level] \cap Nums(files[level])]

\* The captured Version is an Arc: what is left of it does not change under the reader.
Captured(todo) == todo

\* Where a get is right: among sorted lists it returns the newest version its seq sees.
RightGet(q) ==
  q.sorted => {e \in q.got : e.val # Tombstone} = Visible(history, q.key, q.seq)

\* What the merged sources of an iterator show is right, for every key.
RightSources(q) == \A k \in Keys : Visible(q.got, k, q.seq) = Visible(history, k, q.seq)

Answer(r, q, right) ==
  /\ rd' = [rd EXCEPT ![r] = Idle]
  /\ wrong' = IF right THEN wrong ELSE wrong \cup {q}

\* Back to the loop of get_from_sstables, or out of it.
Resume(r, q) ==
  LET left == Captured(q.todo)
  IN \/ /\ q.got # {} \/ left = Nothing
        /\ Answer(r, q, RightGet(q))
     \/ /\ q.got = {} /\ left # Nothing
        /\ rd' = [rd EXCEPT ![r] = [q EXCEPT !.pc = "lookup", !.todo = left, !.table = {}]]
        /\ UNCHANGED wrong

\* get_entry on the reader of the next file.
Probe(r, f) ==
  LET q == rd[r]
  IN Resume(r, [q EXCEPT !.todo[Top(q.todo)] = @ \ {f.num}, !.got = Newest(f.ents, q.key, q.seq)])

\* The files that a search for k visits: find_file_for_key may land on several.
Searches(k) ==
  {todo \in [Levels -> SUBSET Nums(AllFiles)] :
     \A level \in Levels : \E F \in Probes(level, k) : todo[level] = Nums(F)}

Begin(r, k, s, g) ==
  \E todo \in Searches(k) :
    Resume(r, [pc |-> "lookup", key |-> k, seq |-> s, pin |-> g, todo |-> todo,
               table |-> {}, got |-> Newest(mem, k, s), sorted |-> ListsSorted])

\* Db::get up to the unlock.
Get(r, k) ==
  /\ DbFree /\ rd[r] = Idle /\ races < MaxRaces
  /\ Begin(r, k, lastSeq, NoSnapshot)
  /\ UNCHANGED <<tree, history, disk, capacity, cache, evicting>>

\* Db::get_at up to the unlock.
GetAt(r, k, g) ==
  /\ DbFree /\ rd[r] = Idle /\ races < MaxRaces
  /\ guard[g] # NoSnapshot /\ Unused(g)
  /\ Begin(r, k, guard[g], g)
  /\ UNCHANGED <<tree, history, disk, capacity, cache, evicting>>

CachedTables(n) == {f \in entries : f.num = n}

\* Mutant: a hit takes the number out of the queue and does not put it back.
Dequeued(n) == Without(n)

\* A hit moves the number, every copy of it, to the end of the queue.
Touched(n) == Append(Without(n), n)

Hit(r) ==
  LET n == NextFile(rd[r].todo)
  IN /\ rd[r].pc = "lookup"
     /\ capacity > 0
     /\ \E f \in CachedTables(n) : Probe(r, f)
     /\ order' = Touched(n)
     /\ UNCHANGED <<tree, history, disk, capacity, entries, races, evicting>>

\* A miss opens the file outside every lock, so that others get in before it is inserted;
\* a cache of capacity 0 keeps out of it.
Miss(r) ==
  LET n == NextFile(rd[r].todo)
  IN /\ rd[r].pc = "lookup"
     /\ capacity = 0 \/ CachedTables(n) = {}
     /\ \E f \in disk :
          /\ f.num = n
          /\ \/ capacity = 0 /\ Probe(r, f)
             \/ /\ capacity > 0
                /\ rd' = [rd EXCEPT ![r].pc = "insert", ![r].table = {f}]
                /\ UNCHANGED wrong
     /\ UNCHANGED <<tree, history, disk, capacity, cache, evicting>>

\* Mutant: off by one.
OverCapacity == Cardinality(entries) > capacity

AtCapacity == Cardinality(entries) >= capacity

\* The second critical section of TableCache::get: the first number of the queue goes if
\* the map is full, and the new one comes in, without a look whether it has come before.
Insert(r) ==
  LET pop  == AtCapacity /\ order # <<>>
      kept == {f \in entries : ~(pop /\ f.num = Head(order))}
  IN /\ rd[r].pc = "insert"
     /\ \E f \in rd[r].table :
          /\ entries' = {g \in kept : g.num # f.num} \cup {f}
          /\ order' = Append(IF pop THEN Tail(order) ELSE order, f.num)
          /\ races' = IF f.num \in Nums(kept) THEN races + 1 ELSE races
          /\ Probe(r, f)
     /\ UNCHANGED <<tree, history, disk, capacity, evicting>>

\* new_iterator_at up to the unlock: the memtable is copied up to the snapshot.
OpenIterator(r, g) ==
  /\ DbFree /\ rd[r] = Idle
  /\ guard[g] # NoSnapshot /\ Unused(g)
  /\ LET todo == [level \in Levels |-> Nums(files[level])]
     IN rd' = [rd EXCEPT ![r] =
                 [pc |-> "scan", key |-> NoKey, seq |-> guard[g], pin |-> g, todo |-> todo,
                  table |-> {}, got |-> {e \in mem : e.seq <= guard[g]}, sorted |-> TRUE]]
  /\ UNCHANGED <<tree, history, disk, capacity, cache, evicting, wrong>>

\* The iterator opens the next file, past the cache, and keeps its data.
OpenSource(r) ==
  /\ rd[r].pc = "scan"
  /\ rd[r].todo # Nothing
  /\ \E f \in disk :
       /\ f.num = OldestFirst(rd[r].todo)
       /\ rd' = [rd EXCEPT ![r].todo[Top(rd[r].todo)] = @ \ {f.num}, ![r].got = @ \cup f.ents]
  /\ UNCHANGED <<tree, history, disk, capacity, cache, evicting, wrong>>

\* Every source is open: from here on the iterator needs neither the files nor the guard.
IteratorReady(r) ==
  /\ rd[r].pc = "scan"
  /\ rd[r].todo = Nothing
  /\ Answer(r, rd[r], RightSources(rd[r]))
  /\ UNCHANGED <<tree, history, disk, capacity, cache, evicting>>

ReadNext ==
  \/ \E k \in Keys, v \in Values \cup {Tombstone} : Put(k, v)
  \/ \E g \in Guards : Pin(g) \/ Unpin(g)
  \/ \E level \in Levels : CompactFiles(level)
  \/ \E n \in evicting : Evict(n)
  \/ \E r \in Readers :
       \/ \E k \in Keys : Get(r, k) \/ (\E g \in Guards : GetAt(r, k, g))
       \/ \E g \in Guards : OpenIterator(r, g)
       \/ Hit(r) \/ Miss(r) \/ Insert(r)
       \/ OpenSource(r) \/ IteratorReady(r)

ReadSpec == ReadInit /\ [][ReadNext]_readVars

----------------------------------------------------------------------------
(* Properties *)

\* Types; and a number names one file in the directory, whether live or replaced, so that
\* a reader cached under it is never the reader of another file.
ReadTypeOK ==
  /\ history \subseteq Entry
  /\ disk \subseteq File
  /\ capacity \in Capacities
  /\ entries \subseteq disk
  /\ \A f, g \in disk : f.num = g.num => f = g
  /\ order \in Seq(Nat)
  /\ evicting \subseteq Nat
  /\ rd \in [Readers -> Reader]
  /\ wrong \subseteq Reader
  /\ races \in Nat

\* Every file that a reader captured and has yet to look into is still in the directory,
\* however many compactions have replaced it meanwhile: no open fails (the comment at the
\* end of run_one_compaction).
OpensSucceed ==
  \A r \in Readers, level \in Levels : rd[r].todo[level] \subseteq Nums(disk)

\* get and get_at return the newest version of the key as of the moment they held the
\* lock, whatever is written, compacted, evicted or inserted while they look on (where
\* the lists below L0 they captured are sorted, as find_file_for_key presumes).
GetReturnsCaptured == \A q \in wrong : q.key = NoKey

\* The sources of an iterator show every key as of the moment the snapshot was taken,
\* although writes, flushes and compactions came before and while they were opened.
IteratorShowsSnapshot == \A q \in wrong : q.key # NoKey

\* Every cached reader is in the queue, so that it can be pushed out some time: hits,
\* inserts of two threads and evictions keep map and queue together.
CachedIsQueued == \A f \in entries : \E i \in 1 .. Len(order) : order[i] = f.num

\* The cache outgrows its capacity by no more than the number of races, in which a table
\* was opened twice and inserted twice: the queue then has a number too many.
OnlyRacesOvergrow ==
  capacity > 0 => /\ Cardinality(entries) <= capacity + races
                  /\ Len(order) <= Cardinality(entries) + races
=============================================================================
