--------------------------- MODULE ReadPathProofs ---------------------------
(***************************************************************************)
(* Proofs about ReadPath for every set of readers, keys, values and cache  *)
(* capacities.  The tree under the readers is that of LsmTree, so what     *)
(* LsmTreeProofs shows of it holds beside readers too.                     *)
(***************************************************************************)
EXTENDS ReadPath, LsmTreeProofs

----------------------------------------------------------------------------
(* The readers leave the tree alone *)

LEMMA ReadStepIsTreeStep ==
  ASSUME [ReadNext]_readVars
  PROVE  [Next]_vars
<1>1. ASSUME NEW k \in Keys, NEW v \in Values \cup {Tombstone}, Put(k, v)
      PROVE  Next
  BY <1>1 DEF Put, Next
<1>2. ASSUME NEW g \in Guards, Pin(g) \/ Unpin(g)
      PROVE  Next
  BY <1>2 DEF Pin, Unpin, Next
<1>3. ASSUME NEW level \in Levels, CompactFiles(level)
      PROVE  Next
  BY <1>3 DEF CompactFiles, Next
<1>4. ASSUME NEW n \in evicting, Evict(n)
      PROVE  UNCHANGED vars
  BY <1>4 DEF Evict, tree, vars
<1>5. ASSUME NEW r \in Readers, NEW k \in Keys, Get(r, k) \/ (\E g \in Guards : GetAt(r, k, g))
      PROVE  UNCHANGED vars
  BY <1>5 DEF Get, GetAt, tree, vars
<1>6. ASSUME NEW r \in Readers, NEW g \in Guards, OpenIterator(r, g)
      PROVE  UNCHANGED vars
  BY <1>6 DEF OpenIterator, tree, vars
<1>7. ASSUME NEW r \in Readers, Hit(r) \/ Miss(r) \/ Insert(r)
      PROVE  UNCHANGED vars
  BY <1>7 DEF Hit, Miss, Insert, tree, vars
<1>8. ASSUME NEW r \in Readers, OpenSource(r) \/ IteratorReady(r)
      PROVE  UNCHANGED vars
  BY <1>8 DEF OpenSource, IteratorReady, tree, vars
<1>9. CASE UNCHANGED readVars
  BY <1>9 DEF readVars, tree, vars
<1> QED BY <1>1, <1>2, <1>3, <1>4, <1>5, <1>6, <1>7, <1>8, <1>9 DEF ReadNext

\* With readers beside it the tree does nothing it would not do alone.
THEOREM ReadersLeaveTree == ReadSpec => Spec
<1>1. ReadInit => Init
  BY DEF ReadInit
<1>2. [ReadNext]_readVars => [Next]_vars
  BY ReadStepIsTreeStep
<1> QED BY <1>1, <1>2, PTL DEF ReadSpec, Spec

\* So the database is the abstract store also while readers look into its files outside
\* the mutex and a cache holds some of them (Db::get, TableCache).
THEOREM ReadPathImplements == CutsAreSafe => (ReadSpec => ImplementsKVStore)
  BY ReadersLeaveTree, Implementation

LEMMA TreeInvariant == CutsAreSafe => (ReadSpec => []IInv)
  BY ReadersLeaveTree, InductiveInvariant

----------------------------------------------------------------------------
(* The directory *)

\* The current files are there, and a number names one file, live or replaced.
DiskInv ==
  /\ disk \subseteq File
  /\ AllFiles \subseteq disk
  /\ \A f \in disk : f.num < nextNum
  /\ \A f, g \in disk : f.num = g.num => f = g

LEMMA InitDisk == ReadInit => DiskInv
BY DEF ReadInit, Init, DiskInv, AllFiles

\* Files only come in, and under numbers that nothing in the directory has.
LEMMA FreshFiles ==
  ASSUME IInv, IInv', DiskInv, disk' = disk \cup AllFiles', nextNum' >= nextNum,
         \A f \in AllFiles' : f \in AllFiles \/ f.num >= nextNum
  PROVE  DiskInv' /\ \A f \in disk' \ disk : f.num >= nextNum
<1>1. /\ nextNum \in Nat
      /\ nextNum' \in Nat
      /\ AllFiles' \subseteq File
      /\ \A f \in AllFiles' : f.num < nextNum'
      /\ \A f, g \in AllFiles' : f.num = g.num => f = g
  BY DEF IInv, TypeOK, NumbersUnique, AllFiles, Levels
<1>2. disk' \subseteq File /\ AllFiles' \subseteq disk'
  BY <1>1 DEF DiskInv
<1>3. \A f \in disk' \ disk : f \in AllFiles' /\ f.num >= nextNum
  BY DEF DiskInv
<1>4. \A f \in disk' : f.num \in Nat
  BY <1>2 DEF File
<1>5. \A f \in disk' : f.num < nextNum'
  BY <1>1, <1>3, <1>4 DEF DiskInv
<1>6. \A f, g \in disk' : f.num = g.num => f = g
  BY <1>1, <1>3, <1>4 DEF DiskInv
<1> QED BY <1>2, <1>3, <1>5, <1>6 DEF DiskInv

\* A put may flush the memtable to one file under the next number.
LEMMA PutDisk ==
  ASSUME IInv, IInv', DiskInv, NEW k \in Keys, NEW v \in Values \cup {Tombstone}, Put(k, v)
  PROVE  DiskInv' /\ \A f \in disk' \ disk : f.num >= nextNum
<1>1. /\ nextNum \in Nat
      /\ files \in [Levels -> SUBSET File]
      /\ files' \in [Levels -> SUBSET File]
  BY DEF IInv, TypeOK
<1>2. disk' = disk \cup AllFiles'
  BY DEF Put
<1>3. /\ nextNum' >= nextNum
      /\ \A level \in Levels : \A f \in files'[level] : f \in files[level] \/ f.num >= nextNum
  <2>1. PICK S : FlushOf(S) \/ UNCHANGED <<files, nextNum>>
    BY DEF Put, Write
  <2>2. CASE FlushOf(S)
    BY <1>1, <2>2 DEF FlushOf
  <2>3. CASE UNCHANGED <<files, nextNum>>
    BY <1>1, <2>3
  <2> QED BY <2>1, <2>2, <2>3
<1>4. \A f \in AllFiles' : f \in AllFiles \/ f.num >= nextNum
  BY <1>3 DEF AllFiles, Levels
<1> QED BY <1>2, <1>3, <1>4, FreshFiles

\* A compaction writes its outputs under the numbers after that, and what it replaces
\* stays in the directory.
LEMMA CompactDisk ==
  ASSUME IInv, IInv', DiskInv, NEW level \in Levels, CompactFiles(level)
  PROVE  DiskInv' /\ \A f \in disk' \ disk : f.num >= nextNum
<1> USE LsmAssumption DEF LsmAssumption
<1>1. Compact(level) /\ disk' = disk \cup AllFiles'
  BY DEF CompactFiles, Retained
<1>2. level < NumLevels - 1
  BY <1>1, CompactShape
<1>3. PICK C \in Cuts(Merged(level)) : CompactedTo(level, C)
  BY <1>1, CompactShape
<1> DEFINE out == OutputFiles(Merged(level), C)
<1>4. /\ IsFiniteSet(Merged(level))
      /\ Merged(level) \in SUBSET Entry
      /\ C \in SUBSET Merged(level)
      /\ nextNum \in Nat
  BY <1>2, InputsShape DEF Cuts, IInv, TypeOK
<1>5. \A f \in out : f.num >= nextNum
  BY <1>4, OutputsWellFormed
<1> HIDE DEF out
<1>6. /\ \A l \in Levels : \A f \in files'[l] : f \in files[l] \/ f \in out
      /\ nextNum' >= nextNum
  BY <1>3 DEF CompactedTo, out
<1>7. \A f \in AllFiles' : f \in AllFiles \/ f.num >= nextNum
  BY <1>5, <1>6 DEF AllFiles, Levels
<1> QED BY <1>1, <1>6, <1>7, FreshFiles

\* No other step touches the directory.
QuietOnDisk == UNCHANGED <<disk, files, nextNum>>

LEMMA QuietDisk ==
  ASSUME DiskInv, QuietOnDisk
  PROVE  DiskInv'
BY DEF QuietOnDisk, DiskInv, AllFiles, Levels

----------------------------------------------------------------------------
(* What a reader holds *)

\* What it has yet to look into, and what it has opened, is in the directory.
Sound(q) ==
  /\ q \in Reader
  /\ q.table \subseteq disk
  /\ \A level \in Levels : q.todo[level] \subseteq Nums(disk)
  /\ q.pc \in {"lookup", "insert"} => q.key \in Keys

ReadersInv ==
  /\ entries \subseteq disk
  /\ rd \in [Readers -> Reader]
  /\ \A r \in Readers : Sound(rd[r])

\* The step of reader r leaves the others, and leaves r with something sound.
ReaderStep(r) ==
  /\ rd' = [rd EXCEPT ![r] = rd'[r]]
  /\ Sound(rd'[r])

LEMMA IdleSound == Idle \in Reader /\ Sound(Idle)
<1>1. Nothing \in [Levels -> SUBSET Nat]
  BY DEF Nothing
<1>2. Idle \in Reader
  BY <1>1 DEF Idle, Reader
<1>3. /\ Idle.table = {}
      /\ Idle.todo = Nothing
      /\ Idle.pc = "idle"
  BY DEF Idle
<1> QED BY <1>2, <1>3 DEF Sound, Nothing

LEMMA AnswerSound ==
  ASSUME ReadersInv, NEW r \in Readers, NEW q, NEW right, Answer(r, q, right)
  PROVE  ReaderStep(r)
BY IdleSound DEF Answer, ReaderStep, ReadersInv

\* The loop of a get over the files goes on with what is left of q, or ends.
GoesOn(r) ==
  \E q \in Reader :
    /\ q.key \in Keys
    /\ \A level \in Levels : q.todo[level] \subseteq Nums(disk)
    /\ Resume(r, q)

LEMMA ResumeSound ==
  ASSUME ReadersInv, NEW r \in Readers, GoesOn(r)
  PROVE  ReaderStep(r)
<1>1. PICK q \in Reader :
        /\ q.key \in Keys
        /\ \A level \in Levels : q.todo[level] \subseteq Nums(disk)
        /\ Resume(r, q)
  BY DEF GoesOn
<1> DEFINE next == [q EXCEPT !.pc = "lookup", !.todo = Captured(q.todo), !.table = {}]
<1>2. CASE Answer(r, q, RightGet(q))
  BY <1>2, AnswerSound
<1>3. CASE rd' = [rd EXCEPT ![r] = next]
  <2>1. next \in Reader
    BY DEF Reader, Captured
  <2>2. next.table = {} /\ next.todo = q.todo /\ next.key = q.key
    BY DEF Reader, Captured
  <2> HIDE DEF next
  <2>3. Sound(next)
    BY <1>1, <2>1, <2>2 DEF Sound
  <2> QED BY <1>3, <2>3 DEF ReaderStep, ReadersInv
<1> QED BY <1>1, <1>2, <1>3 DEF Resume

LEMMA ProbeGoesOn ==
  ASSUME ReadersInv, DiskInv, NEW r \in Readers, NEW f \in disk,
         rd[r].pc \in {"lookup", "insert"}, Probe(r, f)
  PROVE  GoesOn(r)
<1> DEFINE q == rd[r]
           todo == [q.todo EXCEPT ![Top(q.todo)] = q.todo[Top(q.todo)] \ {f.num}]
           got == Newest(f.ents, q.key, q.seq)
           next == [q EXCEPT !.todo = todo, !.got = got]
<1>1. q \in Reader /\ q.key \in Keys /\ \A level \in Levels : q.todo[level] \subseteq Nums(disk)
  BY DEF ReadersInv, Sound
<1>2. got \subseteq Entry
  BY DEF DiskInv, File, Newest
<1>3. q.todo \in [Levels -> SUBSET Nat]
  BY <1>1 DEF Reader
<1>4. /\ todo \in [Levels -> SUBSET Nat]
      /\ \A level \in Levels : todo[level] \subseteq q.todo[level]
  BY <1>3
<1>5. Resume(r, next)
  BY DEF Probe
<1> HIDE DEF todo, got, q
<1>6. next \in Reader /\ next.key = q.key /\ next.todo = todo
  BY <1>1, <1>2, <1>4 DEF Reader
<1>7. \A level \in Levels : next.todo[level] \subseteq Nums(disk)
  BY <1>1, <1>4, <1>6
<1> HIDE DEF next
<1> QED BY <1>1, <1>5, <1>6, <1>7 DEF GoesOn

\* While files are left, the next one is among them.
LEMMA NextIsLeft ==
  ASSUME NEW todo \in [Levels -> SUBSET Nat], todo # Nothing
  PROVE  /\ Top(todo) \in Levels
         /\ OldestFirst(todo) \in todo[Top(todo)]
<1> USE LsmAssumption DEF LsmAssumption
<1> DEFINE A == {level \in Levels : todo[level] # {}}
<1>1. A \in SUBSET Nat /\ A # {}
  BY DEF Levels, Nothing
<1>2. PICK m \in A : \A a \in A : m <= a
  <2> HIDE DEF A
  <2> QED BY <1>1, MinExists
<1>3. \A above \in 0 .. m - 1 : above \in Levels /\ above < m
  BY DEF Levels
<1>4. m \in Levels /\ todo[m] # {} /\ \A above \in 0 .. m - 1 : todo[above] = {}
  BY <1>1, <1>2, <1>3
<1> HIDE DEF A
<1>5. Top(todo) \in Levels /\ todo[Top(todo)] # {}
  BY <1>4 DEF Top
<1>6. \E n \in todo[Top(todo)] : \A j \in todo[Top(todo)] : n <= j
  BY <1>5, MinExists
<1> QED BY <1>5, <1>6 DEF OldestFirst

LEMMA SearchGoesOn ==
  ASSUME ReadersInv, DiskInv, IInv, NEW r \in Readers, NEW k \in Keys,
         NEW s \in Nat, NEW g \in Guards \cup {NoSnapshot}, Begin(r, k, s, g)
  PROVE  GoesOn(r)
<1>1. PICK todo \in Searches(k) :
        Resume(r, [pc |-> "lookup", key |-> k, seq |-> s, pin |-> g, todo |-> todo,
                   table |-> {}, got |-> Newest(mem, k, s), sorted |-> ListsSorted])
  BY DEF Begin
<1>2. todo \in [Levels -> SUBSET Nums(AllFiles)]
  BY DEF Searches
<1>3. Nums(AllFiles) \subseteq Nums(disk) /\ Nums(disk) \subseteq Nat
  BY DEF DiskInv, Nums, File
<1>4. Newest(mem, k, s) \subseteq Entry
  BY DEF IInv, TypeOK, Newest
<1>5. ListsSorted \in BOOLEAN
  BY DEF ListsSorted
<1> DEFINE q == [pc |-> "lookup", key |-> k, seq |-> s, pin |-> g, todo |-> todo,
                 table |-> {}, got |-> Newest(mem, k, s), sorted |-> ListsSorted]
<1>6. q \in Reader
  BY <1>2, <1>3, <1>4, <1>5 DEF Reader
<1>7. q.key = k /\ q.todo = todo
  OBVIOUS
<1>8. Resume(r, q)
  BY <1>1
<1> HIDE DEF q
<1> QED BY <1>2, <1>3, <1>6, <1>7, <1>8 DEF GoesOn

\* An iterator takes every file of the current Version, and a copy of the memtable.
LEMMA OpenSound ==
  ASSUME ReadersInv, DiskInv, IInv, NEW r \in Readers, NEW g \in Guards, OpenIterator(r, g)
  PROVE  ReaderStep(r)
<1> DEFINE todo == [level \in Levels |-> Nums(files[level])]
           got == {e \in mem : e.seq <= guard[g]}
           next == [pc |-> "scan", key |-> NoKey, seq |-> guard[g], pin |-> g, todo |-> todo,
                    table |-> {}, got |-> got, sorted |-> TRUE]
<1>1. rd' = [rd EXCEPT ![r] = next]
  BY DEF OpenIterator
<1>2. guard[g] \in Nat
  BY DEF OpenIterator, IInv, TypeOK
<1>3. \A level \in Levels : todo[level] \subseteq Nums(disk) /\ Nums(disk) \subseteq Nat
  BY DEF DiskInv, AllFiles, Nums, File
<1>4. got \subseteq Entry
  BY DEF IInv, TypeOK
<1>5. todo \in [Levels -> SUBSET Nat]
  BY <1>3
<1> HIDE DEF todo, got
<1>6. next \in Reader
  BY <1>2, <1>4, <1>5 DEF Reader
<1>7. next.pc = "scan" /\ next.todo = todo /\ next.table = {}
  OBVIOUS
<1> HIDE DEF next
<1>8. Sound(next)
  BY <1>3, <1>6, <1>7 DEF Sound
<1> QED BY <1>1, <1>8 DEF ReaderStep, ReadersInv

\* It then opens them one after the other.
LEMMA SourceSound ==
  ASSUME ReadersInv, DiskInv, NEW r \in Readers, OpenSource(r)
  PROVE  /\ ReaderStep(r)
         /\ \E f \in disk, todo \in [Levels -> SUBSET Nat] :
              /\ \A level \in Levels : /\ todo[level] \subseteq rd[r].todo[level]
                                       /\ rd[r].todo[level] \subseteq todo[level] \cup {f.num}
              /\ \E level \in Levels : f.num \in rd[r].todo[level]
              /\ rd' = [rd EXCEPT ![r] = [rd[r] EXCEPT !.todo = todo, !.got = @ \cup f.ents]]
<1> DEFINE q == rd[r]
<1>1. q \in Reader /\ Sound(q)
  BY DEF ReadersInv
<1>2. q.todo \in [Levels -> SUBSET Nat] /\ q.pc = "scan" /\ q.todo # Nothing
  BY <1>1 DEF Reader, OpenSource
<1>3. PICK f \in disk :
        /\ f.num = OldestFirst(q.todo)
        /\ rd' = [rd EXCEPT ![r].todo[Top(q.todo)] = @ \ {f.num}, ![r].got = @ \cup f.ents]
  BY DEF OpenSource
<1> DEFINE todo == [q.todo EXCEPT ![Top(q.todo)] = q.todo[Top(q.todo)] \ {f.num}]
           next == [q EXCEPT !.todo = todo, !.got = q.got \cup f.ents]
<1>4. /\ todo \in [Levels -> SUBSET Nat]
      /\ \A level \in Levels : /\ todo[level] \subseteq q.todo[level]
                               /\ q.todo[level] \subseteq todo[level] \cup {f.num}
  BY <1>2
<1>5. rd' = [rd EXCEPT ![r] = next]
  BY <1>1, <1>3 DEF ReadersInv, Reader
<1>6. f.ents \subseteq Entry
  BY DEF DiskInv, File
<1> HIDE DEF todo, q
<1>7. next \in Reader /\ next.todo = todo /\ next.table = q.table /\ next.pc = q.pc
  BY <1>1, <1>4, <1>6 DEF Reader
<1> HIDE DEF next
<1>8. Sound(next)
  BY <1>1, <1>2, <1>4, <1>7 DEF Sound
<1>9. ReaderStep(r)
  BY <1>5, <1>8 DEF ReaderStep, ReadersInv
<1>10. \E level \in Levels : f.num \in q.todo[level]
  BY <1>2, <1>3, NextIsLeft
<1> QED BY <1>3, <1>4, <1>5, <1>9, <1>10 DEF next, q

\* A get looks into the file of the cached reader, or opens it and inserts it first.
LEMMA GetGoesOn ==
  ASSUME ReadersInv, DiskInv, NEW r \in Readers, Hit(r) \/ Miss(r) \/ Insert(r)
  PROVE  /\ entries' \subseteq disk
         /\ \/ GoesOn(r)
            \/ /\ ReaderStep(r)
               /\ rd'[r].pc = "insert"
               /\ UNCHANGED wrong
<1>1. CASE Hit(r)
  <2>1. PICK f \in entries : Probe(r, f)
    BY <1>1 DEF Hit, CachedTables
  <2>2. f \in disk /\ rd[r].pc \in {"lookup", "insert"} /\ entries' \subseteq disk
    BY <1>1 DEF Hit, ReadersInv
  <2> QED BY <2>1, <2>2, ProbeGoesOn
<1>2. CASE Miss(r)
  <2>1. rd[r].pc = "lookup" /\ entries' \subseteq disk
    BY <1>2 DEF Miss, cache, ReadersInv
  <2>2. PICK f \in disk :
          \/ Probe(r, f)
          \/ rd' = [rd EXCEPT ![r].pc = "insert", ![r].table = {f}] /\ UNCHANGED wrong
    BY <1>2 DEF Miss
  <2>3. CASE Probe(r, f)
    BY <2>1, <2>3, ProbeGoesOn
  <2>4. CASE rd' = [rd EXCEPT ![r].pc = "insert", ![r].table = {f}] /\ UNCHANGED wrong
    <3> DEFINE q == rd[r]
               next == [q EXCEPT !.pc = "insert", !.table = {f}]
    <3>1. q \in Reader /\ Sound(q) /\ q.key \in Keys
      BY <2>1 DEF ReadersInv, Sound
    <3>2. rd' = [rd EXCEPT ![r] = next]
      BY <2>4, <3>1 DEF ReadersInv, Reader
    <3> HIDE DEF q
    <3>3. /\ next \in Reader
          /\ next.pc = "insert" /\ next.table = {f}
          /\ next.todo = q.todo /\ next.key = q.key
      BY <3>1 DEF Reader, DiskInv
    <3> HIDE DEF next
    <3>4. Sound(next)
      BY <3>1, <3>3 DEF Sound
    <3>5. rd'[r] = next
      BY <3>2 DEF ReadersInv
    <3> QED BY <2>1, <2>4, <3>2, <3>3, <3>4, <3>5 DEF ReaderStep
  <2> QED BY <2>1, <2>2, <2>3, <2>4
<1>3. CASE Insert(r)
  <2>1. PICK f \in rd[r].table :
          /\ entries' \subseteq entries \cup {f}
          /\ Probe(r, f)
    BY <1>3 DEF Insert
  <2>2. f \in disk /\ rd[r].pc \in {"lookup", "insert"}
    BY <1>3 DEF Insert, ReadersInv, Sound
  <2>3. entries' \subseteq disk
    BY <2>1, <2>2 DEF ReadersInv
  <2> QED BY <2>1, <2>2, <2>3, ProbeGoesOn
<1> QED BY <1>1, <1>2, <1>3

\* Every step of a reader.
LEMMA ReaderSteps ==
  ASSUME ReadersInv, DiskInv, IInv, NEW r \in Readers,
         \/ \E k \in Keys : Get(r, k) \/ (\E g \in Guards : GetAt(r, k, g))
         \/ \E g \in Guards : OpenIterator(r, g)
         \/ Hit(r) \/ Miss(r) \/ Insert(r)
         \/ OpenSource(r) \/ IteratorReady(r)
  PROVE  ReaderStep(r) /\ entries' \subseteq disk /\ QuietOnDisk
<1>1. ASSUME NEW k \in Keys, Get(r, k)
      PROVE  ReaderStep(r) /\ entries' \subseteq disk /\ QuietOnDisk
  <2>1. lastSeq \in Nat
    BY DEF IInv, TypeOK
  <2> QED BY <1>1, <2>1, SearchGoesOn, ResumeSound DEF Get, cache, tree, QuietOnDisk, ReadersInv
<1>2. ASSUME NEW k \in Keys, NEW g \in Guards, GetAt(r, k, g)
      PROVE  ReaderStep(r) /\ entries' \subseteq disk /\ QuietOnDisk
  <2>1. guard[g] \in Nat
    BY <1>2 DEF GetAt, IInv, TypeOK
  <2> QED BY <1>2, <2>1, SearchGoesOn, ResumeSound DEF GetAt, cache, tree, QuietOnDisk, ReadersInv
<1>3. ASSUME NEW g \in Guards, OpenIterator(r, g)
      PROVE  ReaderStep(r) /\ entries' \subseteq disk /\ QuietOnDisk
  BY <1>3, OpenSound DEF OpenIterator, cache, tree, QuietOnDisk, ReadersInv
<1>4. CASE Hit(r) \/ Miss(r) \/ Insert(r)
  <2>1. QuietOnDisk
    BY <1>4 DEF Hit, Miss, Insert, tree, QuietOnDisk
  <2> QED BY <1>4, <2>1, GetGoesOn, ResumeSound
<1>5. CASE OpenSource(r)
  BY <1>5, SourceSound DEF OpenSource, cache, tree, QuietOnDisk, ReadersInv
<1>6. CASE IteratorReady(r)
  BY <1>6, AnswerSound DEF IteratorReady, cache, tree, QuietOnDisk, ReadersInv
<1> QED BY <1>1, <1>2, <1>3, <1>4, <1>5, <1>6

\* The files a reader has yet to open stay where they are, whatever the others do.
LEMMA WorldInv ==
  ASSUME ReadersInv, rd' = rd, disk \subseteq disk', entries' \subseteq entries
  PROVE  ReadersInv'
BY DEF ReadersInv, Sound, Nums

LEMMA StepInv ==
  ASSUME ReadersInv, NEW r \in Readers, ReaderStep(r), disk' = disk, entries' \subseteq disk
  PROVE  ReadersInv'
<1>1. rd' \in [Readers -> Reader]
  BY DEF ReadersInv, ReaderStep, Sound
<1>2. \A o \in Readers : Sound(rd'[o])
  BY DEF ReadersInv, ReaderStep
<1> QED BY <1>1, <1>2 DEF ReadersInv, Sound, Nums

LEMMA ReadNextInv ==
  ASSUME DiskInv, ReadersInv, IInv, IInv', [ReadNext]_readVars
  PROVE  DiskInv' /\ ReadersInv'
<1>1. ASSUME NEW k \in Keys, NEW v \in Values \cup {Tombstone}, Put(k, v)
      PROVE  DiskInv' /\ ReadersInv'
  <2>1. rd' = rd /\ disk \subseteq disk' /\ entries' = entries
    BY <1>1 DEF Put, cache, readers
  <2> QED BY <1>1, <2>1, PutDisk, WorldInv
<1>2. ASSUME NEW g \in Guards, Pin(g) \/ Unpin(g)
      PROVE  DiskInv' /\ ReadersInv'
  <2>1. QuietOnDisk /\ rd' = rd /\ disk' = disk /\ entries' = entries
    BY <1>2 DEF Pin, Unpin, NewSnapshot, DropGuard, cache, readers, QuietOnDisk
  <2> QED BY <2>1, QuietDisk, WorldInv
<1>3. ASSUME NEW level \in Levels, CompactFiles(level)
      PROVE  DiskInv' /\ ReadersInv'
  <2>1. rd' = rd /\ disk \subseteq disk' /\ entries' = entries
    BY <1>3 DEF CompactFiles, Retained, cache, readers
  <2> QED BY <1>3, <2>1, CompactDisk, WorldInv
<1>4. ASSUME NEW n \in evicting, Evict(n)
      PROVE  DiskInv' /\ ReadersInv'
  <2>1. QuietOnDisk /\ rd' = rd /\ disk' = disk /\ entries' \subseteq entries
    BY <1>4 DEF Evict, tree, readers, QuietOnDisk
  <2> QED BY <2>1, QuietDisk, WorldInv
<1>5. ASSUME NEW r \in Readers,
             \/ \E k \in Keys : Get(r, k) \/ (\E g \in Guards : GetAt(r, k, g))
             \/ \E g \in Guards : OpenIterator(r, g)
             \/ Hit(r) \/ Miss(r) \/ Insert(r)
             \/ OpenSource(r) \/ IteratorReady(r)
      PROVE  DiskInv' /\ ReadersInv'
  <2>1. ReaderStep(r) /\ entries' \subseteq disk /\ QuietOnDisk
    BY <1>5, ReaderSteps
  <2>2. disk' = disk
    BY <2>1 DEF QuietOnDisk
  <2> QED BY <2>1, <2>2, QuietDisk, StepInv
<1>6. CASE UNCHANGED readVars
  <2>1. QuietOnDisk /\ rd' = rd /\ disk' = disk /\ entries' = entries
    BY <1>6 DEF readVars, tree, cache, readers, QuietOnDisk
  <2> QED BY <2>1, QuietDisk, WorldInv
<1> QED BY <1>1, <1>2, <1>3, <1>4, <1>5, <1>6 DEF ReadNext

LEMMA ReadInitInv == ReadInit => DiskInv /\ ReadersInv
<1> SUFFICES ASSUME ReadInit PROVE DiskInv /\ ReadersInv
  OBVIOUS
<1>1. DiskInv
  BY InitDisk
<1>2. ReadersInv
  BY IdleSound DEF ReadInit, ReadersInv
<1> QED BY <1>1, <1>2

LEMMA ReadersStaySound == CutsAreSafe => (ReadSpec => [](DiskInv /\ ReadersInv))
<1> SUFFICES ASSUME CutsAreSafe PROVE ReadSpec => [](DiskInv /\ ReadersInv)
  OBVIOUS
<1>1. ReadInit => DiskInv /\ ReadersInv
  BY ReadInitInv
<1>2. IInv /\ IInv' /\ DiskInv /\ ReadersInv /\ [ReadNext]_readVars => (DiskInv /\ ReadersInv)'
  BY ReadNextInv
<1> QED BY <1>1, <1>2, TreeInvariant, PTL DEF ReadSpec

\* No reader finds a file gone: whatever is compacted away while it looks on stays in the
\* directory (get_from_sstables and create_sst_iterator after the unlock; the comment at
\* the end of run_one_compaction).
THEOREM OpensAlwaysSucceed == CutsAreSafe => (ReadSpec => []OpensSucceed)
<1>1. ReadersInv => OpensSucceed
  BY DEF ReadersInv, Sound, OpensSucceed
<1> QED BY <1>1, ReadersStaySound, PTL

----------------------------------------------------------------------------
(* The cache *)

\* The queue without n holds all other numbers, and is shorter where n was in it.
LEMMA WithoutShrinks ==
  ASSUME order \in Seq(Nat), NEW n \in Nat
  PROVE  /\ Without(n) \in Seq(Nat)
         /\ Len(Without(n)) <= Len(order)
         /\ (\E j \in 1 .. Len(order) : order[j] = n) => Len(Without(n)) < Len(order)
         /\ \A j \in 1 .. Len(order) :
              order[j] # n => \E l \in 1 .. Len(Without(n)) : Without(n)[l] = order[j]
<1>0. PICK N \in Nat : N = Len(order)
  OBVIOUS
<1>1. PICK S : S = Seq(Nat)
  OBVIOUS
<1> DEFINE none == <<>>
<1>2. \A i \in 1 .. N : order[i] \in Nat /\ \A s \in S : Append(s, order[i]) \in S
  BY <1>0, <1>1
<1> DEFINE Next1(i, s) == IF order[i] = n THEN s ELSE Append(s, order[i])
           step == [i \in 1 .. N |-> [s \in S |-> Next1(i, s)]]
           Rec(f) == [i \in 0 .. N |-> IF i = 0 THEN none ELSE Next1(i, f[i - 1])]
<1>3. \A i \in 1 .. N : \A s \in S : Next1(i, s) \in S
  BY <1>2
<1> HIDE DEF Next1
<1>start. none \in S
  BY <1>1
<1>4. step \in [1 .. N -> [S -> S]]
  BY <1>3
<1>5. PICK g \in [0 .. N -> S] : g[0] = none /\ \A i \in 1 .. N : g[i] = step[i][g[i - 1]]
  <2>1. PICK start \in S : start = none
    BY <1>start
  <2>2. PICK h \in [1 .. N -> [S -> S]] : h = step
    BY <1>4
  <2> HIDE DEF step, none
  <2>3. \E g \in [0 .. N -> S] : Recursive(g, N, start, h)
    BY RecursionExists
  <2> QED BY <2>1, <2>2, <2>3 DEF Recursive
<1>6. \A i \in 1 .. N : g[i] = Next1(i, g[i - 1])
  <2> SUFFICES ASSUME NEW i \in 1 .. N
               PROVE  g[i] = Next1(i, g[i - 1])
    OBVIOUS
  <2>1. i - 1 \in 0 .. N
    OBVIOUS
  <2>2. g[i - 1] \in S /\ g[i] = step[i][g[i - 1]]
    BY <1>5, <2>1
  <2> QED BY <2>2
<1>7. g = Rec(g)
  BY <1>5, <1>6
<1> DEFINE f == CHOOSE h : h = Rec(h)
<1>8. f = Rec(f)
  <2> HIDE DEF Rec
  <2> QED BY <1>7
<1>9. Without(n) = f[N]
  BY <1>0 DEF Without, Next1
<1> HIDE DEF f
<1>10. f[0] = <<>> /\ \A i \in 1 .. N : f[i] = Next1(i, f[i - 1])
  BY <1>1, <1>8
<1> HIDE DEF Rec, step
<1>11. \A i \in 1 .. N : f[i] = IF order[i] = n THEN f[i - 1] ELSE Append(f[i - 1], order[i])
  BY <1>10 DEF Next1
<1> DEFINE Good(i) == /\ f[i] \in Seq(Nat)
                      /\ Len(f[i]) <= i
                      /\ (\E j \in 1 .. i : order[j] = n) => Len(f[i]) < i
                      /\ \A j \in 1 .. i :
                           order[j] # n => \E l \in 1 .. Len(f[i]) : f[i][l] = order[j]
<1>12. Good(0)
  BY <1>10
<1>13. ASSUME NEW i \in 1 .. N, Good(i - 1)
       PROVE  Good(i)
  <2>1. order[i] \in Nat /\ f[i - 1] \in Seq(Nat)
    BY <1>2, <1>13
  <2>2. CASE order[i] = n
    <3>1. f[i] = f[i - 1]
      BY <1>11, <2>2
    <3>2. \A j \in 1 .. i : order[j] # n => j \in 1 .. i - 1
      BY <2>2
    <3> QED BY <1>13, <2>1, <3>1, <3>2
  <2>3. CASE order[i] # n
    <3>1. f[i] = Append(f[i - 1], order[i])
      BY <1>11, <2>3
    <3>2. /\ f[i] \in Seq(Nat)
          /\ Len(f[i]) = Len(f[i - 1]) + 1
          /\ f[i][Len(f[i - 1]) + 1] = order[i]
          /\ \A l \in 1 .. Len(f[i - 1]) : f[i][l] = f[i - 1][l]
      BY <2>1, <3>1
    <3>3. Len(f[i - 1]) \in Nat
      BY <2>1
    <3>4. (\E j \in 1 .. i : order[j] = n) => Len(f[i]) < i
      <4> SUFFICES ASSUME NEW j \in 1 .. i, order[j] = n
                   PROVE  Len(f[i]) < i
        OBVIOUS
      <4>1. j \in 1 .. i - 1
        BY <2>3
      <4>2. Len(f[i - 1]) < i - 1
        BY <1>13, <4>1
      <4> QED BY <3>2, <3>3, <4>2
    <3>5. ASSUME NEW j \in 1 .. i, order[j] # n
          PROVE  \E l \in 1 .. Len(f[i]) : f[i][l] = order[j]
      <4>1. CASE j = i
        <5>1. Len(f[i - 1]) + 1 \in 1 .. Len(f[i])
          BY <3>2, <3>3
        <5> QED BY <3>2, <4>1, <5>1
      <4>2. CASE j # i
        <5>1. j \in 1 .. i - 1
          BY <4>2
        <5>2. PICK l \in 1 .. Len(f[i - 1]) : f[i - 1][l] = order[j]
          BY <1>13, <3>5, <5>1
        <5>3. l \in 1 .. Len(f[i])
          BY <3>2, <3>3, <5>2
        <5> QED BY <3>2, <5>2, <5>3
      <4> QED BY <4>1, <4>2
    <3>6. Len(f[i]) <= i
      BY <1>13, <3>2, <3>3
    <3> QED BY <3>2, <3>4, <3>5, <3>6
  <2> QED BY <2>2, <2>3
<1> DEFINE Bad == {i \in 0 .. N : ~Good(i)}
<1> HIDE DEF Good
<1>14. Bad = {}
  <2> SUFFICES ASSUME Bad # {} PROVE FALSE
    OBVIOUS
  <2>1. Bad \in SUBSET Nat
    OBVIOUS
  <2>2. PICK m \in Bad : \A a \in Bad : m <= a
    <3> HIDE DEF Bad
    <3> QED BY <2>1, MinExists
  <2>3. m \in 1 .. N /\ m - 1 \in 0 .. N /\ m - 1 \notin Bad
    BY <1>12, <2>2
  <2> QED BY <1>13, <2>2, <2>3
<1>15. Good(N)
  BY <1>14
<1> QED BY <1>0, <1>1, <1>9, <1>15 DEF Good

\* A cached reader goes with its number, which no other has.
LEMMA NumberLeaves ==
  ASSUME NEW E, IsFiniteSet(E), \A f, g \in E : f.num = g.num => f = g, NEW n
  PROVE  LET kept == {f \in E : f.num # n}
         IN  /\ IsFiniteSet(kept)
             /\ Cardinality(kept) = IF n \in Nums(E) THEN Cardinality(E) - 1 ELSE Cardinality(E)
<1> DEFINE kept == {f \in E : f.num # n}
<1>1. CASE n \in Nums(E)
  <2>1. PICK f \in E : f.num = n
    BY <1>1 DEF Nums
  <2>2. kept = E \ {f}
    BY <2>1
  <2> QED BY <1>1, <2>1, <2>2, FS_RemoveElement
<1>2. CASE n \notin Nums(E)
  <2>1. kept = E
    BY <1>2 DEF Nums
  <2> QED BY <1>2, <2>1
<1> QED BY <1>1, <1>2

\* The queue is at least as long as the map is large.
LEMMA QueueCovers ==
  ASSUME NEW E, \A f, g \in E : f.num = g.num => f = g, NEW s \in Seq(Nat),
         \A f \in E : \E i \in 1 .. Len(s) : s[i] = f.num
  PROVE  IsFiniteSet(E) /\ Cardinality(E) <= Len(s)
<1> DEFINE place == [f \in E |-> CHOOSE i \in 1 .. Len(s) : s[i] = f.num]
<1>1. \A f \in E : place[f] \in 1 .. Len(s) /\ s[place[f]] = f.num
  OBVIOUS
<1>2. Len(s) \in Nat
  OBVIOUS
<1>3. place \in [E -> 1 .. Len(s)]
  BY <1>1
<1>4. \A f, g \in E : place[f] = place[g] => f = g
  <2> HIDE DEF place
  <2> QED BY <1>1
<1> HIDE DEF place
<1>5. place \in Injection(E, 1 .. Len(s))
  BY <1>3, <1>4 DEF Injection, IsInjective
<1>6. IsFiniteSet(1 .. Len(s)) /\ Cardinality(1 .. Len(s)) = Len(s)
  <2>1. PICK m \in Nat : m = Len(s)
    BY <1>2
  <2>2. IsFiniteSet(1 .. m) /\ Cardinality(1 .. m) = IF 1 > m THEN 0 ELSE m - 1 + 1
    BY FS_Interval
  <2> QED BY <2>1, <2>2
<1> QED BY <1>5, <1>6, FS_Injection

\* Every cached reader is queued; the queue is longer than the map by the races only, and
\* longer than the capacity by no more than those.
CacheInv ==
  /\ capacity \in Capacities
  /\ order \in Seq(Nat)
  /\ races \in Nat
  /\ CachedIsQueued
  /\ Len(order) <= Cardinality(entries) + races
  /\ capacity > 0 => Len(order) <= capacity + races

LEMMA CacheCount ==
  ASSUME DiskInv, ReadersInv, CacheInv
  PROVE  /\ \A f, g \in entries : f.num = g.num => f = g
         /\ \A f \in entries : f.num \in Nat
         /\ IsFiniteSet(entries)
         /\ Cardinality(entries) \in Nat
         /\ Cardinality(entries) <= Len(order)
         /\ Len(order) \in Nat
         /\ capacity \in Nat
<1>1. /\ \A f, g \in entries : f.num = g.num => f = g
      /\ \A f \in entries : f.num \in Nat
  BY DEF DiskInv, ReadersInv, File
<1>2. IsFiniteSet(entries) /\ Cardinality(entries) <= Len(order)
  BY <1>1, QueueCovers DEF CacheInv, CachedIsQueued
<1>3. capacity \in Nat /\ Len(order) \in Nat
  BY ReadersAssumption DEF CacheInv, ReadersAssumption
<1> QED BY <1>1, <1>2, <1>3, FS_CardinalityType

LEMMA CacheBounds ==
  ASSUME DiskInv, ReadersInv, CacheInv
  PROVE  CachedIsQueued /\ OnlyRacesOvergrow
<1>1. races \in Nat
  BY DEF CacheInv
<1> QED BY <1>1, CacheCount DEF CacheInv, OnlyRacesOvergrow

\* A hit only moves a number.
LEMMA HitCache ==
  ASSUME DiskInv, ReadersInv, CacheInv, NEW r \in Readers, Hit(r)
  PROVE  CacheInv'
<1> DEFINE n == NextFile(rd[r].todo)
<1>1. /\ order' = Append(Without(n), n)
      /\ UNCHANGED <<capacity, entries, races>>
      /\ \E f \in entries : f.num = n
  BY DEF Hit, Touched, CachedTables
<1>2. n \in Nat /\ \E j \in 1 .. Len(order) : order[j] = n
  BY <1>1, CacheCount DEF CacheInv, CachedIsQueued
<1> HIDE DEF n
<1>3. /\ Without(n) \in Seq(Nat)
      /\ Len(Without(n)) < Len(order)
      /\ \A j \in 1 .. Len(order) :
           order[j] # n => \E l \in 1 .. Len(Without(n)) : Without(n)[l] = order[j]
  BY <1>2, WithoutShrinks DEF CacheInv
<1>4. PICK s \in Seq(Nat) : s = Without(n)
  BY <1>3
<1>5. /\ order' \in Seq(Nat)
      /\ Len(order') = Len(s) + 1
      /\ order'[Len(s) + 1] = n
      /\ \A l \in 1 .. Len(s) : order'[l] = s[l]
  BY <1>1, <1>2, <1>4
<1>6. Len(s) \in Nat /\ Len(order) \in Nat /\ Len(order') <= Len(order)
  BY <1>3, <1>4, <1>5, CacheCount
<1>7. ASSUME NEW f \in entries
      PROVE  \E i \in 1 .. Len(order') : order'[i] = f.num
  <2>1. CASE f.num = n
    <3>1. Len(s) + 1 \in 1 .. Len(order')
      BY <1>5, <1>6
    <3> QED BY <1>5, <2>1, <3>1
  <2>2. CASE f.num # n
    <3>1. PICK j \in 1 .. Len(order) : order[j] = f.num
      BY DEF CacheInv, CachedIsQueued
    <3>2. PICK l \in 1 .. Len(s) : s[l] = f.num
      BY <1>3, <1>4, <2>2, <3>1
    <3>3. l \in 1 .. Len(order')
      BY <1>5, <1>6
    <3> QED BY <1>5, <3>2, <3>3
  <2> QED BY <2>1, <2>2
<1>8. CachedIsQueued'
  BY <1>1, <1>7 DEF CachedIsQueued
<1> QED BY <1>1, <1>5, <1>6, <1>8, CacheCount DEF CacheInv

\* An eviction takes a number out of both.
LEMMA EvictCache ==
  ASSUME DiskInv, ReadersInv, CacheInv, NEW n \in Nat, Evict(n)
  PROVE  CacheInv'
<1>1. /\ entries' = {f \in entries : f.num # n}
      /\ order' = Without(n)
      /\ UNCHANGED <<capacity, races>>
  BY DEF Evict
<1>2. /\ order' \in Seq(Nat)
      /\ Len(order') <= Len(order)
      /\ (\E j \in 1 .. Len(order) : order[j] = n) => Len(order') < Len(order)
      /\ \A j \in 1 .. Len(order) :
           order[j] # n => \E l \in 1 .. Len(order') : order'[l] = order[j]
  BY <1>1, WithoutShrinks DEF CacheInv
<1>3. CachedIsQueued'
  BY <1>1, <1>2 DEF CacheInv, CachedIsQueued
<1>4. Cardinality(entries') = IF n \in Nums(entries) THEN Cardinality(entries) - 1
                              ELSE Cardinality(entries)
  BY <1>1, NumberLeaves, CacheCount
<1>5. n \in Nums(entries) => Len(order') < Len(order)
  BY <1>2 DEF Nums, CacheInv, CachedIsQueued
<1>6. Len(order') \in Nat /\ races \in Nat
  BY <1>2 DEF CacheInv
<1> QED BY <1>1, <1>2, <1>3, <1>4, <1>5, <1>6, CacheCount DEF CacheInv

\* An insertion makes room first where the map is full, and lengthens the queue otherwise:
\* it lengthens the queue alone only if another has inserted the table since.
LEMMA InsertCache ==
  ASSUME DiskInv, ReadersInv, CacheInv, NEW r \in Readers, Insert(r)
  PROVE  CacheInv'
<1> DEFINE pop  == AtCapacity /\ order # <<>>
           kept == {f \in entries : ~(pop /\ f.num = Head(order))}
           rest == IF pop THEN Tail(order) ELSE order
<1>1. PICK f \in rd[r].table :
        /\ entries' = {g \in kept : g.num # f.num} \cup {f}
        /\ order' = Append(rest, f.num)
        /\ races' = IF f.num \in Nums(kept) THEN races + 1 ELSE races
  BY DEF Insert
<1>2. f \in disk /\ f.num \in Nat
  BY DEF ReadersInv, Sound, DiskInv, File
<1>3. capacity' = capacity /\ capacity \in Nat /\ races \in Nat /\ order \in Seq(Nat)
  BY CacheCount DEF Insert, CacheInv
<1>4. /\ rest \in Seq(Nat)
      /\ Len(rest) = IF pop THEN Len(order) - 1 ELSE Len(order)
      /\ \A g \in kept : \E i \in 1 .. Len(rest) : rest[i] = g.num
  <2>1. CASE pop
    <3>1. /\ rest \in Seq(Nat)
          /\ Len(rest) = Len(order) - 1
          /\ \A i \in 2 .. Len(order) : rest[i - 1] = order[i]
          /\ Head(order) = order[1]
      BY <1>3, <2>1
    <3>2. ASSUME NEW g \in kept
          PROVE  \E i \in 1 .. Len(rest) : rest[i] = g.num
      <4>1. PICK i \in 1 .. Len(order) : order[i] = g.num
        BY DEF CacheInv, CachedIsQueued
      <4>2. i # 1
        BY <2>1, <3>1, <4>1
      <4>3. i \in 2 .. Len(order) /\ i - 1 \in 1 .. Len(rest)
        BY <1>3, <3>1, <4>2
      <4> QED BY <3>1, <4>1, <4>3
    <3> QED BY <2>1, <3>1, <3>2
  <2>2. CASE ~pop
    BY <1>3, <2>2 DEF CacheInv, CachedIsQueued
  <2> QED BY <2>1, <2>2
<1>5. /\ IsFiniteSet(kept)
      /\ \A g, h \in kept : g.num = h.num => g = h
      /\ Cardinality(kept) \in Nat
      /\ IF pop THEN Cardinality(kept) >= Cardinality(entries) - 1
                ELSE Cardinality(kept) = Cardinality(entries)
  <2>1. \A g, h \in kept : g.num = h.num => g = h
    BY CacheCount
  <2>2. CASE pop
    <3>1. kept = {g \in entries : g.num # Head(order)}
      BY <2>2
    <3>2. /\ IsFiniteSet(kept)
          /\ Cardinality(kept) = IF Head(order) \in Nums(entries) THEN Cardinality(entries) - 1
                                 ELSE Cardinality(entries)
      BY <3>1, CacheCount, NumberLeaves
    <3> HIDE DEF kept
    <3> QED BY <2>1, <2>2, <3>2, CacheCount, FS_CardinalityType
  <2>3. CASE ~pop
    <3>1. kept = entries
      BY <2>3
    <3> QED BY <2>1, <2>3, <3>1, CacheCount
  <2> QED BY <2>2, <2>3
<1> HIDE DEF kept
<1>6. Cardinality(entries') = IF f.num \in Nums(kept) THEN Cardinality(kept)
                              ELSE Cardinality(kept) + 1
  <2> DEFINE others == {g \in kept : g.num # f.num}
  <2>1. /\ IsFiniteSet(others)
        /\ Cardinality(others) = IF f.num \in Nums(kept) THEN Cardinality(kept) - 1
                                 ELSE Cardinality(kept)
    <3>1. PICK K, n : K = kept /\ n = f.num
      OBVIOUS
    <3>unique. IsFiniteSet(K) /\ \A g, h \in K : g.num = h.num => g = h
      BY <1>5, <3>1
    <3>2. /\ IsFiniteSet({g \in K : g.num # n})
          /\ Cardinality({g \in K : g.num # n}) =
               IF n \in Nums(K) THEN Cardinality(K) - 1 ELSE Cardinality(K)
      BY <3>unique, NumberLeaves
    <3> QED BY <3>1, <3>2
  <2>2. f \notin others
    OBVIOUS
  <2> HIDE DEF others
  <2>3. Cardinality(others \cup {f}) = Cardinality(others) + 1
    BY <2>1, <2>2, FS_AddElement
  <2>4. entries' = others \cup {f}
    BY <1>1 DEF others
  <2> QED BY <1>5, <2>1, <2>3, <2>4
<1>7. ~pop => Cardinality(entries) < capacity \/ capacity = 0
  <2>1. CASE order = <<>>
    <3>1. Cardinality(entries) = 0
      BY <2>1, CacheCount
    <3> QED BY <1>3, <3>1
  <2>2. CASE order # <<>>
    BY <1>3, <2>2, CacheCount DEF AtCapacity
  <2> QED BY <2>1, <2>2
<1>8. PICK s \in Seq(Nat) : s = rest
  BY <1>4
<1> HIDE DEF rest
<1>9. /\ order' \in Seq(Nat)
      /\ Len(order') = Len(s) + 1
      /\ order'[Len(s) + 1] = f.num
      /\ \A l \in 1 .. Len(s) : order'[l] = s[l]
      /\ Len(s) \in Nat
  BY <1>1, <1>2, <1>8
<1>10. CachedIsQueued'
  <2>1. ASSUME NEW g \in entries'
        PROVE  \E i \in 1 .. Len(order') : order'[i] = g.num
    <3>1. CASE g = f
      <4>1. Len(s) + 1 \in 1 .. Len(order')
        BY <1>9
      <4> QED BY <1>9, <3>1, <4>1
    <3>2. CASE g # f
      <4>1. g \in kept
        BY <1>1, <3>2
      <4>2. PICK i \in 1 .. Len(s) : s[i] = g.num
        BY <1>4, <1>8, <4>1
      <4>3. i \in 1 .. Len(order')
        BY <1>9
      <4> QED BY <1>9, <4>2, <4>3
    <3> QED BY <3>1, <3>2
  <2> QED BY <2>1 DEF CachedIsQueued
<1>11. Len(s) = IF pop THEN Len(order) - 1 ELSE Len(order)
  BY <1>4, <1>8
<1>12. /\ Cardinality(entries) \in Nat
       /\ Len(order) \in Nat
       /\ Len(order) <= Cardinality(entries) + races
       /\ capacity > 0 => Len(order) <= capacity + races
  BY CacheCount DEF CacheInv
<1> HIDE DEF pop
<1>13. races' \in Nat /\ Len(order') <= Cardinality(entries') + races'
  BY <1>1, <1>3, <1>5, <1>6, <1>9, <1>11, <1>12
<1>14. capacity > 0 => Len(order') <= capacity + races'
  BY <1>1, <1>3, <1>7, <1>9, <1>11, <1>12
<1> QED BY <1>3, <1>9, <1>10, <1>13, <1>14 DEF CacheInv

\* What is written down beside the tree and the cache.
RecordsInv ==
  /\ history \subseteq Entry
  /\ evicting \subseteq Nat
  /\ wrong \subseteq Reader

LEMMA ReadInitCache == ReadInit => CacheInv /\ RecordsInv
<1> SUFFICES ASSUME ReadInit PROVE CacheInv /\ RecordsInv
  OBVIOUS
<1>1. /\ capacity \in Capacities /\ entries = {} /\ order = <<>> /\ races = 0
      /\ history = {} /\ evicting = {} /\ wrong = {}
  BY DEF ReadInit
<1>2. /\ Len(order) = 0
      /\ order \in Seq(Nat)
      /\ Cardinality(entries) = 0
      /\ capacity \in Nat
  BY <1>1, FS_EmptySet, ReadersAssumption DEF ReadersAssumption
<1>3. CacheInv
  BY <1>1, <1>2 DEF CacheInv, CachedIsQueued
<1> QED BY <1>1, <1>3 DEF RecordsInv

\* Whatever leaves the cache alone.
LEMMA QuietCache ==
  ASSUME CacheInv, UNCHANGED <<capacity, cache>>
  PROVE  CacheInv'
BY DEF cache, CacheInv, CachedIsQueued

\* An answer is that of a reader.
LEMMA AnswerRecorded ==
  ASSUME RecordsInv, NEW r \in Readers, GoesOn(r), UNCHANGED <<history, evicting>>
  PROVE  RecordsInv'
BY DEF GoesOn, Resume, Answer, RecordsInv

LEMMA ReadNextCache ==
  ASSUME IInv, IInv', DiskInv, ReadersInv, CacheInv, RecordsInv, [ReadNext]_readVars
  PROVE  CacheInv' /\ RecordsInv'
<1>0. lastSeq \in Nat /\ \A g \in Guards : guard[g] # NoSnapshot => guard[g] \in Nat
  BY DEF IInv, TypeOK
<1>1. ASSUME NEW k \in Keys, NEW v \in Values \cup {Tombstone}, Put(k, v)
      PROVE  CacheInv' /\ RecordsInv'
  <2>1. CacheInv'
    BY <1>1, QuietCache DEF Put
  <2>2. [key |-> k, seq |-> lastSeq + 1, val |-> v] \in Entry
    BY <1>0 DEF Entry
  <2> QED BY <1>1, <2>1, <2>2 DEF Put, readers, RecordsInv
<1>2. ASSUME NEW g \in Guards, Pin(g) \/ Unpin(g)
      PROVE  CacheInv' /\ RecordsInv'
  <2>1. CacheInv'
    BY <1>2, QuietCache DEF Pin, Unpin
  <2> QED BY <1>2, <2>1 DEF Pin, Unpin, readers, RecordsInv
<1>3. ASSUME NEW level \in Levels, CompactFiles(level)
      PROVE  CacheInv' /\ RecordsInv'
  <2>1. CacheInv'
    BY <1>3, QuietCache DEF CompactFiles
  <2>2. evicting' \subseteq Nat
    BY <1>3 DEF CompactFiles, Nums, AllFiles, IInv, TypeOK, File
  <2> QED BY <1>3, <2>1, <2>2 DEF CompactFiles, readers, RecordsInv
<1>4. ASSUME NEW n \in evicting, Evict(n)
      PROVE  CacheInv' /\ RecordsInv'
  <2>1. n \in Nat
    BY DEF RecordsInv
  <2>2. CacheInv'
    BY <1>4, <2>1, EvictCache
  <2> QED BY <1>4, <2>2 DEF Evict, readers, RecordsInv
<1>5. ASSUME NEW r \in Readers, NEW k \in Keys, Get(r, k) \/ (\E g \in Guards : GetAt(r, k, g))
      PROVE  CacheInv' /\ RecordsInv'
  <2>1. CacheInv'
    BY <1>5, QuietCache DEF Get, GetAt
  <2>2. GoesOn(r)
    BY <1>0, <1>5, SearchGoesOn DEF Get, GetAt
  <2> QED BY <1>5, <2>1, <2>2, AnswerRecorded DEF Get, GetAt
<1>6. ASSUME NEW r \in Readers, NEW g \in Guards, OpenIterator(r, g)
      PROVE  CacheInv' /\ RecordsInv'
  <2>1. CacheInv'
    BY <1>6, QuietCache DEF OpenIterator
  <2> QED BY <1>6, <2>1 DEF OpenIterator, RecordsInv
<1>7. ASSUME NEW r \in Readers, Hit(r) \/ Miss(r) \/ Insert(r)
      PROVE  CacheInv' /\ RecordsInv'
  <2>1. CacheInv'
    BY <1>7, HitCache, InsertCache, QuietCache DEF Miss
  <2>2. UNCHANGED <<history, evicting>>
    BY <1>7 DEF Hit, Miss, Insert
  <2>3. GoesOn(r) \/ UNCHANGED wrong
    BY <1>7, GetGoesOn
  <2> QED BY <2>1, <2>2, <2>3, AnswerRecorded DEF RecordsInv
<1>8. ASSUME NEW r \in Readers, OpenSource(r) \/ IteratorReady(r)
      PROVE  CacheInv' /\ RecordsInv'
  <2>1. CacheInv'
    BY <1>8, QuietCache DEF OpenSource, IteratorReady
  <2> QED BY <1>8, <2>1 DEF OpenSource, IteratorReady, Answer, ReadersInv, RecordsInv
<1>9. CASE UNCHANGED readVars
  <2>1. CacheInv'
    BY <1>9, QuietCache DEF readVars
  <2> QED BY <1>9, <2>1 DEF readVars, readers, RecordsInv
<1> QED BY <1>1, <1>2, <1>3, <1>4, <1>5, <1>6, <1>7, <1>8, <1>9 DEF ReadNext

LEMMA CacheStaysSound ==
  CutsAreSafe => (ReadSpec => [](DiskInv /\ ReadersInv /\ CacheInv /\ RecordsInv))
<1> SUFFICES ASSUME CutsAreSafe
             PROVE  ReadSpec => [](DiskInv /\ ReadersInv /\ CacheInv /\ RecordsInv)
  OBVIOUS
<1>1. ReadInit => CacheInv /\ RecordsInv
  BY ReadInitCache
<1>2. /\ IInv /\ IInv' /\ DiskInv /\ ReadersInv /\ CacheInv /\ RecordsInv
      /\ [ReadNext]_readVars
      => (CacheInv /\ RecordsInv)'
  BY ReadNextCache
<1> QED BY <1>1, <1>2, TreeInvariant, ReadersStaySound, PTL DEF ReadSpec

\* The types of readers and cache; and the reader cached under a number is that of the
\* file in the directory which has the number, so no get looks into another file.
THEOREM ReadersWellTyped == CutsAreSafe => (ReadSpec => []ReadTypeOK)
<1>1. DiskInv /\ ReadersInv /\ CacheInv /\ RecordsInv => ReadTypeOK
  BY DEF DiskInv, ReadersInv, CacheInv, RecordsInv, ReadTypeOK
<1> QED BY <1>1, CacheStaysSound, PTL

\* No cached reader is missing in the queue, so each can be pushed out: hits, insertions
\* of several threads and evictions keep the two together (TableCache::get, evict).
THEOREM CachedReadersAreQueued == CutsAreSafe => (ReadSpec => []CachedIsQueued)
<1>1. CacheInv => CachedIsQueued
  BY DEF CacheInv
<1> QED BY <1>1, CacheStaysSound, PTL

\* However many threads load tables at the same time, the cache holds no more readers than
\* its capacity and one for each table that was inserted twice (TableCache::get).
THEOREM CacheStaysBounded == CutsAreSafe => (ReadSpec => []OnlyRacesOvergrow)
<1>1. DiskInv /\ ReadersInv /\ CacheInv => OnlyRacesOvergrow
  BY CacheBounds
<1> QED BY <1>1, CacheStaysSound, PTL

----------------------------------------------------------------------------
(* The history and the store show the same *)

\* What a write e, numbered n + 1, changes for the views of S, which n bounds.
AddedTo(S, n, e) ==
  \A k \in Keys :
    /\ \A s \in 0 .. n : Visible(S \cup {e}, k, s) = Visible(S, k, s)
    /\ e.key # k => Visible(S \cup {e}, k, n + 1) = Visible(S, k, n)
    /\ e.key = k => Visible(S \cup {e}, k, n + 1) = {d \in {e} : d.val # Tombstone}

LEMMA NewestAdded ==
  ASSUME NEW S \in SUBSET Entry, NEW n \in Nat, \A d \in S : d.seq <= n,
         NEW e \in Entry, e.seq = n + 1
  PROVE  AddedTo(S, n, e)
<1> SUFFICES ASSUME NEW k \in Keys
             PROVE  /\ \A s \in 0 .. n : Visible(S \cup {e}, k, s) = Visible(S, k, s)
                    /\ e.key # k => Visible(S \cup {e}, k, n + 1) = Visible(S, k, n)
                    /\ e.key = k =>
                         Visible(S \cup {e}, k, n + 1) = {d \in {e} : d.val # Tombstone}
  BY DEF AddedTo
<1>1. \A d \in S : d.seq \in Nat /\ d.seq <= n
  BY DEF Entry
<1>2. e \notin S
  BY <1>1
<1>3. ASSUME NEW s \in 0 .. n
      PROVE  Visible(S \cup {e}, k, s) = Visible(S, k, s)
  BY <1>1 DEF Visible, Newest
<1>4. e.key # k => Visible(S \cup {e}, k, n + 1) = Visible(S, k, n)
  BY <1>1 DEF Visible, Newest
<1>5. e.key = k => Newest(S \cup {e}, k, n + 1) = {e}
  BY <1>1, <1>2 DEF Newest
<1> QED BY <1>3, <1>4, <1>5 DEF Visible

\* The latest view of the tree, and the view of every registered snapshot, are those of
\* everything ever written.
HistoryInv ==
  /\ history \subseteq Entry
  /\ \A e \in history : e.seq <= lastSeq
  /\ \A k \in Keys, s \in snapshots \cup {lastSeq} : Visible(Store, k, s) = Visible(history, k, s)

\* A write, a compaction or a handle changes both alike, and no view of the past.
HistoryKept ==
  /\ HistoryInv'
  /\ \A k \in Keys, s \in 0 .. lastSeq : Visible(history', k, s) = Visible(history, k, s)

LEMMA PutHistory ==
  ASSUME IInv, HistoryInv, NEW k \in Keys, NEW v \in Values \cup {Tombstone}, Put(k, v)
  PROVE  HistoryKept
<1> DEFINE e == [key |-> k, seq |-> lastSeq + 1, val |-> v]
<1>1. /\ Write(k, v)
      /\ history' = history \cup {e}
      /\ lastSeq' = lastSeq + 1
      /\ snapshots' = snapshots
  BY DEF Put, Write
<1>2. Store' = Store \cup {e}
  BY <1>1, WriteIInv
<1>3. /\ lastSeq \in Nat
      /\ snapshots \subseteq 0 .. lastSeq
      /\ Store \subseteq Entry
      /\ \A d \in Store : d.seq <= lastSeq
  BY DEF IInv, TypeOK, SeqsBounded, Store, EntriesIn, File
<1>4. e \in Entry /\ e.seq = lastSeq + 1
  BY <1>3 DEF Entry
<1> HIDE DEF e
<1>5. history \in SUBSET Entry /\ \A d \in history : d.seq <= lastSeq
  BY DEF HistoryInv
<1>6. AddedTo(Store, lastSeq, e) /\ AddedTo(history, lastSeq, e)
  <2>1. PICK S \in SUBSET Entry : S = Store
    BY <1>3
  <2>2. AddedTo(S, lastSeq, e)
    BY <1>3, <1>4, <2>1, NewestAdded
  <2>3. AddedTo(history, lastSeq, e)
    BY <1>3, <1>4, <1>5, NewestAdded
  <2> QED BY <2>1, <2>2, <2>3
<1>7. \A j \in Keys, s \in 0 .. lastSeq :
        /\ Visible(Store \cup {e}, j, s) = Visible(Store, j, s)
        /\ Visible(history \cup {e}, j, s) = Visible(history, j, s)
  BY <1>6 DEF AddedTo
<1>8. ASSUME NEW j \in Keys, NEW s \in snapshots \cup {lastSeq + 1}
      PROVE  Visible(Store \cup {e}, j, s) = Visible(history \cup {e}, j, s)
  <2>1. CASE s \in snapshots
    BY <1>3, <1>7, <2>1 DEF HistoryInv
  <2>2. CASE s = lastSeq + 1
    <3>1. Visible(Store, j, lastSeq) = Visible(history, j, lastSeq)
      BY DEF HistoryInv
    <3> QED BY <1>6, <2>2, <3>1 DEF AddedTo
  <2> QED BY <2>1, <2>2
<1>9. \A d \in history' : d \in Entry /\ d.seq <= lastSeq'
  <2>1. \A d \in history : d.seq \in Nat
    BY <1>5 DEF Entry
  <2> QED BY <1>1, <1>3, <1>4, <1>5, <2>1
<1> QED BY <1>1, <1>2, <1>7, <1>8, <1>9 DEF HistoryKept, HistoryInv

LEMMA PinHistory ==
  ASSUME IInv, HistoryInv, NEW g \in Guards, Pin(g) \/ Unpin(g)
  PROVE  HistoryKept
<1>1. NewSnapshot(g) \/ DropGuard(g)
  BY DEF Pin, Unpin
<1>2. Store' = Store
  BY <1>1, SnapshotIInv
<1>3. history' = history /\ lastSeq' = lastSeq /\ snapshots' \subseteq snapshots \cup {lastSeq}
  BY <1>1 DEF Pin, Unpin, NewSnapshot, DropGuard
<1> QED BY <1>2, <1>3 DEF HistoryKept, HistoryInv

LEMMA CompactHistory ==
  ASSUME IInv, HistoryInv, NEW level \in Levels, CompactFiles(level)
  PROVE  HistoryKept
<1>1. Compact(level) /\ history' = history
  BY DEF CompactFiles
<1>2. snapshots' = snapshots /\ lastSeq' = lastSeq
  BY <1>1 DEF Compact
<1>3. \A k \in Keys, s \in snapshots \cup {lastSeq} :
        Visible(Store', k, s) = Visible(Store, k, s)
  BY <1>1, CompactViews
<1> QED BY <1>1, <1>2, <1>3 DEF HistoryKept, HistoryInv

LEMMA QuietHistory ==
  ASSUME HistoryInv, UNCHANGED <<tree, history>>
  PROVE  HistoryKept
<1>1. Store' = Store /\ history' = history /\ snapshots' = snapshots /\ lastSeq' = lastSeq
  BY DEF tree, Store, EntriesIn, Levels
<1> QED BY <1>1 DEF HistoryKept, HistoryInv

----------------------------------------------------------------------------
(* Iterators, where live handles differ in their numbers *)

\* What an iterator has got, with what the files hold that it has yet to open.
Gathered(q) ==
  q.got \cup EntriesIn({f \in disk : \E level \in Levels : f.num \in q.todo[level]})

\* That shows the history at the number of its handle, which is still alive.
ScanOK(q) ==
  q.pc = "scan" =>
    /\ q.pin \in Guards
    /\ guard[q.pin] = q.seq
    /\ \A k \in Keys : Visible(Gathered(q), k, q.seq) = Visible(history, k, q.seq)

ScanInv ==
  /\ GuardsHeld
  /\ \A r \in Readers : ScanOK(rd[r])
  /\ IteratorShowsSnapshot

\* New files have new numbers: they are none of those an iterator has yet to open.
LEMMA GatheredKept ==
  ASSUME DiskInv, IInv, NEW q, Sound(q), disk \subseteq disk',
         \A f \in disk' \ disk : f.num >= nextNum
  PROVE  Gathered(q)' = Gathered(q)
<1>1. nextNum \in Nat
  BY DEF IInv, TypeOK
<1>2. ASSUME NEW f \in disk' \ disk, NEW level \in Levels, f.num \in q.todo[level]
      PROVE  FALSE
  <2>1. PICK h \in disk : h.num = f.num
    BY <1>2 DEF Sound, Nums
  <2>2. h.num < nextNum /\ h.num \in Nat
    BY DEF DiskInv, File
  <2> QED BY <1>1, <1>2, <2>1, <2>2
<1>3. {f \in disk' : \E level \in Levels : f.num \in q.todo[level]}
        = {f \in disk : \E level \in Levels : f.num \in q.todo[level]}
  BY <1>2
<1> QED BY <1>3 DEF Gathered

\* The tree moves on under an iterator whose handle stays.
LEMMA WorldScan ==
  ASSUME DiskInv, ReadersInv, IInv, HistoryKept, NEW q, Sound(q), ScanOK(q),
         disk \subseteq disk', \A f \in disk' \ disk : f.num >= nextNum,
         q.pc = "scan" => guard'[q.pin] = guard[q.pin]
  PROVE  ScanOK(q)'
<1> SUFFICES ASSUME q.pc = "scan"
             PROVE  /\ guard'[q.pin] = q.seq
                    /\ \A k \in Keys :
                         Visible(Gathered(q)', k, q.seq) = Visible(history', k, q.seq)
  BY DEF ScanOK
<1>1. /\ q.pin \in Guards
      /\ guard[q.pin] = q.seq
      /\ \A k \in Keys : Visible(Gathered(q), k, q.seq) = Visible(history, k, q.seq)
  BY DEF ScanOK
<1>2. q.seq \in Nat
  BY DEF Sound, Reader
<1>3. q.seq \in 0 .. lastSeq
  BY <1>1, <1>2, LsmAssumption DEF IInv, TypeOK, LsmAssumption
<1>4. Gathered(q)' = Gathered(q)
  BY GatheredKept
<1> QED BY <1>1, <1>3, <1>4 DEF HistoryKept

LEMMA WorldScans ==
  ASSUME DiskInv, ReadersInv, IInv, HistoryKept, ScanInv, GuardsHeld',
         rd' = rd, wrong' = wrong,
         disk \subseteq disk', \A f \in disk' \ disk : f.num >= nextNum,
         \A r \in Readers : rd[r].pc = "scan" => guard'[rd[r].pin] = guard[rd[r].pin]
  PROVE  ScanInv'
<1>1. ASSUME NEW r \in Readers PROVE ScanOK(rd[r])'
  <2>1. PICK q : q = rd[r]
    OBVIOUS
  <2>2. Sound(q) /\ ScanOK(q) /\ (q.pc = "scan" => guard'[q.pin] = guard[q.pin])
    BY <2>1 DEF ReadersInv, ScanInv
  <2>3. ScanOK(q)'
    BY <2>2, WorldScan
  <2>4. rd'[r] = q
    BY <2>1
  <2> QED BY <2>3, <2>4 DEF ScanOK, Gathered
<1> QED BY <1>1 DEF ScanInv, IteratorShowsSnapshot

\* A step of reader r.
LEMMA ReaderScan ==
  ASSUME ScanInv, ReadersInv, NEW r \in Readers, ReaderStep(r), ScanOK(rd'[r]),
         UNCHANGED <<tree, history, disk>>, IteratorShowsSnapshot'
  PROVE  ScanInv'
<1>1. \A o \in Readers : ScanOK(rd'[o])
  BY DEF ReaderStep, ScanInv, ReadersInv
<1>2. \A o \in Readers : ScanOK(rd[o])'
  BY <1>1 DEF ScanOK, Gathered, tree
<1>3. GuardsHeld'
  BY DEF ScanInv, GuardsHeld, tree
<1> QED BY <1>2, <1>3 DEF ScanInv

\* A get is no iterator, and what it answers is not about one.
LEMMA GetScan ==
  ASSUME ReadersInv, ScanInv, NEW r \in Readers, GoesOn(r)
  PROVE  ScanOK(rd'[r]) /\ IteratorShowsSnapshot'
<1>0. PICK q \in Reader : q.key \in Keys /\ Resume(r, q)
  BY DEF GoesOn
<1>1. q.key # NoKey
  BY <1>0, LsmAssumption DEF LsmAssumption, NoKey
<1>2. CASE Answer(r, q, RightGet(q))
  <2>1. rd'[r].pc = "idle"
    BY <1>2 DEF Answer, Idle, ReadersInv
  <2>2. IteratorShowsSnapshot'
    BY <1>1, <1>2 DEF Answer, ScanInv, IteratorShowsSnapshot
  <2> QED BY <2>1, <2>2 DEF ScanOK
<1>3. CASE /\ rd' = [rd EXCEPT ![r] = [q EXCEPT !.pc = "lookup", !.todo = Captured(q.todo),
                                                 !.table = {}]]
           /\ UNCHANGED wrong
  <2>1. rd'[r].pc = "lookup"
    BY <1>3 DEF ReadersInv, Reader
  <2>2. IteratorShowsSnapshot'
    BY <1>3 DEF ScanInv, IteratorShowsSnapshot
  <2> QED BY <2>1, <2>2 DEF ScanOK
<1> QED BY <1>0, <1>2, <1>3 DEF Resume

\* What a view at s shows depends on the versions up to s alone.
LEMMA ViewBelow ==
  ASSUME NEW S, NEW T, NEW k, NEW s,
         \A e : e \in S /\ e.seq <= s <=> e \in T /\ e.seq <= s
  PROVE  Visible(S, k, s) = Visible(T, k, s)
BY DEF Visible, Newest

\* An iterator that opens takes the memtable up to its number and every current file.
LEMMA OpenScan ==
  ASSUME IInv, DiskInv, HistoryInv, ReadersInv, ScanInv,
         NEW r \in Readers, NEW g \in Guards, OpenIterator(r, g)
  PROVE  ScanOK(rd'[r]) /\ IteratorShowsSnapshot'
<1> DEFINE todo == [level \in Levels |-> Nums(files[level])]
           got == {e \in mem : e.seq <= guard[g]}
           next == [pc |-> "scan", key |-> NoKey, seq |-> guard[g], pin |-> g, todo |-> todo,
                    table |-> {}, got |-> got, sorted |-> TRUE]
<1>1. rd'[r] = next /\ IteratorShowsSnapshot'
  BY DEF OpenIterator, ReadersInv, ScanInv, IteratorShowsSnapshot
<1>2. /\ next.pc = "scan"
      /\ next.pin = g
      /\ next.seq = guard[g]
      /\ next.got = got
      /\ next.todo = todo
  OBVIOUS
<1>3. {f \in disk : \E level \in Levels : f.num \in todo[level]} = AllFiles
  <2>1. ASSUME NEW f \in disk, NEW level \in Levels, f.num \in todo[level]
        PROVE  f \in AllFiles
    <3>1. PICK h \in files[level] : h.num = f.num
      BY <2>1 DEF Nums
    <3>2. h \in AllFiles
      BY DEF AllFiles
    <3> QED BY <3>1, <3>2 DEF DiskInv
  <2>2. ASSUME NEW f \in AllFiles
        PROVE  f \in disk /\ \E level \in Levels : f.num \in todo[level]
    BY DEF AllFiles, DiskInv, Nums
  <2> HIDE DEF todo
  <2> QED BY <2>1, <2>2
<1>4. Store = mem \cup EntriesIn(AllFiles)
  BY DEF Store, EntriesIn, AllFiles
<1> HIDE DEF todo, next
<1>5. Gathered(next) = got \cup EntriesIn(AllFiles)
  BY <1>2, <1>3 DEF Gathered
<1>6. \A k \in Keys : Visible(Gathered(next), k, guard[g]) = Visible(Store, k, guard[g])
  BY <1>4, <1>5, ViewBelow
<1>7. guard[g] \in snapshots
  BY DEF OpenIterator, ScanInv, GuardsHeld
<1>8. \A k \in Keys : Visible(Gathered(next), k, guard[g]) = Visible(history, k, guard[g])
  BY <1>6, <1>7 DEF HistoryInv
<1> QED BY <1>1, <1>2, <1>8 DEF ScanOK

\* The file it opens goes from what is left to what it has got.
LEMMA SourceScan ==
  ASSUME DiskInv, ReadersInv, ScanInv, NEW r \in Readers, OpenSource(r)
  PROVE  ScanOK(rd'[r]) /\ IteratorShowsSnapshot'
<1>1. IteratorShowsSnapshot'
  BY DEF OpenSource, ScanInv, IteratorShowsSnapshot
<1>2. PICK q \in Reader : q = rd[r]
  BY DEF ReadersInv
<1>3. PICK f \in disk, todo \in [Levels -> SUBSET Nat] :
        /\ \A level \in Levels : /\ todo[level] \subseteq q.todo[level]
                                 /\ q.todo[level] \subseteq todo[level] \cup {f.num}
        /\ \E level \in Levels : f.num \in q.todo[level]
        /\ rd' = [rd EXCEPT ![r] = [q EXCEPT !.todo = todo, !.got = @ \cup f.ents]]
  BY <1>2, SourceSound
<1> DEFINE next == [q EXCEPT !.todo = todo, !.got = q.got \cup f.ents]
<1>4. rd'[r] = next
  BY <1>3 DEF ReadersInv
<1>5. /\ next.pc = q.pc
      /\ next.pin = q.pin
      /\ next.seq = q.seq
      /\ next.todo = todo
      /\ next.got = q.got \cup f.ents
  BY DEF Reader
<1> HIDE DEF next
<1> DEFINE old == {h \in disk : \E level \in Levels : h.num \in q.todo[level]}
           new == {h \in disk : \E level \in Levels : h.num \in todo[level]}
<1>6. f \in old /\ new \subseteq old /\ old \subseteq new \cup {f}
  <2>1. \A h \in disk : h.num = f.num => h = f
    BY DEF DiskInv
  <2> QED BY <1>3, <2>1
<1> HIDE DEF old, new
<1>7. q.got \cup f.ents \cup EntriesIn(new) = q.got \cup EntriesIn(old)
  BY <1>6 DEF EntriesIn
<1>8. Gathered(next) = Gathered(q)
  BY <1>5, <1>7 DEF Gathered, old, new
<1>9. ScanOK(q)
  BY <1>2 DEF ScanInv
<1> QED BY <1>1, <1>4, <1>5, <1>8, <1>9 DEF ScanOK

\* With nothing left to open, what it has got shows the history.
LEMMA ReadyScan ==
  ASSUME ReadersInv, ScanInv, NEW r \in Readers, IteratorReady(r)
  PROVE  ScanOK(rd'[r]) /\ IteratorShowsSnapshot'
<1>1. rd[r].pc = "scan" /\ rd[r].todo = Nothing
  BY DEF IteratorReady
<1>2. Gathered(rd[r]) = rd[r].got
  BY <1>1 DEF Gathered, Nothing, EntriesIn
<1>3. RightSources(rd[r])
  BY <1>1, <1>2 DEF ScanInv, ScanOK, RightSources
<1>4. rd'[r].pc = "idle" /\ wrong' = wrong
  BY <1>3 DEF IteratorReady, Answer, Idle, ReadersInv
<1> QED BY <1>4 DEF ScanOK, ScanInv, IteratorShowsSnapshot

LEMMA ReaderStepsScan ==
  ASSUME IInv, DiskInv, HistoryInv, ReadersInv, ScanInv, NEW r \in Readers,
         \/ \E k \in Keys : Get(r, k) \/ (\E g \in Guards : GetAt(r, k, g))
         \/ \E g \in Guards : OpenIterator(r, g)
         \/ Hit(r) \/ Miss(r) \/ Insert(r)
         \/ OpenSource(r) \/ IteratorReady(r)
  PROVE  HistoryInv' /\ ScanInv'
<1>1. UNCHANGED <<tree, history, disk>>
  BY DEF Get, GetAt, OpenIterator, Hit, Miss, Insert, OpenSource, IteratorReady
<1>2. ReaderStep(r)
  BY ReaderSteps
<1>3. ScanOK(rd'[r]) /\ IteratorShowsSnapshot'
  <2>1. ASSUME NEW k \in Keys, Get(r, k)
        PROVE  ScanOK(rd'[r]) /\ IteratorShowsSnapshot'
    <3>1. lastSeq \in Nat
      BY DEF IInv, TypeOK
    <3> QED BY <2>1, <3>1, SearchGoesOn, GetScan DEF Get
  <2>2. ASSUME NEW k \in Keys, NEW g \in Guards, GetAt(r, k, g)
        PROVE  ScanOK(rd'[r]) /\ IteratorShowsSnapshot'
    <3>1. guard[g] \in Nat
      BY <2>2 DEF GetAt, IInv, TypeOK
    <3> QED BY <2>2, <3>1, SearchGoesOn, GetScan DEF GetAt
  <2>3. ASSUME NEW g \in Guards, OpenIterator(r, g)
        PROVE  ScanOK(rd'[r]) /\ IteratorShowsSnapshot'
    BY <2>3, OpenScan
  <2>4. CASE Hit(r) \/ Miss(r) \/ Insert(r)
    <3>1. CASE GoesOn(r)
      BY <3>1, GetScan
    <3>2. CASE rd'[r].pc = "insert" /\ UNCHANGED wrong
      BY <3>2 DEF ScanOK, ScanInv, IteratorShowsSnapshot
    <3> QED BY <2>4, <3>1, <3>2, GetGoesOn
  <2>5. CASE OpenSource(r)
    BY <2>5, SourceScan
  <2>6. CASE IteratorReady(r)
    BY <2>6, ReadyScan
  <2> QED BY <2>1, <2>2, <2>3, <2>4, <2>5, <2>6
<1>4. HistoryInv'
  BY <1>1, QuietHistory DEF HistoryKept
<1> QED BY <1>1, <1>2, <1>3, <1>4, ReaderScan

LEMMA ReadNextScan ==
  ASSUME IInv, IInv', DiskInv, HistoryInv, ReadersInv, ScanInv, GuardsDiffer,
         [ReadNext]_readVars
  PROVE  HistoryInv' /\ ScanInv'
<1>1. ASSUME NEW k \in Keys, NEW v \in Values \cup {Tombstone}, Put(k, v)
      PROVE  HistoryInv' /\ ScanInv'
  <2>1. HistoryKept
    BY <1>1, PutHistory
  <2>2. disk \subseteq disk' /\ \A f \in disk' \ disk : f.num >= nextNum
    BY <1>1, PutDisk DEF Put
  <2>3. rd' = rd /\ wrong' = wrong /\ guard' = guard /\ snapshots' = snapshots
    BY <1>1 DEF Put, Write, readers
  <2>4. GuardsHeld'
    BY <2>3 DEF ScanInv, GuardsHeld
  <2> QED BY <2>1, <2>2, <2>3, <2>4, WorldScans DEF HistoryKept
<1>2. ASSUME NEW g \in Guards, Pin(g) \/ Unpin(g)
      PROVE  HistoryInv' /\ ScanInv'
  <2>1. HistoryKept
    BY <1>2, PinHistory
  <2>2. disk' = disk /\ rd' = rd /\ wrong' = wrong
    BY <1>2 DEF Pin, Unpin, readers
  <2>3. GuardsHeld'
    BY <1>2, GuardsKept DEF ScanInv, Pin, Unpin
  <2>4. ASSUME NEW r \in Readers, rd[r].pc = "scan"
        PROVE  guard'[rd[r].pin] = guard[rd[r].pin]
    <3>1. rd[r].pin \in Guards /\ guard[rd[r].pin] = rd[r].seq /\ rd[r].seq \in Nat
      BY <2>4 DEF ScanInv, ScanOK, ReadersInv, Reader
    <3>2. rd[r].pin # g
      <4>1. CASE Pin(g)
        BY <3>1, <4>1, LsmAssumption DEF Pin, NewSnapshot, LsmAssumption
      <4>2. CASE Unpin(g)
        BY <4>2 DEF Unpin, Unused
      <4> QED BY <1>2, <4>1, <4>2
    <3>3. guard \in [Guards -> (0 .. lastSeq) \cup {NoSnapshot}]
      BY DEF IInv, TypeOK
    <3> QED BY <1>2, <3>1, <3>2, <3>3 DEF Pin, Unpin, NewSnapshot, DropGuard
  <2> QED BY <2>1, <2>2, <2>3, <2>4, WorldScans DEF HistoryKept
<1>3. ASSUME NEW level \in Levels, CompactFiles(level)
      PROVE  HistoryInv' /\ ScanInv'
  <2>1. HistoryKept
    BY <1>3, CompactHistory
  <2>2. disk \subseteq disk' /\ \A f \in disk' \ disk : f.num >= nextNum
    BY <1>3, CompactDisk DEF CompactFiles, Retained
  <2>3. rd' = rd /\ wrong' = wrong /\ guard' = guard /\ snapshots' = snapshots
    BY <1>3 DEF CompactFiles, Compact, readers
  <2>4. GuardsHeld'
    BY <2>3 DEF ScanInv, GuardsHeld
  <2> QED BY <2>1, <2>2, <2>3, <2>4, WorldScans DEF HistoryKept
<1>4. CASE UNCHANGED <<tree, history, disk, readers>>
  <2>1. HistoryKept
    BY <1>4, QuietHistory
  <2>2. disk' = disk /\ rd' = rd /\ wrong' = wrong /\ guard' = guard /\ snapshots' = snapshots
    BY <1>4 DEF tree, readers
  <2>3. GuardsHeld'
    BY <2>2 DEF ScanInv, GuardsHeld
  <2> QED BY <2>1, <2>2, <2>3, WorldScans DEF HistoryKept
<1>5. ASSUME NEW n \in evicting, Evict(n)
      PROVE  UNCHANGED <<tree, history, disk, readers>>
  BY <1>5 DEF Evict
<1>6. CASE UNCHANGED readVars
  BY <1>4, <1>6 DEF readVars
<1> QED BY <1>1, <1>2, <1>3, <1>4, <1>5, <1>6, ReaderStepsScan DEF ReadNext

LEMMA InitScan == ReadInit => HistoryInv /\ ScanInv
<1> SUFFICES ASSUME ReadInit PROVE HistoryInv /\ ScanInv
  OBVIOUS
<1>1. Store = {}
  BY DEF ReadInit, Init, Store, EntriesIn, Levels
<1>2. HistoryInv
  BY <1>1 DEF ReadInit, HistoryInv
<1>3. ScanInv
  BY DEF ReadInit, Init, ScanInv, GuardsHeld, ScanOK, Idle, IteratorShowsSnapshot
<1> QED BY <1>2, <1>3

\* An iterator shows every key as it was when its snapshot was taken, whatever is written,
\* flushed and compacted between the taking, the opening and the last source, as long as
\* no two live handles have the same number (new_iterator_at, create_sst_iterator).
THEOREM IteratorsShowSnapshots ==
  CutsAreSafe => (ReadSpec /\ []GuardsDiffer => []IteratorShowsSnapshot)
<1> SUFFICES ASSUME CutsAreSafe
             PROVE  ReadSpec /\ []GuardsDiffer => []IteratorShowsSnapshot
  OBVIOUS
<1>1. ReadInit => HistoryInv /\ ScanInv
  BY InitScan
<1>2. /\ IInv /\ IInv' /\ DiskInv /\ ReadersInv /\ GuardsDiffer
      /\ HistoryInv /\ ScanInv
      /\ [ReadNext]_readVars
      => (HistoryInv /\ ScanInv)'
  BY ReadNextScan
<1>3. ScanInv => IteratorShowsSnapshot
  BY DEF ScanInv
<1> QED BY <1>1, <1>2, <1>3, TreeInvariant, ReadersStaySound, PTL DEF ReadSpec

----------------------------------------------------------------------------
(* Point reads beside writers and compactions *)

\* The files a get has yet to look into.
LeftIn(q, level) == {f \in disk : f.num \in q.todo[level]}

\* Which of them is looked into before which.
SearchedBefore(i, f, j, g) == i < j \/ (i = j /\ f.num > g.num)

\* What is looked into earlier is newer.
NewerFirst(q) ==
  \A i, j \in Levels : \A f \in LeftIn(q, i), g \in LeftIn(q, j) :
    SearchedBefore(i, f, j, g) =>
      \A a \in f.ents, b \in g.ents : a.key = q.key /\ b.key = q.key => a.seq > b.seq

\* What a get has yet to look into shows the answer, and it has found nothing so far; what
\* it has opened is the file it looks into next.
GetOK(q) ==
  q.pc \in {"lookup", "insert"} =>
    /\ q.got = {}
    /\ q.todo # Nothing
    /\ q.seq \in 0 .. lastSeq
    /\ \A f \in q.table : f.num = NextFile(q.todo)
    /\ q.sorted =>
         /\ Visible(Gathered(q), q.key, q.seq) = Visible(history, q.key, q.seq)
         /\ NewerFirst(q)

GetInv ==
  /\ \A r \in Readers : GetOK(rd[r])
  /\ GetReturnsCaptured

\* Numbers in the directory are bounded, so of those left on a level one is the largest.
LEMMA NextIsLargest ==
  ASSUME IInv, DiskInv, NEW q, Sound(q), q.todo # Nothing
  PROVE  /\ Top(q.todo) \in Levels
         /\ \A above \in 0 .. Top(q.todo) - 1 : q.todo[above] = {}
         /\ NextFile(q.todo) \in q.todo[Top(q.todo)]
         /\ \A m \in q.todo[Top(q.todo)] : m <= NextFile(q.todo)
<1> USE LsmAssumption DEF LsmAssumption
<1>1. PICK todo \in [Levels -> SUBSET Nat] : todo = q.todo
  BY DEF Sound, Reader
<1> DEFINE A == {level \in Levels : todo[level] # {}}
<1>2. A \in SUBSET Nat /\ A # {}
  <2>1. todo # Nothing
    BY <1>1
  <2> QED BY <2>1 DEF Levels, Nothing
<1>3. PICK m \in A : \A a \in A : m <= a
  <2> HIDE DEF A
  <2> QED BY <1>2, MinExists
<1>4. \A above \in 0 .. m - 1 : above \in Levels /\ above < m
  BY DEF Levels
<1>5. m \in Levels /\ todo[m] # {} /\ \A above \in 0 .. m - 1 : todo[above] = {}
  BY <1>2, <1>3, <1>4
<1> HIDE DEF A
<1>6. /\ Top(todo) \in Levels
      /\ todo[Top(todo)] # {}
      /\ \A above \in 0 .. Top(todo) - 1 : todo[above] = {}
  BY <1>5 DEF Top
<1>7. PICK N \in SUBSET Nat : N = todo[Top(todo)]
  BY <1>6
<1>8. /\ nextNum \in Nat
      /\ \A n \in N : n <= nextNum
  <2>1. nextNum \in Nat
    BY DEF IInv, TypeOK
  <2>2. \A f \in disk : f.num \in Nat /\ f.num < nextNum
    BY DEF DiskInv, File
  <2>3. N \subseteq Nums(disk)
    BY <1>1, <1>6, <1>7 DEF Sound
  <2> QED BY <2>1, <2>2, <2>3 DEF Nums
<1>9. IsFiniteSet(N)
  BY <1>8, FS_BoundedSetOfNaturals
<1>10. \E n \in N : \A l \in N : l <= n
  BY <1>6, <1>7, <1>9, MaxExists
<1> QED BY <1>1, <1>6, <1>7, <1>10 DEF NextFile

\* With sorted lists a search takes along every version of its key that a level has.
LEMMA ProbesHold ==
  ASSUME IInv, ListsSorted, NEW level \in Levels, NEW k \in Keys, NEW F \in Probes(level, k),
         NEW e \in EntriesIn(files[level]), e.key = k
  PROVE  e \in EntriesIn(F)
<1>1. CASE level = 0
  BY <1>1 DEF Probes
<1>2. CASE level # 0
  <2>1. PICK f \in files[level] : e \in f.ents
    BY DEF EntriesIn
  <2>2. F = {f}
    BY <1>2, <2>1, SearchLands
  <2> QED BY <2>1, <2>2 DEF EntriesIn
<1> QED BY <1>1, <1>2

LEMMA ProbesFew ==
  ASSUME NEW level \in Levels, NEW k \in Keys, NEW F \in Probes(level, k)
  PROVE  /\ F \subseteq files[level]
         /\ level # 0 => \A f, g \in F : f = g
BY DEF Probes, MayLandOn

\* The answer of a get, if it has one, is right; and if it has none, then what is left
\* has it.
Promising(q) ==
  /\ q.seq \in 0 .. lastSeq
  /\ q.sorted =>
       IF q.got = {}
         THEN /\ Visible(Gathered(q), q.key, q.seq) = Visible(history, q.key, q.seq)
              /\ NewerFirst(q)
         ELSE {e \in q.got : e.val # Tombstone} = Visible(history, q.key, q.seq)

LEMMA ResumeGet ==
  ASSUME ReadersInv, GetInv, NEW r \in Readers, NEW q \in Reader, Promising(q), Resume(r, q)
  PROVE  GetOK(rd'[r]) /\ GetReturnsCaptured'
<1>1. ASSUME q.got # {} \/ q.todo = Nothing
      PROVE  RightGet(q)
  <2>1. CASE q.got # {}
    BY <2>1 DEF Promising, RightGet
  <2>2. CASE q.got = {} /\ q.todo = Nothing
    <3>1. Gathered(q) = {}
      BY <2>2 DEF Gathered, Nothing, EntriesIn
    <3>2. Visible({}, q.key, q.seq) = {}
      BY DEF Visible, Newest
    <3> QED BY <2>2, <3>1, <3>2 DEF Promising, RightGet
  <2> QED BY <1>1, <2>1, <2>2
<1>2. CASE (q.got # {} \/ q.todo = Nothing) /\ Answer(r, q, RightGet(q))
  <2>1. rd'[r].pc = "idle" /\ wrong' = wrong
    BY <1>1, <1>2 DEF Answer, Idle, ReadersInv
  <2> QED BY <2>1 DEF GetOK, GetInv, GetReturnsCaptured
<1> DEFINE next == [q EXCEPT !.pc = "lookup", !.todo = Captured(q.todo), !.table = {}]
<1>3. CASE /\ q.got = {} /\ q.todo # Nothing
           /\ rd' = [rd EXCEPT ![r] = next]
           /\ UNCHANGED wrong
  <2>1. /\ next.todo = q.todo
        /\ next.table = {}
        /\ next.got = q.got
        /\ next.key = q.key
        /\ next.seq = q.seq
        /\ next.sorted = q.sorted
    BY DEF Reader, Captured
  <2>2. rd'[r] = next
    BY <1>3 DEF ReadersInv
  <2> HIDE DEF next
  <2>3. Gathered(next) = Gathered(q) /\ (NewerFirst(q) => NewerFirst(next))
    BY <2>1 DEF Gathered, NewerFirst, LeftIn
  <2>4. GetOK(next)
    BY <1>3, <2>1, <2>3 DEF Promising, GetOK
  <2> QED BY <1>3, <2>2, <2>4 DEF GetInv, GetReturnsCaptured
<1> QED BY <1>2, <1>3 DEF Resume, Captured

\* The file looked into next has the newest version of all that are left, or none.
LEMMA ProbePromises ==
  ASSUME IInv, DiskInv, NEW q \in Reader, Sound(q), GetOK(q), q.pc \in {"lookup", "insert"},
         NEW f \in disk, f.num = NextFile(q.todo), NEW next \in Reader,
         next = [q EXCEPT !.todo = [q.todo EXCEPT ![Top(q.todo)] = q.todo[Top(q.todo)] \ {f.num}],
                          !.got = Newest(f.ents, q.key, q.seq)]
  PROVE  Promising(next)
<1>1. /\ q.got = {}
      /\ q.todo # Nothing
      /\ q.seq \in 0 .. lastSeq
      /\ q.key \in Keys
      /\ q.todo \in [Levels -> SUBSET Nat]
  BY DEF GetOK, Sound, Reader
<1> DEFINE top == Top(q.todo)
           todo == [q.todo EXCEPT ![top] = q.todo[top] \ {f.num}]
           k == q.key
           s == q.seq
<1>2. /\ next.key = k /\ next.seq = s /\ next.sorted = q.sorted
      /\ next.got = Newest(f.ents, k, s)
      /\ next.todo = todo
  BY DEF Reader
<1>3. /\ top \in Levels
      /\ \A above \in 0 .. top - 1 : q.todo[above] = {}
      /\ f.num \in q.todo[top]
      /\ \A m \in q.todo[top] : m <= f.num
  BY <1>1, NextIsLargest
<1>4. \A level \in Levels : /\ todo[level] \subseteq q.todo[level]
                            /\ q.todo[level] \subseteq todo[level] \cup {f.num}
  BY <1>1
<1> HIDE DEF top, todo
<1> SUFFICES ASSUME q.sorted
             PROVE  IF next.got = {}
                      THEN /\ Visible(Gathered(next), k, s) = Visible(history, k, s)
                           /\ NewerFirst(next)
                      ELSE {e \in next.got : e.val # Tombstone} = Visible(history, k, s)
  BY <1>1, <1>2 DEF Promising
<1>5. Visible(Gathered(q), k, s) = Visible(history, k, s) /\ NewerFirst(q)
  BY DEF GetOK
<1>6. NewerFirst(next)
  <2>1. \A level \in Levels : LeftIn(next, level) \subseteq LeftIn(q, level)
    BY <1>2, <1>4 DEF LeftIn
  <2> QED BY <1>2, <1>5, <2>1 DEF NewerFirst
<1> DEFINE old == {h \in disk : \E level \in Levels : h.num \in q.todo[level]}
           new == {h \in disk : \E level \in Levels : h.num \in todo[level]}
<1>7. f \in old /\ new \subseteq old /\ old \subseteq new \cup {f}
  <2>1. \A h \in disk : h.num = f.num => h = f
    BY DEF DiskInv
  <2> QED BY <1>3, <1>4, <2>1
<1>8. Gathered(q) = EntriesIn(old)
  BY <1>1 DEF Gathered
<1>9. \A h \in old : h \in File
  BY DEF DiskInv
<1>10. \A d \in EntriesIn(old) : d.seq \in Nat
  BY <1>9 DEF EntriesIn, File, Entry
<1>11. ASSUME NEW h \in old, h # f, NEW a \in f.ents, NEW b \in h.ents, a.key = k, b.key = k
       PROVE  a.seq > b.seq
  <2>1. PICK level \in Levels : h.num \in q.todo[level]
    OBVIOUS
  <2>2. f.num \in Nat /\ h.num \in Nat /\ h.num # f.num
    BY <1>11 DEF DiskInv, File
  <2>3. level \in Nat /\ top \in Nat
    BY <1>3 DEF Levels
  <2>4. top <= level
    <3>1. level < top => level \in 0 .. top - 1
      BY <2>3
    <3> QED BY <1>3, <2>1, <2>3, <3>1
  <2>5. SearchedBefore(top, f, level, h)
    BY <1>3, <2>1, <2>2, <2>3, <2>4 DEF SearchedBefore
  <2>6. f \in LeftIn(q, top) /\ h \in LeftIn(q, level)
    BY <1>3, <2>1 DEF LeftIn
  <2> QED BY <1>3, <1>5, <1>11, <2>5, <2>6 DEF NewerFirst
<1>12. CASE next.got = {}
  <2>1. Gathered(next) = EntriesIn(new)
    BY <1>2, <1>12 DEF Gathered
  <2>2. \A e : e \in EntriesIn(new) => e \in EntriesIn(old)
    BY <1>7 DEF EntriesIn
  <2>3. ASSUME NEW e \in EntriesIn(old), e.key = k, e.seq <= s
        PROVE  e \in EntriesIn(new)
    <3>1. PICK h \in old : e \in h.ents
      BY DEF EntriesIn
    <3>2. h # f
      <4>1. f.ents \in SUBSET Entry
        BY DEF DiskInv, File
      <4>2. s \in Nat
        BY <1>1, <1>2 DEF Reader
      <4> QED BY <1>1, <1>2, <1>12, <2>3, <3>1, <4>1, <4>2, NewestExists
    <3> QED BY <1>7, <3>1, <3>2 DEF EntriesIn
  <2> HIDE DEF old, new
  <2>4. Newest(EntriesIn(new), k, s) = Newest(EntriesIn(old), k, s)
    BY <2>2, <2>3 DEF Newest
  <2> QED BY <1>5, <1>6, <1>8, <1>12, <2>1, <2>4 DEF Visible
<1>13. CASE next.got # {}
  <2>1. PICK d \in f.ents : d.key = k /\ d.seq <= s
    BY <1>2, <1>13 DEF Newest
  <2>2. ASSUME NEW e \in Newest(f.ents, k, s)
        PROVE  e \in Newest(EntriesIn(old), k, s)
    <3>1. e \in f.ents /\ e.key = k /\ e.seq <= s /\ e \in EntriesIn(old)
      BY <1>7 DEF Newest, EntriesIn
    <3>2. ASSUME NEW b \in EntriesIn(old), b.key = k, b.seq <= s
          PROVE  b.seq <= e.seq
      <4>1. PICK h \in old : b \in h.ents
        BY DEF EntriesIn
      <4>2. CASE h = f
        BY <3>2, <4>1, <4>2 DEF Newest
      <4>3. CASE h # f
        BY <1>10, <1>11, <3>1, <3>2, <4>1, <4>3
      <4> QED BY <4>2, <4>3
    <3> HIDE DEF old
    <3> QED BY <3>1, <3>2 DEF Newest
  <2>3. ASSUME NEW e \in Newest(EntriesIn(old), k, s)
        PROVE  e \in Newest(f.ents, k, s)
    <3>1. e \in EntriesIn(old) /\ e.key = k /\ e.seq <= s
      BY DEF Newest
    <3>2. d \in EntriesIn(old)
      BY <1>7, <2>1 DEF EntriesIn
    <3>3. d.seq <= e.seq
      BY <2>1, <3>2 DEF Newest
    <3>4. PICK h \in old : e \in h.ents
      BY <3>1 DEF EntriesIn
    <3>5. h = f
      BY <1>10, <1>11, <2>1, <3>1, <3>2, <3>3, <3>4
    <3>6. \A b \in f.ents : b \in EntriesIn(old)
      BY <1>7 DEF EntriesIn
    <3> HIDE DEF old
    <3> QED BY <3>1, <3>4, <3>5, <3>6 DEF Newest
  <2>4. Newest(f.ents, k, s) = Newest(EntriesIn(old), k, s)
    BY <2>2, <2>3
  <2> QED BY <1>2, <1>5, <1>8, <1>13, <2>4 DEF Visible
<1> QED BY <1>12, <1>13, <1>6

\* What the search takes along holds every version of the key that the levels have.
LEMMA SearchCovers ==
  ASSUME IInv, DiskInv, ListsSorted, NEW k \in Keys, NEW s \in Nat, NEW todo \in Searches(k)
  PROVE  Newest(EntriesIn({f \in disk : \E level \in Levels : f.num \in todo[level]}), k, s)
           = Newest(EntriesIn(AllFiles), k, s)
<1> DEFINE left == {f \in disk : \E level \in Levels : f.num \in todo[level]}
<1>1. left \subseteq AllFiles
  <2>1. ASSUME NEW f \in left PROVE f \in AllFiles
    <3>1. PICK level \in Levels : f.num \in todo[level]
      OBVIOUS
    <3>2. f.num \in Nums(AllFiles)
      BY <3>1 DEF Searches
    <3>3. PICK g \in AllFiles : g.num = f.num
      BY <3>2 DEF Nums
    <3> QED BY <3>3 DEF DiskInv
  <2> QED BY <2>1
<1>2. ASSUME NEW e \in EntriesIn(AllFiles), e.key = k
      PROVE  e \in EntriesIn(left)
  <2>1. PICK level \in Levels : e \in EntriesIn(files[level])
    BY DEF EntriesIn, AllFiles
  <2>2. PICK F \in Probes(level, k) : todo[level] = Nums(F)
    BY DEF Searches
  <2>3. PICK f \in F : e \in f.ents
    BY <1>2, <2>1, <2>2, ProbesHold DEF EntriesIn
  <2>4. f \in AllFiles
    BY <2>2, ProbesFew DEF AllFiles
  <2>5. f \in left
    BY <2>2, <2>3, <2>4 DEF Nums, DiskInv
  <2> HIDE DEF left
  <2> QED BY <2>3, <2>5 DEF EntriesIn
<1>3. \A e \in EntriesIn(left) : e \in EntriesIn(AllFiles)
  BY <1>1 DEF EntriesIn
<1> HIDE DEF left
<1>4. Newest(EntriesIn(left), k, s) = Newest(EntriesIn(AllFiles), k, s)
  BY <1>2, <1>3 DEF Newest
<1> QED BY <1>4 DEF left

\* It looks into newer files first.
LEMMA SearchNewerFirst ==
  ASSUME IInv, DiskInv, NEW k \in Keys, NEW q, q.key = k, q.todo \in Searches(k)
  PROVE  NewerFirst(q)
<1> SUFFICES ASSUME NEW i \in Levels, NEW j \in Levels,
                    NEW f \in LeftIn(q, i), NEW g \in LeftIn(q, j), SearchedBefore(i, f, j, g),
                    NEW a \in f.ents, NEW b \in g.ents, a.key = k, b.key = k
             PROVE  a.seq > b.seq
  BY DEF NewerFirst
<1>1. ASSUME NEW level \in Levels, NEW h \in LeftIn(q, level)
      PROVE  /\ h \in files[level]
             /\ level # 0 => \A o \in LeftIn(q, level) : o = h
  <2>1. PICK F \in Probes(level, k) : q.todo[level] = Nums(F)
    BY DEF Searches
  <2>2. \A o \in LeftIn(q, level) : o \in F
    <3>1. ASSUME NEW o \in LeftIn(q, level) PROVE o \in F
      <4>1. o \in disk /\ o.num \in Nums(F)
        BY <2>1 DEF LeftIn
      <4>2. PICK p \in F : p.num = o.num
        BY <4>1 DEF Nums
      <4>3. p \in disk
        BY <2>1, ProbesFew DEF DiskInv, AllFiles
      <4> QED BY <4>1, <4>2, <4>3 DEF DiskInv
    <3> QED BY <3>1
  <2> QED BY <2>1, <2>2, ProbesFew
<1>2. f \in files[i] /\ g \in files[j]
  BY <1>1
<1>3. CASE i < j
  <2>1. a \in EntriesIn(files[i]) /\ b \in EntriesIn(files[j])
    BY <1>2 DEF EntriesIn
  <2> QED BY <1>3, <2>1 DEF IInv, NewerAbove
<1>4. CASE i = j /\ f.num > g.num
  <2>1. f.num \in Nat
    BY <1>2 DEF IInv, TypeOK, File
  <2>2. f # g
    BY <1>4, <2>1
  <2>3. i = 0
    BY <1>1, <1>4, <2>2
  <2> QED BY <1>2, <1>4, <2>3 DEF IInv, NewerAbove
<1> QED BY <1>3, <1>4 DEF SearchedBefore

\* So a get that begins, at the latest view or at one that is registered, finds what
\* the history shows there.
LEMMA BeginPromises ==
  ASSUME IInv, DiskInv, HistoryInv, NEW k \in Keys, NEW s \in snapshots \cup {lastSeq},
         NEW q \in Reader, q.key = k, q.seq = s, q.todo \in Searches(k),
         q.got = Newest(mem, k, s), q.sorted = ListsSorted
  PROVE  Promising(q)
<1>1. s \in Nat /\ s \in 0 .. lastSeq
  <2>1. lastSeq \in Nat /\ snapshots \subseteq 0 .. lastSeq
    BY DEF IInv, TypeOK
  <2>2. CASE s = lastSeq
    BY <2>1, <2>2
  <2>3. CASE s \in snapshots
    BY <2>1, <2>3
  <2> QED BY <2>2, <2>3
<1> SUFFICES ASSUME ListsSorted
             PROVE  IF q.got = {}
                      THEN /\ Visible(Gathered(q), k, s) = Visible(history, k, s)
                           /\ NewerFirst(q)
                      ELSE {e \in q.got : e.val # Tombstone} = Visible(history, k, s)
  BY <1>1 DEF Promising
<1>2. Visible(Store, k, s) = Visible(history, k, s)
  BY DEF HistoryInv
<1>3. Store = mem \cup EntriesIn(AllFiles)
  BY DEF Store, EntriesIn, AllFiles
<1>4. mem \in SUBSET Entry /\ EntriesIn(AllFiles) \in SUBSET Entry
  BY DEF IInv, TypeOK, EntriesIn, AllFiles, File
<1>5. \A e \in Entry : e.seq \in Nat
  BY DEF Entry
<1>6. \A a \in mem, b \in EntriesIn(AllFiles) : a.key = b.key => a.seq > b.seq
  <2>1. \A b \in EntriesIn(AllFiles) : \E level \in Levels : b \in EntriesIn(files[level])
    BY DEF EntriesIn, AllFiles
  <2> QED BY <2>1 DEF IInv, NewerAbove
<1>7. CASE q.got = {}
  <2> DEFINE left == EntriesIn({f \in disk : \E level \in Levels : f.num \in q.todo[level]})
  <2>1. Newest(left, k, s) = Newest(EntriesIn(AllFiles), k, s)
    BY <1>1, SearchCovers
  <2>2. Gathered(q) = left
    BY <1>7 DEF Gathered
  <2> HIDE DEF left
  <2>3. ASSUME NEW d \in mem, d.key = k, d.seq <= s PROVE FALSE
    BY <1>1, <1>4, <1>7, <2>3, NewestExists
  <2>4. Newest(Store, k, s) = Newest(EntriesIn(AllFiles), k, s)
    BY <1>3, <2>3 DEF Newest
  <2>5. NewerFirst(q)
    BY SearchNewerFirst
  <2> QED BY <1>2, <1>7, <2>1, <2>2, <2>4, <2>5 DEF Visible
<1>8. CASE q.got # {}
  <2>1. PICK d \in mem : d.key = k /\ d.seq <= s
    BY <1>8 DEF Newest
  <2>2. ASSUME NEW e \in Newest(mem, k, s)
        PROVE  e \in Newest(Store, k, s)
    <3>1. e \in mem /\ e.key = k /\ e.seq <= s
      BY DEF Newest
    <3>2. ASSUME NEW b \in EntriesIn(AllFiles), b.key = k
          PROVE  b.seq <= e.seq
      <4>1. e.seq > b.seq /\ e.seq \in Nat /\ b.seq \in Nat
        BY <1>4, <1>5, <1>6, <3>1, <3>2
      <4> QED BY <4>1
    <3> QED BY <1>3, <3>1, <3>2 DEF Newest
  <2>3. ASSUME NEW e \in Newest(Store, k, s)
        PROVE  e \in Newest(mem, k, s)
    <3>1. e \in Store /\ e.key = k /\ e.seq <= s
      BY DEF Newest
    <3>2. d.seq <= e.seq
      BY <1>3, <2>1 DEF Newest
    <3>3. e \in mem
      <4>1. CASE e \in EntriesIn(AllFiles)
        <5>1. d.seq > e.seq /\ d.seq \in Nat /\ e.seq \in Nat
          BY <1>4, <1>5, <1>6, <2>1, <3>1, <4>1
        <5> QED BY <3>2, <5>1
      <4> QED BY <1>3, <3>1, <4>1
    <3> QED BY <1>3, <3>1, <3>3 DEF Newest
  <2>4. Newest(mem, k, s) = Newest(Store, k, s)
    BY <2>2, <2>3
  <2> QED BY <1>2, <1>8, <2>4 DEF Visible
<1> QED BY <1>7, <1>8

LEMMA BeginGet ==
  ASSUME IInv, DiskInv, HistoryInv, ReadersInv, GetInv, NEW r \in Readers, NEW k \in Keys,
         NEW s \in snapshots \cup {lastSeq}, NEW g \in Guards \cup {NoSnapshot},
         Begin(r, k, s, g)
  PROVE  GetOK(rd'[r]) /\ GetReturnsCaptured'
<1>1. PICK todo \in Searches(k) :
        Resume(r, [pc |-> "lookup", key |-> k, seq |-> s, pin |-> g, todo |-> todo,
                   table |-> {}, got |-> Newest(mem, k, s), sorted |-> ListsSorted])
  BY DEF Begin
<1>2. todo \in [Levels -> SUBSET Nums(AllFiles)]
  BY DEF Searches
<1>3. Nums(AllFiles) \subseteq Nat
  BY DEF DiskInv, Nums, File
<1>4. Newest(mem, k, s) \subseteq Entry /\ s \in Nat
  <2>1. lastSeq \in Nat /\ snapshots \subseteq 0 .. lastSeq /\ mem \subseteq Entry
    BY DEF IInv, TypeOK
  <2>2. s \in Nat
    <3>1. CASE s = lastSeq
      BY <2>1, <3>1
    <3>2. CASE s \in snapshots
      BY <2>1, <3>2
    <3> QED BY <3>1, <3>2
  <2> QED BY <2>1, <2>2 DEF Newest
<1>5. ListsSorted \in BOOLEAN
  BY DEF ListsSorted
<1> DEFINE q == [pc |-> "lookup", key |-> k, seq |-> s, pin |-> g, todo |-> todo,
                 table |-> {}, got |-> Newest(mem, k, s), sorted |-> ListsSorted]
<1>6. q \in Reader
  BY <1>2, <1>3, <1>4, <1>5 DEF Reader
<1>7. /\ q.key = k
      /\ q.seq = s
      /\ q.todo = todo
      /\ q.got = Newest(mem, k, s)
      /\ q.sorted = ListsSorted
  OBVIOUS
<1>8. Resume(r, q)
  BY <1>1
<1> HIDE DEF q
<1>9. Promising(q)
  BY <1>6, <1>7, BeginPromises
<1> QED BY <1>6, <1>8, <1>9, ResumeGet

\* A probe of the file that is next.
LEMMA ProbeGet ==
  ASSUME IInv, DiskInv, ReadersInv, GetInv, NEW r \in Readers, NEW f \in disk,
         rd[r].pc \in {"lookup", "insert"}, f.num = NextFile(rd[r].todo), Probe(r, f)
  PROVE  GetOK(rd'[r]) /\ GetReturnsCaptured'
<1>1. PICK q \in Reader : q = rd[r]
  BY DEF ReadersInv
<1> DEFINE todo == [q.todo EXCEPT ![Top(q.todo)] = q.todo[Top(q.todo)] \ {f.num}]
           got == Newest(f.ents, q.key, q.seq)
           next == [q EXCEPT !.todo = todo, !.got = got]
<1>2. Resume(r, next)
  BY <1>1 DEF Probe
<1>3. got \subseteq Entry
  BY DEF DiskInv, File, Newest
<1>4. todo \in [Levels -> SUBSET Nat]
  BY DEF Reader
<1>5. next \in Reader
  <2> HIDE DEF todo, got
  <2> QED BY <1>3, <1>4 DEF Reader
<1>6. Sound(q) /\ GetOK(q)
  BY <1>1 DEF ReadersInv, GetInv
<1>7. PICK n \in Reader : n = next
  BY <1>5
<1>8. Promising(n)
  BY <1>1, <1>6, <1>7, ProbePromises
<1> HIDE DEF next
<1> QED BY <1>2, <1>7, <1>8, ResumeGet

\* The tree moves on under a get.
LEMMA WorldGet ==
  ASSUME IInv, DiskInv, HistoryKept, lastSeq' \in Nat, lastSeq' >= lastSeq,
         NEW q, Sound(q), GetOK(q),
         disk \subseteq disk', \A f \in disk' \ disk : f.num >= nextNum
  PROVE  GetOK(q)'
<1> SUFFICES ASSUME q.pc \in {"lookup", "insert"}
             PROVE  GetOK(q)'
  BY DEF GetOK
<1>1. /\ q.got = {}
      /\ q.todo # Nothing
      /\ q.seq \in 0 .. lastSeq
      /\ \A f \in q.table : f.num = NextFile(q.todo)
      /\ q.key \in Keys
  BY DEF GetOK, Sound
<1>2. nextNum \in Nat /\ lastSeq \in Nat
  BY DEF IInv, TypeOK
<1>3. q.seq \in 0 .. lastSeq'
  BY <1>1, <1>2
<1>4. Gathered(q)' = Gathered(q)
  BY GatheredKept
<1>5. Visible(history', q.key, q.seq) = Visible(history, q.key, q.seq)
  BY <1>1 DEF HistoryKept
<1>6. ASSUME NEW f \in disk' \ disk, NEW level \in Levels, f.num \in q.todo[level]
      PROVE  FALSE
  <2>1. PICK h \in disk : h.num = f.num
    BY <1>6 DEF Sound, Nums
  <2>2. h.num < nextNum /\ h.num \in Nat
    BY DEF DiskInv, File
  <2> QED BY <1>2, <1>6, <2>1, <2>2
<1>7. \A level \in Levels : LeftIn(q, level)' = LeftIn(q, level)
  BY <1>6 DEF LeftIn
<1>8. NewerFirst(q) => NewerFirst(q)'
  BY <1>7 DEF NewerFirst
<1>9. q.sorted =>
        /\ Visible(Gathered(q)', q.key, q.seq) = Visible(history', q.key, q.seq)
        /\ NewerFirst(q)'
  BY <1>4, <1>5, <1>8 DEF GetOK
<1> QED BY <1>1, <1>3, <1>9 DEF GetOK

LEMMA WorldGets ==
  ASSUME IInv, DiskInv, ReadersInv, GetInv, HistoryKept, lastSeq' \in Nat, lastSeq' >= lastSeq,
         rd' = rd, wrong' = wrong,
         disk \subseteq disk', \A f \in disk' \ disk : f.num >= nextNum
  PROVE  GetInv'
<1>1. ASSUME NEW r \in Readers PROVE GetOK(rd[r])'
  <2>1. PICK q : q = rd[r]
    OBVIOUS
  <2>2. Sound(q) /\ GetOK(q)
    BY <2>1 DEF ReadersInv, GetInv
  <2>3. GetOK(q)'
    BY <2>2, WorldGet
  <2>4. rd'[r] = q
    BY <2>1
  <2> QED BY <2>3, <2>4 DEF GetOK, Gathered, NewerFirst, LeftIn
<1> QED BY <1>1 DEF GetInv, GetReturnsCaptured

\* A step of reader r.
LEMMA ReaderGet ==
  ASSUME GetInv, ReadersInv, NEW r \in Readers, ReaderStep(r), GetOK(rd'[r]),
         UNCHANGED <<tree, history, disk>>, GetReturnsCaptured'
  PROVE  GetInv'
<1>1. \A o \in Readers : GetOK(rd'[o])
  BY DEF ReaderStep, GetInv, ReadersInv
<1>2. \A o \in Readers : GetOK(rd[o])'
  BY <1>1 DEF GetOK, Gathered, NewerFirst, LeftIn, tree
<1> QED BY <1>2 DEF GetInv

\* The step of a get that has captured its Version: it looks into the file that is next,
\* or has it opened.
LEMMA GetSteps ==
  ASSUME IInv, DiskInv, ReadersInv, GetInv, NEW r \in Readers, Hit(r) \/ Miss(r) \/ Insert(r)
  PROVE  GetOK(rd'[r]) /\ GetReturnsCaptured'
<1>1. CASE Hit(r)
  <2>1. PICK f \in entries : f.num = NextFile(rd[r].todo) /\ Probe(r, f)
    BY <1>1 DEF Hit, CachedTables
  <2>2. f \in disk /\ rd[r].pc \in {"lookup", "insert"}
    BY <1>1 DEF Hit, ReadersInv
  <2> QED BY <2>1, <2>2, ProbeGet
<1>2. CASE Miss(r)
  <2>1. rd[r].pc = "lookup"
    BY <1>2 DEF Miss
  <2>2. PICK f \in disk :
          /\ f.num = NextFile(rd[r].todo)
          /\ \/ Probe(r, f)
             \/ rd' = [rd EXCEPT ![r].pc = "insert", ![r].table = {f}] /\ UNCHANGED wrong
    BY <1>2 DEF Miss
  <2>3. CASE Probe(r, f)
    BY <2>1, <2>2, <2>3, ProbeGet
  <2>4. CASE rd' = [rd EXCEPT ![r].pc = "insert", ![r].table = {f}] /\ UNCHANGED wrong
    <3>1. PICK q \in Reader : q = rd[r]
      BY DEF ReadersInv
    <3> DEFINE next == [q EXCEPT !.pc = "insert", !.table = {f}]
    <3>2. rd'[r] = next
      BY <2>4, <3>1 DEF ReadersInv
    <3>3. /\ next.table = {f}
          /\ next.todo = q.todo
          /\ next.got = q.got
          /\ next.key = q.key
          /\ next.seq = q.seq
          /\ next.sorted = q.sorted
      BY DEF Reader
    <3>4. GetOK(q) /\ q.pc = "lookup"
      BY <2>1, <3>1 DEF GetInv
    <3> HIDE DEF next
    <3>5. Gathered(next) = Gathered(q) /\ (NewerFirst(q) => NewerFirst(next))
      BY <3>3 DEF Gathered, NewerFirst, LeftIn
    <3>6. GetOK(next)
      BY <2>2, <3>1, <3>3, <3>4, <3>5 DEF GetOK
    <3> QED BY <2>4, <3>2, <3>6 DEF GetInv, GetReturnsCaptured
  <2> QED BY <2>2, <2>3, <2>4
<1>3. CASE Insert(r)
  <2>1. PICK f \in rd[r].table : Probe(r, f)
    BY <1>3 DEF Insert
  <2>2. f \in disk /\ rd[r].pc \in {"lookup", "insert"}
    BY <1>3 DEF Insert, ReadersInv, Sound
  <2>3. f.num = NextFile(rd[r].todo)
    BY <2>2 DEF GetInv, GetOK
  <2> QED BY <2>1, <2>2, <2>3, ProbeGet
<1> QED BY <1>1, <1>2, <1>3

LEMMA ReaderStepsGet ==
  ASSUME IInv, DiskInv, HistoryInv, ReadersInv, ScanInv, GetInv, NEW r \in Readers,
         \/ \E k \in Keys : Get(r, k) \/ (\E g \in Guards : GetAt(r, k, g))
         \/ \E g \in Guards : OpenIterator(r, g)
         \/ Hit(r) \/ Miss(r) \/ Insert(r)
         \/ OpenSource(r) \/ IteratorReady(r)
  PROVE  GetInv'
<1>1. UNCHANGED <<tree, history, disk>>
  BY DEF Get, GetAt, OpenIterator, Hit, Miss, Insert, OpenSource, IteratorReady
<1>2. ReaderStep(r)
  BY ReaderSteps
<1>3. GetOK(rd'[r]) /\ GetReturnsCaptured'
  <2>1. ASSUME NEW k \in Keys, Get(r, k)
        PROVE  GetOK(rd'[r]) /\ GetReturnsCaptured'
    BY <2>1, BeginGet DEF Get
  <2>2. ASSUME NEW k \in Keys, NEW g \in Guards, GetAt(r, k, g)
        PROVE  GetOK(rd'[r]) /\ GetReturnsCaptured'
    <3>1. guard[g] \in snapshots
      BY <2>2 DEF GetAt, ScanInv, GuardsHeld
    <3> QED BY <2>2, <3>1, BeginGet DEF GetAt
  <2>3. ASSUME NEW g \in Guards, OpenIterator(r, g)
        PROVE  GetOK(rd'[r]) /\ GetReturnsCaptured'
    <3>1. rd'[r].pc = "scan" /\ wrong' = wrong
      BY <2>3 DEF OpenIterator, ReadersInv
    <3> QED BY <3>1 DEF GetOK, GetInv, GetReturnsCaptured
  <2>4. CASE Hit(r) \/ Miss(r) \/ Insert(r)
    BY <2>4, GetSteps
  <2>5. CASE OpenSource(r)
    <3>1. rd'[r].pc = "scan" /\ wrong' = wrong
      BY <2>5 DEF OpenSource, ReadersInv, Reader
    <3> QED BY <3>1 DEF GetOK, GetInv, GetReturnsCaptured
  <2>6. CASE IteratorReady(r)
    <3>1. rd[r].pc = "scan" /\ rd[r].todo = Nothing
      BY <2>6 DEF IteratorReady
    <3>2. Gathered(rd[r]) = rd[r].got
      BY <3>1 DEF Gathered, Nothing, EntriesIn
    <3>3. RightSources(rd[r])
      BY <3>1, <3>2 DEF ScanInv, ScanOK, RightSources
    <3>4. rd'[r].pc = "idle" /\ wrong' = wrong
      BY <2>6, <3>3 DEF IteratorReady, Answer, Idle, ReadersInv
    <3> QED BY <3>4 DEF GetOK, GetInv, GetReturnsCaptured
  <2> QED BY <2>1, <2>2, <2>3, <2>4, <2>5, <2>6
<1> QED BY <1>1, <1>2, <1>3, ReaderGet

LEMMA ReadNextGet ==
  ASSUME IInv, IInv', DiskInv, HistoryInv, ReadersInv, ScanInv, GetInv, [ReadNext]_readVars
  PROVE  GetInv'
<1>0. lastSeq \in Nat /\ lastSeq' \in Nat
  BY DEF IInv, TypeOK
<1>1. ASSUME NEW k \in Keys, NEW v \in Values \cup {Tombstone}, Put(k, v)
      PROVE  GetInv'
  <2>1. HistoryKept
    BY <1>1, PutHistory
  <2>2. disk \subseteq disk' /\ \A f \in disk' \ disk : f.num >= nextNum
    BY <1>1, PutDisk DEF Put
  <2>3. rd' = rd /\ wrong' = wrong /\ lastSeq' = lastSeq + 1
    BY <1>1 DEF Put, Write, readers
  <2> QED BY <1>0, <2>1, <2>2, <2>3, WorldGets
<1>2. ASSUME NEW g \in Guards, Pin(g) \/ Unpin(g)
      PROVE  GetInv'
  <2>1. HistoryKept
    BY <1>2, PinHistory
  <2>2. disk' = disk /\ rd' = rd /\ wrong' = wrong /\ lastSeq' = lastSeq
    BY <1>2 DEF Pin, Unpin, NewSnapshot, DropGuard, readers
  <2> QED BY <1>0, <2>1, <2>2, WorldGets
<1>3. ASSUME NEW level \in Levels, CompactFiles(level)
      PROVE  GetInv'
  <2>1. HistoryKept
    BY <1>3, CompactHistory
  <2>2. disk \subseteq disk' /\ \A f \in disk' \ disk : f.num >= nextNum
    BY <1>3, CompactDisk DEF CompactFiles, Retained
  <2>3. rd' = rd /\ wrong' = wrong /\ lastSeq' = lastSeq
    BY <1>3 DEF CompactFiles, Compact, readers
  <2> QED BY <1>0, <2>1, <2>2, <2>3, WorldGets
<1>4. CASE UNCHANGED <<tree, history, disk, readers>>
  <2>1. HistoryKept
    BY <1>4, QuietHistory
  <2>2. disk' = disk /\ rd' = rd /\ wrong' = wrong /\ lastSeq' = lastSeq
    BY <1>4 DEF tree, readers
  <2> QED BY <1>0, <2>1, <2>2, WorldGets
<1>5. ASSUME NEW n \in evicting, Evict(n)
      PROVE  UNCHANGED <<tree, history, disk, readers>>
  BY <1>5 DEF Evict
<1>6. CASE UNCHANGED readVars
  BY <1>4, <1>6 DEF readVars
<1> QED BY <1>1, <1>2, <1>3, <1>4, <1>5, <1>6, ReaderStepsGet DEF ReadNext

\* Db::get and get_at return the newest version of the key as of the moment they held the
\* mutex: writes, flushes, compactions, evictions and the insertions of other threads
\* change nothing of it while they look into their files, as long as no two live handles
\* have the same number (get_from_sstables, TableCache::get).
THEOREM GetsReturnCaptured ==
  CutsAreSafe => (ReadSpec /\ []GuardsDiffer => []GetReturnsCaptured)
<1> SUFFICES ASSUME CutsAreSafe
             PROVE  ReadSpec /\ []GuardsDiffer => []GetReturnsCaptured
  OBVIOUS
<1>1. ReadInit => HistoryInv /\ ScanInv /\ GetInv
  <2>1. ReadInit => GetInv
    BY DEF ReadInit, GetInv, GetOK, Idle, GetReturnsCaptured
  <2> QED BY <2>1, InitScan
<1>2. /\ IInv /\ IInv' /\ DiskInv /\ ReadersInv /\ GuardsDiffer
      /\ HistoryInv /\ ScanInv /\ GetInv
      /\ [ReadNext]_readVars
      => (HistoryInv /\ ScanInv /\ GetInv)'
  BY ReadNextScan, ReadNextGet
<1>3. GetInv => GetReturnsCaptured
  BY DEF GetInv
<1> QED BY <1>1, <1>2, <1>3, TreeInvariant, ReadersStaySound, PTL DEF ReadSpec
=============================================================================
