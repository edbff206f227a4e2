--------------------------- MODULE LsmTreeProofs ---------------------------
(***************************************************************************)
(* Proofs about LsmTree for every set of keys, values and guards, every    *)
(* number of levels and every number of writes.                            *)
(***************************************************************************)
EXTENDS LsmTree, NumberLemmas

----------------------------------------------------------------------------
(* What a reader sees of a set of entries *)

\* Taking T for S changes no view at s when every entry that is gone was shadowed at s,
\* or was a Delete with nothing older behind it.
LEMMA VisibleKept ==
  ASSUME NEW S \in SUBSET Entry, NEW T \in SUBSET S, NEW k \in Keys, NEW s \in Nat,
         \A e \in S \ T :
           \/ \E d \in S : d.key = e.key /\ d.seq > e.seq /\ d.seq <= s
           \/ e.val = Tombstone /\ \A x \in T : x.key = e.key => x.seq > e.seq
  PROVE  Visible(T, k, s) = Visible(S, k, s)
<1> USE DEF Visible, Newest, Entry
<1>1. ASSUME NEW e \in Visible(T, k, s) PROVE e \in Visible(S, k, s)
  <2> DEFINE A == {f.seq : f \in {g \in S : g.key = k /\ g.seq <= s}}
  <2>1. A \in SUBSET (0 .. s) /\ A # {} /\ e.seq \in A
    BY <1>1
  <2>2. PICK m \in A : \A a \in A : a <= m
    <3> HIDE DEF A
    <3>1. IsFiniteSet(0 .. s)
      BY FS_Interval
    <3>2. A \in SUBSET Nat
      BY <2>1
    <3>3. IsFiniteSet(A)
      BY <2>1, <3>1, FS_Subset
    <3> QED BY <2>1, <3>2, <3>3, MaxExists
  <2>3. PICK f \in S : f.key = k /\ f.seq <= s /\ f.seq = m
    OBVIOUS
  <2>4. \A g \in S : g.key = k /\ g.seq <= s => g.seq <= f.seq
    BY <2>2, <2>3
  <2>5. f \in T
    <3> SUFFICES ASSUME f \notin T PROVE FALSE
      OBVIOUS
    <3>1. ~ \E d \in S : d.key = f.key /\ d.seq > f.seq /\ d.seq <= s
      BY <2>3, <2>4
    <3>2. \A x \in T : x.key = k => x.seq > f.seq
      BY <2>3, <3>1
    <3>3. e \in T /\ e \in S /\ e.key = k /\ e.seq <= s
      BY <1>1
    <3> QED BY <3>2, <3>3, <2>4
  <2>6. f.seq <= e.seq
    BY <1>1, <2>3, <2>5
  <2> QED BY <1>1, <2>3, <2>4, <2>6
<1>2. ASSUME NEW e \in Visible(S, k, s) PROVE e \in Visible(T, k, s)
  <2>1. e \in T
    BY <1>2
  <2> QED BY <1>2, <2>1
<1> QED BY <1>1, <1>2

----------------------------------------------------------------------------
(* How the output of a merge is cut into files *)

\* A sequence number is given to one write.
SeqsDistinct(S) == \A a, b \in S : a.seq = b.seq => a = b

\* No cut separates two versions of a key.
CutsBetweenKeys(K, C) == \A c \in C, e \in K : Before(e, c) => e.key # c.key

CutsUpTo(C, e) == {c \in C : c = e \/ Before(c, e)}

\* An entry that goes to an earlier output file has a smaller user key.
LEMMA SegmentKeys ==
  ASSUME NEW K \in SUBSET Entry, IsFiniteSet(K), SeqsDistinct(K),
         NEW C \in SUBSET K, CutsBetweenKeys(K, C),
         NEW x \in K, NEW y \in K, Segment(C, x) < Segment(C, y)
  PROVE  x.key < y.key
<1> USE LsmAssumption DEF LsmAssumption, Entry
<1>0. \A e \in K : e.key \in Nat /\ e.seq \in Nat
  OBVIOUS
<1>1. IsFiniteSet(CutsUpTo(C, x)) /\ IsFiniteSet(CutsUpTo(C, y))
  BY FS_Subset DEF CutsUpTo
<1>2. /\ Segment(C, x) = Cardinality(CutsUpTo(C, x))
      /\ Segment(C, y) = Cardinality(CutsUpTo(C, y))
      /\ Segment(C, x) \in Nat
      /\ Segment(C, y) \in Nat
  BY <1>1, FS_CardinalityType DEF Segment, CutsUpTo
<1>3. ~ (CutsUpTo(C, y) \subseteq CutsUpTo(C, x))
  BY <1>1, <1>2, FS_Subset
<1>4. PICK c \in C : (c = y \/ Before(c, y)) /\ c # x /\ ~ Before(c, x)
  BY <1>3 DEF CutsUpTo
<1>5. Before(x, c)
  <2>1. c.seq # x.seq
    BY <1>4 DEF SeqsDistinct
  <2> QED BY <1>0, <1>4, <2>1 DEF Before
<1>6. x.key # c.key
  BY <1>5 DEF CutsBetweenKeys
<1> QED BY <1>0, <1>4, <1>5, <1>6 DEF Before

\* Two output files span disjoint intervals of user keys.
LEMMA OutputsDisjoint ==
  ASSUME NEW K \in SUBSET Entry, IsFiniteSet(K), SeqsDistinct(K), nextNum \in Nat,
         NEW C \in SUBSET K, CutsBetweenKeys(K, C),
         NEW f \in OutputFiles(K, C), NEW g \in OutputFiles(K, C), f # g
  PROVE  ~ Overlap(KeysIn(f.ents), KeysIn(g.ents))
<1> USE LsmAssumption DEF LsmAssumption, Entry
<1>1. PICK d \in K : f = [num |-> nextNum + Segment(C, d),
                         ents |-> {x \in K : Segment(C, x) = Segment(C, d)}]
  BY DEF OutputFiles
<1>2. PICK e \in K : g = [num |-> nextNum + Segment(C, e),
                         ents |-> {x \in K : Segment(C, x) = Segment(C, e)}]
  BY DEF OutputFiles
<1>3. Segment(C, d) # Segment(C, e)
  BY <1>1, <1>2
<1>4. \A x \in K : Segment(C, x) \in Nat
  BY FS_Subset, FS_CardinalityType DEF Segment
<1>5. \A a \in f.ents : a \in K /\ Segment(C, a) = Segment(C, d)
  BY <1>1
<1>6. \A b \in g.ents : b \in K /\ Segment(C, b) = Segment(C, e)
  BY <1>2
<1>7. CASE Segment(C, d) < Segment(C, e)
  <2>1. \A a \in f.ents, b \in g.ents : a.key < b.key
    BY <1>5, <1>6, <1>7, SegmentKeys
  <2>2. \A a \in f.ents, b \in g.ents : a.key \in Nat /\ b.key \in Nat
    BY <1>5, <1>6
  <2> QED BY <2>1, <2>2 DEF Overlap, KeysIn
<1>8. CASE Segment(C, e) < Segment(C, d)
  <2>1. \A a \in f.ents, b \in g.ents : b.key < a.key
    BY <1>5, <1>6, <1>8, SegmentKeys
  <2>2. \A a \in f.ents, b \in g.ents : a.key \in Nat /\ b.key \in Nat
    BY <1>5, <1>6
  <2> QED BY <2>1, <2>2 DEF Overlap, KeysIn
<1> QED BY <1>3, <1>4, <1>7, <1>8

\* The output files are finite in number, each is well formed and takes a fresh number,
\* different files have different numbers, and together they hold exactly K.
LEMMA OutputsWellFormed ==
  ASSUME NEW K \in SUBSET Entry, IsFiniteSet(K), nextNum \in Nat, NEW C \in SUBSET K
  PROVE  /\ OutputFiles(K, C) \in SUBSET File
         /\ IsFiniteSet(OutputFiles(K, C))
         /\ Cardinality(C) \in Nat
         /\ \A f \in OutputFiles(K, C) :
              /\ f.num >= nextNum
              /\ f.num <= nextNum + Cardinality(C)
              /\ f.ents # {}
              /\ f.ents \subseteq K
              /\ IsFiniteSet(f.ents)
         /\ \A f, g \in OutputFiles(K, C) : f.num = g.num => f = g
         /\ EntriesIn(OutputFiles(K, C)) = K
<1> DEFINE FileOf(e) == [num  |-> nextNum + Segment(C, e),
                         ents |-> {d \in K : Segment(C, d) = Segment(C, e)}]
           fileOf == [e \in K |-> FileOf(e)]
<1>1. IsFiniteSet(C) /\ Cardinality(C) \in Nat
  BY FS_Subset, FS_CardinalityType
<1>2. \A e \in K : Segment(C, e) \in Nat /\ Segment(C, e) <= Cardinality(C)
  BY <1>1, FS_Subset, FS_CardinalityType DEF Segment
<1>3. OutputFiles(K, C) = {FileOf(e) : e \in K}
  BY DEF OutputFiles
<1>4. IsFiniteSet(OutputFiles(K, C))
  <2>1. fileOf \in Surjection(K, OutputFiles(K, C))
    BY <1>3 DEF Surjection
  <2> QED BY <2>1, FS_Surjection
<1>5. \A e \in K : /\ FileOf(e) \in File
                   /\ FileOf(e).ents # {}
                   /\ FileOf(e).ents \subseteq K
                   /\ IsFiniteSet(FileOf(e).ents)
  <2> TAKE e \in K
  <2>1. e \in FileOf(e).ents /\ FileOf(e).ents \subseteq K
    OBVIOUS
  <2>2. IsFiniteSet(FileOf(e).ents)
    BY FS_Subset
  <2> QED BY <1>2, <2>1, <2>2 DEF File
<1>6. \A f \in OutputFiles(K, C) : f.num >= nextNum /\ f.num <= nextNum + Cardinality(C)
  BY <1>1, <1>2, <1>3
<1>7. \A f, g \in OutputFiles(K, C) : f.num = g.num => f = g
  BY <1>2, <1>3
<1>8. EntriesIn(OutputFiles(K, C)) = K
  <2>1. \A e \in K : e \in FileOf(e).ents
    OBVIOUS
  <2> HIDE DEF FileOf
  <2> QED BY <1>3, <1>5, <2>1 DEF EntriesIn
<1> HIDE DEF FileOf
<1> QED BY <1>1, <1>3, <1>4, <1>5, <1>6, <1>7, <1>8

----------------------------------------------------------------------------
(* The inductive invariant.  LevelsDisjoint and NewerAbove need each other *)
(* in a compaction, and both need the numbering of writes: a Delete may go *)
(* because every older version of its key is below it, in files that       *)
(* overlap no other file of their level.                                   *)

SeqsBounded == \A e \in Store : e.seq <= lastSeq

\* Only a guard registers a snapshot.
SnapshotsNeedGuards == Guards = {} => snapshots = {}

IInv == /\ TypeOK
        /\ SeqsDistinct(Store)
        /\ SeqsBounded
        /\ NumbersUnique
        /\ LevelsDisjoint
        /\ NewerAbove
        /\ SnapshotsNeedGuards

\* The condition of the theorems: output files are cut between user keys, because the
\* size limits never fall inside a key or because no snapshot keeps old versions.
CutsAreSafe == ~SplitInsideKey \/ Guards = {}

LEMMA InitIInv == Init => IInv
<1> SUFFICES ASSUME Init PROVE IInv
  OBVIOUS
<1> USE LsmAssumption DEF LsmAssumption, Init
<1>1. Store = {}
  BY DEF Store, EntriesIn, Levels
<1>2. TypeOK
  BY FS_EmptySet DEF TypeOK, Levels
<1>3. NumbersUnique /\ LevelsDisjoint
  BY DEF NumbersUnique, LevelsDisjoint, Levels
<1>4. NewerAbove
  BY DEF NewerAbove, Levels, EntriesIn
<1> QED BY <1>1, <1>2, <1>3, <1>4 DEF IInv, SeqsDistinct, SeqsBounded, SnapshotsNeedGuards

\* What a flush of S does to the files, S being the memtable with or without one more
\* entry.
LEMMA FlushKeeps ==
  ASSUME TypeOK, NumbersUnique, LevelsDisjoint, NewerAbove,
         NEW S \in SUBSET Entry, S # {}, IsFiniteSet(S), FlushOf(S),
         \A level \in Levels : \A a \in S, b \in EntriesIn(files[level]) :
           a.key = b.key => a.seq > b.seq
  PROVE  /\ mem' = {}
         /\ files' \in [Levels -> SUBSET File]
         /\ \A level \in Levels : IsFiniteSet(files'[level])
         /\ \A level \in Levels : \A f \in files'[level] :
              f.num < nextNum' /\ f.ents # {} /\ IsFiniteSet(f.ents)
         /\ nextNum' \in Nat
         /\ Store' = S \cup UNION {EntriesIn(files[level]) : level \in Levels}
         /\ NumbersUnique'
         /\ LevelsDisjoint'
         /\ NewerAbove'
<1> DEFINE new == [num |-> nextNum, ents |-> S]
<1> USE LsmAssumption DEF LsmAssumption
<1>1. /\ mem' = {}
      /\ nextNum' = nextNum + 2
      /\ files' = [files EXCEPT ![0] = files[0] \cup {new}]
  BY DEF FlushOf
<1>2. /\ nextNum \in Nat
      /\ 0 \in Levels
      /\ Levels \subseteq Nat
      /\ files \in [Levels -> SUBSET File]
  BY DEF TypeOK, Levels
<1>3. new \in File
  BY <1>2 DEF File
<1>4. /\ files'[0] = files[0] \cup {new}
      /\ \A level \in Levels \ {0} : files'[level] = files[level]
      /\ files' \in [Levels -> SUBSET File]
  BY <1>1, <1>2, <1>3
<1>5. \A level \in Levels : IsFiniteSet(files'[level])
  <2> HIDE DEF new
  <2>1. \A level \in Levels : IsFiniteSet(files[level])
    BY DEF TypeOK
  <2>2. IsFiniteSet(files[0] \cup {new})
    BY <1>2, <2>1, FS_AddElement
  <2> QED BY <1>4, <2>1, <2>2
<1>6. \A level \in Levels : \A f \in files[level] :
        f.num \in Nat /\ f.num < nextNum /\ f.ents # {} /\ IsFiniteSet(f.ents)
  BY <1>2 DEF TypeOK, File
<1>7. new.num = nextNum /\ new.ents = S
  OBVIOUS
<1> HIDE DEF new
<1>8. \A level \in Levels : \A f \in files'[level] :
        f.num < nextNum' /\ f.ents # {} /\ IsFiniteSet(f.ents)
  BY <1>1, <1>2, <1>4, <1>6, <1>7
<1>9. EntriesIn(files'[0]) = S \cup EntriesIn(files[0])
  BY <1>4, <1>7 DEF EntriesIn
<1>10. Store' = S \cup UNION {EntriesIn(files[level]) : level \in Levels}
  <2>1. Store' = UNION {EntriesIn(files'[level]) : level \in Levels}
    BY <1>1 DEF Store, EntriesIn
  <2>2. \A level \in Levels \ {0} : EntriesIn(files'[level]) = EntriesIn(files[level])
    BY <1>4
  <2> QED BY <2>1, <2>2, <1>2, <1>9
<1>11. NumbersUnique'
  <2> SUFFICES ASSUME NEW i \in Levels, NEW j \in Levels,
                      NEW f \in files'[i], NEW g \in files'[j], f.num = g.num
               PROVE  i = j /\ f = g
    BY DEF NumbersUnique
  <2>1. (f = new /\ i = 0) \/ f \in files[i]
    BY <1>4
  <2>2. (g = new /\ j = 0) \/ g \in files[j]
    BY <1>4
  <2> QED BY <2>1, <2>2, <1>2, <1>6, <1>7 DEF NumbersUnique
<1>12. LevelsDisjoint'
  BY <1>4 DEF LevelsDisjoint
<1>13. NewerAbove'
  <2>1. \A level \in Levels : \A a \in mem', b \in EntriesIn(files'[level]) :
          a.key = b.key => a.seq > b.seq
    BY <1>1
  <2>2. ASSUME NEW i \in Levels, NEW j \in Levels, i < j,
               NEW a \in EntriesIn(files'[i]), NEW b \in EntriesIn(files'[j]),
               a.key = b.key
        PROVE  a.seq > b.seq
    <3>1. j # 0 /\ b \in EntriesIn(files[j])
      BY <2>2, <1>2, <1>4
    <3>2. a \in S \/ a \in EntriesIn(files[i])
      BY <1>4, <1>9
    <3> QED BY <2>2, <3>1, <3>2 DEF NewerAbove
  <2>3. ASSUME NEW f \in files'[0], NEW g \in files'[0], f.num > g.num,
               NEW a \in f.ents, NEW b \in g.ents, a.key = b.key
        PROVE  a.seq > b.seq
    <3>1. g # new
      BY <2>3, <1>2, <1>4, <1>6, <1>7
    <3>2. g \in files[0] /\ b \in EntriesIn(files[0])
      BY <3>1, <1>4 DEF EntriesIn
    <3>3. CASE f = new
      BY <3>2, <3>3, <1>2, <1>7, <2>3
    <3>4. CASE f \in files[0]
      BY <3>2, <3>4, <2>3 DEF NewerAbove
    <3> QED BY <3>3, <3>4, <1>4
  <2> QED BY <2>1, <2>2, <2>3 DEF NewerAbove
<1>14. nextNum' \in Nat
  BY <1>1, <1>2
<1> QED BY <1>1, <1>4, <1>5, <1>8, <1>10, <1>11, <1>12, <1>13, <1>14

\* One write, with or without the flush it may trigger.
LEMMA WriteIInv ==
  ASSUME IInv, NEW k \in Keys, NEW v \in Values \cup {Tombstone}, Write(k, v)
  PROVE  IInv' /\ Store' = Store \cup {[key |-> k, seq |-> lastSeq + 1, val |-> v]}
<1> DEFINE e == [key |-> k, seq |-> lastSeq + 1, val |-> v]
           S == mem \cup {e}
           deep == UNION {EntriesIn(files[level]) : level \in Levels}
<1> USE LsmAssumption DEF LsmAssumption
<1>1. /\ lastSeq \in Nat
      /\ lastSeq' = lastSeq + 1
      /\ UNCHANGED <<pointer, snapshots, guard>>
      /\ FlushOf(S) \/ (mem' = S /\ UNCHANGED <<files, nextNum>>)
  BY DEF Write, IInv, TypeOK
<1>2. e \in Entry /\ e.key = k /\ e.seq = lastSeq + 1
  BY <1>1 DEF Entry
<1>3. \A d \in Store : d.seq <= lastSeq /\ d.seq \in Nat
  BY DEF IInv, SeqsBounded, TypeOK, Store, EntriesIn, File, Entry
<1> HIDE DEF e
<1>4. S \in SUBSET Entry /\ S # {} /\ IsFiniteSet(S) /\ mem \in SUBSET Entry
  BY <1>2, FS_AddElement DEF IInv, TypeOK
<1>5. Store = mem \cup deep
  BY DEF Store
<1>6. \A level \in Levels : \A a \in S, b \in EntriesIn(files[level]) :
        a.key = b.key => a.seq > b.seq
  <2> SUFFICES ASSUME NEW level \in Levels, NEW a \in S, NEW b \in EntriesIn(files[level]),
                      a.key = b.key
               PROVE  a.seq > b.seq
    OBVIOUS
  <2>1. b \in Store
    BY <1>5
  <2> QED BY <1>1, <1>2, <1>3, <2>1 DEF IInv, NewerAbove
<1>7. /\ mem' \in SUBSET Entry
      /\ IsFiniteSet(mem')
      /\ files' \in [Levels -> SUBSET File]
      /\ \A level \in Levels : IsFiniteSet(files'[level])
      /\ \A level \in Levels : \A f \in files'[level] :
           f.num < nextNum' /\ f.ents # {} /\ IsFiniteSet(f.ents)
      /\ nextNum' \in Nat
      /\ Store' = S \cup deep
      /\ NumbersUnique'
      /\ LevelsDisjoint'
      /\ NewerAbove'
  <2>1. CASE FlushOf(S)
    <3> HIDE DEF S, deep
    <3>1. mem' = {} /\ IsFiniteSet({})
      BY <2>1, FS_EmptySet DEF FlushOf
    <3>2. Store' = S \cup UNION {EntriesIn(files[level]) : level \in Levels}
      BY <1>4, <1>6, <2>1, FlushKeeps DEF IInv
    <3> QED BY <1>4, <1>6, <2>1, <3>1, <3>2, FlushKeeps DEF IInv, deep
  <2>2. CASE mem' = S /\ UNCHANGED <<files, nextNum>>
    <3>1. Store' = S \cup deep
      BY <2>2 DEF Store
    <3>2. NumbersUnique' /\ LevelsDisjoint'
      BY <2>2 DEF IInv, NumbersUnique, LevelsDisjoint
    <3>3. NewerAbove'
      BY <2>2, <1>6 DEF IInv, NewerAbove
    <3> QED BY <2>2, <1>4, <3>1, <3>2, <3>3 DEF IInv, TypeOK
  <2> QED BY <1>1, <2>1, <2>2
<1>8. Store' = Store \cup {e}
  BY <1>5, <1>7
<1>9. TypeOK'
  <2>1. /\ pointer' \in [Levels -> Keys \cup {NoKey}]
        /\ snapshots' \in SUBSET (0 .. lastSeq')
        /\ guard' \in [Guards -> (0 .. lastSeq') \cup {NoSnapshot}]
        /\ lastSeq' \in Nat
    <3>1. 0 .. lastSeq \subseteq 0 .. lastSeq'
      BY <1>1
    <3> QED BY <1>1, <3>1 DEF IInv, TypeOK
  <2> QED BY <1>7, <2>1 DEF TypeOK
<1>10. SeqsDistinct(Store)'
  BY <1>1, <1>2, <1>3, <1>8 DEF IInv, SeqsDistinct
<1>11. SeqsBounded'
  BY <1>1, <1>2, <1>3, <1>8 DEF SeqsBounded
<1>12. SnapshotsNeedGuards'
  BY <1>1 DEF IInv, SnapshotsNeedGuards
<1> QED BY <1>7, <1>8, <1>9, <1>10, <1>11, <1>12 DEF IInv, e

\* The steps that touch neither the memtable nor the files.
LEMMA SnapshotIInv ==
  ASSUME IInv, NEW g \in Guards, NewSnapshot(g) \/ DropGuard(g)
  PROVE  IInv' /\ Store' = Store
<1> USE LsmAssumption DEF LsmAssumption
<1>1. UNCHANGED <<mem, files, pointer, lastSeq, nextNum>>
  BY DEF NewSnapshot, DropGuard
<1>2. lastSeq \in Nat /\ lastSeq \in 0 .. lastSeq
  BY DEF IInv, TypeOK
<1>3. Store' = Store
  BY <1>1 DEF Store
<1>4. TypeOK'
  BY <1>1, <1>2 DEF IInv, TypeOK, NewSnapshot, DropGuard
<1>5. NumbersUnique' /\ LevelsDisjoint' /\ NewerAbove'
  BY <1>1 DEF IInv, NumbersUnique, LevelsDisjoint, NewerAbove
<1>6. SnapshotsNeedGuards'
  BY DEF SnapshotsNeedGuards
<1> QED BY <1>1, <1>3, <1>4, <1>5, <1>6 DEF IInv, SeqsDistinct, SeqsBounded

\* A clean restart.
LEMMA ReopenIInv ==
  ASSUME IInv, Reopen
  PROVE  IInv' /\ Store' = Store
<1> USE LsmAssumption DEF LsmAssumption
<1>1. /\ UNCHANGED <<pointer, lastSeq>>
      /\ snapshots' = {}
      /\ guard' = [g \in Guards |-> NoSnapshot]
  BY DEF Reopen
<1>2. /\ mem' \in SUBSET Entry
      /\ IsFiniteSet(mem')
      /\ files' \in [Levels -> SUBSET File]
      /\ \A level \in Levels : IsFiniteSet(files'[level])
      /\ \A level \in Levels : \A f \in files'[level] :
           f.num < nextNum' /\ f.ents # {} /\ IsFiniteSet(f.ents)
      /\ nextNum' \in Nat
      /\ Store' = Store
      /\ NumbersUnique'
      /\ LevelsDisjoint'
      /\ NewerAbove'
  <2>1. CASE mem = {}
    <3>1. nextNum' = nextNum + 1 /\ UNCHANGED <<mem, files>>
      BY <2>1 DEF Reopen
    <3>2. nextNum \in Nat /\ files \in [Levels -> SUBSET File]
      BY DEF IInv, TypeOK
    <3>3. \A level \in Levels : \A f \in files[level] : f.num \in Nat /\ f.num < nextNum
      BY <3>2 DEF IInv, TypeOK, File
    <3>4. Store' = Store
      BY <3>1 DEF Store
    <3>5. NumbersUnique' /\ LevelsDisjoint' /\ NewerAbove'
      BY <3>1 DEF IInv, NumbersUnique, LevelsDisjoint, NewerAbove
    <3> QED BY <3>1, <3>2, <3>3, <3>4, <3>5 DEF IInv, TypeOK
  <2>2. CASE mem # {}
    <3>1. FlushOf(mem)
      BY <2>2 DEF Reopen
    <3>2. mem \in SUBSET Entry /\ IsFiniteSet(mem)
      BY DEF IInv, TypeOK
    <3>3. \A level \in Levels : \A a \in mem, b \in EntriesIn(files[level]) :
            a.key = b.key => a.seq > b.seq
      BY DEF IInv, NewerAbove
    <3>4. mem' = {} /\ IsFiniteSet({})
      BY <3>1, FS_EmptySet DEF FlushOf
    <3> QED BY <2>2, <3>1, <3>2, <3>3, <3>4, FlushKeeps DEF IInv, Store
  <2> QED BY <2>1, <2>2
<1>3. TypeOK'
  BY <1>1, <1>2 DEF IInv, TypeOK
<1>4. SnapshotsNeedGuards'
  BY <1>1 DEF SnapshotsNeedGuards
<1> QED BY <1>1, <1>2, <1>3, <1>4 DEF IInv, SeqsDistinct, SeqsBounded

----------------------------------------------------------------------------
(* Compaction *)

Inputs(level) == PickedFiles(level) \cup OverlappedFiles(level)
Merged(level) == Kept(level, EntriesIn(Inputs(level)))

\* What a compaction reads and keeps.
LEMMA InputsShape ==
  ASSUME IInv, NEW level \in Levels, level < NumLevels - 1
  PROVE  /\ level \in Nat
         /\ level + 1 \in Levels
         /\ PickedFiles(level) \subseteq files[level]
         /\ level = 0 => PickedFiles(level) = files[0]
         /\ OverlappedFiles(level) \subseteq files[level + 1]
         /\ EntriesIn(Inputs(level)) \subseteq Store
         /\ EntriesIn(Inputs(level)) \subseteq Entry
         /\ Merged(level) \subseteq EntriesIn(Inputs(level))
         /\ IsFiniteSet(Merged(level))
         /\ SeqsDistinct(Merged(level))
<1> USE LsmAssumption DEF LsmAssumption
<1>1. level \in Nat /\ level + 1 \in Levels /\ files \in [Levels -> SUBSET File]
  BY DEF Levels, IInv, TypeOK
<1>2. PickedFiles(level) \subseteq files[level] /\ (level = 0 => PickedFiles(level) = files[0])
  BY DEF PickedFiles, Beyond
<1>3. OverlappedFiles(level) \subseteq files[level + 1]
  BY DEF OverlappedFiles, GetOverlaps
<1>4. EntriesIn(Inputs(level)) \subseteq Store
  BY <1>1, <1>2, <1>3 DEF EntriesIn, Inputs, Store
<1>5. \A f \in Inputs(level) : IsFiniteSet(f.ents) /\ f.ents \subseteq Entry
  BY <1>1, <1>2, <1>3 DEF Inputs, IInv, TypeOK, File
<1>6. EntriesIn(Inputs(level)) \subseteq Entry
  BY <1>5 DEF EntriesIn
<1>7. Merged(level) \subseteq EntriesIn(Inputs(level))
  BY DEF Merged, Kept
<1>8. IsFiniteSet(Merged(level))
  <2>1. IsFiniteSet(PickedFiles(level)) /\ IsFiniteSet(OverlappedFiles(level))
    BY <1>1, <1>2, <1>3, FS_Subset DEF IInv, TypeOK
  <2>2. IsFiniteSet(Inputs(level))
    BY <2>1, FS_Union DEF Inputs
  <2>3. IsFiniteSet({f.ents : f \in Inputs(level)})
    <3> DEFINE T == {f.ents : f \in Inputs(level)}
               ents == [f \in Inputs(level) |-> f.ents]
    <3>1. ents \in Surjection(Inputs(level), T)
      BY DEF Surjection
    <3> HIDE DEF ents, T
    <3>2. IsFiniteSet(T)
      BY <2>2, <3>1, FS_Surjection
    <3> QED BY <3>2 DEF T
  <2>4. \A T \in {f.ents : f \in Inputs(level)} : IsFiniteSet(T)
    BY <1>5
  <2>5. IsFiniteSet(EntriesIn(Inputs(level)))
    BY <2>3, <2>4, FS_UNION DEF EntriesIn
  <2> QED BY <1>7, <2>5, FS_Subset
<1>9. SeqsDistinct(Merged(level))
  BY <1>4, <1>7 DEF SeqsDistinct, IInv
<1> QED BY <1>1, <1>2, <1>3, <1>4, <1>6, <1>7, <1>8, <1>9

\* Without snapshots a merge keeps one version of a key, so that no cut can part two.
LEMMA CutsFall ==
  ASSUME IInv, CutsAreSafe, NEW level \in Levels, level < NumLevels - 1,
         NEW C \in Cuts(Merged(level))
  PROVE  C \in SUBSET Merged(level) /\ CutsBetweenKeys(Merged(level), C)
<1> USE LsmAssumption DEF LsmAssumption
<1>1. C \in SUBSET Merged(level)
  BY DEF Cuts
<1>2. CASE ~SplitInsideKey
  BY <1>2 DEF Cuts, CutsBetweenKeys
<1>3. CASE Guards = {}
  <2>1. snapshots = {}
    BY <1>3 DEF IInv, SnapshotsNeedGuards
  <2>2. \A x, y \in Merged(level) : ~ (x.key = y.key /\ x.seq > y.seq)
    BY <2>1, InputsShape DEF Merged, Kept, Dropped, AtMostOldest
  <2>3. \A x \in Merged(level) : x.key \in Nat /\ x.seq \in Nat
    <3>1. Merged(level) \subseteq Entry
      BY InputsShape
    <3> QED BY <3>1 DEF Entry
  <2> QED BY <1>1, <2>2, <2>3 DEF CutsBetweenKeys, Before
<1> QED BY <1>1, <1>2, <1>3 DEF CutsAreSafe

\* An interval that overlaps neither of two overlapping ones lies on one side of both.
LEMMA OneSide ==
  ASSUME NEW H \in SUBSET Nat, NEW O \in SUBSET Nat, NEW G \in SUBSET Nat,
         Overlap(O, H), ~Overlap(G, H), ~Overlap(O, G)
  PROVE  \/ \A g \in G : (\A h \in H : g < h) /\ (\A o \in O : g < o)
         \/ \A g \in G : (\A h \in H : g > h) /\ (\A o \in O : g > o)
<1>1. /\ \A x \in H : x \in Nat
      /\ \A x \in O : x \in Nat
      /\ \A x \in G : x \in Nat
  OBVIOUS
<1>2. PICK o \in O, h \in H : o >= h
  BY DEF Overlap
<1>3. PICK p \in O, i \in H : p <= i
  BY DEF Overlap
<1>4. CASE \A g \in G, x \in H : g < x
  <2>1. \A g \in G : o > g
    BY <1>1, <1>2, <1>4
  <2>2. \A g \in G, x \in O : x > g
    BY <1>1, <2>1 DEF Overlap
  <2> QED BY <1>4, <2>2, <1>1
<1>5. CASE \A g \in G, x \in H : g > x
  <2>1. \A g \in G : p < g
    BY <1>1, <1>3, <1>5
  <2>2. \A g \in G, x \in O : x < g
    BY <1>1, <2>1 DEF Overlap
  <2> QED BY <1>5, <2>2, <1>1
<1>6. (\A g \in G, x \in H : g < x) \/ (\A g \in G, x \in H : g > x)
  BY <1>1 DEF Overlap
<1> QED BY <1>4, <1>5, <1>6

\* A file of the output level that is no input lies on one side of all inputs.
LEMMA RestBesideInputs ==
  ASSUME IInv, NEW level \in Levels, level < NumLevels - 1,
         NEW g \in files[level + 1] \ OverlappedFiles(level)
  PROVE  ~Overlap(KeysIn(EntriesIn(Inputs(level))), KeysIn(g.ents))
<1> DEFINE H == KeysIn(EntriesIn(PickedFiles(level)))
           G == KeysIn(g.ents)
<1> USE LsmAssumption DEF LsmAssumption
<1>1. /\ level + 1 \in Levels
      /\ level + 1 # 0
      /\ g \in files[level + 1]
      /\ PickedFiles(level) \subseteq Inputs(level)
      /\ EntriesIn(PickedFiles(level)) \subseteq EntriesIn(Inputs(level))
  BY InputsShape DEF Inputs, EntriesIn
<1>0. \A f \in files[level + 1] : KeysIn(f.ents) \subseteq Nat
  <2>1. \A f \in files[level + 1] : f.ents \subseteq Entry
    BY <1>1 DEF File, IInv, TypeOK
  <2>2. \A x \in Entry : x.key \in Nat
    BY DEF Entry
  <2> QED BY <2>1, <2>2 DEF KeysIn
<1>2. KeysIn(EntriesIn(Inputs(level))) \subseteq Nat /\ H \subseteq Nat
  <2>1. \A x \in EntriesIn(Inputs(level)) : x.key \in Nat
    BY InputsShape DEF Entry
  <2> QED BY <1>1, <2>1 DEF KeysIn
<1>3. G \subseteq Nat
  BY <1>0, <1>1
<1>4. ~Overlap(G, H)
  BY <1>1 DEF OverlappedFiles, GetOverlaps
<1>5. ASSUME NEW f \in OverlappedFiles(level)
      PROVE  /\ KeysIn(f.ents) \subseteq Nat
             /\ Overlap(KeysIn(f.ents), H)
             /\ ~Overlap(KeysIn(f.ents), G)
  <2>1. f \in files[level + 1] /\ f # g
    BY <1>5 DEF OverlappedFiles, GetOverlaps
  <2>2. KeysIn(f.ents) \subseteq Nat
    BY <1>0, <2>1
  <2>3. ~Overlap(KeysIn(f.ents), G)
    BY <1>1, <2>1 DEF IInv, LevelsDisjoint
  <2> QED BY <2>2, <2>3 DEF OverlappedFiles, GetOverlaps
<1>6. KeysIn(EntriesIn(Inputs(level))) =
        H \cup UNION {KeysIn(f.ents) : f \in OverlappedFiles(level)}
  BY DEF Inputs, EntriesIn, KeysIn
<1> HIDE DEF G, H
<1>7. ASSUME NEW f \in OverlappedFiles(level)
      PROVE  \/ \A y \in G : (\A h \in H : y < h) /\ (\A o \in KeysIn(f.ents) : y < o)
             \/ \A y \in G : (\A h \in H : y > h) /\ (\A o \in KeysIn(f.ents) : y > o)
  BY <1>2, <1>3, <1>4, <1>5, <1>7, OneSide
<1>8. (\A y \in G, h \in H : y < h) \/ (\A y \in G, h \in H : y > h)
  BY <1>2, <1>3, <1>4 DEF Overlap
<1>9. CASE H = {}
  <2>1. OverlappedFiles(level) = {}
    BY <1>5, <1>9 DEF Overlap
  <2> QED BY <1>6, <1>9, <2>1 DEF Overlap
<1>10. CASE \A y \in G, h \in H : y < h
  <2>1. \A y \in G, x \in KeysIn(EntriesIn(Inputs(level))) : y < x
    BY <1>2, <1>3, <1>5, <1>6, <1>7, <1>10 DEF Overlap
  <2> QED BY <1>2, <1>3, <2>1 DEF Overlap, G
<1>11. CASE \A y \in G, h \in H : y > h
  <2>1. \A y \in G, x \in KeysIn(EntriesIn(Inputs(level))) : y > x
    BY <1>2, <1>3, <1>5, <1>6, <1>7, <1>11 DEF Overlap
  <2> QED BY <1>2, <1>3, <2>1 DEF Overlap, G
<1> QED BY <1>8, <1>9, <1>10, <1>11

\* The files and the counters after a compaction.
CompactedTo(level, C) ==
  /\ files' \in [Levels -> SUBSET File]
  /\ \A l \in Levels \ {level, level + 1} : files'[l] = files[l]
  /\ files'[level] = files[level] \ PickedFiles(level)
  /\ files'[level + 1] =
       (files[level + 1] \ OverlappedFiles(level)) \cup OutputFiles(Merged(level), C)
  /\ pointer' \in [Levels -> Keys \cup {NoKey}]
  /\ nextNum' \in Nat
  /\ nextNum' >= nextNum
  /\ \A f \in OutputFiles(Merged(level), C) : f.num < nextNum'
  /\ UNCHANGED <<mem, lastSeq, snapshots, guard>>

LEMMA CompactShape ==
  ASSUME IInv, NEW level \in Levels, Compact(level)
  PROVE  /\ level < NumLevels - 1
         /\ \E C \in Cuts(Merged(level)) : CompactedTo(level, C)
<1> DEFINE K == Merged(level)
<1> USE LsmAssumption DEF LsmAssumption
<1>1. level < NumLevels - 1
  BY DEF Compact
<1>2. PICK C \in Cuts(K) :
        /\ files' = [files EXCEPT
                       ![level]     = files[level] \ PickedFiles(level),
                       ![level + 1] = (files[level + 1] \ OverlappedFiles(level))
                                        \cup OutputFiles(K, C)]
        /\ IF K = {}
             THEN UNCHANGED <<pointer, nextNum>>
             ELSE /\ pointer' = [pointer EXCEPT ![level] = LargestKey(K)]
                  /\ nextNum' = nextNum + (Cardinality(C) + 1)
  BY InputsShape DEF Compact, Merged, Inputs, BumpTo, IInv, TypeOK
<1>3. UNCHANGED <<mem, lastSeq, snapshots, guard>>
  BY DEF Compact
<1>4. /\ level \in Nat
      /\ level + 1 \in Levels
      /\ IsFiniteSet(K)
      /\ K \in SUBSET Entry
      /\ C \in SUBSET K
  BY <1>1, InputsShape DEF Cuts
<1>5. /\ nextNum \in Nat
      /\ files \in [Levels -> SUBSET File]
      /\ pointer \in [Levels -> Keys \cup {NoKey}]
  BY DEF IInv, TypeOK
<1> HIDE DEF K
<1>6. /\ OutputFiles(K, C) \in SUBSET File
      /\ Cardinality(C) \in Nat
      /\ \A f \in OutputFiles(K, C) : f.num <= nextNum + Cardinality(C)
  BY <1>4, <1>5, OutputsWellFormed
<1>7. \A f \in OutputFiles(K, C) : f.num \in Nat
  BY <1>6 DEF File
<1>8. CASE K = {}
  <2>1. OutputFiles(K, C) = {}
    BY <1>8 DEF OutputFiles
  <2> QED BY <1>1, <1>2, <1>3, <1>4, <1>5, <1>6, <1>8, <2>1 DEF CompactedTo, K
<1>9. CASE K # {}
  <2>1. LargestKey(K) \in Keys
    <3>1. KeysIn(K) \subseteq Keys /\ KeysIn(K) # {}
      BY <1>4, <1>9 DEF KeysIn, Entry
    <3>2. IsFiniteSet(KeysIn(K)) /\ KeysIn(K) \in SUBSET Nat
      BY <3>1, FS_Subset
    <3>3. \E k \in KeysIn(K) : \A j \in KeysIn(K) : j <= k
      BY <3>1, <3>2, MaxExists
    <3> QED BY <3>1, <3>3 DEF LargestKey
  <2>2. pointer' \in [Levels -> Keys \cup {NoKey}]
    BY <1>2, <1>5, <1>9, <2>1
  <2>3. nextNum' = nextNum + (Cardinality(C) + 1)
    BY <1>2, <1>9
  <2>4. nextNum' \in Nat /\ nextNum' >= nextNum
    BY <1>5, <1>6, <2>3
  <2>5. \A f \in OutputFiles(K, C) : f.num < nextNum'
    BY <1>5, <1>6, <1>7, <2>3
  <2>6. files' \in [Levels -> SUBSET File]
    BY <1>2, <1>4, <1>5, <1>6
  <2>7. /\ \A l \in Levels \ {level, level + 1} : files'[l] = files[l]
        /\ files'[level] = files[level] \ PickedFiles(level)
        /\ files'[level + 1] =
             (files[level + 1] \ OverlappedFiles(level)) \cup OutputFiles(K, C)
    BY <1>2, <1>4, <1>5
  <2> QED BY <1>1, <1>3, <2>2, <2>4, <2>5, <2>6, <2>7 DEF CompactedTo, K
<1> QED BY <1>1, <1>2, <1>8, <1>9 DEF K

\* A compaction only takes entries away: every entry comes from where it was or was
\* kept by the merge.
LEMMA CompactStore ==
  ASSUME IInv, NEW level \in Levels, level < NumLevels - 1,
         NEW C \in Cuts(Merged(level)), CompactedTo(level, C)
  PROVE  /\ EntriesIn(OutputFiles(Merged(level), C)) = Merged(level)
         /\ Merged(level) \subseteq Store
         /\ \A l \in Levels : \A e \in EntriesIn(files'[l]) :
              \/ \E f \in files[l] \cap files'[l] : e \in f.ents
              \/ l = level + 1 /\ e \in Merged(level)
         /\ Store' \subseteq Store
<1> USE LsmAssumption DEF LsmAssumption
<1>1. /\ level + 1 \in Levels
      /\ level \in Nat
      /\ EntriesIn(OutputFiles(Merged(level), C)) = Merged(level)
      /\ Merged(level) \subseteq Store
  <2>1. C \in SUBSET Merged(level) /\ nextNum \in Nat
    BY DEF Cuts, IInv, TypeOK
  <2>2. Merged(level) \in SUBSET Entry /\ IsFiniteSet(Merged(level))
    BY InputsShape
  <2> QED BY <2>1, <2>2, InputsShape, OutputsWellFormed
<1>2. \A l \in Levels : \A e \in EntriesIn(files'[l]) :
        \/ \E f \in files[l] \cap files'[l] : e \in f.ents
        \/ l = level + 1 /\ e \in Merged(level)
  <2> SUFFICES ASSUME NEW l \in Levels, NEW f \in files'[l], NEW e \in f.ents
               PROVE  \/ \E g \in files[l] \cap files'[l] : e \in g.ents
                      \/ l = level + 1 /\ e \in Merged(level)
    BY DEF EntriesIn
  <2>1. f \in files[l] \/ (l = level + 1 /\ f \in OutputFiles(Merged(level), C))
    BY DEF CompactedTo
  <2> QED BY <1>1, <2>1 DEF EntriesIn
<1>3. Store' \subseteq Store
  <2>1. mem' = mem
    BY DEF CompactedTo
  <2>2. \A l \in Levels : \A e \in EntriesIn(files'[l]) : e \in Store
    BY <1>1, <1>2 DEF Store, EntriesIn
  <2>3. Store' = mem' \cup UNION {EntriesIn(files'[l]) : l \in Levels}
    BY DEF Store, EntriesIn
  <2> QED BY <2>1, <2>2, <2>3 DEF Store
<1> QED BY <1>1, <1>2, <1>3

LEMMA CompactDisjoint ==
  ASSUME IInv, CutsAreSafe, NEW level \in Levels, level < NumLevels - 1,
         NEW C \in Cuts(Merged(level)), CompactedTo(level, C)
  PROVE  LevelsDisjoint'
<1> DEFINE K == Merged(level)
           out == OutputFiles(K, C)
<1> USE LsmAssumption DEF LsmAssumption
<1>1. /\ level \in Nat
      /\ level + 1 \in Levels
      /\ \A l \in Levels : \A f \in files'[l] :
           f \in files[l] \/ (l = level + 1 /\ f \in out)
      /\ \A f \in files'[level + 1] :
           f \in files[level + 1] \ OverlappedFiles(level) \/ f \in out
  BY InputsShape DEF CompactedTo
<1>2. \A f, g \in out : f # g => ~Overlap(KeysIn(f.ents), KeysIn(g.ents))
  <2>1. K \in SUBSET Entry /\ IsFiniteSet(K) /\ SeqsDistinct(K) /\ nextNum \in Nat
    BY InputsShape DEF IInv, TypeOK
  <2>2. C \in SUBSET K /\ CutsBetweenKeys(K, C)
    BY CutsFall
  <2> HIDE DEF K
  <2> QED BY <2>1, <2>2, OutputsDisjoint
<1>3. \A f \in out, g \in files[level + 1] \ OverlappedFiles(level) :
        /\ ~Overlap(KeysIn(f.ents), KeysIn(g.ents))
        /\ ~Overlap(KeysIn(g.ents), KeysIn(f.ents))
  <2> SUFFICES ASSUME NEW f \in out, NEW g \in files[level + 1] \ OverlappedFiles(level)
               PROVE  /\ ~Overlap(KeysIn(f.ents), KeysIn(g.ents))
                      /\ ~Overlap(KeysIn(g.ents), KeysIn(f.ents))
    OBVIOUS
  <2>1. f.ents \subseteq K
    BY CompactStore DEF EntriesIn
  <2>2. KeysIn(f.ents) \subseteq KeysIn(EntriesIn(Inputs(level)))
    BY <2>1, InputsShape DEF KeysIn
  <2>3. ~Overlap(KeysIn(EntriesIn(Inputs(level))), KeysIn(g.ents))
    BY RestBesideInputs
  <2>4. ~Overlap(KeysIn(f.ents), KeysIn(g.ents))
    BY <2>2, <2>3 DEF Overlap
  <2>5. /\ \A x \in KeysIn(f.ents) : x \in Nat
        /\ \A x \in KeysIn(g.ents) : x \in Nat
    <3>1. f.ents \subseteq Entry /\ g.ents \subseteq Entry
      BY <1>1, <2>1, InputsShape DEF IInv, TypeOK, File
    <3> QED BY <3>1 DEF KeysIn, Entry
  <2> QED BY <2>4, <2>5 DEF Overlap
<1> HIDE DEF out
<1> SUFFICES ASSUME NEW l \in Levels \ {0}, NEW f \in files'[l], NEW g \in files'[l], f # g
             PROVE  ~Overlap(KeysIn(f.ents), KeysIn(g.ents))
  BY DEF LevelsDisjoint
<1>4. CASE f \in files[l] /\ g \in files[l]
  BY <1>4 DEF IInv, LevelsDisjoint
<1>5. CASE l = level + 1
  BY <1>1, <1>2, <1>3, <1>4, <1>5
<1> QED BY <1>1, <1>4, <1>5

\* Two versions of a key in different files of a level: the level is L0.
LEMMA OneFilePerKey ==
  ASSUME IInv, NEW l \in Levels \ {0}, NEW f \in files[l], NEW g \in files[l], f # g,
         NEW a \in f.ents, NEW b \in g.ents
  PROVE  a.key # b.key
<1>1. a.key \in Nat /\ b.key \in Nat
  <2>1. a \in Entry /\ b \in Entry
    BY DEF IInv, TypeOK, File
  <2> QED BY <2>1, LsmAssumption DEF LsmAssumption, Entry
<1>2. ~Overlap(KeysIn(f.ents), KeysIn(g.ents))
  BY DEF IInv, LevelsDisjoint
<1> QED BY <1>1, <1>2 DEF Overlap, KeysIn

\* A version that stays where it was, above the output, is newer than all that is merged.
LEMMA AboveMerged ==
  ASSUME IInv, NEW level \in Levels, level < NumLevels - 1,
         NEW l \in Levels, l <= level, NEW f \in files[l],
         l = level => f \notin PickedFiles(level),
         NEW a \in f.ents, NEW b \in EntriesIn(Inputs(level)), a.key = b.key
  PROVE  a.seq > b.seq
<1> USE LsmAssumption DEF LsmAssumption
<1>1. /\ level \in Nat
      /\ l \in Nat
      /\ level + 1 \in Levels
      /\ a \in EntriesIn(files[l])
      /\ PickedFiles(level) \subseteq files[level]
      /\ OverlappedFiles(level) \subseteq files[level + 1]
  BY InputsShape DEF EntriesIn, Levels
<1>2. PICK g \in Inputs(level) : b \in g.ents
  BY DEF EntriesIn
<1>3. CASE g \in OverlappedFiles(level)
  <2>1. b \in EntriesIn(files[level + 1])
    BY <1>1, <1>2, <1>3 DEF EntriesIn
  <2> QED BY <1>1, <2>1 DEF IInv, NewerAbove
<1>4. CASE g \in PickedFiles(level) /\ l < level
  <2>1. b \in EntriesIn(files[level])
    BY <1>1, <1>2, <1>4 DEF EntriesIn
  <2> QED BY <1>1, <1>4, <2>1 DEF IInv, NewerAbove
<1>5. CASE g \in PickedFiles(level) /\ l = level
  <2>1. level # 0 /\ f # g
    BY <1>5, InputsShape
  <2> QED BY <1>1, <1>2, <1>5, <2>1, OneFilePerKey
<1> QED BY <1>1, <1>2, <1>3, <1>4, <1>5 DEF Inputs

\* What lies below the output is older than all that is merged.
LEMMA BelowMerged ==
  ASSUME IInv, NEW level \in Levels, level < NumLevels - 1,
         NEW l \in Levels, l > level + 1,
         NEW a \in EntriesIn(Inputs(level)), NEW b \in EntriesIn(files[l]), a.key = b.key
  PROVE  a.seq > b.seq
<1>1. /\ level \in Nat
      /\ level + 1 \in Levels
      /\ PickedFiles(level) \subseteq files[level]
      /\ OverlappedFiles(level) \subseteq files[level + 1]
  BY InputsShape
<1>2. a \in EntriesIn(files[level]) \/ a \in EntriesIn(files[level + 1])
  BY <1>1 DEF EntriesIn, Inputs
<1>3. l \in Nat
  BY DEF Levels
<1> QED BY <1>1, <1>2, <1>3 DEF IInv, NewerAbove

LEMMA CompactNewerAbove ==
  ASSUME IInv, NEW level \in Levels, level < NumLevels - 1,
         NEW C \in Cuts(Merged(level)), CompactedTo(level, C)
  PROVE  NewerAbove'
<1> USE LsmAssumption DEF LsmAssumption
<1>1. /\ level \in Nat
      /\ level + 1 \in Levels
      /\ Merged(level) \subseteq EntriesIn(Inputs(level))
      /\ level = 0 => PickedFiles(level) = files[0]
      /\ PickedFiles(level) \subseteq files[level]
      /\ OverlappedFiles(level) \subseteq files[level + 1]
  BY InputsShape
<1>2. \A l \in Levels : \A e \in EntriesIn(files'[l]) :
        \/ \E f \in files[l] \cap files'[l] : e \in f.ents
        \/ l = level + 1 /\ e \in Merged(level)
  BY CompactStore
<1>3. \A l \in Levels : \A f \in files'[l] : l = level => f \notin PickedFiles(level)
  BY DEF CompactedTo
<1>4. \A e \in EntriesIn(Inputs(level)) :
        e \in EntriesIn(files[level]) \/ e \in EntriesIn(files[level + 1])
  BY <1>1 DEF EntriesIn, Inputs
<1>5. ASSUME NEW l \in Levels, NEW a \in mem', NEW b \in EntriesIn(files'[l]), a.key = b.key
      PROVE  a.seq > b.seq
  <2>1. a \in mem
    BY <1>5 DEF CompactedTo
  <2>2. \E i \in Levels : b \in EntriesIn(files[i])
    BY <1>1, <1>2, <1>4, <1>5 DEF EntriesIn
  <2> QED BY <1>5, <2>1, <2>2 DEF IInv, NewerAbove
<1>6. ASSUME NEW i \in Levels, NEW j \in Levels, i < j,
             NEW a \in EntriesIn(files'[i]), NEW b \in EntriesIn(files'[j]), a.key = b.key
      PROVE  a.seq > b.seq
  <2>1. i \in Nat /\ j \in Nat
    BY DEF Levels
  <2>2. CASE /\ \E f \in files[i] \cap files'[i] : a \in f.ents
             /\ \E g \in files[j] \cap files'[j] : b \in g.ents
    BY <1>6, <2>2 DEF IInv, NewerAbove, EntriesIn
  <2>3. CASE j = level + 1 /\ b \in Merged(level)
    <3>1. i # level + 1 /\ i <= level
      BY <1>1, <1>6, <2>1, <2>3
    <3>2. PICK f \in files[i] \cap files'[i] : a \in f.ents
      BY <1>2, <1>6, <3>1
    <3> QED BY <1>1, <1>3, <1>6, <2>3, <3>1, <3>2, AboveMerged
  <2>4. CASE /\ i = level + 1 /\ a \in Merged(level)
             /\ \E g \in files[j] \cap files'[j] : b \in g.ents
    <3>1. b \in EntriesIn(files[j])
      BY <2>4 DEF EntriesIn
    <3> QED BY <1>1, <1>6, <2>1, <2>4, <3>1, BelowMerged
  <2> QED BY <1>2, <1>6, <2>2, <2>3, <2>4
<1>7. ASSUME NEW f \in files'[0], NEW g \in files'[0], f.num > g.num,
             NEW a \in f.ents, NEW b \in g.ents, a.key = b.key
      PROVE  a.seq > b.seq
  <2>1. 0 \in Levels /\ 0 # level + 1
    BY <1>1 DEF Levels
  <2>2. files'[0] \subseteq files[0]
    BY <2>1 DEF CompactedTo
  <2> QED BY <1>7, <2>2 DEF IInv, NewerAbove
<1> QED BY <1>5, <1>6, <1>7 DEF NewerAbove

\* A compaction changes no view, neither the latest nor that of a registered snapshot,
\* wherever the output is cut: what it drops was shadowed, or was a Delete with nothing
\* older left.
LEMMA CompactViews ==
  ASSUME IInv, NEW level \in Levels, Compact(level),
         NEW k \in Keys, NEW s \in snapshots \cup {lastSeq}
  PROVE  Visible(Store', k, s) = Visible(Store, k, s)
<1> USE LsmAssumption DEF LsmAssumption
<1>1. level < NumLevels - 1
  BY CompactShape
<1>2. PICK C \in Cuts(Merged(level)) : CompactedTo(level, C)
  BY CompactShape
<1>3. /\ level \in Nat
      /\ level + 1 \in Levels
      /\ PickedFiles(level) \subseteq files[level]
      /\ OverlappedFiles(level) \subseteq files[level + 1]
      /\ level = 0 => PickedFiles(level) = files[0]
      /\ EntriesIn(Inputs(level)) \subseteq Store
      /\ Merged(level) \subseteq EntriesIn(Inputs(level))
      /\ files \in [Levels -> SUBSET File]
  BY <1>1, InputsShape DEF IInv, TypeOK
<1>4. /\ EntriesIn(OutputFiles(Merged(level), C)) = Merged(level)
      /\ Store' \subseteq Store
      /\ \A l \in Levels : \A e \in EntriesIn(files'[l]) :
           \/ \E f \in files[l] \cap files'[l] : e \in f.ents
           \/ l = level + 1 /\ e \in Merged(level)
  BY <1>1, <1>2, CompactStore
<1>5. Store \subseteq Entry
  BY <1>3 DEF Store, EntriesIn, File, IInv, TypeOK
<1>6. \A e \in Store : e.seq \in Nat /\ e.key \in Nat
  BY <1>5 DEF Entry
<1>7. mem' = mem /\ Store' = mem \cup UNION {EntriesIn(files'[l]) : l \in Levels}
  BY <1>2 DEF CompactedTo, Store, EntriesIn
<1>8. Merged(level) \subseteq Store'
  <2>1. EntriesIn(OutputFiles(Merged(level), C)) \subseteq EntriesIn(files'[level + 1])
    BY <1>2 DEF CompactedTo, EntriesIn
  <2> QED BY <1>3, <1>4, <1>7, <2>1
<1>9. ASSUME NEW e \in Store, e \notin Store'
      PROVE  e \in EntriesIn(Inputs(level)) /\ e \notin Merged(level)
  <2>1. e \notin mem /\ e \notin Merged(level)
    BY <1>7, <1>8, <1>9
  <2>2. PICK l \in Levels : \E g \in files[l] : e \in g.ents
    BY <2>1 DEF Store, EntriesIn
  <2>3. PICK f \in files[l] : e \in f.ents
    BY <2>2
  <2>4. f \notin files'[l]
    BY <1>7, <1>9, <2>3 DEF EntriesIn
  <2>5. f \in Inputs(level)
    BY <1>2, <2>4 DEF CompactedTo, Inputs
  <2> QED BY <2>1, <2>3, <2>5 DEF EntriesIn
<1>10. ASSUME NEW e \in EntriesIn(Inputs(level)), e \notin Store', AtMostOldest(e.seq),
              IsBaseLevel(level, e.key), NEW x \in Store', x.key = e.key
       PROVE  x.seq > e.seq
  <2>1. CASE x \in mem
    <3>1. e \in EntriesIn(files[level]) \/ e \in EntriesIn(files[level + 1])
      BY <1>3 DEF EntriesIn, Inputs
    <3> QED BY <1>3, <1>10, <2>1, <3>1 DEF IInv, NewerAbove
  <2>2. CASE x \in Merged(level)
    <3>1. x \in EntriesIn(Inputs(level)) /\ ~(e.seq > x.seq)
      BY <1>3, <1>10, <2>2 DEF Merged, Kept, Dropped
    <3>2. e.seq # x.seq
      BY <1>3, <1>8, <1>10, <3>1 DEF IInv, SeqsDistinct
    <3> QED BY <1>3, <1>6, <3>1, <3>2
  <2>3. ASSUME NEW l \in Levels, NEW f \in files[l] \cap files'[l], x \in f.ents
        PROVE  x.seq > e.seq
    <3>1. l \in Nat
      BY DEF Levels
    <3>2. f \notin PickedFiles(level) \/ l # level
      BY <1>2 DEF CompactedTo
    <3>3. CASE l <= level
      BY <1>1, <1>3, <1>10, <2>3, <3>2, <3>3, AboveMerged
    <3>4. CASE l > level + 1
      <4>1. f \in GetOverlaps(l, {e.key})
        <5>1. x \in Store
          BY <1>4
        <5>2. e.key \in KeysIn(f.ents)
          BY <1>10, <2>3 DEF KeysIn
        <5> QED BY <1>6, <1>10, <5>1, <5>2 DEF GetOverlaps, Overlap
      <4>2. l \in level + 2 .. NumLevels - 1
        BY <1>3, <3>1, <3>4 DEF Levels
      <4> QED BY <1>10, <4>1, <4>2 DEF IsBaseLevel
    <3>5. CASE l = level + 1
      <4>1. f \in files[level + 1] \ OverlappedFiles(level)
        <5>1. f \notin OverlappedFiles(level) \/ f \in OutputFiles(Merged(level), C)
          BY <1>2, <3>5 DEF CompactedTo
        <5>2. f \notin OutputFiles(Merged(level), C)
          <6>1. \A h \in OutputFiles(Merged(level), C) : h.num >= nextNum
            <7>1. C \in SUBSET Merged(level) /\ nextNum \in Nat
              BY DEF Cuts, IInv, TypeOK
            <7>2. Merged(level) \in SUBSET Entry /\ IsFiniteSet(Merged(level))
              BY <1>1, InputsShape
            <7> QED BY <7>1, <7>2, OutputsWellFormed
          <6>2. f.num < nextNum /\ f.num \in Nat /\ nextNum \in Nat
            BY <1>3 DEF IInv, TypeOK, File
          <6> QED BY <6>1, <6>2
        <5> QED BY <3>5, <5>1, <5>2
      <4>2. ~Overlap(KeysIn(EntriesIn(Inputs(level))), KeysIn(f.ents))
        BY <1>1, <4>1, RestBesideInputs
      <4>3. e.key \in KeysIn(EntriesIn(Inputs(level))) /\ e.key \in KeysIn(f.ents)
        BY <1>10, <2>3 DEF KeysIn
      <4>4. e.key \in Nat
        BY <1>3, <1>6
      <4> QED BY <4>2, <4>3, <4>4 DEF Overlap
    <3> QED BY <1>3, <3>1, <3>3, <3>4, <3>5
  <2> QED BY <1>4, <1>7, <2>1, <2>2, <2>3
<1>11. s \in Nat
  <2>1. lastSeq \in Nat /\ snapshots \subseteq 0 .. lastSeq
    BY DEF IInv, TypeOK
  <2> QED BY <2>1
<1>12. \A d \in Store : AtMostOldest(d.seq) => d.seq <= s
  BY DEF AtMostOldest, IInv, SeqsBounded
<1>13. \A e \in Store \ Store' :
         \/ \E d \in Store : d.key = e.key /\ d.seq > e.seq /\ d.seq <= s
         \/ e.val = Tombstone /\ \A x \in Store' : x.key = e.key => x.seq > e.seq
  <2> TAKE e \in Store \ Store'
  <2>1. e \in EntriesIn(Inputs(level)) /\ Dropped(level, EntriesIn(Inputs(level)), e)
    BY <1>9 DEF Merged, Kept
  <2>2. CASE \E d \in EntriesIn(Inputs(level)) :
               d.key = e.key /\ d.seq > e.seq /\ AtMostOldest(d.seq)
    BY <1>3, <1>12, <2>2
  <2>3. CASE e.val = Tombstone /\ AtMostOldest(e.seq) /\ IsBaseLevel(level, e.key)
    BY <1>10, <2>1, <2>3
  <2> QED BY <2>1, <2>2, <2>3 DEF Dropped
<1> QED BY <1>4, <1>5, <1>11, <1>13, VisibleKept

LEMMA CompactIInv ==
  ASSUME IInv, CutsAreSafe, NEW level \in Levels, Compact(level)
  PROVE  IInv'
<1> USE LsmAssumption DEF LsmAssumption
<1>1. level < NumLevels - 1
  BY CompactShape
<1>2. PICK C \in Cuts(Merged(level)) : CompactedTo(level, C)
  BY CompactShape
<1> DEFINE out == OutputFiles(Merged(level), C)
<1>3. /\ level + 1 \in Levels
      /\ IsFiniteSet(Merged(level))
      /\ Merged(level) \in SUBSET Entry
      /\ C \in SUBSET Merged(level)
      /\ nextNum \in Nat
      /\ files \in [Levels -> SUBSET File]
  BY <1>1, InputsShape DEF Cuts, IInv, TypeOK
<1>4. /\ out \in SUBSET File
      /\ IsFiniteSet(out)
      /\ \A f \in out : f.num >= nextNum /\ f.ents # {} /\ IsFiniteSet(f.ents)
      /\ \A f, g \in out : f.num = g.num => f = g
  BY <1>3, OutputsWellFormed
<1> HIDE DEF out
<1>5. /\ \A l \in Levels : \A f \in files'[l] :
           f \in files[l] \/ (l = level + 1 /\ f \in out)
      /\ \A f \in out : f.num < nextNum'
      /\ nextNum' \in Nat /\ nextNum' >= nextNum
      /\ UNCHANGED <<mem, lastSeq, snapshots, guard>>
  BY <1>2 DEF CompactedTo, out
<1>6. \A l \in Levels : \A f \in files[l] : f.num < nextNum /\ f.num \in Nat
  BY <1>3 DEF IInv, TypeOK, File
<1>7. TypeOK'
  <2>1. \A l \in Levels : IsFiniteSet(files'[l])
    <3> TAKE l \in Levels
    <3>1. IsFiniteSet(files[l] \cup out)
      BY <1>4, FS_Union DEF IInv, TypeOK
    <3>2. files'[l] \in SUBSET (files[l] \cup out)
      BY <1>5
    <3> QED BY <3>1, <3>2, FS_Subset
  <2>2. \A l \in Levels : \A f \in files'[l] :
          f.num < nextNum' /\ f.ents # {} /\ IsFiniteSet(f.ents)
    <3> SUFFICES ASSUME NEW l \in Levels, NEW f \in files'[l]
                 PROVE  f.num < nextNum' /\ f.ents # {} /\ IsFiniteSet(f.ents)
      OBVIOUS
    <3>1. CASE f \in files[l]
      BY <1>3, <1>5, <1>6, <3>1 DEF IInv, TypeOK
    <3>2. CASE f \in out
      BY <1>4, <1>5, <3>2
    <3> QED BY <1>5, <3>1, <3>2
  <2>3. /\ files' \in [Levels -> SUBSET File]
        /\ pointer' \in [Levels -> Keys \cup {NoKey}]
    BY <1>2 DEF CompactedTo
  <2> QED BY <1>5, <2>1, <2>2, <2>3 DEF IInv, TypeOK
<1>8. NumbersUnique'
  <2> SUFFICES ASSUME NEW i \in Levels, NEW j \in Levels,
                      NEW f \in files'[i], NEW g \in files'[j], f.num = g.num
               PROVE  i = j /\ f = g
    BY DEF NumbersUnique
  <2> QED BY <1>3, <1>4, <1>5, <1>6 DEF IInv, NumbersUnique
<1>9. LevelsDisjoint'
  BY <1>1, <1>2, CompactDisjoint
<1>10. NewerAbove'
  BY <1>1, <1>2, CompactNewerAbove
<1>11. Store' \subseteq Store
  BY <1>1, <1>2, CompactStore
<1>12. SeqsDistinct(Store)' /\ SeqsBounded' /\ SnapshotsNeedGuards'
  BY <1>5, <1>11 DEF IInv, SeqsDistinct, SeqsBounded, SnapshotsNeedGuards
<1> QED BY <1>7, <1>8, <1>9, <1>10, <1>12 DEF IInv

----------------------------------------------------------------------------
(* The theorems *)

LEMMA NextIInv ==
  ASSUME IInv, CutsAreSafe, [Next]_vars
  PROVE  IInv'
<1>1. ASSUME NEW k \in Keys, NEW v \in Values \cup {Tombstone}, Write(k, v)
      PROVE  IInv'
  BY <1>1, WriteIInv
<1>2. ASSUME NEW g \in Guards, NewSnapshot(g) \/ DropGuard(g)
      PROVE  IInv'
  BY <1>2, SnapshotIInv
<1>3. ASSUME NEW level \in Levels, Compact(level)
      PROVE  IInv'
  BY <1>3, CompactIInv
<1>4. CASE Reopen
  BY <1>4, ReopenIInv
<1>5. CASE UNCHANGED vars
  BY <1>5 DEF vars, IInv, TypeOK, SeqsDistinct, SeqsBounded, NumbersUnique, LevelsDisjoint,
              NewerAbove, SnapshotsNeedGuards, Store, EntriesIn
<1> QED BY <1>1, <1>2, <1>3, <1>4, <1>5 DEF Next

\* The inductive invariant holds in every reachable state (db.rs, all operations under
\* the mutex): the invariants below are conjuncts of it.
THEOREM InductiveInvariant == CutsAreSafe => (Spec => []IInv)
<1> SUFFICES ASSUME CutsAreSafe PROVE Spec => []IInv
  OBVIOUS
<1>1. Init => IInv
  BY InitIInv
<1>2. IInv /\ [Next]_vars => IInv'
  BY NextIInv
<1> QED BY <1>1, <1>2, PTL DEF Spec

\* Every file is well formed, and its number was handed out before (FileMeta).
THEOREM TypeCorrect == CutsAreSafe => (Spec => []TypeOK)
<1>1. IInv => TypeOK
  BY DEF IInv
<1> QED BY <1>1, InductiveInvariant, PTL

\* No file number is in use twice (FileNumberGenerator, id_gen.bump_to).
THEOREM FileNumbersAreUnique == CutsAreSafe => (Spec => []NumbersUnique)
<1>1. IInv => NumbersUnique
  BY DEF IInv
<1> QED BY <1>1, InductiveInvariant, PTL

\* Below L0 the files of a level never overlap (version.rs, NUM_LEVELS; the inputs of a
\* compaction are the hull of the picked files).
THEOREM LevelsStayDisjoint == CutsAreSafe => (Spec => []LevelsDisjoint)
<1>1. IInv => LevelsDisjoint
  BY DEF IInv
<1> QED BY <1>1, InductiveInvariant, PTL

\* The newer of two versions of a key is always found first (get_from_sstables looks
\* from the memtable down and stops at the first hit).
THEOREM NewerStaysAbove == CutsAreSafe => (Spec => []NewerAbove)
<1>1. IInv => NewerAbove
  BY DEF IInv
<1> QED BY <1>1, InductiveInvariant, PTL

----------------------------------------------------------------------------
(* LsmTree implements KVStore *)

\* What one more version, the newest, changes for a reader: nothing before it, nothing
\* for another key, and its own value for its key.
LEMMA WriteViews ==
  ASSUME IInv, NEW k \in Keys, NEW v \in Values \cup {Tombstone}, Write(k, v), NEW j \in Keys
  PROVE  /\ \A s \in 0 .. lastSeq : Visible(Store', j, s) = Visible(Store, j, s)
         /\ j # k => Visible(Store', j, lastSeq + 1) = Visible(Store, j, lastSeq)
         /\ v # Tombstone => Visible(Store', k, lastSeq + 1) =
                               {[key |-> k, seq |-> lastSeq + 1, val |-> v]}
         /\ v = Tombstone => Visible(Store', k, lastSeq + 1) = {}
<1> DEFINE e == [key |-> k, seq |-> lastSeq + 1, val |-> v]
<1>1. Store' = Store \cup {e}
  BY WriteIInv
<1>2. e.key = k /\ e.seq = lastSeq + 1 /\ e.val = v
  OBVIOUS
<1> HIDE DEF e
<1>3. /\ lastSeq \in Nat
      /\ \A d \in Store : d.seq \in Nat /\ d.seq <= lastSeq
  BY DEF IInv, SeqsBounded, TypeOK, Store, EntriesIn, File, Entry
<1>4. e \notin Store
  BY <1>2, <1>3
<1>5. ASSUME NEW s \in 0 .. lastSeq
      PROVE  Visible(Store', j, s) = Visible(Store, j, s)
  BY <1>1, <1>2, <1>3 DEF Visible, Newest
<1>6. j # k => Visible(Store', j, lastSeq + 1) = Visible(Store, j, lastSeq)
  BY <1>1, <1>2, <1>3 DEF Visible, Newest
<1>7. Newest(Store', k, lastSeq + 1) = {e}
  BY <1>1, <1>2, <1>3, <1>4 DEF Newest
<1>8. /\ v # Tombstone => Visible(Store', k, lastSeq + 1) = {e}
      /\ v = Tombstone => Visible(Store', k, lastSeq + 1) = {}
  BY <1>2, <1>7 DEF Visible
<1> QED BY <1>5, <1>6, <1>8 DEF e

\* The views a state shows: the latest, and those of the registered snapshots.
Latest == [k \in Keys |-> Read(k, lastSeq)]
Pinned == {[at |-> s, view |-> [k \in Keys |-> Read(k, s)]] : s \in snapshots}

LEMMA WriteImplements ==
  ASSUME IInv, NEW k \in Keys, NEW v \in Values \cup {Tombstone}, Write(k, v)
  PROVE  IF v = Tombstone THEN KV!Delete(k) ELSE KV!Put(k, v)
<1>1. /\ lastSeq \in Nat
      /\ lastSeq' = lastSeq + 1
      /\ snapshots' = snapshots
      /\ snapshots \subseteq 0 .. lastSeq
  BY DEF Write, IInv, TypeOK
<1>2. Latest' = [Latest EXCEPT ![k] = IF v = Tombstone THEN Absent ELSE v]
  <2>1. \A j \in Keys : j # k => Read(j, lastSeq)' = Read(j, lastSeq)
    BY <1>1, WriteViews DEF Read
  <2>2. v = Tombstone => Read(k, lastSeq)' = Absent
    BY <1>1, WriteViews DEF Read, ValueOf
  <2>3. v # Tombstone => Read(k, lastSeq)' = v
    <3> DEFINE e == [key |-> k, seq |-> lastSeq + 1, val |-> v]
    <3>1. v # Tombstone => Read(k, lastSeq)' = ValueOf({e})
      BY <1>1, WriteViews DEF Read
    <3>2. e.val = v
      OBVIOUS
    <3> HIDE DEF e
    <3>3. ValueOf({e}) = e.val
      BY DEF ValueOf
    <3> QED BY <3>1, <3>2, <3>3
  <2> QED BY <2>1, <2>2, <2>3 DEF Latest
<1>3. Pinned' = Pinned
  <2>1. \A s \in snapshots : [j \in Keys |-> Read(j, s)]' = [j \in Keys |-> Read(j, s)]
    BY <1>1, WriteViews DEF Read
  <2> QED BY <1>1, <2>1 DEF Pinned
<1> QED BY <1>1, <1>2, <1>3 DEF KV!Delete, KV!Put, Latest, Pinned

LEMMA QuietViews ==
  ASSUME snapshots' \subseteq snapshots, lastSeq' = lastSeq,
         \A k \in Keys, s \in snapshots \cup {lastSeq} :
           Visible(Store', k, s) = Visible(Store, k, s)
  PROVE  /\ Latest' = Latest
         /\ Pinned' = {p \in Pinned : p.at \in snapshots'}
<1>1. \A k \in Keys, s \in snapshots \cup {lastSeq} : Read(k, s)' = Read(k, s)
  BY DEF Read
<1>2. Latest' = Latest
  BY <1>1 DEF Latest
<1>3. Pinned' = {[at |-> s, view |-> [k \in Keys |-> Read(k, s)]] : s \in snapshots'}
  BY <1>1 DEF Pinned
<1> QED BY <1>2, <1>3 DEF Pinned

LEMMA SnapshotImplements ==
  ASSUME IInv, NEW g \in Guards, NewSnapshot(g) \/ DropGuard(g)
  PROVE  [KV!Next]_(KV!vars)
<1>1. Store' = Store /\ lastSeq' = lastSeq
  BY SnapshotIInv DEF NewSnapshot, DropGuard
<1>2. Latest' = Latest
  BY <1>1 DEF Latest, Read
<1>3. CASE NewSnapshot(g)
  <2>1. Pinned' = Pinned \cup {[at |-> lastSeq, view |-> Latest]}
    BY <1>1, <1>3 DEF Pinned, Latest, Read, NewSnapshot
  <2> QED BY <1>1, <1>2, <2>1 DEF KV!Next, KV!NewSnapshot, Latest, Pinned
<1>4. CASE DropGuard(g)
  <2> DEFINE p == [at |-> guard[g], view |-> [k \in Keys |-> Read(k, guard[g])]]
  <2>1. snapshots' = snapshots \ {guard[g]}
    BY <1>4 DEF DropGuard
  <2>2. Pinned' = Pinned \ {p}
    BY <1>1, <2>1 DEF Pinned, Read
  <2>3. CASE guard[g] \in snapshots
    <3>1. p \in Pinned
      BY <2>3 DEF Pinned
    <3> HIDE DEF p
    <3> QED BY <1>1, <1>2, <2>2, <3>1 DEF KV!Next, KV!ReleaseSnapshot, Latest, Pinned
  <2>4. CASE guard[g] \notin snapshots
    <3>1. Pinned' = Pinned
      BY <1>1, <2>1, <2>4 DEF Pinned, Read
    <3> QED BY <1>1, <1>2, <3>1 DEF KV!vars, Latest, Pinned
  <2> QED BY <2>3, <2>4
<1> QED BY <1>3, <1>4

LEMMA ReopenImplements ==
  ASSUME IInv, Reopen
  PROVE  KV!Reopen
<1>1. Store' = Store /\ lastSeq' = lastSeq /\ snapshots' = {}
  BY ReopenIInv DEF Reopen
<1>2. Latest' = Latest /\ Pinned' = {}
  BY <1>1 DEF Latest, Pinned, Read
<1> QED BY <1>1, <1>2 DEF KV!Reopen, Latest, Pinned

LEMMA CompactImplements ==
  ASSUME IInv, NEW level \in Levels, Compact(level)
  PROVE  UNCHANGED KV!vars
<1>1. snapshots' = snapshots /\ lastSeq' = lastSeq
  BY DEF Compact
<1>2. \A k \in Keys, s \in snapshots \cup {lastSeq} :
        Visible(Store', k, s) = Visible(Store, k, s)
  BY CompactViews
<1>3. Latest' = Latest /\ Pinned' = {p \in Pinned : p.at \in snapshots}
  BY <1>1, <1>2, QuietViews
<1>4. Pinned' = Pinned
  BY <1>3 DEF Pinned
<1> QED BY <1>1, <1>3, <1>4 DEF KV!vars, Latest, Pinned

LEMMA InitImplements == Init => KV!Init
<1> SUFFICES ASSUME Init PROVE KV!Init
  OBVIOUS
<1>1. Store = {}
  BY DEF Init, Store, EntriesIn, Levels
<1>2. \A k \in Keys : Read(k, lastSeq) = Absent
  BY <1>1 DEF Read, Visible, Newest, ValueOf
<1> QED BY <1>2 DEF Init, KV!Init

\* The database is the abstract store for every reader: whatever flushes, compactions
\* and restarts do, the latest view and the views of registered snapshots move only by
\* puts and deletes (Db::get_at, Db::new_iterator_at).
THEOREM Implementation == CutsAreSafe => (Spec => ImplementsKVStore)
<1> SUFFICES ASSUME CutsAreSafe PROVE Spec => ImplementsKVStore
  OBVIOUS
<1>1. Init => KV!Init
  BY InitImplements
<1>2. IInv /\ [Next]_vars => [KV!Next]_(KV!vars)
  <2> SUFFICES ASSUME IInv, [Next]_vars PROVE [KV!Next]_(KV!vars)
    OBVIOUS
  <2>1. ASSUME NEW k \in Keys, NEW v \in Values \cup {Tombstone}, Write(k, v)
        PROVE  KV!Next
    <3>1. IF v = Tombstone THEN KV!Delete(k) ELSE KV!Put(k, v)
      BY <2>1, WriteImplements
    <3> QED BY <3>1 DEF KV!Next
  <2>2. ASSUME NEW g \in Guards, NewSnapshot(g) \/ DropGuard(g)
        PROVE  [KV!Next]_(KV!vars)
    BY <2>2, SnapshotImplements
  <2>3. ASSUME NEW level \in Levels, Compact(level)
        PROVE  UNCHANGED KV!vars
    BY <2>3, CompactImplements
  <2>4. CASE Reopen
    BY <2>4, ReopenImplements DEF KV!Next
  <2>5. CASE UNCHANGED vars
    BY <2>5 DEF vars, KV!vars, Read, Visible, Newest, Store, EntriesIn
  <2> QED BY <2>1, <2>2, <2>3, <2>4, <2>5 DEF Next
<1> QED BY <1>1, <1>2, InductiveInvariant, PTL DEF Spec, ImplementsKVStore, KV!Spec

----------------------------------------------------------------------------
(* What does hold of the comments that the code does not keep in general *)

\* A step that writes nothing changes no latest value and no view of a registered snapshot.
LEMMA QuietReads ==
  ASSUME IInv, [Next]_vars, lastSeq' = lastSeq,
         NEW k \in Keys, NEW s \in snapshots \cup {lastSeq}
  PROVE  Read(k, s)' = Read(k, s)
<1>1. ASSUME NEW j \in Keys, NEW v \in Values \cup {Tombstone}, Write(j, v)
      PROVE  FALSE
  BY <1>1 DEF Write, IInv, TypeOK
<1>2. ASSUME NEW g \in Guards, NewSnapshot(g) \/ DropGuard(g)
      PROVE  Store' = Store
  BY <1>2, SnapshotIInv
<1>3. ASSUME NEW level \in Levels, Compact(level)
      PROVE  Visible(Store', k, s) = Visible(Store, k, s)
  BY <1>3, CompactViews
<1>4. CASE Reopen
  BY <1>4, ReopenIInv DEF Read
<1>5. CASE UNCHANGED vars
  BY <1>5 DEF vars, Read, Visible, Newest, Store, EntriesIn
<1> QED BY <1>1, <1>2, <1>3, <1>4, <1>5 DEF Next, Read

\* Where no cut separates two versions of a key, a Delete that a compaction drops leaves
\* nothing to come back (the comment at is_base_level_for_user_key).
THEOREM DeletesStayDeleted == CutsAreSafe => (Spec => NoResurrection)
<1>1. IInv /\ [Next]_vars =>
        [lastSeq' = lastSeq => \A k \in Keys : Read(k, lastSeq)' = Read(k, lastSeq)]_vars
  <2> SUFFICES ASSUME IInv, [Next]_vars, lastSeq' = lastSeq, NEW k \in Keys
               PROVE  Read(k, lastSeq)' = Read(k, lastSeq)
    OBVIOUS
  <2> QED BY QuietReads DEF Read
<1> QED BY <1>1, InductiveInvariant, PTL DEF Spec, NoResurrection

\* Two handles of one number share one registration, which the first to go takes with it:
\* what a handle holds is proved where live handles differ in their numbers.
GuardsDiffer ==
  \A g, h \in Guards : guard[g] # NoSnapshot /\ guard[g] = guard[h] => g = h

\* The registration of a live handle is there.
GuardsHeld == \A g \in Guards : guard[g] # NoSnapshot => guard[g] \in snapshots

LEMMA GuardsKept ==
  ASSUME IInv, GuardsDiffer, GuardsHeld,
         NEW g \in Guards, NewSnapshot(g) \/ DropGuard(g)
  PROVE  GuardsHeld'
<1>1. guard \in [Guards -> (0 .. lastSeq) \cup {NoSnapshot}]
  BY DEF IInv, TypeOK
<1>2. CASE NewSnapshot(g)
  BY <1>1, <1>2 DEF NewSnapshot, GuardsHeld
<1>3. CASE DropGuard(g)
  BY <1>1, <1>3 DEF DropGuard, GuardsHeld, GuardsDiffer
<1> QED BY <1>2, <1>3

LEMMA NextGuards ==
  ASSUME IInv, GuardsDiffer, GuardsHeld, [Next]_vars
  PROVE  GuardsHeld'
<1>1. CASE UNCHANGED <<guard, snapshots>>
  BY <1>1 DEF GuardsHeld
<1>2. ASSUME NEW k \in Keys, NEW v \in Values \cup {Tombstone}, Write(k, v)
      PROVE  UNCHANGED <<guard, snapshots>>
  BY <1>2 DEF Write
<1>3. ASSUME NEW level \in Levels, Compact(level)
      PROVE  UNCHANGED <<guard, snapshots>>
  BY <1>3 DEF Compact
<1>4. CASE Reopen
  BY <1>4 DEF Reopen, GuardsHeld
<1> QED BY <1>1, <1>2, <1>3, <1>4, GuardsKept DEF Next, vars

\* While a handle is alive, no step changes what it reads: neither a write nor a
\* compaction, as long as no other live handle has its number (SnapshotGuard).
THEOREM HeldViewsAreStable == CutsAreSafe => (Spec /\ []GuardsDiffer => GuardViewStable)
<1> SUFFICES ASSUME CutsAreSafe PROVE Spec /\ []GuardsDiffer => GuardViewStable
  OBVIOUS
<1>1. Init => GuardsHeld
  BY DEF Init, GuardsHeld
<1>2. IInv /\ GuardsDiffer /\ GuardsHeld /\ [Next]_vars => GuardsHeld'
  BY NextGuards
<1> DEFINE Stable == \A g \in Guards : guard[g] # NoSnapshot /\ guard'[g] = guard[g] =>
                       \A k \in Keys : Read(k, guard[g])' = Read(k, guard[g])
<1>3. IInv /\ GuardsHeld /\ [Next]_vars => [Stable]_vars
  <2> SUFFICES ASSUME IInv, GuardsHeld, [Next]_vars,
                      NEW g \in Guards, guard[g] # NoSnapshot, guard'[g] = guard[g],
                      NEW k \in Keys
               PROVE  Read(k, guard[g])' = Read(k, guard[g])
    OBVIOUS
  <2>1. guard[g] \in snapshots /\ snapshots \subseteq 0 .. lastSeq
    BY DEF GuardsHeld, IInv, TypeOK
  <2>2. ASSUME NEW j \in Keys, NEW v \in Values \cup {Tombstone}, Write(j, v)
        PROVE  Visible(Store', k, guard[g]) = Visible(Store, k, guard[g])
    BY <2>1, <2>2, WriteViews
  <2>3. lastSeq' # lastSeq => \E j \in Keys, v \in Values \cup {Tombstone} : Write(j, v)
    BY DEF Next, NewSnapshot, DropGuard, Compact, Reopen, vars
  <2>4. CASE lastSeq' = lastSeq
    BY <2>1, <2>4, QuietReads DEF Read
  <2>5. CASE lastSeq' # lastSeq
    BY <2>2, <2>3, <2>5 DEF Read
  <2> QED BY <2>4, <2>5
<1> QED BY <1>1, <1>2, <1>3, InductiveInvariant, PTL DEF Spec, GuardViewStable

----------------------------------------------------------------------------
(* Without snapshots, merging leaves nothing behind *)

\* With no snapshot the merge keeps one version of a key, and no Delete where the output
\* is the last level.
LEMMA MergedOnce ==
  ASSUME IInv, Guards = {}, NEW level \in Levels, level < NumLevels - 1
  PROVE  /\ \A a, b \in Merged(level) : a.key = b.key => a = b
         /\ level + 1 = NumLevels - 1 => \A a \in Merged(level) : a.val # Tombstone
<1>1. snapshots = {}
  BY DEF IInv, SnapshotsNeedGuards
<1>2. \A a, b \in Merged(level) : a.key = b.key => ~(a.seq > b.seq)
  BY <1>1, InputsShape DEF Merged, Kept, Dropped, AtMostOldest
<1>3. \A a, b \in Merged(level) : a.seq \in Nat /\ (a.seq = b.seq => a = b)
  BY InputsShape DEF SeqsDistinct, Entry
<1>4. \A a, b \in Merged(level) : a.key = b.key => a = b
  BY <1>2, <1>3
<1>5. ASSUME level + 1 = NumLevels - 1, NEW a \in Merged(level)
      PROVE  a.val # Tombstone
  <2>1. level + 2 .. NumLevels - 1 = {}
    BY <1>5, LsmAssumption DEF LsmAssumption, Levels
  <2>2. IsBaseLevel(level, a.key) /\ AtMostOldest(a.seq)
    BY <1>1, <2>1 DEF IsBaseLevel, AtMostOldest
  <2> QED BY <2>2 DEF Merged, Kept, Dropped
<1> QED BY <1>4, <1>5

LEMMA CompactCollects ==
  ASSUME IInv, Guards = {}, GarbageCollected, NEW level \in Levels, Compact(level)
  PROVE  GarbageCollected'
<1> USE LsmAssumption DEF LsmAssumption
<1>1. level < NumLevels - 1
  BY CompactShape
<1>2. PICK C \in Cuts(Merged(level)) : CompactedTo(level, C)
  BY CompactShape
<1> DEFINE rest == files[level + 1] \ OverlappedFiles(level)
<1>3. /\ level \in Nat
      /\ level + 1 \in Levels
      /\ EntriesIn(OutputFiles(Merged(level), C)) = Merged(level)
  BY <1>1, <1>2, InputsShape, CompactStore
<1>4. /\ \A l \in Levels \ {level + 1} : EntriesIn(files'[l]) \subseteq EntriesIn(files[l])
      /\ EntriesIn(files'[level + 1]) = EntriesIn(rest) \cup Merged(level)
  BY <1>2, <1>3 DEF CompactedTo, EntriesIn
<1>5. EntriesIn(rest) \subseteq EntriesIn(files[level + 1])
  BY DEF EntriesIn
<1>6. ASSUME NEW a \in EntriesIn(rest), NEW b \in Merged(level)
      PROVE  a.key # b.key
  <2>1. PICK g \in rest : a \in g.ents
    BY DEF EntriesIn
  <2>2. ~Overlap(KeysIn(EntriesIn(Inputs(level))), KeysIn(g.ents))
    BY <1>1, <2>1, RestBesideInputs
  <2>3. b \in EntriesIn(Inputs(level)) /\ b \in Entry
    BY <1>1, InputsShape DEF Merged, Kept
  <2>4. b.key \in Nat
    BY <2>3 DEF Entry
  <2>5. b.key \in KeysIn(EntriesIn(Inputs(level))) /\ a.key \in KeysIn(g.ents)
    BY <2>1, <2>3 DEF KeysIn
  <2> QED BY <2>2, <2>4, <2>5 DEF Overlap
<1>7. /\ \A a, b \in Merged(level) : a.key = b.key => a = b
      /\ level + 1 = NumLevels - 1 => \A a \in Merged(level) : a.val # Tombstone
  BY <1>1, MergedOnce
<1>8. /\ \A l \in Levels \ {0} : \A a, b \in EntriesIn(files[l]) : a.key = b.key => a = b
      /\ \A a \in EntriesIn(files[NumLevels - 1]) : a.val # Tombstone
  BY DEF GarbageCollected
<1> HIDE DEF rest
<1>9. \A l \in Levels \ {0} : \A a, b \in EntriesIn(files'[l]) : a.key = b.key => a = b
  <2> TAKE l \in Levels \ {0}
  <2>1. CASE l = level + 1
    BY <1>4, <1>5, <1>6, <1>7, <1>8, <2>1
  <2>2. CASE l # level + 1
    BY <1>4, <1>8, <2>2
  <2> QED BY <2>1, <2>2
<1>10. \A a \in EntriesIn(files'[NumLevels - 1]) : a.val # Tombstone
  <2>1. NumLevels - 1 \in Levels
    BY DEF Levels
  <2>2. CASE NumLevels - 1 = level + 1
    BY <1>4, <1>5, <1>7, <1>8, <2>2
  <2>3. CASE NumLevels - 1 # level + 1
    BY <1>4, <1>8, <2>1, <2>3
  <2> QED BY <2>2, <2>3
<1> QED BY <1>9, <1>10 DEF GarbageCollected

\* A database whose users take no snapshots keeps one version of a key in a deeper level
\* and no Delete in the last (do_compaction's drop rule, is_base_level_for_user_key).
THEOREM GarbageIsCollected == Spec => []GarbageCollected
<1>1. CASE Guards = {}
  <2>1. CutsAreSafe
    BY <1>1 DEF CutsAreSafe
  <2>2. Init => GarbageCollected
    BY LsmAssumption DEF Init, GarbageCollected, EntriesIn, Levels, LsmAssumption
  <2>3. IInv /\ GarbageCollected /\ [Next]_vars => GarbageCollected'
    <3> SUFFICES ASSUME IInv, GarbageCollected, [Next]_vars PROVE GarbageCollected'
      OBVIOUS
    <3>1. ASSUME \A level \in Levels \ {0} : files'[level] = files[level]
          PROVE  GarbageCollected'
      <4>1. NumLevels - 1 \in Levels \ {0}
        BY LsmAssumption DEF LsmAssumption, Levels
      <4> QED BY <3>1, <4>1 DEF GarbageCollected
    <3>2. files \in [Levels -> SUBSET File]
      BY DEF IInv, TypeOK
    <3>3. ASSUME NEW k \in Keys, NEW v \in Values \cup {Tombstone}, Write(k, v)
          PROVE  \A level \in Levels \ {0} : files'[level] = files[level]
      BY <3>2, <3>3 DEF Write, FlushOf
    <3>4. CASE Reopen
      <4>1. \A level \in Levels \ {0} : files'[level] = files[level]
        BY <3>2, <3>4 DEF Reopen, FlushOf
      <4> QED BY <3>1, <4>1
    <3>5. ASSUME NEW level \in Levels, Compact(level)
          PROVE  GarbageCollected'
      BY <1>1, <3>5, CompactCollects
    <3>6. CASE UNCHANGED vars
      BY <3>1, <3>6 DEF vars
    <3> QED BY <1>1, <3>1, <3>3, <3>4, <3>5, <3>6 DEF Next
  <2> QED BY <2>1, <2>2, <2>3, InductiveInvariant, PTL DEF Spec
<1>2. CASE Guards # {}
  <2>1. GarbageCollected
    BY <1>2 DEF GarbageCollected
  <2> QED BY <2>1, PTL
<1> QED BY <1>1, <1>2

----------------------------------------------------------------------------
(* Point reads at rest: one set of entries *)

\* Where a reader sees some version of a key, it sees a newest one.
LEMMA NewestExists ==
  ASSUME NEW S \in SUBSET Entry, NEW k \in Keys, NEW s \in Nat,
         NEW e \in S, e.key = k, e.seq <= s
  PROVE  Newest(S, k, s) # {}
<1> DEFINE A == {d.seq : d \in {g \in S : g.key = k /\ g.seq <= s}}
<1>1. A \in SUBSET (0 .. s) /\ A # {}
  BY DEF Entry
<1>2. A \in SUBSET Nat
  BY <1>1
<1>3. IsFiniteSet(0 .. s)
  BY FS_Interval
<1>4. IsFiniteSet(A)
  BY <1>1, <1>3, FS_Subset
<1>5. PICK m \in A : \A a \in A : a <= m
  <2> HIDE DEF A
  <2> QED BY <1>1, <1>2, <1>4, MaxExists
<1>6. PICK d \in S : d.key = k /\ d.seq <= s /\ d.seq = m
  OBVIOUS
<1>7. d \in Newest(S, k, s)
  BY <1>5, <1>6 DEF Newest
<1> QED BY <1>7

----------------------------------------------------------------------------
(* Point reads at rest: one level *)

\* In L0 the first file with a hit, from the newest on, has the newest version.
LEMMA TopLevelSearch ==
  ASSUME IInv, NEW k \in Keys, NEW s \in Nat
  PROVE  FirstHit(files[0], k, s) = Newest(EntriesIn(files[0]), k, s)
<1> USE LsmAssumption DEF LsmAssumption
<1>1. /\ 0 \in Levels
      /\ \A f \in files[0] : f.num \in Nat /\ f.ents \in SUBSET Entry
  BY DEF IInv, TypeOK, File, Levels
<1>2. \A d \in EntriesIn(files[0]) : d.seq \in Nat
  BY <1>1 DEF EntriesIn, Entry
<1>3. ASSUME NEW e \in FirstHit(files[0], k, s)
      PROVE  e \in Newest(EntriesIn(files[0]), k, s)
  <2>1. PICK f \in files[0] : /\ e \in Newest(f.ents, k, s)
                              /\ \A g \in files[0] : g.num > f.num => Newest(g.ents, k, s) = {}
    BY <1>3 DEF FirstHit
  <2>2. e \in f.ents /\ e \in EntriesIn(files[0]) /\ e.key = k /\ e.seq <= s
    BY <2>1 DEF Newest, EntriesIn
  <2>3. ASSUME NEW d \in EntriesIn(files[0]), d.key = k, d.seq <= s
        PROVE  d.seq <= e.seq
    <3>1. PICK g \in files[0] : d \in g.ents
      BY DEF EntriesIn
    <3>2. CASE g.num > f.num
      BY <1>1, <2>1, <2>3, <3>1, <3>2, NewestExists
    <3>3. CASE g.num = f.num
      <4>1. g = f
        BY <1>1, <3>3 DEF IInv, NumbersUnique
      <4> QED BY <2>1, <2>3, <3>1, <4>1 DEF Newest
    <3>4. CASE f.num > g.num
      <4>1. e.seq > d.seq
        BY <2>2, <2>3, <3>1, <3>4 DEF IInv, NewerAbove
      <4> QED BY <1>2, <2>2, <4>1
    <3> QED BY <1>1, <3>2, <3>3, <3>4
  <2> QED BY <2>2, <2>3 DEF Newest
<1>4. ASSUME NEW e \in Newest(EntriesIn(files[0]), k, s)
      PROVE  e \in FirstHit(files[0], k, s)
  <2>1. PICK f \in files[0] : e \in f.ents
    BY <1>4 DEF Newest, EntriesIn
  <2>2. e \in Newest(f.ents, k, s)
    BY <1>4, <2>1 DEF Newest, EntriesIn
  <2>3. ASSUME NEW g \in files[0], g.num > f.num, NEW d \in Newest(g.ents, k, s)
        PROVE  FALSE
    <3>1. d \in g.ents /\ d \in EntriesIn(files[0]) /\ d.key = k /\ d.seq <= s
      BY <2>3 DEF Newest, EntriesIn
    <3>2. d.seq <= e.seq /\ e.key = k
      BY <1>4, <3>1 DEF Newest
    <3>3. d.seq > e.seq
      BY <2>1, <2>3, <3>1, <3>2 DEF IInv, NewerAbove
    <3> QED BY <1>2, <2>1, <3>1, <3>2, <3>3 DEF EntriesIn
  <2> QED BY <2>1, <2>2, <2>3 DEF FirstHit
<1> QED BY <1>3, <1>4

\* The binary search over a sorted list lands on the file that has the key.
LEMMA SearchLands ==
  ASSUME IInv, ListsSorted, NEW level \in Levels \ {0}, NEW k \in Keys,
         NEW f \in files[level], NEW x \in f.ents, x.key = k
  PROVE  Probes(level, k) = {{f}}
<1> USE LsmAssumption DEF LsmAssumption
<1>1. /\ level \in Levels
      /\ k \in Nat
      /\ \A g \in files[level] :
           /\ g.num \in Nat
           /\ \A y \in g.ents : y.key \in Nat
           /\ g.ents # {}
  <2>1. \A g \in files[level] : g \in File /\ g.ents # {}
    BY DEF IInv, TypeOK
  <2>2. \A e \in Entry : e.key \in Nat
    BY DEF Entry
  <2> QED BY <2>1, <2>2 DEF File
<1>2. \A g \in files[level] : g.num = f.num => g = f
  BY <1>1 DEF IInv, NumbersUnique
<1>3. \A g \in files[level] : g.num < f.num => \A y \in g.ents : y.key < k
  BY DEF ListsSorted
<1>4. \A g \in files[level] : f.num < g.num => \A y \in g.ents : k < y.key
  BY DEF ListsSorted
<1>5. \A g \in files[level] : g.num <= f.num => StartsBy(g, k)
  BY <1>1, <1>2, <1>3 DEF StartsBy, KeysIn
<1>6. \A g \in files[level] : f.num < g.num => ~StartsBy(g, k)
  BY <1>1, <1>4 DEF StartsBy, KeysIn
<1>7. f \in MayLandOn(level, k)
  BY <1>1, <1>5, <1>6 DEF MayLandOn, NextInList
<1>8. ASSUME NEW h \in MayLandOn(level, k)
      PROVE  h = f
  <2>1. h \in files[level] /\ StartsBy(h, k)
    BY DEF MayLandOn
  <2>2. CASE h.num < f.num
    <3> DEFINE A == {g.num : g \in {i \in files[level] : h.num < i.num}}
    <3>1. A \in SUBSET Nat /\ f.num \in A
      BY <1>1, <2>2
    <3>2. PICK m \in A : \A a \in A : m <= a
      <4> HIDE DEF A
      <4> QED BY <3>1, MinExists
    <3>3. PICK g \in files[level] : h.num < g.num /\ g.num = m
      OBVIOUS
    <3>4. NextInList(level, h, g)
      BY <1>1, <2>1, <3>2, <3>3 DEF NextInList
    <3>5. g.num <= f.num
      BY <3>1, <3>2, <3>3
    <3> HIDE DEF A
    <3> QED BY <1>5, <3>3, <3>4, <3>5 DEF MayLandOn
  <2>3. CASE f.num < h.num
    BY <1>6, <2>1, <2>3
  <2> QED BY <1>1, <1>2, <2>1, <2>2, <2>3
<1>9. ~MayLandBefore(level, k)
  <2> DEFINE A == {g.num : g \in files[level]}
  <2>1. A \in SUBSET Nat /\ A # {}
    BY <1>1
  <2>2. PICK m \in A : \A a \in A : m <= a
    <3> HIDE DEF A
    <3> QED BY <2>1, MinExists
  <2>3. PICK g \in files[level] : g.num = m
    OBVIOUS
  <2>4. \A h \in files[level] : g.num <= h.num
    BY <2>2, <2>3
  <2> HIDE DEF A
  <2> QED BY <1>5, <2>3, <2>4 DEF MayLandBefore
<1> QED BY <1>7, <1>8, <1>9 DEF Probes

\* Where no file has the key the search still ends somewhere.
LEMMA SearchEnds ==
  ASSUME IInv, NEW level \in Levels \ {0}, NEW k \in Keys
  PROVE  Probes(level, k) # {}
<1> USE LsmAssumption DEF LsmAssumption
<1>1. IsFiniteSet(files[level]) /\ \A g \in files[level] : g.num \in Nat
  BY DEF IInv, TypeOK, File
<1>2. CASE \A g \in files[level] : ~StartsBy(g, k)
  BY <1>2 DEF MayLandBefore, Probes
<1>3. CASE \E g \in files[level] : StartsBy(g, k)
  <2> DEFINE G == {g \in files[level] : StartsBy(g, k)}
             A == {g.num : g \in G}
  <2>1. A \in SUBSET Nat /\ A # {}
    BY <1>1, <1>3
  <2>2. IsFiniteSet(A)
    <3>1. IsFiniteSet(G)
      BY <1>1, FS_Subset
    <3> DEFINE num == [g \in G |-> g.num]
    <3>2. num \in Surjection(G, A)
      BY DEF Surjection
    <3> HIDE DEF G, A, num
    <3> QED BY <3>1, <3>2, FS_Surjection
  <2>3. PICK m \in A : \A a \in A : a <= m
    <3> HIDE DEF A
    <3> QED BY <2>1, <2>2, MaxExists
  <2>4. PICK f \in files[level] : StartsBy(f, k) /\ f.num = m
    OBVIOUS
  <2>5. \A g \in files[level] : f.num < g.num => ~StartsBy(g, k)
    <3>1. \A g \in files[level] : StartsBy(g, k) => g.num <= f.num
      BY <2>3, <2>4
    <3> HIDE DEF A
    <3> QED BY <1>1, <3>1
  <2>6. f \in MayLandOn(level, k)
    BY <2>4, <2>5 DEF MayLandOn, NextInList
  <2>7. {f} \in {{g} : g \in MayLandOn(level, k)}
    BY <2>6
  <2> QED BY <2>7 DEF Probes
<1> QED BY <1>2, <1>3

\* What a search of one level returns is the newest version that the level has.
LEMMA LevelSearch ==
  ASSUME IInv, ListsSorted, NEW level \in Levels, NEW k \in Keys, NEW s \in Nat
  PROVE  /\ Probes(level, k) # {}
         /\ \A F \in Probes(level, k) :
              FirstHit(F, k, s) = Newest(EntriesIn(files[level]), k, s)
<1>1. CASE level = 0
  BY <1>1, TopLevelSearch DEF Probes
<1>2. CASE level # 0 /\ \E f \in files[level] : \E x \in f.ents : x.key = k
  <2>1. PICK f \in files[level] : \E x \in f.ents : x.key = k
    BY <1>2
  <2>2. level \in Levels \ {0}
    BY <1>2
  <2>3. Probes(level, k) = {{f}}
    BY <2>1, <2>2, SearchLands
  <2>4. f.num \in Nat
    BY DEF IInv, TypeOK, File
  <2>5. FirstHit({f}, k, s) = Newest(f.ents, k, s)
    BY <2>4 DEF FirstHit
  <2>6. \A e \in EntriesIn(files[level]) : e.key = k => e \in f.ents
    BY <2>1, <2>2, OneFilePerKey DEF EntriesIn
  <2>7. f.ents \subseteq EntriesIn(files[level])
    BY DEF EntriesIn
  <2>8. Newest(f.ents, k, s) = Newest(EntriesIn(files[level]), k, s)
    BY <2>6, <2>7 DEF Newest
  <2> QED BY <2>3, <2>5, <2>8
<1>3. CASE level # 0 /\ \A f \in files[level] : \A x \in f.ents : x.key # k
  <2>1. Newest(EntriesIn(files[level]), k, s) = {}
    BY <1>3 DEF Newest, EntriesIn
  <2>2. \A F \in Probes(level, k) : F \subseteq files[level]
    BY <1>3 DEF Probes, MayLandOn
  <2>3. \A F \in Probes(level, k) : FirstHit(F, k, s) = {}
    BY <1>3, <2>2 DEF FirstHit, Newest
  <2>4. Probes(level, k) # {}
    BY <1>3, SearchEnds
  <2> QED BY <2>1, <2>3, <2>4
<1> QED BY <1>1, <1>2, <1>3

----------------------------------------------------------------------------
(* Point reads at rest: from the memtable down *)

\* Each level returns its newest version, so the first that is found is the newest of all.
LEMMA TopDown ==
  ASSUME IInv, ListsSorted, NEW k \in Keys, NEW s \in Nat
  PROVE  /\ \A e : MayReturn(k, s, e) <=> e \in Newest(Store, k, s)
         /\ MayMiss(k, s) <=> Newest(Store, k, s) = {}
<1> DEFINE L(level) == Newest(EntriesIn(files[level]), k, s)
           M == Newest(mem, k, s)
<1>1. \A level \in Levels : level \in Nat
  BY DEF Levels
<1>2. /\ mem \in SUBSET Entry
      /\ \A level \in Levels : EntriesIn(files[level]) \in SUBSET Entry
      /\ \A e \in Entry : e.seq \in Nat
  BY DEF IInv, TypeOK, EntriesIn, File, Entry
<1>3. \A level \in Levels : \A a \in mem, b \in EntriesIn(files[level]) :
        a.key = b.key => a.seq > b.seq
  BY DEF IInv, NewerAbove
<1>4. \A i, j \in Levels : i < j =>
        \A a \in EntriesIn(files[i]), b \in EntriesIn(files[j]) :
          a.key = b.key => a.seq > b.seq
  BY DEF IInv, NewerAbove
<1>5. \A level \in Levels :
        /\ Probes(level, k) # {}
        /\ \A F \in Probes(level, k) : FirstHit(F, k, s) = L(level)
  BY LevelSearch
<1>6. \A e : MayReturn(k, s, e) <=>
               \/ e \in M
               \/ M = {} /\ \E level \in Levels :
                              /\ e \in L(level)
                              /\ \A above \in 0 .. level - 1 : L(above) = {}
  <2>1. \A level \in Levels : \A above \in 0 .. level - 1 : above \in Levels
    BY LsmAssumption DEF LsmAssumption, Levels
  <2> HIDE DEF L
  <2> QED BY <1>5, <2>1 DEF MayReturn
<1>7. MayMiss(k, s) <=> M = {} /\ \A level \in Levels : L(level) = {}
  <2> HIDE DEF L
  <2> QED BY <1>5 DEF MayMiss
<1>8. /\ \A level \in Levels : \A d \in EntriesIn(files[level]) :
           d.key = k /\ d.seq <= s => L(level) # {}
      /\ \A d \in mem : d.key = k /\ d.seq <= s => M # {}
  BY <1>2, NewestExists
<1>9. \A d : d \in Store <=> d \in mem \/ \E level \in Levels : d \in EntriesIn(files[level])
  BY DEF Store
<1>10. ASSUME NEW e \in M PROVE e \in Newest(Store, k, s)
  <2>1. e \in mem /\ e.key = k /\ e.seq <= s
    BY DEF Newest
  <2>2. ASSUME NEW d \in Store, d.key = k, d.seq <= s PROVE d.seq <= e.seq
    <3>1. CASE d \in mem
      BY <2>2, <3>1 DEF Newest
    <3>2. CASE \E level \in Levels : d \in EntriesIn(files[level])
      <4>1. e.seq > d.seq /\ e.seq \in Nat /\ d.seq \in Nat
        BY <1>2, <1>3, <2>1, <2>2, <3>2
      <4> QED BY <4>1
    <3> QED BY <1>9, <3>1, <3>2
  <2> QED BY <1>9, <2>1, <2>2 DEF Newest
<1>11. ASSUME M = {}, NEW level \in Levels, NEW e \in L(level),
              \A above \in 0 .. level - 1 : L(above) = {}
       PROVE  e \in Newest(Store, k, s)
  <2>1. e \in EntriesIn(files[level]) /\ e.key = k /\ e.seq <= s
    BY DEF Newest
  <2>2. ASSUME NEW d \in Store, d.key = k, d.seq <= s PROVE d.seq <= e.seq
    <3>1. d \notin mem
      BY <1>8, <1>11, <2>2
    <3>2. PICK l \in Levels : d \in EntriesIn(files[l])
      BY <1>9, <3>1
    <3>3. CASE l < level
      <4>1. l \in 0 .. level - 1
        BY <1>1, <3>3
      <4> QED BY <1>8, <1>11, <2>2, <3>2, <4>1
    <3>4. CASE l = level
      BY <2>2, <3>2, <3>4 DEF Newest
    <3>5. CASE level < l
      <4>1. e.seq > d.seq /\ e.seq \in Nat /\ d.seq \in Nat
        BY <1>2, <1>4, <2>1, <2>2, <3>2, <3>5
      <4> QED BY <4>1
    <3> QED BY <1>1, <3>3, <3>4, <3>5
  <2> QED BY <1>9, <2>1, <2>2 DEF Newest
<1>12. ASSUME NEW e \in Newest(Store, k, s)
       PROVE  \/ e \in M
              \/ M = {} /\ \E level \in Levels :
                             /\ e \in L(level)
                             /\ \A above \in 0 .. level - 1 : L(above) = {}
  <2>1. e \in Store /\ e.key = k /\ e.seq <= s
    BY DEF Newest
  <2>2. \A d \in Store : d.key = k /\ d.seq <= s => d.seq <= e.seq
    BY DEF Newest
  <2>3. CASE e \in mem
    BY <1>9, <2>1, <2>2, <2>3 DEF Newest
  <2>4. ASSUME NEW level \in Levels, e \in EntriesIn(files[level])
        PROVE  /\ M = {}
               /\ e \in L(level)
               /\ \A above \in 0 .. level - 1 : L(above) = {}
    <3>1. e \in L(level)
      BY <1>9, <2>1, <2>2, <2>4 DEF Newest
    <3>2. ASSUME NEW d \in M PROVE FALSE
      <4>1. d \in mem /\ d.key = k /\ d.seq <= s
        BY DEF Newest
      <4>2. d.seq <= e.seq /\ d.seq > e.seq /\ d.seq \in Nat /\ e.seq \in Nat
        BY <1>2, <1>3, <1>9, <2>1, <2>2, <2>4, <4>1
      <4> QED BY <4>2
    <3>3. ASSUME NEW above \in 0 .. level - 1, NEW d \in L(above) PROVE FALSE
      <4>1. d \in EntriesIn(files[above]) /\ d.key = k /\ d.seq <= s
        BY DEF Newest
      <4>2. above \in Levels /\ above < level
        BY LsmAssumption DEF LsmAssumption, Levels
      <4>3. d.seq <= e.seq /\ d.seq > e.seq /\ d.seq \in Nat /\ e.seq \in Nat
        BY <1>2, <1>4, <1>9, <2>1, <2>2, <2>4, <4>1, <4>2
      <4> QED BY <4>3
    <3> QED BY <3>1, <3>2, <3>3
  <2> QED BY <1>9, <2>1, <2>3, <2>4
<1>13. ASSUME M = {}, \A level \in Levels : L(level) = {}
       PROVE  Newest(Store, k, s) = {}
  BY <1>12, <1>13
<1>14. ASSUME Newest(Store, k, s) = {}
       PROVE  M = {} /\ \A level \in Levels : L(level) = {}
  <2>1. ASSUME NEW d \in Store, d.key = k, d.seq <= s PROVE FALSE
    <3>1. Store \in SUBSET Entry
      BY <1>2 DEF Store
    <3> QED BY <1>14, <2>1, <3>1, NewestExists
  <2> QED BY <1>9, <2>1 DEF Newest
<1> HIDE DEF L, M
<1>15. \A e : MayReturn(k, s, e) <=> e \in Newest(Store, k, s)
  BY <1>6, <1>10, <1>11, <1>12
<1>16. MayMiss(k, s) <=> Newest(Store, k, s) = {}
  BY <1>7, <1>13, <1>14
<1> QED BY <1>15, <1>16

LEMMA AgreesWithScan == IInv => GetAgreesWithScan
<1> SUFFICES ASSUME IInv, ListsSorted, NEW k \in Keys, NEW s \in snapshots \cup {lastSeq}
             PROVE  PointReads(k, s) = {Read(k, s)}
  BY DEF GetAgreesWithScan
<1>1. s \in Nat
  BY DEF IInv, TypeOK
<1>2. /\ \A e : MayReturn(k, s, e) <=> e \in Newest(Store, k, s)
      /\ MayMiss(k, s) <=> Newest(Store, k, s) = {}
  BY <1>1, TopDown
<1>3. PointReads(k, s) =
        {ValueOf({e} \ {d \in {e} : d.val = Tombstone}) : e \in Newest(Store, k, s)}
          \cup (IF Newest(Store, k, s) = {} THEN {Absent} ELSE {})
  <2>1. {d \in Store : MayReturn(k, s, d)} = Newest(Store, k, s)
    BY <1>2 DEF Newest
  <2> QED BY <1>2, <2>1 DEF PointReads
<1>4. CASE Newest(Store, k, s) = {}
  <2>1. Read(k, s) = Absent
    BY <1>4 DEF Read, Visible, ValueOf
  <2> QED BY <1>3, <1>4, <2>1
<1>5. ASSUME NEW e \in Newest(Store, k, s)
      PROVE  PointReads(k, s) = {Read(k, s)}
  <2>1. \A d \in Newest(Store, k, s) : d = e
    <3>1. \A d \in Store : d.seq \in Nat
      BY DEF IInv, TypeOK, Store, EntriesIn, File, Entry
    <3>2. SeqsDistinct(Store)
      BY DEF IInv
    <3> QED BY <3>1, <3>2 DEF Newest, SeqsDistinct
  <2>2. Newest(Store, k, s) = {e}
    BY <1>5, <2>1
  <2>3. PointReads(k, s) = {ValueOf({e} \ {d \in {e} : d.val = Tombstone})}
    BY <1>3, <2>2
  <2>4. {e} \ {d \in {e} : d.val = Tombstone} = {d \in {e} : d.val # Tombstone}
    OBVIOUS
  <2>5. Read(k, s) = ValueOf({d \in {e} : d.val # Tombstone})
    BY <2>2 DEF Read, Visible
  <2> QED BY <2>3, <2>4, <2>5
<1> QED BY <1>4, <1>5

\* Where the lists below L0 are sorted, a get returns what a scan shows, for the latest
\* view and for every registered snapshot (get_from_sstables, find_file_for_key).
THEOREM PointReadsAgree == CutsAreSafe => (Spec => []GetAgreesWithScan)
  BY AgreesWithScan, InductiveInvariant, PTL
============================================================================
