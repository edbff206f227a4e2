---------------------------- MODULE BgWorkProofs ----------------------------
(***************************************************************************)
(* L0 never outgrows its limit, and with no more writers than L0 takes     *)
(* files no wake-up of the background thread is lost.                      *)
(***************************************************************************)
EXTENDS BgWork, NumberLemmas

----------------------------------------------------------------------------
(* Scores *)

\* Some level holds something.
HasData == \E level \in Levels : held[level] # {}

\* L0 is empty of files exactly when it is empty of keys.
L0Agrees == l0 > 0 <=> held[0] # {}

LEMMA ProductPositive ==
  ASSUME NEW a \in Nat, NEW b \in Nat \ {0}
  PROVE  a * b \in Nat /\ (a * b > 0 <=> a > 0)
<1>1. CASE a = 0
  BY <1>1
<1>2. CASE a > 0
  <2>1. a - 1 \in Nat /\ a * b = (a - 1) * b + b
    BY <1>2
  <2>2. (a - 1) * b \in Nat
    BY <2>1
  <2> QED BY <1>2, <2>1, <2>2
<1> QED BY <1>1, <1>2

LEMMA ScoreType ==
  ASSUME TypeOK, NEW level \in Levels
  PROVE  /\ Score(level) \in Nat
         /\ level = 0 => (Score(level) > 0 <=> l0 > 0)
         /\ level # 0 => (Score(level) > 0 <=> held[level] # {})
<1> USE BgWorkAssumption DEF BgWorkAssumption
<1>1. CASE level = 0
  <2>1. l0 \in Nat
    BY DEF TypeOK
  <2>2. Power(Multiplier, NumLevels - 1) \in Nat \ {0}
    BY PowerFacts
  <2>3. l0 * Base \in Nat /\ (l0 * Base > 0 <=> l0 > 0)
    BY <2>1, ProductPositive
  <2>4. /\ (l0 * Base) * Power(Multiplier, NumLevels - 1) \in Nat
        /\ (l0 * Base) * Power(Multiplier, NumLevels - 1) > 0 <=> l0 * Base > 0
    BY <2>2, <2>3, ProductPositive
  <2> QED BY <1>1, <2>3, <2>4 DEF Score
<1>2. CASE level # 0
  <2> DEFINE n == Cardinality(held[level])
  <2>1. IsFiniteSet(held[level])
    BY FS_Subset DEF TypeOK
  <2>2. n \in Nat /\ (n > 0 <=> held[level] # {})
    BY <2>1, FS_CardinalityType, FS_EmptySet
  <2>3. Power(Multiplier, NumLevels - level) \in Nat \ {0}
    <3>1. NumLevels - level \in Nat
      BY DEF Levels
    <3> QED BY <3>1, PowerFacts
  <2> HIDE DEF n
  <2>4. n * Trigger \in Nat /\ (n * Trigger > 0 <=> n > 0)
    BY <2>2, ProductPositive
  <2>5. /\ (n * Trigger) * Power(Multiplier, NumLevels - level) \in Nat
        /\ (n * Trigger) * Power(Multiplier, NumLevels - level) > 0 <=> n * Trigger > 0
    BY <2>3, <2>4, ProductPositive
  <2> QED BY <1>2, <2>2, <2>4, <2>5 DEF Score, n
<1> QED BY <1>1, <1>2

\* Any amount of data anywhere is a score.
LEMMA ScoreIsData == TypeOK /\ L0Agrees => (HasScore <=> HasData)
<1> SUFFICES ASSUME TypeOK, L0Agrees PROVE HasScore <=> HasData
  OBVIOUS
<1>1. \A level \in Levels : Score(level) > 0 <=> held[level] # {}
  BY ScoreType DEF L0Agrees
<1> QED BY <1>1 DEF HasScore, HasData

\* There is a first level with the highest score.
LEMMA BestExists ==
  ASSUME TypeOK
  PROVE  /\ BestLevel \in Levels
         /\ \A level \in Levels : Score(level) <= Score(BestLevel)
<1> DEFINE f == [level \in Levels |-> Score(level)]
           S == {f[level] : level \in Levels}
<1>1. 0 \in Levels /\ IsFiniteSet(Levels) /\ Levels \subseteq Nat
  BY BgWorkAssumption, FS_Interval DEF BgWorkAssumption, Levels
<1>2. \A level \in Levels : f[level] = Score(level) /\ Score(level) \in Nat
  BY ScoreType
<1> HIDE DEF f
<1>3. S \subseteq Nat /\ S # {}
  BY <1>1, <1>2
<1>4. IsFiniteSet(S)
  <2>1. f \in Surjection(Levels, S)
    BY DEF Surjection, f
  <2> HIDE DEF S
  <2> QED BY <1>1, <2>1, FS_Surjection
<1>5. \E m \in S : \A a \in S : a <= m
  <2> HIDE DEF S
  <2> QED BY <1>3, <1>4, MaxExists
<1>6. PICK most \in Levels : \A level \in Levels : Score(level) <= Score(most)
  BY <1>2, <1>5
<1> DEFINE Tied == {level \in Levels : Score(level) = Score(most)}
<1>7. Tied \subseteq Nat /\ Tied # {}
  BY <1>1, <1>6
<1>8. \E m \in Tied : \A a \in Tied : m <= a
  <2> HIDE DEF Tied
  <2> QED BY <1>7, MinExists
<1>9. PICK first \in Tied : \A a \in Tied : first <= a
  BY <1>8
<1>10. ASSUME NEW other \in Levels
       PROVE  Score(other) <= Score(first) /\ (other < first => Score(other) < Score(first))
  <2>1. other \in Nat /\ first \in Nat /\ Score(other) \in Nat /\ Score(first) \in Nat
    BY <1>1, <1>2
  <2>2. Score(other) <= Score(first)
    BY <1>6
  <2>3. other < first => Score(other) # Score(first)
    BY <1>9, <2>1
  <2> QED BY <2>1, <2>2, <2>3
<1>11. \E level \in Levels :
         \A other \in Levels : /\ Score(other) <= Score(level)
                               /\ other < level => Score(other) < Score(level)
  BY <1>10
<1> QED BY <1>11 DEF BestLevel

----------------------------------------------------------------------------
(* A compaction *)

\* What may be picked: keys of the best level, at least one, and all of them from L0;
\* there is a level below.
LEMMA PicksShape ==
  ASSUME TypeOK, L0Agrees, NEW K \in Picks
  PROVE  /\ BestLevel \in Levels /\ BestLevel + 1 \in Levels
         /\ K \subseteq held[BestLevel] /\ K # {} /\ K \subseteq Keys /\ IsFiniteSet(K)
         /\ BestLevel = 0 => K = held[0]
<1> USE BgWorkAssumption DEF BgWorkAssumption
<1>1. BestLevel \in Levels /\ \A level \in Levels : Score(level) <= Score(BestLevel)
  BY BestExists
<1>2. HasScore /\ BestLevel # NumLevels - 1
  BY DEF Picks
<1>3. BestLevel + 1 \in Levels
  BY <1>1, <1>2 DEF Levels
<1>4. Score(BestLevel) > 0
  <2>1. PICK level \in Levels : Score(level) > 0
    BY <1>2 DEF HasScore
  <2>2. Score(level) \in Nat /\ Score(BestLevel) \in Nat
    BY <1>1, ScoreType
  <2> QED BY <1>1, <2>1, <2>2
<1>5. K \subseteq held[BestLevel] /\ K # {} /\ (BestLevel = 0 => K = held[0])
  <2>1. CASE BestLevel = 0
    <3>1. held[0] # {}
      BY <1>1, <1>4, <2>1, ScoreType DEF L0Agrees
    <3> QED BY <1>2, <2>1, <3>1 DEF Picks
  <2>2. CASE BestLevel # 0
    BY <1>2, <2>2 DEF Picks, Beyond
  <2> QED BY <2>1, <2>2
<1>6. K \subseteq Keys
  BY <1>1, <1>5 DEF TypeOK
<1> QED BY <1>1, <1>3, <1>5, <1>6, FS_Subset

\* A compaction leaves the tree well formed, L0 no larger, and data where there was some.
LEMMA CompactionShape ==
  ASSUME TypeOK, L0Agrees, RunCompaction
  PROVE  /\ l0' \in 0 .. Stop /\ l0' <= l0
         /\ held' \in [Levels -> SUBSET Keys]
         /\ pointer' \in [Levels -> Keys \cup {NoKey}]
         /\ L0Agrees'
         /\ HasData' <=> HasData
<1> USE BgWorkAssumption DEF BgWorkAssumption
<1>1. CASE Picks = {}
  BY <1>1 DEF RunCompaction, tree, TypeOK, L0Agrees, HasData
<1>2. CASE Picks # {}
  <2>1. PICK K \in Picks :
          /\ l0' = IF BestLevel = 0 THEN 0 ELSE l0
          /\ held' = [held EXCEPT ![BestLevel] = @ \ K, ![BestLevel + 1] = @ \cup K]
          /\ pointer' = [pointer EXCEPT ![BestLevel] = CHOOSE k \in K : \A j \in K : j <= k]
    BY <1>2 DEF RunCompaction
  <2> DEFINE b == BestLevel
  <2>2. /\ b \in Levels /\ b + 1 \in Levels /\ b \in Nat
        /\ K \subseteq held[b] /\ K # {} /\ K \subseteq Keys /\ IsFiniteSet(K)
        /\ b = 0 => K = held[0]
    BY PicksShape DEF Levels
  <2> HIDE DEF b
  <2>3. l0 \in 0 .. Stop /\ held \in [Levels -> SUBSET Keys]
        /\ pointer \in [Levels -> Keys \cup {NoKey}]
    BY DEF TypeOK
  <2>4. l0' \in 0 .. Stop /\ l0' <= l0
    BY <2>1, <2>3
  <2>5. /\ held' \in [Levels -> SUBSET Keys]
        /\ held'[b] = held[b] \ K
        /\ held'[b + 1] = held[b + 1] \cup K
        /\ \A level \in Levels \ {b, b + 1} : held'[level] = held[level]
    <3>1. held' = [held EXCEPT ![b] = @ \ K, ![b + 1] = @ \cup K]
      BY <2>1 DEF b
    <3>2. \A level \in Levels : held[level] \subseteq Keys
      BY <2>3
    <3>3. held' \in [Levels -> SUBSET Keys]
      BY <2>2, <2>3, <3>1, <3>2
    <3> QED BY <2>2, <2>3, <3>1, <3>3
  <2>6. (CHOOSE k \in K : \A j \in K : j <= k) \in Keys
    <3>1. \E k \in K : \A j \in K : j <= k
      <4>1. K \subseteq Nat
        BY <2>2
      <4> QED BY <2>2, <4>1, MaxExists
    <3> QED BY <2>2, <3>1
  <2>7. pointer' \in [Levels -> Keys \cup {NoKey}]
    BY <2>1, <2>3, <2>6
  <2>8. L0Agrees'
    <3>1. 0 \in Levels
      BY DEF Levels
    <3>2. CASE b = 0
      BY <2>1, <2>2, <2>5, <3>2 DEF L0Agrees, b
    <3>3. CASE b # 0
      BY <2>1, <2>2, <2>5, <3>1, <3>3 DEF L0Agrees, b
    <3> QED BY <3>2, <3>3
  <2>9. HasData' /\ HasData
    BY <2>2, <2>5 DEF HasData
  <2> QED BY <2>4, <2>5, <2>7, <2>8, <2>9
<1> QED BY <1>1, <1>2

----------------------------------------------------------------------------
(* The invariant *)

\* The threads that are about to call notify_one.
Notifying == {w \in Writers : pc[w] = "notify"}

\* The limit of L0 is at least the number of writers.
FewWriters == Cardinality(Writers) <= Stop

\* A writer sleeps on account of a full L0, and compactions lose no data.
SleepersHaveReason == \A w \in Writers : w \in asleep => HasData

\* While the background thread sleeps it does so alone; each file that L0 gained since
\* then has its notification still to come, and so has any data that was moved.
BgSleepsAlone ==
  Bg \in asleep => /\ asleep = {Bg}
                   /\ l0 <= Cardinality(Notifying)
                   /\ HasData => Notifying # {}

WorkInv == TypeOK /\ L0Agrees

WakeInv == SleepersHaveReason /\ BgSleepsAlone

LEMMA NotifyingFinite == IsFiniteSet(Notifying) /\ Cardinality(Notifying) \in Nat
  BY BgWorkAssumption, FS_Subset, FS_CardinalityType DEF Notifying, BgWorkAssumption

\* The same set at the next state.
LEMMA NotifyingFiniteNext == IsFiniteSet(Notifying') /\ Cardinality(Notifying') \in Nat
<1>1. Notifying' \in SUBSET Writers
  BY DEF Notifying
<1> QED BY <1>1, BgWorkAssumption, FS_Subset, FS_CardinalityType DEF BgWorkAssumption

LEMMA InitWork == Init => WorkInv /\ WakeInv
<1> SUFFICES ASSUME Init PROVE WorkInv /\ WakeInv
  OBVIOUS
<1> USE BgWorkAssumption DEF BgWorkAssumption
<1>1. TypeOK
  <2>1. l0 \in 0 .. Stop /\ failures \in Nat
    BY DEF Init
  <2>2. held \in [Levels -> SUBSET Keys] /\ pointer \in [Levels -> Keys \cup {NoKey}]
    BY DEF Init
  <2>3. pc \in [Threads -> {"idle", "put", "notify", "looping", "stopped"}]
    BY DEF Init
  <2>4. scheduled \in BOOLEAN /\ closing \in BOOLEAN /\ asleep \subseteq Threads
    BY DEF Init
  <2> QED BY <2>1, <2>2, <2>3, <2>4 DEF TypeOK
<1>2. L0Agrees
  BY DEF Init, L0Agrees, Levels
<1> QED BY <1>1, <1>2 DEF WorkInv, WakeInv, SleepersHaveReason, BgSleepsAlone, Init

\* Nothing but a put that fills the memtable lets L0 grow, and it grows by one below the
\* limit.
LEMMA NextWork == WorkInv /\ [Next]_vars => WorkInv'
<1> SUFFICES ASSUME WorkInv, [Next]_vars PROVE WorkInv'
  OBVIOUS
<1> USE BgWorkAssumption DEF BgWorkAssumption, WorkInv, Threads
<1>1. ASSUME NEW w \in Writers, BeginPut(w) \/ Stall(w) \/ FailPut(w) \/ Return(w)
      PROVE  WorkInv'
  BY <1>1 DEF BeginPut, Stall, FailPut, Return, NotifyOne, Wait, Schedule, HasScore, tree,
              TypeOK, L0Agrees
<1>2. ASSUME NEW w \in Writers, FinishPut(w) PROVE WorkInv'
  <2>1. l0 \in Nat /\ l0 < Stop /\ 0 \in Levels
    BY <1>2 DEF FinishPut, Full, TypeOK, Levels
  <2>2. scheduled' \in BOOLEAN /\ pc' \in [Threads -> {"idle", "put", "notify", "looping", "stopped"}]
    BY <1>2 DEF FinishPut, Schedule, HasScore, TypeOK
  <2>3. CASE UNCHANGED tree
    BY <1>2, <2>2, <2>3 DEF FinishPut, tree, TypeOK, L0Agrees
  <2>4. ASSUME NEW K \in (SUBSET Keys) \ {{}}, l0' = l0 + 1,
               held' = [held EXCEPT ![0] = @ \cup K], UNCHANGED pointer
        PROVE  WorkInv'
    <3>1. l0' \in 0 .. Stop /\ l0' > 0
      BY <2>1, <2>4
    <3>2. held' \in [Levels -> SUBSET Keys] /\ held'[0] = held[0] \cup K
      BY <2>1, <2>4 DEF TypeOK
    <3>3. L0Agrees'
      BY <2>4, <3>1, <3>2 DEF L0Agrees
    <3>4. UNCHANGED <<pointer, closing, asleep, failures>>
      BY <1>2, <2>4 DEF FinishPut
    <3> QED BY <2>2, <3>1, <3>2, <3>3, <3>4 DEF TypeOK
  <2> QED BY <1>2, <2>3, <2>4 DEF FinishPut
<1>3. ASSUME NEW w \in Writers, CompactOnce(w) PROVE WorkInv'
  <2>1. CASE RunCompaction /\ pc' = [pc EXCEPT ![w] = "notify"] /\ UNCHANGED failures
    <3>1. /\ l0' \in 0 .. Stop
          /\ held' \in [Levels -> SUBSET Keys]
          /\ pointer' \in [Levels -> Keys \cup {NoKey}]
          /\ L0Agrees'
      BY <2>1, CompactionShape
    <3>2. pc' \in [Threads -> {"idle", "put", "notify", "looping", "stopped"}]
      BY <2>1 DEF TypeOK
    <3>3. UNCHANGED <<scheduled, closing, asleep, failures>>
      BY <1>3, <2>1 DEF CompactOnce
    <3> QED BY <3>1, <3>2, <3>3 DEF TypeOK
  <2>2. CASE FailedCompaction /\ UNCHANGED pc
    BY <1>3, <2>2 DEF CompactOnce, FailedCompaction, tree, TypeOK, L0Agrees
  <2> QED
    <3> HIDE DEF WorkInv
    <3> QED BY <1>3, <2>1, <2>2 DEF CompactOnce
<1>4. CASE BgSleep
  BY <1>4 DEF BgSleep, Wait, tree, TypeOK, L0Agrees
<1>5. CASE BgCompact
  <2>1. CASE RunCompaction /\ UNCHANGED failures
    BY <1>5, <2>1, CompactionShape DEF BgCompact, NotifyAll, TypeOK
  <2>2. CASE FailedCompaction
    <3>1. failures' \in Nat /\ UNCHANGED tree
      BY <2>2 DEF FailedCompaction, TypeOK
    <3>2. scheduled' = FALSE /\ asleep' = {} /\ UNCHANGED <<closing, pc>>
      BY <1>5 DEF BgCompact, NotifyAll
    <3> QED BY <3>1, <3>2 DEF tree, TypeOK, L0Agrees
  <2> QED BY <1>5, <2>1, <2>2 DEF BgCompact
<1>6. CASE BgStop \/ Close
  BY <1>6 DEF BgStop, Close, NotifyAll, tree, TypeOK, L0Agrees
<1>7. ASSUME NEW t \in Threads, WakeUnasked(t) PROVE WorkInv'
  BY <1>7 DEF WakeUnasked, tree, TypeOK, L0Agrees
<1>8. CASE UNCHANGED vars
  BY <1>8 DEF vars, tree, TypeOK, L0Agrees
<1> QED BY <1>1, <1>2, <1>3, <1>4, <1>5, <1>6, <1>7, <1>8 DEF Next

\* The first half of the argument: types, and a limit that holds.
LEMMA WorkInvariant == Spec => []WorkInv
<1>1. Init => WorkInv
  BY InitWork
<1> QED BY <1>1, NextWork, PTL DEF Spec

LEMMA NextWake == FewWriters /\ WorkInv /\ WorkInv' /\ WakeInv /\ [Next]_vars => WakeInv'
<1> SUFFICES ASSUME FewWriters, WorkInv, WorkInv', WakeInv, [Next]_vars PROVE WakeInv'
  OBVIOUS
<1> USE BgWorkAssumption DEF BgWorkAssumption
<1>1. (HasScore <=> HasData) /\ (HasScore' <=> HasData')
  <2>1. WorkInv => (HasScore <=> HasData)
    BY ScoreIsData DEF WorkInv
  <2>2. WorkInv' => (HasScore' <=> HasData')
    BY ScoreIsData, PTL DEF WorkInv
  <2> QED BY <2>1, <2>2
<1>2. TypeOK /\ L0Agrees /\ SleepersHaveReason /\ BgSleepsAlone
  BY DEF WorkInv, WakeInv
<1>3. ASSUME UNCHANGED tree PROVE HasData' <=> HasData
  BY <1>3 DEF tree, HasData
<1>4. ASSUME NEW w \in Writers, BeginPut(w) PROVE WakeInv'
  <2>1. Notifying' = Notifying
    BY <1>2, <1>4 DEF BeginPut, Notifying, TypeOK, Threads
  <2> QED BY <1>2, <1>3, <1>4, <2>1
        DEF BeginPut, tree, WakeInv, SleepersHaveReason, BgSleepsAlone
\* A writer that meets a full L0 finds the background thread awake: else every file came
\* with a notification still to come, and there are not that many other writers.
<1>5. ASSUME NEW w \in Writers, Stall(w) PROVE WakeInv'
  <2>1. l0 >= Stop /\ HasData /\ pc[w] = "put"
    <3>1. 0 \in Levels /\ l0 >= Stop /\ pc[w] = "put" /\ l0 \in Nat
      BY <1>2, <1>5 DEF Stall, Full, TypeOK, Levels
    <3> QED BY <1>2, <3>1 DEF L0Agrees, HasData
  <2>2. Bg \notin asleep
    <3>1. Notifying \in SUBSET (Writers \ {w})
      BY <2>1 DEF Notifying
    <3>2. /\ IsFiniteSet(Writers \ {w}) /\ Cardinality(Writers \ {w}) = Cardinality(Writers) - 1
          /\ Cardinality(Writers) \in Nat
      BY FS_RemoveElement, FS_CardinalityType
    <3>3. Cardinality(Notifying) <= Cardinality(Writers) - 1
      BY <3>1, <3>2, FS_Subset
    <3>4. l0 > Cardinality(Notifying)
      BY <1>2, <2>1, <3>2, <3>3, NotifyingFinite DEF FewWriters, TypeOK
    <3> QED BY <1>2, <3>4, NotifyingFinite DEF BgSleepsAlone, TypeOK
  <2> QED BY <1>2, <1>3, <1>5, <2>1, <2>2
        DEF Stall, Wait, WakeInv, SleepersHaveReason, BgSleepsAlone
<1>6. ASSUME NEW w \in Writers, FinishPut(w) PROVE WakeInv'
  <2>1. Notifying' = Notifying \cup {w} /\ w \notin Notifying
    BY <1>2, <1>6 DEF FinishPut, Notifying, TypeOK, Threads
  <2>2. Cardinality(Notifying') = Cardinality(Notifying) + 1
    BY <2>1, NotifyingFinite, FS_AddElement
  <2>3. l0 \in Nat /\ (l0' = l0 \/ l0' = l0 + 1) /\ asleep' = asleep
    BY <1>2, <1>6 DEF FinishPut, tree, TypeOK
  <2>4. HasData => HasData'
    <3>1. CASE UNCHANGED tree
      BY <1>3, <3>1
    <3>2. ASSUME NEW K \in (SUBSET Keys) \ {{}}, held' = [held EXCEPT ![0] = @ \cup K]
          PROVE  HasData'
      BY <1>2, <3>2 DEF HasData, TypeOK, Levels
    <3> QED BY <1>6, <3>1, <3>2 DEF FinishPut
  <2>5. SleepersHaveReason'
    BY <1>2, <2>3, <2>4 DEF SleepersHaveReason
  <2>6. BgSleepsAlone'
    <3> SUFFICES ASSUME Bg \in asleep'
                 PROVE  /\ asleep' = {Bg}
                        /\ l0' <= Cardinality(Notifying')
                        /\ HasData' => Notifying' # {}
      BY DEF BgSleepsAlone
    <3>1. asleep' = {Bg} /\ l0 <= Cardinality(Notifying)
      BY <1>2, <2>3 DEF BgSleepsAlone
    <3>2. l0' <= Cardinality(Notifying')
      BY <2>2, <2>3, <3>1, NotifyingFinite
    <3> QED BY <2>1, <3>1, <3>2
  <2> QED BY <2>5, <2>6 DEF WakeInv
<1>7. ASSUME NEW w \in Writers, FailPut(w) PROVE WakeInv'
  <2>1. Notifying' = Notifying
    BY <1>2, <1>7 DEF FailPut, Notifying, TypeOK, Threads
  <2> QED BY <1>2, <1>3, <1>7, <2>1
        DEF FailPut, tree, WakeInv, SleepersHaveReason, BgSleepsAlone
<1>8. ASSUME NEW w \in Writers, CompactOnce(w) PROVE WakeInv'
  <2>1. CASE RunCompaction /\ pc' = [pc EXCEPT ![w] = "notify"]
    <3>1. /\ l0' <= l0 /\ l0' \in Nat /\ l0 \in Nat
          /\ HasData' <=> HasData
      BY <1>2, <2>1, CompactionShape DEF TypeOK
    <3>2. Notifying' = Notifying \cup {w} /\ w \notin Notifying /\ asleep' = asleep
      BY <1>2, <1>8, <2>1 DEF CompactOnce, Notifying, TypeOK, Threads
    <3>3. Cardinality(Notifying') = Cardinality(Notifying) + 1
      BY <3>2, NotifyingFinite, FS_AddElement
    <3> QED BY <1>2, <3>1, <3>2, <3>3, NotifyingFinite
          DEF WakeInv, SleepersHaveReason, BgSleepsAlone
  <2>2. CASE FailedCompaction /\ UNCHANGED pc
    BY <1>2, <1>3, <1>8, <2>2
      DEF CompactOnce, FailedCompaction, tree, Notifying, WakeInv, SleepersHaveReason,
          BgSleepsAlone
  <2> QED BY <1>8, <2>1, <2>2 DEF CompactOnce
\* The notification reaches the background thread when nobody else sleeps.
<1>9. ASSUME NEW w \in Writers, Return(w) PROVE WakeInv'
  <2>1. asleep' \subseteq asleep /\ Bg \notin asleep'
    BY <1>2, <1>9 DEF Return, NotifyOne, BgSleepsAlone
  <2> QED BY <1>2, <1>3, <1>9, <2>1 DEF Return, WakeInv, SleepersHaveReason, BgSleepsAlone
<1>10. CASE BgSleep
  <2>1. ~HasData /\ asleep' = asleep \cup {Bg}
    BY <1>1, <1>10 DEF BgSleep, Wait
  <2>2. asleep' = {Bg}
    <3>1. asleep \subseteq Writers \cup {Bg}
      BY <1>2 DEF TypeOK, Threads
    <3> QED BY <1>2, <2>1, <3>1 DEF SleepersHaveReason
  <2>3. l0' = 0
    <3>1. l0 \in Nat /\ 0 \in Levels
      BY <1>2 DEF TypeOK, Levels
    <3> QED BY <1>2, <1>10, <2>1, <3>1 DEF L0Agrees, HasData, BgSleep, tree
  <2>4. HasData' <=> HasData
    BY <1>3, <1>10 DEF BgSleep
  <2> QED BY <2>1, <2>2, <2>3, <2>4, NotifyingFiniteNext
        DEF WakeInv, SleepersHaveReason, BgSleepsAlone
<1>11. CASE BgCompact \/ Close
  BY <1>11 DEF BgCompact, Close, NotifyAll, WakeInv, SleepersHaveReason, BgSleepsAlone
<1>12. CASE BgStop
  <2>1. Bg \notin asleep /\ asleep' = asleep /\ UNCHANGED tree
    BY <1>12 DEF BgStop, Awake
  <2> QED BY <1>2, <1>3, <2>1 DEF WakeInv, SleepersHaveReason, BgSleepsAlone
<1>13. ASSUME NEW t \in Threads, WakeUnasked(t) PROVE WakeInv'
  <2>1. asleep' \subseteq asleep /\ (Bg \in asleep => Bg \notin asleep')
    BY <1>2, <1>13 DEF WakeUnasked, BgSleepsAlone
  <2> QED BY <1>2, <1>3, <1>13, <2>1
        DEF WakeUnasked, WakeInv, SleepersHaveReason, BgSleepsAlone
<1>14. CASE UNCHANGED vars
  BY <1>2, <1>3, <1>14 DEF vars, tree, Notifying, WakeInv, SleepersHaveReason, BgSleepsAlone
<1> QED BY <1>4, <1>5, <1>6, <1>7, <1>8, <1>9, <1>10, <1>11, <1>12, <1>13, <1>14 DEF Next

----------------------------------------------------------------------------
(* Theorems *)

\* However writers interleave with compactions, L0 never holds more files than
\* LEVEL0_STOP_WRITES_TRIGGER (the test in Db::write and the flush share the mutex).
THEOREM LimitHolds == Spec => []TypeOK
  BY WorkInvariant, PTL DEF WorkInv

\* With at most LEVEL0_STOP_WRITES_TRIGGER writers, the background thread never sleeps on
\* work that nobody is about to tell it of (background_compaction, Db::write).
THEOREM NoWakeUpLost == FewWriters => (Spec => []BgAwakeForWork)
<1> SUFFICES ASSUME FewWriters PROVE Spec => []BgAwakeForWork
  OBVIOUS
<1>1. Init => WakeInv
  BY InitWork
<1>2. WorkInv /\ WorkInv' /\ WakeInv /\ [Next]_vars => WakeInv'
  BY NextWake
<1>3. WorkInv /\ WakeInv => BgAwakeForWork
  BY ScoreIsData DEF WorkInv, WakeInv, BgSleepsAlone, BgAwakeForWork, Notifying
<1> QED BY <1>1, <1>2, <1>3, WorkInvariant, PTL DEF Spec
=============================================================================
