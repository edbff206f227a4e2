------------------------------- MODULE BgWork -------------------------------
(***************************************************************************)
(* The threads of an open mulan-lsm: writers that stall while L0 is full,  *)
(* the background thread that compacts, manual compactions and the closing *)
(* of the database, over one mutex and the one condition variable that     *)
(* stalled writers and the idle background thread share.  A step is one    *)
(* critical section, up to the wait that ends it or to the unlock; the     *)
(* notify_one after the unlock is a step of its own.                       *)
(*                                                                         *)
(* The tree is kept as far as scheduling depends on it: how many files L0  *)
(* has, which keys each level holds, and the rotation points.  A key       *)
(* stands for one file's worth of data below L0; what a compaction drops   *)
(* is left out.                                                            *)
(***************************************************************************)
EXTENDS Powers, FiniteSets

CONSTANTS Writers,     \* the threads that use the database
          Bg,          \* the background thread
          Keys,        \* positive numbers
          NumLevels,   \* NUM_LEVELS
          Trigger,     \* L0_COMPACTION_TRIGGER
          Stop,        \* LEVEL0_STOP_WRITES_TRIGGER
          Base,        \* MAX_BYTES_FOR_LEVEL_BASE, in files
          Multiplier,  \* MAX_BYTES_FOR_LEVEL_MULTIPLIER
          MaxFailures  \* bound of the model: how many compactions may fail

ASSUME BgWorkAssumption ==
  /\ Bg \notin Writers
  /\ IsFiniteSet(Writers)
  /\ Keys \subseteq Nat \ {0} /\ IsFiniteSet(Keys)
  /\ NumLevels \in Nat \ {0, 1}
  /\ Trigger \in Nat \ {0} /\ Stop \in Nat \ {0}
  /\ Base \in Nat \ {0} /\ Multiplier \in Nat \ {0}
  /\ MaxFailures \in Nat

VARIABLES l0,         \* how many files L0 has
          held,       \* held[level]: the keys that the files of a level hold
          pointer,    \* compact_pointer[level], NoKey when empty
          scheduled,  \* bg_compaction_scheduled
          closing,    \* shutting_down
          asleep,     \* the threads waiting on the condition variable
          pc,         \* where a thread is
          failures    \* how many compactions have failed

tree == <<l0, held, pointer>>
vars == <<tree, scheduled, closing, asleep, pc, failures>>

Threads == Writers \cup {Bg}
Levels  == 0 .. NumLevels - 1
NoKey   == 0

Init ==
  /\ l0 = 0
  /\ held = [level \in Levels |-> {}]
  /\ pointer = [level \in Levels |-> NoKey]
  /\ scheduled = FALSE
  /\ closing = FALSE
  /\ asleep = {}
  /\ pc = [t \in Threads |-> IF t = Bg THEN "looping" ELSE "idle"]
  /\ failures = 0

----------------------------------------------------------------------------
(* Scores and picking *)

\* compaction_score, multiplied by Trigger and by the target of the deepest level so as
\* to compare whole numbers: files over the trigger in L0, bytes over the target below.
Score(level) ==
  IF level = 0 THEN l0 * Base * Power(Multiplier, NumLevels - 1)
  ELSE Cardinality(held[level]) * Trigger * Power(Multiplier, NumLevels - level)

\* Some level holds something: that is already a score, whatever its amount.
HasScore == \E level \in Levels : Score(level) > 0

\* Mutant: the last of the levels with the highest score.
BestLevelLast ==
  CHOOSE level \in Levels :
    \A other \in Levels : /\ Score(other) <= Score(level)
                          /\ other > level => Score(other) < Score(level)

\* The first of the levels with the highest score.
BestLevel ==
  CHOOSE level \in Levels :
    \A other \in Levels : /\ Score(other) <= Score(level)
                          /\ other < level => Score(other) < Score(level)

\* The files of a level beyond its rotation point.  There is no turning back to the
\* first file when none is left.
Beyond(level) == {k \in held[level] : pointer[level] = NoKey \/ k > pointer[level]}

\* The sets of keys that pick_compaction may take from the best level: all of L0, or one
\* file; none from the last level.
Picks ==
  IF ~HasScore \/ BestLevel = NumLevels - 1 THEN {}
  ELSE IF BestLevel = 0 THEN {held[0]}
  ELSE {{k} : k \in Beyond(BestLevel)}

\* run_one_compaction: the picked keys move one level down, or nothing happens.
RunCompaction ==
  IF Picks = {} THEN UNCHANGED tree
  ELSE \E K \in Picks :
         /\ l0' = IF BestLevel = 0 THEN 0 ELSE l0
         /\ held' = [held EXCEPT ![BestLevel] = @ \ K, ![BestLevel + 1] = @ \cup K]
         /\ pointer' = [pointer EXCEPT ![BestLevel] = CHOOSE k \in K : \A j \in K : j <= k]

\* A compaction returns an error and has changed nothing.
FailedCompaction ==
  /\ failures < MaxFailures
  /\ Picks # {}
  /\ failures' = failures + 1
  /\ UNCHANGED tree

----------------------------------------------------------------------------
(* The condition variable *)

Awake(t) == t \notin asleep

Wait(t) == asleep' = asleep \cup {t}

NotifyOne ==
  IF asleep = {} THEN UNCHANGED asleep
  ELSE \E t \in asleep : asleep' = asleep \ {t}

\* Mutant: a compaction tells nobody that it is done.
NotifyNobody == UNCHANGED asleep

NotifyAll == asleep' = {}

\* The library allows a wait to return unasked.
WakeUnasked(t) ==
  /\ t \in asleep
  /\ asleep' = asleep \ {t}
  /\ UNCHANGED <<tree, scheduled, closing, pc, failures>>

----------------------------------------------------------------------------
(* Writers *)

BeginPut(w) ==
  /\ pc[w] = "idle"
  /\ ~closing
  /\ pc' = [pc EXCEPT ![w] = "put"]
  /\ UNCHANGED <<tree, scheduled, closing, asleep, failures>>

\* Mutant: off by one.
Overfull == l0 > Stop

\* level0_needs_slowdown
Full == l0 >= Stop

\* maybe_schedule_compaction raises a flag, and wakes nobody.
Schedule(score) == scheduled' = (scheduled \/ (~closing /\ score))

\* The loop of Db::write, which tests the limit again whenever the wait has returned.
Stall(w) ==
  /\ pc[w] = "put" /\ Awake(w)
  /\ Full
  /\ Schedule(HasScore)
  /\ Wait(w)
  /\ UNCHANGED <<tree, closing, pc, failures>>

\* The write itself; it adds a file to L0 when it fills the memtable.
FinishPut(w) ==
  /\ pc[w] = "put" /\ Awake(w)
  /\ ~Full
  /\ \/ UNCHANGED tree
     \/ \E K \in (SUBSET Keys) \ {{}} :
          /\ l0' = l0 + 1
          /\ held' = [held EXCEPT ![0] = @ \cup K]
          /\ UNCHANGED pointer
  /\ Schedule(HasScore')
  /\ pc' = [pc EXCEPT ![w] = "notify"]
  /\ UNCHANGED <<closing, asleep, failures>>

\* The log or the flush returns an error: so does the put, and it tells nobody.
FailPut(w) ==
  /\ pc[w] = "put" /\ Awake(w)
  /\ ~Full
  /\ pc' = [pc EXCEPT ![w] = "idle"]
  /\ UNCHANGED <<tree, scheduled, closing, asleep, failures>>

\* Db::compact_once, which also returns at once when the compaction fails.
CompactOnce(w) ==
  /\ pc[w] = "idle"
  /\ ~closing
  /\ \/ /\ RunCompaction
        /\ pc' = [pc EXCEPT ![w] = "notify"]
        /\ UNCHANGED failures
     \/ FailedCompaction /\ UNCHANGED pc
  /\ UNCHANGED <<scheduled, closing, asleep>>

\* Mutant: a put that wakes nobody.
ReturnSilently(w) ==
  /\ pc[w] = "notify"
  /\ pc' = [pc EXCEPT ![w] = "idle"]
  /\ UNCHANGED <<tree, scheduled, closing, asleep, failures>>

\* notify_one, after the lock was given up: it wakes whoever the library picks.
Return(w) ==
  /\ pc[w] = "notify"
  /\ NotifyOne
  /\ pc' = [pc EXCEPT ![w] = "idle"]
  /\ UNCHANGED <<tree, scheduled, closing, failures>>

----------------------------------------------------------------------------
(* The background thread, and closing *)

\* background_compaction waits while there is nothing scheduled and no level has a score.
BgSleep ==
  /\ pc[Bg] = "looping" /\ Awake(Bg)
  /\ ~closing /\ ~scheduled /\ ~HasScore
  /\ Wait(Bg)
  /\ UNCHANGED <<tree, scheduled, closing, pc, failures>>

\* Otherwise it compacts, reports an error only on stderr, and wakes everyone.
BgCompact ==
  /\ pc[Bg] = "looping" /\ Awake(Bg)
  /\ ~closing /\ (scheduled \/ HasScore)
  /\ \/ RunCompaction /\ UNCHANGED failures
     \/ FailedCompaction
  /\ scheduled' = FALSE
  /\ NotifyAll
  /\ UNCHANGED <<closing, pc>>

BgStop ==
  /\ pc[Bg] = "looping" /\ Awake(Bg)
  /\ closing
  /\ pc' = [pc EXCEPT ![Bg] = "stopped"]
  /\ UNCHANGED <<tree, scheduled, closing, asleep, failures>>

\* Mutant: Db::drop raises the flag and goes straight to the join.
CloseSilently ==
  /\ ~closing
  /\ \A w \in Writers : pc[w] = "idle"
  /\ closing' = TRUE
  /\ UNCHANGED <<tree, scheduled, asleep, pc, failures>>

\* Db::drop runs when nobody uses the database any more; it then joins the thread.
Close ==
  /\ ~closing
  /\ \A w \in Writers : pc[w] = "idle"
  /\ closing' = TRUE
  /\ NotifyAll
  /\ UNCHANGED <<tree, scheduled, pc, failures>>

Next ==
  \/ \E w \in Writers : BeginPut(w) \/ Stall(w) \/ FinishPut(w) \/ FailPut(w)
                         \/ CompactOnce(w) \/ Return(w)
  \/ BgSleep \/ BgCompact \/ BgStop
  \/ Close
  \/ \E t \in Threads : WakeUnasked(t)

\* A thread that is not asleep goes on: std::sync::Mutex keeps nobody out for ever.  No
\* one has to begin a put, a compaction or the closing, and no wait has to return unasked.
Fairness ==
  /\ WF_vars(BgSleep \/ BgCompact \/ BgStop)
  /\ \A w \in Writers : WF_vars(Stall(w) \/ FinishPut(w) \/ FailPut(w) \/ Return(w))

Spec == Init /\ [][Next]_vars /\ Fairness

----------------------------------------------------------------------------
(* Properties *)

\* Types; and L0 does not outgrow the limit however the writers interleave: between the
\* test of the limit and the flush nobody else adds a file.
TypeOK ==
  /\ l0 \in 0 .. Stop
  /\ held \in [Levels -> SUBSET Keys]
  /\ pointer \in [Levels -> Keys \cup {NoKey}]
  /\ scheduled \in BOOLEAN /\ closing \in BOOLEAN
  /\ asleep \subseteq Threads
  /\ pc \in [Threads -> {"idle", "put", "notify", "looping", "stopped"}]
  /\ failures \in Nat

\* No wake-up is lost: the background thread does not sleep while a level has a score,
\* unless a notification is still to come (db.rs, background_compaction).  Writers and
\* the thread share one condition variable, and notify_one may pick either.
BgAwakeForWork ==
  HasScore /\ Bg \in asleep => \E w \in Writers : pc[w] = "notify"

\* Writes that met a full L0 wait for compaction to bring it down (compaction.rs,
\* LEVEL0_STOP_WRITES_TRIGGER), and it does.
StallEnds == (Full /\ \E w \in Writers : pc[w] = "put") ~> ~Full

\* Db::write: a writer does not sleep for ever while there is room in L0.
SleepersWake == \A w \in Writers : (w \in asleep /\ ~Full) ~> (w \notin asleep \/ Full)

\* Once the database is being closed the background thread ends: the join returns.
CloseReturns == closing ~> pc[Bg] = "stopped"
=============================================================================
