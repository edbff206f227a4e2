-------------------------- MODULE DurabilityProofs --------------------------
(***************************************************************************)
(* Types of Durability; every commit is what a replay of the manifest      *)
(* finds; and no file of the current Version is ever overwritten or        *)
(* removed.  All of it where no record of the manifest is torn and the     *)
(* commits of flushes, compactions and recoveries do not fail.             *)
(***************************************************************************)
EXTENDS Durability, NumberLemmas, SequenceTheorems

----------------------------------------------------------------------------
(* Sequences *)

\* What a sequence holds is finite.
LEMMA RangeFinite ==
  ASSUME NEW T, NEW s \in Seq(T)
  PROVE  IsFiniteSet({s[i] : i \in DOMAIN s}) /\ {s[i] : i \in DOMAIN s} \subseteq T
<1> DEFINE R == {s[i] : i \in DOMAIN s}
<1>1. Len(s) \in Nat /\ DOMAIN s = 1 .. Len(s) /\ s \in [1 .. Len(s) -> T]
  BY LenProperties
<1>2. IsFiniteSet(1 .. Len(s))
  BY <1>1, FS_Interval
<1>3. s \in Surjection(1 .. Len(s), R)
  BY <1>1 DEF Surjection
<1>4. R \subseteq T
  BY <1>1
<1> HIDE DEF R
<1>5. IsFiniteSet(R)
  BY <1>2, <1>3, FS_Surjection
<1> QED BY <1>4, <1>5 DEF R

\* A prefix, and a sequence with one more record.
LEMMA Prefix ==
  ASSUME NEW T, NEW s \in Seq(T), NEW n \in 0 .. Len(s)
  PROVE  /\ SubSeq(s, 1, n) \in Seq(T)
         /\ Len(SubSeq(s, 1, n)) = n
         /\ \A i \in 1 .. n : SubSeq(s, 1, n)[i] = s[i]
<1>1. Len(s) \in Nat /\ \A i \in 1 .. Len(s) : s[i] \in T
  BY LenProperties
<1>2. \A i \in 1 .. n : s[i] \in T
  BY <1>1
<1> QED BY <1>1, <1>2, SubSeqProperties

LEMMA PrefixOfAppend ==
  ASSUME NEW T, NEW s \in Seq(T), NEW e \in T, NEW n \in 0 .. Len(s)
  PROVE  SubSeq(Append(s, e), 1, n) = SubSeq(s, 1, n)
<1>1. Len(s) \in Nat
  BY LenProperties
<1>2. /\ Append(s, e) \in Seq(T) /\ Len(Append(s, e)) = Len(s) + 1
      /\ \A i \in 1 .. Len(s) : Append(s, e)[i] = s[i]
  BY AppendProperties, <1>1
<1>3. n \in 0 .. Len(Append(s, e))
  BY <1>1, <1>2
<1>4. /\ SubSeq(Append(s, e), 1, n) \in Seq(T) /\ Len(SubSeq(Append(s, e), 1, n)) = n
      /\ \A i \in 1 .. n : SubSeq(Append(s, e), 1, n)[i] = Append(s, e)[i]
  BY <1>2, <1>3, Prefix
<1>5. /\ SubSeq(s, 1, n) \in Seq(T) /\ Len(SubSeq(s, 1, n)) = n
      /\ \A i \in 1 .. n : SubSeq(s, 1, n)[i] = s[i]
  BY Prefix
<1>6. \A i \in 1 .. n : SubSeq(Append(s, e), 1, n)[i] = SubSeq(s, 1, n)[i]
  BY <1>1, <1>2, <1>4, <1>5
<1> QED BY <1>4, <1>5, <1>6, SeqEqual

----------------------------------------------------------------------------
(* Replaying *)

LEMMA LatestType ==
  ASSUME NEW edits \in Seq(Edit), NEW field \in {"log", "next", "seq"}
  PROVE  Latest(edits, field) \in Nat
<1> DEFINE C == {i \in DOMAIN edits : edits[i][field] # Unset}
<1>1. Len(edits) \in Nat /\ DOMAIN edits = 1 .. Len(edits) /\ \A i \in 1 .. Len(edits) : edits[i] \in Edit
  BY LenProperties
<1>2. \A i \in C : edits[i][field] \in Nat
  BY <1>1 DEF Edit
<1>3. CASE C = {}
  BY <1>3 DEF Latest, Unset
<1>4. CASE C # {}
  <2>1. C \in SUBSET (1 .. Len(edits))
    BY <1>1
  <2> HIDE DEF C
  <2>2. IsFiniteSet(1 .. Len(edits)) /\ C \subseteq Nat
    BY <1>1, <2>1, FS_Interval
  <2>3. IsFiniteSet(C)
    BY <2>1, <2>2, FS_Subset
  <2>4. PICK m \in C : \A j \in C : j <= m
    BY <1>4, <2>2, <2>3, MaxExists
  <2>5. \A j \in C : m >= j
    BY <2>2, <2>4
  <2>6. (CHOOSE i \in C : \A j \in C : i >= j) \in C
    BY <2>5
  <2> QED BY <1>2, <1>4, <2>6 DEF Latest, C
<1> QED BY <1>3, <1>4

\* One more edit decides the fields it carries.
LEMMA LatestOfAppend ==
  ASSUME NEW edits \in Seq(Edit), NEW e \in Edit, NEW field \in {"log", "next", "seq"}
  PROVE  Latest(Append(edits, e), field) = IF e[field] = Unset THEN Latest(edits, field) ELSE e[field]
<1> DEFINE C(s) == {i \in DOMAIN s : s[i][field] # Unset}
           all == Append(edits, e)
           n == Len(edits)
<1>1. n \in Nat /\ DOMAIN edits = 1 .. n
  BY LenProperties
<1>2. /\ DOMAIN all = 1 .. n + 1 /\ all[n + 1] = e
      /\ \A i \in 1 .. n : all[i] = edits[i]
  BY <1>1, AppendProperties, LenProperties
<1> HIDE DEF all, n
<1>3. CASE e[field] = Unset
  <2>1. C(all) = C(edits)
    BY <1>1, <1>2, <1>3
  <2>2. \A i \in C(edits) : all[i] = edits[i]
    BY <1>1, <1>2
  <2>3. CASE C(edits) = {}
    BY <1>3, <2>1, <2>3 DEF Latest, all
  <2>4. CASE C(edits) # {}
    <3>1. C(edits) \subseteq Nat /\ IsFiniteSet(C(edits))
      BY <1>1, FS_Interval, FS_Subset
    <3> DEFINE top == CHOOSE i \in C(edits) : \A j \in C(edits) : i >= j
    <3>2. \E i \in C(edits) : \A j \in C(edits) : i >= j
      <4> DEFINE D == C(edits)
      <4>1. D \subseteq Nat /\ IsFiniteSet(D) /\ D # {}
        BY <2>4, <3>1
      <4>2. \E i \in D : \A j \in D : i >= j
        <5> HIDE DEF D
        <5>1. PICK i \in D : \A j \in D : j <= i
          BY <4>1, MaxExists
        <5> QED BY <4>1, <5>1
      <4> QED BY <4>2
    <3>3. top \in C(edits)
      BY <3>2
    <3>4. Latest(edits, field) = edits[top][field] /\ Latest(all, field) = all[top][field]
      BY <2>1, <2>4 DEF Latest
    <3> QED BY <1>3, <2>2, <3>3, <3>4 DEF all
  <2> QED BY <2>3, <2>4
<1>4. CASE e[field] # Unset
  <2>1. n + 1 \in C(all) /\ \A j \in C(all) : n + 1 >= j
    BY <1>1, <1>2, <1>4
  <2>2. \A i \in C(all) : (\A j \in C(all) : i >= j) => i = n + 1
    BY <1>1, <1>2, <2>1
  <2>3. (CHOOSE i \in C(all) : \A j \in C(all) : i >= j) = n + 1
    BY <2>1, <2>2
  <2>4. Latest(all, field) = all[n + 1][field]
    BY <2>1, <2>3 DEF Latest
  <2> QED BY <1>2, <1>4, <2>4 DEF all
<1> QED BY <1>3, <1>4

LEMMA LiveOfAppend ==
  ASSUME NEW edits \in Seq(Edit), NEW e \in Edit
  PROVE  LiveAfter(Append(edits, e)) = Apply(LiveAfter(edits), e)
<1> DEFINE all == Append(edits, e)
           n == Len(edits)
           Stays(s, i) == {m \in s[i].add : \A j \in i + 1 .. Len(s) : m \notin s[j].del}
<1>1. n \in Nat /\ DOMAIN edits = 1 .. n
  BY LenProperties
<1>2. /\ DOMAIN all = 1 .. n + 1 /\ Len(all) = n + 1 /\ all[n + 1] = e
      /\ \A i \in 1 .. n : all[i] = edits[i]
  BY <1>1, AppendProperties, LenProperties
<1> HIDE DEF all, n
<1>3. Stays(all, n + 1) = e.add
  <2>1. n + 1 + 1 .. n + 1 = {}
    BY <1>1
  <2> QED BY <1>2, <2>1
<1>4. \A i \in 1 .. n : Stays(all, i) = Stays(edits, i) \ e.del
  <2> TAKE i \in 1 .. n
  <2>1. i + 1 .. n + 1 = (i + 1 .. n) \cup {n + 1}
    BY <1>1
  <2>2. \A j \in i + 1 .. n : all[j] = edits[j]
    BY <1>1, <1>2
  <2> QED BY <1>2, <2>1, <2>2 DEF n
<1>5. LiveAfter(all) = UNION {Stays(all, i) : i \in 1 .. n + 1}
  BY <1>2 DEF LiveAfter
<1>6. LiveAfter(edits) = UNION {Stays(edits, i) : i \in 1 .. n}
  BY <1>1 DEF LiveAfter
<1>7. 1 .. n + 1 = (1 .. n) \cup {n + 1}
  BY <1>1
<1> HIDE DEF Stays
<1>8. LiveAfter(all) = Apply(LiveAfter(edits), e)
  BY <1>3, <1>4, <1>5, <1>6, <1>7 DEF Apply
<1> QED BY <1>8 DEF all

LEMMA ReplayOfNothing ==
  LiveAfter(<<>>) = {} /\ \A field \in {"log", "next", "seq"} : Latest(<<>>, field) = Unset
  BY DEF LiveAfter, Latest

LEMMA LiveType ==
  ASSUME NEW edits \in Seq(Edit)
  PROVE  LiveAfter(edits) \in SUBSET Nat
<1>1. \A i \in DOMAIN edits : edits[i] \in Edit
  BY LenProperties
<1>2. \A i \in DOMAIN edits : edits[i].add \subseteq Nat
  BY <1>1 DEF Edit
<1> QED BY <1>2 DEF LiveAfter

\* Reading stops at the first torn record; without one it returns all of them.
LEMMA ReadableWhole ==
  ASSUME NEW f, \A i \in DOMAIN f.recs : f.recs[i] # Torn
  PROVE  Readable(f) = f.recs
  BY DEF Readable

LEMMA ReadableType ==
  ASSUME NEW T, NEW f, f.recs \in Seq(T \cup {Torn})
  PROVE  Readable(f) \in Seq(T)
<1> DEFINE torn == {i \in DOMAIN f.recs : f.recs[i] = Torn}
<1>1. /\ Len(f.recs) \in Nat /\ DOMAIN f.recs = 1 .. Len(f.recs)
      /\ \A i \in 1 .. Len(f.recs) : f.recs[i] \in T \cup {Torn}
  BY LenProperties
<1>2. CASE torn = {}
  <2>1. \A i \in 1 .. Len(f.recs) : f.recs[i] \in T
    BY <1>1, <1>2
  <2>2. f.recs = SubSeq(f.recs, 1, Len(f.recs))
    BY SubSeqFull
  <2>3. f.recs \in Seq(T)
    BY <1>1, <2>1, <2>2, SubSeqProperties
  <2> QED BY <1>2, <2>3 DEF Readable
<1>3. CASE torn # {}
  <2>1. torn \subseteq Nat
    BY <1>1
  <2> DEFINE first == CHOOSE i \in torn : \A j \in torn : i <= j
  <2>2. first \in torn /\ \A j \in torn : first <= j
    <3>1. \E i \in torn : \A j \in torn : i <= j
      <4> HIDE DEF torn
      <4> QED BY <1>3, <2>1, MinExists
    <3> QED BY <3>1
  <2>3. first \in 1 .. Len(f.recs)
    BY <1>1, <2>2
  <2>4. \A i \in 1 .. first - 1 : f.recs[i] \in T
    BY <1>1, <2>2, <2>3
  <2>5. SubSeq(f.recs, 1, first - 1) \in Seq(T)
    <3>1. first - 1 \in Int
      BY <2>3
    <3> HIDE DEF first
    <3> QED BY <2>4, <3>1, SubSeqProperties
  <2> QED BY <1>3, <2>5 DEF Readable
<1> QED BY <1>2, <1>3

----------------------------------------------------------------------------
(* Types *)

ManifestFile == [recs : Seq(Edit \cup {Torn}), synced : Nat]
LogFile      == [recs : Seq(Entry \cup {Torn}), synced : Nat]

\* An appended file, with as much synced as there is.
Sound(f) == f.synced <= Len(f.recs)

DiskTyped ==
  /\ dir \in {"empty", "unnamed", "named"}
  /\ manifest \in ManifestFile /\ Sound(manifest)
  /\ \A n \in DOMAIN logs : n \in Nat /\ logs[n] \in LogFile /\ Sound(logs[n])
  /\ \A n \in DOMAIN ssts : n \in Nat /\ ssts[n] \in SUBSET Entry

MemoryTyped ==
  /\ sync \in BOOLEAN
  /\ mem \in SUBSET Entry /\ frozen \in SUBSET Entry
  /\ live \in SUBSET Nat
  /\ edit \in Edit
  /\ wal \in Nat /\ lastSeq \in Nat /\ nextNum \in Nat

GhostsTyped == issued \in Nat /\ sure \in SUBSET Entry /\ opens \in Nat

\* TypeOK without its numbers, and with the records of either kind of file kept apart.
Typed == DiskTyped /\ MemoryTyped /\ GhostsTyped /\ pc \in Steps

LEMMA FileTypes ==
  ASSUME NEW T, NEW f \in [recs : Seq(T), synced : Nat], Sound(f)
  PROVE  /\ EmptyFile \in [recs : Seq(T), synced : Nat] /\ Sound(EmptyFile)
         /\ Synced(f) \in [recs : Seq(T), synced : Nat] /\ Sound(Synced(f))
         /\ \A r \in T : Appended(f, r) \in [recs : Seq(T), synced : Nat] /\ Sound(Appended(f, r))
<1>1. Len(f.recs) \in Nat /\ f.recs \in Seq(T) /\ f.synced \in Nat
  BY LenProperties
<1>2. <<>> \in Seq(T) /\ Len(<<>>) = 0
  BY EmptySeq
<1>3. EmptyFile \in [recs : Seq(T), synced : Nat] /\ Sound(EmptyFile)
  BY <1>2 DEF EmptyFile, Sound
<1>4. Synced(f) \in [recs : Seq(T), synced : Nat] /\ Sound(Synced(f))
  BY <1>1 DEF Synced, Sound
<1>5. ASSUME NEW r \in T
      PROVE  Appended(f, r) \in [recs : Seq(T), synced : Nat] /\ Sound(Appended(f, r))
  <2>1. Append(f.recs, r) \in Seq(T) /\ Len(Append(f.recs, r)) = Len(f.recs) + 1
    BY <1>1, AppendProperties
  <2> QED BY <1>1, <2>1 DEF Appended, Sound
<1> QED BY <1>3, <1>4, <1>5

LEMMA RemainsType ==
  ASSUME NEW T, Torn \in T, NEW f \in [recs : Seq(T), synced : Nat], Sound(f), NEW mayTear \in BOOLEAN,
         NEW g \in Remains(f, mayTear)
  PROVE  g \in [recs : Seq(T), synced : Nat] /\ Sound(g)
<1> DEFINE cut(n) == SubSeq(f.recs, 1, n)
<1>1. Len(f.recs) \in Nat /\ f.recs \in Seq(T) /\ f.synced \in Nat
  BY LenProperties
<1>2. \A n \in f.synced .. Len(f.recs) : n \in Nat /\ cut(n) \in Seq(T) /\ Len(cut(n)) = n
  <2> TAKE n \in f.synced .. Len(f.recs)
  <2>1. n \in 0 .. Len(f.recs)
    BY <1>1
  <2> QED BY <1>1, <2>1, Prefix
<1>3. ASSUME NEW n \in f.synced .. Len(f.recs), g = [recs |-> cut(n), synced |-> n]
      PROVE  g \in [recs : Seq(T), synced : Nat] /\ Sound(g)
  <2> HIDE DEF cut
  <2> QED BY <1>1, <1>2, <1>3 DEF Sound
<1>4. ASSUME NEW n \in f.synced .. Len(f.recs) - 1,
             g = [recs |-> Append(cut(n), Torn), synced |-> n + 1]
      PROVE  g \in [recs : Seq(T), synced : Nat] /\ Sound(g)
  <2>1. n \in f.synced .. Len(f.recs)
    BY <1>1
  <2>2. n \in Nat /\ cut(n) \in Seq(T) /\ Len(cut(n)) = n
    BY <1>2, <2>1
  <2> HIDE DEF cut
  <2>3. Append(cut(n), Torn) \in Seq(T) /\ Len(Append(cut(n), Torn)) = n + 1
    BY <2>2, AppendProperties
  <2> QED BY <1>4, <2>2, <2>3 DEF Sound
<1>5. \/ \E n \in f.synced .. Len(f.recs) : g = [recs |-> cut(n), synced |-> n]
      \/ \E n \in f.synced .. Len(f.recs) - 1 : g = [recs |-> Append(cut(n), Torn), synced |-> n + 1]
  BY DEF Remains
<1> QED BY <1>3, <1>4, <1>5

\* What a replay gives, and what the log gives, are of the right kind.
LEMMA ReplayType ==
  ASSUME Typed
  PROVE  /\ OnDisk.live \in SUBSET Nat
         /\ OnDisk.log \in Nat /\ OnDisk.next \in Nat /\ OnDisk.seq \in Nat
<1>1. Readable(manifest) \in Seq(Edit)
  <2>1. manifest.recs \in Seq(Edit \cup {Torn})
    BY DEF Typed, DiskTyped, ManifestFile
  <2> QED BY <2>1, ReadableType
<1> QED BY <1>1, LiveType, LatestType DEF OnDisk, Replay

LEMMA LogEntriesType ==
  ASSUME Typed, NEW n
  PROVE  LogEntries(n) \in SUBSET Entry /\ IsFiniteSet(LogEntries(n))
<1>1. CASE n \in DOMAIN logs
  <2>1. logs[n].recs \in Seq(Entry \cup {Torn})
    BY <1>1 DEF Typed, DiskTyped, LogFile
  <2>2. Readable(logs[n]) \in Seq(Entry)
    BY <2>1, ReadableType
  <2> QED BY <1>1, <2>2, RangeFinite DEF LogEntries, RecordsIn
<1>2. CASE n \notin DOMAIN logs
  BY <1>2, FS_EmptySet DEF LogEntries
<1> QED BY <1>1, <1>2

LEMMA RecoveredSeqType ==
  ASSUME NEW v, v.seq \in Nat, NEW r \in SUBSET Entry, IsFiniteSet(r)
  PROVE  RecoveredSeq(v, r) \in Nat
<1> DEFINE f == [e \in r |-> e.seq]
           S == {f[e] : e \in r}
<1>1. \A e \in r : e.seq \in Nat /\ f[e] = e.seq
  BY DEF Entry
<1>2. IsFiniteSet(S)
  <2>1. f \in Surjection(r, S)
    BY DEF Surjection
  <2> HIDE DEF f, S
  <2> QED BY <2>1, FS_Surjection
<1>3. IsFiniteSet(S \cup {v.seq}) /\ S \cup {v.seq} \subseteq Nat
  <2>1. S \subseteq Nat
    BY <1>1
  <2> HIDE DEF S
  <2> QED BY <1>2, <2>1, FS_AddElement
<1>4. \E m \in S \cup {v.seq} : \A a \in S \cup {v.seq} : a <= m
  <2> HIDE DEF S
  <2> QED BY <1>3, MaxExists
<1>5. S = {e.seq : e \in r}
  BY <1>1
<1>6. \E m \in {v.seq} \cup {e.seq : e \in r} : m >= v.seq /\ \A e \in r : m >= e.seq
  <2>1. PICK m \in S \cup {v.seq} : \A a \in S \cup {v.seq} : a <= m
    BY <1>4
  <2>2. m >= v.seq
    BY <1>3, <2>1
  <2>3. \A e \in r : m >= e.seq
    <3> TAKE e \in r
    <3>1. e.seq \in S
      BY <1>5
    <3> QED BY <1>3, <2>1, <3>1
  <2> QED BY <1>5, <2>2, <2>3
<1>7. RecoveredSeq(v, r) \in {v.seq} \cup {e.seq : e \in r}
  BY <1>6 DEF RecoveredSeq
<1> QED BY <1>1, <1>7

LEMMA WithLogType ==
  ASSUME DiskTyped, NEW n \in Nat
  PROVE  \A m \in DOMAIN WithLog(n) :
           m \in Nat /\ WithLog(n)[m] \in LogFile /\ Sound(WithLog(n)[m])
<1>1. EmptyFile \in LogFile /\ Sound(EmptyFile)
  <2>1. <<>> \in Seq(Entry \cup {Torn}) /\ Len(<<>>) = 0
    BY EmptySeq
  <2> QED BY <2>1 DEF EmptyFile, LogFile, Sound
<1> QED BY <1>1 DEF WithLog, DiskTyped

\* The current log with one more record, or synced.
LEMMA LogChanged ==
  ASSUME DiskTyped, NEW w, NEW g, w \in DOMAIN logs => g \in LogFile /\ Sound(g),
         NEW new, new = [logs EXCEPT ![w] = g]
  PROVE  \A m \in DOMAIN new : m \in Nat /\ new[m] \in LogFile /\ Sound(new[m])
  BY DEF DiskTyped

LEMMA LogSteps ==
  ASSUME DiskTyped, NEW n \in DOMAIN logs
  PROVE  /\ Synced(logs[n]) \in LogFile /\ Sound(Synced(logs[n]))
         /\ \A r \in Entry \cup {Torn} : Appended(logs[n], r) \in LogFile /\ Sound(Appended(logs[n], r))
<1>1. logs[n] \in LogFile /\ Sound(logs[n])
  BY DEF DiskTyped
<1> QED BY <1>1, FileTypes DEF LogFile

LEMMA ManifestSteps ==
  ASSUME DiskTyped
  PROVE  /\ Synced(manifest) \in ManifestFile /\ Sound(Synced(manifest))
         /\ \A r \in Edit \cup {Torn} :
              Appended(manifest, r) \in ManifestFile /\ Sound(Appended(manifest, r))
<1>1. manifest \in ManifestFile /\ Sound(manifest)
  BY DEF DiskTyped
<1> QED BY <1>1, FileTypes DEF ManifestFile

LEMMA ForgottenType ==
  ASSUME Forgotten
  PROVE  MemoryTyped'
  BY DEF Forgotten, MemoryTyped, Unset, NoEdit, Edit

LEMMA InitTyped == Init => Typed
<1> SUFFICES ASSUME Init PROVE Typed
  OBVIOUS
<1>1. manifest \in ManifestFile /\ Sound(manifest)
  <2>1. <<>> \in Seq(Edit \cup {Torn}) /\ Len(<<>>) = 0
    BY EmptySeq
  <2> QED BY <2>1 DEF Init, EmptyFile, ManifestFile, Sound
<1>2. DOMAIN logs = {} /\ DOMAIN ssts = {}
  BY DEF Init
<1>3. DiskTyped
  BY <1>1, <1>2 DEF Init, DiskTyped
<1>4. MemoryTyped
  BY DEF Init, MemoryTyped, Unset, NoEdit, Edit
<1> QED BY <1>3, <1>4 DEF Init, Typed, GhostsTyped, Steps

\* Where an operation is.
LEMMA StepsShape ==
  ASSUME pc \in Steps
  PROVE  /\ pc = <<pc[1], pc[2]>>
         /\ pc[1] \in {"closed", "running", "put", "close", "create", "recover", "flush", "compact"}
         /\ pc[2] = "sst" => pc[1] \in {"recover", "flush", "compact"}
         /\ pc[2] = "append" => pc[1] \in {"put", "create", "recover", "flush", "compact"}
         /\ pc[2] = "sync" => pc[1] \in {"put", "close", "create", "recover", "flush", "compact"}
         /\ pc[1] = "closed" => pc = Closed
         /\ pc[1] = "running" => pc = Running
<1>1. CASE pc \in {Closed, Running, <<"put", "append">>, <<"put", "sync">>, <<"close", "sync">>}
  <2>1. CASE pc = Closed
    BY <2>1 DEF Closed
  <2>2. CASE pc = Running
    BY <2>2 DEF Running
  <2>3. CASE pc = <<"put", "append">> \/ pc = <<"put", "sync">> \/ pc = <<"close", "sync">>
    BY <2>3
  <2> QED BY <1>1, <2>1, <2>2, <2>3
<1>2. CASE pc \in {"create"} \X {"append", "sync", "current", "log"}
  <2>1. PICK b \in {"append", "sync", "current", "log"} : pc = <<"create", b>>
    BY <1>2
  <2> QED BY <2>1
<1>3. CASE pc \in {"recover"} \X {"sst", "log", "append", "sync", "open", "clean"}
  <2>1. PICK b \in {"sst", "log", "append", "sync", "open", "clean"} : pc = <<"recover", b>>
    BY <1>3
  <2> QED BY <2>1
<1>4. CASE pc \in {"flush"} \X {"sst", "log", "old", "append", "sync"}
  <2>1. PICK b \in {"sst", "log", "old", "append", "sync"} : pc = <<"flush", b>>
    BY <1>4
  <2> QED BY <2>1
<1>5. CASE pc \in {"compact"} \X {"sst", "append", "sync"}
  <2>1. PICK b \in {"sst", "append", "sync"} : pc = <<"compact", b>>
    BY <1>5
  <2> QED BY <2>1
<1> QED BY <1>1, <1>2, <1>3, <1>4, <1>5 DEF Steps

LEMMA SomeSteps ==
  /\ Closed \in Steps /\ Running \in Steps
  /\ \A b \in {"append", "sync", "current", "log"} : <<"create", b>> \in Steps
  /\ \A op \in {"recover", "flush", "compact"} : <<op, "sync">> \in Steps
  /\ <<"recover", "open">> \in Steps /\ <<"recover", "append">> \in Steps /\ <<"recover", "sst">> \in Steps
  /\ <<"flush", "sst">> \in Steps /\ <<"put", "sync">> \in Steps /\ <<"compact", "sst">> \in Steps
<1>1. Closed \in Steps /\ Running \in Steps /\ <<"put", "sync">> \in Steps
  BY DEF Steps
<1>2. \A b \in {"append", "sync", "current", "log"} : <<"create", b>> \in Steps
  BY DEF Steps
<1>3. \A op \in {"recover", "flush", "compact"} : <<op, "sync">> \in Steps
  BY DEF Steps
<1>4. /\ <<"recover", "open">> \in Steps /\ <<"recover", "append">> \in Steps
      /\ <<"recover", "sst">> \in Steps
  BY DEF Steps
<1>5. <<"flush", "sst">> \in Steps /\ <<"compact", "sst">> \in Steps
  BY DEF Steps
<1> QED BY <1>1, <1>2, <1>3, <1>4, <1>5

\* The edits the operations start with.
LEMMA NewEdits ==
  /\ NoEdit \in Edit
  /\ \A a \in Nat : [NoEdit EXCEPT !.add = {a}] \in Edit
  /\ \A l, n \in Nat : [NoEdit EXCEPT !.log = l, !.next = n] \in Edit
  /\ \A a, n \in Nat, d \in SUBSET Nat : [NoEdit EXCEPT !.add = {a}, !.del = d, !.next = n] \in Edit
<1>1. NoEdit \in Edit
  BY DEF NoEdit, Edit, Unset
<1>2. \A a \in Nat : [NoEdit EXCEPT !.add = {a}] \in Edit
  BY <1>1 DEF Edit
<1>3. \A l, n \in Nat : [NoEdit EXCEPT !.log = l, !.next = n] \in Edit
  BY <1>1 DEF Edit
<1>4. ASSUME NEW a \in Nat, NEW n \in Nat, NEW d \in SUBSET Nat
      PROVE  [NoEdit EXCEPT !.add = {a}, !.del = d, !.next = n] \in Edit
  BY <1>1 DEF Edit
<1> QED BY <1>1, <1>2, <1>3, <1>4

\* What a write takes into memory.
LEMMA TakeType ==
  ASSUME Typed, NEW e \in Entry, Take(e)
  PROVE  /\ mem' \in SUBSET Entry /\ frozen' \in SUBSET Entry
         /\ edit' \in Edit /\ lastSeq' \in Nat /\ nextNum' \in Nat
         /\ sure' \in SUBSET Entry /\ pc' \in Steps
<1>1. MemoryTyped /\ sure \in SUBSET Entry /\ e.seq \in Nat
  BY DEF Typed, GhostsTyped, Entry
<1>2. mem \cup {e} \in SUBSET Entry /\ sure \cup {e} \in SUBSET Entry
  BY <1>1 DEF MemoryTyped
<1>3. lastSeq' = e.seq
  BY DEF Take
<1>4. CASE /\ mem' = mem \cup {e}
           /\ pc' = Running
           /\ sure' = IF sync THEN sure \cup {e} ELSE sure
           /\ UNCHANGED <<frozen, nextNum, edit>>
  BY <1>1, <1>2, <1>3, <1>4, SomeSteps DEF MemoryTyped
<1>5. CASE /\ frozen' = mem \cup {e}
           /\ mem' = {}
           /\ pc' = <<"flush", "sst">>
           /\ edit' = [NoEdit EXCEPT !.add = {nextNum}]
           /\ nextNum' = nextNum + 1
           /\ UNCHANGED sure
  <2>1. nextNum \in Nat
    BY <1>1 DEF MemoryTyped
  <2>2. edit' \in Edit
    BY <1>5, <2>1, NewEdits
  <2>3. pc' \in Steps
    BY <1>5, SomeSteps
  <2> QED BY <1>1, <1>2, <1>3, <1>5, <2>1, <2>2, <2>3
<1> QED BY <1>4, <1>5 DEF Take

LEMMA NextTyped == Typed /\ [Next]_vars => Typed'
<1> SUFFICES ASSUME Typed, [Next]_vars PROVE Typed'
  OBVIOUS
<1>1. DiskTyped /\ MemoryTyped /\ GhostsTyped /\ pc \in Steps
  BY DEF Typed
<1>2. ASSUME UNCHANGED disk PROVE DiskTyped'
  BY <1>1, <1>2 DEF disk, DiskTyped
<1>3. ASSUME UNCHANGED memory PROVE MemoryTyped'
  BY <1>1, <1>3 DEF memory, MemoryTyped
<1>4. ASSUME UNCHANGED ghosts PROVE GhostsTyped'
  BY <1>1, <1>4 DEF ghosts, GhostsTyped
<1>5. CASE OpenNew
  <2>1. DiskTyped'
    BY <1>1, <1>5 DEF OpenNew, DiskTyped
  <2>2. MemoryTyped' /\ GhostsTyped'
    <3>1. edit' \in Edit
      BY <1>5, NewEdits DEF OpenNew
    <3> QED BY <1>1, <1>5, <3>1 DEF OpenNew, MemoryTyped, GhostsTyped
  <2> QED BY <1>5, <2>1, <2>2 DEF OpenNew, Typed, Steps
<1>6. CASE WriteCurrent
  <2>1. DiskTyped'
    BY <1>1, <1>6 DEF WriteCurrent, DiskTyped
  <2>2. pc' \in Steps
    BY <1>6, SomeSteps DEF WriteCurrent
  <2> QED BY <1>3, <1>4, <1>6, <2>1, <2>2 DEF WriteCurrent, Typed
<1>7. CASE OpenExisting
  <2> DEFINE v == OnDisk
             r == LogEntries(v.log)
  <2>1. v.live \in SUBSET Nat /\ v.log \in Nat /\ v.next \in Nat /\ v.seq \in Nat
    BY ReplayType
  <2>2. r \in SUBSET Entry /\ IsFiniteSet(r)
    BY LogEntriesType
  <2>3. RecoveredSeq(v, r) \in Nat
    BY <2>1, <2>2, RecoveredSeqType
  <2>4. /\ mem' = r /\ live' = v.live /\ wal' = v.log /\ lastSeq' = RecoveredSeq(v, r)
        /\ nextNum' = v.next + 1
        /\ \/ /\ pc' = <<"recover", "sst">>
              /\ edit' = [NoEdit EXCEPT !.add = {v.next}]
           \/ /\ pc' = <<"recover", "append">>
              /\ edit' = [NoEdit EXCEPT !.log = v.next, !.next = v.next + 1]
        /\ sync' \in BOOLEAN /\ opens' = opens + 1
        /\ UNCHANGED <<disk, frozen, issued, sure>>
    BY <1>7 DEF OpenExisting, NumbersFrom, FreshLog
  <2> HIDE DEF v, r
  <2>5. edit' \in Edit /\ pc' \in Steps
    <3>1. v.next \in Nat /\ v.next + 1 \in Nat
      BY <2>1
    <3> QED BY <2>4, <3>1, SomeSteps, NewEdits
  <2>6. MemoryTyped' /\ GhostsTyped'
    BY <1>1, <2>1, <2>2, <2>3, <2>4, <2>5 DEF MemoryTyped, GhostsTyped
  <2> QED BY <1>2, <2>4, <2>5, <2>6 DEF Typed
<1>8. CASE Clean
  <2>1. DiskTyped'
    BY <1>1, <1>8 DEF Clean, DiskTyped
  <2> QED BY <1>3, <1>4, <1>8, <2>1 DEF Clean, Typed, Steps
<1>9. CASE WriteSst
  <2>1. EntriesOf(edit.del) \in SUBSET Entry /\ mem \cup frozen \in SUBSET Entry
    BY <1>1 DEF EntriesOf, DiskTyped, MemoryTyped
  <2>2. edit.add \subseteq Nat
    BY <1>1 DEF MemoryTyped, Edit
  <2>3. \A n \in DOMAIN ssts' : n \in Nat /\ ssts'[n] \in SUBSET Entry
    BY <1>1, <1>9, <2>1, <2>2 DEF WriteSst, DiskTyped
  <2>4. DiskTyped'
    BY <1>1, <1>9, <2>3 DEF WriteSst, DiskTyped
  <2>5. MemoryTyped'
    BY <1>1, <1>9 DEF WriteSst, MemoryTyped, Edit
  <2>6. pc' \in Steps
    BY <1>1, <1>9, StepsShape DEF WriteSst, Steps
  <2> QED BY <1>4, <1>9, <2>4, <2>5, <2>6 DEF WriteSst, Typed
<1>10. CASE MakeLog
  <2>1. edit.log \in Nat
    BY <1>1 DEF MemoryTyped, Edit
  <2>2. DiskTyped'
    BY <1>1, <1>10, <2>1, WithLogType DEF MakeLog, DiskTyped
  <2>3. MemoryTyped'
    BY <1>1, <1>10 DEF MakeLog, MemoryTyped, Edit
  <2>4. pc' \in Steps
    BY <1>10 DEF MakeLog, Steps
  <2> QED BY <1>4, <1>10, <2>2, <2>3, <2>4 DEF MakeLog, Typed
<1>11. CASE AppendEdit
  <2>1. edit \in Edit
    BY <1>1 DEF MemoryTyped
  <2>2. manifest' \in ManifestFile /\ Sound(manifest')
    BY <1>1, <1>11, <2>1, ManifestSteps DEF AppendEdit
  <2>3. DiskTyped'
    BY <1>1, <1>11, <2>2 DEF AppendEdit, DiskTyped
  <2>4. pc' \in Steps
    BY <1>1, <1>11, StepsShape DEF AppendEdit, Steps
  <2> QED BY <1>3, <1>4, <1>11, <2>3, <2>4 DEF AppendEdit, Typed
<1>12. CASE SyncEdit
  <2>1. manifest' \in ManifestFile /\ Sound(manifest')
    BY <1>1, <1>12, ManifestSteps DEF SyncEdit
  <2>2. DiskTyped'
    BY <1>1, <1>12, <2>1 DEF SyncEdit, DiskTyped
  <2>3. live' \in SUBSET Nat /\ wal' \in Nat /\ nextNum' \in Nat
    BY <1>1, <1>12 DEF SyncEdit, Apply, NumbersAfter, MemoryTyped, Edit
  <2>4. mem' \in SUBSET Entry /\ frozen' \in SUBSET Entry /\ edit' \in Edit
    BY <1>1, <1>12 DEF SyncEdit, MemoryTyped, NoEdit, Edit, Unset
  <2>5. MemoryTyped'
    BY <1>1, <1>12, <2>3, <2>4 DEF SyncEdit, MemoryTyped
  <2>6. GhostsTyped'
    BY <1>1, <1>12 DEF SyncEdit, MemoryTyped, GhostsTyped
  <2>7. pc' \in Steps
    <3>1. pc[1] \in {"create", "recover", "flush", "compact"}
      BY <1>1, <1>12, StepsShape DEF SyncEdit
    <3>2. pc' = AfterCommit[pc[1]]
      BY <1>12 DEF SyncEdit
    <3> QED BY <3>1, <3>2, SomeSteps DEF AfterCommit
  <2> QED BY <2>2, <2>5, <2>6, <2>7 DEF Typed
<1>13. CASE OpenLog
  <2>1. DiskTyped'
    BY <1>1, <1>13, WithLogType DEF OpenLog, DiskTyped, MemoryTyped
  <2>2. pc' \in Steps
    BY <1>13 DEF OpenLog, Steps
  <2> QED BY <1>3, <1>4, <1>13, <2>1, <2>2 DEF OpenLog, Typed
<1>14. CASE BeginPut \/ BeginClose
  BY <1>2, <1>3, <1>4, <1>14 DEF BeginPut, BeginClose, Typed, Steps
<1>15. CASE AppendWrite
  <2>1. NewEntry \in Entry
    BY <1>1 DEF NewEntry, Entry, MemoryTyped, GhostsTyped
  <2>2. \A m \in DOMAIN logs' : m \in Nat /\ logs'[m] \in LogFile /\ Sound(logs'[m])
    <3>1. wal \in DOMAIN logs =>
            Appended(logs[wal], NewEntry) \in LogFile /\ Sound(Appended(logs[wal], NewEntry))
      BY <1>1, <2>1, LogSteps
    <3>2. logs' = [logs EXCEPT ![wal] = Appended(logs[wal], NewEntry)]
      BY <1>15 DEF AppendWrite
    <3> QED BY <1>1, <3>1, <3>2, LogChanged
  <2>3. DiskTyped'
    BY <1>1, <1>15, <2>2 DEF AppendWrite, DiskTyped
  <2>4. /\ mem' \in SUBSET Entry /\ frozen' \in SUBSET Entry
        /\ edit' \in Edit /\ lastSeq' \in Nat /\ nextNum' \in Nat
        /\ sure' \in SUBSET Entry /\ pc' \in Steps
    <3>1. CASE sync
      BY <1>1, <1>15, <3>1 DEF AppendWrite, MemoryTyped, GhostsTyped, Steps
    <3>2. CASE ~sync
      BY <1>15, <2>1, <3>2, TakeType DEF AppendWrite
    <3> QED BY <3>1, <3>2
  <2>5. UNCHANGED <<sync, live, wal, opens>> /\ issued' = issued + 1
    BY <1>15 DEF AppendWrite
  <2> QED BY <1>1, <2>3, <2>4, <2>5 DEF Typed, MemoryTyped, GhostsTyped
<1>16. CASE SyncWrite
  <2>1. [seq |-> lastSeq + 1, id |-> issued] \in Entry
    BY <1>1 DEF Entry, MemoryTyped, GhostsTyped
  <2>2. \A m \in DOMAIN logs' : m \in Nat /\ logs'[m] \in LogFile /\ Sound(logs'[m])
    <3>1. wal \in DOMAIN logs => Synced(logs[wal]) \in LogFile /\ Sound(Synced(logs[wal]))
      BY <1>1, LogSteps
    <3>2. logs' = [logs EXCEPT ![wal] = Synced(logs[wal])]
      BY <1>16 DEF SyncWrite
    <3> QED BY <1>1, <3>1, <3>2, LogChanged
  <2>3. DiskTyped'
    BY <1>1, <1>16, <2>2 DEF SyncWrite, DiskTyped
  <2>4. /\ mem' \in SUBSET Entry /\ frozen' \in SUBSET Entry
        /\ edit' \in Edit /\ lastSeq' \in Nat /\ nextNum' \in Nat
        /\ sure' \in SUBSET Entry /\ pc' \in Steps
    BY <1>16, <2>1, TakeType DEF SyncWrite
  <2>5. UNCHANGED <<sync, live, wal, issued, opens>>
    BY <1>16 DEF SyncWrite
  <2> QED BY <1>1, <2>3, <2>4, <2>5 DEF Typed, MemoryTyped, GhostsTyped
<1>17. CASE SyncOldLog
  <2>1. \A m \in DOMAIN logs' : m \in Nat /\ logs'[m] \in LogFile /\ Sound(logs'[m])
    <3>1. wal \in DOMAIN logs => Synced(logs[wal]) \in LogFile /\ Sound(Synced(logs[wal]))
      BY <1>1, LogSteps
    <3>2. logs' = [logs EXCEPT ![wal] = Synced(logs[wal])]
      BY <1>17 DEF SyncOldLog
    <3> QED BY <1>1, <3>1, <3>2, LogChanged
  <2>2. DiskTyped'
    BY <1>1, <1>17, <2>1 DEF SyncOldLog, DiskTyped
  <2>3. MemoryTyped'
    BY <1>1, <1>17 DEF SyncOldLog, MemoryTyped, Edit
  <2> QED BY <1>4, <1>17, <2>2, <2>3 DEF SyncOldLog, Typed, Steps
<1>18. CASE BeginCompact
  <2>1. PICK inputs \in (SUBSET live) \ {{}} :
          edit' = [NoEdit EXCEPT !.add = {nextNum}, !.del = inputs, !.next = nextNum + 1]
    BY <1>18 DEF BeginCompact
  <2>2. nextNum \in Nat /\ nextNum + 1 \in Nat /\ inputs \in SUBSET Nat
    BY <1>1 DEF MemoryTyped
  <2>3. edit' \in Edit
    BY <2>1, <2>2, NewEdits
  <2>4. MemoryTyped'
    BY <1>1, <1>18, <2>3 DEF BeginCompact, MemoryTyped
  <2> QED BY <1>2, <1>4, <1>18, <2>4, SomeSteps DEF BeginCompact, Typed
<1>19. CASE FinishClose
  <2>1. \A m \in DOMAIN logs' : m \in Nat /\ logs'[m] \in LogFile /\ Sound(logs'[m])
    <3>1. wal \in DOMAIN logs => Synced(logs[wal]) \in LogFile /\ Sound(Synced(logs[wal]))
      BY <1>1, LogSteps
    <3>2. logs' = [logs EXCEPT ![wal] = Synced(logs[wal])]
      BY <1>19 DEF FinishClose
    <3> QED BY <1>1, <3>1, <3>2, LogChanged
  <2>2. DiskTyped'
    BY <1>1, <1>19, <2>1 DEF FinishClose, DiskTyped
  <2>3. MemoryContent \in SUBSET Entry
    BY <1>1 DEF MemoryContent, EntriesOf, DiskTyped, MemoryTyped
  <2>4. GhostsTyped'
    BY <1>1, <1>19, <2>3 DEF FinishClose, GhostsTyped
  <2>5. MemoryTyped' /\ pc' \in Steps
    BY <1>19, ForgottenType DEF FinishClose, Steps
  <2> QED BY <2>2, <2>4, <2>5 DEF Typed
<1>20. CASE Crash
  <2>1. manifest' \in ManifestFile /\ Sound(manifest')
    <3>1. manifest \in ManifestFile /\ Sound(manifest)
      BY <1>1 DEF DiskTyped
    <3>2. manifest' \in Remains(manifest, "manifest" \in TornTails)
      BY <1>20 DEF Crash
    <3>3. ("manifest" \in TornTails) \in BOOLEAN /\ Torn \in Edit \cup {Torn}
      OBVIOUS
    <3> QED BY <3>1, <3>2, <3>3, RemainsType DEF ManifestFile
  <2>2. \A n \in DOMAIN logs' : n \in Nat /\ logs'[n] \in LogFile /\ Sound(logs'[n])
    <3> TAKE n \in DOMAIN logs'
    <3>1. n \in DOMAIN logs /\ logs'[n] \in Remains(logs[n], "log" \in TornTails)
      BY <1>20 DEF Crash
    <3>2. n \in Nat /\ logs[n] \in LogFile /\ Sound(logs[n])
      BY <1>1, <3>1 DEF DiskTyped
    <3>3. logs'[n] \in LogFile /\ Sound(logs'[n])
      <4>1. ("log" \in TornTails) \in BOOLEAN /\ Torn \in Entry \cup {Torn}
        OBVIOUS
      <4> QED BY <3>1, <3>2, <4>1, RemainsType DEF LogFile
    <3> QED BY <3>2, <3>3
  <2>3. DiskTyped'
    BY <1>1, <1>20, <2>1, <2>2 DEF Crash, DiskTyped
  <2>4. MemoryTyped' /\ pc' \in Steps
    BY <1>20, ForgottenType DEF Crash, Steps
  <2> QED BY <1>4, <1>20, <2>3, <2>4 DEF Crash, Typed
<1>21. CASE IoError
  <2>1. edit \in Edit /\ Torn \in Edit \cup {Torn}
    BY <1>1 DEF MemoryTyped
  <2>2. manifest' \in ManifestFile /\ Sound(manifest')
    <3>1. manifest' = manifest \/ manifest' = Appended(manifest, Torn)
      BY <1>21 DEF IoError, AfterFailedAppend
    <3>2. manifest \in ManifestFile /\ Sound(manifest)
      BY <1>1 DEF DiskTyped
    <3> QED BY <1>1, <3>1, <3>2, ManifestSteps
  <2>3. \A n \in DOMAIN logs' : n \in Nat /\ logs'[n] \in LogFile /\ Sound(logs'[n])
    <3>1. logs' = logs \/ \E f \in AfterFailedAppend(logs[wal]) : logs' = [logs EXCEPT ![wal] = f]
      BY <1>21 DEF IoError
    <3>2. \A f \in AfterFailedAppend(logs[wal]) :
            wal \in DOMAIN logs => f \in LogFile /\ Sound(f)
      BY <1>1, LogSteps DEF AfterFailedAppend, DiskTyped
    <3>3. CASE logs' = logs
      BY <1>1, <3>3 DEF DiskTyped
    <3>4. ASSUME NEW f \in AfterFailedAppend(logs[wal]), logs' = [logs EXCEPT ![wal] = f]
          PROVE  \A n \in DOMAIN logs' : n \in Nat /\ logs'[n] \in LogFile /\ Sound(logs'[n])
      BY <1>1, <3>2, <3>4, LogChanged
    <3> QED BY <3>1, <3>3, <3>4
  <2>4. DiskTyped'
    BY <1>1, <1>21, <2>2, <2>3 DEF IoError, DiskTyped
  <2>5. MemoryTyped' /\ pc' \in Steps
    <3>1. CASE Forgotten /\ pc' = Closed
      BY <3>1, ForgottenType DEF Steps
    <3>2. CASE pc' = Running /\ frozen' = {} /\ edit' = NoEdit
               /\ UNCHANGED <<sync, mem, live, wal, lastSeq, nextNum>>
      BY <1>1, <3>2 DEF MemoryTyped, NoEdit, Edit, Unset, Steps
    <3> QED BY <1>21, <3>1, <3>2 DEF IoError
  <2> QED BY <1>4, <1>21, <2>4, <2>5 DEF IoError, Typed
<1>22. CASE UNCHANGED vars
  BY <1>1, <1>2, <1>3, <1>4, <1>22 DEF vars, Typed
<1> QED BY <1>5, <1>6, <1>7, <1>8, <1>9, <1>10, <1>11, <1>12, <1>13, <1>14, <1>15, <1>16,
           <1>17, <1>18, <1>19, <1>20, <1>21, <1>22 DEF Next
----------------------------------------------------------------------------
(* Commits and the numbers of files *)

\* No record of the manifest is cut short, and no commit of a running database or of a
\* recovery fails half way: DurTornManifest and DurFailedFlush show what happens then.
GentleFaults ==
  /\ "manifest" \notin TornTails
  /\ Faults \cap {<<"recover", "append">>, <<"flush", "append">>, <<"compact", "append">>,
                  <<"flush", "sync">>, <<"compact", "sync">>} = {}

Editing == {"create", "recover", "flush", "compact"}

\* The edit of the operation in progress is in the manifest, and not yet in force.
Committing == pc[2] = "sync" /\ pc[1] \in Editing

Whole == manifest.recs \in Seq(Edit)

\* What the manifest replays to is the Version in force, or will be after the commit.
Committed ==
  pc # Closed =>
    IF Committing
      THEN /\ LiveAfter(manifest.recs) = Apply(live, edit)
           /\ Latest(manifest.recs, "log") = IF edit.log = Unset THEN wal ELSE edit.log
      ELSE /\ LiveAfter(manifest.recs) = live
           /\ Latest(manifest.recs, "log") = wal

\* Whatever a replay of these edits calls live exists, and is numbered below the next file.
Consistent(edits) ==
  /\ \A n \in LiveAfter(edits) : n \in DOMAIN ssts /\ n < Latest(edits, "next")
  /\ Latest(edits, "log") = Unset \/ Latest(edits, "log") < Latest(edits, "next")

\* A crash may leave any of these prefixes.
PrefixesConsistent ==
  \A n \in manifest.synced .. Len(manifest.recs) : Consistent(SubSeq(manifest.recs, 1, n))

LiveThere == live \subseteq DOMAIN ssts

Below == pc # Closed => /\ \A n \in live : n < nextNum
                        /\ wal = Unset \/ wal < nextNum

\* The number of the SSTable about to be written is nobody's.
Fresh ==
  pc[2] = "sst" =>
    /\ edit.add \cap live = {}
    /\ IF pc[1] = "compact"
         THEN /\ edit.next = nextNum + 1 /\ edit.log = Unset
              /\ \A n \in edit.add : n < edit.next
         ELSE \A n \in edit.add : n < nextNum

\* The SSTable is written and the next log numbered; the edit is not complete.
Numbered ==
  pc \in {<<"recover", "log">>, <<"flush", "log">>, <<"flush", "old">>} =>
    /\ edit.add \subseteq DOMAIN ssts
    /\ edit.log < nextNum /\ \A n \in edit.add : n < nextNum

\* The edit is complete: the files it adds are there, and its next number is above all.
Ready ==
  pc[2] \in {"append", "sync"} /\ pc[1] \in Editing =>
    /\ edit.add \subseteq DOMAIN ssts
    /\ edit.next # Unset /\ edit.next >= nextNum
    /\ pc[1] = "compact" \/ edit.next = nextNum
    /\ \A n \in edit.add : n < edit.next
    /\ edit.log = Unset \/ edit.log < edit.next

\* A recovery cleans up only what no prefix of the manifest names any more.
AllSynced ==
  pc \in {<<"recover", "open">>, <<"recover", "clean">>} => manifest.synced = Len(manifest.recs)

NothingYet == dir = "empty" => pc = Closed /\ manifest.recs = <<>>

NotYetNamed == pc = <<"create", "append">> => dir = "unnamed"

Inner ==
  /\ Whole /\ Committed /\ PrefixesConsistent /\ LiveThere /\ Below /\ Fresh /\ Numbered
  /\ Ready /\ AllSynced /\ NothingYet /\ NotYetNamed

\* A directory whose creation was interrupted: nothing opens it any more.
Dead == dir = "unnamed" /\ pc = Closed

ClosedForgets == pc = Closed => live = {} /\ wal = Unset

IInv == Typed /\ ClosedForgets /\ (Dead \/ Inner)

----------------------------------------------------------------------------
(* The steps *)

LEMMA OpenSteps == \A p : p[1] # "closed" => p # Closed
<1> SUFFICES ASSUME NEW p, p = Closed PROVE p[1] = "closed"
  OBVIOUS
<1> QED BY DEF Closed

LEMMA WholeReadable ==
  ASSUME Whole
  PROVE  Readable(manifest) = manifest.recs
<1>1. \A i \in DOMAIN manifest.recs : manifest.recs[i] \in Edit
  BY LenProperties DEF Whole
<1>2. \A i \in DOMAIN manifest.recs : manifest.recs[i] # Torn
  BY <1>1, FaultsAssumption
<1> QED BY <1>2, ReadableWhole

LEMMA InitInner == Init => Inner /\ ClosedForgets
<1> SUFFICES ASSUME Init PROVE Inner /\ ClosedForgets
  OBVIOUS
<1>1. manifest.recs = <<>> /\ manifest.synced = 0 /\ Len(manifest.recs) = 0 /\ <<>> \in Seq(Edit)
  BY EmptySeq DEF Init, EmptyFile
<1>2. Whole /\ LiveThere /\ ClosedForgets
  BY <1>1 DEF Init, Whole, LiveThere, ClosedForgets
<1>3. Committed /\ Below /\ NothingYet
  BY <1>1 DEF Init, Committed, Below, NothingYet
<1>4. Fresh /\ Numbered /\ Ready /\ AllSynced /\ NotYetNamed
  BY DEF Init, Closed, Fresh, Numbered, Ready, AllSynced, NotYetNamed
<1>5. PrefixesConsistent
  <2> SUFFICES ASSUME NEW n \in 0 .. 0 PROVE Consistent(SubSeq(<<>>, 1, n))
    BY <1>1 DEF PrefixesConsistent
  <2>1. n = 0 /\ n \in 0 .. Len(<<>>)
    BY <1>1
  <2>2. SubSeq(<<>>, 1, n) = <<>>
    BY <1>1, <2>1, Prefix, EmptySeq
  <2> QED BY <2>2, ReplayOfNothing DEF Consistent
<1> QED BY <1>2, <1>3, <1>4, <1>5 DEF Inner

\* Between operations, and in those that change no Version, no edit is held to anything.
Idle ==
  {Closed, Running, <<"put", "append">>, <<"put", "sync">>, <<"close", "sync">>,
   <<"create", "current">>, <<"create", "log">>}

LEMMA IdleSteps ==
  ASSUME pc' \in Idle
  PROVE  Fresh' /\ Numbered' /\ Ready' /\ AllSynced' /\ NotYetNamed' /\ ~ Committing'
<1>1. CASE pc' = Closed
  BY <1>1 DEF Closed, Fresh, Numbered, Ready, AllSynced, NotYetNamed, Committing, Editing
<1>2. CASE pc' = Running
  BY <1>2 DEF Running, Fresh, Numbered, Ready, AllSynced, NotYetNamed, Committing, Editing
<1>3. CASE pc' = <<"put", "append">>
  BY <1>3 DEF Fresh, Numbered, Ready, AllSynced, NotYetNamed, Committing, Editing
<1>4. CASE pc' = <<"put", "sync">>
  BY <1>4 DEF Fresh, Numbered, Ready, AllSynced, NotYetNamed, Committing, Editing
<1>5. CASE pc' = <<"close", "sync">>
  BY <1>5 DEF Fresh, Numbered, Ready, AllSynced, NotYetNamed, Committing, Editing
<1>6. CASE pc' = <<"create", "current">>
  BY <1>6 DEF Fresh, Numbered, Ready, AllSynced, NotYetNamed, Committing, Editing
<1>7. CASE pc' = <<"create", "log">>
  BY <1>7 DEF Fresh, Numbered, Ready, AllSynced, NotYetNamed, Committing, Editing
<1> QED BY <1>1, <1>2, <1>3, <1>4, <1>5, <1>6, <1>7 DEF Idle

\* The parts that an operation leaves alone until it commits.
Calm == Whole /\ Committed /\ PrefixesConsistent /\ LiveThere /\ Below /\ NothingYet

LEMMA QuietStep ==
  ASSUME Typed, Inner, UNCHANGED <<manifest, live, wal>>, pc # Closed, ~ Committing, ~ Committing',
         DOMAIN ssts \subseteq DOMAIN ssts', nextNum' \in Nat, nextNum' >= nextNum,
         dir' \in {dir, "named"}
  PROVE  Calm'
<1>1. Whole' /\ LiveThere'
  BY DEF Inner, Whole, LiveThere
<1>2. Committed'
  BY DEF Inner, Committed
<1>3. PrefixesConsistent'
  BY DEF Inner, PrefixesConsistent, Consistent
<1>4. Below'
  BY DEF Inner, Below, Typed, MemoryTyped
<1>5. NothingYet'
  BY DEF Inner, NothingYet
<1> QED BY <1>1, <1>2, <1>3, <1>4, <1>5 DEF Calm

\* The process is gone; of the manifest a prefix stays, with all that was synced.
LEMMA ClosingStep ==
  ASSUME Typed, Inner, pc' = Closed, live' = {}, wal' = Unset, UNCHANGED <<dir, ssts>>,
         NEW n \in manifest.synced .. Len(manifest.recs),
         manifest' = manifest \/ manifest' = [recs |-> SubSeq(manifest.recs, 1, n), synced |-> n]
  PROVE  Inner' /\ ClosedForgets'
<1>1. Fresh' /\ Numbered' /\ Ready' /\ AllSynced' /\ NotYetNamed'
  BY IdleSteps DEF Idle
<1>2. Committed' /\ Below' /\ LiveThere' /\ ClosedForgets'
  BY DEF Committed, Below, LiveThere, ClosedForgets
<1>3. CASE manifest' = manifest
  <2>1. Whole' /\ PrefixesConsistent' /\ NothingYet'
    BY <1>3 DEF Inner, Whole, PrefixesConsistent, Consistent, NothingYet
  <2> QED BY <1>1, <1>2, <2>1 DEF Inner
<1>4. CASE manifest' = [recs |-> SubSeq(manifest.recs, 1, n), synced |-> n]
  <2> DEFINE P == SubSeq(manifest.recs, 1, n)
  <2>1. Len(manifest.recs) \in Nat /\ manifest.recs \in Seq(Edit) /\ manifest.synced \in Nat
    BY LenProperties DEF Inner, Whole, Typed, DiskTyped, ManifestFile
  <2>2. n \in 0 .. Len(manifest.recs)
    BY <2>1
  <2>3. P \in Seq(Edit) /\ Len(P) = n
    BY <2>1, <2>2, Prefix
  <2>4. Consistent(P)
    BY DEF Inner, PrefixesConsistent
  <2>5. manifest'.recs = P /\ manifest'.synced = n
    BY <1>4
  <2> HIDE DEF P
  <2>6. Whole'
    BY <2>3, <2>5 DEF Whole
  <2>7. PrefixesConsistent'
    <3>1. SubSeq(P, 1, Len(P)) = P
      BY <2>3, SubSeqFull
    <3>2. \A m \in n .. n : m = n
      BY <2>1
    <3>3. \A m \in manifest'.synced .. Len(manifest'.recs) : SubSeq(manifest'.recs, 1, m) = P
      BY <2>3, <2>5, <3>1, <3>2
    <3> QED BY <2>4, <3>3 DEF PrefixesConsistent, Consistent
  <2>8. NothingYet'
    <3>1. ASSUME dir = "empty" PROVE P = <<>>
      <4>1. manifest.recs = <<>> /\ Len(<<>>) = 0
        BY <3>1, EmptySeq DEF Inner, NothingYet
      <4>2. n = 0
        BY <2>2, <4>1
      <4> QED BY <2>3, <4>2, EmptySeq
    <3> QED BY <2>5, <3>1 DEF NothingYet
  <2> QED BY <1>1, <1>2, <2>6, <2>7, <2>8 DEF Inner
<1> QED BY <1>3, <1>4

\* A directory that cannot be opened only loses more.
LEMMA DeadStep ==
  ASSUME Typed, Dead, ClosedForgets, [Next]_vars
  PROVE  Dead' /\ ClosedForgets'
<1>1. pc = <<"closed", "">> /\ dir = "unnamed" /\ pc \notin Faults /\ pc # Running
  BY FaultsAssumption DEF Dead, Closed, Running
<1>2. CASE Crash
  BY <1>1, <1>2 DEF Crash, Forgotten, Dead, ClosedForgets
<1>3. CASE UNCHANGED vars
  BY <1>3 DEF vars, disk, memory, Dead, ClosedForgets
<1>4. ~ OpenNew /\ ~ WriteCurrent /\ ~ OpenExisting /\ ~ Clean
  BY <1>1 DEF OpenNew, WriteCurrent, OpenExisting, Clean
<1>5. ~ WriteSst /\ ~ MakeLog /\ ~ AppendEdit /\ ~ SyncEdit /\ ~ OpenLog
  BY <1>1 DEF WriteSst, MakeLog, AppendEdit, SyncEdit, OpenLog
<1>6. ~ BeginPut /\ ~ AppendWrite /\ ~ SyncWrite /\ ~ SyncOldLog
  BY <1>1 DEF BeginPut, AppendWrite, SyncWrite, SyncOldLog
<1>7. ~ BeginCompact /\ ~ BeginClose /\ ~ FinishClose /\ ~ IoError
  BY <1>1 DEF BeginCompact, BeginClose, FinishClose, IoError
<1> QED BY <1>2, <1>3, <1>4, <1>5, <1>6, <1>7 DEF Next

\* A commit: the edit is appended, and then in force.
LEMMA AppendStep ==
  ASSUME Typed, Inner, AppendEdit
  PROVE  Inner' /\ ClosedForgets'
<1> DEFINE recs == manifest.recs
           op == pc[1]
<1>1. /\ pc = <<op, "append">> /\ op \in Editing /\ pc' = <<op, "sync">>
      /\ UNCHANGED <<dir, ssts, live, wal, nextNum, edit>>
  BY StepsShape DEF AppendEdit, Typed, Editing, memory
<1>2. pc # Closed /\ pc' # Closed /\ ~ Committing /\ Committing'
  <2> HIDE DEF op
  <2>1. op # "closed"
    BY <1>1 DEF Editing
  <2> QED BY <1>1, <2>1 DEF Closed, Committing
<1>3. recs \in Seq(Edit) /\ Len(recs) \in Nat /\ edit \in Edit
  BY LenProperties DEF Inner, Whole, Typed, MemoryTyped
<1>4. LiveAfter(recs) = live /\ Latest(recs, "log") = wal
  BY <1>2 DEF Inner, Committed
<1>5. manifest'.recs = Append(recs, edit) /\ manifest'.synced = manifest.synced
  BY DEF AppendEdit, Appended, Typed, DiskTyped, ManifestFile
<1>6. /\ Append(recs, edit) \in Seq(Edit) /\ Len(Append(recs, edit)) = Len(recs) + 1
  BY <1>3, AppendProperties
<1>7. /\ LiveAfter(Append(recs, edit)) = Apply(live, edit)
      /\ Latest(Append(recs, edit), "log") = IF edit.log = Unset THEN wal ELSE edit.log
  BY <1>3, <1>4, LiveOfAppend, LatestOfAppend
<1>8. /\ edit.add \subseteq DOMAIN ssts
      /\ edit.next # Unset /\ edit.next >= nextNum
      /\ \A n \in edit.add : n < edit.next
      /\ edit.log = Unset \/ edit.log < edit.next
      /\ op = "compact" \/ edit.next = nextNum
  BY <1>1 DEF Inner, Ready
<1>9. Whole' /\ LiveThere' /\ Below'
  BY <1>1, <1>2, <1>5, <1>6 DEF Inner, Whole, LiveThere, Below
<1>10. Committed'
  <2>1. LiveAfter(manifest'.recs) = Apply(live', edit')
    BY <1>1, <1>5, <1>7
  <2>2. Latest(manifest'.recs, "log") = IF edit'.log = Unset THEN wal' ELSE edit'.log
    BY <1>1, <1>5, <1>7
  <2> QED BY <1>2, <2>1, <2>2 DEF Committed
<1>11. PrefixesConsistent'
  <2>1. Latest(Append(recs, edit), "next") = edit.next
    BY <1>3, <1>8, LatestOfAppend
  <2>2. \A n \in Apply(live, edit) : n \in DOMAIN ssts /\ n < edit.next
    <3> TAKE n \in Apply(live, edit)
    <3>1. CASE n \in edit.add
      BY <1>8, <3>1
    <3>2. CASE n \in live
      <4>1. n \in DOMAIN ssts /\ n < nextNum
        BY <1>2, <3>2 DEF Inner, LiveThere, Below
      <4>2. n \in Nat /\ nextNum \in Nat /\ edit.next \in Nat
        BY <1>3, <3>2 DEF Typed, MemoryTyped, Edit
      <4> QED BY <1>8, <4>1, <4>2
    <3> QED BY <3>1, <3>2 DEF Apply
  <2>3. (IF edit.log = Unset THEN wal ELSE edit.log) = Unset
          \/ (IF edit.log = Unset THEN wal ELSE edit.log) < edit.next
    <3>1. wal = Unset \/ wal < nextNum
      BY <1>2 DEF Inner, Below
    <3> QED BY <1>3, <1>8, <3>1 DEF Typed, MemoryTyped, Edit
  <2>4. Consistent(Append(recs, edit))
    BY <1>7, <2>1, <2>2, <2>3 DEF Consistent
  <2>5. \A n \in manifest.synced .. Len(recs) : Consistent(SubSeq(Append(recs, edit), 1, n))
    <3> TAKE n \in manifest.synced .. Len(recs)
    <3>1. n \in 0 .. Len(recs)
      BY <1>3 DEF Typed, DiskTyped, ManifestFile
    <3>2. SubSeq(Append(recs, edit), 1, n) = SubSeq(recs, 1, n)
      BY <1>3, <3>1, PrefixOfAppend
    <3> QED BY <3>2 DEF Inner, PrefixesConsistent
  <2>6. SubSeq(Append(recs, edit), 1, Len(recs) + 1) = Append(recs, edit)
    BY <1>6, SubSeqFull
  <2>7. \A n \in manifest.synced .. Len(recs) + 1 :
          n \in manifest.synced .. Len(recs) \/ n = Len(recs) + 1
    BY <1>3 DEF Typed, DiskTyped, ManifestFile
  <2>8. \A n \in manifest.synced .. Len(recs) + 1 : Consistent(SubSeq(Append(recs, edit), 1, n))
    BY <2>4, <2>5, <2>6, <2>7
  <2> HIDE DEF recs
  <2> QED BY <1>1, <1>5, <1>6, <2>8 DEF PrefixesConsistent, Consistent
<1>12. Ready'
  BY <1>1, <1>8 DEF Ready
<1>13. Fresh' /\ Numbered' /\ AllSynced' /\ NotYetNamed'
  BY <1>1 DEF Fresh, Numbered, AllSynced, NotYetNamed, Editing
<1>14. NothingYet' /\ ClosedForgets'
  BY <1>1, <1>2 DEF Inner, NothingYet, ClosedForgets
<1> QED BY <1>9, <1>10, <1>11, <1>12, <1>13, <1>14 DEF Inner

LEMMA SyncStep ==
  ASSUME Typed, Inner, SyncEdit
  PROVE  Inner' /\ ClosedForgets'
<1> DEFINE recs == manifest.recs
           op == pc[1]
<1>1. /\ pc = <<op, "sync">> /\ op \in Editing /\ UNCHANGED <<dir, ssts>>
      /\ live' = Apply(live, edit) /\ edit' = NoEdit
      /\ wal' = IF edit.log = Unset THEN wal ELSE edit.log
      /\ nextNum' = IF op = "compact" THEN edit.next ELSE nextNum
  BY StepsShape DEF SyncEdit, Typed, Editing, NumbersAfter
<1>2. pc' = <<"recover", "open">> \/ pc' = <<"create", "current">> \/ pc' = Running
  BY <1>1 DEF SyncEdit, AfterCommit, Editing
<1>3. pc # Closed /\ pc' # Closed /\ Committing /\ ~ Committing'
  <2> HIDE DEF op
  <2>1. op \in Editing /\ op # "closed" /\ "running" \notin Editing
    BY <1>1 DEF Editing
  <2>2. pc # Closed /\ Committing
    BY <1>1, <2>1 DEF Closed, Committing
  <2>3. pc' # Closed /\ ~ Committing'
    <3>1. CASE pc' = Running
      BY <3>1 DEF Closed, Running, Committing
    <3>2. CASE pc' = <<"recover", "open">> \/ pc' = <<"create", "current">>
      <4>1. pc'[1] # "closed" /\ pc'[2] # "sync"
        BY <3>2
      <4>2. pc' # Closed
        BY <4>1, OpenSteps
      <4>3. ~ Committing'
        BY <4>1 DEF Committing
      <4> QED BY <4>2, <4>3
    <3> QED BY <1>2, <3>1, <3>2
  <2> QED BY <2>2, <2>3
<1>4. recs \in Seq(Edit) /\ Len(recs) \in Nat /\ edit \in Edit
  BY LenProperties DEF Inner, Whole, Typed, MemoryTyped
<1>5. manifest'.recs = recs /\ manifest'.synced = Len(recs)
  BY DEF SyncEdit, Synced, Typed, DiskTyped, ManifestFile
<1>6. LiveAfter(recs) = live' /\ Latest(recs, "log") = wal'
  BY <1>1, <1>3 DEF Inner, Committed
<1>7. /\ edit.add \subseteq DOMAIN ssts
      /\ edit.next >= nextNum
      /\ \A n \in edit.add : n < edit.next
      /\ edit.log = Unset \/ edit.log < edit.next
      /\ op = "compact" \/ edit.next = nextNum
  BY <1>1 DEF Inner, Ready
<1>8. nextNum' = edit.next
  BY <1>1, <1>7
<1>9. Whole' /\ Committed'
  BY <1>3, <1>4, <1>5, <1>6 DEF Whole, Committed
<1>10. LiveThere' /\ Below'
  <2>1. \A n \in live : n < nextNum
    BY <1>3 DEF Inner, Below
  <2>2. wal = Unset \/ wal < nextNum
    BY <1>3 DEF Inner, Below
  <2>3. \A n \in live' : n < edit.next
    BY <1>1, <1>4, <1>7, <2>1 DEF Apply, Typed, MemoryTyped, Edit
  <2>4. wal' = Unset \/ wal' < edit.next
    BY <1>1, <1>4, <1>7, <2>2 DEF Typed, MemoryTyped, Edit
  <2>5. live' \subseteq DOMAIN ssts'
    BY <1>1, <1>7 DEF Apply, Inner, LiveThere
  <2> QED BY <1>8, <2>3, <2>4, <2>5 DEF LiveThere, Below
<1>11. PrefixesConsistent'
  <2>1. \A n \in Len(recs) .. Len(recs) : n \in manifest.synced .. Len(recs)
    BY <1>4 DEF Typed, DiskTyped, ManifestFile, Sound
  <2> QED BY <1>1, <1>5, <2>1 DEF Inner, PrefixesConsistent, Consistent
<1>12. AllSynced'
  BY <1>5 DEF AllSynced
<1>13. Fresh' /\ Numbered' /\ Ready' /\ NotYetNamed'
  <2>1. CASE pc' = <<"recover", "open">>
    BY <2>1 DEF Fresh, Numbered, Ready, NotYetNamed
  <2>2. CASE pc' \in Idle
    BY <2>2, IdleSteps
  <2> QED BY <1>2, <2>1, <2>2 DEF Idle
<1>14. NothingYet' /\ ClosedForgets'
  BY <1>1, <1>3 DEF Inner, NothingYet, ClosedForgets
<1> QED BY <1>9, <1>10, <1>11, <1>12, <1>13, <1>14 DEF Inner

\* The number of the next file rises, the SSTables only become more.
LEMMA WriteSstStep ==
  ASSUME Typed, Typed', Inner, WriteSst
  PROVE  Inner' /\ ClosedForgets'
<1> DEFINE op == pc[1]
<1>1. /\ pc = <<op, "sst">> /\ op \in {"recover", "flush", "compact"}
      /\ UNCHANGED <<dir, manifest, live, wal>>
      /\ DOMAIN ssts' = DOMAIN ssts \cup edit.add
  BY StepsShape DEF WriteSst, Typed
<1>2. /\ edit.add \cap live = {}
      /\ IF op = "compact"
           THEN /\ edit.next = nextNum + 1 /\ edit.log = Unset
                /\ \A n \in edit.add : n < edit.next
           ELSE \A n \in edit.add : n < nextNum
  BY <1>1 DEF Inner, Fresh
<1>3. edit \in Edit /\ nextNum \in Nat
  BY DEF Typed, MemoryTyped
<1>4. \/ op = "compact" /\ pc' = <<"compact", "append">> /\ edit' = edit /\ nextNum' = nextNum
      \/ /\ op # "compact" /\ pc' = <<op, "log">>
         /\ edit'.add = edit.add /\ edit'.log = nextNum /\ nextNum' = nextNum + 1
  BY <1>3 DEF WriteSst, Edit
<1> HIDE DEF op
<1>5. pc # Closed /\ ~ Committing
  BY <1>1 DEF Closed, Committing
<1>6. pc' # Closed /\ ~ Committing'
  <2>1. pc'[1] # "closed" /\ pc'[2] # "sync"
    BY <1>1, <1>4
  <2>2. pc' # Closed
    BY <2>1, OpenSteps
  <2>3. ~ Committing'
    BY <2>1 DEF Committing
  <2> QED BY <2>2, <2>3
<1>7. Calm'
  BY <1>1, <1>3, <1>4, <1>5, <1>6, QuietStep
<1>8. CASE op = "compact"
  <2>1. pc' = <<"compact", "append">> /\ edit' = edit /\ nextNum' = nextNum
    BY <1>4, <1>8
  <2>2. Ready'
    BY <1>1, <1>2, <1>3, <1>8, <2>1 DEF Ready, Unset, Edit
  <2>3. Fresh' /\ Numbered' /\ AllSynced' /\ NotYetNamed'
    BY <2>1 DEF Fresh, Numbered, AllSynced, NotYetNamed
  <2> QED BY <1>6, <1>7, <2>2, <2>3, <1>1, <1>5 DEF Calm, Inner, ClosedForgets
<1>9. CASE op # "compact"
  <2>1. /\ pc' = <<op, "log">>
        /\ edit'.add = edit.add /\ edit'.log = nextNum /\ nextNum' = nextNum + 1
    BY <1>4, <1>9
  <2>2. \A n \in edit.add : n \in Nat /\ n < nextNum
    BY <1>2, <1>3, <1>9 DEF Edit
  <2>3. Numbered'
    BY <1>1, <1>3, <2>1, <2>2 DEF Numbered
  <2>4. Fresh' /\ Ready' /\ AllSynced' /\ NotYetNamed'
    BY <2>1 DEF Fresh, Ready, AllSynced, NotYetNamed
  <2> QED BY <1>6, <1>7, <2>3, <2>4 DEF Calm, Inner, ClosedForgets
<1> QED BY <1>8, <1>9

\* The edit is completed with the number of the next file.
LEMMA CompletedStep ==
  ASSUME Typed, Inner, pc \in {<<"recover", "log">>, <<"flush", "log">>, <<"flush", "old">>},
         pc' \in {<<"recover", "append">>, <<"flush", "append">>},
         edit' = [edit EXCEPT !.next = nextNum, !.seq = lastSeq],
         UNCHANGED <<dir, manifest, live, wal, ssts, nextNum>>
  PROVE  Inner' /\ ClosedForgets'
<1>1. edit \in Edit /\ nextNum \in Nat
  BY DEF Typed, MemoryTyped
<1>2. edit'.add = edit.add /\ edit'.log = edit.log /\ edit'.next = nextNum
  BY <1>1 DEF Edit
<1>3. /\ edit.add \subseteq DOMAIN ssts
      /\ edit.log < nextNum /\ \A n \in edit.add : n < nextNum
  BY DEF Inner, Numbered
<1>4. pc # Closed /\ pc' # Closed /\ ~ Committing /\ ~ Committing'
  <2>1. pc[1] # "closed" /\ pc[2] # "sync"
    OBVIOUS
  <2>2. pc'[1] # "closed" /\ pc'[2] # "sync"
    OBVIOUS
  <2>3. pc # Closed /\ pc' # Closed
    BY <2>1, <2>2, OpenSteps
  <2>4. ~ Committing /\ ~ Committing'
    BY <2>1, <2>2 DEF Committing
  <2> QED BY <2>3, <2>4
<1>5. Calm'
  BY <1>1, <1>4, QuietStep
<1>6. Ready'
  <2>1. edit.log \in Nat
    BY <1>1 DEF Edit
  <2>2. nextNum # Unset
    BY <1>1, <1>3, <2>1 DEF Unset
  <2> QED BY <1>1, <1>2, <1>3, <2>2 DEF Ready
<1>7. Fresh' /\ Numbered' /\ AllSynced' /\ NotYetNamed'
  BY DEF Fresh, Numbered, AllSynced, NotYetNamed
<1> QED BY <1>4, <1>5, <1>6, <1>7 DEF Calm, Inner, ClosedForgets

\* What a write does to the Version: nothing; a memtable taken out numbers its SSTable.
LEMMA TakeStep ==
  ASSUME Typed, Typed', Inner, NEW e, Take(e), pc # Closed, ~ Committing,
         UNCHANGED <<dir, manifest, live, wal, ssts>>
  PROVE  Inner' /\ ClosedForgets'
<1>1. nextNum \in Nat /\ nextNum' \in Nat
  BY DEF Typed, MemoryTyped
<1>2. CASE pc' = Running /\ nextNum' = nextNum
  <2>1. pc' \in Idle /\ pc' # Closed
    BY <1>2 DEF Idle, Running, Closed
  <2>2. Fresh' /\ Numbered' /\ Ready' /\ AllSynced' /\ NotYetNamed' /\ ~ Committing'
    BY <2>1, IdleSteps
  <2>3. Calm'
    BY <1>1, <1>2, <2>2, QuietStep
  <2> QED BY <2>1, <2>2, <2>3 DEF Calm, Inner, ClosedForgets
<1>3. CASE /\ pc' = <<"flush", "sst">> /\ nextNum' = nextNum + 1
           /\ edit' = [NoEdit EXCEPT !.add = {nextNum}]
  <2>1. pc' # Closed /\ ~ Committing'
    BY <1>3 DEF Closed, Committing
  <2>2. Calm'
    BY <1>1, <1>3, <2>1, QuietStep
  <2>3. edit'.add = {nextNum}
    BY <1>3 DEF NoEdit
  <2>4. Fresh'
    BY <1>1, <1>3, <2>3 DEF Fresh, Inner, Below, Typed, MemoryTyped
  <2>5. Numbered' /\ Ready' /\ AllSynced' /\ NotYetNamed'
    BY <1>3 DEF Numbered, Ready, AllSynced, NotYetNamed
  <2> QED BY <2>1, <2>2, <2>4, <2>5 DEF Calm, Inner, ClosedForgets
<1> QED BY <1>2, <1>3 DEF Take

\* An opening replays the prefix that was left, and numbers above everything it names.
LEMMA OpenExistingStep ==
  ASSUME Typed, Typed', Inner, OpenExisting
  PROVE  Inner' /\ ClosedForgets'
<1> DEFINE recs == manifest.recs
           v == OnDisk
<1>1. recs \in Seq(Edit) /\ Readable(manifest) = recs /\ Len(recs) \in Nat
  BY WholeReadable, LenProperties DEF Inner, Whole
<1>2. v.live = LiveAfter(recs) /\ v.log = Latest(recs, "log") /\ v.next = Latest(recs, "next")
  BY <1>1 DEF OnDisk, Replay
<1>3. v.live \in SUBSET Nat /\ v.log \in Nat /\ v.next \in Nat
  BY ReplayType
<1>4. /\ pc = Closed /\ dir = "named" /\ UNCHANGED <<dir, manifest, ssts>>
      /\ live' = v.live /\ wal' = v.log /\ nextNum' = v.next + 1
      /\ \/ pc' = <<"recover", "sst">> /\ edit' = [NoEdit EXCEPT !.add = {v.next}]
         \/ /\ pc' = <<"recover", "append">>
            /\ edit' = [NoEdit EXCEPT !.log = v.next, !.next = v.next + 1]
  BY DEF OpenExisting, NumbersFrom, FreshLog, disk
<1> HIDE DEF v
<1>5. pc'[1] # "closed" /\ pc'[2] # "sync"
  BY <1>4
<1>6. pc' # Closed /\ ~ Committing'
  <2>1. pc' # Closed
    BY <1>5, OpenSteps
  <2>2. ~ Committing'
    BY <1>5 DEF Committing
  <2> QED BY <2>1, <2>2
<1>7. Consistent(recs)
  <2>1. Len(recs) \in manifest.synced .. Len(recs)
    BY <1>1 DEF Typed, DiskTyped, ManifestFile, Sound
  <2>2. SubSeq(recs, 1, Len(recs)) = recs
    BY <1>1, SubSeqFull
  <2> QED BY <2>1, <2>2 DEF Inner, PrefixesConsistent
<1>8. Whole' /\ PrefixesConsistent' /\ NothingYet' /\ ClosedForgets'
  BY <1>4, <1>6 DEF Inner, Whole, PrefixesConsistent, Consistent, NothingYet, ClosedForgets
<1>9. Committed'
  BY <1>2, <1>4, <1>6 DEF Committed
<1>10. \A n \in v.live : n \in DOMAIN ssts /\ n < v.next
  BY <1>2, <1>7 DEF Consistent
<1>11. v.log = Unset \/ v.log < v.next
  BY <1>2, <1>7 DEF Consistent
<1>12. LiveThere' /\ Below'
  <2>1. \A n \in v.live : n < v.next + 1
    BY <1>3, <1>10
  <2>2. v.log = Unset \/ v.log < v.next + 1
    BY <1>3, <1>11
  <2> QED BY <1>4, <1>10, <2>1, <2>2 DEF LiveThere, Below
<1>13. Fresh' /\ Numbered' /\ Ready' /\ AllSynced' /\ NotYetNamed'
  <2>1. CASE pc' = <<"recover", "sst">> /\ edit' = [NoEdit EXCEPT !.add = {v.next}]
    <3>1. edit'.add = {v.next}
      BY <2>1 DEF NoEdit
    <3>2. Fresh'
      <4>1. edit'.add \cap live' = {}
        BY <1>3, <1>4, <1>10, <3>1
      <4>2. \A n \in edit'.add : n < nextNum'
        BY <1>3, <1>4, <3>1
      <4> QED BY <2>1, <4>1, <4>2 DEF Fresh
    <3> QED BY <2>1, <3>2 DEF Numbered, Ready, AllSynced, NotYetNamed
  <2>2. CASE /\ pc' = <<"recover", "append">>
             /\ edit' = [NoEdit EXCEPT !.log = v.next, !.next = v.next + 1]
    <3>1. edit'.add = {} /\ edit'.log = v.next /\ edit'.next = v.next + 1
      BY <2>2 DEF NoEdit
    <3>2. Ready'
      BY <1>3, <1>4, <2>2, <3>1 DEF Ready, Unset
    <3> QED BY <2>2, <3>2 DEF Fresh, Numbered, AllSynced, NotYetNamed
  <2> QED BY <1>4, <2>1, <2>2
<1> QED BY <1>8, <1>9, <1>12, <1>13 DEF Inner

\* Cleaning comes when the whole manifest is synced: no crash can bring back an older
\* prefix, which would name what is removed.
LEMMA CleanStep ==
  ASSUME Typed, Typed', Inner, Clean
  PROVE  Inner' /\ ClosedForgets'
<1>1. /\ pc = <<"recover", "clean">> /\ pc' = Running
      /\ UNCHANGED <<dir, manifest, live, wal, nextNum, edit>>
  BY DEF Clean, memory
<1>2. DOMAIN ssts \cap live \subseteq DOMAIN ssts'
  BY DEF Clean
<1>3. pc' \in Idle /\ pc' # Closed /\ pc # Closed /\ ~ Committing
  <2>1. pc' \in Idle /\ pc' # Closed
    BY <1>1 DEF Idle, Running, Closed
  <2>2. pc # Closed /\ ~ Committing
    BY <1>1 DEF Closed, Committing
  <2> QED BY <2>1, <2>2
<1>4. Fresh' /\ Numbered' /\ Ready' /\ AllSynced' /\ NotYetNamed' /\ ~ Committing'
  BY <1>3, IdleSteps
<1>5. Whole' /\ Below' /\ NothingYet' /\ ClosedForgets'
  BY <1>1, <1>3 DEF Inner, Whole, Below, NothingYet, ClosedForgets
<1>6. LiveThere'
  BY <1>1, <1>2 DEF Inner, LiveThere
<1>7. LiveAfter(manifest.recs) = live /\ Committed'
  BY <1>1, <1>3, <1>4 DEF Inner, Committed
<1>8. PrefixesConsistent'
  <2>1. manifest.synced = Len(manifest.recs) /\ manifest.recs \in Seq(Edit) /\ Len(manifest.recs) \in Nat
    BY <1>1, LenProperties DEF Inner, AllSynced, Whole
  <2>2. SubSeq(manifest.recs, 1, Len(manifest.recs)) = manifest.recs
    BY <2>1, SubSeqFull
  <2>3. \A n \in manifest.synced .. Len(manifest.recs) :
          n = Len(manifest.recs) /\ SubSeq(manifest.recs, 1, n) = manifest.recs
    BY <2>1, <2>2
  <2>4. Len(manifest.recs) \in manifest.synced .. Len(manifest.recs)
    BY <2>1
  <2>5. Consistent(manifest.recs)
    BY <2>2, <2>4 DEF Inner, PrefixesConsistent
  <2>6. \A n \in LiveAfter(manifest.recs) : n \in DOMAIN ssts'
    BY <1>2, <1>7 DEF Inner, LiveThere
  <2>7. \A n \in manifest'.synced .. Len(manifest'.recs) : SubSeq(manifest'.recs, 1, n) = manifest.recs
    BY <1>1, <2>3
  <2> QED BY <2>5, <2>6, <2>7 DEF PrefixesConsistent, Consistent
<1> QED BY <1>4, <1>5, <1>6, <1>7, <1>8 DEF Inner

\* What a crash or a failure leaves.
LEMMA CrashStep ==
  ASSUME Typed, Inner, GentleFaults, Crash
  PROVE  Inner' /\ ClosedForgets'
<1>1. manifest' \in Remains(manifest, "manifest" \in TornTails) /\ "manifest" \notin TornTails
  BY DEF Crash, GentleFaults
<1>2. PICK n \in manifest.synced .. Len(manifest.recs) :
        manifest' = [recs |-> SubSeq(manifest.recs, 1, n), synced |-> n]
  BY <1>1 DEF Remains
<1>3. pc' = Closed /\ live' = {} /\ wal' = Unset /\ UNCHANGED <<dir, ssts>>
  BY DEF Crash, Forgotten
<1> QED BY <1>2, <1>3, ClosingStep

LEMMA IoErrorStep ==
  ASSUME Typed, Typed', Inner, GentleFaults, IoError
  PROVE  (Dead \/ Inner)' /\ ClosedForgets'
<1>1. /\ pc \in Faults /\ pc \in Steps /\ pc # Closed /\ pc # Running
      /\ pc \notin {<<"recover", "append">>, <<"flush", "append">>, <<"compact", "append">>,
                    <<"flush", "sync">>, <<"compact", "sync">>}
  BY FaultsAssumption DEF IoError, GentleFaults
<1>2. pc = <<pc[1], pc[2]>>
  BY <1>1, StepsShape
<1>3. UNCHANGED <<dir, ssts>>
  BY DEF IoError
<1>4. CASE pc[1] \in {"create", "recover", "close"}
  <2>1. pc' = Closed /\ live' = {} /\ wal' = Unset
    BY <1>4 DEF IoError, Forgotten
  <2>2. CASE dir = "unnamed"
    BY <1>3, <2>1, <2>2 DEF Dead, ClosedForgets
  <2>3. CASE dir # "unnamed"
    <3>1. pc # <<"create", "append">>
      BY <2>3 DEF Inner, NotYetNamed
    <3>2. pc[2] = "append" => pc[1] \in {"create", "recover"}
      BY <1>1, <1>4, StepsShape
    <3>3. pc[2] # "append"
      BY <1>1, <1>2, <3>1, <3>2
    <3>4. manifest' = manifest
      BY <3>3 DEF IoError
    <3>5. Len(manifest.recs) \in manifest.synced .. Len(manifest.recs)
      BY LenProperties DEF Typed, DiskTyped, ManifestFile, Sound
    <3> QED BY <1>3, <2>1, <3>4, <3>5, ClosingStep
  <2> QED BY <2>2, <2>3
<1>5. CASE pc[1] \notin {"create", "recover", "close"}
  <2>1. pc[1] \in {"put", "flush", "compact"}
    BY <1>1, <1>5, StepsShape
  <2>2. pc' = Running /\ UNCHANGED <<live, wal, nextNum>>
    BY <1>5 DEF IoError
  <2>3. ~ (pc[2] = "append" /\ pc[1] # "put") /\ ~ Committing
    BY <1>1, <1>2, <2>1 DEF Committing, Editing
  <2>4. manifest' = manifest
    BY <2>3 DEF IoError
  <2>5. pc' \in Idle /\ pc' # Closed
    BY <2>2 DEF Idle, Running, Closed
  <2>6. Fresh' /\ Numbered' /\ Ready' /\ AllSynced' /\ NotYetNamed' /\ ~ Committing'
    BY <2>5, IdleSteps
  <2>7. Calm'
    BY <1>1, <1>3, <2>2, <2>3, <2>4, <2>6, QuietStep DEF Typed, MemoryTyped
  <2> QED BY <2>5, <2>6, <2>7 DEF Calm, Inner, ClosedForgets
<1> QED BY <1>4, <1>5

LEMMA InnerStep ==
  ASSUME Typed, Typed', Inner, ClosedForgets, GentleFaults, [Next]_vars
  PROVE  (Dead \/ Inner)' /\ ClosedForgets'
<1>1. nextNum \in Nat
  BY DEF Typed, MemoryTyped
<1>2. CASE OpenNew
  <2>1. /\ pc = Closed /\ dir = "empty" /\ dir' = "unnamed" /\ pc' = <<"create", "append">>
        /\ nextNum' = 3 /\ edit' = [NoEdit EXCEPT !.log = 2, !.next = 3]
        /\ UNCHANGED <<manifest, live, wal, ssts>>
    BY <1>2 DEF OpenNew
  <2>2. manifest.recs = <<>> /\ live = {} /\ wal = Unset
    BY <2>1 DEF Inner, NothingYet, ClosedForgets
  <2>3. pc' # Closed /\ ~ Committing'
    BY <2>1 DEF Closed, Committing
  <2>4. Whole' /\ PrefixesConsistent' /\ LiveThere' /\ ClosedForgets'
    BY <2>1, <2>3 DEF Inner, Whole, PrefixesConsistent, Consistent, LiveThere, ClosedForgets
  <2>5. Committed' /\ Below'
    BY <2>1, <2>2, <2>3, ReplayOfNothing DEF Committed, Below
  <2>6. edit'.add = {} /\ edit'.log = 2 /\ edit'.next = 3
    BY <2>1 DEF NoEdit
  <2>7. Ready'
    BY <2>1, <2>6 DEF Ready, Unset
  <2>8. Fresh' /\ Numbered' /\ AllSynced' /\ NotYetNamed' /\ NothingYet'
    BY <2>1 DEF Fresh, Numbered, AllSynced, NotYetNamed, NothingYet
  <2> QED BY <2>4, <2>5, <2>7, <2>8 DEF Inner
<1>3. CASE WriteCurrent \/ BeginPut \/ BeginClose
  <2>1. /\ pc # Closed /\ ~ Committing /\ pc' # Closed /\ pc' \in Idle
        /\ UNCHANGED <<manifest, live, wal, ssts, nextNum>> /\ dir' \in {dir, "named"}
    <3>1. CASE WriteCurrent
      BY <3>1 DEF WriteCurrent, memory, Closed, Committing, Idle
    <3>2. CASE BeginPut
      BY <3>2 DEF BeginPut, memory, disk, Closed, Running, Committing, Idle
    <3>3. CASE BeginClose
      BY <3>3 DEF BeginClose, memory, disk, Closed, Running, Committing, Idle
    <3> QED BY <1>3, <3>1, <3>2, <3>3
  <2>2. Fresh' /\ Numbered' /\ Ready' /\ AllSynced' /\ NotYetNamed' /\ ~ Committing'
    BY <2>1, IdleSteps
  <2>3. Calm'
    BY <1>1, <2>1, <2>2, QuietStep
  <2> QED BY <2>1, <2>2, <2>3 DEF Calm, Inner, ClosedForgets
<1>4. CASE OpenExisting
  BY <1>4, OpenExistingStep
<1>5. CASE Clean
  BY <1>5, CleanStep
<1>6. CASE WriteSst
  BY <1>6, WriteSstStep
<1>7. CASE MakeLog
  <2>1. UNCHANGED <<dir, manifest, live, wal, ssts, nextNum>>
    BY <1>7 DEF MakeLog
  <2>2. CASE pc = <<"recover", "log">>
    <3>1. pc' = <<"recover", "append">> /\ edit' = [edit EXCEPT !.next = nextNum, !.seq = lastSeq]
      BY <1>7, <2>2 DEF MakeLog
    <3> QED BY <2>1, <2>2, <3>1, CompletedStep
  <2>3. CASE pc = <<"flush", "log">>
    <3>1. pc' = <<"flush", "old">> /\ edit' = edit
      BY <1>7, <2>3 DEF MakeLog
    <3>2. pc # Closed /\ ~ Committing /\ pc' # Closed /\ ~ Committing'
      <4>1. pc # Closed /\ ~ Committing
        BY <2>3 DEF Closed, Committing
      <4>2. pc' # Closed /\ ~ Committing'
        BY <3>1 DEF Closed, Committing
      <4> QED BY <4>1, <4>2
    <3>3. Calm'
      BY <1>1, <2>1, <3>2, QuietStep
    <3>4. Numbered'
      BY <2>1, <2>3, <3>1 DEF Inner, Numbered
    <3>5. Fresh' /\ Ready' /\ AllSynced' /\ NotYetNamed'
      BY <3>1 DEF Fresh, Ready, AllSynced, NotYetNamed
    <3> QED BY <3>2, <3>3, <3>4, <3>5 DEF Calm, Inner, ClosedForgets
  <2> QED BY <1>7, <2>2, <2>3 DEF MakeLog
<1>8. CASE AppendEdit
  BY <1>8, AppendStep
<1>9. CASE SyncEdit
  BY <1>9, SyncStep
<1>10. CASE OpenLog
  <2>1. UNCHANGED <<dir, manifest, live, wal, ssts, nextNum>>
    BY <1>10 DEF OpenLog, memory
  <2>2. CASE pc = <<"create", "log">>
    <3>1. pc' = Running
      BY <1>10, <2>2 DEF OpenLog
    <3>2. pc # Closed /\ ~ Committing /\ pc' # Closed /\ pc' \in Idle
      <4>1. pc # Closed /\ ~ Committing
        BY <2>2 DEF Closed, Committing
      <4>2. pc' # Closed /\ pc' \in Idle
        BY <3>1 DEF Closed, Running, Idle
      <4> QED BY <4>1, <4>2
    <3>3. Fresh' /\ Numbered' /\ Ready' /\ AllSynced' /\ NotYetNamed' /\ ~ Committing'
      BY <3>2, IdleSteps
    <3>4. Calm'
      BY <1>1, <2>1, <3>2, <3>3, QuietStep
    <3> QED BY <3>2, <3>3, <3>4 DEF Calm, Inner, ClosedForgets
  <2>3. CASE pc = <<"recover", "open">>
    <3>1. pc' = <<"recover", "clean">>
      BY <1>10, <2>3 DEF OpenLog
    <3>2. pc # Closed /\ ~ Committing /\ pc' # Closed /\ ~ Committing'
      <4>1. pc # Closed /\ ~ Committing
        BY <2>3 DEF Closed, Committing
      <4>2. pc' # Closed /\ ~ Committing'
        BY <3>1 DEF Closed, Committing
      <4> QED BY <4>1, <4>2
    <3>3. Calm'
      BY <1>1, <2>1, <3>2, QuietStep
    <3>4. AllSynced'
      BY <2>1, <2>3 DEF Inner, AllSynced
    <3>5. Fresh' /\ Numbered' /\ Ready' /\ NotYetNamed'
      BY <3>1 DEF Fresh, Numbered, Ready, NotYetNamed
    <3> QED BY <3>2, <3>3, <3>4, <3>5 DEF Calm, Inner, ClosedForgets
  <2> QED BY <1>10, <2>2, <2>3 DEF OpenLog
<1>11. CASE AppendWrite
  <2>1. /\ pc = <<"put", "append">> /\ UNCHANGED <<dir, manifest, live, wal, ssts>>
    BY <1>11 DEF AppendWrite
  <2>2. pc # Closed /\ ~ Committing
    BY <2>1 DEF Closed, Committing
  <2>3. CASE sync
    <3>1. pc' = <<"put", "sync">> /\ nextNum' = nextNum
      BY <1>11, <2>3 DEF AppendWrite
    <3>2. pc' \in Idle /\ pc' # Closed
      BY <3>1 DEF Idle, Closed
    <3>3. Fresh' /\ Numbered' /\ Ready' /\ AllSynced' /\ NotYetNamed' /\ ~ Committing'
      BY <3>2, IdleSteps
    <3>4. Calm'
      BY <1>1, <2>1, <2>2, <3>1, <3>3, QuietStep
    <3> QED BY <3>2, <3>3, <3>4 DEF Calm, Inner, ClosedForgets
  <2>4. CASE ~ sync
    <3>1. Take(NewEntry)
      BY <1>11, <2>4 DEF AppendWrite
    <3> QED BY <2>1, <2>2, <3>1, TakeStep
  <2> QED BY <2>3, <2>4
<1>12. CASE SyncWrite
  <2>1. /\ pc = <<"put", "sync">> /\ UNCHANGED <<dir, manifest, live, wal, ssts>>
        /\ Take([seq |-> lastSeq + 1, id |-> issued])
    BY <1>12 DEF SyncWrite
  <2>2. pc # Closed /\ ~ Committing
    BY <2>1 DEF Closed, Committing, Editing
  <2> QED BY <2>1, <2>2, TakeStep
<1>13. CASE SyncOldLog
  BY <1>13, CompletedStep DEF SyncOldLog
<1>14. CASE BeginCompact
  <2>1. PICK inputs \in (SUBSET live) \ {{}} :
          edit' = [NoEdit EXCEPT !.add = {nextNum}, !.del = inputs, !.next = nextNum + 1]
    BY <1>14 DEF BeginCompact
  <2>2. /\ pc = Running /\ pc' = <<"compact", "sst">>
        /\ UNCHANGED <<dir, manifest, live, wal, ssts, nextNum>>
    BY <1>14 DEF BeginCompact, disk
  <2>3. pc # Closed /\ ~ Committing /\ pc' # Closed /\ ~ Committing'
    <3>1. pc # Closed /\ ~ Committing
      BY <2>2 DEF Closed, Running, Committing
    <3>2. pc' # Closed /\ ~ Committing'
      BY <2>2 DEF Closed, Committing
    <3> QED BY <3>1, <3>2
  <2>4. Calm'
    BY <1>1, <2>2, <2>3, QuietStep
  <2>5. edit'.add = {nextNum} /\ edit'.next = nextNum + 1 /\ edit'.log = Unset
    BY <2>1 DEF NoEdit
  <2>6. Fresh'
    <3>1. \A n \in live : n < nextNum
      BY <2>3 DEF Inner, Below
    <3>2. edit'.add \cap live' = {}
      BY <1>1, <2>2, <2>5, <3>1
    <3>3. \A n \in edit'.add : n < edit'.next
      BY <1>1, <2>5
    <3> QED BY <2>2, <2>5, <3>2, <3>3 DEF Fresh
  <2>7. Numbered' /\ Ready' /\ AllSynced' /\ NotYetNamed'
    BY <2>2 DEF Numbered, Ready, AllSynced, NotYetNamed
  <2> QED BY <2>3, <2>4, <2>6, <2>7 DEF Calm, Inner, ClosedForgets
<1>15. CASE FinishClose
  <2>1. pc' = Closed /\ live' = {} /\ wal' = Unset /\ UNCHANGED <<dir, ssts, manifest>>
    BY <1>15 DEF FinishClose, Forgotten
  <2>2. Len(manifest.recs) \in manifest.synced .. Len(manifest.recs)
    BY LenProperties DEF Typed, DiskTyped, ManifestFile, Sound
  <2> QED BY <2>1, <2>2, ClosingStep
<1>16. CASE Crash
  BY <1>16, CrashStep
<1>17. CASE IoError
  BY <1>17, IoErrorStep
<1>18. CASE UNCHANGED vars
  <2>1. UNCHANGED <<dir, manifest, ssts, pc, live, wal, nextNum, edit>>
    BY <1>18 DEF vars, disk, memory
  <2>2. Whole' /\ Committed' /\ LiveThere' /\ Below' /\ ClosedForgets'
    BY <2>1 DEF Inner, Whole, Committed, Committing, LiveThere, Below, ClosedForgets
  <2>3. PrefixesConsistent' /\ NothingYet' /\ NotYetNamed' /\ AllSynced'
    BY <2>1 DEF Inner, PrefixesConsistent, Consistent, NothingYet, NotYetNamed, AllSynced
  <2>4. Fresh' /\ Numbered' /\ Ready'
    BY <2>1 DEF Inner, Fresh, Numbered, Ready
  <2> QED BY <2>2, <2>3, <2>4 DEF Inner
<1> QED BY <1>2, <1>3, <1>4, <1>5, <1>6, <1>7, <1>8, <1>9, <1>10, <1>11, <1>12, <1>13,
           <1>14, <1>15, <1>16, <1>17, <1>18 DEF Next

----------------------------------------------------------------------------
(* The theorems *)

LEMMA InitIInv == Init => IInv
  BY InitTyped, InitInner DEF IInv

LEMMA NextIInv == GentleFaults /\ IInv /\ [Next]_vars => IInv'
<1> SUFFICES ASSUME GentleFaults, IInv, [Next]_vars PROVE IInv'
  OBVIOUS
<1>1. Typed /\ Typed' /\ ClosedForgets
  BY NextTyped DEF IInv
<1>2. CASE Dead
  BY <1>1, <1>2, DeadStep DEF IInv
<1>3. CASE Inner
  BY <1>1, <1>3, InnerStep DEF IInv
<1> QED BY <1>2, <1>3 DEF IInv

\* IInv is an invariant wherever no record of the manifest is cut short and no commit
\* fails half way.
LEMMA Inductive == ASSUME GentleFaults PROVE Spec => []IInv
<1>1. Init => IInv
  BY InitIInv
<1>2. IInv /\ [Next]_vars => IInv'
  BY NextIInv
<1> QED BY <1>1, <1>2, PTL DEF Spec

LEMMA FileTypeOK ==
  ASSUME NEW T, T \subseteq Entry \cup Edit \cup {Torn}, NEW f \in [recs : Seq(T), synced : Nat]
  PROVE  f \in File
<1>1. f.recs \in Seq(T) /\ f.synced \in Nat /\ f = [recs |-> f.recs, synced |-> f.synced]
  OBVIOUS
<1>2. /\ Len(f.recs) \in Nat /\ DOMAIN f.recs = 1 .. Len(f.recs) /\ f.recs = SubSeq(f.recs, 1, Len(f.recs))
      /\ \A i \in 1 .. Len(f.recs) : f.recs[i] \in T
  BY <1>1, LenProperties, SubSeqFull
<1>3. \A i \in 1 .. Len(f.recs) : f.recs[i] \in Entry \cup Edit \cup {Torn}
  BY <1>2
<1>4. SubSeq(f.recs, 1, Len(f.recs)) \in Seq(Entry \cup Edit \cup {Torn})
  BY <1>2, <1>3, SubSeqProperties
<1> QED BY <1>1, <1>2, <1>4 DEF File

\* Types, and that no file of the Version and no log in use has a number that the
\* generator may give out again (file_meta.rs, new_file_number and bump_to): no new
\* SSTable, log or compaction output meets a file in use, whatever crashed before.
THEOREM DurabilityTypes == ASSUME GentleFaults PROVE Spec => []TypeOK
<1>1. IInv => TypeOK
  <2> SUFFICES ASSUME IInv PROVE TypeOK
    OBVIOUS
  <2>1. DiskTyped /\ MemoryTyped /\ GhostsTyped /\ pc \in Steps
    BY DEF IInv, Typed
  <2>2. manifest \in File
    BY <2>1, FileTypeOK DEF DiskTyped, ManifestFile
  <2>3. \A n \in DOMAIN logs : logs[n] \in File
    BY <2>1, FileTypeOK DEF DiskTyped, LogFile
  <2>4. pc # Closed => \A n \in live \cup {wal} : n = Unset \/ n < nextNum
    BY DEF IInv, Inner, Below, Dead
  <2> QED BY <2>1, <2>2, <2>3, <2>4 DEF TypeOK, DiskTyped, MemoryTyped, GhostsTyped, Sound
<1> QED BY <1>1, Inductive, PTL

\* Between operations a replay of the manifest gives the Version in force and its log
\* (version.rs, write_new_version and recover): an edit takes effect in memory exactly
\* when it is on disk, whichever operation made it.
THEOREM CommitsAreReplayed == ASSUME GentleFaults PROVE Spec => []CommitsReplayed
<1>1. IInv => CommitsReplayed
  <2> SUFFICES ASSUME IInv, pc = Running PROVE OnDisk.live = live /\ OnDisk.log = wal
    BY DEF CommitsReplayed
  <2>1. pc # Closed /\ ~ Committing
    BY DEF Running, Closed, Committing
  <2>2. Inner
    BY <2>1 DEF IInv, Dead
  <2>3. Readable(manifest) = manifest.recs
    BY <2>2, WholeReadable DEF Inner
  <2> QED BY <2>1, <2>2, <2>3 DEF Inner, Committed, OnDisk, Replay
<1> QED BY <1>1, Inductive, PTL

\* No step of a flush, a compaction or a recovery overwrites or removes a file of the
\* Version in force: files are removed by a recovery only (db.rs, remove_obsolete_files),
\* and what it removes no prefix of the manifest names that a crash may leave.
THEOREM LiveFilesStay == ASSUME GentleFaults PROVE Spec => LiveFilesImmutable
<1>1. IInv /\ [Next]_vars => [\A n \in live : n \in DOMAIN ssts' /\ ssts'[n] = ssts[n]]_vars
  <2> SUFFICES ASSUME IInv, [Next]_vars, NEW n \in live
               PROVE  n \in DOMAIN ssts' /\ ssts'[n] = ssts[n]
    OBVIOUS
  <2>1. Inner /\ n \in DOMAIN ssts
    BY DEF IInv, Dead, ClosedForgets, Inner, LiveThere
  <2>2. CASE Clean
    BY <2>1, <2>2 DEF Clean
  <2>3. CASE WriteSst
    <3>1. n \notin edit.add
      BY <2>1, <2>3 DEF WriteSst, Inner, Fresh
    <3> QED BY <2>1, <2>3, <3>1 DEF WriteSst
  <2>4. CASE ssts' = ssts
    BY <2>1, <2>4
  <2>5. OpenNew \/ WriteCurrent \/ OpenExisting \/ MakeLog \/ AppendEdit \/ SyncEdit \/ OpenLog => ssts' = ssts
    BY DEF OpenNew, WriteCurrent, OpenExisting, MakeLog, AppendEdit, SyncEdit, OpenLog, disk
  <2>6. BeginPut \/ AppendWrite \/ SyncWrite \/ SyncOldLog \/ BeginCompact \/ BeginClose => ssts' = ssts
    BY DEF BeginPut, AppendWrite, SyncWrite, SyncOldLog, BeginCompact, BeginClose, disk
  <2>7. FinishClose \/ Crash \/ IoError \/ UNCHANGED vars => ssts' = ssts
    BY DEF FinishClose, Crash, IoError, vars, disk
  <2> QED BY <2>2, <2>3, <2>4, <2>5, <2>6, <2>7 DEF Next
<1> QED BY <1>1, Inductive, PTL DEF Spec, LiveFilesImmutable
=============================================================================
