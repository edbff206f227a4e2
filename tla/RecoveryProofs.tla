--------------------------- MODULE RecoveryProofs ---------------------------
(***************************************************************************)
(* What the running database shows is what a restart would find, and its   *)
(* sequence number counts it: LiveIsRecoverable of Durability, for any     *)
(* number of writes, openings and compactions, with crashes at every disk  *)
(* operation and torn log tails, where nothing fails that would leave the  *)
(* memtable and the log apart.                                             *)
(*                                                                         *)
(* And Durability implements DurableLog: seen from outside, a directory is *)
(* a log of writes from which a crash takes a tail, never one that was     *)
(* promised, and on which flushing, compacting, recovering and cleaning    *)
(* have no effect at any of their disk operations.                         *)
(***************************************************************************)
EXTENDS DurabilityProofs

----------------------------------------------------------------------------
(* What the files hold *)

\* Besides, nothing fails that would leave the memtable and the log apart: DurFailedFlush
\* shows one such failure.
LosslessFaults ==
  /\ GentleFaults
  /\ Faults \cap {<<"put", "append">>, <<"put", "sync">>, <<"flush", "sst">>, <<"flush", "log">>,
                  <<"flush", "old">>} = {}

At(operations, steps) == pc[1] \in operations /\ pc[2] \in steps

\* The manifests that a crash may leave of f.
CutsOf(f) == {SubSeq(f.recs, 1, n) : n \in f.synced .. Len(f.recs)}

\* The records of a log, how many of them a replay gets, and what it gets.
HeldIn(files, n)    == IF n \in DOMAIN files THEN files[n].recs ELSE <<>>
LengthIn(files, n)  == IF n \in DOMAIN files THEN Len(Readable(files[n])) ELSE 0
EntriesIn(files, n) == IF n \in DOMAIN files THEN RecordsIn(files[n]) ELSE {}

\* The entries of some of these SSTables.
Content(tables, nums) == UNION {tables[n] : n \in nums \cap DOMAIN tables}

\* What a recovery from these edits finds.
Held(edits, files, tables) ==
  Content(tables, LiveAfter(edits)) \cup EntriesIn(files, Latest(edits, "log"))

\* The entries of S are numbered 1 to b, each number once.
Dense(S, b) ==
  /\ \A e \in S : e.seq \in 1 .. b
  /\ \A s \in 1 .. b : \E e \in S : e.seq = s
  /\ \A e, f \in S : e.seq = f.seq => e = f

\* The whole records of a log are numbered from b on.
Chain(recs, b) == \A i \in DOMAIN recs : recs[i] = Torn \/ recs[i].seq = b + i

\* A recovery from these edits finds every entry once, and only numbers below top.
Sufficient(edits, files, tables, top) ==
  /\ edits # <<>> => Latest(edits, "next") # Unset /\ Latest(edits, "log") # Unset
  /\ \A n \in DOMAIN files : n >= Latest(edits, "next") => files[n].recs = <<>>
  /\ Latest(edits, "next") <= top
  /\ Dense(Content(tables, LiveAfter(edits)), Latest(edits, "seq"))
  /\ Chain(HeldIn(files, Latest(edits, "log")), Latest(edits, "seq"))

CutsSuffice ==
  \A edits \in CutsOf(manifest) : Sufficient(edits, logs, ssts, Latest(manifest.recs, "next"))

HasName == pc # Closed => At({"create"}, {"append", "sync", "current"}) \/ dir = "named"

NoLogYet == dir # "named" \/ pc[1] = "create" => DOMAIN logs = {}

Founded == dir = "named" \/ At({"create"}, {"current"}) => manifest.synced > 0

NothingHeld == pc = Closed => mem = {} /\ frozen = {} /\ lastSeq = 0

\* The numbers that the manifest knows of were all given out.
NextKnown ==
  pc # Closed =>
    IF Committing THEN Latest(manifest.recs, "next") = edit.next
                  ELSE Latest(manifest.recs, "next") <= nextNum

EmptyAhead == pc # Closed => \A n \in DOMAIN logs : n >= nextNum => logs[n].recs = <<>>

\* The shape of the edit in progress.
EditShape ==
  /\ pc[1] = "compact" => edit.log = Unset /\ edit.seq = Unset /\ edit.del \subseteq live
  /\ pc[1] \in {"create", "recover", "flush"} => edit.del = {}
  /\ pc[1] = "create" => edit.add = {} /\ edit.seq = Unset
  /\ pc[2] = "sst" => edit.add # {}
  /\ At({"create"}, {"append", "sync"}) \/ At({"recover", "flush"}, {"log", "old", "append", "sync"}) =>
       edit.log # Unset
  /\ At({"recover", "flush"}, {"append", "sync"}) =>
       edit.seq = lastSeq \/ (edit.seq = Unset /\ edit.add = {})

\* The log that the edit names is empty; a flush has made it already.
NextLog ==
  /\ At({"recover", "flush"}, {"log", "old", "append", "sync"}) => HeldIn(logs, edit.log) = <<>>
  /\ At({"flush"}, {"old", "append", "sync"}) => edit.log \in DOMAIN logs
  /\ At({"recover"}, {"open"}) => HeldIn(logs, wal) = <<>>

\* The manifest is synced, and the log is open and holds whole entries.
Working ==
  \/ At({"running", "put", "close"}, {"", "append", "sync"})
  \/ At({"flush"}, {"sst", "log", "old", "append"})
  \/ At({"compact"}, {"sst", "append"})

Settled == Working \/ At({"create"}, {"current", "log"}) => manifest.synced = Len(manifest.recs)

LogOpen ==
  /\ Working \/ At({"flush", "compact"}, {"sync"}) \/ At({"recover"}, {"clean"}) =>
       wal \in DOMAIN logs /\ logs[wal].recs \in Seq(Entry)
  /\ pc # Closed => At({"create"}, {"append", "sync"}) \/ wal # Unset

\* The write that is in the log and not yet in the memtable.
Pending == IF At({"put"}, {"sync"}) THEN {[seq |-> lastSeq + 1, id |-> issued]} ELSE {}

MemIsLog ==
  pc # Closed =>
    /\ mem \cup frozen \cup Pending = EntriesIn(logs, wal)
    /\ pc[1] # "flush" => frozen = {}
    /\ pc[1] = "flush" => mem = {}

SstWritten ==
  /\ At({"create", "recover", "flush"}, {"append", "sync"}) \/ At({"recover", "flush"}, {"log", "old"}) =>
       Content(ssts, edit.add) = mem \cup frozen
  /\ At({"compact"}, {"append", "sync"}) => Content(ssts, edit.add) = Content(ssts, edit.del)

Counted ==
  pc # Closed =>
    lastSeq + (IF At({"put"}, {"sync"}) THEN 1 ELSE 0)
      = Latest(manifest.recs, "seq") + LengthIn(logs, Latest(manifest.recs, "log"))

FreshEverywhere ==
  pc[2] = "sst" => \A edits \in CutsOf(manifest) : edit.add \cap LiveAfter(edits) = {}

Data ==
  /\ CutsSuffice /\ HasName /\ NoLogYet /\ Founded /\ NothingHeld /\ NextKnown /\ EmptyAhead
  /\ EditShape /\ NextLog /\ Settled /\ LogOpen /\ MemIsLog /\ SstWritten /\ Counted
  /\ FreshEverywhere

DInv == Dead \/ Data

----------------------------------------------------------------------------
(* Numbered entries *)

\* A memtable that continues an SSTable's numbers.
LEMMA DenseExtended ==
  ASSUME NEW S \in SUBSET Entry, NEW T \in SUBSET Entry, NEW b \in Nat, NEW k \in Nat, Dense(S, b),
         \A e \in T : e.seq \in b + 1 .. b + k,
         \A s \in b + 1 .. b + k : \E e \in T : e.seq = s,
         \A e, f \in T : e.seq = f.seq => e = f
  PROVE  Dense(S \cup T, b + k)
<1>1. \A e \in S \cup T : e.seq \in 1 .. b + k
  BY DEF Dense
<1>2. \A s \in 1 .. b + k : \E e \in S \cup T : e.seq = s
  <2> TAKE s \in 1 .. b + k
  <2>1. CASE s <= b
    <3>1. s \in 1 .. b
      BY <2>1
    <3> QED BY <3>1 DEF Dense
  <2>2. CASE s > b
    <3>1. s \in b + 1 .. b + k
      BY <2>2
    <3> QED BY <3>1
  <2> QED BY <2>1, <2>2
<1>3. \A e \in S, f \in T : e.seq # f.seq
  <2> TAKE e \in S, f \in T
  <2>1. e.seq \in 1 .. b /\ f.seq \in b + 1 .. b + k
    BY DEF Dense
  <2> QED BY <2>1
<1>4. \A e, f \in S \cup T : e.seq = f.seq => e = f
  BY <1>3 DEF Dense
<1> QED BY <1>1, <1>2, <1>4 DEF Dense

LEMMA DenseCounts ==
  ASSUME NEW S, NEW b \in Nat, Dense(S, b)
  PROVE  Cardinality(S) = b
<1> DEFINE g == [s \in 1 .. b |-> CHOOSE e \in S : e.seq = s]
<1>1. \A s \in 1 .. b : g[s] \in S /\ g[s].seq = s
  BY DEF Dense
<1>2. \A e \in S : e.seq \in 1 .. b /\ g[e.seq] = e
  BY <1>1 DEF Dense
<1>3. g \in [1 .. b -> S]
  BY <1>1
<1>4. \A s, t \in 1 .. b : g[s] = g[t] => s = t
  BY <1>1
<1>5. \A e \in S : \E s \in 1 .. b : g[s] = e
  BY <1>2
<1> HIDE DEF g
<1>6. g \in Bijection(1 .. b, S)
  <2> DEFINE I == 1 .. b
  <2> HIDE DEF I
  <2>1. g \in [I -> S] /\ DOMAIN g = I
    BY <1>3 DEF I
  <2>2. \A s, t \in I : g[s] = g[t] => s = t
    BY <1>4 DEF I
  <2>3. \A e \in S : \E s \in I : g[s] = e
    BY <1>5 DEF I
  <2>4. g \in Surjection(I, S)
    BY <2>1, <2>3 DEF Surjection
  <2>5. g \in Injection(I, S)
    BY <2>1, <2>2 DEF Injection, IsInjective
  <2>6. g \in Bijection(I, S)
    BY <2>4, <2>5 DEF Bijection
  <2> QED BY <2>6 DEF I
<1>7. IsFiniteSet(1 .. b) /\ Cardinality(1 .. b) = b
  BY FS_Interval
<1>8. ExistsBijection(1 .. b, S)
  BY <1>6 DEF ExistsBijection
<1> QED BY <1>7, <1>8, FS_Bijection

----------------------------------------------------------------------------
(* Logs *)

\* Replaying a log returns its records up to the first torn one.
LEMMA ReadablePrefix ==
  ASSUME NEW f \in LogFile
  PROVE  /\ Readable(f) \in Seq(Entry) /\ Len(Readable(f)) \in Nat /\ Len(Readable(f)) <= Len(f.recs)
         /\ \A i \in 1 .. Len(Readable(f)) :
              i \in DOMAIN f.recs /\ f.recs[i] # Torn /\ Readable(f)[i] = f.recs[i]
<1> DEFINE torn == {i \in DOMAIN f.recs : f.recs[i] = Torn}
           r == Readable(f)
<1>1. /\ f.recs \in Seq(Entry \cup {Torn}) /\ Len(f.recs) \in Nat /\ DOMAIN f.recs = 1 .. Len(f.recs)
  BY LenProperties DEF LogFile
<1>2. r \in Seq(Entry) /\ Len(r) \in Nat /\ \A i \in 1 .. Len(r) : r[i] \in Entry
  BY <1>1, ReadableType, LenProperties
<1>3. CASE torn = {}
  <2>1. r = f.recs
    BY <1>3 DEF Readable
  <2> QED BY <1>1, <1>2, <1>3, <2>1
<1>4. CASE torn # {}
  <2>1. torn \subseteq Nat
    BY <1>1
  <2> DEFINE first == CHOOSE i \in torn : \A j \in torn : i <= j
  <2>2. first \in torn /\ \A j \in torn : first <= j
    <3>1. \E i \in torn : \A j \in torn : i <= j
      <4> HIDE DEF torn
      <4> QED BY <1>4, <2>1, MinExists
    <3> QED BY <3>1
  <2>3. first \in 1 .. Len(f.recs)
    BY <1>1, <2>2
  <2>4. r = SubSeq(f.recs, 1, first - 1)
    BY <1>4 DEF Readable
  <2> HIDE DEF first, r
  <2>5. first - 1 \in 0 .. Len(f.recs)
    BY <1>1, <2>3
  <2>6. Len(r) = first - 1 /\ \A i \in 1 .. first - 1 : r[i] = f.recs[i]
    BY <1>1, <2>4, <2>5, Prefix
  <2>7. Len(r) <= Len(f.recs) /\ \A i \in 1 .. first - 1 : i \in DOMAIN f.recs
    BY <1>1, <2>3, <2>6
  <2>8. \A i \in 1 .. first - 1 : f.recs[i] # Torn
    BY <1>1, <2>2, <2>3, <2>7
  <2> QED BY <1>2, <2>6, <2>7, <2>8 DEF r
<1> QED BY <1>3, <1>4

\* What a replay of a chained log returns: every number from b on, once.
LEMMA ChainedEntries ==
  ASSUME NEW files, NEW n, n \in DOMAIN files => files[n] \in LogFile,
         NEW b \in Nat, Chain(HeldIn(files, n), b)
  PROVE  /\ LengthIn(files, n) \in Nat /\ EntriesIn(files, n) \in SUBSET Entry
         /\ \A e \in EntriesIn(files, n) : e.seq \in b + 1 .. b + LengthIn(files, n)
         /\ \A s \in b + 1 .. b + LengthIn(files, n) : \E e \in EntriesIn(files, n) : e.seq = s
         /\ \A e, f \in EntriesIn(files, n) : e.seq = f.seq => e = f
<1>1. CASE n \notin DOMAIN files
  <2>1. LengthIn(files, n) = 0 /\ EntriesIn(files, n) = {} /\ b + 1 .. b + 0 = {}
    BY <1>1 DEF LengthIn, EntriesIn
  <2> QED BY <2>1
<1>2. CASE n \in DOMAIN files
  <2> DEFINE f == files[n]
             r == Readable(f)
             k == Len(r)
  <2>1. f \in LogFile
    BY <1>2
  <2>2. /\ r \in Seq(Entry) /\ k \in Nat
        /\ \A i \in 1 .. k : i \in DOMAIN f.recs /\ f.recs[i] # Torn /\ r[i] = f.recs[i]
    BY <2>1, ReadablePrefix
  <2>3. DOMAIN r = 1 .. k /\ \A i \in 1 .. k : r[i] \in Entry
    BY <2>2, LenProperties
  <2>4. LengthIn(files, n) = k /\ EntriesIn(files, n) = {r[i] : i \in 1 .. k}
    BY <1>2, <2>3 DEF LengthIn, EntriesIn, RecordsIn
  <2>5. \A i \in 1 .. k : r[i].seq = b + i
    BY <1>2, <2>2 DEF Chain, HeldIn
  <2> HIDE DEF k, r, f
  <2>6. \A e \in EntriesIn(files, n) : e.seq \in b + 1 .. b + k
    BY <2>2, <2>4, <2>5
  <2>7. \A s \in b + 1 .. b + k : \E e \in EntriesIn(files, n) : e.seq = s
    <3> TAKE s \in b + 1 .. b + k
    <3>1. s - b \in 1 .. k /\ r[s - b].seq = s
      BY <2>2, <2>5
    <3> QED BY <2>4, <3>1
  <2>8. \A e, g \in EntriesIn(files, n) : e.seq = g.seq => e = g
    <3> TAKE e \in EntriesIn(files, n), g \in EntriesIn(files, n)
    <3>1. PICK i \in 1 .. k, j \in 1 .. k : e = r[i] /\ g = r[j]
      BY <2>4
    <3>2. e.seq = g.seq => i = j
      BY <2>2, <2>5, <3>1
    <3> QED BY <3>1, <3>2
  <2> QED BY <2>2, <2>3, <2>4, <2>6, <2>7, <2>8
<1> QED BY <1>1, <1>2

\* A recovery finds the entries 1 up to some number, each once.
LEMMA HeldIsDense ==
  ASSUME NEW edits \in Seq(Edit), NEW files, NEW tables, NEW top,
         \A n \in DOMAIN files : files[n] \in LogFile,
         \A n \in DOMAIN tables : tables[n] \in SUBSET Entry,
         Sufficient(edits, files, tables, top)
  PROVE  /\ LengthIn(files, Latest(edits, "log")) \in Nat
         /\ Dense(Held(edits, files, tables),
                  Latest(edits, "seq") + LengthIn(files, Latest(edits, "log")))
<1> DEFINE b == Latest(edits, "seq")
           n == Latest(edits, "log")
           k == LengthIn(files, n)
           T == EntriesIn(files, n)
           S == Content(tables, LiveAfter(edits))
<1>1. b \in Nat
  BY LatestType
<1>2. Dense(S, b) /\ Chain(HeldIn(files, n), b)
  BY DEF Sufficient
<1>3. S \in SUBSET Entry
  BY DEF Content
<1>4. /\ k \in Nat /\ T \in SUBSET Entry
      /\ \A e \in T : e.seq \in b + 1 .. b + k
      /\ \A s \in b + 1 .. b + k : \E e \in T : e.seq = s
      /\ \A e, f \in T : e.seq = f.seq => e = f
  <2> HIDE DEF b, n
  <2> QED BY <1>1, <1>2, ChainedEntries
<1>5. Dense(S \cup T, b + k)
  <2> HIDE DEF b, k, S, T
  <2> QED BY <1>1, <1>2, <1>3, <1>4, DenseExtended
<1> QED BY <1>4, <1>5 DEF Held

\* last_sequence after a recovery: that of the manifest, advanced with the log.
LEMMA RecoveredSeqCounts ==
  ASSUME NEW v, NEW k \in Nat, v.seq \in Nat, NEW r \in SUBSET Entry,
         \A e \in r : e.seq \in v.seq + 1 .. v.seq + k,
         \A s \in v.seq + 1 .. v.seq + k : \E e \in r : e.seq = s
  PROVE  RecoveredSeq(v, r) = v.seq + k
<1> DEFINE all == {v.seq} \cup {e.seq : e \in r}
<1>1. v.seq + k \in all
  <2>1. CASE k = 0
    BY <2>1
  <2>2. CASE k # 0
    <3>1. v.seq + k \in v.seq + 1 .. v.seq + k
      BY <2>2
    <3> QED BY <3>1
  <2> QED BY <2>1, <2>2
<1>2. \A s \in all : s \in Nat /\ v.seq + k >= s
  BY DEF Entry
<1>3. v.seq + k >= v.seq /\ \A e \in r : v.seq + k >= e.seq
  BY <1>2
<1>4. \A s \in all : (s >= v.seq /\ \A e \in r : s >= e.seq) => s = v.seq + k
  <2> SUFFICES ASSUME NEW s \in all, s >= v.seq, \A e \in r : s >= e.seq PROVE s = v.seq + k
    OBVIOUS
  <2>1. s >= v.seq + k
    BY <1>1
  <2> QED BY <1>2, <2>1
<1>5. (CHOOSE s \in all : s >= v.seq /\ \A e \in r : s >= e.seq) = v.seq + k
  <2> HIDE DEF all
  <2> QED BY <1>1, <1>3, <1>4
<1> QED BY <1>5 DEF RecoveredSeq

\* The replay of a file depends on its records only.
LEMMA SameRecords ==
  ASSUME NEW f, NEW g, f.recs = g.recs
  PROVE  Readable(f) = Readable(g) /\ RecordsIn(f) = RecordsIn(g)
<1>1. Readable(f) = Readable(g)
  BY DEF Readable
<1> QED BY <1>1 DEF RecordsIn

LEMMA EmptyReads ==
  ASSUME NEW f, f.recs = <<>>
  PROVE  Readable(f) = <<>> /\ Len(Readable(f)) = 0 /\ RecordsIn(f) = {}
<1>1. DOMAIN <<>> = {} /\ Len(<<>>) = 0
  BY EmptySeq
<1>2. Readable(f) = <<>>
  BY <1>1 DEF Readable
<1> QED BY <1>1, <1>2 DEF RecordsIn

\* Creating empty logs, and syncing, leaves every log what it was.
LEMMA LogsKept ==
  ASSUME NEW old, NEW new, DOMAIN old \subseteq DOMAIN new,
         \A n \in DOMAIN new : new[n].recs = HeldIn(old, n)
  PROVE  \A n : /\ HeldIn(new, n) = HeldIn(old, n)
                /\ LengthIn(new, n) = LengthIn(old, n)
                /\ EntriesIn(new, n) = EntriesIn(old, n)
<1> TAKE n
<1>1. CASE n \notin DOMAIN new
  <2>1. n \notin DOMAIN old
    BY <1>1
  <2> QED BY <1>1, <2>1 DEF HeldIn, LengthIn, EntriesIn
<1>2. CASE n \in DOMAIN old
  <2>1. n \in DOMAIN new /\ new[n].recs = old[n].recs
    BY <1>2 DEF HeldIn
  <2>2. Readable(new[n]) = Readable(old[n]) /\ RecordsIn(new[n]) = RecordsIn(old[n])
    BY <2>1, SameRecords
  <2> QED BY <1>2, <2>1, <2>2 DEF HeldIn, LengthIn, EntriesIn
<1>3. CASE n \in DOMAIN new /\ n \notin DOMAIN old
  <2>1. new[n].recs = <<>>
    BY <1>3 DEF HeldIn
  <2>2. Len(Readable(new[n])) = 0 /\ RecordsIn(new[n]) = {}
    BY <2>1, EmptyReads
  <2> QED BY <1>3, <2>1, <2>2 DEF HeldIn, LengthIn, EntriesIn
<1> QED BY <1>1, <1>2, <1>3

LEMMA WithLogKeeps ==
  ASSUME NEW n
  PROVE  /\ DOMAIN WithLog(n) = DOMAIN logs \cup {n}
         /\ \A m \in DOMAIN WithLog(n) : WithLog(n)[m].recs = HeldIn(logs, m)
  BY DEF WithLog, HeldIn, EmptyFile

LEMMA SyncedKeeps ==
  ASSUME Typed, NEW n, NEW new, new = [logs EXCEPT ![n] = Synced(@)]
  PROVE  /\ DOMAIN new = DOMAIN logs
         /\ \A m \in DOMAIN new : new[m].recs = HeldIn(logs, m)
<1>1. \A m \in DOMAIN logs : Synced(logs[m]).recs = logs[m].recs
  BY DEF Synced, Typed, DiskTyped, LogFile
<1> QED BY <1>1 DEF HeldIn

\* An entry appended behind whole records.
LEMMA EntryAppended ==
  ASSUME NEW f \in LogFile, f.recs \in Seq(Entry), NEW e \in Entry
  PROVE  LET g == Appended(f, e)
         IN /\ g.recs = Append(f.recs, e) /\ g.recs \in Seq(Entry)
            /\ RecordsIn(g) = RecordsIn(f) \cup {e}
            /\ Len(Readable(g)) = Len(Readable(f)) + 1
            /\ Readable(f) = f.recs
<1> DEFINE g == Appended(f, e)
           r == f.recs
           s == Append(r, e)
<1>1. /\ Len(r) \in Nat /\ DOMAIN r = 1 .. Len(r) /\ \A i \in 1 .. Len(r) : r[i] \in Entry
  BY LenProperties
<1>2. s \in Seq(Entry) /\ Len(s) = Len(r) + 1 /\ \A i \in 1 .. Len(r) : s[i] = r[i]
  BY <1>1, AppendProperties
<1>3. s[Len(r) + 1] = e /\ DOMAIN s = 1 .. Len(r) + 1
  BY <1>1, <1>2, AppendProperties, LenProperties
<1>4. g.recs = s
  BY DEF Appended, LogFile
<1>5. Readable(f) = r
  BY <1>1, FaultsAssumption, ReadableWhole
<1>6. \A i \in DOMAIN s : s[i] \in Entry
  BY <1>2, LenProperties
<1> HIDE DEF s, g, r
<1>7. Readable(g) = s
  BY <1>4, <1>6, FaultsAssumption, ReadableWhole
<1>8. RecordsIn(f) = {r[i] : i \in 1 .. Len(r)} /\ RecordsIn(g) = {s[i] : i \in 1 .. Len(r) + 1}
  BY <1>1, <1>3, <1>5, <1>7 DEF RecordsIn
<1>9. 1 .. Len(r) + 1 = (1 .. Len(r)) \cup {Len(r) + 1}
  BY <1>1
<1>10. RecordsIn(g) = RecordsIn(f) \cup {e}
  BY <1>2, <1>3, <1>8, <1>9
<1> QED BY <1>2, <1>4, <1>5, <1>7, <1>10 DEF g, r, s

LEMMA ChainAppended ==
  ASSUME NEW s \in Seq(Entry), NEW e \in Entry, NEW b \in Nat, Chain(s, b), e.seq = b + Len(s) + 1
  PROVE  Chain(Append(s, e), b)
<1>1. Len(s) \in Nat /\ DOMAIN s = 1 .. Len(s)
  BY LenProperties
<1>2. /\ Append(s, e) \in Seq(Entry) /\ Len(Append(s, e)) = Len(s) + 1
      /\ \A i \in 1 .. Len(s) : Append(s, e)[i] = s[i]
  BY <1>1, AppendProperties
<1>3. Append(s, e)[Len(s) + 1] = e /\ DOMAIN Append(s, e) = 1 .. Len(s) + 1
  BY <1>1, <1>2, AppendProperties, LenProperties
<1> QED BY <1>1, <1>2, <1>3 DEF Chain

\* A crash takes a tail of a log: what it leaves is numbered as before.
LEMMA CrashKeeps ==
  ASSUME NEW f \in LogFile, Sound(f), NEW mayTear \in BOOLEAN, NEW g \in Remains(f, mayTear)
  PROVE  /\ \A b : Chain(f.recs, b) => Chain(g.recs, b)
         /\ f.recs = <<>> => g.recs = <<>>
<1> DEFINE s == f.recs
           cut(n) == SubSeq(s, 1, n)
<1>1. /\ s \in Seq(Entry \cup {Torn}) /\ Len(s) \in Nat /\ DOMAIN s = 1 .. Len(s) /\ f.synced \in Nat
  BY LenProperties DEF LogFile
<1>2. \A n \in f.synced .. Len(s) :
        /\ n \in Nat /\ n <= Len(s)
        /\ cut(n) \in Seq(Entry \cup {Torn}) /\ Len(cut(n)) = n /\ DOMAIN cut(n) = 1 .. n
        /\ \A i \in 1 .. n : cut(n)[i] = s[i]
  <2> TAKE n \in f.synced .. Len(s)
  <2>1. n \in 0 .. Len(s)
    BY <1>1
  <2>2. cut(n) \in Seq(Entry \cup {Torn}) /\ Len(cut(n)) = n /\ \A i \in 1 .. n : cut(n)[i] = s[i]
    BY <1>1, <2>1, Prefix
  <2>3. DOMAIN cut(n) = 1 .. n
    BY <2>2, LenProperties
  <2> QED BY <2>1, <2>2, <2>3
<1>3. ASSUME NEW n \in f.synced .. Len(s), g.recs = cut(n)
      PROVE  /\ \A b : Chain(s, b) => Chain(g.recs, b)
             /\ s = <<>> => g.recs = <<>>
  <2> HIDE DEF cut, s
  <2>1. \A b : Chain(s, b) => Chain(g.recs, b)
    BY <1>1, <1>2, <1>3 DEF Chain
  <2>2. ASSUME s = <<>> PROVE g.recs = <<>>
    <3>1. Len(s) = 0 /\ n = 0
      BY <1>1, <1>2, <2>2, EmptySeq
    <3> QED BY <1>2, <1>3, <3>1, EmptySeq
  <2> QED BY <2>1, <2>2
<1>4. ASSUME NEW n \in f.synced .. Len(s) - 1, g.recs = Append(cut(n), Torn)
      PROVE  /\ \A b : Chain(s, b) => Chain(g.recs, b)
             /\ s = <<>> => g.recs = <<>>
  <2>1. n \in f.synced .. Len(s)
    BY <1>1
  <2> HIDE DEF cut, s
  <2>2. /\ n \in Nat /\ n <= Len(s) /\ cut(n) \in Seq(Entry \cup {Torn}) /\ Len(cut(n)) = n
        /\ DOMAIN cut(n) = 1 .. n /\ \A i \in 1 .. n : cut(n)[i] = s[i]
    BY <1>2, <2>1
  <2>3. /\ Append(cut(n), Torn) \in Seq(Entry \cup {Torn}) /\ Len(Append(cut(n), Torn)) = n + 1
        /\ \A i \in 1 .. n : Append(cut(n), Torn)[i] = cut(n)[i]
        /\ Append(cut(n), Torn)[n + 1] = Torn
    BY <2>2, AppendProperties
  <2>4. DOMAIN Append(cut(n), Torn) = 1 .. n + 1
    BY <2>3, LenProperties
  <2>5. \A b : Chain(s, b) => Chain(g.recs, b)
    BY <1>1, <1>4, <2>2, <2>3, <2>4 DEF Chain
  <2>6. s # <<>>
    <3>1. Len(s) >= 1
      BY <1>1, <1>4
    <3> QED BY <3>1, EmptySeq
  <2> QED BY <2>5, <2>6
<1>5. \/ \E n \in f.synced .. Len(s) : g.recs = cut(n)
      \/ \E n \in f.synced .. Len(s) - 1 : g.recs = Append(cut(n), Torn)
  BY DEF Remains
<1> QED BY <1>3, <1>4, <1>5

----------------------------------------------------------------------------
(* The manifest *)

LEMMA CutsTyped ==
  ASSUME Typed, Whole
  PROVE  /\ manifest.recs \in CutsOf(manifest)
         /\ \A edits \in CutsOf(manifest) : edits \in Seq(Edit)
         /\ manifest.synced = Len(manifest.recs) => CutsOf(manifest) = {manifest.recs}
         /\ manifest.synced > 0 => \A edits \in CutsOf(manifest) : edits # <<>>
<1>1. /\ manifest.recs \in Seq(Edit) /\ Len(manifest.recs) \in Nat /\ manifest.synced \in Nat
      /\ manifest.synced <= Len(manifest.recs)
  BY LenProperties DEF Typed, DiskTyped, ManifestFile, Sound, Whole
<1>2. SubSeq(manifest.recs, 1, Len(manifest.recs)) = manifest.recs
  BY <1>1, SubSeqFull
<1>3. Len(manifest.recs) \in manifest.synced .. Len(manifest.recs)
  BY <1>1
<1>4. manifest.recs \in CutsOf(manifest)
  BY <1>2, <1>3 DEF CutsOf
<1>5. ASSUME NEW edits \in CutsOf(manifest)
      PROVE  edits \in Seq(Edit) /\ Len(edits) >= manifest.synced
  <2>1. PICK n \in manifest.synced .. Len(manifest.recs) : edits = SubSeq(manifest.recs, 1, n)
    BY DEF CutsOf
  <2>2. n \in 0 .. Len(manifest.recs) /\ n >= manifest.synced
    BY <1>1
  <2> QED BY <1>1, <2>1, <2>2, Prefix
<1>6. ASSUME manifest.synced > 0, NEW edits \in CutsOf(manifest) PROVE edits # <<>>
  BY <1>1, <1>5, <1>6, EmptySeq
<1>7. manifest.synced = Len(manifest.recs) => CutsOf(manifest) = {manifest.recs}
  <2> SUFFICES ASSUME manifest.synced = Len(manifest.recs) PROVE CutsOf(manifest) = {manifest.recs}
    OBVIOUS
  <2>1. manifest.synced .. Len(manifest.recs) = {Len(manifest.recs)}
    BY <1>1
  <2> QED BY <1>2, <2>1 DEF CutsOf
<1> QED BY <1>4, <1>5, <1>6, <1>7

LEMMA CutsOfAppended ==
  ASSUME Typed, Whole, NEW e \in Edit
  PROVE  CutsOf(Appended(manifest, e)) = CutsOf(manifest) \cup {Append(manifest.recs, e)}
<1> DEFINE s == manifest.recs
           t == Append(s, e)
<1>1. s \in Seq(Edit) /\ Len(s) \in Nat /\ manifest.synced \in Nat /\ manifest.synced <= Len(s)
  BY LenProperties DEF Typed, DiskTyped, ManifestFile, Sound, Whole
<1>2. t \in Seq(Edit) /\ Len(t) = Len(s) + 1
  BY <1>1, AppendProperties
<1>3. Appended(manifest, e).recs = t /\ Appended(manifest, e).synced = manifest.synced
  BY DEF Appended, Typed, DiskTyped, ManifestFile
<1>4. \A n \in manifest.synced .. Len(s) : SubSeq(t, 1, n) = SubSeq(s, 1, n)
  <2> TAKE n \in manifest.synced .. Len(s)
  <2>1. n \in 0 .. Len(s)
    BY <1>1
  <2> QED BY <1>1, <2>1, PrefixOfAppend
<1>5. SubSeq(t, 1, Len(s) + 1) = t
  BY <1>2, SubSeqFull
<1>6. manifest.synced .. Len(s) + 1 = (manifest.synced .. Len(s)) \cup {Len(s) + 1}
  BY <1>1
<1>7. CutsOf(Appended(manifest, e)) = {SubSeq(t, 1, n) : n \in manifest.synced .. Len(s) + 1}
  BY <1>2, <1>3 DEF CutsOf
<1>8. CutsOf(manifest) = {SubSeq(s, 1, n) : n \in manifest.synced .. Len(s)}
  BY DEF CutsOf
<1> HIDE DEF s, t
<1>9. CutsOf(Appended(manifest, e)) = CutsOf(manifest) \cup {t}
  BY <1>4, <1>5, <1>6, <1>7, <1>8
<1> QED BY <1>9 DEF s, t

\* Synced, or what a crash leaves: one of the cuts, and no other any more.
LEMMA CutsOfCut ==
  ASSUME Typed, Whole, NEW n \in manifest.synced .. Len(manifest.recs), NEW g,
         g.recs = SubSeq(manifest.recs, 1, n), g.synced = n
  PROVE  CutsOf(g) = {g.recs} /\ g.recs \in CutsOf(manifest)
<1>1. /\ manifest.recs \in Seq(Edit) /\ Len(manifest.recs) \in Nat /\ n \in 0 .. Len(manifest.recs)
  BY LenProperties DEF Typed, DiskTyped, ManifestFile, Whole
<1>2. g.recs \in Seq(Edit) /\ Len(g.recs) = n
  BY <1>1, Prefix
<1>3. SubSeq(g.recs, 1, n) = g.recs /\ n .. n = {n}
  BY <1>1, <1>2, SubSeqFull
<1>4. CutsOf(g) = {g.recs}
  BY <1>2, <1>3 DEF CutsOf
<1> QED BY <1>4 DEF CutsOf

LEMMA CutsOfSynced ==
  ASSUME Typed, Whole
  PROVE  CutsOf(Synced(manifest)) = {manifest.recs} /\ manifest.recs \in CutsOf(manifest)
<1>1. manifest.recs \in Seq(Edit) /\ Len(manifest.recs) \in manifest.synced .. Len(manifest.recs)
  BY LenProperties DEF Typed, DiskTyped, ManifestFile, Sound, Whole
<1>2. Synced(manifest).recs = manifest.recs /\ Synced(manifest).synced = Len(manifest.recs)
  BY DEF Synced, Typed, DiskTyped, ManifestFile
<1>3. SubSeq(manifest.recs, 1, Len(manifest.recs)) = manifest.recs
  BY <1>1, SubSeqFull
<1> QED BY <1>1, <1>2, <1>3, CutsOfCut

----------------------------------------------------------------------------
(* The steps *)

LEMMA InitData == Init => Data
<1> SUFFICES ASSUME Init PROVE Data
  OBVIOUS
<1>1. /\ manifest.recs = <<>> /\ manifest.synced = 0 /\ Len(<<>>) = 0 /\ <<>> \in Seq(Edit)
      /\ DOMAIN logs = {} /\ DOMAIN ssts = {} /\ pc = Closed /\ dir = "empty"
      /\ pc[1] = "closed" /\ pc[2] = ""
  <2>1. <<>> \in Seq(Edit) /\ Len(<<>>) = 0
    BY EmptySeq
  <2>2. pc = Closed /\ Closed = <<"closed", "">>
    BY DEF Init, Closed
  <2>3. pc[1] = "closed" /\ pc[2] = ""
    BY <2>2
  <2>4. manifest.recs = <<>> /\ manifest.synced = 0
    BY DEF Init, EmptyFile
  <2>5. DOMAIN logs = {} /\ DOMAIN ssts = {} /\ dir = "empty"
    BY DEF Init
  <2> QED BY <2>1, <2>2, <2>3, <2>4, <2>5
<1>2. CutsOf(manifest) = {<<>>}
  <2>1. SubSeq(<<>>, 1, 0) = <<>>
    BY <1>1, SubSeqFull
  <2>2. 0 .. 0 = {0}
    OBVIOUS
  <2> QED BY <1>1, <2>1, <2>2 DEF CutsOf
<1>3. CutsSuffice
  <2>1. Content(ssts, LiveAfter(<<>>)) = {} /\ HeldIn(logs, Unset) = <<>> /\ DOMAIN <<>> = {}
    <3>1. DOMAIN <<>> = {}
      OBVIOUS
    <3>2. Content(ssts, {}) = {} /\ HeldIn(logs, Unset) = <<>>
      BY <1>1 DEF Content, HeldIn
    <3> QED BY <3>1, <3>2, ReplayOfNothing
  <2>2. Dense({}, 0) /\ Chain(<<>>, 0)
    BY DEF Dense, Chain
  <2>3. Sufficient(<<>>, logs, ssts, 0)
    <3>1. \A field \in {"log", "next", "seq"} : Latest(<<>>, field) = 0
      BY ReplayOfNothing DEF Unset
    <3>2. Dense(Content(ssts, LiveAfter(<<>>)), Latest(<<>>, "seq"))
      BY <2>1, <2>2, <3>1
    <3>3. Chain(HeldIn(logs, Latest(<<>>, "log")), Latest(<<>>, "seq"))
      BY <2>1, <2>2, <3>1 DEF Unset
    <3>4. Latest(<<>>, "next") = 0 /\ 0 <= 0
      BY <3>1
    <3>5. \A n \in DOMAIN logs : n >= Latest(<<>>, "next") => logs[n].recs = <<>>
      BY <1>1
    <3> QED BY <3>2, <3>3, <3>4, <3>5 DEF Sufficient
  <2>4. Latest(manifest.recs, "next") = 0
    BY <1>1, ReplayOfNothing DEF Unset
  <2> QED BY <1>2, <2>3, <2>4 DEF CutsSuffice
<1>4. HasName /\ NoLogYet /\ Founded /\ NextKnown /\ EmptyAhead /\ MemIsLog /\ Counted
  BY <1>1 DEF HasName, NoLogYet, Founded, At, NextKnown, EmptyAhead, MemIsLog, Counted
<1>5. EditShape /\ NextLog /\ Settled /\ LogOpen /\ SstWritten /\ FreshEverywhere
  BY <1>1 DEF EditShape, NextLog, Settled, Working, LogOpen, SstWritten, FreshEverywhere, At
<1>6. NothingHeld
  BY DEF Init, NothingHeld
<1> QED BY <1>3, <1>4, <1>5, <1>6 DEF Data

\* Between two commits: logs are created empty or synced, SSTables stay.
LEMMA CutsKept ==
  ASSUME CutsSuffice, manifest' = manifest, DOMAIN logs \subseteq DOMAIN logs',
         \A n \in DOMAIN logs' : logs'[n].recs = HeldIn(logs, n),
         \A edits \in CutsOf(manifest) :
           Content(ssts', LiveAfter(edits)) = Content(ssts, LiveAfter(edits))
  PROVE  CutsSuffice'
<1>1. \A n : HeldIn(logs', n) = HeldIn(logs, n)
  BY LogsKept
<1> SUFFICES ASSUME NEW edits \in CutsOf(manifest)
             PROVE  Sufficient(edits, logs', ssts', Latest(manifest.recs, "next"))
  BY DEF CutsSuffice
<1>2. Sufficient(edits, logs, ssts, Latest(manifest.recs, "next"))
  BY DEF CutsSuffice
<1>3. \A n \in DOMAIN logs' : n >= Latest(edits, "next") => logs'[n].recs = <<>>
  BY <1>2 DEF Sufficient, HeldIn
<1>4. Content(ssts', LiveAfter(edits)) = Content(ssts, LiveAfter(edits))
  OBVIOUS
<1>5. HeldIn(logs', Latest(edits, "log")) = HeldIn(logs, Latest(edits, "log"))
  BY <1>1
<1> QED BY <1>2, <1>3, <1>4, <1>5 DEF Sufficient

\* The parts of Data that only a commit, a write or a closing touches.
Steady ==
  /\ CutsSuffice /\ NothingHeld /\ NextKnown /\ EmptyAhead

LEMMA SteadyStep ==
  ASSUME Typed, Data, manifest' = manifest, DOMAIN logs \subseteq DOMAIN logs',
         \A n \in DOMAIN logs' : logs'[n].recs = HeldIn(logs, n),
         \A edits \in CutsOf(manifest) :
           Content(ssts', LiveAfter(edits)) = Content(ssts, LiveAfter(edits)),
         pc # Closed, pc' # Closed, ~ Committing, ~ Committing',
         nextNum' \in Nat, nextNum' >= nextNum, Latest(manifest.recs, "next") \in Nat
  PROVE  Steady'
<1>1. CutsSuffice'
  BY CutsKept DEF Data
<1>2. NothingHeld'
  BY DEF NothingHeld
<1>3. NextKnown'
  BY DEF Data, NextKnown, Typed, MemoryTyped
<1>4. EmptyAhead'
  <2> SUFFICES ASSUME NEW n \in DOMAIN logs', n >= nextNum' PROVE logs'[n].recs = <<>>
    BY DEF EmptyAhead
  <2>1. CASE n \in DOMAIN logs
    <3>1. n \in Nat
      BY <2>1 DEF Typed, DiskTyped
    <3>2. n >= nextNum
      BY <3>1 DEF Typed, MemoryTyped
    <3> QED BY <2>1, <3>2 DEF Data, EmptyAhead, HeldIn
  <2>2. CASE n \notin DOMAIN logs
    BY <2>2 DEF HeldIn
  <2> QED BY <2>1, <2>2
<1> QED BY <1>1, <1>2, <1>3, <1>4 DEF Steady

LEMMA LatestIsNat ==
  ASSUME Inner
  PROVE  \A field \in {"log", "next", "seq"} : Latest(manifest.recs, field) \in Nat
  BY LatestType DEF Inner, Whole

\* The log and the memtable where neither the log in use nor the manifest changes.
LEMMA SameLogStep ==
  ASSUME Data, UNCHANGED <<manifest, wal, lastSeq, mem, frozen, issued>>,
         DOMAIN logs \subseteq DOMAIN logs',
         \A n \in DOMAIN logs' : logs'[n].recs = HeldIn(logs, n),
         pc # Closed, pc' # Closed, ~ At({"put"}, {"sync"}), ~ At({"put"}, {"sync"})',
         pc'[1] = "flush" <=> pc[1] = "flush"
  PROVE  MemIsLog' /\ Counted'
<1>1. \A n : LengthIn(logs', n) = LengthIn(logs, n) /\ EntriesIn(logs', n) = EntriesIn(logs, n)
  BY LogsKept
<1>2. MemIsLog'
  BY <1>1 DEF Data, MemIsLog, Pending
<1>3. Counted'
  BY <1>1 DEF Data, Counted
<1> QED BY <1>2, <1>3

\* The next number names no file of any recovery.
LEMMA NextIsFresh ==
  ASSUME Typed, Inner, Data, pc # Closed, ~ Committing, NEW edits \in CutsOf(manifest)
  PROVE  nextNum \notin LiveAfter(edits)
<1>1. PICK n \in manifest.synced .. Len(manifest.recs) : edits = SubSeq(manifest.recs, 1, n)
  BY DEF CutsOf
<1>2. \A m \in LiveAfter(edits) : m < Latest(edits, "next")
  BY <1>1 DEF Inner, PrefixesConsistent, Consistent
<1>3. Latest(edits, "next") <= Latest(manifest.recs, "next") /\ Latest(manifest.recs, "next") <= nextNum
  BY DEF Data, CutsSuffice, Sufficient, NextKnown
<1>4. edits \in Seq(Edit)
  BY CutsTyped DEF Inner
<1>5. /\ Latest(edits, "next") \in Nat /\ Latest(manifest.recs, "next") \in Nat /\ nextNum \in Nat
      /\ LiveAfter(edits) \in SUBSET Nat
  BY <1>4, LatestType, LatestIsNat, LiveType DEF Typed, MemoryTyped
<1> QED BY <1>2, <1>3, <1>5

\* Steps that make empty logs, sync logs, or only move on in their operation.
LEMMA WriteCurrentData ==
  ASSUME Typed, Inner, Data, WriteCurrent
  PROVE  Data'
<1>1. /\ pc = <<"create", "current">> /\ pc[1] = "create" /\ pc[2] = "current"
      /\ pc' = <<"create", "log">> /\ pc'[1] = "create" /\ pc'[2] = "log"
      /\ dir' = "named" /\ UNCHANGED <<manifest, logs, ssts>>
  BY DEF WriteCurrent
<1>2. UNCHANGED <<sync, mem, frozen, live, wal, lastSeq, nextNum, edit, issued>>
  BY DEF WriteCurrent, memory, ghosts
<1>3. pc # Closed /\ pc' # Closed /\ ~ Committing /\ ~ Committing'
  BY <1>1, OpenSteps DEF Committing
<1>4. \A n \in DOMAIN logs' : logs'[n].recs = HeldIn(logs, n)
  BY <1>1 DEF HeldIn
<1>5. Steady'
  <2>1. nextNum' \in Nat /\ nextNum' >= nextNum
    BY <1>2 DEF Typed, MemoryTyped
  <2> QED BY <1>1, <1>3, <1>4, <2>1, LatestIsNat, SteadyStep
<1>6. MemIsLog' /\ Counted'
  BY <1>1, <1>2, <1>3, <1>4, SameLogStep DEF At
<1>7. HasName' /\ NoLogYet' /\ Founded' /\ Settled'
  BY <1>1, <1>2 DEF Data, HasName, NoLogYet, Founded, Settled, Working, At
<1>8. EditShape' /\ NextLog'
  BY <1>1, <1>2 DEF Data, EditShape, NextLog, At
<1>9. LogOpen'
  BY <1>1, <1>2, <1>3 DEF Data, LogOpen, Working, At
<1>10. SstWritten' /\ FreshEverywhere'
  BY <1>1, <1>2 DEF SstWritten, FreshEverywhere, At
<1> QED BY <1>5, <1>6, <1>7, <1>8, <1>9, <1>10 DEF Data, Steady

LEMMA BeginData ==
  ASSUME Typed, Inner, Data, BeginPut \/ BeginClose \/ BeginCompact
  PROVE  Data'
<1>1. /\ pc = Running /\ pc[1] = "running" /\ pc[2] = ""
      /\ UNCHANGED <<dir, manifest, logs, ssts>>
  <2>1. pc = Running /\ UNCHANGED <<dir, manifest, logs, ssts>>
    BY DEF BeginPut, BeginClose, BeginCompact, disk
  <2> QED BY <2>1 DEF Running
<1>2. /\ UNCHANGED <<sync, mem, frozen, live, wal, lastSeq, nextNum, issued>>
  BY DEF BeginPut, BeginClose, BeginCompact, memory, ghosts
<1>3. \/ pc'[1] = "put" /\ pc'[2] = "append" /\ edit' = edit
      \/ pc'[1] = "close" /\ pc'[2] = "sync" /\ edit' = edit
      \/ /\ pc'[1] = "compact" /\ pc'[2] = "sst"
         /\ \E inputs \in (SUBSET live) \ {{}} :
              edit' = [NoEdit EXCEPT !.add = {nextNum}, !.del = inputs, !.next = nextNum + 1]
  <2>1. CASE BeginPut
    BY <2>1 DEF BeginPut, memory
  <2>2. CASE BeginClose
    BY <2>2 DEF BeginClose, memory
  <2>3. CASE BeginCompact
    BY <2>3 DEF BeginCompact
  <2> QED BY <2>1, <2>2, <2>3
<1>4. pc # Closed /\ pc' # Closed /\ ~ Committing /\ ~ Committing'
  BY <1>1, <1>3, OpenSteps DEF Committing, Editing
<1>5. \A n \in DOMAIN logs' : logs'[n].recs = HeldIn(logs, n)
  BY <1>1 DEF HeldIn
<1>6. Steady'
  <2>1. nextNum' \in Nat /\ nextNum' >= nextNum
    BY <1>2 DEF Typed, MemoryTyped
  <2> QED BY <1>1, <1>4, <1>5, <2>1, LatestIsNat, SteadyStep
<1>7. MemIsLog' /\ Counted'
  BY <1>1, <1>2, <1>3, <1>4, <1>5, SameLogStep DEF At
<1>8. HasName' /\ NoLogYet' /\ Founded' /\ Settled'
  <2>1. dir = "named"
    BY <1>1, <1>4 DEF Data, HasName, At
  <2> QED BY <1>1, <1>3, <2>1 DEF Data, HasName, NoLogYet, Founded, Settled, Working, At
<1>9. EditShape'
  BY <1>1, <1>2, <1>3 DEF EditShape, At, NoEdit, Unset
<1>10. NextLog' /\ SstWritten'
  BY <1>3 DEF NextLog, SstWritten, At
<1>11. LogOpen'
  BY <1>1, <1>2, <1>3, <1>4 DEF Data, LogOpen, Working, At
<1>12. FreshEverywhere'
  <2> SUFFICES ASSUME pc'[2] = "sst", NEW edits \in CutsOf(manifest)
               PROVE  edit'.add \cap LiveAfter(edits) = {}
    BY <1>1 DEF FreshEverywhere
  <2>1. edit'.add = {nextNum}
    BY <1>3 DEF NoEdit
  <2>2. nextNum \notin LiveAfter(edits)
    BY <1>4, NextIsFresh
  <2> QED BY <2>1, <2>2
<1> QED BY <1>6, <1>7, <1>8, <1>9, <1>10, <1>11, <1>12 DEF Data, Steady

LEMMA MakeLogData ==
  ASSUME Typed, Inner, Data, MakeLog
  PROVE  Data'
<1>1. /\ pc[2] = "log" /\ pc[1] \in {"flush", "recover"} /\ pc'[1] = pc[1]
      /\ pc[1] = "flush" => pc'[2] = "old" /\ edit' = edit
      /\ pc[1] = "recover" => pc'[2] = "append" /\ edit' = [edit EXCEPT !.next = nextNum, !.seq = lastSeq]
  <2>1. CASE pc = <<"flush", "log">>
    BY <2>1 DEF MakeLog
  <2>2. CASE pc = <<"recover", "log">>
    BY <2>2 DEF MakeLog
  <2> QED BY <2>1, <2>2 DEF MakeLog
<1>2. /\ logs' = WithLog(edit.log)
      /\ UNCHANGED <<dir, manifest, ssts, sync, mem, frozen, live, wal, lastSeq, nextNum, issued>>
  BY DEF MakeLog, ghosts
<1>3. pc # Closed /\ pc' # Closed /\ ~ Committing /\ ~ Committing'
  BY <1>1, OpenSteps DEF Committing
<1>4. /\ DOMAIN logs' = DOMAIN logs \cup {edit.log}
      /\ \A n \in DOMAIN logs' : logs'[n].recs = HeldIn(logs, n)
  BY <1>2, WithLogKeeps
<1>5. Steady'
  <2>1. nextNum' \in Nat /\ nextNum' >= nextNum
    BY <1>2 DEF Typed, MemoryTyped
  <2> QED BY <1>2, <1>3, <1>4, <2>1, LatestIsNat, SteadyStep
<1>6. MemIsLog' /\ Counted'
  BY <1>1, <1>2, <1>3, <1>4, SameLogStep DEF At
<1>7. \A n : HeldIn(logs', n) = HeldIn(logs, n)
  BY <1>4, LogsKept
<1>8. edit.log # Unset /\ edit.del = {} /\ edit \in Edit
  BY <1>1 DEF Data, EditShape, At, Typed, MemoryTyped
<1>9. /\ edit'.add = edit.add /\ edit'.del = edit.del /\ edit'.log = edit.log
      /\ pc[1] = "recover" => edit'.seq = lastSeq
  BY <1>1, <1>8 DEF Edit
<1>10. HasName' /\ NoLogYet' /\ Founded' /\ Settled'
  <2>1. dir = "named"
    BY <1>1, <1>3 DEF Data, HasName, At
  <2> QED BY <1>1, <1>2, <2>1 DEF Data, HasName, NoLogYet, Founded, Settled, Working, At
<1>11. EditShape'
  BY <1>1, <1>2, <1>8, <1>9 DEF Data, EditShape, At
<1>12. NextLog'
  BY <1>1, <1>4, <1>7, <1>9 DEF Data, NextLog, At
<1>13. SstWritten' /\ FreshEverywhere'
  <2>1. Content(ssts, edit.add) = mem \cup frozen
    BY <1>1 DEF Data, SstWritten, At
  <2> QED BY <1>1, <1>2, <1>9, <2>1 DEF SstWritten, FreshEverywhere, At
<1>14. LogOpen'
  <2>1. wal # Unset
    BY <1>1, <1>3 DEF Data, LogOpen, At
  <2>2. CASE pc[1] = "flush"
    <3>1. wal \in DOMAIN logs /\ logs[wal].recs \in Seq(Entry)
      BY <1>1, <2>2 DEF Data, LogOpen, Working, At
    <3>2. wal \in DOMAIN logs' /\ logs'[wal].recs \in Seq(Entry)
      BY <1>4, <3>1 DEF HeldIn
    <3> QED BY <1>2, <2>1, <3>2 DEF LogOpen
  <2>3. CASE pc[1] = "recover"
    BY <1>1, <1>2, <2>1, <2>3 DEF LogOpen, Working, At
  <2> QED BY <1>1, <2>2, <2>3
<1> QED BY <1>5, <1>6, <1>10, <1>11, <1>12, <1>13, <1>14 DEF Data, Steady

LEMMA SyncOldLogData ==
  ASSUME Typed, Inner, Data, SyncOldLog
  PROVE  Data'
<1>1. /\ pc[1] = "flush" /\ pc[2] = "old" /\ pc'[1] = "flush" /\ pc'[2] = "append"
      /\ logs' = [logs EXCEPT ![wal] = Synced(@)]
      /\ edit' = [edit EXCEPT !.next = nextNum, !.seq = lastSeq]
  <2>1. pc = <<"flush", "old">> /\ pc' = <<"flush", "append">>
    BY DEF SyncOldLog
  <2> QED BY <2>1 DEF SyncOldLog
<1>2. UNCHANGED <<dir, manifest, ssts, sync, mem, frozen, live, wal, lastSeq, nextNum, issued>>
  BY DEF SyncOldLog, ghosts
<1>3. pc # Closed /\ pc' # Closed /\ ~ Committing /\ ~ Committing'
  BY <1>1, OpenSteps DEF Committing
<1>4. DOMAIN logs' = DOMAIN logs /\ \A n \in DOMAIN logs' : logs'[n].recs = HeldIn(logs, n)
  BY <1>1, SyncedKeeps
<1>5. Steady'
  <2>1. nextNum' \in Nat /\ nextNum' >= nextNum
    BY <1>2 DEF Typed, MemoryTyped
  <2> QED BY <1>2, <1>3, <1>4, <2>1, LatestIsNat, SteadyStep
<1>6. MemIsLog' /\ Counted'
  BY <1>1, <1>2, <1>3, <1>4, SameLogStep DEF At
<1>7. \A n : HeldIn(logs', n) = HeldIn(logs, n)
  BY <1>4, LogsKept
<1>8. edit.log # Unset /\ edit.del = {} /\ edit \in Edit
  BY <1>1 DEF Data, EditShape, At, Typed, MemoryTyped
<1>9. edit'.add = edit.add /\ edit'.del = edit.del /\ edit'.log = edit.log /\ edit'.seq = lastSeq
  BY <1>1, <1>8 DEF Edit
<1>10. HasName' /\ NoLogYet' /\ Founded' /\ Settled'
  <2>1. dir = "named"
    BY <1>1, <1>3 DEF Data, HasName, At
  <2> QED BY <1>1, <1>2, <2>1 DEF Data, HasName, NoLogYet, Founded, Settled, Working, At
<1>11. EditShape'
  <2>1. edit'.del = {} /\ edit'.log # Unset /\ edit'.seq = lastSeq'
    BY <1>2, <1>8, <1>9
  <2> QED BY <1>1, <2>1 DEF EditShape, At
<1>12. NextLog'
  <2>1. HeldIn(logs, edit.log) = <<>> /\ edit.log \in DOMAIN logs
    BY <1>1 DEF Data, NextLog, At
  <2>2. HeldIn(logs', edit'.log) = <<>> /\ edit'.log \in DOMAIN logs'
    BY <1>4, <1>7, <1>9, <2>1
  <2> QED BY <1>1, <2>2 DEF NextLog, At
<1>13. SstWritten' /\ FreshEverywhere'
  <2>1. Content(ssts, edit.add) = mem \cup frozen
    BY <1>1 DEF Data, SstWritten, At
  <2> QED BY <1>1, <1>2, <1>9, <2>1 DEF SstWritten, FreshEverywhere, At
<1>14. LogOpen'
  <2>1. wal # Unset /\ wal \in DOMAIN logs /\ logs[wal].recs \in Seq(Entry)
    BY <1>1, <1>3 DEF Data, LogOpen, Working, At
  <2>2. wal \in DOMAIN logs' /\ logs'[wal].recs \in Seq(Entry)
    BY <1>4, <2>1 DEF HeldIn
  <2> QED BY <1>2, <2>1, <2>2 DEF LogOpen
<1> QED BY <1>5, <1>6, <1>10, <1>11, <1>12, <1>13, <1>14 DEF Data, Steady

LEMMA OpenLogData ==
  ASSUME Typed, Inner, Data, OpenLog
  PROVE  Data'
<1>1. \/ pc[1] = "create" /\ pc[2] = "log" /\ pc' = Running /\ pc'[1] = "running" /\ pc'[2] = ""
      \/ pc[1] = "recover" /\ pc[2] = "open" /\ pc'[1] = "recover" /\ pc'[2] = "clean"
  <2>1. CASE pc = <<"create", "log">>
    BY <2>1 DEF OpenLog, Running
  <2>2. CASE pc = <<"recover", "open">>
    BY <2>2 DEF OpenLog
  <2> QED BY <2>1, <2>2 DEF OpenLog
<1>2. /\ logs' = WithLog(wal)
      /\ UNCHANGED <<dir, manifest, ssts, sync, mem, frozen, live, wal, lastSeq, nextNum, edit, issued>>
  BY DEF OpenLog, memory, ghosts
<1>3. pc # Closed /\ pc' # Closed /\ ~ Committing /\ ~ Committing'
  BY <1>1, OpenSteps DEF Committing, Editing
<1>4. /\ DOMAIN logs' = DOMAIN logs \cup {wal}
      /\ \A n \in DOMAIN logs' : logs'[n].recs = HeldIn(logs, n)
  BY <1>2, WithLogKeeps
<1>5. Steady'
  <2>1. nextNum' \in Nat /\ nextNum' >= nextNum
    BY <1>2 DEF Typed, MemoryTyped
  <2> QED BY <1>2, <1>3, <1>4, <2>1, LatestIsNat, SteadyStep
<1>6. MemIsLog' /\ Counted'
  BY <1>1, <1>2, <1>3, <1>4, SameLogStep DEF At
<1>7. HasName' /\ NoLogYet' /\ Founded'
  <2>1. dir = "named"
    BY <1>1, <1>3 DEF Data, HasName, At
  <2> QED BY <1>1, <1>2, <2>1 DEF Data, HasName, NoLogYet, Founded, At
<1>8. Settled'
  <2>1. CASE pc[1] = "create"
    BY <1>1, <1>2, <2>1 DEF Data, Settled, At
  <2>2. CASE pc[1] = "recover"
    BY <1>1, <1>2, <2>2 DEF Settled, Working, At
  <2> QED BY <1>1, <2>1, <2>2
<1>9. EditShape' /\ NextLog'
  BY <1>1, <1>2 DEF Data, EditShape, NextLog, At
<1>10. SstWritten' /\ FreshEverywhere'
  BY <1>1, <1>2 DEF SstWritten, FreshEverywhere, At
<1>11. LogOpen'
  <2>1. wal # Unset
    BY <1>1, <1>3 DEF Data, LogOpen, At
  <2>2. HeldIn(logs, wal) = <<>>
    <3>1. CASE pc[1] = "create"
      BY <1>1, <3>1 DEF Data, NoLogYet, HeldIn
    <3>2. CASE pc[1] = "recover"
      BY <1>1, <3>2 DEF Data, NextLog, At
    <3> QED BY <1>1, <3>1, <3>2
  <2>3. wal \in DOMAIN logs' /\ logs'[wal].recs = <<>> /\ <<>> \in Seq(Entry)
    BY <1>4, <2>2, EmptySeq
  <2> QED BY <1>2, <2>1, <2>3 DEF LogOpen
<1> QED BY <1>5, <1>6, <1>7, <1>8, <1>9, <1>10, <1>11 DEF Data, Steady

\* Writing an SSTable under a number that nothing names changes no recovery.
LEMMA WriteSstData ==
  ASSUME Typed, Inner, Data, WriteSst
  PROVE  Data'
<1> DEFINE written == IF pc[1] = "compact" THEN EntriesOf(edit.del) ELSE mem \cup frozen
<1>1. /\ pc[2] = "sst" /\ pc'[1] = pc[1] /\ pc[1] \in {"recover", "flush", "compact"}
      /\ pc[1] = "compact" => pc'[2] = "append" /\ UNCHANGED <<edit, nextNum>>
      /\ pc[1] # "compact" => /\ pc'[2] = "log" /\ edit' = [edit EXCEPT !.log = nextNum]
                              /\ nextNum' = nextNum + 1
  <2>1. pc[2] = "sst" /\ pc[1] \in {"recover", "flush", "compact"}
    BY StepsShape DEF WriteSst, Typed
  <2>2. pc[1] = "compact" => pc' = <<"compact", "append">> /\ UNCHANGED <<edit, nextNum>>
    BY DEF WriteSst
  <2>3. pc[1] # "compact" => /\ pc' = <<pc[1], "log">> /\ edit' = [edit EXCEPT !.log = nextNum]
                              /\ nextNum' = nextNum + 1
    BY DEF WriteSst
  <2> QED BY <2>1, <2>2, <2>3
<1>2. /\ ssts' = [n \in DOMAIN ssts \cup edit.add |-> IF n \in edit.add THEN written ELSE ssts[n]]
      /\ UNCHANGED <<dir, manifest, logs, sync, mem, frozen, live, wal, lastSeq, issued>>
  BY DEF WriteSst, ghosts
<1>3. pc # Closed /\ pc' # Closed /\ ~ Committing /\ ~ Committing'
  BY <1>1, OpenSteps DEF Committing
<1> HIDE DEF written
<1>4. \A nums : edit.add \cap nums = {} => Content(ssts', nums) = Content(ssts, nums)
  <2> TAKE nums
  <2> SUFFICES ASSUME edit.add \cap nums = {} PROVE Content(ssts', nums) = Content(ssts, nums)
    OBVIOUS
  <2>1. nums \cap DOMAIN ssts' = nums \cap DOMAIN ssts
    BY <1>2
  <2>2. \A n \in nums \cap DOMAIN ssts : ssts'[n] = ssts[n]
    BY <1>2
  <2> QED BY <2>1, <2>2 DEF Content
<1>5. Content(ssts', edit.add) = written
  <2>1. edit.add # {}
    BY <1>1 DEF Data, EditShape
  <2>2. edit.add \cap DOMAIN ssts' = edit.add /\ \A n \in edit.add : ssts'[n] = written
    BY <1>2
  <2> QED BY <2>1, <2>2 DEF Content
<1>6. \A n \in DOMAIN logs' : logs'[n].recs = HeldIn(logs, n)
  BY <1>2 DEF HeldIn
<1>7. Steady'
  <2>1. nextNum' \in Nat /\ nextNum' >= nextNum
    BY <1>1 DEF Typed, MemoryTyped
  <2>2. \A edits \in CutsOf(manifest) :
          Content(ssts', LiveAfter(edits)) = Content(ssts, LiveAfter(edits))
    BY <1>1, <1>4 DEF Data, FreshEverywhere
  <2> QED BY <1>2, <1>3, <1>6, <2>1, <2>2, LatestIsNat, SteadyStep
<1>8. MemIsLog' /\ Counted'
  BY <1>1, <1>2, <1>3, <1>6, SameLogStep DEF At
<1>9. edit \in Edit /\ nextNum \in Nat
  BY DEF Typed, MemoryTyped
<1>10. /\ edit'.add = edit.add /\ edit'.del = edit.del
       /\ pc[1] # "compact" => edit'.log = nextNum
  BY <1>1, <1>9 DEF Edit
<1>11. HasName' /\ NoLogYet' /\ Founded' /\ Settled'
  <2>1. dir = "named"
    BY <1>1, <1>3 DEF Data, HasName, At
  <2> QED BY <1>1, <1>2, <2>1 DEF Data, HasName, NoLogYet, Founded, Settled, Working, At
<1>12. EditShape'
  <2>1. nextNum # Unset
    <3>1. Latest(manifest.recs, "next") <= nextNum
      BY <1>3 DEF Data, NextKnown
    <3>2. Latest(manifest.recs, "next") # Unset
      <4>1. manifest.recs \in CutsOf(manifest) /\ manifest.recs # <<>>
        <5>1. dir = "named" /\ manifest.synced > 0
          BY <1>1, <1>3 DEF Data, HasName, Founded, At
        <5> QED BY <5>1, CutsTyped DEF Inner
      <4> QED BY <4>1 DEF Data, CutsSuffice, Sufficient
    <3> QED BY <1>9, <3>1, <3>2, LatestIsNat DEF Unset
  <2> QED BY <1>1, <1>2, <1>10, <2>1 DEF Data, EditShape, At
<1>13. NextLog'
  <2> SUFFICES ASSUME pc[1] # "compact" PROVE HeldIn(logs', edit'.log) = <<>>
    BY <1>1 DEF NextLog, At
  <2> QED BY <1>2, <1>3, <1>9, <1>10 DEF Data, EmptyAhead, HeldIn
<1>14. LogOpen'
  BY <1>1, <1>2, <1>3 DEF Data, LogOpen, Working, At
<1>15. SstWritten'
  <2>1. CASE pc[1] = "compact"
    <3>1. written = Content(ssts, edit.del)
      BY <2>1 DEF written, EntriesOf, Content
    <3>2. edit.add \cap edit.del = {}
      BY <1>1, <2>1 DEF Data, EditShape, Inner, Fresh
    <3>3. Content(ssts', edit.add) = Content(ssts', edit.del)
      BY <1>4, <1>5, <3>1, <3>2
    <3> QED BY <1>1, <2>1, <1>10, <3>3 DEF SstWritten, At
  <2>2. CASE pc[1] # "compact"
    BY <1>1, <1>2, <1>5, <1>10, <2>2 DEF SstWritten, At, written
  <2> QED BY <2>1, <2>2
<1>16. FreshEverywhere'
  BY <1>1 DEF FreshEverywhere
<1> QED BY <1>7, <1>8, <1>11, <1>12, <1>13, <1>14, <1>15, <1>16 DEF Data, Steady

\* A flush or a recovery moves the entries of the log into an SSTable, and the sequence
\* number of its edit takes the place of theirs.
LEMMA LogMoved ==
  ASSUME Typed, Inner, Data, At({"recover", "flush"}, {"append"})
  PROVE  /\ Latest(Append(manifest.recs, edit), "seq") = lastSeq
         /\ Dense(Content(ssts, Apply(live, edit)), lastSeq)
         /\ HeldIn(logs, edit.log) = <<>> /\ edit.log # Unset
         /\ Content(ssts, Apply(live, edit)) = Content(ssts, live) \cup EntriesIn(logs, wal)
<1> DEFINE b == Latest(manifest.recs, "seq")
           k == LengthIn(logs, wal)
           T == EntriesIn(logs, wal)
           S == Content(ssts, live)
<1>1. pc # Closed /\ ~ Committing
  <2>1. pc[1] # "closed" /\ pc[2] # "sync"
    BY DEF At
  <2> QED BY <2>1, OpenSteps DEF Committing
<1>2. manifest.recs \in Seq(Edit) /\ edit \in Edit /\ b \in Nat /\ lastSeq \in Nat
  BY LatestIsNat DEF Inner, Whole, Typed, MemoryTyped
<1>3. LiveAfter(manifest.recs) = live /\ Latest(manifest.recs, "log") = wal
  BY <1>1 DEF Inner, Committed
<1>4. Dense(S, b) /\ Chain(HeldIn(logs, wal), b)
  <2>1. manifest.recs \in CutsOf(manifest)
    BY CutsTyped DEF Inner
  <2> QED BY <1>3, <2>1 DEF Data, CutsSuffice, Sufficient
<1>5. /\ k \in Nat /\ T \in SUBSET Entry
      /\ \A e \in T : e.seq \in b + 1 .. b + k
      /\ \A s \in b + 1 .. b + k : \E e \in T : e.seq = s
      /\ \A e, f \in T : e.seq = f.seq => e = f
  <2> HIDE DEF b
  <2> QED BY <1>2, <1>4, ChainedEntries DEF Typed, DiskTyped
<1>6. lastSeq = b + k
  BY <1>1, <1>2, <1>3, <1>5 DEF Data, Counted, At
<1>7. S \in SUBSET Entry
  BY DEF Content, Typed, DiskTyped
<1>8. Dense(S \cup T, lastSeq)
  <2> HIDE DEF b, k, S, T
  <2> QED BY <1>2, <1>4, <1>5, <1>6, <1>7, DenseExtended
<1>9. Content(ssts, edit.add) = T
  BY <1>1 DEF Data, SstWritten, MemIsLog, Pending, At
<1>10. edit.del = {} /\ edit.log # Unset /\ HeldIn(logs, edit.log) = <<>>
  BY DEF Data, EditShape, NextLog, At
<1>11. Content(ssts, Apply(live, edit)) = S \cup T
  <2>1. Apply(live, edit) = live \cup edit.add
    BY <1>10 DEF Apply
  <2>2. Content(ssts, live \cup edit.add) = S \cup Content(ssts, edit.add)
    BY DEF Content
  <2> QED BY <1>9, <2>1, <2>2
<1>12. Latest(Append(manifest.recs, edit), "seq") = IF edit.seq = Unset THEN b ELSE edit.seq
  BY <1>2, LatestOfAppend
<1>13. edit.seq = Unset => lastSeq = b
  <2> SUFFICES ASSUME edit.seq = Unset PROVE lastSeq = b
    OBVIOUS
  <2>1. edit.seq = lastSeq \/ edit.add = {}
    BY DEF Data, EditShape, At
  <2>2. CASE edit.seq = lastSeq
    BY <1>2, <1>5, <1>6, <2>2 DEF Unset
  <2>3. CASE edit.add = {}
    <3>1. T = {}
      BY <1>9, <2>3 DEF Content
    <3>2. k = 0
      <4> HIDE DEF b, k, T
      <4>1. b + 1 .. b + k = {}
        BY <1>5, <3>1
      <4> QED BY <1>2, <1>5, <4>1
    <3> QED BY <1>2, <1>6, <3>2
  <2> QED BY <2>1, <2>2, <2>3
<1>14. edit.seq # Unset => edit.seq = lastSeq
  BY DEF Data, EditShape, At
<1>15. Content(ssts, Apply(live, edit)) = Content(ssts, live) \cup EntriesIn(logs, wal)
  BY <1>11
<1> HIDE DEF b, S, T
<1> QED BY <1>8, <1>10, <1>11, <1>12, <1>13, <1>14, <1>15

\* A creation or a compaction leaves every entry where a recovery finds it.
LEMMA NothingMoved ==
  ASSUME Typed, Inner, Data, At({"create", "compact"}, {"append"})
  PROVE  LET edits == Append(manifest.recs, edit)
         IN /\ Latest(edits, "seq") = Latest(manifest.recs, "seq")
            /\ Content(ssts, Apply(live, edit)) = Content(ssts, live)
            /\ HeldIn(logs, Latest(edits, "log")) = HeldIn(logs, Latest(manifest.recs, "log"))
            /\ LengthIn(logs, Latest(edits, "log")) = LengthIn(logs, Latest(manifest.recs, "log"))
            /\ Latest(edits, "log") # Unset
            /\ DOMAIN logs = {} \/ Latest(edits, "log") = Latest(manifest.recs, "log")
<1>1. pc # Closed /\ ~ Committing
  <2>1. pc[1] # "closed" /\ pc[2] # "sync"
    BY DEF At
  <2> QED BY <2>1, OpenSteps DEF Committing
<1>2. manifest.recs \in Seq(Edit) /\ edit \in Edit
  BY DEF Inner, Whole, Typed, MemoryTyped
<1>3. Latest(manifest.recs, "log") = wal
  BY <1>1 DEF Inner, Committed
<1>4. \A field \in {"log", "seq"} :
        Latest(Append(manifest.recs, edit), field)
          = IF edit[field] = Unset THEN Latest(manifest.recs, field) ELSE edit[field]
  BY <1>2, LatestOfAppend
<1>5. edit.seq = Unset
  BY DEF Data, EditShape, At
<1>6. Content(ssts, Apply(live, edit)) = Content(ssts, live)
  <2>1. Content(ssts, edit.add) = Content(ssts, edit.del) /\ edit.del \subseteq live
    <3>1. CASE pc[1] = "create"
      BY <3>1 DEF Data, EditShape
    <3>2. CASE pc[1] = "compact"
      BY <3>2 DEF Data, EditShape, SstWritten, At
    <3> QED BY <3>1, <3>2 DEF At
  <2>2. Content(ssts, (live \ edit.del) \cup edit.add) = Content(ssts, live \ edit.del) \cup Content(ssts, edit.add)
    BY DEF Content
  <2>3. Content(ssts, live \ edit.del) \cup Content(ssts, edit.del) = Content(ssts, (live \ edit.del) \cup edit.del)
    BY DEF Content
  <2>4. (live \ edit.del) \cup edit.del = live
    BY <2>1
  <2> QED BY <2>1, <2>2, <2>3, <2>4 DEF Apply
<1>7. CASE pc[1] = "compact"
  <2>1. edit.log = Unset /\ wal # Unset
    BY <1>1, <1>7 DEF Data, EditShape, LogOpen, At
  <2> QED BY <1>3, <1>4, <1>5, <1>6, <2>1
<1>8. CASE pc[1] = "create"
  <2>1. DOMAIN logs = {} /\ edit.log # Unset
    BY <1>8 DEF Data, NoLogYet, EditShape, At
  <2>2. \A m, n : HeldIn(logs, m) = HeldIn(logs, n) /\ LengthIn(logs, m) = LengthIn(logs, n)
    BY <2>1 DEF HeldIn, LengthIn
  <2> QED BY <1>4, <1>5, <1>6, <2>1, <2>2
<1> QED BY <1>7, <1>8 DEF At

\* The manifest with the new edit, before it is synced: a crash may leave either.
LEMMA AppendEditData ==
  ASSUME Typed, Inner, Data, AppendEdit
  PROVE  Data'
<1> DEFINE recs == manifest.recs
           edits == Append(recs, edit)
<1>1. /\ pc[2] = "append" /\ pc[1] \in Editing /\ pc'[1] = pc[1] /\ pc'[2] = "sync"
      /\ UNCHANGED <<dir, logs, ssts, mem, frozen, live, wal, lastSeq, nextNum, edit, issued>>
      /\ manifest' = Appended(manifest, edit)
  <2>1. pc[2] = "append" /\ pc[1] \in Editing /\ pc' = <<pc[1], "sync">>
    BY StepsShape DEF AppendEdit, Typed, Editing
  <2> QED BY <2>1 DEF AppendEdit, memory, ghosts
<1>2. pc # Closed /\ pc' # Closed /\ ~ Committing /\ Committing'
  BY <1>1, OpenSteps DEF Committing, Editing
<1>3. recs \in Seq(Edit) /\ edit \in Edit /\ nextNum \in Nat /\ edit.next \in Nat
  BY DEF Inner, Whole, Typed, MemoryTyped, Edit
<1>4. LiveAfter(recs) = live /\ Latest(recs, "log") = wal
  BY <1>2 DEF Inner, Committed
<1>5. manifest'.recs = edits /\ manifest'.synced = manifest.synced
  BY <1>1 DEF Appended, Typed, DiskTyped, ManifestFile
<1>6. CutsOf(manifest') = CutsOf(manifest) \cup {edits}
  BY <1>1, <1>3, CutsOfAppended DEF Inner
<1>7. edit.next # Unset /\ edit.next >= nextNum
  BY <1>1 DEF Inner, Ready
<1>8. /\ LiveAfter(edits) = Apply(live, edit) /\ Latest(edits, "next") = edit.next
  BY <1>3, <1>4, <1>7, LiveOfAppend, LatestOfAppend
<1>9. edits # <<>>
  BY <1>3, AppendProperties
<1>10. Latest(recs, "next") <= edit.next
  BY <1>2, <1>3, <1>7, LatestIsNat DEF Data, NextKnown
<1>11. \A n \in DOMAIN logs : n >= edit.next => logs[n].recs = <<>>
  <2> SUFFICES ASSUME NEW n \in DOMAIN logs, n >= edit.next PROVE logs[n].recs = <<>>
    OBVIOUS
  <2>1. n \in Nat
    BY DEF Typed, DiskTyped
  <2>2. n >= nextNum
    BY <1>3, <1>7, <2>1
  <2> QED BY <1>2, <2>2 DEF Data, EmptyAhead
<1>12. recs \in CutsOf(manifest) /\ \A cut \in CutsOf(manifest) : cut \in Seq(Edit)
  BY CutsTyped DEF Inner
<1>13. /\ Dense(Content(ssts, LiveAfter(edits)), Latest(edits, "seq"))
       /\ Chain(HeldIn(logs, Latest(edits, "log")), Latest(edits, "seq"))
       /\ Latest(edits, "log") # Unset
       /\ lastSeq = Latest(edits, "seq") + LengthIn(logs, Latest(edits, "log"))
  <2>1. CASE pc[1] \in {"recover", "flush"}
    <3>1. At({"recover", "flush"}, {"append"})
      BY <1>1, <2>1 DEF At
    <3>2. /\ Latest(edits, "seq") = lastSeq /\ Dense(Content(ssts, Apply(live, edit)), lastSeq)
          /\ HeldIn(logs, edit.log) = <<>> /\ edit.log # Unset
      BY <3>1, LogMoved
    <3>3. Latest(edits, "log") = edit.log
      BY <1>3, <3>2, LatestOfAppend
    <3>4. Chain(<<>>, lastSeq)
      BY EmptySeq DEF Chain
    <3>5. LengthIn(logs, edit.log) = 0
      BY <3>2, EmptyReads DEF LengthIn, HeldIn
    <3>6. lastSeq \in Nat
      BY DEF Typed, MemoryTyped
    <3> QED BY <1>8, <3>2, <3>3, <3>4, <3>5, <3>6
  <2>2. CASE pc[1] \in {"create", "compact"}
    <3>1. At({"create", "compact"}, {"append"})
      BY <1>1, <2>2 DEF At
    <3>2. /\ Latest(edits, "seq") = Latest(recs, "seq")
          /\ Content(ssts, Apply(live, edit)) = Content(ssts, live)
          /\ HeldIn(logs, Latest(edits, "log")) = HeldIn(logs, Latest(recs, "log"))
          /\ LengthIn(logs, Latest(edits, "log")) = LengthIn(logs, Latest(recs, "log"))
          /\ Latest(edits, "log") # Unset
      BY <3>1, NothingMoved
    <3>3. /\ Dense(Content(ssts, live), Latest(recs, "seq"))
          /\ Chain(HeldIn(logs, Latest(recs, "log")), Latest(recs, "seq"))
      BY <1>4, <1>12 DEF Data, CutsSuffice, Sufficient
    <3>4. lastSeq = Latest(recs, "seq") + LengthIn(logs, Latest(recs, "log"))
      <4>1. lastSeq + 0 = Latest(recs, "seq") + LengthIn(logs, Latest(recs, "log"))
        BY <1>1, <1>2 DEF Data, Counted, At
      <4> QED BY <4>1 DEF Typed, MemoryTyped
    <3> QED BY <1>8, <3>2, <3>3, <3>4
  <2> QED BY <1>1, <2>1, <2>2 DEF Editing
<1>14. CutsSuffice'
  <2> SUFFICES ASSUME NEW cut \in CutsOf(manifest')
               PROVE  Sufficient(cut, logs, ssts, edit.next)
    BY <1>1, <1>5, <1>8 DEF CutsSuffice
  <2>1. CASE cut = edits
    <3>1. Sufficient(edits, logs, ssts, edit.next)
      <4> HIDE DEF edits
      <4> QED BY <1>3, <1>7, <1>8, <1>11, <1>13 DEF Sufficient
    <3> QED BY <2>1, <3>1
  <2>2. CASE cut \in CutsOf(manifest)
    <3>1. Sufficient(cut, logs, ssts, Latest(recs, "next"))
      BY <2>2 DEF Data, CutsSuffice
    <3>2. cut \in Seq(Edit)
      BY <1>12, <2>2
    <3>3. Latest(cut, "next") \in Nat /\ Latest(recs, "next") \in Nat
      BY <1>3, <3>2, LatestType
    <3>4. Latest(cut, "next") <= edit.next
      BY <1>3, <1>10, <3>1, <3>3 DEF Sufficient
    <3> QED BY <3>1, <3>4 DEF Sufficient
  <2> QED BY <1>6, <2>1, <2>2
<1>15. NothingHeld' /\ NextKnown' /\ EmptyAhead'
  BY <1>1, <1>2, <1>5, <1>8 DEF Data, NothingHeld, NextKnown, EmptyAhead
<1>16. HasName' /\ NoLogYet' /\ Founded'
  <2>1. pc[1] = "create" \/ dir = "named"
    BY <1>1, <1>2 DEF Data, HasName, At
  <2> QED BY <1>1, <1>5, <2>1 DEF Data, HasName, NoLogYet, Founded, At
<1>17. EditShape' /\ NextLog'
  BY <1>1 DEF Data, EditShape, NextLog, At
<1>18. Settled' /\ FreshEverywhere'
  BY <1>1 DEF Settled, FreshEverywhere, Working, At, Editing
<1>19. LogOpen'
  BY <1>1, <1>2 DEF Data, LogOpen, Working, At, Editing
<1>20. MemIsLog'
  BY <1>1, <1>2 DEF Data, MemIsLog, Pending, At, Editing
<1>21. SstWritten'
  BY <1>1 DEF Data, SstWritten, At
<1>22. Counted'
  <2>1. lastSeq + 0 = Latest(edits, "seq") + LengthIn(logs, Latest(edits, "log"))
    BY <1>13 DEF Typed, MemoryTyped
  <2> QED BY <1>1, <1>5, <2>1 DEF Counted, At, Editing
<1> QED BY <1>14, <1>15, <1>16, <1>17, <1>18, <1>19, <1>20, <1>21, <1>22 DEF Data

\* The commit: what was appended is all that a crash can leave now.
LEMMA SyncEditData ==
  ASSUME Typed, Inner, Data, SyncEdit
  PROVE  Data'
<1> DEFINE recs == manifest.recs
<1>1. /\ pc[2] = "sync" /\ pc[1] \in Editing
      /\ pc[1] = "create" => pc'[1] = "create" /\ pc'[2] = "current"
      /\ pc[1] = "recover" => pc'[1] = "recover" /\ pc'[2] = "open"
      /\ pc[1] \in {"flush", "compact"} => pc'[1] = "running" /\ pc'[2] = ""
  <2>1. pc[2] = "sync" /\ pc[1] \in Editing
    BY StepsShape DEF SyncEdit, Typed, Editing
  <2>2. pc' = AfterCommit[pc[1]]
    BY DEF SyncEdit
  <2>3. /\ AfterCommit["create"] = <<"create", "current">> /\ AfterCommit["recover"] = <<"recover", "open">>
        /\ AfterCommit["flush"] = <<"running", "">> /\ AfterCommit["compact"] = <<"running", "">>
    BY DEF AfterCommit, Running
  <2>4. /\ pc[1] = "create" => pc' = <<"create", "current">>
        /\ pc[1] = "recover" => pc' = <<"recover", "open">>
        /\ pc[1] \in {"flush", "compact"} => pc' = <<"running", "">>
    BY <2>2, <2>3
  <2>5. pc[1] = "create" => pc'[1] = "create" /\ pc'[2] = "current"
    BY <2>4
  <2>6. pc[1] = "recover" => pc'[1] = "recover" /\ pc'[2] = "open"
    BY <2>4
  <2>7. pc[1] \in {"flush", "compact"} => pc'[1] = "running" /\ pc'[2] = ""
    <3> SUFFICES ASSUME pc[1] \in {"flush", "compact"} PROVE pc'[1] = "running" /\ pc'[2] = ""
      OBVIOUS
    <3>1. pc' = <<"running", "">>
      BY <2>4
    <3> QED BY <3>1
  <2> QED BY <2>1, <2>5, <2>6, <2>7
<1>2. /\ manifest' = Synced(manifest) /\ live' = Apply(live, edit)
      /\ wal' = IF edit.log = Unset THEN wal ELSE edit.log
      /\ mem' = IF pc[1] = "recover" THEN {} ELSE mem
      /\ frozen' = {} /\ edit' = NoEdit
      /\ nextNum' = IF pc[1] = "compact" THEN edit.next ELSE nextNum
      /\ UNCHANGED <<dir, logs, ssts, lastSeq, issued>>
  BY DEF SyncEdit, NumbersAfter
<1>3. pc # Closed /\ pc' # Closed /\ Committing /\ ~ Committing'
  BY <1>1, OpenSteps DEF Committing, Editing
<1>4. manifest'.recs = recs /\ manifest'.synced = Len(recs)
  BY <1>2 DEF Synced, Typed, DiskTyped, ManifestFile
<1>5. CutsOf(manifest') = {recs} /\ recs \in CutsOf(manifest)
  BY <1>2, CutsOfSynced DEF Inner
<1>6. recs \in Seq(Edit) /\ Len(recs) \in Nat /\ edit \in Edit /\ nextNum \in Nat /\ edit.next \in Nat
  BY LenProperties DEF Inner, Whole, Typed, MemoryTyped, Edit
<1>7. Latest(recs, "next") = edit.next
  BY <1>3 DEF Data, NextKnown
<1>8. edit.next # Unset /\ edit.next >= nextNum /\ (pc[1] = "compact" \/ edit.next = nextNum)
  BY <1>1 DEF Inner, Ready
<1>9. nextNum' = edit.next
  BY <1>2, <1>8
<1>10. Len(recs) > 0
  <2>1. recs # <<>>
    BY <1>7, <1>8, ReplayOfNothing
  <2> QED BY <1>6, <2>1, EmptySeq
<1>11. CutsSuffice'
  BY <1>2, <1>4, <1>5 DEF Data, CutsSuffice
<1>12. NothingHeld' /\ NextKnown'
  BY <1>3, <1>4, <1>6, <1>7, <1>9 DEF NothingHeld, NextKnown
<1>13. EmptyAhead'
  <2> SUFFICES ASSUME NEW n \in DOMAIN logs, n >= edit.next PROVE logs[n].recs = <<>>
    BY <1>2, <1>9 DEF EmptyAhead
  <2>1. n \in Nat
    BY DEF Typed, DiskTyped
  <2>2. n >= nextNum
    BY <1>6, <1>8, <2>1
  <2> QED BY <1>3, <2>2 DEF Data, EmptyAhead
<1>14. HasName' /\ NoLogYet' /\ Founded'
  <2>1. pc[1] = "create" \/ dir = "named"
    BY <1>1, <1>3 DEF Data, HasName, At
  <2> QED BY <1>1, <1>2, <1>4, <1>10, <2>1 DEF Data, HasName, NoLogYet, Founded, At, Editing
<1>15. EditShape'
  BY <1>1, <1>2 DEF EditShape, At, Editing, NoEdit, Unset
<1>16. Settled'
  BY <1>4 DEF Settled
<1>17. pc[1] # "compact" => edit.log # Unset /\ HeldIn(logs, edit.log) = <<>>
  <2>1. CASE pc[1] = "create"
    BY <1>1, <2>1 DEF Data, EditShape, NoLogYet, HeldIn, At
  <2>2. CASE pc[1] \in {"recover", "flush"}
    BY <1>1, <2>2 DEF Data, EditShape, NextLog, At
  <2> QED BY <1>1, <2>1, <2>2 DEF Editing
<1>18. NextLog'
  BY <1>1, <1>2, <1>17 DEF NextLog, At, Editing
<1>19. LogOpen'
  <2>1. wal' # Unset
    BY <1>1, <1>2, <1>3, <1>17 DEF Data, LogOpen, At
  <2>2. CASE pc[1] = "flush"
    <3>1. edit.log \in DOMAIN logs
      BY <1>1, <2>2 DEF Data, NextLog, At
    <3>2. logs[edit.log].recs = <<>> /\ <<>> \in Seq(Entry)
      BY <1>17, <2>2, <3>1, EmptySeq DEF HeldIn
    <3> QED BY <1>2, <1>17, <2>1, <2>2, <3>1, <3>2 DEF LogOpen
  <2>3. CASE pc[1] = "compact"
    <3>1. wal' = wal
      BY <1>1, <1>2, <2>3 DEF Data, EditShape
    <3>2. wal \in DOMAIN logs /\ logs[wal].recs \in Seq(Entry)
      BY <1>1, <2>3 DEF Data, LogOpen, At
    <3> QED BY <1>2, <2>1, <3>1, <3>2 DEF LogOpen
  <2>4. CASE pc[1] \in {"create", "recover"}
    BY <1>1, <2>1, <2>4 DEF LogOpen, Working, At
  <2> QED BY <1>1, <2>2, <2>3, <2>4 DEF Editing
<1>20. MemIsLog'
  <2>1. Pending = {} /\ Pending' = {}
    BY <1>1 DEF Pending, At, Editing
  <2>2. mem \cup frozen = EntriesIn(logs, wal)
    BY <1>3, <2>1 DEF Data, MemIsLog
  <2>3. pc[1] # "compact" => EntriesIn(logs, edit.log) = {}
    BY <1>17, EmptyReads DEF EntriesIn, HeldIn
  <2>4. mem' = EntriesIn(logs, wal')
    <3>1. CASE pc[1] = "create"
      <4>1. DOMAIN logs = {}
        BY <3>1 DEF Data, NoLogYet
      <4>2. mem = {}
        BY <2>2, <4>1 DEF EntriesIn
      <4> QED BY <1>2, <3>1, <4>1, <4>2 DEF EntriesIn
    <3>2. CASE pc[1] = "recover"
      BY <1>2, <1>17, <2>3, <3>2
    <3>3. CASE pc[1] = "flush"
      BY <1>2, <1>3, <1>17, <2>3, <3>3 DEF Data, MemIsLog
    <3>4. CASE pc[1] = "compact"
      <4>1. frozen = {}
        BY <1>3, <3>4 DEF Data, MemIsLog
      <4>2. edit.log = Unset
        BY <3>4 DEF Data, EditShape
      <4> QED BY <1>2, <2>2, <3>4, <4>1, <4>2
    <3> QED BY <1>1, <3>1, <3>2, <3>3, <3>4 DEF Editing
  <2> QED BY <1>1, <1>2, <2>1, <2>4 DEF MemIsLog, Editing
<1>21. SstWritten' /\ FreshEverywhere'
  BY <1>1 DEF SstWritten, FreshEverywhere, At, Editing
<1>22. Counted'
  <2>1. ~ At({"put"}, {"sync"}) /\ ~ At({"put"}, {"sync"})'
    BY <1>1 DEF At, Editing
  <2> QED BY <1>2, <1>3, <1>4, <2>1 DEF Data, Counted
<1> QED BY <1>11, <1>12, <1>13, <1>14, <1>15, <1>16, <1>18, <1>19, <1>20, <1>21, <1>22 DEF Data

LEMMA OpenNewData ==
  ASSUME Typed, Inner, Data, OpenNew
  PROVE  Data'
<1>1. /\ pc = Closed /\ dir = "empty" /\ dir' = "unnamed" /\ pc'[1] = "create" /\ pc'[2] = "append"
      /\ nextNum' = 3 /\ edit' = [NoEdit EXCEPT !.log = 2, !.next = 3]
      /\ UNCHANGED <<manifest, logs, ssts, mem, frozen, live, wal, lastSeq, issued>>
  BY DEF OpenNew
<1>2. pc' # Closed /\ ~ Committing'
  BY <1>1, OpenSteps DEF Committing
<1>3. mem = {} /\ frozen = {} /\ lastSeq = 0
  BY <1>1 DEF Data, NothingHeld
<1>4. manifest.recs = <<>> /\ DOMAIN logs = {}
  BY <1>1 DEF Inner, NothingYet, Data, NoLogYet
<1>5. /\ \A n : EntriesIn(logs, n) = {} /\ LengthIn(logs, n) = 0
      /\ \A field \in {"log", "next", "seq"} : Latest(manifest.recs, field) = 0
  BY <1>4, ReplayOfNothing DEF EntriesIn, LengthIn, Unset
<1>6. CutsSuffice'
  BY <1>1 DEF Data, CutsSuffice
<1>7. HasName' /\ NoLogYet' /\ Founded' /\ NothingHeld'
  BY <1>1, <1>2, <1>4 DEF HasName, NoLogYet, Founded, NothingHeld, At
<1>8. NextKnown' /\ EmptyAhead'
  BY <1>1, <1>2, <1>4, <1>5 DEF NextKnown, EmptyAhead
<1>9. EditShape'
  BY <1>1 DEF EditShape, At, NoEdit, Unset
<1>10. NextLog' /\ Settled' /\ LogOpen' /\ FreshEverywhere'
  BY <1>1 DEF NextLog, Settled, Working, LogOpen, FreshEverywhere, At
<1>11. MemIsLog'
  BY <1>1, <1>3, <1>5 DEF MemIsLog, Pending, At
<1>12. SstWritten'
  <2>1. edit'.add = {} /\ Content(ssts, {}) = {}
    BY <1>1 DEF NoEdit, Content
  <2> QED BY <1>1, <1>3, <2>1 DEF SstWritten, At
<1>13. Counted'
  BY <1>1, <1>3, <1>5 DEF Counted, At
<1> QED BY <1>6, <1>7, <1>8, <1>9, <1>10, <1>11, <1>12, <1>13 DEF Data

\* An entry appended to the log is the next one that a recovery finds.
LEMMA EntryLogged ==
  ASSUME Typed, Inner, Data, AppendWrite
  PROVE  /\ CutsSuffice' /\ DOMAIN logs' = DOMAIN logs
         /\ \A n \in DOMAIN logs : n >= nextNum => logs'[n].recs = <<>>
         /\ wal \in DOMAIN logs' /\ logs'[wal].recs \in Seq(Entry)
         /\ EntriesIn(logs', wal) = mem \cup {NewEntry} /\ frozen = {}
         /\ lastSeq + 1 = Latest(manifest.recs, "seq") + LengthIn(logs', wal)
<1> DEFINE recs == manifest.recs
           b == Latest(recs, "seq")
           f == logs[wal]
           g == Appended(f, NewEntry)
<1>1. /\ pc[1] = "put" /\ pc[2] = "append" /\ logs' = [logs EXCEPT ![wal] = g]
      /\ UNCHANGED <<manifest, ssts>>
  <2>1. pc = <<"put", "append">>
    BY DEF AppendWrite
  <2> QED BY <2>1 DEF AppendWrite
<1>2. pc # Closed /\ ~ Committing
  BY <1>1, OpenSteps DEF Committing
<1>3. wal \in DOMAIN logs /\ f.recs \in Seq(Entry) /\ wal # Unset
  BY <1>1, <1>2 DEF Data, LogOpen, Working, At
<1>4. f \in LogFile /\ NewEntry \in Entry /\ NewEntry.seq = lastSeq + 1
  <2>1. f \in LogFile
    BY <1>3 DEF Typed, DiskTyped
  <2>2. lastSeq \in Nat /\ issued \in Nat
    BY DEF Typed, MemoryTyped, GhostsTyped
  <2> QED BY <2>1, <2>2 DEF NewEntry, Entry
<1>5. /\ g.recs = Append(f.recs, NewEntry) /\ g.recs \in Seq(Entry)
      /\ RecordsIn(g) = RecordsIn(f) \cup {NewEntry}
      /\ Len(Readable(g)) = Len(Readable(f)) + 1 /\ Readable(f) = f.recs
  <2> HIDE DEF f
  <2> QED BY <1>3, <1>4, EntryAppended
<1>6. DOMAIN logs' = DOMAIN logs /\ logs'[wal] = g /\ \A n \in DOMAIN logs : n # wal => logs'[n] = logs[n]
  BY <1>1, <1>3
<1>7. CutsOf(manifest) = {recs} /\ recs \in CutsOf(manifest)
  <2>1. manifest.synced = Len(recs)
    BY <1>1 DEF Data, Settled, Working, At
  <2> QED BY <2>1, CutsTyped DEF Inner
<1>8. LiveAfter(recs) = live /\ Latest(recs, "log") = wal /\ b \in Nat /\ lastSeq \in Nat
  BY <1>2, LatestIsNat DEF Inner, Committed, Typed, MemoryTyped
<1>9. Sufficient(recs, logs, ssts, Latest(recs, "next"))
  BY <1>7 DEF Data, CutsSuffice
<1>10. wal < Latest(recs, "next") /\ wal < nextNum
  <2>1. Len(recs) \in manifest.synced .. Len(recs) /\ SubSeq(recs, 1, Len(recs)) = recs
    <3>1. recs \in Seq(Edit) /\ Len(recs) \in Nat /\ manifest.synced \in Nat /\ manifest.synced <= Len(recs)
      BY LenProperties DEF Inner, Whole, Typed, DiskTyped, ManifestFile, Sound
    <3> QED BY <3>1, SubSeqFull
  <2>2. Consistent(recs)
    BY <2>1 DEF Inner, PrefixesConsistent
  <2> QED BY <1>2, <1>3, <1>8, <2>2 DEF Consistent, Inner, Below
<1>11. LengthIn(logs, wal) = Len(f.recs) /\ EntriesIn(logs, wal) = RecordsIn(f)
  BY <1>3, <1>5 DEF LengthIn, EntriesIn
<1>12. lastSeq = b + Len(f.recs)
  <2>1. lastSeq + 0 = b + LengthIn(logs, wal)
    BY <1>1, <1>2, <1>8 DEF Data, Counted, At
  <2> QED BY <1>8, <1>11, <2>1
<1>13. LengthIn(logs', wal) = Len(f.recs) + 1 /\ EntriesIn(logs', wal) = RecordsIn(f) \cup {NewEntry}
  BY <1>3, <1>5, <1>6 DEF LengthIn, EntriesIn
<1>14. mem = RecordsIn(f) /\ frozen = {}
  <2>1. Pending = {} /\ frozen = {}
    BY <1>1, <1>2 DEF Data, MemIsLog, Pending, At
  <2> QED BY <1>2, <1>11, <2>1 DEF Data, MemIsLog
<1>15. Chain(g.recs, b)
  <2>1. Chain(f.recs, b)
    BY <1>3, <1>8, <1>9 DEF Sufficient, HeldIn
  <2>2. NewEntry.seq = b + Len(f.recs) + 1
    BY <1>4, <1>12
  <2> HIDE DEF f, b
  <2> QED BY <1>3, <1>4, <1>5, <1>8, <2>1, <2>2, ChainAppended
<1>16. \A n \in DOMAIN logs : n \in Nat
  BY DEF Typed, DiskTyped
<1>17. \A n \in DOMAIN logs : n >= nextNum => logs'[n].recs = <<>>
  <2> SUFFICES ASSUME NEW n \in DOMAIN logs, n >= nextNum PROVE logs'[n].recs = <<>>
    OBVIOUS
  <2>1. n # wal
    BY <1>8, <1>10, <1>16 DEF Typed, MemoryTyped
  <2> QED BY <1>2, <1>6, <2>1 DEF Data, EmptyAhead
<1>18. Sufficient(recs, logs', ssts, Latest(recs, "next"))
  <2>1. \A n \in DOMAIN logs' : n >= Latest(recs, "next") => logs'[n].recs = <<>>
    <3> SUFFICES ASSUME NEW n \in DOMAIN logs, n >= Latest(recs, "next") PROVE logs'[n].recs = <<>>
      BY <1>6
    <3>1. Latest(recs, "next") \in Nat /\ wal \in Nat
      BY LatestIsNat DEF Typed, MemoryTyped
    <3>2. n # wal
      BY <1>10, <1>16, <3>1
    <3> QED BY <1>6, <1>9, <3>2 DEF Sufficient
  <2>2. HeldIn(logs', wal) = g.recs
    BY <1>3, <1>6 DEF HeldIn
  <2> HIDE DEF g, b
  <2>3. Chain(HeldIn(logs', Latest(recs, "log")), b)
    BY <1>8, <1>15, <2>2
  <2> QED BY <1>9, <2>1, <2>3 DEF Sufficient, b
<1>19. CutsSuffice'
  BY <1>1, <1>7, <1>18 DEF CutsSuffice
<1>20. lastSeq + 1 = b + LengthIn(logs', wal)
  <2>1. Len(f.recs) \in Nat
    BY <1>3, LenProperties
  <2> HIDE DEF b, f
  <2> QED BY <1>8, <1>12, <1>13, <2>1
<1> QED BY <1>3, <1>5, <1>6, <1>13, <1>14, <1>17, <1>19, <1>20

\* A write whose entry the log has: it goes on, or takes the memtable out.
LEMMA TakeData ==
  ASSUME Typed, Inner, Data, At({"put"}, {"append", "sync"}), NEW e \in Entry, Take(e), e.seq = lastSeq + 1,
         UNCHANGED <<dir, manifest, ssts, live, wal>>, CutsSuffice', DOMAIN logs' = DOMAIN logs,
         \A n \in DOMAIN logs : n >= nextNum => logs'[n].recs = <<>>,
         wal \in DOMAIN logs', logs'[wal].recs \in Seq(Entry),
         EntriesIn(logs', wal) = mem \cup {e}, frozen = {},
         lastSeq + 1 = Latest(manifest.recs, "seq") + LengthIn(logs', wal)
  PROVE  Data'
<1>1. pc # Closed /\ ~ Committing
  BY OpenSteps DEF Committing, Editing, At
<1>2. Latest(manifest.recs, "log") = wal
  BY <1>1 DEF Inner, Committed
<1>3. Latest(manifest.recs, "next") <= nextNum /\ Latest(manifest.recs, "next") \in Nat /\ nextNum \in Nat
  BY <1>1, LatestIsNat DEF Data, NextKnown, Typed, MemoryTyped
<1>4. dir = "named" /\ wal # Unset /\ manifest.synced > 0
  BY <1>1 DEF Data, HasName, LogOpen, Founded, At
<1>5. manifest.synced = Len(manifest.recs)
  BY DEF Data, Settled, Working, At
<1>6. lastSeq' + 0 = Latest(manifest.recs, "seq") + LengthIn(logs', wal)
  BY DEF Take, Typed, MemoryTyped
<1>7. ASSUME mem' = mem \cup {e}, pc' = Running, UNCHANGED <<frozen, nextNum, edit>>
      PROVE  Data'
  <2>1. pc'[1] = "running" /\ pc'[2] = ""
    BY <1>7 DEF Running
  <2>2. pc' # Closed /\ ~ Committing'
    BY <2>1, OpenSteps DEF Committing
  <2>3. HasName' /\ NoLogYet' /\ Founded' /\ NothingHeld' /\ Settled'
    BY <1>4, <1>5, <2>1, <2>2 DEF HasName, NoLogYet, Founded, NothingHeld, Settled, At
  <2>4. NextKnown' /\ EmptyAhead'
    BY <1>3, <1>7, <2>2 DEF NextKnown, EmptyAhead
  <2>5. EditShape' /\ NextLog' /\ SstWritten' /\ FreshEverywhere'
    BY <2>1 DEF EditShape, NextLog, SstWritten, FreshEverywhere, At
  <2>6. LogOpen'
    BY <1>4 DEF LogOpen
  <2>7. MemIsLog'
    BY <1>7, <2>1 DEF MemIsLog, Pending, At
  <2>8. Counted'
    BY <1>2, <1>6, <2>1, Zenon DEF Counted, At
  <2> QED BY <2>3, <2>4, <2>5, <2>6, <2>7, <2>8 DEF Data
<1>8. ASSUME frozen' = mem \cup {e}, mem' = {}, pc' = <<"flush", "sst">>,
             edit' = [NoEdit EXCEPT !.add = {nextNum}], nextNum' = nextNum + 1
      PROVE  Data'
  <2>1. pc'[1] = "flush" /\ pc'[2] = "sst"
    BY <1>8
  <2>2. pc' # Closed /\ ~ Committing'
    BY <2>1, OpenSteps DEF Committing
  <2>3. HasName' /\ NoLogYet' /\ Founded' /\ NothingHeld' /\ Settled'
    BY <1>4, <1>5, <2>1, <2>2 DEF HasName, NoLogYet, Founded, NothingHeld, Settled, At
  <2>4. NextKnown'
    BY <1>3, <1>8, <2>2 DEF NextKnown
  <2>5. EmptyAhead'
    <3>1. \A n \in DOMAIN logs : n \in Nat
      BY DEF Typed, DiskTyped
    <3> QED BY <1>3, <1>8, <3>1 DEF EmptyAhead
  <2>6. EditShape'
    BY <1>8, <2>1 DEF EditShape, At, NoEdit
  <2>7. NextLog' /\ SstWritten'
    BY <2>1 DEF NextLog, SstWritten, At
  <2>8. FreshEverywhere'
    <3>1. edit'.add = {nextNum}
      BY <1>8 DEF NoEdit
    <3>2. \A edits \in CutsOf(manifest) : nextNum \notin LiveAfter(edits)
      BY <1>1, NextIsFresh
    <3> QED BY <3>1, <3>2 DEF FreshEverywhere
  <2>9. LogOpen'
    BY <1>4 DEF LogOpen
  <2>10. MemIsLog'
    BY <1>8, <2>1 DEF MemIsLog, Pending, At
  <2>11. Counted'
    BY <1>2, <1>6, <2>1, Zenon DEF Counted, At
  <2> QED BY <2>3, <2>4, <2>5, <2>6, <2>7, <2>8, <2>9, <2>10, <2>11 DEF Data
<1> QED BY <1>7, <1>8 DEF Take

LEMMA AppendWriteData ==
  ASSUME Typed, Inner, Data, AppendWrite
  PROVE  Data'
<1>1. pc[1] = "put" /\ pc[2] = "append" /\ UNCHANGED <<dir, manifest, ssts, live, wal>>
  <2>1. pc = <<"put", "append">>
    BY DEF AppendWrite
  <2> QED BY <2>1 DEF AppendWrite
<1>2. /\ CutsSuffice' /\ DOMAIN logs' = DOMAIN logs
      /\ \A n \in DOMAIN logs : n >= nextNum => logs'[n].recs = <<>>
      /\ wal \in DOMAIN logs' /\ logs'[wal].recs \in Seq(Entry)
      /\ EntriesIn(logs', wal) = mem \cup {NewEntry} /\ frozen = {}
      /\ lastSeq + 1 = Latest(manifest.recs, "seq") + LengthIn(logs', wal)
  BY EntryLogged
<1>3. NewEntry \in Entry /\ NewEntry.seq = lastSeq + 1
  BY DEF NewEntry, Entry, Typed, MemoryTyped, GhostsTyped
<1>4. ASSUME Take(NewEntry) PROVE Data'
  <2>1. At({"put"}, {"append", "sync"})
    BY <1>1 DEF At
  <2> HIDE DEF Data
  <2> QED BY <1>1, <1>2, <1>3, <1>4, <2>1, TakeData
<1>5. ASSUME pc' = <<"put", "sync">>, issued' = issued + 1,
             UNCHANGED <<mem, frozen, lastSeq, nextNum, edit>>
      PROVE  Data'
  <2>1. pc'[1] = "put" /\ pc'[2] = "sync"
    BY <1>5
  <2>2. pc # Closed /\ pc' # Closed /\ ~ Committing /\ ~ Committing'
    BY <1>1, <2>1, OpenSteps DEF Committing, Editing
  <2>3. dir = "named" /\ wal # Unset /\ manifest.synced > 0 /\ manifest.synced = Len(manifest.recs)
    BY <1>1, <2>2 DEF Data, HasName, LogOpen, Founded, Settled, Working, At
  <2>4. HasName' /\ NoLogYet' /\ Founded' /\ NothingHeld' /\ Settled'
    BY <1>1, <2>1, <2>2, <2>3 DEF HasName, NoLogYet, Founded, NothingHeld, Settled, At
  <2>5. NextKnown' /\ EmptyAhead'
    BY <1>1, <1>2, <1>5, <2>2 DEF Data, NextKnown, EmptyAhead
  <2>6. EditShape' /\ NextLog' /\ SstWritten' /\ FreshEverywhere'
    BY <2>1 DEF EditShape, NextLog, SstWritten, FreshEverywhere, At
  <2>7. LogOpen'
    BY <1>1, <1>2, <2>3 DEF LogOpen
  <2>8. MemIsLog'
    <3>1. Pending' = {NewEntry}
      BY <1>5, <2>1 DEF Pending, NewEntry, At
    <3> QED BY <1>1, <1>2, <1>5, <2>1, <3>1 DEF MemIsLog
  <2>9. Counted'
    <3>1. Latest(manifest.recs, "log") = wal
      BY <2>2 DEF Inner, Committed
    <3>2. At({"put"}, {"sync"})'
      BY <2>1 DEF At
    <3> QED BY <1>1, <1>2, <1>5, <3>1, <3>2 DEF Counted
  <2> QED BY <1>2, <2>4, <2>5, <2>6, <2>7, <2>8, <2>9 DEF Data
<1> QED BY <1>4, <1>5 DEF AppendWrite

LEMMA SyncWriteData ==
  ASSUME Typed, Inner, Data, SyncWrite
  PROVE  Data'
<1> DEFINE e == [seq |-> lastSeq + 1, id |-> issued]
<1>1. /\ pc[1] = "put" /\ pc[2] = "sync" /\ UNCHANGED <<dir, manifest, ssts, live, wal>> /\ Take(e)
      /\ logs' = [logs EXCEPT ![wal] = Synced(@)]
  <2>1. pc = <<"put", "sync">>
    BY DEF SyncWrite
  <2> QED BY <2>1 DEF SyncWrite
<1>2. pc # Closed /\ ~ Committing
  BY <1>1, OpenSteps DEF Committing, Editing
<1>3. At({"put"}, {"sync"}) /\ At({"put"}, {"append", "sync"})
  BY <1>1 DEF At
<1>4. DOMAIN logs' = DOMAIN logs /\ \A n \in DOMAIN logs' : logs'[n].recs = HeldIn(logs, n)
  BY <1>1, SyncedKeeps
<1>5. \A n : LengthIn(logs', n) = LengthIn(logs, n) /\ EntriesIn(logs', n) = EntriesIn(logs, n)
  BY <1>4, LogsKept
<1>6. CutsSuffice'
  BY <1>1, <1>4, CutsKept DEF Data
<1>7. frozen = {} /\ EntriesIn(logs', wal) = mem \cup {e}
  BY <1>1, <1>2, <1>3, <1>5 DEF Data, MemIsLog, Pending
<1>8. lastSeq + 1 = Latest(manifest.recs, "seq") + LengthIn(logs', wal)
  <2>1. Latest(manifest.recs, "log") = wal
    BY <1>2 DEF Inner, Committed
  <2> QED BY <1>2, <1>3, <1>5, <2>1 DEF Data, Counted
<1>9. \A n \in DOMAIN logs : n >= nextNum => logs'[n].recs = <<>>
  BY <1>2, <1>4 DEF Data, EmptyAhead, HeldIn
<1>10. wal \in DOMAIN logs' /\ logs'[wal].recs \in Seq(Entry)
  BY <1>1, <1>4 DEF Data, LogOpen, Working, At, HeldIn
<1>11. e \in Entry /\ e.seq = lastSeq + 1
  BY DEF Entry, Typed, MemoryTyped, GhostsTyped
<1> HIDE DEF e, Data
<1> QED BY <1>1, <1>3, <1>4, <1>6, <1>7, <1>8, <1>9, <1>10, <1>11, TakeData

----------------------------------------------------------------------------
(* Opening, closing and crashing *)

\* A recovery takes into the memtable what the log gives, and counts on from there.
LEMMA OpenExistingData ==
  ASSUME Typed, Inner, Data, OpenExisting
  PROVE  Data'
<1> DEFINE recs == manifest.recs
           v == OnDisk
           r == LogEntries(v.log)
           b == Latest(recs, "seq")
<1>1. /\ pc = Closed /\ dir = "named"
      /\ mem' = r /\ live' = v.live /\ wal' = v.log /\ lastSeq' = RecoveredSeq(v, r)
      /\ nextNum' = v.next + 1
      /\ UNCHANGED <<dir, manifest, logs, ssts, frozen, issued>>
  BY DEF OpenExisting, NumbersFrom, disk
<1>2. \/ r # {} /\ pc'[1] = "recover" /\ pc'[2] = "sst" /\ edit' = [NoEdit EXCEPT !.add = {v.next}]
      \/ /\ r = {} /\ pc'[1] = "recover" /\ pc'[2] = "append"
         /\ edit' = [NoEdit EXCEPT !.log = v.next, !.next = v.next + 1]
  <2>1. CASE r # {}
    <3>1. pc' = <<"recover", "sst">> /\ edit' = [NoEdit EXCEPT !.add = {v.next}]
      BY <2>1 DEF OpenExisting, NumbersFrom
    <3> QED BY <2>1, <3>1
  <2>2. CASE r = {}
    <3>1. pc' = <<"recover", "append">> /\ edit' = [NoEdit EXCEPT !.log = v.next, !.next = v.next + 1]
      BY <2>2 DEF OpenExisting, NumbersFrom, FreshLog
    <3> QED BY <2>2, <3>1
  <2> QED BY <2>1, <2>2
<1>3. pc' # Closed /\ ~ Committing'
  BY <1>2, OpenSteps DEF Committing
<1>4. /\ v.live = LiveAfter(recs) /\ v.log = Latest(recs, "log") /\ v.next = Latest(recs, "next") /\ v.seq = b
  BY WholeReadable DEF Inner, OnDisk, Replay
<1>5. v.log \in Nat /\ v.next \in Nat /\ v.seq \in Nat /\ b \in Nat
  BY <1>4, LatestIsNat
<1>6. r = EntriesIn(logs, v.log)
  BY DEF LogEntries, EntriesIn
<1>7. recs \in CutsOf(manifest) /\ recs # <<>>
  <2>1. manifest.synced > 0
    BY <1>1 DEF Data, Founded
  <2> QED BY <2>1, CutsTyped DEF Inner
<1>8. /\ v.next # Unset /\ v.log # Unset
      /\ \A n \in DOMAIN logs : n >= v.next => logs[n].recs = <<>>
      /\ Chain(HeldIn(logs, v.log), b)
  BY <1>4, <1>7 DEF Data, CutsSuffice, Sufficient
<1> HIDE DEF v, b, r
<1>9. /\ LengthIn(logs, v.log) \in Nat /\ r \in SUBSET Entry
      /\ \A e \in r : e.seq \in b + 1 .. b + LengthIn(logs, v.log)
      /\ \A s \in b + 1 .. b + LengthIn(logs, v.log) : \E e \in r : e.seq = s
  BY <1>5, <1>6, <1>8, ChainedEntries DEF Typed, DiskTyped
<1>10. lastSeq' = b + LengthIn(logs, v.log)
  <2>1. RecoveredSeq(v, r) = v.seq + LengthIn(logs, v.log)
    BY <1>4, <1>5, <1>9, RecoveredSeqCounts
  <2> QED BY <1>1, <1>4, <2>1
<1>11. CutsSuffice'
  BY <1>1 DEF Data, CutsSuffice
<1>12. HasName' /\ NoLogYet' /\ Founded' /\ NothingHeld'
  BY <1>1, <1>2, <1>3 DEF Data, HasName, NoLogYet, Founded, NothingHeld, At
<1>13. NextKnown' /\ EmptyAhead'
  <2>1. v.next <= v.next + 1
    BY <1>5
  <2>2. \A n \in DOMAIN logs : n \in Nat
    BY DEF Typed, DiskTyped
  <2>3. \A n \in DOMAIN logs : n >= v.next + 1 => n >= v.next
    BY <1>5, <2>2
  <2> QED BY <1>1, <1>3, <1>4, <1>8, <2>1, <2>3 DEF NextKnown, EmptyAhead
<1>14. EditShape'
  BY <1>2, <1>8 DEF EditShape, At, NoEdit, Unset
<1>15. NextLog'
  <2>1. HeldIn(logs, v.next) = <<>>
    BY <1>5, <1>8 DEF HeldIn
  <2>2. pc'[2] = "append" => edit'.log = v.next
    BY <1>2 DEF NoEdit
  <2> QED BY <1>1, <1>2, <2>1, <2>2 DEF NextLog, At
<1>16. Settled' /\ LogOpen'
  BY <1>1, <1>2, <1>8 DEF Settled, LogOpen, Working, At
<1>17. MemIsLog'
  <2>1. frozen = {}
    BY <1>1 DEF Data, NothingHeld
  <2> QED BY <1>1, <1>2, <1>6, <2>1 DEF MemIsLog, Pending, At
<1>18. SstWritten'
  <2> SUFFICES ASSUME pc'[2] = "append" PROVE Content(ssts', edit'.add) = mem' \cup frozen'
    BY <1>2 DEF SstWritten, At
  <2>1. r = {} /\ edit'.add = {}
    BY <1>2 DEF NoEdit
  <2>2. frozen = {} /\ Content(ssts, {}) = {}
    BY <1>1 DEF Data, NothingHeld, Content
  <2> QED BY <1>1, <2>1, <2>2
<1>19. Counted'
  <2>1. lastSeq' + 0 = b + LengthIn(logs, v.log)
    BY <1>5, <1>9, <1>10
  <2> QED BY <1>1, <1>2, <1>4, <2>1 DEF Counted, At, b
<1>20. FreshEverywhere'
  <2> SUFFICES ASSUME pc'[2] = "sst", NEW edits \in CutsOf(manifest)
               PROVE  edit'.add \cap LiveAfter(edits) = {}
    BY <1>1 DEF FreshEverywhere
  <2>1. edit'.add = {v.next}
    BY <1>2 DEF NoEdit
  <2>2. PICK n \in manifest.synced .. Len(manifest.recs) : edits = SubSeq(manifest.recs, 1, n)
    BY DEF CutsOf
  <2>3. \A m \in LiveAfter(edits) : m < Latest(edits, "next")
    BY <2>2 DEF Inner, PrefixesConsistent, Consistent
  <2>4. Latest(edits, "next") <= v.next
    BY <1>4 DEF Data, CutsSuffice, Sufficient
  <2>5. edits \in Seq(Edit)
    BY CutsTyped DEF Inner
  <2>6. Latest(edits, "next") \in Nat /\ LiveAfter(edits) \in SUBSET Nat
    BY <2>5, LatestType, LiveType
  <2>7. v.next \notin LiveAfter(edits)
    BY <1>5, <2>3, <2>4, <2>6
  <2> QED BY <2>1, <2>7
<1> QED BY <1>11, <1>12, <1>13, <1>14, <1>15, <1>16, <1>17, <1>18, <1>19, <1>20 DEF Data

\* Cleaning removes nothing that the one manifest left, now whole on disk, names.
LEMMA CleanData ==
  ASSUME Typed, Inner, Data, Clean
  PROVE  Data'
<1> DEFINE recs == manifest.recs
<1>1. /\ pc[1] = "recover" /\ pc[2] = "clean" /\ pc' = Running /\ pc'[1] = "running" /\ pc'[2] = ""
      /\ UNCHANGED <<dir, manifest, mem, frozen, live, wal, lastSeq, nextNum, edit, issued>>
      /\ pc = <<"recover", "clean">>
  <2>1. pc = <<"recover", "clean">> /\ pc' = Running
    BY DEF Clean
  <2>2. pc[1] = "recover" /\ pc[2] = "clean" /\ pc'[1] = "running" /\ pc'[2] = ""
    BY <2>1 DEF Running
  <2> QED BY <2>1, <2>2 DEF Clean, memory, ghosts
<1>2. pc # Closed /\ pc' # Closed /\ ~ Committing /\ ~ Committing'
  BY <1>1, OpenSteps DEF Committing, Editing
<1>3. PICK spared : logs' = [n \in spared \cup (DOMAIN logs \cap {wal}) |-> logs[n]]
                    /\ spared \in SUBSET (DOMAIN logs \ {wal})
  BY DEF Clean
<1>4. /\ DOMAIN logs' \subseteq DOMAIN logs /\ \A n \in DOMAIN logs' : logs'[n] = logs[n]
      /\ wal \in DOMAIN logs <=> wal \in DOMAIN logs'
  BY <1>3
<1>5. /\ HeldIn(logs', wal) = HeldIn(logs, wal) /\ LengthIn(logs', wal) = LengthIn(logs, wal)
      /\ EntriesIn(logs', wal) = EntriesIn(logs, wal)
  BY <1>4 DEF HeldIn, LengthIn, EntriesIn
<1>6. PICK kept : ssts' = [n \in kept \cup (DOMAIN ssts \cap live) |-> ssts[n]]
                  /\ kept \in SUBSET (DOMAIN ssts \ live)
  BY DEF Clean
<1>7. Content(ssts', live) = Content(ssts, live)
  <2>1. live \cap DOMAIN ssts' = live \cap DOMAIN ssts /\ \A n \in live \cap DOMAIN ssts : ssts'[n] = ssts[n]
    BY <1>6
  <2> QED BY <2>1 DEF Content
<1>8. manifest.synced = Len(recs) /\ CutsOf(manifest) = {recs} /\ LiveAfter(recs) = live /\ Latest(recs, "log") = wal
  <2>1. manifest.synced = Len(recs)
    BY <1>1 DEF Inner, AllSynced
  <2> QED BY <1>2, <2>1, CutsTyped DEF Inner, Committed
<1>9. CutsSuffice'
  <2> SUFFICES Sufficient(recs, logs', ssts', Latest(recs, "next"))
    BY <1>1, <1>8 DEF CutsSuffice
  <2>1. Sufficient(recs, logs, ssts, Latest(recs, "next"))
    BY <1>8 DEF Data, CutsSuffice
  <2> QED BY <1>4, <1>5, <1>7, <1>8, <2>1 DEF Sufficient
<1>10. dir = "named"
  BY <1>1, <1>2 DEF Data, HasName, At
<1>11. HasName' /\ NoLogYet' /\ Founded' /\ NothingHeld' /\ Settled'
  BY <1>1, <1>2, <1>8, <1>10 DEF Data, HasName, NoLogYet, Founded, NothingHeld, Settled, At
<1>12. NextKnown' /\ EmptyAhead'
  BY <1>1, <1>2, <1>4 DEF Data, NextKnown, EmptyAhead
<1>13. EditShape' /\ NextLog' /\ SstWritten' /\ FreshEverywhere'
  BY <1>1 DEF EditShape, NextLog, SstWritten, FreshEverywhere, At
<1>14. LogOpen'
  <2>1. wal # Unset /\ wal \in DOMAIN logs /\ logs[wal].recs \in Seq(Entry)
    BY <1>1, <1>2 DEF Data, LogOpen, At
  <2> QED BY <1>1, <1>4, <2>1 DEF LogOpen
<1>15. MemIsLog'
  BY <1>1, <1>2, <1>5 DEF Data, MemIsLog, Pending, At
<1>16. Counted'
  BY <1>1, <1>2, <1>5, <1>8 DEF Data, Counted, At
<1> QED BY <1>9, <1>11, <1>12, <1>13, <1>14, <1>15, <1>16 DEF Data

\* The process is gone; of the files is left what a crash or an orderly end leaves.
LEMMA ClosedData ==
  ASSUME Typed, Inner, Data, pc' = Closed, Forgotten, UNCHANGED <<dir, ssts>>,
         \A edits \in CutsOf(manifest') :
           edits \in CutsOf(manifest) /\ Latest(edits, "next") <= Latest(manifest'.recs, "next"),
         manifest.synced > 0 => manifest'.synced > 0,
         DOMAIN logs' = DOMAIN logs,
         \A n \in DOMAIN logs : /\ \A b : Chain(logs[n].recs, b) => Chain(logs'[n].recs, b)
                                /\ logs[n].recs = <<>> => logs'[n].recs = <<>>
  PROVE  Data'
<1>1. pc'[1] = "closed" /\ pc'[2] = ""
  BY DEF Closed
<1>2. CutsSuffice'
  <2> SUFFICES ASSUME NEW edits \in CutsOf(manifest')
               PROVE  Sufficient(edits, logs', ssts, Latest(manifest'.recs, "next"))
    BY DEF CutsSuffice
  <2>1. Sufficient(edits, logs, ssts, Latest(manifest.recs, "next"))
    BY DEF Data, CutsSuffice
  <2>2. \A n \in DOMAIN logs' : n >= Latest(edits, "next") => logs'[n].recs = <<>>
    BY <2>1 DEF Sufficient
  <2>3. Chain(HeldIn(logs', Latest(edits, "log")), Latest(edits, "seq"))
    BY <2>1 DEF Sufficient, HeldIn
  <2>4. Latest(edits, "next") <= Latest(manifest'.recs, "next")
    OBVIOUS
  <2> QED BY <2>1, <2>2, <2>3, <2>4 DEF Sufficient
<1>3. HasName' /\ NextKnown' /\ EmptyAhead' /\ MemIsLog' /\ Counted' /\ NothingHeld'
  BY DEF HasName, NextKnown, EmptyAhead, MemIsLog, Counted, NothingHeld, Forgotten
<1>4. NoLogYet' /\ Founded'
  BY <1>1 DEF Data, NoLogYet, Founded, At
<1>5. EditShape' /\ NextLog' /\ SstWritten' /\ FreshEverywhere'
  BY <1>1 DEF EditShape, NextLog, SstWritten, FreshEverywhere, At
<1>6. Settled' /\ LogOpen'
  BY <1>1 DEF Settled, LogOpen, Working, At
<1> QED BY <1>2, <1>3, <1>4, <1>5, <1>6 DEF Data

\* Every cut knows of fewer numbers than the whole.
LEMMA CutsBelow ==
  ASSUME Data
  PROVE  \A edits \in CutsOf(manifest) : Latest(edits, "next") <= Latest(manifest.recs, "next")
  BY DEF Data, CutsSuffice, Sufficient

LEMMA FinishCloseData ==
  ASSUME Typed, Inner, Data, FinishClose
  PROVE  Data'
<1>1. /\ pc' = Closed /\ Forgotten /\ UNCHANGED <<dir, ssts>> /\ manifest' = manifest
      /\ logs' = [logs EXCEPT ![wal] = Synced(@)]
  BY DEF FinishClose
<1>2. DOMAIN logs' = DOMAIN logs /\ \A n \in DOMAIN logs' : logs'[n].recs = HeldIn(logs, n)
  BY <1>1, SyncedKeeps
<1>3. \A n \in DOMAIN logs : logs'[n].recs = logs[n].recs
  BY <1>2 DEF HeldIn
<1>4. \A edits \in CutsOf(manifest') :
        edits \in CutsOf(manifest) /\ Latest(edits, "next") <= Latest(manifest'.recs, "next")
  BY <1>1, CutsBelow
<1> HIDE DEF Data
<1> QED BY <1>1, <1>2, <1>3, <1>4, ClosedData

LEMMA CrashData ==
  ASSUME Typed, Inner, Data, GentleFaults, Crash
  PROVE  Data'
<1>1. /\ pc' = Closed /\ Forgotten /\ UNCHANGED <<dir, ssts>>
      /\ manifest' \in Remains(manifest, "manifest" \in TornTails) /\ "manifest" \notin TornTails
  BY DEF Crash, GentleFaults
<1>2. PICK n \in manifest.synced .. Len(manifest.recs) :
        manifest' = [recs |-> SubSeq(manifest.recs, 1, n), synced |-> n]
  BY <1>1 DEF Remains
<1>3. manifest'.recs = SubSeq(manifest.recs, 1, n) /\ manifest'.synced = n
  BY <1>2
<1>4. CutsOf(manifest') = {manifest'.recs} /\ manifest'.recs \in CutsOf(manifest)
  BY <1>3, CutsOfCut DEF Inner
<1>5. manifest.synced \in Nat /\ Len(manifest.recs) \in Nat
  BY LenProperties DEF Inner, Whole, Typed, DiskTyped, ManifestFile
<1>6. manifest.synced > 0 => manifest'.synced > 0
  BY <1>3, <1>5
<1>7. Latest(manifest'.recs, "next") <= Latest(manifest'.recs, "next")
  <2>1. manifest'.recs \in Seq(Edit)
    BY <1>4, CutsTyped DEF Inner
  <2>2. Latest(manifest'.recs, "next") \in Nat
    BY <2>1, LatestType
  <2> QED BY <2>2
<1>8. PICK left \in [DOMAIN logs -> UNION {Remains(logs[m], "log" \in TornTails) : m \in DOMAIN logs}] :
        logs' = left /\ \A m \in DOMAIN logs : left[m] \in Remains(logs[m], "log" \in TornTails)
  BY DEF Crash
<1>9. DOMAIN logs' = DOMAIN logs
  BY <1>8
<1>10. \A m \in DOMAIN logs : /\ \A b : Chain(logs[m].recs, b) => Chain(logs'[m].recs, b)
                              /\ logs[m].recs = <<>> => logs'[m].recs = <<>>
  <2> TAKE m \in DOMAIN logs
  <2>1. logs[m] \in LogFile /\ Sound(logs[m]) /\ logs'[m] \in Remains(logs[m], "log" \in TornTails)
    BY <1>8 DEF Typed, DiskTyped
  <2>2. ("log" \in TornTails) \in BOOLEAN
    OBVIOUS
  <2> QED BY <2>1, <2>2, CrashKeeps
<1>11. \A edits \in CutsOf(manifest') :
         edits \in CutsOf(manifest) /\ Latest(edits, "next") <= Latest(manifest'.recs, "next")
  BY <1>4, <1>7
<1> HIDE DEF Data
<1> QED BY <1>1, <1>6, <1>9, <1>10, <1>11, ClosedData

LEMMA DiskSteps ==
  ASSUME pc \in Steps
  PROVE  /\ pc[1] = "put" => pc[2] \in {"append", "sync"}
         /\ pc[1] = "flush" => pc[2] \in {"sst", "log", "old", "append", "sync"}
         /\ pc[1] = "compact" => pc[2] \in {"sst", "append", "sync"}
<1>1. CASE pc \in {Closed, Running, <<"put", "append">>, <<"put", "sync">>, <<"close", "sync">>}
  <2>1. CASE pc = Closed
    BY <2>1 DEF Closed
  <2>2. CASE pc = Running
    BY <2>2 DEF Running
  <2>3. CASE pc = <<"put", "append">> \/ pc = <<"put", "sync">> \/ pc = <<"close", "sync">>
    BY <2>3
  <2> QED BY <1>1, <2>1, <2>2, <2>3
<1>2. CASE pc \in {"create"} \X {"append", "sync", "current", "log"}
  <2>1. PICK b \in {"append", "sync", "current", "log"} : pc = <<"create", b>>
    BY <1>2
  <2> QED BY <2>1
<1>3. CASE pc \in {"recover"} \X {"sst", "log", "append", "sync", "open", "clean"}
  <2>1. PICK b \in {"sst", "log", "append", "sync", "open", "clean"} : pc = <<"recover", b>>
    BY <1>3
  <2> QED BY <2>1
<1>4. CASE pc \in {"flush"} \X {"sst", "log", "old", "append", "sync"}
  <2>1. PICK b \in {"sst", "log", "old", "append", "sync"} : pc = <<"flush", b>>
    BY <1>4
  <2> QED BY <2>1
<1>5. CASE pc \in {"compact"} \X {"sst", "append", "sync"}
  <2>1. PICK b \in {"sst", "append", "sync"} : pc = <<"compact", b>>
    BY <1>5
  <2> QED BY <2>1
<1> QED BY <1>1, <1>2, <1>3, <1>4, <1>5 DEF Steps

\* A failure that loses nothing: it ends the opening or closing, or gives up a compaction.
LEMMA IoErrorData ==
  ASSUME Typed, Inner, Data, LosslessFaults, IoError
  PROVE  (Dead \/ Data)'
<1>1. /\ pc \in Faults /\ pc \in Steps /\ pc # Closed /\ pc # Running
      /\ pc \notin {<<"recover", "append">>, <<"flush", "append">>, <<"compact", "append">>,
                    <<"flush", "sync">>, <<"compact", "sync">>}
      /\ pc \notin {<<"put", "append">>, <<"put", "sync">>, <<"flush", "sst">>, <<"flush", "log">>,
                    <<"flush", "old">>}
  BY FaultsAssumption DEF IoError, LosslessFaults, GentleFaults
<1>2. pc = <<pc[1], pc[2]>>
  BY <1>1, StepsShape
<1>3. UNCHANGED <<dir, ssts>>
  BY DEF IoError
<1>4. pc # <<"put", "append">> => logs' = logs
  BY DEF IoError
<1>5. CASE pc[1] \in {"create", "recover", "close"}
  <2>1. pc' = Closed /\ Forgotten
    BY <1>5 DEF IoError
  <2>2. CASE dir = "unnamed"
    BY <1>3, <2>1, <2>2 DEF Dead
  <2>3. CASE dir # "unnamed"
    <3>1. pc # <<"create", "append">>
      BY <2>3 DEF Inner, NotYetNamed
    <3>2. pc[2] = "append" => pc[1] \in {"create", "recover"}
      BY <1>1, <1>5, StepsShape
    <3>3. pc[2] # "append"
      BY <1>1, <1>2, <3>1, <3>2
    <3>4. manifest' = manifest /\ logs' = logs
      BY <1>1, <1>4, <3>3 DEF IoError
    <3>5. \A edits \in CutsOf(manifest') :
            edits \in CutsOf(manifest) /\ Latest(edits, "next") <= Latest(manifest'.recs, "next")
      BY <3>4, CutsBelow
    <3> HIDE DEF Data
    <3>6. Data'
      BY <1>3, <2>1, <3>4, <3>5, ClosedData
    <3> QED BY <3>6
  <2> QED BY <2>2, <2>3
<1>6. CASE pc[1] \notin {"create", "recover", "close"}
  <2>1. pc[1] \in {"put", "flush", "compact"}
    BY <1>1, <1>6, StepsShape
  <2>2. pc = <<"compact", "sst">>
    <3>1. pc[1] = "put" => pc = <<"put", "append">> \/ pc = <<"put", "sync">>
      BY <1>1, <1>2, DiskSteps
    <3>2. pc[1] # "put"
      BY <1>1, <3>1
    <3>3. pc[1] = "flush" => pc[2] \in {"sst", "log", "old", "append", "sync"}
      BY <1>1, DiskSteps
    <3>4. pc[1] # "flush"
      BY <1>1, <1>2, <3>3
    <3>5. pc[1] = "compact" /\ pc[2] \in {"sst", "append", "sync"}
      BY <1>1, <2>1, <3>2, <3>4, DiskSteps
    <3> QED BY <1>1, <1>2, <3>5
  <2>3. /\ pc' = Running /\ frozen' = {} /\ edit' = NoEdit
        /\ UNCHANGED <<mem, live, wal, lastSeq, nextNum, manifest, logs, issued>>
    BY <1>4, <1>6, <2>2 DEF IoError, ghosts
  <2>4. pc[1] = "compact" /\ pc[2] = "sst" /\ pc'[1] = "running" /\ pc'[2] = ""
    BY <2>2, <2>3 DEF Running
  <2>5. pc # Closed /\ pc' # Closed /\ ~ Committing /\ ~ Committing'
    BY <2>4, OpenSteps DEF Committing, Editing
  <2>6. \A n \in DOMAIN logs' : logs'[n].recs = HeldIn(logs, n)
    BY <2>3 DEF HeldIn
  <2>7. Steady'
    <3>1. nextNum' \in Nat /\ nextNum' >= nextNum
      BY <2>3 DEF Typed, MemoryTyped
    <3> QED BY <1>3, <2>3, <2>5, <2>6, <3>1, LatestIsNat, SteadyStep
  <2>8. frozen' = frozen
    BY <2>3, <2>4, <2>5 DEF Data, MemIsLog
  <2>9. MemIsLog' /\ Counted'
    BY <2>3, <2>4, <2>5, <2>6, <2>8, SameLogStep DEF At
  <2>10. HasName' /\ NoLogYet' /\ Founded' /\ Settled'
    <3>1. dir = "named"
      BY <2>4, <2>5 DEF Data, HasName, At
    <3> QED BY <1>3, <2>3, <2>4, <3>1 DEF Data, HasName, NoLogYet, Founded, Settled, Working, At
  <2>11. EditShape' /\ NextLog' /\ SstWritten' /\ FreshEverywhere'
    BY <2>4 DEF EditShape, NextLog, SstWritten, FreshEverywhere, At
  <2>12. LogOpen'
    BY <2>3, <2>4, <2>5 DEF Data, LogOpen, Working, At
  <2> QED BY <2>7, <2>9, <2>10, <2>11, <2>12 DEF Data, Steady
<1> QED BY <1>5, <1>6

----------------------------------------------------------------------------
(* What a restart finds *)

LEMMA DataStep ==
  ASSUME Typed, Inner, Data, LosslessFaults, [Next]_vars
  PROVE  (Dead \/ Data)'
<1>1. GentleFaults
  BY DEF LosslessFaults
<1>2. OpenNew \/ WriteCurrent \/ OpenExisting \/ Clean \/ OpenLog => Data'
  BY OpenNewData, WriteCurrentData, OpenExistingData, CleanData, OpenLogData
<1>3. WriteSst \/ MakeLog \/ AppendEdit \/ SyncEdit \/ SyncOldLog => Data'
  BY WriteSstData, MakeLogData, AppendEditData, SyncEditData, SyncOldLogData
<1>4. BeginPut \/ BeginClose \/ BeginCompact => Data'
  BY BeginData
<1>5. AppendWrite \/ SyncWrite => Data'
  BY AppendWriteData, SyncWriteData
<1>6. FinishClose \/ Crash => Data'
  BY <1>1, FinishCloseData, CrashData
<1>7. IoError => (Dead \/ Data)'
  BY IoErrorData
<1>8. CASE UNCHANGED vars
  <2>1. UNCHANGED <<dir, manifest, logs, ssts, pc, mem, frozen, live, wal, lastSeq, nextNum, edit, issued>>
    BY <1>8 DEF vars, disk, memory, ghosts
  <2>2. CutsSuffice' /\ HasName' /\ NoLogYet' /\ Founded' /\ NothingHeld'
    BY <2>1 DEF Data, CutsSuffice, HasName, NoLogYet, Founded, NothingHeld, At
  <2>3. NextKnown' /\ EmptyAhead' /\ Counted' /\ Settled'
    BY <2>1 DEF Data, NextKnown, Committing, EmptyAhead, Counted, Settled, Working, At
  <2>4. EditShape' /\ NextLog' /\ FreshEverywhere'
    BY <2>1 DEF Data, EditShape, NextLog, FreshEverywhere, At
  <2>5. LogOpen' /\ MemIsLog' /\ SstWritten'
    BY <2>1 DEF Data, LogOpen, Working, MemIsLog, Pending, SstWritten, At
  <2> QED BY <2>2, <2>3, <2>4, <2>5 DEF Data
<1> HIDE DEF Data
<1> QED BY <1>2, <1>3, <1>4, <1>5, <1>6, <1>7, <1>8 DEF Next

RInv == IInv /\ DInv

LEMMA NextRInv ==
  ASSUME LosslessFaults, RInv, [Next]_vars
  PROVE  RInv'
<1>1. IInv'
  BY NextIInv DEF RInv, LosslessFaults
<1>2. CASE Dead
  <2>1. Typed /\ ClosedForgets
    BY DEF RInv, IInv
  <2>2. Dead'
    BY <1>2, <2>1, DeadStep
  <2> QED BY <1>1, <2>2 DEF RInv, DInv
<1>3. CASE ~ Dead
  <2>1. Typed /\ Inner /\ Data
    BY <1>3 DEF RInv, IInv, DInv
  <2>2. (Dead \/ Data)'
    BY <2>1, DataStep
  <2> QED BY <1>1, <2>2 DEF RInv, DInv
<1> QED BY <1>2, <1>3

LEMMA InductiveData == ASSUME LosslessFaults PROVE Spec => []RInv
<1>1. Init => RInv
  BY InitIInv, InitData DEF RInv, DInv
<1>2. RInv /\ [Next]_vars => RInv'
  BY NextRInv
<1> QED BY <1>1, <1>2, PTL DEF Spec

\* Between operations a restart would find exactly what the running database shows, under
\* the same numbers (db.rs, recover_open; version.rs, recover; wal.rs, replay): writes,
\* flushes, compactions, crashes and recoveries neither lose an entry, nor show one that
\* would not come back, nor give a sequence number twice.
THEOREM LiveStaysRecoverable == ASSUME LosslessFaults PROVE Spec => []LiveIsRecoverable
<1>1. RInv => LiveIsRecoverable
  <2> SUFFICES ASSUME RInv, pc = Running
               PROVE  MemoryContent = DiskContent /\ lastSeq = Cardinality(MemoryContent)
    BY DEF LiveIsRecoverable
  <2> DEFINE recs == manifest.recs
             k == LengthIn(logs, wal)
             K == Held(recs, logs, ssts)
  <2>1. pc[1] = "running" /\ pc[2] = "" /\ pc # Closed /\ ~ Committing
    BY DEF Running, Closed, Committing
  <2>2. Typed /\ Inner /\ Data
    BY <2>1 DEF RInv, IInv, DInv, Dead
  <2>3. LiveAfter(recs) = live /\ Latest(recs, "log") = wal /\ recs \in CutsOf(manifest)
    BY <2>1, <2>2, CutsTyped DEF Inner, Committed
  <2>4. mem = EntriesIn(logs, wal)
    <3>1. Pending = {} /\ frozen = {}
      BY <2>1, <2>2 DEF Data, MemIsLog, Pending, At
    <3> QED BY <2>1, <2>2, <3>1 DEF Data, MemIsLog
  <2>5. OnDisk.live = live /\ OnDisk.log = wal
    BY <2>2, <2>3, WholeReadable DEF Inner, OnDisk, Replay
  <2>6. dir = "named"
    BY <2>1, <2>2 DEF Data, HasName, At
  <2>7. MemoryContent = K /\ DiskContent = K
    BY <2>3, <2>4, <2>5, <2>6
       DEF MemoryContent, DiskContent, EntriesOf, Content, LogEntries, EntriesIn, Held
  <2>8. Sufficient(recs, logs, ssts, Latest(recs, "next")) /\ recs \in Seq(Edit)
    BY <2>2, <2>3 DEF Data, CutsSuffice, Inner, Whole
  <2>9. k \in Nat /\ Dense(K, Latest(recs, "seq") + k)
    BY <2>2, <2>3, <2>8, HeldIsDense DEF Typed, DiskTyped
  <2>10. Latest(recs, "seq") \in Nat /\ lastSeq \in Nat
    BY <2>2, LatestIsNat DEF Typed, MemoryTyped
  <2>11. lastSeq = Latest(recs, "seq") + k
    <3>1. lastSeq + 0 = Latest(recs, "seq") + k
      BY <2>1, <2>2, <2>3 DEF Data, Counted, At
    <3> QED BY <2>10, <3>1
  <2> HIDE DEF K, k
  <2>12. Cardinality(K) = lastSeq
    BY <2>9, <2>10, <2>11, DenseCounts
  <2> QED BY <2>7, <2>12
<1> QED BY <1>1, InductiveData, PTL

----------------------------------------------------------------------------
(* What crashes leave *)

\* The entries of a log before its first torn record, among its first k: those that a
\* crash cannot take, if k of its records are synced.
Untorn(recs, k) == {recs[i] : i \in {j \in 1 .. k : \A h \in 1 .. j : recs[h] # Torn}}

SecuredIn(files, n) == IF n \in DOMAIN files THEN Untorn(files[n].recs, files[n].synced) ELSE {}

Safe(edits, files, tables) ==
  Content(tables, LiveAfter(edits)) \cup SecuredIn(files, Latest(edits, "log"))

\* It makes no difference to the contents which of the cuts a crash leaves.
CutsAgree ==
  \A edits \in CutsOf(manifest) : Held(edits, logs, ssts) = Held(manifest.recs, logs, ssts)

SureIsSafe == \A edits \in CutsOf(manifest) : sure \subseteq Safe(edits, logs, ssts)

NothingCreated == pc[1] = "create" => live = {}

Survives == CutsAgree /\ SureIsSafe /\ NothingCreated

\* Before CURRENT exists nothing was promised.
NothingPromised == dir # "named" => sure = {}

SInv == RInv /\ NothingPromised /\ (Dead \/ Survives)

----------------------------------------------------------------------------
(* Secured entries *)

LEMMA RecordsAreUntorn ==
  ASSUME NEW f \in LogFile
  PROVE  RecordsIn(f) = Untorn(f.recs, Len(f.recs))
<1> DEFINE s == f.recs
           torn == {i \in DOMAIN s : s[i] = Torn}
           r == Readable(f)
           U == {j \in 1 .. Len(s) : \A h \in 1 .. j : s[h] # Torn}
<1>1. s \in Seq(Entry \cup {Torn}) /\ Len(s) \in Nat /\ DOMAIN s = 1 .. Len(s)
  BY LenProperties DEF LogFile
<1>2. /\ r \in Seq(Entry) /\ Len(r) \in Nat /\ Len(r) <= Len(s)
      /\ \A i \in 1 .. Len(r) : i \in DOMAIN s /\ s[i] # Torn /\ r[i] = s[i]
  BY ReadablePrefix
<1>3. DOMAIN r = 1 .. Len(r)
  BY <1>2, LenProperties
<1>4. Len(r) = Len(s) \/ (Len(r) + 1 \in 1 .. Len(s) /\ s[Len(r) + 1] = Torn)
  <2>1. CASE torn = {}
    BY <2>1 DEF Readable
  <2>2. CASE torn # {}
    <3>1. torn \subseteq Nat
      BY <1>1
    <3>2. PICK i \in torn : \A j \in torn : i <= j
      <4> HIDE DEF torn
      <4> QED BY <2>2, <3>1, MinExists
    <3>3. \A j \in torn : (\A h \in torn : j <= h) => j = i
      BY <3>1, <3>2
    <3>4. (CHOOSE j \in torn : \A h \in torn : j <= h) = i
      <4> HIDE DEF torn
      <4> QED BY <3>2, <3>3
    <3>5. r = SubSeq(s, 1, i - 1)
      BY <2>2, <3>4 DEF Readable
    <3>6. i \in 1 .. Len(s) /\ s[i] = Torn /\ i - 1 \in 0 .. Len(s)
      BY <1>1, <3>2
    <3>7. Len(r) = i - 1
      BY <1>1, <3>5, <3>6, Prefix
    <3> QED BY <3>6, <3>7
  <2> QED BY <2>1, <2>2
<1> HIDE DEF s, r
<1>5. U = 1 .. Len(r)
  <2>1. ASSUME NEW j \in U PROVE j \in 1 .. Len(r)
    <3>1. j \in Nat /\ j >= 1 /\ j <= Len(s)
      BY <1>1, <2>1
    <3>2. ~ (Len(r) + 1 <= j)
      BY <1>1, <1>2, <1>4, <2>1, <3>1
    <3> QED BY <1>2, <3>1, <3>2
  <2>2. ASSUME NEW j \in 1 .. Len(r) PROVE j \in U
    BY <1>1, <1>2, <2>2
  <2> QED BY <2>1, <2>2
<1>6. RecordsIn(f) = {r[i] : i \in 1 .. Len(r)}
  BY <1>3 DEF RecordsIn, r
<1>7. RecordsIn(f) = {s[i] : i \in U}
  <2> HIDE DEF U
  <2> QED BY <1>2, <1>5, <1>6
<1> QED BY <1>7 DEF Untorn, s

LEMMA SecuredIsHeld ==
  ASSUME NEW files, NEW n, n \in DOMAIN files => files[n] \in LogFile /\ Sound(files[n])
  PROVE  SecuredIn(files, n) \subseteq EntriesIn(files, n)
<1> SUFFICES ASSUME n \in DOMAIN files PROVE SecuredIn(files, n) \subseteq EntriesIn(files, n)
  BY DEF SecuredIn
<1>1. files[n].synced \in Nat /\ Len(files[n].recs) \in Nat /\ files[n].synced <= Len(files[n].recs)
  BY LenProperties DEF LogFile, Sound
<1>2. Untorn(files[n].recs, files[n].synced) \subseteq Untorn(files[n].recs, Len(files[n].recs))
  BY <1>1 DEF Untorn
<1> QED BY <1>2, RecordsAreUntorn DEF SecuredIn, EntriesIn

\* Syncing a log secures what it holds.
LEMMA SyncedIsSecured ==
  ASSUME Typed, NEW n, NEW new, new = [logs EXCEPT ![n] = Synced(@)]
  PROVE  SecuredIn(new, n) = EntriesIn(logs, n)
<1>1. CASE n \notin DOMAIN logs
  BY <1>1 DEF SecuredIn, EntriesIn
<1>2. CASE n \in DOMAIN logs
  <2>1. logs[n] \in LogFile /\ new[n] = Synced(logs[n]) /\ n \in DOMAIN new
    BY <1>2 DEF Typed, DiskTyped
  <2>2. Synced(logs[n]).recs = logs[n].recs /\ Synced(logs[n]).synced = Len(logs[n].recs)
    BY <2>1 DEF Synced, LogFile
  <2> QED BY <1>2, <2>1, <2>2, RecordsAreUntorn DEF SecuredIn, EntriesIn
<1> QED BY <1>1, <1>2

\* A log that grows, keeping its synced records, secures no less.
LEMMA SecuredGrows ==
  ASSUME NEW old, NEW new, DOMAIN old \subseteq DOMAIN new, NEW n,
         n \in DOMAIN old => /\ old[n].synced \in Nat /\ new[n].synced \in Nat
                             /\ old[n].synced <= new[n].synced
                             /\ \A i \in 1 .. old[n].synced : new[n].recs[i] = old[n].recs[i]
  PROVE  SecuredIn(old, n) \subseteq SecuredIn(new, n)
<1> SUFFICES ASSUME n \in DOMAIN old PROVE SecuredIn(old, n) \subseteq SecuredIn(new, n)
  BY DEF SecuredIn
<1> DEFINE a == old[n].synced
           b == new[n].synced
           p == old[n].recs
           q == new[n].recs
<1>1. a \in Nat /\ b \in Nat /\ a <= b /\ \A i \in 1 .. a : q[i] = p[i]
  OBVIOUS
<1>2. Untorn(p, a) \subseteq Untorn(q, b)
  <2> HIDE DEF a, b, p, q
  <2> SUFFICES ASSUME NEW j \in 1 .. a, \A h \in 1 .. j : p[h] # Torn
               PROVE  p[j] \in Untorn(q, b)
    BY DEF Untorn
  <2>1. j \in 1 .. b /\ p[j] = q[j] /\ \A h \in 1 .. j : q[h] # Torn
    BY <1>1
  <2> QED BY <2>1 DEF Untorn
<1> QED BY <1>2 DEF SecuredIn

\* What a crash leaves of a log: fewer entries, and all that were synced.
LEMMA CrashTakesTail ==
  ASSUME NEW f \in LogFile, Sound(f), NEW mayTear \in BOOLEAN, NEW g \in Remains(f, mayTear)
  PROVE  /\ RecordsIn(g) \subseteq RecordsIn(f)
         /\ g.synced \in Nat /\ f.synced <= g.synced
         /\ \A i \in 1 .. f.synced : g.recs[i] = f.recs[i]
<1> DEFINE s == f.recs
           cut(n) == SubSeq(s, 1, n)
<1>1. /\ s \in Seq(Entry \cup {Torn}) /\ Len(s) \in Nat /\ f.synced \in Nat /\ f.synced <= Len(s)
  BY LenProperties DEF LogFile, Sound
<1>2. g \in LogFile
  BY RemainsType DEF LogFile
<1>3. \E n \in f.synced .. Len(s) :
        /\ g.synced \in {n, n + 1} /\ \A i \in 1 .. n : g.recs[i] = s[i]
        /\ Len(g.recs) = n \/ (Len(g.recs) = n + 1 /\ g.recs[n + 1] = Torn)
  <2>1. \A n \in f.synced .. Len(s) :
          /\ n \in Nat /\ n \in 0 .. Len(s)
          /\ cut(n) \in Seq(Entry \cup {Torn}) /\ Len(cut(n)) = n /\ \A i \in 1 .. n : cut(n)[i] = s[i]
    <3> TAKE n \in f.synced .. Len(s)
    <3>1. n \in Nat /\ n \in 0 .. Len(s)
      BY <1>1
    <3> QED BY <1>1, <3>1, Prefix
  <2>2. CASE \E n \in f.synced .. Len(s) : g = [recs |-> cut(n), synced |-> n]
    <3>1. PICK n \in f.synced .. Len(s) : g.recs = cut(n) /\ g.synced = n
      BY <2>2
    <3> HIDE DEF cut, s
    <3> QED BY <2>1, <3>1
  <2>3. CASE \E n \in f.synced .. Len(s) - 1 : g = [recs |-> Append(cut(n), Torn), synced |-> n + 1]
    <3>1. PICK n \in f.synced .. Len(s) - 1 : g.recs = Append(cut(n), Torn) /\ g.synced = n + 1
      BY <2>3
    <3>2. n \in f.synced .. Len(s)
      BY <1>1
    <3> HIDE DEF cut, s
    <3>3. /\ n \in Nat /\ cut(n) \in Seq(Entry \cup {Torn}) /\ Len(cut(n)) = n
          /\ \A i \in 1 .. n : cut(n)[i] = s[i]
      BY <2>1, <3>2
    <3>4. /\ Len(Append(cut(n), Torn)) = n + 1
          /\ \A i \in 1 .. n : Append(cut(n), Torn)[i] = cut(n)[i]
          /\ Append(cut(n), Torn)[n + 1] = Torn
      BY <3>3, AppendProperties
    <3> QED BY <3>1, <3>2, <3>3, <3>4
  <2> QED BY <2>2, <2>3 DEF Remains
<1>4. PICK n \in f.synced .. Len(s) :
        /\ g.synced \in {n, n + 1} /\ \A i \in 1 .. n : g.recs[i] = s[i]
        /\ Len(g.recs) = n \/ (Len(g.recs) = n + 1 /\ g.recs[n + 1] = Torn)
  BY <1>3
<1>5. n \in Nat /\ f.synced <= n /\ n <= Len(s)
  BY <1>1
<1>6. Untorn(g.recs, Len(g.recs)) \subseteq Untorn(s, Len(s))
  <2> SUFFICES ASSUME NEW j \in 1 .. Len(g.recs), \A h \in 1 .. j : g.recs[h] # Torn
               PROVE  g.recs[j] \in Untorn(s, Len(s))
    BY DEF Untorn
  <2>1. j \in 1 .. n
    BY <1>4, <1>5
  <2>2. j \in 1 .. Len(s) /\ g.recs[j] = s[j] /\ \A h \in 1 .. j : s[h] # Torn
    BY <1>1, <1>4, <1>5, <2>1
  <2> QED BY <2>2 DEF Untorn
<1>7. RecordsIn(g) \subseteq RecordsIn(f)
  BY <1>2, <1>6, RecordsAreUntorn
<1>8. g.synced \in Nat /\ f.synced <= g.synced
  BY <1>1, <1>4, <1>5
<1>9. \A i \in 1 .. f.synced : g.recs[i] = s[i]
  BY <1>1, <1>4, <1>5
<1> QED BY <1>7, <1>8, <1>9

----------------------------------------------------------------------------
(* The contents of the directory *)

LEMMA ContentIsHeld ==
  ASSUME Whole
  PROVE  DiskContent = IF dir = "named" THEN Held(manifest.recs, logs, ssts) ELSE {}
<1>1. Readable(manifest) = manifest.recs
  BY WholeReadable
<1>2. OnDisk.live = LiveAfter(manifest.recs) /\ OnDisk.log = Latest(manifest.recs, "log")
  BY <1>1 DEF OnDisk, Replay
<1>3. /\ EntriesOf(OnDisk.live) = Content(ssts, LiveAfter(manifest.recs))
      /\ LogEntries(OnDisk.log) = EntriesIn(logs, Latest(manifest.recs, "log"))
  BY <1>2 DEF EntriesOf, Content, LogEntries, EntriesIn
<1> QED BY <1>3 DEF DiskContent, Held

LEMMA NextContentIsHeld ==
  ASSUME Whole'
  PROVE  DiskContent' = IF dir' = "named" THEN Held(manifest'.recs, logs', ssts') ELSE {}
<1>1. Readable(manifest') = manifest'.recs
  <2>1. \A i \in DOMAIN manifest'.recs : manifest'.recs[i] \in Edit
    BY LenProperties DEF Whole
  <2>2. \A i \in DOMAIN manifest'.recs : manifest'.recs[i] # Torn
    BY <2>1, FaultsAssumption
  <2> QED BY <2>2, ReadableWhole
<1>2. OnDisk'.live = LiveAfter(manifest'.recs) /\ OnDisk'.log = Latest(manifest'.recs, "log")
  BY <1>1 DEF OnDisk, Replay
<1>3. /\ EntriesOf(OnDisk.live)' = Content(ssts', LiveAfter(manifest'.recs))
      /\ LogEntries(OnDisk.log)' = EntriesIn(logs', Latest(manifest'.recs, "log"))
  BY <1>2 DEF EntriesOf, Content, LogEntries, EntriesIn
<1> QED BY <1>3 DEF DiskContent, Held

\* A part of the writes without a hole is a part without a tail.
LEMMA TailOf ==
  ASSUME NEW K, NEW L, L \subseteq K, NEW a \in Nat, NEW b \in Nat, Dense(K, a), Dense(L, b)
  PROVE  b <= a /\ L = {w \in K : w.seq <= b}
<1>1. b <= a
  <2>1. CASE b = 0
    BY <2>1
  <2>2. CASE b # 0
    <3>1. b \in 1 .. b
      BY <2>2
    <3>2. PICK e \in L : e.seq = b
      BY <3>1 DEF Dense
    <3>3. e.seq \in 1 .. a
      BY <3>2 DEF Dense
    <3> QED BY <3>2, <3>3
  <2> QED BY <2>1, <2>2
<1>2. ASSUME NEW w \in L PROVE w \in K /\ w.seq <= b
  <2>1. w.seq \in 1 .. b
    BY <1>2 DEF Dense
  <2> QED BY <1>2, <2>1
<1>3. ASSUME NEW w \in K, w.seq <= b PROVE w \in L
  <2>1. w.seq \in 1 .. b
    <3>1. w.seq \in 1 .. a
      BY <1>3 DEF Dense
    <3> QED BY <1>3, <3>1
  <2>2. PICK e \in L : e.seq = w.seq
    BY <2>1 DEF Dense
  <2>3. e = w
    BY <1>3, <2>2 DEF Dense
  <2> QED BY <2>3
<1> QED BY <1>1, <1>2, <1>3

LEMMA SafeIsHeld ==
  ASSUME NEW edits, NEW files, NEW tables,
         \A n \in DOMAIN files : files[n] \in LogFile /\ Sound(files[n])
  PROVE  Safe(edits, files, tables) \subseteq Held(edits, files, tables)
  BY SecuredIsHeld DEF Safe, Held

\* Between commits and between the halves of a put, lastSeq counts what the files hold.
LEMMA HeldNow ==
  ASSUME Typed, Inner, Data, pc # Closed, ~ Committing, ~ At({"put"}, {"sync"})
  PROVE  Dense(Held(manifest.recs, logs, ssts), lastSeq)
<1> DEFINE recs == manifest.recs
           k == LengthIn(logs, Latest(recs, "log"))
<1>1. recs \in CutsOf(manifest) /\ recs \in Seq(Edit)
  BY CutsTyped DEF Inner
<1>2. Sufficient(recs, logs, ssts, Latest(recs, "next"))
  BY <1>1 DEF Data, CutsSuffice
<1>3. k \in Nat /\ Dense(Held(recs, logs, ssts), Latest(recs, "seq") + k)
  BY <1>1, <1>2, HeldIsDense DEF Typed, DiskTyped
<1>4. lastSeq + 0 = Latest(recs, "seq") + k
  BY DEF Data, Counted
<1>5. lastSeq \in Nat /\ Latest(recs, "seq") \in Nat
  BY LatestIsNat DEF Typed, MemoryTyped
<1> HIDE DEF k
<1>6. lastSeq = Latest(recs, "seq") + k
  BY <1>3, <1>4, <1>5
<1> QED BY <1>3, <1>6

----------------------------------------------------------------------------
(* Steps that change no contents *)

LogStep == [Log!Next]_(Log!vars)

\* The abstract log counts with an instance's copy of Cardinality.
LEMMA SameCardinality ==
  ASSUME NEW S
  PROVE  Log!Cardinality(S) = Cardinality(S)
  BY DEF Log!Cardinality, Cardinality

LEMMA PromiseStep ==
  ASSUME DiskContent' = DiskContent, issued' = issued, sure \subseteq sure', sure' \subseteq DiskContent
  PROVE  LogStep
  BY DEF LogStep, Log!Next, Log!Promise

\* What was promised is in the directory.
LEMMA SureIsKept ==
  ASSUME Typed, Inner, SureIsSafe, NothingPromised
  PROVE  sure \subseteq DiskContent
<1>1. Whole /\ manifest.recs \in CutsOf(manifest)
  BY CutsTyped DEF Inner
<1>2. CASE dir = "named"
  <2>1. sure \subseteq Held(manifest.recs, logs, ssts)
    BY <1>1, SafeIsHeld DEF SureIsSafe, Typed, DiskTyped
  <2> QED BY <1>1, <1>2, <2>1, ContentIsHeld
<1>3. CASE dir # "named"
  BY <1>3 DEF NothingPromised
<1> QED BY <1>2, <1>3

\* Logs are made empty or synced, and SSTables are written that no recovery would read.
LEMMA QuietSurvives ==
  ASSUME Typed, Typed', Inner, Survives, NothingPromised, manifest' = manifest, issued' = issued,
         DOMAIN logs \subseteq DOMAIN logs',
         \A n \in DOMAIN logs' : logs'[n].recs = HeldIn(logs, n),
         \A edits \in CutsOf(manifest) :
           Content(ssts', LiveAfter(edits)) = Content(ssts, LiveAfter(edits)),
         sure \subseteq sure',
         \A edits \in CutsOf(manifest) : sure' \subseteq Safe(edits, logs', ssts'),
         pc'[1] = "create" => live' = {},
         \/ dir' = dir /\ (dir = "named" \/ sure' = sure)
         \/ dir # "named" /\ dir' # "named" /\ sure' = sure
         \/ dir # "named" /\ sure' = sure /\ Held(manifest.recs, logs, ssts) = {}
  PROVE  Survives' /\ NothingPromised' /\ LogStep
<1>1. \A n : EntriesIn(logs', n) = EntriesIn(logs, n)
  BY LogsKept
<1>2. \A edits \in CutsOf(manifest) : Held(edits, logs', ssts') = Held(edits, logs, ssts)
  BY <1>1 DEF Held
<1>3. Whole /\ Whole' /\ manifest.recs \in CutsOf(manifest)
  BY CutsTyped DEF Inner, Whole
<1>4. CutsAgree'
  BY <1>2, <1>3 DEF Survives, CutsAgree
<1>5. SureIsSafe'
  BY DEF SureIsSafe
<1>6. NothingCreated' /\ NothingPromised'
  BY DEF NothingCreated, NothingPromised
<1>7. DiskContent' = DiskContent
  BY <1>2, <1>3, ContentIsHeld, NextContentIsHeld
<1>8. sure' \subseteq DiskContent
  <2>1. CASE sure' = sure
    BY <2>1, SureIsKept DEF Survives
  <2>2. CASE dir' = "named" /\ dir = "named"
    <3>1. sure' \subseteq Held(manifest.recs, logs', ssts')
      BY <1>3, SafeIsHeld DEF Typed, DiskTyped
    <3> QED BY <1>2, <1>3, <2>2, <3>1, ContentIsHeld
  <2> QED BY <2>1, <2>2
<1>9. LogStep
  BY <1>7, <1>8, PromiseStep
<1> QED BY <1>4, <1>5, <1>6, <1>9 DEF Survives

\* No file changes.
LEMMA SameFiles ==
  ASSUME Typed, Typed', Inner, Survives, NothingPromised,
         UNCHANGED <<manifest, logs, ssts, issued, sure>>,
         pc'[1] = "create" => live' = {},
         \/ dir' = dir
         \/ dir # "named" /\ dir' # "named"
         \/ dir # "named" /\ Held(manifest.recs, logs, ssts) = {}
  PROVE  Survives' /\ NothingPromised' /\ LogStep
<1>1. \A n \in DOMAIN logs' : logs'[n].recs = HeldIn(logs, n)
  BY DEF HeldIn
<1>2. \A edits \in CutsOf(manifest) : sure' \subseteq Safe(edits, logs', ssts')
  BY DEF Survives, SureIsSafe
<1>3. Whole /\ Whole' /\ manifest.recs \in CutsOf(manifest)
  BY CutsTyped DEF Inner, Whole
<1>4. CutsAgree' /\ SureIsSafe'
  BY DEF Survives, CutsAgree, SureIsSafe
<1>5. NothingCreated' /\ NothingPromised'
  BY DEF NothingCreated, NothingPromised
<1>6. DiskContent' = DiskContent
  BY <1>3, ContentIsHeld, NextContentIsHeld
<1>7. LogStep
  BY <1>6, SureIsKept, PromiseStep DEF Survives
<1> QED BY <1>4, <1>5, <1>7 DEF Survives

LEMMA OpenSurvives ==
  ASSUME Typed, Typed', ClosedForgets, Inner, Data, Survives, NothingPromised,
         OpenNew \/ OpenExisting \/ WriteCurrent
  PROVE  Survives' /\ NothingPromised' /\ LogStep
<1>1. UNCHANGED <<manifest, logs, ssts, issued, sure>>
  BY DEF OpenNew, OpenExisting, WriteCurrent, disk, ghosts
<1>2. CASE OpenNew
  <2>1. live' = {} /\ dir # "named" /\ dir' # "named"
    BY <1>2 DEF OpenNew, ClosedForgets
  <2> QED BY <1>1, <2>1, SameFiles
<1>3. CASE OpenExisting
  <2>1. dir' = dir /\ (pc' = <<"recover", "sst">> \/ pc' = <<"recover", "append">>)
    BY <1>3 DEF OpenExisting, disk
  <2>2. pc'[1] # "create"
    <3>1. CASE pc' = <<"recover", "sst">>
      BY <3>1
    <3>2. CASE pc' = <<"recover", "append">>
      BY <3>2
    <3> QED BY <2>1, <3>1, <3>2
  <2> QED BY <1>1, <2>1, <2>2, SameFiles
<1>4. CASE WriteCurrent
  <2>1. pc[1] = "create" /\ pc[2] = "current" /\ dir' = "named" /\ live' = live
    <3>1. pc = <<"create", "current">>
      BY <1>4 DEF WriteCurrent
    <3> QED BY <1>4, <3>1 DEF WriteCurrent, memory
  <2>2. pc # Closed /\ ~ Committing
    BY <2>1, OpenSteps DEF Committing
  <2>3. live = {}
    BY <2>1 DEF Survives, NothingCreated
  <2>4. DOMAIN logs = {} /\ LiveAfter(manifest.recs) = live
    BY <2>1, <2>2 DEF Data, NoLogYet, Inner, Committed
  <2>5. Held(manifest.recs, logs, ssts) = {}
    BY <2>3, <2>4 DEF Held, Content, EntriesIn
  <2>6. dir = "named" => dir' = dir
    BY <2>1
  <2> QED BY <1>1, <2>1, <2>3, <2>5, <2>6, SameFiles
<1> QED BY <1>2, <1>3, <1>4

LEMMA BeginSurvives ==
  ASSUME Typed, Typed', Inner, Survives, NothingPromised, BeginPut \/ BeginClose \/ BeginCompact
  PROVE  Survives' /\ NothingPromised' /\ LogStep
<1>1. UNCHANGED <<dir, manifest, logs, ssts, issued, sure>>
  BY DEF BeginPut, BeginClose, BeginCompact, disk, ghosts
<1>2. pc' \in {<<"put", "append">>, <<"close", "sync">>, <<"compact", "sst">>}
  BY DEF BeginPut, BeginClose, BeginCompact
<1>3. pc'[1] # "create"
  <2>1. \A p \in {<<"put", "append">>, <<"close", "sync">>, <<"compact", "sst">>} : p[1] # "create"
    OBVIOUS
  <2> QED BY <1>2, <2>1
<1> QED BY <1>1, <1>3, SameFiles

\* The SSTable has a number that no recovery knows.
LEMMA SstSurvives ==
  ASSUME Typed, Typed', Inner, Data, Survives, NothingPromised, WriteSst
  PROVE  Survives' /\ NothingPromised' /\ LogStep
<1> DEFINE written == IF pc[1] = "compact" THEN EntriesOf(edit.del) ELSE mem \cup frozen
<1>1. /\ pc[2] = "sst" /\ UNCHANGED <<dir, manifest, logs, issued, sure>>
      /\ ssts' = [n \in DOMAIN ssts \cup edit.add |-> IF n \in edit.add THEN written ELSE ssts[n]]
  BY DEF WriteSst, ghosts
<1>2. \A edits \in CutsOf(manifest) : edit.add \cap LiveAfter(edits) = {}
  BY <1>1 DEF Data, FreshEverywhere
<1>3. ASSUME NEW edits \in CutsOf(manifest)
      PROVE  Content(ssts', LiveAfter(edits)) = Content(ssts, LiveAfter(edits))
  <2>1. LiveAfter(edits) \cap DOMAIN ssts' = LiveAfter(edits) \cap DOMAIN ssts
    BY <1>1, <1>2
  <2>2. \A n \in LiveAfter(edits) \cap DOMAIN ssts : ssts'[n] = ssts[n]
    BY <1>1, <1>2
  <2> QED BY <2>1, <2>2 DEF Content
<1>4. \A n \in DOMAIN logs' : logs'[n].recs = HeldIn(logs, n)
  BY <1>1 DEF HeldIn
<1>5. \A edits \in CutsOf(manifest) : sure' \subseteq Safe(edits, logs', ssts')
  BY <1>1, <1>3 DEF Survives, SureIsSafe, Safe
<1>6. pc'[1] # "create"
  <2>1. pc[1] \in {"recover", "flush", "compact"}
    BY <1>1, StepsShape DEF Typed
  <2>2. pc' = <<pc[1], "append">> \/ pc' = <<pc[1], "log">>
    BY DEF WriteSst
  <2>3. pc'[1] = pc[1]
    <3>1. CASE pc' = <<pc[1], "append">>
      BY <3>1
    <3>2. CASE pc' = <<pc[1], "log">>
      BY <3>2
    <3> QED BY <2>2, <3>1, <3>2
  <2> QED BY <2>1, <2>3
<1>7. \/ dir' = dir /\ (dir = "named" \/ sure' = sure)
      \/ dir # "named" /\ dir' # "named" /\ sure' = sure
  BY <1>1
<1>8. manifest' = manifest /\ issued' = issued /\ DOMAIN logs \subseteq DOMAIN logs' /\ sure \subseteq sure'
  BY <1>1
<1> HIDE DEF written
<1> QED BY <1>3, <1>4, <1>5, <1>6, <1>7, <1>8, QuietSurvives

LEMMA LogSynced ==
  ASSUME Typed, NEW n, NEW new, new = [logs EXCEPT ![n] = Synced(@)]
  PROVE  \A m \in DOMAIN logs : /\ new[m].synced \in Nat /\ logs[m].synced \in Nat
                                /\ logs[m].synced <= new[m].synced
                                /\ new[m].recs = logs[m].recs
<1> SUFFICES ASSUME NEW m \in DOMAIN logs
             PROVE  /\ new[m].synced \in Nat /\ logs[m].synced \in Nat
                    /\ logs[m].synced <= new[m].synced
                    /\ new[m].recs = logs[m].recs
  OBVIOUS
<1>1. logs[m] \in LogFile /\ Sound(logs[m]) /\ Len(logs[m].recs) \in Nat
  BY LenProperties DEF Typed, DiskTyped, LogFile
<1>2. Synced(logs[m]).recs = logs[m].recs /\ Synced(logs[m]).synced = Len(logs[m].recs)
  BY <1>1 DEF Synced, LogFile
<1>3. new[m] \in {logs[m], Synced(logs[m])}
  OBVIOUS
<1> QED BY <1>1, <1>2, <1>3 DEF LogFile, Sound

LEMMA LogsSurvive ==
  ASSUME Typed, Typed', Inner, Survives, NothingPromised, MakeLog \/ OpenLog \/ SyncOldLog
  PROVE  Survives' /\ NothingPromised' /\ LogStep
<1>1. UNCHANGED <<dir, manifest, ssts, issued, sure>>
  BY DEF MakeLog, OpenLog, SyncOldLog, ghosts
<1>2. pc'[1] # "create"
  <2>1. pc' \in {<<"flush", "old">>, <<"recover", "append">>, <<"running", "">>, <<"recover", "clean">>,
                 <<"flush", "append">>}
    BY DEF MakeLog, OpenLog, SyncOldLog, Running
  <2>2. /\ <<"flush", "old">>[1] # "create" /\ <<"flush", "append">>[1] # "create"
        /\ <<"recover", "append">>[1] # "create" /\ <<"recover", "clean">>[1] # "create"
        /\ <<"running", "">>[1] # "create"
    OBVIOUS
  <2> QED BY <2>1, <2>2
<1>3. (\E n : logs' = WithLog(n)) \/ logs' = [logs EXCEPT ![wal] = Synced(@)]
  BY DEF MakeLog, OpenLog, SyncOldLog
<1>4. /\ DOMAIN logs \subseteq DOMAIN logs'
      /\ \A m \in DOMAIN logs' : logs'[m].recs = HeldIn(logs, m)
  <2>1. CASE \E n : logs' = WithLog(n)
    <3>1. PICK n : logs' = WithLog(n)
      BY <2>1
    <3> QED BY <3>1, WithLogKeeps
  <2>2. CASE logs' = [logs EXCEPT ![wal] = Synced(@)]
    BY <2>2, SyncedKeeps
  <2> QED BY <1>3, <2>1, <2>2
<1>5. \A m \in DOMAIN logs : /\ logs'[m].synced \in Nat /\ logs[m].synced \in Nat
                             /\ logs[m].synced <= logs'[m].synced
                             /\ logs'[m].recs = logs[m].recs
  <2>1. CASE \E n : logs' = WithLog(n)
    BY <2>1 DEF WithLog, Typed, DiskTyped, LogFile
  <2>2. CASE logs' = [logs EXCEPT ![wal] = Synced(@)]
    BY <2>2, LogSynced
  <2> QED BY <1>3, <2>1, <2>2
<1>6. \A n : SecuredIn(logs, n) \subseteq SecuredIn(logs', n)
  BY <1>4, <1>5, SecuredGrows
<1>7. \A edits \in CutsOf(manifest) : sure' \subseteq Safe(edits, logs', ssts')
  BY <1>1, <1>6 DEF Survives, SureIsSafe, Safe
<1> QED BY <1>1, <1>2, <1>4, <1>7, QuietSurvives

\* A write returns, or the database closes, with the log synced.
LEMMA SyncSurvives ==
  ASSUME Typed, Typed', Inner, Data, Survives, NothingPromised, SyncWrite \/ FinishClose
  PROVE  Survives' /\ NothingPromised' /\ LogStep
<1> DEFINE recs == manifest.recs
<1>1. /\ UNCHANGED <<dir, manifest, ssts, issued>> /\ logs' = [logs EXCEPT ![wal] = Synced(@)]
  BY DEF SyncWrite, FinishClose
<1>2. At({"put", "close"}, {"sync"}) /\ pc # Closed /\ ~ Committing
  <2>1. pc \in {<<"put", "sync">>, <<"close", "sync">>}
    BY DEF SyncWrite, FinishClose
  <2>2. pc[1] \in {"put", "close"} /\ pc[2] = "sync"
    BY <2>1
  <2> QED BY <2>2, OpenSteps DEF At, Committing, Editing
<1>3. DOMAIN logs' = DOMAIN logs /\ \A n \in DOMAIN logs' : logs'[n].recs = HeldIn(logs, n)
  BY <1>1, SyncedKeeps
<1>4. LiveAfter(recs) = live /\ Latest(recs, "log") = wal
  BY <1>2 DEF Inner, Committed
<1>5. CutsOf(manifest) = {recs}
  <2>1. manifest.synced = Len(recs)
    BY <1>2 DEF Data, Settled, Working, At
  <2> QED BY <2>1, CutsTyped DEF Inner
<1>6. Safe(recs, logs', ssts') = Content(ssts, live) \cup EntriesIn(logs, wal)
  BY <1>1, <1>4, SyncedIsSecured DEF Safe
<1>7. sure \subseteq Safe(recs, logs', ssts')
  <2>1. sure \subseteq Safe(recs, logs, ssts) /\ Safe(recs, logs, ssts) \subseteq Held(recs, logs, ssts)
    BY <1>5, SafeIsHeld DEF Survives, SureIsSafe, Typed, DiskTyped
  <2> QED BY <1>4, <1>6, <2>1 DEF Held
<1>8. sure \subseteq sure' /\ sure' \subseteq Safe(recs, logs', ssts') /\ pc'[1] # "create"
  <2>1. CASE SyncWrite
    <3> DEFINE e == [seq |-> lastSeq + 1, id |-> issued]
    <3>1. Take(e) /\ pc = <<"put", "sync">>
      BY <2>1 DEF SyncWrite
    <3>2. sure' \in {sure, sure \cup {e}} /\ pc'[1] # "create"
      <4> HIDE DEF e
      <4>1. sure' \in {sure, sure \cup {e}}
        BY <3>1 DEF Take
      <4>2. pc' = <<"running", "">> \/ pc' = <<"flush", "sst">>
        BY <3>1 DEF Take, Running
      <4>3. pc'[1] # "create"
        <5>1. CASE pc' = <<"running", "">>
          BY <5>1
        <5>2. CASE pc' = <<"flush", "sst">>
          BY <5>2
        <5> QED BY <4>2, <5>1, <5>2
      <4> QED BY <4>1, <4>3
    <3>3. e \in EntriesIn(logs, wal)
      <4>1. Pending = {e}
        BY <3>1 DEF Pending, At
      <4> QED BY <1>2, <4>1 DEF Data, MemIsLog
    <3> QED BY <1>6, <1>7, <3>2, <3>3
  <2>2. CASE FinishClose
    <3>1. sure' = sure \cup mem \cup Content(ssts, live) /\ pc'[1] # "create"
      BY <2>2 DEF FinishClose, MemoryContent, EntriesOf, Content, Closed
    <3>2. mem \subseteq EntriesIn(logs, wal)
      BY <1>2 DEF Data, MemIsLog
    <3> QED BY <1>6, <1>7, <3>1, <3>2
  <2> QED BY <2>1, <2>2
<1>9. dir = "named"
  BY <1>2 DEF Data, HasName, At
<1>10. \A edits \in CutsOf(manifest) : sure' \subseteq Safe(edits, logs', ssts')
  BY <1>5, <1>8
<1>11. \A edits \in CutsOf(manifest) : Content(ssts', LiveAfter(edits)) = Content(ssts, LiveAfter(edits))
  BY <1>1
<1> QED BY <1>1, <1>3, <1>8, <1>9, <1>10, <1>11, QuietSurvives

----------------------------------------------------------------------------
(* Commits *)

\* An edit in the manifest and not yet synced: a recovery finds the same with and without it.
LEMMA AppendSurvives ==
  ASSUME Typed, Inner, Inner', Data, Survives, NothingPromised, AppendEdit
  PROVE  Survives' /\ NothingPromised' /\ LogStep
<1> DEFINE recs == manifest.recs
           edits == Append(recs, edit)
<1>1. /\ pc[2] = "append" /\ pc[1] \in Editing /\ pc'[1] = pc[1]
      /\ UNCHANGED <<dir, logs, ssts, live, issued, sure>>
      /\ manifest' = Appended(manifest, edit)
  <2>1. pc[2] = "append" /\ pc[1] \in Editing /\ pc' = <<pc[1], "sync">>
    BY StepsShape DEF AppendEdit, Typed, Editing
  <2> QED BY <2>1 DEF AppendEdit, memory, ghosts
<1>2. pc # Closed /\ ~ Committing
  BY <1>1, OpenSteps DEF Committing, Editing
<1>3. recs \in Seq(Edit) /\ edit \in Edit /\ recs \in CutsOf(manifest)
  BY CutsTyped DEF Inner, Whole, Typed, MemoryTyped
<1>4. LiveAfter(recs) = live /\ Latest(recs, "log") = wal
  BY <1>2 DEF Inner, Committed
<1>5. manifest'.recs = edits
  BY <1>1 DEF Appended, Typed, DiskTyped, ManifestFile
<1>6. CutsOf(manifest') = CutsOf(manifest) \cup {edits}
  BY <1>1, <1>3, CutsOfAppended DEF Inner
<1>7. LiveAfter(edits) = Apply(live, edit)
  BY <1>3, <1>4, LiveOfAppend
<1>8. sure \subseteq Safe(recs, logs, ssts) /\ Safe(recs, logs, ssts) \subseteq Held(recs, logs, ssts)
  BY <1>3, SafeIsHeld DEF Survives, SureIsSafe, Typed, DiskTyped
<1>9. Held(edits, logs, ssts) = Held(recs, logs, ssts) /\ sure \subseteq Safe(edits, logs, ssts)
  <2>1. CASE pc[1] \in {"recover", "flush"}
    <3>1. /\ HeldIn(logs, edit.log) = <<>> /\ edit.log # Unset
          /\ Content(ssts, Apply(live, edit)) = Content(ssts, live) \cup EntriesIn(logs, wal)
      <4>1. At({"recover", "flush"}, {"append"})
        BY <1>1, <2>1 DEF At
      <4> QED BY <4>1, LogMoved
    <3>2. Latest(edits, "log") = edit.log
      BY <1>3, <3>1, LatestOfAppend
    <3>3. EntriesIn(logs, edit.log) = {}
      BY <3>1, EmptyReads DEF EntriesIn, HeldIn
    <3> HIDE DEF edits, recs
    <3> QED BY <1>4, <1>7, <1>8, <3>1, <3>2, <3>3 DEF Held, Safe
  <2>2. CASE pc[1] \in {"create", "compact"}
    <3>1. /\ Content(ssts, Apply(live, edit)) = Content(ssts, live)
          /\ DOMAIN logs = {} \/ Latest(edits, "log") = Latest(recs, "log")
      <4>1. At({"create", "compact"}, {"append"})
        BY <1>1, <2>2 DEF At
      <4> QED BY <4>1, NothingMoved
    <3> HIDE DEF edits, recs
    <3>2. /\ EntriesIn(logs, Latest(edits, "log")) = EntriesIn(logs, Latest(recs, "log"))
          /\ SecuredIn(logs, Latest(edits, "log")) = SecuredIn(logs, Latest(recs, "log"))
      BY <3>1 DEF EntriesIn, SecuredIn
    <3> QED BY <1>4, <1>7, <1>8, <3>1, <3>2 DEF Held, Safe
  <2> QED BY <1>1, <2>1, <2>2 DEF Editing
<1> HIDE DEF edits, recs
<1>10. CutsAgree'
  BY <1>1, <1>5, <1>6, <1>9 DEF Survives, CutsAgree, recs
<1>11. SureIsSafe'
  BY <1>1, <1>6, <1>9 DEF Survives, SureIsSafe
<1>12. NothingCreated' /\ NothingPromised'
  BY <1>1 DEF Survives, NothingCreated, NothingPromised
<1>13. DiskContent' = DiskContent
  BY <1>1, <1>5, <1>9, ContentIsHeld, NextContentIsHeld DEF Inner, recs
<1>14. LogStep
  BY <1>1, <1>13, SureIsKept, PromiseStep DEF Survives
<1> QED BY <1>10, <1>11, <1>12, <1>14 DEF Survives

\* A commit: of the cuts is left the whole, and a flush promises what it wrote.
LEMMA CommitSurvives ==
  ASSUME Typed, Typed', Inner, Inner', Data, Survives, NothingPromised, SyncEdit
  PROVE  Survives' /\ NothingPromised' /\ LogStep
<1> DEFINE recs == manifest.recs
<1>1. pc[2] = "sync" /\ pc[1] \in Editing /\ pc # Closed /\ Committing
  <2>1. pc[2] = "sync" /\ pc[1] \in Editing
    BY StepsShape DEF SyncEdit, Typed, Editing
  <2> QED BY <2>1, OpenSteps DEF Committing, Editing
<1>2. /\ manifest' = Synced(manifest) /\ live' = Apply(live, edit)
      /\ sure' = IF pc[1] = "flush" THEN sure \cup frozen ELSE sure
      /\ pc' = AfterCommit[pc[1]]
      /\ UNCHANGED <<dir, logs, ssts, issued>>
  BY DEF SyncEdit
<1>3. manifest'.recs = recs /\ CutsOf(manifest') = {recs} /\ recs \in CutsOf(manifest)
  BY <1>2, CutsOfSynced DEF Inner, Synced, Typed, DiskTyped, ManifestFile
<1>4. LiveAfter(recs) = Apply(live, edit)
  BY <1>1 DEF Inner, Committed
<1>5. pc[1] = "flush" => frozen \subseteq Content(ssts, LiveAfter(recs)) /\ dir = "named"
  <2> SUFFICES ASSUME pc[1] = "flush" PROVE frozen \subseteq Content(ssts, LiveAfter(recs)) /\ dir = "named"
    OBVIOUS
  <2>1. frozen \subseteq Content(ssts, edit.add)
    BY <1>1 DEF Data, SstWritten, At
  <2>2. Content(ssts, edit.add) \subseteq Content(ssts, Apply(live, edit))
    BY DEF Content, Apply
  <2>3. dir = "named"
    BY <1>1 DEF Data, HasName, At
  <2> QED BY <1>4, <2>1, <2>2, <2>3
<1>6. sure' \subseteq Safe(recs, logs', ssts')
  <2>1. sure \subseteq Safe(recs, logs, ssts)
    BY <1>3 DEF Survives, SureIsSafe
  <2> QED BY <1>2, <1>5, <2>1 DEF Safe
<1>7. CutsAgree' /\ SureIsSafe'
  BY <1>3, <1>6 DEF CutsAgree, SureIsSafe
<1>8. NothingCreated'
  <2>1. CASE pc[1] = "create"
    <3>1. live = {} /\ edit.add = {}
      BY <2>1 DEF Survives, NothingCreated, Data, EditShape
    <3> QED BY <1>2, <3>1 DEF NothingCreated, Apply
  <2>2. CASE pc[1] # "create"
    <3>1. CASE pc[1] = "recover"
      <4>1. pc' = <<"recover", "open">>
        BY <1>2, <3>1 DEF AfterCommit
      <4> QED BY <4>1 DEF NothingCreated
    <3>2. CASE pc[1] \in {"flush", "compact"}
      <4>1. AfterCommit["flush"] = <<"running", "">> /\ AfterCommit["compact"] = <<"running", "">>
        BY DEF AfterCommit, Running
      <4>2. pc' = <<"running", "">>
        BY <1>2, <3>2, <4>1
      <4> QED BY <4>2 DEF NothingCreated
    <3> QED BY <1>1, <2>2, <3>1, <3>2 DEF Editing
  <2> QED BY <2>1, <2>2
<1>9. NothingPromised'
  BY <1>2, <1>5 DEF NothingPromised
<1>10. DiskContent' = DiskContent
  BY <1>2, <1>3, ContentIsHeld, NextContentIsHeld DEF Inner
<1>11. sure' \subseteq DiskContent
  <2>1. CASE dir = "named"
    <3>1. sure' \subseteq Held(recs, logs, ssts)
      BY <1>2, <1>6, SafeIsHeld DEF Typed, DiskTyped
    <3> QED BY <2>1, <3>1, ContentIsHeld DEF Inner
  <2>2. CASE dir # "named"
    BY <1>2, <1>9, <2>2 DEF NothingPromised
  <2> QED BY <2>1, <2>2
<1>12. LogStep
  BY <1>2, <1>10, <1>11, PromiseStep
<1> QED BY <1>7, <1>8, <1>9, <1>12 DEF Survives

----------------------------------------------------------------------------
(* Writing, cleaning, crashing *)

\* The next write: the log has it, so every recovery finds it behind the others.
LEMMA WriteSurvives ==
  ASSUME Typed, Inner, Inner', Data, Survives, NothingPromised, AppendWrite
  PROVE  Survives' /\ NothingPromised' /\ LogStep
<1> DEFINE recs == manifest.recs
           K == Held(recs, logs, ssts)
<1>1. pc[1] = "put" /\ pc[2] = "append"
  <2>1. pc = <<"put", "append">>
    BY DEF AppendWrite
  <2> QED BY <2>1
<1>2. /\ UNCHANGED <<dir, manifest, ssts>> /\ issued' = issued + 1
      /\ logs' = [logs EXCEPT ![wal] = Appended(@, NewEntry)]
  BY DEF AppendWrite
<1>3. sure' = sure /\ pc'[1] # "create"
  <2>1. CASE sync
    BY <2>1 DEF AppendWrite
  <2>2. CASE ~ sync
    <3>1. Take(NewEntry)
      BY <2>2 DEF AppendWrite
    <3>2. sure' = sure /\ (pc' = <<"running", "">> \/ pc' = <<"flush", "sst">>)
      BY <2>2, <3>1 DEF Take, Running
    <3>3. CASE pc' = <<"running", "">>
      BY <3>2, <3>3
    <3>4. CASE pc' = <<"flush", "sst">>
      BY <3>2, <3>4
    <3> QED BY <3>2, <3>3, <3>4
  <2> QED BY <2>1, <2>2
<1>4. pc # Closed /\ ~ Committing /\ ~ At({"put"}, {"sync"})
  BY <1>1, OpenSteps DEF Committing, Editing, At
<1>5. LiveAfter(recs) = live /\ Latest(recs, "log") = wal
  BY <1>4 DEF Inner, Committed
<1>6. CutsOf(manifest) = {recs}
  <2>1. manifest.synced = Len(recs)
    BY <1>1 DEF Data, Settled, Working, At
  <2> QED BY <2>1, CutsTyped DEF Inner
<1>7. EntriesIn(logs', wal) = EntriesIn(logs, wal) \cup {NewEntry}
  <2>1. EntriesIn(logs', wal) = mem \cup {NewEntry} /\ frozen = {}
    BY EntryLogged
  <2>2. Pending = {} /\ mem \cup frozen \cup Pending = EntriesIn(logs, wal)
    BY <1>4 DEF Data, MemIsLog, Pending
  <2> QED BY <2>1, <2>2
<1>8. Held(recs, logs', ssts') = K \cup {NewEntry}
  BY <1>2, <1>5, <1>7 DEF Held
<1>9. SecuredIn(logs, wal) \subseteq SecuredIn(logs', wal)
  <2>1. wal \in DOMAIN logs /\ logs[wal].recs \in Seq(Entry) /\ logs[wal] \in LogFile /\ Sound(logs[wal])
    BY <1>1 DEF Data, LogOpen, Working, At, Typed, DiskTyped
  <2>2. /\ DOMAIN logs' = DOMAIN logs /\ logs'[wal] = Appended(logs[wal], NewEntry)
        /\ NewEntry \in Entry
    BY <1>2, <2>1 DEF NewEntry, Entry, Typed, MemoryTyped, GhostsTyped
  <2>3. logs'[wal].recs = Append(logs[wal].recs, NewEntry) /\ logs'[wal].synced = logs[wal].synced
    BY <2>1, <2>2 DEF Appended, LogFile
  <2>4. /\ Len(logs[wal].recs) \in Nat /\ logs[wal].synced \in Nat
        /\ logs[wal].synced <= Len(logs[wal].recs)
    BY <2>1, LenProperties DEF LogFile, Sound
  <2>5. \A i \in 1 .. Len(logs[wal].recs) : logs'[wal].recs[i] = logs[wal].recs[i]
    BY <2>1, <2>2, <2>3, AppendProperties
  <2>6. \A i \in 1 .. logs[wal].synced : logs'[wal].recs[i] = logs[wal].recs[i]
    BY <2>4, <2>5
  <2> QED BY <2>2, <2>3, <2>4, <2>6, SecuredGrows
<1>10. SureIsSafe'
  BY <1>2, <1>3, <1>5, <1>6, <1>9 DEF Survives, SureIsSafe, Safe
<1>11. CutsAgree'
  BY <1>2, <1>6 DEF CutsAgree
<1>12. NothingCreated' /\ NothingPromised'
  BY <1>2, <1>3 DEF NothingCreated, NothingPromised
<1>13. dir = "named"
  BY <1>1, <1>4 DEF Data, HasName, At
<1>14. DiskContent = K /\ DiskContent' = K \cup {NewEntry}
  BY <1>2, <1>8, <1>13, ContentIsHeld, NextContentIsHeld DEF Inner
<1>15. Cardinality(K) = lastSeq
  <2>1. Dense(K, lastSeq) /\ lastSeq \in Nat
    BY <1>4, HeldNow DEF Typed, MemoryTyped
  <2> HIDE DEF K
  <2> QED BY <2>1, DenseCounts
<1>16. Log!Append
  <2>1. DiskContent' = DiskContent \cup {[seq |-> Cardinality(DiskContent) + 1, id |-> issued + 1]}
    <3> HIDE DEF K
    <3> QED BY <1>14, <1>15 DEF NewEntry
  <2> QED BY <1>2, <1>3, <2>1, SameCardinality DEF Log!Append
<1> QED BY <1>10, <1>11, <1>12, <1>16 DEF Survives, LogStep, Log!Next

LEMMA CleanSurvives ==
  ASSUME Typed, Typed', Inner, Inner', Data, Survives, NothingPromised, Clean
  PROVE  Survives' /\ NothingPromised' /\ LogStep
<1> DEFINE recs == manifest.recs
<1>1. /\ pc = <<"recover", "clean">> /\ pc[1] = "recover" /\ pc[2] = "clean" /\ pc'[1] # "create"
      /\ UNCHANGED <<dir, manifest, issued, sure>>
  <2>1. pc = <<"recover", "clean">> /\ pc' = <<"running", "">>
    BY DEF Clean, Running
  <2>2. pc[1] = "recover" /\ pc[2] = "clean" /\ pc'[1] # "create"
    BY <2>1
  <2> QED BY <2>1, <2>2 DEF Clean, ghosts
<1>2. pc # Closed /\ ~ Committing
  BY <1>1, OpenSteps DEF Committing
<1>3. CutsOf(manifest) = {recs} /\ LiveAfter(recs) = live /\ Latest(recs, "log") = wal
  <2>1. manifest.synced = Len(recs)
    BY <1>1 DEF Inner, AllSynced
  <2> QED BY <1>2, <2>1, CutsTyped DEF Inner, Committed
<1>4. PICK spared : logs' = [n \in spared \cup (DOMAIN logs \cap {wal}) |-> logs[n]]
                    /\ spared \in SUBSET (DOMAIN logs \ {wal})
  BY DEF Clean
<1>5. EntriesIn(logs', wal) = EntriesIn(logs, wal) /\ SecuredIn(logs', wal) = SecuredIn(logs, wal)
  <2>1. (wal \in DOMAIN logs <=> wal \in DOMAIN logs') /\ (wal \in DOMAIN logs => logs'[wal] = logs[wal])
    BY <1>4
  <2> QED BY <2>1 DEF EntriesIn, SecuredIn
<1>6. PICK kept : ssts' = [n \in kept \cup (DOMAIN ssts \cap live) |-> ssts[n]]
                  /\ kept \in SUBSET (DOMAIN ssts \ live)
  BY DEF Clean
<1>7. Content(ssts', live) = Content(ssts, live)
  <2>1. live \cap DOMAIN ssts' = live \cap DOMAIN ssts /\ \A n \in live \cap DOMAIN ssts : ssts'[n] = ssts[n]
    BY <1>6
  <2> QED BY <2>1 DEF Content
<1>8. /\ Held(recs, logs', ssts') = Held(recs, logs, ssts)
      /\ Safe(recs, logs', ssts') = Safe(recs, logs, ssts)
  BY <1>3, <1>5, <1>7 DEF Held, Safe
<1>9. Survives' /\ NothingPromised'
  <2>1. CutsAgree' /\ SureIsSafe'
    BY <1>1, <1>3, <1>8 DEF Survives, CutsAgree, SureIsSafe
  <2>2. NothingCreated' /\ NothingPromised'
    BY <1>1 DEF NothingCreated, NothingPromised
  <2> QED BY <2>1, <2>2 DEF Survives
<1>10. DiskContent' = DiskContent
  BY <1>1, <1>8, ContentIsHeld, NextContentIsHeld DEF Inner
<1>11. LogStep
  BY <1>1, <1>10, SureIsKept, PromiseStep DEF Survives
<1> QED BY <1>9, <1>11

\* A crash takes a tail of the writes, and none that was promised.
LEMMA CrashSurvives ==
  ASSUME Typed, Typed', Inner, Inner', Data, Data', GentleFaults, Survives, NothingPromised, Crash
  PROVE  Survives' /\ NothingPromised' /\ LogStep
<1> DEFINE recs == manifest.recs
           cut == manifest'.recs
           K == Held(recs, logs, ssts)
           L == Held(cut, logs', ssts)
<1>1. /\ pc' = <<"closed", "">> /\ UNCHANGED <<dir, ssts, issued, sure>>
      /\ manifest' \in Remains(manifest, "manifest" \in TornTails) /\ "manifest" \notin TornTails
  BY DEF Crash, GentleFaults, Closed, ghosts
<1>2. CutsOf(manifest') = {cut} /\ cut \in CutsOf(manifest) /\ recs \in CutsOf(manifest)
  <2>1. PICK n \in manifest.synced .. Len(manifest.recs) :
          manifest' = [recs |-> SubSeq(manifest.recs, 1, n), synced |-> n]
    BY <1>1 DEF Remains
  <2>2. manifest'.recs = SubSeq(manifest.recs, 1, n) /\ manifest'.synced = n
    BY <2>1
  <2> QED BY <2>2, CutsOfCut, CutsTyped DEF Inner
<1>3. PICK left \in [DOMAIN logs -> UNION {Remains(logs[m], "log" \in TornTails) : m \in DOMAIN logs}] :
        logs' = left /\ \A m \in DOMAIN logs : left[m] \in Remains(logs[m], "log" \in TornTails)
  BY DEF Crash
<1>4. DOMAIN logs' = DOMAIN logs
  BY <1>3
<1>5. \A m \in DOMAIN logs :
        /\ RecordsIn(logs'[m]) \subseteq RecordsIn(logs[m])
        /\ logs'[m].synced \in Nat /\ logs[m].synced \in Nat /\ logs[m].synced <= logs'[m].synced
        /\ \A i \in 1 .. logs[m].synced : logs'[m].recs[i] = logs[m].recs[i]
  <2> TAKE m \in DOMAIN logs
  <2>1. logs[m] \in LogFile /\ Sound(logs[m]) /\ logs'[m] \in Remains(logs[m], "log" \in TornTails)
    BY <1>3 DEF Typed, DiskTyped
  <2>2. ("log" \in TornTails) \in BOOLEAN /\ logs[m].synced \in Nat
    BY <2>1 DEF LogFile
  <2> QED BY <2>1, <2>2, CrashTakesTail
<1>6. \A n : EntriesIn(logs', n) \subseteq EntriesIn(logs, n) /\ SecuredIn(logs, n) \subseteq SecuredIn(logs', n)
  <2> TAKE n
  <2>1. EntriesIn(logs', n) \subseteq EntriesIn(logs, n)
    BY <1>4, <1>5 DEF EntriesIn
  <2>2. SecuredIn(logs, n) \subseteq SecuredIn(logs', n)
    BY <1>4, <1>5, SecuredGrows
  <2> QED BY <2>1, <2>2
<1>7. Held(cut, logs, ssts) = K
  BY <1>2 DEF Survives, CutsAgree
<1>8. L \subseteq K
  BY <1>6, <1>7 DEF Held
<1>9. sure \subseteq Safe(cut, logs', ssts)
  <2>1. sure \subseteq Safe(cut, logs, ssts)
    BY <1>2 DEF Survives, SureIsSafe
  <2> QED BY <1>6, <2>1 DEF Safe
<1>10. sure \subseteq L
  <2>1. \A n \in DOMAIN logs' : logs'[n] \in LogFile /\ Sound(logs'[n])
    BY DEF Typed, DiskTyped
  <2>2. Safe(cut, logs', ssts) \subseteq L
    BY <2>1, SafeIsHeld
  <2> QED BY <1>9, <2>2
<1>11. Survives' /\ NothingPromised'
  <2>1. CutsAgree' /\ SureIsSafe'
    BY <1>1, <1>2, <1>9 DEF CutsAgree, SureIsSafe
  <2>2. NothingCreated' /\ NothingPromised'
    BY <1>1 DEF NothingCreated, NothingPromised
  <2> QED BY <2>1, <2>2 DEF Survives
<1>12. CASE dir # "named"
  <2>1. DiskContent = {} /\ DiskContent' = {}
    BY <1>1, <1>12 DEF DiskContent
  <2> QED BY <1>1, <1>11, <2>1 DEF LogStep, Log!vars
<1>13. CASE dir = "named"
  <2>1. DiskContent = K /\ DiskContent' = L
    BY <1>1, <1>13, ContentIsHeld, NextContentIsHeld DEF Inner
  <2>2. PICK a \in Nat : Dense(K, a)
    <3>1. Sufficient(recs, logs, ssts, Latest(recs, "next")) /\ recs \in Seq(Edit)
      BY <1>2, CutsTyped DEF Data, CutsSuffice, Inner
    <3>2. LengthIn(logs, Latest(recs, "log")) \in Nat
          /\ Dense(K, Latest(recs, "seq") + LengthIn(logs, Latest(recs, "log")))
      BY <3>1, HeldIsDense DEF Typed, DiskTyped
    <3>3. Latest(recs, "seq") \in Nat
      BY <3>1, LatestType
    <3> QED BY <3>2, <3>3
  <2>3. PICK b \in Nat : Dense(L, b)
    <3>1. Sufficient(cut, logs', ssts', Latest(cut, "next")) /\ cut \in Seq(Edit)
      BY <1>2, CutsTyped DEF Data, CutsSuffice, Inner
    <3>2. /\ \A n \in DOMAIN logs' : logs'[n] \in LogFile
          /\ \A n \in DOMAIN ssts' : ssts'[n] \in SUBSET Entry
      BY DEF Typed, DiskTyped
    <3>3. LengthIn(logs', Latest(cut, "log")) \in Nat
          /\ Dense(Held(cut, logs', ssts'), Latest(cut, "seq") + LengthIn(logs', Latest(cut, "log")))
      BY <3>1, <3>2, HeldIsDense
    <3>4. Latest(cut, "seq") \in Nat
      BY <3>1, LatestType
    <3>5. Latest(cut, "seq") + LengthIn(logs', Latest(cut, "log")) \in Nat
      BY <3>3, <3>4
    <3>6. ssts' = ssts
      BY <1>1
    <3>7. Dense(L, Latest(cut, "seq") + LengthIn(logs', Latest(cut, "log")))
      BY <3>3, <3>6
    <3> HIDE DEF L, cut
    <3> QED BY <3>5, <3>7
  <2> HIDE DEF K, L
  <2>4. b <= a /\ L = {w \in K : w.seq <= b} /\ Cardinality(K) = a
    BY <1>8, <2>2, <2>3, TailOf, DenseCounts
  <2>5. b \in 0 .. Cardinality(K)
    BY <2>4
  <2>6. Log!Lose
    <3>1. sure \subseteq DiskContent' /\ DiskContent' = {w \in DiskContent : w.seq <= b}
      BY <1>10, <2>1, <2>4
    <3>2. b \in 0 .. Cardinality(DiskContent) /\ issued' = issued /\ sure' = sure
      BY <1>1, <2>1, <2>5
    <3> QED BY <3>1, <3>2, SameCardinality DEF Log!Lose
  <2> QED BY <1>11, <2>6 DEF LogStep, Log!Next
<1> QED BY <1>12, <1>13

\* A failure that loses nothing changes no file of a directory that has a name.
LEMMA IoErrorSurvives ==
  ASSUME Typed, Typed', Inner, LosslessFaults, Survives, NothingPromised, ~ Dead', IoError
  PROVE  Survives' /\ NothingPromised' /\ LogStep
<1>1. /\ pc \in Faults /\ pc \in Steps /\ pc # Closed /\ pc # Running
      /\ pc \notin {<<"recover", "append">>, <<"flush", "append">>, <<"compact", "append">>,
                    <<"flush", "sync">>, <<"compact", "sync">>}
      /\ pc \notin {<<"put", "append">>, <<"put", "sync">>, <<"flush", "sst">>, <<"flush", "log">>,
                    <<"flush", "old">>}
  BY FaultsAssumption DEF IoError, LosslessFaults, GentleFaults
<1>2. pc = <<pc[1], pc[2]>>
  BY <1>1, StepsShape
<1>3. UNCHANGED <<dir, ssts, issued, sure>>
  BY DEF IoError, ghosts
<1>4. pc # <<"put", "append">> => logs' = logs
  BY DEF IoError
<1>5. CASE pc[1] \in {"create", "recover", "close"}
  <2>1. pc' = Closed /\ dir # "unnamed"
    BY <1>3, <1>5 DEF IoError, Dead
  <2>2. pc # <<"create", "append">>
    BY <2>1 DEF Inner, NotYetNamed
  <2>3. pc[2] = "append" => pc[1] \in {"create", "recover"}
    BY <1>1, <1>5, StepsShape
  <2>4. pc[2] # "append"
    BY <1>1, <1>2, <2>2, <2>3
  <2>5. manifest' = manifest /\ logs' = logs
    BY <1>1, <1>4, <2>4 DEF IoError
  <2>6. pc'[1] # "create"
    BY <2>1 DEF Closed
  <2> QED BY <1>3, <2>5, <2>6, SameFiles
<1>6. CASE pc[1] \notin {"create", "recover", "close"}
  <2>1. pc = <<"compact", "sst">>
    <3>1. pc[1] \in {"put", "flush", "compact"}
      BY <1>1, <1>6, StepsShape
    <3>2. pc[1] = "put" => pc = <<"put", "append">> \/ pc = <<"put", "sync">>
      BY <1>1, <1>2, DiskSteps
    <3>3. pc[1] # "put"
      BY <1>1, <3>2
    <3>4. pc[1] = "flush" => pc[2] \in {"sst", "log", "old", "append", "sync"}
      BY <1>1, DiskSteps
    <3>5. pc[1] # "flush"
      BY <1>1, <1>2, <3>4
    <3>6. pc[1] = "compact" /\ pc[2] \in {"sst", "append", "sync"}
      BY <1>1, <3>1, <3>3, <3>5, DiskSteps
    <3> QED BY <1>1, <1>2, <3>6
  <2>2. pc' = <<"running", "">> /\ UNCHANGED <<manifest, logs>>
    BY <1>4, <1>6, <2>1 DEF IoError, Running
  <2>3. pc'[1] # "create"
    BY <2>2
  <2> QED BY <1>3, <2>2, <2>3, SameFiles
<1> QED BY <1>5, <1>6

\* A creation that ends without CURRENT, and what is left of it: it holds nothing.
LEMMA DeadSurvives ==
  ASSUME Dead \/ Data, Dead', NothingPromised, [Next]_vars
  PROVE  NothingPromised' /\ LogStep
<1>1. dir' = "unnamed" /\ pc' = Closed
  BY DEF Dead
<1>2. pc # Closed => At({"create"}, {"append", "sync", "current"}) \/ dir = "named"
  BY DEF Dead, Data, HasName
<1>3. dir # "named" /\ UNCHANGED <<issued, sure>>
  <2>1. CASE Crash \/ IoError
    BY <1>1, <2>1 DEF Crash, IoError, ghosts
  <2>2. CASE UNCHANGED vars
    BY <1>1, <2>2 DEF vars, disk, ghosts
  <2>3. CASE OpenNew \/ OpenExisting \/ Clean \/ WriteSst \/ MakeLog \/ AppendEdit \/ OpenLog
    BY <1>1, <2>3 DEF OpenNew, OpenExisting, Clean, WriteSst, MakeLog, AppendEdit, OpenLog, disk, ghosts
  <2>4. CASE BeginPut \/ SyncOldLog \/ BeginCompact \/ BeginClose
    BY <1>1, <2>4 DEF BeginPut, SyncOldLog, BeginCompact, BeginClose, disk, ghosts
  <2>5. ~ WriteCurrent
    BY <1>1 DEF WriteCurrent
  <2>6. ~ AppendWrite /\ ~ SyncWrite /\ ~ FinishClose
    <3>1. SUFFICES ASSUME pc \in {<<"put", "append">>, <<"put", "sync">>, <<"close", "sync">>}, dir' = dir
                   PROVE  FALSE
      BY DEF AppendWrite, SyncWrite, FinishClose
    <3>2. pc[1] \in {"put", "close"}
      BY <3>1
    <3>3. pc # Closed
      BY <3>2, OpenSteps
    <3> QED BY <1>1, <1>2, <3>1, <3>2, <3>3 DEF At
  <2>7. CASE SyncEdit
    <3>1. UNCHANGED <<dir, issued>> /\ (pc[1] # "flush" => sure' = sure)
      BY <2>7 DEF SyncEdit
    <3>2. pc[1] # "flush"
      <4>1. pc[1] = "flush" => pc # Closed
        BY OpenSteps
      <4> QED BY <1>1, <1>2, <3>1, <4>1 DEF At
    <3> QED BY <1>1, <3>1, <3>2
  <2> QED BY <2>1, <2>2, <2>3, <2>4, <2>5, <2>6, <2>7 DEF Next
<1>4. DiskContent = {} /\ DiskContent' = {}
  BY <1>1, <1>3 DEF DiskContent
<1> QED BY <1>3, <1>4 DEF NothingPromised, LogStep, Log!vars

----------------------------------------------------------------------------
(* The directory is a log *)

LEMMA SurviveStep ==
  ASSUME Typed, Typed', ClosedForgets, Inner, Inner', Data, Data', LosslessFaults, ~ Dead',
         Survives, NothingPromised, [Next]_vars
  PROVE  Survives' /\ NothingPromised' /\ LogStep
<1> DEFINE Result == Survives' /\ NothingPromised' /\ LogStep
<1> HIDE DEF Result
<1>1. GentleFaults
  BY DEF LosslessFaults
<1>2. OpenNew \/ OpenExisting \/ WriteCurrent => Result
  BY OpenSurvives DEF Result
<1>3. BeginPut \/ BeginClose \/ BeginCompact => Result
  BY BeginSurvives DEF Result
<1>4. WriteSst => Result
  BY SstSurvives DEF Result
<1>5. MakeLog \/ OpenLog \/ SyncOldLog => Result
  BY LogsSurvive DEF Result
<1>6. SyncWrite \/ FinishClose => Result
  BY SyncSurvives DEF Result
<1>7. AppendEdit => Result
  BY AppendSurvives DEF Result
<1>8. SyncEdit => Result
  BY CommitSurvives DEF Result
<1>9. AppendWrite => Result
  BY WriteSurvives DEF Result
<1>10. Clean => Result
  BY CleanSurvives DEF Result
<1>11. Crash => Result
  BY <1>1, CrashSurvives DEF Result
<1>12. IoError => Result
  BY IoErrorSurvives DEF Result
<1>13. UNCHANGED vars => Result
  <2> SUFFICES ASSUME UNCHANGED vars PROVE Result
    OBVIOUS
  <2>1. UNCHANGED <<dir, manifest, logs, ssts, issued, sure, pc, live>>
    BY DEF vars, disk, memory, ghosts
  <2>2. pc'[1] = "create" => live' = {}
    BY <2>1 DEF Survives, NothingCreated
  <2> QED BY <2>1, <2>2, SameFiles DEF Result
<1>14. Result
  BY <1>2, <1>3, <1>4, <1>5, <1>6, <1>7, <1>8, <1>9, <1>10, <1>11, <1>12, <1>13 DEF Next
<1> QED BY <1>14 DEF Result

LEMMA InitSurvives == Init => SInv
<1> SUFFICES ASSUME Init PROVE SInv
  OBVIOUS
<1>1. RInv
  BY InitIInv, InitData DEF RInv, DInv
<1>2. sure = {} /\ live = {} /\ manifest = EmptyFile
  BY DEF Init
<1>3. Typed /\ Inner
  BY <1>1, InitInner DEF RInv, IInv
<1>4. CutsOf(manifest) = {manifest.recs}
  <2>1. manifest.synced = Len(manifest.recs)
    BY <1>2, EmptySeq DEF EmptyFile
  <2> QED BY <1>3, <2>1, CutsTyped DEF Inner
<1>5. Survives
  BY <1>2, <1>4 DEF Survives, CutsAgree, SureIsSafe, NothingCreated
<1> QED BY <1>1, <1>2, <1>5 DEF SInv, NothingPromised

LEMMA NextSurvives ==
  ASSUME LosslessFaults, SInv, [Next]_vars
  PROVE  SInv' /\ LogStep
<1>1. RInv' /\ RInv
  BY NextRInv DEF SInv
<1>2. Typed /\ Typed' /\ ClosedForgets /\ NothingPromised
  BY <1>1 DEF SInv, RInv, IInv
<1>3. CASE Dead'
  <2>1. Dead \/ Data
    BY <1>1 DEF RInv, DInv
  <2>2. NothingPromised' /\ LogStep
    BY <1>2, <1>3, <2>1, DeadSurvives
  <2> QED BY <1>1, <1>3, <2>2 DEF SInv
<1>4. CASE ~ Dead'
  <2>1. ~ Dead
    BY <1>2, <1>4, DeadStep
  <2>2. Inner /\ Data /\ Survives
    BY <1>1, <2>1 DEF SInv, RInv, IInv, DInv
  <2>3. Inner' /\ Data'
    BY <1>1, <1>4 DEF RInv, IInv, DInv
  <2>4. Survives' /\ NothingPromised' /\ LogStep
    BY <1>2, <1>4, <2>2, <2>3, SurviveStep
  <2> QED BY <1>1, <2>4 DEF SInv
<1> QED BY <1>3, <1>4

LEMMA InductiveSurvives == ASSUME LosslessFaults PROVE Spec => []SInv
<1>1. Init => SInv
  BY InitSurvives
<1>2. SInv /\ [Next]_vars => SInv'
  BY NextSurvives
<1> QED BY <1>1, <1>2, PTL DEF Spec

\* What a synced put, a flush or a closing promised is found by every later opening (db.rs,
\* write, flush_memtable and drop), wherever the process crashes: at the disk operations
\* between, and with any part of what was not synced gone.
THEOREM PromisesAreKept == ASSUME LosslessFaults PROVE Spec => []AcknowledgedSurvives
<1>1. SInv => AcknowledgedSurvives
  <2> SUFFICES ASSUME SInv PROVE sure \subseteq DiskContent
    BY DEF AcknowledgedSurvives
  <2>1. CASE Dead
    BY <2>1 DEF SInv, NothingPromised, Dead
  <2>2. CASE ~ Dead
    BY <2>2, SureIsKept DEF SInv, RInv, IInv, Survives
  <2> QED BY <2>1, <2>2
<1> QED BY <1>1, InductiveSurvives, PTL

\* A directory is a log of writes (db.rs, write, flush_memtable, recover_open; version.rs,
\* write_new_version; wal.rs): writes go on it in order and without holes; a crash takes a
\* tail of it, and never a write that was promised by a synced put, a flush or a closing;
\* flushing, compacting, recovering and cleaning change nothing at any disk operation.
THEOREM DirectoryIsLog == ASSUME LosslessFaults PROVE Spec => ImplementsDurableLog
<1>1. Init => Log!Init
  BY DEF Init, Log!Init, DiskContent
<1>2. Init => SInv
  BY InitSurvives
<1>3. SInv /\ [Next]_vars => SInv' /\ LogStep
  BY NextSurvives
<1> QED BY <1>1, <1>2, <1>3, PTL DEF Spec, ImplementsDurableLog, Log!Spec, LogStep
=============================================================================
