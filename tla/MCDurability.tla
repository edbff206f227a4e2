---------------------------- MODULE MCDurability ----------------------------
(***************************************************************************)
(* Instances of Durability for TLC: which disk operations may fail.        *)
(***************************************************************************)
EXTENDS Durability

\* The failures the code recovers from: any disk operation of an opening once CURRENT
\* is there, the writing of a compacted file, the sync of a closing.
Survivable ==
  {<<"create", "append">>, <<"create", "log">>, <<"recover", "sst">>, <<"recover", "log">>,
   <<"recover", "sync">>, <<"recover", "open">>, <<"recover", "clean">>,
   <<"compact", "sst">>, <<"close", "sync">>}

\* The manifest acts only through the Version that its synced part replays to and the
\* records after it; an SSTable only if one of these names it; a log only if one of them
\* names it or its number may be given out again.  States that differ in the rest alone
\* are explored once.  This holds where no record of the manifest is ever torn.
SyncedVersion == Replay(Readable([manifest EXCEPT !.recs = SubSeq(@, 1, manifest.synced)]))

Named == live \cup edit.add \cup SyncedVersion.live \cup OnDisk.live

NamedLogs == {wal, edit.log, OnDisk.log} \cup {n \in DOMAIN logs : n >= SyncedVersion.next}
               \cup {SyncedVersion.log}

UpToHistory ==
  <<dir, SyncedVersion, SubSeq(manifest.recs, manifest.synced + 1, Len(manifest.recs)),
    [n \in DOMAIN logs \cap NamedLogs |-> logs[n]],
    [n \in DOMAIN ssts \cap Named |-> ssts[n]], pc, memory, ghosts>>

None == {}

FlushLogFails == {<<"flush", "log">>}
=============================================================================
