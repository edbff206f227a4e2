------------------------------ MODULE KVStore ------------------------------
(***************************************************************************)
(* What a mulan-lsm database promises its user, with no trace of how it is *)
(* stored: one value per key, the number of writes so far, and the frozen  *)
(* copies of the whole map that registered snapshots pin.  LsmTree         *)
(* implements this specification; flushes and compactions are stuttering   *)
(* steps of it.                                                            *)
(***************************************************************************)
EXTENDS Naturals

CONSTANTS Keys,     \* user keys
          Values,   \* what Put may store
          Absent    \* what a read of a key that is not there returns

VARIABLES db,       \* db[k]: the latest value of k, or Absent
          clock,    \* how many writes there have been: the last sequence number
          pins      \* the registered snapshots: when each was taken, what it sees

vars == <<db, clock, pins>>

View == [Keys -> Values \cup {Absent}]

Init ==
  /\ db = [k \in Keys |-> Absent]
  /\ clock = 0
  /\ pins = {}

Put(k, v) ==
  /\ db' = [db EXCEPT ![k] = v]
  /\ clock' = clock + 1
  /\ UNCHANGED pins

Delete(k) ==
  /\ db' = [db EXCEPT ![k] = Absent]
  /\ clock' = clock + 1
  /\ UNCHANGED pins

\* A snapshot sees the map of this moment for as long as it is registered.
NewSnapshot ==
  /\ pins' = pins \cup {[at |-> clock, view |-> db]}
  /\ UNCHANGED <<db, clock>>

ReleaseSnapshot(p) ==
  /\ pins' = pins \ {p}
  /\ UNCHANGED <<db, clock>>

\* Snapshots do not outlive the process; the map does.
Reopen ==
  /\ pins' = {}
  /\ UNCHANGED <<db, clock>>

Next ==
  \/ \E k \in Keys, v \in Values : Put(k, v)
  \/ \E k \in Keys : Delete(k)
  \/ NewSnapshot
  \/ \E p \in pins : ReleaseSnapshot(p)
  \/ Reopen

Spec == Init /\ [][Next]_vars
=============================================================================
