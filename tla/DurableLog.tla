----------------------------- MODULE DurableLog -----------------------------
(***************************************************************************)
(* What a mulan-lsm directory promises across crashes, with no trace of    *)
(* files: the writes it holds, in order and without holes.  A crash takes  *)
(* away a tail of them, never one that was promised.  A write is its place *)
(* in the order and an identity, because after a loss the next write takes *)
(* the place, that is the sequence number, of a lost one.                  *)
(***************************************************************************)
EXTENDS Integers, FiniteSets

VARIABLES kept,    \* the writes the directory holds: a set of [seq, id]
          sure,    \* those of them that were promised
          issued   \* how many writes were ever begun: the identity of the last

vars == <<kept, sure, issued>>

Init ==
  /\ kept = {}
  /\ sure = {}
  /\ issued = 0

Append ==
  /\ kept' = kept \cup {[seq |-> Cardinality(kept) + 1, id |-> issued + 1]}
  /\ issued' = issued + 1
  /\ UNCHANGED sure

Promise ==
  /\ sure \subseteq sure' /\ sure' \subseteq kept
  /\ UNCHANGED <<kept, issued>>

Lose ==
  /\ \E n \in 0 .. Cardinality(kept) : kept' = {w \in kept : w.seq <= n}
  /\ sure \subseteq kept'
  /\ UNCHANGED <<sure, issued>>

Next == Append \/ Promise \/ Lose

Spec == Init /\ [][Next]_vars
=============================================================================
