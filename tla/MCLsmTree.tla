----------------------------- MODULE MCLsmTree -----------------------------
(***************************************************************************)
(* Instances of LsmTree for TLC.  Guards are interchangeable; keys are     *)
(* not: the code orders them.  Only the order of the file numbers of a     *)
(* level has an effect, and every new number is larger than all before, so *)
(* states that differ in the numbers alone are explored once.  This also   *)
(* makes the state space finite: every reopening takes numbers.            *)
(***************************************************************************)
EXTENDS LsmTree, TLC

Symmetry == Permutations(Values) \cup Permutations(Guards)

ListOf(level) ==
  {<<Cardinality({g \in files[level] : g.num < f.num}), f.ents>> : f \in files[level]}

UpToNumbers ==
  <<mem, [level \in Levels |-> ListOf(level)], pointer, lastSeq, snapshots, guard>>
=============================================================================
