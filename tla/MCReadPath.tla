----------------------------- MODULE MCReadPath -----------------------------
(***************************************************************************)
(* Instances of ReadPath for TLC: readers are interchangeable.             *)
(***************************************************************************)
EXTENDS ReadPath, TLC

Symmetry == Permutations(Readers)
=============================================================================
