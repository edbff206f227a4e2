------------------------------- MODULE Powers -------------------------------
(***************************************************************************)
(* Powers of numbers, written as a recursion that proofs can unfold.       *)
(***************************************************************************)
EXTENDS Integers

\* b to the power n.
Power(b, n) ==
  LET p[i \in 0..n] == IF i = 0 THEN 1 ELSE b * p[i - 1]
  IN p[n]
=============================================================================
