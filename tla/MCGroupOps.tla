----------------------------- MODULE MCGroupOps -----------------------------
(* GroupOps for TLC: the calls are alike.                                  *)
EXTENDS GroupOps, TLC

Calls == Permutations(Call)
=============================================================================
