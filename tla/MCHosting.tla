----------------------------- MODULE MCHosting -----------------------------
(* Hosting for TLC: the workers are alike.                                 *)
EXTENDS Hosting, TLC

Workers == Permutations(Worker)

(* Nothing is asked once old credentials have been written.                *)
NotSpoilt == ~spoilt
=============================================================================
