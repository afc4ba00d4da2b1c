----------------------------- MODULE MCSession -----------------------------
(* Session for TLC: all objects of one kind are alike. *)
EXTENDS Session, TLC

Objects == Permutations(Ctx) \cup Permutations(Sock) \cup Permutations(Task)
=============================================================================
