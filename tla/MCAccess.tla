----------------------------- MODULE MCAccess -----------------------------
(* Small windows and limits, different for the limiters. *)
EXTENDS Access, TLC

MCWindow == [shared |-> 2, login |-> 3]
MCMaxRequests == [shared |-> 2, login |-> 1]
Symmetry == Permutations(Keys)
=============================================================================
