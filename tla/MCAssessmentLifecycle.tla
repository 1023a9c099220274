----------------------- MODULE MCAssessmentLifecycle -----------------------
(* Symmetry of the small instances that TLC checks. *)
EXTENDS AssessmentLifecycle, TLC

Symmetry == Permutations(Tabs) \cup Permutations(Names)
=============================================================================
