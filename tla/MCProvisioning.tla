--------------------------- MODULE MCProvisioning ---------------------------
(* Two systems, two runs of the script, and one upgrade, downgrade and upgrade. *)
EXTENDS Provisioning, TLC

Symmetry == Permutations(Systems) \cup Permutations(Runs) \cup Permutations(Emails)
=============================================================================
