---------------------------- MODULE MCWorkspaces ----------------------------
(* Two tenants; ann and bob write for one, cat for the other, where vic only reads. *)
EXTENDS Workspaces, TLC

CONSTANTS acme, globex, ann, bob, cat, vic

MCTenantOf == (ann :> acme) @@ (bob :> acme) @@ (cat :> globex) @@ (vic :> globex)
Alike == Permutations(Requests) \cup Permutations({ann, bob})

=============================================================================
