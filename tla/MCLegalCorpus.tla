--------------------------- MODULE MCLegalCorpus ---------------------------
(* Constants of the small corpora that TLC checks. *)
EXTENDS LegalCorpus, TLC

CONSTANTS k1, k2, c1, c2, x1

\* The first source holds k1 and the second k2, as the AI Act and the GDPR do.
MCSourceOf == [k \in Keys |-> IF k = k1 THEN 1 ELSE NSources]

\* The first framework annotates every key, the second only k1.
MCCrosswalkSeeds == [f \in Frameworks |-> IF f = 1 THEN Keys ELSE {k1}]

MCSeedConditions == [k \in Keys |-> IF k = k1 THEN {c1} ELSE {c2}]
MCSeedExceptions == [k \in Keys |-> IF k = k1 THEN {x1} ELSE {}]

Symmetry == Permutations(Editors) \cup Permutations(Seeders)
=============================================================================
