------------------------------ MODULE LawBook ------------------------------
(***************************************************************************)
(* What src/src/legal/ promises the rest of the program: the law is a book *)
(* in which a whole source is entered at once, every requirement has one   *)
(* text in force, an amendment puts the next version in its place without  *)
(* touching what the requirement applies to, and no version is ever taken  *)
(* out.  There are no rows, links, transactions or runs of a script here:  *)
(* that is LegalCorpus.tla.                                                *)
(***************************************************************************)
EXTENDS Naturals

CONSTANTS
    Keys,
    Sources,
    SourceOf,        \* the source a requirement is from
    SeedConditions,  \* what it applies to
    SeedExceptions,  \* and what it does not apply to
    MaxVersion,      \* bound: no requirement is amended past this version
    NotEntered       \* nothing in force: the source is not in the book yet

VARIABLES
    entered,   \* the sources in the book
    onFile,    \* per requirement, the versions in the book
    inForce    \* per requirement, the version in force, its conditions and exceptions

vars == <<entered, onFile, inForce>>

Init ==
    /\ entered = {}
    /\ onFile = [k \in Keys |-> {}]
    /\ inForce = [k \in Keys |-> NotEntered]

\* A source is entered: all of its requirements, each in its first version.
Enter(d) ==
    /\ d \notin entered
    /\ entered' = entered \cup {d}
    /\ onFile' = [k \in Keys |-> IF SourceOf[k] = d THEN {1} ELSE onFile[k]]
    /\ inForce' = [k \in Keys |-> IF SourceOf[k] = d
                                  THEN [version |-> 1, conditions |-> SeedConditions[k],
                                        exceptions |-> SeedExceptions[k]]
                                  ELSE inForce[k]]

\* The next version of a requirement comes into force; the earlier ones stay on file.
Amend(k) ==
    /\ SourceOf[k] \in entered
    /\ inForce[k].version < MaxVersion
    /\ inForce' = [inForce EXCEPT ![k].version = @ + 1]
    /\ onFile' = [onFile EXCEPT ![k] = @ \cup {inForce[k].version + 1}]
    /\ UNCHANGED entered

Next == (\E d \in Sources : Enter(d)) \/ (\E k \in Keys : Amend(k))

Spec == Init /\ [][Next]_vars

=============================================================================
