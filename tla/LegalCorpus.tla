---------------------------- MODULE LegalCorpus ----------------------------
(***************************************************************************)
(* The legal knowledge tables (src/src/persistence/models.py) and the two  *)
(* programs that write them:                                               *)
(*   - editors: transactions whose caller loads a Requirement, calls       *)
(*     supersede_requirement (src/src/legal/versioning.py) and commits;    *)
(*   - seeders: runs of scripts/seed_legal_corpus.py, which loads each     *)
(*     source document and each crosswalk framework in a transaction of    *)
(*     its own (src/src/legal/ingest.py) and may be killed between two.    *)
(* The database is read-committed: a transaction's rows become visible     *)
(* together at its commit, and an INSERT that would duplicate a unique key *)
(* waits for an uncommitted duplicate and fails on a committed one.        *)
(***************************************************************************)
EXTENDS Naturals, FiniteSets

CONSTANTS
    Keys,            \* requirement keys, stable across versions
    NSources,        \* number of source documents, ingested in order 1..NSources
    NFrameworks,     \* number of crosswalk frameworks, ingested after them
    SourceOf,        \* the source document whose seed list holds each key
    CrosswalkSeeds,  \* the keys each framework annotates (all its citations of a key as one)
    SeedConditions,  \* applicability conditions each key is seeded with
    SeedExceptions,  \* exceptions each key is seeded with
    Editors,         \* transactions that call supersede_requirement
    Seeders,         \* runs of the seed script
    MaxVersion,      \* bound: no requirement is amended past this version
    NoRow            \* NULL in superseded_by_id

Sources == 1..NSources
Frameworks == 1..NFrameworks

(***************************************************************************)
(* A row of the requirements table. Its primary key is a uuid4 drawn at    *)
(* the flush; the draw is abstracted to who inserts which version of which *)
(* key, so two transactions inserting the same version make two rows.      *)
(***************************************************************************)
Rows == [key: Keys, version: 1..MaxVersion, txn: Editors \cup Seeders]

ConditionValues == UNION {SeedConditions[k] : k \in Keys}
ExceptionValues == UNION {SeedExceptions[k] : k \in Keys}

ASSUME CorpusAssumption ==
    /\ NSources \in Nat \ {0}
    /\ NFrameworks \in Nat \ {0}
    /\ MaxVersion \in Nat \ {0}
    /\ SourceOf \in [Keys -> Sources]
    /\ CrosswalkSeeds \in [Frameworks -> SUBSET Keys]
    /\ \A k \in Keys : SeedConditions[k] # {}
    /\ Editors \cap Seeders = {}
    /\ NoRow \notin Rows

VARIABLES
    documents,     \* committed source_documents, by ingestion order
    rows,          \* committed requirements
    supersededBy,  \* superseded_by_id of each committed row
    conditions,    \* applicability_conditions of each committed row
    exceptions,    \* exceptions of each committed row
    provenance,    \* requirements with a ProvenanceRecord
    crosswalks,    \* number of framework_crosswalks rows per framework and row
    editor,        \* per editor: where it is, the object it loaded, what it read
    seeder         \* per seeder: where it is, and what it has resolved

corpus == <<documents, rows, supersededBy, conditions, exceptions, provenance, crosswalks>>
vars == <<documents, rows, supersededBy, conditions, exceptions, provenance, crosswalks,
          editor, seeder>>

-----------------------------------------------------------------------------
(* Queries: only committed rows, and only those not superseded. *)

Versions(k) == {r \in rows : r.key = k}
Live(k) == {r \in Versions(k) : supersededBy[r] = NoRow}

\* find_requirements joins applicability_conditions: a live row without any is not found
Found(k) == {r \in Live(k) : conditions[r] # {}}

\* seed_is_present: only the source documents are looked for
SeedIsPresent == documents = Sources

\* crosswalks_seeded: one row of the framework is enough
CrosswalksSeeded(f) == \E r \in rows : crosswalks[f][r] > 0

-----------------------------------------------------------------------------
(* Editors *)

IdleEditor == [pc |-> "idle", old |-> NoRow, saw |-> NoRow, copied |-> <<{}, {}>>]

NewRow(e) == [key |-> editor[e].old.key, version |-> editor[e].old.version + 1, txn |-> e]

SameVersion(r, s) == r.key = s.key /\ r.version = s.version

\* an editor whose INSERT is flushed and neither committed nor rolled back
InFlight(e) == editor[e].pc \in {"flushed", "linked"}

\* The caller loads a requirement; its session keeps that copy of superseded_by_id.
Load(e) ==
    /\ editor[e].pc = "idle"
    /\ \E r \in rows :
        /\ r.version < MaxVersion
        /\ editor' = [editor EXCEPT ![e] = [pc |-> "loaded", old |-> r,
                                            saw |-> supersededBy[r], copied |-> <<{}, {}>>]]
    /\ UNCHANGED <<corpus, seeder>>

\* ValueError: already superseded, says the loaded copy
RejectSuperseded(e) ==
    /\ editor[e].pc = "loaded"
    /\ editor[e].saw # NoRow
    /\ editor' = [editor EXCEPT ![e] = IdleEditor]
    /\ UNCHANGED <<corpus, seeder>>

\* Mutant: the insert without uq_requirement_key_version
FlushInsertUnconstrained(e) ==
    /\ editor[e].pc = "loaded"
    /\ editor[e].saw = NoRow
    /\ editor' = [editor EXCEPT ![e].pc = "flushed"]
    /\ UNCHANGED <<corpus, seeder>>

\* The first flush inserts version + 1: it must clash with no committed row and waits
\* for any transaction that has inserted the same version.
FlushInsert(e) ==
    /\ editor[e].pc = "loaded"
    /\ editor[e].saw = NoRow
    /\ \A r \in rows : ~SameVersion(r, NewRow(e))
    /\ \A other \in Editors \ {e} :
        InFlight(other) => ~SameVersion(NewRow(other), NewRow(e))
    /\ editor' = [editor EXCEPT ![e].pc = "flushed"]
    /\ UNCHANGED <<corpus, seeder>>

\* Mutant: the conflict is caught and the amendment retried with the same loaded row
InsertConflictRetried(e) ==
    /\ editor[e].pc = "loaded"
    /\ editor[e].saw = NoRow
    /\ \E r \in rows : SameVersion(r, NewRow(e))
    /\ UNCHANGED <<editor, corpus, seeder>>

\* IntegrityError: the version was committed by someone else since the load
InsertConflict(e) ==
    /\ editor[e].pc = "loaded"
    /\ editor[e].saw = NoRow
    /\ \E r \in rows : SameVersion(r, NewRow(e))
    /\ editor' = [editor EXCEPT ![e] = IdleEditor]
    /\ UNCHANGED <<corpus, seeder>>

\* Mutant: the copy of the applicability conditions is dropped
LinkWithoutConditions(e) ==
    /\ editor[e].pc = "flushed"
    /\ editor' = [editor EXCEPT ![e].pc = "linked",
                                ![e].copied = <<{}, exceptions[editor[e].old]>>]
    /\ UNCHANGED <<corpus, seeder>>

\* The second flush: the old row's conditions and exceptions are read and copied to the
\* new row, and old.superseded_by_id is set.
CopyAndLink(e) ==
    /\ editor[e].pc = "flushed"
    /\ editor' = [editor EXCEPT ![e].pc = "linked",
                                ![e].copied = <<conditions[editor[e].old],
                                                exceptions[editor[e].old]>>]
    /\ UNCHANGED <<corpus, seeder>>

\* Mutant: the amendment overwrites the row it replaces
CommitInPlace(e) ==
    LET old == editor[e].old  new == NewRow(e) IN
    /\ editor[e].pc = "linked"
    /\ rows' = (rows \ {old}) \cup {new}
    /\ supersededBy' = supersededBy
    /\ conditions' = [conditions EXCEPT ![new] = editor[e].copied[1]]
    /\ exceptions' = [exceptions EXCEPT ![new] = editor[e].copied[2]]
    /\ editor' = [editor EXCEPT ![e] = IdleEditor]
    /\ UNCHANGED <<documents, provenance, crosswalks, seeder>>

\* The caller commits: the new row, its conditions and exceptions and the link appear
\* together. No ProvenanceRecord and no FrameworkCrosswalk is written.
Commit(e) ==
    LET old == editor[e].old  new == NewRow(e) IN
    /\ editor[e].pc = "linked"
    /\ rows' = rows \cup {new}
    /\ supersededBy' = [supersededBy EXCEPT ![old] = new]
    /\ conditions' = [conditions EXCEPT ![new] = editor[e].copied[1]]
    /\ exceptions' = [exceptions EXCEPT ![new] = editor[e].copied[2]]
    /\ editor' = [editor EXCEPT ![e] = IdleEditor]
    /\ UNCHANGED <<documents, provenance, crosswalks, seeder>>

\* Any failure before the commit: the session closes and nothing was written.
Rollback(e) ==
    /\ editor[e].pc # "idle"
    /\ editor' = [editor EXCEPT ![e] = IdleEditor]
    /\ UNCHANGED <<corpus, seeder>>

-----------------------------------------------------------------------------
(* Seeders *)

IdleSeeder == [pc |-> "off", stage |-> 1, todo |-> {}, resolved |-> {}]

\* After source n comes source n + 1, after the last source the first framework, ...
NextStage(s) ==
    LET n == seeder[s].stage IN
    IF seeder[s].pc \in {"source", "ingest"}
    THEN IF n < NSources
         THEN [IdleSeeder EXCEPT !.pc = "source", !.stage = n + 1]
         ELSE [IdleSeeder EXCEPT !.pc = "framework"]
    ELSE IF n < NFrameworks
         THEN [IdleSeeder EXCEPT !.pc = "framework", !.stage = n + 1]
         ELSE [IdleSeeder EXCEPT !.pc = "done"]

\* main: do nothing if both source documents are there, else ingest_seed
SeedStart(s) ==
    /\ seeder[s].pc = "off"
    /\ seeder' = [seeder EXCEPT ![s] = [IdleSeeder EXCEPT !.pc = IF SeedIsPresent
                                                                  THEN "noop" ELSE "source"]]
    /\ UNCHANGED <<corpus, editor>>

\* ingest_seed called without that check, as scripts/demo.py and the tests do
IngestSeed(s) ==
    /\ seeder[s].pc = "off"
    /\ seeder' = [seeder EXCEPT ![s] = [IdleSeeder EXCEPT !.pc = "source"]]
    /\ UNCHANGED <<corpus, editor>>

\* _ingest_source: no-op if the document is already present
SourceProbe(s) ==
    /\ seeder[s].pc = "source"
    /\ seeder' = [seeder EXCEPT ![s] = IF seeder[s].stage \in documents
                                       THEN NextStage(s)
                                       ELSE [seeder[s] EXCEPT !.pc = "ingest"]]
    /\ UNCHANGED <<corpus, editor>>

SeedRow(k, s) == [key |-> k, version |-> 1, txn |-> s]

\* Mutant: the ingestion of a source commits its document before its requirements
SourceCommitDocumentOnly(s) ==
    LET d == seeder[s].stage IN
    /\ seeder[s].pc = "ingest"
    /\ d \notin documents
    /\ documents' = documents \cup {d}
    /\ seeder' = [seeder EXCEPT ![s] = NextStage(s)]
    /\ UNCHANGED <<rows, supersededBy, conditions, exceptions, provenance, crosswalks, editor>>

\* One transaction: the document, and version 1 of each of its requirements with its
\* conditions, exceptions and provenance.
SourceCommit(s) ==
    LET d == seeder[s].stage
        added == {SeedRow(k, s) : k \in {x \in Keys : SourceOf[x] = d}}
    IN
    /\ seeder[s].pc = "ingest"
    /\ d \notin documents
    /\ documents' = documents \cup {d}
    /\ rows' = rows \cup added
    /\ conditions' = [r \in Rows |-> IF r \in added THEN SeedConditions[r.key] ELSE conditions[r]]
    /\ exceptions' = [r \in Rows |-> IF r \in added THEN SeedExceptions[r.key] ELSE exceptions[r]]
    /\ provenance' = provenance \cup added
    /\ seeder' = [seeder EXCEPT ![s] = NextStage(s)]
    /\ UNCHANGED <<supersededBy, crosswalks, editor>>

\* IntegrityError: source_key is unique and another run committed it since the probe
SourceConflict(s) ==
    /\ seeder[s].pc = "ingest"
    /\ seeder[s].stage \in documents
    /\ seeder' = [seeder EXCEPT ![s] = IdleSeeder]
    /\ UNCHANGED <<corpus, editor>>

\* Mutant: _ingest_crosswalks without its no-op check
FrameworkProbeAlways(s) ==
    /\ seeder[s].pc = "framework"
    /\ seeder' = [seeder EXCEPT ![s].pc = "resolve",
                                ![s].todo = CrosswalkSeeds[seeder[s].stage]]
    /\ UNCHANGED <<corpus, editor>>

\* _ingest_crosswalks: no-op if the framework has a row, else one lookup per seed
FrameworkProbe(s) ==
    /\ seeder[s].pc = "framework"
    /\ seeder' = [seeder EXCEPT ![s] =
                    IF CrosswalksSeeded(seeder[s].stage)
                    THEN NextStage(s)
                    ELSE [seeder[s] EXCEPT !.pc = "resolve",
                                           !.todo = CrosswalkSeeds[seeder[s].stage]]]
    /\ UNCHANGED <<corpus, editor>>

\* .one(): the live row of the seed's key, or an exception that ends the run
ResolveTarget(s) ==
    /\ seeder[s].pc = "resolve"
    /\ \E k \in seeder[s].todo :
        \/ \E r \in Live(k) :
            /\ Live(k) = {r}
            /\ seeder' = [seeder EXCEPT ![s].todo = @ \ {k}, ![s].resolved = @ \cup {r}]
        \/ /\ \A r \in Live(k) : Live(k) # {r}
           /\ seeder' = [seeder EXCEPT ![s] = IdleSeeder]
    /\ UNCHANGED <<corpus, editor>>

\* Mutant: the rows are added but the session is closed without a commit
CrosswalkUncommitted(s) ==
    /\ seeder[s].pc = "resolve"
    /\ seeder[s].todo = {}
    /\ seeder' = [seeder EXCEPT ![s] = NextStage(s)]
    /\ UNCHANGED <<corpus, editor>>

\* One transaction: a row per seed, pointing at the requirement row the lookup returned
CrosswalkCommit(s) ==
    /\ seeder[s].pc = "resolve"
    /\ seeder[s].todo = {}
    /\ crosswalks' = [crosswalks EXCEPT ![seeder[s].stage] =
                        [r \in Rows |-> IF r \in seeder[s].resolved THEN @[r] + 1 ELSE @[r]]]
    /\ seeder' = [seeder EXCEPT ![s] = NextStage(s)]
    /\ UNCHANGED <<documents, rows, supersededBy, conditions, exceptions, provenance, editor>>

\* The run returned and is forgotten, or the process died: its open transaction is lost.
SeedEnd(s) ==
    /\ seeder[s].pc # "off"
    /\ seeder' = [seeder EXCEPT ![s] = IdleSeeder]
    /\ UNCHANGED <<corpus, editor>>

-----------------------------------------------------------------------------
Init ==
    /\ documents = {}
    /\ rows = {}
    /\ supersededBy = [r \in Rows |-> NoRow]
    /\ conditions = [r \in Rows |-> {}]
    /\ exceptions = [r \in Rows |-> {}]
    /\ provenance = {}
    /\ crosswalks = [f \in Frameworks |-> [r \in Rows |-> 0]]
    /\ editor = [e \in Editors |-> IdleEditor]
    /\ seeder = [s \in Seeders |-> IdleSeeder]

EditorNext(e) ==
    \/ Load(e) \/ RejectSuperseded(e) \/ FlushInsert(e) \/ InsertConflict(e)
    \/ CopyAndLink(e) \/ Commit(e) \/ Rollback(e)

SeederNext(s) ==
    \/ SeedStart(s) \/ IngestSeed(s) \/ SourceProbe(s) \/ SourceCommit(s) \/ SourceConflict(s)
    \/ FrameworkProbe(s) \/ ResolveTarget(s) \/ CrosswalkCommit(s) \/ SeedEnd(s)

Next == (\E e \in Editors : EditorNext(e)) \/ (\E s \in Seeders : SeederNext(s))

Spec == Init /\ [][Next]_vars

(***************************************************************************)
(* Fairness: a call that has started is run to its end by its thread, so   *)
(* its non-blocking steps are weakly fair; the insert may wait for another *)
(* transaction's row, and the database serves lock waiters in turn.        *)
(***************************************************************************)
EditorFairness(e) ==
    /\ WF_vars(RejectSuperseded(e))
    /\ WF_vars(InsertConflict(e))
    /\ SF_vars(FlushInsert(e))
    /\ WF_vars(CopyAndLink(e))
    /\ WF_vars(Commit(e))

FairSpec == Spec /\ \A e \in Editors : EditorFairness(e)

-----------------------------------------------------------------------------
(* Properties *)

Copies == (SUBSET ConditionValues) \X (SUBSET ExceptionValues)

EditorStates ==
    [pc: {"idle", "loaded", "flushed", "linked"}, old: Rows \cup {NoRow},
     saw: Rows \cup {NoRow}, copied: Copies]

SeederStates ==
    {st \in [pc: {"off", "noop", "source", "ingest", "framework", "resolve", "done"},
             stage: Sources \cup Frameworks, todo: SUBSET Keys, resolved: SUBSET Rows] :
        /\ st.pc \in {"source", "ingest"} => st.stage \in Sources
        /\ st.pc \in {"framework", "resolve"} => st.stage \in Frameworks}

\* The type invariant of the tables and of the two programs' local state.
TypeOK ==
    /\ documents \subseteq Sources
    /\ rows \subseteq Rows
    /\ supersededBy \in [Rows -> Rows \cup {NoRow}]
    /\ conditions \in [Rows -> SUBSET ConditionValues]
    /\ exceptions \in [Rows -> SUBSET ExceptionValues]
    /\ provenance \subseteq Rows
    /\ crosswalks \in [Frameworks -> [Rows -> Nat]]
    /\ editor \in [Editors -> EditorStates]
    /\ seeder \in [Seeders -> SeederStates]

\* Whatever amendments race, a requirement whose source is ingested always has exactly
\* one live version: the one find_requirement_by_key's .first() returns and the seeders'
\* .one() insists on.
OneLiveVersion ==
    \A k \in Keys : SourceOf[k] \in documents => \E r \in rows : Live(k) = {r}

\* The versions of a requirement form one chain: no version number is taken twice, and a
\* row that is not the newest points at the row with the next version of the same key.
VersionChain ==
    /\ \A r, s \in rows : SameVersion(r, s) => r = s
    /\ \A r \in rows : supersededBy[r] # NoRow =>
        /\ supersededBy[r] \in rows
        /\ supersededBy[r].key = r.key
        /\ supersededBy[r].version = r.version + 1
    /\ \A r, s \in rows : (r.key = s.key /\ r.version < s.version) => supersededBy[r] # NoRow

\* An amendment keeps the requirement applicable to what it applied to: the live version
\* has the conditions and exceptions of the seed, so find_requirements still returns it.
ApplicabilityCarriedForward ==
    \A k \in Keys : SourceOf[k] \in documents =>
        /\ Found(k) = Live(k)
        /\ \A r \in Live(k) : conditions[r] = SeedConditions[k] /\ exceptions[r] = SeedExceptions[k]

\* A source document is committed together with all of its requirements or not at all.
SourceAllOrNothing ==
    \A k \in Keys : (SourceOf[k] \in documents) <=> (Versions(k) # {})

\* A law update never overwrites history: a committed version stays, and once it has
\* been superseded it is superseded by the same row for ever.
HistoryAppendOnly ==
    [][ /\ rows \subseteq rows'
        /\ \A r \in rows : supersededBy[r] # NoRow => supersededBy'[r] = supersededBy[r] ]_vars

\* A run that goes through ingest_seed to its end leaves every source document ingested
\* and every crosswalk seed loaded on some version of its requirement.
SeedRunCompletes ==
    \A s \in Seeders : seeder[s].pc = "done" =>
        /\ SeedIsPresent
        /\ \A f \in Frameworks : \A k \in CrosswalkSeeds[f] :
            \E r \in Versions(k) : crosswalks[f][r] > 0

\* Crashed and repeated runs of one seed script load no crosswalk twice.
NoDuplicateCrosswalk ==
    \A f \in Frameworks : \A r, s \in rows :
        (r.key = s.key /\ crosswalks[f][r] > 0 /\ crosswalks[f][s] > 0)
            => r = s /\ crosswalks[f][r] = 1

\* A supersession that has started ends: by its commit, its rejection or its conflict,
\* also when it had to wait for another one.
AmendmentsConclude == \A e \in Editors : editor[e].pc # "idle" ~> editor[e].pc = "idle"

\* The tables, their links and their transactions implement a law book: entries are made
\* source by source, one version of each requirement is in force with the conditions it
\* was seeded with, amendments come one after the other, and nothing is struck out.
VersionsOnFile(k) == {r.version : r \in Versions(k)}

TextInForce(k) ==
    LET r == CHOOSE r \in Live(k) : TRUE IN
    IF Live(k) = {} THEN NoRow
    ELSE [version |-> r.version, conditions |-> conditions[r], exceptions |-> exceptions[r]]

Book == INSTANCE LawBook WITH
            entered <- documents,
            onFile <- [k \in Keys |-> VersionsOnFile(k)],
            inForce <- [k \in Keys |-> TextInForce(k)],
            NotEntered <- NoRow

ImplementsLawBook == Book!Spec

-----------------------------------------------------------------------------
(* Statements of the repository that the code does not keep. *)

\* scripts/seed_legal_corpus.py: "Legal corpus already seeded -- no-op."
NoopMeansSeeded ==
    \A s \in Seeders : seeder[s].pc = "noop" =>
        \A f \in Frameworks : \A k \in CrosswalkSeeds[f] :
            \E r \in Versions(k) : crosswalks[f][r] > 0

\* README: each obligation is crosswalked, and the crosswalk is shown with the
\* obligation: once loaded it is found through the live version.
CrosswalkSurvivesAmendment ==
    \A f \in Frameworks : \A k \in Keys :
        (\E r \in Versions(k) : crosswalks[f][r] > 0)
            => \A r \in Live(k) : crosswalks[f][r] > 0

=============================================================================
