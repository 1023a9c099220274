------------------------- MODULE LegalCorpusProofs -------------------------
(***************************************************************************)
(* Proofs about LegalCorpus for every set of keys, sources, frameworks,    *)
(* editors and seeders and every bound on versions.                        *)
(***************************************************************************)
EXTENDS LegalCorpus, FiniteSetTheorems, TLAPS

USE CorpusAssumption

(***************************************************************************)
(* The inductive invariant. VersionChain alone is not inductive: a commit  *)
(* preserves it because the version it adds is held by no committed row    *)
(* and by no other open transaction (InsertReserved), and because the row  *)
(* it replaces is still there (OldCommitted).                              *)
(***************************************************************************)
OldCommitted ==
    \A e \in Editors : editor[e].pc # "idle" =>
        editor[e].old \in rows /\ editor[e].old.version < MaxVersion

InsertReserved ==
    \A e \in Editors : InFlight(e) =>
        /\ \A r \in rows : ~SameVersion(r, NewRow(e))
        /\ \A other \in Editors \ {e} :
            InFlight(other) => ~SameVersion(NewRow(other), NewRow(e))

CopiedFaithfully ==
    \A e \in Editors : editor[e].pc = "linked" =>
        editor[e].copied = <<SeedConditions[editor[e].old.key], SeedExceptions[editor[e].old.key]>>

UnwrittenRowsBlank == \A r \in Rows \ rows : supersededBy[r] = NoRow

LiveExists ==
    \A k \in Keys : SourceOf[k] \in documents =>
        \E r \in rows : r.key = k /\ supersededBy[r] = NoRow

ConditionsKept ==
    \A r \in rows : conditions[r] = SeedConditions[r.key] /\ exceptions[r] = SeedExceptions[r.key]

IInv ==
    /\ TypeOK
    /\ OldCommitted
    /\ InsertReserved
    /\ CopiedFaithfully
    /\ UnwrittenRowsBlank
    /\ LiveExists
    /\ ConditionsKept
    /\ VersionChain
    /\ SourceAllOrNothing

-----------------------------------------------------------------------------
(* Lemmas about the operators *)

\* The stage that follows a stage of the seed is again a state of a seeder.
LEMMA NextStageType ==
    ASSUME TypeOK, NEW s \in Seeders
    PROVE  NextStage(s) \in SeederStates
  <1> DEFINE n == seeder[s].stage
  <1>1. seeder[s] \in SeederStates
    BY DEF TypeOK
  <1>2. n \in Nat /\ 1 \in Sources /\ 1 \in Frameworks
    BY <1>1 DEF SeederStates, Sources, Frameworks
  <1>3. n < NSources => n + 1 \in Sources
    BY <1>1, <1>2 DEF SeederStates, Sources, Frameworks
  <1>4. n < NFrameworks => n + 1 \in Frameworks
    BY <1>1, <1>2 DEF SeederStates, Sources, Frameworks
  <1> HIDE DEF n
  <1>5. QED
    BY <1>2, <1>3, <1>4 DEF NextStage, IdleSeeder, SeederStates, n

\* The row an editor inserts is a row, if the version it loaded may be amended.
LEMMA NewRowType ==
    ASSUME TypeOK, OldCommitted, NEW e \in Editors, editor[e].pc # "idle"
    PROVE  /\ NewRow(e) \in Rows
           /\ editor[e].old \in Rows
           /\ NewRow(e).key = editor[e].old.key
           /\ NewRow(e).version = editor[e].old.version + 1
  BY DEF TypeOK, OldCommitted, NewRow, Rows

\* An open amendment's old row has not been superseded: its next version would be
\* committed, and that is the version the amendment has reserved.
LEMMA OldIsLive ==
    ASSUME IInv, NEW e \in Editors, InFlight(e)
    PROVE  supersededBy[editor[e].old] = NoRow
  <1>1. editor[e].pc # "idle" /\ editor[e].old \in rows
    BY DEF IInv, InFlight, OldCommitted
  <1>2. NewRow(e).key = editor[e].old.key /\ NewRow(e).version = editor[e].old.version + 1
    BY <1>1, NewRowType DEF IInv
  <1>3. QED
    BY <1>1, <1>2 DEF IInv, InsertReserved, VersionChain, SameVersion

\* ... and it is the newest version of its key.
LEMMA OldIsNewest ==
    ASSUME IInv, NEW e \in Editors, InFlight(e),
           NEW r \in rows, r.key = editor[e].old.key
    PROVE  r.version <= editor[e].old.version
  <1>1. editor[e].old \in rows
    BY DEF IInv, InFlight, OldCommitted
  <1>2. supersededBy[editor[e].old] = NoRow
    BY OldIsLive
  <1>3. r.version \in Nat /\ editor[e].old.version \in Nat
    BY <1>1 DEF IInv, TypeOK, Rows
  <1>4. ~(editor[e].old.version < r.version)
    BY <1>1, <1>2 DEF IInv, VersionChain
  <1>5. QED
    BY <1>3, <1>4

-----------------------------------------------------------------------------
(* The invariant is established and preserved *)

LEMMA InitIInv == Init => IInv
  <1> SUFFICES ASSUME Init PROVE IInv
    OBVIOUS
  <1>1. TypeOK
    <2>1. IdleEditor \in EditorStates
      BY DEF IdleEditor, EditorStates, Copies
    <2>2. IdleSeeder \in SeederStates
      BY DEF IdleSeeder, SeederStates, Sources
    <2>3. QED
      BY <2>1, <2>2 DEF Init, TypeOK
  <1>2. OldCommitted /\ InsertReserved /\ CopiedFaithfully
    BY DEF Init, OldCommitted, InsertReserved, CopiedFaithfully, InFlight, IdleEditor
  <1>3. UnwrittenRowsBlank /\ LiveExists /\ ConditionsKept /\ VersionChain /\ SourceAllOrNothing
    BY DEF Init, UnwrittenRowsBlank, LiveExists, ConditionsKept, VersionChain,
           SourceAllOrNothing, Versions
  <1>4. QED
    BY <1>1, <1>2, <1>3 DEF IInv

\* A step that only moves a seeder keeps the invariant.
LEMMA SeederLocalStep ==
    ASSUME IInv, UNCHANGED <<corpus, editor>>, seeder' \in [Seeders -> SeederStates]
    PROVE  IInv'
  <1>1. /\ documents' = documents /\ rows' = rows /\ supersededBy' = supersededBy
        /\ conditions' = conditions /\ exceptions' = exceptions
        /\ provenance' = provenance /\ crosswalks' = crosswalks /\ editor' = editor
    BY DEF corpus
  <1>2. TypeOK'
    BY <1>1 DEF IInv, TypeOK
  <1>3. (OldCommitted /\ InsertReserved /\ CopiedFaithfully)'
    BY <1>1 DEF IInv, OldCommitted, InsertReserved, CopiedFaithfully, InFlight, NewRow
  <1>4. (UnwrittenRowsBlank /\ LiveExists /\ ConditionsKept)'
    BY <1>1 DEF IInv, UnwrittenRowsBlank, LiveExists, ConditionsKept
  <1>5. (VersionChain /\ SourceAllOrNothing)'
    BY <1>1 DEF IInv, VersionChain, SourceAllOrNothing, Versions
  <1>6. QED
    BY <1>2, <1>3, <1>4, <1>5 DEF IInv

\* A step that only moves an editor keeps what is said of the tables.
LEMMA EditorLocalStep ==
    ASSUME IInv, UNCHANGED <<corpus, seeder>>,
           editor' \in [Editors -> EditorStates],
           OldCommitted', InsertReserved', CopiedFaithfully'
    PROVE  IInv'
  <1>1. /\ documents' = documents /\ rows' = rows /\ supersededBy' = supersededBy
        /\ conditions' = conditions /\ exceptions' = exceptions
        /\ provenance' = provenance /\ crosswalks' = crosswalks /\ seeder' = seeder
    BY DEF corpus
  <1>2. TypeOK'
    BY <1>1 DEF IInv, TypeOK
  <1>3. (UnwrittenRowsBlank /\ LiveExists /\ ConditionsKept)'
    BY <1>1 DEF IInv, UnwrittenRowsBlank, LiveExists, ConditionsKept
  <1>4. (VersionChain /\ SourceAllOrNothing)'
    BY <1>1 DEF IInv, VersionChain, SourceAllOrNothing, Versions
  <1>5. QED
    BY <1>2, <1>3, <1>4 DEF IInv

\* An editor that returns to idle (rejected, in conflict, rolled back) releases what it held.
LEMMA EditorIdles ==
    ASSUME IInv, NEW e \in Editors,
           editor' = [editor EXCEPT ![e] = IdleEditor], UNCHANGED <<corpus, seeder>>
    PROVE  IInv'
  <1>1. IdleEditor \in EditorStates /\ IdleEditor.pc = "idle"
    BY DEF IdleEditor, EditorStates, Copies
  <1>2. editor \in [Editors -> EditorStates] /\ rows' = rows
    BY DEF IInv, TypeOK, corpus
  <1>3. editor' \in [Editors -> EditorStates]
    BY <1>1, <1>2
  <1>4. /\ editor'[e].pc = "idle"
        /\ \A d \in Editors \ {e} : editor'[d] = editor[d]
    BY <1>1, <1>2
  <1>5. OldCommitted' /\ CopiedFaithfully'
    BY <1>2, <1>4 DEF IInv, OldCommitted, CopiedFaithfully
  <1>6. InsertReserved'
    BY <1>2, <1>4 DEF IInv, InsertReserved, InFlight, NewRow
  <1>7. QED
    BY <1>3, <1>5, <1>6, EditorLocalStep

LEMMA LoadKeepsIInv ==
    ASSUME IInv, NEW e \in Editors, Load(e)
    PROVE  IInv'
  <1>1. PICK r \in rows :
            /\ r.version < MaxVersion
            /\ editor' = [editor EXCEPT ![e] = [pc |-> "loaded", old |-> r,
                                                saw |-> supersededBy[r], copied |-> <<{}, {}>>]]
    BY DEF Load
  <1> DEFINE st == [pc |-> "loaded", old |-> r, saw |-> supersededBy[r], copied |-> <<{}, {}>>]
  <1>2. UNCHANGED <<corpus, seeder>> /\ rows' = rows
    BY DEF Load, corpus
  <1>3. r \in Rows /\ supersededBy[r] \in Rows \cup {NoRow}
    BY DEF IInv, TypeOK
  <1>4. st \in EditorStates
    BY <1>3 DEF EditorStates, Copies
  <1>5. editor \in [Editors -> EditorStates]
    BY DEF IInv, TypeOK
  <1>6. editor' \in [Editors -> EditorStates]
    BY <1>1, <1>4, <1>5
  <1>7. /\ editor'[e].pc = "loaded" /\ editor'[e].old = r
        /\ \A d \in Editors \ {e} : editor'[d] = editor[d]
    BY <1>1, <1>5
  <1>8. OldCommitted' /\ CopiedFaithfully'
    BY <1>1, <1>2, <1>7 DEF IInv, OldCommitted, CopiedFaithfully
  <1>9. InsertReserved'
    BY <1>2, <1>7 DEF IInv, InsertReserved, InFlight, NewRow
  <1>10. QED
    BY <1>2, <1>6, <1>8, <1>9, EditorLocalStep

LEMMA FlushInsertKeepsIInv ==
    ASSUME IInv, NEW e \in Editors, FlushInsert(e)
    PROVE  IInv'
  <1>1. UNCHANGED <<corpus, seeder>> /\ rows' = rows
    BY DEF FlushInsert, corpus
  <1>2. editor \in [Editors -> EditorStates]
    BY DEF IInv, TypeOK
  <1>3. editor' = [editor EXCEPT ![e].pc = "flushed"] /\ editor[e].pc = "loaded"
    BY DEF FlushInsert
  <1>4. editor' \in [Editors -> EditorStates]
    BY <1>2, <1>3 DEF EditorStates
  <1>5. /\ editor'[e].pc = "flushed" /\ editor'[e].old = editor[e].old
        /\ \A d \in Editors \ {e} : editor'[d] = editor[d]
    BY <1>2, <1>3 DEF EditorStates
  <1>6. OldCommitted' /\ CopiedFaithfully'
    BY <1>1, <1>3, <1>5 DEF IInv, OldCommitted, CopiedFaithfully
  <1>7. \A d \in Editors : NewRow(d)' = NewRow(d)
    BY <1>5 DEF NewRow
  <1>8. \A d \in Editors \ {e} : InFlight(d)' <=> InFlight(d)
    BY <1>5 DEF InFlight
  <1>9. /\ \A r \in rows : ~SameVersion(r, NewRow(e))
        /\ \A d \in Editors \ {e} : InFlight(d) => ~SameVersion(NewRow(d), NewRow(e))
    BY DEF FlushInsert
  <1>10. InsertReserved'
    <2> SUFFICES ASSUME NEW a \in Editors, InFlight(a)'
                 PROVE  /\ \A r \in rows : ~SameVersion(r, NewRow(a))
                        /\ \A d \in Editors \ {a} :
                              InFlight(d)' => ~SameVersion(NewRow(d), NewRow(a))
      BY <1>1, <1>7 DEF InsertReserved, SameVersion
    <2>1. CASE a = e
      BY <2>1, <1>8, <1>9
    <2>2. CASE a # e
      <3>1. InFlight(a)
        BY <2>2, <1>8
      <3>2. \A r \in rows : ~SameVersion(r, NewRow(a))
        BY <3>1 DEF IInv, InsertReserved
      <3>3. ASSUME NEW d \in Editors \ {a}, InFlight(d)'
            PROVE  ~SameVersion(NewRow(d), NewRow(a))
        <4>1. CASE d = e
          BY <4>1, <2>2, <3>1, <1>9 DEF SameVersion
        <4>2. CASE d # e
          BY <4>2, <3>1, <3>3, <1>8 DEF IInv, InsertReserved
        <4>3. QED
          BY <4>1, <4>2
      <3>4. QED
        BY <3>2, <3>3
    <2>3. QED
      BY <2>1, <2>2
  <1>11. QED
    BY <1>1, <1>4, <1>6, <1>10, EditorLocalStep

LEMMA CopyAndLinkKeepsIInv ==
    ASSUME IInv, NEW e \in Editors, CopyAndLink(e)
    PROVE  IInv'
  <1> DEFINE old == editor[e].old
             both == <<conditions[old], exceptions[old]>>
  <1>1. UNCHANGED <<corpus, seeder>> /\ rows' = rows
    BY DEF CopyAndLink, corpus
  <1>2. editor \in [Editors -> EditorStates]
    BY DEF IInv, TypeOK
  <1>3. /\ editor' = [editor EXCEPT ![e].pc = "linked", ![e].copied = both]
        /\ editor[e].pc = "flushed"
    BY DEF CopyAndLink
  <1>4. old \in rows /\ old \in Rows
    BY <1>3 DEF IInv, OldCommitted, TypeOK
  <1>5. both \in Copies
    BY <1>4 DEF IInv, TypeOK, Copies
  <1>6. both = <<SeedConditions[old.key], SeedExceptions[old.key]>>
    BY <1>4 DEF IInv, ConditionsKept
  <1> HIDE DEF both
  <1>7. editor' \in [Editors -> EditorStates]
    BY <1>2, <1>3, <1>5 DEF EditorStates
  <1>8. /\ editor'[e].pc = "linked" /\ editor'[e].old = editor[e].old
        /\ editor'[e].copied = both
        /\ \A d \in Editors \ {e} : editor'[d] = editor[d]
    BY <1>2, <1>3 DEF EditorStates
  <1>9. OldCommitted' /\ CopiedFaithfully'
    <2>1. OldCommitted'
      <3>1. rows' = rows /\ editor[e].pc # "idle"
        BY <1>1, <1>3
      <3>2. QED
        BY <3>1, <1>8 DEF IInv, OldCommitted
    <2>2. ASSUME NEW d \in Editors, editor'[d].pc = "linked"
          PROVE  editor'[d].copied = <<SeedConditions[editor'[d].old.key],
                                       SeedExceptions[editor'[d].old.key]>>
      <3>1. CASE d = e
        BY <3>1, <1>6, <1>8
      <3>2. CASE d # e
        BY <3>2, <2>2, <1>8 DEF IInv, CopiedFaithfully
      <3>3. QED
        BY <3>1, <3>2
    <2>3. QED
      BY <2>1, <2>2 DEF CopiedFaithfully
  <1>10. InsertReserved'
    <2>1. \A d \in Editors : NewRow(d)' = NewRow(d)
      BY <1>8 DEF NewRow
    <2>2. \A d \in Editors : InFlight(d)' <=> InFlight(d)
      BY <1>3, <1>8 DEF InFlight
    <2>3. QED
      BY <1>1, <2>1, <2>2 DEF IInv, InsertReserved, SameVersion
  <1>11. QED
    BY <1>1, <1>7, <1>9, <1>10, EditorLocalStep

LEMMA CommitKeepsIInv ==
    ASSUME IInv, NEW e \in Editors, Commit(e)
    PROVE  IInv'
  <1> DEFINE old == editor[e].old
             new == NewRow(e)
  <1>1. /\ editor[e].pc = "linked"
        /\ rows' = rows \cup {new}
        /\ supersededBy' = [supersededBy EXCEPT ![old] = new]
        /\ conditions' = [conditions EXCEPT ![new] = editor[e].copied[1]]
        /\ exceptions' = [exceptions EXCEPT ![new] = editor[e].copied[2]]
        /\ editor' = [editor EXCEPT ![e] = IdleEditor]
        /\ documents' = documents /\ provenance' = provenance
        /\ crosswalks' = crosswalks /\ seeder' = seeder
    BY DEF Commit
  <1>2. InFlight(e) /\ editor[e].pc # "idle"
    BY <1>1 DEF InFlight
  <1>3. /\ old \in rows /\ old \in Rows /\ new \in Rows
        /\ new.key = old.key /\ new.version = old.version + 1
    BY <1>2, NewRowType DEF IInv, OldCommitted
  <1>4. \A r \in rows : ~SameVersion(r, new)
    BY <1>2 DEF IInv, InsertReserved
  <1>5. new \notin rows /\ old # new
    BY <1>3, <1>4 DEF SameVersion
  <1>6. supersededBy[old] = NoRow
    BY <1>2, OldIsLive
  <1>7. \A r \in rows : r.key = old.key => r.version <= old.version
    BY <1>2, OldIsNewest
  <1>8. /\ editor[e].copied[1] = SeedConditions[old.key]
        /\ editor[e].copied[2] = SeedExceptions[old.key]
    BY <1>1 DEF IInv, CopiedFaithfully
  <1>9. /\ editor'[e].pc = "idle"
        /\ \A d \in Editors \ {e} : editor'[d] = editor[d]
        /\ editor' \in [Editors -> EditorStates]
    BY <1>1 DEF IInv, TypeOK, IdleEditor, EditorStates, Copies
  <1>10. /\ supersededBy \in [Rows -> Rows \cup {NoRow}]
         /\ rows \subseteq Rows /\ NoRow \notin Rows
         /\ \A r \in Rows : r.version \in Nat
    BY DEF IInv, TypeOK, Rows
  <1>11. /\ supersededBy'[old] = new
         /\ \A r \in Rows \ {old} : supersededBy'[r] = supersededBy[r]
    BY <1>1, <1>3, <1>10
  <1>12. supersededBy'[new] = NoRow
    BY <1>3, <1>5, <1>11 DEF IInv, UnwrittenRowsBlank
  <1> HIDE DEF old, new
  <1>13. TypeOK'
    <2>1. editor[e].copied \in Copies
      BY DEF IInv, TypeOK, EditorStates
    <2>2. /\ editor[e].copied[1] \in SUBSET ConditionValues
          /\ editor[e].copied[2] \in SUBSET ExceptionValues
      BY <2>1 DEF Copies
    <2>3. /\ conditions' \in [Rows -> SUBSET ConditionValues]
          /\ exceptions' \in [Rows -> SUBSET ExceptionValues]
      BY <1>1, <2>2 DEF IInv, TypeOK
    <2>4. supersededBy' \in [Rows -> Rows \cup {NoRow}] /\ rows' \subseteq Rows
      BY <1>1, <1>3, <1>10
    <2>5. QED
      BY <1>1, <1>9, <2>3, <2>4 DEF IInv, TypeOK
  <1>14. \A d \in Editors \ {e} :
            /\ NewRow(d)' = NewRow(d)
            /\ InFlight(d)' <=> InFlight(d)
    BY <1>9 DEF NewRow, InFlight
  <1>15. OldCommitted' /\ CopiedFaithfully'
    BY <1>1, <1>9 DEF IInv, OldCommitted, CopiedFaithfully
  <1>16. InsertReserved'
    <2>1. ~InFlight(e)'
      BY <1>9 DEF InFlight
    <2>2. ASSUME NEW a \in Editors \ {e}, InFlight(a)
          PROVE  /\ \A r \in rows \cup {new} : ~SameVersion(r, NewRow(a))
                 /\ \A d \in Editors \ {a} : InFlight(d) => ~SameVersion(NewRow(d), NewRow(a))
      BY <2>2, <1>2 DEF IInv, InsertReserved, new
    <2>3. QED
      BY <1>1, <1>14, <2>1, <2>2 DEF InsertReserved, SameVersion
  <1>17. UnwrittenRowsBlank'
    BY <1>1, <1>3, <1>11 DEF IInv, UnwrittenRowsBlank
  <1>18. LiveExists'
    <2> SUFFICES ASSUME NEW k \in Keys, SourceOf[k] \in documents
                 PROVE  \E r \in rows' : r.key = k /\ supersededBy'[r] = NoRow
      BY <1>1 DEF LiveExists
    <2>1. PICK r \in rows : r.key = k /\ supersededBy[r] = NoRow
      BY DEF IInv, LiveExists
    <2>2. CASE r = old
      BY <2>1, <2>2, <1>1, <1>3, <1>12
    <2>3. CASE r # old
      BY <2>1, <2>3, <1>1, <1>10, <1>11
    <2>4. QED
      BY <2>2, <2>3
  <1>19. ConditionsKept'
    <2>1. /\ conditions'[new] = SeedConditions[new.key]
          /\ exceptions'[new] = SeedExceptions[new.key]
      BY <1>1, <1>3, <1>8 DEF IInv, TypeOK
    <2>2. \A r \in rows : conditions'[r] = conditions[r] /\ exceptions'[r] = exceptions[r]
      BY <1>1, <1>5, <1>10 DEF IInv, TypeOK
    <2>3. QED
      BY <1>1, <2>1, <2>2 DEF IInv, ConditionsKept
  <1>20. VersionChain'
    <2>1. ASSUME NEW r \in rows', NEW s \in rows', SameVersion(r, s)
          PROVE  r = s
      <3>1. CASE r = new \/ s = new
        BY <3>1, <2>1, <1>1, <1>4 DEF SameVersion
      <3>2. CASE r # new /\ s # new
        BY <3>2, <2>1, <1>1 DEF IInv, VersionChain
      <3>3. QED
        BY <3>1, <3>2
    <2>2. ASSUME NEW r \in rows', supersededBy'[r] # NoRow
          PROVE  /\ supersededBy'[r] \in rows'
                 /\ supersededBy'[r].key = r.key
                 /\ supersededBy'[r].version = r.version + 1
      <3>1. CASE r = old
        BY <3>1, <1>1, <1>3, <1>11
      <3>2. CASE r # old
        <4>1. r # new /\ r \in rows /\ r \in Rows
          BY <2>2, <1>1, <1>10, <1>12
        <4>2. supersededBy'[r] = supersededBy[r]
          BY <4>1, <3>2, <1>11
        <4>3. QED
          BY <4>1, <4>2, <2>2, <1>1 DEF IInv, VersionChain
      <3>3. QED
        BY <3>1, <3>2
    <2>3. ASSUME NEW r \in rows', NEW s \in rows', r.key = s.key, r.version < s.version
          PROVE  supersededBy'[r] # NoRow
      <3>1. CASE r = old
        BY <3>1, <1>3, <1>10, <1>11
      <3>2. CASE r = new
        BY <3>2, <2>3, <1>1, <1>3, <1>7, <1>10
      <3>3. CASE r # old /\ r # new
        <4>1. r \in rows /\ r \in Rows /\ supersededBy'[r] = supersededBy[r]
          BY <3>3, <1>1, <1>10, <1>11
        <4>2. CASE s = new
          <5>1. r.key = old.key /\ r.version <= old.version
            BY <4>1, <4>2, <2>3, <1>3, <1>7
          <5>2. r.version # old.version
            BY <5>1, <4>1, <3>3, <1>3 DEF IInv, VersionChain, SameVersion
          <5>3. r.version < old.version
            BY <5>1, <5>2, <4>1, <1>3, <1>10
          <5>4. QED
            BY <5>1, <5>3, <4>1, <1>3 DEF IInv, VersionChain
        <4>3. CASE s # new
          BY <4>1, <4>3, <2>3, <1>1 DEF IInv, VersionChain
        <4>4. QED
          BY <4>2, <4>3
      <3>4. QED
        BY <3>1, <3>2, <3>3
    <2>4. QED
      BY <2>1, <2>2, <2>3 DEF VersionChain, SameVersion
  <1>21. SourceAllOrNothing'
    <2> SUFFICES ASSUME NEW k \in Keys
                 PROVE  SourceOf[k] \in documents <=> Versions(k)' # {}
      BY <1>1 DEF SourceAllOrNothing
    <2>1. SourceOf[k] \in documents <=> Versions(k) # {}
      BY DEF IInv, SourceAllOrNothing
    <2>2. Versions(k)' # {} <=> Versions(k) # {}
      BY <1>1, <1>3 DEF Versions
    <2>3. QED
      BY <2>1, <2>2
  <1>22. QED
    BY <1>13, <1>15, <1>16, <1>17, <1>18, <1>19, <1>20, <1>21 DEF IInv

LEMMA SourceCommitKeepsIInv ==
    ASSUME IInv, NEW s \in Seeders, SourceCommit(s)
    PROVE  IInv'
  <1> DEFINE d == seeder[s].stage
             added == {SeedRow(k, s) : k \in {x \in Keys : SourceOf[x] = d}}
  <1>1. /\ seeder[s].pc = "ingest"
        /\ d \notin documents
        /\ documents' = documents \cup {d}
        /\ rows' = rows \cup added
        /\ conditions' = [r \in Rows |-> IF r \in added THEN SeedConditions[r.key] ELSE conditions[r]]
        /\ exceptions' = [r \in Rows |-> IF r \in added THEN SeedExceptions[r.key] ELSE exceptions[r]]
        /\ provenance' = provenance \cup added
        /\ seeder' = [seeder EXCEPT ![s] = NextStage(s)]
        /\ supersededBy' = supersededBy /\ crosswalks' = crosswalks /\ editor' = editor
    BY DEF SourceCommit
  <1>2. \A r \in added : /\ r \in Rows /\ r.version = 1
                         /\ r.key \in Keys /\ SourceOf[r.key] = d
    BY DEF SeedRow, Rows
  <1>3. \A k \in Keys : SourceOf[k] = d => \E r \in added : r.key = k
    <2> SUFFICES ASSUME NEW k \in Keys, SourceOf[k] = d
                 PROVE  SeedRow(k, s) \in added /\ SeedRow(k, s).key = k
      OBVIOUS
    <2>1. QED
      BY DEF SeedRow
  <1>4. \A q, r \in added : q.key = r.key => q = r
    BY DEF SeedRow
  <1> HIDE DEF added
  <1>5. \A q \in rows, r \in added : q.key # r.key
    BY <1>1, <1>2 DEF IInv, SourceAllOrNothing, Versions
  <1>6. \A r \in added : r \notin rows /\ supersededBy[r] = NoRow
    BY <1>2, <1>5 DEF IInv, UnwrittenRowsBlank
  <1>7. rows \subseteq Rows /\ \A r \in Rows : r.key \in Keys
    BY DEF IInv, TypeOK, Rows
  <1>8. TypeOK'
    <2>1. d \in Sources \cup Frameworks
      BY DEF IInv, TypeOK, SeederStates
    <2>2. NextStage(s) \in SeederStates
      BY NextStageType DEF IInv
    <2>3. seeder' \in [Seeders -> SeederStates]
      BY <1>1, <2>2 DEF IInv, TypeOK
    <2>4. /\ conditions' \in [Rows -> SUBSET ConditionValues]
          /\ exceptions' \in [Rows -> SUBSET ExceptionValues]
      BY <1>1, <1>7 DEF IInv, TypeOK, ConditionValues, ExceptionValues
    <2>5. rows' \subseteq Rows /\ provenance' \subseteq Rows
      BY <1>1, <1>2 DEF IInv, TypeOK
    <2>6. documents' \subseteq Sources
      BY <1>1 DEF IInv, TypeOK, SeederStates
    <2>7. QED
      BY <1>1, <2>3, <2>4, <2>5, <2>6 DEF IInv, TypeOK
  <1>9. (OldCommitted /\ CopiedFaithfully)'
    BY <1>1 DEF IInv, OldCommitted, CopiedFaithfully
  <1>10. InsertReserved'
    <2> SUFFICES ASSUME NEW e \in Editors, InFlight(e)
                 PROVE  /\ \A r \in rows \cup added : ~SameVersion(r, NewRow(e))
                        /\ \A other \in Editors \ {e} :
                              InFlight(other) => ~SameVersion(NewRow(other), NewRow(e))
      BY <1>1 DEF InsertReserved, InFlight, NewRow, SameVersion
    <2>1. editor[e].old \in rows /\ NewRow(e).key = editor[e].old.key
      BY NewRowType DEF IInv, OldCommitted, InFlight
    <2>2. \A r \in added : ~SameVersion(r, NewRow(e))
      BY <2>1, <1>5 DEF SameVersion
    <2>3. QED
      BY <2>2 DEF IInv, InsertReserved
  <1>11. UnwrittenRowsBlank'
    BY <1>1 DEF IInv, UnwrittenRowsBlank
  <1>12. LiveExists'
    <2> SUFFICES ASSUME NEW k \in Keys, SourceOf[k] \in documents \cup {d}
                 PROVE  \E r \in rows \cup added : r.key = k /\ supersededBy[r] = NoRow
      BY <1>1 DEF LiveExists
    <2>1. CASE SourceOf[k] = d
      BY <2>1, <1>3, <1>6
    <2>2. CASE SourceOf[k] \in documents
      BY <2>2 DEF IInv, LiveExists
    <2>3. QED
      BY <2>1, <2>2
  <1>13. ConditionsKept'
    BY <1>1, <1>2, <1>6, <1>7 DEF IInv, ConditionsKept
  <1>14. VersionChain'
    <2>1. \A q, r \in rows \cup added : SameVersion(q, r) => q = r
      BY <1>4, <1>5 DEF IInv, VersionChain, SameVersion
    <2>2. \A r \in rows \cup added : supersededBy[r] # NoRow =>
            /\ supersededBy[r] \in rows \cup added
            /\ supersededBy[r].key = r.key
            /\ supersededBy[r].version = r.version + 1
      BY <1>6 DEF IInv, VersionChain
    <2>3. \A q, r \in rows \cup added :
            (q.key = r.key /\ q.version < r.version) => supersededBy[q] # NoRow
      <3> SUFFICES ASSUME NEW q \in rows \cup added, NEW r \in rows \cup added,
                          q.key = r.key, q.version < r.version
                   PROVE  supersededBy[q] # NoRow
        OBVIOUS
      <3>1. CASE q \in rows /\ r \in rows
        BY <3>1 DEF IInv, VersionChain
      <3>2. CASE q \in added /\ r \in added
        BY <3>2, <1>2
      <3>3. QED
        BY <3>1, <3>2, <1>5
    <2>4. QED
      BY <1>1, <2>1, <2>2, <2>3 DEF VersionChain, SameVersion
  <1>15. SourceAllOrNothing'
    <2> SUFFICES ASSUME NEW k \in Keys
                 PROVE  SourceOf[k] \in documents \cup {d} <=> Versions(k)' # {}
      BY <1>1 DEF SourceAllOrNothing
    <2>1. Versions(k)' = Versions(k) \cup {r \in added : r.key = k}
      BY <1>1 DEF Versions
    <2>2. {r \in added : r.key = k} # {} <=> SourceOf[k] = d
      BY <1>2, <1>3
    <2>3. SourceOf[k] \in documents <=> Versions(k) # {}
      BY DEF IInv, SourceAllOrNothing
    <2>4. QED
      BY <2>1, <2>2, <2>3
  <1>16. QED
    BY <1>8, <1>9, <1>10, <1>11, <1>12, <1>13, <1>14, <1>15 DEF IInv

LEMMA CrosswalkCommitKeepsIInv ==
    ASSUME IInv, NEW s \in Seeders, CrosswalkCommit(s)
    PROVE  IInv'
  <1>1. /\ documents' = documents /\ rows' = rows /\ supersededBy' = supersededBy
        /\ conditions' = conditions /\ exceptions' = exceptions
        /\ provenance' = provenance /\ editor' = editor
        /\ seeder' = [seeder EXCEPT ![s] = NextStage(s)]
    BY DEF CrosswalkCommit
  <1>2. TypeOK'
    <2>1. NextStage(s) \in SeederStates
      BY NextStageType DEF IInv
    <2>2. crosswalks' \in [Frameworks -> [Rows -> Nat]]
      <3> DEFINE f == seeder[s].stage
                 g == [r \in Rows |-> IF r \in seeder[s].resolved
                                      THEN crosswalks[f][r] + 1 ELSE crosswalks[f][r]]
      <3>1. crosswalks' = [crosswalks EXCEPT ![f] = g]
        BY DEF CrosswalkCommit
      <3>2. crosswalks \in [Frameworks -> [Rows -> Nat]]
        BY DEF IInv, TypeOK
      <3>3. f \in Frameworks => g \in [Rows -> Nat]
        BY <3>2
      <3> HIDE DEF g
      <3>4. QED
        BY <3>1, <3>2, <3>3
    <2>3. QED
      BY <1>1, <2>1, <2>2 DEF IInv, TypeOK
  <1>3. (OldCommitted /\ InsertReserved /\ CopiedFaithfully)'
    BY <1>1 DEF IInv, OldCommitted, InsertReserved, CopiedFaithfully, InFlight, NewRow
  <1>4. (UnwrittenRowsBlank /\ LiveExists /\ ConditionsKept)'
    BY <1>1 DEF IInv, UnwrittenRowsBlank, LiveExists, ConditionsKept
  <1>5. (VersionChain /\ SourceAllOrNothing)'
    BY <1>1 DEF IInv, VersionChain, SourceAllOrNothing, Versions
  <1>6. QED
    BY <1>2, <1>3, <1>4, <1>5 DEF IInv

LEMMA SeederKeepsIInv ==
    ASSUME IInv, NEW s \in Seeders, SeederNext(s)
    PROVE  IInv'
  <1>1. seeder \in [Seeders -> SeederStates] /\ NextStage(s) \in SeederStates
    BY NextStageType DEF IInv, TypeOK
  <1>2. IdleSeeder \in SeederStates
    BY DEF IdleSeeder, SeederStates, Sources
  <1>3. CASE SeedStart(s)
    <2>1. [IdleSeeder EXCEPT !.pc = IF SeedIsPresent THEN "noop" ELSE "source"] \in SeederStates
      BY <1>2 DEF IdleSeeder, SeederStates, Sources
    <2>2. seeder' \in [Seeders -> SeederStates]
      BY <1>1, <1>3, <2>1 DEF SeedStart
    <2>3. QED
      BY <2>2, <1>3, SeederLocalStep DEF SeedStart
  <1>4. CASE SourceProbe(s)
    <2>1. [seeder[s] EXCEPT !.pc = "ingest"] \in SeederStates
      BY <1>1, <1>4 DEF SourceProbe, SeederStates
    <2>2. seeder' \in [Seeders -> SeederStates]
      BY <1>1, <1>4, <2>1 DEF SourceProbe
    <2>3. QED
      BY <2>2, <1>4, SeederLocalStep DEF SourceProbe
  <1>5. CASE SourceCommit(s)
    BY <1>5, SourceCommitKeepsIInv
  <1>6. CASE SourceConflict(s)
    BY <1>1, <1>2, <1>6, SeederLocalStep DEF SourceConflict
  <1>7. CASE FrameworkProbe(s)
    <2> DEFINE st == [seeder[s] EXCEPT !.pc = "resolve",
                                       !.todo = CrosswalkSeeds[seeder[s].stage]]
    <2>1. st \in SeederStates
      <3>1. seeder[s].stage \in Frameworks
        BY <1>1, <1>7 DEF FrameworkProbe, SeederStates
      <3>2. CrosswalkSeeds[seeder[s].stage] \in SUBSET Keys
        BY <3>1
      <3>3. QED
        BY <1>1, <3>1, <3>2 DEF SeederStates
    <2>2. seeder' \in [Seeders -> SeederStates]
      BY <1>1, <1>7, <2>1 DEF FrameworkProbe
    <2>3. QED
      BY <2>2, <1>7, SeederLocalStep DEF FrameworkProbe
  <1>8. CASE ResolveTarget(s)
    <2>1. rows \subseteq Rows
      BY DEF IInv, TypeOK
    <2>2. seeder' \in [Seeders -> SeederStates]
      BY <1>1, <1>2, <1>8, <2>1 DEF ResolveTarget, Live, Versions, SeederStates
    <2>3. QED
      BY <2>2, <1>8, SeederLocalStep DEF ResolveTarget
  <1>9. CASE CrosswalkCommit(s)
    BY <1>9, CrosswalkCommitKeepsIInv
  <1>10. CASE SeedEnd(s)
    BY <1>1, <1>2, <1>10, SeederLocalStep DEF SeedEnd
  <1>11. CASE IngestSeed(s)
    <2>1. [IdleSeeder EXCEPT !.pc = "source"] \in SeederStates
      BY <1>2 DEF IdleSeeder, SeederStates, Sources
    <2>2. seeder' \in [Seeders -> SeederStates]
      BY <1>1, <1>11, <2>1 DEF IngestSeed
    <2>3. QED
      BY <2>2, <1>11, SeederLocalStep DEF IngestSeed
  <1>12. QED
    BY <1>3, <1>4, <1>5, <1>6, <1>7, <1>8, <1>9, <1>10, <1>11 DEF SeederNext

LEMMA EditorKeepsIInv ==
    ASSUME IInv, NEW e \in Editors, EditorNext(e)
    PROVE  IInv'
  <1>1. CASE Load(e)
    BY <1>1, LoadKeepsIInv
  <1>2. CASE RejectSuperseded(e)
    BY <1>2, EditorIdles DEF RejectSuperseded
  <1>3. CASE FlushInsert(e)
    BY <1>3, FlushInsertKeepsIInv
  <1>4. CASE InsertConflict(e)
    BY <1>4, EditorIdles DEF InsertConflict
  <1>5. CASE CopyAndLink(e)
    BY <1>5, CopyAndLinkKeepsIInv
  <1>6. CASE Commit(e)
    BY <1>6, CommitKeepsIInv
  <1>7. CASE Rollback(e)
    BY <1>7, EditorIdles DEF Rollback
  <1>8. QED
    BY <1>1, <1>2, <1>3, <1>4, <1>5, <1>6, <1>7 DEF EditorNext

LEMMA StutterKeepsIInv ==
    ASSUME IInv, UNCHANGED vars
    PROVE  IInv'
  <1>1. UNCHANGED <<corpus, editor>> /\ seeder' = seeder
    BY DEF vars, corpus
  <1>2. QED
    BY <1>1, SeederLocalStep DEF IInv, TypeOK

LEMMA NextKeepsIInv == IInv /\ [Next]_vars => IInv'
  <1> SUFFICES ASSUME IInv, [Next]_vars
               PROVE  IInv'
    OBVIOUS
  <1>1. CASE \E e \in Editors : EditorNext(e)
    BY <1>1, EditorKeepsIInv
  <1>2. CASE \E s \in Seeders : SeederNext(s)
    BY <1>2, SeederKeepsIInv
  <1>3. CASE UNCHANGED vars
    BY <1>3, StutterKeepsIInv
  <1>4. QED
    BY <1>1, <1>2, <1>3 DEF Next

-----------------------------------------------------------------------------
(* The theorems *)

\* The inductive invariant holds in every behaviour of the corpus.
THEOREM Invariance == Spec => []IInv
  <1>1. QED
    BY InitIInv, NextKeepsIInv, PTL DEF Spec

\* The tables and the programs' local state keep their types.
THEOREM TypeCorrect == Spec => []TypeOK
  <1>1. IInv => TypeOK
    BY DEF IInv
  <1>2. QED
    BY <1>1, Invariance, PTL

\* The versions of every requirement form one chain, however many transactions call
\* supersede_requirement at once and wherever they fail.
THEOREM VersionChainHolds == Spec => []VersionChain
  <1>1. IInv => VersionChain
    BY DEF IInv
  <1>2. QED
    BY <1>1, Invariance, PTL

\* Every requirement of an ingested source has exactly one live version: a live one
\* exists by LiveExists, and of two the older would point at its successor.
THEOREM OneLiveVersionHolds == Spec => []OneLiveVersion
  <1>1. IInv => OneLiveVersion
    <2> SUFFICES ASSUME IInv, NEW k \in Keys, SourceOf[k] \in documents
                 PROVE  \E r \in rows : Live(k) = {r}
      BY DEF OneLiveVersion
    <2>1. PICK r \in rows : r.key = k /\ supersededBy[r] = NoRow
      BY DEF IInv, LiveExists
    <2>2. ASSUME NEW q \in Live(k)
          PROVE  q = r
      <3>1. q \in rows /\ q.key = k /\ supersededBy[q] = NoRow
        BY DEF Live, Versions
      <3>2. q.version \in Nat /\ r.version \in Nat
        BY <2>1, <3>1 DEF IInv, TypeOK, Rows
      <3>3. ~(q.version < r.version) /\ ~(r.version < q.version)
        BY <2>1, <3>1 DEF IInv, VersionChain
      <3>4. SameVersion(q, r)
        BY <2>1, <3>1, <3>2, <3>3 DEF SameVersion
      <3>5. QED
        BY <2>1, <3>1, <3>4 DEF IInv, VersionChain
    <2>3. r \in Live(k)
      BY <2>1 DEF Live, Versions
    <2>4. QED
      BY <2>2, <2>3
  <1>2. QED
    BY <1>1, Invariance, PTL

\* A source document and its requirements are committed together.
THEOREM SourceAllOrNothingHolds == Spec => []SourceAllOrNothing
  <1>1. IInv => SourceAllOrNothing
    BY DEF IInv
  <1>2. QED
    BY <1>1, Invariance, PTL

\* However often a requirement is amended, its live version applies to what the seed
\* applied to, so find_requirements never loses it.
THEOREM ApplicabilityHolds == Spec => []ApplicabilityCarriedForward
  <1>1. IInv => ApplicabilityCarriedForward
    <2> SUFFICES ASSUME IInv, NEW k \in Keys
                 PROVE  /\ Found(k) = Live(k)
                        /\ \A r \in Live(k) : /\ conditions[r] = SeedConditions[k]
                                              /\ exceptions[r] = SeedExceptions[k]
      BY DEF ApplicabilityCarriedForward
    <2>1. \A r \in Live(k) : /\ conditions[r] = SeedConditions[k]
                             /\ exceptions[r] = SeedExceptions[k]
      BY DEF IInv, ConditionsKept, Live, Versions
    <2>2. SeedConditions[k] # {}
      OBVIOUS
    <2>3. QED
      BY <2>1, <2>2 DEF Found
  <1>2. QED
    BY <1>1, Invariance, PTL

\* No step removes a committed version or re-points a superseded one.
THEOREM HistoryAppendOnlyHolds == Spec => HistoryAppendOnly
  <1> DEFINE Kept ==
        /\ rows \subseteq rows'
        /\ \A r \in rows : supersededBy[r] # NoRow => supersededBy'[r] = supersededBy[r]
  <1>1. IInv /\ [Next]_vars => [Kept]_vars
    <2> SUFFICES ASSUME IInv, Next
                 PROVE  Kept
      OBVIOUS
    <2>1. ASSUME NEW e \in Editors, Commit(e)
          PROVE  Kept
      <3>1. InFlight(e)
        BY <2>1 DEF Commit, InFlight
      <3>2. supersededBy[editor[e].old] = NoRow
        BY <3>1, OldIsLive
      <3>3. /\ rows' = rows \cup {NewRow(e)}
            /\ supersededBy' = [supersededBy EXCEPT ![editor[e].old] = NewRow(e)]
        BY <2>1 DEF Commit
      <3>4. rows \subseteq Rows /\ supersededBy \in [Rows -> Rows \cup {NoRow}]
        BY DEF IInv, TypeOK
      <3>5. QED
        BY <3>2, <3>3, <3>4
    <2>2. ASSUME NEW e \in Editors, EditorNext(e), ~Commit(e)
          PROVE  rows' = rows /\ supersededBy' = supersededBy
      BY <2>2 DEF EditorNext, Load, RejectSuperseded, FlushInsert, InsertConflict,
                  CopyAndLink, Rollback, corpus
    <2>3. ASSUME NEW s \in Seeders, SeederNext(s)
          PROVE  rows \subseteq rows' /\ supersededBy' = supersededBy
      BY <2>3 DEF SeederNext, SeedStart, IngestSeed, SourceProbe, SourceCommit, SourceConflict,
                  FrameworkProbe, ResolveTarget, CrosswalkCommit, SeedEnd, corpus
    <2>4. QED
      BY <2>1, <2>2, <2>3 DEF Next
  <1>2. QED
    BY <1>1, Invariance, PTL DEF Spec, HistoryAppendOnly

-----------------------------------------------------------------------------
(***************************************************************************)
(* What the runs of the seed script achieve.  A run knows what it has gone *)
(* through only from its stage: that every stage before it is complete is  *)
(* kept by the probes (a document stands for all its requirements, a       *)
(* crosswalk row for its whole framework) and by nothing ever being        *)
(* deleted.                                                                *)
(***************************************************************************)

\* every crosswalk seed of the framework is on some version of its requirement
Loaded(f) == \A k \in CrosswalkSeeds[f] : \E r \in Versions(k) : crosswalks[f][r] > 0

\* the run is past complete stages only
PastComplete(s) ==
    LET st == seeder[s] IN
    /\ st.pc \in {"source", "ingest"} => \A d \in Sources : d < st.stage => d \in documents
    /\ st.pc \in {"framework", "resolve", "done"} => documents = Sources
    /\ st.pc \in {"framework", "resolve"} => \A f \in Frameworks : f < st.stage => Loaded(f)
    /\ st.pc = "done" => \A f \in Frameworks : Loaded(f)

\* a run that resolves targets has a committed row for each key it has dealt with
TargetsResolved(s) ==
    LET st == seeder[s] IN
    /\ st.pc = "framework" => st.resolved = {}
    /\ st.pc = "resolve" =>
        /\ st.resolved \subseteq rows
        /\ \A k \in CrosswalkSeeds[st.stage] \ st.todo : \E r \in st.resolved : r.key = k

\* one crosswalk row of a framework, and all of it is there
FrameworksWhole ==
    \A f \in Frameworks : (\E r \in Rows : crosswalks[f][r] > 0) => Loaded(f)

\* only committed rows have crosswalks
CrosswalksOfRows == \A f \in Frameworks : \A r \in Rows \ rows : crosswalks[f][r] = 0

SeedInv ==
    /\ \A s \in Seeders : PastComplete(s) /\ TargetsResolved(s)
    /\ FrameworksWhole
    /\ CrosswalksOfRows

\* Nothing is ever deleted.
TablesGrow ==
    /\ documents \subseteq documents'
    /\ rows \subseteq rows'
    /\ \A f \in Frameworks : \A r \in Rows : crosswalks'[f][r] >= crosswalks[f][r]

\* What is loaded stays loaded.
LEMMA LoadedKept ==
    ASSUME TypeOK, TypeOK', TablesGrow, NEW f \in Frameworks, Loaded(f)
    PROVE  Loaded(f)'
  <1> SUFFICES ASSUME NEW k \in CrosswalkSeeds[f]
               PROVE  \E r \in rows' : r.key = k /\ crosswalks'[f][r] > 0
    BY DEF Loaded, Versions
  <1>1. PICK r \in rows : r.key = k /\ crosswalks[f][r] > 0
    BY DEF Loaded, Versions
  <1>2. r \in Rows /\ r \in rows' /\ crosswalks[f][r] \in Nat /\ crosswalks'[f][r] \in Nat
    BY DEF TypeOK, TablesGrow
  <1>3. crosswalks'[f][r] >= crosswalks[f][r]
    BY <1>2 DEF TablesGrow
  <1> QED
    BY <1>1, <1>2, <1>3

\* A run that does not move stays past complete stages.
LEMMA BystanderKept ==
    ASSUME TypeOK, TypeOK', SeedInv, TablesGrow, NEW u \in Seeders, seeder'[u] = seeder[u]
    PROVE  PastComplete(u)' /\ TargetsResolved(u)'
  <1>1. PastComplete(u) /\ TargetsResolved(u)
    BY DEF SeedInv
  <1>2. \A f \in Frameworks : Loaded(f) => Loaded(f)'
    BY LoadedKept
  <1>3. documents \subseteq documents' /\ documents' \subseteq Sources /\ rows \subseteq rows'
    BY DEF TablesGrow, TypeOK
  <1>4. TargetsResolved(u)'
    BY <1>1, <1>3 DEF TargetsResolved
  <1>5. PastComplete(u)'
    BY <1>1, <1>2, <1>3 DEF PastComplete
  <1> QED
    BY <1>4, <1>5

\* A run that goes on to the next stage leaves a complete one behind.
LEMMA StageDone ==
    ASSUME TypeOK, TypeOK', SeedInv, TablesGrow, NEW s \in Seeders, NEW n, n = seeder[s].stage,
           seeder'[s] = NextStage(s),
           \/ seeder[s].pc \in {"source", "ingest"} /\ n \in documents'
           \/ seeder[s].pc \in {"framework", "resolve"} /\ Loaded(n)'
    PROVE  PastComplete(s)' /\ TargetsResolved(s)'
  <1>1. PastComplete(s)
    BY DEF SeedInv
  <1>2. \A f \in Frameworks : Loaded(f) => Loaded(f)'
    BY LoadedKept
  <1>3. documents \subseteq documents' /\ documents' \subseteq Sources
    BY DEF TablesGrow, TypeOK
  <1>4. seeder[s] \in SeederStates /\ NSources \in Nat /\ NFrameworks \in Nat
    BY DEF TypeOK
  <1>5. CASE seeder[s].pc \in {"source", "ingest"} /\ n \in documents'
    <2>1. n \in Sources /\ n \in Nat /\ n <= NSources
      BY <1>4, <1>5 DEF SeederStates, Sources
    <2>2. ASSUME NEW d \in Sources, d <= n PROVE d \in documents'
      <3>1. d \in Nat
        BY DEF Sources
      <3>2. CASE d < n
        BY <1>1, <1>3, <1>5, <3>2 DEF PastComplete
      <3>3. CASE d = n
        BY <1>5, <3>3
      <3> QED
        BY <2>1, <2>2, <3>1, <3>2, <3>3
    <2>3. CASE n < NSources
      <3>1. seeder'[s] = [pc |-> "source", stage |-> n + 1, todo |-> {}, resolved |-> {}]
        BY <1>5, <2>3 DEF NextStage, IdleSeeder
      <3>2. \A d \in Sources : d < n + 1 => d \in documents'
        BY <2>1, <2>2 DEF Sources
      <3> QED
        BY <3>1, <3>2 DEF PastComplete, TargetsResolved
    <2>4. CASE ~(n < NSources)
      <3>1. seeder'[s] = [pc |-> "framework", stage |-> 1, todo |-> {}, resolved |-> {}]
        BY <1>5, <2>4 DEF NextStage, IdleSeeder
      <3>2. documents' = Sources
        <4>1. \A d \in Sources : d <= n
          BY <1>4, <2>1, <2>4 DEF Sources
        <4> QED
          BY <1>3, <2>2, <4>1
      <3>3. \A f \in Frameworks : ~(f < 1)
        BY DEF Frameworks
      <3> QED
        BY <3>1, <3>2, <3>3 DEF PastComplete, TargetsResolved
    <2> QED
      BY <2>3, <2>4
  <1>6. CASE seeder[s].pc \in {"framework", "resolve"} /\ Loaded(n)'
    <2>1. n \in Frameworks /\ n \in Nat /\ n <= NFrameworks
      BY <1>4, <1>6 DEF SeederStates, Frameworks
    <2>2. documents' = Sources
      BY <1>1, <1>3, <1>6 DEF PastComplete
    <2>3. ASSUME NEW f \in Frameworks, f <= n PROVE Loaded(f)'
      <3>1. f \in Nat
        BY DEF Frameworks
      <3>2. CASE f < n
        BY <1>1, <1>2, <1>6, <3>2 DEF PastComplete
      <3>3. CASE f = n
        BY <1>6, <3>3
      <3> QED
        BY <2>1, <2>3, <3>1, <3>2, <3>3
    <2>4. CASE n < NFrameworks
      <3>1. seeder'[s] = [pc |-> "framework", stage |-> n + 1, todo |-> {}, resolved |-> {}]
        BY <1>6, <2>4 DEF NextStage, IdleSeeder
      <3>2. \A f \in Frameworks : f < n + 1 => Loaded(f)'
        BY <2>1, <2>3 DEF Frameworks
      <3> QED
        BY <2>2, <3>1, <3>2 DEF PastComplete, TargetsResolved
    <2>5. CASE ~(n < NFrameworks)
      <3>1. seeder'[s] = [pc |-> "done", stage |-> 1, todo |-> {}, resolved |-> {}]
        BY <1>6, <2>5 DEF NextStage, IdleSeeder
      <3>2. \A f \in Frameworks : f <= n
        BY <1>4, <2>1, <2>5 DEF Frameworks
      <3> QED
        BY <2>2, <2>3, <3>1, <3>2 DEF PastComplete, TargetsResolved
    <2> QED
      BY <2>4, <2>5
  <1> QED
    BY <1>5, <1>6

\* The tables' part, when no crosswalk is written.
LEMMA CrosswalksKept ==
    ASSUME TypeOK, TypeOK', SeedInv, TablesGrow, crosswalks' = crosswalks
    PROVE  FrameworksWhole' /\ CrosswalksOfRows'
  <1>1. FrameworksWhole'
    BY LoadedKept DEF SeedInv, FrameworksWhole
  <1>2. CrosswalksOfRows'
    BY DEF SeedInv, CrosswalksOfRows, TablesGrow
  <1> QED
    BY <1>1, <1>2

LEMMA EditorKeepsSeedInv ==
    ASSUME IInv, IInv', SeedInv, NEW e \in Editors, EditorNext(e)
    PROVE  SeedInv'
  <1>1. documents' = documents /\ crosswalks' = crosswalks /\ seeder' = seeder /\ rows \subseteq rows'
    BY DEF EditorNext, Load, RejectSuperseded, FlushInsert, InsertConflict, CopyAndLink, Commit,
           Rollback, corpus
  <1>2. TypeOK /\ TypeOK'
    BY DEF IInv
  <1>3. \A f \in Frameworks : \A r \in Rows : crosswalks[f][r] \in Nat
    BY <1>2 DEF TypeOK
  <1>4. TablesGrow
    BY <1>1, <1>3 DEF TablesGrow
  <1> QED
    BY <1>1, <1>2, <1>4, BystanderKept, CrosswalksKept DEF SeedInv

\* A step of one run that keeps what holds of that run, and writes no crosswalk.
LEMMA RunStepKeepsSeedInv ==
    ASSUME IInv, IInv', SeedInv, NEW s \in Seeders, NEW st, seeder' = [seeder EXCEPT ![s] = st],
           documents \subseteq documents', rows \subseteq rows', crosswalks' = crosswalks,
           PastComplete(s)', TargetsResolved(s)'
    PROVE  SeedInv'
  <1>1. TypeOK /\ TypeOK'
    BY DEF IInv
  <1>2. \A f \in Frameworks : \A r \in Rows : crosswalks[f][r] \in Nat
    BY <1>1 DEF TypeOK
  <1>3. TablesGrow
    BY <1>2 DEF TablesGrow
  <1>4. \A u \in Seeders \ {s} : seeder'[u] = seeder[u]
    BY <1>1 DEF TypeOK
  <1>5. \A u \in Seeders \ {s} : PastComplete(u)' /\ TargetsResolved(u)'
    BY <1>1, <1>3, <1>4, BystanderKept
  <1> QED
    BY <1>1, <1>3, <1>5, CrosswalksKept DEF SeedInv

\* The transaction that loads a framework gives every seed of it a row.
LEMMA CrosswalkCommitLoads ==
    ASSUME IInv, IInv', SeedInv, NEW s \in Seeders, CrosswalkCommit(s)
    PROVE  SeedInv'
  <1>0. PICK n : n = seeder[s].stage
    OBVIOUS
  <1> DEFINE done == seeder[s].resolved
             loaded == [r \in Rows |-> IF r \in done THEN crosswalks[n][r] + 1 ELSE crosswalks[n][r]]
  <1>1. /\ seeder[s].pc = "resolve" /\ seeder[s].todo = {}
        /\ crosswalks' = [crosswalks EXCEPT ![n] = loaded]
        /\ seeder' = [seeder EXCEPT ![s] = NextStage(s)]
        /\ documents' = documents /\ rows' = rows
    BY <1>0 DEF CrosswalkCommit
  <1>2. TypeOK /\ TypeOK'
    BY DEF IInv
  <1>3. n \in Frameworks /\ seeder \in [Seeders -> SeederStates]
        /\ crosswalks \in [Frameworks -> [Rows -> Nat]] /\ rows \subseteq Rows
    BY <1>0, <1>1, <1>2 DEF TypeOK, SeederStates
  <1>4. done \subseteq rows /\ \A k \in CrosswalkSeeds[n] : \E r \in done : r.key = k
    BY <1>0, <1>1 DEF SeedInv, TargetsResolved
  <1> HIDE DEF done, loaded
  <1>5. /\ crosswalks'[n] = loaded
        /\ \A f \in Frameworks \ {n} : crosswalks'[f] = crosswalks[f]
    BY <1>1, <1>3
  <1>6. \A r \in Rows : loaded[r] = IF r \in done THEN crosswalks[n][r] + 1 ELSE crosswalks[n][r]
    BY DEF loaded
  <1>7. \A f \in Frameworks : \A r \in Rows : crosswalks[f][r] \in Nat
    BY <1>3
  <1>8. TablesGrow
    <2>1. ASSUME NEW f \in Frameworks, NEW r \in Rows PROVE crosswalks'[f][r] >= crosswalks[f][r]
      BY <1>5, <1>6, <1>7
    <2> QED
      BY <1>1, <2>1 DEF TablesGrow
  <1>9. Loaded(n)'
    <2>1. ASSUME NEW k \in CrosswalkSeeds[n] PROVE \E r \in rows' : r.key = k /\ crosswalks'[n][r] > 0
      <3>1. PICK r \in done : r.key = k
        BY <1>4
      <3>2. r \in rows /\ r \in Rows /\ loaded[r] = crosswalks[n][r] + 1
        BY <1>3, <1>4, <1>6
      <3> QED
        BY <1>1, <1>3, <1>5, <1>7, <3>1, <3>2
    <2> QED
      BY <2>1 DEF Loaded, Versions
  <1>10. PastComplete(s)' /\ TargetsResolved(s)'
    <2>1. seeder'[s] = NextStage(s)
      BY <1>1, <1>3
    <2> QED
      BY <1>0, <1>1, <1>2, <1>8, <1>9, <2>1, StageDone
  <1>11. \A u \in Seeders \ {s} : PastComplete(u)' /\ TargetsResolved(u)'
    <2>1. \A u \in Seeders \ {s} : seeder'[u] = seeder[u]
      BY <1>1, <1>3
    <2> QED
      BY <1>2, <1>8, <2>1, BystanderKept
  <1>12. FrameworksWhole'
    <2> SUFFICES ASSUME NEW f \in Frameworks, NEW r \in Rows, crosswalks'[f][r] > 0
                 PROVE  Loaded(f)'
      BY DEF FrameworksWhole
    <2>1. CASE f = n
      BY <1>9, <2>1
    <2>2. CASE f # n
      <3>1. crosswalks[f][r] > 0
        BY <1>5, <2>2
      <3>2. Loaded(f)
        BY <3>1 DEF SeedInv, FrameworksWhole
      <3> QED
        BY <1>2, <1>8, <3>2, LoadedKept
    <2> QED
      BY <2>1, <2>2
  <1>13. CrosswalksOfRows'
    <2> SUFFICES ASSUME NEW f \in Frameworks, NEW r \in Rows \ rows
                 PROVE  crosswalks'[f][r] = 0
      BY <1>1 DEF CrosswalksOfRows
    <2>1. crosswalks[f][r] = 0 /\ r \notin done
      BY <1>4 DEF SeedInv, CrosswalksOfRows
    <2> QED
      BY <1>5, <1>6, <2>1
  <1> QED
    BY <1>10, <1>11, <1>12, <1>13 DEF SeedInv

LEMMA SeederKeepsSeedInv ==
    ASSUME IInv, IInv', SeedInv, NEW s \in Seeders, SeederNext(s)
    PROVE  SeedInv'
  <1>1. /\ TypeOK /\ TypeOK' /\ seeder \in [Seeders -> SeederStates] /\ seeder[s] \in SeederStates
        /\ \A f \in Frameworks : \A r \in Rows : crosswalks[f][r] \in Nat
        /\ rows \subseteq Rows
    BY DEF IInv, TypeOK
  <1>2. PastComplete(s) /\ TargetsResolved(s)
    BY DEF SeedInv
  <1>3. ASSUME UNCHANGED corpus PROVE TablesGrow /\ documents' = documents /\ rows' = rows /\ crosswalks' = crosswalks
    BY <1>1, <1>3 DEF TablesGrow, corpus
  <1>4. CASE SeedStart(s) \/ IngestSeed(s)
    <2>1. PICK p \in {"noop", "source"} :
            /\ seeder' = [seeder EXCEPT ![s] = [IdleSeeder EXCEPT !.pc = p]]
            /\ UNCHANGED corpus
      BY <1>4 DEF SeedStart, IngestSeed
    <2>2. seeder'[s] = [pc |-> p, stage |-> 1, todo |-> {}, resolved |-> {}]
      BY <1>1, <2>1 DEF IdleSeeder
    <2>3. \A d \in Sources : ~(d < 1)
      BY DEF Sources
    <2>4. PastComplete(s)' /\ TargetsResolved(s)'
      BY <2>2, <2>3 DEF PastComplete, TargetsResolved
    <2> QED
      BY <1>3, <2>1, <2>4, RunStepKeepsSeedInv
  <1>5. CASE SourceConflict(s) \/ SeedEnd(s)
    <2>1. seeder' = [seeder EXCEPT ![s] = IdleSeeder] /\ UNCHANGED corpus
      BY <1>5 DEF SourceConflict, SeedEnd
    <2>2. seeder'[s].pc = "off"
      BY <1>1, <2>1 DEF IdleSeeder
    <2>3. PastComplete(s)' /\ TargetsResolved(s)'
      BY <2>2 DEF PastComplete, TargetsResolved
    <2> QED
      BY <1>3, <2>1, <2>3, RunStepKeepsSeedInv
  <1>6. CASE SourceProbe(s)
    <2>1. seeder[s].pc = "source" /\ UNCHANGED corpus
      BY <1>6 DEF SourceProbe
    <2>2. CASE seeder[s].stage \in documents
      <3>1. seeder' = [seeder EXCEPT ![s] = NextStage(s)] /\ seeder'[s] = NextStage(s)
        BY <1>1, <1>6, <2>2 DEF SourceProbe
      <3>2. PastComplete(s)' /\ TargetsResolved(s)'
        BY <1>1, <1>3, <2>1, <2>2, <3>1, StageDone
      <3> QED
        BY <1>3, <2>1, <3>1, <3>2, RunStepKeepsSeedInv
    <2>3. CASE seeder[s].stage \notin documents
      <3> DEFINE st == [seeder[s] EXCEPT !.pc = "ingest"]
      <3>1. seeder' = [seeder EXCEPT ![s] = st] /\ seeder'[s] = st
        BY <1>1, <1>6, <2>3 DEF SourceProbe
      <3>2. st.pc = "ingest" /\ st.stage = seeder[s].stage
        BY <1>1 DEF SeederStates
      <3> HIDE DEF st
      <3>3. PastComplete(s)' /\ TargetsResolved(s)'
        BY <1>2, <1>3, <2>1, <3>1, <3>2 DEF PastComplete, TargetsResolved
      <3> QED
        BY <1>3, <2>1, <3>1, <3>3, RunStepKeepsSeedInv
    <2> QED
      BY <2>2, <2>3
  <1>7. CASE SourceCommit(s)
    <2>1. /\ seeder[s].pc = "ingest" /\ documents' = documents \cup {seeder[s].stage}
          /\ rows \subseteq rows' /\ crosswalks' = crosswalks
          /\ seeder' = [seeder EXCEPT ![s] = NextStage(s)] /\ seeder'[s] = NextStage(s)
      BY <1>1, <1>7 DEF SourceCommit
    <2>2. TablesGrow
      BY <1>1, <2>1 DEF TablesGrow
    <2>3. PastComplete(s)' /\ TargetsResolved(s)'
      BY <1>1, <2>1, <2>2, StageDone
    <2> QED
      BY <2>1, <2>3, RunStepKeepsSeedInv
  <1>8. CASE FrameworkProbe(s)
    <2>1. seeder[s].pc = "framework" /\ UNCHANGED corpus /\ seeder[s].stage \in Frameworks
      BY <1>1, <1>8 DEF FrameworkProbe, SeederStates
    <2>2. CASE CrosswalksSeeded(seeder[s].stage)
      <3>1. seeder' = [seeder EXCEPT ![s] = NextStage(s)] /\ seeder'[s] = NextStage(s)
        BY <1>1, <1>8, <2>2 DEF FrameworkProbe
      <3>n. PICK n : n = seeder[s].stage
        OBVIOUS
      <3>2. Loaded(n)
        BY <1>1, <2>1, <2>2, <3>n DEF CrosswalksSeeded, SeedInv, FrameworksWhole
      <3>3. Loaded(n)'
        BY <1>1, <1>3, <2>1, <3>2, <3>n, LoadedKept
      <3>4. PastComplete(s)' /\ TargetsResolved(s)'
        BY <1>1, <1>3, <2>1, <3>1, <3>3, <3>n, StageDone
      <3> QED
        BY <1>3, <2>1, <3>1, <3>4, RunStepKeepsSeedInv
    <2>3. CASE ~CrosswalksSeeded(seeder[s].stage)
      <3> DEFINE st == [seeder[s] EXCEPT !.pc = "resolve", !.todo = CrosswalkSeeds[seeder[s].stage]]
      <3>1. seeder' = [seeder EXCEPT ![s] = st] /\ seeder'[s] = st
        BY <1>1, <1>8, <2>3 DEF FrameworkProbe
      <3>2. /\ st.pc = "resolve" /\ st.stage = seeder[s].stage
            /\ st.todo = CrosswalkSeeds[st.stage] /\ st.resolved = seeder[s].resolved
        BY <1>1 DEF SeederStates
      <3> HIDE DEF st
      <3>3. PastComplete(s)'
        BY <1>1, <1>2, <1>3, <2>1, <3>1, <3>2, LoadedKept DEF PastComplete
      <3>4. TargetsResolved(s)'
        BY <1>2, <2>1, <3>1, <3>2 DEF TargetsResolved
      <3> QED
        BY <1>3, <2>1, <3>1, <3>3, <3>4, RunStepKeepsSeedInv
    <2> QED
      BY <2>2, <2>3
  <1>9. CASE ResolveTarget(s)
    <2>1. seeder[s].pc = "resolve" /\ UNCHANGED corpus
      BY <1>9 DEF ResolveTarget
    <2>2. CASE seeder' = [seeder EXCEPT ![s] = IdleSeeder]
      <3>1. seeder'[s].pc = "off"
        BY <1>1, <2>2 DEF IdleSeeder
      <3>2. PastComplete(s)' /\ TargetsResolved(s)'
        BY <3>1 DEF PastComplete, TargetsResolved
      <3> QED
        BY <1>3, <2>1, <2>2, <3>2, RunStepKeepsSeedInv
    <2>3. ASSUME NEW k \in seeder[s].todo, NEW r \in Live(k),
                 seeder' = [seeder EXCEPT ![s].todo = @ \ {k}, ![s].resolved = @ \cup {r}]
          PROVE  SeedInv'
      <3> DEFINE st == [seeder[s] EXCEPT !.todo = @ \ {k}, !.resolved = @ \cup {r}]
      <3>1. seeder' = [seeder EXCEPT ![s] = st] /\ seeder'[s] = st
        BY <1>1, <2>3
      <3>2. /\ st.pc = "resolve" /\ st.stage = seeder[s].stage
            /\ st.todo = seeder[s].todo \ {k} /\ st.resolved = seeder[s].resolved \cup {r}
        BY <1>1, <2>1 DEF SeederStates
      <3> HIDE DEF st
      <3>3. r \in rows /\ r.key = k
        BY <2>3 DEF Live, Versions
      <3>4. PastComplete(s)'
        BY <1>1, <1>2, <1>3, <2>1, <3>1, <3>2, LoadedKept DEF PastComplete
      <3>5. TargetsResolved(s)'
        BY <1>2, <1>3, <2>1, <3>1, <3>2, <3>3 DEF TargetsResolved
      <3> QED
        BY <1>3, <2>1, <3>1, <3>4, <3>5, RunStepKeepsSeedInv
    <2> QED
      BY <1>9, <2>2, <2>3 DEF ResolveTarget
  <1>10. CASE CrosswalkCommit(s)
    BY <1>10, CrosswalkCommitLoads
  <1> QED
    BY <1>4, <1>5, <1>6, <1>7, <1>8, <1>9, <1>10 DEF SeederNext

LEMMA SeedInvariance == Spec => []SeedInv
  <1>1. Init => SeedInv
    <2> SUFFICES ASSUME Init PROVE SeedInv
      OBVIOUS
    <2>1. \A s \in Seeders : seeder[s].pc = "off"
      BY DEF Init, IdleSeeder
    <2>2. \A f \in Frameworks : \A r \in Rows : crosswalks[f][r] = 0
      BY DEF Init
    <2> QED
      BY <2>1, <2>2 DEF SeedInv, PastComplete, TargetsResolved, FrameworksWhole, CrosswalksOfRows
  <1>2. IInv /\ IInv' /\ SeedInv /\ [Next]_vars => SeedInv'
    <2> SUFFICES ASSUME IInv, IInv', SeedInv, [Next]_vars PROVE SeedInv'
      OBVIOUS
    <2>1. CASE UNCHANGED vars
      <3>1. /\ documents' = documents /\ rows' = rows /\ crosswalks' = crosswalks /\ seeder' = seeder
            /\ TypeOK /\ TypeOK'
        BY <2>1 DEF vars, IInv
      <3>2. \A f \in Frameworks : \A r \in Rows : crosswalks[f][r] \in Nat
        BY <3>1 DEF TypeOK
      <3>3. TablesGrow
        BY <3>1, <3>2 DEF TablesGrow
      <3> QED
        BY <3>1, <3>3, BystanderKept, CrosswalksKept DEF SeedInv
    <2> QED
      BY <2>1, EditorKeepsSeedInv, SeederKeepsSeedInv DEF Next
  <1> QED
    BY <1>1, <1>2, Invariance, PTL DEF Spec

\* However many runs of the seed script overlap, die and are repeated, one that reaches its
\* end leaves every source document and every crosswalk seed loaded.
THEOREM SeedRunCompletesHolds == Spec => []SeedRunCompletes
  <1>1. SeedInv => SeedRunCompletes
    BY DEF SeedInv, SeedRunCompletes, SeedIsPresent, PastComplete, Loaded
  <1> QED
    BY <1>1, SeedInvariance, PTL

-----------------------------------------------------------------------------
(***************************************************************************)
(* How often a crosswalk is loaded.  The probe of a framework and its      *)
(* commit are two transactions, and no constraint stands between two runs  *)
(* that are both past the probe.                                           *)
(***************************************************************************)

\* no two runs are between the probe and the commit of one framework
OneLoaderAtATime ==
    \A s, t \in Seeders :
        (seeder[s].pc = "resolve" /\ seeder[t].pc = "resolve" /\ seeder[s].stage = seeder[t].stage)
            => s = t

\* the run that resolves targets found the framework empty, and takes one version of each key
LoadsAlone(s) ==
    LET st == seeder[s] IN
    st.pc = "resolve" =>
        /\ \A r \in Rows : crosswalks[st.stage][r] = 0
        /\ \A q, r \in st.resolved : q.key = r.key => q = r
        /\ \A r \in st.resolved : r.key \notin st.todo

\* NoDuplicateCrosswalk, of all rows there may be
LoadedOnce ==
    \A f \in Frameworks : \A q, r \in Rows :
        (q.key = r.key /\ crosswalks[f][q] > 0 /\ crosswalks[f][r] > 0)
            => q = r /\ crosswalks[f][q] = 1

OnceInv == LoadedOnce /\ \A s \in Seeders : LoadsAlone(s)

\* Only the commit of a framework writes crosswalks.
LEMMA CrosswalkWriters ==
    ASSUME [Next]_vars, \A s \in Seeders : ~CrosswalkCommit(s)
    PROVE  crosswalks' = crosswalks
  BY DEF Next, EditorNext, SeederNext, Load, RejectSuperseded, FlushInsert, InsertConflict, CopyAndLink,
         Commit, Rollback, SeedStart, IngestSeed, SourceProbe, SourceCommit, SourceConflict,
         FrameworkProbe, ResolveTarget, SeedEnd, corpus, vars

\* How a run comes to resolve targets, or goes on doing so.
LEMMA WhoResolves ==
    ASSUME TypeOK, [Next]_vars, NEW s \in Seeders, seeder'[s].pc = "resolve"
    PROVE  \/ seeder'[s] = seeder[s]
           \/ /\ seeder[s].pc = "framework" /\ ~CrosswalksSeeded(seeder[s].stage)
              /\ seeder'[s].stage = seeder[s].stage
              /\ seeder'[s].todo = CrosswalkSeeds[seeder[s].stage]
              /\ seeder'[s].resolved = seeder[s].resolved
           \/ /\ seeder[s].pc = "resolve"
              /\ seeder'[s].stage = seeder[s].stage
              /\ \E k \in seeder[s].todo : \E r \in Live(k) :
                    /\ seeder'[s].todo = seeder[s].todo \ {k}
                    /\ seeder'[s].resolved = seeder[s].resolved \cup {r}
  <1>1. seeder \in [Seeders -> SeederStates] /\ seeder[s] \in SeederStates
    BY DEF TypeOK
  <1>2. NextStage(s).pc # "resolve"
    BY DEF NextStage, IdleSeeder
  <1>3. CASE SeederNext(s)
    <2>1. CASE FrameworkProbe(s)
      BY <1>1, <1>2, <2>1 DEF FrameworkProbe, SeederStates
    <2>2. CASE ResolveTarget(s)
      BY <1>1, <2>2 DEF ResolveTarget, SeederStates, IdleSeeder
    <2>3. CASE SeedStart(s) \/ IngestSeed(s) \/ SourceConflict(s) \/ SeedEnd(s)
      BY <1>1, <2>3 DEF SeedStart, IngestSeed, SourceConflict, SeedEnd, IdleSeeder
    <2>4. CASE SourceProbe(s)
      BY <1>1, <1>2, <2>4 DEF SourceProbe, SeederStates
    <2>5. CASE SourceCommit(s) \/ CrosswalkCommit(s)
      BY <1>1, <1>2, <2>5 DEF SourceCommit, CrosswalkCommit
    <2> QED
      BY <1>3, <2>1, <2>2, <2>3, <2>4, <2>5 DEF SeederNext
  <1>4. CASE ~SeederNext(s)
    <2>1. ASSUME NEW u \in Seeders \ {s}, SeederNext(u) PROVE seeder'[s] = seeder[s]
      BY <1>1, <2>1 DEF SeederNext, SeedStart, IngestSeed, SourceProbe, SourceCommit, SourceConflict,
             FrameworkProbe, ResolveTarget, CrosswalkCommit, SeedEnd
    <2>2. ASSUME NEW e \in Editors, EditorNext(e) PROVE seeder'[s] = seeder[s]
      BY <2>2 DEF EditorNext, Load, RejectSuperseded, FlushInsert, InsertConflict, CopyAndLink, Commit,
             Rollback
    <2> QED
      BY <1>4, <2>1, <2>2 DEF Next, vars
  <1> QED
    BY <1>3, <1>4

LEMMA NextKeepsOnceInv ==
    ASSUME IInv, SeedInv, OneLoaderAtATime, OnceInv, [Next]_vars
    PROVE  OnceInv'
  <1>1. /\ TypeOK /\ seeder \in [Seeders -> SeederStates]
        /\ crosswalks \in [Frameworks -> [Rows -> Nat]] /\ rows \subseteq Rows
        /\ \A f \in Frameworks : \A r \in Rows : crosswalks[f][r] \in Nat
    BY DEF IInv, TypeOK
  <1>2. ASSUME NEW s \in Seeders, CrosswalkCommit(s)
        PROVE  OnceInv'
    <2>0. PICK n : n = seeder[s].stage
      OBVIOUS
    <2> DEFINE done == seeder[s].resolved
               loaded == [r \in Rows |-> IF r \in done THEN crosswalks[n][r] + 1 ELSE crosswalks[n][r]]
    <2>1. /\ seeder[s].pc = "resolve" /\ n \in Frameworks /\ seeder[s] \in SeederStates
          /\ crosswalks' = [crosswalks EXCEPT ![n] = loaded]
          /\ seeder' = [seeder EXCEPT ![s] = NextStage(s)]
      BY <1>1, <1>2, <2>0 DEF CrosswalkCommit, SeederStates
    <2>2. /\ \A r \in Rows : crosswalks[n][r] = 0
          /\ \A q, r \in done : q.key = r.key => q = r
      BY <2>0, <2>1 DEF OnceInv, LoadsAlone
    <2> HIDE DEF done, loaded
    <2>3. /\ crosswalks'[n] = loaded
          /\ \A f \in Frameworks \ {n} : crosswalks'[f] = crosswalks[f]
      BY <1>1, <2>1
    <2>4. \A r \in Rows : loaded[r] = IF r \in done THEN 1 ELSE 0
      BY <2>2 DEF loaded
    <2>5. LoadedOnce'
      <3> SUFFICES ASSUME NEW f \in Frameworks, NEW q \in Rows, NEW r \in Rows, q.key = r.key,
                          crosswalks'[f][q] > 0, crosswalks'[f][r] > 0
                   PROVE  q = r /\ crosswalks'[f][q] = 1
        BY DEF LoadedOnce
      <3>1. CASE f = n
        BY <2>2, <2>3, <2>4, <3>1
      <3>2. CASE f # n
        BY <2>3, <3>2 DEF OnceInv, LoadedOnce
      <3> QED
        BY <3>1, <3>2
    <2>6. ASSUME NEW u \in Seeders PROVE LoadsAlone(u)'
      <3>1. CASE u = s
        <4>1. seeder'[u] = NextStage(s) /\ NextStage(s).pc # "resolve"
          BY <1>1, <2>1, <3>1 DEF NextStage, IdleSeeder
        <4> QED
          BY <4>1 DEF LoadsAlone
      <3>2. CASE u # s
        <4>1. seeder'[u] = seeder[u]
          BY <1>1, <2>1, <3>2
        <4>2. seeder[u].pc = "resolve" => seeder[u].stage # n /\ seeder[u].stage \in Frameworks
          BY <1>1, <2>0, <2>1, <3>2 DEF OneLoaderAtATime, SeederStates
        <4>3. seeder[u].pc = "resolve" => crosswalks'[seeder[u].stage] = crosswalks[seeder[u].stage]
          BY <2>3, <4>2
        <4> QED
          BY <4>1, <4>3 DEF OnceInv, LoadsAlone
      <3> QED
        BY <3>1, <3>2
    <2> QED
      BY <2>5, <2>6 DEF OnceInv
  <1>3. ASSUME crosswalks' = crosswalks
        PROVE  OnceInv'
    <2>1. LoadedOnce'
      BY <1>3 DEF OnceInv, LoadedOnce
    <2>2. ASSUME NEW s \in Seeders, seeder'[s].pc = "resolve" PROVE LoadsAlone(s)'
      <3>1. CASE seeder'[s] = seeder[s]
        BY <1>3, <3>1 DEF OnceInv, LoadsAlone
      <3>2. CASE /\ seeder[s].pc = "framework" /\ ~CrosswalksSeeded(seeder[s].stage)
                 /\ seeder'[s].stage = seeder[s].stage
                 /\ seeder'[s].resolved = seeder[s].resolved
        <4>1. seeder[s].stage \in Frameworks /\ seeder[s].resolved = {}
          BY <1>1, <3>2 DEF SeederStates, SeedInv, TargetsResolved
        <4>2. ASSUME NEW r \in Rows PROVE crosswalks[seeder[s].stage][r] = 0
          <5>1. CASE r \in rows
            <6>1. ~(crosswalks[seeder[s].stage][r] > 0)
              BY <3>2, <5>1 DEF CrosswalksSeeded
            <6> QED
              BY <1>1, <4>1, <6>1
          <5>2. CASE r \notin rows
            BY <4>1, <5>2 DEF SeedInv, CrosswalksOfRows
          <5> QED
            BY <5>1, <5>2
        <4> QED
          BY <1>3, <3>2, <4>1, <4>2 DEF LoadsAlone
      <3>3. ASSUME seeder[s].pc = "resolve", seeder'[s].stage = seeder[s].stage,
                   NEW k \in seeder[s].todo, NEW r \in Live(k),
                   seeder'[s].todo = seeder[s].todo \ {k},
                   seeder'[s].resolved = seeder[s].resolved \cup {r}
            PROVE  LoadsAlone(s)'
        <4>1. r.key = k
          BY DEF Live, Versions
        <4>2. LoadsAlone(s)
          BY DEF OnceInv
        <4> QED
          BY <1>3, <3>3, <4>1, <4>2 DEF LoadsAlone
      <3> QED
        BY <1>1, <2>2, <3>1, <3>2, <3>3, WhoResolves
    <2> QED
      BY <2>1, <2>2 DEF OnceInv, LoadsAlone
  <1> QED
    BY <1>2, <1>3, CrosswalkWriters

\* Runs that die and are repeated load no crosswalk twice, as long as no two of them load
\* one framework at once.
THEOREM LoadedOnceHolds == Spec /\ []OneLoaderAtATime => []NoDuplicateCrosswalk
  <1>1. Init => OnceInv
    BY DEF Init, OnceInv, LoadedOnce, LoadsAlone, IdleSeeder
  <1>2. IInv /\ SeedInv /\ OneLoaderAtATime /\ OnceInv /\ [Next]_vars => OnceInv'
    BY NextKeepsOnceInv
  <1>3. IInv /\ OnceInv => NoDuplicateCrosswalk
    BY DEF IInv, TypeOK, OnceInv, LoadedOnce, NoDuplicateCrosswalk
  <1> QED
    BY <1>1, <1>2, <1>3, Invariance, SeedInvariance, PTL DEF Spec

\* In particular where one process runs the script, however often.
THEOREM NoDuplicateHolds == (\A s, t \in Seeders : s = t) => (Spec => []NoDuplicateCrosswalk)
  <1> SUFFICES ASSUME \A s, t \in Seeders : s = t
               PROVE  Spec => []NoDuplicateCrosswalk
    OBVIOUS
  <1>1. OneLoaderAtATime
    BY DEF OneLoaderAtATime
  <1>2. []OneLoaderAtATime
    BY <1>1, PTL
  <1> QED
    BY <1>2, LoadedOnceHolds, PTL

\* the runs between the probe and the commit of a framework
Loaders(f) == {s \in Seeders : seeder[s].pc = "resolve" /\ seeder[s].stage = f}

\* With overlapping runs no crosswalk is loaded more often than there are runs at a time.
DuplicatesBounded ==
    \A f \in Frameworks : \A r \in Rows : crosswalks[f][r] <= Cardinality(Seeders)

\* who has found the framework empty, and what has been loaded since
LoadersCounted ==
    \A f \in Frameworks : \A r \in Rows :
        crosswalks[f][r] + Cardinality(Loaders(f)) <= Cardinality(Seeders)

LEMMA FewLoaders ==
    ASSUME IsFiniteSet(Seeders), NEW f
    PROVE  /\ IsFiniteSet(Loaders(f)) /\ Cardinality(Loaders(f)) \in Nat
           /\ Cardinality(Seeders) \in Nat /\ Cardinality(Loaders(f)) <= Cardinality(Seeders)
  <1>1. Loaders(f) \subseteq Seeders
    BY DEF Loaders
  <1> QED
    BY <1>1, FS_Subset, FS_CardinalityType

LEMMA NextKeepsLoadersCounted ==
    ASSUME IsFiniteSet(Seeders), IInv, IInv', SeedInv, LoadersCounted, [Next]_vars
    PROVE  LoadersCounted'
  <1>1. /\ TypeOK /\ TypeOK' /\ seeder \in [Seeders -> SeederStates]
        /\ crosswalks \in [Frameworks -> [Rows -> Nat]]
        /\ \A f \in Frameworks : \A r \in Rows : crosswalks[f][r] \in Nat
    BY DEF IInv, TypeOK
  <1>2. ASSUME NEW f \in Frameworks
        PROVE  IsFiniteSet(Loaders(f)') /\ Cardinality(Loaders(f)') \in Nat
               /\ Cardinality(Loaders(f)') <= Cardinality(Seeders)
    <2>1. Loaders(f)' \subseteq Seeders
      BY DEF Loaders
    <2> QED
      BY <2>1, FS_Subset, FS_CardinalityType
  <1>3. ASSUME NEW s \in Seeders, CrosswalkCommit(s)
        PROVE  LoadersCounted'
    <2>0. PICK n : n = seeder[s].stage
      OBVIOUS
    <2> DEFINE loaded == [r \in Rows |-> IF r \in seeder[s].resolved THEN crosswalks[n][r] + 1
                                                                   ELSE crosswalks[n][r]]
    <2>1. /\ seeder[s].pc = "resolve" /\ n \in Frameworks
          /\ crosswalks' = [crosswalks EXCEPT ![n] = loaded]
          /\ seeder' = [seeder EXCEPT ![s] = NextStage(s)] /\ NextStage(s).pc # "resolve"
      BY <1>1, <1>3, <2>0 DEF CrosswalkCommit, SeederStates, NextStage, IdleSeeder
    <2>2. \A r \in Rows : loaded[r] <= crosswalks[n][r] + 1
      BY <1>1, <2>1
    <2> HIDE DEF loaded
    <2>3. /\ crosswalks'[n] = loaded
          /\ \A f \in Frameworks \ {n} : crosswalks'[f] = crosswalks[f]
      BY <1>1, <2>1
    <2>4. \A f \in Frameworks : Loaders(f)' = Loaders(f) \ {s}
      BY <1>1, <2>1 DEF Loaders
    <2>5. s \in Loaders(n) /\ \A f \in Frameworks \ {n} : s \notin Loaders(f)
      BY <2>0, <2>1 DEF Loaders
    <2> SUFFICES ASSUME NEW f \in Frameworks, NEW r \in Rows
                 PROVE  crosswalks'[f][r] + Cardinality(Loaders(f)') <= Cardinality(Seeders)
      BY DEF LoadersCounted
    <2>6. crosswalks[f][r] + Cardinality(Loaders(f)) <= Cardinality(Seeders)
      BY DEF LoadersCounted
    <2>7. CASE f = n
      <3>1. Cardinality(Loaders(f)') = Cardinality(Loaders(f)) - 1
        <4>1. s \in Loaders(f) /\ Loaders(f)' = Loaders(f) \ {s}
          BY <2>4, <2>5, <2>7
        <4> QED
          BY <4>1, FewLoaders, FS_RemoveElement
      <3>2. crosswalks'[f][r] \in Nat /\ crosswalks'[f][r] <= crosswalks[f][r] + 1 /\ crosswalks[f][r] \in Nat
        BY <1>1, <2>2, <2>3, <2>7 DEF TypeOK
      <3>3. Cardinality(Loaders(f)) \in Nat /\ Cardinality(Seeders) \in Nat
        BY FewLoaders
      <3> QED
        BY <2>6, <3>1, <3>2, <3>3
    <2>8. CASE f # n
      <3>1. Loaders(f)' = Loaders(f)
        BY <2>4, <2>5, <2>8
      <3>2. crosswalks'[f] = crosswalks[f]
        BY <2>3, <2>8
      <3> QED
        BY <2>6, <3>1, <3>2
    <2> QED
      BY <2>7, <2>8
  <1>4. ASSUME crosswalks' = crosswalks
        PROVE  LoadersCounted'
    <2> SUFFICES ASSUME NEW f \in Frameworks, NEW r \in Rows
                 PROVE  crosswalks[f][r] + Cardinality(Loaders(f)') <= Cardinality(Seeders)
      BY <1>4 DEF LoadersCounted
    <2>1. crosswalks[f][r] \in Nat /\ Cardinality(Seeders) \in Nat
      BY <1>1, FewLoaders
    <2>2. CASE crosswalks[f][r] = 0
      BY <1>2, <2>1, <2>2
    <2>3. CASE crosswalks[f][r] > 0
      <3>1. CrosswalksSeeded(f)
        <4>1. r \in rows
          BY <2>3 DEF SeedInv, CrosswalksOfRows
        <4> QED
          BY <2>3, <4>1 DEF CrosswalksSeeded
      <3>2. Loaders(f)' \subseteq Loaders(f)
        BY <1>1, <3>1, WhoResolves DEF Loaders
      <3>3. Cardinality(Loaders(f)') <= Cardinality(Loaders(f))
        BY <3>2, FewLoaders, FS_Subset
      <3>4. crosswalks[f][r] + Cardinality(Loaders(f)) <= Cardinality(Seeders)
        BY DEF LoadersCounted
      <3>5. Cardinality(Loaders(f)) \in Nat
        BY FewLoaders
      <3> QED
        BY <1>2, <2>1, <3>3, <3>4, <3>5
    <2> QED
      BY <2>1, <2>2, <2>3
  <1> QED
    BY <1>3, <1>4, CrosswalkWriters

\* Where at most n runs of the seed script overlap, no row has more than n copies of a
\* crosswalk, however often they die and are repeated.
THEOREM DuplicatesBoundedHolds == IsFiniteSet(Seeders) => (Spec => []DuplicatesBounded)
  <1> SUFFICES ASSUME IsFiniteSet(Seeders)
               PROVE  Spec => []DuplicatesBounded
    OBVIOUS
  <1>1. Init => LoadersCounted
    <2> SUFFICES ASSUME Init, NEW f \in Frameworks, NEW r \in Rows
                 PROVE  crosswalks[f][r] + Cardinality(Loaders(f)) <= Cardinality(Seeders)
      BY DEF LoadersCounted
    <2>1. crosswalks[f][r] = 0
      BY DEF Init
    <2> QED
      BY <2>1, FewLoaders
  <1>2. IInv /\ IInv' /\ SeedInv /\ LoadersCounted /\ [Next]_vars => LoadersCounted'
    BY NextKeepsLoadersCounted
  <1>3. IInv /\ LoadersCounted => DuplicatesBounded
    <2> SUFFICES ASSUME IInv, LoadersCounted, NEW f \in Frameworks, NEW r \in Rows
                 PROVE  crosswalks[f][r] <= Cardinality(Seeders)
      BY DEF DuplicatesBounded
    <2>1. crosswalks[f][r] + Cardinality(Loaders(f)) <= Cardinality(Seeders)
      BY DEF LoadersCounted
    <2>2. crosswalks[f][r] \in Nat
      BY DEF IInv, TypeOK
    <2> QED
      BY <2>1, <2>2, FewLoaders
  <1> QED
    BY <1>1, <1>2, <1>3, Invariance, SeedInvariance, PTL DEF Spec

-----------------------------------------------------------------------------
(***************************************************************************)
(* The corpus implements the law book.  A source's commit enters it, an    *)
(* amendment's commit amends its key, every other step changes nothing the *)
(* book shows.                                                             *)
(***************************************************************************)

\* The text of a requirement is that of its live row, with the seed's applicability.
LiveTexts ==
    \A r \in rows : supersededBy[r] = NoRow =>
        TextInForce(r.key) = [version |-> r.version, conditions |-> SeedConditions[r.key],
                              exceptions |-> SeedExceptions[r.key]]

\* The text in force is the live row's, which is the only one.
LEMMA TextOfLive == IInv => LiveTexts
  <1> SUFFICES ASSUME IInv, NEW r \in rows, supersededBy[r] = NoRow
               PROVE  TextInForce(r.key) =
                        [version |-> r.version, conditions |-> SeedConditions[r.key],
                         exceptions |-> SeedExceptions[r.key]]
    BY DEF LiveTexts
  <1>1. ASSUME NEW q \in Live(r.key)
        PROVE  q = r
    <2>1. q \in rows /\ q.key = r.key /\ supersededBy[q] = NoRow
      BY DEF Live, Versions
    <2>2. q.version \in Nat /\ r.version \in Nat
      BY <2>1 DEF IInv, TypeOK, Rows
    <2>3. ~(q.version < r.version) /\ ~(r.version < q.version)
      BY <2>1 DEF IInv, VersionChain
    <2>4. SameVersion(q, r)
      BY <2>1, <2>2, <2>3 DEF SameVersion
    <2>5. QED
      BY <2>1, <2>4 DEF IInv, VersionChain
  <1>2. r \in Live(r.key)
    BY DEF Live, Versions
  <1>3. (CHOOSE q \in Live(r.key) : TRUE) = r
    BY <1>1, <1>2
  <1>4. conditions[r] = SeedConditions[r.key] /\ exceptions[r] = SeedExceptions[r.key]
    BY DEF IInv, ConditionsKept
  <1>5. QED
    BY <1>2, <1>3, <1>4 DEF TextInForce

\* What a requirement shows does not change when no row of it appears, is superseded or
\* is written to.
LEMMA OtherKeysKept ==
    ASSUME NEW k \in Keys, Versions(k)' = Versions(k),
           \A r \in Versions(k) : /\ supersededBy'[r] = supersededBy[r]
                                  /\ conditions'[r] = conditions[r]
                                  /\ exceptions'[r] = exceptions[r]
    PROVE  VersionsOnFile(k)' = VersionsOnFile(k) /\ TextInForce(k)' = TextInForce(k)
  <1>1. Live(k)' = Live(k) /\ Live(k) \subseteq Versions(k)
    BY DEF Live
  <1>2. Live(k) # {} => (CHOOSE r \in Live(k) : TRUE) \in Live(k)
    OBVIOUS
  <1>3. TextInForce(k)' = TextInForce(k)
    BY <1>1, <1>2 DEF TextInForce
  <1>4. QED
    BY <1>3 DEF VersionsOnFile

\* The commit of a source enters it.
LEMMA SourceCommitEnters ==
    ASSUME IInv, LiveTexts', NEW s \in Seeders, SourceCommit(s)
    PROVE  Book!Enter(seeder[s].stage)
  <1> DEFINE d == seeder[s].stage
             added == {SeedRow(k, s) : k \in {x \in Keys : SourceOf[x] = d}}
  <1>1. /\ d \notin documents
        /\ documents' = documents \cup {d}
        /\ rows' = rows \cup added
        /\ conditions' = [r \in Rows |-> IF r \in added THEN SeedConditions[r.key] ELSE conditions[r]]
        /\ exceptions' = [r \in Rows |-> IF r \in added THEN SeedExceptions[r.key] ELSE exceptions[r]]
        /\ supersededBy' = supersededBy
    BY DEF SourceCommit
  <1>2. \A r \in added : r.version = 1 /\ r.key \in Keys /\ SourceOf[r.key] = d
    BY DEF SeedRow
  <1>3. \A k \in Keys : SourceOf[k] = d => SeedRow(k, s) \in added /\ SeedRow(k, s).key = k
    BY DEF SeedRow
  <1>4. \A k \in Keys : SeedRow(k, s) \in Rows
    BY DEF SeedRow, Rows
  <1> HIDE DEF added
  <1>5. ASSUME NEW k \in Keys, SourceOf[k] = d
        PROVE  /\ VersionsOnFile(k)' = {1}
               /\ TextInForce(k)' = [version |-> 1, conditions |-> SeedConditions[k],
                                     exceptions |-> SeedExceptions[k]]
    <2>1. Versions(k) = {}
      BY <1>1, <1>5 DEF IInv, SourceAllOrNothing
    <2>2. Versions(k)' = {r \in added : r.key = k}
      BY <2>1, <1>1 DEF Versions
    <2>3. VersionsOnFile(k)' = {1}
      BY <2>2, <1>2, <1>3, <1>5 DEF VersionsOnFile
    <2> DEFINE new == SeedRow(k, s)
    <2>4. new \in rows' /\ new.key = k /\ new.version = 1
      BY <1>1, <1>2, <1>3, <1>5
    <2>5. supersededBy'[new] = NoRow
      BY <2>1, <2>4, <1>1, <1>4 DEF IInv, UnwrittenRowsBlank, Versions
    <2> HIDE DEF new
    <2>6. TextInForce(k)' = [version |-> new.version, conditions |-> SeedConditions[k],
                             exceptions |-> SeedExceptions[k]]
      BY <2>4, <2>5 DEF LiveTexts
    <2>7. QED
      BY <2>3, <2>4, <2>6
  <1>6. ASSUME NEW k \in Keys, SourceOf[k] # d
        PROVE  VersionsOnFile(k)' = VersionsOnFile(k) /\ TextInForce(k)' = TextInForce(k)
    <2>1. \A r \in added : r.key # k
      BY <1>2, <1>6
    <2>2. Versions(k)' = Versions(k)
      BY <2>1, <1>1 DEF Versions
    <2>3. \A r \in Versions(k) : conditions'[r] = conditions[r] /\ exceptions'[r] = exceptions[r]
      BY <2>1, <1>1 DEF IInv, TypeOK, Versions
    <2>4. QED
      BY <1>1, <2>2, <2>3, OtherKeysKept
  <1>7. QED
    BY <1>1, <1>5, <1>6 DEF Book!Enter

\* The commit of an amendment amends the requirement it loaded.
LEMMA CommitAmends ==
    ASSUME IInv, LiveTexts, LiveTexts', NEW e \in Editors, Commit(e)
    PROVE  \E k \in Keys : Book!Amend(k)
  <1>1. InFlight(e) /\ editor[e].pc # "idle"
    BY DEF Commit, InFlight
  <1>2. editor[e].old \in Rows /\ NewRow(e) \in Rows
    BY <1>1, NewRowType DEF IInv
  <1>3. PICK old \in Rows, new \in Rows : old = editor[e].old /\ new = NewRow(e)
    BY <1>2
  <1>4. /\ rows' = rows \cup {new}
        /\ supersededBy' = [supersededBy EXCEPT ![old] = new]
        /\ conditions' = [conditions EXCEPT ![new] = editor[e].copied[1]]
        /\ exceptions' = [exceptions EXCEPT ![new] = editor[e].copied[2]]
        /\ documents' = documents
    BY <1>3 DEF Commit
  <1>5. /\ old \in rows /\ old.version < MaxVersion
        /\ new.key = old.key /\ new.version = old.version + 1
    BY <1>1, <1>3, NewRowType DEF IInv, OldCommitted
  <1>6. new \notin rows /\ old # new
    BY <1>1, <1>3, <1>5 DEF IInv, InsertReserved, SameVersion
  <1>7. supersededBy[old] = NoRow
    BY <1>1, <1>3, OldIsLive
  <1>8. /\ supersededBy \in [Rows -> Rows \cup {NoRow}] /\ rows \subseteq Rows
        /\ conditions \in [Rows -> SUBSET ConditionValues]
        /\ exceptions \in [Rows -> SUBSET ExceptionValues]
        /\ old.key \in Keys
    BY <1>5 DEF IInv, TypeOK, Rows
  <1>9. supersededBy'[new] = NoRow
    BY <1>4, <1>5, <1>6, <1>8 DEF IInv, UnwrittenRowsBlank
  <1>10. SourceOf[old.key] \in documents
    BY <1>5, <1>8 DEF IInv, SourceAllOrNothing, Versions
  <1>11. TextInForce(old.key) =
            [version |-> old.version, conditions |-> SeedConditions[old.key],
             exceptions |-> SeedExceptions[old.key]]
    BY <1>5, <1>7 DEF LiveTexts
  <1>12. TextInForce(old.key)' =
            [version |-> old.version + 1, conditions |-> SeedConditions[old.key],
             exceptions |-> SeedExceptions[old.key]]
    <2>1. new \in rows'
      BY <1>4
    <2>2. TextInForce(new.key)' =
            [version |-> new.version, conditions |-> SeedConditions[new.key],
             exceptions |-> SeedExceptions[new.key]]
      BY <2>1, <1>9 DEF LiveTexts
    <2>3. QED
      BY <2>2, <1>5
  <1>13. VersionsOnFile(old.key)' = VersionsOnFile(old.key) \cup {old.version + 1}
    <2>1. Versions(old.key)' = Versions(old.key) \cup {new}
      BY <1>4, <1>5 DEF Versions
    <2>2. QED
      BY <2>1, <1>5 DEF VersionsOnFile
  <1>14. ASSUME NEW k \in Keys, k # old.key
         PROVE  VersionsOnFile(k)' = VersionsOnFile(k) /\ TextInForce(k)' = TextInForce(k)
    <2>1. Versions(k)' = Versions(k) /\ Versions(k) \subseteq Rows
      BY <1>4, <1>5, <1>8, <1>14 DEF Versions
    <2>2. \A r \in Versions(k) : r # old /\ r # new
      BY <1>5, <1>14 DEF Versions
    <2>3. QED
      BY <1>4, <1>8, <2>1, <2>2, OtherKeysKept
  <1>15. [k \in Keys |-> TextInForce(k)]' =
            [[k \in Keys |-> TextInForce(k)] EXCEPT ![old.key].version = @ + 1]
    BY <1>8, <1>11, <1>12, <1>14
  <1>16. [k \in Keys |-> VersionsOnFile(k)]' =
            [[k \in Keys |-> VersionsOnFile(k)] EXCEPT
                ![old.key] = @ \cup {[k \in Keys |-> TextInForce(k)][old.key].version + 1}]
    <2>1. [k \in Keys |-> TextInForce(k)][old.key].version = old.version
      BY <1>8, <1>11
    <2> DEFINE amended == old.version + 1
    <2>2. VersionsOnFile(old.key)' = VersionsOnFile(old.key) \cup {amended}
      BY <1>13
    <2> HIDE DEF amended
    <2>3. [k \in Keys |-> VersionsOnFile(k)]' =
              [[k \in Keys |-> VersionsOnFile(k)] EXCEPT ![old.key] = @ \cup {amended}]
      BY <1>8, <1>14, <2>2
    <2>4. QED
      BY <2>1, <2>3 DEF amended
  <1>17. [k \in Keys |-> TextInForce(k)][old.key].version < MaxVersion
    BY <1>5, <1>8, <1>11
  <1>18. QED
    BY <1>4, <1>8, <1>10, <1>15, <1>16, <1>17 DEF Book!Amend

\* Behind rows, links, transactions and runs of the seed script that may die, the corpus
\* is a law book: every behaviour of the tables shows one of LawBook's.
THEOREM Refinement == Spec => ImplementsLawBook
  <1>1. Init => Book!Init
    BY DEF Init, Book!Init, VersionsOnFile, TextInForce, Live, Versions
  <1>2. IInv /\ LiveTexts /\ LiveTexts' /\ [Next]_vars => [Book!Next]_(Book!vars)
    <2> SUFFICES ASSUME IInv, LiveTexts, LiveTexts', [Next]_vars
                 PROVE  [Book!Next]_(Book!vars)
      OBVIOUS
    <2>1. ASSUME UNCHANGED <<documents, rows, supersededBy, conditions, exceptions>>
          PROVE  UNCHANGED Book!vars
      BY <2>1 DEF Book!vars, VersionsOnFile, TextInForce, Live, Versions
    <2>2. CASE \E e \in Editors : Commit(e)
      BY <2>2, CommitAmends DEF Book!Next
    <2>3. CASE \E s \in Seeders : SourceCommit(s)
      <3>1. PICK s \in Seeders : SourceCommit(s)
        BY <2>3
      <3>2. seeder[s].stage \in Sources
        BY <3>1 DEF SourceCommit, IInv, TypeOK, SeederStates
      <3>3. QED
        BY <3>1, <3>2, SourceCommitEnters DEF Book!Next
    <2>4. CASE /\ ~\E e \in Editors : Commit(e)
               /\ ~\E s \in Seeders : SourceCommit(s)
      <3>1. ASSUME NEW e \in Editors, EditorNext(e), ~Commit(e)
            PROVE  UNCHANGED corpus
        BY <3>1 DEF EditorNext, Load, RejectSuperseded, FlushInsert, InsertConflict,
                    CopyAndLink, Rollback
      <3>2. ASSUME NEW s \in Seeders, SeederNext(s), ~SourceCommit(s)
            PROVE  UNCHANGED <<documents, rows, supersededBy, conditions, exceptions>>
        BY <3>2 DEF SeederNext, SeedStart, IngestSeed, SourceProbe, SourceConflict,
                    FrameworkProbe, ResolveTarget, CrosswalkCommit, SeedEnd, corpus
      <3>3. UNCHANGED <<documents, rows, supersededBy, conditions, exceptions>>
        BY <2>4, <3>1, <3>2 DEF Next, vars, corpus
      <3>4. QED
        BY <3>3, <2>1
    <2>5. QED
      BY <2>2, <2>3, <2>4
  <1>3. QED
    BY <1>1, <1>2, Invariance, TextOfLive, PTL DEF Spec, ImplementsLawBook, Book!Spec

=============================================================================
