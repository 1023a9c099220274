------------------------- MODULE AssessmentPipeline -------------------------
(***************************************************************************)
(* What becomes of one request: POST /assess and POST /report, or the      *)
(* public POST /ai-risk-check.  Every category is classified in turn, by   *)
(* rule where the law has nothing to say and by one LLM call otherwise;    *)
(* obligations follow from the classification, evidence is assessed with   *)
(* one LLM call per obligation, and gaps and review flags are computed     *)
(* before the record is stored.  The LLM may answer anything that passes   *)
(* the response schema, fail to, or raise; meanwhile the law grows.        *)
(*                                                                         *)
(* A requirement is a key and the days it applies on, its window.  An      *)
(* amendment replaces the live version in one transaction and copies its   *)
(* applicability (LegalCorpus), so here it changes nothing: only the       *)
(* seeding of a source does.  Articles 9 to 15 are for the provider role   *)
(* and everything else for any role.  No category's keys are among those   *)
(* articles, and obligations are looked up by key alone, so the role       *)
(* filter of the retrieval removes no candidate and is left out.  One      *)
(* completion costs one token.                                             *)
(***************************************************************************)
EXTENDS Naturals, Sequences, FiniteSets

CONSTANTS
    Categories,     \* the members of ClassificationCategory, in order
    Prohibited,     \* PROHIBITED_PRACTICES
    HighRisk,       \* HIGH_RISK
    Keys,           \* requirement keys
    KeysOf,         \* CATEGORY_KEY_PREFIXES: the keys a category may cite
    DutyKeys,       \* HIGH_RISK_OBLIGATION_KEYS
    Cease,          \* PROHIBITED_PRACTICE_CEASE_KEY, which is no requirement
    Sources,        \* the sources of a seed, each a set of keys
    Window,         \* per key, the dates its requirement applies on
    Dates,          \* assessment dates
    Limit,          \* the most candidates a retrieval returns
    Nobody          \* no LLM call under way

CategorySet == {Categories[i] : i \in 1..Len(Categories)}
Duties == DutyKeys \cup {Cease}

ASSUME PipelineAssumption ==
    /\ Categories \in Seq(STRING)
    /\ \A i, j \in 1..Len(Categories) : Categories[i] = Categories[j] => i = j
    /\ {Prohibited, HighRisk} \subseteq CategorySet
    /\ Prohibited # HighRisk
    /\ KeysOf \in [CategorySet -> SUBSET Keys]
    /\ IsFiniteSet(Keys)
    /\ DutyKeys \subseteq Keys
    /\ Cease \notin Keys
    /\ Sources \subseteq SUBSET Keys
    /\ Window \in [Keys -> SUBSET Dates]
    /\ Limit \in Nat \ {0}
    /\ Nobody \notin CategorySet \cup Duties
    /\ Duties \cap CategorySet = {}

VARIABLES
    ingested,     \* the keys of the requirements in the corpus
    phase,        \* where the request is
    kind,         \* "assess", or "quick" for the public risk check
    asOf,         \* the assessment date
    assessments,  \* the conclusions so far, one per category
    candidates,   \* per category, what its retrieval returned
    asked,        \* the category or obligation the LLM is asked about
    attempt,      \* 1, or 2 when the first completion was malformed
    calls,        \* the LLMCallRecords: good ones, failed ones, their tokens
    duties,       \* the obligations mapped last
    evidence,     \* per obligation of the form, the text to assess
    verdicts,     \* per obligation, its evidence assessment
    record,       \* the AssessmentRecord stored, once phase is "stored"
    spent,        \* history: tokens the provider has charged
    known         \* history: the keys ingested when the request came

request == <<kind, asOf, known>>
classification == <<assessments, candidates>>
llm == <<asked, attempt, calls, spent>>
report == <<duties, evidence, verdicts, record>>
vars == <<ingested, phase, request, classification, llm, report>>

-----------------------------------------------------------------------------
(* The law as the queries find it *)

InForce(S, d) == {k \in S : d \in Window[k]}

\* Mutant: the any-time retrieval keeps the date
MatchingDated(c) == KeysOf[c] \cap InForce(ingested, asOf)

\* retrieve without a date
MatchingAnyTime(c) == KeysOf[c] \cap ingested

\* retrieve with a date: the best Limit matches; keyword overlap ranks them
RetrievedSets(c) ==
    LET matching == KeysOf[c] \cap InForce(ingested, asOf) IN
    {cs \in SUBSET matching :
        Cardinality(cs) = IF Cardinality(matching) <= Limit THEN Cardinality(matching) ELSE Limit}

-----------------------------------------------------------------------------
(* Conclusions about a category.  basis: what the rationale says the conclusion rests on.
   Confidence, which only adds review flags of its own, is left out. *)

States == {"YES", "NO", "POSSIBLY", "INSUFFICIENT_INFORMATION", "NOT_APPLICABLE"}
CitedStates == {"YES", "POSSIBLY"}

Insufficient(c, basis) ==
    [category |-> c, state |-> "INSUFFICIENT_INFORMATION", cites |-> {}, basis |-> basis]

NotYetInForce(c) ==
    [category |-> c, state |-> "NOT_APPLICABLE", cites |-> {}, basis |-> "not in force"]

\* What CategoryClassification accepts: no YES or POSSIBLY without a citation
ClassifierAnswers ==
    {a \in [category: CategorySet, state: States, cites: SUBSET Keys] :
        a.state \in CitedStates => a.cites # {}}

FromModel(a) ==
    [category |-> a.category, state |-> a.state, cites |-> a.cites, basis |-> "model"]

\* Mutant: the citations are not verified
ConcludeUnverified(c, a) ==
    IF a.category = c THEN FromModel(a) ELSE Insufficient(c, "failed closed")

\* classify_category: an answer about another category or with a citation that was not
\* retrieved fails closed
Conclude(c, a) ==
    IF a.category = c /\ a.cites \subseteq candidates[c]
    THEN FromModel(a)
    ELSE Insufficient(c, "failed closed")

-----------------------------------------------------------------------------
(* Obligations, evidence, gaps and review flags *)

Triggered(c) == \E i \in DOMAIN assessments :
    assessments[i].category = c /\ assessments[i].state \in CitedStates

\* map_obligations
MapObligations ==
    (IF Triggered(HighRisk) THEN DutyKeys \cap ingested ELSE {})
        \cup (IF Triggered(Prohibited) THEN {Cease} ELSE {})

\* An accepted upload replaces the pasted text, a refused one leaves it. Only a .txt file
\* is accepted with blank text.
Pasted == {"none", "blank", "text"}
Uploads == {"none", "refused", "blank", "text"}
EvidenceText(pasted, upload) == IF upload \in {"none", "refused"} THEN pasted ELSE upload

Statuses == {"COMPLIANT", "PARTIALLY_COMPLIANT", "INSUFFICIENT_EVIDENCE", "NON_COMPLIANT",
             "NOT_APPLICABLE"}

\* What EvidenceAssessment accepts, its seven dimensions abstracted: the model can claim
\* COMPLIANT for any text, as long as it claims every dimension met
AssessorAnswers == [key: Duties, status: Statuses, contradicted: BOOLEAN]

InsufficientEvidence(d) ==
    [key |-> d, status |-> "INSUFFICIENT_EVIDENCE", contradicted |-> FALSE]

\* assess_evidence: an answer about another obligation fails closed
Judge(d, a) == IF a.key = d THEN a ELSE InsufficientEvidence(d)

\* Mutant: blank text counts as evidence
SuppliedBlank(d) == d \in DOMAIN evidence /\ evidence[d] # "none"

\* There is text to assess once white space is stripped.
Supplied(d) == d \in DOMAIN evidence /\ evidence[d] = "text"

\* compute_gaps
Gaps == {d \in duties : verdicts[d].status # "COMPLIANT"}

\* determine_review_flags: the states that are high impact are listed apart from those that
\* map_obligations is triggered by
HighImpactStates == {"YES", "POSSIBLY"}
ClassificationFlags ==
    LET In(S) == {assessments[i].category : i \in {j \in DOMAIN assessments : assessments[j].state \in S}}
    IN  {<<"insufficient_information", c>> : c \in In({"INSUFFICIENT_INFORMATION"})}
        \cup {<<"high_impact", c>> : c \in {Prohibited, HighRisk} \cap In(HighImpactStates)}

\* Mutant: partial compliance is not low-quality evidence
EvidenceFlagsPartial ==
    {<<"evidence_gap", d>> :
        d \in {e \in duties : verdicts[e].status \in {"INSUFFICIENT_EVIDENCE", "NON_COMPLIANT"}}}
    \cup {<<"contradiction_detected", d>> : d \in {e \in duties : verdicts[e].contradicted}}

EvidenceFlags ==
    {<<"evidence_gap", d>> : d \in {e \in duties :
        verdicts[e].status \in {"INSUFFICIENT_EVIDENCE", "NON_COMPLIANT", "PARTIALLY_COMPLIANT"}}}
    \cup {<<"contradiction_detected", d>> : d \in {e \in duties : verdicts[e].contradicted}}

-----------------------------------------------------------------------------
(* The law grows *)

\* _ingest_source: all requirements of a source at once, none if it is there already
Seed(s) ==
    /\ s \cap ingested = {}
    /\ ingested' = ingested \cup s
    /\ UNCHANGED <<phase, request, classification, llm, report>>

-----------------------------------------------------------------------------
(* POST /assess, POST /ai-risk-check *)

Submit ==
    /\ phase = "blank"
    /\ phase' = "classifying"
    /\ kind' \in {"assess", "quick"}
    /\ asOf' \in Dates
    /\ known' = ingested
    /\ UNCHANGED <<ingested, classification, llm, report>>

\* The loop of classify_system stands at category c.
At(c) ==
    /\ Len(assessments) < Len(Categories)
    /\ c = Categories[Len(assessments) + 1]
    /\ asked = Nobody

\* No prefixes for the category
Unscoped(c) ==
    /\ phase = "classifying"
    /\ At(c)
    /\ KeysOf[c] = {}
    /\ assessments' = Append(assessments, Insufficient(c, "nothing ingested"))
    /\ UNCHANGED <<ingested, phase, request, candidates, llm, report>>

Retrieve(c) ==
    /\ phase = "classifying"
    /\ At(c)
    /\ KeysOf[c] # {}
    /\ \E cs \in RetrievedSets(c) :
        /\ candidates' = [candidates EXCEPT ![c] = cs]
        /\ phase' = IF cs = {} THEN "probing" ELSE phase
        /\ asked' = IF cs = {} THEN Nobody ELSE c
    /\ UNCHANGED <<ingested, request, assessments, attempt, calls, spent, report>>

\* No candidates: a second retrieval, without the date
Probe(c) ==
    /\ phase = "probing"
    /\ At(c)
    /\ assessments' = Append(assessments,
            IF MatchingAnyTime(c) # {} THEN NotYetInForce(c)
                                       ELSE Insufficient(c, "nothing ingested"))
    /\ phase' = "classifying"
    /\ UNCHANGED <<ingested, request, candidates, llm, report>>

\* The obligations form, with a field per obligation and the classification in hidden fields
ShowForm ==
    /\ phase = "classifying"
    /\ kind = "assess"
    /\ Len(assessments) = Len(Categories)
    /\ phase' = "form"
    /\ duties' = MapObligations
    /\ UNCHANGED <<ingested, request, classification, llm, evidence, verdicts, record>>

\* The answer of the public risk check, which stores nothing
ShowAnswer ==
    /\ phase = "classifying"
    /\ kind = "quick"
    /\ Len(assessments) = Len(Categories)
    /\ phase' = "answered"
    /\ UNCHANGED <<ingested, request, classification, llm, report>>

-----------------------------------------------------------------------------
(* LLMClient.generate_structured *)

\* Mutant: the retry is retried
RetryForever ==
    /\ asked # Nobody
    /\ attempt' = 3 - attempt
    /\ UNCHANGED <<ingested, phase, request, classification, asked, calls, spent, report>>

\* The first completion fails validation and is asked for once more.
Retry ==
    /\ asked # Nobody
    /\ attempt = 1
    /\ attempt' = 2
    /\ spent' = spent + 1
    /\ UNCHANGED <<ingested, phase, request, classification, asked, calls, report>>

\* Mutant: the usage of the first completion is overwritten by that of the second
LoggedLastOnly(ok) ==
    IF kind = "quick" THEN calls
    ELSE IF ok THEN [calls EXCEPT !.good = @ + 1, !.tokens = @ + 1]
               ELSE [calls EXCEPT !.failed = @ + 1]

\* InstrumentedLLMClient: a record of a call that returned or failed validation twice, the
\* latter with no tokens. The public risk check is not instrumented.
Logged(ok) ==
    IF kind = "quick" THEN calls
    ELSE IF ok THEN [calls EXCEPT !.good = @ + 1, !.tokens = @ + attempt]
               ELSE [calls EXCEPT !.failed = @ + 1]

\* generate_structured returns, or raises StructuredOutputError.
CallEnds(ok) ==
    /\ ok \/ attempt = 2
    /\ asked' = Nobody
    /\ attempt' = 1
    /\ spent' = spent + 1
    /\ calls' = Logged(ok)

\* The call for a category ends with conclusion a.
Classified(ok, a) ==
    /\ phase = "classifying"
    /\ asked \in CategorySet
    /\ CallEnds(ok)
    /\ assessments' = Append(assessments, a)
    /\ UNCHANGED <<ingested, phase, request, candidates, report>>

ClassifierReturns == \E a \in ClassifierAnswers : Classified(TRUE, Conclude(asked, a))

ClassifierMalformed == Classified(FALSE, Insufficient(asked, "failed closed"))

\* The call for an obligation ends with assessment v.
Assessed(ok, v) ==
    /\ phase = "reporting"
    /\ asked \in duties
    /\ CallEnds(ok)
    /\ verdicts' = [d \in DOMAIN verdicts \cup {asked} |-> IF d = asked THEN v ELSE verdicts[d]]
    /\ UNCHANGED <<ingested, phase, request, classification, duties, evidence, record>>

AssessorReturns == \E a \in AssessorAnswers : Assessed(TRUE, Judge(asked, a))

AssessorMalformed == Assessed(FALSE, InsufficientEvidence(asked))

-----------------------------------------------------------------------------
(* POST /report *)

\* The user fills in the form's fields; the obligations are mapped again.
ReportStart ==
    /\ phase = "form"
    /\ \E pasted \in [duties -> Pasted], upload \in [duties -> Uploads] :
        evidence' = [d \in duties |-> EvidenceText(pasted[d], upload[d])]
    /\ duties' = MapObligations
    /\ phase' = "reporting"
    /\ UNCHANGED <<ingested, request, classification, llm, verdicts, record>>

\* assess_evidence without text. The obligations are taken in a fixed order, which nothing
\* depends on; here in any.
AssessNothing(d) ==
    /\ phase = "reporting"
    /\ asked = Nobody
    /\ d \in duties \ DOMAIN verdicts
    /\ ~Supplied(d)
    /\ verdicts' = [e \in DOMAIN verdicts \cup {d} |->
                        IF e = d THEN InsufficientEvidence(d) ELSE verdicts[e]]
    /\ UNCHANGED <<ingested, phase, request, classification, llm, duties, evidence, record>>

AskAssessor(d) ==
    /\ phase = "reporting"
    /\ asked = Nobody
    /\ d \in duties \ DOMAIN verdicts
    /\ Supplied(d)
    /\ asked' = d
    /\ UNCHANGED <<ingested, phase, request, classification, attempt, calls, spent, report>>

\* record_assessment
Store(gaps, flags, error) ==
    /\ record' = [gaps |-> gaps, flags |-> flags, calls |-> calls, error |-> error]
    /\ phase' = "stored"

ReportStores ==
    /\ phase = "reporting"
    /\ DOMAIN verdicts = duties
    /\ Store(Gaps, ClassificationFlags \cup EvidenceFlags, FALSE)
    /\ UNCHANGED <<ingested, request, classification, llm, duties, evidence, verdicts>>

\* The provider raises: the report's handler stores an error record and re-raises.
ReportRaises ==
    /\ phase = "reporting"
    /\ asked # Nobody
    /\ Store({}, {}, TRUE)
    /\ asked' = Nobody
    /\ attempt' = 1
    /\ verdicts' = <<>>
    /\ UNCHANGED <<ingested, request, classification, calls, spent, duties, evidence>>

-----------------------------------------------------------------------------
NoCalls == [good |-> 0, failed |-> 0, tokens |-> 0]
BlankRecord == [gaps |-> {}, flags |-> {}, calls |-> NoCalls, error |-> FALSE]
NoCandidates == [c \in CategorySet |-> {}]

\* A fresh page
Blank ==
    /\ phase' = "blank"
    /\ assessments' = <<>>
    /\ candidates' = NoCandidates
    /\ asked' = Nobody
    /\ attempt' = 1
    /\ calls' = NoCalls
    /\ spent' = 0
    /\ duties' = {}
    /\ evidence' = <<>>
    /\ verdicts' = <<>>
    /\ record' = BlankRecord
    /\ kind' = "assess"
    /\ known' = {}
    /\ UNCHANGED <<ingested, asOf>>

\* The provider raises while classifying: the form is shown again with the error.
ClassifyRaises ==
    /\ phase = "classifying"
    /\ asked # Nobody
    /\ Blank

\* The user goes on to another assessment.
Leave ==
    /\ phase \in {"form", "answered", "stored"}
    /\ Blank

Init ==
    /\ ingested = {}
    /\ phase = "blank"
    /\ kind = "assess"
    /\ asOf \in Dates
    /\ known = {}
    /\ assessments = <<>>
    /\ candidates = NoCandidates
    /\ asked = Nobody
    /\ attempt = 1
    /\ calls = NoCalls
    /\ spent = 0
    /\ duties = {}
    /\ evidence = <<>>
    /\ verdicts = <<>>
    /\ record = BlankRecord

Handle ==
    \/ \E c \in CategorySet : Unscoped(c) \/ Retrieve(c) \/ Probe(c)
    \/ ShowForm \/ ShowAnswer
    \/ Retry \/ ClassifierReturns \/ ClassifierMalformed \/ ClassifyRaises
    \/ \E d \in Duties : AssessNothing(d) \/ AskAssessor(d)
    \/ AssessorReturns \/ AssessorMalformed
    \/ ReportStores \/ ReportRaises

Next == (\E s \in Sources : Seed(s)) \/ Submit \/ Handle \/ ReportStart \/ Leave

Spec == Init /\ [][Next]_vars

\* The server and the provider, whose client times out, keep going; users and operators need not.
FairSpec == Spec /\ WF_vars(Handle)

-----------------------------------------------------------------------------
(* Properties *)

Bases == {"model", "nothing ingested", "not in force", "failed closed"}
Conclusions == [category: CategorySet, state: States, cites: SUBSET Keys, basis: Bases]
CallLogs == [good: Nat, failed: Nat, tokens: Nat]
Flags == {"insufficient_information", "high_impact", "evidence_gap", "contradiction_detected"}
            \X (CategorySet \cup Duties)
Records == [gaps: SUBSET Duties, flags: SUBSET Flags, calls: CallLogs, error: BOOLEAN]

\* The type invariant: classify_system's result lists the categories once each, in order.
TypeOK ==
    /\ ingested \subseteq Keys
    /\ phase \in {"blank", "classifying", "probing", "form", "answered", "reporting", "stored"}
    /\ kind \in {"assess", "quick"}
    /\ asOf \in Dates
    /\ known \subseteq Keys
    /\ assessments \in Seq(Conclusions)
    /\ Len(assessments) <= Len(Categories)
    /\ \A i \in DOMAIN assessments : assessments[i].category = Categories[i]
    /\ candidates \in [CategorySet -> SUBSET Keys]
    /\ asked \in CategorySet \cup Duties \cup {Nobody}
    /\ attempt \in {1, 2}
    /\ calls \in CallLogs
    /\ spent \in Nat
    /\ duties \subseteq Duties
    /\ DOMAIN evidence \subseteq Duties
    /\ \A d \in DOMAIN evidence : evidence[d] \in Pasted
    /\ DOMAIN verdicts \subseteq Duties
    /\ \A d \in DOMAIN verdicts : verdicts[d] \in AssessorAnswers /\ verdicts[d].key = d
    /\ record \in Records

\* Whatever the model answers, no page and no record asserts YES or POSSIBLY without a
\* legal basis: every conclusion, affirmative or not, cites only requirements that were
\* retrieved for its own category, were ingested, and belong to it (classify_category).
Grounded ==
    \A i \in DOMAIN assessments :
        LET a == assessments[i] IN
        /\ a.cites \subseteq candidates[a.category]
        /\ a.cites \subseteq KeysOf[a.category] \cap ingested
        /\ a.state \in CitedStates => a.cites # {}

\* Answers given by rule are right of the law as the request found it, though the law may
\* grow between the two retrievals: "nothing ingested" only if nothing was, "not in force"
\* only if nothing was in force on the assessment date, and something is ingested
\* (classify_system keeps the two apart).
TemporalFacts ==
    \A i \in DOMAIN assessments :
        LET a == assessments[i] IN
        /\ a.basis = "nothing ingested" => KeysOf[a.category] \cap known = {}
        /\ a.basis = "not in force" =>
            /\ KeysOf[a.category] \cap InForce(known, asOf) = {}
            /\ KeysOf[a.category] \cap ingested # {}

\* A record of a report that did not raise
ReportStored == phase = "stored" /\ ~record.error

\* An obligation of a stored report is not a gap only if text was supplied for it and the
\* model found it compliant: no blank text, fail-closed answer,
\* answer about another obligation or failed call clears an obligation.
ClearedOnlyByEvidence ==
    ReportStored =>
        \A d \in duties \ record.gaps :
            /\ d \in DOMAIN evidence /\ evidence[d] = "text"
            /\ verdicts[d].status = "COMPLIANT"

\* Nothing doubtful in a stored report goes without a review flag: no category that brought
\* obligations, no conclusion that failed closed, no contradiction, be its obligation met or
\* not, and no gap but one that the evidence assessment called not applicable (a gap for
\* compute_gaps, of no interest to triggers.py).
DoubtReviewed ==
    ReportStored =>
        /\ \A c \in {Prohibited, HighRisk} : Triggered(c) => <<"high_impact", c>> \in record.flags
        /\ \A i \in DOMAIN assessments : assessments[i].basis = "failed closed" =>
                <<"insufficient_information", assessments[i].category>> \in record.flags
        /\ \A d \in duties : verdicts[d].contradicted => <<"contradiction_detected", d>> \in record.flags
        /\ \A d \in record.gaps :
                <<"evidence_gap", d>> \in record.flags \/ verdicts[d].status = "NOT_APPLICABLE"

\* What a report's record says of tokens is at most what the provider has charged, and all of
\* it when no call failed: a retry's usage comes on top of the first completion's, and the
\* calls of POST /assess survive the browser's form. Nothing better holds of other records,
\* though token usage must be recoverable (assessment_log.py): a call that fails validation
\* twice is recorded with no tokens, and one that the provider breaks off not at all.
TokensAccounted ==
    phase = "stored" =>
        /\ record.calls.tokens <= spent
        /\ (~record.error /\ record.calls.failed = 0) => record.calls.tokens = spent

\* Every request is answered: each LLM call is retried once at most.
RequestsAnswered ==
    phase \in {"classifying", "probing", "reporting"} ~> phase \in {"blank", "form", "answered", "stored"}

=============================================================================
