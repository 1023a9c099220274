---------------------- MODULE AssessmentPipelineProofs ----------------------
(***************************************************************************)
(* Proofs about AssessmentPipeline, for every law, any categories, keys    *)
(* and obligations.  IInv is inductive; its parts say what holds at each   *)
(* phase of a request.                                                     *)
(***************************************************************************)
EXTENDS AssessmentPipeline, FiniteSetTheorems, TLAPS

USE DEF request, classification, llm, report, vars

-----------------------------------------------------------------------------
(* The inductive invariant *)

\* Whom the LLM is asked about fits the phase, and only a call under way has an attempt.
CallInv ==
    /\ asked \in CategorySet =>
        /\ phase = "classifying"
        /\ Len(assessments) < Len(Categories)
        /\ asked = Categories[Len(assessments) + 1]
    /\ asked \in Duties =>
        /\ phase = "reporting"
        /\ asked \in duties
        /\ asked \notin DOMAIN verdicts
        /\ Supplied(asked)
    /\ asked = Nobody => attempt = 1

\* Candidates are of their category and, as nothing ever leaves the law, still ingested.
CandidatesInv == \A c \in CategorySet : candidates[c] \subseteq KeysOf[c] \cap ingested

\* A request starts with no conclusions. What was ingested when it came still is, and while
\* the second retrieval is due, nothing of the category was in force then.
KnownInv ==
    /\ phase = "blank" => assessments = <<>>
    /\ known \subseteq ingested
    /\ phase = "probing" =>
        \A c \in CategorySet : At(c) => KeysOf[c] \cap InForce(known, asOf) = {}

\* An assessment that clears its obligation had text, and a record is what its report computed.
ReportInv ==
    /\ phase \notin {"reporting", "stored"} => DOMAIN verdicts = {}
    /\ \A d \in DOMAIN verdicts : verdicts[d].status = "COMPLIANT" => Supplied(d)
    /\ DOMAIN verdicts \subseteq duties
    /\ ReportStored =>
        /\ DOMAIN verdicts = duties
        /\ record.gaps = Gaps
        /\ record.flags = ClassificationFlags \cup EvidenceFlags
        /\ record.calls = calls

\* Tokens charged are on a call record, are the first attempt of the call under way, or
\* belong to a call that failed twice, until the provider raises during a report; the error
\* record of that report still has no more than was charged.
TokenInv ==
    /\ phase \in {"blank", "form", "reporting", "stored"} => kind = "assess"
    /\ kind = "assess" /\ (phase = "stored" => ~record.error) =>
        calls.tokens + 2 * calls.failed + (attempt - 1) = spent
    /\ phase = "stored" /\ record.error => record.calls = calls /\ calls.tokens <= spent

\* An answer that fails closed claims nothing.
FailedClosedInv ==
    \A i \in DOMAIN assessments :
        assessments[i].basis = "failed closed" => assessments[i].state = "INSUFFICIENT_INFORMATION"

IInv ==
    /\ TypeOK
    /\ CallInv
    /\ CandidatesInv
    /\ Grounded
    /\ KnownInv
    /\ TemporalFacts
    /\ ReportInv
    /\ TokenInv
    /\ FailedClosedInv

-----------------------------------------------------------------------------
(* Types *)

\* What a category concludes is a conclusion about it, whatever the model answers.
LEMMA ConclusionTypes ==
    /\ \A c \in CategorySet : \A b \in Bases :
        Insufficient(c, b) \in Conclusions /\ Insufficient(c, b).category = c
    /\ \A c \in CategorySet : NotYetInForce(c) \in Conclusions /\ NotYetInForce(c).category = c
    /\ \A c \in CategorySet : \A a \in ClassifierAnswers :
        Conclude(c, a) \in Conclusions /\ Conclude(c, a).category = c
BY DEF Insufficient, NotYetInForce, Conclude, FromModel, Conclusions, ClassifierAnswers, Bases,
       States, CitedStates

LEMMA MappedAreDuties == MapObligations \subseteq Duties
BY DEF MapObligations, Duties

\* classify_system appends the conclusion of the category it stands at.
LEMMA AppendConclusion ==
    ASSUME TypeOK, NEW a \in Conclusions,
           Len(assessments) < Len(Categories),
           a.category = Categories[Len(assessments) + 1],
           assessments' = Append(assessments, a)
    PROVE  /\ assessments' \in Seq(Conclusions)
           /\ Len(assessments') = Len(assessments) + 1
           /\ Len(assessments') <= Len(Categories)
           /\ \A i \in DOMAIN assessments' : assessments'[i].category = Categories[i]
           /\ \A i \in DOMAIN assessments : i \in DOMAIN assessments' /\ assessments'[i] = assessments[i]
           /\ \A i \in DOMAIN assessments' : i \in DOMAIN assessments \/ assessments'[i] = a
<1>1. assessments \in Seq(Conclusions) /\ Len(assessments) \in Nat
  BY DEF TypeOK
<1>2. Categories \in Seq(STRING) /\ Len(Categories) \in Nat
  BY PipelineAssumption
<1>3. /\ assessments' \in Seq(Conclusions)
      /\ Len(assessments') = Len(assessments) + 1
      /\ DOMAIN assessments = 1..Len(assessments)
      /\ DOMAIN assessments' = 1..(Len(assessments) + 1)
      /\ \A i \in 1..Len(assessments) : assessments'[i] = assessments[i]
      /\ assessments'[Len(assessments) + 1] = a
  BY <1>1
<1> QED
  BY <1>1, <1>2, <1>3 DEF TypeOK

LEMMA TypeInit == Init => TypeOK
<1> SUFFICES ASSUME Init PROVE TypeOK
  OBVIOUS
<1>1. Len(Categories) \in Nat
  BY PipelineAssumption
<1> QED
  BY <1>1, PipelineAssumption
  DEF Init, TypeOK, NoCandidates, NoCalls, CallLogs, Records, BlankRecord

\* A call that ends leaves a well-formed log.
LEMMA CallTypes ==
    ASSUME TypeOK, NEW ok \in BOOLEAN, CallEnds(ok)
    PROVE  calls' \in CallLogs /\ spent' \in Nat /\ attempt' = 1 /\ asked' = Nobody
<1>1. /\ calls.good \in Nat /\ calls.failed \in Nat /\ calls.tokens \in Nat
      /\ calls \in CallLogs /\ attempt \in Nat /\ spent \in Nat
  BY DEF TypeOK, CallLogs
<1>2. CASE kind = "quick"
  BY <1>1, <1>2 DEF CallEnds, Logged
<1>3. CASE kind # "quick" /\ ok
  <2>1. calls' = [calls EXCEPT !.good = @ + 1, !.tokens = @ + attempt]
    BY <1>3 DEF CallEnds, Logged
  <2>2. calls' = [good |-> calls.good + 1, failed |-> calls.failed, tokens |-> calls.tokens + attempt]
    BY <1>1, <2>1 DEF CallLogs
  <2>3. calls.good + 1 \in Nat /\ calls.tokens + attempt \in Nat /\ spent + 1 \in Nat
    BY <1>1
  <2>4. calls' \in CallLogs
    BY <1>1, <2>2, <2>3 DEF CallLogs
  <2> QED
    BY <2>3, <2>4 DEF CallEnds
<1>4. CASE kind # "quick" /\ ~ok
  <2>1. calls' = [calls EXCEPT !.failed = @ + 1]
    BY <1>4 DEF CallEnds, Logged
  <2> QED
    BY <1>1, <1>4, <2>1 DEF CallEnds, CallLogs
<1> QED
  BY <1>2, <1>3, <1>4

\* Flags are about categories and mapped obligations.
LEMMA FlagTypes ==
    ASSUME TypeOK
    PROVE  ClassificationFlags \cup EvidenceFlags \subseteq Flags
<1>1. \A i \in DOMAIN assessments : assessments[i].category \in CategorySet
  <2>1. \A i \in DOMAIN assessments : assessments[i] \in Conclusions
    BY DEF TypeOK
  <2> QED
    BY <2>1 DEF Conclusions
<1>2. ClassificationFlags \subseteq Flags
  BY <1>1 DEF ClassificationFlags, Flags
<1>3. EvidenceFlags \subseteq Flags
  BY DEF EvidenceFlags, Flags, TypeOK
<1> QED
  BY <1>2, <1>3

LEMMA TypeBlank == TypeOK /\ Blank => TypeOK'
<1> SUFFICES ASSUME TypeOK, Blank PROVE TypeOK'
  OBVIOUS
<1>1. Len(Categories) \in Nat
  BY PipelineAssumption
<1> QED
  BY <1>1 DEF Blank, TypeOK, NoCandidates, NoCalls, CallLogs, Records, BlankRecord

LEMMA TypeNext == TypeOK /\ CallInv /\ [Next]_vars => TypeOK'
<1> SUFFICES ASSUME TypeOK, CallInv, [Next]_vars PROVE TypeOK'
  OBVIOUS
<1> USE PipelineAssumption
<1>1. ASSUME NEW s \in Sources, Seed(s) PROVE TypeOK'
  BY <1>1 DEF Seed, TypeOK
<1>3. CASE Submit
  BY <1>3 DEF Submit, TypeOK
<1>4. ASSUME NEW c \in CategorySet, Unscoped(c) PROVE TypeOK'
  <2>1. Insufficient(c, "nothing ingested") \in Conclusions
        /\ Insufficient(c, "nothing ingested").category = c
    BY ConclusionTypes DEF Bases
  <2>2. assessments' \in Seq(Conclusions) /\ Len(assessments') <= Len(Categories)
        /\ \A i \in DOMAIN assessments' : assessments'[i].category = Categories[i]
    BY <1>4, <2>1, AppendConclusion DEF Unscoped, At
  <2> QED
    BY <1>4, <2>2 DEF Unscoped, TypeOK
<1>5. ASSUME NEW c \in CategorySet, Retrieve(c) PROVE TypeOK'
  <2>1. PICK cs \in RetrievedSets(c) :
            /\ candidates' = [candidates EXCEPT ![c] = cs]
            /\ phase' = IF cs = {} THEN "probing" ELSE phase
            /\ asked' = IF cs = {} THEN Nobody ELSE c
    BY <1>5 DEF Retrieve
  <2>2. cs \subseteq Keys
    BY <2>1 DEF RetrievedSets, InForce
  <2> QED
    BY <1>5, <2>1, <2>2 DEF Retrieve, TypeOK
<1>6. ASSUME NEW c \in CategorySet, Probe(c) PROVE TypeOK'
  <2> DEFINE a == IF MatchingAnyTime(c) # {} THEN NotYetInForce(c)
                                             ELSE Insufficient(c, "nothing ingested")
  <2>1. a \in Conclusions /\ a.category = c
    BY ConclusionTypes DEF Bases
  <2>2. assessments' \in Seq(Conclusions) /\ Len(assessments') <= Len(Categories)
        /\ \A i \in DOMAIN assessments' : assessments'[i].category = Categories[i]
    BY <1>6, <2>1, AppendConclusion DEF Probe, At
  <2> QED
    BY <1>6, <2>2 DEF Probe, TypeOK
<1>7. CASE ShowForm
  BY <1>7, MappedAreDuties DEF ShowForm, TypeOK
<1>8. CASE ShowAnswer
  BY <1>8 DEF ShowAnswer, TypeOK
<1>9. CASE Retry
  BY <1>9 DEF Retry, TypeOK
<1>10. ASSUME NEW ok \in BOOLEAN, NEW a \in Conclusions, Classified(ok, a), a.category = asked
       PROVE  TypeOK'
  <2>1. Len(assessments) < Len(Categories) /\ asked = Categories[Len(assessments) + 1]
    BY <1>10 DEF Classified, CallInv
  <2>2. assessments' \in Seq(Conclusions) /\ Len(assessments') <= Len(Categories)
        /\ \A i \in DOMAIN assessments' : assessments'[i].category = Categories[i]
    BY <1>10, <2>1, AppendConclusion DEF Classified
  <2>3. calls' \in CallLogs /\ spent' \in Nat /\ attempt' = 1 /\ asked' = Nobody
    BY <1>10, CallTypes DEF Classified
  <2> QED
    BY <1>10, <2>2, <2>3 DEF Classified, TypeOK
<1>11. ASSUME NEW ok \in BOOLEAN, NEW v \in AssessorAnswers, Assessed(ok, v), v.key = asked
       PROVE  TypeOK'
  <2>1. asked \in Duties
    BY <1>11 DEF Assessed, TypeOK
  <2>2. calls' \in CallLogs /\ spent' \in Nat /\ attempt' = 1 /\ asked' = Nobody
    BY <1>11, CallTypes DEF Assessed
  <2>3. DOMAIN verdicts' \subseteq Duties
        /\ \A d \in DOMAIN verdicts' : verdicts'[d] \in AssessorAnswers /\ verdicts'[d].key = d
    BY <1>11, <2>1 DEF Assessed, TypeOK
  <2> QED
    BY <1>11, <2>2, <2>3 DEF Assessed, TypeOK
<1>12. CASE ClassifierReturns
  <2>1. PICK a \in ClassifierAnswers : Classified(TRUE, Conclude(asked, a))
    BY <1>12 DEF ClassifierReturns
  <2>2. asked \in CategorySet
    BY <2>1 DEF Classified
  <2> QED
    BY <2>1, <2>2, <1>10, ConclusionTypes
<1>13. CASE ClassifierMalformed
  <2>1. asked \in CategorySet
    BY <1>13 DEF ClassifierMalformed, Classified
  <2> QED
    BY <1>13, <2>1, <1>10, ConclusionTypes DEF ClassifierMalformed, Bases
<1>14. CASE ClassifyRaises
  BY <1>14, TypeBlank DEF ClassifyRaises
<1>15. CASE Leave
  BY <1>15, TypeBlank DEF Leave
<1>16. ASSUME NEW d \in Duties, AssessNothing(d) PROVE TypeOK'
  <2>1. InsufficientEvidence(d) \in AssessorAnswers /\ InsufficientEvidence(d).key = d
    BY DEF InsufficientEvidence, AssessorAnswers, Statuses
  <2>2. DOMAIN verdicts' \subseteq Duties
        /\ \A e \in DOMAIN verdicts' : verdicts'[e] \in AssessorAnswers /\ verdicts'[e].key = e
    BY <1>16, <2>1 DEF AssessNothing, TypeOK
  <2>3. UNCHANGED <<ingested, phase, request, classification, llm, duties, evidence, record>>
    BY <1>16 DEF AssessNothing
  <2> QED
    BY <2>2, <2>3 DEF TypeOK
<1>17. ASSUME NEW d \in Duties, AskAssessor(d) PROVE TypeOK'
  BY <1>17 DEF AskAssessor, TypeOK
<1>18. CASE AssessorReturns
  <2>1. PICK a \in AssessorAnswers : Assessed(TRUE, Judge(asked, a))
    BY <1>18 DEF AssessorReturns
  <2>2. asked \in Duties
    BY <2>1 DEF Assessed, TypeOK
  <2>3. Judge(asked, a) \in AssessorAnswers /\ Judge(asked, a).key = asked
    BY <2>2 DEF Judge, InsufficientEvidence, AssessorAnswers, Statuses
  <2> QED
    BY <2>1, <2>3, <1>11
<1>19. CASE AssessorMalformed
  <2>1. asked \in Duties
    BY <1>19 DEF AssessorMalformed, Assessed, TypeOK
  <2>2. InsufficientEvidence(asked) \in AssessorAnswers /\ InsufficientEvidence(asked).key = asked
    BY <2>1 DEF InsufficientEvidence, AssessorAnswers, Statuses
  <2> QED
    BY <1>19, <2>2, <1>11 DEF AssessorMalformed
<1>20. CASE ReportStart
  <2>1. DOMAIN evidence' \subseteq Duties /\ \A d \in DOMAIN evidence' : evidence'[d] \in Pasted
    BY <1>20 DEF ReportStart, TypeOK, EvidenceText, Pasted, Uploads
  <2> QED
    BY <1>20, <2>1, MappedAreDuties DEF ReportStart, TypeOK
<1>21. CASE ReportStores
  <2>1. Gaps \subseteq Duties
    BY DEF Gaps, TypeOK
  <2>2. ClassificationFlags \cup EvidenceFlags \subseteq Flags
    BY <2>1, FlagTypes
  <2>3. record' \in Records
    BY <1>21, <2>1, <2>2 DEF ReportStores, Store, Records, TypeOK
  <2> QED
    BY <1>21, <2>3 DEF ReportStores, Store, TypeOK
<1>22. CASE ReportRaises
  <2>1. record' \in Records
    BY <1>22 DEF ReportRaises, Store, Records, TypeOK
  <2> QED
    BY <1>22, <2>1 DEF ReportRaises, Store, TypeOK
<1>23. CASE UNCHANGED vars
  BY <1>23 DEF TypeOK
<1> QED
  BY <1>1, <1>3, <1>4, <1>5, <1>6, <1>7, <1>8, <1>9, <1>12, <1>13, <1>14, <1>15, <1>16,
     <1>17, <1>18, <1>19, <1>20, <1>21, <1>22, <1>23 DEF Next, Handle

-----------------------------------------------------------------------------
(* What steps do to one part of the state *)

\* The law changes only when a source is seeded.
LEMMA LawWriters ==
    ASSUME [Next]_vars
    PROVE  (\E s \in Sources : Seed(s)) \/ ingested' = ingested
BY DEF Next, Handle, Submit, Unscoped, Retrieve, Probe, ShowForm, ShowAnswer, Retry,
       ClassifierReturns, ClassifierMalformed, Classified, ClassifyRaises, Leave, Blank,
       AssessNothing, AskAssessor, AssessorReturns, AssessorMalformed, Assessed, ReportStart,
       ReportStores, ReportRaises

\* Nothing that was ingested ever leaves the law.
LEMMA LawGrows == [Next]_vars => ingested \subseteq ingested'
BY LawWriters DEF Seed

\* What may be concluded of a category when the law and the retrievals are as they are.
Sound(a) ==
    /\ a \in Conclusions
    /\ a.cites \subseteq candidates[a.category]
    /\ a.state \in CitedStates => a.cites # {}
    /\ a.basis = "failed closed" => a.state = "INSUFFICIENT_INFORMATION"
    /\ a.basis = "nothing ingested" => KeysOf[a.category] \cap ingested = {}
    /\ a.basis = "not in force" =>
        /\ KeysOf[a.category] \cap InForce(known, asOf) = {}
        /\ KeysOf[a.category] \cap ingested # {}

Concludes(a) ==
    /\ Sound(a)
    /\ phase \in {"classifying", "probing"} /\ phase' = "classifying"
    /\ Len(assessments) < Len(Categories)
    /\ a.category = Categories[Len(assessments) + 1]
    /\ assessments' = Append(assessments, a)
    /\ UNCHANGED <<ingested, asOf, known, candidates, kind, duties, record>>

\* Conclusions are only appended, each sound at its time, until the page is left.
LEMMA ConclusionSteps ==
    ASSUME TypeOK, CallInv, KnownInv, [Next]_vars
    PROVE  \/ UNCHANGED assessments
           \/ Blank
           \/ \E a \in Conclusions : Concludes(a)
<1> USE PipelineAssumption
<1>1. ASSUME NEW c \in CategorySet, Unscoped(c) PROVE \E a \in Conclusions : Concludes(a)
  <2> DEFINE a == Insufficient(c, "nothing ingested")
  <2>1. a \in Conclusions /\ a.category = c
    BY ConclusionTypes DEF Bases
  <2>2. Sound(a)
    BY <1>1, <2>1 DEF Unscoped, Sound, Insufficient, CitedStates
  <2>3. Concludes(a)
    BY <1>1, <2>1, <2>2 DEF Unscoped, At, Concludes
  <2> QED
    BY <2>1, <2>3
<1>2. ASSUME NEW c \in CategorySet, Probe(c) PROVE \E a \in Conclusions : Concludes(a)
  <2> DEFINE a == IF MatchingAnyTime(c) # {} THEN NotYetInForce(c)
                                             ELSE Insufficient(c, "nothing ingested")
  <2>1. a \in Conclusions /\ a.category = c
    BY ConclusionTypes DEF Bases
  <2>2. KeysOf[c] \cap InForce(known, asOf) = {}
    BY <1>2 DEF Probe, KnownInv
  <2>3. Sound(a)
    <3>1. CASE MatchingAnyTime(c) # {}
      BY <3>1, <2>1, <2>2 DEF Sound, NotYetInForce, CitedStates, MatchingAnyTime
    <3>2. CASE MatchingAnyTime(c) = {}
      BY <3>2, <2>1 DEF Sound, Insufficient, CitedStates, MatchingAnyTime
    <3> QED
      BY <3>1, <3>2
  <2>4. Concludes(a)
    BY <1>2, <2>1, <2>3 DEF Probe, At, Concludes
  <2> QED
    BY <2>1, <2>4
<1>3. CASE ClassifierReturns
  <2>1. PICK b \in ClassifierAnswers : Classified(TRUE, Conclude(asked, b))
    BY <1>3 DEF ClassifierReturns
  <2> DEFINE a == Conclude(asked, b)
  <2>2. asked \in CategorySet
    BY <2>1 DEF Classified
  <2>3. a \in Conclusions /\ a.category = asked
    BY <2>2, ConclusionTypes
  <2>4. Sound(a)
    BY <2>3 DEF Sound, Conclude, FromModel, Insufficient, ClassifierAnswers, CitedStates
  <2>5. Concludes(a)
    BY <2>1, <2>2, <2>3, <2>4 DEF Classified, CallInv, Concludes
  <2> QED
    BY <2>3, <2>5
<1>4. CASE ClassifierMalformed
  <2> DEFINE a == Insufficient(asked, "failed closed")
  <2>1. asked \in CategorySet
    BY <1>4 DEF ClassifierMalformed, Classified
  <2>2. a \in Conclusions /\ a.category = asked
    BY <2>1, ConclusionTypes DEF Bases
  <2>3. Sound(a)
    BY <2>2 DEF Sound, Insufficient, CitedStates
  <2>4. Concludes(a)
    BY <1>4, <2>1, <2>2, <2>3 DEF ClassifierMalformed, Classified, CallInv, Concludes
  <2> QED
    BY <2>2, <2>4
<1>5. ClassifyRaises \/ Leave => Blank
  BY DEF ClassifyRaises, Leave
<1>6. \/ UNCHANGED assessments \/ ClassifyRaises \/ Leave
      \/ \E c \in CategorySet : Unscoped(c) \/ Probe(c)
      \/ ClassifierReturns \/ ClassifierMalformed
  BY DEF Next, Handle, Seed, Submit, Retrieve, ShowForm, ShowAnswer, Retry,
         AssessNothing, AskAssessor, AssessorReturns, AssessorMalformed, Assessed, ReportStart,
         ReportStores, ReportRaises
<1> QED
  BY <1>1, <1>2, <1>3, <1>4, <1>5, <1>6

LEMMA CandidateSteps ==
    ASSUME [Next]_vars
    PROVE  \/ UNCHANGED candidates
           \/ Blank
           \/ \E c \in CategorySet : Retrieve(c)
BY DEF Next, Handle, Seed, Submit, Unscoped, Probe, ShowForm, ShowAnswer, Retry,
       ClassifierReturns, ClassifierMalformed, Classified, ClassifyRaises, Leave,
       AssessNothing, AskAssessor, AssessorReturns, AssessorMalformed, Assessed, ReportStart,
       ReportStores, ReportRaises

-----------------------------------------------------------------------------
(* One lemma per part of the invariant *)

LEMMA CandidatesNext == IInv /\ [Next]_vars => CandidatesInv'
<1> SUFFICES ASSUME IInv, [Next]_vars PROVE CandidatesInv'
  OBVIOUS
<1>0. TypeOK /\ CandidatesInv
  BY DEF IInv
<1>1. ingested \subseteq ingested'
  BY <1>0, LawGrows
<1>2. CASE UNCHANGED candidates
  BY <1>0, <1>1, <1>2 DEF CandidatesInv
<1>3. CASE Blank
  BY <1>3 DEF Blank, NoCandidates, CandidatesInv
<1>4. ASSUME NEW c \in CategorySet, Retrieve(c) PROVE CandidatesInv'
  <2>1. PICK cs \in RetrievedSets(c) : candidates' = [candidates EXCEPT ![c] = cs]
    BY <1>4 DEF Retrieve
  <2>2. cs \subseteq KeysOf[c] \cap ingested
    BY <2>1 DEF RetrievedSets, InForce
  <2> QED
    BY <1>0, <1>1, <2>1, <2>2 DEF CandidatesInv, TypeOK
<1> QED
  BY <1>2, <1>3, <1>4, CandidateSteps

LEMMA GroundedNext == IInv /\ [Next]_vars => Grounded'
<1> SUFFICES ASSUME IInv, [Next]_vars PROVE Grounded'
  OBVIOUS
<1>0. TypeOK /\ CallInv /\ CandidatesInv /\ Grounded /\ KnownInv
  BY DEF IInv
<1>1. ingested \subseteq ingested'
  BY <1>0, LawGrows
<1>2. CASE UNCHANGED assessments /\ UNCHANGED candidates
  BY <1>0, <1>1, <1>2 DEF Grounded
<1>3. CASE Blank
  BY <1>3 DEF Blank, Grounded
<1>4. ASSUME NEW c \in CategorySet, Retrieve(c) PROVE Grounded'
  <2>1. PICK cs \in RetrievedSets(c) : candidates' = [candidates EXCEPT ![c] = cs]
    BY <1>4 DEF Retrieve
  <2>2. Len(assessments) \in Nat /\ DOMAIN assessments = 1..Len(assessments)
    BY <1>0 DEF TypeOK
  <2>3. \A i \in DOMAIN assessments : assessments[i].category # c
    BY <1>0, <1>4, <2>2, PipelineAssumption DEF Retrieve, At, TypeOK
  <2>4. \A i \in DOMAIN assessments :
            candidates'[assessments[i].category] = candidates[assessments[i].category]
    BY <1>0, <2>1, <2>3 DEF TypeOK
  <2> QED
    BY <1>0, <1>1, <1>4, <2>4 DEF Grounded, Retrieve
<1>5. ASSUME NEW a \in Conclusions, Concludes(a) PROVE Grounded'
  <2>1. /\ \A i \in DOMAIN assessments : i \in DOMAIN assessments' /\ assessments'[i] = assessments[i]
        /\ \A i \in DOMAIN assessments' : i \in DOMAIN assessments \/ assessments'[i] = a
    BY <1>0, <1>5, AppendConclusion DEF Concludes
  <2>2. /\ a.cites \subseteq candidates[a.category]
        /\ a.cites \subseteq KeysOf[a.category] \cap ingested
        /\ a.state \in CitedStates => a.cites # {}
    BY <1>0, <1>5 DEF Concludes, Sound, CandidatesInv, Conclusions
  <2>3. UNCHANGED <<ingested, candidates>>
    BY <1>5 DEF Concludes
  <2> QED
    BY <1>0, <2>1, <2>2, <2>3 DEF Grounded
<1> QED
  BY <1>0, <1>2, <1>3, <1>4, <1>5, ConclusionSteps, CandidateSteps DEF Concludes

LEMMA KnownNext == IInv /\ [Next]_vars => KnownInv'
<1> SUFFICES ASSUME IInv, [Next]_vars PROVE KnownInv'
  OBVIOUS
<1>0. TypeOK /\ KnownInv
  BY DEF IInv
<1>1. ingested \subseteq ingested'
  BY LawGrows
<1>2. CASE Submit
  BY <1>0, <1>2 DEF Submit, KnownInv
<1>3. CASE Blank
  BY <1>3 DEF Blank, KnownInv
<1>4. ASSUME NEW c \in CategorySet, Retrieve(c) PROVE KnownInv'
  <2>1. PICK cs \in RetrievedSets(c) :
            /\ phase' = IF cs = {} THEN "probing" ELSE phase
            /\ asked' = IF cs = {} THEN Nobody ELSE c
    BY <1>4 DEF Retrieve
  <2>2. UNCHANGED <<ingested, asOf, known, assessments>> /\ phase = "classifying"
    BY <1>4 DEF Retrieve
  <2>3. cs = {} => KeysOf[c] \cap InForce(known, asOf) = {}
    <3> DEFINE matching == KeysOf[c] \cap InForce(ingested, asOf)
    <3>1. IsFiniteSet(matching)
      BY <1>0, PipelineAssumption, FS_Subset DEF InForce, TypeOK
    <3>2. Cardinality(matching) \in Nat /\ (Cardinality(matching) = 0 <=> matching = {})
      BY <3>1, FS_CardinalityType, FS_EmptySet
    <3>3. Cardinality({}) = 0 /\ Limit \in Nat \ {0}
      BY FS_EmptySet, PipelineAssumption
    <3>4. cs = {} => matching = {}
      BY <2>1, <3>2, <3>3 DEF RetrievedSets
    <3> QED
      BY <1>0, <3>4 DEF KnownInv, InForce
  <2>4. phase' = "probing" => \A e \in CategorySet : At(e)' => KeysOf[e] \cap InForce(known, asOf) = {}
    BY <1>0, <1>4, <2>1, <2>2, <2>3 DEF At, Retrieve, KnownInv
  <2> QED
    BY <1>0, <2>1, <2>2, <2>4 DEF KnownInv, InForce
<1>5. ASSUME UNCHANGED <<asOf, known>>,
             \/ UNCHANGED <<phase, assessments, asked>>
             \/ phase' \notin {"blank", "probing"}
             \/ UNCHANGED <<phase, assessments>> /\ phase # "probing"
      PROVE  KnownInv'
  BY <1>0, <1>1, <1>5 DEF KnownInv, At, InForce
<1>6. \/ Submit \/ Blank
      \/ \E c \in CategorySet : Retrieve(c)
      \/ /\ UNCHANGED <<asOf, known>>
         /\ \/ UNCHANGED <<phase, assessments, asked>>
            \/ phase' \notin {"blank", "probing"}
            \/ UNCHANGED <<phase, assessments>> /\ phase # "probing"
  BY DEF Next, Handle, Seed, Unscoped, Probe, ShowForm, ShowAnswer, Retry,
         ClassifierReturns, ClassifierMalformed, Classified, ClassifyRaises, Leave,
         AssessNothing, AskAssessor, AssessorReturns, AssessorMalformed, Assessed, ReportStart,
         ReportStores, ReportRaises, Store
<1> QED
  BY <1>2, <1>3, <1>4, <1>5, <1>6

LEMMA TemporalNext == IInv /\ [Next]_vars => TemporalFacts'
<1> SUFFICES ASSUME IInv, [Next]_vars PROVE TemporalFacts'
  OBVIOUS
<1>0. TypeOK /\ CallInv /\ KnownInv /\ TemporalFacts
  BY DEF IInv
<1>1. ingested \subseteq ingested'
  BY <1>0, LawGrows
<1>2. ASSUME DOMAIN assessments' = {} PROVE TemporalFacts'
  BY <1>2 DEF TemporalFacts
<1>3. Blank \/ Submit => DOMAIN assessments' = {}
  <2>1. Blank \/ Submit => assessments' = <<>>
    BY <1>0 DEF Blank, Submit, KnownInv
  <2> QED
    BY <2>1
<1>4. ASSUME NEW a \in Conclusions, Concludes(a) PROVE TemporalFacts'
  <2>1. /\ \A i \in DOMAIN assessments : i \in DOMAIN assessments' /\ assessments'[i] = assessments[i]
        /\ \A i \in DOMAIN assessments' : i \in DOMAIN assessments \/ assessments'[i] = a
    BY <1>0, <1>4, AppendConclusion DEF Concludes
  <2>2. /\ a.basis = "nothing ingested" => KeysOf[a.category] \cap known = {}
        /\ a.basis = "not in force" =>
            /\ KeysOf[a.category] \cap InForce(known, asOf) = {}
            /\ KeysOf[a.category] \cap ingested # {}
    BY <1>0, <1>4 DEF Concludes, Sound, KnownInv
  <2>3. UNCHANGED <<ingested, asOf, known>>
    BY <1>4 DEF Concludes
  <2> QED
    BY <1>0, <2>1, <2>2, <2>3 DEF TemporalFacts, InForce
<1>5. CASE UNCHANGED <<assessments, asOf, known>>
  BY <1>0, <1>1, <1>5 DEF TemporalFacts, InForce
<1>6. \/ Blank \/ Submit
      \/ UNCHANGED <<asOf, known>>
  BY DEF Next, Handle, Seed, Unscoped, Probe, Retrieve, ShowForm, ShowAnswer,
         Retry, ClassifierReturns, ClassifierMalformed, Classified, ClassifyRaises, Leave,
         AssessNothing, AskAssessor, AssessorReturns, AssessorMalformed, Assessed, ReportStart,
         ReportStores, ReportRaises
<1> QED
  BY <1>0, <1>2, <1>3, <1>4, <1>5, <1>6, ConclusionSteps

LEMMA FailedClosedNext == IInv /\ [Next]_vars => FailedClosedInv'
<1> SUFFICES ASSUME IInv, [Next]_vars PROVE FailedClosedInv'
  OBVIOUS
<1>0. TypeOK /\ CallInv /\ KnownInv /\ FailedClosedInv
  BY DEF IInv
<1>1. ASSUME NEW a \in Conclusions, Concludes(a) PROVE FailedClosedInv'
  <2>1. /\ \A i \in DOMAIN assessments : i \in DOMAIN assessments' /\ assessments'[i] = assessments[i]
        /\ \A i \in DOMAIN assessments' : i \in DOMAIN assessments \/ assessments'[i] = a
    BY <1>0, <1>1, AppendConclusion DEF Concludes
  <2> QED
    BY <1>0, <1>1, <2>1 DEF FailedClosedInv, Concludes, Sound
<1>2. CASE Blank
  <2>1. assessments' = <<>>
    BY <1>2 DEF Blank
  <2>2. DOMAIN assessments' = {}
    BY <2>1
  <2> QED
    BY <2>2 DEF FailedClosedInv
<1>3. CASE UNCHANGED assessments
  BY <1>0, <1>3 DEF FailedClosedInv
<1> QED
  BY <1>0, <1>1, <1>2, <1>3, ConclusionSteps

LEMMA CallNext == IInv /\ [Next]_vars => CallInv'
<1> SUFFICES ASSUME IInv, [Next]_vars PROVE CallInv'
  OBVIOUS
<1>0. TypeOK /\ CallInv
  BY DEF IInv
<1>1. Nobody \notin CategorySet /\ Nobody \notin Duties /\ \A d \in Duties : d \notin CategorySet
  BY PipelineAssumption
<1>2. ASSUME asked' = Nobody, attempt' = 1 PROVE CallInv'
  BY <1>1, <1>2 DEF CallInv
<1>3. ASSUME NEW c \in CategorySet, Retrieve(c) PROVE CallInv'
  BY <1>0, <1>1, <1>3 DEF Retrieve, At, CallInv
<1>4. ASSUME NEW d \in Duties, AskAssessor(d) PROVE CallInv'
  BY <1>0, <1>1, <1>4 DEF AskAssessor, CallInv, Supplied
<1>5. CASE UNCHANGED <<phase, assessments, asked, attempt, duties, verdicts, evidence>>
  BY <1>0, <1>5 DEF CallInv, Supplied
<1>6. CASE Retry
  BY <1>0, <1>1, <1>6 DEF Retry, CallInv, Supplied
<1>7. ASSUME asked \notin CategorySet, asked \notin Duties, UNCHANGED <<asked, attempt>> PROVE CallInv'
  BY <1>0, <1>7 DEF CallInv, TypeOK
<1>8. phase \notin {"classifying", "reporting"} => asked \notin CategorySet /\ asked \notin Duties
  BY <1>0 DEF CallInv
<1>9. ASSUME NEW c \in CategorySet, Unscoped(c) \/ Probe(c) PROVE CallInv'
  BY <1>0, <1>1, <1>9, <1>7 DEF Unscoped, Probe, At
<1>10. ASSUME NEW d \in Duties, AssessNothing(d) PROVE CallInv'
  BY <1>1, <1>10, <1>7 DEF AssessNothing
<1>11. ShowForm \/ ShowAnswer => UNCHANGED <<asked, attempt>> /\ asked \notin CategorySet /\ asked \notin Duties
  BY <1>0 DEF ShowForm, ShowAnswer, CallInv, TypeOK
<1>12. Submit \/ ReportStart => UNCHANGED <<asked, attempt>> /\ asked \notin CategorySet /\ asked \notin Duties
  BY <1>8 DEF Submit, ReportStart
<1>13. ReportStores => UNCHANGED <<asked, attempt>> /\ asked \notin CategorySet /\ asked \notin Duties
  BY <1>0 DEF ReportStores, Store, CallInv
<1>14. ClassifierReturns \/ ClassifierMalformed \/ AssessorReturns \/ AssessorMalformed
        \/ ReportRaises \/ ClassifyRaises \/ Leave => asked' = Nobody /\ attempt' = 1
  BY DEF ClassifierReturns, ClassifierMalformed, Classified, AssessorReturns, AssessorMalformed, Assessed,
         CallEnds, ReportRaises, ClassifyRaises, Leave, Blank
<1>15. (\E s \in Sources : Seed(s)) \/ UNCHANGED vars => UNCHANGED <<phase, assessments, asked, attempt, duties, verdicts, evidence>>
  BY DEF Seed
<1> QED
  BY <1>2, <1>3, <1>4, <1>5, <1>6, <1>7, <1>9, <1>10, <1>11, <1>12, <1>13, <1>14, <1>15 DEF Next, Handle

LEMMA ReportNext == IInv /\ [Next]_vars => ReportInv'
<1> SUFFICES ASSUME IInv, [Next]_vars PROVE ReportInv'
  OBVIOUS
<1>0. TypeOK /\ CallInv /\ ReportInv
  BY DEF IInv
<1>1. ASSUME NEW d \in Duties, NEW v \in AssessorAnswers, d \in duties \ DOMAIN verdicts,
             phase = "reporting",
             v.status = "COMPLIANT" => Supplied(d),
             verdicts' = [e \in DOMAIN verdicts \cup {d} |-> IF e = d THEN v ELSE verdicts[e]],
             UNCHANGED <<phase, duties, evidence>>
      PROVE  ReportInv'
  BY <1>0, <1>1 DEF ReportInv, ReportStored, Supplied
<1>2. ASSUME NEW d \in Duties, AssessNothing(d) PROVE ReportInv'
  <2>1. InsufficientEvidence(d) \in AssessorAnswers /\ InsufficientEvidence(d).status # "COMPLIANT"
    BY DEF InsufficientEvidence, AssessorAnswers, Statuses
  <2> QED
    BY <1>1, <1>2, <2>1 DEF AssessNothing
<1>3. ASSUME NEW ok \in BOOLEAN, NEW v \in AssessorAnswers, Assessed(ok, v) PROVE ReportInv'
  <2>1. asked \in Duties /\ asked \in duties \ DOMAIN verdicts /\ Supplied(asked)
    BY <1>0, <1>3 DEF Assessed, CallInv, TypeOK
  <2> QED
    BY <1>1, <1>3, <2>1 DEF Assessed
<1>4. AssessorReturns \/ AssessorMalformed =>
        \E ok \in BOOLEAN, v \in AssessorAnswers : Assessed(ok, v)
  <2>1. asked \in Duties => InsufficientEvidence(asked) \in AssessorAnswers
    BY DEF InsufficientEvidence, AssessorAnswers, Statuses
  <2>2. \A a \in AssessorAnswers : asked \in Duties => Judge(asked, a) \in AssessorAnswers
    BY <2>1 DEF Judge
  <2>3. ASSUME NEW ok, NEW v, Assessed(ok, v) PROVE asked \in Duties
    BY <1>0, <2>3 DEF Assessed, TypeOK
  <2> QED
    BY <2>1, <2>2, <2>3 DEF AssessorReturns, AssessorMalformed
<1>5. CASE ReportStores
  <2>1. phase = "reporting" /\ phase' = "stored" /\ DOMAIN verdicts = duties
    BY <1>5 DEF ReportStores, Store
  <2>2. record'.gaps = Gaps /\ record'.flags = ClassificationFlags \cup EvidenceFlags /\ record'.calls = calls
    BY <1>5 DEF ReportStores, Store
  <2>3. UNCHANGED <<assessments, calls, duties, evidence, verdicts>>
    BY <1>5 DEF ReportStores
  <2>4. Gaps' = Gaps /\ ClassificationFlags' = ClassificationFlags /\ EvidenceFlags' = EvidenceFlags
    BY <2>3 DEF Gaps, ClassificationFlags, EvidenceFlags
  <2> QED
    BY <1>0, <2>1, <2>2, <2>3, <2>4 DEF ReportInv, Supplied
<1>6. CASE ReportRaises
  <2>1. phase' = "stored" /\ record'.error /\ DOMAIN verdicts' = {}
    BY <1>6 DEF ReportRaises, Store
  <2> QED
    BY <2>1 DEF ReportInv, ReportStored
<1>7. CASE UNCHANGED <<phase, assessments, calls, duties, evidence, verdicts, record>>
  BY <1>0, <1>7 DEF ReportInv, ReportStored, Supplied, Gaps, ClassificationFlags, EvidenceFlags
<1>8. CASE DOMAIN verdicts' = {} /\ phase' # "stored"
  BY <1>8 DEF ReportInv, ReportStored
<1>9. CASE UNCHANGED <<phase, duties, evidence, verdicts>> /\ phase # "stored"
  BY <1>0, <1>9 DEF ReportInv, ReportStored, Supplied
<1>10. ReportStart \/ ShowForm \/ ShowAnswer => DOMAIN verdicts' = {} /\ phase' # "stored"
  BY <1>0 DEF ReportStart, ShowForm, ShowAnswer, ReportInv
<1>11. Submit \/ ClassifyRaises \/ Leave => DOMAIN verdicts' = {} /\ phase' # "stored"
  BY <1>0 DEF Submit, ClassifyRaises, Leave, Blank, ReportInv
<1>12. ASSUME NEW c \in CategorySet, Unscoped(c) \/ Retrieve(c) \/ Probe(c)
       PROVE  DOMAIN verdicts' = {} /\ phase' # "stored"
  BY <1>0, <1>12 DEF Unscoped, Retrieve, Probe, ReportInv
<1>13. ClassifierReturns \/ ClassifierMalformed => DOMAIN verdicts' = {} /\ phase' # "stored"
  BY <1>0 DEF ClassifierReturns, ClassifierMalformed, Classified, ReportInv
<1>14. ASSUME NEW d \in Duties, AskAssessor(d)
       PROVE  UNCHANGED <<phase, duties, evidence, verdicts>> /\ phase # "stored"
  BY <1>14 DEF AskAssessor
<1>15. Retry => UNCHANGED <<phase, duties, evidence, verdicts>> /\ phase # "stored"
  BY <1>0 DEF Retry, CallInv, TypeOK
<1>16. (\E s \in Sources : Seed(s)) \/ UNCHANGED vars =>
        UNCHANGED <<phase, assessments, calls, duties, evidence, verdicts, record>>
  BY DEF Seed
<1> QED
  BY <1>2, <1>3, <1>4, <1>5, <1>6, <1>7, <1>8, <1>9, <1>10, <1>11, <1>12, <1>13, <1>14, <1>15, <1>16
  DEF Next, Handle

LEMMA TokenNext == IInv /\ [Next]_vars => TokenInv'
<1> SUFFICES ASSUME IInv, [Next]_vars PROVE TokenInv'
  OBVIOUS
<1>0. TypeOK /\ CallInv /\ ReportInv /\ TokenInv
  BY DEF IInv
<1>1. /\ calls.good \in Nat /\ calls.failed \in Nat /\ calls.tokens \in Nat
      /\ calls \in CallLogs /\ attempt \in {1, 2} /\ spent \in Nat
  BY <1>0 DEF TypeOK, CallLogs
<1>2. ASSUME NEW ok \in BOOLEAN, CallEnds(ok), UNCHANGED <<phase, kind, record>>,
             phase \in {"classifying", "reporting"}
      PROVE  TokenInv'
  <2>1. attempt' = 1 /\ spent' = spent + 1 /\ (ok \/ attempt = 2) /\ calls' = Logged(ok)
    BY <1>2 DEF CallEnds
  <2>2. CASE kind = "assess" /\ ok
    <3>1. calls'.tokens = calls.tokens + attempt /\ calls'.failed = calls.failed
      BY <1>1, <2>1, <2>2 DEF Logged, CallLogs
    <3>2. calls.tokens + 2 * calls.failed + (attempt - 1) = spent
      BY <1>0, <1>2, <2>2 DEF TokenInv
    <3>3. calls'.tokens + 2 * calls'.failed + (attempt' - 1) = spent'
      BY <1>1, <2>1, <3>1, <3>2
    <3> QED
      BY <1>0, <1>2, <3>3 DEF TokenInv
  <2>3. CASE kind = "assess" /\ ~ok
    <3>1. calls'.tokens = calls.tokens /\ calls'.failed = calls.failed + 1
      BY <1>1, <2>1, <2>3 DEF Logged, CallLogs
    <3>2. calls.tokens + 2 * calls.failed + 1 = spent
      BY <1>0, <1>2, <2>1, <2>3 DEF TokenInv
    <3>3. calls'.tokens + 2 * calls'.failed + (attempt' - 1) = spent'
      <4>1. \A f \in Nat : 2 * (f + 1) = 2 * f + 2
        OBVIOUS
      <4>2. 2 * calls'.failed = 2 * calls.failed + 2
        BY <1>1, <3>1, <4>1
      <4>3. 2 * calls.failed \in Nat
        BY <1>1
      <4> QED
        BY <1>1, <2>1, <3>1, <3>2, <4>2, <4>3
    <3> QED
      BY <1>0, <1>2, <3>3 DEF TokenInv
  <2>4. CASE kind # "assess"
    BY <1>0, <1>2, <2>4 DEF TokenInv
  <2> QED
    BY <2>2, <2>3, <2>4
<1>3. ClassifierReturns \/ ClassifierMalformed \/ AssessorReturns \/ AssessorMalformed =>
        /\ CallEnds(TRUE) \/ CallEnds(FALSE)
        /\ UNCHANGED <<phase, kind, record>>
        /\ phase \in {"classifying", "reporting"}
  BY DEF ClassifierReturns, ClassifierMalformed, Classified, AssessorReturns, AssessorMalformed, Assessed
<1>4. CASE Retry
  <2>1. phase \in {"classifying", "reporting"}
    BY <1>0, <1>4 DEF Retry, CallInv, TypeOK
  <2> QED
    BY <1>0, <1>1, <1>4, <2>1 DEF Retry, TokenInv
<1>5. CASE Blank
  BY <1>5 DEF Blank, NoCalls, TokenInv
<1>6. CASE Submit
  BY <1>0, <1>6 DEF Submit, TokenInv
<1>7. CASE ReportRaises
  <2>1. /\ phase = "reporting" /\ phase' = "stored" /\ record'.error
        /\ record'.calls = calls /\ UNCHANGED <<kind, calls, spent>>
    BY <1>7 DEF ReportRaises, Store
  <2>2. kind = "assess" /\ calls.tokens + 2 * calls.failed + (attempt - 1) = spent
    BY <1>0, <2>1 DEF TokenInv
  <2>3. calls.tokens <= spent
    BY <1>1, <2>2
  <2> QED
    BY <2>1, <2>2, <2>3 DEF TokenInv
<1>8. CASE ReportStores
  BY <1>0, <1>8 DEF ReportStores, Store, TokenInv
<1>9. CASE ShowForm
  BY <1>0, <1>9 DEF ShowForm, TokenInv
<1>10. CASE ReportStart
  BY <1>0, <1>10 DEF ReportStart, TokenInv
<1>11. CASE UNCHANGED <<kind, calls, attempt, spent, record>>
            /\ (phase' = phase \/ phase' \in {"classifying", "probing", "answered"})
            /\ (phase = "stored" => phase' = "stored")
  BY <1>0, <1>11 DEF TokenInv
<1>12. \/ \E c \in CategorySet : Unscoped(c) \/ Retrieve(c) \/ Probe(c)
       \/ \E d \in Duties : AssessNothing(d) \/ AskAssessor(d)
       \/ ShowAnswer \/ (\E s \in Sources : Seed(s)) \/ UNCHANGED vars
       => /\ UNCHANGED <<kind, calls, attempt, spent, record>>
          /\ (phase' = phase \/ phase' \in {"classifying", "probing", "answered"})
          /\ (phase = "stored" => phase' = "stored")
  BY DEF Unscoped, Retrieve, Probe, AssessNothing, AskAssessor, ShowAnswer, Seed
<1>13. ClassifyRaises \/ Leave => Blank
  BY DEF ClassifyRaises, Leave
<1> QED
  BY <1>2, <1>3, <1>4, <1>5, <1>6, <1>7, <1>8, <1>9, <1>10, <1>11, <1>12, <1>13 DEF Next, Handle

-----------------------------------------------------------------------------
(* The theorems *)

LEMMA InitInv == Init => IInv
<1> SUFFICES ASSUME Init PROVE IInv
  OBVIOUS
<1>1. TypeOK
  BY TypeInit
<1>2. ingested = {} /\ DOMAIN assessments = {} /\ DOMAIN verdicts = {} /\ DOMAIN evidence = {}
  BY DEF Init
<1>3. CallInv
  BY PipelineAssumption DEF Init, CallInv
<1>4. CandidatesInv
  BY DEF Init, CandidatesInv, NoCandidates
<1>5. Grounded /\ TemporalFacts /\ FailedClosedInv
  BY <1>2 DEF Grounded, TemporalFacts, FailedClosedInv
<1>6. KnownInv
  BY <1>2 DEF Init, KnownInv
<1>8. ReportInv
  BY <1>2 DEF Init, ReportInv, ReportStored
<1>9. TokenInv
  BY DEF Init, TokenInv, NoCalls
<1> QED
  BY <1>1, <1>3, <1>4, <1>5, <1>6, <1>8, <1>9 DEF IInv

\* IInv holds at every moment of every behaviour.
THEOREM Invariance == Spec => []IInv
<1>1. IInv /\ [Next]_vars => IInv'
  <2> SUFFICES ASSUME IInv, [Next]_vars PROVE IInv'
    OBVIOUS
  <2>1. TypeOK'
    BY TypeNext DEF IInv
  <2>2. CallInv' /\ CandidatesInv' /\ Grounded' /\ KnownInv' /\ TemporalFacts'
    BY CallNext, CandidatesNext, GroundedNext, KnownNext, TemporalNext
  <2>3. ReportInv' /\ TokenInv' /\ FailedClosedInv'
    BY ReportNext, TokenNext, FailedClosedNext
  <2> QED
    BY <2>1, <2>2, <2>3 DEF IInv
<1> QED
  BY InitInv, <1>1, PTL DEF Spec

\* Types hold, and every classification lists each category once, in order.
THEOREM TypeCorrect == Spec => []TypeOK
<1>1. IInv => TypeOK
  BY DEF IInv
<1> QED
  BY Invariance, <1>1, PTL

\* Nothing is asserted without a legal basis that was retrieved for its category, whatever
\* the model answers and however the law grows meanwhile.
THEOREM GroundedHolds == Spec => []Grounded
<1>1. IInv => Grounded
  BY DEF IInv
<1> QED
  BY Invariance, <1>1, PTL

\* Conclusions drawn without the model state facts about the law as the request found it.
THEOREM TemporalFactsHold == Spec => []TemporalFacts
<1>1. IInv => TemporalFacts
  BY DEF IInv
<1> QED
  BY Invariance, <1>1, PTL

\* Only supplied text that the model called compliant clears an obligation.
THEOREM ClearedOnlyByEvidenceHolds == Spec => []ClearedOnlyByEvidence
<1>1. IInv => ClearedOnlyByEvidence
  BY DEF IInv, ReportInv, ClearedOnlyByEvidence, ReportStored, Gaps, Supplied
<1> QED
  BY Invariance, <1>1, PTL

\* Every doubt about a stored report has a review flag.
THEOREM DoubtReviewedHolds == Spec => []DoubtReviewed
<1>1. IInv => DoubtReviewed
  <2> SUFFICES ASSUME IInv, ReportStored PROVE DoubtReviewed
    BY DEF DoubtReviewed
  <2>1. /\ TypeOK
        /\ DOMAIN verdicts = duties
        /\ record.gaps = Gaps
        /\ record.flags = ClassificationFlags \cup EvidenceFlags
    BY DEF IInv, ReportInv
  <2>2. \A c \in {Prohibited, HighRisk} : Triggered(c) => <<"high_impact", c>> \in record.flags
    BY <2>1 DEF Triggered, CitedStates, ClassificationFlags, HighImpactStates
  <2>3. \A i \in DOMAIN assessments : assessments[i].basis = "failed closed" =>
            assessments[i].state = "INSUFFICIENT_INFORMATION"
    BY DEF IInv, FailedClosedInv
  <2>4. \A i \in DOMAIN assessments : assessments[i].basis = "failed closed" =>
            <<"insufficient_information", assessments[i].category>> \in record.flags
    BY <2>1, <2>3 DEF ClassificationFlags
  <2>5. \A d \in duties : verdicts[d].contradicted => <<"contradiction_detected", d>> \in record.flags
    BY <2>1 DEF EvidenceFlags
  <2>6. \A d \in record.gaps :
            <<"evidence_gap", d>> \in record.flags \/ verdicts[d].status = "NOT_APPLICABLE"
    <3>1. \A d \in duties : verdicts[d].status \in Statuses
      BY <2>1 DEF TypeOK, AssessorAnswers
    <3> QED
      BY <2>1, <3>1 DEF Gaps, EvidenceFlags, Statuses
  <2> QED
    BY <2>2, <2>4, <2>5, <2>6 DEF DoubtReviewed
<1> QED
  BY Invariance, <1>1, PTL

\* A report's record never has more tokens than were charged, and has them all when no call
\* of its assessment failed.
THEOREM TokensAccountedHolds == Spec => []TokensAccounted
<1>1. IInv => TokensAccounted
  <2> SUFFICES ASSUME IInv, phase = "stored"
               PROVE  /\ record.calls.tokens <= spent
                      /\ (~record.error /\ record.calls.failed = 0)
                            => record.calls.tokens = spent
    BY DEF TokensAccounted
  <2>1. asked = Nobody /\ attempt = 1
    BY DEF IInv, TypeOK, CallInv
  <2>2. calls.tokens \in Nat /\ calls.failed \in Nat /\ spent \in Nat
    BY DEF IInv, TypeOK, CallLogs
  <2>3. CASE record.error
    BY <2>3 DEF IInv, TokenInv
  <2>4. CASE ~record.error
    <3>1. record.calls = calls /\ kind = "assess"
      BY <2>4 DEF IInv, ReportInv, TokenInv, ReportStored
    <3>2. calls.tokens + 2 * calls.failed + 0 = spent
      BY <2>1, <2>4, <3>1 DEF IInv, TokenInv
    <3> QED
      BY <2>2, <2>4, <3>1, <3>2
  <2> QED
    BY <2>3, <2>4
<1> QED
  BY Invariance, <1>1, PTL

-----------------------------------------------------------------------------
(***************************************************************************)
(* The law a request meets is the book that LegalCorpus is proved to       *)
(* implement, read only for its first versions: an amendment leaves what a *)
(* requirement applies to alone.                                           *)
(***************************************************************************)
Book == INSTANCE LawBook WITH
            SourceOf <- [k \in Keys |-> CHOOSE s \in Sources : k \in s],
            SeedConditions <- Window, SeedExceptions <- [k \in Keys |-> {}],
            MaxVersion <- 1, NotEntered <- Nobody,
            entered <- {s \in Sources : s \subseteq ingested},
            onFile <- [k \in Keys |-> IF k \in ingested THEN {1} ELSE {}],
            inForce <- [k \in Keys |-> IF k \in ingested
                                       THEN [version |-> 1, conditions |-> Window[k],
                                             exceptions |-> {}]
                                       ELSE Nobody]

\* The seed files: every requirement belongs to one source, and no source is empty.
OneSourceEach ==
    /\ {} \notin Sources
    /\ \A k \in Keys : \E s \in Sources : k \in s
    /\ \A s, t \in Sources : s # t => s \cap t = {}

\* The seeding of a source enters it.
LEMMA SeedEnters == ASSUME OneSourceEach, NEW s \in Sources, Seed(s) PROVE Book!Enter(s)
<1> DEFINE sourceOf == [k \in Keys |-> CHOOSE x \in Sources : k \in x]
<1>1. s \cap ingested = {} /\ ingested' = ingested \cup s
  BY DEF Seed
<1>2. \A k \in Keys : sourceOf[k] = s <=> k \in s
  <2> SUFFICES ASSUME NEW k \in Keys PROVE sourceOf[k] = s <=> k \in s
    OBVIOUS
  <2>1. sourceOf[k] \in Sources /\ k \in sourceOf[k]
    BY DEF OneSourceEach
  <2> HIDE DEF sourceOf
  <2> QED
    BY <2>1 DEF OneSourceEach
<1>3. ~(s \subseteq ingested)
  BY <1>1 DEF OneSourceEach
<1>4. {t \in Sources : t \subseteq ingested}' = {t \in Sources : t \subseteq ingested} \cup {s}
  <2>1. \A t \in Sources \ {s} : t \subseteq ingested' <=> t \subseteq ingested
    BY <1>1 DEF OneSourceEach
  <2>2. s \subseteq ingested'
    BY <1>1
  <2> QED
    BY <2>1, <2>2
<1>5. \A k \in Keys : k \in ingested' <=> sourceOf[k] = s \/ k \in ingested
  BY <1>1, <1>2
<1>6. \A k \in Keys : sourceOf[k] = s => k \notin ingested
  BY <1>1, <1>2
<1> HIDE DEF sourceOf
<1>7. /\ [k \in Keys |-> IF k \in ingested' THEN {1} ELSE {}] =
          [k \in Keys |-> IF sourceOf[k] = s THEN {1} ELSE IF k \in ingested THEN {1} ELSE {}]
      /\ [k \in Keys |-> IF k \in ingested'
                         THEN [version |-> 1, conditions |-> Window[k], exceptions |-> {}]
                         ELSE Nobody] =
          [k \in Keys |-> IF sourceOf[k] = s
                         THEN [version |-> 1, conditions |-> Window[k], exceptions |-> {}]
                         ELSE IF k \in ingested
                              THEN [version |-> 1, conditions |-> Window[k], exceptions |-> {}]
                              ELSE Nobody]
  BY <1>5
<1> QED
  BY <1>3, <1>4, <1>7 DEF Book!Enter, sourceOf

\* Whatever the request does, the law beside it grows source by source, as the book does.
THEOREM LawGrowsByTheBook == OneSourceEach => (Spec => Book!Spec)
<1> SUFFICES ASSUME OneSourceEach PROVE Spec => Book!Spec
  OBVIOUS
<1>1. Init => Book!Init
  <2> SUFFICES ASSUME Init PROVE Book!Init
    OBVIOUS
  <2>1. ingested = {}
    BY DEF Init
  <2>2. {s \in Sources : s \subseteq ingested} = {}
    BY <2>1 DEF OneSourceEach
  <2> QED
    BY <2>1, <2>2 DEF Book!Init
<1>2. [Next]_vars => [Book!Next]_(Book!vars)
  <2> SUFFICES ASSUME [Next]_vars PROVE [Book!Next]_(Book!vars)
    OBVIOUS
  <2>1. CASE \E s \in Sources : Seed(s)
    BY <2>1, SeedEnters DEF Book!Next
  <2>2. CASE ingested' = ingested
    BY <2>2 DEF Book!vars
  <2> QED
    BY <2>1, <2>2, LawWriters
<1> QED
  BY <1>1, <1>2, PTL DEF Spec, Book!Spec

=============================================================================
