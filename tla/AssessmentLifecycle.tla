------------------------ MODULE AssessmentLifecycle ------------------------
(***************************************************************************)
(* An assessment from POST /assess to its purge, beside the law changing   *)
(* under it.  POST /assess classifies (one retrieval and one LLM call per  *)
(* category) and returns a form that the browser holds; POST /report reads *)
(* that form back, maps obligations, assesses evidence and stores an       *)
(* AssessmentRecord, or an error record.  Meanwhile an operator amends     *)
(* requirements, cron purges old records, and /history is computed from    *)
(* the latest record of each system.  How a name finds its AI system is    *)
(* Workspaces'.                                                            *)
(*                                                                         *)
(* A requirement is its stable key and the times at which its versions     *)
(* were created; that these form one chain is proved of LegalCorpus.  Time *)
(* counts instants, and since created_at is datetime.now() to the          *)
(* microsecond, each stamp takes one of its own.  One requirement stands   *)
(* for the candidates of a category.                                       *)
(***************************************************************************)
EXTENDS Naturals, Sequences

CONSTANTS
    Keys,           \* requirement keys
    DutyKeys,       \* HIGH_RISK_OBLIGATION_KEYS
    Names,          \* AI system names
    NoName,         \* the name field left blank: ai_system_id is None
    Tabs,           \* browser tabs, each with at most one assessment at hand
    Retention,      \* DEFAULT_RETENTION_DAYS, in instants
    MaxTime,        \* bound: the last instant
    MaxVersion,     \* bound: versions of a requirement
    MaxRecords,     \* bound: records ever stored
    NoTime          \* no date

ASSUME LifecycleAssumption ==
    /\ DutyKeys \subseteq Keys
    /\ NoName \notin Names
    /\ {Retention, MaxRecords} \subseteq Nat
    /\ {MaxTime, MaxVersion} \subseteq Nat \ {0}
    /\ NoTime \notin Nat

VARIABLES
    now,         \* the instant
    created,     \* per key, created_at of each committed version
    amending,    \* per key, created_at of a version flushed but not committed
    tab,         \* per tab, the request or page it holds
    records,     \* committed assessment_records
    recorded,    \* records ever stored; the next id
    purger       \* the cron job: idle, or holding the records it selected

vars == <<now, created, amending, tab, records, recorded, purger>>
law == <<created, amending>>
store == <<records, recorded>>

LiveVersion(k) == Len(created[k])
Unread == [k \in Keys |-> 0]

\* the versions seen of the keys in ks; nobody asks for the others
SawOf(saw, ks) == [k \in Keys |-> IF k \in ks THEN saw[k] ELSE 0]

BlankTab == [pc |-> "blank", name |-> NoName, saw |-> Unread,
             cited |-> {}, highRisk |-> FALSE, duties |-> {}]

-----------------------------------------------------------------------------
(* What the pages compute from the stored records *)

RecordsOf(n) == {r \in records : r.system = n}

\* order_by(created_at.desc()).limit(1); ids are handed out in that order
Latest(n) == CHOOSE r \in RecordsOf(n) : \A s \in RecordsOf(n) : s.id <= r.id

\* _requirement_keys_cited_by: the classification's citations and the obligations, from
\* the two JSON columns of the record
CitedBy(r) == r.keys

\* Mutant: every requirement that was ever amended
OutdatedKeysEver(r) == {k \in CitedBy(r) : LiveVersion(k) > 1}

\* Mutant: only recent amendments are looked at
OutdatedKeysRecent(r) ==
    {k \in CitedBy(r) : \E v \in DOMAIN created[k] :
        created[k][v] > r.at /\ created[k][v] + Retention >= now}

\* find_outdated_requirement_keys: a version created after the record was
OutdatedKeys(r) ==
    {k \in CitedBy(r) : \E v \in DOMAIN created[k] : created[k][v] > r.at}

\* check_ai_system_for_updates
Alerted(n) == RecordsOf(n) # {} /\ OutdatedKeys(Latest(n)) # {}

-----------------------------------------------------------------------------
(* POST /assess *)

\* The system may be named; the date the assessment is about is left to Deadlines.
Assess(t) ==
    /\ tab[t].pc = "blank"
    /\ \E n \in Names \cup {NoName} :
        tab' = [tab EXCEPT ![t] = [BlankTab EXCEPT !.pc = "classifying", !.name = n]]
    /\ UNCHANGED <<now, law, store, purger>>

\* classify_system, one category: its candidates are the requirements live now.
Retrieve(t) ==
    /\ tab[t].pc = "classifying"
    /\ \E k \in Keys :
        /\ tab[t].saw[k] = 0
        /\ tab' = [tab EXCEPT ![t].saw[k] = LiveVersion(k)]
    /\ UNCHANGED <<now, law, store, purger>>

\* Every category is classified: some candidates are cited, the page goes to the browser.
Classified(t) ==
    /\ tab[t].pc = "classifying"
    /\ \A k \in Keys : tab[t].saw[k] # 0
    /\ \E cited \in SUBSET Keys, highRisk \in BOOLEAN :
        tab' = [tab EXCEPT ![t].pc = "form", ![t].cited = cited, ![t].highRisk = highRisk,
                           ![t].saw = SawOf(@, cited)]
    /\ UNCHANGED <<now, law, store, purger>>

\* An exception while classifying: nothing is persisted, the form is shown again.
ClassifyFails(t) ==
    /\ tab[t].pc = "classifying"
    /\ tab' = [tab EXCEPT ![t] = BlankTab]
    /\ UNCHANGED <<now, law, store, purger>>

\* The user closes the page.
CloseTab(t) ==
    /\ tab[t].pc = "form"
    /\ tab' = [tab EXCEPT ![t] = BlankTab]
    /\ UNCHANGED <<now, law, store, purger>>

-----------------------------------------------------------------------------
(* POST /report *)

\* The request is parsed and the obligations mapped. What the report will say of a key it
\* did not cite before is read here.
ReportStart(t) ==
    LET duties == IF tab[t].highRisk THEN DutyKeys ELSE {} IN
    /\ tab[t].pc = "form"
    /\ tab' = [tab EXCEPT ![t].pc = "reporting", ![t].duties = duties,
                          ![t].saw = [k \in Keys |-> IF k \in duties \ tab[t].cited
                                                     THEN LiveVersion(k) ELSE tab[t].saw[k]]]
    /\ UNCHANGED <<now, law, store, purger>>

\* The form page stays in the browser, where it can be sent again.
BackToForm(t) ==
    tab' = [tab EXCEPT ![t].pc = "form", ![t].duties = {}, ![t].saw = SawOf(@, tab[t].cited)]

\* Taken by a column default as the row is flushed: a stamp is its own instant.
StampTaken == now < MaxTime /\ now' = now + 1

\* record_assessment, one insert and its commit: the report after every obligation's evidence
\* was assessed, or an error record before the exception is re-raised.  saw and overtaken are
\* history: no record stores the versions it rests on, nor whether they were still live.
Store(t) ==
    LET keys == tab[t].cited \cup tab[t].duties
        r == [id |-> recorded + 1, system |-> tab[t].name, at |-> now, keys |-> keys,
              saw |-> tab[t].saw, overtaken |-> \E k \in keys : tab[t].saw[k] < LiveVersion(k)]
    IN
    /\ tab[t].pc = "reporting"
    /\ recorded < MaxRecords
    /\ records' = records \cup {r}
    /\ recorded' = recorded + 1
    /\ StampTaken
    /\ BackToForm(t)
    /\ UNCHANGED <<law, purger>>

\* The server dies first.
ReportLost(t) ==
    /\ tab[t].pc = "reporting"
    /\ BackToForm(t)
    /\ UNCHANGED <<now, law, store, purger>>

-----------------------------------------------------------------------------
(* Amendments: supersede_requirement stamps created_at at its flush *)

AmendFlush(k) ==
    /\ amending[k] = NoTime
    /\ LiveVersion(k) < MaxVersion
    /\ amending' = [amending EXCEPT ![k] = now]
    /\ StampTaken
    /\ UNCHANGED <<created, tab, store, purger>>

AmendCommit(k) ==
    /\ amending[k] # NoTime
    /\ created' = [created EXCEPT ![k] = Append(@, amending[k])]
    /\ amending' = [amending EXCEPT ![k] = NoTime]
    /\ UNCHANGED <<now, tab, store, purger>>

AmendRollback(k) ==
    /\ amending[k] # NoTime
    /\ amending' = [amending EXCEPT ![k] = NoTime]
    /\ UNCHANGED <<now, created, tab, store, purger>>

-----------------------------------------------------------------------------
(* Retention *)

\* Mutant: without cross_tenant_context the select returns no tenant's records
PurgeSelectScoped ==
    /\ purger.pc = "idle"
    /\ purger' = [pc |-> "selected", doomed |-> {r.id : r \in {x \in records : x.system = NoName}}]
    /\ UNCHANGED <<now, law, tab, store>>

\* Mutant: the comparison with the cutoff is reversed
PurgeSelectYoung ==
    /\ purger.pc = "idle"
    /\ purger' = [pc |-> "selected",
                  doomed |-> {r.id : r \in {x \in records : x.at + Retention >= now}}]
    /\ UNCHANGED <<now, law, tab, store>>

\* purge_expired_assessments: created_at < cutoff
PurgeSelect ==
    /\ purger.pc = "idle"
    /\ purger' = [pc |-> "selected",
                  doomed |-> {r.id : r \in {x \in records : x.at + Retention < now}}]
    /\ UNCHANGED <<now, law, tab, store>>

PurgeCommit ==
    /\ purger.pc = "selected"
    /\ records' = {r \in records : r.id \notin purger.doomed}
    /\ purger' = [pc |-> "idle", doomed |-> {}]
    /\ UNCHANGED <<now, law, tab, recorded>>

PurgeDies ==
    /\ purger.pc = "selected"
    /\ purger' = [pc |-> "idle", doomed |-> {}]
    /\ UNCHANGED <<now, law, tab, store>>

\* delete_assessment: on demand
Delete ==
    \E r \in records :
        /\ records' = records \ {r}
        /\ UNCHANGED <<now, law, tab, recorded, purger>>

Tick ==
    /\ now < MaxTime
    /\ now' = now + 1
    /\ UNCHANGED <<law, tab, store, purger>>

-----------------------------------------------------------------------------
Init ==
    /\ now = 1
    /\ created = [k \in Keys |-> <<0>>]
    /\ amending = [k \in Keys |-> NoTime]
    /\ tab = [t \in Tabs |-> BlankTab]
    /\ records = {}
    /\ recorded = 0
    /\ purger = [pc |-> "idle", doomed |-> {}]

TabNext(t) ==
    \/ Assess(t) \/ Retrieve(t) \/ Classified(t) \/ ClassifyFails(t) \/ CloseTab(t)
    \/ ReportStart(t) \/ Store(t) \/ ReportLost(t)

AmendNext(k) == AmendFlush(k) \/ AmendCommit(k) \/ AmendRollback(k)

PurgeNext == PurgeSelect \/ PurgeCommit \/ PurgeDies

Next ==
    \/ \E t \in Tabs : TabNext(t)
    \/ \E k \in Keys : AmendNext(k)
    \/ PurgeNext \/ Delete \/ Tick

Spec == Init /\ [][Next]_vars

(***************************************************************************)
(* Fairness: time passes, cron keeps starting the purge, and a purge that  *)
(* is started over and over is not killed every time.                      *)
(***************************************************************************)
FairSpec == Spec /\ WF_vars(Tick) /\ WF_vars(PurgeSelect) /\ SF_vars(PurgeCommit)

-----------------------------------------------------------------------------
(* Properties *)

RecordStates ==
    [id: 1..MaxRecords, system: Names \cup {NoName}, at: 0..MaxTime,
     keys: SUBSET Keys, saw: [Keys -> 0..MaxVersion], overtaken: BOOLEAN]

TabStates ==
    [pc: {"blank", "classifying", "form", "reporting"}, name: Names \cup {NoName},
     saw: [Keys -> 0..MaxVersion], cited: SUBSET Keys, highRisk: BOOLEAN,
     duties: SUBSET Keys]

\* The type invariant of the clock, the tables, the tabs and the purge.
TypeOK ==
    /\ now \in 0..MaxTime
    /\ created \in [Keys -> Seq(0..MaxTime)]
    /\ \A k \in Keys : LiveVersion(k) <= MaxVersion
    /\ amending \in [Keys -> 0..MaxTime \cup {NoTime}]
    /\ tab \in [Tabs -> TabStates]
    /\ records \subseteq RecordStates
    /\ recorded \in 0..MaxRecords
    /\ purger \in [pc: {"idle", "selected"}, doomed: SUBSET (1..MaxRecords)]

\* No false alarm: a system is flagged for a requirement only if its latest assessment
\* rests on a version of it that has been superseded, although no record stores versions
\* and the flag is inferred from two clocks (update_alerts.py).
AlertSound ==
    \A n \in Names : Alerted(n) =>
        \A k \in OutdatedKeys(Latest(n)) : Latest(n).saw[k] < LiveVersion(k)

\* A flag goes away only with the record it is about: by a newer assessment of the
\* system, by its deletion or by the purge, never because time passed or the requirement
\* was amended again.
AlertPersists ==
    [][\A n \in Names :
        Alerted(n) /\ ~Alerted(n)' => RecordsOf(n)' = {} \/ Latest(n)' # Latest(n)]_vars

\* The purge never makes an older record the latest one of its system again: alerts and
\* due dates do not jump back to a superseded assessment.
PurgeRevivesNothing ==
    [][PurgeCommit => \A n \in Names :
        (RecordsOf(n) # {} /\ RecordsOf(n)' # {}) => Latest(n)' = Latest(n)]_vars

\* Every record stored early enough for the bounded clock to outlive its retention is
\* eventually gone, whoever it belongs to.
RecordsExpire ==
    \A i \in 1..MaxRecords :
        (\E r \in records : r.id = i /\ r.at + Retention < MaxTime)
            ~> (\A r \in records : r.id # i)

-----------------------------------------------------------------------------
(* A statement of the repository that the code does not keep. *)

\* README: when a requirement a system was assessed against gets amended, that system is
\* flagged; also when the amendment came after the classification had read the law and
\* before the record was stored (update_alerts.py compares with the record's created_at).
StaleConclusionsAreFlagged ==
    \A n \in Names : RecordsOf(n) # {} /\ Latest(n).overtaken => Alerted(n)

=============================================================================
