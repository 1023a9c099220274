------------------------------ MODULE Deadlines ------------------------------
(***************************************************************************)
(* What the deadline pages tell about the stored assessments: when each AI *)
(* system is due for re-assessment, which requirements that did not apply  *)
(* yet come into force next, and which incidents must be reported first.   *)
(* /deadlines is read one system at a time, each with a look at the clock  *)
(* of its own, beside new assessments, deletions, the purge and midnight.  *)
(*                                                                         *)
(* Dates are those of Calendar.  The law is ingested and stays: amendments *)
(* copy temporal_start, and temporal_end is never set.  One tenant is      *)
(* modelled here; Workspaces shows that tenants do not meet.               *)
(***************************************************************************)
EXTENDS Calendar, FiniteSets, Sequences, Functions

CONSTANTS
    Systems,        \* AI systems
    Categories,     \* classification categories with ingested requirements
    Start,          \* per category, the temporal_start of its requirements
    Days,           \* the days on which something happens; bound: the last one
    AsOfDates,      \* assessment dates the user enters in the form
    Retention,      \* DEFAULT_RETENTION_DAYS
    MaxRecords,     \* bound: records ever stored
    Incidents,      \* serious incidents
    Severity,       \* the severity of each
    Detected        \* and its detected_at

\* SEVERITY_DEADLINE_DAYS
ReportWithin ==
    [death_or_serious_health_harm       |-> 10,
     critical_infrastructure_disruption |-> 2,
     fundamental_rights_infringement    |-> 15,
     property_or_environment_harm       |-> 15,
     widespread_infringement            |-> 2]

ASSUME DeadlinesAssumption ==
    /\ \A d \in Days \cup AsOfDates \cup UNION {Start[c] : c \in Categories} : IsDate(d)
    /\ \A c \in Categories : IsFiniteSet(Start[c]) /\ Start[c] # {}
    /\ Days # {}
    /\ Retention \in Nat /\ MaxRecords \in Nat
    /\ Severity \in [Incidents -> DOMAIN ReportWithin]
    /\ \A i \in Incidents : IsDate(Detected[i])

VARIABLES
    today,      \* date.today()
    records,    \* the committed assessment_records
    recorded,   \* records ever stored; the next id
    page,       \* the /deadlines page being read or shown
    incident    \* per incident: unfiled, open or reported

vars == <<today, records, recorded, page, incident>>

RecordsOf(s) == {r \in records : r.system = s}

\* order_by(created_at.desc()).limit(1); ids are handed out in that order
Latest(s) == CHOOSE r \in RecordsOf(s) : \A x \in RecordsOf(s) : x.id <= r.id

Earliest(D) == CHOOSE d \in D : \A e \in D : NotAfter(d, e)

-----------------------------------------------------------------------------
(* Storing an assessment *)

\* find_requirements with as_of
InForce(c, asOf) == {d \in Start[c] : NotAfter(d, asOf)}

\* NOT_APPLICABLE by rule where nothing is in force yet; elsewhere the model may answer it
NotApplicableSets(asOf) ==
    LET byRule == {c \in Categories : InForce(c, asOf) = {}}
    IN {N \in SUBSET Categories : byRule \subseteq N}

\* /assess and /report of one system, up to the stored record
Assess(s) ==
    /\ recorded < MaxRecords
    /\ \E d \in AsOfDates : \E N \in NotApplicableSets(d) :
        records' = records \cup
            {[id |-> recorded + 1, system |-> s, at |-> today, asOf |-> d, notApplicable |-> N]}
    /\ recorded' = recorded + 1
    /\ UNCHANGED <<today, page, incident>>

\* purge_expired_assessments: created_at before today less the retention days
Purge ==
    LET expired == {r \in records : Ordinal(r.at) + Retention < Ordinal(today)} IN
    /\ expired # {}
    /\ records' = records \ expired
    /\ page' = [page EXCEPT !.disturbed = @ \/ page.pc = "reading"]
    /\ UNCHANGED <<today, recorded, incident>>

\* delete_assessment
Delete ==
    /\ \E r \in records : records' = records \ {r}
    /\ page' = [page EXCEPT !.disturbed = @ \/ page.pc = "reading"]
    /\ UNCHANGED <<today, recorded, incident>>

-----------------------------------------------------------------------------
(* GET /deadlines *)

\* reassessment_due_on: REASSESSMENT_INTERVAL_MONTHS after as_of
Due(r) == AddMonths(r.asOf, 12)

\* Mutant: the latest date instead of the next
LastApplicable(c, after) ==
    LET later == {d \in Start[c] : Before(after, d)} IN
    IF later = {} THEN {}
    ELSE {[category |-> c, on |-> CHOOSE d \in later : \A e \in later : NotAfter(e, d)]}

\* _next_applicable_date: the earliest start after as_of, if there is one
NextApplicable(c, after) ==
    LET later == {d \in Start[c] : Before(after, d)}
    IN IF later = {} THEN {} ELSE {[category |-> c, on |-> Earliest(later)]}

\* Mutant: overdue until the due date
DeadlinesReversed(s) ==
    LET r == Latest(s) IN
    [system |-> s, id |-> r.id, asOf |-> r.asOf, due |-> Due(r), overdue |-> NotAfter(today, Due(r)),
     upcoming |-> UNION {NextApplicable(c, r.asOf) : c \in r.notApplicable}, on |-> today]

\* Mutant: order_by without desc
OldestDeadlines(s) ==
    LET r == CHOOSE r \in RecordsOf(s) : \A x \in RecordsOf(s) : r.id <= x.id IN
    [system |-> s, id |-> r.id, asOf |-> r.asOf, due |-> Due(r), overdue |-> NotAfter(Due(r), today),
     upcoming |-> UNION {NextApplicable(c, r.asOf) : c \in r.notApplicable}, on |-> today]

\* compute_deadlines_for_system; "on" remembers the day it was computed
DeadlinesOf(s) ==
    LET r == Latest(s) IN
    [system |-> s, id |-> r.id, asOf |-> r.asOf, due |-> Due(r), overdue |-> NotAfter(Due(r), today),
     upcoming |-> UNION {NextApplicable(c, r.asOf) : c \in r.notApplicable}, on |-> today]

NoPage == [pc |-> "closed", newest |-> [s \in Systems |-> 0], todo |-> {},
           rows |-> <<>>, disturbed |-> FALSE]

\* list_all_deadlines: the ids of all systems. "newest" remembers what was stored by then.
PageBegin ==
    /\ page.pc = "closed"
    /\ page' = [NoPage EXCEPT !.pc = "reading", !.todo = Systems,
                  !.newest = [s \in Systems |-> IF RecordsOf(s) = {} THEN 0 ELSE Latest(s).id]]
    /\ UNCHANGED <<today, records, recorded, incident>>

\* One system: its latest record, then the clock; the other statements read only the law.
PageRow(s) ==
    /\ page.pc = "reading"
    /\ s \in page.todo
    /\ page' = [page EXCEPT !.todo = @ \ {s},
                  !.rows = IF RecordsOf(s) = {} THEN @ ELSE Append(@, DeadlinesOf(s))]
    /\ UNCHANGED <<today, records, recorded, incident>>

\* Mutant: the rows are left as they were found
Unsorted(rows) == {rows}

\* results.sort by reassessment_due_on; rows with one date stay in the order of the ids,
\* which is any order
SoonestFirst(rows) ==
    {[i \in DOMAIN rows |-> rows[f[i]]] :
        f \in {f \in Bijection(DOMAIN rows, DOMAIN rows) :
                 \A i, j \in DOMAIN rows : i < j => NotAfter(rows[f[i]].due, rows[f[j]].due)}}

PageShow ==
    /\ page.pc = "reading"
    /\ page.todo = {}
    /\ \E sorted \in SoonestFirst(page.rows) :
        page' = [page EXCEPT !.pc = "shown", !.rows = sorted]
    /\ UNCHANGED <<today, records, recorded, incident>>

PageClose ==
    /\ page.pc = "shown"
    /\ page' = NoPage
    /\ UNCHANGED <<today, records, recorded, incident>>

-----------------------------------------------------------------------------
(* Incidents of one system *)

\* create_incident
File(i) ==
    /\ incident[i] = "unfiled"
    /\ incident' = [incident EXCEPT ![i] = "open"]
    /\ UNCHANGED <<today, records, recorded, page>>

\* mark_reported, which also accepts an incident that is reported already
MarkReported(i) ==
    /\ incident[i] # "unfiled"
    /\ incident' = [incident EXCEPT ![i] = "reported"]
    /\ UNCHANGED <<today, records, recorded, page>>

\* _to_summary: deadline and is_overdue
ReportBy(i) == Ordinal(Detected[i]) + ReportWithin[Severity[i]]
ReportOverdue(i) == incident[i] = "open" /\ ReportBy(i) < Ordinal(today)

\* the sort key of list_incidents_for_system, which reads the clock once
ListedBefore(i, j) ==
    \/ incident[i] = "open" /\ incident[j] = "reported"
    \/ incident[i] = incident[j] /\ ReportBy(i) < ReportBy(j)

\* A day passes, or several on which nothing happens.
Tick ==
    /\ \E d \in Days : Before(today, d) /\ today' = d
    /\ UNCHANGED <<records, recorded, page, incident>>

-----------------------------------------------------------------------------
Init ==
    /\ today = Earliest(Days)
    /\ records = {}
    /\ recorded = 0
    /\ page = NoPage
    /\ incident = [i \in Incidents |-> "unfiled"]

Next ==
    \/ \E s \in Systems : Assess(s) \/ PageRow(s)
    \/ \E i \in Incidents : File(i) \/ MarkReported(i)
    \/ PageBegin \/ PageShow \/ PageClose
    \/ Purge \/ Delete \/ Tick

Spec == Init /\ [][Next]_vars

-----------------------------------------------------------------------------
(* Properties *)

\* The type invariant; a due date is a date of the calendar, also for 29 February.
TypeOK ==
    /\ today \in Days
    /\ records \subseteq [id: 1..MaxRecords, system: Systems, at: Days, asOf: AsOfDates,
                           notApplicable: SUBSET Categories]
    /\ recorded \in 0..MaxRecords
    /\ page.pc \in {"closed", "reading", "shown"}
    /\ page.newest \in [Systems -> 0..MaxRecords]
    /\ page.todo \subseteq Systems
    /\ \A i \in DOMAIN page.rows : page.rows[i].system \in Systems /\ IsDate(page.rows[i].due)
    /\ incident \in [Incidents -> {"unfiled", "open", "reported"}]

\* A system is due on the same day of the next year, and on 28 February after a 29 February
\* (deadlines.py _add_months, whose arithmetic is on months numbered from zero).
DueIsAnniversary ==
    \A row \in Range(page.rows) :
        /\ row.due.year = row.asOf.year + 1
        /\ row.due.month = row.asOf.month
        /\ \/ row.due.day = row.asOf.day
           \/ row.asOf.month = 2 /\ row.asOf.day = 29 /\ row.due.day = 28

\* README: a category that did not apply yet is shown with the day on which it will: the
\* filter that classified it and the one that looks ahead leave no date between them.
UpcomingIsFirst ==
    \A row \in Range(page.rows), c \in Categories :
        (\A d \in Start[c] : Before(row.asOf, d)) =>
            \E u \in row.upcoming :
                u.category = c /\ u.on \in Start[c] /\ \A d \in Start[c] : ~Before(d, u.on)

\* While an assessment is within its retention, its system is called overdue only if it was
\* about a day long past when it was stored: the purge takes the others first, with the
\* system's entry on the page.
OverdueIsBackdated ==
    \A row \in Range(page.rows), r \in records :
        (row.overdue /\ r.id = row.id /\ Ordinal(r.at) + Retention >= Ordinal(row.on)) =>
            Ordinal(r.at) - Ordinal(r.asOf) >= 365 - Retention

\* A page read while nothing was deleted has one row per system assessed before it began,
\* none from an older assessment than the latest at that time.
PageComplete ==
    (page.pc = "shown" /\ ~page.disturbed) =>
        \A s \in Systems : page.newest[s] # 0 =>
            \E i \in DOMAIN page.rows :
                /\ page.rows[i].system = s /\ page.rows[i].id >= page.newest[s]
                /\ \A j \in DOMAIN page.rows : page.rows[j].system = s => j = i

\* Each row asks for the date itself. An overdue system is listed below one that is not only
\* if the latter fell due between the two looks at the clock.
OverdueListedFirst ==
    page.pc = "shown" =>
        \A i, j \in DOMAIN page.rows :
            LET a == page.rows[i]  b == page.rows[j] IN
            (i < j /\ b.overdue /\ ~a.overdue) => Before(a.on, a.due) /\ NotAfter(a.due, b.on)

\* Of the incidents of a system those whose time to report has run out come first, whatever
\* their tier and their day of detection, and the reported ones last.
LateReportsListedFirst ==
    \A i, j \in Incidents :
        (ReportOverdue(i) /\ incident[j] # "unfiled" /\ ~ReportOverdue(j)) => ListedBefore(i, j)

=============================================================================
