----------------------------- MODULE Workspaces -----------------------------
(***************************************************************************)
(* The tenant-owned tables and the requests that work on them.  A request  *)
(* is admitted by its session cookie, which binds its database session to  *)
(* the user's tenant; from then on every ORM SELECT of that session is     *)
(* filtered and every flush stamped and verified by two listeners.         *)
(* Handlers run in a thread pool, each with a session of its own, so the   *)
(* statements of two requests interleave, except that /report is async and *)
(* runs on the server's one event loop; the retention job runs beside them *)
(* on a session that is exempt from the filter.                            *)
(*                                                                         *)
(* Ids stand for UUIDs and are handed out in the order of created_at.  The *)
(* id in a URL is any id.  What a record says is AssessmentLifecycle's.    *)
(***************************************************************************)
EXTENDS Naturals, Sequences, FiniteSets

CONSTANTS
    Tenants,
    Users,
    TenantOf,      \* User.tenant_id
    MayWrite,      \* the users whose role is ADMIN or MEMBER
    Names,         \* AI system names
    Requests,      \* bound: requests handled at a time
    PageLimit,     \* limit of list_recent_assessments
    MaxRows,       \* bound: rows ever inserted
    MaxMarks,      \* bound: times an incident is marked reported
    Cron,          \* the process running purge_expired_assessments
    NoTenant,      \* no tenant bound to the session
    Nobody         \* no user

ASSUME WorkspacesAssumption ==
    /\ TenantOf \in [Users -> Tenants]
    /\ MayWrite \subseteq Users
    /\ {MaxRows, MaxMarks} \subseteq Nat
    /\ PageLimit \in Nat \ {0}
    /\ Cron \notin Requests
    /\ NoTenant \notin Tenants
    /\ Nobody \notin Users

VARIABLES
    systems, records, incidents,  \* the tables, committed
    issued,   \* rows ever inserted; the latest id
    marks,    \* history: of each time stamp of mark_reported, the user and the incident
    session,  \* Session.info of each process: bound tenant and cross-tenant flag
    request,  \* what each handler is at
    doomed    \* the records the purge has selected

vars == <<systems, records, incidents, issued, marks, session, request, doomed>>
tables == <<systems, records, incidents, issued>>

NoSystem == 0
NotReported == 0

FreshSession == [tenant |-> NoTenant, cross |-> FALSE]
Idle == [pc |-> "idle", user |-> Nobody, name |-> {}, system |-> NoSystem, incident |-> {},
         stamp |-> NotReported, listed |-> {}, before |-> {}]

IdsOf(rows) == {r.id : r \in rows}
Becomes(q, r) == request' = [request EXCEPT ![q] = r]

-----------------------------------------------------------------------------
(* The listeners of tenancy.py, for a session s *)

\* Mutant: the criteria attach to nothing
VisibleToAll(s, rows) == rows

\* _apply_tenant_filter: the rows a SELECT of this session can return
Visible(s, rows) == IF s.cross THEN rows ELSE {r \in rows : r.tenant = s.tenant}

\* TenantScoped.__subclasses__, and of the others what a request reads
TenantTables == {"ai_systems", "assessment_records", "incidents"}
SharedTables == {"users", "requirements"}

\* A SELECT: the tables named anywhere in it, and those whose entity is in its columns clause
Select(t) == [names |-> {t}, columns |-> {t}]

\* Mutant: session.query(X).count() buries the entity in a subquery
BuriedCount(t) == [names |-> {t}, columns |-> {}]

\* select(func.count(X.id))
Count(t) == [names |-> {t}, columns |-> {t}]

\* _apply_tenant_filter raises unless
QueryAllowed(s, query) ==
    \/ s.cross
    \/ query.names \cap TenantTables = {}
    \/ query.columns \cap TenantTables # {} /\ s.tenant # NoTenant

\* _stamp_and_verify_writes raises for a new row unless
InsertAllowed(s, row) == s.cross \/ (s.tenant # NoTenant /\ row.tenant \in {NoTenant, s.tenant})

\* _stamp_and_verify_writes: a new row without a tenant is stamped with the one bound
Stamped(s, row) ==
    IF ~s.cross /\ row.tenant = NoTenant THEN [row EXCEPT !.tenant = s.tenant] ELSE row

\* _stamp_and_verify_writes raises for a dirty or deleted row unless
ChangeAllowed(s, row) == s.cross \/ (s.tenant # NoTenant /\ row.tenant = s.tenant)

\* session.get(...): one row or none, as a set
Get(s, rows, id) == {r \in Visible(s, rows) : r.id = id}

-----------------------------------------------------------------------------
(* A request is admitted and answered *)

\* get_current_user: a valid cookie names a user, and the tenant is bound.  Any other
\* request is answered with 303 to /login, untouched.
Admit(q) ==
    /\ request[q].pc = "idle"
    /\ \E u \in Users :
        /\ Becomes(q, [request[q] EXCEPT !.pc = "admitted", !.user = u])
        /\ session' = [session EXCEPT ![q].tenant = TenantOf[u]]
    /\ UNCHANGED <<tables, marks, doomed>>

\* require_writer, in the signature of every route that writes
Writer(q) == request[q].pc = "admitted" /\ request[q].user \in MayWrite

\* The answer is on its way and get_session closes the session.
Finish(q) ==
    /\ Becomes(q, Idle)
    /\ session' = [session EXCEPT ![q] = FreshSession]

\* The server goes down with all its requests; what they had committed stays.
ServerDies ==
    /\ request' = [q \in Requests |-> Idle]
    /\ session' = [p \in DOMAIN session |-> IF p \in Requests THEN FreshSession ELSE session[p]]
    /\ UNCHANGED <<tables, marks, doomed>>

-----------------------------------------------------------------------------
(* POST /report: an async handler.  Its database calls are not awaited, so while one /report *)
(* is between them no other takes a step; the thread pool goes on.                          *)

\* Mutant: /report is a plain def, run in the thread pool
InAThread(q) == TRUE

LoopFree(q) == \A p \in Requests \ {q} : request[p].pc # "naming"

\* get_or_create_ai_system: no such name among the tenant's systems
LookUpSystem(q) ==
    /\ Writer(q)
    /\ LoopFree(q)
    /\ \E n \in Names :
        /\ \A s \in Visible(session[q], systems) : s.name # n
        /\ Becomes(q, [request[q] EXCEPT !.pc = "naming", !.name = {n}])
    /\ UNCHANGED <<tables, marks, session, doomed>>

NewSystem(q, n) == [id |-> issued + 1, tenant |-> NoTenant, name |-> n]

\* ... so one is inserted and committed.
InsertSystem(q) ==
    /\ request[q].pc = "naming"
    /\ issued < MaxRows
    /\ \E n \in request[q].name :
        systems' = systems \cup {Stamped(session[q], NewSystem(q, n))}
    /\ issued' = issued + 1
    /\ Becomes(q, [request[q] EXCEPT !.pc = "reporting", !.system = issued + 1, !.name = {}])
    /\ UNCHANGED <<records, incidents, marks, session, doomed>>

\* The name is found, or the field was left blank.
FindSystem(q) ==
    /\ Writer(q)
    /\ LoopFree(q)
    /\ \E id \in IdsOf(Visible(session[q], systems)) \cup {NoSystem} :
        Becomes(q, [request[q] EXCEPT !.pc = "reporting", !.system = id])
    /\ UNCHANGED <<tables, marks, session, doomed>>

NewRecord(q) ==
    [id |-> issued + 1, tenant |-> NoTenant, system |-> request[q].system,
     createdBy |-> request[q].user]

\* record_assessment, after the evidence was assessed
StoreRecord(q) ==
    /\ request[q].pc = "reporting"
    /\ LoopFree(q)
    /\ issued < MaxRows
    /\ records' = records \cup {Stamped(session[q], NewRecord(q))}
    /\ issued' = issued + 1
    /\ Finish(q)
    /\ UNCHANGED <<systems, incidents, marks, doomed>>

-----------------------------------------------------------------------------
(* POST /systems/{id}/incidents *)

\* Mutant: the route goes by the id alone
CheckSystemExists(q) ==
    /\ Writer(q)
    /\ \E id \in IdsOf(systems) :
        Becomes(q, [request[q] EXCEPT !.pc = "filing", !.system = id])
    /\ UNCHANGED <<tables, marks, session, doomed>>

\* report_incident: get_ai_system finds the id, or the answer is 404.
CheckSystem(q) ==
    /\ Writer(q)
    /\ \E id \in 1..MaxRows :
        /\ Get(session[q], systems, id) # {}
        /\ Becomes(q, [request[q] EXCEPT !.pc = "filing", !.system = id])
    /\ UNCHANGED <<tables, marks, session, doomed>>

NewIncident(q) ==
    [id |-> issued + 1, tenant |-> NoTenant, system |-> request[q].system,
     createdBy |-> request[q].user, reportedAt |-> NotReported, resolvedBy |-> Nobody]

\* create_incident
FileIncident(q) ==
    /\ request[q].pc = "filing"
    /\ issued < MaxRows
    /\ incidents' = incidents \cup {Stamped(session[q], NewIncident(q))}
    /\ issued' = issued + 1
    /\ Finish(q)
    /\ UNCHANGED <<systems, records, marks, doomed>>

-----------------------------------------------------------------------------
(* POST /incidents/{id}/mark-reported *)

\* mark_reported: the incident as it is now, and the time; or 404
LoadIncident(q) ==
    /\ Writer(q)
    /\ Len(marks) < MaxMarks
    /\ \E id \in 1..MaxRows :
        /\ Get(session[q], incidents, id) # {}
        /\ marks' = Append(marks, [user |-> request[q].user, incident |-> id])
        /\ Becomes(q, [request[q] EXCEPT !.pc = "marking", !.stamp = Len(marks) + 1,
                                        !.incident = Get(session[q], incidents, id)])
    /\ UNCHANGED <<tables, session, doomed>>

\* Mutant: whoever logged the incident is stored as its reporter
MarkedByCreator(i, loaded, q) ==
    [i EXCEPT !.reportedAt = request[q].stamp, !.resolvedBy = i.createdBy]

\* The UPDATE sets the columns whose value differs from the one loaded: the user is left
\* out when the incident was loaded with this user in it.
Marked(i, loaded, q) ==
    [i EXCEPT !.reportedAt = request[q].stamp,
              !.resolvedBy = IF loaded.resolvedBy = request[q].user THEN @ ELSE request[q].user]

\* The flush and commit of mark_reported
StoreReport(q) ==
    /\ request[q].pc = "marking"
    /\ \E loaded \in request[q].incident :
        /\ ChangeAllowed(session[q], loaded)
        /\ incidents' = {IF i.id = loaded.id THEN Marked(i, loaded, q) ELSE i : i \in incidents}
    /\ Finish(q)
    /\ UNCHANGED <<systems, records, issued, marks, doomed>>

-----------------------------------------------------------------------------
(* GET /history and GET /systems/{id}: the page is what the last statement leads to *)

\* Mutant: the limit counts the rows of all tenants
LimitBeforeFilter(s, wanted) ==
    {r \in Visible(s, wanted) : Cardinality({x \in wanted : x.id > r.id}) < PageLimit}

\* list_recent_assessments: of the wanted records the filter lets through, the most recent
MostRecent(s, wanted) ==
    LET found == Visible(s, wanted) IN
    {r \in found : Cardinality({x \in found : x.id > r.id}) < PageLimit}

\* show_history: list_ai_systems
ListSystems(q) ==
    /\ request[q].pc = "admitted"
    /\ Becomes(q, [request[q] EXCEPT !.pc = "listing",
                                    !.listed = IdsOf(Visible(session[q], systems)),
                                    !.before = IdsOf(Visible(session[q], records))])
    /\ UNCHANGED <<tables, marks, session, doomed>>

\* list_recent_assessments read now: a table per system listed, one of ungrouped records
HistoryPage(q) ==
    {r \in MostRecent(session[q], records) : r.system \in request[q].listed \cup {NoSystem}}

ShowHistory(q) ==
    /\ request[q].pc = "listing"
    /\ Finish(q)
    /\ UNCHANGED <<tables, marks, doomed>>

\* show_ai_system: the system's assessments and incidents, empty for a 404
SystemPage(q, id) ==
    IF Get(session[q], systems, id) = {} THEN {}
    ELSE MostRecent(session[q], {r \in records : r.system = id})
           \cup {i \in Visible(session[q], incidents) : i.system = id}

\* That page is sent, or another that only reads, or the answer is 403 to a user who may
\* not write or 404 for an id that Get does not find.
Answer(q) ==
    /\ request[q].pc = "admitted"
    /\ Finish(q)
    /\ UNCHANGED <<tables, marks, doomed>>

-----------------------------------------------------------------------------
(* purge_expired_assessments *)

\* Mutant: the deletes are left to a commit after the context
PurgeSelectExposed ==
    /\ ~session[Cron].cross
    /\ \E cutoff \in 1..issued : doomed' = {r \in records : r.id <= cutoff}
    /\ UNCHANGED <<tables, marks, session, request>>

\* cross_tenant_context is entered and everything older than the cutoff selected.
PurgeSelect ==
    LET s == [session[Cron] EXCEPT !.cross = TRUE] IN
    /\ ~session[Cron].cross
    /\ session' = [session EXCEPT ![Cron] = s]
    /\ \E cutoff \in 1..issued : doomed' = {r \in Visible(s, records) : r.id <= cutoff}
    /\ UNCHANGED <<tables, marks, request>>

\* The deletes are flushed and committed, and the context left.
PurgeCommit ==
    /\ session[Cron].cross
    /\ \A r \in doomed : ChangeAllowed(session[Cron], r)
    /\ records' = {r \in records : r.id \notin IdsOf(doomed)}
    /\ session' = [session EXCEPT ![Cron].cross = FALSE]
    /\ doomed' = {}
    /\ UNCHANGED <<systems, incidents, issued, marks, request>>

PurgeDies ==
    /\ session[Cron].cross
    /\ session' = [session EXCEPT ![Cron] = FreshSession]
    /\ doomed' = {}
    /\ UNCHANGED <<tables, marks, request>>

-----------------------------------------------------------------------------
Init ==
    /\ systems = {} /\ records = {} /\ incidents = {}
    /\ issued = 0
    /\ marks = <<>>
    /\ session = [p \in Requests \cup {Cron} |-> FreshSession]
    /\ request = [q \in Requests |-> Idle]
    /\ doomed = {}

Handle(q) ==
    \/ Admit(q) \/ Answer(q)
    \/ LookUpSystem(q) \/ InsertSystem(q) \/ FindSystem(q) \/ StoreRecord(q)
    \/ CheckSystem(q) \/ FileIncident(q)
    \/ LoadIncident(q) \/ StoreReport(q)
    \/ ListSystems(q) \/ ShowHistory(q)

Next ==
    \/ \E q \in Requests : Handle(q)
    \/ ServerDies \/ PurgeSelect \/ PurgeCommit \/ PurgeDies

Spec == Init /\ [][Next]_vars

-----------------------------------------------------------------------------
(* Properties *)

Ids == 1..MaxRows
SystemRows == [id: Ids, tenant: Tenants, name: Names]
RecordRows == [id: Ids, tenant: Tenants, system: Ids \cup {NoSystem}, createdBy: Users]
IncidentRows == [id: Ids, tenant: Tenants, system: Ids, createdBy: Users,
                 reportedAt: 0..MaxMarks, resolvedBy: Users \cup {Nobody}]
RequestStates ==
    [pc: {"idle", "admitted", "naming", "reporting", "filing", "marking", "listing"},
     user: Users \cup {Nobody}, name: SUBSET Names, system: Ids \cup {NoSystem}, incident: SUBSET IncidentRows,
     stamp: 0..MaxMarks, listed: SUBSET Ids, before: SUBSET Ids]

\* The type invariant of the tables, the sessions and the requests.
TypeOK ==
    /\ systems \subseteq SystemRows
    /\ records \subseteq RecordRows
    /\ incidents \subseteq IncidentRows
    /\ issued \in 0..MaxRows
    /\ marks \in Seq([user: Users, incident: Ids]) /\ Len(marks) <= MaxMarks
    /\ session \in [Requests \cup {Cron} -> [tenant: Tenants \cup {NoTenant}, cross: BOOLEAN]]
    /\ request \in [Requests -> RequestStates]
    /\ doomed \subseteq RecordRows

\* A page shows rows of the reader's tenant only, whatever ids were asked for and whoever
\* writes meanwhile (tenancy.py, _apply_tenant_filter).
PagesAreOwn ==
    \A q \in Requests : request[q].pc # "idle" =>
        \A r \in HistoryPage(q) \cup UNION {SystemPage(q, id) : id \in Ids} :
            r.tenant = TenantOf[request[q].user]

\* The tables agree: a record or an incident and the system it hangs on belong to one
\* tenant, although only the row's own tenant_id is stamped and verified and the foreign
\* key knows nothing of tenants.
ChildrenStayHome ==
    /\ \A i \in incidents : \E s \in systems : s.id = i.system /\ s.tenant = i.tenant
    /\ \A r \in records :
        r.system # NoSystem => \E s \in systems : s.id = r.system /\ s.tenant = r.tenant

\* Whoever a row names as its author or reporter belongs to the row's tenant and may
\* write: a viewer leaves no trace (require_writer, created_by and resolved_by).
AuthorsMayWrite ==
    /\ \A r \in records \cup incidents : r.createdBy \in MayWrite /\ TenantOf[r.createdBy] = r.tenant
    /\ \A i \in incidents : i.resolvedBy # Nobody =>
        i.resolvedBy \in MayWrite /\ TenantOf[i.resolvedBy] = i.tenant

\* Two users marking one incident at once mix their columns, but the reporter is always
\* someone who marked this incident and the time one at which it was marked.
ReporterMarked ==
    \A i \in incidents : i.reportedAt # NotReported =>
        /\ marks[i.reportedAt].incident = i.id
        /\ \E m \in DOMAIN marks : marks[m] = [user |-> i.resolvedBy, incident |-> i.id]

\* What a handler may select at this point.  Unbound are a request that get_current_user has
\* not admitted yet and one to the public pages: users and the legal corpus are all they read.
\* The one count is list_ai_systems'.
Queries(q) ==
    {Select(t) : t \in SharedTables} \cup
        (IF request[q].pc = "idle" THEN {}
         ELSE {Select(t) : t \in TenantTables} \cup {Count("assessment_records")})

\* The rows it is about to insert
Inserts(q) ==
    CASE request[q].pc = "naming"    -> {NewSystem(q, n) : n \in request[q].name}
      [] request[q].pc = "reporting" -> {NewRecord(q)}
      [] request[q].pc = "filing"    -> {NewIncident(q)}
      [] OTHER                       -> {}

\* What tenancy.py raises for is a bug, and no handler and no job has it: none selects from a
\* tenant's table unbound or in a form the filter cannot attach to, none inserts unbound or a
\* row of another tenant, none changes one, and the purge is exempt when it flushes.
NoIsolationError ==
    /\ \A q \in Requests :
        /\ \A query \in Queries(q) : QueryAllowed(session[q], query)
        /\ \A row \in Inserts(q) : InsertAllowed(session[q], row)
        /\ \A i \in request[q].incident : ChangeAllowed(session[q], i)
    /\ \A r \in doomed : ChangeAllowed(session[Cron], r)

\* /history reads systems and records in two statements.  Between them others write, yet a
\* record stored before the first is on the page unless PageLimit newer ones of the tenant
\* are there to be shown; other tenants' records never crowd it out.
HistoryComplete ==
    \A q \in Requests : request[q].pc = "listing" =>
        \A r \in records : r.id \in request[q].before =>
            \/ r \in HistoryPage(q)
            \/ Cardinality({x \in records : x.tenant = r.tenant /\ x.id > r.id}) >= PageLimit

Own(rows) == [t \in Tenants |-> {r \in rows : r.tenant = t}]

Promise == INSTANCE TenantRooms WITH
    Ids <- Ids, Times <- 1..MaxMarks,
    systemsOf <- Own(systems), recordsOf <- Own(records), incidentsOf <- Own(incidents)

\* The shared tables behind the listeners are to each tenant a room of its own.
ImplementsTenantRooms == Promise!Spec

=============================================================================
