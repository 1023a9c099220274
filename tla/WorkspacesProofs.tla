-------------------------- MODULE WorkspacesProofs --------------------------
(***************************************************************************)
(* Proofs about Workspaces, for any tenants, users, number of requests and *)
(* page limit.  IInv is inductive: what a request remembers of the tables  *)
(* stays true of them while others write, because systems and incidents    *)
(* are never deleted, no row changes its tenant, and ids are never reused. *)
(***************************************************************************)
EXTENDS Workspaces, FiniteSetTheorems, TLAPS

-----------------------------------------------------------------------------
(* The inductive invariant *)

\* A request at work is bound to its user's tenant; no handler is exempt from the filter,
\* and the purge is while it holds records.
SessionInv ==
    /\ \A q \in Requests :
        /\ session[q].cross = FALSE
        /\ request[q].pc # "idle" =>
            request[q].user \in Users /\ session[q].tenant = TenantOf[request[q].user]
    /\ doomed # {} => session[Cron].cross

\* Ids are handed out once.
IdInv ==
    /\ \A r \in systems \cup records \cup incidents \cup doomed : r.id <= issued
    /\ \A i, j \in incidents : i.id = j.id => i = j
    /\ \A r, s \in records : r.id = s.id => r = s
    /\ IsFiniteSet(records)

\* The purge holds exactly the records up to its cutoff that are still there.
PurgeInv ==
    doomed # {} =>
        \E cutoff \in Ids :
            /\ cutoff <= issued
            /\ \A r \in records : r.id \in IdsOf(doomed) <=> r.id <= cutoff

\* A request that goes on to write has a writer and what it checked still holds.
WorkAt(q) ==
    /\ request[q].pc \in {"naming", "reporting", "filing", "marking"} => request[q].user \in MayWrite
    /\ (request[q].pc = "filing" \/ (request[q].pc = "reporting" /\ request[q].system # NoSystem)) =>
        \E s \in systems : s.id = request[q].system /\ s.tenant = TenantOf[request[q].user]
    /\ request[q].pc # "marking" => request[q].incident = {}
    /\ request[q].pc = "marking" =>
        /\ request[q].stamp \in DOMAIN marks
        /\ \A loaded \in request[q].incident :
            /\ marks[request[q].stamp] = [user |-> request[q].user, incident |-> loaded.id]
            /\ loaded.tenant = TenantOf[request[q].user]
            /\ \A i \in incidents : i.id = loaded.id =>
                /\ i.tenant = loaded.tenant
                /\ loaded.resolvedBy # Nobody => i.reportedAt # NotReported
            /\ loaded.id <= issued
WorkInv == \A q \in Requests : WorkAt(q)

\* One /report at a time is between its lookup and its insert, and the name it found to be
\* new still is.
NameAt(q) ==
    request[q].pc = "naming" =>
        /\ LoopFree(q)
        /\ \A n \in request[q].name, s \in systems : s.tenant = session[q].tenant => s.name # n
NamingInv == \A q \in Requests : NameAt(q)

\* Who is named as the reporter has reported.
ReportedInv == \A i \in incidents : i.resolvedBy # Nobody => i.reportedAt # NotReported

\* A report time is one that was taken.
ReportTimesInv == \A i \in incidents : i.reportedAt # NotReported => i.reportedAt \in DOMAIN marks

\* A record that was there when the systems were listed is of one of them or of none.
ListAt(q) ==
    request[q].pc = "listing" =>
        /\ \A id \in request[q].before : id <= issued
        /\ \A r \in records : r.id \in request[q].before =>
            r.tenant = session[q].tenant /\ r.system \in request[q].listed \cup {NoSystem}
ListInv == \A q \in Requests : ListAt(q)

IInv ==
    /\ TypeOK
    /\ SessionInv
    /\ IdInv
    /\ PurgeInv
    /\ WorkInv
    /\ NamingInv
    /\ ChildrenStayHome
    /\ AuthorsMayWrite
    /\ ReportedInv
    /\ ReportTimesInv
    /\ ReporterMarked
    /\ ListInv

-----------------------------------------------------------------------------
(* Types *)

LEMMA TypeInit == Init => TypeOK
<1> SUFFICES ASSUME Init PROVE TypeOK
  OBVIOUS
<1>1. \A q \in Requests : Idle \in RequestStates
  BY WorkspacesAssumption DEF Idle, RequestStates, NoSystem, NotReported
<1>2. marks \in Seq([user: Users, incident: Ids]) /\ Len(marks) = 0
  BY DEF Init
<1>3. request \in [Requests -> RequestStates]
  BY <1>1 DEF Init
<1> QED
  BY <1>2, <1>3, WorkspacesAssumption DEF Init, TypeOK, FreshSession

\* A request that moves on stays well typed.
LEMMA ProgressTypes ==
    ASSUME NEW r \in RequestStates, NEW pc \in {"admitted", "naming", "reporting", "filing", "marking", "listing"}
    PROVE  /\ \A u \in Users : [r EXCEPT !.pc = pc, !.user = u] \in RequestStates
           /\ \A ns \in SUBSET Names : [r EXCEPT !.pc = pc, !.name = ns] \in RequestStates
           /\ \A id \in Ids \cup {NoSystem} : [r EXCEPT !.pc = pc, !.system = id] \in RequestStates
           /\ \A id \in Ids : [r EXCEPT !.pc = pc, !.system = id, !.name = {}] \in RequestStates
           /\ \A at \in 0..MaxMarks, is \in SUBSET IncidentRows :
                [r EXCEPT !.pc = pc, !.stamp = at, !.incident = is] \in RequestStates
           /\ \A ids, old \in SUBSET Ids :
                [r EXCEPT !.pc = pc, !.listed = ids, !.before = old] \in RequestStates
BY DEF RequestStates

\* The steps of a request that end it leave the sessions and requests well typed.
LEMMA FinishTypes ==
    ASSUME TypeOK, NEW q \in Requests, Finish(q)
    PROVE  /\ session' \in [Requests \cup {Cron} -> [tenant: Tenants \cup {NoTenant}, cross: BOOLEAN]]
           /\ request' \in [Requests -> RequestStates]
<1>1. Idle \in RequestStates /\ FreshSession \in [tenant: Tenants \cup {NoTenant}, cross: BOOLEAN]
  BY WorkspacesAssumption DEF Idle, RequestStates, NoSystem, NotReported, FreshSession
<1> QED
  BY <1>1 DEF TypeOK, Finish, Becomes

\* An insert is the next id and of the tenant bound.
LEMMA InsertTypes ==
    ASSUME IInv, NEW q \in Requests, request[q].pc # "idle", issued < MaxRows
    PROVE  /\ session[q].tenant \in Tenants /\ session[q].cross = FALSE
           /\ request[q].user \in Users
           /\ issued + 1 \in Ids
           /\ issued + 1 \in 0..MaxRows
           /\ request[q].system \in Ids \cup {NoSystem}
<1>1. /\ request[q].user \in Users /\ session[q].tenant = TenantOf[request[q].user]
      /\ session[q].cross = FALSE
  BY DEF IInv, SessionInv
<1>2. issued \in 0..MaxRows /\ MaxRows \in Nat
  BY WorkspacesAssumption DEF IInv, TypeOK
<1>3. request[q].system \in Ids \cup {NoSystem}
  BY DEF IInv, TypeOK, RequestStates
<1> QED
  BY <1>1, <1>2, <1>3, WorkspacesAssumption DEF Ids

LEMMA SystemInserted ==
    ASSUME IInv, NEW q \in Requests, InsertSystem(q)
    PROVE  \E n \in request[q].name : \E s :
             /\ n \in Names
             /\ systems' = systems \cup {s}
             /\ s = [id |-> issued + 1, tenant |-> session[q].tenant, name |-> n]
             /\ s.id = issued + 1 /\ s.tenant = session[q].tenant /\ s.name = n
<1>1. PICK n \in request[q].name : systems' = systems \cup {Stamped(session[q], NewSystem(q, n))}
  BY DEF InsertSystem
<1> DEFINE s == [id |-> issued + 1, tenant |-> session[q].tenant, name |-> n]
<1>2. Stamped(session[q], NewSystem(q, n)) = s
  BY InsertTypes DEF InsertSystem, Stamped, NewSystem
<1>3. n \in Names
  BY DEF IInv, TypeOK, RequestStates
<1>4. s.id = issued + 1 /\ s.tenant = session[q].tenant /\ s.name = n
  OBVIOUS
<1>5. s = [id |-> issued + 1, tenant |-> session[q].tenant, name |-> n]
  OBVIOUS
<1> HIDE DEF s
<1> QED
  BY <1>1, <1>2, <1>3, <1>4, <1>5

\* What an insert adds: one row, the next id, of the tenant bound.
LEMMA RecordStored ==
    ASSUME IInv, NEW q \in Requests, StoreRecord(q)
    PROVE  \E r : /\ records' = records \cup {r}
                  /\ r = [id |-> issued + 1, tenant |-> session[q].tenant,
                          system |-> request[q].system, createdBy |-> request[q].user]
                  /\ r.id = issued + 1
                  /\ r.tenant = session[q].tenant
                  /\ r.system = request[q].system
                  /\ r.createdBy = request[q].user
<1> DEFINE r == [id |-> issued + 1, tenant |-> session[q].tenant, system |-> request[q].system,
                 createdBy |-> request[q].user]
<1>1. Stamped(session[q], NewRecord(q)) = r
  BY InsertTypes DEF StoreRecord, Stamped, NewRecord
<1>2. records' = records \cup {r}
  BY <1>1 DEF StoreRecord
<1>3. r.id = issued + 1 /\ r.tenant = session[q].tenant /\ r.system = request[q].system
      /\ r.createdBy = request[q].user
  OBVIOUS
<1>4. r = [id |-> issued + 1, tenant |-> session[q].tenant, system |-> request[q].system,
             createdBy |-> request[q].user]
  OBVIOUS
<1> HIDE DEF r
<1> QED
  BY <1>2, <1>3, <1>4

LEMMA IncidentFiled ==
    ASSUME IInv, NEW q \in Requests, FileIncident(q)
    PROVE  \E i : /\ incidents' = incidents \cup {i}
                  /\ i = [id |-> issued + 1, tenant |-> session[q].tenant,
                          system |-> request[q].system, createdBy |-> request[q].user,
                          reportedAt |-> NotReported, resolvedBy |-> Nobody]
                  /\ i.id = issued + 1
                  /\ i.tenant = session[q].tenant
                  /\ i.system = request[q].system
                  /\ i.createdBy = request[q].user
                  /\ i.reportedAt = NotReported
                  /\ i.resolvedBy = Nobody
<1> DEFINE i == [id |-> issued + 1, tenant |-> session[q].tenant, system |-> request[q].system,
                 createdBy |-> request[q].user, reportedAt |-> NotReported, resolvedBy |-> Nobody]
<1>1. Stamped(session[q], NewIncident(q)) = i
  BY InsertTypes DEF FileIncident, Stamped, NewIncident
<1>2. incidents' = incidents \cup {i}
  BY <1>1 DEF FileIncident
<1>3. i.id = issued + 1 /\ i.tenant = session[q].tenant /\ i.system = request[q].system
      /\ i.createdBy = request[q].user
      /\ i.reportedAt = NotReported /\ i.resolvedBy = Nobody
  OBVIOUS
<1>4. i = [id |-> issued + 1, tenant |-> session[q].tenant, system |-> request[q].system,
             createdBy |-> request[q].user, reportedAt |-> NotReported, resolvedBy |-> Nobody]
  OBVIOUS
<1> HIDE DEF i
<1> QED
  BY <1>2, <1>3, <1>4

LEMMA TypeStep == IInv /\ [Next]_vars => TypeOK'
<1> SUFFICES ASSUME IInv, [Next]_vars PROVE TypeOK'
  OBVIOUS
<1> USE DEF tables, Becomes
<1>0. TypeOK
  BY DEF IInv
<1>1. ASSUME NEW q \in Requests, Admit(q) PROVE TypeOK'
  <2>1. PICK u \in Users :
          /\ request' = [request EXCEPT ![q] = [request[q] EXCEPT !.pc = "admitted", !.user = u]]
          /\ session' = [session EXCEPT ![q].tenant = TenantOf[u]]
    BY <1>1 DEF Admit
  <2>2. request' \in [Requests -> RequestStates]
    BY <1>0, <2>1, ProgressTypes DEF TypeOK
  <2>3. session' \in [Requests \cup {Cron} -> [tenant: Tenants \cup {NoTenant}, cross: BOOLEAN]]
    BY <1>0, <2>1, WorkspacesAssumption DEF TypeOK
  <2> QED
    BY <1>0, <1>1, <2>2, <2>3 DEF TypeOK, Admit
<1>2. ASSUME NEW q \in Requests, Answer(q) PROVE TypeOK'
  BY <1>0, <1>2, FinishTypes DEF TypeOK, Answer
<1>3. ASSUME NEW q \in Requests, InsertSystem(q) PROVE TypeOK'
  <2>0. PICK n \in Names : \E s :
            /\ systems' = systems \cup {s}
            /\ s = [id |-> issued + 1, tenant |-> session[q].tenant, name |-> n]
            /\ s.id = issued + 1 /\ s.tenant = session[q].tenant
    BY <1>3, SystemInserted
  <2>1. PICK s : /\ systems' = systems \cup {s}
                 /\ s = [id |-> issued + 1, tenant |-> session[q].tenant, name |-> n]
                 /\ s.id = issued + 1 /\ s.tenant = session[q].tenant
    BY <2>0
  <2>2. /\ session[q].tenant \in Tenants /\ issued + 1 \in Ids /\ issued' = issued + 1 /\ issued' \in 0..MaxRows
    BY <1>3, InsertTypes DEF InsertSystem
  <2>3. systems' \subseteq SystemRows
    BY <1>0, <2>1, <2>2 DEF TypeOK, SystemRows
  <2>4. request' \in [Requests -> RequestStates]
    BY <1>0, <1>3, <2>2, ProgressTypes DEF TypeOK, InsertSystem
  <2> QED
    BY <1>0, <1>3, <2>2, <2>3, <2>4 DEF TypeOK, InsertSystem
<1>17. ASSUME NEW q \in Requests, LookUpSystem(q) PROVE TypeOK'
  <2>1. PICK n \in Names : Becomes(q, [request[q] EXCEPT !.pc = "naming", !.name = {n}])
    BY <1>17 DEF LookUpSystem
  <2>2. request[q] \in RequestStates /\ {n} \in SUBSET Names
    BY <1>0 DEF TypeOK
  <2>3. [request[q] EXCEPT !.pc = "naming", !.name = {n}] \in RequestStates
    BY <2>2, ProgressTypes
  <2>4. request' \in [Requests -> RequestStates]
    BY <1>0, <2>1, <2>3 DEF TypeOK
  <2> QED
    BY <1>0, <1>17, <2>4 DEF TypeOK, LookUpSystem
<1>4. ASSUME NEW q \in Requests, FindSystem(q) PROVE TypeOK'
  <2>1. PICK id \in IdsOf(Visible(session[q], systems)) \cup {NoSystem} :
            request' = [request EXCEPT ![q] = [request[q] EXCEPT !.pc = "reporting", !.system = id]]
    BY <1>4 DEF FindSystem
  <2>2. id \in Ids \cup {NoSystem}
    BY <1>0, <2>1 DEF IdsOf, Visible, TypeOK, SystemRows
  <2>3. request' \in [Requests -> RequestStates]
    BY <1>0, <2>1, <2>2, ProgressTypes DEF TypeOK
  <2> QED
    BY <1>0, <1>4, <2>3 DEF TypeOK, FindSystem
<1>5. ASSUME NEW q \in Requests, StoreRecord(q) PROVE TypeOK'
  <2>1. /\ session[q].tenant \in Tenants /\ issued + 1 \in Ids /\ issued' = issued + 1 /\ issued' \in 0..MaxRows
        /\ request[q].user \in Users /\ request[q].system \in Ids \cup {NoSystem}
    BY <1>5, InsertTypes DEF StoreRecord
  <2>2. records' \subseteq RecordRows
    BY <1>0, <1>5, <2>1, RecordStored DEF TypeOK, RecordRows
  <2> QED
    BY <1>0, <1>5, <2>1, <2>2, FinishTypes DEF TypeOK, StoreRecord
<1>6. ASSUME NEW q \in Requests, CheckSystem(q) PROVE TypeOK'
  <2>0. PICK id \in Ids : Becomes(q, [request[q] EXCEPT !.pc = "filing", !.system = id])
    BY <1>6 DEF CheckSystem, Ids
  <2>1. request' \in [Requests -> RequestStates]
    BY <1>0, <2>0, ProgressTypes DEF TypeOK
  <2> QED
    BY <1>0, <1>6, <2>1 DEF TypeOK, CheckSystem
<1>7. ASSUME NEW q \in Requests, FileIncident(q) PROVE TypeOK'
  <2>1. /\ session[q].tenant \in Tenants /\ issued + 1 \in Ids /\ issued' = issued + 1 /\ issued' \in 0..MaxRows
        /\ request[q].user \in Users /\ request[q].system \in Ids \cup {NoSystem}
    BY <1>7, InsertTypes DEF FileIncident
  <2>2. request[q].system \in Ids
    <3>1. PICK s \in systems : s.id = request[q].system
      BY <1>7 DEF IInv, WorkInv, WorkAt, FileIncident
    <3> QED
      BY <1>0, <3>1 DEF TypeOK, SystemRows
  <2>3. incidents' \subseteq IncidentRows
    BY <1>0, <1>7, <2>1, <2>2, IncidentFiled, WorkspacesAssumption
    DEF TypeOK, IncidentRows, NotReported
  <2> QED
    BY <1>0, <1>7, <2>1, <2>3, FinishTypes DEF TypeOK, FileIncident
<1>8. ASSUME NEW q \in Requests, LoadIncident(q) PROVE TypeOK'
  <2>1. PICK id \in Ids :
          /\ marks' = Append(marks, [user |-> request[q].user, incident |-> id])
          /\ request' = [request EXCEPT ![q] = [request[q] EXCEPT !.pc = "marking",
                        !.stamp = Len(marks) + 1, !.incident = Get(session[q], incidents, id)]]
    BY <1>8 DEF LoadIncident, Ids
  <2>2. request[q].user \in Users /\ Len(marks) \in Nat /\ Len(marks) + 1 \in 0..MaxMarks
    BY <1>0, <1>8, WorkspacesAssumption DEF IInv, SessionInv, LoadIncident, Writer, TypeOK
  <2>3. marks' \in Seq([user: Users, incident: Ids]) /\ Len(marks') <= MaxMarks
    BY <1>0, <2>1, <2>2 DEF TypeOK
  <2>4. Get(session[q], incidents, id) \subseteq IncidentRows
    BY <1>0 DEF Get, Visible, TypeOK
  <2>5. request' \in [Requests -> RequestStates]
    BY <1>0, <2>1, <2>2, <2>4, ProgressTypes DEF TypeOK
  <2> QED
    BY <1>0, <1>8, <2>3, <2>5 DEF TypeOK, LoadIncident
<1>9. ASSUME NEW q \in Requests, StoreReport(q) PROVE TypeOK'
  <2>1. PICK loaded \in request[q].incident :
          incidents' = {IF i.id = loaded.id THEN Marked(i, loaded, q) ELSE i : i \in incidents}
    BY <1>9 DEF StoreReport
  <2>2. request[q].stamp \in 0..MaxMarks /\ request[q].user \in Users
    BY <1>0, <1>9 DEF TypeOK, RequestStates, IInv, SessionInv, StoreReport
  <2>3. \A i \in incidents : Marked(i, loaded, q) \in IncidentRows
    BY <1>0, <2>2 DEF TypeOK, IncidentRows, Marked
  <2>4. incidents' \subseteq IncidentRows
    BY <1>0, <2>1, <2>3 DEF TypeOK
  <2> QED
    BY <1>0, <1>9, <2>4, FinishTypes DEF TypeOK, StoreReport
<1>10. ASSUME NEW q \in Requests, ListSystems(q) PROVE TypeOK'
  <2>1. IdsOf(Visible(session[q], systems)) \subseteq Ids /\ IdsOf(Visible(session[q], records)) \subseteq Ids
    BY <1>0 DEF TypeOK, IdsOf, Visible, SystemRows, RecordRows
  <2>2. request' \in [Requests -> RequestStates]
    BY <1>0, <1>10, <2>1, ProgressTypes DEF TypeOK, ListSystems
  <2> QED
    BY <1>0, <1>10, <2>2 DEF TypeOK, ListSystems
<1>11. ASSUME NEW q \in Requests, ShowHistory(q) PROVE TypeOK'
  BY <1>0, <1>11, FinishTypes DEF TypeOK, ShowHistory
<1>12. CASE ServerDies
  <2>1. Idle \in RequestStates /\ FreshSession \in [tenant: Tenants \cup {NoTenant}, cross: BOOLEAN]
    BY WorkspacesAssumption DEF Idle, RequestStates, NoSystem, NotReported, FreshSession
  <2> QED
    BY <1>0, <1>12, <2>1 DEF TypeOK, ServerDies
<1>13. CASE PurgeSelect
  BY <1>0, <1>13 DEF TypeOK, PurgeSelect, Visible
<1>14. CASE PurgeCommit
  BY <1>0, <1>14 DEF TypeOK, PurgeCommit
<1>15. CASE PurgeDies
  BY <1>0, <1>15 DEF TypeOK, PurgeDies, FreshSession
<1>16. CASE UNCHANGED vars
  BY <1>0, <1>16 DEF TypeOK, vars
<1> QED
  BY <1>1, <1>2, <1>3, <1>4, <1>5, <1>6, <1>7, <1>8, <1>9, <1>10, <1>11, <1>12, <1>13, <1>14,
     <1>15, <1>16, <1>17 DEF Next, Handle

-----------------------------------------------------------------------------
(* What no step takes back *)

Kept(i, o) ==
    /\ i.id = o.id /\ i.tenant = o.tenant /\ i.system = o.system /\ i.createdBy = o.createdBy
    /\ o.reportedAt # NotReported => i.reportedAt # NotReported

Lasting ==
    /\ systems \subseteq systems'
    /\ issued <= issued'
    /\ \A m \in DOMAIN marks : m \in DOMAIN marks' /\ marks'[m] = marks[m]
    /\ \A i \in incidents' : i.id > issued \/ \E o \in incidents : Kept(i, o)
    /\ \A r \in records' : r.id > issued \/ r \in records

LEMMA LastingStep == IInv /\ [Next]_vars => Lasting
<1> SUFFICES ASSUME IInv, [Next]_vars PROVE Lasting
  OBVIOUS
<1> USE DEF tables
<1>0. issued \in Nat /\ \A i \in incidents : Kept(i, i)
  BY WorkspacesAssumption DEF IInv, TypeOK, Kept
<1>1. CASE UNCHANGED <<tables, marks>>
  BY <1>0, <1>1 DEF Lasting
<1>2. ASSUME NEW q \in Requests, InsertSystem(q) PROVE Lasting
  BY <1>0, <1>2 DEF Lasting, InsertSystem
<1>3. ASSUME NEW q \in Requests, StoreRecord(q) PROVE Lasting
  <2>1. \A r \in records' : r \in records \/ r.id = issued + 1
    BY <1>3, RecordStored
  <2> QED
    BY <1>0, <1>3, <2>1 DEF Lasting, StoreRecord
<1>4. ASSUME NEW q \in Requests, FileIncident(q) PROVE Lasting
  <2>1. \A i \in incidents' : i \in incidents \/ i.id = issued + 1
    BY <1>4, IncidentFiled
  <2> QED
    BY <1>0, <1>4, <2>1 DEF Lasting, FileIncident
<1>5. ASSUME NEW q \in Requests, LoadIncident(q) PROVE Lasting
  <2>1. PICK m : marks' = Append(marks, m)
    BY <1>5 DEF LoadIncident
  <2>2. marks \in Seq([user: Users, incident: Ids])
    BY DEF IInv, TypeOK
  <2>3. \A n \in DOMAIN marks : n \in DOMAIN marks' /\ marks'[n] = marks[n]
    BY <2>1, <2>2
  <2> QED
    BY <1>0, <1>5, <2>3 DEF Lasting, LoadIncident
<1>6. ASSUME NEW q \in Requests, StoreReport(q) PROVE Lasting
  <2>1. PICK loaded \in request[q].incident :
          incidents' = {IF i.id = loaded.id THEN Marked(i, loaded, q) ELSE i : i \in incidents}
    BY <1>6 DEF StoreReport
  <2>2. request[q].stamp \in DOMAIN marks
    BY <1>6 DEF IInv, WorkInv, WorkAt, StoreReport
  <2>3. request[q].stamp # NotReported
    BY <2>2 DEF IInv, TypeOK, NotReported
  <2>4. \A o \in incidents : Kept(Marked(o, loaded, q), o)
    BY <2>3 DEF IInv, TypeOK, IncidentRows, Marked, Kept
  <2>5. \A i \in incidents' : \E o \in incidents : Kept(i, o)
    BY <1>0, <2>1, <2>4
  <2> QED
    BY <1>0, <1>6, <2>5 DEF Lasting, StoreReport
<1>7. CASE PurgeCommit
  BY <1>0, <1>7 DEF Lasting, PurgeCommit
<1> QED
  BY <1>1, <1>2, <1>3, <1>4, <1>5, <1>6, <1>7
  DEF Next, Handle, Admit, Answer, LookUpSystem, FindSystem, CheckSystem, ListSystems, ShowHistory, ServerDies,
      PurgeSelect, PurgeDies, vars

LEMMA HeldTypes ==
    ASSUME TypeOK, NEW q \in Requests, NEW loaded \in request[q].incident
    PROVE  loaded \in IncidentRows /\ loaded.id \in Nat
<1>1. request[q].incident \in SUBSET IncidentRows
  BY DEF TypeOK, RequestStates
<1>2. loaded.id \in Ids
  BY <1>1 DEF IncidentRows
<1> QED
  BY <1>1, <1>2 DEF Ids

\* What a request remembers stays true while it does nothing.
LEMMA RestingStep ==
    ASSUME IInv, Lasting, NEW p \in Requests, request'[p] = request[p], session'[p] = session[p],
           issued' \in Nat
    PROVE  WorkAt(p)' /\ ListAt(p)'
<1>0. issued \in Nat
  BY DEF IInv, TypeOK
<1>1. WorkAt(p) /\ ListAt(p)
  BY DEF IInv, WorkInv, ListInv
<1>2. WorkAt(p)'
  <2>1. ASSUME request[p].pc = "marking", NEW loaded \in request[p].incident,
               NEW i \in incidents', i.id = loaded.id
        PROVE  /\ i.tenant = loaded.tenant
               /\ loaded.resolvedBy # Nobody => i.reportedAt # NotReported
    <3>1. loaded.id \in Nat /\ loaded.id <= issued
      BY <1>1, <2>1, HeldTypes DEF IInv, WorkAt
    <3>2. PICK o \in incidents : Kept(i, o)
      BY <1>0, <2>1, <3>1 DEF Lasting
    <3> QED
      BY <1>1, <2>1, <3>2 DEF WorkAt, Kept
  <2>2. ASSUME request[p].pc = "marking", NEW loaded \in request[p].incident
        PROVE  loaded.id <= issued'
    <3>1. loaded.id \in Nat /\ loaded.id <= issued
      BY <1>1, <2>2, HeldTypes DEF IInv, WorkAt
    <3> QED
      BY <1>0, <3>1 DEF Lasting
  <2>3. request[p].pc = "marking" =>
            request[p].stamp \in DOMAIN marks' /\ marks'[request[p].stamp] = marks[request[p].stamp]
    BY <1>1 DEF WorkAt, Lasting
  <2> QED
    BY <1>1, <2>1, <2>2, <2>3 DEF WorkAt, Lasting
<1>3. ListAt(p)'
  <2>1. ASSUME request[p].pc = "listing", NEW id \in request[p].before
        PROVE  id \in Nat /\ id <= issued /\ id <= issued'
    BY <1>0, <1>1, <2>1 DEF ListAt, Lasting, IInv, TypeOK, RequestStates, Ids
  <2>2. ASSUME request[p].pc = "listing", NEW r \in records', r.id \in request[p].before
        PROVE  r \in records
    BY <1>0, <2>1, <2>2 DEF Lasting
  <2> QED
    BY <1>1, <2>1, <2>2 DEF ListAt
<1> QED
  BY <1>2, <1>3

-----------------------------------------------------------------------------
(* Each part of the invariant *)

LEMMA SessionStep == IInv /\ [Next]_vars => SessionInv'
<1> SUFFICES ASSUME IInv, [Next]_vars PROVE SessionInv'
  OBVIOUS
<1> USE DEF tables, Becomes
<1>0. /\ TypeOK /\ SessionInv
      /\ Cron \notin Requests
  BY WorkspacesAssumption DEF IInv
<1>1. ASSUME NEW q \in Requests, Finish(q), doomed' = doomed PROVE SessionInv'
  BY <1>0, <1>1 DEF TypeOK, SessionInv, Finish, Idle, FreshSession
<1>2. ASSUME NEW q \in Requests, Admit(q) PROVE SessionInv'
  <2>1. PICK u \in Users :
          /\ request' = [request EXCEPT ![q] = [request[q] EXCEPT !.pc = "admitted", !.user = u]]
          /\ session' = [session EXCEPT ![q].tenant = TenantOf[u]]
    BY <1>2 DEF Admit
  <2>2. /\ request'[q].user = u /\ session'[q].tenant = TenantOf[u] /\ session'[q].cross = FALSE
        /\ session'[Cron] = session[Cron]
        /\ \A p \in Requests \ {q} : request'[p] = request[p] /\ session'[p] = session[p]
    BY <1>0, <2>1 DEF TypeOK, RequestStates, SessionInv
  <2> QED
    BY <1>0, <1>2, <2>2 DEF SessionInv, Admit
<1>3. ASSUME NEW q \in Requests, request[q].pc # "idle", session' = session, doomed' = doomed,
             NEW r \in RequestStates, r.user = request[q].user, Becomes(q, r)
      PROVE  SessionInv'
  BY <1>0, <1>3 DEF TypeOK, SessionInv
<1>4. ASSUME NEW q \in Requests, InsertSystem(q) PROVE SessionInv'
  BY <1>0, <1>4 DEF TypeOK, RequestStates, SessionInv, InsertSystem
<1>14. ASSUME NEW q \in Requests, LookUpSystem(q) PROVE SessionInv'
  BY <1>0, <1>14 DEF TypeOK, RequestStates, SessionInv, LookUpSystem, Writer
<1>5. ASSUME NEW q \in Requests, FindSystem(q) PROVE SessionInv'
  BY <1>0, <1>5 DEF TypeOK, RequestStates, SessionInv, FindSystem, Writer
<1>6. ASSUME NEW q \in Requests, CheckSystem(q) PROVE SessionInv'
  BY <1>0, <1>6 DEF TypeOK, RequestStates, SessionInv, CheckSystem, Writer
<1>7. ASSUME NEW q \in Requests, LoadIncident(q) PROVE SessionInv'
  BY <1>0, <1>7 DEF TypeOK, RequestStates, SessionInv, LoadIncident, Writer
<1>8. ASSUME NEW q \in Requests, ListSystems(q) PROVE SessionInv'
  BY <1>0, <1>8 DEF TypeOK, RequestStates, SessionInv, ListSystems
<1>9. CASE ServerDies
  BY <1>0, <1>9 DEF TypeOK, SessionInv, ServerDies, Idle, FreshSession
<1>10. CASE PurgeSelect
  BY <1>0, <1>10 DEF TypeOK, SessionInv, PurgeSelect
<1>11. CASE PurgeCommit
  BY <1>0, <1>11 DEF TypeOK, SessionInv, PurgeCommit
<1>12. CASE PurgeDies
  BY <1>0, <1>12 DEF TypeOK, SessionInv, PurgeDies
<1>13. CASE UNCHANGED vars
  BY <1>0, <1>13 DEF SessionInv, vars
<1> QED
  BY <1>1, <1>2, <1>4, <1>5, <1>6, <1>7, <1>8, <1>9, <1>10, <1>11, <1>12, <1>13, <1>14
  DEF Next, Handle, Answer, StoreRecord, FileIncident, StoreReport, ShowHistory

LEMMA IdStep == IInv /\ [Next]_vars => IdInv'
<1> SUFFICES ASSUME IInv, [Next]_vars PROVE IdInv'
  OBVIOUS
<1> USE DEF tables
<1>0. /\ IdInv /\ issued \in Nat
      /\ \A r \in systems \cup records \cup incidents \cup doomed : r.id \in Nat
  BY DEF IInv, TypeOK, SystemRows, RecordRows, IncidentRows, Ids
<1>1. CASE UNCHANGED <<tables, doomed>>
  BY <1>0, <1>1 DEF IdInv
<1>2. ASSUME NEW q \in Requests, InsertSystem(q) PROVE IdInv'
  <2>1. issued' = issued + 1 /\ \A s \in systems' : s \in systems \/ s.id = issued + 1
    BY <1>2, SystemInserted DEF InsertSystem
  <2> QED
    BY <1>0, <1>2, <2>1 DEF IdInv, InsertSystem
<1>3. ASSUME NEW q \in Requests, StoreRecord(q) PROVE IdInv'
  <2>1. PICK r : records' = records \cup {r} /\ r.id = issued + 1
    BY <1>3, RecordStored
  <2>2. IsFiniteSet(records')
    BY <1>0, <2>1, FS_AddElement DEF IdInv
  <2> QED
    BY <1>0, <1>3, <2>1, <2>2 DEF IdInv, StoreRecord
<1>4. ASSUME NEW q \in Requests, FileIncident(q) PROVE IdInv'
  <2>1. PICK r : incidents' = incidents \cup {r} /\ r.id = issued + 1
    BY <1>4, IncidentFiled
  <2> QED
    BY <1>0, <1>4, <2>1 DEF IdInv, FileIncident
<1>5. ASSUME NEW q \in Requests, StoreReport(q) PROVE IdInv'
  <2>1. PICK loaded \in request[q].incident :
          incidents' = {IF i.id = loaded.id THEN Marked(i, loaded, q) ELSE i : i \in incidents}
    BY <1>5 DEF StoreReport
  <2>2. \A i \in incidents : Marked(i, loaded, q).id = i.id
    BY DEF IInv, TypeOK, IncidentRows, Marked
  <2> QED
    BY <1>0, <1>5, <2>1, <2>2 DEF IdInv, StoreReport
<1>6. CASE PurgeSelect
  <2>1. doomed' \subseteq records
    BY <1>6 DEF PurgeSelect, Visible
  <2> QED
    BY <1>0, <1>6, <2>1 DEF IdInv, PurgeSelect
<1>7. CASE PurgeCommit
  <2>1. records' \subseteq records /\ IsFiniteSet(records')
    BY <1>0, <1>7, FS_Subset DEF IdInv, PurgeCommit
  <2> QED
    BY <1>0, <1>7, <2>1 DEF IdInv, PurgeCommit
<1>8. CASE PurgeDies
  BY <1>0, <1>8 DEF IdInv, PurgeDies
<1> QED
  BY <1>1, <1>2, <1>3, <1>4, <1>5, <1>6, <1>7, <1>8
  DEF Next, Handle, Admit, Answer, LookUpSystem, FindSystem, CheckSystem, LoadIncident, ListSystems, ShowHistory,
      ServerDies, vars

LEMMA PurgeStep == IInv /\ [Next]_vars => PurgeInv'
<1> SUFFICES ASSUME IInv, [Next]_vars PROVE PurgeInv'
  OBVIOUS
<1> USE DEF tables
<1>0. /\ PurgeInv /\ issued \in Nat /\ MaxRows \in Nat /\ issued <= MaxRows
      /\ \A r \in records \cup doomed : r.id \in Nat /\ r.id <= issued
  BY WorkspacesAssumption DEF IInv, TypeOK, RecordRows, Ids, IdInv
<1>1. CASE UNCHANGED <<records, issued, doomed>>
  BY <1>0, <1>1 DEF PurgeInv
<1>2. CASE doomed' = doomed /\ records' = records /\ issued' = issued + 1
  BY <1>0, <1>2 DEF PurgeInv, Ids
<1>3. ASSUME NEW q \in Requests, StoreRecord(q) PROVE PurgeInv'
  <2>1. PICK r : records' = records \cup {r} /\ r.id = issued + 1
    BY <1>3, RecordStored
  <2>2. doomed' = doomed /\ issued' = issued + 1
    BY <1>3 DEF StoreRecord
  <2>3. issued + 1 \notin IdsOf(doomed)
    BY <1>0 DEF IdsOf
  <2> QED
    BY <1>0, <2>1, <2>2, <2>3 DEF PurgeInv, Ids
<1>4. CASE PurgeSelect
  <2>1. PICK cutoff \in 1..issued : doomed' = {r \in records : r.id <= cutoff}
    BY <1>4 DEF PurgeSelect, Visible
  <2>2. cutoff \in Ids /\ cutoff <= issued'
    BY <1>0, <1>4, <2>1 DEF Ids, PurgeSelect
  <2>3. \A r \in records' : r.id \in IdsOf(doomed') <=> r.id <= cutoff
    BY <1>4, <2>1 DEF IdsOf, PurgeSelect
  <2> QED
    BY <2>2, <2>3 DEF PurgeInv
<1>5. CASE doomed' = {}
  BY <1>5 DEF PurgeInv
<1> QED
  BY <1>1, <1>2, <1>3, <1>4, <1>5
  DEF Next, Handle, Admit, Answer, LookUpSystem, InsertSystem, FindSystem, CheckSystem, FileIncident, LoadIncident,
      StoreReport, ListSystems, ShowHistory, ServerDies, PurgeCommit, PurgeDies, vars

\* A step of one request leaves the others at rest.
LEMMA OthersRest ==
    ASSUME IInv, Lasting, issued' \in Nat, NEW q \in Requests, NEW r,
           Becomes(q, r), \A p \in Requests \ {q} : session'[p] = session[p]
    PROVE  /\ \A p \in Requests \ {q} : WorkAt(p)' /\ ListAt(p)'
           /\ request'[q] = r
BY RestingStep DEF Becomes, IInv, TypeOK

\* A request that ends remembers nothing.
LEMMA FinishRests ==
    ASSUME IInv, Lasting, issued' \in Nat, NEW q \in Requests, Finish(q)
    PROVE  WorkInv' /\ ListInv'
<1>1. \A p \in Requests \ {q} : session'[p] = session[p]
  BY DEF Finish, IInv, TypeOK
<1>2. request'[q] = Idle /\ \A p \in Requests \ {q} : WorkAt(p)' /\ ListAt(p)'
  BY <1>1, OthersRest DEF Finish
<1>3. WorkAt(q)' /\ ListAt(q)'
  BY <1>2 DEF Idle, WorkAt, ListAt
<1> QED
  BY <1>2, <1>3 DEF WorkInv, ListInv

LEMMA WorkStep == IInv /\ [Next]_vars => WorkInv' /\ ListInv'
<1> SUFFICES ASSUME IInv, [Next]_vars PROVE WorkInv' /\ ListInv'
  OBVIOUS
<1> USE DEF tables
<1>0. TypeOK /\ Lasting /\ issued' \in Nat /\ issued \in Nat
  BY LastingStep, TypeStep DEF IInv, TypeOK
<1>1. ASSUME NEW q \in Requests, Finish(q) PROVE WorkInv' /\ ListInv'
  BY <1>0, <1>1, FinishRests
<1>2. ASSUME NEW q \in Requests, NEW r, Becomes(q, r), WorkAt(q)', ListAt(q)',
             \A p \in Requests \ {q} : session'[p] = session[p]
      PROVE  WorkInv' /\ ListInv'
  BY <1>0, <1>2, OthersRest DEF WorkInv, ListInv
<1>3. ASSUME NEW q \in Requests, Admit(q) PROVE WorkInv' /\ ListInv'
  <2>1. PICK u \in Users :
          /\ Becomes(q, [request[q] EXCEPT !.pc = "admitted", !.user = u])
          /\ session' = [session EXCEPT ![q].tenant = TenantOf[u]]
    BY <1>3 DEF Admit
  <2>2. request'[q].pc = "admitted" /\ request'[q].incident = request[q].incident
    BY <1>0, <2>1 DEF TypeOK, RequestStates, Becomes
  <2>3. request[q].incident = {}
    BY <1>3 DEF IInv, WorkInv, WorkAt, Admit
  <2>4. WorkAt(q)' /\ ListAt(q)'
    BY <2>2, <2>3 DEF WorkAt, ListAt
  <2>5. \A p \in Requests \ {q} : session'[p] = session[p]
    BY <1>0, <2>1 DEF TypeOK
  <2> QED
    BY <1>2, <2>1, <2>4, <2>5
<1>4. ASSUME NEW q \in Requests, InsertSystem(q) PROVE WorkInv' /\ ListInv'
  <2>1. \E s : /\ systems' = systems \cup {s}
               /\ s.id = issued + 1 /\ s.tenant = session[q].tenant
    BY <1>4, SystemInserted
  <2>2. session[q].tenant = TenantOf[request[q].user]
    BY <1>4 DEF IInv, SessionInv, InsertSystem
  <2>3. \E s \in systems' : s.id = issued + 1 /\ s.tenant = TenantOf[request[q].user]
    BY <2>1, <2>2
  <2>4. /\ request'[q].pc = "reporting" /\ request'[q].system = issued + 1
        /\ request'[q].user = request[q].user /\ request'[q].incident = request[q].incident
    BY <1>0, <1>4 DEF TypeOK, RequestStates, Becomes, InsertSystem
  <2>5. request[q].incident = {} /\ request[q].user \in MayWrite
    BY <1>4 DEF IInv, WorkInv, WorkAt, InsertSystem
  <2>6. WorkAt(q)' /\ ListAt(q)'
    BY <2>3, <2>4, <2>5 DEF WorkAt, ListAt
  <2> QED
    BY <1>2, <1>4, <2>6 DEF InsertSystem
<1>12. ASSUME NEW q \in Requests, LookUpSystem(q) PROVE WorkInv' /\ ListInv'
  <2>1. PICK n \in Names : Becomes(q, [request[q] EXCEPT !.pc = "naming", !.name = {n}])
    BY <1>12 DEF LookUpSystem
  <2>2. /\ request'[q].pc = "naming"
        /\ request'[q].user = request[q].user /\ request'[q].incident = request[q].incident
    BY <1>0, <2>1 DEF TypeOK, RequestStates, Becomes
  <2>3. request[q].incident = {} /\ request[q].user \in MayWrite
    BY <1>12 DEF IInv, WorkInv, WorkAt, LookUpSystem, Writer
  <2>4. WorkAt(q)' /\ ListAt(q)'
    BY <2>2, <2>3 DEF WorkAt, ListAt
  <2> QED
    BY <1>2, <1>12, <2>1, <2>4 DEF LookUpSystem
<1>5. ASSUME NEW q \in Requests, FindSystem(q) PROVE WorkInv' /\ ListInv'
  <2>1. PICK id \in IdsOf(Visible(session[q], systems)) \cup {NoSystem} :
            Becomes(q, [request[q] EXCEPT !.pc = "reporting", !.system = id])
    BY <1>5 DEF FindSystem
  <2>2. session[q].cross = FALSE /\ session[q].tenant = TenantOf[request[q].user]
    BY <1>5 DEF IInv, SessionInv, FindSystem, Writer
  <2>3. id # NoSystem => \E s \in systems : s.id = id /\ s.tenant = TenantOf[request[q].user]
    BY <2>1, <2>2 DEF IdsOf, Visible
  <2>4. /\ request'[q].pc = "reporting" /\ request'[q].system = id
        /\ request'[q].user = request[q].user /\ request'[q].incident = request[q].incident
    BY <1>0, <2>1 DEF TypeOK, RequestStates, Becomes
  <2>5. request[q].incident = {} /\ request[q].user \in MayWrite /\ systems' = systems
    BY <1>5 DEF IInv, WorkInv, WorkAt, FindSystem, Writer
  <2>6. WorkAt(q)' /\ ListAt(q)'
    BY <2>3, <2>4, <2>5 DEF WorkAt, ListAt
  <2> QED
    BY <1>2, <1>5, <2>1, <2>6 DEF FindSystem
<1>6. ASSUME NEW q \in Requests, CheckSystem(q) PROVE WorkInv' /\ ListInv'
  <2>1. PICK id \in Ids : /\ Get(session[q], systems, id) # {}
                          /\ Becomes(q, [request[q] EXCEPT !.pc = "filing", !.system = id])
    BY <1>6 DEF CheckSystem, Ids
  <2>2. session[q].cross = FALSE /\ session[q].tenant = TenantOf[request[q].user]
    BY <1>6 DEF IInv, SessionInv, CheckSystem, Writer
  <2>3. \E s \in systems : s.id = id /\ s.tenant = TenantOf[request[q].user]
    BY <2>1, <2>2 DEF Get, Visible
  <2>4. /\ request'[q].pc = "filing" /\ request'[q].system = id
        /\ request'[q].user = request[q].user /\ request'[q].incident = request[q].incident
    BY <1>0, <2>1 DEF TypeOK, RequestStates, Becomes
  <2>5. request[q].incident = {} /\ request[q].user \in MayWrite /\ systems' = systems
    BY <1>6 DEF IInv, WorkInv, WorkAt, CheckSystem, Writer
  <2>6. WorkAt(q)' /\ ListAt(q)'
    BY <2>3, <2>4, <2>5 DEF WorkAt, ListAt
  <2> QED
    BY <1>2, <1>6, <2>1, <2>6 DEF CheckSystem
<1>7. ASSUME NEW q \in Requests, LoadIncident(q) PROVE WorkInv' /\ ListInv'
  <2>1. PICK id \in Ids :
          /\ marks' = Append(marks, [user |-> request[q].user, incident |-> id])
          /\ Becomes(q, [request[q] EXCEPT !.pc = "marking", !.stamp = Len(marks) + 1,
                                           !.incident = Get(session[q], incidents, id)])
    BY <1>7 DEF LoadIncident, Ids
  <2>2. session[q].cross = FALSE /\ session[q].tenant = TenantOf[request[q].user]
    BY <1>7 DEF IInv, SessionInv, LoadIncident, Writer
  <2>3. /\ request'[q].pc = "marking" /\ request'[q].stamp = Len(marks) + 1
        /\ request'[q].incident = Get(session[q], incidents, id)
        /\ request'[q].user = request[q].user
    BY <1>0, <2>1 DEF TypeOK, RequestStates, Becomes
  <2>4. /\ Len(marks) + 1 \in DOMAIN marks'
        /\ marks'[Len(marks) + 1] = [user |-> request[q].user, incident |-> id]
    BY <1>0, <2>1 DEF TypeOK
  <2>5. request[q].user \in MayWrite /\ incidents' = incidents /\ issued' = issued
    BY <1>7 DEF LoadIncident, Writer
  <2>6. ASSUME NEW loaded \in Get(session[q], incidents, id)
        PROVE  /\ loaded.id = id /\ loaded.tenant = TenantOf[request[q].user]
               /\ loaded \in incidents /\ loaded.id <= issued
               /\ \A i \in incidents : i.id = loaded.id => i = loaded
               /\ loaded.resolvedBy # Nobody => loaded.reportedAt # NotReported
    BY <2>2, <2>6 DEF Get, Visible, IInv, IdInv, ReportedInv
  <2>7. WorkAt(q)' /\ ListAt(q)'
    BY <2>3, <2>4, <2>5, <2>6 DEF WorkAt, ListAt
  <2> QED
    BY <1>2, <1>7, <2>1, <2>7 DEF LoadIncident
<1>8. ASSUME NEW q \in Requests, ListSystems(q) PROVE WorkInv' /\ ListInv'
  <2>1. session[q].cross = FALSE /\ session[q].tenant = TenantOf[request[q].user]
    BY <1>8 DEF IInv, SessionInv, ListSystems
  <2>2. /\ request'[q].pc = "listing" /\ request'[q].incident = request[q].incident
        /\ request'[q].listed = IdsOf(Visible(session[q], systems))
        /\ request'[q].before = IdsOf(Visible(session[q], records))
    BY <1>0, <1>8 DEF TypeOK, RequestStates, Becomes, ListSystems
  <2>3. request[q].incident = {} /\ records' = records /\ issued' = issued /\ session' = session
    BY <1>8 DEF IInv, WorkInv, WorkAt, ListSystems
  <2>4. \A id \in IdsOf(Visible(session[q], records)) : id <= issued
    BY <2>1 DEF IInv, IdInv, IdsOf, Visible
  <2>5. ASSUME NEW r \in records, r.id \in IdsOf(Visible(session[q], records))
        PROVE  r.tenant = session[q].tenant /\ r.system \in IdsOf(Visible(session[q], systems)) \cup {NoSystem}
    <3>1. PICK x \in records : x.id = r.id /\ x.tenant = session[q].tenant
      BY <2>1, <2>5 DEF IdsOf, Visible
    <3>2. x = r
      BY <3>1 DEF IInv, IdInv
    <3> QED
      BY <2>1, <3>1, <3>2 DEF IInv, ChildrenStayHome, IdsOf, Visible
  <2>6. WorkAt(q)' /\ ListAt(q)'
    BY <2>2, <2>3, <2>4, <2>5 DEF WorkAt, ListAt
  <2> QED
    BY <1>2, <1>8, <2>6 DEF ListSystems
<1>9. CASE ServerDies
  <2>1. \A q \in Requests : request'[q] = Idle
    BY <1>9 DEF ServerDies
  <2> QED
    BY <2>1 DEF Idle, WorkInv, WorkAt, ListInv, ListAt
<1>10. ASSUME request' = request, \A q \in Requests : session'[q] = session[q]
       PROVE  WorkInv' /\ ListInv'
  BY <1>0, <1>10, RestingStep DEF WorkInv, ListInv
<1>11. CASE PurgeSelect \/ PurgeCommit \/ PurgeDies
  <2>1. \A q \in Requests : session'[q] = session[q]
    BY <1>0, <1>11, WorkspacesAssumption DEF TypeOK, PurgeSelect, PurgeCommit, PurgeDies
  <2> QED
    BY <1>10, <1>11, <2>1 DEF PurgeSelect, PurgeCommit, PurgeDies
<1> QED
  BY <1>1, <1>3, <1>4, <1>5, <1>6, <1>7, <1>8, <1>9, <1>10, <1>11, <1>12
  DEF Next, Handle, Answer, StoreRecord, FileIncident, StoreReport, ShowHistory, vars

\* Names that are new stay so while nothing is inserted.
LEMMA NamesRest ==
    ASSUME IInv, systems' = systems,
           \A p \in Requests : request'[p].pc = "naming" =>
               request'[p] = request[p] /\ session'[p] = session[p]
    PROVE  NamingInv'
BY DEF IInv, NamingInv, NameAt, LoopFree

\* The loop runs one /report between its lookup and its insert, so only its own insert could
\* make its name old, and with that it is done.
LEMMA NamingStep == IInv /\ [Next]_vars => NamingInv'
<1> SUFFICES ASSUME IInv, [Next]_vars PROVE NamingInv'
  OBVIOUS
<1> USE DEF tables, Becomes
<1>0. TypeOK
  BY DEF IInv
<1>1. ASSUME NEW q \in Requests, LookUpSystem(q) PROVE NamingInv'
  <2>1. PICK n \in Names :
          /\ \A s \in Visible(session[q], systems) : s.name # n
          /\ request' = [request EXCEPT ![q] = [request[q] EXCEPT !.pc = "naming", !.name = {n}]]
    BY <1>1 DEF LookUpSystem
  <2>2. /\ request'[q].name = {n}
        /\ \A p \in Requests \ {q} : request'[p].pc # "naming"
    BY <1>0, <1>1, <2>1 DEF TypeOK, RequestStates, LookUpSystem, LoopFree
  <2>3. session[q].cross = FALSE /\ session' = session /\ systems' = systems
    BY <1>1 DEF IInv, SessionInv, LookUpSystem
  <2>4. \A s \in systems : s.tenant = session[q].tenant => s.name # n
    BY <2>1, <2>3 DEF Visible
  <2> QED
    BY <2>2, <2>3, <2>4 DEF NamingInv, NameAt, LoopFree
<1>2. ASSUME NEW q \in Requests, InsertSystem(q) PROVE NamingInv'
  <2>1. \A p \in Requests \ {q} : request[p].pc # "naming"
    BY <1>2 DEF IInv, NamingInv, NameAt, LoopFree, InsertSystem
  <2>2. \A p \in Requests : request'[p].pc # "naming"
    BY <1>0, <1>2, <2>1 DEF TypeOK, RequestStates, InsertSystem
  <2> QED
    BY <2>2 DEF NamingInv, NameAt
<1>3. ASSUME NEW q \in Requests, Finish(q), systems' = systems PROVE NamingInv'
  <2>1. request'[q].pc = "idle" /\ \A p \in Requests \ {q} : request'[p] = request[p] /\ session'[p] = session[p]
    BY <1>0, <1>3 DEF TypeOK, Finish, Idle
  <2> QED
    BY <1>3, <2>1, NamesRest
<1>4. ASSUME NEW q \in Requests, Admit(q) PROVE NamingInv'
  <2>1. request'[q].pc = "admitted" /\ \A p \in Requests \ {q} : request'[p] = request[p] /\ session'[p] = session[p]
    BY <1>0, <1>4 DEF TypeOK, RequestStates, Admit
  <2> QED
    BY <1>4, <2>1, NamesRest DEF Admit
<1>5. ASSUME NEW q \in Requests, FindSystem(q) \/ CheckSystem(q) \/ LoadIncident(q) \/ ListSystems(q)
      PROVE  NamingInv'
  <2>1. /\ request'[q].pc # "naming" /\ session' = session /\ systems' = systems
        /\ \A p \in Requests \ {q} : request'[p] = request[p]
    BY <1>0, <1>5 DEF TypeOK, RequestStates, FindSystem, CheckSystem, LoadIncident, ListSystems
  <2> QED
    BY <2>1, NamesRest
<1>6. CASE ServerDies
  <2>1. \A q \in Requests : request'[q].pc # "naming"
    BY <1>6 DEF ServerDies, Idle
  <2> QED
    BY <2>1 DEF NamingInv, NameAt
<1>7. ASSUME request' = request, systems' = systems, \A q \in Requests : session'[q] = session[q]
      PROVE  NamingInv'
  BY <1>7, NamesRest
<1>8. CASE PurgeSelect \/ PurgeCommit \/ PurgeDies
  <2>1. \A q \in Requests : session'[q] = session[q]
    BY <1>0, <1>8, WorkspacesAssumption DEF TypeOK, PurgeSelect, PurgeCommit, PurgeDies
  <2> QED
    BY <1>7, <1>8, <2>1 DEF PurgeSelect, PurgeCommit, PurgeDies
<1> QED
  BY <1>1, <1>2, <1>3, <1>4, <1>5, <1>6, <1>7, <1>8
  DEF Next, Handle, Answer, StoreRecord, FileIncident, StoreReport, ShowHistory, vars

LEMMA ChildrenStep == IInv /\ [Next]_vars => ChildrenStayHome'
<1> SUFFICES ASSUME IInv, [Next]_vars PROVE ChildrenStayHome'
  OBVIOUS
<1> USE DEF tables
<1>0. Lasting /\ ChildrenStayHome
  BY LastingStep DEF IInv
<1>1. CASE records' \subseteq records /\ incidents' = incidents
  BY <1>0, <1>1 DEF ChildrenStayHome, Lasting
<1>2. ASSUME NEW q \in Requests, StoreRecord(q) PROVE ChildrenStayHome'
  <2>1. PICK r : /\ records' = records \cup {r}
                 /\ r.tenant = session[q].tenant /\ r.system = request[q].system
    BY <1>2, RecordStored
  <2>2. request[q].system # NoSystem =>
            \E s \in systems : s.id = request[q].system /\ s.tenant = session[q].tenant
    BY <1>2 DEF IInv, WorkInv, WorkAt, SessionInv, StoreRecord
  <2> QED
    BY <1>0, <1>2, <2>1, <2>2 DEF ChildrenStayHome, StoreRecord
<1>3. ASSUME NEW q \in Requests, FileIncident(q) PROVE ChildrenStayHome'
  <2>1. PICK i : /\ incidents' = incidents \cup {i}
                 /\ i.tenant = session[q].tenant /\ i.system = request[q].system
    BY <1>3, IncidentFiled
  <2>2. \E s \in systems : s.id = request[q].system /\ s.tenant = session[q].tenant
    BY <1>3 DEF IInv, WorkInv, WorkAt, SessionInv, FileIncident
  <2> QED
    BY <1>0, <1>3, <2>1, <2>2 DEF ChildrenStayHome, FileIncident
<1>4. ASSUME NEW q \in Requests, StoreReport(q) PROVE ChildrenStayHome'
  <2>1. PICK loaded \in request[q].incident :
          incidents' = {IF i.id = loaded.id THEN Marked(i, loaded, q) ELSE i : i \in incidents}
    BY <1>4 DEF StoreReport
  <2>2. \A i \in incidents : Marked(i, loaded, q).system = i.system
                             /\ Marked(i, loaded, q).tenant = i.tenant
    BY DEF IInv, TypeOK, IncidentRows, Marked
  <2> QED
    BY <1>0, <1>4, <2>1, <2>2 DEF ChildrenStayHome, StoreReport
<1> QED
  BY <1>1, <1>2, <1>3, <1>4
  DEF Next, Handle, Admit, Answer, LookUpSystem, InsertSystem, FindSystem, CheckSystem, LoadIncident, ListSystems,
      ShowHistory, ServerDies, PurgeSelect, PurgeCommit, PurgeDies, vars

LEMMA AuthorsStep == IInv /\ [Next]_vars => AuthorsMayWrite' /\ ReportedInv'
<1> SUFFICES ASSUME IInv, [Next]_vars PROVE AuthorsMayWrite' /\ ReportedInv'
  OBVIOUS
<1> USE DEF tables
<1>0. AuthorsMayWrite /\ ReportedInv
  BY DEF IInv
<1>1. CASE records' \subseteq records /\ incidents' = incidents
  BY <1>0, <1>1 DEF AuthorsMayWrite, ReportedInv
<1>2. ASSUME NEW q \in Requests, StoreRecord(q) PROVE AuthorsMayWrite' /\ ReportedInv'
  <2>1. PICK r : /\ records' = records \cup {r}
                 /\ r.tenant = session[q].tenant /\ r.createdBy = request[q].user
    BY <1>2, RecordStored
  <2>2. request[q].user \in MayWrite /\ TenantOf[request[q].user] = session[q].tenant
    BY <1>2 DEF IInv, WorkInv, WorkAt, SessionInv, StoreRecord
  <2> QED
    BY <1>0, <1>2, <2>1, <2>2 DEF AuthorsMayWrite, ReportedInv, StoreRecord
<1>3. ASSUME NEW q \in Requests, FileIncident(q) PROVE AuthorsMayWrite' /\ ReportedInv'
  <2>1. PICK i : /\ incidents' = incidents \cup {i}
                 /\ i.tenant = session[q].tenant /\ i.createdBy = request[q].user
                 /\ i.resolvedBy = Nobody
    BY <1>3, IncidentFiled
  <2>2. request[q].user \in MayWrite /\ TenantOf[request[q].user] = session[q].tenant
    BY <1>3 DEF IInv, WorkInv, WorkAt, SessionInv, FileIncident
  <2> QED
    BY <1>0, <1>3, <2>1, <2>2 DEF AuthorsMayWrite, ReportedInv, FileIncident
<1>4. ASSUME NEW q \in Requests, StoreReport(q) PROVE AuthorsMayWrite' /\ ReportedInv'
  <2>1. PICK loaded \in request[q].incident :
          incidents' = {IF i.id = loaded.id THEN Marked(i, loaded, q) ELSE i : i \in incidents}
    BY <1>4 DEF StoreReport
  <2>2. /\ request[q].user \in MayWrite /\ TenantOf[request[q].user] = loaded.tenant
        /\ request[q].stamp \in DOMAIN marks
        /\ \A i \in incidents : i.id = loaded.id => i.tenant = loaded.tenant
    BY <1>4, <2>1 DEF IInv, WorkInv, WorkAt, StoreReport
  <2>4. request[q].stamp # NotReported
    BY <2>2 DEF IInv, TypeOK, NotReported
  <2>3. ASSUME NEW i \in incidents, i.id = loaded.id
        PROVE  /\ Marked(i, loaded, q).createdBy = i.createdBy
               /\ Marked(i, loaded, q).tenant = i.tenant
               /\ Marked(i, loaded, q).reportedAt # NotReported
               /\ Marked(i, loaded, q).resolvedBy \in {i.resolvedBy, request[q].user}
    BY <2>2, <2>3, <2>4 DEF IInv, TypeOK, IncidentRows, Marked
  <2> QED
    BY <1>0, <1>4, <2>1, <2>2, <2>3 DEF AuthorsMayWrite, ReportedInv, StoreReport
<1> QED
  BY <1>1, <1>2, <1>3, <1>4
  DEF Next, Handle, Admit, Answer, LookUpSystem, InsertSystem, FindSystem, CheckSystem, LoadIncident, ListSystems,
      ShowHistory, ServerDies, PurgeSelect, PurgeCommit, PurgeDies, vars

\* Whether the update keeps the user in the row or writes its own, someone who marked the
\* incident is named: a user is kept only where the row was reported before.
LEMMA ReporterStep == IInv /\ [Next]_vars => ReporterMarked'
<1> SUFFICES ASSUME IInv, [Next]_vars PROVE ReporterMarked'
  OBVIOUS
<1> USE DEF tables
<1>0. Lasting /\ ReporterMarked
  BY LastingStep DEF IInv
<1>1. \A i \in incidents : i.reportedAt # NotReported =>
        i.reportedAt \in DOMAIN marks /\ marks'[i.reportedAt] = marks[i.reportedAt]
  <2>1. \A i \in incidents : i.reportedAt \in Nat
    BY WorkspacesAssumption DEF IInv, TypeOK, IncidentRows
  <2> QED
    BY <1>0, <2>1 DEF IInv, ReportTimesInv, Lasting
<1>2. ASSUME NEW i \in incidents, i.reportedAt # NotReported
      PROVE  /\ marks'[i.reportedAt].incident = i.id
             /\ \E m \in DOMAIN marks' : marks'[m] = [user |-> i.resolvedBy, incident |-> i.id]
  BY <1>0, <1>1, <1>2 DEF ReporterMarked, Lasting
<1>3. CASE incidents' = incidents
  BY <1>2, <1>3 DEF ReporterMarked
<1>4. ASSUME NEW q \in Requests, FileIncident(q) PROVE ReporterMarked'
  <2>1. PICK i : incidents' = incidents \cup {i} /\ i.reportedAt = NotReported
    BY <1>4, IncidentFiled
  <2> QED
    BY <1>2, <2>1 DEF ReporterMarked
<1>5. ASSUME NEW q \in Requests, StoreReport(q) PROVE ReporterMarked'
  <2>1. PICK loaded \in request[q].incident :
          incidents' = {IF i.id = loaded.id THEN Marked(i, loaded, q) ELSE i : i \in incidents}
    BY <1>5 DEF StoreReport
  <2>2. /\ request[q].user \in MayWrite
        /\ request[q].stamp \in DOMAIN marks
        /\ marks[request[q].stamp] = [user |-> request[q].user, incident |-> loaded.id]
        /\ marks' = marks
        /\ \A i \in incidents : (i.id = loaded.id /\ loaded.resolvedBy # Nobody) =>
                i.reportedAt # NotReported
    BY <1>5, <2>1 DEF IInv, WorkInv, WorkAt, StoreReport
  <2>3. ASSUME NEW i \in incidents, i.id = loaded.id
        PROVE  /\ marks'[Marked(i, loaded, q).reportedAt].incident = Marked(i, loaded, q).id
               /\ \E m \in DOMAIN marks' :
                    marks'[m] = [user |-> Marked(i, loaded, q).resolvedBy, incident |-> Marked(i, loaded, q).id]
    <3>1. /\ Marked(i, loaded, q).id = i.id
          /\ Marked(i, loaded, q).reportedAt = request[q].stamp
          /\ Marked(i, loaded, q).resolvedBy =
                IF loaded.resolvedBy = request[q].user THEN i.resolvedBy ELSE request[q].user
      BY DEF IInv, TypeOK, IncidentRows, Marked
    <3>2. marks'[Marked(i, loaded, q).reportedAt].incident = Marked(i, loaded, q).id
      BY <2>2, <2>3, <3>1
    <3>3. CASE loaded.resolvedBy = request[q].user
      <4>1. loaded.resolvedBy # Nobody
        BY <2>2, <3>3, WorkspacesAssumption
      <4> QED
        BY <1>2, <2>2, <2>3, <3>1, <3>2, <3>3, <4>1
    <3>4. CASE loaded.resolvedBy # request[q].user
      BY <2>2, <2>3, <3>1, <3>2, <3>4
    <3> QED
      BY <3>3, <3>4
  <2> QED
    BY <1>2, <2>1, <2>3 DEF ReporterMarked
<1> QED
  BY <1>3, <1>4, <1>5
  DEF Next, Handle, Admit, Answer, LookUpSystem, InsertSystem, FindSystem, StoreRecord, CheckSystem, LoadIncident,
      ListSystems, ShowHistory, ServerDies, PurgeSelect, PurgeCommit, PurgeDies, vars

LEMMA TimesStep == IInv /\ [Next]_vars => ReportTimesInv'
<1> SUFFICES ASSUME IInv, [Next]_vars PROVE ReportTimesInv'
  OBVIOUS
<1> USE DEF tables
<1>0. Lasting /\ ReportTimesInv
  BY LastingStep DEF IInv
<1>1. CASE incidents' = incidents
  BY <1>0, <1>1 DEF ReportTimesInv, Lasting
<1>2. ASSUME NEW q \in Requests, FileIncident(q) PROVE ReportTimesInv'
  <2>1. PICK i : incidents' = incidents \cup {i} /\ i.reportedAt = NotReported
    BY <1>2, IncidentFiled
  <2> QED
    BY <1>0, <2>1 DEF ReportTimesInv, Lasting
<1>3. ASSUME NEW q \in Requests, StoreReport(q) PROVE ReportTimesInv'
  <2>1. PICK loaded \in request[q].incident :
          incidents' = {IF i.id = loaded.id THEN Marked(i, loaded, q) ELSE i : i \in incidents}
    BY <1>3 DEF StoreReport
  <2>2. request[q].stamp \in DOMAIN marks /\ marks' = marks
    BY <1>3 DEF IInv, WorkInv, WorkAt, StoreReport
  <2>3. \A i \in incidents : Marked(i, loaded, q).reportedAt = request[q].stamp
    BY DEF IInv, TypeOK, IncidentRows, Marked
  <2> QED
    BY <1>0, <2>1, <2>2, <2>3 DEF ReportTimesInv
<1> QED
  BY <1>1, <1>2, <1>3
  DEF Next, Handle, Admit, Answer, LookUpSystem, InsertSystem, FindSystem, StoreRecord, CheckSystem, LoadIncident,
      ListSystems, ShowHistory, ServerDies, PurgeSelect, PurgeCommit, PurgeDies, vars

-----------------------------------------------------------------------------
(* The invariant holds, and what follows from it *)

\* Every reachable state satisfies the inductive invariant.
THEOREM Invariance == Spec => []IInv
<1>1. Init => IInv
  <2> SUFFICES ASSUME Init PROVE IInv
    OBVIOUS
  <2>1. TypeOK
    BY TypeInit
  <2>2. SessionInv
    BY WorkspacesAssumption DEF Init, SessionInv, FreshSession, Idle
  <2>3. IdInv
    BY FS_EmptySet DEF Init, IdInv
  <2>4. WorkInv /\ ListInv /\ NamingInv
    BY DEF Init, WorkInv, WorkAt, ListInv, ListAt, NamingInv, NameAt, Idle
  <2> QED
    BY <2>1, <2>2, <2>3, <2>4
    DEF IInv, Init, PurgeInv, ChildrenStayHome, AuthorsMayWrite, ReportedInv, ReportTimesInv,
        ReporterMarked
<1>2. IInv /\ [Next]_vars => IInv'
  BY TypeStep, SessionStep, IdStep, PurgeStep, WorkStep, NamingStep, ChildrenStep, AuthorsStep, ReporterStep,
     TimesStep DEF IInv
<1> QED
  BY <1>1, <1>2, PTL DEF Spec

\* Tables, sessions and requests keep their types.
THEOREM TypeCorrect == Spec => []TypeOK
<1>1. IInv => TypeOK
  BY DEF IInv
<1> QED
  BY <1>1, Invariance, PTL

\* A record or an incident and its system belong to one tenant.
THEOREM ChildrenStayHomeHolds == Spec => []ChildrenStayHome
<1>1. IInv => ChildrenStayHome
  BY DEF IInv
<1> QED
  BY <1>1, Invariance, PTL

\* Rows name only users of their tenant who may write.
THEOREM AuthorsMayWriteHolds == Spec => []AuthorsMayWrite
<1>1. IInv => AuthorsMayWrite
  BY DEF IInv
<1> QED
  BY <1>1, Invariance, PTL

\* However many users mark an incident at once, its reporter is one of them.
THEOREM ReporterMarkedHolds == Spec => []ReporterMarked
<1>1. IInv => ReporterMarked
  BY DEF IInv
<1> QED
  BY <1>1, Invariance, PTL

\* No page shows a row of another tenant.
THEOREM PagesAreOwnHolds == Spec => []PagesAreOwn
<1>1. IInv => PagesAreOwn
  <2> SUFFICES ASSUME IInv, NEW q \in Requests, request[q].pc # "idle",
                      NEW r \in HistoryPage(q) \cup UNION {SystemPage(q, id) : id \in Ids}
               PROVE  r.tenant = TenantOf[request[q].user]
    BY DEF PagesAreOwn
  <2>1. session[q].cross = FALSE /\ session[q].tenant = TenantOf[request[q].user]
    BY DEF IInv, SessionInv
  <2>2. \A rows : \A x \in Visible(session[q], rows) : x.tenant = session[q].tenant
    BY <2>1 DEF Visible
  <2>3. \A rows : \A x \in MostRecent(session[q], rows) : x.tenant = session[q].tenant
    BY <2>2 DEF MostRecent
  <2>4. CASE r \in HistoryPage(q)
    BY <2>1, <2>3, <2>4 DEF HistoryPage
  <2>5. CASE \E id \in Ids : r \in SystemPage(q, id)
    BY <2>1, <2>2, <2>3, <2>5 DEF SystemPage
  <2> QED
    BY <2>4, <2>5
<1> QED
  BY <1>1, Invariance, PTL

\* No query of a handler and no flush of a handler or the purge meets a condition for which
\* tenancy.py raises: unbound, in a form without the entity, or a row of another tenant.
THEOREM NoIsolationErrorHolds == Spec => []NoIsolationError
<1>1. IInv => NoIsolationError
  <2> SUFFICES ASSUME IInv PROVE NoIsolationError
    OBVIOUS
  <2>1. ASSUME NEW q \in Requests, request[q].pc # "idle"
        PROVE  /\ session[q].tenant = TenantOf[request[q].user] /\ session[q].tenant \in Tenants
               /\ session[q].tenant # NoTenant
    BY <2>1, WorkspacesAssumption DEF IInv, SessionInv
  <2>2. ASSUME NEW q \in Requests, NEW query \in Queries(q) PROVE QueryAllowed(session[q], query)
    <3>1. CASE \E t \in SharedTables : query = Select(t)
      BY <3>1 DEF QueryAllowed, Select, SharedTables, TenantTables
    <3>2. CASE request[q].pc # "idle" /\ \E t \in TenantTables : query = Select(t) \/ query = Count(t)
      BY <2>1, <3>2 DEF QueryAllowed, Select, Count
    <3> QED
      BY <3>1, <3>2 DEF Queries, TenantTables
  <2>3. ASSUME NEW q \in Requests, NEW row \in Inserts(q) PROVE InsertAllowed(session[q], row)
    <3>1. request[q].pc # "idle" /\ row.tenant = NoTenant
      BY DEF Inserts, NewSystem, NewRecord, NewIncident
    <3> QED
      BY <2>1, <3>1 DEF InsertAllowed
  <2>4. ASSUME NEW q \in Requests, NEW i \in request[q].incident PROVE ChangeAllowed(session[q], i)
    <3>1. request[q].pc = "marking" /\ i.tenant = TenantOf[request[q].user]
      BY DEF IInv, WorkInv, WorkAt
    <3> QED
      BY <2>1, <3>1 DEF ChangeAllowed
  <2>5. \A r \in doomed : ChangeAllowed(session[Cron], r)
    BY DEF IInv, SessionInv, ChangeAllowed
  <2> QED
    BY <2>2, <2>3, <2>4, <2>5 DEF NoIsolationError
<1> QED
  BY <1>1, Invariance, PTL

\* What was stored before /history began is shown, up to the page limit.
THEOREM HistoryCompleteHolds == Spec => []HistoryComplete
<1>1. IInv => HistoryComplete
  <2> SUFFICES ASSUME IInv, NEW q \in Requests, request[q].pc = "listing",
                      NEW r \in records, r.id \in request[q].before
               PROVE  \/ r \in HistoryPage(q)
                      \/ Cardinality({x \in records : x.tenant = r.tenant /\ x.id > r.id}) >= PageLimit
    BY DEF HistoryComplete
  <2> DEFINE newer == {x \in records : x.tenant = r.tenant /\ x.id > r.id}
  <2>1. session[q].cross = FALSE
    BY DEF IInv, SessionInv
  <2>2. r.tenant = session[q].tenant /\ r.system \in request[q].listed \cup {NoSystem}
    BY DEF IInv, ListInv, ListAt
  <2>3. r \in Visible(session[q], records)
    BY <2>1, <2>2 DEF Visible
  <2>4. {x \in Visible(session[q], records) : x.id > r.id} = newer
    BY <2>1, <2>2 DEF Visible
  <2>5. Cardinality(newer) \in Nat /\ PageLimit \in Nat
    <3>1. IsFiniteSet(newer)
      BY FS_Subset DEF IInv, IdInv
    <3> QED
      BY <3>1, FS_CardinalityType, WorkspacesAssumption
  <2>6. CASE Cardinality(newer) < PageLimit
    <3>1. r \in MostRecent(session[q], records)
      BY <2>3, <2>4, <2>6 DEF MostRecent
    <3> QED
      BY <2>2, <3>1 DEF HistoryPage
  <2>7. CASE Cardinality(newer) >= PageLimit
    BY <2>7
  <2> QED
    BY <2>5, <2>6, <2>7
<1> QED
  BY <1>1, Invariance, PTL

-----------------------------------------------------------------------------
(* The refinement *)

\* A new row appears in its tenant's room and in no other.
LEMMA OwnAdd ==
    ASSUME NEW rows, NEW row, row.tenant \in Tenants
    PROVE  Own(rows \cup {row}) = [Own(rows) EXCEPT ![row.tenant] = @ \cup {row}]
BY DEF Own

\* So does a row put in the place of another of its tenant.
LEMMA OwnReplace ==
    ASSUME NEW rows, NEW old \in rows, NEW row, row.tenant = old.tenant, old.tenant \in Tenants
    PROVE  Own((rows \ {old}) \cup {row}) = [Own(rows) EXCEPT ![old.tenant] = (@ \ {old}) \cup {row}]
BY DEF Own

LEMMA EntryTypes ==
    ASSUME NEW S, NEW s \in Seq(S), NEW m \in DOMAIN s
    PROVE  s[m] \in S
OBVIOUS

\* The name was new when it was looked up, and is when it is inserted.
LEMMA InsertSystemMaps ==
    ASSUME IInv, NEW q \in Requests, InsertSystem(q)
    PROVE  Promise!Next
<1> DEFINE t == session[q].tenant
<1>1. t \in Tenants /\ issued + 1 \in Ids
  BY InsertTypes DEF InsertSystem
<1>2. PICK n \in request[q].name :
        n \in Names /\ systems' = systems \cup {[id |-> issued + 1, tenant |-> t, name |-> n]}
  BY SystemInserted, Zenon
<1> DEFINE s == [id |-> issued + 1, tenant |-> t, name |-> n]
<1>3. s \in [id: Ids, tenant: {t}, name: Names] /\ s.tenant = t /\ s.name = n
  BY <1>1, <1>2
<1>4. systems' = systems \cup {s}
  BY <1>2
<1>5. \A other \in systems : other.tenant = t => other.name # n
  BY <1>2 DEF IInv, NamingInv, NameAt, InsertSystem
<1> HIDE DEF s
<1>6. Own(systems)' = [Own(systems) EXCEPT ![t] = @ \cup {s}]
  BY <1>1, <1>3, <1>4, OwnAdd
<1>7. \A other \in Own(systems)[t] : other.name # s.name
  BY <1>1, <1>3, <1>5 DEF Own
<1>8. UNCHANGED <<Own(records), Own(incidents)>>
  BY DEF InsertSystem, Own
<1> QED
  BY <1>1, <1>3, <1>6, <1>7, <1>8 DEF Promise!Next, Promise!AddSystem

LEMMA StoreRecordMaps ==
    ASSUME IInv, NEW q \in Requests, StoreRecord(q)
    PROVE  Promise!Next
<1> DEFINE t == session[q].tenant
<1>1. /\ t \in Tenants /\ issued + 1 \in Ids
      /\ request[q].user \in Users /\ t = TenantOf[request[q].user]
  BY InsertTypes DEF StoreRecord, IInv, SessionInv
<1>2. request[q].system \in {s.id : s \in Own(systems)[t]} \cup {NoSystem}
  <2>1. request[q].system # NoSystem => \E s \in systems : s.id = request[q].system /\ s.tenant = t
    BY <1>1 DEF IInv, WorkInv, WorkAt, StoreRecord
  <2> QED
    BY <1>1, <2>1 DEF Own
<1> DEFINE r == [id |-> issued + 1, tenant |-> t, system |-> request[q].system,
                 createdBy |-> request[q].user]
<1>3. records' = records \cup {r}
  BY RecordStored
<1>4. /\ r.tenant = t
      /\ r \in [id: Ids, tenant: {t}, system: {s.id : s \in Own(systems)[t]} \cup {NoSystem},
                createdBy: Promise!Staff(t)]
  BY <1>1, <1>2 DEF Promise!Staff
<1> HIDE DEF r
<1>5. Own(records)' = [Own(records) EXCEPT ![t] = @ \cup {r}]
  BY <1>1, <1>3, <1>4, OwnAdd
<1>6. UNCHANGED <<Own(systems), Own(incidents)>>
  BY DEF StoreRecord, Own
<1>7. Promise!AddRecord(t)
  BY <1>4, <1>5, <1>6 DEF Promise!AddRecord
<1> QED
  BY <1>1, <1>7 DEF Promise!Next

LEMMA FileIncidentMaps ==
    ASSUME IInv, NEW q \in Requests, FileIncident(q)
    PROVE  Promise!Next
<1> DEFINE t == session[q].tenant
<1>1. /\ t \in Tenants /\ issued + 1 \in Ids
      /\ request[q].user \in Users /\ t = TenantOf[request[q].user]
  BY InsertTypes DEF FileIncident, IInv, SessionInv
<1>2. request[q].system \in {s.id : s \in Own(systems)[t]}
  BY <1>1 DEF IInv, WorkInv, WorkAt, FileIncident, Own
<1> DEFINE i == [id |-> issued + 1, tenant |-> t, system |-> request[q].system,
                 createdBy |-> request[q].user, reportedAt |-> NotReported, resolvedBy |-> Nobody]
<1>3. incidents' = incidents \cup {i}
  BY IncidentFiled
<1>4. /\ i.tenant = t
      /\ i \in [id: Ids, tenant: {t}, system: {s.id : s \in Own(systems)[t]},
                createdBy: Promise!Staff(t), reportedAt: {NotReported}, resolvedBy: {Nobody}]
  BY <1>1, <1>2 DEF Promise!Staff
<1> HIDE DEF i
<1>5. Own(incidents)' = [Own(incidents) EXCEPT ![t] = @ \cup {i}]
  BY <1>1, <1>3, <1>4, OwnAdd
<1>6. UNCHANGED <<Own(systems), Own(records)>>
  BY DEF FileIncident, Own
<1>7. Promise!AddIncident(t)
  BY <1>4, <1>5, <1>6 DEF Promise!AddIncident
<1> QED
  BY <1>1, <1>7 DEF Promise!Next

\* An update that finds its row changes that row alone; one that does not changes nothing.
LEMMA StoreReportMaps ==
    ASSUME IInv, NEW q \in Requests, StoreReport(q)
    PROVE  [Promise!Next]_(Promise!vars)
<1>1. PICK loaded \in request[q].incident :
        incidents' = {IF i.id = loaded.id THEN Marked(i, loaded, q) ELSE i : i \in incidents}
  BY DEF StoreReport
<1>2. UNCHANGED <<Own(systems), Own(records)>>
  BY DEF StoreReport, Own
<1>3. CASE \A i \in incidents : i.id # loaded.id
  <2>1. incidents' = incidents
    BY <1>1, <1>3
  <2> QED
    BY <1>2, <2>1 DEF Promise!vars, Own
<1>4. CASE \E i \in incidents : i.id = loaded.id
  <2>1. PICK i \in incidents : i.id = loaded.id
    BY <1>4
  <2> DEFINE at == request[q].stamp
             by == Marked(i, loaded, q).resolvedBy
             t == i.tenant
  <2>2. /\ request[q].user \in MayWrite /\ request[q].user \in Users
        /\ t = TenantOf[request[q].user] /\ t \in Tenants
        /\ at \in DOMAIN marks
        /\ loaded.resolvedBy # Nobody => i.reportedAt # NotReported
    <3>1. WorkAt(q) /\ request[q].pc = "marking"
      BY DEF IInv, WorkInv, StoreReport
    <3>2. request[q].user \in MayWrite /\ request[q].user \in Users /\ t = TenantOf[request[q].user]
      BY <2>1, <3>1, WorkspacesAssumption DEF WorkAt
    <3> QED
      BY <2>1, <3>1, <3>2, WorkspacesAssumption DEF WorkAt
  <2>3. at \in 1..MaxMarks
    BY <2>2, WorkspacesAssumption DEF IInv, TypeOK
  <2>4. Marked(i, loaded, q) = [i EXCEPT !.reportedAt = at, !.resolvedBy = by]
        /\ by = IF loaded.resolvedBy = request[q].user THEN i.resolvedBy ELSE request[q].user
    BY DEF IInv, TypeOK, IncidentRows, Marked
  <2>5. by \in Promise!Staff(t)
    <3>1. CASE loaded.resolvedBy = request[q].user
      <4>1. i.reportedAt # NotReported
        BY <2>2, <3>1, WorkspacesAssumption
      <4>2. i.resolvedBy \in Users
        <5>1. PICK m \in DOMAIN marks : marks[m] = [user |-> i.resolvedBy, incident |-> i.id]
          BY <4>1 DEF IInv, ReporterMarked
        <5>2. marks[m] \in [user: Users, incident: Ids]
          <6>1. marks \in Seq([user: Users, incident: Ids])
            BY DEF IInv, TypeOK
          <6> QED
            BY <6>1, EntryTypes
        <5> QED
          BY <5>1, <5>2
      <4>3. TenantOf[i.resolvedBy] = i.tenant
        BY <4>2, WorkspacesAssumption DEF IInv, AuthorsMayWrite
      <4> QED
        BY <2>4, <3>1, <4>2, <4>3 DEF Promise!Staff
    <3>2. CASE loaded.resolvedBy # request[q].user
      BY <2>2, <2>4, <3>2 DEF Promise!Staff
    <3> QED
      BY <3>1, <3>2
  <2> DEFINE row == [i EXCEPT !.reportedAt = at, !.resolvedBy = by]
  <2>6. row.tenant = t
    BY DEF IInv, TypeOK, IncidentRows
  <2>7. incidents' = (incidents \ {i}) \cup {row}
    <3>1. \A o \in incidents : o.id = loaded.id <=> o = i
      BY <2>1 DEF IInv, IdInv
    <3> HIDE DEF row
    <3> QED
      BY <1>1, <2>4, <3>1 DEF row
  <2>8. Own(incidents)' = [Own(incidents) EXCEPT ![t] = (@ \ {i}) \cup {row}]
    <3> HIDE DEF row
    <3> QED
      BY <2>2, <2>6, <2>7, OwnReplace
  <2>9. i \in Own(incidents)[t]
    BY <2>2 DEF Own
  <2> HIDE DEF at, by, t
  <2>10. Promise!MarkReported(t)
    BY <1>2, <2>3, <2>5, <2>8, <2>9 DEF Promise!MarkReported
  <2> QED
    BY <2>2, <2>10 DEF Promise!Next, t
<1> QED
  BY <1>3, <1>4

LEMMA PurgeCommitMaps ==
    ASSUME IInv, PurgeCommit
    PROVE  [Promise!Next]_(Promise!vars)
<1>1. UNCHANGED <<Own(systems), Own(incidents)>>
  BY DEF PurgeCommit, Own
<1>2. CASE doomed = {}
  <2>1. records' = records
    BY <1>2 DEF PurgeCommit, IdsOf
  <2> QED
    BY <1>1, <2>1 DEF Promise!vars, Own
<1>3. CASE doomed # {}
  <2>1. PICK cutoff \in Ids : \A r \in records : r.id \in IdsOf(doomed) <=> r.id <= cutoff
    BY <1>3 DEF IInv, PurgeInv
  <2>2. \A r \in records : r.id \notin IdsOf(doomed) <=> r.id > cutoff
    BY <2>1 DEF IInv, TypeOK, RecordRows, Ids
  <2>3. records' = {r \in records : r.id > cutoff}
    BY <2>2 DEF PurgeCommit
  <2>4. Own(records)' = [t \in Tenants |-> {r \in Own(records)[t] : r.id > cutoff}]
    BY <2>3 DEF Own
  <2> QED
    BY <1>1, <2>1, <2>4 DEF Promise!Next, Promise!Purge
<1> QED
  BY <1>2, <1>3

\* The filter, the stamp and the checks of tenancy.py give every tenant a room of its own:
\* each step of the program is a step of TenantRooms or changes no room.
THEOREM Refinement == Spec => ImplementsTenantRooms
<1>1. Init => Promise!Init
  BY DEF Init, Promise!Init, Own
<1>2. IInv /\ [Next]_vars => [Promise!Next]_(Promise!vars)
  <2> SUFFICES ASSUME IInv, [Next]_vars PROVE [Promise!Next]_(Promise!vars)
    OBVIOUS
  <2>1. CASE UNCHANGED tables
    BY <2>1 DEF tables, Promise!vars, Own
  <2> QED
    BY <2>1, InsertSystemMaps, StoreRecordMaps, FileIncidentMaps, StoreReportMaps, PurgeCommitMaps
    DEF Next, Handle, Admit, Answer, LookUpSystem, FindSystem, CheckSystem, LoadIncident, ListSystems,
        ShowHistory, ServerDies, PurgeSelect, PurgeDies, vars, tables
<1> QED
  BY <1>1, <1>2, Invariance, PTL DEF Spec, ImplementsTenantRooms, Promise!Spec

=============================================================================
