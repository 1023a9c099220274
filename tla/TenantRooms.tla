---------------------------- MODULE TenantRooms ----------------------------
(***************************************************************************)
(* What src/src/persistence/tenancy.py promises the rest of the program:   *)
(* although all tenants share three tables, it is as if each had a room of *)
(* its own.  A user's request finds its own tenant's rows and nothing      *)
(* else, and changes nothing else; the one step that reaches into every    *)
(* room is the retention purge, and it treats all rooms alike.  There are  *)
(* no sessions and no filter here: that is Workspaces.tla.                 *)
(***************************************************************************)
EXTENDS Naturals

CONSTANTS
    Tenants,
    Users,
    TenantOf,      \* the tenant of a user
    Ids,           \* ids of rows, ordered by creation
    Times,         \* report times
    Names,         \* AI system names
    NoSystem,      \* ai_system_id of an assessment without a system
    NotReported,   \* reported_at of an incident still open
    Nobody         \* resolved_by_user_id of an incident still open

VARIABLES
    systemsOf,    \* per tenant, its ai_systems
    recordsOf,    \* per tenant, its assessment_records
    incidentsOf   \* per tenant, its incidents

vars == <<systemsOf, recordsOf, incidentsOf>>

Staff(t) == {u \in Users : TenantOf[u] = t}

Init ==
    /\ systemsOf = [t \in Tenants |-> {}]
    /\ recordsOf = [t \in Tenants |-> {}]
    /\ incidentsOf = [t \in Tenants |-> {}]

\* A system whose name is new in this room; another room may have one of the same name.
AddSystem(t) ==
    /\ \E s \in [id: Ids, tenant: {t}, name: Names] :
        /\ \A other \in systemsOf[t] : other.name # s.name
        /\ systemsOf' = [systemsOf EXCEPT ![t] = @ \cup {s}]
    /\ UNCHANGED <<recordsOf, incidentsOf>>

\* An assessment, of a system in this room or of none.
AddRecord(t) ==
    /\ \E r \in [id: Ids, tenant: {t}, system: {s.id : s \in systemsOf[t]} \cup {NoSystem},
                 createdBy: Staff(t)] :
        recordsOf' = [recordsOf EXCEPT ![t] = @ \cup {r}]
    /\ UNCHANGED <<systemsOf, incidentsOf>>

\* An incident of a system in this room.
AddIncident(t) ==
    /\ \E i \in [id: Ids, tenant: {t}, system: {s.id : s \in systemsOf[t]},
                 createdBy: Staff(t), reportedAt: {NotReported}, resolvedBy: {Nobody}] :
        incidentsOf' = [incidentsOf EXCEPT ![t] = @ \cup {i}]
    /\ UNCHANGED <<systemsOf, recordsOf>>

\* One incident of this room gets a report time and someone of this room as its reporter.
MarkReported(t) ==
    /\ \E i \in incidentsOf[t], at \in Times, by \in Staff(t) :
        incidentsOf' = [incidentsOf EXCEPT
                            ![t] = (@ \ {i}) \cup {[i EXCEPT !.reportedAt = at, !.resolvedBy = by]}]
    /\ UNCHANGED <<systemsOf, recordsOf>>

\* What is old enough goes from every room.
Purge ==
    /\ \E cutoff \in Ids :
        recordsOf' = [t \in Tenants |-> {r \in recordsOf[t] : r.id > cutoff}]
    /\ UNCHANGED <<systemsOf, incidentsOf>>

Next ==
    \/ \E t \in Tenants : AddSystem(t) \/ AddRecord(t) \/ AddIncident(t) \/ MarkReported(t)
    \/ Purge

Spec == Init /\ [][Next]_vars

=============================================================================
