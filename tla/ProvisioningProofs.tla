-------------------------- MODULE ProvisioningProofs --------------------------
(***************************************************************************)
(* What Provisioning states, proved for any number of systems, runs,       *)
(* e-mails, tenants, broken-off migrations and downgrades.                 *)
(***************************************************************************)
EXTENDS Provisioning, TLAPS

\* what a run is about to insert
RunsInv ==
    \A r \in Runs : runs[r].pc # "none" =>
        /\ runs[r].email \in Emails /\ runs[r].tenant \in TenantIds
        /\ runs[r].new => runs[r].tenant \in 1..made
        /\ downgrades = 0 => runs[r].tenant \in tenants

UsersInv == downgrades = 0 => \A u \in users : u.tenant \in tenants

\* upgrades start from below, downgrades from above
PhaseInv ==
    /\ migration.pc \in {"tenants", "users", "adopted"} => version = "before"
    /\ migration.pc = "copy" => version = "at" /\ downgrades < MaxDowngrades

\* what of the schema is there before the revision
SchemaInv ==
    IF database = "sqlite"
    THEN /\ "userrole" \notin schema
         /\ migration.pc = "tenants" => schema = {"tenants"}
         /\ migration.pc \in {"users", "adopted"} => schema = {"tenants", "users"}
         /\ version = "before" => schema \in {{}, {"tenants"}, {"tenants", "users"}}
         /\ (version = "before" /\ migration.pc = "none" /\ schema # {}) => deaths > 0
    ELSE /\ "copy" \notin schema
         /\ version = "before" => schema \subseteq {"userrole"}
         /\ (version = "before" /\ schema # {}) => downgrades > 0

\* What has been adopted is still without a tenant, and on SQLite there is nothing else.
AdoptInv ==
    migration.pc = "adopted" =>
        /\ \A s \in migration.adopted : owner[s] = NoTenant
        /\ database = "sqlite" => Unowned \subseteq migration.adopted

IncidentInv == \A s \in Systems : owner[s] = Absent => incident[s] = Absent

\* The run that made an empty tenant is still under way, or has given up: one that was given
\* the tenant explains nothing, for it may leave.
ExplainedInv ==
    \A t \in tenants \ {Default} :
        \/ \E u \in users : u.tenant = t
        \/ \E r \in Runs : runs[r].pc # "none" /\ runs[r].new /\ runs[r].tenant = t
        \/ t \in abandoned

IInv ==
    /\ TypeOK /\ RunsInv /\ UsersInv /\ PhaseInv /\ SchemaInv /\ AdoptInv /\ IncidentInv
    /\ IncidentsFollowSystems /\ OwnersKnown /\ HalfUpgradeAdoptsNothing
    /\ OneAccountPerEmail /\ ExplainedInv

LEMMA Distinct ==
    /\ NoTenant # Absent /\ NoTenant \notin TenantIds /\ Absent \notin TenantIds
    /\ Default \in TenantIds /\ \A t \in TenantIds : t \in Nat
    /\ MaxTenants \in Nat /\ MaxDeaths \in Nat /\ MaxDowngrades \in Nat
  BY ProvisioningAssumption DEF TenantIds, Default

LEMMA Another ==
  ASSUME NEW max \in Nat, NEW n \in 0..max, n < max
  PROVE  n + 1 \in 0..max /\ n + 1 \in Nat /\ n + 1 > 0 /\ n + 1 # 0 /\ n + 1 \in 1..(n + 1)
         /\ 1..n \subseteq 1..(n + 1)
  OBVIOUS

\* What a run that has begun looks like, field by field.
LEMMA RunFields ==
  ASSUME NEW run, NEW e, NEW t, NEW b \in BOOLEAN,
         run = [pc |-> "look up", email |-> e, tenant |-> t, new |-> b]
  PROVE  run.pc # "none" /\ run.email = e /\ run.tenant = t /\ run.new = b
  <1>1. run.pc = "look up" /\ run.email = e /\ run.tenant = t
    OBVIOUS
  <1>2. run.new = b
    BY Zenon
  <1> QED
    BY <1>1, <1>2

LEMMA MadeInNat == ASSUME IInv PROVE made \in Nat
  BY Distinct DEF IInv, TypeOK, TenantIds

-----------------------------------------------------------------------------
(* The migration *)

LEMMA InitIInv == Init => IInv
  BY Distinct DEF Init, IInv, TypeOK, RunsInv, UsersInv, PhaseInv, SchemaInv, AdoptInv, IncidentInv,
     IncidentsFollowSystems, OwnersKnown, HalfUpgradeAdoptsNothing, OneAccountPerEmail, ExplainedInv,
     NoMigration, NoRun

\* Steps of the migration that change neither a row nor a run.
LEMMA MigrationKeepsRest ==
  ASSUME IInv, UNCHANGED <<database, version, tables, program>>, downgrades' = downgrades
  PROVE  /\ RunsInv' /\ UsersInv' /\ IncidentInv' /\ IncidentsFollowSystems' /\ OwnersKnown'
         /\ HalfUpgradeAdoptsNothing' /\ OneAccountPerEmail' /\ ExplainedInv'
  BY DEF IInv, RunsInv, UsersInv, IncidentInv, IncidentsFollowSystems, OwnersKnown,
         HalfUpgradeAdoptsNothing, OneAccountPerEmail, ExplainedInv, tables, program, TenantIds

LEMMA UpgradeStartsKeeps == ASSUME IInv, UpgradeStarts PROVE IInv'
  <1>1. TypeOK'
    BY DEF IInv, TypeOK, UpgradeStarts, Created, tables, program
  <1>2. PhaseInv' /\ SchemaInv' /\ AdoptInv'
    BY DEF IInv, TypeOK, PhaseInv, SchemaInv, AdoptInv, UpgradeStarts, Created
  <1> QED
    BY <1>1, <1>2, MigrationKeepsRest DEF UpgradeStarts, IInv

LEMMA CreateUsersKeeps == ASSUME IInv, CreateUsers PROVE IInv'
  <1>1. TypeOK'
    BY DEF IInv, TypeOK, CreateUsers, Created, tables, program
  <1>2. PhaseInv' /\ SchemaInv' /\ AdoptInv'
    BY DEF IInv, TypeOK, PhaseInv, SchemaInv, AdoptInv, CreateUsers, Created
  <1> QED
    BY <1>1, <1>2, MigrationKeepsRest DEF CreateUsers, IInv

LEMMA AdoptKeeps == ASSUME IInv, Adopt PROVE IInv'
  <1>1. TypeOK'
    BY DEF IInv, TypeOK, Adopt, Unowned, tables, program
  <1>2. PhaseInv' /\ SchemaInv' /\ AdoptInv'
    BY DEF IInv, TypeOK, PhaseInv, SchemaInv, AdoptInv, Adopt, Unowned, tables
  <1> QED
    BY <1>1, <1>2, MigrationKeepsRest DEF Adopt, IInv

LEMMA UpgradeFailsKeeps == ASSUME IInv, UpgradeFails PROVE IInv'
  <1>1. TypeOK'
    BY DEF IInv, TypeOK, UpgradeFails, NoMigration, tables, program
  <1>2. PhaseInv' /\ SchemaInv' /\ AdoptInv'
    BY DEF IInv, TypeOK, PhaseInv, SchemaInv, AdoptInv, UpgradeFails, NoMigration, Unowned
  <1> QED
    BY <1>1, <1>2, MigrationKeepsRest DEF UpgradeFails, IInv

LEMMA MigrationDiesKeeps == ASSUME IInv, MigrationDies PROVE IInv'
  <1>1. deaths' \in 0..MaxDeaths /\ deaths' > 0
    BY Distinct, Another DEF IInv, TypeOK, MigrationDies
  <1>2. TypeOK'
    BY <1>1 DEF IInv, TypeOK, MigrationDies, NoMigration, tables, program
  <1>3. PhaseInv' /\ SchemaInv' /\ AdoptInv'
    BY <1>1 DEF IInv, TypeOK, PhaseInv, SchemaInv, AdoptInv, MigrationDies, NoMigration
  <1> QED
    BY <1>2, <1>3, MigrationKeepsRest DEF MigrationDies, IInv

LEMMA DowngradeStartsKeeps == ASSUME IInv, DowngradeStarts PROVE IInv'
  <1>1. TypeOK'
    BY DEF IInv, TypeOK, DowngradeStarts, Created, tables, program
  <1>2. PhaseInv' /\ SchemaInv' /\ AdoptInv'
    BY DEF IInv, TypeOK, PhaseInv, SchemaInv, AdoptInv, DowngradeStarts, Created
  <1> QED
    BY <1>1, <1>2, MigrationKeepsRest DEF DowngradeStarts, IInv

\* Every row without a tenant was adopted, so none is left without one.
LEMMA UpgradeCommitsKeeps == ASSUME IInv, UpgradeCommits PROVE IInv'
  <1>1. \A s \in Systems : /\ owner[s] = NoTenant => owner'[s] = Default
                           /\ owner[s] # NoTenant => owner'[s] = owner[s]
    BY DEF IInv, AdoptInv, UpgradeCommits, Unowned
  <1>2. owner' \in [Systems -> TenantIds \cup {Absent}]
    BY <1>1, Distinct DEF IInv, TypeOK, UpgradeCommits
  <1>3. \A s \in Systems : incident'[s] \in {Absent, owner'[s]} /\ (owner'[s] = Absent => incident'[s] = Absent)
    BY <1>1, Distinct DEF IInv, IncidentInv, UpgradeCommits, Inherit
  <1>4. incident' \in [Systems -> TenantIds \cup {NoTenant, Absent}]
    BY <1>2, <1>3 DEF UpgradeCommits, Inherit
  <1>5. TypeOK'
    BY <1>2, <1>4, Distinct DEF IInv, TypeOK, UpgradeCommits, NoMigration, Upgraded, Seeded, program
  <1>6. PhaseInv' /\ SchemaInv' /\ AdoptInv' /\ IncidentInv'
    BY <1>3 DEF IInv, TypeOK, PhaseInv, SchemaInv, AdoptInv, IncidentInv, UpgradeCommits, NoMigration, Upgraded
  <1>7. IncidentsFollowSystems' /\ HalfUpgradeAdoptsNothing'
    BY <1>2, <1>3, Distinct DEF IncidentsFollowSystems, HalfUpgradeAdoptsNothing, UpgradeCommits
  <1>8. OwnersKnown'
    BY <1>1 DEF IInv, OwnersKnown, UpgradeCommits, Seeded
  <1>9. RunsInv' /\ UsersInv' /\ OneAccountPerEmail' /\ ExplainedInv'
    BY DEF IInv, RunsInv, UsersInv, OneAccountPerEmail, ExplainedInv, UpgradeCommits, Seeded, program, TenantIds
  <1> QED
    BY <1>5, <1>6, <1>7, <1>8, <1>9 DEF IInv

LEMMA DowngradeCommitsKeeps == ASSUME IInv, DowngradeCommits PROVE IInv'
  <1>1. downgrades' \in 0..MaxDowngrades /\ downgrades' > 0 /\ downgrades' # 0
    BY Distinct, Another DEF IInv, TypeOK, PhaseInv, DowngradeCommits
  <1>2. incident' \in [Systems -> TenantIds \cup {NoTenant, Absent}]
    BY DEF DowngradeCommits
  <1>3. TypeOK'
    BY <1>1, <1>2 DEF IInv, TypeOK, DowngradeCommits, NoMigration, Downgraded, program
  <1>4. PhaseInv' /\ AdoptInv' /\ IncidentInv'
    BY DEF IInv, PhaseInv, AdoptInv, IncidentInv, DowngradeCommits, NoMigration
  <1>7. SchemaInv'
    <2>1. CASE database = "sqlite"
      <3>1. schema' = {}
        BY <2>1 DEF IInv, SchemaInv, DowngradeCommits, Downgraded
      <3> QED
        BY <2>1, <3>1 DEF SchemaInv, DowngradeCommits, NoMigration
    <2>2. CASE database # "sqlite"
      BY <1>1, <2>2 DEF SchemaInv, DowngradeCommits, Downgraded
    <2> QED
      BY <2>1, <2>2
  <1>5. RunsInv' /\ UsersInv' /\ IncidentsFollowSystems' /\ OwnersKnown' /\ HalfUpgradeAdoptsNothing'
    BY <1>1 DEF IInv, RunsInv, UsersInv, IncidentsFollowSystems, OwnersKnown, HalfUpgradeAdoptsNothing,
                DowngradeCommits, program, TenantIds
  <1>6. OneAccountPerEmail' /\ ExplainedInv'
    BY DEF OneAccountPerEmail, ExplainedInv, DowngradeCommits
  <1> QED
    BY <1>3, <1>4, <1>7, <1>5, <1>6 DEF IInv

-----------------------------------------------------------------------------
(* create_user.py *)

\* What holds of the database and the migration, whatever the runs and the users are.
LEMMA RunsKeepRest ==
  ASSUME IInv, UNCHANGED <<database, version, schema, owner, incident, migration, deaths, downgrades>>,
         tenants \subseteq tenants', tenants' \subseteq tenants \cup {made'}, made' \in Nat,
         made' = 0 => tenants' = tenants
  PROVE  /\ PhaseInv' /\ SchemaInv' /\ AdoptInv' /\ IncidentInv'
         /\ IncidentsFollowSystems' /\ OwnersKnown' /\ HalfUpgradeAdoptsNothing'
  BY DEF IInv, PhaseInv, SchemaInv, AdoptInv, IncidentInv, IncidentsFollowSystems, OwnersKnown,
         HalfUpgradeAdoptsNothing, Unowned, Default

LEMMA RunWithNewTenantKeeps ==
  ASSUME IInv, NEW r \in Runs, NEW e \in Emails, RunWithNewTenant(r, e)
  PROVE  IInv'
  <1>1. /\ made' \in 0..MaxTenants /\ made' \in Nat /\ made' > 0 /\ made' # 0 /\ made' \in 1..made'
        /\ 1..made \subseteq 1..made'
    <2>1. made \in 0..MaxTenants /\ made < MaxTenants /\ made' = made + 1
      BY DEF IInv, TypeOK, RunWithNewTenant
    <2> QED
      BY <2>1, Distinct, Another
  <1>2. \A q \in Runs : runs'[q] = IF q = r
                                   THEN [pc |-> "look up", email |-> e, tenant |-> made', new |-> TRUE]
                                   ELSE runs[q]
    BY DEF IInv, TypeOK, RunWithNewTenant, Becomes
  <1>3. TypeOK'
    <2>1. tenants' \subseteq TenantIds
      BY <1>1 DEF IInv, TypeOK, RunWithNewTenant, TenantIds
    <2>2. runs' \in [Runs -> [pc: {"none", "look up", "prompts"}, email: Emails \cup {Absent},
                              tenant: TenantIds \cup {NoTenant}, new: BOOLEAN]]
      BY <1>1 DEF IInv, TypeOK, RunWithNewTenant, Becomes, TenantIds
    <2>3. abandoned' \subseteq 1..made'
      BY <1>1 DEF IInv, TypeOK, RunWithNewTenant
    <2> QED
      BY <1>1, <2>1, <2>2, <2>3 DEF IInv, TypeOK, RunWithNewTenant
  <1>4. PhaseInv' /\ SchemaInv' /\ AdoptInv' /\ IncidentInv'
        /\ IncidentsFollowSystems' /\ OwnersKnown' /\ HalfUpgradeAdoptsNothing'
    BY <1>1, RunsKeepRest DEF RunWithNewTenant
  <1>5. RunsInv'
    <2> SUFFICES ASSUME NEW q \in Runs, runs'[q].pc # "none"
                 PROVE  /\ runs'[q].email \in Emails /\ runs'[q].tenant \in TenantIds
                        /\ runs'[q].new => runs'[q].tenant \in 1..made'
                        /\ downgrades' = 0 => runs'[q].tenant \in tenants'
      BY DEF RunsInv, TenantIds
    <2>1. CASE q = r
      <3>1. runs'[q] = [pc |-> "look up", email |-> e, tenant |-> made', new |-> TRUE]
        BY <1>2, <2>1
      <3>2. made' \in tenants' /\ made' \in TenantIds
        BY <1>1 DEF RunWithNewTenant, TenantIds
      <3> QED
        <4>1. runs'[q].email = e /\ runs'[q].tenant = made'
          BY <3>1, RunFields
        <4> QED
          BY <1>1, <3>2, <4>1
    <2>2. CASE q # r
      BY <1>1, <1>2, <2>2 DEF IInv, RunsInv, RunWithNewTenant
    <2> QED
      BY <2>1, <2>2
  <1>6. UsersInv' /\ OneAccountPerEmail'
    BY DEF IInv, UsersInv, OneAccountPerEmail, RunWithNewTenant
  <1>7. ExplainedInv'
    <2> SUFFICES ASSUME NEW t \in tenants' \ {Default}
                 PROVE  \/ \E u \in users' : u.tenant = t
                        \/ \E q \in Runs : runs'[q].pc # "none" /\ runs'[q].new /\ runs'[q].tenant = t
                        \/ t \in abandoned'
      BY DEF ExplainedInv, Default
    <2>1. CASE t = made'
      <3>1. runs'[r] = [pc |-> "look up", email |-> e, tenant |-> t, new |-> TRUE]
        BY <1>2, <2>1
      <3>2. runs'[r].pc # "none" /\ runs'[r].new /\ runs'[r].tenant = t
        BY <3>1, RunFields
      <3> QED
        BY <3>2
    <2>2. CASE t \in tenants
      BY <1>2, <2>2 DEF IInv, ExplainedInv, RunWithNewTenant
    <2> QED
      BY <2>1, <2>2 DEF RunWithNewTenant
  <1> QED
    BY <1>3, <1>4, <1>5, <1>6, <1>7 DEF IInv

LEMMA RunWithTenantKeeps ==
  ASSUME IInv, NEW r \in Runs, NEW e \in Emails, NEW t \in tenants, RunWithTenant(r, e, t)
  PROVE  IInv'
  <1>1. \A q \in Runs : runs'[q] = IF q = r
                                   THEN [pc |-> "look up", email |-> e, tenant |-> t, new |-> FALSE]
                                   ELSE runs[q]
    BY DEF IInv, TypeOK, RunWithTenant, Becomes
  <1>2. t \in TenantIds /\ made' \in Nat
    BY MadeInNat DEF IInv, TypeOK, RunWithTenant
  <1>3. TypeOK'
    BY <1>2 DEF IInv, TypeOK, RunWithTenant, Becomes, tables
  <1>4. PhaseInv' /\ SchemaInv' /\ AdoptInv' /\ IncidentInv'
        /\ IncidentsFollowSystems' /\ OwnersKnown' /\ HalfUpgradeAdoptsNothing'
    BY <1>2, RunsKeepRest DEF RunWithTenant, tables
  <1>5. RunsInv'
    <2>1. /\ runs'[r].email = e /\ runs'[r].tenant = t
          /\ ~runs'[r].new
      BY DEF IInv, TypeOK, RunWithTenant, Becomes
    <2> SUFFICES ASSUME NEW q \in Runs, runs'[q].pc # "none"
                 PROVE  /\ runs'[q].email \in Emails /\ runs'[q].tenant \in TenantIds
                        /\ runs'[q].new => runs'[q].tenant \in 1..made'
                        /\ downgrades' = 0 => runs'[q].tenant \in tenants'
      BY DEF RunsInv, TenantIds
    <2>2. CASE q = r
      BY <1>2, <2>1, <2>2 DEF RunWithTenant, tables
    <2>3. CASE q # r
      BY <1>1, <2>3 DEF IInv, RunsInv, RunWithTenant, tables
    <2> QED
      BY <2>2, <2>3
  <1>6. UsersInv' /\ OneAccountPerEmail'
    BY DEF IInv, UsersInv, OneAccountPerEmail, RunWithTenant, tables
  <1>7. ExplainedInv'
    BY <1>1 DEF IInv, ExplainedInv, RunWithTenant, tables
  <1> QED
    BY <1>3, <1>4, <1>5, <1>6, <1>7 DEF IInv

LEMMA LookUpKeeps == ASSUME IInv, NEW r \in Runs, LookUp(r) PROVE IInv'
  <1>1. \A q \in Runs : /\ runs'[q].pc # "none" <=> runs[q].pc # "none"
                        /\ runs'[q].email = runs[q].email /\ runs'[q].tenant = runs[q].tenant
                        /\ runs'[q].new = runs[q].new
    BY DEF IInv, TypeOK, LookUp, Becomes
  <1>2. TypeOK' /\ made' \in Nat
    <2>1. runs' \in [Runs -> [pc: {"none", "look up", "prompts"}, email: Emails \cup {Absent},
                              tenant: TenantIds \cup {NoTenant}, new: BOOLEAN]]
      <3> DEFINE Types == [pc: {"none", "look up", "prompts"}, email: Emails \cup {Absent},
                           tenant: TenantIds \cup {NoTenant}, new: BOOLEAN]
      <3>1. runs \in [Runs -> Types]
        BY DEF IInv, TypeOK
      <3>2. [runs[r] EXCEPT !.pc = "prompts"] \in Types
        BY <3>1
      <3> QED
        BY <3>1, <3>2 DEF LookUp, Becomes
    <2> QED
      BY <2>1, MadeInNat DEF IInv, TypeOK, LookUp, tables
  <1>3. PhaseInv' /\ SchemaInv' /\ AdoptInv' /\ IncidentInv'
        /\ IncidentsFollowSystems' /\ OwnersKnown' /\ HalfUpgradeAdoptsNothing'
    BY <1>2, RunsKeepRest DEF LookUp, tables
  <1>4. RunsInv' /\ UsersInv' /\ OneAccountPerEmail' /\ ExplainedInv'
    BY <1>1 DEF IInv, RunsInv, UsersInv, OneAccountPerEmail, ExplainedInv, LookUp, tables, TenantIds
  <1> QED
    BY <1>2, <1>3, <1>4 DEF IInv

\* The e-mail is looked up again by the INSERT, so it is new; the run's tenant has its user.
LEMMA CreateUserKeeps == ASSUME IInv, NEW r \in Runs, CreateUser(r) PROVE IInv'
  <1> DEFINE user == [email |-> runs[r].email, tenant |-> runs[r].tenant]
  <1>1. \A q \in Runs : runs'[q] = IF q = r THEN NoRun ELSE runs[q]
    BY DEF IInv, TypeOK, CreateUser, Becomes
  <1>2. user \in [email: Emails, tenant: TenantIds] /\ (downgrades = 0 => user.tenant \in tenants)
    BY DEF IInv, RunsInv, CreateUser
  <1>3. users' = users \cup {user} /\ (\A u \in users : u.email # user.email)
    BY DEF CreateUser, Taken
  <1>4. TypeOK' /\ made' \in Nat
    BY <1>2, <1>3, MadeInNat, Distinct DEF IInv, TypeOK, CreateUser, Becomes, NoRun
  <1>5. PhaseInv' /\ SchemaInv' /\ AdoptInv' /\ IncidentInv'
        /\ IncidentsFollowSystems' /\ OwnersKnown' /\ HalfUpgradeAdoptsNothing'
    BY <1>4, RunsKeepRest DEF CreateUser
  <1>6. RunsInv'
    BY <1>1 DEF IInv, RunsInv, CreateUser, NoRun, TenantIds
  <1>7. UsersInv' /\ OneAccountPerEmail'
    BY <1>2, <1>3 DEF IInv, UsersInv, OneAccountPerEmail, CreateUser
  <1>8. ExplainedInv'
    <2> SUFFICES ASSUME NEW t \in tenants \ {Default}
                 PROVE  \/ \E u \in users' : u.tenant = t
                        \/ \E q \in Runs : runs'[q].pc # "none" /\ runs'[q].new /\ runs'[q].tenant = t
                        \/ t \in abandoned
      BY DEF ExplainedInv, CreateUser, Default
    <2>1. CASE t = runs[r].tenant
      <3>1. user \in users' /\ user.tenant = t
        BY <1>3, <2>1
      <3> QED
        BY <3>1
    <2>2. CASE t # runs[r].tenant
      BY <1>1, <1>3, <2>2 DEF IInv, ExplainedInv
    <2> QED
      BY <2>1, <2>2
  <1> QED
    BY <1>4, <1>5, <1>6, <1>7, <1>8 DEF IInv

LEMMA RunEndsKeeps == ASSUME IInv, NEW r \in Runs, RunEnds(r) PROVE IInv'
  <1>1. \A q \in Runs : runs'[q] = IF q = r THEN NoRun ELSE runs[q]
    BY DEF IInv, TypeOK, RunEnds, Becomes
  <1>2. /\ abandoned \subseteq abandoned' /\ abandoned' \subseteq 1..made
        /\ runs[r].new => runs[r].tenant \in abandoned'
    BY DEF IInv, TypeOK, RunsInv, RunEnds
  <1>3. TypeOK' /\ made' \in Nat
    BY <1>2, MadeInNat, Distinct DEF IInv, TypeOK, RunEnds, Becomes, NoRun, tables
  <1>4. PhaseInv' /\ SchemaInv' /\ AdoptInv' /\ IncidentInv'
        /\ IncidentsFollowSystems' /\ OwnersKnown' /\ HalfUpgradeAdoptsNothing'
    BY <1>3, RunsKeepRest DEF RunEnds, tables
  <1>5. RunsInv' /\ UsersInv' /\ OneAccountPerEmail'
    BY <1>1 DEF IInv, RunsInv, UsersInv, OneAccountPerEmail, RunEnds, NoRun, tables, TenantIds
  <1>6. ExplainedInv'
    <2> SUFFICES ASSUME NEW t \in tenants \ {Default}
                 PROVE  \/ \E u \in users : u.tenant = t
                        \/ \E q \in Runs : runs'[q].pc # "none" /\ runs'[q].new /\ runs'[q].tenant = t
                        \/ t \in abandoned'
      BY DEF ExplainedInv, RunEnds, tables, Default
    <2>1. CASE runs[r].new /\ t = runs[r].tenant
      BY <1>2, <2>1
    <2>2. CASE ~(runs[r].new /\ t = runs[r].tenant)
      BY <1>1, <1>2, <2>2 DEF IInv, ExplainedInv
    <2> QED
      BY <2>1, <2>2
  <1> QED
    BY <1>3, <1>4, <1>5, <1>6 DEF IInv

-----------------------------------------------------------------------------
(* The applications *)

\* What holds of the schema, the runs and the users, whatever the rows are.
LEMMA RowsKeepRest ==
  ASSUME IInv, UNCHANGED <<database, version, schema, tenants, users, migration, program, deaths, downgrades>>
  PROVE  /\ PhaseInv' /\ SchemaInv' /\ RunsInv' /\ UsersInv' /\ OneAccountPerEmail' /\ ExplainedInv'
  BY DEF IInv, PhaseInv, SchemaInv, RunsInv, UsersInv, OneAccountPerEmail, ExplainedInv, program, TenantIds

\* On SQLite the adopting migration keeps the old release out.
LEMMA OldReleaseAddsKeeps == ASSUME IInv, NEW s \in Systems, OldReleaseAdds(s) PROVE IInv'
  <1>1. /\ owner' \in [Systems -> TenantIds \cup {NoTenant, Absent}]
        /\ incident' \in [Systems -> TenantIds \cup {NoTenant, Absent}]
        /\ \A x \in Systems : owner'[x] = owner[x] \/ (x = s /\ owner[s] = Absent /\ owner'[s] = NoTenant)
        /\ \A x \in Systems :
             incident'[x] = incident[x] \/ (x = s /\ incident'[s] = NoTenant /\ owner'[s] # Absent)
    BY DEF IInv, TypeOK, OldReleaseAdds
  <1>2. TypeOK'
    BY <1>1 DEF IInv, TypeOK, OldReleaseAdds, program
  <1>3. AdoptInv'
    BY <1>1, Distinct DEF IInv, TypeOK, AdoptInv, OldReleaseAdds, Writable, Unowned
  <1>4. IncidentInv'
    BY <1>1, Distinct DEF IInv, IncidentInv
  <1>5. IncidentsFollowSystems' /\ OwnersKnown' /\ HalfUpgradeAdoptsNothing'
    BY <1>1, Distinct DEF IInv, IncidentsFollowSystems, OwnersKnown, HalfUpgradeAdoptsNothing, OldReleaseAdds
  <1> QED
    BY <1>2, <1>3, <1>4, <1>5, RowsKeepRest DEF IInv, OldReleaseAdds

LEMMA AddsKeeps == ASSUME IInv, NEW u \in users, NEW s \in Systems, Adds(u, s) PROVE IInv'
  <1>1. u.tenant \in TenantIds /\ u.tenant # NoTenant /\ u.tenant # Absent
    BY Distinct DEF IInv, TypeOK
  <1>2. /\ owner' \in [Systems -> TenantIds \cup {NoTenant, Absent}]
        /\ incident' \in [Systems -> TenantIds \cup {NoTenant, Absent}]
        /\ \A x \in Systems : owner'[x] = owner[x] \/ (x = s /\ owner[s] = Absent /\ owner'[s] = u.tenant)
        /\ \A x \in Systems :
             incident'[x] = incident[x]
             \/ (x = s /\ incident'[s] = u.tenant /\ owner'[s] = u.tenant /\ owner[s] = u.tenant)
    BY <1>1 DEF IInv, TypeOK, Adds
  <1>3. TypeOK'
    BY <1>2 DEF IInv, TypeOK, Adds, program
  <1>4. AdoptInv'
    BY <1>1, <1>2, Distinct DEF IInv, TypeOK, AdoptInv, Adds, Writable, Unowned
  <1>5. IncidentInv' /\ IncidentsFollowSystems'
    BY <1>1, <1>2 DEF IInv, IncidentInv, IncidentsFollowSystems, Adds
  <1>6. OwnersKnown' /\ HalfUpgradeAdoptsNothing'
    BY <1>2 DEF IInv, UsersInv, OwnersKnown, HalfUpgradeAdoptsNothing, Adds
  <1> QED
    BY <1>3, <1>4, <1>5, <1>6, RowsKeepRest DEF IInv, Adds

LEMMA StutterKeeps == ASSUME IInv, UNCHANGED vars PROVE IInv'
  BY DEF IInv, TypeOK, RunsInv, UsersInv, PhaseInv, SchemaInv, AdoptInv, IncidentInv,
     IncidentsFollowSystems, OwnersKnown, HalfUpgradeAdoptsNothing, OneAccountPerEmail, ExplainedInv,
     vars, tables, program, Unowned, TenantIds

-----------------------------------------------------------------------------
(* The theorems *)

LEMMA NextKeeps == ASSUME IInv, [Next]_vars PROVE IInv'
  BY UpgradeStartsKeeps, CreateUsersKeeps, AdoptKeeps, UpgradeCommitsKeeps, UpgradeFailsKeeps,
     DowngradeStartsKeeps, DowngradeCommitsKeeps, MigrationDiesKeeps, RunWithNewTenantKeeps,
     RunWithTenantKeeps, LookUpKeeps, CreateUserKeeps, RunEndsKeeps, OldReleaseAddsKeeps, AddsKeeps,
     StutterKeeps DEF Next

LEMMA Invariance == Spec => []IInv
  <1>1. IInv /\ [Next]_vars => IInv'
    BY NextKeeps
  <1> QED
    BY InitIInv, <1>1, PTL DEF Spec

\* The state keeps its types: at the revision, the tables of the revision are there.
THEOREM TypeCorrect == Spec => []TypeOK
  <1>1. IInv => TypeOK
    BY DEF IInv
  <1> QED
    BY Invariance, <1>1, PTL

\* At the revision every row has a tenant, and an incident its system's (upgrade() of the
\* tenancy migration, against rows that are added while it runs).
THEOREM IncidentsFollowSystemsHolds == Spec => []IncidentsFollowSystems
  <1>1. IInv => IncidentsFollowSystems
    BY DEF IInv
  <1> QED
    BY Invariance, <1>1, PTL

\* No row names a tenant that is not there, as long as nothing was downgraded.
THEOREM OwnersKnownHolds == Spec => []OwnersKnown
  <1>1. IInv => OwnersKnown
    BY DEF IInv
  <1> QED
    BY Invariance, <1>1, PTL

\* An upgrade that did not get to its end has given nothing to the default tenant.
THEOREM HalfUpgradeAdoptsNothingHolds == Spec => []HalfUpgradeAdoptsNothing
  <1>1. IInv => HalfUpgradeAdoptsNothing
    BY DEF IInv
  <1> QED
    BY Invariance, <1>1, PTL

\* What is in the way of an upgrade was left by one that was broken off, or on PostgreSQL by a
\* downgrade.
THEOREM StuckUpgradeExplainedHolds == Spec => []StuckUpgradeExplained
  <1>1. IInv => StuckUpgradeExplained
    BY DEF IInv, SchemaInv, StuckUpgradeExplained
  <1> QED
    BY Invariance, <1>1, PTL

\* However many runs have found an e-mail free, one makes the account (uq_user_email).
THEOREM OneAccountPerEmailHolds == Spec => []OneAccountPerEmail
  <1>1. IInv => OneAccountPerEmail
    BY DEF IInv
  <1> QED
    BY Invariance, <1>1, PTL

\* A tenant without users was left by a run that ended after create_tenant had committed, or
\* its run is still under way.
THEOREM EmptyTenantsExplainedHolds == Spec => []EmptyTenantsExplained
  <1>1. IInv => EmptyTenantsExplained
    BY DEF IInv, ExplainedInv, EmptyTenantsExplained
  <1> QED
    BY Invariance, <1>1, PTL

=============================================================================
