---------------------------- MODULE Provisioning ----------------------------
(***************************************************************************)
(* How a database comes to have tenants: the migration that brings tenancy *)
(* to an older install, up and down, and scripts/create_user.py, the only  *)
(* way a tenant or a user is made.  The programs that use the database     *)
(* meanwhile, the release before tenancy and this one, are seen by the     *)
(* rows they add.                                                          *)
(*                                                                         *)
(* Alembic runs a revision in one transaction on PostgreSQL.  On SQLite    *)
(* the driver opens a transaction at the first INSERT or UPDATE: the DDL   *)
(* before it is committed statement by statement, what follows is          *)
(* committed with the version, and shuts other writers out until then.     *)
(*                                                                         *)
(* Systems are the rows of ai_systems; assessment_records, treated alike,  *)
(* is left out.  A tenant id is the number of tenants made before it.      *)
(***************************************************************************)
EXTENDS Naturals, FiniteSets

CONSTANTS
    Databases,      \* among "sqlite" and "postgresql"
    Systems,        \* ids of rows of ai_systems; of each, one incident
    Emails,
    Runs,           \* bound: runs of create_user.py at a time
    MaxTenants,     \* bound: tenants made by it
    MaxDeaths,      \* bound: migrations broken off
    MaxDowngrades,  \* bound: downgrades
    NoTenant,       \* tenant_id is NULL, or there is no such column
    Absent          \* no such row

ASSUME ProvisioningAssumption ==
    /\ Databases \subseteq {"sqlite", "postgresql"}
    /\ {MaxTenants, MaxDeaths, MaxDowngrades} \subseteq Nat
    /\ NoTenant # Absent /\ {NoTenant, Absent} \cap Nat = {}

VARIABLES
    database,        \* which one it is
    version,         \* alembic_version: before the revision, or at it
    schema,          \* of what the revision creates, what is there, committed
    tenants, users,  \* tables
    owner,           \* ai_systems.tenant_id
    incident,        \* incidents.tenant_id, by system
    migration,       \* the alembic process, with the systems it has adopted, uncommitted
    runs,            \* the runs of create_user.py
    made,            \* tenants made so far
    abandoned,       \* history: tenants whose run ended without a user
    deaths, downgrades

tables == <<tenants, users, owner, incident>>
program == <<runs, made, abandoned>>
vars == <<database, version, schema, tables, migration, program, deaths, downgrades>>

\* DEFAULT_TENANT_ID
Default == 0

NoMigration == [pc |-> "none", adopted |-> {}]
NoRun == [pc |-> "none", email |-> Absent, tenant |-> NoTenant, new |-> FALSE]

Unowned == {s \in Systems : owner[s] = NoTenant}

\* SQLite has one writer at a time.
Writable == ~(database = "sqlite" /\ migration.pc = "adopted")

-----------------------------------------------------------------------------
(* The migration *)

\* DDL outside a transaction is committed at once; inside one it is seen at its end.
Created(names) == IF database = "sqlite" THEN schema \cup names ELSE schema

\* CREATE TABLE tenants, which must not be there
UpgradeStarts ==
    /\ version = "before" /\ migration.pc = "none"
    /\ "tenants" \notin schema
    /\ migration' = [pc |-> "tenants", adopted |-> {}]
    /\ schema' = Created({"tenants"})
    /\ UNCHANGED <<database, version, tables, program, deaths, downgrades>>

\* CREATE TABLE users and its index; on PostgreSQL its role is a type of its own
CreateUsers ==
    /\ migration.pc = "tenants"
    /\ {"users", "userrole"} \cap schema = {}
    /\ migration' = [migration EXCEPT !.pc = "users"]
    /\ schema' = Created({"users"})
    /\ UNCHANGED <<database, version, tables, program, deaths, downgrades>>

\* The default tenant is inserted, and every row without a tenant given to it.
Adopt ==
    /\ migration.pc = "users"
    /\ migration' = [pc |-> "adopted", adopted |-> Unowned]
    /\ UNCHANGED <<database, version, schema, tables, program, deaths, downgrades>>

\* Mutant: incidents are given to the default tenant like the other rows
InheritNothing == [s \in Systems |-> IF incident[s] = Absent THEN Absent ELSE Default]

\* the incidents take the tenant of their system
Inherit ==
    [s \in Systems |->
        IF incident[s] = Absent THEN Absent
        ELSE IF owner[s] = NoTenant THEN Default ELSE owner[s]]

Seeded == tenants \cup {Default}

Upgraded ==
    schema \cup {"tenants", "users"} \cup (IF database = "postgresql" THEN {"userrole"} ELSE {})

\* The tenants of the incidents, NOT NULL wherever there is no NULL, and the new version.
UpgradeCommits ==
    /\ migration.pc = "adopted"
    /\ Unowned \subseteq migration.adopted
    /\ version' = "at" /\ migration' = NoMigration
    /\ schema' = Upgraded
    /\ tenants' = Seeded
    /\ owner' = [s \in Systems |-> IF s \in migration.adopted THEN Default ELSE owner[s]]
    /\ incident' = Inherit
    /\ UNCHANGED <<database, users, program, deaths, downgrades>>

\* NOT NULL is refused, or the type is already there: all is rolled back.
UpgradeFails ==
    /\ \/ migration.pc = "adopted" /\ ~(Unowned \subseteq migration.adopted)
       \/ migration.pc = "tenants" /\ {"users", "userrole"} \cap schema # {}
    /\ migration' = NoMigration
    /\ UNCHANGED <<database, version, schema, tables, program, deaths, downgrades>>

\* The process is killed, or a statement fails, as on SQLite while another process holds its
\* lock: what was committed stays.
MigrationDies ==
    /\ deaths < MaxDeaths
    /\ migration.pc # "none"
    /\ deaths' = deaths + 1
    /\ migration' = NoMigration
    /\ UNCHANGED <<database, version, schema, tables, program, downgrades>>

\* The first statement of the downgrade makes the copy that becomes incidents.
DowngradeStarts ==
    /\ version = "at" /\ migration.pc = "none"
    /\ downgrades < MaxDowngrades
    /\ "copy" \notin schema
    /\ migration' = [pc |-> "copy", adopted |-> {}]
    /\ schema' = Created({"copy"})
    /\ UNCHANGED <<database, version, tables, program, deaths, downgrades>>

\* Mutant: the users table stays
DowngradedButUsers == schema \cap {"users", "userrole"}

\* the tables are dropped, not the type
Downgraded == schema \cap {"userrole"}

\* Users, tenants and the tenants of incidents are dropped, not those of the other rows.
\* PostgreSQL waits for the runs that have read the tables.
DowngradeCommits ==
    /\ migration.pc = "copy"
    /\ database = "postgresql" =>
          \A r \in Runs : runs[r].pc = "none" \/ (runs[r].pc = "look up" /\ runs[r].new)
    /\ version' = "before" /\ migration' = NoMigration
    /\ schema' = Downgraded
    /\ tenants' = {} /\ users' = {}
    /\ incident' = [s \in Systems |-> IF incident[s] = Absent THEN Absent ELSE NoTenant]
    /\ downgrades' = downgrades + 1
    /\ UNCHANGED <<database, owner, program, deaths>>

-----------------------------------------------------------------------------
(* create_user.py *)

Becomes(r, run) == runs' = [runs EXCEPT ![r] = run]

\* --tenant: create_tenant commits the tenant before anything else is looked at.
RunWithNewTenant(r, email) ==
    /\ runs[r].pc = "none"
    /\ "tenants" \in schema /\ Writable
    /\ made < MaxTenants
    /\ made' = made + 1
    /\ tenants' = tenants \cup {made'}
    /\ Becomes(r, [pc |-> "look up", email |-> email, tenant |-> made', new |-> TRUE])
    /\ UNCHANGED <<database, version, schema, users, owner, incident, migration, abandoned,
                   deaths, downgrades>>

\* --tenant-id
RunWithTenant(r, email, t) ==
    /\ runs[r].pc = "none"
    /\ t \in tenants
    /\ Becomes(r, [pc |-> "look up", email |-> email, tenant |-> t, new |-> FALSE])
    /\ UNCHANGED <<database, version, schema, tables, migration, made, abandoned, deaths, downgrades>>

Taken(email) == \E u \in users : u.email = email

\* The e-mail is free; the passwords are asked for.
LookUp(r) ==
    /\ runs[r].pc = "look up"
    /\ "users" \in schema
    /\ ~Taken(runs[r].email)
    /\ Becomes(r, [runs[r] EXCEPT !.pc = "prompts"])
    /\ UNCHANGED <<database, version, schema, tables, migration, made, abandoned, deaths, downgrades>>

\* Mutant: the user is put in the tenant that every database has
CreateUserByDefault(r) ==
    /\ runs[r].pc = "prompts"
    /\ "users" \in schema /\ Writable
    /\ ~Taken(runs[r].email)
    /\ users' = users \cup {[email |-> runs[r].email, tenant |-> Default]}
    /\ Becomes(r, NoRun)
    /\ UNCHANGED <<database, version, schema, tenants, owner, incident, migration, made,
                   abandoned, deaths, downgrades>>

\* create_user: uq_user_email holds, and on PostgreSQL the foreign key, which SQLite leaves
\* unchecked unless told otherwise.
CreateUser(r) ==
    /\ runs[r].pc = "prompts"
    /\ "users" \in schema /\ Writable
    /\ ~Taken(runs[r].email)
    /\ database = "postgresql" => runs[r].tenant \in tenants
    /\ users' = users \cup {[email |-> runs[r].email, tenant |-> runs[r].tenant]}
    /\ Becomes(r, NoRun)
    /\ UNCHANGED <<database, version, schema, tenants, owner, incident, migration, made,
                   abandoned, deaths, downgrades>>

\* The e-mail is taken, the passwords differ or are too short, the database refuses, or the
\* run is interrupted.
RunEnds(r) ==
    /\ runs[r].pc # "none"
    /\ abandoned' = abandoned \cup (IF runs[r].new THEN {runs[r].tenant} ELSE {})
    /\ Becomes(r, NoRun)
    /\ UNCHANGED <<database, version, schema, tables, migration, made, deaths, downgrades>>

-----------------------------------------------------------------------------
(* The applications *)

\* The release before tenancy adds a system, or an incident of one.
OldReleaseAdds(s) ==
    /\ version = "before" /\ Writable
    /\ \/ /\ owner[s] = Absent
          /\ owner' = [owner EXCEPT ![s] = NoTenant]
          /\ UNCHANGED incident
       \/ /\ owner[s] # Absent /\ incident[s] = Absent
          /\ incident' = [incident EXCEPT ![s] = NoTenant]
          /\ UNCHANGED owner
    /\ UNCHANGED <<database, version, schema, tenants, users, migration, program, deaths, downgrades>>

\* This release adds a system for a user, which takes no more than the tables it reads, or an
\* incident of one of the tenant's systems, which takes the column.
Adds(u, s) ==
    /\ Writable
    /\ \/ /\ owner[s] = Absent
          /\ owner' = [owner EXCEPT ![s] = u.tenant]
          /\ UNCHANGED incident
       \/ /\ version = "at"
          /\ owner[s] = u.tenant /\ incident[s] = Absent
          /\ incident' = [incident EXCEPT ![s] = u.tenant]
          /\ UNCHANGED owner
    /\ UNCHANGED <<database, version, schema, tenants, users, migration, program, deaths, downgrades>>

Init ==
    /\ database \in Databases
    /\ version = "before" /\ schema = {}
    /\ tenants = {} /\ users = {}
    /\ owner = [s \in Systems |-> Absent]
    /\ incident = [s \in Systems |-> Absent]
    /\ migration = NoMigration
    /\ runs = [r \in Runs |-> NoRun]
    /\ made = 0 /\ abandoned = {}
    /\ deaths = 0 /\ downgrades = 0

Next ==
    \/ UpgradeStarts \/ CreateUsers \/ Adopt \/ UpgradeCommits \/ UpgradeFails
    \/ DowngradeStarts \/ DowngradeCommits \/ MigrationDies
    \/ \E r \in Runs, e \in Emails :
         RunWithNewTenant(r, e) \/ \E t \in tenants : RunWithTenant(r, e, t)
    \/ \E r \in Runs : LookUp(r) \/ CreateUser(r) \/ RunEnds(r)
    \/ \E s \in Systems : OldReleaseAdds(s) \/ \E u \in users : Adds(u, s)

Spec == Init /\ [][Next]_vars

-----------------------------------------------------------------------------
(* Properties *)

TenantIds == 0..MaxTenants

\* The type invariant.
TypeOK ==
    /\ database \in Databases /\ version \in {"before", "at"}
    /\ schema \subseteq {"tenants", "users", "userrole", "copy"}
    /\ version = "at" => {"tenants", "users"} \subseteq schema
    /\ tenants \subseteq TenantIds
    /\ users \subseteq [email: Emails, tenant: TenantIds]
    /\ owner \in [Systems -> TenantIds \cup {NoTenant, Absent}]
    /\ incident \in [Systems -> TenantIds \cup {NoTenant, Absent}]
    /\ migration \in [pc: {"none", "tenants", "users", "adopted", "copy"}, adopted: SUBSET Systems]
    /\ runs \in [Runs -> [pc: {"none", "look up", "prompts"}, email: Emails \cup {Absent},
                          tenant: TenantIds \cup {NoTenant}, new: BOOLEAN]]
    /\ made \in 0..MaxTenants /\ abandoned \subseteq 1..made
    /\ deaths \in 0..MaxDeaths /\ downgrades \in 0..MaxDowngrades

\* At the revision every row has a tenant, and an incident never another than its system's,
\* whatever was added while the migration ran and whatever an earlier downgrade left behind.
IncidentsFollowSystems ==
    version = "at" =>
        \A s \in Systems : owner[s] # NoTenant /\ incident[s] \in {Absent, owner[s]}

\* The tenant of a row exists, the default one that adopted it included. (A downgrade drops the
\* tenants and leaves their ids in the rows.)
OwnersKnown ==
    downgrades = 0 =>
        \A s \in Systems : owner[s] \in tenants \cup {NoTenant, Absent}

\* An upgrade that fails or dies on the way has changed no row: there is no default tenant and
\* nothing is its own until the version says so.
HalfUpgradeAdoptsNothing ==
    (version = "before" /\ downgrades = 0) =>
        /\ Default \notin tenants
        /\ \A s \in Systems : owner[s] # Default

\* The upgrade finds in its way only what one that was broken off, killed or failed between two
\* statements, left on SQLite, or the type that a downgrade left on PostgreSQL.  A first upgrade
\* that nothing disturbs finds its way clear, and so does one after a downgrade on SQLite.
StuckUpgradeExplained ==
    (version = "before" /\ migration.pc = "none" /\ schema # {}) =>
        IF database = "sqlite" THEN deaths > 0 ELSE downgrades > 0

\* Two runs with one e-mail make one account, though both have found it free.
OneAccountPerEmail == \A u, v \in users : u.email = v.email => u = v

\* A tenant without users is the default one, that of a run under way, or of one that ended
\* after create_tenant had committed.
EmptyTenantsExplained ==
    \A t \in tenants \ {Default} :
        \/ \E u \in users : u.tenant = t
        \/ \E r \in Runs : runs[r].pc # "none" /\ runs[r].tenant = t
        \/ t \in abandoned

=============================================================================
