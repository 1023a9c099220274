\* The tenancy migration, up, down and up again, broken off where it can be, beside two runs of
\* create_user.py and the applications that use the database.
SPECIFICATION Spec
CONSTANTS
    Databases = {"sqlite", "postgresql"}
    Systems = {s1, s2}
    Emails = {ann, bob}
    Runs = {r1, r2}
    MaxTenants = 2
    MaxDeaths = 2
    MaxDowngrades = 1
    NoTenant = NoTenant
    Absent = Absent
SYMMETRY Symmetry
INVARIANTS IncidentsFollowSystems StuckUpgradeExplained EmptyTenantsExplained
CHECK_DEADLOCK FALSE
