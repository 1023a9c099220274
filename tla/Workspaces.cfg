SPECIFICATION Spec
CONSTANTS
    acme = acme
    globex = globex
    ann = ann
    bob = bob
    cat = cat
    vic = vic
    Tenants = {acme, globex}
    Users = {ann, bob, cat, vic}
    TenantOf <- MCTenantOf
    MayWrite = {ann, bob, cat}
    Names = {"screener"}
    Requests = {q1, q2}
    PageLimit = 1
    MaxRows = 3
    MaxMarks = 3
    Cron = Cron
    NoTenant = NoTenant
    Nobody = Nobody
SYMMETRY Alike
INVARIANTS PagesAreOwn ChildrenStayHome ReporterMarked NoIsolationError HistoryComplete
PROPERTIES ImplementsTenantRooms
