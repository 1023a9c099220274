\* Two amendments racing over one seeded requirement, three versions deep, the
\* seed script running, dying and being repeated beside them.
SPECIFICATION FairSpec
CONSTANTS
    k1 = k1
    k2 = k2
    c1 = c1
    c2 = c2
    x1 = x1
    NoRow = NoRow
    Keys = {k1}
    Editors = {e1, e2}
    Seeders = {s1}
    NSources = 1
    NFrameworks = 1
    MaxVersion = 3
    SourceOf <- MCSourceOf
    CrosswalkSeeds <- MCCrosswalkSeeds
    SeedConditions <- MCSeedConditions
    SeedExceptions <- MCSeedExceptions
INVARIANTS OneLiveVersion ApplicabilityCarriedForward NoDuplicateCrosswalk
PROPERTIES HistoryAppendOnly AmendmentsConclude
