\* An amendment leaves the crosswalks of its requirement on the old version.
SPECIFICATION Spec
CONSTANTS
    k1 = k1
    k2 = k2
    c1 = c1
    c2 = c2
    x1 = x1
    NoRow = NoRow
    Keys = {k1, k2}
    Editors = {e1}
    Seeders = {s1}
    NSources = 2
    NFrameworks = 2
    MaxVersion = 2
    SourceOf <- MCSourceOf
    CrosswalkSeeds <- MCCrosswalkSeeds
    SeedConditions <- MCSeedConditions
    SeedExceptions <- MCSeedExceptions
INVARIANT CrosswalkSurvivesAmendment
