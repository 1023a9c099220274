CONSTANTS
    Categories <- MCCategories
    Prohibited = "prohibited_practices"
    HighRisk = "high_risk"
    Keys <- MCKeys
    KeysOf <- MCKeysOf
    DutyKeys = {"art9"}
    Cease = "cease"
    Sources <- MCSources
    Window <- MCWindow
    Dates = {1, 2}
    Limit = 1
    Nobody = Nobody
SPECIFICATION FairSpec
INVARIANTS Grounded TemporalFacts ClearedOnlyByEvidence DoubtReviewed TokensAccounted
PROPERTIES RequestsAnswered
