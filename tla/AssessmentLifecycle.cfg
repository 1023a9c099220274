\* Two assessments of one system while its requirement is amended twice, with purges,
\* killed purges, deletions, failures and a form sent again and again.
SPECIFICATION FairSpec
CONSTANTS
    NoName = NoName
    NoTime = NoTime
    Keys = {k1}
    DutyKeys = {k1}
    Names = {n1}
    Tabs = {t1}
    Retention = 2
    MaxTime = 6
    MaxVersion = 3
    MaxRecords = 2
INVARIANT AlertSound
PROPERTIES AlertPersists PurgeRevivesNothing RecordsExpire
CHECK_DEADLOCK FALSE
