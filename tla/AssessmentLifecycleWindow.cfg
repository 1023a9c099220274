\* An amendment between the classification and the record is never flagged.
SPECIFICATION Spec
CONSTANTS
    NoName = NoName
    NoTime = NoTime
    Keys = {k1}
    DutyKeys = {k1}
    Names = {n1}
    Tabs = {t1}
    Retention = 1
    MaxTime = 4
    MaxVersion = 2
    MaxRecords = 1
INVARIANT StaleConclusionsAreFlagged
CHECK_DEADLOCK FALSE
