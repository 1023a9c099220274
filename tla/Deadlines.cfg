\* Two systems assessed for dates before and on an application date, read around midnight
\* of the anniversary of a leap day, with deletions, the purge and two incidents.
SPECIFICATION Spec
CONSTANTS
    Systems = {s1, s2}
    Categories <- MCCategories
    Start <- MCStart
    Days <- MCDays
    AsOfDates <- MCAsOfDates
    Retention = 90
    MaxRecords = 2
    Incidents <- MCIncidents
    Severity <- MCSeverity
    Detected <- MCDetected
SYMMETRY Symmetry
INVARIANTS DueIsAnniversary UpcomingIsFirst OverdueIsBackdated PageComplete OverdueListedFirst
