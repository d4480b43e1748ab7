SPECIFICATION Spec
CONSTANTS
    MaxRuns = 2
    MaxDay = 2
    MaxTroubles = 2
    RetentionDays = 1
    seed <- MCSeed
INVARIANTS
    TypeOK
    SuccessMeansChildrenSucceeded
    ReportsSeeTheirRun
    SummaryIsOfThisRun
PROPERTY RunsEnd
CHECK_DEADLOCK FALSE
