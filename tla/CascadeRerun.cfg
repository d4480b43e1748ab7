SPECIFICATION Spec
CONSTANTS
    MaxRuns = 1
    MaxDay = 1
    MaxTroubles = 1
    RetentionDays = 1
    seed <- MCSeed
INVARIANT RerunsAreNoOps
CHECK_DEADLOCK FALSE
