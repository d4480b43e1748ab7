SPECIFICATION Spec
CONSTANTS
    MaxGenerators = 3
    MaxOverlap = 2
    MaxDay = 2
    NoFile = NoFile
    Closed = Closed
    Detached = Detached
INVARIANTS
    TypeOK
    WatchedFilesAreWhole
    LoneGeneratorPublishes
PROPERTY
    ImplementsPublication
CHECK_DEADLOCK FALSE
