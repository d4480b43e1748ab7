SPECIFICATION Spec
CONSTANTS
    SAMPLE_BYTES = 2
    ChunkBytes = 2
    Ceiling = 5
    Epsilon = 1
    MinConfidence = 50
    Chaos = {0}
    File <- MCFile
    Replacements <- MCReplacements
    Honest = TRUE
INVARIANT WellFormedFilesAreRead
CHECK_DEADLOCK FALSE
