SPECIFICATION Spec
CONSTANTS
    SAMPLE_BYTES = 2
    ChunkBytes = 2
    Ceiling = 5
    Epsilon = 1
    MinConfidence = 50
    Chaos = {0, 1, 2, 60}
    File <- MCFile
    Replacements <- MCReplacements
    Honest = FALSE
INVARIANTS
    CeilingIsExact
    SampleIsExact
    TextIsAsDeclared
CHECK_DEADLOCK FALSE
