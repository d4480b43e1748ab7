SPECIFICATION Spec
CONSTANTS
    RawConfigs <- MCRawConfigs
    MaxRows = 2
    Fields <- MCFields
    None = None
INVARIANTS
    CategoriesAreFound
    PairsMeetTheConstraints
    VerdictsFollowTheContract
CHECK_DEADLOCK FALSE
