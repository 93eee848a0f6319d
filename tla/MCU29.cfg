CONSTANTS
    Values    <- MCValues
    Followers <- MCFollowers
SPECIFICATION Spec
INVARIANTS
    TypeOK
    ReadsBack
    SelfDelimiting
    IncompleteIffCut
