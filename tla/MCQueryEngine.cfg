CONSTANTS
    Names <- MCNames
    WkiNames = {"x:y"}
    UInts <- MCUInts
    Overflows = {"99"}
    HasPrefix <- MCHasPrefix
    Like <- MCLike
    Queries <- MCQueries
    Strays <- MCStrays
    Databases <- MCDatabases
SPECIFICATION Spec
INVARIANTS
    StackBalanced
    ParsesBack
    Resolves
    AnswersAgree
    IndexSound
CHECK_DEADLOCK FALSE
