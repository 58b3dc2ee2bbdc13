SPECIFICATION FairSpec
CONSTANTS
    Blocks = {b1, b2}
    Contexts = {main, task, thread}
    Root = main
    c1 = c1
    c2 = c2
    Classes = {c1, c2}
    Lists <- MCLists
    None = none
INVARIANTS
    CountsExact
    CoveredWhileNeeded
    InnermostIsCurrent
PROPERTIES
    NeverGuesses
    BlocksGetThrough
CHECK_DEADLOCK FALSE
