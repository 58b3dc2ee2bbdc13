SPECIFICATION Spec
CONSTANTS
    Methods <- MCMethods
    AsciiFold <- MCFold
    UpperFold <- MCFold
    LowerFold <- MCLowerFold
    Requests <- MCRequests
    MatchConfigs <- MCMatchConfigs
    MaxLen = 3
INVARIANTS
    SortingKeepsReplay
    FileIndependentOfArrival
