SPECIFICATION Spec
CONSTANTS
    ListNames = {sample, milk}
    ItemNames = {test, pen}
    sampleList = sample
    testItem = test
    Accounts = {}
    defUid = def
    Nil = Nil
    MaxLists = 2
    MaxItems = 2
    MaxTotal = 3
INVARIANTS
    DistinctNamesMerge
    CloudSideSurvives
CHECK_DEADLOCK FALSE
