SPECIFICATION LocalSpec
CONSTANTS
    ListNames = {sample, milk}
    ItemNames = {test, pen}
    sampleList = sample
    testItem = test
    Accounts = {}
    defUid = def
    Nil = Nil
    MaxLists = 2
    MaxItems = 2
INVARIANTS
    LocalTypeOK
    DiskMatchesScreen
    NeverRaises
PROPERTIES
    ImplementsDurableLists
