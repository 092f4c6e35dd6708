SPECIFICATION SignedInSpec
CONSTANTS
    ListNames = {sample, milk}
    ItemNames = {test}
    sampleList = sample
    testItem = test
    Accounts = {ann}
    defUid = def
    Nil = Nil
    Existing = {ann}
    Here = {ann}
    DuplicateNames = FALSE
    OtherDevices = FALSE
    Reinstalls = FALSE
    MaxLists = 2
    MaxItems = 1
    MaxEvents = 1
PROPERTIES
    ToggleIsInCloud
CHECK_DEADLOCK FALSE
