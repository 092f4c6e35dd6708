SPECIFICATION AnyPhoneSpec
CONSTANTS
    ListNames = {sample, milk}
    ItemNames = {test}
    sampleList = sample
    testItem = test
    Accounts = {ann, bob}
    defUid = def
    Nil = Nil
    Existing = {ann}
    Here = {ann, bob}
    DuplicateNames = FALSE
    OtherDevices = TRUE
    Reinstalls = TRUE
    MaxLists = 2
    MaxItems = 2
    MaxEvents = 3
INVARIANTS
    TypeOK
    OneOwnerOnDisk
    DefaultDiskIsScreen
PROPERTIES
    MergeAgrees
    DefaultUserLosesNothing
CHECK_DEADLOCK FALSE
