SPECIFICATION SyncingSpec
CONSTANTS
    ann = ann
    bob = bob
    ListNames = {sample, milk}
    ItemNames = {test}
    sampleList = sample
    bobsList = milk
    TaggedNames = {milk}
    testItem = test
    Accounts = {ann, bob}
    defUid = def
    Nil = Nil
    Existing = {ann, bob}
    Here = {}
    DuplicateNames = FALSE
    OtherDevices = TRUE
    Reinstalls = TRUE
    MaxLists = 4
    MaxItems = 2
    MaxEvents = 2
INVARIANTS
    SharingTypeOK
    OnlySharedListsShown
PROPERTIES
    SharedEditsReachOwner
CHECK_DEADLOCK FALSE
