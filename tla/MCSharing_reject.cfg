SPECIFICATION ShownSpec
CONSTANTS
    ann = ann
    bob = bob
    ListNames = {sample, milk}
    ItemNames = {test}
    sampleList = sample
    bobsList = milk
    TaggedNames = {milk}
    testItem = test
    Accounts = {ann, bob}
    defUid = def
    Nil = Nil
    Existing = {ann, bob}
    Here = {}
    DuplicateNames = FALSE
    OtherDevices = FALSE
    Reinstalls = FALSE
    MaxLists = 4
    MaxItems = 2
    MaxEvents = 1
PROPERTIES
    RejectRemovesInvitation
CHECK_DEADLOCK FALSE
