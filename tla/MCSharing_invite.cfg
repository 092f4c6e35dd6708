SPECIFICATION ShownFairSpec
CONSTANTS
    ann = ann
    bob = bob
    ListNames = {sample, milk}
    ItemNames = {test}
    sampleList = sample
    bobsList = milk
    TaggedNames = {milk}
    testItem = test
    Accounts = {ann, bob, eve}
    defUid = def
    Nil = Nil
    Existing = {ann, bob}
    Here = {eve}
    DuplicateNames = FALSE
    OtherDevices = FALSE
    Reinstalls = FALSE
    MaxLists = 4
    MaxItems = 2
    MaxEvents = 2
INVARIANTS
    OneOwnerOnDisk
    OnlySharedListsShown
PROPERTIES
    InvitationsArrive
    ObserversRest
    InvitedListsFetched
    InvitationsStay
CHECK_DEADLOCK FALSE
