SPECIFICATION Spec
CONSTANTS
    ListNames = {sample, milk}
    ItemNames = {test}
    sampleList = sample
    testItem = test
    Accounts = {ann}
    defUid = def
    Nil = Nil
    Existing = {}
    Here = {ann}
    DuplicateNames = FALSE
    OtherDevices = FALSE
    Reinstalls = FALSE
    MaxLists = 2
    MaxItems = 1
    MaxEvents = 2
PROPERTIES
    RegistrationSaves
CHECK_DEADLOCK FALSE
