SPECIFICATION InputSpec
CONSTANTS
    w1 = w1
    w2 = w2
    sp = sp
    Part = {"commands", "config", "keys"}
    Inputs <- MCInputs
    AllCons <- MCCons
    ClassOf <- MCClassOf
    IdOf <- MCIdOf
    Main <- MainPath
    Contents <- MCContents
    Unreadable <- Locked
    Absolute <- MCAbsolute
    References <- MCReferences
    KeyLen <- MCKeyLen
    LowerCase <- MCLowerCase
    MaxLoads = 2
    MaxCalls = 2
    x = x
    y = y
    z = z
    shiftKey = shiftKey
    modKey = modKey
    Keys = {x, y, z, shiftKey, modKey}
    ModKeys <- ModifierKeys
    Keypad = {"KP_1", "KP_End"}
    Setups <- Plans
INVARIANTS
    GrabsFollow
    ReleaseRuns
    CriteriaReach
    MarksUnique
    LoadedAsWritten
CHECK_DEADLOCK FALSE
