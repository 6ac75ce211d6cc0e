SPECIFICATION Spec
CONSTANTS
    CharBits = 2
    BaudCounts = 2
    PinCmds = {"0", "7"}
    OtherCmds = {"Q", "B"}
    Builds <- BothBuilds
    SockCap = 1
    Chars <- TwoChars
    Keys <- OneKey
    SocBit = 2
INVARIANTS LoadFirst ConsoleHears TypedFrame
PROPERTIES LinkSpec TimeAdvances
CHECK_DEADLOCK FALSE
