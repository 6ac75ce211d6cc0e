SPECIFICATION Spec
CONSTANTS
    CharBits = 8
    BaudCounts = 2
    PinCmds = {"7"}
    OtherCmds = {}
    Builds <- ConsoleBuild
    SockCap = 1
    Chars <- TwoChars
    Keys = {}
    SocBit = 32
INVARIANT ConsoleHears
CHECK_DEADLOCK FALSE
