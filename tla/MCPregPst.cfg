CONSTANTS
    ARegs = {x1, x2}
    Pregs = {p1, p2, p3, p4, p5}
    x1 = x1
    x2 = x2
    p1 = p1
    p2 = p2
    p3 = p3
    p4 = p4
    p5 = p5
    None = None
    Dsts = {x1, x2}
    NSlots = 2
    RobSize = 3
    RetireWidth = 2
    WbPorts = 1
    Debugger = FALSE
SPECIFICATION Spec
INVARIANTS CommittedUnique TableIsYoungest TableIsLive NoLeak MispredOldest NoStaleWriteBack FlushLosesNoResult
PROPERTIES RecoveryExact
SYMMETRY Symmetry
