CONSTANTS
    ARegs = {x1}
    Pregs = {p1, p2, p3, p4}
    x1 = x1
    p1 = p1
    p2 = p2
    p3 = p3
    p4 = p4
    None = None
    Dsts = {x1, None}
    NSlots = 2
    RobSize = 2
    RetireWidth = 2
    WbPorts = 1
    Debugger = TRUE
SPECIFICATION Spec
INVARIANTS CommittedUnique NoLeak NoOrphan
SYMMETRY Symmetry
