SPECIFICATION Spec
CONSTANTS
    Harts = {h0, h1}
    h0 = h0
    h1 = h1
    Sources = {1, 2}
    PerRound = 2
    Rounds = 2
    MaxPrio = 1
    FirstEnables <- NoneOrAll
    MaxWrites = 1
INVARIANTS Arbitrated ClaimedOnce LevelKept
SYMMETRY Symmetry
