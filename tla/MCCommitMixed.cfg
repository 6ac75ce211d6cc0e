CONSTANTS
    Scenarios <- MixedScenarios
    Entries = 4
    CreateWidth = 2
    None = None
SPECIFICATION Spec
INVARIANTS NeverOverflows RequestsInIdle SpecFailAlone
PROPERTIES FlushSparesCommitted
