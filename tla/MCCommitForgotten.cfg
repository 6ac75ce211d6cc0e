CONSTANTS
    Scenarios <- ForgottenScenarios
    Entries = 4
    CreateWidth = 2
    None = None
SPECIFICATION Spec
PROPERTIES FlushSparesCommitted
