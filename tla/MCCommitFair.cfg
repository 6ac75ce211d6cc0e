CONSTANTS
    Scenarios <- FairScenarios
    Entries = 3
    CreateWidth = 2
    None = None
SPECIFICATION FairSpec
PROPERTIES AsyncTaken IntTaken
