\* Two runs, the first of which may be cut short.
CONSTANTS
    Tags <- SmokeTags
    NoTag = NoTag
    Addresses = {}
    NoAddress = NoAddress
    lower <- SameCase
    Budget = 4
    Systems <- Wrong
    Minutes = {10, 11}
    MaxRuns = 2
    MaxSlow = 1
    MaxRetries = 1
    MaxReplies = 1
SPECIFICATION FairSpec
INVARIANTS
    TypeOK
    PassMeansFuse
    NoFalseAlarm
PROPERTIES
    AgentsComeBack
CHECK_DEADLOCK FALSE
