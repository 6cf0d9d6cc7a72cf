SPECIFICATION RelaySpec
CONSTANTS
    Letters <- MCLetters
    Sockets = {a, b}
    SubIds = {s1, s2}
    FilterSets <- AskAll
    MaxSubscriptions = 1
    DefaultQueryLimit = 1
    MaxQueryLimit = 2
    Sent <- FewEvents
    Rejected = {}
    Unstorable = {}
    Text = 99
INVARIANT NothingMissed
CHECK_DEADLOCK FALSE
