SPECIFICATION FairSpec
CONSTANTS
    Letters <- MCLetters
    Sockets = {a, b}
    SubIds = {s1, s2}
    FilterSets <- AskBadly
    MaxSubscriptions = 1
    DefaultQueryLimit = 1
    MaxQueryLimit = 1
    Sent <- SomeEvents
    Rejected <- Bad
    Unstorable <- Refused
    Text = 99
INVARIANTS RelayTypeOK Guardrails HubIsRight NoneOwed
PROPERTY HandlerReturns
CHECK_DEADLOCK FALSE
