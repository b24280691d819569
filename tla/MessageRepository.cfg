CONSTANTS
    Party = {1, 2, 3}
    Limit = 2
    MaxMessages = 4
    MaxTime = 2
SPECIFICATION Spec
INVARIANT TypeOK
INVARIANT HistoryIsOldest
INVARIANT ChatListIsNewest
PROPERTY BacklogsIndependent
