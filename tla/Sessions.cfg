CONSTANTS
    Login = {"alice", "bob"}
    Password = {"p"}
    Conn = {c1, c2}
    TokenTTL = 1
    Interval = 1
    Requests <- SessionRequests
    SavedUsers <- TwoUsers
    SavedFriendships <- TwoFriends
    MaxTokens = 2
    MaxTime = 0
    MaxMessages = 1
    MaxOutbox = 1
SPECIFICATION FairSpec
PROPERTY QueuedLeaves
PROPERTY ClosedIsForgotten
PROPERTY ReachableUntilReplaced
