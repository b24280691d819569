CONSTANTS
    Login = {"alice", "bob"}
    Password = {"p"}
    Conn = {c1, c2}
    TokenTTL = 1
    Interval = 1
    Requests <- PresenceRequests
    SavedUsers <- TwoUsers
    SavedFriendships <- NoFriendships
    MaxTokens = 2
    MaxTime = 0
    MaxMessages = 0
    MaxOutbox = 1
SYMMETRY ConnSymmetry
SPECIFICATION Spec
INVARIANT OnlineIsReachable
