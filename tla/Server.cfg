CONSTANTS
    Login = {"alice", "bob"}
    Password = {"p"}
    Conn = {c1}
    TokenTTL = 1
    Interval = 1
    Requests <- AllRequests
    SavedUsers <- NoUsers
    SavedFriendships <- NoFriendships
    MaxTokens = 2
    MaxTime = 0
    MaxMessages = 1
    MaxOutbox = 2
SYMMETRY ConnSymmetry
SPECIFICATION Spec
INVARIANT TypeOK
INVARIANT OnlyFriendsExchange
PROPERTY ImplementsStore
