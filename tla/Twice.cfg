CONSTANTS
    Login = {"alice", "bob"}
    Password = {"p"}
    Conn = {c1, c2}
    TokenTTL = 1
    Interval = 1
    Requests <- MailRequests
    SavedUsers <- TwoUsers
    SavedFriendships <- TwoFriends
    MaxTokens = 3
    MaxTime = 0
    MaxMessages = 1
    MaxOutbox = 2
SYMMETRY ConnSymmetry
SPECIFICATION Spec
PROPERTY PostedOnce
