CONSTANTS
    Login = {"alice", "bob"}
    Password = {"p"}
    Conn = {c1, c2}
    TokenTTL = 1
    Interval = 1
    Requests <- MailRequests
    SavedUsers <- TwoUsers
    SavedFriendships <- TwoFriends
    MaxTokens = 2
    MaxTime = 1
    MaxMessages = 2
    MaxOutbox = 1
SYMMETRY ConnSymmetry
SPECIFICATION Spec
INVARIANT NothingForgotten
INVARIANT BacklogOnlyOffline
INVARIANT QueuedForItsRecipient
PROPERTY BacklogInOrder
