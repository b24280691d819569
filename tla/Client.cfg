CONSTANTS
    Login = {"alice", "ann"}
    Peer = {"bob", "carol"}
    SavedTokens <- OneToken
    SavedMail <- OneMessage
    HistoryLimit = 1
    MaxClicks = 3
    MaxEvents = 1
SPECIFICATION Spec
ACTION_CONSTRAINT Reduced
CHECK_DEADLOCK FALSE
INVARIANT TypeOK
INVARIANT ScreenMatchesToken
INVARIANT SessionMatchesToken
INVARIANT FriendListFresh
INVARIANT ChatListFresh
INVARIANT PageComplete
INVARIANT PageOfItsPeer
PROPERTY MainUntilLogout
