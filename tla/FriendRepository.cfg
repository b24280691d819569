CONSTANT UserId = {1, 2, 3}
SPECIFICATION Spec
INVARIANT TypeOK
INVARIANT RowsNormalized
INVARIANT OneRowPerPair
INVARIANT MutualConsent
INVARIANT PendingIsOneSided
INVARIANT FriendListAgreesWithGate
INVARIANT IncomingIsAnswerable
PROPERTY FriendsForever
