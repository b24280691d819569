CONSTANTS
    Radix = 4
    Request <- SomeRequests
    Answer <- SomeAnswers
    Push <- SomePushes
    MaxRequests = 2
    MaxPushes = 1
SPECIFICATION FairSpec
CHECK_DEADLOCK FALSE
INVARIANT AnswersPaired
INVARIANT TruncationRefused
PROPERTY ImplementsHandler
PROPERTY RequestsAnswered
