SPECIFICATION QuietSpec
CONSTANTS
    RxSize = 2
    LongChunk = 2
    StreamSize = 1
    MaxReply = 2
INVARIANTS
    SenderIsSafe
    SessionIsClosed
    OneFrameInFlight
PROPERTIES
    StopReturns
    ImplementsLife
