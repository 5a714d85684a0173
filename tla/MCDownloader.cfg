CONSTANTS
    N = 3
    Limit = 2
    Dead <- DeadRows
    Echo <- EchoRows
    Lost <- LostRows
    Sized <- SizedRows
    Poll = 2
    Saturate = 2
    MaxBackoff = 3
    Word = 8
    MaxTries = 3
SPECIFICATION FairSpec
INVARIANTS MarkedIsWhole RetriesAreSpaced
PROPERTIES GoodRowsArrive ShutdownReturns
