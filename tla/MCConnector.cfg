CONSTANTS
    Caller = {c1, c2}
    Provider = {p1, p2}
    Sub = {s1, s2}
    Buf = 2
    Cap = 1
    None = None
SPECIFICATION FairSpec
INVARIANTS OneLiveSession ConnectOwnsSlot PumpDoneClosedOnce OneSessionPerSub
PROPERTIES SubsClosedByOwner ImplementsStream EveryCallReturns ClosedStreamReachesSubs
