CONSTANTS
    Caller = {c1,c2}
    Provider = {p1}
    Sub = {s1}
    Buf = 1
    Cap = 1
    None = None

SPECIFICATION LifecycleFairSpec
PROPERTIES EveryRequestEnds ClosedRunnerEnds
