CONSTANTS
    Caller = {c1,c2}
    Provider = {p1,p2}
    Sub = {s1,s2}
    Buf = 1
    Cap = 1
    None = None
SYMMETRY Symmetry
SPECIFICATION LifecycleSpec
INVARIANTS NoHiddenSession OnlineIsServed
