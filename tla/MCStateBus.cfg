CONSTANTS
    a = a  b = b
    s1 = s1  s2 = s2
    None = None
    Account = {a}
    Sub = {s1, s2}
    Of <- MCOf
    Fan = {f1, f2}
    Member = {a}
    MaxSubs = 1
    Buf = 1
    MaxData = 2
    MaxGet = 1
SPECIFICATION LiveSpec
INVARIANTS NobodyLeftBehind
PROPERTIES FramesInOrder WatchersCatchUp BusIsReleased
