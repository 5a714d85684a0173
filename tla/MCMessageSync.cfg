CONSTANTS
    a1 = a1  a2 = a2
    m1 = m1  m2 = m2
    None = None
    Account = {a1, a2}
    Admin = {a1}
    Msg = {m1, m2}
    By <- MCBy
    Names <- MCNames
    Echoed <- MCEchoed
    SendAll = {m1}
    EchoAll = {m2}
    Files = {m1}
    ReadMax = 1
SPECIFICATION LiveSpec
INVARIANTS MergedRecord StayedGetIt NoOneStale
PROPERTIES RecordOnlyGrows ImplementsInbox EveryoneCatchesUp
