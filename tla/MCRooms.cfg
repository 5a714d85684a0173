CONSTANTS
    Account = {a1, a2}
    Bot = {b1, b2}
    Room = {r1}
    Op = {o1, o2}
    None = None
SYMMETRY Symmetry
SPECIFICATION Spec
INVARIANTS ChannelsAreOwned RowsMatchPermissions NoMemberOfNothing StaleIsPending
