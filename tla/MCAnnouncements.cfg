CONSTANTS
    user = user
    Account <- Users
    Admin <- Users
    Watcher <- Users
    Op = {o1, o2}
    System = {s1}
    MaxVersion = 2
SYMMETRY Symmetry
SPECIFICATION Spec
INVARIANTS NothingPassesUnread StaleFrameIsReplaced
