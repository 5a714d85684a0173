CONSTANTS
    Proc = {p1, p2}
    Inode = {i1, i2}
    Account = {a1}
    Op = {o1, o2}
    Migrations = 2
    Statements = 2
    None = None
SYMMETRY Symmetry
SPECIFICATION Spec
CONSTRAINT Bound
INVARIANTS DataRootIsExclusive SchemaIsWhole RootTokenIsShown OnlineRowsAreServed
