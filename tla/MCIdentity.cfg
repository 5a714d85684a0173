CONSTANTS
    Account = {root, a1}
    Target = {a1}
    Root = root
    Name = {n0, n1, n2}
    RootName = n0
    Bot = {b1, b2}
    RootBot = b1
    Token = {t0, t1}
    RootToken = t0
    Op = {o1, o2}
    None = None
SYMMETRY Symmetry
SPECIFICATION Spec
INVARIANTS NamesInSync FieldsAsAsked IdentityMatchesToken NoOrphanToken
