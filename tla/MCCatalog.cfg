\* Two calls of any operation on a small catalogue.
CONSTANTS
    a = a
    b = b
    p = p
    v = v
    Categories = {a, b}
    Products = {p}
    Variants = {v}
    NoParent = NoParent
    Tree = Tree
    NoEntry = NoEntry
    Calls = {c1, c2}
    Nobody = Nobody
    Operations = {"create", "move", "edit", "remove", "get"}
    InitialTables <- MCInitialTables
SYMMETRY CallSymmetry
SPECIFICATION Spec
INVARIANTS
    TypeOK
PROPERTIES
    OrphansOnlyFromOverlap
    LinksStay
    NotNullFailsOnlyTheOutdated
