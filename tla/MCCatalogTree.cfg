\* The tree of a category with a child.
CONSTANTS
    a = a
    b = b
    p = p
    v = v
    Categories = {a, b}
    Products = {p}
    Variants = {v}
    NoParent = NoParent
    Tree = Tree
    NoEntry = NoEntry
    Calls = {c1, c2}
    Nobody = Nobody
    Operations = {"create", "get"}
    InitialTables <- MCInitialTables
SPECIFICATION Spec
PROPERTIES
    TreeIsHierarchical
