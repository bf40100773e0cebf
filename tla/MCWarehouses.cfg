\* WarehouseService and SupplierService: no cache and no unique index.
CONSTANTS
    r1 = r1
    r2 = r2
    a = a
    b = b
    x = x
    y = y
    Records = {r1, r2}
    List = List
    NoEntry = NoEntry
    Calls = {c1, c2, c3}
    Nobody = Nobody
    Names = {a, b}
    Notes = {x, y}
    Operations = {"create", "rename", "edit", "remove"}
    Checks = {"create", "rename"}
    Related = {}
    Cached = FALSE
    Indexed = {}
    Beginnings <- MCFresh
SYMMETRY CallSymmetry
SPECIFICATION Spec
INVARIANTS
    TypeOK
PROPERTIES
    SharedNamesOnlyFromOverlap
    FinishedEditsStay
