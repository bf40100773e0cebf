\* ProductService: cache-aside lookups, and no index behind the check.
CONSTANTS
    r1 = r1
    r2 = r2
    a = a
    b = b
    x = x
    y = y
    Records = {r1, r2}
    List = List
    NoEntry = NoEntry
    Calls = {c1, c2}
    Nobody = Nobody
    Names = {a, b}
    Notes = {x, y}
    Operations = {"create", "edit", "remove", "get"}
    Checks = {"create"}
    Related = {"create", "edit", "remove"}
    Cached = TRUE
    Indexed = {}
    Beginnings <- MCProductBeginnings
SYMMETRY CallSymmetry
SPECIFICATION Spec
PROPERTIES
    SharedNamesOnlyFromOverlap
