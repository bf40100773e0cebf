\* CategoryService: cache-aside lookups, and unique indexes on slug and name.
CONSTANTS
    r1 = r1
    r2 = r2
    a = a
    b = b
    x = x
    y = y
    Records = {r1, r2}
    List = List
    NoEntry = NoEntry
    Calls = {c1, c2}
    Nobody = Nobody
    Names = {a, b}
    Notes = {x, y}
    Operations = {"create", "rename", "edit", "remove", "get"}
    Checks = {"create", "rename", "edit"}
    Related = {"create", "edit", "remove"}
    Cached = TRUE
    Indexed = {"name", "note"}
    Beginnings <- MCCategoryBeginnings
SYMMETRY CallSymmetry
SPECIFICATION Spec
INVARIANTS
    StaleOnlyByRaceOrLoss
PROPERTIES
    ConflictsHaveGrounds
