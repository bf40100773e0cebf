\* Two requests for the last unit.
CONSTANTS
    t1 = t1
    t2 = t2
    v1 = v1
    w1 = w1
    r1 = r1
    r2 = r2
    r3 = r3
    Requests = {r1, r2}
    Tenants = {t1}
    NoTenant = NoTenant
    Variants = {v1}
    Warehouses = {w1}
    Owner <- MCOwner
    Removable = {}
    Quantities = {1}
    MaxInt = 3
    MaxAttempts = 2
    SafetyThreshold = 1
    InitialStock <- MCOneRow
SPECIFICATION Spec
SYMMETRY Interchangeable
INVARIANTS
    NeverOversold
