\* Two requests of either tenant for stock that is removed meanwhile.  (No
\* SYMMETRY, which is not sound for liveness.)
CONSTANTS
    t1 = t1
    t2 = t2
    v1 = v1
    w1 = w1
    r1 = r1
    r2 = r2
    r3 = r3
    Requests = {r1, r2}
    Tenants = {t1, t2}
    NoTenant = NoTenant
    Variants = {v1}
    Warehouses = {w1}
    Owner <- MCOwner
    Removable = {v1, w1}
    Quantities = {1, 2}
    MaxInt = 3
    MaxAttempts = 2
    SafetyThreshold = 1
    InitialStock <- MCInitialStock
SPECIFICATION FairSpec
INVARIANTS
    StockInRange
    UnitsAccountedFor
    AnswersAreTruthful
    TenantsIsolated
    
PROPERTIES
    EveryRequestAnswered
