\* Two movements whose dispatches race, recipients who read and delete.
CONSTANTS
    t1 = t1
    t2 = t2
    u1 = u1
    u2 = u2
    k1 = k1
    k2 = k2
    m1 = m1
    m2 = m2
    Movements = {m1, m2}
    StockKeys = {k1, k2}
    Users = {u1, u2}
    Tenants = {t1, t2}
    TenantOf <- MCTenantOf
    Levels = {1, 2}
    SafetyThreshold = 1
SPECIFICATION FairSpec
INVARIANTS
    TypeOK
    DuplicatesOnlyFromOverlap
    MarkReadIsTruthful
    AlertsStayInTenant
PROPERTIES
    AlertsReachStaff
