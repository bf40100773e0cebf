\* Three calls of two tenants.
CONSTANTS
    Tenants = {t1, t2}
    Calls = {c1, c2, c3}
SYMMETRY Symmetry
SPECIFICATION Spec
INVARIANTS
    TypeOK
    StoresAgree
    URLsStayInTenant
