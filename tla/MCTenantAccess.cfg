\* Tenants and users change while requests pass the checks.
CONSTANTS
    t1 = t1
    t2 = t2
    admin = admin
    customer = customer
    root = root
    guest = guest
    Requests = {r1, r2}
    Tenants = {t1, t2}
    Users = {admin, customer, root, guest}
    HomeOf <- MCHomeOf
    Roles <- MCRoles
    RouteRoles <- MCRouteRoles
    NoEntity = NoEntity
    Beginnings <- MCBeginnings
SPECIFICATION Spec
SYMMETRY Interchangeable
INVARIANTS
    TypeOK
    AdmittedOnGrounds
    RefusedOnGrounds
PROPERTIES
    StatusChangesAskedOrOverlapping
    RolesChangedByAdmins
