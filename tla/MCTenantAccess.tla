-------------------------- MODULE MCTenantAccess --------------------------
(***************************************************************************)
(* Constants for model-checking TenantAccess: a tenant with an            *)
(* administrator and a super administrator, where a customer is expected, *)
(* and another tenant, where a guest is.                                   *)
(***************************************************************************)
EXTENDS TenantAccess, TLC

CONSTANTS t1, t2, admin, customer, root, guest

MCHomeOf == [u \in Users |-> IF u = guest THEN t2 ELSE t1]

MCRoles == {"tenant_admin", "super_admin", "customer"}

MCRouteRoles == {{"customer"}}

In(status) == [status |-> status, live |-> TRUE]

\* The customer and the guest have yet to register, to be invited or, as the
\* administrator of a new tenant, to be provisioned.
AtFirst(u) ==
    CASE u = admin -> [role |-> "tenant_admin"]
      [] u = root  -> [role |-> "super_admin"]
      [] OTHER     -> NoUser

\* The other tenant is suspended, so that it can be activated under way, or has
\* yet to be created.
MCBeginnings ==
    [tenants : {[t \in {t1, t2} |-> IF t = t1 THEN In("active") ELSE other] :
                   other \in {In("suspended"), NoTenant}},
     users   : {[u \in Users |-> AtFirst(u)]}]

Interchangeable == Permutations(Requests)
=============================================================================
