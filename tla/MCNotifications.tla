-------------------------- MODULE MCNotifications --------------------------
(***************************************************************************)
(* Constants for model-checking Notifications: two tenants with a stock   *)
(* key each and a second key for the first, a user on either side of the  *)
(* tenant line, and levels on both sides of the threshold.                 *)
(***************************************************************************)
EXTENDS Notifications

CONSTANTS t1, t2, u1, u2, k1, k2, m1, m2

MCTenantOf == [x \in {u1, k1, k2, u2} |-> IF x = u2 THEN t2 ELSE t1]
============================================================================
