---------------------------- MODULE MCInventory ----------------------------
(***************************************************************************)
(* Constants for model-checking Inventory: one stocked key, two tenants,  *)
(* quantities and columns so small that insufficiency, overflow and the   *)
(* safety threshold are all a step or two away.                           *)
(***************************************************************************)
EXTENDS Inventory, TLC

CONSTANTS t1, t2, v1, w1, r1, r2, r3

MCOwner == [x \in {v1, w1} |-> t1]

Stocked(a, b) ==
    [tenant |-> t1, available |-> a, reserved |-> b, version |-> 1]

\* No row yet, the last unit on the shelf, and a few units on either side.
MCInitialStock ==
    {[k \in Keys |-> row] :
        row \in {Absent, Stocked(1, 0), Stocked(2, 1)}}

MCOneRow == {[k \in Keys |-> Stocked(1, 1)]}

Interchangeable == Permutations(Requests)
============================================================================
