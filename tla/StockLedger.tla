---------------------------- MODULE StockLedger ----------------------------
(***************************************************************************)
(* What the stock engine promises, whatever happens inside a request: the *)
(* stock of a variant in a warehouse changes by whole movements, one at a *)
(* time, each of a quantity a client asked for.  A movement is computed   *)
(* from a holding that covers it: the one on the shelf (Move), or one     *)
(* that used to be (Overwrite), which then loses what happened since.     *)
(* Inventory.tla refines this module; the promise does not hold without   *)
(* Overwrite, as saving an entity does not look whether the row still is  *)
(* the one that was read.                                                  *)
(***************************************************************************)
EXTENDS Integers

CONSTANTS
    Keys,        \* the (variant, warehouse) pairs that may hold stock
    Quantities,  \* the quantities a request may ask for
    MaxInt       \* the largest value of an integer column

VARIABLES
    onHand,      \* onHand[k]: the units under k, and how often they changed
    past         \* past[k]: every holding k has had, the present one included

Holding == [available : 0..MaxInt, reserved : 0..MaxInt, version : Nat]

Init ==
    /\ onHand \in [Keys -> Holding]
    /\ past = [k \in Keys |-> {onHand[k]}]

\* Replenish, deduct, reserve and release: what each adds to a holding.
Movements ==
    UNION {{[available |-> q,  reserved |-> 0],
            [available |-> -q, reserved |-> 0],
            [available |-> -q, reserved |-> q],
            [available |-> q,  reserved |-> -q]} : q \in Quantities}

Moved(h, m) ==
    [available |-> h.available + m.available,
     reserved  |-> h.reserved + m.reserved,
     version   |-> h.version + 1]

\* No column goes below zero or beyond its width.
Becomes(k, h) ==
    /\ h \in Holding
    /\ onHand' = [onHand EXCEPT ![k] = h]
    /\ past' = [past EXCEPT ![k] = @ \cup {h}]

\* A movement of what is on hand: no column is left out.
Move(k, m) == Becomes(k, Moved(onHand[k], m))

\* A movement of what was on hand once and covered it.  Columns may keep
\* what is there, so the result can mix two holdings.
Overwrite(k, seen, m, columns) ==
    /\ seen.version < onHand[k].version
    /\ Moved(seen, m).available >= 0 /\ Moved(seen, m).reserved >= 0
    /\ Becomes(k,
          [available |-> IF "available" \in columns THEN Moved(seen, m).available
                                                    ELSE onHand[k].available,
           reserved  |-> IF "reserved" \in columns THEN Moved(seen, m).reserved
                                                   ELSE onHand[k].reserved,
           version   |-> IF columns = {} THEN onHand[k].version
                                         ELSE onHand[k].version + 1])

Next ==
    \E k \in Keys, m \in Movements :
        \/ Move(k, m)
        \/ \E seen \in past[k], columns \in SUBSET {"available", "reserved"} :
              Overwrite(k, seen, m, columns)

Spec == Init /\ [][Next]_<<onHand, past>>
============================================================================
