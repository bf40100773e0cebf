----------------------------- MODULE MCCatalog -----------------------------
(***************************************************************************)
(* Constants for model-checking Catalog: two categories, a product and a  *)
(* variant, side by side, in each other, or still to be created.           *)
(***************************************************************************)
EXTENDS Catalog, TLC

CONSTANTS a, b, p, v

Row(state, parent) == [state |-> state, parent |-> parent]

MCInitialTables ==
    {(a :> Row("live", NoParent)) @@ (b :> Row("live", a))
        @@ (p :> Row("live", a)) @@ (v :> Row("live", p)),
     (a :> Row("live", NoParent)) @@ (b :> Row("free", NoParent))
        @@ (p :> Row("live", a)) @@ (v :> Row("free", p)),
     (a :> Row("live", NoParent)) @@ (b :> Row("live", NoParent))
        @@ (p :> Row("live", b)) @@ (v :> Row("deleted", p))}

CallSymmetry == Permutations(Calls)
============================================================================
