---------------------------- MODULE MCMasterData ----------------------------
(***************************************************************************)
(* Constants for model-checking MasterData: two ids, two names and two    *)
(* notes.  A run starts with rows that are live, deleted or still free,   *)
(* so that calls can race to create a record as well as to change one,    *)
(* and, where there is a cache, also from an entry whose eviction was     *)
(* lost.                                                                   *)
(***************************************************************************)
EXTENDS MasterData, TLC

CONSTANTS r1, r2, a, b, x, y

Row(state, name, note) == [state |-> state, name |-> name, note |-> note]

Empty == [k \in CacheKeys |-> NoEntry]

Fresh(row1, row2) == [table |-> (r1 :> row1) @@ (r2 :> row2), cache |-> Empty]

MCFresh ==
    {Fresh(Row("live", a, x), Row("live", b, y)),
     Fresh(Row("live", a, x), Row("free", b, y)),
     Fresh(Row("deleted", a, x), Row("free", b, y)),
     Fresh(Row("free", a, x), Row("free", a, x))}

\* The entry of r1 is left from before it became row1.
Left(entry, row1, row2) ==
    [Fresh(row1, row2) EXCEPT !.cache = (r1 :> (r1 :> entry)) @@ Empty]

\* r1 was renamed, or edited, and r2 created as what r1 had been.
MCCategoryBeginnings ==
    MCFresh \cup
    {Left(Row("live", b, x), Row("live", a, x), Row("live", b, y)),
     Left(Row("live", a, y), Row("live", a, x), Row("live", b, y))}

\* r1 was edited; r1 was removed and r2 created under its skuPrefix.
MCProductBeginnings ==
    MCFresh \cup
    {Left(Row("live", a, y), Row("live", a, x), Row("free", b, y)),
     Left(Row("live", a, x), Row("deleted", a, x), Row("live", a, y))}

CallSymmetry == Permutations(Calls)
=============================================================================
