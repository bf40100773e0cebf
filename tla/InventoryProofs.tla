-------------------------- MODULE InventoryProofs --------------------------
(***************************************************************************)
(* Theorems about Inventory, for any number of requests, tenants, keys    *)
(* and attempts and any column width.                                      *)
(*                                                                         *)
(* The argument is about what a request still knows of the row it read.   *)
(* Versions only grow, and a row changes only together with its version.  *)
(* So while the row has the version that was read it is the row that was  *)
(* read, and a commit that is not stale applies exactly its movement.     *)
(* A stale commit is the rest: it may lose what happened since, but what  *)
(* it writes still is a movement of a row that there was.                  *)
(***************************************************************************)
EXTENDS Inventory, FiniteSetTheorems, TLAPS

RowType == [tenant : Tenants \cup {NoTenant}, available : Int,
            reserved : Int, version : Nat]

\* The requests that hold an entity they are about to save.
Holds(r) == pc[r] \in {"saving", "writing"}

\* A key without a row counts as no units.
AbsentIsEmpty ==
    \A k \in Keys :
        stock[k].version = 0 => stock[k].available = 0 /\ stock[k].reserved = 0

\* What was read is old, or still the row.
ReadIsPast ==
    \A r \in Requests : Holds(r) =>
        /\ read[r].version <= Row(r).version
        /\ read[r].version = Row(r).version =>
              /\ read[r].available = Row(r).available
              /\ read[r].reserved = Row(r).reserved

\* The handler tested the entity that it then changed.
ReadCovers ==
    \A r \in Requests : Holds(r) =>
        /\ read[r].available >= 0 /\ read[r].reserved >= 0
        /\ Covers(r, read[r])

\* A column the UPDATE leaves out needs no change, if the row is still the
\* one that was read.
PlanIsComplete ==
    \A r \in Requests : pc[r] = "writing" /\ read[r].version = Row(r).version =>
        /\ "available" \notin dirty[r] => Entity(r).available = Row(r).available
        /\ "reserved" \notin dirty[r] => Entity(r).reserved = Row(r).reserved

\* An INSERT sets every column.
PlanIsWhole ==
    \A r \in Requests : pc[r] = "writing" /\ read[r].version = 0 =>
        dirty[r] = Columns

-----------------------------------------------------------------------------

\* What the operators of a request return.
LEMMA RequestTypes ==
    ASSUME TypeOK, NEW r \in Requests
    PROVE  /\ Key(r) \in Keys
           /\ Op(r) \in Operations
           /\ request[r].quantity \in Nat \ {0}
           /\ request[r].tenant \in Tenants
           /\ Row(r) \in RowType
           /\ read[r] \in RowType
           /\ AvailableChange(r) \in Int
           /\ ReservedChange(r) \in Int
           /\ Entity(r) \in RowType
           /\ Loaded(r) \in RowType
           /\ Written(r) \in RowType
<1>1. request[r] \in Inputs
  BY DEF TypeOK
<1>2. /\ Key(r) \in Keys
      /\ Op(r) \in Operations
      /\ request[r].quantity \in Nat \ {0}
      /\ request[r].tenant \in Tenants
  BY <1>1, InventoryAssumption DEF Inputs, Key, Op
<1>3. Row(r) \in RowType /\ read[r] \in RowType
  BY <1>2 DEF TypeOK, RowType, Row
<1>4. AvailableChange(r) \in Int /\ ReservedChange(r) \in Int
  BY <1>2 DEF AvailableChange, ReservedChange, Operations
<1>5. Entity(r) \in RowType
  BY <1>3, <1>4 DEF Entity, RowType
<1>6. Loaded(r) \in RowType
  BY <1>2, <1>3 DEF Loaded, RowType, Absent
<1>7. Written(r) \in RowType
  BY <1>3, <1>5 DEF Written, RowType
<1> QED
  BY <1>2, <1>3, <1>4, <1>5, <1>6, <1>7

\* The entity is what was read, moved; its version is still the one read.
LEMMA EntityFields ==
    ASSUME TypeOK, NEW r \in Requests
    PROVE  /\ Entity(r).available = read[r].available + AvailableChange(r)
           /\ Entity(r).reserved = read[r].reserved + ReservedChange(r)
BY RequestTypes DEF Entity, RowType

\* An operation that is covered leaves no quantity below zero.
LEMMA CoveredStaysNonNegative ==
    ASSUME TypeOK, NEW r \in Requests,
           read[r].available >= 0, read[r].reserved >= 0, Covers(r, read[r])
    PROVE  Entity(r).available >= 0 /\ Entity(r).reserved >= 0
<1>1. /\ Op(r) \in Operations
      /\ request[r].quantity \in Nat
      /\ read[r].available \in Int
      /\ read[r].reserved \in Int
  BY RequestTypes DEF RowType
<1> QED
  BY <1>1, EntityFields DEF Covers, AvailableChange, ReservedChange, Operations

-----------------------------------------------------------------------------

\* A request waits for another attempt only while it has one left.
BackoffHasAttempts ==
    \A r \in Requests : pc[r] = "backoff" => attempt[r] < MaxAttempts

LEMMA InitTypes == Init => TypeOK /\ BackoffHasAttempts
<1> SUFFICES ASSUME Init PROVE TypeOK /\ BackoffHasAttempts
  OBVIOUS
<1>1. stock \in [Keys -> Rows]
  BY InventoryAssumption DEF Init
<1>2. \A k \in Keys : stock[k].available \in Int /\ stock[k].reserved \in Int
  BY <1>1, InventoryAssumption DEF Rows
<1>3. stock \in [Keys -> RowType]
  BY <1>1, InventoryAssumption DEF Rows, RowType
<1>4. /\ tally \in [Keys -> [available : Int, reserved : Int]]
      /\ past \in [Keys -> SUBSET [available : Int, reserved : Int, version : Nat]]
  BY <1>2, <1>3 DEF Init, Holding, RowType
<1>5. 1 \in 1..MaxAttempts
  BY InventoryAssumption
<1> QED
  BY <1>3, <1>4, <1>5 DEF Init, TypeOK, BackoffHasAttempts, Absent, RowType

LEMMA NextTypes ==
    TypeOK /\ BackoffHasAttempts /\ [Next]_vars => TypeOK' /\ BackoffHasAttempts'
<1> SUFFICES ASSUME TypeOK, BackoffHasAttempts, [Next]_vars
             PROVE  TypeOK' /\ BackoffHasAttempts'
  OBVIOUS
<1> USE DEF TypeOK, BackoffHasAttempts, Active, Waiting, Final, Answers, Goto
<1>1. ASSUME NEW r \in Requests, Receive(r) PROVE TypeOK' /\ BackoffHasAttempts'
  BY <1>1 DEF Receive, history
<1>2. ASSUME NEW r \in Requests, Validate(r) PROVE TypeOK' /\ BackoffHasAttempts'
  BY <1>2 DEF Validate, history
<1>3. ASSUME NEW r \in Requests, RejectMissing(r) PROVE TypeOK' /\ BackoffHasAttempts'
  BY <1>3 DEF RejectMissing, history
<1>4. ASSUME NEW r \in Requests, RejectInsufficient(r) PROVE TypeOK' /\ BackoffHasAttempts'
  BY <1>4 DEF RejectInsufficient, history
<1>5. ASSUME NEW r \in Requests, Load(r) PROVE TypeOK' /\ BackoffHasAttempts'
  <2>1. Loaded(r) \in RowType
    BY RequestTypes
  <2> QED
    BY <1>5, <2>1 DEF Load, history, RowType
<1>6. ASSUME NEW r \in Requests, PlanUpdate(r) PROVE TypeOK' /\ BackoffHasAttempts'
  <2>1. Differing(r) \subseteq Columns
    BY DEF Differing, Columns
  <2> QED
    BY <1>6, <2>1 DEF PlanUpdate, history
<1>7. ASSUME NEW r \in Requests, Commit(r) PROVE TypeOK' /\ BackoffHasAttempts'
  <2>1. /\ Key(r) \in Keys
        /\ Written(r) \in RowType
        /\ AvailableChange(r) \in Int
        /\ ReservedChange(r) \in Int
    BY RequestTypes
  <2>2. stock' \in [Keys -> RowType]
    BY <1>7, <2>1 DEF Commit, RowType
  <2>3. tally' \in [Keys -> [available : Int, reserved : Int]]
    BY <1>7, <2>1, tally[Key(r)] \in [available : Int, reserved : Int] DEF Commit
  <2>4. /\ overwriting' \subseteq Requests /\ committed' \subseteq Requests
        /\ past' \in [Keys -> SUBSET [available : Int, reserved : Int, version : Nat]]
    BY <1>7, <2>1 DEF Commit, Holding, RowType
  <2>5. pc' \in [Requests -> {"idle"} \cup Active \cup Final]
    BY <1>7 DEF Commit
  <2> QED
    BY <1>7, <2>2, <2>3, <2>4, <2>5 DEF Commit, RowType
<1>8. ASSUME NEW r \in Requests, UniqueViolation(r) PROVE TypeOK' /\ BackoffHasAttempts'
  BY <1>8 DEF UniqueViolation, history
<1>9. ASSUME NEW r \in Requests, VersionMismatch(r) PROVE TypeOK' /\ BackoffHasAttempts'
  BY <1>9 DEF VersionMismatch, RetryOrFail, history
<1>10. ASSUME NEW r \in Requests, IntegerOverflow(r) PROVE TypeOK' /\ BackoffHasAttempts'
  BY <1>10 DEF IntegerOverflow, history
<1>11. ASSUME NEW r \in Requests, Retry(r) PROVE TypeOK' /\ BackoffHasAttempts'
  <2>1. attempt[r] + 1 \in 1..MaxAttempts
    BY <1>11, InventoryAssumption DEF Retry
  <2> QED
    BY <1>11, <2>1 DEF Retry, history
<1>12. ASSUME NEW r \in Requests, Publish(r) PROVE TypeOK' /\ BackoffHasAttempts'
  BY <1>12 DEF Publish, history
<1>13. ASSUME NEW r \in Requests, DatabaseError(r) PROVE TypeOK' /\ BackoffHasAttempts'
  BY <1>13 DEF DatabaseError, history
<1>14. ASSUME NEW r \in Requests, Crash(r) PROVE TypeOK' /\ BackoffHasAttempts'
  BY <1>14 DEF Crash, history
<1>15. ASSUME NEW x \in Removable, SoftDelete(x) PROVE TypeOK' /\ BackoffHasAttempts'
  BY <1>15 DEF SoftDelete, history
<1>16. CASE UNCHANGED vars
  BY <1>16 DEF vars
<1> QED
  BY <1>1, <1>2, <1>3, <1>4, <1>5, <1>6, <1>7, <1>8, <1>9, <1>10, <1>11,
     <1>12, <1>13, <1>14, <1>15, <1>16 DEF Next, Step, Done

\* TypeOK of Inventory, for every instance.
THEOREM TypeCorrect == Spec => []TypeOK
<1>1. TypeOK /\ BackoffHasAttempts /\ [Next]_vars => (TypeOK /\ BackoffHasAttempts)'
  BY NextTypes
<1> QED
  BY InitTypes, <1>1, PTL DEF Spec

-----------------------------------------------------------------------------

\* All but three actions leave the table, the entities and the plans alone,
\* and let no request hold an entity it did not hold before.
Quiet ==
    /\ UNCHANGED <<stock, request, read, dirty, tally, past, overwriting>>
    /\ \A r \in Requests : Holds(r)' => pc'[r] = pc[r]

LEMMA OtherActionsAreQuiet ==
    ASSUME TypeOK, [Next]_vars
    PROVE  \/ \E r \in Requests : Load(r) \/ PlanUpdate(r) \/ Commit(r)
           \/ Quiet
<1> USE DEF TypeOK, Quiet, Holds, Goto, history
<1>1. ASSUME NEW r \in Requests, Receive(r) PROVE Quiet
  BY <1>1 DEF Receive
<1>2. ASSUME NEW r \in Requests, Validate(r) PROVE Quiet
  BY <1>2 DEF Validate
<1>3. ASSUME NEW r \in Requests, RejectMissing(r) PROVE Quiet
  BY <1>3 DEF RejectMissing
<1>4. ASSUME NEW r \in Requests, RejectInsufficient(r) PROVE Quiet
  BY <1>4 DEF RejectInsufficient
<1>5. ASSUME NEW r \in Requests, UniqueViolation(r) PROVE Quiet
  BY <1>5 DEF UniqueViolation
<1>6. ASSUME NEW r \in Requests, VersionMismatch(r) PROVE Quiet
  BY <1>6 DEF VersionMismatch, RetryOrFail
<1>7. ASSUME NEW r \in Requests, IntegerOverflow(r) PROVE Quiet
  BY <1>7 DEF IntegerOverflow
<1>8. ASSUME NEW r \in Requests, Retry(r) PROVE Quiet
  BY <1>8 DEF Retry
<1>9. ASSUME NEW r \in Requests, Publish(r) PROVE Quiet
  BY <1>9 DEF Publish
<1>10. ASSUME NEW r \in Requests, DatabaseError(r) PROVE Quiet
  BY <1>10 DEF DatabaseError
<1>11. ASSUME NEW r \in Requests, Crash(r) PROVE Quiet
  BY <1>11 DEF Crash
<1>12. ASSUME NEW x \in Removable, SoftDelete(x) PROVE Quiet
  BY <1>12 DEF SoftDelete
<1>13. CASE UNCHANGED vars
  BY <1>13 DEF vars
<1> QED
  BY <1>1, <1>2, <1>3, <1>4, <1>5, <1>6, <1>7, <1>8, <1>9, <1>10, <1>11,
     <1>12, <1>13 DEF Next, Step, Done

\* The part of the inductive invariant that is about rows and entities.
RowInv ==
    /\ StockInRange
    /\ AbsentIsEmpty
    /\ ReadIsPast
    /\ ReadCovers
    /\ PlanIsComplete
    /\ PlanIsWhole
    /\ UnitsAccountedFor

LEMMA InitRows == Init => RowInv
<1> SUFFICES ASSUME Init PROVE RowInv
  OBVIOUS
<1>1. \A k \in Keys : /\ stock[k].available \in 0..MaxInt
                      /\ stock[k].reserved \in 0..MaxInt
  BY InventoryAssumption DEF Init, Rows
<1>2. AbsentIsEmpty
  BY InventoryAssumption DEF Init, AbsentIsEmpty, Absent
<1>3. ReadIsPast /\ ReadCovers /\ PlanIsComplete /\ PlanIsWhole
  BY DEF Init, ReadIsPast, ReadCovers, PlanIsComplete, PlanIsWhole, Holds
<1>4. UnitsAccountedFor
  BY DEF Init, UnitsAccountedFor
<1> QED
  BY <1>1, <1>2, <1>3, <1>4 DEF RowInv, StockInRange

LEMMA QuietRows ==
    ASSUME TypeOK, RowInv, Quiet
    PROVE  RowInv'
<1>1. \A r \in Requests : Key(r) \in Keys
  BY RequestTypes
<1>2. \A r \in Requests : /\ Key(r)' = Key(r) /\ Op(r)' = Op(r)
                          /\ Row(r)' = Row(r) /\ read'[r] = read[r]
                          /\ dirty'[r] = dirty[r] /\ Entity(r)' = Entity(r)
                          /\ Covers(r, read[r])' = Covers(r, read[r])
  BY DEF Quiet, Key, Op, Row, Entity, Covers, AvailableChange, ReservedChange
<1>3. \A r \in Requests : /\ Holds(r)' => Holds(r)
                          /\ pc'[r] = "writing" => pc[r] = "writing"
  BY DEF Quiet, Holds
<1>4. StockInRange' /\ AbsentIsEmpty' /\ UnitsAccountedFor'
  BY DEF Quiet, RowInv, StockInRange, AbsentIsEmpty, UnitsAccountedFor, Overwritten, Key
<1>5. ReadIsPast' /\ ReadCovers'
  BY <1>2, <1>3 DEF RowInv, ReadIsPast, ReadCovers
<1>6. PlanIsComplete' /\ PlanIsWhole'
  BY <1>2, <1>3 DEF RowInv, PlanIsComplete, PlanIsWhole
<1> QED
  BY <1>4, <1>5, <1>6 DEF RowInv

\* Load: the entity is the row of this instant, so it is past and covered.
LEMMA LoadRows ==
    ASSUME TypeOK, RowInv, NEW r \in Requests, Load(r)
    PROVE  RowInv'
<1>1. /\ UNCHANGED <<stock, request, dirty, tally, overwriting>>
      /\ read' = [read EXCEPT ![r] = Loaded(r)]
      /\ pc' = [pc EXCEPT ![r] = "saving"]
  BY DEF Load, Goto, history
<1>2. \A q \in Requests :
         /\ Key(q)' = Key(q) /\ Op(q)' = Op(q) /\ Row(q)' = Row(q)
         /\ q # r => /\ read'[q] = read[q] /\ pc'[q] = pc[q]
                     /\ Entity(q)' = Entity(q)
                     /\ Covers(q, read[q])' = Covers(q, read[q])
  BY <1>1 DEF Key, Op, Row, Entity, Covers, AvailableChange, ReservedChange
<1>3. pc'[r] = "saving" /\ read'[r] = Loaded(r)
  BY <1>1 DEF TypeOK
<1>4. StockInRange' /\ AbsentIsEmpty' /\ UnitsAccountedFor'
  BY <1>1 DEF RowInv, StockInRange, AbsentIsEmpty, UnitsAccountedFor, Overwritten, Key
<1>5. /\ Key(r) \in Keys /\ Row(r) \in RowType /\ Row(r) = stock[Key(r)]
  BY RequestTypes DEF Row
<1>6. /\ Loaded(r).version <= Row(r).version
      /\ Loaded(r).version = Row(r).version =>
            /\ Loaded(r).available = Row(r).available
            /\ Loaded(r).reserved = Row(r).reserved
      /\ Loaded(r).available >= 0 /\ Loaded(r).reserved >= 0
  <2>1. CASE Finds(r)
    BY <2>1, <1>5, InventoryAssumption DEF Loaded, RowInv, StockInRange, RowType
  <2>2. CASE ~Finds(r)
    <3>1. /\ Loaded(r).version = 0
          /\ Loaded(r).available = 0 /\ Loaded(r).reserved = 0
      BY <2>2 DEF Loaded, Absent
    <3> QED
      BY <3>1, <1>5 DEF RowInv, AbsentIsEmpty, RowType
  <2> QED
    BY <2>1, <2>2
<1>7. Covers(r, read[r])'
  <2>1. Covers(r, Loaded(r))
    BY DEF Load
  <2> QED
    BY <2>1, <1>1, <1>3 DEF Covers, Op
<1>8. ReadIsPast'
  BY <1>2, <1>3, <1>6 DEF RowInv, ReadIsPast, Holds
<1>9. ReadCovers'
  BY <1>2, <1>3, <1>6, <1>7 DEF RowInv, ReadCovers, Holds
<1>10. PlanIsComplete' /\ PlanIsWhole'
  BY <1>1, <1>2, <1>3 DEF RowInv, PlanIsComplete, PlanIsWhole
<1> QED
  BY <1>4, <1>8, <1>9, <1>10 DEF RowInv

\* PlanUpdate: the columns left out are those that already agree.
LEMMA PlanRows ==
    ASSUME TypeOK, RowInv, NEW r \in Requests, PlanUpdate(r)
    PROVE  RowInv'
<1>1. /\ UNCHANGED <<stock, request, read, tally, overwriting>>
      /\ dirty' = [dirty EXCEPT ![r] = Differing(r)]
      /\ pc[r] = "saving"
      /\ pc' = [pc EXCEPT ![r] = "writing"]
  BY DEF PlanUpdate, Goto, history
<1>2. \A q \in Requests :
         /\ Key(q)' = Key(q) /\ Op(q)' = Op(q) /\ Row(q)' = Row(q)
         /\ Entity(q)' = Entity(q)
         /\ Covers(q, read[q])' = Covers(q, read[q])
         /\ q # r => dirty'[q] = dirty[q] /\ pc'[q] = pc[q]
         /\ Holds(q)' => Holds(q)
  BY <1>1 DEF Key, Op, Row, Entity, Covers, AvailableChange, ReservedChange, Holds
<1>3. dirty'[r] = Differing(r)
  BY <1>1 DEF TypeOK
<1>4. StockInRange' /\ AbsentIsEmpty' /\ UnitsAccountedFor'
  BY <1>1 DEF RowInv, StockInRange, AbsentIsEmpty, UnitsAccountedFor, Overwritten, Key
<1>5. ReadIsPast' /\ ReadCovers'
  BY <1>1, <1>2 DEF RowInv, ReadIsPast, ReadCovers
<1>6. /\ "available" \notin Differing(r) => Entity(r).available = Row(r).available
      /\ "reserved" \notin Differing(r) => Entity(r).reserved = Row(r).reserved
  BY DEF Differing, Columns
<1>7. read[r].version = 0 => Differing(r) = Columns
  BY DEF Differing
<1>8. PlanIsComplete'
  BY <1>1, <1>2, <1>3, <1>6 DEF RowInv, PlanIsComplete
<1>9. PlanIsWhole'
  BY <1>1, <1>2, <1>3, <1>7 DEF RowInv, PlanIsWhole
<1> QED
  BY <1>4, <1>5, <1>8, <1>9 DEF RowInv

\* What the row of a commit becomes.  It keeps its version only if it is not
\* changed, and it becomes the entity if it was the row that was read.
LEMMA WrittenRow ==
    ASSUME TypeOK, RowInv, NEW r \in Requests, pc[r] = "writing", ~Overflows(r)
    PROVE  /\ Written(r).available \in 0..MaxInt
           /\ Written(r).reserved \in 0..MaxInt
           /\ Written(r).version >= Row(r).version
           /\ Written(r).version = Row(r).version =>
                 /\ Written(r).available = Row(r).available
                 /\ Written(r).reserved = Row(r).reserved
           /\ ~Stale(r) => /\ Written(r).available = Entity(r).available
                           /\ Written(r).reserved = Entity(r).reserved
<1>1. /\ Key(r) \in Keys /\ Row(r) = stock[Key(r)]
      /\ Row(r) \in RowType /\ Entity(r) \in RowType /\ Written(r) \in RowType
  BY RequestTypes DEF Row
<1>2. Row(r).available >= 0 /\ Row(r).reserved >= 0
  BY <1>1, InventoryAssumption DEF RowInv, StockInRange
<1>3. Entity(r).available >= 0 /\ Entity(r).reserved >= 0
  BY CoveredStaysNonNegative DEF RowInv, ReadCovers, Holds
<1>4. /\ Written(r).available \in 0..MaxInt
      /\ Written(r).reserved \in 0..MaxInt
  BY <1>1, <1>2, <1>3, InventoryAssumption DEF Written, Overflows, RowType
<1>5. /\ Written(r).version >= Row(r).version
      /\ Written(r).version = Row(r).version =>
            /\ Written(r).available = Row(r).available
            /\ Written(r).reserved = Row(r).reserved
  BY <1>1 DEF Written, RowType
<1>6. ~Stale(r) => /\ Written(r).available = Entity(r).available
                   /\ Written(r).reserved = Entity(r).reserved
  BY DEF RowInv, PlanIsComplete, Stale, Written
<1> QED
  BY <1>4, <1>5, <1>6

\* Commit: the other entities of the row are past now, unless it stayed.
LEMMA CommitRows ==
    ASSUME TypeOK, RowInv, NEW r \in Requests, Commit(r)
    PROVE  RowInv'
<1>1. /\ UNCHANGED <<request, read, dirty>>
      /\ pc[r] = "writing" /\ ~Overflows(r)
      /\ stock' = [stock EXCEPT ![Key(r)] = Written(r)]
      /\ tally' = [tally EXCEPT ![Key(r)] =
                      [available |-> @.available + AvailableChange(r),
                       reserved  |-> @.reserved + ReservedChange(r)]]
      /\ overwriting' = IF Stale(r) THEN overwriting \cup {r} ELSE overwriting
  BY DEF Commit
<1>2. /\ pc'[r] \notin {"saving", "writing"}
      /\ \A q \in Requests : q # r => pc'[q] = pc[q]
  BY DEF Commit, Goto, TypeOK
<1>3. \A q \in Requests :
         /\ Key(q) \in Keys /\ Key(q)' = Key(q)
         /\ Row(q) = stock[Key(q)] /\ Row(q)' = stock'[Key(q)]
         /\ read[q] \in RowType
         /\ Entity(q)' = Entity(q)
         /\ Covers(q, read[q])' = Covers(q, read[q])
         /\ Holds(q)' => Holds(q)
         /\ pc'[q] = "writing" => pc[q] = "writing"
  BY <1>1, <1>2, RequestTypes
     DEF Key, Op, Row, Entity, Covers, AvailableChange, ReservedChange, Holds
<1>4. \A k \in Keys : stock[k] \in RowType /\ stock'[k] \in RowType
  BY <1>1, <1>3, RequestTypes DEF TypeOK, RowType
<1>5. \A k \in Keys :
         /\ stock'[k].version >= stock[k].version
         /\ stock'[k].version = stock[k].version =>
               /\ stock'[k].available = stock[k].available
               /\ stock'[k].reserved = stock[k].reserved
  BY <1>1, <1>3, <1>4, WrittenRow DEF TypeOK, RowType
<1>6. StockInRange'
  BY <1>1, <1>3, WrittenRow DEF RowInv, StockInRange, TypeOK
<1>7. AbsentIsEmpty'
  BY <1>4, <1>5 DEF RowInv, AbsentIsEmpty, RowType
<1>8. ReadIsPast'
  <2> SUFFICES ASSUME NEW q \in Requests, Holds(q)'
               PROVE  /\ read[q].version <= Row(q)'.version
                      /\ read[q].version = Row(q)'.version =>
                            /\ read[q].available = Row(q)'.available
                            /\ read[q].reserved = Row(q)'.reserved
    BY <1>1 DEF ReadIsPast
  <2>1. /\ read[q].version <= Row(q).version
        /\ read[q].version = Row(q).version =>
              /\ read[q].available = Row(q).available
              /\ read[q].reserved = Row(q).reserved
    BY <1>3 DEF RowInv, ReadIsPast
  <2> QED
    BY <2>1, <1>3, <1>4, <1>5 DEF RowType
<1>9. ReadCovers'
  BY <1>1, <1>3 DEF RowInv, ReadCovers
<1>10. PlanIsComplete'
  <2> SUFFICES ASSUME NEW q \in Requests, pc'[q] = "writing",
                      read[q].version = Row(q)'.version
               PROVE  /\ "available" \notin dirty[q] =>
                            Entity(q).available = Row(q)'.available
                      /\ "reserved" \notin dirty[q] =>
                            Entity(q).reserved = Row(q)'.reserved
    BY <1>1, <1>3 DEF PlanIsComplete
  <2>1. pc[q] = "writing" /\ read[q].version <= Row(q).version
    BY <1>3 DEF RowInv, ReadIsPast, Holds
  <2>2. Row(q)'.version = Row(q).version
    BY <2>1, <1>3, <1>4, <1>5 DEF RowType
  <2> QED
    BY <2>1, <2>2, <1>3, <1>5 DEF RowInv, PlanIsComplete
<1>11. PlanIsWhole'
  BY <1>1, <1>3 DEF RowInv, PlanIsWhole
<1>12. UnitsAccountedFor'
  <2> SUFFICES ASSUME NEW k \in Keys, k \notin Overwritten'
               PROVE  /\ stock'[k].available = tally'[k].available
                      /\ stock'[k].reserved = tally'[k].reserved
    BY DEF UnitsAccountedFor
  <2>0. k \notin Overwritten /\ (k = Key(r) => ~Stale(r))
    BY <1>1 DEF Overwritten, Key
  <2>1. /\ stock[k].available = tally[k].available
        /\ stock[k].reserved = tally[k].reserved
    BY <2>0 DEF RowInv, UnitsAccountedFor
  <2>2. CASE k # Key(r)
    BY <2>1, <2>2, <1>1 DEF TypeOK
  <2>3. CASE k = Key(r)
    <3>1. ~Stale(r)
      BY <2>0, <2>3
    <3>2. /\ read[r].available = stock[k].available
          /\ read[r].reserved = stock[k].reserved
      BY <2>3, <3>1, <1>1, <1>3 DEF RowInv, ReadIsPast, Stale, Holds
    <3>3. /\ stock'[k].available = Entity(r).available
          /\ stock'[k].reserved = Entity(r).reserved
      BY <2>3, <3>1, <1>1, <1>3, WrittenRow DEF TypeOK
    <3>4. /\ tally'[k].available = tally[k].available + AvailableChange(r)
          /\ tally'[k].reserved = tally[k].reserved + ReservedChange(r)
      BY <2>3, <1>1, <1>3 DEF TypeOK
    <3> QED
      BY <2>1, <3>2, <3>3, <3>4, EntityFields
  <2> QED
    BY <2>2, <2>3
<1> QED
  BY <1>6, <1>7, <1>8, <1>9, <1>10, <1>11, <1>12 DEF RowInv

LEMMA RowsInvariant == Spec => [](TypeOK /\ RowInv)
<1>1. TypeOK /\ RowInv /\ [Next]_vars => RowInv'
  BY OtherActionsAreQuiet, QuietRows, LoadRows, PlanRows, CommitRows
<1> QED
  BY InitRows, TypeCorrect, <1>1, PTL DEF Spec

-----------------------------------------------------------------------------

\* StockInRange: no interleaving drives a quantity below zero or out of its column.
THEOREM StockStaysInRange == Spec => []StockInRange
<1>1. RowInv => StockInRange
  BY DEF RowInv
<1> QED
  BY <1>1, RowsInvariant, PTL

\* UnitsAccountedFor: units appear or vanish only by a commit over a row that
\* its request had not read.
THEOREM OnlyStaleCommitsLoseUnits == Spec => []UnitsAccountedFor
<1>1. RowInv => UnitsAccountedFor
  BY DEF RowInv
<1> QED
  BY <1>1, RowsInvariant, PTL

-----------------------------------------------------------------------------
(* The ledger.                                                             *)

-----------------------------------------------------------------------------
(* What requests are told.                                                 *)

\* Only a commit changes the table, the tally and what is committed.
LEMMA OthersCommitNothing ==
    ASSUME TypeOK, [Next]_vars
    PROVE  \/ \E r \in Requests : Commit(r)
           \/ UNCHANGED <<stock, committed, tally>>
<1> USE DEF history
<1>1. ASSUME NEW r \in Requests, Receive(r) \/ DatabaseError(r) \/ Crash(r)
      PROVE  UNCHANGED <<stock, committed, tally>>
  BY <1>1 DEF Receive, DatabaseError, Crash
<1>2. ASSUME NEW r \in Requests, Step(r), ~Commit(r)
      PROVE  UNCHANGED <<stock, committed, tally>>
  BY <1>2 DEF Step, Validate, RejectMissing, RejectInsufficient, Load, PlanUpdate,
              UniqueViolation, VersionMismatch, IntegerOverflow, Retry, Publish
<1>3. ASSUME NEW x \in Removable, SoftDelete(x)
      PROVE  UNCHANGED <<stock, committed, tally>>
  BY <1>3 DEF SoftDelete
<1>4. CASE UNCHANGED vars
  BY <1>4 DEF vars
<1> QED
  BY <1>1, <1>2, <1>3, <1>4 DEF Next, Done

\* What is published and what is committed follow from where a request is.
AnswerInv ==
    \A r \in Requests :
        /\ r \in emitted <=> pc[r] = "ok"
        /\ r \in emitted => r \in committed
        /\ r \in committed => pc[r] \in {"committed", "ok", "500", "dropped"}
        /\ pc[r] = "committed" => r \in committed

LEMMA AnswerStep ==
    ASSUME TypeOK, AnswerInv, [Next]_vars
    PROVE  AnswerInv'
<1> USE DEF TypeOK, AnswerInv, Goto, history
<1>1. ASSUME NEW r \in Requests, Receive(r) PROVE AnswerInv'
  BY <1>1 DEF Receive
<1>2. ASSUME NEW r \in Requests, Validate(r) PROVE AnswerInv'
  BY <1>2 DEF Validate
<1>3. ASSUME NEW r \in Requests, RejectMissing(r) \/ RejectInsufficient(r) PROVE AnswerInv'
  BY <1>3 DEF RejectMissing, RejectInsufficient
<1>4. ASSUME NEW r \in Requests, Load(r) \/ PlanUpdate(r) PROVE AnswerInv'
  BY <1>4 DEF Load, PlanUpdate
<1>5. ASSUME NEW r \in Requests, Commit(r) PROVE AnswerInv'
  <2>1. /\ pc[r] = "writing" /\ r \notin emitted
        /\ pc' = [pc EXCEPT ![r] = "committed"] \/ pc' = [pc EXCEPT ![r] = "500"]
        /\ committed' = committed \cup {r} /\ emitted' = emitted
    BY <1>5 DEF Commit
  <2> QED
    BY <2>1
<1>6. ASSUME NEW r \in Requests, UniqueViolation(r) \/ IntegerOverflow(r) PROVE AnswerInv'
  BY <1>6 DEF UniqueViolation, IntegerOverflow
<1>7. ASSUME NEW r \in Requests, VersionMismatch(r) PROVE AnswerInv'
  BY <1>7 DEF VersionMismatch, RetryOrFail
<1>8. ASSUME NEW r \in Requests, Retry(r) \/ Publish(r) PROVE AnswerInv'
  BY <1>8 DEF Retry, Publish
<1>9. ASSUME NEW r \in Requests, DatabaseError(r) PROVE AnswerInv'
  BY <1>9 DEF DatabaseError, Waiting
<1>10. ASSUME NEW r \in Requests, Crash(r) PROVE AnswerInv'
  BY <1>10 DEF Crash, Active, Waiting
<1>11. ASSUME NEW x \in Removable, SoftDelete(x) PROVE AnswerInv'
  BY <1>11 DEF SoftDelete
<1>12. CASE UNCHANGED vars
  BY <1>12 DEF vars
<1> QED
  BY <1>1, <1>2, <1>3, <1>4, <1>5, <1>6, <1>7, <1>8, <1>9, <1>10, <1>11, <1>12
     DEF Next, Step, Done

LEMMA AnswersInvariant == Spec => []AnswerInv
<1>1. Init => AnswerInv
  BY DEF Init, AnswerInv
<1> QED
  BY <1>1, AnswerStep, TypeCorrect, PTL DEF Spec

\* AnswersAreTruthful: a client that is answered 2xx has had its movement
\* committed and published, one that is answered 4xx has had no effect.
THEOREM AnswersTellTheTruth == Spec => []AnswersAreTruthful
<1>1. AnswerInv => AnswersAreTruthful
  BY DEF AnswerInv, AnswersAreTruthful
<1> QED
  BY <1>1, AnswersInvariant, PTL

-----------------------------------------------------------------------------
(* Tenants.                                                                *)

\* The variant and the warehouse of r are of its tenant.
Owns(r) == \A x \in {Key(r)[1], Key(r)[2]} : Owner[x] = request[r].tenant

\* A row belongs to the tenant of its variant and of its warehouse.
RowsAreOwned ==
    \A k \in Keys : stock[k].version > 0 =>
        stock[k].tenant = Owner[k[1]] /\ stock[k].tenant = Owner[k[2]]

\* deduct and replenish have been validated when they read; reserve and
\* release have found a row of their tenant when they save.
TenantInv ==
    /\ RowsAreOwned
    /\ \A r \in Requests :
          /\ pc[r] \in {"reading", "backoff"} /\ Op(r) \in {"deduct", "replenish"} => Owns(r)
          /\ Holds(r) => Owns(r) /\ read[r].tenant = request[r].tenant
          /\ r \in committed => Owns(r) /\ Row(r).version > 0

\* A request's tenant and key do not change, and so whether it owns them.
LEMMA SameRequests ==
    ASSUME [Next]_vars
    PROVE  /\ request' = request
           /\ \A r \in Requests : /\ Owns(r)' = Owns(r)
                                  /\ Key(r)' = Key(r)
                                  /\ Op(r)' = Op(r)
<1>1. request' = request
  BY DEF Next, vars, history, Receive, Step, Validate, RejectMissing, RejectInsufficient,
         Load, PlanUpdate, Commit, UniqueViolation, VersionMismatch, IntegerOverflow,
         Retry, Publish, DatabaseError, Crash, SoftDelete, Done
<1> QED
  BY <1>1 DEF Owns, Key, Op

\* An entity that was found, or made, is of the request's tenant.
LEMMA LoadedIsOwned ==
    ASSUME TypeOK, TenantInv, NEW r \in Requests, Load(r)
    PROVE  Owns(r) /\ Loaded(r).tenant = request[r].tenant
<1>1. /\ Key(r) \in Keys /\ Row(r) = stock[Key(r)] /\ Op(r) \in Operations
      /\ Loaded(r) \in RowType
  BY RequestTypes DEF Row
<1>2. Loaded(r).tenant = request[r].tenant
  BY DEF Loaded, Finds, Absent
<1>3. CASE Finds(r)
  BY <1>1, <1>2, <1>3 DEF TenantInv, RowsAreOwned, Owns, Finds
<1>4. CASE ~Finds(r)
  BY <1>2, <1>4 DEF Load, TenantInv
<1> QED
  BY <1>2, <1>3, <1>4

LEMMA TenantStep ==
    ASSUME TypeOK, RowInv, TenantInv, [Next]_vars
    PROVE  TenantInv'
<1> USE SameRequests
<1>1. ASSUME UNCHANGED <<stock, committed, read>>,
             \A r \in Requests :
                \/ pc'[r] = pc[r]
                \/ pc[r] \in {"saving", "writing", "backoff"}
                \/ ~Holds(r)' /\ pc'[r] \notin {"reading", "backoff"}
                \/ Owns(r) /\ ~Holds(r)',
             \A r \in Requests : Holds(r)' => Holds(r)
      PROVE  TenantInv'
  <2>1. RowsAreOwned'
    BY <1>1 DEF TenantInv, RowsAreOwned
  <2>2. ASSUME NEW r \in Requests
        PROVE  /\ pc'[r] \in {"reading", "backoff"} /\ Op(r) \in {"deduct", "replenish"} => Owns(r)
               /\ Holds(r)' => Owns(r) /\ read[r].tenant = request[r].tenant
               /\ r \in committed => Owns(r) /\ Row(r).version > 0
    BY <1>1 DEF TenantInv, Holds
  <2>3. \A r \in Requests : Row(r)' = Row(r)
    BY <1>1 DEF Row
  <2> QED
    BY <1>1, <2>1, <2>2, <2>3 DEF TenantInv
<1>2. ASSUME NEW r \in Requests, Receive(r) \/ Validate(r) PROVE TenantInv'
  <2>1. /\ UNCHANGED <<stock, committed, read>>
        /\ \A q \in Requests : q # r => pc'[q] = pc[q]
        /\ ~Holds(r)'
    BY <1>2 DEF Receive, Validate, history, Goto, Holds, TypeOK
  <2>2. /\ pc'[r] # "backoff"
        /\ pc'[r] = "reading" /\ Op(r) \in {"deduct", "replenish"} => Owns(r)
    <3>1. CASE Receive(r)
      BY <3>1 DEF Receive, Goto, TypeOK
    <3>2. CASE Validate(r)
      BY <3>2 DEF Validate, Goto, TypeOK, Owns
    <3> QED
      BY <1>2, <3>1, <3>2
  <2>3. RowsAreOwned'
    BY <2>1 DEF TenantInv, RowsAreOwned
  <2>4. \A q \in Requests : Row(q)' = Row(q)
    BY <2>1 DEF Row
  <2> QED
    BY <2>1, <2>2, <2>3, <2>4 DEF TenantInv, Holds
<1>3. ASSUME NEW r \in Requests,
             \/ RejectMissing(r) \/ RejectInsufficient(r) \/ UniqueViolation(r)
             \/ IntegerOverflow(r) \/ Publish(r) \/ DatabaseError(r) \/ Crash(r)
      PROVE  TenantInv'
  <2>1. /\ UNCHANGED <<stock, committed, read>>
        /\ \A q \in Requests : q # r => pc'[q] = pc[q]
        /\ pc'[r] \notin {"saving", "writing", "reading", "backoff"}
    BY <1>3 DEF RejectMissing, RejectInsufficient, UniqueViolation, IntegerOverflow,
                Publish, DatabaseError, Crash, history, Goto, TypeOK
  <2> QED
    BY <2>1, <1>1 DEF Holds
<1>4. ASSUME NEW r \in Requests, VersionMismatch(r) \/ Retry(r) PROVE TenantInv'
  <2>1. /\ UNCHANGED <<stock, committed, read>>
        /\ \A q \in Requests : q # r => pc'[q] = pc[q]
        /\ pc[r] \in {"saving", "writing", "backoff"}
        /\ pc'[r] \notin {"saving", "writing"}
    BY <1>4 DEF VersionMismatch, RetryOrFail, Retry, history, Goto, TypeOK
  <2> QED
    BY <2>1, <1>1 DEF Holds
<1>5. ASSUME NEW r \in Requests, PlanUpdate(r) PROVE TenantInv'
  <2>1. /\ UNCHANGED <<stock, committed, read>>
        /\ \A q \in Requests : q # r => pc'[q] = pc[q]
        /\ pc[r] = "saving"
    BY <1>5 DEF PlanUpdate, history, Goto, TypeOK
  <2> QED
    BY <2>1, <1>1 DEF Holds
<1>6. ASSUME NEW r \in Requests, Load(r) PROVE TenantInv'
  <2>1. /\ UNCHANGED <<stock, committed>>
        /\ \A q \in Requests : q # r => pc'[q] = pc[q] /\ read'[q] = read[q]
        /\ pc'[r] = "saving" /\ read'[r] = Loaded(r)
    BY <1>6 DEF Load, history, Goto, TypeOK
  <2>2. Owns(r) /\ Loaded(r).tenant = request[r].tenant
    BY <1>6, LoadedIsOwned
  <2>3. RowsAreOwned'
    BY <2>1 DEF TenantInv, RowsAreOwned
  <2>4. \A q \in Requests : Row(q)' = Row(q)
    BY <2>1 DEF Row
  <2> QED
    BY <2>1, <2>2, <2>3, <2>4 DEF TenantInv, Holds
<1>7. ASSUME NEW r \in Requests, Commit(r) PROVE TenantInv'
  <2>1. /\ stock' = [stock EXCEPT ![Key(r)] = Written(r)]
        /\ committed' = committed \cup {r} /\ read' = read
        /\ \A q \in Requests : q # r => pc'[q] = pc[q]
        /\ pc[r] = "writing" /\ ~Overflows(r)
        /\ pc'[r] \notin {"saving", "writing", "reading", "backoff"}
    BY <1>7 DEF Commit, Goto, TypeOK
  <2>2. /\ Key(r) \in Keys /\ Row(r) = stock[Key(r)] /\ Row(r) \in RowType
        /\ Written(r) \in RowType /\ read[r] \in RowType
    BY RequestTypes DEF Row
  <2>3. Owns(r) /\ Written(r).tenant = request[r].tenant
    BY <2>1 DEF TenantInv, Holds, Written
  <2>4. Written(r).version >= Row(r).version
    BY <2>1, WrittenRow
  <2>5. Written(r).version > 0
    <3>1. CASE Row(r).version > 0
      BY <3>1, <2>2, <2>4 DEF RowType
    <3>2. CASE ~(Row(r).version > 0)
      <4>1. Row(r).version = 0 /\ read[r].version = 0
        BY <3>2, <2>1, <2>2 DEF RowInv, ReadIsPast, Holds, RowType
      <4>2. dirty[r] # {}
        BY <4>1, <2>1 DEF RowInv, PlanIsWhole, Columns
      <4> QED
        BY <4>1, <4>2 DEF Written
    <3> QED
      BY <3>1, <3>2
  <2>6. \A k \in Keys : k # Key(r) => stock'[k] = stock[k]
    BY <2>1 DEF TypeOK
  <2>7. stock'[Key(r)] = Written(r)
    BY <2>1, <2>2 DEF TypeOK
  <2>8. RowsAreOwned'
    BY <2>3, <2>6, <2>7 DEF TenantInv, RowsAreOwned, Owns
  <2>9. ASSUME NEW q \in Requests, q \in committed'
        PROVE  Owns(q) /\ Row(q)'.version > 0
    <3>1. Key(q) \in Keys /\ Row(q)' = stock'[Key(q)]
      BY RequestTypes DEF Row
    <3>2. CASE Key(q) = Key(r)
      BY <3>1, <3>2, <2>1, <2>3, <2>5, <2>7, <2>9 DEF TenantInv
    <3>3. CASE Key(q) # Key(r)
      BY <3>1, <3>3, <2>1, <2>6, <2>9 DEF TenantInv, Row
    <3> QED
      BY <3>2, <3>3
  <2> QED
    BY <2>1, <2>8, <2>9 DEF TenantInv, Holds
<1>8. ASSUME NEW x \in Removable, SoftDelete(x) PROVE TenantInv'
  <2>1. UNCHANGED <<stock, committed, read, pc>>
    BY <1>8 DEF SoftDelete, history
  <2> QED
    BY <2>1, <1>1 DEF Holds
<1>9. CASE UNCHANGED vars
  <2>1. UNCHANGED <<stock, committed, read, pc>>
    BY <1>9 DEF vars
  <2> QED
    BY <2>1, <1>1 DEF Holds
<1> QED
  BY <1>2, <1>3, <1>4, <1>5, <1>6, <1>7, <1>8, <1>9 DEF Next, Step, Done

LEMMA TenantInit ==
    ASSUME Init
    PROVE  TenantInv
<1>1. RowsAreOwned
  BY InventoryAssumption DEF Init, RowsAreOwned, Absent
<1> QED
  BY <1>1 DEF Init, TenantInv, Holds

\* TenantsIsolated: with any number of tenants, a committed request has moved
\* stock of its own tenant only.
THEOREM TenantsStayApart == Spec => []TenantsIsolated
<1>1. TypeOK /\ TenantInv => TenantsIsolated
  <2> SUFFICES ASSUME TypeOK, TenantInv, NEW r \in committed
               PROVE  {Row(r).tenant, Owner[Key(r)[1]], Owner[Key(r)[2]]} = {request[r].tenant}
    BY DEF TenantsIsolated
  <2>1. r \in Requests /\ Key(r) \in Keys /\ Row(r) = stock[Key(r)]
    BY RequestTypes DEF TypeOK, Row
  <2>2. Owns(r) /\ Row(r).version > 0
    BY <2>1 DEF TenantInv
  <2> QED
    BY <2>1, <2>2 DEF TenantInv, RowsAreOwned, Owns
<1>2. TypeOK /\ RowInv /\ TenantInv /\ [Next]_vars => TenantInv'
  BY TenantStep
<1> QED
  BY TenantInit, <1>1, <1>2, RowsInvariant, PTL DEF Spec

-----------------------------------------------------------------------------
(* Movements.                                                              *)

\* A commit is of a request that had not committed before.
LEMMA CommitIsNew ==
    ASSUME TypeOK, AnswerInv, NEW r \in Requests, Commit(r)
    PROVE  /\ r \notin committed
           /\ committed' = committed \cup {r}
           /\ committed' \ committed = {r}
BY DEF AnswerInv, Commit

\* What a commit that is not stale does: it writes the entity over the row
\* that was read, under the next version.  (Every operation moves available
\* units, so the UPDATE has a column to set.)
LEMMA FreshCommit ==
    ASSUME TypeOK, RowInv, NEW r \in Requests, Commit(r), ~Stale(r)
    PROVE  /\ Key(r) \in Keys
           /\ stock' = [stock EXCEPT ![Key(r)] = Written(r)]
           /\ read[r].version = Row(r).version
           /\ read[r].available = Row(r).available
           /\ read[r].reserved = Row(r).reserved
           /\ Written(r).version = Row(r).version + 1
           /\ Written(r).available = Entity(r).available
           /\ Written(r).reserved = Entity(r).reserved
<1>1. Key(r) \in Keys /\ pc[r] = "writing" /\ ~Overflows(r)
  BY RequestTypes DEF Commit
<1>2. /\ read[r].version = Row(r).version
      /\ read[r].available = Row(r).available
      /\ read[r].reserved = Row(r).reserved
  BY <1>1 DEF Stale, RowInv, ReadIsPast, Holds
<1>3. Entity(r).available # Row(r).available
  <2>1. /\ Op(r) \in Operations /\ request[r].quantity \in Nat \ {0}
        /\ read[r].available \in Int
    BY RequestTypes DEF RowType
  <2>2. AvailableChange(r) \in Int /\ AvailableChange(r) # 0
    BY <2>1 DEF AvailableChange
  <2> QED
    BY <2>1, <2>2, <1>2, EntityFields
<1>4. dirty[r] # {}
  BY <1>1, <1>2, <1>3 DEF RowInv, PlanIsComplete
<1> QED
  BY <1>1, <1>2, <1>4, WrittenRow DEF Commit, Written

-----------------------------------------------------------------------------
(* The ledger.                                                             *)

\* The ledger as the table shows it.
OnHand == [k \in Keys |-> Holding(stock[k])]

\* What r adds to a holding
Movement(r) == [available |-> AvailableChange(r), reserved |-> ReservedChange(r)]

\* The row, and every entity that was found, is a holding the row has had.
LedgerInv ==
    /\ \A k \in Keys : Holding(stock[k]) \in past[k]
    /\ \A r \in Requests : Holds(r) /\ read[r].version > 0 =>
          Holding(read[r]) \in past[Key(r)]

LEMMA LedgerInvStep ==
    ASSUME TypeOK, LedgerInv, [Next]_vars
    PROVE  LedgerInv'
<1>0. \A r \in Requests : Key(r) \in Keys
  BY RequestTypes
<1>1. CASE Quiet
  <2>1. UNCHANGED <<stock, request, read, past>>
    BY <1>1 DEF Quiet
  <2>2. \A r \in Requests : (Holds(r)' => Holds(r)) /\ Key(r)' = Key(r)
    BY <1>1 DEF Quiet, Holds, Key
  <2> QED
    BY <2>1, <2>2 DEF LedgerInv, Holding
<1>2. ASSUME NEW r \in Requests, Load(r) PROVE LedgerInv'
  <2>1. /\ UNCHANGED <<stock, request, past>>
        /\ read' = [read EXCEPT ![r] = Loaded(r)]
        /\ \A q \in Requests : q # r => read'[q] = read[q] /\ pc'[q] = pc[q]
    BY <1>2 DEF Load, Goto, TypeOK, history
  <2>2. read'[r] = Loaded(r)
    BY <2>1 DEF TypeOK
  <2>3. Loaded(r).version > 0 => Loaded(r) = stock[Key(r)]
    BY DEF Loaded, Absent, Row
  <2> QED
    BY <1>0, <2>1, <2>2, <2>3 DEF LedgerInv, Holds, Key, Holding
<1>3. ASSUME NEW r \in Requests, PlanUpdate(r) PROVE LedgerInv'
  <2>1. /\ UNCHANGED <<stock, request, past, read>>
        /\ \A q \in Requests : Holds(q)' => Holds(q)
    BY <1>3 DEF PlanUpdate, Goto, Holds, TypeOK, history
  <2> QED
    BY <2>1 DEF LedgerInv, Key, Holding
<1>4. ASSUME NEW r \in Requests, Commit(r) PROVE LedgerInv'
  <2>1. /\ UNCHANGED <<request, read>>
        /\ \A q \in Requests : Holds(q)' => Holds(q)
        /\ stock' = [stock EXCEPT ![Key(r)] = Written(r)]
        /\ past' = [past EXCEPT ![Key(r)] = @ \cup {Holding(Written(r))}]
    BY <1>4 DEF Commit, Goto, Holds, TypeOK
  <2>2. \A k \in Keys : past[k] \subseteq past'[k]
    BY <2>1 DEF TypeOK
  <2>3. \A k \in Keys : Holding(stock'[k]) \in past'[k]
    BY <1>0, <2>1, <2>2 DEF TypeOK, LedgerInv
  <2>4. ASSUME NEW q \in Requests, Holds(q)', read[q].version > 0
        PROVE  Holding(read[q]) \in past'[Key(q)]
    BY <1>0, <2>1, <2>2, <2>4 DEF LedgerInv
  <2> QED
    BY <2>1, <2>3, <2>4 DEF LedgerInv, Key, Holding
<1> QED
  BY <1>1, <1>2, <1>3, <1>4, OtherActionsAreQuiet

LEMMA LedgerInvariant == Spec => []LedgerInv
<1>1. Init => LedgerInv
  BY DEF Init, LedgerInv, Holds
<1> QED
  BY <1>1, LedgerInvStep, TypeCorrect, PTL DEF Spec

LEMMA MovementIsOne ==
    ASSUME TypeOK, NEW r \in Requests
    PROVE  Movement(r) \in Ledger!Movements
<1>1. Op(r) \in Operations /\ request[r].quantity \in Quantities
  BY RequestTypes DEF TypeOK, Inputs
<1> QED
  BY <1>1 DEF Movement, Ledger!Movements, AvailableChange, ReservedChange, Operations

\* A commit puts one holding in the place of another.
LEMMA CommitBecomes ==
    ASSUME TypeOK, RowInv, NEW r \in Requests, Commit(r)
    PROVE  Ledger!Becomes(Key(r), Holding(Written(r)))
<1>1. /\ Key(r) \in Keys /\ Written(r) \in RowType
      /\ pc[r] = "writing" /\ ~Overflows(r)
      /\ stock' = [stock EXCEPT ![Key(r)] = Written(r)]
      /\ past' = [past EXCEPT ![Key(r)] = @ \cup {Holding(Written(r))}]
  BY RequestTypes DEF Commit
<1>2. Holding(Written(r)) \in Ledger!Holding
  BY <1>1, WrittenRow DEF Ledger!Holding, Holding, RowType
<1>3. OnHand' = [OnHand EXCEPT ![Key(r)] = Holding(Written(r))]
  BY <1>1 DEF OnHand, Holding, TypeOK
<1> QED
  BY <1>1, <1>2, <1>3 DEF Ledger!Becomes, OnHand

LEMMA FreshCommitMoves ==
    ASSUME TypeOK, RowInv, NEW r \in Requests, Commit(r), ~Stale(r)
    PROVE  Ledger!Next
<1>1. /\ Key(r) \in Keys /\ Written(r) \in RowType
      /\ Written(r).version = stock[Key(r)].version + 1
      /\ Written(r).available = stock[Key(r)].available + AvailableChange(r)
      /\ Written(r).reserved = stock[Key(r)].reserved + ReservedChange(r)
  BY RequestTypes, FreshCommit, EntityFields DEF Row
<1>2. Holding(Written(r)) = Ledger!Moved(OnHand[Key(r)], Movement(r))
  BY <1>1 DEF Holding, Ledger!Moved, OnHand, Movement
<1>3. Ledger!Move(Key(r), Movement(r))
  BY <1>2, CommitBecomes DEF Ledger!Move, OnHand
<1> QED
  BY <1>1, <1>3, MovementIsOne DEF Ledger!Next

LEMMA StaleCommitOverwrites ==
    ASSUME TypeOK, RowInv, LedgerInv, NEW r \in Requests, Commit(r), Stale(r)
    PROVE  Ledger!Next
<1>1. /\ Key(r) \in Keys /\ Row(r) = stock[Key(r)]
      /\ Row(r) \in RowType /\ read[r] \in RowType
      /\ pc[r] = "writing" /\ ~Conflict(r)
      /\ dirty[r] \in SUBSET {"available", "reserved"}
  BY RequestTypes DEF Commit, Row, TypeOK, Columns
<1> DEFINE seen == Holding(read[r])
<1>2. read[r].version < Row(r).version /\ read[r].version > 0
  BY <1>1 DEF Conflict, Stale, RowInv, ReadIsPast, Holds, RowType
<1>3. seen \in past[Key(r)]
  BY <1>1, <1>2 DEF LedgerInv, Holds
<1>4. /\ Ledger!Moved(seen, Movement(r)).available = Entity(r).available
      /\ Ledger!Moved(seen, Movement(r)).reserved = Entity(r).reserved
  BY EntityFields DEF Ledger!Moved, Movement, Holding
<1>5. Entity(r).available >= 0 /\ Entity(r).reserved >= 0
  BY <1>1, CoveredStaysNonNegative DEF RowInv, ReadCovers, Holds
<1>6. seen.version < OnHand[Key(r)].version
  BY <1>1, <1>2 DEF Holding, OnHand
<1>7. Holding(Written(r)) =
         [available |-> IF "available" \in dirty[r]
                        THEN Ledger!Moved(seen, Movement(r)).available
                        ELSE OnHand[Key(r)].available,
          reserved  |-> IF "reserved" \in dirty[r]
                        THEN Ledger!Moved(seen, Movement(r)).reserved
                        ELSE OnHand[Key(r)].reserved,
          version   |-> IF dirty[r] = {} THEN OnHand[Key(r)].version
                                         ELSE OnHand[Key(r)].version + 1]
  BY <1>1, <1>4 DEF Written, Holding, OnHand
<1>8. Ledger!Overwrite(Key(r), seen, Movement(r), dirty[r])
  BY <1>4, <1>5, <1>6, <1>7, CommitBecomes DEF Ledger!Overwrite, OnHand
<1> QED
  BY <1>1, <1>3, <1>8, MovementIsOne DEF Ledger!Next

LEMMA LedgerInit == Init => Ledger!Init
<1> SUFFICES ASSUME Init PROVE Ledger!Init
  OBVIOUS
<1>1. \A k \in Keys : Holding(stock[k]) \in Ledger!Holding
  BY InventoryAssumption DEF Init, Rows, Ledger!Holding, Holding
<1> QED
  BY <1>1 DEF Init, Ledger!Init

LEMMA LedgerStep ==
    ASSUME TypeOK, RowInv, LedgerInv, [Next]_vars
    PROVE  Ledger!Next \/ UNCHANGED <<OnHand, past>>
<1>1. CASE \E r \in Requests : Load(r) \/ PlanUpdate(r)
  BY <1>1 DEF Load, PlanUpdate, OnHand, history
<1>2. CASE \E r \in Requests : Commit(r)
  BY <1>2, FreshCommitMoves, StaleCommitOverwrites
<1>3. CASE Quiet
  BY <1>3 DEF Quiet, OnHand
<1> QED
  BY <1>1, <1>2, <1>3, OtherActionsAreQuiet

\* ImplementsLedger: every behaviour of the engine is one of StockLedger, a
\* commit of the row that was read being a movement, a stale one a movement
\* of a row that there was, and every other step a stutter.
THEOREM EngineImplementsLedger == Spec => ImplementsLedger
<1>1. TypeOK /\ RowInv /\ LedgerInv /\ [Next]_vars => [Ledger!Next]_<<OnHand, past>>
  BY LedgerStep
<1> QED
  BY LedgerInit, <1>1, RowsInvariant, LedgerInvariant, PTL
     DEF Spec, ImplementsLedger, Ledger!Spec, OnHand

-----------------------------------------------------------------------------
(* The audit trail and the alerts.                                         *)

\* The requests that committed over the row they had read
Fresh == committed \ overwriting

\* The movement of s leaves from where that of r ended.
Follows(r, s) ==
    read[s].version = read[r].version + 1 =>
        /\ read[s].available = Entity(r).available
        /\ read[s].reserved = Entity(r).reserved

\* The row is past the movement of r, and is what the last of them made it.
Behind(r) ==
    /\ read[r].version < Row(r).version
    /\ Row(r).version = read[r].version + 1 =>
          /\ Row(r).available = Entity(r).available
          /\ Row(r).reserved = Entity(r).reserved

\* Whoever read the row then found that; and nobody else moved what r moved.
Chained(r, s) ==
    Key(s) = Key(r) =>
        /\ Holds(s) \/ s \in Fresh => Follows(r, s)
        /\ s \in Fresh => read[r].version # read[s].version

ChainInv ==
    \A r \in Fresh : Behind(r) /\ \A s \in Requests \ {r} : Chained(r, s)

\* Neither a row nor an entity changes, and nobody holds or commits one who
\* did not.
LEMMA QuietChain ==
    ASSUME TypeOK, ChainInv, UNCHANGED <<stock, request, read, committed, overwriting>>,
           \A r \in Requests : Holds(r)' => Holds(r)
    PROVE  ChainInv'
<1>1. \A r \in Requests : /\ Row(r)' = Row(r) /\ Entity(r)' = Entity(r)
                          /\ Key(r)' = Key(r)
  BY DEF Row, Entity, Key, AvailableChange, ReservedChange, Op
<1>2. \A r, s \in Requests : Follows(r, s)' = Follows(r, s)
  BY <1>1 DEF Follows
<1> QED
  BY <1>1, <1>2 DEF ChainInv, Behind, Chained, TypeOK, Fresh

LEMMA LoadChain ==
    ASSUME TypeOK, AnswerInv, ChainInv, NEW q \in Requests, Load(q)
    PROVE  ChainInv'
<1>1. /\ UNCHANGED <<stock, request, committed, overwriting>>
      /\ q \notin Fresh /\ Fresh' = Fresh /\ Fresh \subseteq Requests
      /\ read' = [read EXCEPT ![q] = Loaded(q)]
      /\ read'[q] = Loaded(q)
      /\ \A s \in Requests : s # q => read'[s] = read[s] /\ pc'[s] = pc[s]
  BY DEF Load, Goto, TypeOK, AnswerInv, history, Fresh
<1>2. \A r \in Requests : /\ Row(r)' = Row(r) /\ Key(r)' = Key(r)
                          /\ r # q => Entity(r)' = Entity(r)
  BY <1>1 DEF Row, Entity, Key, AvailableChange, ReservedChange, Op
<1> SUFFICES ASSUME NEW r \in Fresh
             PROVE  Behind(r)' /\ \A s \in Requests \ {r} : Chained(r, s)'
  BY <1>1 DEF ChainInv
<1>3. r # q /\ r \in Requests /\ read'[r] = read[r] /\ Entity(r)' = Entity(r)
  BY <1>1, <1>2
<1>4. Row(r).version \in Nat /\ read[r].version \in Nat
  BY <1>3, RequestTypes DEF RowType
<1>5. Behind(r)'
  BY <1>2, <1>3 DEF ChainInv, Behind
<1>6. ASSUME NEW s \in Requests \ {r}, s # q
      PROVE  Chained(r, s)'
  <2>1. read'[s] = read[s] /\ Holds(s)' = Holds(s)
    BY <1>1, <1>6 DEF Holds
  <2> QED
    BY <1>1, <1>2, <1>3, <1>6, <2>1 DEF ChainInv, Chained, Follows
<1>7. Chained(r, q)'
  <2>1. CASE Finds(q)
    BY <1>1, <1>2, <1>3, <2>1 DEF ChainInv, Behind, Chained, Follows, Loaded, Row
  <2>2. CASE ~Finds(q)
    BY <1>1, <1>2, <1>3, <1>4, <2>2 DEF Chained, Follows, Loaded, Absent
  <2> QED
    BY <2>1, <2>2
<1> QED
  BY <1>5, <1>6, <1>7

\* A stale commit is not of the chain, and it gives the row another version
\* or leaves it as it is.
LEMMA StaleCommitChain ==
    ASSUME TypeOK, RowInv, AnswerInv, ChainInv,
           NEW q \in Requests, Commit(q), Stale(q)
    PROVE  ChainInv'
<1>1. /\ UNCHANGED <<request, read>>
      /\ q \notin committed
      /\ Fresh' = Fresh /\ Fresh \subseteq Requests
      /\ stock' = [stock EXCEPT ![Key(q)] = Written(q)]
      /\ pc[q] = "writing" /\ ~Overflows(q)
      /\ \A s \in Requests : Holds(s)' => Holds(s)
  BY CommitIsNew DEF Commit, Goto, Holds, TypeOK, Fresh
<1>2. \A r \in Requests :
         /\ Key(r)' = Key(r) /\ Key(r) \in Keys /\ Entity(r)' = Entity(r)
         /\ Key(r) = Key(q) => Row(r) = Row(q) /\ Row(r)' = Written(q)
         /\ Key(r) # Key(q) => Row(r)' = Row(r)
         /\ read[r].version \in Nat /\ Row(r).version \in Nat
  BY <1>1, RequestTypes
     DEF Row, Entity, Key, AvailableChange, ReservedChange, Op, TypeOK, RowType
<1>3. /\ Written(q).version \in Nat
      /\ Written(q).version >= Row(q).version
      /\ Written(q).version = Row(q).version =>
            /\ Written(q).available = Row(q).available
            /\ Written(q).reserved = Row(q).reserved
  BY <1>1, WrittenRow, RequestTypes DEF RowType
<1>4. \A r, s \in Requests : Follows(r, s)' = Follows(r, s)
  BY <1>1, <1>2 DEF Follows
<1> SUFFICES ASSUME NEW r \in Fresh
             PROVE  Behind(r)' /\ \A s \in Requests \ {r} : Chained(r, s)'
  BY <1>1 DEF ChainInv
<1>5. r \in Requests /\ Behind(r) /\ \A s \in Requests \ {r} : Chained(r, s)
  BY <1>1 DEF ChainInv
<1>6. Behind(r)'
  BY <1>1, <1>2, <1>3, <1>5 DEF Behind
<1> QED
  BY <1>1, <1>2, <1>4, <1>5, <1>6 DEF Chained

LEMMA FreshCommitChain ==
    ASSUME TypeOK, RowInv, AnswerInv, ChainInv,
           NEW q \in Requests, Commit(q), ~Stale(q)
    PROVE  ChainInv'
<1>1. /\ UNCHANGED <<request, read, overwriting>>
      /\ q \notin Fresh /\ Fresh' \subseteq Fresh \cup {q}
      /\ \A s \in Requests : Holds(s)' => Holds(s)
  BY CommitIsNew DEF Commit, Goto, Holds, TypeOK, Fresh
<1>2. /\ Key(q) \in Keys
      /\ stock' = [stock EXCEPT ![Key(q)] = Written(q)]
      /\ read[q].version = Row(q).version
      /\ Written(q).version = Row(q).version + 1
      /\ Written(q).available = Entity(q).available
      /\ Written(q).reserved = Entity(q).reserved
  BY FreshCommit
<1>3. \A r \in Requests :
         /\ Key(r)' = Key(r) /\ Key(r) \in Keys /\ Entity(r)' = Entity(r)
         /\ Key(r) = Key(q) => Row(r) = Row(q) /\ Row(r)' = Written(q)
         /\ Key(r) # Key(q) => Row(r)' = Row(r)
         /\ read[r].version \in Nat /\ Row(r).version \in Nat
         /\ Holds(r) => read[r].version <= Row(r).version
  BY <1>1, <1>2, RequestTypes
     DEF Row, Entity, Key, AvailableChange, ReservedChange, Op, TypeOK, RowType,
         RowInv, ReadIsPast
<1>4. q \in Requests /\ Fresh \subseteq Requests
  BY DEF TypeOK, Fresh
<1>5. Holds(q)
  BY DEF Commit, Holds
<1>6. \A r, s \in Requests : Follows(r, s)' = Follows(r, s)
  BY <1>1, <1>3 DEF Follows
<1>7. Behind(q)' /\ \A s \in Requests \ {q} : Chained(q, s)'
  <2>1. Behind(q)'
    BY <1>1, <1>2, <1>3, <1>4 DEF Behind
  <2>2. ASSUME NEW s \in Requests, Key(s) = Key(q), Holds(s) \/ s \in Fresh
        PROVE  read[s].version <= read[q].version
    BY <1>2, <1>3, <1>4, <2>2 DEF ChainInv, Behind
  <2>3. ASSUME NEW s \in Requests, Key(s) = Key(q), s \in Fresh
        PROVE  read[s].version # read[q].version
    BY <1>2, <1>3, <1>4, <2>3 DEF ChainInv, Behind
  <2>4. ASSUME NEW s \in Requests \ {q}
        PROVE  Chained(q, s)'
    BY <1>1, <1>3, <1>4, <1>6, <2>2, <2>3, <2>4 DEF Chained, Follows
  <2> QED
    BY <2>1, <2>4
<1>8. ASSUME NEW r \in Fresh
      PROVE  Behind(r)' /\ \A s \in Requests \ {r} : Chained(r, s)'
  <2>1. r \in Requests /\ Behind(r) /\ \A s \in Requests \ {r} : Chained(r, s)
    BY <1>4, <1>8 DEF ChainInv
  <2>2. Behind(r)'
    BY <1>1, <1>2, <1>3, <1>4, <2>1 DEF Behind
  <2>3. ASSUME NEW s \in Requests \ {r}, s # q
        PROVE  Chained(r, s)'
    BY <1>1, <1>3, <1>6, <2>1, <2>3 DEF Chained
  <2>4. r # q => Chained(r, q)'
    BY <1>1, <1>2, <1>3, <1>4, <1>5, <1>6, <2>1 DEF Chained, Behind
  <2> QED
    BY <2>2, <2>3, <2>4
<1> QED
  BY <1>1, <1>7, <1>8 DEF ChainInv

LEMMA ChainStep ==
    ASSUME TypeOK, RowInv, AnswerInv, ChainInv, [Next]_vars
    PROVE  ChainInv'
<1>1. CASE \E r \in Requests : Load(r)
  BY <1>1, LoadChain
<1>2. CASE \E r \in Requests : Commit(r)
  BY <1>2, StaleCommitChain, FreshCommitChain
<1>3. CASE \E r \in Requests : PlanUpdate(r)
  BY <1>3, QuietChain DEF PlanUpdate, Goto, Holds, TypeOK, history
<1>4. CASE Quiet /\ UNCHANGED <<stock, committed, tally>>
  BY <1>4, QuietChain DEF Quiet, Holds
<1> QED
  BY <1>1, <1>2, <1>3, <1>4, OtherActionsAreQuiet, OthersCommitNothing

\* TrailForksOnlyByOverwrite: but for stale commits, the published movements
\* of a row replay its history, each leaving from where another ended.
THEOREM TrailForksAtStaleCommits == Spec => []TrailForksOnlyByOverwrite
<1>1. Init => ChainInv
  BY DEF Init, ChainInv, Fresh
<1>2. TypeOK /\ RowInv /\ AnswerInv /\ ChainInv /\ [Next]_vars => ChainInv'
  BY ChainStep
<1>3. TypeOK /\ AnswerInv /\ ChainInv => TrailForksOnlyByOverwrite
  <2> SUFFICES ASSUME TypeOK, AnswerInv, ChainInv,
                      NEW r \in emitted \ overwriting, NEW s \in emitted \ overwriting,
                      r # s, Key(r) = Key(s)
               PROVE  read[r].version # read[s].version /\ Follows(r, s)
    BY DEF TrailForksOnlyByOverwrite, Follows
  <2>1. r \in Fresh /\ s \in Fresh /\ r \in Requests /\ s \in Requests
    BY DEF AnswerInv, TypeOK, Fresh
  <2> QED
    BY <2>1 DEF ChainInv, Chained
<1> QED
  BY <1>1, <1>2, <1>3, RowsInvariant, AnswersInvariant, PTL DEF Spec

\* Only what committed has overwritten anything.
OverwritersCommitted == overwriting \subseteq committed

LEMMA OverwritersInvariant == Spec => []OverwritersCommitted
<1>1. Init => OverwritersCommitted
  BY DEF Init, OverwritersCommitted
<1>2. TypeOK /\ OverwritersCommitted /\ [Next]_vars => OverwritersCommitted'
  <2> SUFFICES ASSUME TypeOK, OverwritersCommitted, [Next]_vars
               PROVE  OverwritersCommitted'
    OBVIOUS
  <2>1. CASE \E r \in Requests : Load(r) \/ PlanUpdate(r)
    BY <2>1 DEF Load, PlanUpdate, history, OverwritersCommitted
  <2>2. CASE \E r \in Requests : Commit(r)
    BY <2>2 DEF Commit, OverwritersCommitted
  <2>3. CASE Quiet /\ UNCHANGED <<stock, committed, tally>>
    BY <2>3 DEF Quiet, OverwritersCommitted
  <2> QED
    BY <2>1, <2>2, <2>3, OtherActionsAreQuiet, OthersCommitNothing
<1> QED
  BY <1>1, <1>2, TypeCorrect, PTL DEF Spec

\* What a commit says of the row it writes is so, unless it is stale.
LEMMA CommitAlerts ==
    ASSUME TypeOK, RowInv, AnswerInv, OverwritersCommitted,
           NEW r \in Requests, Commit(r), NEW k \in Keys
    PROVE  \/ Fell(k) <=> Said(k)
           \/ \E q \in overwriting' \ overwriting : Key(q) = k
<1>1. /\ committed' \ committed = {r} /\ Key(r) \in Keys
      /\ stock' = [stock EXCEPT ![Key(r)] = Written(r)]
  BY CommitIsNew, RequestTypes DEF Commit
<1>2. CASE k # Key(r)
  <2>1. stock'[k] = stock[k]
    BY <1>1, <1>2 DEF TypeOK
  <2>2. ~Fell(k)
    BY <2>1, InventoryAssumption DEF TypeOK, Fell
  <2> QED
    BY <1>1, <1>2, <2>2 DEF Said
<1>3. CASE k = Key(r) /\ ~Stale(r)
  <2>1. /\ read[r].available = stock[k].available
        /\ Written(r).available = Entity(r).available
    BY <1>3, FreshCommit DEF Row
  <2> QED
    BY <1>1, <1>3, <2>1 DEF Crossed, TypeOK, Fell, Said
<1>4. CASE k = Key(r) /\ Stale(r)
  <2>1. overwriting' = overwriting \cup {r}
    BY <1>4 DEF Commit
  <2>2. r \notin overwriting
    BY <1>1 DEF OverwritersCommitted
  <2> QED
    BY <1>4, <2>1, <2>2
<1> QED
  BY <1>2, <1>3, <1>4

LEMMA StepAlerts ==
    ASSUME TypeOK, RowInv, AnswerInv, OverwritersCommitted, [Next]_vars, NEW k \in Keys
    PROVE  \/ Fell(k) <=> Said(k)
           \/ \E r \in overwriting' \ overwriting : Key(r) = k
<1>1. CASE \E r \in Requests : Commit(r)
  BY <1>1, CommitAlerts
<1>2. CASE UNCHANGED <<stock, committed, tally>>
  <2>1. ~Fell(k)
    BY <1>2, InventoryAssumption DEF TypeOK, Fell
  <2>2. ~Said(k)
    BY <1>2 DEF Said
  <2> QED
    BY <2>1, <2>2
<1> QED
  BY <1>1, <1>2, OthersCommitNothing

\* AlertsFailOnlyByOverwrite: the low-stock alert is missed, or false, only
\* for a commit over a row that its request had not read.
THEOREM StaleCommitsAloneMislead == Spec => AlertsFailOnlyByOverwrite
<1>1. TypeOK /\ RowInv /\ AnswerInv /\ OverwritersCommitted /\ [Next]_vars
         => [\A k \in Keys :
                \/ Fell(k) <=> Said(k)
                \/ \E r \in overwriting' \ overwriting : Key(r) = k]_vars
  BY StepAlerts
<1> QED
  BY <1>1, RowsInvariant, AnswersInvariant, OverwritersInvariant, PTL
     DEF Spec, AlertsFailOnlyByOverwrite

-----------------------------------------------------------------------------
(* Stock that was removed.                                                 *)

\* A request that came too late has not found anything to move, and what it
\* came too late for does not come back.
LateInv ==
    /\ \A r \in late : ~KeyLive(r) /\ pc[r] \in Final \cup {"validating", "reading"}
    /\ \A r \in late : pc[r] = "reading" => Op(r) # "replenish"
    /\ \A r \in Requests : pc[r] = "idle" => r \notin late
    /\ committed \cap late = {}

LEMMA LateStep ==
    ASSUME TypeOK, AnswerInv, LateInv, [Next]_vars
    PROVE  LateInv'
<1> USE DEF LateInv, TypeOK, Goto, Final, Answers
<1>1. /\ request' = request /\ live' \subseteq live
      /\ \A r \in Requests : Op(r)' = Op(r) /\ (KeyLive(r)' => KeyLive(r))
  <2>1. request' = request
    BY SameRequests
  <2>2. live' \subseteq live
    BY DEF Next, vars, history, Receive, Step, Validate, RejectMissing, RejectInsufficient,
           Load, PlanUpdate, Commit, UniqueViolation, VersionMismatch, IntegerOverflow,
           Retry, Publish, DatabaseError, Crash, SoftDelete, Done
  <2> QED
    BY <2>1, <2>2 DEF Op, KeyLive, Key
<1>2. ASSUME NEW r \in Requests, Receive(r) PROVE LateInv'
  <2>1. /\ pc[r] = "idle" /\ committed' = committed /\ r \notin late
        /\ late' = late \/ (late' = late \cup {r} /\ ~KeyLive(r)')
        /\ \A q \in Requests : q # r => pc'[q] = pc[q]
        /\ pc'[r] \in {"validating", "reading"}
        /\ pc'[r] = "reading" => Op(r) # "replenish"
    BY <1>1, <1>2 DEF Receive
  <2>2. r \notin committed
    BY <1>2, <2>1 DEF AnswerInv
  <2> QED
    BY <1>1, <2>1, <2>2
<1>3. ASSUME NEW r \in Requests, Validate(r) PROVE LateInv'
  <2>1. /\ UNCHANGED <<committed, late>>
        /\ \A q \in Requests : q # r => pc'[q] = pc[q]
        /\ pc'[r] \in {"reading", "404"}
        /\ pc'[r] = "reading" => KeyLive(r)
    BY <1>3 DEF Validate, history
  <2> QED
    BY <1>1, <2>1
<1>4. ASSUME NEW r \in Requests, Load(r) PROVE LateInv'
  <2>1. /\ UNCHANGED <<committed, late>> /\ pc[r] = "reading"
        /\ \A q \in Requests : q # r => pc'[q] = pc[q]
        /\ KeyLive(r) \/ Op(r) = "replenish"
        /\ pc'[r] = "saving"
    BY <1>4 DEF Load, Finds, history
  <2>2. r \notin late
    BY <2>1
  <2> QED
    BY <1>1, <2>1, <2>2
<1>5. ASSUME NEW r \in Requests, Commit(r) PROVE LateInv'
  <2>1. /\ late' = late /\ pc[r] = "writing" /\ committed' = committed \cup {r}
        /\ \A q \in Requests : q # r => pc'[q] = pc[q]
        /\ pc'[r] # "idle"
    BY <1>5 DEF Commit
  <2>2. r \notin late
    BY <2>1
  <2> QED
    BY <1>1, <2>1, <2>2
<1>6. ASSUME NEW r \in Requests,
             \/ RejectMissing(r) \/ RejectInsufficient(r) \/ PlanUpdate(r)
             \/ UniqueViolation(r) \/ VersionMismatch(r) \/ IntegerOverflow(r)
             \/ Retry(r) \/ Publish(r) \/ DatabaseError(r) \/ Crash(r)
      PROVE  LateInv'
  <2>1. /\ UNCHANGED <<committed, late>>
        /\ \A q \in Requests : q # r => pc'[q] = pc[q]
        /\ \/ pc'[r] \in Final
           \/ pc[r] \in {"saving", "writing", "backoff"} /\ pc'[r] # "idle"
    BY <1>6 DEF RejectMissing, RejectInsufficient, PlanUpdate, UniqueViolation,
                VersionMismatch, RetryOrFail, IntegerOverflow, Retry, Publish,
                DatabaseError, Crash, history
  <2> QED
    BY <1>1, <2>1
<1>7. CASE (\E x \in Removable : SoftDelete(x)) \/ UNCHANGED vars
  BY <1>1, <1>7 DEF SoftDelete, vars, history
<1> QED
  BY <1>2, <1>3, <1>4, <1>5, <1>6, <1>7 DEF Next, Step, Done

\* RemovedStockStays: whatever is removed when, a request that arrives after
\* its variant or warehouse was removed commits nothing.
THEOREM RemovedStockIsNotMoved == Spec => []RemovedStockStays
<1>1. Init => LateInv
  BY DEF Init, LateInv
<1>2. TypeOK /\ AnswerInv /\ LateInv /\ [Next]_vars => LateInv'
  BY LateStep
<1>3. LateInv => RemovedStockStays
  BY DEF LateInv, RemovedStockStays
<1> QED
  BY <1>1, <1>2, <1>3, TypeCorrect, AnswersInvariant, PTL DEF Spec

-----------------------------------------------------------------------------
(* Retries.                                                                *)

\* The requests whose commit may have cost r an attempt
Rivals(r) == {s \in committed \ {r} : Key(s) = Key(r)}

\* An attempt that is bound to fail on the version is owed to a rival that
\* committed since it read.
RetryInv ==
    /\ IsFiniteSet(committed)
    /\ \A r \in Requests :
          /\ attempt[r] - 1 <= Cardinality(Rivals(r))
          /\ \/ pc[r] = "backoff"
             \/ Holds(r) /\ read[r].version > 0 /\ Stale(r)
             => attempt[r] <= Cardinality(Rivals(r))

LEMMA RivalsCounted ==
    ASSUME IsFiniteSet(committed), NEW r \in Requests
    PROVE  IsFiniteSet(Rivals(r)) /\ Cardinality(Rivals(r)) \in Nat
<1>1. IsFiniteSet(Rivals(r))
  BY FS_Subset DEF Rivals
<1> QED
  BY <1>1, FS_CardinalityType

\* Nobody commits, and whoever becomes due to fail was, or is at backoff.
LEMMA QuietRetries ==
    ASSUME TypeOK, RetryInv, UNCHANGED <<stock, request, committed>>,
           NEW r \in Requests,
           \A s \in Requests \ {r} :
              pc'[s] = pc[s] /\ attempt'[s] = attempt[s] /\ read'[s] = read[s],
           attempt'[r] - 1 <= Cardinality(Rivals(r)),
           \/ pc'[r] = "backoff"
           \/ Holds(r)' /\ read'[r].version > 0 /\ Stale(r)'
           => attempt'[r] <= Cardinality(Rivals(r))
    PROVE  RetryInv'
<1>1. \A s \in Requests : Rivals(s)' = Rivals(s) /\ Row(s)' = Row(s)
  BY DEF Rivals, Key, Row
<1>2. \A s \in Requests \ {r} : Holds(s)' = Holds(s) /\ Stale(s)' = Stale(s)
  BY <1>1 DEF Holds, Stale
<1> QED
  BY <1>1, <1>2 DEF RetryInv

\* What a commit costs the others
LEMMA CommitRetries ==
    ASSUME TypeOK, RowInv, AnswerInv, RetryInv, NEW r \in Requests, Commit(r)
    PROVE  RetryInv'
<1>1. /\ UNCHANGED <<request, read, attempt>>
      /\ r \notin committed /\ committed' = committed \cup {r}
      /\ stock' = [stock EXCEPT ![Key(r)] = Written(r)]
      /\ pc'[r] \notin {"saving", "writing", "backoff"}
      /\ \A s \in Requests : s # r => pc'[s] = pc[s]
  BY CommitIsNew DEF Commit, Goto, TypeOK
<1>2. IsFiniteSet(committed')
  BY <1>1, FS_AddElement DEF RetryInv
<1>3. ASSUME NEW s \in Requests, s # r, Key(s) = Key(r)
      PROVE  Cardinality(Rivals(s)') = Cardinality(Rivals(s)) + 1
  <2>1. Rivals(s)' = Rivals(s) \cup {r} /\ r \notin Rivals(s)
    BY <1>1, <1>3 DEF Rivals, Key
  <2>2. IsFiniteSet(Rivals(s))
    BY RivalsCounted DEF RetryInv
  <2> QED
    BY <2>1, <2>2, FS_AddElement
<1>4. ASSUME NEW s \in Requests, s = r \/ Key(s) # Key(r)
      PROVE  Rivals(s)' = Rivals(s)
  BY <1>1, <1>4 DEF Rivals, Key
<1>5. ASSUME NEW s \in Requests, s # r, Key(s) # Key(r)
      PROVE  Holds(s)' = Holds(s) /\ Stale(s)' = Stale(s)
  BY <1>1, <1>5 DEF Holds, Stale, Row, Key, TypeOK
<1>6. \A s \in Requests :
         Cardinality(Rivals(s)) \in Nat /\ attempt[s] \in Int
  BY RivalsCounted DEF RetryInv, TypeOK
<1> SUFFICES ASSUME NEW s \in Requests
             PROVE  /\ attempt[s] - 1 <= Cardinality(Rivals(s)')
                    /\ \/ pc'[s] = "backoff"
                       \/ Holds(s)' /\ read[s].version > 0 /\ Stale(s)'
                       => attempt[s] <= Cardinality(Rivals(s)')
  BY <1>1, <1>2 DEF RetryInv
<1>7. CASE s = r
  BY <1>1, <1>4, <1>7 DEF RetryInv, Holds
<1>8. CASE s # r /\ Key(s) = Key(r)
  BY <1>3, <1>6, <1>8 DEF RetryInv
<1>9. CASE s # r /\ Key(s) # Key(r)
  BY <1>1, <1>4, <1>5, <1>9 DEF RetryInv
<1> QED
  BY <1>7, <1>8, <1>9

LEMMA RetryStep ==
    ASSUME TypeOK, RowInv, AnswerInv, RetryInv, [Next]_vars
    PROVE  RetryInv'
<1> USE DEF TypeOK, Goto, history
<1>1. \A r \in Requests :
         /\ attempt[r] - 1 <= Cardinality(Rivals(r))
         /\ attempt[r] \in Int /\ Cardinality(Rivals(r)) \in Nat
  BY RivalsCounted, InventoryAssumption DEF RetryInv
<1>2. ASSUME NEW r \in Requests,
             \/ Receive(r) \/ Validate(r) \/ RejectMissing(r) \/ RejectInsufficient(r)
             \/ UniqueViolation(r) \/ IntegerOverflow(r) \/ Publish(r)
             \/ DatabaseError(r) \/ Crash(r)
      PROVE  RetryInv'
  <2>1. /\ UNCHANGED <<stock, request, committed, read, attempt>>
        /\ \A s \in Requests \ {r} : pc'[s] = pc[s]
        /\ pc'[r] \notin {"saving", "writing", "backoff"}
    BY <1>2 DEF Receive, Validate, RejectMissing, RejectInsufficient, UniqueViolation,
                IntegerOverflow, Publish, DatabaseError, Crash
  <2> QED
    BY <1>1, <2>1, QuietRetries DEF Holds
<1>3. ASSUME NEW r \in Requests, Load(r) PROVE RetryInv'
  <2>1. /\ UNCHANGED <<stock, request, committed, attempt>>
        /\ \A s \in Requests \ {r} : pc'[s] = pc[s] /\ read'[s] = read[s]
        /\ pc'[r] = "saving" /\ read'[r] = Loaded(r)
    BY <1>3 DEF Load
  <2>2. Loaded(r).version > 0 => Loaded(r).version = Row(r).version
    BY DEF Loaded, Absent
  <2>3. ~(Holds(r)' /\ read'[r].version > 0 /\ Stale(r)')
    BY <2>1, <2>2 DEF Stale, Row, Key
  <2> QED
    BY <1>1, <2>1, <2>3, QuietRetries
<1>4. ASSUME NEW r \in Requests, PlanUpdate(r) PROVE RetryInv'
  <2>1. /\ UNCHANGED <<stock, request, committed, attempt, read>>
        /\ \A s \in Requests \ {r} : pc'[s] = pc[s]
        /\ pc[r] = "saving" /\ pc'[r] = "writing"
    BY <1>4 DEF PlanUpdate
  <2>2. Stale(r)' = Stale(r) /\ Holds(r)
    BY <2>1 DEF Stale, Row, Key, Holds
  <2>3. Stale(r) /\ read[r].version > 0 => attempt[r] <= Cardinality(Rivals(r))
    BY <2>2 DEF RetryInv
  <2> QED
    BY <1>1, <2>1, <2>2, <2>3, QuietRetries
<1>5. ASSUME NEW r \in Requests, VersionMismatch(r) PROVE RetryInv'
  <2>1. /\ UNCHANGED <<stock, request, committed, attempt, read>>
        /\ \A s \in Requests \ {r} : pc'[s] = pc[s]
        /\ pc'[r] \in {"backoff", "500"}
    BY <1>5 DEF VersionMismatch, RetryOrFail
  <2>2. attempt[r] <= Cardinality(Rivals(r))
    BY <1>5 DEF VersionMismatch, RetryInv, Holds
  <2> QED
    BY <1>1, <2>1, <2>2, QuietRetries DEF Holds
<1>6. ASSUME NEW r \in Requests, Retry(r) PROVE RetryInv'
  <2>1. /\ UNCHANGED <<stock, request, committed, read>>
        /\ \A s \in Requests \ {r} : pc'[s] = pc[s] /\ attempt'[s] = attempt[s]
        /\ pc[r] = "backoff" /\ pc'[r] = "reading"
        /\ attempt'[r] = attempt[r] + 1
    BY <1>6 DEF Retry
  <2>2. attempt[r] <= Cardinality(Rivals(r))
    BY <2>1 DEF RetryInv
  <2>3. attempt'[r] - 1 <= Cardinality(Rivals(r))
    BY <1>1, <2>1, <2>2
  <2>4. pc'[r] # "backoff" /\ ~Holds(r)'
    BY <2>1 DEF Holds
  <2> QED
    BY <2>1, <2>3, <2>4, QuietRetries
<1>7. CASE \E r \in Requests : Commit(r)
  BY <1>7, CommitRetries
<1>8. CASE (\E x \in Removable : SoftDelete(x)) \/ UNCHANGED vars
  <2>1. UNCHANGED <<stock, request, committed, read, attempt, pc>>
    BY <1>8 DEF SoftDelete, vars
  <2>2. \A r \in Requests : Rivals(r)' = Rivals(r) /\ Stale(r)' = Stale(r)
                            /\ Holds(r)' = Holds(r)
    BY <2>1 DEF Rivals, Key, Stale, Row, Holds
  <2> QED
    BY <2>1, <2>2 DEF RetryInv
<1> QED
  BY <1>2, <1>3, <1>4, <1>5, <1>6, <1>7, <1>8 DEF Next, Step, Done

LEMMA RetriesInvariant == Spec => []RetryInv
<1>1. Init => RetryInv
  <2> SUFFICES ASSUME Init PROVE RetryInv
    OBVIOUS
  <2>1. \A r \in Requests : Rivals(r) = {}
    BY DEF Init, Rivals
  <2>2. \A r \in Requests : Cardinality(Rivals(r)) = 0
    BY <2>1, FS_EmptySet
  <2>3. \A r \in Requests : attempt[r] = 1 /\ pc[r] = "idle"
    BY DEF Init
  <2>4. IsFiniteSet(committed)
    BY FS_EmptySet DEF Init
  <2> QED
    BY <2>2, <2>3, <2>4 DEF RetryInv, Holds
<1>2. TypeOK /\ RowInv /\ AnswerInv /\ RetryInv /\ [Next]_vars => RetryInv'
  BY RetryStep
<1> QED
  BY <1>1, <1>2, RowsInvariant, AnswersInvariant, PTL DEF Spec

\* RetriesOwedToRivals: with any number of requests and attempts, an attempt
\* fails on the version only if a rival has committed meanwhile.
THEOREM RivalsAloneCostRetries == Spec => []RetriesOwedToRivals
<1>1. TypeOK /\ RetryInv => RetriesOwedToRivals
  BY RivalsCounted, InventoryAssumption DEF TypeOK, RetryInv, RetriesOwedToRivals, Rivals
<1> QED
  BY <1>1, TypeCorrect, RetriesInvariant, PTL

-----------------------------------------------------------------------------
(* Progress, as far as it is a matter of safety.                           *)

\* How many steps are still before r: those of this attempt, and four (the
\* three calls and the delay) for each attempt that is left.
StepsLeft(r) ==
    CASE pc[r] = "idle"       -> 4 * (MaxAttempts - attempt[r]) + 7
      [] pc[r] = "validating" -> 4 * (MaxAttempts - attempt[r]) + 6
      [] pc[r] = "reading"    -> 4 * (MaxAttempts - attempt[r]) + 5
      [] pc[r] = "saving"     -> 4 * (MaxAttempts - attempt[r]) + 4
      [] pc[r] = "writing"    -> 4 * (MaxAttempts - attempt[r]) + 3
      [] pc[r] = "backoff"    -> 4 * (MaxAttempts - attempt[r]) + 2
      [] pc[r] = "committed"  -> 1
      [] OTHER                -> 0

LEMMA StepsLeftBounded ==
    ASSUME TypeOK, NEW r \in Requests
    PROVE  StepsLeft(r) \in 0..(4 * MaxAttempts + 3)
<1>1. attempt[r] \in 1..MaxAttempts /\ MaxAttempts \in Nat
  BY InventoryAssumption DEF TypeOK
<1> QED
  BY <1>1 DEF StepsLeft

LEMMA StepsAreTaken ==
    ASSUME TypeOK, [Next]_vars, NEW r \in Requests,
           pc'[r] # pc[r] \/ attempt'[r] # attempt[r]
    PROVE  StepsLeft(r)' < StepsLeft(r)
<1>1. attempt[r] \in 1..MaxAttempts /\ MaxAttempts \in Nat
  BY InventoryAssumption DEF TypeOK
<1>2. PICK q \in Requests : Receive(q) \/ Step(q) \/ DatabaseError(q) \/ Crash(q)
  BY DEF Next, Done, vars, SoftDelete
<1>3. q = r
  BY <1>2 DEF Receive, Step, DatabaseError, Crash, Validate, RejectMissing, RejectInsufficient,
              Load, PlanUpdate, Commit, UniqueViolation, VersionMismatch, RetryOrFail,
              IntegerOverflow, Retry, Publish, Goto, TypeOK, history
<1>4. CASE Receive(r)
  BY <1>1, <1>4 DEF Receive, Goto, TypeOK, StepsLeft
<1>5. CASE Validate(r)
  BY <1>1, <1>5 DEF Validate, Goto, TypeOK, StepsLeft
<1>6. CASE RejectMissing(r) \/ RejectInsufficient(r)
  BY <1>1, <1>6 DEF RejectMissing, RejectInsufficient, Goto, TypeOK, StepsLeft
<1>7. CASE Load(r)
  BY <1>1, <1>7 DEF Load, Goto, TypeOK, StepsLeft
<1>8. CASE PlanUpdate(r)
  BY <1>1, <1>8 DEF PlanUpdate, Goto, TypeOK, StepsLeft
<1>9. CASE Commit(r)
  <2>1. pc[r] = "writing" /\ pc'[r] \in {"committed", "500"} /\ attempt' = attempt
    BY <1>9 DEF Commit, Goto, TypeOK
  <2> QED
    BY <1>1, <2>1 DEF StepsLeft
<1>10. CASE UniqueViolation(r) \/ IntegerOverflow(r)
  BY <1>1, <1>10 DEF UniqueViolation, IntegerOverflow, Goto, TypeOK, StepsLeft
<1>11. CASE VersionMismatch(r)
  <2>1. pc[r] = "writing" /\ pc'[r] \in {"backoff", "500"} /\ attempt' = attempt
    BY <1>11 DEF VersionMismatch, RetryOrFail, Goto, TypeOK
  <2> QED
    BY <1>1, <2>1 DEF StepsLeft
<1>12. CASE Retry(r)
  <2>1. pc[r] = "backoff" /\ pc'[r] = "reading" /\ attempt'[r] = attempt[r] + 1
    BY <1>12 DEF Retry, Goto, TypeOK
  <2> QED
    BY <1>1, <2>1 DEF StepsLeft
<1>13. CASE Publish(r)
  BY <1>1, <1>13 DEF Publish, Goto, TypeOK, StepsLeft
<1>14. CASE DatabaseError(r) \/ Crash(r)
  <2>1. pc[r] \in Active /\ pc'[r] \in Final /\ attempt' = attempt
    BY <1>14 DEF DatabaseError, Crash, Goto, TypeOK, Active, Final, Answers
  <2>2. StepsLeft(r)' = 0
    BY <2>1 DEF StepsLeft, Final, Answers
  <2>3. StepsLeft(r) > 0
    BY <1>1, <2>1 DEF StepsLeft, Active, Waiting
  <2> QED
    BY <2>2, <2>3
<1> QED
  BY <1>2, <1>3, <1>4, <1>5, <1>6, <1>7, <1>8, <1>9, <1>10, <1>11, <1>12,
     <1>13, <1>14 DEF Step

\* retryWithBackoff cannot keep a request going: whatever the others commit
\* meanwhile, each step of a request, retries included, brings it nearer to
\* its answer, which is at most 4 * maxAttempts + 3 steps away.  With the
\* fairness of its steps this is EveryRequestAnswered.
THEOREM RequestsTakeBoundedSteps ==
    Spec => /\ [](\A r \in Requests : StepsLeft(r) \in 0..(4 * MaxAttempts + 3))
            /\ [][\A r \in Requests : pc'[r] # pc[r] \/ attempt'[r] # attempt[r]
                                        => StepsLeft(r)' < StepsLeft(r)]_vars
<1>1. TypeOK => \A r \in Requests : StepsLeft(r) \in 0..(4 * MaxAttempts + 3)
  BY StepsLeftBounded
<1>2. TypeOK /\ [Next]_vars
         => [\A r \in Requests : pc'[r] # pc[r] \/ attempt'[r] # attempt[r]
                                   => StepsLeft(r)' < StepsLeft(r)]_vars
  BY StepsAreTaken
<1> QED
  BY <1>1, <1>2, TypeCorrect, PTL DEF Spec

\* The requests for the row of r
Contenders(r) == {s \in Requests : Key(s) = Key(r)}

\* maxAttempts is enough for as many contenders: if no more requests than
\* that are ever sent for a row, none of them is failed for its version (the
\* last attempt always applies), however they interleave.
THEOREM EnoughAttemptsForContenders ==
    ASSUME IsFiniteSet(Requests)
    PROVE  Spec => [][\A r \in Requests :
                         /\ Cardinality(Contenders(r)) <= MaxAttempts
                         /\ VersionMismatch(r)
                         => pc'[r] = "backoff"]_vars
<1>1. ASSUME TypeOK, RetryInv, NEW r \in Requests,
             Cardinality(Contenders(r)) <= MaxAttempts, VersionMismatch(r)
      PROVE  pc'[r] = "backoff"
  <2>1. attempt[r] <= Cardinality(Rivals(r))
    BY <1>1 DEF VersionMismatch, RetryInv, Holds
  <2>2. IsFiniteSet(Contenders(r)) /\ r \in Contenders(r)
    BY FS_Subset DEF Contenders
  <2>3. /\ Rivals(r) \in SUBSET (Contenders(r) \ {r})
        /\ IsFiniteSet(Contenders(r) \ {r})
        /\ Cardinality(Contenders(r) \ {r}) = Cardinality(Contenders(r)) - 1
    <3>1. Rivals(r) \subseteq Contenders(r) \ {r}
      BY <1>1 DEF Rivals, Contenders, TypeOK
    <3> QED
      BY <2>2, <3>1, FS_RemoveElement
  <2>4. Cardinality(Rivals(r)) <= Cardinality(Contenders(r)) - 1
    <3>1. Cardinality(Rivals(r)) <= Cardinality(Contenders(r) \ {r})
      BY <2>3, FS_Subset
    <3> QED
      BY <2>3, <3>1
  <2>5. Cardinality(Rivals(r)) \in Nat /\ Cardinality(Contenders(r)) \in Nat
    BY <1>1, <2>2, RivalsCounted, FS_CardinalityType DEF RetryInv
  <2>6. attempt[r] < MaxAttempts
    BY <1>1, <2>1, <2>4, <2>5, InventoryAssumption DEF TypeOK
  <2> QED
    BY <1>1, <2>6 DEF VersionMismatch, RetryOrFail, Goto, TypeOK
<1>2. TypeOK /\ RetryInv /\ [Next]_vars
         => [\A r \in Requests :
                /\ Cardinality(Contenders(r)) <= MaxAttempts
                /\ VersionMismatch(r)
                => pc'[r] = "backoff"]_vars
  BY <1>1
<1> QED
  BY <1>2, TypeCorrect, RetriesInvariant, PTL DEF Spec

============================================================================
