----------------------------- MODULE Inventory -----------------------------
(***************************************************************************)
(* The stock engine: InventoryService and its StockLevel table.           *)
(*                                                                         *)
(* Each member of Requests is one HTTP request to deduct, replenish,      *)
(* reserve or release stock.  A handler is asynchronous: every await of a *)
(* database call is a point where other requests, of this server or of    *)
(* another one, run.  So a request is a process, its program counter pc   *)
(* names the call it awaits, and everything between two awaits is one     *)
(* action.                                                                 *)
(*                                                                         *)
(* manager.save of a loaded entity is two statements: TypeORM reads the   *)
(* row again to find which columns differ from the entity (PlanUpdate),   *)
(* then updates those columns to the entity's values.  An UPDATE holds    *)
(* the row lock until its COMMIT and nothing is awaited in between that   *)
(* could fail without rolling it back, so both are the one action Commit. *)
(*                                                                         *)
(* The entity was found without a lock mode, so TypeORM increments        *)
(* @VersionColumn and compares nothing: a stale entity overwrites.  The   *)
(* error retryWithBackoff looks for, OptimisticLockVersionMismatchError,  *)
(* TypeORM raises only for finds that ask for an optimistic lock, which   *)
(* this code has none of.  VersionMismatch lets save raise it anyway,     *)
(* for a stale entity and as it pleases: the retry loop is part of the    *)
(* code, and what holds of all behaviours with the error holds of those   *)
(* without it.                                                             *)
(***************************************************************************)
EXTENDS Integers, FiniteSets

CONSTANTS
    Requests,          \* the requests clients will send
    Tenants,
    NoTenant,          \* the tenant of a row that is not in the table
    Variants,
    Warehouses,
    Owner,             \* Owner[x]: the tenant of variant or warehouse x
    Removable,         \* the variants and warehouses a run may soft-delete
    Quantities,        \* the quantities a request may ask for
    MaxInt,            \* largest value of a Postgres int column
    MaxAttempts,       \* retryOptions.maxAttempts
    SafetyThreshold,   \* the row's safetyThreshold, never changed by a request
    InitialStock       \* the tables a run starts from

Keys == Variants \X Warehouses      \* @Unique(['variant', 'warehouse'])

Operations == {"deduct", "replenish", "reserve", "release"}

Columns == {"available", "reserved"}

Inputs == [op : Operations, key : Keys, quantity : Quantities, tenant : Tenants]

\* A row of version 0 is one that has no id yet: an entity made by
\* repo.create, or a key for which the table holds nothing.
Absent == [tenant |-> NoTenant, available |-> 0, reserved |-> 0, version |-> 0]

Rows == [tenant : Tenants \cup {NoTenant}, available : 0..MaxInt,
         reserved : 0..MaxInt, version : Nat]

ASSUME InventoryAssumption ==
    /\ NoTenant \notin Tenants
    /\ Owner \in [Variants \cup Warehouses -> Tenants]
    /\ Removable \subseteq Variants \cup Warehouses
    /\ Quantities \subseteq Nat \ {0}          \* @Min(1) in the DTOs
    /\ MaxInt \in Nat
    /\ MaxAttempts \in Nat \ {0}
    /\ SafetyThreshold \in Nat
    /\ InitialStock \subseteq [Keys -> Rows]
    /\ \A table \in InitialStock, k \in Keys :
          \/ table[k] = Absent
          \/ /\ table[k].version > 0
             /\ table[k].tenant = Owner[k[1]]
             /\ table[k].tenant = Owner[k[2]]

VARIABLES
    stock,      \* stock[k]: the row of table stock_levels for k
    live,       \* the variants and warehouses that are not soft-deleted
    request,    \* request[r]: what the client of r asks for
    pc,         \* pc[r]: the call r awaits, or the answer it was given
    attempt,    \* attempt[r]: the attempt retryWithBackoff is in
    read,       \* read[r]: the entity as this attempt loaded it (`before')
    dirty,      \* dirty[r]: the columns the UPDATE of r will set
    emitted,    \* the requests whose movement was recorded and emitted
    \* History, for the properties only:
    committed,  \* the requests whose transaction committed
    tally,      \* tally[k]: the sum of the movements committed under k
    past,       \* past[k]: the holdings that the row of k has had
    overwriting,\* the requests whose commit replaced a row they had not read
    late        \* the requests that arrived for stock already removed

vars == <<stock, live, request, pc, attempt, read, dirty, emitted,
          committed, tally, past, overwriting, late>>

history == <<committed, tally, past, overwriting, late>>

Waiting == {"validating", "reading", "saving", "writing"}

Active == Waiting \cup {"backoff", "committed"}

Answers == {"ok", "400", "404", "500"}

Final == Answers \cup {"dropped"}

Key(r) == request[r].key
Op(r) == request[r].op
Row(r) == stock[Key(r)]

\* The variant and the warehouse of r are there.
KeyLive(r) == {Key(r)[1], Key(r)[2]} \subseteq live

Holding(row) == [available |-> row.available, reserved |-> row.reserved,
                 version |-> row.version]

-----------------------------------------------------------------------------

Goto(r, label) == pc' = [pc EXCEPT ![r] = label]

\* What the handler of each operation adds to the two quantities.
AvailableChange(r) ==
    IF Op(r) \in {"deduct", "reserve"} THEN -request[r].quantity
                                       ELSE request[r].quantity

ReservedChange(r) ==
    CASE Op(r) = "reserve" -> request[r].quantity
      [] Op(r) = "release" -> -request[r].quantity
      [] OTHER             -> 0

\* Slip: the where clause forgets the tenant.
FindsAnyTenant(r) == Row(r).version > 0 /\ KeyLive(r)

\* Slip: the joins are made withDeleted.
FindsRemoved(r) == Row(r).version > 0 /\ Row(r).tenant = request[r].tenant

\* findOne({ where: { tenantId, variant, warehouse } }) returns a row.  The
\* where clause is on the joined relations, and a join skips removed rows.
Finds(r) ==
    /\ Row(r).version > 0
    /\ Row(r).tenant = request[r].tenant
    /\ KeyLive(r)

\* The entity the handler works on; replenish creates one (findOrCreate).
Loaded(r) ==
    IF Finds(r) THEN Row(r)
    ELSE [Absent EXCEPT !.tenant = request[r].tenant]

\* Slip: release does not look at what is reserved.
CoversExceptRelease(r, row) ==
    Op(r) \in {"deduct", "reserve"} => row.available >= request[r].quantity

\* The handler's test before it changes anything.
Covers(r, row) ==
    /\ Op(r) \in {"deduct", "reserve"} => row.available >= request[r].quantity
    /\ Op(r) = "release" => row.reserved >= request[r].quantity

\* The entity after the handler changed it: what save is given (`after').
Entity(r) ==
    [tenant    |-> read[r].tenant,
     available |-> read[r].available + AvailableChange(r),
     reserved  |-> read[r].reserved + ReservedChange(r),
     version   |-> read[r].version]

\* Slip: only one of the quantities is found to differ.
DifferingReserved(r) ==
    IF Entity(r).reserved # Row(r).reserved THEN {"reserved"} ELSE {}

\* Columns save would set: all of a new row, else those found different.
Differing(r) ==
    IF read[r].version = 0 THEN Columns
    ELSE (IF Entity(r).available # Row(r).available THEN {"available"} ELSE {})
         \cup
         (IF Entity(r).reserved # Row(r).reserved THEN {"reserved"} ELSE {})

\* Slip: the version column is not maintained.
WrittenSameVersion(r) ==
    [tenant    |-> read[r].tenant,
     available |-> Entity(r).available,
     reserved  |-> Entity(r).reserved,
     version   |-> IF read[r].version = 0 THEN 1 ELSE Row(r).version]

\* The row after the INSERT or UPDATE of r.  Without a column to set there
\* is no UPDATE, and the version stays.
Written(r) ==
    [tenant    |-> read[r].tenant,
     available |-> IF "available" \in dirty[r] THEN Entity(r).available
                                               ELSE Row(r).available,
     reserved  |-> IF "reserved" \in dirty[r] THEN Entity(r).reserved
                                              ELSE Row(r).reserved,
     version   |-> IF dirty[r] = {} THEN Row(r).version
                                    ELSE Row(r).version + 1]

\* Slip: the version compared is the one the update would produce.
StaleByOne(r) == read[r].version + 1 # Row(r).version

\* Another transaction committed to the row since r read it.
Stale(r) == read[r].version # Row(r).version

\* The row is there already: an INSERT collides (unique constraint), while
\* an UPDATE compares nothing.
Conflict(r) == Stale(r) /\ read[r].version = 0

Overflows(r) == Written(r).available > MaxInt \/ Written(r).reserved > MaxInt

\* Slip: the loop has no bound.
RetryAlways(r) == Goto(r, "backoff")

\* retryWithBackoff, for an error thrown by attempt number attempt[r]
RetryOrFail(r) ==
    IF attempt[r] < MaxAttempts THEN Goto(r, "backoff") ELSE Goto(r, "500")

-----------------------------------------------------------------------------

Init ==
    /\ stock \in InitialStock
    /\ live = Variants \cup Warehouses
    /\ request \in [Requests -> Inputs]
    /\ pc = [r \in Requests |-> "idle"]
    /\ attempt = [r \in Requests |-> 1]
    /\ read = [r \in Requests |-> Absent]
    /\ dirty = [r \in Requests |-> {}]
    /\ emitted = {}
    /\ committed = {}
    /\ tally = [k \in Keys |-> [available |-> stock[k].available,
                                reserved  |-> stock[k].reserved]]
    /\ past = [k \in Keys |-> {Holding(stock[k])}]
    /\ overwriting = {}
    /\ late = {}

\* The request arrives.  deduct and replenish look the variant and the
\* warehouse up before their transaction; reserve and release do not.
Receive(r) ==
    /\ pc[r] = "idle"
    /\ Goto(r, IF Op(r) \in {"deduct", "replenish"} THEN "validating"
                                                    ELSE "reading")
    /\ late' = IF KeyLive(r) THEN late ELSE late \cup {r}
    /\ UNCHANGED <<stock, live, request, attempt, read, dirty, emitted,
                   committed, tally, past, overwriting>>

\* variantService.findOneById and warehouseService.findOne both answer.
Validate(r) ==
    /\ pc[r] = "validating"
    /\ Goto(r, IF KeyLive(r) /\ \A x \in {Key(r)[1], Key(r)[2]} :
                                  Owner[x] = request[r].tenant
               THEN "reading" ELSE "404")
    /\ UNCHANGED <<stock, live, request, attempt, read, dirty, emitted, history>>

\* findOne returns null.
RejectMissing(r) ==
    /\ pc[r] = "reading"
    /\ ~Finds(r) /\ Op(r) # "replenish"
    /\ Goto(r, "404")
    /\ UNCHANGED <<stock, live, request, attempt, read, dirty, emitted, history>>

\* findOne returns a row that does not cover the request.
RejectInsufficient(r) ==
    /\ pc[r] = "reading"
    /\ Finds(r) /\ ~Covers(r, Row(r))
    /\ Goto(r, "400")
    /\ UNCHANGED <<stock, live, request, attempt, read, dirty, emitted, history>>

\* findOne or findOrCreate yields an entity; the handler changes it and
\* calls save.  (findOrCreate does not find stock that was removed since it
\* was validated, and makes a second entity for its key.)
Load(r) ==
    /\ pc[r] = "reading"
    /\ Finds(r) \/ Op(r) = "replenish"
    /\ Covers(r, Loaded(r))
    /\ read' = [read EXCEPT ![r] = Loaded(r)]
    /\ Goto(r, "saving")
    /\ UNCHANGED <<stock, live, request, attempt, dirty, emitted, history>>

\* save reads the row again and plans its statement.
PlanUpdate(r) ==
    /\ pc[r] = "saving"
    /\ dirty' = [dirty EXCEPT ![r] = Differing(r)]
    /\ Goto(r, "writing")
    /\ UNCHANGED <<stock, live, request, attempt, read, emitted, history>>

\* The statement applies and the transaction commits; the server may lose
\* the connection before it hears of the COMMIT, and then answers 500.
Commit(r) ==
    /\ pc[r] = "writing"
    /\ ~Conflict(r) /\ ~Overflows(r)
    /\ stock' = [stock EXCEPT ![Key(r)] = Written(r)]
    /\ \E label \in {"committed", "500"} : Goto(r, label)
    /\ committed' = committed \cup {r}
    /\ tally' = [tally EXCEPT ![Key(r)] =
                    [available |-> @.available + AvailableChange(r),
                     reserved  |-> @.reserved + ReservedChange(r)]]
    /\ past' = [past EXCEPT ![Key(r)] = @ \cup {Holding(Written(r))}]
    /\ overwriting' = IF Stale(r) THEN overwriting \cup {r} ELSE overwriting
    /\ UNCHANGED <<live, request, attempt, read, dirty, emitted, late>>

\* Slip: the unique violation is caught and taken for success.
UniqueViolationSwallowed(r) ==
    /\ pc[r] = "writing"
    /\ Conflict(r) /\ read[r].version = 0
    /\ Goto(r, "committed")
    /\ UNCHANGED <<stock, live, request, attempt, read, dirty, emitted, history>>

\* The INSERT meets the row another request inserted: not retryable.
UniqueViolation(r) ==
    /\ pc[r] = "writing"
    /\ Conflict(r) /\ read[r].version = 0
    /\ Goto(r, "500")
    /\ UNCHANGED <<stock, live, request, attempt, read, dirty, emitted, history>>

\* save raises the error that the retry loop is for (see above): roll back,
\* then retry or give up.
VersionMismatch(r) ==
    /\ pc[r] = "writing"
    /\ Stale(r) /\ read[r].version > 0
    /\ RetryOrFail(r)
    /\ UNCHANGED <<stock, live, request, attempt, read, dirty, emitted, history>>

\* A quantity leaves the range of its int column: not retryable.
IntegerOverflow(r) ==
    /\ pc[r] = "writing"
    /\ ~Conflict(r) /\ Overflows(r)
    /\ Goto(r, "500")
    /\ UNCHANGED <<stock, live, request, attempt, read, dirty, emitted, history>>

\* Slip: the loop ends one attempt early and throws nothing.
RetryUnlessLast(r) ==
    /\ pc[r] = "backoff" /\ attempt[r] + 1 < MaxAttempts
    /\ attempt' = [attempt EXCEPT ![r] = @ + 1]
    /\ Goto(r, "reading")
    /\ UNCHANGED <<stock, live, request, read, dirty, emitted, history>>

\* The jittered delay is over: the next attempt starts a new transaction.
Retry(r) ==
    /\ pc[r] = "backoff"
    /\ attempt' = [attempt EXCEPT ![r] = @ + 1]
    /\ Goto(r, "reading")
    /\ UNCHANGED <<stock, live, request, read, dirty, emitted, history>>

\* publishStockMovement: the audit record and the movement event, then 2xx.
Publish(r) ==
    /\ pc[r] = "committed"
    /\ emitted' = emitted \cup {r}
    /\ Goto(r, "ok")
    /\ UNCHANGED <<stock, live, request, attempt, read, dirty, history>>

\* The pool has no connection in time, or the connection breaks.
DatabaseError(r) ==
    /\ pc[r] \in Waiting
    /\ Goto(r, "500")
    /\ UNCHANGED <<stock, live, request, attempt, read, dirty, emitted, history>>

\* The server process that runs r dies; its open transaction rolls back.
Crash(r) ==
    /\ pc[r] \in Active
    /\ Goto(r, "dropped")
    /\ UNCHANGED <<stock, live, request, attempt, read, dirty, emitted, history>>

\* VariantService.remove or WarehouseService.remove: stock is not looked at.
SoftDelete(x) ==
    /\ x \in live
    /\ live' = live \ {x}
    /\ UNCHANGED <<stock, request, pc, attempt, read, dirty, emitted, history>>

Done ==
    /\ \A r \in Requests : pc[r] \in Final
    /\ UNCHANGED vars

\* The steps the event loop, the timers and the database take for r.
Step(r) ==
    \/ Validate(r)
    \/ RejectMissing(r)
    \/ RejectInsufficient(r)
    \/ Load(r)
    \/ PlanUpdate(r)
    \/ Commit(r)
    \/ UniqueViolation(r)
    \/ VersionMismatch(r)
    \/ IntegerOverflow(r)
    \/ Retry(r)
    \/ Publish(r)

Next ==
    \/ \E r \in Requests : Receive(r) \/ Step(r) \/ DatabaseError(r) \/ Crash(r)
    \/ \E x \in Removable : SoftDelete(x)
    \/ Done

Spec == Init /\ [][Next]_vars

FairSpec == Spec /\ \A r \in Requests : WF_vars(Step(r))

-----------------------------------------------------------------------------
(* Properties.                                                             *)

\* Every variable keeps to its type: rows and entities are StockLevels, and
\* a request is where its handler can be.
TypeOK ==
    /\ stock \in [Keys -> [tenant : Tenants \cup {NoTenant}, available : Int,
                           reserved : Int, version : Nat]]
    /\ live \subseteq Variants \cup Warehouses
    /\ request \in [Requests -> Inputs]
    /\ pc \in [Requests -> {"idle"} \cup Active \cup Final]
    /\ attempt \in [Requests -> 1..MaxAttempts]
    /\ read \in [Requests -> [tenant : Tenants \cup {NoTenant}, available : Int,
                              reserved : Int, version : Nat]]
    /\ dirty \in [Requests -> SUBSET Columns]
    /\ emitted \subseteq Requests
    /\ committed \subseteq Requests
    /\ tally \in [Keys -> [available : Int, reserved : Int]]
    /\ past \in [Keys -> SUBSET [available : Int, reserved : Int, version : Nat]]
    /\ overwriting \subseteq Requests
    /\ late \subseteq Requests

\* "Stock levels must never fall below zero" (blueprint, feature B) and stay
\* in their columns, however requests interleave: a handler tests the entity
\* it loaded, while the row it writes to may have moved on since.
StockInRange ==
    \A k \in Keys : /\ stock[k].available \in 0..MaxInt
                    /\ stock[k].reserved \in 0..MaxInt

\* The keys of which some commit wrote over a row it had not read
Overwritten == {Key(r) : r \in overwriting}

\* The quantities of a row are the initial ones plus every committed
\* movement, unless some commit wrote over a row it had not read: that is
\* the only way units appear or vanish.
UnitsAccountedFor ==
    \A k \in Keys \ Overwritten :
        /\ stock[k].available = tally[k].available
        /\ stock[k].reserved = tally[k].reserved

\* The units that committed requests took never exceed those there were: of
\* the requests for the last unit, "exactly one request succeeds" (blueprint,
\* feature B, acceptance criteria).
NeverOversold ==
    \A k \in Keys : tally[k].available >= 0 /\ tally[k].reserved >= 0

\* A client that is answered 2xx has had its movement committed and
\* published, one that is answered 4xx has had no effect at all, and nothing
\* is published that did not commit (M10: audit events are "only emitted
\* upon *successful* transactions").
AnswersAreTruthful ==
    \A r \in Requests :
        /\ pc[r] = "ok" <=> r \in emitted
        /\ r \in emitted => r \in committed
        /\ pc[r] \in {"400", "404", "backoff"} => r \notin committed

\* A committed request moved stock of its own tenant only: the row, the
\* variant and the warehouse all belong to the tenant of the request.
TenantsIsolated ==
    \A r \in committed :
        {Row(r).tenant, Owner[Key(r)[1]], Owner[Key(r)[2]]} = {request[r].tenant}

\* Stock that was removed stays as it is: whoever asks for it after its
\* variant or warehouse was removed moves nothing.  (A request under way
\* meanwhile may: it looks at neither again once it has read the row.)
RemovedStockStays == committed \cap late = {}

\* A retry is always owed to a rival: an attempt fails on the version only
\* if another request for the same row committed meanwhile, each commit
\* costing a request at most one attempt.  So maxAttempts is exhausted only
\* against that many successful rivals.
RetriesOwedToRivals ==
    \A r \in Requests :
        attempt[r] - (IF pc[r] = "backoff" THEN 0 ELSE 1)
            <= Cardinality({s \in committed \ {r} : Key(s) = Key(r)})

\* The published movements of a row chain up, but for those that wrote over
\* a row they had not read: no two others leave from the same state of the
\* row, and one leaves from where its predecessor ended.  (oldValues and
\* newValues of the audit trail fork at a stale save and nowhere else, and
\* it does not confuse the movements around it.)
TrailForksOnlyByOverwrite ==
    \A r, s \in emitted \ overwriting :
        r # s /\ Key(r) = Key(s) =>
            /\ read[r].version # read[s].version
            /\ read[s].version = read[r].version + 1 =>
                  /\ read[s].available = Entity(r).available
                  /\ read[s].reserved = Entity(r).reserved

\* before > safetyThreshold >= after, in the movement of r
Crossed(r) ==
    /\ read[r].available > SafetyThreshold
    /\ Entity(r).available <= SafetyThreshold

\* The stock of k falls to its threshold.
Fell(k) == /\ stock[k].available > SafetyThreshold
           /\ stock'[k].available <= SafetyThreshold

\* The movement of a request that commits says so.
Said(k) == \E r \in committed' \ committed : Key(r) = k /\ Crossed(r)

\* A row falls to its threshold exactly when the movement that commits says
\* so: the low-stock alert, which is decided from the movement, is silent or
\* false only for a commit over a row it had not read.
AlertsFailOnlyByOverwrite ==
    [][\A k \in Keys :
          \/ Fell(k) <=> Said(k)
          \/ \E r \in overwriting' \ overwriting : Key(r) = k]_vars

\* Every request that arrives is answered, whatever the others do, unless
\* its server dies: no schedule of conflicts keeps one retrying forever.
EveryRequestAnswered ==
    \A r \in Requests : pc[r] # "idle" ~> pc[r] \in Final

Ledger == INSTANCE StockLedger WITH
              onHand <- [k \in Keys |-> Holding(stock[k])]

\* The table behaves as the ledger does: every change of it is one whole
\* movement, of the row as it is or of a row that it was, which covered it.
ImplementsLedger == Ledger!Spec
============================================================================
