--------------------------- MODULE Notifications ---------------------------
(***************************************************************************)
(* Low-stock alerts: from a published stock movement to the notifications *)
(* its recipients read and delete.                                         *)
(*                                                                         *)
(* Events are emitted in the process, and a listener runs synchronously   *)
(* up to its first await: publishing a movement, the listener's test and  *)
(* the dispatch are one step.  handleDispatch then awaits three database  *)
(* calls (Resolve, Filter, Save), and the handlers of other dispatches,   *)
(* and the recipients, act between them.                                  *)
(***************************************************************************)
EXTENDS Integers

CONSTANTS
    Movements,        \* the stock movements that will be published
    StockKeys,        \* variantId:warehouseId, which is also the dedupKey
    Users,
    Tenants,
    TenantOf,         \* the tenant of a user or of a stock key
    Levels,           \* the available quantities a movement may report
    SafetyThreshold

ASSUME NotificationsAssumption ==
    /\ TenantOf \in [Users \cup StockKeys -> Tenants]
    /\ Levels \subseteq Nat
    /\ SafetyThreshold \in Nat

VARIABLES
    movement,   \* movement[m]: the stock key and the quantities m reports
    staff,      \* the active users with role WAREHOUSE_MANAGER or TENANT_ADMIN
    pc,         \* pc[m]: where the handling of m is
    recipients, \* recipients[m]: the users handleDispatch resolved
    targets,    \* targets[m]: those of them it will notify
    rows,       \* the notifications in the table: <<m, u>> is m's row for u
    readRows,   \* those with read_at set
    deletedRows,\* those with deleted_at set
    call,       \* call[u]: the markRead call of user u
    savedAtFilter \* history: the dispatches saved when m's filter ran

vars == <<movement, staff, pc, recipients, targets, rows, readRows,
          deletedRows, call, savedAtFilter>>

dispatchVars == <<movement, pc, recipients, targets, savedAtFilter>>

NotificationIds == Movements \X Users

Reports == [key : StockKeys, before : Levels, after : Levels]

NoCall == [stage |-> "none"]

Calls == [stage : {"checking", "200", "404"}, id : NotificationIds]

InFlight == {"resolving", "filtering", "saving"}

Unread == rows \ (readRows \cup deletedRows)

Visible == rows \ deletedRows

Tenant(m) == TenantOf[movement[m].key]

\* WHERE tenant_id = ... AND recipient_id = ..., with the caller's values
Owns(u, n) == n[2] = u /\ Tenant(n[1]) = TenantOf[u]

-----------------------------------------------------------------------------

Init ==
    /\ movement \in [Movements -> Reports]
    /\ staff \in SUBSET Users
    /\ pc = [m \in Movements |-> "unpublished"]
    /\ recipients = [m \in Movements |-> {}]
    /\ targets = [m \in Movements |-> {}]
    /\ rows = {} /\ readRows = {} /\ deletedRows = {}
    /\ call = [u \in Users |-> NoCall]
    /\ savedAtFilter = [m \in Movements |-> {}]

\* handleStockMovement's test
Crossed(m) ==
    /\ movement[m].before > SafetyThreshold
    /\ movement[m].after <= SafetyThreshold

\* The movement is emitted; its listener dispatches if stock crossed down.
Publish(m) ==
    /\ pc[m] = "unpublished"
    /\ pc' = [pc EXCEPT ![m] = IF Crossed(m) THEN "resolving" ELSE "done"]
    /\ UNCHANGED <<movement, staff, recipients, targets, rows, readRows,
                   deletedRows, call, savedAtFilter>>

\* Slip: the role query forgets the tenant.
StaffOfAnyTenant(m) == staff

\* resolveRecipients: the tenant's active users with a recipient role
StaffOf(m) == {u \in staff : TenantOf[u] = Tenant(m)}

Resolve(m) ==
    /\ pc[m] = "resolving"
    /\ recipients' = [recipients EXCEPT ![m] = StaffOf(m)]
    /\ pc' = [pc EXCEPT ![m] = IF StaffOf(m) = {} THEN "done" ELSE "filtering"]
    /\ UNCHANGED <<movement, staff, targets, rows, readRows, deletedRows, call,
                   savedAtFilter>>

\* Slips: the query forgets the dedup key; it does not look at all.
AlreadyNotifiedOfAny(m) ==
    {u \in recipients[m] : \E n \in Unread : n[2] = u}

NotifiedNobody(m) == {}

\* filterDeduplicated's query: an unread, undeleted row for the same key
AlreadyNotified(m) ==
    {u \in recipients[m] :
        \E n \in Unread : n[2] = u /\ movement[n[1]].key = movement[m].key}

Filter(m) ==
    /\ pc[m] = "filtering"
    /\ LET remaining == recipients[m] \ AlreadyNotified(m)
       IN  /\ targets' = [targets EXCEPT ![m] = remaining]
           /\ pc' = [pc EXCEPT ![m] = IF remaining = {} THEN "done" ELSE "saving"]
    /\ savedAtFilter' = [savedAtFilter EXCEPT ![m] = {n[1] : n \in rows}]
    /\ UNCHANGED <<movement, staff, recipients, rows, readRows, deletedRows, call>>

\* One save for all rows, so one transaction: all of them or none.
Save(m) ==
    /\ pc[m] = "saving"
    /\ rows' = rows \cup ({m} \X targets[m])
    /\ pc' = [pc EXCEPT ![m] = "done"]
    /\ UNCHANGED <<movement, staff, recipients, targets, readRows, deletedRows,
                   call, savedAtFilter>>

\* A database call of handleDispatch fails, and the error is logged and
\* swallowed; or the server dies, and the event with it.
Fail(m) ==
    /\ pc[m] \in InFlight
    /\ pc' = [pc EXCEPT ![m] = "failed"]
    /\ UNCHANGED <<movement, staff, recipients, targets, rows, readRows,
                   deletedRows, call, savedAtFilter>>

\* updateUserRole: u becomes one of the staff, or ceases to be.
ChangeRole(u) ==
    /\ staff' = IF u \in staff THEN staff \ {u} ELSE staff \cup {u}
    /\ UNCHANGED <<dispatchVars, rows, readRows, deletedRows, call>>

\* The WHERE clause of markRead's UPDATE
MayMark(u, n) == n \in Unread /\ Owns(u, n)

\* Slip: the second look does not mind whether the row is deleted.
FindsDeleted(u, n) == n \in rows /\ Owns(u, n)

\* The WHERE clause of markRead's findOne
FindsOwn(u, n) == n \in Visible /\ Owns(u, n)

\* markRead of an id that is in the table, the caller's own or not: the
\* UPDATE affects the row, or a second look has to tell why it did not.
MarkRead(u, n) ==
    /\ call[u].stage # "checking"
    /\ IF MayMark(u, n)
       THEN /\ readRows' = readRows \cup {n}
            /\ call' = [call EXCEPT ![u] = [stage |-> "200", id |-> n]]
       ELSE /\ call' = [call EXCEPT ![u] = [stage |-> "checking", id |-> n]]
            /\ UNCHANGED readRows
    /\ UNCHANGED <<dispatchVars, staff, rows, deletedRows>>

CheckExists(u) ==
    /\ call[u].stage = "checking"
    /\ call' = [call EXCEPT ![u].stage =
                   IF FindsOwn(u, call[u].id) THEN "200" ELSE "404"]
    /\ UNCHANGED <<dispatchVars, staff, rows, readRows, deletedRows>>

MarkAllRead(u) ==
    /\ readRows' = readRows \cup {n \in Unread : Owns(u, n)}
    /\ UNCHANGED <<dispatchVars, staff, rows, deletedRows, call>>

\* Slip: the row is deleted outright, while others still refer to it.
RemoveHard(u, n) ==
    /\ Owns(u, n)
    /\ rows' = rows \ {n}
    /\ UNCHANGED <<dispatchVars, staff, readRows, deletedRows, call>>

\* softDelete of one of the caller's notifications
Remove(u, n) ==
    /\ Owns(u, n)
    /\ deletedRows' = deletedRows \cup {n}
    /\ UNCHANGED <<dispatchVars, staff, rows, readRows, call>>

\* The steps of the server in the handling of m
Handle(m) == Resolve(m) \/ Filter(m) \/ Save(m)

Next ==
    \/ \E m \in Movements : Publish(m) \/ Handle(m) \/ Fail(m)
    \/ \E u \in Users :
          \/ ChangeRole(u) \/ CheckExists(u) \/ MarkAllRead(u)
          \/ \E n \in rows : MarkRead(u, n) \/ Remove(u, n)

Spec == Init /\ [][Next]_vars

FairSpec == Spec /\ \A m \in Movements : WF_vars(Handle(m))

-----------------------------------------------------------------------------
(* Properties.                                                             *)

\* Every variable keeps to its type, and what is read or deleted is a row.
TypeOK ==
    /\ movement \in [Movements -> Reports]
    /\ staff \subseteq Users
    /\ pc \in [Movements -> {"unpublished", "done", "failed"} \cup InFlight]
    /\ recipients \in [Movements -> SUBSET Users]
    /\ targets \in [Movements -> SUBSET Users]
    /\ rows \subseteq NotificationIds
    /\ readRows \subseteq rows
    /\ deletedRows \subseteq rows
    /\ call \in [Users -> {NoCall} \cup Calls]
    /\ savedAtFilter \in [Movements -> SUBSET Movements]

\* "Users with an existing unread notification of the same type + key are
\* skipped" (notification.event.ts), except if the two dispatches overlapped,
\* so that each looked before the other had saved.  One after the other, they leave one
\* unread row, whatever the recipient reads and deletes meanwhile.
DuplicatesOnlyFromOverlap ==
    \A n, o \in Unread :
        n[2] = o[2] /\ movement[n[1]].key = movement[o[1]].key /\ n # o =>
            n[1] \notin savedAtFilter[o[1]] /\ o[1] \notin savedAtFilter[n[1]]

\* A markRead call answers as the row was: 200 only if the caller's own
\* notification is read, 404 only if there is no such notification for the
\* caller to see -- although the answer comes from a second query that other
\* calls may have overtaken.
MarkReadIsTruthful ==
    \A u \in Users :
        /\ call[u].stage = "200" => call[u].id[2] = u /\ call[u].id \in readRows
        /\ call[u].stage = "404" => call[u].id[2] # u \/ call[u].id \notin Visible

\* An alert only ever reaches users of the tenant whose stock it is about.
AlertsStayInTenant ==
    \A n \in rows : TenantOf[n[2]] = Tenant(n[1])

\* A dispatched alert reaches every user it was resolved to: each has by then
\* been notified about that stock, by this dispatch or by one whose alert was
\* still unread -- unless a database error or a crash takes it, and then it
\* is lost for good, for nothing retries it.
AlertsReachStaff ==
    \A m \in Movements :
        pc[m] = "resolving" ~>
            \/ pc[m] = "failed"
            \/ /\ pc[m] = "done"
               /\ \A u \in recipients[m] :
                     \E n \in rows :
                         n[2] = u /\ movement[n[1]].key = movement[m].key
============================================================================
