------------------------ MODULE NotificationsProofs ------------------------
(***************************************************************************)
(* What Notifications guarantees for any number of movements, users,      *)
(* tenants and stock keys.                                                 *)
(*                                                                         *)
(* The inductive invariant TypeOK /\ DispatchInv /\ CallInv says what a   *)
(* handler and a markRead call may still rely on when the database has    *)
(* moved on since their last query:                                        *)
(*   - a filtered target has no unread row for the key, except from a     *)
(*     dispatch that had not saved when the filter looked;                *)
(*   - an id whose UPDATE affected nothing is read or deleted, if it is   *)
(*     the caller's at all, and stays so.                                  *)
(***************************************************************************)
EXTENDS Notifications, TLAPS

\* Only a dispatch that is done has rows.
RowsAreSaved == \A n \in rows : pc[n[1]] = "done"

\* What a filter saw as saved is saved for good.
SavedIsDone ==
    \A m \in Movements : \A o \in savedAtFilter[m] : pc[o] = "done"

\* Recipients and targets belong to the tenant of the stock.
RecipientsInTenant ==
    \A m \in Movements :
        \A u \in recipients[m] \cup targets[m] : TenantOf[u] = Tenant(m)

\* An unread row of a target for the same key was saved after the filter.
FilteredTargets ==
    \A m \in Movements, n \in Unread :
        /\ pc[m] = "saving"
        /\ n[2] \in targets[m]
        /\ movement[n[1]].key = movement[m].key
        => n[1] \notin savedAtFilter[m]

DispatchInv ==
    /\ RowsAreSaved
    /\ SavedIsDone
    /\ RecipientsInTenant
    /\ FilteredTargets
    /\ DuplicatesOnlyFromOverlap
    /\ AlertsStayInTenant

\* The row a markRead call is about is in the table; while the call looks a
\* second time, the row, if it is the caller's, is read or deleted.
CallInv ==
    \A u \in Users :
        call[u].stage # "none" =>
            /\ call[u].id \in rows
            /\ call[u].stage = "checking" /\ Owns(u, call[u].id) =>
                  call[u].id \in readRows \cup deletedRows

-----------------------------------------------------------------------------

\* Where a markRead call that was made is, and what it is about.
LEMMA CallTypes ==
    ASSUME TypeOK, NEW u \in Users, call[u].stage # "none"
    PROVE  call[u] \in Calls
BY DEF TypeOK, NoCall

LEMMA TypeInit == Init => TypeOK
BY DEF Init, TypeOK, NoCall, Reports

\* Every step keeps every variable in its type.
LEMMA TypeStep ==
    ASSUME TypeOK, [Next]_vars
    PROVE  TypeOK'
<1> USE DEF TypeOK
<1>1. ASSUME NEW m \in Movements, Publish(m) PROVE TypeOK'
  BY <1>1 DEF Publish, InFlight
<1>2. ASSUME NEW m \in Movements, Resolve(m) PROVE TypeOK'
  BY <1>2 DEF Resolve, StaffOf, InFlight
<1>3. ASSUME NEW m \in Movements, Filter(m) PROVE TypeOK'
  <2>1. recipients[m] \ AlreadyNotified(m) \subseteq Users
    OBVIOUS
  <2>2. {n[1] : n \in rows} \subseteq Movements
    BY DEF NotificationIds
  <2> QED
    BY <1>3, <2>1, <2>2 DEF Filter, InFlight
<1>4. ASSUME NEW m \in Movements, Save(m) PROVE TypeOK'
  <2>1. {m} \X targets[m] \subseteq NotificationIds
    BY DEF NotificationIds
  <2> QED
    BY <1>4, <2>1 DEF Save, InFlight
<1>5. ASSUME NEW m \in Movements, Fail(m) PROVE TypeOK'
  BY <1>5 DEF Fail, InFlight
<1>6. ASSUME NEW u \in Users, ChangeRole(u) PROVE TypeOK'
  BY <1>6 DEF ChangeRole, dispatchVars
<1>7. ASSUME NEW u \in Users, CheckExists(u) PROVE TypeOK'
  <2>1. call[u] \in Calls
    BY <1>7, CallTypes DEF CheckExists
  <2>2. call'[u] \in Calls
    BY <1>7, <2>1 DEF CheckExists, Calls
  <2> QED
    BY <1>7, <2>2 DEF CheckExists, dispatchVars
<1>8. ASSUME NEW u \in Users, MarkAllRead(u) PROVE TypeOK'
  BY <1>8 DEF MarkAllRead, dispatchVars, Unread
<1>9. ASSUME NEW u \in Users, NEW n \in rows, MarkRead(u, n) PROVE TypeOK'
  <2>1. [stage |-> "200", id |-> n] \in Calls /\ [stage |-> "checking", id |-> n] \in Calls
    BY DEF Calls
  <2> QED
    BY <1>9, <2>1 DEF MarkRead, dispatchVars
<1>10. ASSUME NEW u \in Users, NEW n \in rows, Remove(u, n) PROVE TypeOK'
  BY <1>10 DEF Remove, dispatchVars
<1>11. CASE UNCHANGED vars
  BY <1>11 DEF vars
<1> QED
  BY <1>1, <1>2, <1>3, <1>4, <1>5, <1>6, <1>7, <1>8, <1>9, <1>10, <1>11 DEF Next, Handle

\* Every variable of the notification tables and handlers keeps its type.
THEOREM NotificationTypes == Spec => []TypeOK
<1>1. TypeOK /\ [Next]_vars => TypeOK'
  BY TypeStep
<1> QED
  BY TypeInit, <1>1, PTL DEF Spec

-----------------------------------------------------------------------------

\* The dispatch invariant survives any step that neither publishes nor
\* handles a movement: rows are then only read and deleted.
LEMMA RecipientSteps ==
    ASSUME TypeOK, DispatchInv, UNCHANGED <<dispatchVars, rows>>,
           readRows \subseteq readRows', deletedRows \subseteq deletedRows'
    PROVE  DispatchInv'
<1> USE DEF DispatchInv
<1>1. Unread' \subseteq Unread
  BY DEF Unread
<1>2. UNCHANGED <<movement, pc, recipients, targets, savedAtFilter, rows>>
  BY DEF dispatchVars
<1>3. RowsAreSaved' /\ SavedIsDone'
  BY <1>2 DEF RowsAreSaved, SavedIsDone
<1>4. RecipientsInTenant' /\ AlertsStayInTenant'
  BY <1>2 DEF RecipientsInTenant, AlertsStayInTenant, Tenant
<1>5. FilteredTargets'
  BY <1>1, <1>2 DEF FilteredTargets
<1>6. DuplicatesOnlyFromOverlap'
  BY <1>1, <1>2 DEF DuplicatesOnlyFromOverlap
<1> QED
  BY <1>3, <1>4, <1>5, <1>6

\* Moving a handler on without saving or filtering changes no row, and what
\* was done stays done.
LEMMA HandlerMovesOn ==
    ASSUME TypeOK, DispatchInv, NEW m \in Movements, NEW label,
           pc[m] # "done", label # "saving", pc' = [pc EXCEPT ![m] = label],
           UNCHANGED <<movement, targets, rows, readRows, deletedRows, savedAtFilter>>
    PROVE  /\ RowsAreSaved' /\ SavedIsDone' /\ FilteredTargets'
           /\ DuplicatesOnlyFromOverlap' /\ AlertsStayInTenant'
<1> USE DEF DispatchInv
<1>1. \A o \in Movements : o # m => pc'[o] = pc[o]
  BY DEF TypeOK
<1>2. pc'[m] = label
  BY DEF TypeOK
<1>3. \A n \in rows : n[1] \in Movements
  BY DEF TypeOK, NotificationIds
<1>4. \A o \in Movements : savedAtFilter[o] \subseteq Movements
  BY DEF TypeOK
<1>5. RowsAreSaved'
  BY <1>1, <1>3 DEF RowsAreSaved
<1>6. SavedIsDone'
  BY <1>1, <1>4 DEF SavedIsDone
<1>7. FilteredTargets'
  BY <1>1, <1>2 DEF FilteredTargets, Unread
<1>8. DuplicatesOnlyFromOverlap' /\ AlertsStayInTenant'
  BY DEF DuplicatesOnlyFromOverlap, AlertsStayInTenant, Unread, Tenant
<1> QED
  BY <1>5, <1>6, <1>7, <1>8

LEMMA ResolveStep ==
    ASSUME TypeOK, DispatchInv, NEW m \in Movements, Resolve(m)
    PROVE  DispatchInv'
<1>1. \A o \in Movements : o # m => recipients'[o] = recipients[o]
  BY DEF Resolve, TypeOK
<1>2. recipients'[m] = StaffOf(m)
  BY DEF Resolve, TypeOK
<1>3. RecipientsInTenant'
  <2> SUFFICES ASSUME NEW o \in Movements,
                      NEW u \in recipients'[o] \cup targets[o]
               PROVE  TenantOf[u] = Tenant(o)
    BY DEF RecipientsInTenant, Resolve, Tenant
  <2>1. CASE u \in recipients[o] \cup targets[o]
    BY <2>1 DEF DispatchInv, RecipientsInTenant
  <2>2. CASE u \in StaffOf(m) /\ o = m
    BY <2>2 DEF StaffOf
  <2> QED
    BY <1>1, <1>2, <2>1, <2>2
<1> DEFINE label == IF StaffOf(m) = {} THEN "done" ELSE "filtering"
<1>4. /\ pc[m] # "done" /\ label # "saving" /\ pc' = [pc EXCEPT ![m] = label]
      /\ UNCHANGED <<movement, targets, rows, readRows, deletedRows, savedAtFilter>>
  BY DEF Resolve
<1> QED
  BY <1>3, <1>4, HandlerMovesOn DEF DispatchInv

\* The filter looks at the rows of the dispatches that have saved, and at no
\* other, so what it lets through has no unread row from one of those.
LEMMA FilterStep ==
    ASSUME TypeOK, DispatchInv, NEW m \in Movements, Filter(m)
    PROVE  DispatchInv'
<1> DEFINE remaining == recipients[m] \ AlreadyNotified(m)
<1>1. /\ targets' = [targets EXCEPT ![m] = remaining]
      /\ savedAtFilter' = [savedAtFilter EXCEPT ![m] = {n[1] : n \in rows}]
      /\ pc[m] = "filtering"
      /\ UNCHANGED <<movement, recipients, rows, readRows, deletedRows>>
  BY DEF Filter
<1>2. /\ pc'[m] \in {"done", "saving"}
      /\ targets'[m] = remaining
      /\ savedAtFilter'[m] = {n[1] : n \in rows}
  BY <1>1 DEF Filter, TypeOK
<1>3. \A o \in Movements : o # m =>
         /\ pc'[o] = pc[o]
         /\ targets'[o] = targets[o]
         /\ savedAtFilter'[o] = savedAtFilter[o]
  BY <1>1 DEF Filter, TypeOK
<1>4. \A n \in rows : n[1] \in Movements /\ n[1] # m
  BY <1>1 DEF TypeOK, NotificationIds, DispatchInv, RowsAreSaved
<1>5. \A o \in Movements : savedAtFilter[o] \subseteq Movements
  BY DEF TypeOK
<1>6. RowsAreSaved'
  BY <1>1, <1>3, <1>4 DEF DispatchInv, RowsAreSaved
<1>7. SavedIsDone'
  <2> SUFFICES ASSUME NEW o \in Movements, NEW p \in savedAtFilter'[o]
               PROVE  pc'[p] = "done"
    BY DEF SavedIsDone
  <2>1. CASE o = m
    <3>1. p \in {n[1] : n \in rows}
      BY <2>1, <1>2
    <3> QED
      BY <3>1, <1>1, <1>6 DEF RowsAreSaved
  <2>2. CASE o # m
    <3>1. p \in savedAtFilter[o] /\ p \in Movements
      BY <2>2, <1>3, <1>5
    <3>2. pc[p] = "done" /\ p # m
      BY <3>1, <1>1 DEF DispatchInv, SavedIsDone
    <3> QED
      BY <3>1, <3>2, <1>3
  <2> QED
    BY <2>1, <2>2
<1>8. RecipientsInTenant'
  <2>1. \A o \in Movements : targets'[o] \subseteq recipients[o] \cup targets[o]
    BY <1>2, <1>3
  <2> QED
    BY <2>1, <1>1 DEF DispatchInv, RecipientsInTenant, Tenant
<1>9. FilteredTargets'
  <2> SUFFICES ASSUME NEW o \in Movements, NEW n \in Unread,
                      pc'[o] = "saving", n[2] \in targets'[o],
                      movement[n[1]].key = movement[o].key
               PROVE  n[1] \notin savedAtFilter'[o]
    BY <1>1 DEF FilteredTargets, Unread
  <2>1. CASE o = m
    <3>1. n[2] \in recipients[m] /\ n[2] \notin AlreadyNotified(m)
      BY <2>1, <1>2
    <3> QED
      BY <3>1, <2>1 DEF AlreadyNotified
  <2>2. CASE o # m
    BY <2>2, <1>3 DEF DispatchInv, FilteredTargets
  <2> QED
    BY <2>1, <2>2
<1>10. DuplicatesOnlyFromOverlap'
  <2>1. \A n \in Unread : savedAtFilter'[n[1]] = savedAtFilter[n[1]]
    BY <1>3, <1>4 DEF Unread
  <2>2. UNCHANGED <<Unread, movement>>
    BY <1>1 DEF Unread
  <2> QED
    BY <2>1, <2>2 DEF DispatchInv, DuplicatesOnlyFromOverlap
<1>11. AlertsStayInTenant'
  BY <1>1 DEF DispatchInv, AlertsStayInTenant, Tenant
<1> QED
  BY <1>6, <1>7, <1>8, <1>9, <1>10, <1>11 DEF DispatchInv

\* A save adds rows only beside those of dispatches it overlapped with.
LEMMA SaveStep ==
    ASSUME TypeOK, DispatchInv, NEW m \in Movements, Save(m)
    PROVE  DispatchInv'
<1>1. /\ pc[m] = "saving" /\ pc' = [pc EXCEPT ![m] = "done"]
      /\ rows' = rows \cup ({m} \X targets[m])
      /\ UNCHANGED <<movement, recipients, targets, readRows, deletedRows,
                     savedAtFilter>>
  BY DEF Save
<1>2. pc'[m] = "done" /\ \A o \in Movements : o # m => pc'[o] = pc[o]
  BY <1>1 DEF TypeOK
<1>3. \A n \in rows : n[1] \in Movements /\ n[1] # m
  BY <1>1 DEF TypeOK, NotificationIds, DispatchInv, RowsAreSaved
<1>4. \A o \in Movements : savedAtFilter[o] \subseteq Movements /\ m \notin savedAtFilter[o]
  BY <1>1 DEF TypeOK, DispatchInv, SavedIsDone
<1>5. \A n \in rows' : n \in rows \/ (n[1] = m /\ n[2] \in targets[m] /\ n = <<m, n[2]>>)
  BY <1>1
<1>6. \A n \in Unread' :
         n \in Unread \/ (n[1] = m /\ n[2] \in targets[m] /\ n = <<m, n[2]>>)
  BY <1>1, <1>5 DEF Unread
<1>7. RowsAreSaved' /\ SavedIsDone'
  BY <1>1, <1>2, <1>3, <1>4, <1>5 DEF DispatchInv, RowsAreSaved, SavedIsDone
<1>8. RecipientsInTenant'
  BY <1>1 DEF DispatchInv, RecipientsInTenant, Tenant
<1>9. AlertsStayInTenant'
  BY <1>1, <1>5 DEF DispatchInv, RecipientsInTenant, AlertsStayInTenant, Tenant
<1>10. FilteredTargets'
  <2> SUFFICES ASSUME NEW o \in Movements, NEW n \in Unread',
                      pc'[o] = "saving", n[2] \in targets[o],
                      movement[n[1]].key = movement[o].key
               PROVE  n[1] \notin savedAtFilter[o]
    BY <1>1 DEF FilteredTargets
  <2>1. pc[o] = "saving"
    BY <1>2
  <2> QED
    BY <2>1, <1>4, <1>6 DEF DispatchInv, FilteredTargets
<1>11. DuplicatesOnlyFromOverlap'
  <2> SUFFICES ASSUME NEW n \in Unread', NEW o \in Unread', n[2] = o[2],
                      movement[n[1]].key = movement[o[1]].key, n # o
               PROVE  /\ n[1] \notin savedAtFilter[o[1]]
                      /\ o[1] \notin savedAtFilter[n[1]]
    BY <1>1 DEF DuplicatesOnlyFromOverlap
  <2>1. CASE n \in Unread /\ o \in Unread
    BY <2>1 DEF DispatchInv, DuplicatesOnlyFromOverlap
  <2>2. ASSUME NEW new \in Unread', NEW old \in Unread, new[1] = m,
               new[2] \in targets[m], new[2] = old[2],
               movement[new[1]].key = movement[old[1]].key
        PROVE  /\ new[1] \notin savedAtFilter[old[1]]
               /\ old[1] \notin savedAtFilter[new[1]]
    <3>1. old[1] \notin savedAtFilter[m]
      BY <2>2, <1>1 DEF DispatchInv, FilteredTargets
    <3> QED
      BY <3>1, <2>2, <1>3, <1>4 DEF Unread
  <2> QED
    BY <1>6, <2>1, <2>2
<1> QED
  BY <1>7, <1>8, <1>9, <1>10, <1>11 DEF DispatchInv

LEMMA DispatchInit == Init => DispatchInv
BY DEF Init, DispatchInv, RowsAreSaved, SavedIsDone, RecipientsInTenant,
       FilteredTargets, DuplicatesOnlyFromOverlap, AlertsStayInTenant, Unread

LEMMA DispatchStep ==
    ASSUME TypeOK, DispatchInv, [Next]_vars
    PROVE  DispatchInv'
<1>1. ASSUME NEW m \in Movements, Publish(m) PROVE DispatchInv'
  <2> DEFINE label == IF Crossed(m) THEN "resolving" ELSE "done"
  <2>1. /\ pc[m] # "done" /\ label # "saving" /\ pc' = [pc EXCEPT ![m] = label]
        /\ UNCHANGED <<movement, recipients, targets, rows, readRows,
                       deletedRows, savedAtFilter>>
    BY <1>1 DEF Publish
  <2>2. RecipientsInTenant'
    BY <2>1 DEF DispatchInv, RecipientsInTenant, Tenant
  <2> QED
    BY <2>1, <2>2, HandlerMovesOn DEF DispatchInv
<1>2. ASSUME NEW m \in Movements, Fail(m) PROVE DispatchInv'
  <2>1. /\ pc[m] # "done" /\ pc' = [pc EXCEPT ![m] = "failed"]
        /\ UNCHANGED <<movement, recipients, targets, rows, readRows,
                       deletedRows, savedAtFilter>>
    BY <1>2 DEF Fail, InFlight
  <2>2. RecipientsInTenant'
    BY <2>1 DEF DispatchInv, RecipientsInTenant, Tenant
  <2> QED
    BY <2>1, <2>2, HandlerMovesOn DEF DispatchInv
<1>3. ASSUME NEW u \in Users, ChangeRole(u) \/ CheckExists(u) \/ MarkAllRead(u)
      PROVE  DispatchInv'
  BY <1>3, RecipientSteps DEF ChangeRole, CheckExists, MarkAllRead
<1>4. ASSUME NEW u \in Users, NEW n \in rows, MarkRead(u, n) \/ Remove(u, n)
      PROVE  DispatchInv'
  <2>1. /\ UNCHANGED <<dispatchVars, rows>>
        /\ readRows \subseteq readRows'
        /\ deletedRows \subseteq deletedRows'
    BY <1>4 DEF MarkRead, Remove
  <2> QED
    BY <2>1, RecipientSteps
<1>5. CASE UNCHANGED vars
  BY <1>5, RecipientSteps DEF vars, dispatchVars
<1> QED
  BY <1>1, <1>2, <1>3, <1>4, <1>5, ResolveStep, FilterStep, SaveStep
  DEF Next, Handle

\* However many dispatches race, a user gets a second unread alert about the
\* same stock only from one that overlapped the first.
THEOREM OverlapAloneDuplicates == Spec => []DuplicatesOnlyFromOverlap
<1>1. TypeOK /\ DispatchInv /\ [Next]_vars => TypeOK' /\ DispatchInv'
  BY TypeStep, DispatchStep
<1>2. DispatchInv => DuplicatesOnlyFromOverlap
  BY DEF DispatchInv
<1> QED
  BY TypeInit, DispatchInit, <1>1, <1>2, PTL DEF Spec

\* No alert reaches a user of a tenant other than the one whose stock it is
\* about, whatever roles change while it is dispatched.
THEOREM AlertsNeverLeaveTenant == Spec => []AlertsStayInTenant
<1>1. TypeOK /\ DispatchInv /\ [Next]_vars => TypeOK' /\ DispatchInv'
  BY TypeStep, DispatchStep
<1>2. DispatchInv => AlertsStayInTenant
  BY DEF DispatchInv
<1> QED
  BY TypeInit, DispatchInit, <1>1, <1>2, PTL DEF Spec

-----------------------------------------------------------------------------

LEMMA CallInit == Init => CallInv /\ MarkReadIsTruthful
BY DEF Init, CallInv, MarkReadIsTruthful, NoCall

\* A call that is not making a step keeps what it knows: rows do not leave
\* the table, and no row becomes unread or undeleted again.
LEMMA CallKeeps ==
    ASSUME TypeOK, CallInv, MarkReadIsTruthful,
           UNCHANGED movement,
           rows \subseteq rows', readRows \subseteq readRows',
           deletedRows \subseteq deletedRows',
           NEW u \in Users, call'[u] = call[u]
    PROVE  /\ call[u].stage # "none" =>
                 /\ call'[u].id \in rows'
                 /\ call[u].stage = "checking" /\ Owns(u, call[u].id) =>
                       call[u].id \in readRows' \cup deletedRows'
           /\ call[u].stage = "200" =>
                 call[u].id[2] = u /\ call[u].id \in readRows'
           /\ call[u].stage = "404" =>
                 call[u].id[2] # u \/ call[u].id \notin rows' \ deletedRows'
<1>1. call[u].stage = "404" => call[u].id \in rows
  BY DEF CallInv
<1> QED
  BY <1>1 DEF CallInv, MarkReadIsTruthful, Visible

LEMMA CallStep ==
    ASSUME TypeOK, DispatchInv, CallInv, MarkReadIsTruthful, [Next]_vars
    PROVE  CallInv' /\ MarkReadIsTruthful'
<1> DEFINE Kept(u) ==
        /\ call'[u].stage # "none" =>
              /\ call'[u].id \in rows'
              /\ call'[u].stage = "checking" /\ Owns(u, call'[u].id) =>
                    call'[u].id \in readRows' \cup deletedRows'
        /\ call'[u].stage = "200" =>
              call'[u].id[2] = u /\ call'[u].id \in readRows'
        /\ call'[u].stage = "404" =>
              call'[u].id[2] # u \/ call'[u].id \notin rows' \ deletedRows'
<1>1. /\ UNCHANGED movement
      /\ rows \subseteq rows'
      /\ readRows \subseteq readRows'
      /\ deletedRows \subseteq deletedRows'
  BY DEF Next, Handle, Publish, Resolve, Filter, Save, Fail, ChangeRole,
         CheckExists, MarkAllRead, MarkRead, Remove, dispatchVars, vars
<1>2. ASSUME NEW u \in Users, call'[u] = call[u] PROVE Kept(u)
  BY <1>1, <1>2, CallKeeps
<1>3. ASSUME NEW u \in Users, CheckExists(u) PROVE \A v \in Users : Kept(v)
  <2>1. \A v \in Users : v # u => call'[v] = call[v]
    BY <1>3 DEF CheckExists, TypeOK
  <2>2. call[u] \in Calls /\ call[u].stage = "checking"
    BY <1>3, CallTypes DEF CheckExists
  <2>3. /\ call'[u].id = call[u].id
        /\ call'[u].stage = IF FindsOwn(u, call[u].id) THEN "200" ELSE "404"
    BY <1>3, <2>2 DEF CheckExists, Calls, TypeOK
  <2>4. /\ call[u].id \in rows
        /\ Owns(u, call[u].id) => call[u].id \in readRows \cup deletedRows
    BY <2>2 DEF CallInv
  <2>5. call[u].id[2] = u => Owns(u, call[u].id)
    BY <2>4 DEF DispatchInv, AlertsStayInTenant, Owns
  <2>6. UNCHANGED <<rows, readRows, deletedRows, movement>>
    BY <1>3 DEF CheckExists, dispatchVars
  <2>7. ASSUME FindsOwn(u, call[u].id) PROVE Kept(u)
    BY <2>2, <2>3, <2>4, <2>6, <2>7 DEF FindsOwn, Visible, Owns
  <2>8. ASSUME ~FindsOwn(u, call[u].id) PROVE Kept(u)
    BY <2>2, <2>3, <2>4, <2>5, <2>6, <2>8 DEF FindsOwn, Visible
  <2>9. Kept(u)
    BY <2>7, <2>8
  <2> HIDE DEF Kept
  <2> QED
    BY <1>2, <2>1, <2>9
<1>4. ASSUME NEW u \in Users, NEW n \in rows, MarkRead(u, n)
      PROVE  \A v \in Users : Kept(v)
  <2>1. \A v \in Users : v # u => call'[v] = call[v]
    BY <1>4 DEF MarkRead, TypeOK
  <2>2. UNCHANGED <<rows, deletedRows, movement>>
    BY <1>4 DEF MarkRead, dispatchVars
  <2>3. ASSUME MayMark(u, n) PROVE Kept(u)
    <3>1. call'[u] = [stage |-> "200", id |-> n] /\ n \in readRows' /\ n[2] = u
      BY <1>4, <2>3 DEF MarkRead, TypeOK, MayMark, Owns
    <3> QED
      BY <3>1, <2>2
  <2>4. ASSUME ~MayMark(u, n) PROVE Kept(u)
    <3>1. call'[u] = [stage |-> "checking", id |-> n] /\ UNCHANGED readRows
      BY <1>4, <2>4 DEF MarkRead, TypeOK
    <3>2. Owns(u, n) => n \in readRows \cup deletedRows
      BY <2>4 DEF MayMark, Unread
    <3> QED
      BY <3>1, <3>2, <2>2 DEF Owns, Tenant
  <2>5. Kept(u)
    BY <2>3, <2>4
  <2> HIDE DEF Kept
  <2> QED
    BY <1>2, <2>1, <2>5
<1>5. ASSUME UNCHANGED call PROVE \A v \in Users : Kept(v)
  <2> HIDE DEF Kept
  <2> QED
    BY <1>2, <1>5
<1>6. \A v \in Users : Kept(v)
  <2>1. \/ UNCHANGED call
        \/ \E u \in Users : CheckExists(u)
        \/ \E u \in Users, n \in rows : MarkRead(u, n)
    BY DEF Next, Handle, Publish, Resolve, Filter, Save, Fail, ChangeRole,
           MarkAllRead, Remove, dispatchVars, vars
  <2> HIDE DEF Kept
  <2> QED
    BY <1>3, <1>4, <1>5, <2>1
<1>7. CallInv'
  BY <1>6, <1>1 DEF CallInv, Owns, Tenant
<1>8. MarkReadIsTruthful'
  BY <1>6 DEF MarkReadIsTruthful, Visible
<1> QED
  BY <1>7, <1>8

\* A markRead answer is true when it is given and stays true, although it is
\* put together from two queries between which other calls run.
THEOREM MarkReadTellsTheTruth == Spec => []MarkReadIsTruthful
<1> DEFINE I == TypeOK /\ DispatchInv /\ CallInv /\ MarkReadIsTruthful
<1>1. Init => I
  BY TypeInit, DispatchInit, CallInit
<1>2. I /\ [Next]_vars => I'
  BY TypeStep, DispatchStep, CallStep
<1> QED
  BY <1>1, <1>2, PTL DEF Spec

-----------------------------------------------------------------------------
(* Where every dispatch ends.                                              *)

\* The alert of n is one about the stock of m for u.
Concerns(n, m, u) == n[2] = u /\ movement[n[1]].key = movement[m].key

\* u has been notified about the stock of m.
Notified(m, u) == \E n \in rows : Concerns(n, m, u)

\* What each stage of a dispatch has seen to
ReachInv ==
    \A m \in Movements :
        /\ pc[m] \in {"unpublished", "resolving"} => recipients[m] = {}
        /\ pc[m] = "saving" => \A u \in recipients[m] \ targets[m] : Notified(m, u)
        /\ pc[m] = "done" => \A u \in recipients[m] : Notified(m, u)

DoneReached ==
    \A m \in Movements : pc[m] = "done" => \A u \in recipients[m] : Notified(m, u)

LEMMA ReachStep ==
    ASSUME TypeOK, ReachInv, [Next]_vars
    PROVE  ReachInv'
<1> USE DEF TypeOK
<1>1. /\ movement' = movement /\ rows \subseteq rows'
      /\ \A m \in Movements, u \in Users : Notified(m, u) => Notified(m, u)'
  <2>1. movement' = movement /\ rows \subseteq rows'
    BY DEF Next, Handle, Publish, Resolve, Filter, Save, Fail, ChangeRole,
           CheckExists, MarkAllRead, MarkRead, Remove, dispatchVars, vars
  <2> QED
    BY <2>1 DEF Notified, Concerns
<1>2. ASSUME NEW m \in Movements, Publish(m) \/ Fail(m)
      PROVE  ReachInv'
  BY <1>1, <1>2 DEF Publish, Fail, InFlight, ReachInv
<1>3. ASSUME NEW m \in Movements, Resolve(m)
      PROVE  ReachInv'
  BY <1>1, <1>3 DEF Resolve, ReachInv
<1>4. ASSUME NEW m \in Movements, Filter(m)
      PROVE  ReachInv'
  <2>1. \A u \in AlreadyNotified(m) : Notified(m, u)
    BY DEF AlreadyNotified, Notified, Concerns, Unread
  <2> QED
    BY <1>1, <1>4, <2>1 DEF Filter, ReachInv
<1>5. ASSUME NEW m \in Movements, Save(m)
      PROVE  ReachInv'
  <2>1. \A u \in targets[m] : <<m, u>> \in rows'
    BY <1>5 DEF Save
  <2>2. \A u \in targets[m] : Notified(m, u)'
    BY <1>1, <2>1 DEF Notified, Concerns
  <2> QED
    BY <1>1, <1>5, <2>2 DEF Save, ReachInv
<1>6. CASE \/ UNCHANGED vars
           \/ \E u \in Users :
                 \/ ChangeRole(u) \/ CheckExists(u) \/ MarkAllRead(u)
                 \/ \E n \in rows : MarkRead(u, n) \/ Remove(u, n)
  <2>1. UNCHANGED <<recipients, targets, pc>>
    BY <1>6 DEF vars, ChangeRole, CheckExists, MarkAllRead, MarkRead, Remove, dispatchVars
  <2> QED
    BY <1>1, <2>1 DEF ReachInv
<1> QED
  BY <1>2, <1>3, <1>4, <1>5, <1>6 DEF Next, Handle

\* How many queries a dispatch still has before it
QueriesLeft(m) ==
    CASE pc[m] = "unpublished" -> 4
      [] pc[m] = "resolving"   -> 3
      [] pc[m] = "filtering"   -> 2
      [] pc[m] = "saving"      -> 1
      [] OTHER                 -> 0

LEMMA QueriesAreMade ==
    ASSUME TypeOK, [Next]_vars, NEW m \in Movements, pc'[m] # pc[m]
    PROVE  QueriesLeft(m)' < QueriesLeft(m)
<1> USE DEF TypeOK
<1>1. PICK o \in Movements : Publish(o) \/ Handle(o) \/ Fail(o)
  BY DEF Next, vars, ChangeRole, CheckExists, MarkAllRead, MarkRead, Remove, dispatchVars
<1>2. o = m
  BY <1>1 DEF Publish, Handle, Resolve, Filter, Save, Fail
<1>3. \/ pc[m] = "unpublished" /\ pc'[m] \in {"resolving", "done"}
      \/ pc[m] = "resolving" /\ pc'[m] \in {"filtering", "done"}
      \/ pc[m] = "filtering" /\ pc'[m] \in {"saving", "done"}
      \/ pc[m] = "saving" /\ pc'[m] = "done"
      \/ pc[m] \in InFlight /\ pc'[m] = "failed"
  BY <1>1, <1>2 DEF Publish, Handle, Resolve, Filter, Save, Fail
<1> QED
  BY <1>3 DEF QueriesLeft, InFlight

\* A dispatch that is over and has not failed has seen to it that everybody
\* whom it was resolved to is notified about the stock, by itself or by
\* another; and after at most three queries it is over.  With the fairness of
\* the handlers this is AlertsReachStaff.
THEOREM DispatchesReachOrFail ==
    Spec => /\ []DoneReached
            /\ [][\A m \in Movements : pc'[m] # pc[m] => QueriesLeft(m)' < QueriesLeft(m)]_vars
<1>1. Init => ReachInv
  BY DEF Init, ReachInv
<1>2. TypeOK /\ ReachInv /\ [Next]_vars => ReachInv'
  BY ReachStep
<1>3. ReachInv => DoneReached
  BY DEF ReachInv, DoneReached
<1>4. TypeOK /\ [Next]_vars
         => [\A m \in Movements : pc'[m] # pc[m] => QueriesLeft(m)' < QueriesLeft(m)]_vars
  BY QueriesAreMade
<1> QED
  BY <1>1, <1>2, <1>3, <1>4, NotificationTypes, PTL DEF Spec

=============================================================================
