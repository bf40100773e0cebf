--------------------------- MODULE Administration ---------------------------
(***************************************************************************)
(* How tenants, their accounts and their settings come to be and change,  *)
(* and how the audit log hears of it.                                      *)
(*                                                                         *)
(* A tenant is provisioned by one transaction of three inserts; accounts  *)
(* are registered, or invited, after a look at whether the e-mail is free; *)
(* settings are read, merged in memory and written back whole; so is the  *)
(* row of a tenant, by an ORM that compares it with the row of the moment. *)
(* The audit listener inserts the record of an account or of settings when *)
(* the call may have long answered.  All of it takes connections from one *)
(* pool.                                                                   *)
(*                                                                         *)
(* A tenant or an account is known by the call that creates it.  Roles    *)
(* are left to TenantAccess.  Every await of the database ends an action; *)
(* bcrypt reads nothing.                                                   *)
(***************************************************************************)
EXTENDS FiniteSets, Integers

CONSTANTS
    Calls,
    Seed,          \* a tenant that is there before any call
    Nobody,        \* the writer of what no call has written
    Domains,
    Kept,          \* what an update gives as the domain that it does not name
    Emails,
    Keys,          \* the keys of a configuration
    Values,
    Defaults,      \* the configuration of a new tenant
    NoSettings,    \* what is found when a tenant has no settings row
    PoolSize       \* the connections of the pool

Tenants == Calls \cup {Seed}

Accounts == Tenants \X Emails

Configs == [Keys -> Values]

\* What a client may send as a configuration: some of the keys, or none
Patches == UNION {[S -> Values] : S \in SUBSET Keys}

Inputs ==
    [op : {"provision"}, domain : Domains, email : Emails]
    \cup [op : {"create"}, domain : Domains]
    \cup [op : {"update"}, tenant : Tenants, domain : Domains \cup {Kept}]
    \cup [op : {"register"}, tenant : Tenants, email : Emails]
    \cup [op : {"invite"}, tenant : Tenants, email : Emails, super : BOOLEAN]
    \cup [op : {"configure"}, tenant : Tenants, patch : Patches]

NoInput == [op |-> "none"]

ASSUME AdministrationAssumption ==
    /\ Seed \notin Calls
    /\ Nobody \notin Tenants
    /\ Defaults \in Configs
    /\ NoSettings \notin Configs
    /\ Kept \notin Domains
    /\ PoolSize \in Nat \ {0}
    /\ IsFiniteSet(Calls)

VARIABLES
    tenant,     \* tenant[t]: whether the row is there, and its domain
    accounts,   \* accounts[a]: the call that created the account, or Nobody
    settings,   \* settings[t]: the configuration of t
    inserted,   \* inserted[c]: what the open transaction of c has inserted
    held,       \* the calls that hold a connection of the pool
    request,    \* request[c]: what c asks for
    pc,         \* pc[c]: what c awaits, or its answer
    outcome,    \* outcome[c]: what c will answer, once it has cleaned up
    found,      \* found[c]: the configuration, or the domain, that c found
    diff,       \* diff[c]: the columns that c's save of a tenant will write
    pending,    \* the calls whose audit record the listener has yet to insert
    log,        \* those whose record is in the audit log
    \* History, for the properties only:
    committed,  \* the calls whose write is committed
    writer,     \* writer[t][k]: the last call that changed key k of t's settings
    namer,      \* namer[t]: the last update that changed t's domain
    sights,     \* sights[c]: what was so at some time while c was under way
    before,     \* before[c]: the calls that were over when c began
    unbegun,    \* the calls whose BEGIN failed
    lost        \* the calls whose audit record was lost

vars == <<tenant, accounts, settings, inserted, held, request, pc, outcome,
          found, diff, pending, log, committed, writer, namer, sights, before,
          unbegun, lost>>

database == <<tenant, accounts, settings, writer, namer, committed>>
transaction == <<inserted, held, unbegun>>
audit == <<pending, log, lost>>
own == <<request, before>>
work == <<outcome, found, diff>>

Final == {"200", "201", "400", "404", "409", "500", "dropped"}

\* The statements that run in the try block of createTenant
InTry == {"checkingDomain", "insertingTenant", "checkingAdmin", "insertingAdmin",
          "insertingSettings", "committing"}

\* The statements that take a connection for themselves
Autocommitted == {"creating", "findingTenant", "comparing", "checkingEmail",
                  "insertingUser", "finding", "planning"}

\* The write of a save, on the connection that it has
Saving == {"inserting", "updating", "writing"}

Awaiting == {"connecting", "beginning", "rollingBack", "releasing", "answering"}
            \cup InTry \cup Autocommitted \cup Saving

Rows == [state : {"none", "there", "removed"}, domain : Domains]

Op(c) == request[c].op

Account(c) == <<request[c].tenant, request[c].email>>

OfSuperAdmin(c) == Op(c) = "invite" /\ request[c].super

Goto(c, label) == pc' = [pc EXCEPT ![c] = label]

\* Clean up, or await the answer of the database; then answer.
Finish(c, label, answer) ==
    /\ Goto(c, label)
    /\ outcome' = [outcome EXCEPT ![c] = answer]

PoolFull == Cardinality(held) >= PoolSize

-----------------------------------------------------------------------------

\* The seeded tenant has settings and is there, or was removed.
Init ==
    /\ \E d \in Domains, s \in {"there", "removed"} :
          tenant = [t \in Tenants |->
                       [state |-> IF t = Seed THEN s ELSE "none", domain |-> d]]
    /\ accounts = [a \in Accounts |-> Nobody]
    /\ settings = [t \in Tenants |-> IF t = Seed THEN Defaults ELSE NoSettings]
    /\ inserted = [c \in Calls |-> {}]
    /\ held = {}
    /\ request = [c \in Calls |-> NoInput]
    /\ pc = [c \in Calls |-> "idle"]
    /\ outcome = [c \in Calls |-> "500"]
    /\ found = [c \in Calls |-> NoSettings]
    /\ diff = [c \in Calls |-> {}]
    /\ pending = {}
    /\ log = {}
    /\ committed = {}
    /\ writer = [t \in Tenants |-> [k \in Keys |-> Nobody]]
    /\ namer = [t \in Tenants |-> Nobody]
    /\ sights = [c \in Calls |-> {}]
    /\ before = [c \in Calls |-> {}]
    /\ unbegun = {}
    /\ lost = {}

\* A tenant that is addressed has passed the middleware, or, for an update,
\* has had its id made known.
Receive(c, in) ==
    /\ pc[c] = "idle"
    /\ in.op \in {"register", "invite", "configure"} => tenant[in.tenant].state = "there"
    /\ in.op = "update" => tenant[in.tenant].state # "none"
    /\ request' = [request EXCEPT ![c] = in]
    /\ Goto(c, CASE in.op = "provision"              -> "connecting"
                 [] in.op = "create"                 -> "creating"
                 [] in.op = "update"                 -> "findingTenant"
                 [] in.op \in {"register", "invite"} -> "checkingEmail"
                 [] in.op = "configure"              -> "finding")
    /\ before' = [before EXCEPT ![c] = {d \in Calls : pc[d] \in Final}]
    /\ UNCHANGED <<database, transaction, work, audit>>

\* The pool has no connection within connectionTimeoutMillis.
PoolTimeout(c) ==
    /\ pc[c] \in {"connecting"} \cup Autocommitted
    /\ PoolFull
    /\ Goto(c, "500")
    /\ UNCHANGED <<database, transaction, own, work, audit>>

\* Another call of the code removes a tenant.
Remove(t) ==
    /\ tenant[t].state = "there"
    /\ tenant' = [tenant EXCEPT ![t].state = "removed"]
    /\ UNCHANGED <<accounts, settings, writer, namer, committed, transaction, own,
                   pc, work, audit>>

-----------------------------------------------------------------------------
(* Provisioning.                                                           *)

\* createQueryRunner().connect()
Connect(c) ==
    /\ pc[c] = "connecting"
    /\ ~PoolFull
    /\ held' = held \cup {c}
    /\ Goto(c, "beginning")
    /\ UNCHANGED <<database, inserted, unbegun, own, work, audit>>

Begin(c) ==
    /\ pc[c] = "beginning"
    /\ Goto(c, "checkingDomain")
    /\ UNCHANGED <<database, transaction, own, work, audit>>

\* startTransaction is called before the try block, and nothing releases the
\* connection, unless it is lost, when the driver gives it back.
BeginFails(c) ==
    /\ pc[c] = "beginning"
    /\ held' \in {held, held \ {c}}
    /\ unbegun' = unbegun \cup {c}
    /\ Goto(c, "500")
    /\ UNCHANGED <<database, inserted, own, work, audit>>

\* findOne does not see removed tenants.
DomainShown(d) == \E t \in Tenants : tenant[t].state = "there" /\ tenant[t].domain = d

CheckDomain(c) ==
    /\ pc[c] = "checkingDomain"
    /\ IF DomainShown(request[c].domain)
       THEN Finish(c, "rollingBack", "400")
       ELSE Goto(c, "insertingTenant") /\ UNCHANGED outcome
    /\ UNCHANGED <<database, transaction, own, found, diff, audit>>

\* The tenant that c makes or changes, and the domain that it is to have
Target(c) == IF Op(c) = "update" THEN request[c].tenant ELSE c

Wanted(c) == IF request[c].domain = Kept THEN found[c] ELSE request[c].domain

\* The unique index has the rows of removed tenants as well.
DomainTaken(c) ==
    \E t \in Tenants \ {Target(c)} :
        tenant[t].state # "none" /\ tenant[t].domain = Wanted(c)

\* Who writes a domain waits for a transaction that has inserted it to end.
DomainBusy(c) ==
    \E d \in Calls \ {c} : "tenant" \in inserted[d] /\ Wanted(d) = Wanted(c)

InsertTenant(c) ==
    /\ pc[c] = "insertingTenant"
    /\ ~DomainBusy(c)
    /\ IF DomainTaken(c)
       THEN Finish(c, "rollingBack", "409") /\ UNCHANGED inserted
       ELSE /\ inserted' = [inserted EXCEPT ![c] = @ \cup {"tenant"}]
            /\ Goto(c, "checkingAdmin")
            /\ UNCHANGED outcome
    /\ UNCHANGED <<database, held, unbegun, own, found, diff, audit>>

\* Nobody can have an account with a tenant so new; the code asks.
CheckAdmin(c) ==
    /\ pc[c] = "checkingAdmin"
    /\ accounts[<<c, request[c].email>>] = Nobody
    /\ Goto(c, "insertingAdmin")
    /\ UNCHANGED <<database, transaction, own, work, audit>>

InsertAdmin(c) ==
    /\ pc[c] = "insertingAdmin"
    /\ inserted' = [inserted EXCEPT ![c] = @ \cup {"admin"}]
    /\ Goto(c, "insertingSettings")
    /\ UNCHANGED <<database, held, unbegun, own, work, audit>>

\* Slip: the settings are made, and not saved.
SettingsUnsaved(c) == inserted[c]

SettingsSaved(c) == inserted[c] \cup {"settings"}

InsertSettings(c) ==
    /\ pc[c] = "insertingSettings"
    /\ inserted' = [inserted EXCEPT ![c] = SettingsSaved(c)]
    /\ Goto(c, "committing")
    /\ UNCHANGED <<database, held, unbegun, own, work, audit>>

\* Slip: the domain is left out.
RowWithoutDomain(c) == [state |-> "there", domain |-> Nobody]

NewRow(c) == [state |-> "there", domain |-> request[c].domain]

\* COMMIT makes what was inserted visible; its answer may be lost, and then
\* the catch block rolls back what is committed already.
Commit(c) ==
    /\ pc[c] = "committing"
    /\ tenant' = IF "tenant" \in inserted[c]
                 THEN [tenant EXCEPT ![c] = NewRow(c)] ELSE tenant
    /\ accounts' = IF "admin" \in inserted[c]
                   THEN [accounts EXCEPT ![<<c, request[c].email>>] = c] ELSE accounts
    /\ settings' = IF "settings" \in inserted[c]
                   THEN [settings EXCEPT ![c] = Defaults] ELSE settings
    /\ inserted' = [inserted EXCEPT ![c] = {}]
    /\ committed' = committed \cup {c}
    /\ \/ Finish(c, "releasing", "201")
       \/ Finish(c, "rollingBack", "500")
    /\ UNCHANGED <<writer, namer, held, unbegun, own, found, diff, audit>>

\* A statement in the try block fails.
StatementFails(c) ==
    /\ pc[c] \in InTry
    /\ Finish(c, "rollingBack", "500")
    /\ UNCHANGED <<database, transaction, own, found, diff, audit>>

\* Slip: the connection goes back with its transaction open.
LeftOpen(c) == inserted[c]

RolledBack(c) == {}

\* rollbackTransaction; should it fail, the connection and the transaction
\* are gone together, and the call answers 500.
Rollback(c) ==
    /\ pc[c] = "rollingBack"
    /\ inserted' = [inserted EXCEPT ![c] = RolledBack(c)]
    /\ \E answer \in {outcome[c], "500"} : Finish(c, "releasing", answer)
    /\ UNCHANGED <<database, held, unbegun, own, found, diff, audit>>

\* Slip: an early return keeps the connection.
ReleasedUnlessRefused(c) == IF outcome[c] = "400" THEN held ELSE held \ {c}

Released(c) == held \ {c}

\* The finally block
Release(c) ==
    /\ pc[c] = "releasing"
    /\ held' = Released(c)
    /\ Goto(c, outcome[c])
    /\ UNCHANGED <<database, inserted, unbegun, own, work, audit>>

-----------------------------------------------------------------------------
(* Tenants without provisioning, accounts, settings: one statement at a    *)
(* time.                                                                   *)

\* TenantService.create saves a tenant alone, without a look beforehand: the
\* save takes a connection, and has it while its INSERT waits.
Create(c) ==
    /\ pc[c] = "creating"
    /\ ~PoolFull
    /\ held' = held \cup {c}
    /\ Goto(c, "inserting")
    /\ UNCHANGED <<database, inserted, unbegun, own, work, audit>>

InsertAlone(c) ==
    /\ pc[c] = "inserting"
    /\ ~DomainBusy(c)
    /\ held' = held \ {c}
    /\ IF DomainTaken(c)
       THEN Goto(c, "409") /\ UNCHANGED <<tenant, committed, outcome>>
       ELSE /\ tenant' = [tenant EXCEPT ![c] = NewRow(c)]
            /\ committed' = committed \cup {c}
            /\ Finish(c, "answering", "201")
    /\ UNCHANGED <<accounts, settings, writer, namer, inserted, unbegun, own, found,
                   diff, audit>>

\* TenantService.update: findOne, which does not see removed tenants
FindTenant(c) ==
    /\ pc[c] = "findingTenant"
    /\ ~PoolFull
    /\ LET row == tenant[request[c].tenant]
       IN  IF row.state # "there"
           THEN Goto(c, "404") /\ UNCHANGED found
           ELSE /\ found' = [found EXCEPT ![c] = row.domain]
                /\ Goto(c, "comparing")
    /\ UNCHANGED <<database, transaction, own, outcome, diff, audit>>

\* The columns of the row that are not as in the entity: its domain, or the
\* mark of its removal, which the entity does not have
Differing(c) ==
    LET row == tenant[request[c].tenant]
    IN  (IF row.domain # Wanted(c) THEN {"domain"} ELSE {})
        \cup (IF row.state = "removed" THEN {"mark"} ELSE {})

\* save reads the row again, removed or not, on a connection it keeps if there
\* is something to write, the columns that are not modelled included.
CompareTenant(c) ==
    /\ pc[c] = "comparing"
    /\ ~PoolFull
    /\ diff' = [diff EXCEPT ![c] = Differing(c)]
    /\ \/ /\ Differing(c) = {}
          /\ Finish(c, "answering", "200")
          /\ committed' = committed \cup {c}
          /\ UNCHANGED held
       \/ /\ Goto(c, "updating")
          /\ held' = held \cup {c}
          /\ UNCHANGED <<committed, outcome>>
    /\ UNCHANGED <<tenant, accounts, settings, writer, namer, inserted, unbegun, own,
                   found, audit>>

UpdatedRow(c) ==
    LET row == tenant[request[c].tenant]
    IN  [state |-> IF "mark" \in diff[c] THEN "there" ELSE row.state,
         domain |-> IF "domain" \in diff[c] THEN Wanted(c) ELSE row.domain]

\* The UPDATE, of these columns only, and its COMMIT
UpdateTenant(c) ==
    /\ pc[c] = "updating"
    /\ "domain" \in diff[c] => ~DomainBusy(c)
    /\ held' = held \ {c}
    /\ IF "domain" \in diff[c] /\ DomainTaken(c)
       THEN Goto(c, "409") /\ UNCHANGED <<tenant, namer, committed, outcome>>
       ELSE LET t == request[c].tenant
            IN  /\ tenant' = [tenant EXCEPT ![t] = UpdatedRow(c)]
                /\ namer' = IF UpdatedRow(c).domain # tenant[t].domain
                            THEN [namer EXCEPT ![t] = c] ELSE namer
                /\ committed' = committed \cup {c}
                /\ Finish(c, "answering", "200")
    /\ UNCHANGED <<accounts, settings, writer, inserted, unbegun, own, found, diff,
                   audit>>

\* The look at the e-mail, before bcrypt hashes the password; a super admin is
\* not to be invited.
CheckEmail(c) ==
    /\ pc[c] = "checkingEmail"
    /\ ~PoolFull
    /\ Goto(c, IF accounts[Account(c)] # Nobody \/ OfSuperAdmin(c) THEN "400"
               ELSE "insertingUser")
    /\ UNCHANGED <<database, transaction, own, work, audit>>

\* The e-mail is unique in a tenant.  inviteUser answers the violation with
\* 409, register passes it on.
InsertUser(c) ==
    /\ pc[c] = "insertingUser"
    /\ ~PoolFull
    /\ IF accounts[Account(c)] # Nobody
       THEN /\ Goto(c, IF Op(c) = "invite" THEN "409" ELSE "500")
            /\ UNCHANGED <<accounts, committed, outcome>>
       ELSE /\ accounts' = [accounts EXCEPT ![Account(c)] = c]
            /\ committed' = committed \cup {c}
            /\ Finish(c, "answering", "201")
    /\ UNCHANGED <<tenant, settings, writer, namer, transaction, own, found, diff,
                   audit>>

\* getSettings
FindSettings(c) ==
    /\ pc[c] = "finding"
    /\ ~PoolFull
    /\ found' = [found EXCEPT ![c] = settings[request[c].tenant]]
    /\ Goto(c, IF settings[request[c].tenant] = NoSettings THEN "404" ELSE "planning")
    /\ UNCHANGED <<database, transaction, own, outcome, diff, audit>>

\* Slip: what the client does not send is reset.
MergedAfresh(c) ==
    [k \in Keys |-> IF k \in DOMAIN request[c].patch THEN request[c].patch[k]
                                                   ELSE Defaults[k]]

Merged(c) ==
    [k \in Keys |-> IF k \in DOMAIN request[c].patch THEN request[c].patch[k]
                                                   ELSE found[c][k]]

\* save reads the row again, on a connection it keeps, and writes the column
\* if it differs.
PlanSettings(c) ==
    /\ pc[c] = "planning"
    /\ ~PoolFull
    /\ IF Merged(c) = settings[request[c].tenant]
       THEN /\ Finish(c, "answering", "200")
            /\ committed' = committed \cup {c}
            /\ UNCHANGED held
       ELSE /\ Goto(c, "writing")
            /\ held' = held \cup {c}
            /\ UNCHANGED <<committed, outcome>>
    /\ UNCHANGED <<tenant, accounts, settings, writer, namer, inserted, unbegun, own,
                   found, diff, audit>>

WriteSettings(c) ==
    /\ pc[c] = "writing"
    /\ LET t == request[c].tenant
       IN  /\ settings' = [settings EXCEPT ![t] = Merged(c)]
           /\ writer' = [writer EXCEPT ![t] =
                 [k \in Keys |-> IF Merged(c)[k] # settings[t][k] THEN c ELSE @[k]]]
    /\ held' = held \ {c}
    /\ committed' = committed \cup {c}
    /\ Finish(c, "answering", "200")
    /\ UNCHANGED <<tenant, accounts, namer, inserted, unbegun, own, found, diff, audit>>

\* Slip: invitations are not recorded.
AuditedUnlessInvited(c) == Op(c) \in {"register", "configure"}

Audited(c) == Op(c) \in {"register", "invite", "configure"}

\* The database has answered: the call emits the record of what it has done,
\* which the listener begins to insert, and answers.
Answer(c) ==
    /\ pc[c] = "answering"
    /\ pending' = IF Audited(c) THEN pending \cup {c} ELSE pending
    /\ Goto(c, outcome[c])
    /\ UNCHANGED <<database, transaction, own, work, log, lost>>

\* A statement fails, or its answer is lost.  save gives its connection back.
Fail(c) ==
    /\ pc[c] \in {"connecting", "answering"} \cup Autocommitted \cup Saving
    /\ held' = held \ {c}
    /\ Goto(c, "500")
    /\ UNCHANGED <<database, inserted, unbegun, own, work, audit>>

\* The server of c dies; the database ends what it had begun.
Crash(c) ==
    /\ pc[c] \in Awaiting
    /\ inserted' = [inserted EXCEPT ![c] = {}]
    /\ held' = held \ {c}
    /\ Goto(c, "dropped")
    /\ UNCHANGED <<database, unbegun, own, work, audit>>

-----------------------------------------------------------------------------
(* The audit listener.                                                     *)

InsertAudit(c) ==
    /\ c \in pending
    /\ pending' = pending \ {c}
    /\ log' = log \cup {c}
    /\ UNCHANGED <<database, transaction, own, pc, work, lost>>

\* The insert fails, which is logged and swallowed; or the server dies.
LoseAudit(c) ==
    /\ c \in pending
    /\ pending' = pending \ {c}
    /\ lost' = lost \cup {c}
    /\ UNCHANGED <<database, transaction, own, pc, work, log>>

-----------------------------------------------------------------------------

\* Another tenant's row, or another call's account, is in the way of c.
Rivalled(c) ==
    IF Op(c) \in {"provision", "create", "update"}
    THEN DomainTaken(c)
    ELSE accounts[Account(c)] \notin {c, Nobody}

\* What answers are about: a row in the way, the tenant that is addressed, and
\* that it is not there, or has no settings
Shown(c) ==
    CASE Op(c) = "update" ->
            IF tenant[request[c].tenant].state = "there" THEN {"tenant"} ELSE {"nothing"}
      [] Op(c) = "configure" ->
            IF settings[request[c].tenant] = NoSettings THEN {"nothing"} ELSE {}
      [] OTHER -> {}

Watch ==
    sights' = [c \in Calls |->
                  IF pc'[c] \in Awaiting
                  THEN sights[c] \cup Shown(c)'
                       \cup IF Op(c)' # "configure" /\ Rivalled(c)' THEN {"rival"} ELSE {}
                  ELSE sights[c]]

Done ==
    /\ \A c \in Calls : pc[c] \in Final
    /\ pending = {}
    /\ UNCHANGED vars

Step(c) ==
    /\ \/ PoolTimeout(c)
       \/ Connect(c)
       \/ Begin(c)
       \/ CheckDomain(c)
       \/ InsertTenant(c)
       \/ CheckAdmin(c)
       \/ InsertAdmin(c)
       \/ InsertSettings(c)
       \/ Commit(c)
       \/ Rollback(c)
       \/ Release(c)
       \/ Create(c)
       \/ InsertAlone(c)
       \/ FindTenant(c)
       \/ CompareTenant(c)
       \/ UpdateTenant(c)
       \/ CheckEmail(c)
       \/ InsertUser(c)
       \/ FindSettings(c)
       \/ PlanSettings(c)
       \/ WriteSettings(c)
       \/ Answer(c)
    /\ Watch

Event ==
    /\ \/ \E c \in Calls, in \in Inputs : Receive(c, in)
       \/ \E c \in Calls :
             \/ BeginFails(c)
             \/ StatementFails(c)
             \/ Fail(c)
             \/ Crash(c)
             \/ InsertAudit(c)
             \/ LoseAudit(c)
       \/ \E t \in Tenants : Remove(t)
    /\ Watch

Next ==
    \/ \E c \in Calls : Step(c)
    \/ Event
    \/ Done

Spec == Init /\ [][Next]_vars

\* Postgres answers, the pool gives a connection or times out, and the event
\* loop goes on.
FairSpec == Spec /\ \A c \in Calls : WF_vars(Step(c))

-----------------------------------------------------------------------------
(* Properties.                                                             *)

\* Every variable keeps to its type.
TypeOK ==
    /\ tenant \in [Tenants -> Rows]
    /\ accounts \in [Accounts -> Calls \cup {Nobody}]
    /\ settings \in [Tenants -> Configs \cup {NoSettings}]
    /\ inserted \in [Calls -> SUBSET {"tenant", "admin", "settings"}]
    /\ held \in SUBSET Calls
    /\ request \in [Calls -> Inputs \cup {NoInput}]
    /\ pc \in [Calls -> {"idle"} \cup Awaiting \cup Final]
    /\ outcome \in [Calls -> Final]
    /\ found \in [Calls -> Configs \cup Domains \cup {NoSettings}]
    /\ diff \in [Calls -> SUBSET {"domain", "mark"}]
    /\ pending \in SUBSET Calls
    /\ log \in SUBSET Calls
    /\ committed \in SUBSET Calls
    /\ writer \in [Tenants -> [Keys -> Calls \cup {Nobody}]]
    /\ namer \in [Tenants -> Calls \cup {Nobody}]
    /\ sights \in [Calls -> SUBSET {"rival", "tenant", "nothing"}]
    /\ before \in [Calls -> SUBSET Calls]
    /\ unbegun \in SUBSET Calls
    /\ lost \in SUBSET Calls

\* What a provisioning must leave: all of a tenant, or none of it
Whole(c) ==
    /\ tenant[c].state # "none"
    /\ namer[c] = Nobody => tenant[c].domain = request[c].domain
    /\ accounts[<<c, request[c].email>>] = c
    /\ settings[c] # NoSettings

Nothing(c) ==
    /\ tenant[c].state = "none"
    /\ \A e \in Emails : accounts[<<c, e>>] = Nobody
    /\ settings[c] = NoSettings

\* Whichever statement fails, and whatever becomes of the answer to COMMIT, a
\* provisioning leaves a whole tenant or nothing (M7 and createTenant's
\* transaction).  A success means that what was asked is done; 400 and 409
\* that it is not, and that another's committed row was in the way at some
\* time while the call was under way, although the check precedes the insert,
\* or that it would invite a super admin; 404 that the tenant was not there,
\* or has no settings.
AnswersAreTruthful ==
    \A c \in Calls :
        /\ Op(c) = "provision" => IF c \in committed THEN Whole(c) ELSE Nothing(c)
        /\ pc[c] \in {"200", "201"} => c \in committed
        /\ pc[c] = "201" /\ Op(c) = "create" => tenant[c].state # "none"
        /\ pc[c] = "201" /\ Op(c) \in {"register", "invite"} => accounts[Account(c)] = c
        /\ pc[c] \in {"400", "409"} =>
              c \notin committed /\ ("rival" \in sights[c] \/ OfSuperAdmin(c))
        /\ pc[c] = "404" => "nothing" \in sights[c]
        /\ OfSuperAdmin(c) => c \notin committed

\* Of the ten connections of the pool, none stays with a call that is over,
\* unless its BEGIN failed, before the try block that would release it.
ConnectionsComeBack ==
    \A c \in held : pc[c] \in Final => c \in unbegun

Overlapped(c, d) ==
    d # Nobody /\ c \notin before[d] /\ d \notin before[c]

\* updateSettings reads, merges and writes back the whole configuration, and
\* TenantService.update saves the whole tenant.  A key that a client did not
\* send changes only if another call changed it while this one was under way,
\* and then that call's change is lost; so does a domain that a client did not
\* name, and a removed tenant comes back only with an update that began when
\* it was there.
UnaskedStays ==
    [][/\ \A t \in Tenants, k \in Keys :
             settings[t] # NoSettings /\ settings'[t][k] # settings[t][k] =>
                 \E c \in Calls :
                     /\ pc[c] = "writing" /\ pc'[c] = "answering"
                     /\ request[c].tenant = t
                     /\ k \in DOMAIN request[c].patch \/ Overlapped(c, writer[t][k])
       /\ \A t \in Tenants :
             tenant[t].state # "none" =>
                 /\ tenant'[t].domain # tenant[t].domain =>
                       \E c \in Calls :
                           /\ pc[c] = "updating" /\ pc'[c] = "answering"
                           /\ request[c].tenant = t
                           /\ \/ tenant'[t].domain = request[c].domain
                              \/ Overlapped(c, namer[t])
                 /\ tenant[t].state = "removed" /\ tenant'[t].state = "there" =>
                       \E c \in Calls :
                           /\ pc[c] = "updating" /\ pc'[c] = "answering"
                           /\ request[c].tenant = t
                           /\ "tenant" \in sights[c]]_vars

\* Records are "only emitted upon successful transactions" (M10), and an
\* answered change of an account or of settings is on record, or about to be,
\* unless the listener's insert failed, which nobody is told.
AuditFollowsCommit ==
    /\ pending \cup log \cup lost \subseteq committed
    /\ \A c \in Calls :
          pc[c] \in {"200", "201"} /\ Op(c) \in {"register", "invite", "configure"} =>
              c \in pending \cup log \cup lost

\* Waiting for a rival's transaction, or for a connection, comes to an end:
\* every call is answered.
EveryCallEnds ==
    \A c \in Calls : pc[c] \in Awaiting ~> pc[c] \in Final
=============================================================================
