------------------------ MODULE AdministrationProofs ------------------------
(***************************************************************************)
(* What Administration guarantees for any number of calls, tenants and    *)
(* keys, and for a pool of any size.                                       *)
(*                                                                         *)
(* The argument is that of a ledger: a row is there only because its call *)
(* has committed (Rooted), what a call has committed it has wholly        *)
(* (Settled), and what a transaction has inserted depends only on the     *)
(* statement it has come to (Staged).  Other calls do not undo it: rows   *)
(* are renamed, marked as removed and brought back, and never taken away  *)
(* (Grown).  What is in the way of a call that is under way is among its  *)
(* sights (SightsInv), and that is what its refusal rests on (Grounded).  *)
(*                                                                         *)
(* The last part is about waiting: what a transaction holds (LockInv), and *)
(* why nobody holds something while waiting for more (NoCircularWait).     *)
(***************************************************************************)
EXTENDS Administration, FiniteSetTheorems, TLAPS

\* Where a call can be depends on what it asks for.
Placed(c) ==
    /\ pc[c] # "idle" => request[c] \in Inputs
    /\ pc[c] = "idle" => request[c] = NoInput
    /\ pc[c] \in {"connecting", "beginning", "rollingBack", "releasing"} \cup InTry =>
          Op(c) = "provision"
    /\ pc[c] \in {"creating", "inserting"} => Op(c) = "create"
    /\ pc[c] \in {"findingTenant", "comparing", "updating"} => Op(c) = "update"
    /\ pc[c] \in {"comparing", "updating"} => found[c] \in Domains
    /\ pc[c] \in {"checkingEmail", "insertingUser"} => Op(c) \in {"register", "invite"}
    /\ pc[c] \in {"finding", "planning", "writing"} => Op(c) = "configure"
    /\ pc[c] \in {"planning", "writing"} => found[c] \in Configs
    /\ pc[c] = "answering" => Op(c) # "provision"

TypeInv == TypeOK /\ \A c \in Calls : Placed(c)

-----------------------------------------------------------------------------
(* Types.                                                                  *)

\* What an input of each kind carries
LEMMA InputFields ==
    ASSUME NEW in \in Inputs
    PROVE  /\ in.op \in {"provision", "create", "update", "register", "invite",
                        "configure"}
           /\ in.op \in {"provision", "create"} => in.domain \in Domains
           /\ in.op = "update" => in.domain \in Domains \cup {Kept}
           /\ in.op \in {"provision", "register", "invite"} => in.email \in Emails
           /\ in.op \in {"update", "register", "invite", "configure"} =>
                 in.tenant \in Tenants
           /\ in.op = "configure" => in.patch \in Patches
BY DEF Inputs

\* Merging what a client sends with what was found gives a configuration.
LEMMA MergedType ==
    ASSUME NEW c \in Calls, found[c] \in Configs, request[c].patch \in Patches
    PROVE  Merged(c) \in Configs
<1>1. PICK S \in SUBSET Keys : request[c].patch \in [S -> Values]
  BY DEF Patches
<1>2. ASSUME NEW k \in Keys
      PROVE  (IF k \in DOMAIN request[c].patch THEN request[c].patch[k]
                                               ELSE found[c][k]) \in Values
  BY <1>1 DEF Configs
<1> QED
  BY <1>2 DEF Merged, Configs

\* What is seen of a call is one of three things.
LEMMA SightsType ==
    ASSUME TypeInv, Watch
    PROVE  sights' \in [Calls -> SUBSET {"rival", "tenant", "nothing"}]
<1>1. ASSUME NEW c \in Calls
      PROVE  sights[c] \subseteq {"rival", "tenant", "nothing"}
  BY DEF TypeInv, TypeOK
<1>2. ASSUME NEW c \in Calls
      PROVE  Shown(c)' \subseteq {"rival", "tenant", "nothing"}
  BY DEF Shown
<1> QED
  BY <1>1, <1>2 DEF Watch

LEMMA TypeInit ==
    ASSUME Init
    PROVE  TypeInv
<1>1. PICK d \in Domains, s \in {"there", "removed"} :
         tenant = [t \in Tenants |->
                      [state |-> IF t = Seed THEN s ELSE "none", domain |-> d]]
  BY DEF Init
<1>2. tenant \in [Tenants -> Rows]
  BY <1>1 DEF Rows
<1>3. settings \in [Tenants -> Configs \cup {NoSettings}]
  BY AdministrationAssumption DEF Init
<1>4. TypeOK
  BY <1>2, <1>3 DEF Init, TypeOK, Final
<1> QED
  BY <1>4 DEF Init, TypeInv, Placed, InTry

LEMMA TypeStep ==
    ASSUME TypeInv, [Next]_vars
    PROVE  TypeInv'
<1> USE DEF TypeInv
<1>0. CASE UNCHANGED vars
  BY <1>0 DEF vars, TypeOK, Placed, Op
<1>w. sights' \in [Calls -> SUBSET {"rival", "tenant", "nothing"}]
  <2>1. UNCHANGED vars \/ Watch
    BY DEF Next, Step, Event, Done
  <2> QED
    BY <2>1, SightsType DEF vars, TypeOK
<1> USE <1>w
<1>1. ASSUME NEW c \in Calls, NEW in \in Inputs, Receive(c, in)
      PROVE  TypeInv'
  <2>1. /\ request' = [request EXCEPT ![c] = in]
        /\ UNCHANGED <<database, transaction, work, audit>>
        /\ before' \in [Calls -> SUBSET Calls]
    BY <1>1 DEF Receive, TypeOK
  <2>2. \/ in.op = "provision" /\ pc' = [pc EXCEPT ![c] = "connecting"]
        \/ in.op = "create" /\ pc' = [pc EXCEPT ![c] = "creating"]
        \/ in.op = "update" /\ pc' = [pc EXCEPT ![c] = "findingTenant"]
        \/ in.op \in {"register", "invite"} /\ pc' = [pc EXCEPT ![c] = "checkingEmail"]
        \/ in.op = "configure" /\ pc' = [pc EXCEPT ![c] = "finding"]
    BY <1>1, InputFields DEF Receive, Goto
  <2>3. TypeOK'
    BY <2>1, <2>2 DEF TypeOK, database, transaction, work, audit, Awaiting, InTry,
                        Autocommitted, Saving
  <2>4. Placed(c)'
    BY <2>1, <2>2 DEF Placed, Op, InTry, TypeOK
  <2>5. ASSUME NEW d \in Calls \ {c}
        PROVE  Placed(d)'
    <3>1. pc'[d] = pc[d] /\ request'[d] = request[d] /\ found'[d] = found[d]
      BY <2>1, <2>2 DEF TypeOK, work
    <3> QED
      BY <3>1 DEF Placed, Op
  <2> QED
    BY <2>3, <2>4, <2>5
<1>2. ASSUME NEW c \in Calls,
             \/ PoolTimeout(c) \/ Begin(c) \/ CheckDomain(c) \/ CheckAdmin(c)
             \/ StatementFails(c) \/ CheckEmail(c) \/ Fail(c) \/ Crash(c)
             \/ Connect(c) \/ BeginFails(c) \/ Release(c) \/ Rollback(c)
             \/ InsertTenant(c) \/ InsertAdmin(c) \/ InsertSettings(c) \/ Create(c)
      PROVE  TypeInv'
  <2>1. /\ UNCHANGED <<database, own, found, diff, audit>>
        /\ outcome' \in [Calls -> Final]
        /\ inserted' \in [Calls -> SUBSET {"tenant", "admin", "settings"}]
        /\ held' \in SUBSET Calls
        /\ unbegun' \in SUBSET Calls
    <3> USE DEF TypeOK, Goto, Finish, Final, transaction, work
    <3>1. CASE PoolTimeout(c) \/ Begin(c) \/ CheckDomain(c) \/ CheckAdmin(c)
      BY <3>1 DEF PoolTimeout, Begin, CheckDomain, CheckAdmin
    <3>2. CASE StatementFails(c) \/ CheckEmail(c)
      BY <3>2 DEF StatementFails, CheckEmail
    <3>3. CASE Fail(c)
      BY <3>3 DEF Fail
    <3>4. CASE Crash(c)
      BY <3>4 DEF Crash
    <3>5. CASE Connect(c) \/ Create(c) \/ BeginFails(c) \/ Release(c)
      BY <3>5 DEF Connect, Create, BeginFails, Release, Released
    <3>6. CASE Rollback(c)
      BY <3>6 DEF Rollback, RolledBack
    <3>7. CASE InsertTenant(c)
      <4>1. /\ UNCHANGED <<database, held, unbegun, own, found, diff, audit>>
            /\ \/ inserted' = inserted
               \/ inserted' = [inserted EXCEPT ![c] = inserted[c] \cup {"tenant"}]
            /\ outcome' = outcome \/ outcome' = [outcome EXCEPT ![c] = "409"]
        BY <3>7 DEF InsertTenant
      <4> QED
        BY <4>1
    <3>8. CASE InsertAdmin(c)
      BY <3>8 DEF InsertAdmin
    <3>9. CASE InsertSettings(c)
      BY <3>9 DEF InsertSettings, SettingsSaved
    <3> QED
      BY <1>2, <3>1, <3>2, <3>3, <3>4, <3>5, <3>6, <3>7, <3>8, <3>9
  <2>2. /\ pc[c] # "idle"
        /\ \E label \in Awaiting \cup Final :
              /\ pc' = [pc EXCEPT ![c] = label]
              /\ label \in {"beginning", "rollingBack", "releasing"} \cup InTry =>
                    Op(c) = "provision"
              /\ label = "insertingUser" => Op(c) \in {"register", "invite"}
              /\ label = "inserting" => Op(c) = "create"
              /\ label \notin {"connecting", "creating", "findingTenant", "comparing",
                               "updating", "checkingEmail", "finding", "planning",
                               "writing", "answering"}
    <3> USE DEF TypeOK, Goto, Finish, Placed, Final, InTry, Awaiting, Autocommitted,
               Saving
    <3>1. CASE PoolTimeout(c) \/ Begin(c) \/ CheckDomain(c) \/ CheckAdmin(c)
      BY <3>1 DEF PoolTimeout, Begin, CheckDomain, CheckAdmin
    <3>2. CASE StatementFails(c) \/ CheckEmail(c) \/ Fail(c) \/ Crash(c)
      BY <3>2 DEF StatementFails, CheckEmail, Fail, Crash
    <3>3. CASE Connect(c) \/ Create(c) \/ BeginFails(c) \/ Release(c) \/ Rollback(c)
      BY <3>3 DEF Connect, Create, BeginFails, Release, Rollback
    <3>4. CASE InsertTenant(c) \/ InsertAdmin(c) \/ InsertSettings(c)
      BY <3>4 DEF InsertTenant, InsertAdmin, InsertSettings
    <3> QED
      BY <1>2, <3>1, <3>2, <3>3, <3>4
  <2>3. TypeOK'
    BY <2>1, <2>2 DEF TypeOK, database, own, audit
  <2>4. PICK label \in Awaiting \cup Final :
           /\ pc' = [pc EXCEPT ![c] = label]
           /\ label \in {"beginning", "rollingBack", "releasing"} \cup InTry =>
                 Op(c) = "provision"
           /\ label = "insertingUser" => Op(c) \in {"register", "invite"}
           /\ label = "inserting" => Op(c) = "create"
           /\ label \notin {"connecting", "creating", "findingTenant", "comparing",
                            "updating", "checkingEmail", "finding", "planning",
                            "writing", "answering"}
    BY <2>2
  <2>5. label # "idle" /\ UNCHANGED <<request, found>>
    BY <2>1, <2>4 DEF own, Awaiting, InTry, Autocommitted, Saving, Final
  <2>6. ASSUME NEW d \in Calls
        PROVE  Placed(d)'
    <3>1. CASE d = c
      BY <2>2, <2>4, <2>5, <3>1 DEF Placed, Op, InTry, TypeOK
    <3>2. CASE d # c
      BY <2>4, <2>5, <3>2 DEF Placed, Op, InTry, TypeOK
    <3> QED
      BY <3>1, <3>2
  <2> QED
    BY <2>3, <2>6
<1>3. ASSUME NEW c \in Calls, Commit(c)
      PROVE  TypeInv'
  <2>1. Op(c) = "provision" /\ request[c] \in Inputs
    BY <1>3 DEF Commit, Placed, InTry
  <2>2. NewRow(c) \in Rows /\ <<c, request[c].email>> \in Accounts
    BY <2>1, InputFields DEF NewRow, Rows, Op, Accounts, Tenants
  <2>3. /\ tenant' \in [Tenants -> Rows]
        /\ accounts' \in [Accounts -> Calls \cup {Nobody}]
        /\ settings' \in [Tenants -> Configs \cup {NoSettings}]
    BY <1>3, <2>2, AdministrationAssumption DEF Commit, TypeOK
  <2>4. /\ UNCHANGED <<writer, namer, held, unbegun, request, before, found, diff, pending,
                     log, lost>>
        /\ inserted' = [inserted EXCEPT ![c] = {}]
        /\ committed' = committed \cup {c}
        /\ \E label \in {"releasing", "rollingBack"} : pc' = [pc EXCEPT ![c] = label]
        /\ \E answer \in {"201", "500"} : outcome' = [outcome EXCEPT ![c] = answer]
    BY <1>3 DEF Commit, Finish, Goto, own, audit
  <2>5. TypeOK'
    BY <2>3, <2>4 DEF TypeOK, Awaiting, Final
  <2> QED
    BY <2>1, <2>4, <2>5 DEF Placed, Op, InTry, TypeOK
<1>4. ASSUME NEW c \in Calls, InsertAlone(c) \/ InsertUser(c)
      PROVE  TypeInv'
  <2>1. /\ Op(c) \in {"create", "register", "invite"} /\ request[c] \in Inputs
        /\ InsertAlone(c) => Op(c) = "create"
        /\ InsertUser(c) => Op(c) \in {"register", "invite"}
    BY <1>4 DEF InsertAlone, InsertUser, Placed
  <2>2. /\ InsertAlone(c) => NewRow(c) \in Rows
        /\ InsertUser(c) => Account(c) \in Accounts
    BY <2>1, InputFields DEF NewRow, Rows, Op, Accounts, Account
  <2>3. /\ UNCHANGED <<settings, writer, namer, inserted, unbegun, own, found, diff, audit>>
        /\ held' \in SUBSET Calls
    BY <1>4 DEF InsertAlone, InsertUser, transaction, TypeOK
  <2>4. /\ tenant' \in [Tenants -> Rows]
        /\ accounts' \in [Accounts -> Calls \cup {Nobody}]
        /\ committed' \in SUBSET Calls
    <3>1. CASE InsertAlone(c)
      <4>1. c \in Tenants
        BY DEF Tenants
      <4> QED
        BY <2>2, <3>1, <4>1 DEF InsertAlone, TypeOK
    <3>2. CASE InsertUser(c)
      BY <2>2, <3>2 DEF InsertUser, TypeOK
    <3> QED
      BY <1>4, <3>1, <3>2
  <2>5. /\ outcome' \in [Calls -> Final]
        /\ \E label \in {"answering", "409", "500"} : pc' = [pc EXCEPT ![c] = label]
    BY <1>4 DEF InsertAlone, InsertUser, Finish, Goto, TypeOK, Final
  <2>6. TypeOK'
    BY <2>3, <2>4, <2>5 DEF TypeOK, own, audit, Awaiting, Final
  <2> QED
    BY <2>1, <2>3, <2>5, <2>6 DEF Placed, Op, own, InTry, TypeOK
<1>5. ASSUME NEW c \in Calls, FindSettings(c) \/ FindTenant(c)
      PROVE  TypeInv'
  <2>1. /\ request[c] \in Inputs /\ request[c].tenant \in Tenants
        /\ FindSettings(c) => Op(c) = "configure"
        /\ FindTenant(c) => Op(c) = "update"
    BY <1>5, InputFields DEF FindSettings, FindTenant, Placed, Op
  <2>2. /\ settings[request[c].tenant] \in Configs \cup {NoSettings}
        /\ tenant[request[c].tenant].domain \in Domains
    BY <2>1 DEF TypeOK, Rows
  <2>3. /\ UNCHANGED <<database, transaction, own, outcome, diff, audit>>
        /\ \/ /\ found' = [found EXCEPT ![c] = settings[request[c].tenant]]
              /\ FindSettings(c)
              /\ \/ pc' = [pc EXCEPT ![c] = "404"]
                 \/ /\ pc' = [pc EXCEPT ![c] = "planning"]
                    /\ settings[request[c].tenant] \in Configs
           \/ /\ found' = [found EXCEPT ![c] = tenant[request[c].tenant].domain]
              /\ FindTenant(c)
              /\ pc' = [pc EXCEPT ![c] = "comparing"]
           \/ found' = found /\ pc' = [pc EXCEPT ![c] = "404"]
    BY <1>5, <2>2 DEF FindSettings, FindTenant, Goto
  <2>4. TypeOK'
    BY <2>2, <2>3 DEF TypeOK, database, transaction, own, audit, Awaiting, Autocommitted,
                      Final
  <2>5. request' = request
    BY <2>3 DEF own
  <2> QED
    BY <2>1, <2>2, <2>3, <2>4, <2>5 DEF Placed, Op, InTry, TypeOK
<1>6. ASSUME NEW c \in Calls, PlanSettings(c) \/ WriteSettings(c)
      PROVE  TypeInv'
  <2>1. /\ Op(c) = "configure" /\ request[c] \in Inputs
        /\ request[c].tenant \in Tenants
        /\ Merged(c) \in Configs
    BY <1>6, InputFields, MergedType DEF PlanSettings, WriteSettings, Placed, Op
  <2>2. /\ UNCHANGED <<tenant, accounts, namer, inserted, unbegun, own, found, diff,
                       audit>>
        /\ settings' \in [Tenants -> Configs \cup {NoSettings}]
        /\ writer' \in [Tenants -> [Keys -> Calls \cup {Nobody}]]
        /\ held' \in SUBSET Calls
        /\ committed' \in SUBSET Calls
        /\ outcome' \in [Calls -> Final]
        /\ \E label \in {"answering", "writing"} : pc' = [pc EXCEPT ![c] = label]
    <3>1. CASE PlanSettings(c)
      BY <3>1, SMTT(30) DEF PlanSettings, Finish, Goto, TypeOK, Final
    <3>2. CASE WriteSettings(c)
      BY <2>1, <3>2 DEF WriteSettings, Finish, Goto, TypeOK, Final
    <3> QED
      BY <1>6, <3>1, <3>2
  <2>3. TypeOK'
    BY <2>2 DEF TypeOK, own, audit, Awaiting, Saving
  <2>4. found[c] \in Configs
    BY <1>6 DEF PlanSettings, WriteSettings, Placed
  <2> QED
    BY <2>1, <2>2, <2>3, <2>4 DEF Placed, Op, own, InTry, TypeOK
<1>7. ASSUME NEW c \in Calls, Answer(c)
      PROVE  TypeInv'
  <2>1. TypeOK'
    BY <1>7 DEF Answer, Goto, TypeOK, database, transaction, own, work
  <2>2. /\ UNCHANGED <<request, found>>
        /\ pc' = [pc EXCEPT ![c] = outcome[c]]
        /\ outcome[c] \in Final
    BY <1>7 DEF Answer, Goto, TypeOK, own, work
  <2>3. ASSUME NEW d \in Calls
        PROVE  Placed(d)'
    <3>1. CASE d = c
      <4>1. pc'[c] \in Final /\ request'[c] = request[c] /\ request[c] \in Inputs
        BY <1>7, <2>2 DEF Answer, Placed, TypeOK
      <4> QED
        BY <3>1, <4>1 DEF Placed, InTry, Final
    <3>2. CASE d # c
      <4>1. pc'[d] = pc[d] /\ request'[d] = request[d] /\ found'[d] = found[d]
        BY <2>2, <3>2 DEF TypeOK
      <4> QED
        BY <4>1 DEF Placed, Op
    <3> QED
      BY <3>1, <3>2
  <2> QED
    BY <2>1, <2>3
<1>8. ASSUME NEW c \in Calls, InsertAudit(c) \/ LoseAudit(c)
      PROVE  TypeInv'
  BY <1>8 DEF InsertAudit, LoseAudit, TypeOK, Placed, Op, database, transaction, own, work
<1>9. ASSUME NEW t \in Tenants, Remove(t)
      PROVE  TypeInv'
  <2>1. tenant' \in [Tenants -> Rows]
    <3>0. tenant[t] \in Rows
      BY DEF TypeOK
    <3>1. [tenant[t] EXCEPT !.state = "removed"] \in Rows
      BY <3>0 DEF Rows
    <3>2. tenant' = [tenant EXCEPT ![t] = [tenant[t] EXCEPT !.state = "removed"]]
      BY <1>9 DEF Remove, TypeOK, Rows
    <3> QED
      BY <3>1, <3>2 DEF TypeOK
  <2> QED
    BY <1>9, <2>1 DEF Remove, TypeOK, Placed, Op, transaction, own, work, audit
<1>10. CASE Done
  BY <1>0, <1>10 DEF Done
<1>11. ASSUME NEW c \in Calls, CompareTenant(c) \/ UpdateTenant(c)
       PROVE  TypeInv'
  <2>1. /\ Op(c) = "update" /\ request[c] \in Inputs /\ request[c].tenant \in Tenants
        /\ found[c] \in Domains
    BY <1>11, InputFields DEF CompareTenant, UpdateTenant, Placed, Op
  <2>2. Wanted(c) \in Domains /\ UpdatedRow(c) \in Rows
    <3>1. Wanted(c) \in Domains
      BY <2>1, InputFields DEF Wanted, Op
    <3> QED
      BY <2>1, <3>1 DEF UpdatedRow, TypeOK, Rows
  <2>3. Differing(c) \in SUBSET {"domain", "mark"}
    BY DEF Differing
  <2>4. /\ UNCHANGED <<accounts, settings, writer, inserted, unbegun, own, found, audit>>
        /\ tenant' \in [Tenants -> Rows]
        /\ namer' \in [Tenants -> Calls \cup {Nobody}]
        /\ diff' \in [Calls -> SUBSET {"domain", "mark"}]
        /\ held' \in SUBSET Calls
        /\ committed' \in SUBSET Calls
        /\ outcome' \in [Calls -> Final]
        /\ \E label \in {"409", "answering", "updating"} : pc' = [pc EXCEPT ![c] = label]
    <3>1. CASE CompareTenant(c)
      BY <2>3, <3>1 DEF CompareTenant, Finish, Goto, TypeOK, Final
    <3>2. CASE UpdateTenant(c)
      <4>1. /\ UNCHANGED <<accounts, settings, writer, inserted, unbegun, own, found,
                           diff, audit>>
            /\ held' = held \ {c}
            /\ \/ tenant' = tenant
               \/ tenant' = [tenant EXCEPT ![request[c].tenant] = UpdatedRow(c)]
            /\ namer' = namer \/ namer' = [namer EXCEPT ![request[c].tenant] = c]
            /\ committed' = committed \/ committed' = committed \cup {c}
            /\ outcome' = outcome \/ outcome' = [outcome EXCEPT ![c] = "200"]
            /\ pc' = [pc EXCEPT ![c] = "409"] \/ pc' = [pc EXCEPT ![c] = "answering"]
        BY <3>2 DEF UpdateTenant, Finish, Goto
      <4>2. tenant' \in [Tenants -> Rows]
        BY <2>2, <4>1 DEF TypeOK
      <4>3. namer' \in [Tenants -> Calls \cup {Nobody}] /\ outcome' \in [Calls -> Final]
        BY <4>1 DEF TypeOK, Final
      <4> QED
        BY <4>1, <4>2, <4>3 DEF TypeOK
    <3> QED
      BY <1>11, <3>1, <3>2
  <2>5. TypeOK'
    BY <2>4 DEF TypeOK, own, audit, Awaiting, Saving, Final
  <2> QED
    BY <2>1, <2>4, <2>5 DEF Placed, Op, own, InTry, TypeOK
<1> QED
  BY <1>0, <1>1, <1>2, <1>3, <1>4, <1>5, <1>6, <1>7, <1>8, <1>9, <1>10, <1>11
     DEF Next, Step, Event

\* The type invariant.
THEOREM AdministrationTypes == Spec => []TypeOK
<1>1. TypeInv => TypeOK
  BY DEF TypeInv
<1> QED
  BY <1>1, TypeInit, TypeStep, PTL DEF Spec

-----------------------------------------------------------------------------
(* Connections.                                                            *)

\* Where a call holds a connection
Holding == {"beginning", "rollingBack", "releasing"} \cup InTry \cup Saving

HeldInv == \A c \in held : c \in unbegun \/ pc[c] \in Holding

LEMMA HeldStep ==
    ASSUME TypeInv, HeldInv, [Next]_vars
    PROVE  HeldInv'
<1> USE DEF TypeInv, HeldInv, Goto, Finish, TypeOK
<1>1. CASE UNCHANGED vars \/ Done
  BY <1>1 DEF vars, Done
<1>2. ASSUME NEW c \in Calls, NEW in \in Inputs, Receive(c, in)
      PROVE  HeldInv'
  BY <1>2 DEF Receive, transaction, Holding, InTry, Saving
<1>3. ASSUME NEW c \in Calls,
             PoolTimeout(c) \/ CheckEmail(c) \/ InsertUser(c)
             \/ FindSettings(c) \/ FindTenant(c) \/ Answer(c)
      PROVE  HeldInv'
  BY <1>3 DEF PoolTimeout, CheckEmail, InsertUser, FindSettings, FindTenant, Answer,
              transaction, Holding, InTry, Autocommitted, Saving
<1>4. ASSUME NEW c \in Calls,
             Connect(c) \/ Create(c) \/ Begin(c) \/ BeginFails(c) \/ CheckDomain(c)
             \/ InsertTenant(c) \/ CheckAdmin(c) \/ InsertAdmin(c) \/ InsertSettings(c)
      PROVE  HeldInv'
  BY <1>4 DEF Connect, Create, Begin, BeginFails, CheckDomain, InsertTenant, CheckAdmin,
              InsertAdmin, InsertSettings, transaction, Holding, InTry, Saving
<1>5. ASSUME NEW c \in Calls,
             Commit(c) \/ StatementFails(c) \/ Rollback(c) \/ Release(c)
             \/ PlanSettings(c) \/ WriteSettings(c) \/ InsertAlone(c)
             \/ CompareTenant(c) \/ UpdateTenant(c) \/ Fail(c) \/ Crash(c)
      PROVE  HeldInv'
  <2>1. CASE Commit(c)
    BY <2>1, SMTT(30) DEF Commit, transaction, Holding, InTry, Saving
  <2>2. CASE StatementFails(c) \/ Rollback(c)
    BY <2>2 DEF StatementFails, Rollback, transaction, Holding, InTry, Saving
  <2>3. CASE Release(c)
    BY <2>3 DEF Release, Released, Holding, InTry, Saving
  <2>4. CASE PlanSettings(c)
    BY <2>4 DEF PlanSettings, Holding, InTry, Saving
  <2>5. CASE WriteSettings(c)
    BY <2>5 DEF WriteSettings, Holding, InTry, Saving
  <2>6. CASE Fail(c) \/ Crash(c)
    BY <2>6 DEF Fail, Crash, Holding, InTry, Saving
  <2>7. CASE InsertAlone(c)
    BY <2>7 DEF InsertAlone, Holding, InTry, Saving
  <2>8. CASE CompareTenant(c)
    BY <2>8 DEF CompareTenant, Holding, InTry, Saving
  <2>9. CASE UpdateTenant(c)
    BY <2>9 DEF UpdateTenant, Holding, InTry, Saving
  <2> QED
    BY <1>5, <2>1, <2>2, <2>3, <2>4, <2>5, <2>6, <2>7, <2>8, <2>9
<1>6. ASSUME NEW c \in Calls, InsertAudit(c) \/ LoseAudit(c)
      PROVE  HeldInv'
  BY <1>6 DEF InsertAudit, LoseAudit, transaction
<1>7. ASSUME NEW t \in Tenants, Remove(t)
      PROVE  HeldInv'
  BY <1>7 DEF Remove, transaction
<1> QED
  BY <1>1, <1>2, <1>3, <1>4, <1>5, <1>6, <1>7 DEF Next, Step, Event

\* A connection that a finished call still holds was lost to a failed BEGIN.
THEOREM OnlyFailedBeginsKeepConnections == Spec => []ConnectionsComeBack
<1>1. HeldInv => ConnectionsComeBack
  BY DEF HeldInv, ConnectionsComeBack, Holding, InTry, Saving, Final
<1>2. Init => HeldInv
  BY DEF Init, HeldInv
<1> QED
  BY <1>1, <1>2, TypeInit, TypeStep, HeldStep, PTL DEF Spec

-----------------------------------------------------------------------------
(* What has been seen.                                                     *)

\* What is so of a call that is under way has been seen.
SightsInv ==
    \A c \in Calls :
        pc[c] \in Awaiting =>
            /\ Shown(c) \subseteq sights[c]
            /\ Op(c) # "configure" /\ Rivalled(c) => "rival" \in sights[c]

\* A step watches, and forgets nothing.
LEMMA Watching ==
    ASSUME TypeInv, [Next]_vars
    PROVE  /\ UNCHANGED vars \/ Watch
           /\ \A c \in Calls : sights[c] \subseteq sights'[c]
<1>1. UNCHANGED vars \/ Watch
  BY DEF Next, Step, Event, Done
<1> QED
  BY <1>1 DEF Watch, vars

LEMMA SightsStep ==
    ASSUME TypeInv, SightsInv, [Next]_vars
    PROVE  SightsInv'
<1>1. CASE UNCHANGED vars
  BY <1>1 DEF vars, SightsInv, Shown, Rivalled, DomainTaken, Target, Wanted, Account, Op
<1>2. CASE Watch
  <2>1. ASSUME NEW c \in Calls, pc'[c] \in Awaiting
        PROVE  /\ Shown(c)' \subseteq sights'[c]
               /\ Op(c)' # "configure" /\ Rivalled(c)' => "rival" \in sights'[c]
    <3>1. sights'[c] = sights[c] \cup Shown(c)'
             \cup IF Op(c)' # "configure" /\ Rivalled(c)' THEN {"rival"} ELSE {}
      BY <1>2, <2>1 DEF Watch
    <3> QED
      BY <3>1
  <2> QED
    BY <2>1 DEF SightsInv
<1> QED
  BY <1>1, <1>2, Watching

LEMMA SightsInit == Init => SightsInv
BY DEF Init, SightsInv, Awaiting, InTry, Autocommitted, Saving

-----------------------------------------------------------------------------
(* Rows and answers.                                                       *)

\* A new row is there because its call has committed; and without it there
\* are no settings and no accounts, which only requests to a tenant that is
\* there can make.
Rooted(c) ==
    /\ tenant[c].state # "none" =>
          c \in committed /\ Op(c) \in {"provision", "create"}
    /\ tenant[c].state = "none" => Nothing(c)
    /\ pc[c] # "idle" /\ Op(c) \in {"update", "register", "invite", "configure"} =>
          tenant[request[c].tenant].state # "none"

\* What c has committed, it has wholly.
Settled(c) ==
    c \in committed =>
        /\ pc[c] \in {"rollingBack", "releasing", "answering", "200", "201", "500", "dropped"}
        /\ Op(c) = "provision" => Whole(c)
        /\ Op(c) = "create" => tenant[c].state # "none"
        /\ Op(c) \in {"register", "invite"} => accounts[Account(c)] = c
        /\ ~OfSuperAdmin(c)

\* What the transaction of c has inserted
Staged(c) ==
    /\ pc[c] \in {"idle", "connecting", "beginning", "checkingDomain", "insertingTenant"} =>
          inserted[c] = {}
    /\ pc[c] \in {"checkingAdmin", "insertingAdmin"} => inserted[c] = {"tenant"}
    /\ pc[c] = "insertingSettings" => inserted[c] = {"tenant", "admin"}
    /\ pc[c] = "committing" => inserted[c] = {"tenant", "admin", "settings"}

\* What c answers, or is about to
Grounded(c) ==
    /\ pc[c] = "rollingBack" =>
          /\ outcome[c] \in {"400", "409", "500"}
          /\ c \in committed => outcome[c] = "500"
          /\ outcome[c] \in {"400", "409"} => "rival" \in sights[c]
    /\ pc[c] = "releasing" =>
          /\ outcome[c] \in {"201", "400", "409", "500"}
          /\ outcome[c] = "201" => c \in committed
          /\ c \in committed => outcome[c] \in {"201", "500"}
          /\ outcome[c] \in {"400", "409"} => "rival" \in sights[c]
    /\ pc[c] = "answering" => c \in committed /\ outcome[c] \in {"200", "201"}
    /\ pc[c] \in {"200", "201"} => c \in committed
    /\ pc[c] \in {"400", "409"} => "rival" \in sights[c] \/ OfSuperAdmin(c)
    /\ pc[c] \in {"planning", "writing"} => settings[request[c].tenant] # NoSettings
    /\ pc[c] = "404" => "nothing" \in sights[c]
    /\ pc[c] = "insertingUser" => ~OfSuperAdmin(c)

\* An account is there because its call has committed.
Owned == \A a \in Accounts : accounts[a] \in committed \cup {Nobody}

CallInv(c) == Rooted(c) /\ Settled(c) /\ Staged(c) /\ Grounded(c)

RowInv == Owned /\ \A c \in Calls : CallInv(c)

\* Rows, accounts and settings stay once they are there, and the domain of a
\* row unless it is updated; settings come only with their tenant.
Grown ==
    /\ \A t \in Tenants :
          /\ tenant[t].state # "none" => tenant'[t].state # "none"
          /\ tenant[t].state # "none" /\ namer'[t] = Nobody =>
                namer[t] = Nobody /\ tenant'[t].domain = tenant[t].domain
          /\ settings[t] # NoSettings => settings'[t] # NoSettings
          /\ settings[t] = NoSettings /\ tenant[t].state # "none" =>
                settings'[t] = NoSettings
    /\ \A a \in Accounts : accounts[a] # Nobody => accounts'[a] = accounts[a]

\* What a step that writes to the tables does to them
LEMMA TableSteps ==
    ASSUME TypeInv, RowInv, NEW c \in Calls,
           Commit(c) \/ InsertAlone(c) \/ InsertUser(c) \/ WriteSettings(c)
    PROVE  /\ Grown
           /\ \A t \in Tenants \ {c} : tenant'[t] = tenant[t]
           /\ \A d \in Calls \ {c} :
                 tenant[d].state = "none" =>
                     /\ settings'[d] = settings[d]
                     /\ \A e \in Emails : accounts'[<<d, e>>] = accounts[<<d, e>>]
<1> USE DEF TypeInv, RowInv, CallInv
<1>0. c \in Tenants
  BY DEF Tenants
<1>1. CASE Commit(c)
  <2>1. /\ request[c] \in Inputs /\ Op(c) = "provision" /\ c \notin committed
        /\ request[c].email \in Emails
    BY <1>1, InputFields DEF Commit, Placed, Settled, InTry, Op
  <2>2. tenant[c].state = "none" /\ settings[c] = NoSettings
        /\ \A e \in Emails : accounts[<<c, e>>] = Nobody
    BY <2>1 DEF Rooted, Nothing
  <2>3. /\ namer' = namer
        /\ \A t \in Tenants \ {c} : tenant'[t] = tenant[t] /\ settings'[t] = settings[t]
    BY <1>1 DEF Commit, TypeOK
  <2>4. \A a \in Accounts : a # <<c, request[c].email>> => accounts'[a] = accounts[a]
    BY <1>1 DEF Commit, TypeOK
  <2>5. \A d \in Calls \ {c}, e \in Emails :
           <<d, e>> \in Accounts /\ <<d, e>> # <<c, request[c].email>>
    BY DEF Accounts, Tenants
  <2>6. Grown
    BY <2>1, <2>2, <2>3, <2>4 DEF Grown
  <2> QED
    BY <2>3, <2>4, <2>5, <2>6 DEF Tenants
<1>2. CASE InsertAlone(c)
  <2>1. c \notin committed /\ Op(c) = "create"
    BY <1>2 DEF InsertAlone, Placed, Settled
  <2>2. tenant[c].state = "none"
    BY <2>1 DEF Rooted
  <2>3. \A t \in Tenants \ {c} : tenant'[t] = tenant[t]
    BY <1>2 DEF InsertAlone, TypeOK
  <2>4. UNCHANGED <<accounts, settings, namer>>
    BY <1>2 DEF InsertAlone
  <2> QED
    BY <2>2, <2>3, <2>4 DEF Grown
<1>3. CASE InsertUser(c)
  <2>1. /\ request[c] \in Inputs /\ Op(c) \in {"register", "invite"}
        /\ request[c].tenant \in Tenants /\ request[c].email \in Emails
    BY <1>3, InputFields DEF InsertUser, Placed, Op
  <2>2. tenant[request[c].tenant].state # "none"
    BY <1>3, <2>1 DEF InsertUser, Rooted
  <2>3. UNCHANGED <<tenant, settings, namer>>
    BY <1>3 DEF InsertUser
  <2>4. Account(c) \in Accounts
    BY <2>1 DEF Account, Accounts
  <2>5. \A a \in Accounts :
           \/ accounts'[a] = accounts[a]
           \/ (a = Account(c) /\ accounts[a] = Nobody)
    <3>1. CASE accounts[Account(c)] # Nobody
      BY <1>3, <3>1 DEF InsertUser
    <3>2. CASE accounts[Account(c)] = Nobody
      <4>1. accounts' = [accounts EXCEPT ![Account(c)] = c]
        BY <1>3, <3>2 DEF InsertUser
      <4> QED
        BY <2>4, <3>2, <4>1 DEF TypeOK
    <3> QED
      BY <3>1, <3>2
  <2>6. \A d \in Calls, e \in Emails :
           tenant[d].state = "none" => <<d, e>> \in Accounts /\ <<d, e>> # Account(c)
    BY <2>2 DEF Account, Accounts, Tenants
  <2> QED
    BY <2>3, <2>5, <2>6 DEF Grown
<1>4. CASE WriteSettings(c)
  <2>1. /\ request[c] \in Inputs /\ Op(c) = "configure"
        /\ request[c].tenant \in Tenants /\ request[c].patch \in Patches
        /\ found[c] \in Configs
    BY <1>4, InputFields DEF WriteSettings, Placed, Op
  <2>2. /\ tenant[request[c].tenant].state # "none"
        /\ settings[request[c].tenant] # NoSettings
    BY <1>4, <2>1 DEF WriteSettings, Rooted, Grounded
  <2>3. Merged(c) # NoSettings
    BY <2>1, MergedType, AdministrationAssumption
  <2>4. UNCHANGED <<tenant, accounts, namer>>
    BY <1>4 DEF WriteSettings
  <2>5. \A t \in Tenants : settings'[t] = IF t = request[c].tenant THEN Merged(c)
                                                               ELSE settings[t]
    BY <1>4 DEF WriteSettings, TypeOK
  <2> QED
    BY <2>2, <2>3, <2>4, <2>5 DEF Grown, Tenants
<1> QED
  BY <1>1, <1>2, <1>3, <1>4

\* What has grown bears out what it bore out.
LEMMA GrowthKeeps ==
    ASSUME TypeInv, Grown, request' = request, NEW c \in Calls, request[c] \in Inputs
    PROVE  /\ Op(c) = "provision" /\ Whole(c) => Whole(c)'
           /\ Op(c) \in {"register", "invite"} /\ accounts[Account(c)] = c =>
                 accounts'[Account(c)] = c
<1> USE DEF TypeInv
<1>0. c \in Tenants /\ c # Nobody
  BY AdministrationAssumption DEF Tenants
<1>1. ASSUME Op(c) = "provision", Whole(c)
      PROVE  Whole(c)'
  <2>1. <<c, request[c].email>> \in Accounts
    BY <1>0, <1>1, InputFields DEF Accounts, Op
  <2> QED
    BY <1>0, <1>1, <2>1 DEF Whole, Grown
<1>2. ASSUME Op(c) \in {"register", "invite"}
      PROVE  Account(c) \in Accounts
  BY <1>2, InputFields DEF Accounts, Account, Op
<1>3. ASSUME Op(c) \in {"register", "invite"}, accounts[Account(c)] = c
      PROVE  accounts'[Account(c)] = c
  BY <1>0, <1>2, <1>3 DEF Grown
<1> QED
  BY <1>1, <1>3

\* A call whose own row a step does not make, and which does not move
LEMMA OthersKeep ==
    ASSUME TypeInv, RowInv, Grown, request' = request, NEW d \in Calls,
           pc'[d] = pc[d], outcome'[d] = outcome[d], inserted'[d] = inserted[d],
           sights[d] \subseteq sights'[d],
           d \in committed' <=> d \in committed,
           tenant'[d].state = "none" <=> tenant[d].state = "none",
           tenant[d].state = "none" =>
               /\ settings'[d] = settings[d]
               /\ \A e \in Emails : accounts'[<<d, e>>] = accounts[<<d, e>>]
    PROVE  CallInv(d)'
<1> USE DEF TypeInv, RowInv, CallInv
<1>0. d \in Tenants /\ (pc[d] # "idle" => request[d] \in Inputs)
  BY DEF Tenants, Placed
<1>1. /\ Op(d)' = Op(d) /\ OfSuperAdmin(d)' = OfSuperAdmin(d)
      /\ Op(d) \in {"update", "register", "invite", "configure"} /\ pc[d] # "idle" =>
            request[d].tenant \in Tenants
  BY <1>0, InputFields DEF Op, OfSuperAdmin
<1>2. Rooted(d)'
  BY <1>0, <1>1 DEF Rooted, Nothing, Grown
<1>3. Settled(d)'
  <2> SUFFICES ASSUME d \in committed
               PROVE  Settled(d)'
    BY DEF Settled
  <2>1. request[d] \in Inputs
    BY <1>0 DEF Settled
  <2>2. Account(d)' = Account(d)
    BY DEF Account
  <2> QED
    BY <1>1, <2>1, <2>2, GrowthKeeps DEF Settled
<1>4. Staged(d)'
  BY DEF Staged
<1>5. Grounded(d)'
  <2>1. pc[d] \in {"planning", "writing"} => settings'[request[d].tenant] # NoSettings
    BY <1>1 DEF Placed, Grounded, Grown
  <2> QED
    BY <1>1, <2>1 DEF Grounded
<1> QED
  BY <1>2, <1>3, <1>4, <1>5 DEF CallInv

\* Steps of c that leave the tables alone
Quiet(c) ==
    \/ PoolTimeout(c) \/ Connect(c) \/ Begin(c) \/ BeginFails(c) \/ CheckDomain(c)
    \/ InsertTenant(c) \/ CheckAdmin(c) \/ InsertAdmin(c) \/ InsertSettings(c)
    \/ StatementFails(c) \/ Rollback(c) \/ Release(c) \/ Create(c)
    \/ FindTenant(c) \/ CompareTenant(c) \/ CheckEmail(c) \/ FindSettings(c) \/ PlanSettings(c) \/ Answer(c)
    \/ Fail(c) \/ Crash(c) \/ InsertAudit(c) \/ LoseAudit(c)

LEMMA QuietSteps ==
    ASSUME TypeInv, NEW c \in Calls, Quiet(c)
    PROVE  /\ UNCHANGED <<tenant, accounts, settings, namer, request, before>>
           /\ \A d \in Calls \ {c} :
                 /\ pc'[d] = pc[d] /\ outcome'[d] = outcome[d] /\ inserted'[d] = inserted[d]
                 /\ d \in committed' <=> d \in committed
           /\ c \in committed' =>
                 \/ c \in committed
                 \/ Op(c) \in {"configure", "update"} /\ pc'[c] = "answering"
<1> USE DEF TypeInv, TypeOK, Goto, Finish, database, transaction, own, work
<1>1. CASE PoolTimeout(c) \/ Connect(c) \/ Begin(c) \/ BeginFails(c) \/ CheckDomain(c)
  BY <1>1 DEF PoolTimeout, Connect, Begin, BeginFails, CheckDomain
<1>2. CASE InsertTenant(c) \/ CheckAdmin(c) \/ InsertAdmin(c) \/ InsertSettings(c)
  BY <1>2 DEF InsertTenant, CheckAdmin, InsertAdmin, InsertSettings
<1>3. CASE StatementFails(c) \/ Rollback(c) \/ Release(c) \/ CheckEmail(c)
  BY <1>3 DEF StatementFails, Rollback, Release, CheckEmail
<1>4. CASE FindSettings(c) \/ Answer(c) \/ Fail(c) \/ Crash(c)
           \/ InsertAudit(c) \/ LoseAudit(c)
  BY <1>4 DEF FindSettings, Answer, Fail, Crash, InsertAudit, LoseAudit
<1>5. CASE PlanSettings(c)
  BY <1>5 DEF PlanSettings, Placed
<1>6. CASE CompareTenant(c)
  BY <1>6 DEF CompareTenant, Placed
<1>7. CASE Create(c) \/ FindTenant(c)
  BY <1>7 DEF Create, FindTenant
<1> QED
  BY <1>1, <1>2, <1>3, <1>4, <1>5, <1>6, <1>7 DEF Quiet

LEMMA QuietKeeps ==
    ASSUME TypeInv, NEW c \in Calls, Quiet(c)
    PROVE  committed \subseteq committed' /\ (pc[c] # "idle" \/ pc'[c] = "idle")
<1> USE DEF TypeInv, TypeOK
<1>1. committed \subseteq committed'
  BY DEF Quiet, PoolTimeout, Connect, Begin, BeginFails, CheckDomain, InsertTenant,
         CheckAdmin, InsertAdmin, InsertSettings, StatementFails, Rollback, Release,
         Create, FindTenant, CompareTenant, CheckEmail, FindSettings, PlanSettings,
         Answer, Fail, Crash, InsertAudit, LoseAudit, database
<1>2. pc[c] # "idle" \/ pc'[c] = "idle"
  BY DEF Quiet, PoolTimeout, Connect, Begin, BeginFails, CheckDomain, InsertTenant,
         CheckAdmin, InsertAdmin, InsertSettings, StatementFails, Rollback, Release,
         Create, FindTenant, CompareTenant, CheckEmail, FindSettings, PlanSettings,
         Answer, Fail, Crash, InsertAudit, LoseAudit, InTry, Autocommitted, Saving,
         Awaiting
<1> QED
  BY <1>1, <1>2

LEMMA QuietMoves ==
    ASSUME TypeInv, RowInv, SightsInv, NEW c \in Calls, Quiet(c),
           sights[c] \subseteq sights'[c]
    PROVE  CallInv(c)'
<1> USE DEF TypeInv, RowInv, CallInv
<1>1. UNCHANGED <<tenant, accounts, settings, namer, request>>
  BY QuietSteps
<1>2. /\ Op(c)' = Op(c) /\ Account(c)' = Account(c) /\ OfSuperAdmin(c)' = OfSuperAdmin(c)
      /\ Whole(c)' = Whole(c) /\ Nothing(c)' = Nothing(c)
  BY <1>1 DEF Op, Account, OfSuperAdmin, Whole, Nothing
<1>3. c \in committed' =>
         \/ c \in committed
         \/ Op(c) \in {"configure", "update"} /\ pc'[c] = "answering"
  BY QuietSteps
<1>4. c \in committed => c \in committed'
  BY QuietKeeps
<1>5. pc[c] # "idle" \/ pc'[c] = "idle"
  BY QuietKeeps
<1>6. Rooted(c)'
  BY <1>1, <1>2, <1>3, <1>4, <1>5 DEF Rooted
<1>7. pc[c] \in Awaiting =>
         /\ Shown(c) \subseteq sights'[c]
         /\ Op(c) # "configure" /\ Rivalled(c) => "rival" \in sights'[c]
  BY DEF SightsInv
<1>8. Settled(c)' /\ Staged(c)' /\ Grounded(c)'
  <2> USE DEF TypeOK, Goto, Finish, Settled, Staged, Grounded, database, transaction, own,
              work
  <2>1. CASE PoolTimeout(c) \/ Connect(c) \/ Begin(c) \/ BeginFails(c) \/ Create(c)
    BY <1>1, <1>2, <2>1 DEF PoolTimeout, Connect, Begin, BeginFails, Create, Autocommitted
  <2>2. CASE CheckDomain(c)
    <3>1. Op(c) = "provision" /\ c \notin committed /\ request[c] \in Inputs
      BY <2>2 DEF CheckDomain, Placed, InTry
    <3>2. request[c].domain \in Domains
      BY <3>1, InputFields DEF Op
    <3>3. DomainShown(request[c].domain) => Rivalled(c)
      BY <3>1, <3>2, AdministrationAssumption
         DEF DomainShown, Rivalled, DomainTaken, Target, Wanted, Rooted
    <3>4. DomainShown(request[c].domain) => "rival" \in sights'[c]
      BY <1>7, <2>2, <3>1, <3>3 DEF CheckDomain, Awaiting, InTry
    <3> QED
      BY <1>1, <1>2, <2>2, <3>1, <3>4 DEF CheckDomain
  <2>3. CASE InsertTenant(c)
    <3>1. Op(c) = "provision" /\ c \notin committed
      BY <2>3 DEF InsertTenant, Placed, InTry
    <3>2. DomainTaken(c) => "rival" \in sights'[c]
      BY <1>7, <2>3, <3>1 DEF InsertTenant, Rivalled, Awaiting, InTry
    <3>3. inserted[c] = {}
      BY <2>3 DEF InsertTenant
    <3> QED
      BY <1>1, <1>2, <2>3, <3>1, <3>2, <3>3 DEF InsertTenant
  <2>4. CASE CheckAdmin(c) \/ InsertAdmin(c) \/ InsertSettings(c) \/ StatementFails(c)
    BY <1>1, <1>2, <2>4 DEF CheckAdmin, InsertAdmin, InsertSettings, SettingsSaved,
                            StatementFails, InTry
  <2>5. CASE Rollback(c) \/ Release(c)
    BY <1>1, <1>2, <2>5 DEF Rollback, Release, Placed
  <2>6. CASE CheckEmail(c)
    <3>1. Op(c) \in {"register", "invite"} /\ c \notin committed
      BY <2>6 DEF CheckEmail, Placed
    <3>2. request[c] \in Inputs /\ Account(c) \in Accounts
      BY <2>6, <3>1, InputFields DEF CheckEmail, Placed, Account, Accounts, Op
    <3>3. accounts[Account(c)] # Nobody => Rivalled(c)
      BY <3>1, <3>2 DEF Owned, Rivalled
    <3>4. accounts[Account(c)] # Nobody => "rival" \in sights'[c]
      BY <1>7, <2>6, <3>1, <3>3 DEF CheckEmail, Awaiting, Autocommitted
    <3> QED
      BY <1>1, <1>2, <2>6, <3>1, <3>4 DEF CheckEmail
  <2>7. CASE FindSettings(c) \/ FindTenant(c)
    <3>1. \/ pc[c] = "finding" /\ Op(c) = "configure"
          \/ pc[c] = "findingTenant" /\ Op(c) = "update"
      BY <2>7 DEF FindSettings, FindTenant, Placed
    <3>2. Shown(c) \subseteq sights'[c]
      BY <1>7, <3>1 DEF Awaiting, Autocommitted
    <3>3. pc'[c] = "404" => "nothing" \in Shown(c)
      BY <2>7, <3>1 DEF FindSettings, FindTenant, Shown
    <3> QED
      BY <1>1, <1>2, <2>7, <3>1, <3>2, <3>3 DEF FindSettings, FindTenant
  <2>8. CASE PlanSettings(c) \/ CompareTenant(c)
    <3>1. \/ pc[c] = "planning" /\ Op(c) = "configure"
          \/ pc[c] = "comparing" /\ Op(c) = "update"
      BY <2>8 DEF PlanSettings, CompareTenant, Placed
    <3> QED
      BY <1>1, <1>2, <2>8, <3>1 DEF PlanSettings, CompareTenant, OfSuperAdmin
  <2>9. CASE Answer(c) \/ Fail(c) \/ Crash(c) \/ InsertAudit(c) \/ LoseAudit(c)
    BY <1>1, <1>2, <2>9 DEF Answer, Fail, Crash, InsertAudit, LoseAudit, Autocommitted,
                            Saving
  <2> QED
    BY <2>1, <2>2, <2>3, <2>4, <2>5, <2>6, <2>7, <2>8, <2>9 DEF Quiet
<1> QED
  BY <1>6, <1>8

LEMMA RowInit ==
    ASSUME Init
    PROVE  RowInv
<1>1. \A c \in Calls : tenant[c].state = "none"
  BY AdministrationAssumption DEF Init, Tenants
<1>2. \A c \in Calls : Nothing(c)
  BY <1>1, AdministrationAssumption DEF Init, Nothing, Tenants, Accounts
<1> QED
  BY <1>1, <1>2 DEF Init, RowInv, Owned, CallInv, Rooted, Settled, Staged, Grounded

\* The call that has written to a table
LEMMA WriterMoves ==
    ASSUME TypeInv, RowInv, SightsInv, Grown, NEW c \in Calls,
           sights[c] \subseteq sights'[c],
           Commit(c) \/ InsertAlone(c) \/ InsertUser(c) \/ WriteSettings(c)
    PROVE  CallInv(c)' /\ Owned'
<1> USE DEF TypeInv, RowInv, CallInv
<1>0. c \in Tenants /\ c # Nobody
  BY AdministrationAssumption DEF Tenants
<1>a. pc[c] \in Awaiting /\ Op(c) # "configure" /\ Rivalled(c) => "rival" \in sights'[c]
  BY DEF SightsInv
<1>1. CASE Commit(c)
  <2>1. /\ request[c] \in Inputs /\ Op(c) = "provision" /\ c \notin committed
        /\ request[c].email \in Emails
        /\ inserted[c] = {"tenant", "admin", "settings"}
    BY <1>1, InputFields DEF Commit, Placed, Settled, Staged, InTry, Op
  <2>2. <<c, request[c].email>> \in Accounts
    BY <1>0, <2>1 DEF Accounts
  <2>3. /\ tenant' = [tenant EXCEPT ![c] = NewRow(c)]
        /\ accounts' = [accounts EXCEPT ![<<c, request[c].email>>] = c]
        /\ settings' = [settings EXCEPT ![c] = Defaults]
        /\ inserted' = [inserted EXCEPT ![c] = {}]
        /\ committed' = committed \cup {c}
        /\ request' = request
    BY <1>1, <2>1 DEF Commit, own
  <2>4. Whole(c)' /\ Op(c)' = "provision"
    BY <1>0, <2>1, <2>2, <2>3, AdministrationAssumption DEF Whole, NewRow, TypeOK, Op
  <2>5. Rooted(c)'
    BY <2>3, <2>4 DEF Rooted, Whole
  <2>6. Settled(c)' /\ Staged(c)' /\ Grounded(c)'
    BY <1>1, <2>3, <2>4
       DEF Commit, Finish, Goto, TypeOK, Settled, Staged, Grounded, OfSuperAdmin
  <2>7. Owned'
    BY <2>2, <2>3 DEF Owned, TypeOK
  <2> QED
    BY <2>5, <2>6, <2>7
<1>2. CASE InsertAlone(c)
  <2>1. /\ request[c] \in Inputs /\ Op(c) = "create" /\ c \notin committed
        /\ pc[c] # "idle"
    BY <1>2 DEF InsertAlone, Placed, Settled
  <2>2. /\ UNCHANGED <<accounts, settings, inserted, request>>
        /\ Op(c)' = Op(c) /\ OfSuperAdmin(c)' = OfSuperAdmin(c)
    BY <1>2 DEF InsertAlone, own, Op, OfSuperAdmin
  <2>3. CASE DomainTaken(c)
    <3>1. /\ UNCHANGED <<tenant, committed, outcome>>
          /\ pc' = [pc EXCEPT ![c] = "409"]
      BY <1>2, <2>3 DEF InsertAlone, Goto
    <3>2. "rival" \in sights'[c]
      BY <1>2, <1>a, <2>1, <2>3 DEF InsertAlone, Rivalled, Awaiting, Saving
    <3>3. Nothing(c)' = Nothing(c)
      BY <2>2, <3>1 DEF Nothing
    <3>4. Owned'
      BY <2>2, <3>1 DEF Owned
    <3> QED
      BY <2>1, <2>2, <3>1, <3>2, <3>3, <3>4 DEF TypeOK, Rooted, Settled, Staged, Grounded
  <2>4. CASE ~DomainTaken(c)
    <3>1. /\ tenant' = [tenant EXCEPT ![c] = NewRow(c)]
          /\ committed' = committed \cup {c}
          /\ pc' = [pc EXCEPT ![c] = "answering"]
          /\ outcome' = [outcome EXCEPT ![c] = "201"]
      BY <1>2, <2>4 DEF InsertAlone, Finish, Goto
    <3>2. tenant'[c] = NewRow(c)
      BY <1>0, <3>1 DEF TypeOK
    <3>3. Rooted(c)'
      BY <2>1, <2>2, <3>1, <3>2 DEF Rooted, NewRow
    <3>4. Settled(c)' /\ Staged(c)' /\ Grounded(c)'
      BY <2>1, <2>2, <3>1, <3>2
         DEF TypeOK, Settled, Staged, Grounded, NewRow, OfSuperAdmin
    <3>5. Owned'
      BY <2>2, <3>1 DEF Owned
    <3> QED
      BY <3>3, <3>4, <3>5
  <2> QED
    BY <2>3, <2>4
<1>3. CASE InsertUser(c)
  <2>1. /\ request[c] \in Inputs /\ Op(c) \in {"register", "invite"} /\ c \notin committed
        /\ pc[c] # "idle" /\ ~OfSuperAdmin(c)
        /\ request[c].tenant \in Tenants
    BY <1>3, InputFields DEF InsertUser, Placed, Settled, Grounded, Op
  <2>2. /\ UNCHANGED <<tenant, settings, inserted, request>>
        /\ Op(c)' = Op(c) /\ Account(c)' = Account(c) /\ OfSuperAdmin(c)' = OfSuperAdmin(c)
    BY <1>3 DEF InsertUser, transaction, own, Op, Account, OfSuperAdmin
  <2>3. Account(c) \in Accounts
    BY <2>1, InputFields DEF Account, Accounts, Op
  <2>4. tenant[c].state = "none" /\ tenant[request[c].tenant].state # "none"
    BY <2>1 DEF Rooted
  <2>5. Account(c)[1] # c
    BY <2>4 DEF Account
  <2>6. CASE accounts[Account(c)] # Nobody
    <3>1. /\ UNCHANGED <<accounts, committed, outcome>>
          /\ pc'[c] \in {"409", "500"}
      BY <1>3, <2>6 DEF InsertUser, Goto, TypeOK
    <3>2. Rivalled(c)
      BY <2>1, <2>3, <2>6 DEF Owned, Rivalled
    <3>3. "rival" \in sights'[c]
      BY <1>3, <1>a, <2>1, <3>2 DEF InsertUser, Awaiting, Autocommitted
    <3>4. Owned' /\ Nothing(c)' = Nothing(c)
      BY <2>2, <3>1 DEF Owned, Nothing
    <3> QED
      BY <2>1, <2>2, <3>1, <3>3, <3>4 DEF Rooted, Settled, Staged, Grounded
  <2>7. CASE accounts[Account(c)] = Nobody
    <3>1. /\ accounts' = [accounts EXCEPT ![Account(c)] = c]
          /\ committed' = committed \cup {c}
          /\ pc'[c] = "answering"
          /\ outcome'[c] = "201"
      BY <1>3, <2>7 DEF InsertUser, Finish, Goto, TypeOK
    <3>2. accounts'[Account(c)] = c
      BY <2>3, <3>1 DEF TypeOK
    <3>3. \A e \in Emails : accounts'[<<c, e>>] = accounts[<<c, e>>]
      BY <1>0, <2>3, <2>5, <3>1 DEF TypeOK, Accounts
    <3>4. Rooted(c)'
      BY <2>1, <2>2, <2>4, <3>1, <3>3 DEF Rooted, Nothing
    <3>5. Settled(c)' /\ Staged(c)' /\ Grounded(c)'
      BY <2>1, <2>2, <3>1, <3>2 DEF Settled, Staged, Grounded
    <3>6. Owned'
      BY <2>3, <3>1 DEF Owned, TypeOK
    <3> QED
      BY <3>4, <3>5, <3>6
  <2> QED
    BY <2>6, <2>7
<1>4. CASE WriteSettings(c)
  <2>1. /\ request[c] \in Inputs /\ Op(c) = "configure" /\ c \notin committed
        /\ pc[c] # "idle" /\ request[c].tenant \in Tenants
    BY <1>4, InputFields DEF WriteSettings, Placed, Settled, Op
  <2>2. /\ UNCHANGED <<tenant, accounts, inserted, request>> /\ Op(c)' = Op(c)
        /\ committed' = committed \cup {c}
        /\ pc'[c] = "answering" /\ outcome'[c] = "200"
    BY <1>4 DEF WriteSettings, Finish, Goto, own, Op, TypeOK
  <2>3. tenant[c].state = "none" /\ tenant[request[c].tenant].state # "none"
    BY <2>1 DEF Rooted
  <2>4. settings'[c] = settings[c]
    BY <1>0, <1>4, <2>1, <2>3 DEF WriteSettings, TypeOK
  <2>5. Rooted(c)'
    BY <2>1, <2>2, <2>3, <2>4 DEF Rooted, Nothing
  <2>6. Settled(c)' /\ Staged(c)' /\ Grounded(c)' /\ Owned'
    BY <2>1, <2>2 DEF Settled, Staged, Grounded, Owned, OfSuperAdmin
  <2> QED
    BY <2>5, <2>6
<1> QED
  BY <1>1, <1>2, <1>3, <1>4

\* An update changes or brings back the row of a tenant that is there, or was.
LEMMA UpdateKeeps ==
    ASSUME TypeInv, RowInv, SightsInv, NEW c \in Calls, UpdateTenant(c),
           \A d \in Calls : sights[d] \subseteq sights'[d]
    PROVE  RowInv'
<1> USE DEF TypeInv, RowInv, CallInv
<1> DEFINE t == request[c].tenant
<1>1. /\ request[c] \in Inputs /\ Op(c) = "update" /\ pc[c] # "idle" /\ c \notin committed
      /\ t \in Tenants /\ tenant[t].state # "none" /\ c # Nobody /\ c \in Tenants
  BY InputFields, AdministrationAssumption
     DEF UpdateTenant, Placed, Settled, Rooted, Op, Tenants
<1>2. tenant[c].state = "none" /\ c # t
  BY <1>1 DEF Rooted
<1>3. /\ UNCHANGED <<accounts, settings, inserted, request>>
      /\ Op(c)' = Op(c) /\ OfSuperAdmin(c)' = OfSuperAdmin(c)
      /\ \A d \in Calls \ {c} : /\ pc'[d] = pc[d] /\ outcome'[d] = outcome[d]
                                /\ d \in committed' <=> d \in committed
      /\ committed \subseteq committed'
  BY DEF UpdateTenant, Goto, Finish, TypeOK, own, Op, OfSuperAdmin
<1>4. /\ \A d \in Tenants \ {t} : tenant'[d] = tenant[d] /\ namer'[d] = namer[d]
      /\ tenant'[t].state # "none"
      /\ namer'[t] = Nobody => namer[t] = Nobody /\ tenant'[t].domain = tenant[t].domain
  <2>1. CASE UNCHANGED <<tenant, namer>>
    BY <1>1, <2>1
  <2>2. CASE ~UNCHANGED <<tenant, namer>>
    <3>1. /\ tenant' = [tenant EXCEPT ![t] = UpdatedRow(c)]
          /\ namer' = IF UpdatedRow(c).domain # tenant[t].domain
                      THEN [namer EXCEPT ![t] = c] ELSE namer
      BY <2>2 DEF UpdateTenant
    <3>2. UpdatedRow(c).state # "none"
      BY <1>1 DEF UpdatedRow
    <3>3. tenant'[t] = UpdatedRow(c) /\ \A d \in Tenants \ {t} : tenant'[d] = tenant[d]
      BY <1>1, <3>1 DEF TypeOK
    <3> QED
      BY <1>1, <3>1, <3>2, <3>3 DEF TypeOK
  <2> QED
    BY <2>1, <2>2
<1>5. Grown
  BY <1>1, <1>3, <1>4 DEF Grown
<1>6. ASSUME NEW d \in Calls \ {c}
      PROVE  CallInv(d)'
  <2>1. d \in Tenants
    BY DEF Tenants
  <2>2. tenant'[d].state = "none" <=> tenant[d].state = "none"
    BY <1>1, <1>4, <2>1
  <2> QED
    BY <1>3, <1>5, <2>2, OthersKeep
<1>7. Rooted(c)'
  BY <1>1, <1>2, <1>3, <1>4 DEF Rooted, Nothing
<1>8. Settled(c)' /\ Staged(c)' /\ Grounded(c)'
  <2>1. CASE "domain" \in diff[c] /\ DomainTaken(c)
    <3>1. pc'[c] = "409" /\ committed' = committed
      BY <2>1 DEF UpdateTenant, Goto, TypeOK
    <3>2. "rival" \in sights'[c]
      BY <1>1, <2>1 DEF UpdateTenant, SightsInv, Rivalled, Awaiting, Saving
    <3> QED
      BY <1>1, <3>1, <3>2 DEF Settled, Staged, Grounded
  <2>2. CASE ~("domain" \in diff[c] /\ DomainTaken(c))
    <3>1. pc'[c] = "answering" /\ outcome'[c] = "200" /\ c \in committed'
      BY <2>2 DEF UpdateTenant, Finish, Goto, TypeOK
    <3> QED
      BY <1>1, <1>3, <3>1 DEF Settled, Staged, Grounded, OfSuperAdmin
  <2> QED
    BY <2>1, <2>2
<1> QED
  BY <1>3, <1>6, <1>7, <1>8 DEF Owned

LEMMA RowStep ==
    ASSUME TypeInv, RowInv, SightsInv, [Next]_vars
    PROVE  RowInv'
<1> USE DEF TypeInv, RowInv
<1>0. \A d \in Calls : sights[d] \subseteq sights'[d]
  BY Watching
<1>1. CASE UNCHANGED vars \/ Done
  BY <1>1 DEF vars, Done, Owned, CallInv, Rooted, Settled, Staged, Grounded, Whole,
              Nothing, Account, OfSuperAdmin, Op
<1>2. ASSUME NEW c \in Calls, NEW in \in Inputs, Receive(c, in)
      PROVE  RowInv'
  <2>1. /\ UNCHANGED <<tenant, accounts, settings, namer, committed, inserted, outcome>>
        /\ request' = [request EXCEPT ![c] = in]
        /\ \A d \in Calls \ {c} : pc'[d] = pc[d]
        /\ pc[c] = "idle"
        /\ pc'[c] \in {"connecting", "creating", "findingTenant", "checkingEmail", "finding"}
        /\ in.op \in {"update", "register", "invite", "configure"} =>
              tenant[in.tenant].state # "none"
    BY <1>2, InputFields DEF Receive, Goto, TypeOK, database, transaction, work
  <2>2. request'[c] = in /\ \A d \in Calls \ {c} : request'[d] = request[d]
    BY <2>1 DEF TypeOK
  <2>3. c \notin committed /\ tenant[c].state = "none"
    BY <2>1 DEF CallInv, Settled, Rooted
  <2>4. CallInv(c)'
    BY <2>1, <2>2, <2>3 DEF CallInv, Rooted, Settled, Staged, Grounded, Nothing, Op
  <2>5. ASSUME NEW d \in Calls \ {c}
        PROVE  CallInv(d)'
    <3>1. /\ Whole(d)' = Whole(d) /\ Nothing(d)' = Nothing(d)
          /\ Account(d)' = Account(d) /\ Op(d)' = Op(d) /\ OfSuperAdmin(d)' = OfSuperAdmin(d)
      BY <2>1, <2>2 DEF Whole, Nothing, Account, Op, OfSuperAdmin
    <3> QED
      BY <1>0, <2>1, <2>2, <3>1 DEF CallInv, Rooted, Settled, Staged, Grounded
  <2> QED
    BY <2>1, <2>4, <2>5 DEF Owned
<1>3. ASSUME NEW c \in Calls, Quiet(c)
      PROVE  RowInv'
  <2>1. UNCHANGED <<tenant, accounts, settings, namer, request>>
    BY <1>3, QuietSteps
  <2>2. Grown
    BY <2>1 DEF Grown
  <2>3. \A d \in Calls \ {c} : CallInv(d)'
    BY <1>0, <1>3, <2>1, <2>2, QuietSteps, OthersKeep
  <2> QED
    BY <1>0, <1>3, <2>1, <2>3, QuietKeeps, QuietMoves DEF Owned
<1>4. ASSUME NEW c \in Calls,
             Commit(c) \/ InsertAlone(c) \/ InsertUser(c) \/ WriteSettings(c)
      PROVE  RowInv'
  <2>1. request' = request
    BY <1>4 DEF Commit, InsertAlone, InsertUser, WriteSettings, own
  <2>2. \A d \in Calls \ {c} :
           /\ pc'[d] = pc[d] /\ outcome'[d] = outcome[d] /\ inserted'[d] = inserted[d]
           /\ d \in committed' <=> d \in committed
    BY <1>4 DEF Commit, InsertAlone, InsertUser, WriteSettings, Finish, Goto, TypeOK,
                transaction
  <2>3. \A d \in Calls \ {c} : CallInv(d)'
    BY <1>0, <1>4, <2>1, <2>2, TableSteps, OthersKeep DEF Tenants
  <2> QED
    BY <1>0, <1>4, <2>3, TableSteps, WriterMoves
<1>5. ASSUME NEW t \in Tenants, Remove(t)
      PROVE  RowInv'
  <2>1. /\ UNCHANGED <<accounts, settings, namer, committed, request, pc, outcome, inserted>>
        /\ \A d \in Tenants : /\ tenant'[d].state = "none" <=> tenant[d].state = "none"
                              /\ tenant'[d].domain = tenant[d].domain
    BY <1>5 DEF Remove, TypeOK, Rows, transaction, own, work
  <2>2. Grown
    BY <2>1 DEF Grown
  <2>3. \A d \in Calls : CallInv(d)'
    BY <1>0, <2>1, <2>2, OthersKeep DEF Tenants
  <2> QED
    BY <2>1, <2>3 DEF Owned
<1>6. ASSUME NEW c \in Calls, UpdateTenant(c)
      PROVE  RowInv'
  BY <1>0, <1>6, UpdateKeeps
<1> QED
  BY <1>1, <1>2, <1>3, <1>4, <1>5, <1>6 DEF Next, Step, Event, Quiet

\* Provisioning is all or nothing, and every answer tells the truth: a refusal
\* has its reason in what was so while the call was under way.
THEOREM AdministrationIsTruthful == Spec => []AnswersAreTruthful
<1>1. TypeInv /\ RowInv => AnswersAreTruthful
  <2> SUFFICES ASSUME TypeInv, RowInv, NEW c \in Calls
               PROVE  /\ Op(c) = "provision" => IF c \in committed THEN Whole(c) ELSE Nothing(c)
                      /\ pc[c] \in {"200", "201"} => c \in committed
                      /\ pc[c] = "201" /\ Op(c) = "create" => tenant[c].state # "none"
                      /\ pc[c] = "201" /\ Op(c) \in {"register", "invite"} =>
                            accounts[Account(c)] = c
                      /\ pc[c] \in {"400", "409"} =>
                            c \notin committed /\ ("rival" \in sights[c] \/ OfSuperAdmin(c))
                      /\ pc[c] = "404" => "nothing" \in sights[c]
                      /\ OfSuperAdmin(c) => c \notin committed
    BY DEF AnswersAreTruthful
  <2> QED
    BY DEF TypeInv, RowInv, CallInv, Rooted, Settled, Grounded
<1> QED
  BY <1>1, TypeInit, TypeStep, SightsInit, SightsStep, RowInit, RowStep, PTL DEF Spec

-----------------------------------------------------------------------------
(* What nobody asked to change.                                            *)

\* Only calls that are over were over when a call began; and what a call has
\* found differs from the settings only in keys that a call changed which was
\* under way with it.
SettingsInv ==
    \A c \in Calls :
        /\ \A d \in before[c] : pc[d] \in Final
        /\ pc[c] \in {"planning", "writing"} =>
              \A k \in Keys :
                  found[c][k] # settings[request[c].tenant][k] =>
                      Overlapped(c, writer[request[c].tenant][k])

LEMMA SettingsInit ==
    ASSUME Init
    PROVE  SettingsInv
BY DEF Init, SettingsInv

LEMMA SettingsStep ==
    ASSUME TypeInv, RowInv, SettingsInv, [Next]_vars
    PROVE  SettingsInv'
<1> USE DEF TypeInv, SettingsInv
<1>1. CASE UNCHANGED vars \/ Done
  BY <1>1 DEF vars, Done, Overlapped
<1>2. ASSUME NEW c \in Calls, NEW in \in Inputs, Receive(c, in)
      PROVE  SettingsInv'
  <2>1. /\ UNCHANGED <<settings, writer, found>>
        /\ pc[c] = "idle" /\ pc'[c] \notin {"planning", "writing"}
        /\ \A d \in Calls \ {c} : /\ pc'[d] = pc[d] /\ request'[d] = request[d]
                                  /\ before'[d] = before[d]
        /\ before'[c] = {d \in Calls : pc[d] \in Final}
    BY <1>2, InputFields DEF Receive, Goto, TypeOK, database, work
  <2>2. \A d \in Calls : c \notin before[d] /\ c \notin before'[d]
    BY <2>1 DEF Final
  <2>3. ASSUME NEW d \in Calls
        PROVE  \A e \in before'[d] : pc'[e] \in Final
    BY <2>1, <2>2 DEF TypeOK
  <2>4. ASSUME NEW d \in Calls, pc'[d] \in {"planning", "writing"}, NEW k \in Keys,
               found'[d][k] # settings'[request'[d].tenant][k]
        PROVE  Overlapped(d, writer[request[d].tenant][k])'
    <3>1. d # c
      BY <2>1, <2>4
    <3>2. /\ found[d][k] # settings[request[d].tenant][k]
          /\ writer'[request'[d].tenant][k] = writer[request[d].tenant][k]
          /\ before'[d] = before[d] /\ d \notin before[c] /\ d \notin before'[c]
          /\ pc[d] \in {"planning", "writing"}
      BY <2>1, <2>4, <3>1 DEF Final
    <3>3. Overlapped(d, writer[request[d].tenant][k])
      BY <3>2
    <3>4. request[d].tenant \in Tenants
      BY <3>2, InputFields DEF Placed, Op
    <3>5. writer[request[d].tenant][k] \in Calls
      BY <3>3, <3>4 DEF Overlapped, TypeOK
    <3> QED
      BY <2>1, <3>2, <3>3, <3>5 DEF Overlapped
  <2> QED
    BY <2>3, <2>4
<1>3. ASSUME NEW c \in Calls, Quiet(c)
      PROVE  SettingsInv'
  <2>1. UNCHANGED <<settings, request, before>> /\ \A d \in Calls \ {c} : pc'[d] = pc[d]
    BY <1>3, QuietSteps
  <2>2. /\ pc[c] \in Final => pc'[c] = pc[c]
        /\ writer' = writer
        /\ \A d \in Calls \ {c} : found'[d] = found[d]
        /\ pc'[c] \in {"planning", "writing"} =>
              \/ pc[c] \in {"planning", "writing"} /\ found'[c] = found[c]
              \/ found'[c] = settings[request[c].tenant]
    <3> USE DEF TypeOK, Goto, Finish, Final, database, work
    <3>1. CASE PoolTimeout(c) \/ Connect(c) \/ Begin(c) \/ BeginFails(c) \/ CheckDomain(c)
      BY <3>1 DEF PoolTimeout, Connect, Begin, BeginFails, CheckDomain, Autocommitted
    <3>0. CASE Create(c) \/ FindTenant(c) \/ CompareTenant(c)
      BY <3>0 DEF Create, FindTenant, CompareTenant
    <3>2. CASE InsertTenant(c) \/ CheckAdmin(c) \/ InsertAdmin(c) \/ InsertSettings(c)
      BY <3>2 DEF InsertTenant, CheckAdmin, InsertAdmin, InsertSettings
    <3>3. CASE StatementFails(c) \/ Rollback(c) \/ CheckEmail(c)
      BY <3>3 DEF StatementFails, Rollback, CheckEmail, InTry
    <3>4. CASE Release(c) \/ Answer(c)
      BY <3>4, RowInv DEF Release, Answer, RowInv, CallInv, Grounded
    <3>5. CASE FindSettings(c) \/ PlanSettings(c)
      BY <3>5 DEF FindSettings, PlanSettings
    <3>6. CASE Fail(c) \/ Crash(c) \/ InsertAudit(c) \/ LoseAudit(c)
      BY <3>6 DEF Fail, Crash, InsertAudit, LoseAudit, Awaiting, InTry, Autocommitted,
                  Saving
    <3> QED
      BY <1>3, <3>0, <3>1, <3>2, <3>3, <3>4, <3>5, <3>6 DEF Quiet
  <2> QED
    BY <2>1, <2>2 DEF Overlapped, TypeOK
<1>4. ASSUME NEW c \in Calls,
             Commit(c) \/ InsertAlone(c) \/ UpdateTenant(c) \/ InsertUser(c)
      PROVE  SettingsInv'
  <2>1. /\ UNCHANGED <<request, before, writer, found>>
        /\ \A d \in Calls \ {c} : pc'[d] = pc[d]
        /\ pc[c] \notin Final /\ pc'[c] \notin {"planning", "writing"}
    BY <1>4 DEF Commit, InsertAlone, UpdateTenant, InsertUser, Finish, Goto, TypeOK, own,
                Final
  <2>2. ASSUME NEW d \in Calls, pc[d] \in {"planning", "writing"}
        PROVE  settings'[request[d].tenant] = settings[request[d].tenant]
    <3>1. request[d].tenant \in Tenants /\ Op(d) = "configure"
      BY <2>2, InputFields DEF Placed, Op
    <3>2. tenant[request[d].tenant].state # "none"
      BY <2>2, <3>1 DEF RowInv, CallInv, Rooted
    <3>3. CASE Commit(c)
      <4>1. tenant[c].state = "none"
        BY <3>3 DEF Commit, RowInv, CallInv, Rooted, Settled
      <4> QED
        BY <3>1, <3>2, <3>3, <4>1 DEF Commit, TypeOK
    <3>4. CASE InsertAlone(c) \/ UpdateTenant(c) \/ InsertUser(c)
      BY <3>4 DEF InsertAlone, UpdateTenant, InsertUser
    <3> QED
      BY <1>4, <3>3, <3>4
  <2>3. \A d \in Calls : pc'[d] \in {"planning", "writing"} =>
                            pc[d] \in {"planning", "writing"}
    BY <2>1
  <2>4. \A d \in Calls : \A e \in before'[d] : pc'[e] \in Final
    BY <2>1 DEF TypeOK
  <2> QED
    BY <2>1, <2>2, <2>3, <2>4 DEF Overlapped
<1>5. ASSUME NEW c \in Calls, WriteSettings(c)
      PROVE  SettingsInv'
  <2>1. /\ UNCHANGED <<request, before, found>>
        /\ \A d \in Calls \ {c} : pc'[d] = pc[d]
        /\ pc[c] = "writing" /\ pc'[c] = "answering"
    BY <1>5 DEF WriteSettings, Finish, Goto, TypeOK, own
  <2>2. \A d \in Calls : \A e \in before'[d] : pc'[e] \in Final
    BY <2>1 DEF TypeOK, Final
  <2>3. ASSUME NEW d \in Calls \ {c}, pc[d] \in {"planning", "writing"}, NEW k \in Keys,
               found[d][k] # settings'[request[d].tenant][k]
        PROVE  Overlapped(d, writer'[request[d].tenant][k])
    <3>1. request[d].tenant \in Tenants /\ request[c].tenant \in Tenants
      BY <2>1, <2>3, InputFields DEF Placed, Op
    <3>2. d \notin before[c] /\ c \notin before[d] /\ c # Nobody
      BY <2>1, <2>3, AdministrationAssumption DEF Final, Tenants
    <3>3. CASE settings'[request[d].tenant][k] = settings[request[d].tenant][k]
      <4>1. \/ writer'[request[d].tenant][k] = writer[request[d].tenant][k]
            \/ writer'[request[d].tenant][k] = c
        BY <1>5, <3>1 DEF WriteSettings, TypeOK
      <4> QED
        BY <2>3, <3>2, <3>3, <4>1 DEF Overlapped
    <3>4. CASE settings'[request[d].tenant][k] # settings[request[d].tenant][k]
      <4>1. writer'[request[d].tenant][k] = c
        BY <1>5, <3>1, <3>4 DEF WriteSettings, TypeOK
      <4> QED
        BY <3>2, <4>1 DEF Overlapped
    <3> QED
      BY <3>3, <3>4
  <2> QED
    BY <2>1, <2>2, <2>3 DEF Overlapped
<1>6. ASSUME NEW t \in Tenants, Remove(t)
      PROVE  SettingsInv'
  BY <1>6 DEF Remove, own, work, Overlapped
<1> QED
  BY <1>1, <1>2, <1>3, <1>4, <1>5, <1>6 DEF Next, Step, Event, Quiet

\* The same of domains: a call that updates a tenant without naming a domain
\* has found the one that the tenant has, or another changed it meanwhile; and
\* it has seen the tenant there.
NamesInv ==
    \A c \in Calls :
        pc[c] \in {"comparing", "updating"} =>
            /\ "tenant" \in sights[c]
            /\ found[c] # tenant[request[c].tenant].domain =>
                  Overlapped(c, namer[request[c].tenant])

LEMMA NamesInit == Init => NamesInv
BY DEF Init, NamesInv

LEMMA NamesStep ==
    ASSUME TypeInv, RowInv, SightsInv, SettingsInv, NamesInv, [Next]_vars
    PROVE  NamesInv'
<1> USE DEF TypeInv, NamesInv
<1>0. /\ \A d \in Calls : sights[d] \subseteq sights'[d]
      /\ \A d \in Calls : pc[d] \in {"comparing", "updating"} =>
            /\ request[d].tenant \in Tenants
            /\ tenant[request[d].tenant].state # "none"
  <2>1. ASSUME NEW d \in Calls, pc[d] \in {"comparing", "updating"}
        PROVE  /\ request[d].tenant \in Tenants
               /\ tenant[request[d].tenant].state # "none"
    BY <2>1, InputFields DEF Placed, RowInv, CallInv, Rooted, Op
  <2> QED
    BY <2>1, Watching
<1>1. CASE UNCHANGED vars \/ Done
  BY <1>1 DEF vars, Done, Overlapped
<1>2. ASSUME NEW c \in Calls, NEW in \in Inputs, Receive(c, in)
      PROVE  NamesInv'
  <2>1. /\ UNCHANGED <<tenant, namer, found>>
        /\ pc[c] = "idle" /\ pc'[c] \notin {"comparing", "updating"}
        /\ \A d \in Calls \ {c} : /\ pc'[d] = pc[d] /\ request'[d] = request[d]
                                  /\ before'[d] = before[d]
        /\ before'[c] = {d \in Calls : pc[d] \in Final}
    BY <1>2, InputFields DEF Receive, Goto, TypeOK, database, work
  <2>2. ASSUME NEW d \in Calls, pc'[d] \in {"comparing", "updating"},
               found'[d] # tenant'[request'[d].tenant].domain
        PROVE  Overlapped(d, namer[request[d].tenant])'
    <3>1. /\ d # c /\ pc[d] \in {"comparing", "updating"}
          /\ request'[d] = request[d] /\ before'[d] = before[d]
      BY <2>1, <2>2
    <3>2. Overlapped(d, namer[request[d].tenant]) /\ d \notin before'[c]
      BY <2>1, <2>2, <3>1 DEF Final
    <3>3. namer[request[d].tenant] \in Calls
      BY <1>0, <3>1, <3>2 DEF Overlapped, TypeOK
    <3> QED
      BY <2>1, <3>1, <3>2, <3>3 DEF Overlapped
  <2> QED
    BY <1>0, <2>1, <2>2
<1>3. ASSUME NEW c \in Calls, Quiet(c)
      PROVE  NamesInv'
  <2>1. /\ UNCHANGED <<tenant, namer, request, before>>
        /\ \A d \in Calls \ {c} : pc'[d] = pc[d]
    BY <1>3, QuietSteps
  <2>2. /\ \A d \in Calls \ {c} : found'[d] = found[d]
        /\ pc'[c] \in {"comparing", "updating"} =>
              \/ pc[c] \in {"comparing", "updating"} /\ found'[c] = found[c]
              \/ /\ pc[c] = "findingTenant"
                 /\ found'[c] = tenant[request[c].tenant].domain
                 /\ tenant[request[c].tenant].state = "there"
    <3> USE DEF TypeOK, Goto, Finish, work
    <3>1. CASE PoolTimeout(c) \/ Connect(c) \/ Begin(c) \/ BeginFails(c) \/ CheckDomain(c)
      BY <3>1 DEF PoolTimeout, Connect, Begin, BeginFails, CheckDomain
    <3>2. CASE Create(c) \/ FindTenant(c) \/ CompareTenant(c)
      BY <3>2 DEF Create, FindTenant, CompareTenant
    <3>3. CASE InsertTenant(c) \/ CheckAdmin(c) \/ InsertAdmin(c) \/ InsertSettings(c)
      BY <3>3 DEF InsertTenant, CheckAdmin, InsertAdmin, InsertSettings
    <3>4. CASE StatementFails(c) \/ Rollback(c) \/ CheckEmail(c)
      BY <3>4 DEF StatementFails, Rollback, CheckEmail
    <3>5. CASE Release(c) \/ Answer(c)
      BY <3>5 DEF Release, Answer, RowInv, CallInv, Grounded
    <3>6. CASE FindSettings(c) \/ PlanSettings(c)
      BY <3>6 DEF FindSettings, PlanSettings
    <3>7. CASE Fail(c) \/ Crash(c) \/ InsertAudit(c) \/ LoseAudit(c)
      BY <3>7 DEF Fail, Crash, InsertAudit, LoseAudit
    <3> QED
      BY <1>3, <3>1, <3>2, <3>3, <3>4, <3>5, <3>6, <3>7 DEF Quiet
  <2>3. pc[c] = "findingTenant" /\ tenant[request[c].tenant].state = "there" =>
           "tenant" \in sights[c]
    BY DEF Placed, SightsInv, Shown, Awaiting, Autocommitted
  <2> QED
    BY <1>0, <2>1, <2>2, <2>3 DEF Overlapped
<1>4. ASSUME NEW c \in Calls,
             Commit(c) \/ InsertAlone(c) \/ InsertUser(c) \/ WriteSettings(c)
      PROVE  NamesInv'
  <2>1. /\ UNCHANGED <<namer, request, before, found>>
        /\ \A d \in Calls \ {c} : pc'[d] = pc[d]
        /\ pc'[c] \notin {"comparing", "updating"}
    BY <1>4 DEF Commit, InsertAlone, InsertUser, WriteSettings, Finish, Goto, TypeOK, own
  <2>2. \A t \in Tenants \ {c} : tenant'[t] = tenant[t]
    BY <1>4, TableSteps
  <2>3. tenant[c].state # "none" => tenant'[c] = tenant[c]
    <3>1. CASE Commit(c) \/ InsertAlone(c)
      BY <3>1 DEF Commit, InsertAlone, RowInv, CallInv, Rooted, Settled
    <3>2. CASE InsertUser(c) \/ WriteSettings(c)
      BY <3>2 DEF InsertUser, WriteSettings
    <3> QED
      BY <1>4, <3>1, <3>2
  <2>4. \A d \in Calls : pc[d] \in {"comparing", "updating"} =>
           tenant'[request[d].tenant] = tenant[request[d].tenant]
    BY <1>0, <2>2, <2>3
  <2> QED
    BY <1>0, <2>1, <2>4 DEF Overlapped
<1>5. ASSUME NEW c \in Calls, UpdateTenant(c)
      PROVE  NamesInv'
  <2>1. /\ UNCHANGED <<request, before, found>>
        /\ \A d \in Calls \ {c} : pc'[d] = pc[d]
        /\ pc[c] = "updating" /\ pc'[c] \notin {"comparing", "updating"}
    BY <1>5 DEF UpdateTenant, Finish, Goto, TypeOK, own
  <2>2. \A t \in Tenants : \/ namer'[t] = namer[t] /\ tenant'[t].domain = tenant[t].domain
                           \/ namer'[t] = c
    BY <1>0, <1>5, <2>1 DEF UpdateTenant, TypeOK
  <2>3. ASSUME NEW d \in Calls \ {c}, pc[d] \in {"comparing", "updating"},
               found[d] # tenant'[request[d].tenant].domain
        PROVE  Overlapped(d, namer'[request[d].tenant])
    <3>1. d \notin before[c] /\ c \notin before[d] /\ c # Nobody
      BY <2>1, <2>3, AdministrationAssumption DEF SettingsInv, Final, Tenants
    <3> QED
      BY <1>0, <2>2, <2>3, <3>1 DEF Overlapped
  <2> QED
    BY <1>0, <2>1, <2>3 DEF Overlapped
<1>6. ASSUME NEW t \in Tenants, Remove(t)
      PROVE  NamesInv'
  <2>1. /\ UNCHANGED <<namer, request, before, found, pc>>
        /\ \A d \in Tenants : tenant'[d].domain = tenant[d].domain
    BY <1>6 DEF Remove, TypeOK, Rows, own, work
  <2> QED
    BY <1>0, <2>1 DEF Overlapped
<1> QED
  BY <1>1, <1>2, <1>3, <1>4, <1>5, <1>6 DEF Next, Step, Event, Quiet

\* What a client did not send changes only to what an overlapping call found:
\* a key of the settings,
LEMMA SettingsAsAsked ==
    ASSUME TypeInv, RowInv, SettingsInv, [Next]_vars,
           NEW t \in Tenants, NEW k \in Keys, settings[t] # NoSettings,
           settings'[t][k] # settings[t][k]
    PROVE  \E c \in Calls :
               /\ pc[c] = "writing" /\ pc'[c] = "answering"
               /\ request[c].tenant = t
               /\ k \in DOMAIN request[c].patch \/ Overlapped(c, writer[t][k])
<1> USE DEF TypeInv
<1>1. settings' # settings
  OBVIOUS
<1>2. PICK c \in Calls : Commit(c) \/ WriteSettings(c)
  <2>1. \A c \in Calls : Quiet(c) => settings' = settings
    BY QuietSteps
  <2> QED
    BY <1>1, <2>1 DEF Next, Step, Event, Quiet, vars, Receive, InsertAlone, UpdateTenant,
                      InsertUser, Remove, Done, database
<1>3. ASSUME Commit(c)
      PROVE  FALSE
  <2>1. c \in Tenants /\ settings[c] = NoSettings
    BY <1>3 DEF Commit, RowInv, CallInv, Settled, Rooted, Nothing, Tenants
  <2> QED
    BY <1>3, <2>1 DEF Commit, TypeOK
<1>4. WriteSettings(c)
  BY <1>2, <1>3
<1>5. /\ pc[c] = "writing" /\ pc'[c] = "answering"
      /\ settings' = [settings EXCEPT ![request[c].tenant] = Merged(c)]
  BY <1>4 DEF WriteSettings, Finish, Goto, TypeOK
<1>6. t = request[c].tenant /\ settings'[t][k] = Merged(c)[k]
  BY <1>5 DEF TypeOK
<1>7. k \notin DOMAIN request[c].patch => found[c][k] # settings[t][k]
  BY <1>6 DEF Merged
<1> QED
  BY <1>5, <1>6, <1>7 DEF SettingsInv

\* or a tenant's domain and its removal.
LEMMA TenantAsAsked ==
    ASSUME TypeInv, RowInv, NamesInv, [Next]_vars,
           NEW t \in Tenants, tenant[t].state # "none",
           \/ tenant'[t].domain # tenant[t].domain
           \/ tenant[t].state = "removed" /\ tenant'[t].state = "there"
    PROVE  \E c \in Calls :
               /\ pc[c] = "updating" /\ pc'[c] = "answering"
               /\ request[c].tenant = t
               /\ "tenant" \in sights[c]
               /\ tenant'[t].domain # tenant[t].domain =>
                     tenant'[t].domain = request[c].domain \/ Overlapped(c, namer[t])
<1> USE DEF TypeInv
<1>1. \A c \in Calls : Quiet(c) => tenant' = tenant
  BY QuietSteps
<1>2. ASSUME NEW c \in Calls, Commit(c) \/ InsertAlone(c)
      PROVE  FALSE
  <2>1. tenant[c].state = "none"
    BY <1>2 DEF Commit, InsertAlone, RowInv, CallInv, Rooted, Settled
  <2>2. tenant'[t] = tenant[t]
    BY <1>2, <2>1, TableSteps
  <2> QED
    BY <2>2
<1>3. ASSUME NEW s \in Tenants, Remove(s)
      PROVE  FALSE
  BY <1>3 DEF Remove, TypeOK, Rows
<1>4. PICK c \in Calls : UpdateTenant(c)
  BY <1>1, <1>2, <1>3 DEF Next, Step, Event, Quiet, vars, Receive, InsertUser,
                          WriteSettings, Done, database
<1>5. /\ pc[c] = "updating" /\ pc'[c] = "answering" /\ request[c].tenant \in Tenants
      /\ tenant' = [tenant EXCEPT ![request[c].tenant] = UpdatedRow(c)]
  <2>1. pc[c] = "updating" /\ request[c].tenant \in Tenants
    BY <1>4, InputFields DEF UpdateTenant, Placed, Op
  <2>2. ~("domain" \in diff[c] /\ DomainTaken(c))
    BY <1>4 DEF UpdateTenant
  <2> QED
    BY <1>4, <2>1, <2>2 DEF UpdateTenant, Finish, Goto, TypeOK
<1>6. t = request[c].tenant /\ tenant'[t] = UpdatedRow(c)
  BY <1>5 DEF TypeOK
<1>7. tenant'[t].domain # tenant[t].domain =>
         tenant'[t].domain = request[c].domain \/ found[c] # tenant[t].domain
  BY <1>6 DEF UpdatedRow, Wanted
<1> QED
  BY <1>5, <1>6, <1>7 DEF NamesInv

\* Both together: the settings and the domain that a client did not send change
\* only by an overlap, and a removed tenant comes back only with an update that
\* saw it there.
THEOREM ChangesAreAskedOrOverlap == Spec => UnaskedStays
<1> DEFINE Asked ==
        /\ \A t \in Tenants, k \in Keys :
              settings[t] # NoSettings /\ settings'[t][k] # settings[t][k] =>
                  \E c \in Calls :
                      /\ pc[c] = "writing" /\ pc'[c] = "answering"
                      /\ request[c].tenant = t
                      /\ k \in DOMAIN request[c].patch \/ Overlapped(c, writer[t][k])
        /\ \A t \in Tenants :
              tenant[t].state # "none" =>
                  /\ tenant'[t].domain # tenant[t].domain =>
                        \E c \in Calls :
                            /\ pc[c] = "updating" /\ pc'[c] = "answering"
                            /\ request[c].tenant = t
                            /\ \/ tenant'[t].domain = request[c].domain
                               \/ Overlapped(c, namer[t])
                  /\ tenant[t].state = "removed" /\ tenant'[t].state = "there" =>
                        \E c \in Calls :
                            /\ pc[c] = "updating" /\ pc'[c] = "answering"
                            /\ request[c].tenant = t
                            /\ "tenant" \in sights[c]
<1>1. ASSUME TypeInv, RowInv, SettingsInv, NamesInv, [Next]_vars
      PROVE  Asked
  <2>1. \A t \in Tenants, k \in Keys :
           settings[t] # NoSettings /\ settings'[t][k] # settings[t][k] =>
               \E c \in Calls :
                   /\ pc[c] = "writing" /\ pc'[c] = "answering"
                   /\ request[c].tenant = t
                   /\ k \in DOMAIN request[c].patch \/ Overlapped(c, writer[t][k])
    BY <1>1, SettingsAsAsked
  <2>2. ASSUME NEW t \in Tenants, tenant[t].state # "none",
               tenant'[t].domain # tenant[t].domain
        PROVE  \E c \in Calls :
                   /\ pc[c] = "updating" /\ pc'[c] = "answering"
                   /\ request[c].tenant = t
                   /\ \/ tenant'[t].domain = request[c].domain
                      \/ Overlapped(c, namer[t])
    BY <1>1, <2>2, TenantAsAsked
  <2>3. ASSUME NEW t \in Tenants, tenant[t].state = "removed", tenant'[t].state = "there"
        PROVE  \E c \in Calls :
                   /\ pc[c] = "updating" /\ pc'[c] = "answering"
                   /\ request[c].tenant = t
                   /\ "tenant" \in sights[c]
    BY <1>1, <2>3, TenantAsAsked
  <2> QED
    BY <2>1, <2>2, <2>3
<1>2. TypeInv /\ RowInv /\ SettingsInv /\ NamesInv /\ [Next]_vars => [Asked]_vars
  BY <1>1
<1> QED
  BY <1>2, TypeInit, TypeStep, SightsInit, SightsStep, RowInit, RowStep, SettingsInit,
     SettingsStep, NamesInit, NamesStep, PTL DEF Spec, UnaskedStays

-----------------------------------------------------------------------------
(* The audit log.                                                          *)

LEMMA AuditStep ==
    ASSUME TypeInv, RowInv, AuditFollowsCommit, [Next]_vars
    PROVE  AuditFollowsCommit'
<1> USE DEF TypeInv, AuditFollowsCommit
<1>1. CASE UNCHANGED vars \/ Done
  BY <1>1 DEF vars, Done, Op
<1>2. ASSUME NEW c \in Calls, NEW in \in Inputs, Receive(c, in)
      PROVE  AuditFollowsCommit'
  <2>1. /\ UNCHANGED <<committed, pending, log, lost>>
        /\ \A d \in Calls \ {c} : pc'[d] = pc[d] /\ request'[d] = request[d]
        /\ pc'[c] \notin {"200", "201"}
    BY <1>2, InputFields DEF Receive, Goto, TypeOK, database, audit
  <2> QED
    BY <2>1 DEF Op
<1>3. ASSUME NEW c \in Calls, Answer(c)
      PROVE  AuditFollowsCommit'
  <2>1. c \in committed
    BY <1>3 DEF Answer, RowInv, CallInv, Grounded
  <2> QED
    BY <1>3, <2>1 DEF Answer, Audited, Goto, TypeOK, database, own, Op
<1>4. ASSUME NEW c \in Calls, InsertAudit(c) \/ LoseAudit(c)
      PROVE  AuditFollowsCommit'
  BY <1>4 DEF InsertAudit, LoseAudit, database, own, work, Op
<1>5. ASSUME NEW c \in Calls, Quiet(c), UNCHANGED audit, ~Answer(c)
      PROVE  AuditFollowsCommit'
  <2>1. /\ request' = request /\ \A d \in Calls \ {c} : pc'[d] = pc[d]
    BY <1>5, QuietSteps
  <2>2. committed \subseteq committed'
    BY <1>5, QuietKeeps
  <2>3. pc'[c] \in {"200", "201"} => Op(c) = "provision" \/ pc'[c] = pc[c]
    <3> USE DEF TypeOK, Goto, Finish
    <3>1. CASE Release(c)
      BY <3>1 DEF Release, Placed
    <3>2. CASE ~Release(c)
      BY <1>5, <3>2 DEF Quiet, PoolTimeout, Connect, Begin, BeginFails, CheckDomain,
         InsertTenant, CheckAdmin, InsertAdmin, InsertSettings, StatementFails, Rollback,
         Create, FindTenant, CompareTenant, CheckEmail, FindSettings, PlanSettings, Fail,
         Crash, InsertAudit, LoseAudit
    <3> QED
      BY <3>1, <3>2
  <2> QED
    BY <1>5, <2>1, <2>2, <2>3 DEF audit, Op
<1>6. ASSUME NEW c \in Calls,
             Commit(c) \/ InsertAlone(c) \/ UpdateTenant(c) \/ InsertUser(c)
             \/ WriteSettings(c)
      PROVE  AuditFollowsCommit'
  <2>1. /\ UNCHANGED <<request, audit>> /\ \A d \in Calls \ {c} : pc'[d] = pc[d]
        /\ pc'[c] \notin {"200", "201"}
        /\ committed \subseteq committed'
    BY <1>6 DEF Commit, InsertAlone, UpdateTenant, InsertUser, WriteSettings, Finish, Goto,
                TypeOK, own
  <2> QED
    BY <2>1 DEF audit, Op
<1>7. ASSUME NEW t \in Tenants, Remove(t)
      PROVE  AuditFollowsCommit'
  BY <1>7 DEF Remove, own, work, audit, Op
<1>8. ASSUME NEW c \in Calls, Quiet(c), ~Answer(c), ~InsertAudit(c), ~LoseAudit(c)
      PROVE  UNCHANGED audit
  BY <1>8 DEF Quiet, PoolTimeout, Connect, Begin, BeginFails, CheckDomain, InsertTenant,
     CheckAdmin, InsertAdmin, InsertSettings, StatementFails, Rollback, Release, Create,
     FindTenant, CompareTenant, CheckEmail, FindSettings, PlanSettings, Fail, Crash
<1> QED
  BY <1>1, <1>2, <1>3, <1>4, <1>5, <1>6, <1>7, <1>8 DEF Next, Step, Event, Quiet

\* Records follow commits, and answered changes have one unless it was lost.
THEOREM AnsweredChangesAreOnRecord == Spec => []AuditFollowsCommit
<1>1. Init => AuditFollowsCommit
  BY DEF Init, AuditFollowsCommit
<1> QED
  BY <1>1, TypeInit, TypeStep, SightsInit, SightsStep, RowInit, RowStep, AuditStep, PTL
     DEF Spec

-----------------------------------------------------------------------------
(* Locks and waiting.  createTenant keeps the key of its domain locked from *)
(* its first insert to the end of its transaction, and its connection from  *)
(* connect to release; the saves of a tenant wait for the one with the      *)
(* other in hand.                                                           *)

\* Where the transaction of a call may have inserted something
Inserting == {"checkingAdmin", "insertingAdmin", "insertingSettings", "committing",
              "rollingBack"}

\* The transaction of d has inserted the key of a domain.
HasKey(d) == "tenant" \in inserted[d]

\* What has a transaction has a connection; one whose BEGIN failed is over.
LockInv ==
    /\ \A c \in Calls : inserted[c] # {} => pc[c] \in Inserting
    /\ \A c \in Calls : pc[c] \in Holding => c \in held
    /\ \A c \in unbegun : pc[c] \in Final

LEMMA LockStep ==
    ASSUME TypeInv, RowInv, LockInv, [Next]_vars
    PROVE  LockInv'
<1> USE DEF TypeInv, TypeOK, LockInv, Goto, Finish, Inserting, Holding, InTry, Saving,
        Final
<1>1. CASE UNCHANGED vars \/ Done
  BY <1>1 DEF vars, Done
<1>2. ASSUME NEW c \in Calls, NEW in \in Inputs, Receive(c, in)
      PROVE  LockInv'
  <2>1. pc'[c] \in {"connecting", "creating", "findingTenant", "checkingEmail", "finding"}
    BY <1>2, InputFields DEF Receive
  <2>2. inserted[c] = {}
    BY <1>2 DEF Receive, RowInv, CallInv, Staged
  <2> QED
    BY <1>2, <2>1, <2>2 DEF Receive, transaction
<1>3. ASSUME NEW c \in Calls,
             PoolTimeout(c) \/ FindTenant(c) \/ CheckEmail(c) \/ InsertUser(c)
             \/ FindSettings(c) \/ Answer(c)
      PROVE  LockInv'
  <2>1. CASE PoolTimeout(c)
    BY <2>1 DEF PoolTimeout, transaction, Autocommitted
  <2>2. CASE FindTenant(c)
    <3>1. /\ UNCHANGED <<inserted, held, unbegun>>
          /\ pc[c] = "findingTenant"
          /\ \E label \in {"comparing"} \cup Final : pc' = [pc EXCEPT ![c] = label]
      BY <2>2 DEF FindTenant, transaction
    <3> QED
      BY <3>1
  <2>3. CASE CheckEmail(c)
    BY <2>3 DEF CheckEmail, transaction, Autocommitted
  <2>4. CASE InsertUser(c)
    <3>1. /\ UNCHANGED <<inserted, held, unbegun>>
          /\ pc[c] = "insertingUser"
          /\ \E label \in {"answering"} \cup Final : pc' = [pc EXCEPT ![c] = label]
      BY <2>4 DEF InsertUser, transaction
    <3> QED
      BY <3>1
  <2>5. CASE FindSettings(c)
    BY <2>5 DEF FindSettings, transaction, Autocommitted
  <2>6. CASE Answer(c)
    BY <2>6 DEF Answer, transaction, Autocommitted
  <2> QED
    BY <1>3, <2>1, <2>2, <2>3, <2>4, <2>5, <2>6
<1>4. ASSUME NEW c \in Calls,
             Connect(c) \/ Begin(c) \/ CheckDomain(c)
             \/ InsertTenant(c) \/ CheckAdmin(c) \/ InsertAdmin(c) \/ InsertSettings(c)
      PROVE  LockInv'
  <2>1. CASE Connect(c)
    BY <2>1 DEF Connect, transaction
  <2>2. CASE Begin(c)
    BY <2>2 DEF Begin, transaction
  <2>3. CASE CheckDomain(c)
    BY <2>3 DEF CheckDomain, transaction
  <2>4. CASE InsertTenant(c)
    <3>1. /\ UNCHANGED <<held, unbegun>>
          /\ pc[c] = "insertingTenant"
          /\ \A d \in Calls \ {c} : inserted'[d] = inserted[d]
          /\ \/ inserted' = inserted /\ pc' = [pc EXCEPT ![c] = "rollingBack"]
             \/ pc' = [pc EXCEPT ![c] = "checkingAdmin"]
      BY <2>4 DEF InsertTenant
    <3> QED
      BY <3>1
  <2>5. CASE CheckAdmin(c)
    BY <2>5 DEF CheckAdmin, transaction
  <2>6. CASE InsertAdmin(c)
    BY <2>6 DEF InsertAdmin, transaction
  <2>7. CASE InsertSettings(c)
    BY <2>7 DEF InsertSettings, transaction
  <2> QED
    BY <1>4, <2>1, <2>2, <2>3, <2>4, <2>5, <2>6, <2>7
<1>5. ASSUME NEW c \in Calls,
             BeginFails(c) \/ Commit(c) \/ StatementFails(c) \/ Rollback(c) \/ Release(c)
      PROVE  LockInv'
  <2>1. CASE BeginFails(c)
    BY <2>1 DEF BeginFails, transaction
  <2>2. CASE Commit(c)
    <3>1. /\ UNCHANGED <<held, unbegun>>
          /\ pc[c] = "committing"
          /\ inserted' = [inserted EXCEPT ![c] = {}]
          /\ \E label \in {"releasing", "rollingBack"} : pc' = [pc EXCEPT ![c] = label]
      BY <2>2 DEF Commit
    <3> QED
      BY <3>1
  <2>3. CASE StatementFails(c)
    BY <2>3 DEF StatementFails, transaction
  <2>4. CASE Rollback(c)
    BY <2>4 DEF Rollback, RolledBack, transaction
  <2>5. CASE Release(c)
    BY <2>5 DEF Release, Released, transaction
  <2> QED
    BY <1>5, <2>1, <2>2, <2>3, <2>4, <2>5
<1>6. ASSUME NEW c \in Calls,
             \/ PlanSettings(c) \/ WriteSettings(c) \/ Create(c) \/ InsertAlone(c)
             \/ CompareTenant(c) \/ UpdateTenant(c) \/ Fail(c) \/ Crash(c)
      PROVE  LockInv'
  <2>1. CASE \/ PlanSettings(c) \/ WriteSettings(c) \/ Create(c) \/ InsertAlone(c)
             \/ CompareTenant(c) \/ UpdateTenant(c)
    <3>1. /\ pc[c] \in {"planning", "creating", "comparing"} \cup Saving
          /\ UNCHANGED <<inserted, unbegun>>
          /\ \/ /\ \E label \in {"answering", "409"} : pc' = [pc EXCEPT ![c] = label]
                /\ held' \in {held, held \ {c}}
             \/ /\ \E label \in Saving : pc' = [pc EXCEPT ![c] = label]
                /\ held' = held \cup {c}
      <4>1. CASE PlanSettings(c)
        BY <4>1 DEF PlanSettings
      <4>2. CASE WriteSettings(c)
        BY <4>2 DEF WriteSettings
      <4>3. CASE Create(c)
        BY <4>3 DEF Create
      <4>4. CASE InsertAlone(c)
        BY <4>4 DEF InsertAlone
      <4>5. CASE CompareTenant(c)
        BY <4>5 DEF CompareTenant
      <4>6. CASE UpdateTenant(c)
        BY <4>6 DEF UpdateTenant
      <4> QED
        BY <2>1, <4>1, <4>2, <4>3, <4>4, <4>5, <4>6
    <3>2. inserted[c] = {} /\ c \notin unbegun
      BY <3>1
    <3>3. \A d \in Calls \ {c} : pc'[d] = pc[d] /\ (d \in held' <=> d \in held)
      BY <3>1
    <3>4. pc'[c] \in Holding => c \in held'
      BY <3>1
    <3> QED
      BY <3>1, <3>2, <3>3, <3>4
  <2>2. CASE Fail(c)
    BY <2>2 DEF Fail, Autocommitted
  <2>3. CASE Crash(c)
    BY <2>3 DEF Crash, Awaiting, Autocommitted
  <2> QED
    BY <1>6, <2>1, <2>2, <2>3
<1>7. ASSUME NEW c \in Calls, InsertAudit(c) \/ LoseAudit(c)
      PROVE  LockInv'
  BY <1>7 DEF InsertAudit, LoseAudit, transaction
<1>8. ASSUME NEW t \in Tenants, Remove(t)
      PROVE  LockInv'
  BY <1>8 DEF Remove, transaction
<1> QED
  BY <1>1, <1>2, <1>3, <1>4, <1>5, <1>6, <1>7, <1>8 DEF Next, Step, Event

LEMMA LocksInvariant == Spec => [](TypeInv /\ RowInv /\ LockInv)
<1>1. Init => LockInv
  BY DEF Init, LockInv, Holding, InTry, Saving
<1> QED
  BY <1>1, LockStep, TypeInit, TypeStep, SightsInit, SightsStep, RowInit, RowStep, PTL
     DEF Spec

\* A step takes one connection, and only if there is one, or none.
LEMMA HeldSteps ==
    ASSUME TypeInv, [Next]_vars
    PROVE  \/ held' \subseteq held
           \/ ~PoolFull /\ \E c \in Calls : held' = held \cup {c}
<1> USE DEF transaction
<1>1. ASSUME NEW c \in Calls,
             Connect(c) \/ Create(c) \/ PlanSettings(c) \/ CompareTenant(c)
      PROVE  held' \subseteq held \/ (~PoolFull /\ held' = held \cup {c})
  BY <1>1 DEF Connect, Create, PlanSettings, CompareTenant
<1>2. ASSUME NEW c \in Calls, Step(c),
             ~Connect(c), ~Create(c), ~PlanSettings(c), ~CompareTenant(c)
      PROVE  held' \subseteq held
  BY <1>2 DEF Step, PoolTimeout, Begin, CheckDomain, InsertTenant, CheckAdmin, InsertAdmin,
              InsertSettings, Commit, Rollback, Release, Released, InsertAlone, FindTenant,
              UpdateTenant, CheckEmail, InsertUser, FindSettings, WriteSettings, Answer
<1>3. ASSUME NEW c \in Calls,
             \/ BeginFails(c) \/ StatementFails(c) \/ Fail(c) \/ Crash(c)
             \/ InsertAudit(c) \/ LoseAudit(c) \/ \E in \in Inputs : Receive(c, in)
      PROVE  held' \subseteq held
  BY <1>3 DEF BeginFails, StatementFails, Fail, Crash, InsertAudit, LoseAudit, Receive
<1>4. CASE UNCHANGED vars \/ Done \/ \E t \in Tenants : Remove(t)
  BY <1>4 DEF vars, Done, Remove
<1> QED
  BY <1>1, <1>2, <1>3, <1>4 DEF Next, Event

\* The pool never gives more connections than it has.
PoolInv == Cardinality(held) <= PoolSize

LEMMA PoolStep ==
    ASSUME TypeInv, TypeInv', PoolInv, [Next]_vars
    PROVE  PoolInv'
<1> USE DEF PoolInv
<1>1. IsFiniteSet(held) /\ Cardinality(held) \in Nat /\ PoolSize \in Nat
  BY FS_Subset, FS_CardinalityType, AdministrationAssumption DEF TypeInv, TypeOK
<1>2. CASE held' \subseteq held
  <2>1. Cardinality(held') <= Cardinality(held)
    BY <1>1, <1>2, FS_Subset
  <2>2. Cardinality(held') \in Nat
    BY <1>1, <1>2, FS_Subset, FS_CardinalityType
  <2> QED
    BY <1>1, <2>1, <2>2
<1>3. ASSUME ~PoolFull, NEW c \in Calls, held' = held \cup {c}
      PROVE  Cardinality(held') <= PoolSize
  BY <1>1, <1>3, FS_AddElement DEF PoolFull
<1> QED
  BY <1>2, <1>3, HeldSteps

LEMMA PoolInvariant == Spec => []PoolInv
<1>1. Init => PoolInv
  BY FS_EmptySet, AdministrationAssumption DEF Init, PoolInv
<1>2. TypeInv /\ TypeInv' /\ PoolInv /\ [Next]_vars => PoolInv'
  BY PoolStep
<1> QED
  BY <1>1, <1>2, TypeInit, TypeStep, PTL DEF Spec

\* The write of c waits for the transaction of d.
WaitsForKey(c, d) ==
    /\ \/ pc[c] \in {"insertingTenant", "inserting"}
       \/ pc[c] = "updating" /\ "domain" \in diff[c]
    /\ c # d /\ HasKey(d) /\ Wanted(d) = Wanted(c)

\* c waits for the pool to give it a connection.
WaitsForPool(c) == pc[c] \in {"connecting"} \cup Autocommitted /\ PoolFull

\* c waits for nobody, and no test of it stands in the way of its next
\* statement.
GoesOn(c) ==
    /\ ~WaitsForPool(c)
    /\ \A d \in Calls : ~WaitsForKey(c, d)
    /\ pc[c] = "checkingAdmin" => accounts[<<c, request[c].email>>] = Nobody

\* Who has a key that is waited for has a connection and goes on; who has a
\* connection that is waited for goes on, waits for such a key, or has lost
\* the connection in a failed BEGIN (and then the pool times the others out).
NoCircularWait ==
    /\ \A c, d \in Calls : WaitsForKey(c, d) => d \in held /\ GoesOn(d)
    /\ \A d \in held :
          /\ ~WaitsForPool(d)
          /\ GoesOn(d) \/ (\E e \in Calls : WaitsForKey(d, e)) \/ d \in unbegun
    /\ Cardinality(held) <= PoolSize

\* Although the saves of a tenant hold a connection while they wait for the
\* key of a domain, neither that lock nor the pool lets calls wait for each
\* other: a call that has a connection never asks for a second one, a call
\* whose insert others wait for waits for nothing itself, and so whoever
\* waits is at most two calls away from one that can move.
THEOREM NobodyWaitsInCircles == Spec => []NoCircularWait
<1>1. ASSUME TypeInv, RowInv, LockInv, HeldInv, PoolInv
      PROVE  NoCircularWait
  <2> USE DEF TypeInv, TypeOK
  <2>1. ASSUME NEW d \in Calls, d \in held
        PROVE  ~WaitsForPool(d)
    BY <1>1, <2>1 DEF HeldInv, LockInv, Holding, InTry, Saving, Final, WaitsForPool,
                      Autocommitted
  <2>2. ASSUME NEW d \in Calls, pc[d] = "checkingAdmin"
        PROVE  accounts[<<d, request[d].email>>] = Nobody
    <3>1. /\ request[d].email \in Emails /\ d \notin committed
      BY <1>1, <2>2, InputFields DEF Placed, InTry, Op, RowInv, CallInv, Settled
    <3> QED
      BY <1>1, <3>1 DEF RowInv, CallInv, Rooted, Nothing
  <2>3. ASSUME NEW c \in Calls, NEW d \in Calls, WaitsForKey(c, d)
        PROVE  d \in held /\ GoesOn(d)
    <3>1. pc[d] \in Inserting
      BY <1>1, <2>3 DEF WaitsForKey, HasKey, LockInv
    <3>2. d \in held
      BY <1>1, <3>1 DEF Inserting, LockInv, Holding, InTry
    <3> QED
      BY <2>1, <2>2, <3>1, <3>2 DEF Inserting, GoesOn, WaitsForKey
  <2>4. ASSUME NEW d \in Calls, d \in held
        PROVE  GoesOn(d) \/ (\E e \in Calls : WaitsForKey(d, e)) \/ d \in unbegun
    BY <2>1, <2>2, <2>4 DEF GoesOn
  <2> QED
    BY <1>1, <2>1, <2>3, <2>4 DEF NoCircularWait, PoolInv
<1>2. TypeInv /\ HeldInv /\ [Next]_vars => HeldInv'
  BY HeldStep
<1>3. Init => HeldInv
  BY DEF Init, HeldInv
<1> QED
  BY <1>1, <1>2, <1>3, LocksInvariant, PoolInvariant, PTL DEF Spec

\* How many steps are at most before c
StepsLeft(c) ==
    CASE pc[c] = "idle"                                                    -> 12
      [] pc[c] = "connecting"                                              -> 11
      [] pc[c] = "beginning"                                               -> 10
      [] pc[c] = "checkingDomain"                                          -> 9
      [] pc[c] = "insertingTenant"                                         -> 8
      [] pc[c] = "checkingAdmin"                                           -> 7
      [] pc[c] = "insertingAdmin"                                          -> 6
      [] pc[c] = "insertingSettings"                                       -> 5
      [] pc[c] \in {"committing", "finding", "findingTenant"}              -> 4
      [] pc[c] \in {"rollingBack", "checkingEmail", "planning", "creating",
                    "comparing"}                                          -> 3
      [] pc[c] \in {"releasing", "insertingUser"} \cup Saving              -> 2
      [] pc[c] = "answering"                                               -> 1
      [] OTHER                                                             -> 0

LEMMA StepsAreTaken ==
    ASSUME TypeInv, [Next]_vars, NEW c \in Calls, pc'[c] # pc[c]
    PROVE  StepsLeft(c)' < StepsLeft(c)
<1> USE DEF TypeInv, TypeOK, Goto, Finish, Saving
<1>1. \/ \E in \in Inputs : Receive(c, in)
      \/ Step(c) \/ BeginFails(c) \/ StatementFails(c) \/ Fail(c) \/ Crash(c)
  <2>1. \/ \E d \in Calls, in \in Inputs : Receive(d, in)
        \/ \E d \in Calls :
              Step(d) \/ BeginFails(d) \/ StatementFails(d) \/ Fail(d) \/ Crash(d)
    BY DEF Next, Event, Done, vars, InsertAudit, LoseAudit, Remove
  <2>2. ASSUME NEW d \in Calls,
               \/ \E in \in Inputs : Receive(d, in)
               \/ Step(d) \/ BeginFails(d) \/ StatementFails(d) \/ Fail(d) \/ Crash(d)
        PROVE  d = c
    <3>1. \E label : pc' = [pc EXCEPT ![d] = label]
      BY <2>2 DEF Receive, Step, BeginFails, StatementFails, Fail, Crash, PoolTimeout,
                  Connect, Begin, CheckDomain, InsertTenant, CheckAdmin, InsertAdmin,
                  InsertSettings, Commit, Rollback, Release, Create, InsertAlone,
                  FindTenant, CompareTenant, UpdateTenant, CheckEmail, InsertUser,
                  FindSettings, PlanSettings, WriteSettings, Answer
    <3> QED
      BY <3>1
  <2> QED
    BY <2>1, <2>2
<1>2. ASSUME NEW in \in Inputs, Receive(c, in)
      PROVE  StepsLeft(c)' < StepsLeft(c)
  <2>1. /\ pc[c] = "idle"
        /\ pc'[c] \in {"connecting", "creating", "findingTenant", "checkingEmail", "finding"}
    BY <1>2, InputFields DEF Receive
  <2> QED
    BY <2>1 DEF StepsLeft
<1>3. CASE Connect(c) \/ Begin(c) \/ CheckDomain(c) \/ InsertTenant(c)
  <2>1. \/ pc[c] = "connecting" /\ pc'[c] = "beginning"
        \/ pc[c] = "beginning" /\ pc'[c] = "checkingDomain"
        \/ pc[c] = "checkingDomain" /\ pc'[c] \in {"rollingBack", "insertingTenant"}
        \/ pc[c] = "insertingTenant" /\ pc'[c] \in {"rollingBack", "checkingAdmin"}
    BY <1>3 DEF Connect, Begin, CheckDomain, InsertTenant
  <2> QED
    BY <2>1 DEF StepsLeft
<1>4. CASE CheckAdmin(c) \/ InsertAdmin(c) \/ InsertSettings(c) \/ Commit(c)
  <2>1. \/ pc[c] = "checkingAdmin" /\ pc'[c] = "insertingAdmin"
        \/ pc[c] = "insertingAdmin" /\ pc'[c] = "insertingSettings"
        \/ pc[c] = "insertingSettings" /\ pc'[c] = "committing"
        \/ pc[c] = "committing" /\ pc'[c] \in {"rollingBack", "releasing"}
    BY <1>4 DEF CheckAdmin, InsertAdmin, InsertSettings, Commit
  <2> QED
    BY <2>1 DEF StepsLeft
<1>5. CASE StatementFails(c) \/ Rollback(c)
  <2>1. \/ pc[c] \in InTry /\ pc'[c] = "rollingBack"
        \/ pc[c] = "rollingBack" /\ pc'[c] = "releasing"
    BY <1>5 DEF StatementFails, Rollback
  <2> QED
    BY <2>1 DEF StepsLeft, InTry
<1>8. CASE Create(c) \/ InsertAlone(c) \/ FindTenant(c) \/ CompareTenant(c)
           \/ UpdateTenant(c)
  <2>1. \/ pc[c] = "creating" /\ pc'[c] = "inserting"
        \/ pc[c] = "inserting" /\ pc'[c] \in {"409", "answering"}
        \/ pc[c] = "findingTenant" /\ pc'[c] \in {"404", "comparing"}
        \/ pc[c] = "comparing" /\ pc'[c] \in {"updating", "answering"}
        \/ pc[c] = "updating" /\ pc'[c] \in {"409", "answering"}
    BY <1>8 DEF Create, InsertAlone, FindTenant, CompareTenant, UpdateTenant
  <2> QED
    BY <2>1 DEF StepsLeft
<1>6. CASE CheckEmail(c) \/ InsertUser(c) \/ FindSettings(c)
           \/ PlanSettings(c) \/ WriteSettings(c)
  <2>1. \/ pc[c] = "checkingEmail" /\ pc'[c] \in {"400", "insertingUser"}
        \/ pc[c] = "insertingUser" /\ pc'[c] \in {"409", "500", "answering"}
        \/ pc[c] = "finding" /\ pc'[c] \in {"404", "planning"}
        \/ pc[c] = "planning" /\ pc'[c] \in {"writing", "answering"}
        \/ pc[c] = "writing" /\ pc'[c] = "answering"
    BY <1>6 DEF CheckEmail, InsertUser, FindSettings, PlanSettings, WriteSettings
  <2> QED
    BY <2>1 DEF StepsLeft
<1>7. CASE PoolTimeout(c) \/ BeginFails(c) \/ Release(c) \/ Answer(c) \/ Fail(c) \/ Crash(c)
  <2>1. pc[c] \in Awaiting /\ pc'[c] \in Final
    BY <1>7 DEF PoolTimeout, BeginFails, Release, Answer, Fail, Crash, Awaiting, Final,
                Autocommitted
  <2>2. StepsLeft(c)' = 0
    BY <2>1 DEF StepsLeft, Final
  <2>3. StepsLeft(c) > 0
    BY <2>1 DEF StepsLeft, Awaiting, Autocommitted, InTry
  <2> QED
    BY <2>2, <2>3
<1> QED
  BY <1>1, <1>2, <1>3, <1>4, <1>5, <1>6, <1>7, <1>8 DEF Step

\* No call goes round: every step brings it nearer to its answer, at most
\* twelve steps away, rolling back and releasing included.  With the absence
\* of circular waits and the fairness of its steps this is EveryCallEnds.
THEOREM CallsTakeBoundedSteps ==
    Spec => /\ [](\A c \in Calls : StepsLeft(c) \in 0..12)
            /\ [][\A c \in Calls : pc'[c] # pc[c] => StepsLeft(c)' < StepsLeft(c)]_vars
<1>1. TypeInv => \A c \in Calls : StepsLeft(c) \in 0..12
  BY DEF StepsLeft
<1>2. TypeInv /\ [Next]_vars
         => [\A c \in Calls : pc'[c] # pc[c] => StepsLeft(c)' < StepsLeft(c)]_vars
  BY StepsAreTaken
<1>3. Spec => []TypeInv
  BY TypeInit, TypeStep, PTL DEF Spec
<1> QED
  BY <1>1, <1>2, <1>3, PTL DEF Spec

=============================================================================
