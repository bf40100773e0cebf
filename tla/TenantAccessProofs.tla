------------------------- MODULE TenantAccessProofs -------------------------
(***************************************************************************)
(* What TenantAccess guarantees for any number of tenants, users and      *)
(* requests.                                                               *)
(*                                                                         *)
(* A request is admitted on three looks at two tables.  What each look     *)
(* found is no longer true when the handler runs, and so the invariant     *)
(* speaks of what the request has seen: seen[r] only grows, and always     *)
(* holds the present (Sighted).  Of one role what was seen of a user stays *)
(* true, that of super admins: who is registered as one remains one, and   *)
(* nobody else becomes one (SuperInv).                                     *)
(***************************************************************************)
EXTENDS TenantAccess, TLAPS

\* Where a request can be depends on what it asks for.
Placed(r) ==
    /\ pc[r] # "idle" => request[r] \in Inputs
    /\ pc[r] = "middleware" => Op(r) \in Gated
    /\ pc[r] \in {"guard", "strategy"} => Op(r) \in Guarded
    /\ pc[r] = "handling" => Op(r) = "use"
    /\ pc[r] = "loading" => Op(r) \notin {"use", "provision", "create"}
    /\ pc[r] = "signing" => Op(r) = "login"
    /\ pc[r] = "planning" => Op(r) \in {"setRole", "update", "setStatus"}
    /\ pc[r] = "writing" => Op(r) \in {"setRole", "update", "setStatus", "remove"}
    /\ pc[r] = "inserting" => Op(r) \in {"register", "invite", "provision", "create"}

\* The rows of the table that r changes
Rows(r) == IF Op(r) = "setRole" THEN UserRows ELSE TenantRows

\* An entity is of the table it is saved to, and its row is there.
Loaded(r) ==
    /\ pc[r] = "signing" => entity[r] \in UserRows
    /\ pc[r] \in {"planning", "writing"} => entity[r] \in Rows(r) /\ Target(r) \in Rows(r)
    /\ pc[r] = "inserting" /\ Op(r) \in {"register", "invite"} => entity[r] \in UserRows

TypeInv == TypeOK /\ \A r \in Requests : Placed(r) /\ Loaded(r)

-----------------------------------------------------------------------------
(* Inputs and rows.                                                        *)

LEMMA InputFields ==
    ASSUME NEW in \in Inputs
    PROVE  /\ in.op \in Gated \cup {"create", "update", "remove"}
           /\ in.op \in Gated => in.tenant \in Tenants
           /\ in.op \in Guarded => in.token \in Tokens
           /\ in.op \in {"setRole", "invite", "login", "register"} => in.target \in Users
           /\ in.op \in {"setRole", "invite", "register"} => in.role \in Roles
           /\ in.op \in {"invite", "register"} => HomeOf[in.target] = in.tenant
           /\ in.op = "provision" => in.admin \in Users /\ HomeOf[in.admin] = in.target
           /\ in.op \in {"setStatus", "provision", "create", "update", "remove"} =>
                 in.target \in Tenants
           /\ in.op \in {"setStatus", "create"} => in.status \in Statuses
           /\ in.op = "update" => in.status \in Statuses \cup {""}
BY DEF Inputs, Gated, Guarded

LEMMA ActorIsUser ==
    ASSUME NEW r \in Requests, request[r] \in Inputs, Op(r) \in Gated
    PROVE  request[r].tenant \in Tenants /\ Actor(r) \in Users
BY InputFields DEF Actor, Op, Gated, Guarded, Tokens

LEMMA SightType ==
    ASSUME NEW r \in Requests, TypeOK, request[r] \in Inputs
    PROVE  Sight(r) \subseteq Sights
BY ActorIsUser DEF Sight, Sights, TypeOK, Tenant

\* The UPDATE of a row leaves a row.
LEMMA UserUpdate ==
    ASSUME NEW r \in Requests, Target(r) \in UserRows, entity[r] \in UserRows
    PROVE  /\ Updated(r) \in UserRows
           /\ Updated(r) # Target(r) => Updated(r).role = entity[r].role
BY DEF UserRows, Updated

LEMMA TenantUpdate ==
    ASSUME NEW r \in Requests, Target(r) \in TenantRows, entity[r] \in TenantRows
    PROVE  /\ Updated(r) \in TenantRows
           /\ Updated(r).status = IF "status" \in dirty[r] THEN entity[r].status
                                                           ELSE Target(r).status
BY DEF TenantRows, Updated

LEMMA ColumnsOfRows ==
    ASSUME NEW row \in TenantRows \cup UserRows
    PROVE  DOMAIN row \subseteq Columns
BY DEF TenantRows, UserRows, Columns

LEMMA AssignedType ==
    ASSUME NEW r \in Requests, TypeOK, request[r] \in Inputs,
           Op(r) \in {"update", "setStatus"}, tenants[request[r].target] \in TenantRows
    PROVE  /\ Assigned(r) \in TenantRows
           /\ request[r].status # "" => Assigned(r).status = request[r].status
           /\ request[r].status = "" =>
                 Assigned(r).status = tenants[request[r].target].status
<1>1. request[r].status \in Statuses \cup {""}
  BY InputFields DEF Op
<1> QED
  BY <1>1 DEF Assigned, TenantRows

\* A tenant that is found is there, and so is a user.
LEMMA NobodyIsNoRow ==
    /\ NoTenant \notin TenantRows
    /\ NoUser \notin UserRows
<1>1. NoTenant.status \notin Statuses
  BY DEF NoTenant, Statuses
<1>2. NoUser.role \notin Roles
  BY TenantAccessAssumption DEF NoUser
<1> QED
  BY <1>1, <1>2 DEF TenantRows, UserRows

\* A row that is there stays there.
RowsStay ==
    /\ \A t \in Tenants : tenants[t] \in TenantRows => tenants'[t] \in TenantRows
    /\ \A u \in Users : users[u] \in UserRows => users'[u] \in UserRows

-----------------------------------------------------------------------------
(* Types.                                                                  *)

LEMMA TypeInit ==
    ASSUME Init
    PROVE  TypeInv
<1>1. /\ tenants \in [Tenants -> TenantRows \cup {NoTenant}]
      /\ users \in [Users -> UserRows \cup {NoUser}]
  BY TenantAccessAssumption DEF Init
<1>2. tokens \subseteq Tokens
  <2>1. \A u \in Users : users[u] # NoUser => users[u].role \in Roles
    BY <1>1 DEF UserRows
  <2> QED
    BY <2>1 DEF Init, Tokens
<1>3. TypeOK
  BY <1>1, <1>2 DEF Init, TypeOK
<1> QED
  BY <1>3 DEF Init, TypeInv, Placed, Loaded

\* p takes a step that may change the tables.
Saves(p) ==
    WriteUser(p) \/ WriteTenant(p) \/ InsertUser(p) \/ InsertTenant(p) \/ Provision(p)

LEMMA SavedTypes ==
    ASSUME TypeInv, NEW p \in Requests, Saves(p)
    PROVE  /\ users' \in [Users -> UserRows \cup {NoUser}]
           /\ tenants' \in [Tenants -> TenantRows \cup {NoTenant}]
           /\ during' \in [Tenants -> SUBSET Requests]
           /\ RowsStay
<1> USE DEF TypeInv, TypeOK
<1>1. CASE WriteUser(p)
  <2>1. request[p].target \in Users /\ entity[p] \in UserRows /\ Target(p) \in UserRows
    BY <1>1, InputFields DEF WriteUser, Loaded, Placed, Rows, Op
  <2>2. Updated(p) \in UserRows
    BY <2>1, UserUpdate
  <2> QED
    BY <1>1, <2>1, <2>2 DEF WriteUser, RowsStay
<1>2. CASE WriteTenant(p)
  <2>1. request[p].target \in Tenants /\ entity[p] \in TenantRows /\ Target(p) \in TenantRows
    BY <1>2, InputFields DEF WriteTenant, Loaded, Placed, Rows, Op
  <2>2. Updated(p) \in TenantRows
    BY <2>1, TenantUpdate
  <2> QED
    BY <1>2, <2>1, <2>2 DEF WriteTenant, RowsStay
<1>3. CASE InsertUser(p)
  <2>1. entity[p] \in UserRows
    BY <1>3 DEF InsertUser, Loaded
  <2> QED
    BY <1>3, <2>1 DEF InsertUser, RowsStay
<1>4. CASE InsertTenant(p)
  <2>1. [status |-> request[p].status, live |-> TRUE] \in TenantRows
    BY <1>4, InputFields DEF InsertTenant, Placed, TenantRows, Op
  <2> QED
    BY <1>4, <2>1 DEF InsertTenant, RowsStay
<1>5. CASE Provision(p)
  <2>1. [status |-> "active", live |-> TRUE] \in TenantRows
    BY DEF TenantRows, Statuses
  <2>2. [role |-> "tenant_admin"] \in UserRows
    BY TenantAccessAssumption DEF UserRows
  <2> QED
    BY <1>5, <2>1, <2>2 DEF Provision, RowsStay
<1> QED
  BY <1>1, <1>2, <1>3, <1>4, <1>5 DEF Saves

LEMMA TypeStep ==
    ASSUME TypeInv, [Next]_vars
    PROVE  TypeInv'
<1> USE DEF TypeInv
<1>1. CASE UNCHANGED vars
  BY <1>1 DEF vars, TypeOK, Placed, Loaded, Rows, Target, Op
<1>2. ASSUME NEW p \in Requests, NEW in \in Inputs, Receive(p, in)
      PROVE  TypeInv'
  <2>1. in.op \in Gated \cup {"create", "update", "remove"}
    BY InputFields
  <2>2. request' = [request EXCEPT ![p] = in] /\ request'[p] = in
        /\ pc' = [pc EXCEPT ![p] = IF in.op \in Gated THEN "middleware" ELSE Entry(in.op)]
        /\ seen' = [seen EXCEPT ![p] = Sight(p)']
        /\ UNCHANGED <<tenants, users, tokens, entity, dirty, during>>
    BY <1>2 DEF Receive, Goto, TypeOK
  <2>3. Sight(p)' \subseteq Sights
    <3>1. in.op \in Gated => in.tenant \in Tenants /\ Actor(p)' \in Users
      BY <2>2, InputFields DEF Actor, Op, Gated, Guarded, Tokens
    <3> QED
      BY <2>2, <3>1 DEF Sight, Sights, TypeOK, Tenant, Op
  <2>4. \/ in.op \in Gated /\ pc'[p] = "middleware"
        \/ in.op = "create" /\ pc'[p] = "inserting"
        \/ in.op \in {"update", "remove"} /\ pc'[p] = "loading"
    BY <2>1, <2>2 DEF Entry, Gated, TypeOK
  <2>5. TypeOK'
    <3>1. pc'[p] \in Waiting
      BY <2>4 DEF Waiting
    <3> QED
      BY <2>2, <2>3, <3>1 DEF TypeOK
  <2>6. ASSUME NEW r \in Requests
        PROVE  (Placed(r) /\ Loaded(r))'
    <3>1. CASE r = p
      BY <2>2, <2>4, <3>1 DEF Placed, Loaded, Op, Gated
    <3>2. CASE r # p
      <4>1. /\ pc'[r] = pc[r] /\ request'[r] = request[r] /\ entity'[r] = entity[r]
            /\ tenants' = tenants /\ users' = users
        BY <2>2, <3>2 DEF TypeOK
      <4> QED
        BY <4>1 DEF Placed, Loaded, Rows, Target, Op
    <3> QED
      BY <3>1, <3>2
  <2> QED
    BY <2>5, <2>6
<1>3. ASSUME NEW p \in Requests, Middleware(p) \/ Guard(p) \/ Authenticate(p)
                \/ Handle(p) \/ Fail(p)
      PROVE  TypeInv'
  <2>1. UNCHANGED <<tenants, users, tokens, request, entity, dirty, history>>
    BY <1>3 DEF Middleware, Guard, Authenticate, Handle, Fail
  <2>2. PICK label : /\ pc' = [pc EXCEPT ![p] = label]
                     /\ label \in {"guard", "strategy", "handling", "loading",
                                   "inserting"} \cup Final
                     /\ label \in {"guard", "strategy"} => Op(p) \in Guarded
                     /\ label = "handling" => Op(p) = "use"
                     /\ label = "loading" => Op(p) \notin {"use", "provision", "create"}
                     /\ label = "inserting" => Op(p) = "provision"
                     /\ pc[p] # "idle"
    <3>1. CASE Middleware(p)
      BY <3>1 DEF Middleware, Goto, Final, Placed, Guarded, Gated, Entry
    <3>2. CASE Guard(p)
      BY <3>2 DEF Guard, Goto, Final, Placed
    <3>3. CASE Authenticate(p)
      BY <3>3 DEF Authenticate, Goto, Final, Placed, Guarded, Entry
    <3>4. CASE Handle(p) \/ Fail(p)
      BY <3>4 DEF Handle, Fail, Goto, Final, UnderWay, Waiting
    <3> QED
      BY <1>3, <3>1, <3>2, <3>3, <3>4
  <2>3. TypeOK'
    BY <2>1, <2>2 DEF TypeOK, history, Waiting
  <2>4. ASSUME NEW r \in Requests
        PROVE  (Placed(r) /\ Loaded(r))'
    BY <2>1, <2>2 DEF TypeOK, Placed, Loaded, Rows, Target, Op, Final
  <2> QED
    BY <2>3, <2>4
<1>4. ASSUME NEW p \in Requests, Identify(p) \/ LoadNewcomer(p) \/ LoadUser(p)
                \/ LoadTenant(p) \/ LoadRemoved(p)
      PROVE  TypeInv'
  <2>1. /\ UNCHANGED <<tenants, users, tokens, request, history>>
        /\ pc[p] = "loading" /\ request[p] \in Inputs
        /\ dirty' \in [Requests -> SUBSET Columns]
    BY <1>4 DEF Identify, LoadNewcomer, LoadUser, LoadTenant, LoadRemoved, Placed, TypeOK,
                Columns
  <2>2. PICK label, row :
           /\ pc' = [pc EXCEPT ![p] = label]
           /\ entity' = [entity EXCEPT ![p] = row]
           /\ \/ label \in Final /\ row = entity[p]
              \/ /\ label = "signing" /\ Op(p) = "login"
                 /\ row \in UserRows
              \/ /\ label = "inserting" /\ Op(p) \in {"register", "invite"}
                 /\ row \in UserRows
              \/ /\ label = "planning" /\ Op(p) = "setRole"
                 /\ row \in UserRows /\ users[request[p].target] \in UserRows
              \/ /\ label = "planning" /\ Op(p) \in {"update", "setStatus"}
                 /\ row \in TenantRows /\ tenants[request[p].target] \in TenantRows
              \/ /\ label = "writing" /\ Op(p) = "remove"
                 /\ row \in TenantRows /\ tenants[request[p].target] \in TenantRows
    <3>1. CASE Identify(p)
      <4>1. Actor(p) \in Users
        BY <2>1, <3>1, ActorIsUser DEF Identify, Gated
      <4>2. FindsUser(p, Actor(p)) => users[Actor(p)] \in UserRows
        BY <4>1 DEF FindsUser, Exists, TypeOK
      <4> QED
        BY <3>1, <4>2 DEF Identify, Goto, Final, TypeOK
    <3>2. CASE LoadNewcomer(p)
      <4>1. [role |-> request[p].role] \in UserRows
        BY <2>1, <3>2, InputFields DEF LoadNewcomer, UserRows, Op
      <4> QED
        BY <3>2, <4>1 DEF LoadNewcomer, Goto, Final, TypeOK
    <3>3. CASE LoadUser(p)
      <4>1. [role |-> request[p].role] \in UserRows /\ request[p].target \in Users
        BY <2>1, <3>3, InputFields DEF LoadUser, UserRows, Op
      <4>2. FindsUser(p, request[p].target) => users[request[p].target] \in UserRows
        BY <4>1 DEF FindsUser, Exists, TypeOK
      <4> QED
        BY <3>3, <4>1, <4>2 DEF LoadUser, Goto, Final, TypeOK
    <3>4. CASE LoadTenant(p) \/ LoadRemoved(p)
      <4>1. request[p].target \in Tenants
        BY <2>1, <3>4, InputFields DEF LoadTenant, LoadRemoved, Op
      <4>2. tenants[request[p].target].live => tenants[request[p].target] \in TenantRows
        BY <4>1 DEF TypeOK, NoTenant
      <4>3. CASE LoadTenant(p)
        <5>1. tenants[request[p].target] \in TenantRows => Assigned(p) \in TenantRows
          BY <2>1, <4>3, AssignedType DEF LoadTenant
        <5>2. CASE tenants[request[p].target].live
          BY <4>2, <4>3, <5>1, <5>2 DEF LoadTenant, Goto
        <5>3. CASE ~tenants[request[p].target].live
          BY <4>3, <5>3 DEF LoadTenant, Goto, Final, TypeOK
        <5> QED
          BY <5>2, <5>3
      <4>4. CASE LoadRemoved(p)
        <5>1. tenants[request[p].target] \in TenantRows =>
                 [tenants[request[p].target] EXCEPT !.live = FALSE] \in TenantRows
          BY DEF TenantRows
        <5> QED
          BY <4>2, <4>4, <5>1 DEF LoadRemoved, Goto, Final, TypeOK
      <4> QED
        BY <3>4, <4>3, <4>4
    <3> QED
      BY <1>4, <3>1, <3>2, <3>3, <3>4
  <2>3. row \in TenantRows \cup UserRows \cup {NoEntity}
    BY <2>2 DEF TypeOK
  <2>4. TypeOK'
    BY <2>1, <2>2, <2>3 DEF TypeOK, history, Waiting, Final
  <2>5. ASSUME NEW r \in Requests
        PROVE  (Placed(r) /\ Loaded(r))'
    BY <2>1, <2>2 DEF TypeOK, Placed, Loaded, Rows, Target, Op, Final
  <2> QED
    BY <2>4, <2>5
<1>5. ASSUME NEW p \in Requests, Sign(p)
      PROVE  TypeInv'
  <2>1. [user |-> Actor(p), role |-> entity[p].role] \in Tokens
    BY <1>5, ActorIsUser DEF Sign, Placed, Loaded, Gated, Tokens, UserRows
  <2>2. TypeOK'
    BY <1>5, <2>1 DEF Sign, Goto, TypeOK, history, Final
  <2>3. ASSUME NEW r \in Requests
        PROVE  (Placed(r) /\ Loaded(r))'
    BY <1>5 DEF Sign, Goto, TypeOK, Placed, Loaded, Rows, Target, Op
  <2> QED
    BY <2>2, <2>3
<1>6. ASSUME NEW p \in Requests, Plan(p)
      PROVE  TypeInv'
  <2>1. entity[p] \in TenantRows \cup UserRows
    BY <1>6 DEF Plan, Loaded, Rows
  <2>2. {c \in DOMAIN entity[p] : entity[p][c] # Target(p)[c]} \subseteq Columns
    BY <2>1, ColumnsOfRows
  <2>3. TypeOK'
    BY <1>6, <2>2 DEF Plan, Goto, TypeOK, history, Waiting
  <2>4. ASSUME NEW r \in Requests
        PROVE  (Placed(r) /\ Loaded(r))'
    BY <1>6 DEF Plan, Goto, TypeOK, Placed, Loaded, Rows, Target, Op
  <2> QED
    BY <2>3, <2>4
<1>7. ASSUME NEW p \in Requests, Saves(p)
      PROVE  TypeInv'
  <2>1. /\ request[p] \in Inputs /\ pc[p] \in {"writing", "inserting"}
        /\ UNCHANGED <<tokens, request, entity, dirty>>
        /\ Notice
    BY <1>7 DEF Saves, WriteUser, WriteTenant, InsertUser, InsertTenant, Provision, Placed
  <2>2. PICK answer \in Final : pc' = [pc EXCEPT ![p] = answer]
    BY <1>7 DEF Saves, WriteUser, WriteTenant, InsertUser, InsertTenant, Provision, Goto, Final
  <2>3. /\ users' \in [Users -> UserRows \cup {NoUser}]
        /\ tenants' \in [Tenants -> TenantRows \cup {NoTenant}]
        /\ during' \in [Tenants -> SUBSET Requests]
        /\ RowsStay
    BY <1>7, SavedTypes
  <2>4. seen' \in [Requests -> SUBSET Sights]
    <3>1. ASSUME NEW r \in Requests, UnderWay(r)
          PROVE  Sight(r)' \subseteq Sights
      <4>1. request[r] \in Inputs
        BY <3>1 DEF UnderWay, Waiting, Placed
      <4>2. Op(r) \in Gated => request[r].tenant \in Tenants /\ Actor(r) \in Users
        BY <4>1, ActorIsUser
      <4> QED
        BY <2>1, <2>3, <4>2 DEF Sight, Sights, Tenant, Op, Actor
    <3> QED
      BY <2>1, <3>1 DEF Notice, TypeOK
  <2>5. TypeOK'
    BY <2>1, <2>2, <2>3, <2>4 DEF TypeOK
  <2>6. ASSUME NEW r \in Requests
        PROVE  (Placed(r) /\ Loaded(r))'
    <3>1. CASE r = p
      <4>1. pc'[r] \in Final /\ request'[r] = request[r] /\ request[r] \in Inputs
        BY <2>1, <2>2, <3>1 DEF TypeOK
      <4> QED
        BY <4>1 DEF Placed, Loaded, Op, Final
    <3>2. CASE r # p
      <4>1. pc'[r] = pc[r] /\ request'[r] = request[r] /\ entity'[r] = entity[r]
        BY <2>1, <2>2, <3>2 DEF TypeOK
      <4>2. pc[r] \in {"planning", "writing"} => Target(r)' \in Rows(r)
        <5>1. CASE pc[r] \in {"planning", "writing"} /\ Op(r) = "setRole"
          <6>1. request[r].target \in Users /\ users[request[r].target] \in UserRows
            BY <5>1, InputFields DEF Placed, Loaded, Rows, Target, Op
          <6> QED
            BY <2>3, <4>1, <5>1, <6>1 DEF RowsStay, Target, Rows, Op
        <5>2. CASE pc[r] \in {"planning", "writing"} /\ Op(r) # "setRole"
          <6>1. request[r].target \in Tenants /\ tenants[request[r].target] \in TenantRows
            BY <5>2, InputFields DEF Placed, Loaded, Rows, Target, Op
          <6> QED
            BY <2>3, <4>1, <5>2, <6>1 DEF RowsStay, Target, Rows, Op
        <5> QED
          BY <5>1, <5>2
      <4> QED
        BY <4>1, <4>2 DEF Placed, Loaded, Rows, Op
    <3> QED
      BY <3>1, <3>2
  <2> QED
    BY <2>5, <2>6
<1>8. CASE Done
  BY <1>1, <1>8 DEF Done
<1> QED
  BY <1>1, <1>2, <1>3, <1>4, <1>5, <1>6, <1>7, <1>8 DEF Next, Step, Saves

\* Every variable of the checks, the handlers and the tables keeps its type.
THEOREM TenantAccessTypes == Spec => []TypeOK
<1>1. TypeInv => TypeOK
  BY DEF TypeInv
<1> QED
  BY <1>1, TypeInit, TypeStep, PTL DEF Spec

-----------------------------------------------------------------------------
(* What a request saw.                                                     *)

\* What the checks of r would find now is among what r has seen.
Sighted(r) == UnderWay(r) => Sight(r) \subseteq seen[r]

SawActive(r) == \E s \in seen[r] : s.tenant.live /\ s.tenant.status = "active"

\* r got past the middleware.
Ready(r) == pc[r] \in {"guard", "strategy"} => SawActive(r)

Entitled(r) ==
    Admitted(r) => /\ HomeOf[Actor(r)] = request[r].tenant
                   /\ SawActive(r)
                   /\ \E s \in seen[r] : s.user.role \in Required(r)

Barred(r) ==
    /\ pc[r] = "404" /\ Op(r) \in {"use", "login", "register", "invite", "provision"} =>
          \E s \in seen[r] : ~s.tenant.live \/ s.tenant.status = "archived"
    /\ pc[r] = "403" =>
          \/ \E s \in seen[r] : \/ ~s.tenant.live
                                \/ s.tenant.status \in {"pending", "suspended"}
          \/ /\ Op(r) \in Guarded
             /\ \/ HomeOf[Actor(r)] # request[r].tenant
                \/ \E s \in seen[r] : s.user.role \notin Required(r)

SightInv == \A r \in Requests : Sighted(r) /\ Ready(r) /\ Entitled(r) /\ Barred(r)

\* What a request that has begun asks for is fixed, and what it saw stays seen.
LEMMA SeenGrows ==
    ASSUME TypeInv, [Next]_vars, NEW r \in Requests, pc[r] # "idle"
    PROVE  request'[r] = request[r] /\ seen[r] \subseteq seen'[r]
<1> USE DEF TypeInv, TypeOK
<1>1. CASE UNCHANGED vars
  BY <1>1 DEF vars
<1>2. ASSUME NEW p \in Requests, NEW in \in Inputs, Receive(p, in)
      PROVE  request'[r] = request[r] /\ seen[r] \subseteq seen'[r]
  BY <1>2 DEF Receive
<1>3. ASSUME NEW p \in Requests, Step(p), UNCHANGED <<request, history>>
      PROVE  request'[r] = request[r] /\ seen[r] \subseteq seen'[r]
  BY <1>3 DEF history
<1>4. ASSUME NEW p \in Requests, Saves(p)
      PROVE  request'[r] = request[r] /\ seen[r] \subseteq seen'[r]
  BY <1>4 DEF Saves, WriteUser, WriteTenant, InsertUser, InsertTenant, Provision, Notice
<1>5. ASSUME NEW p \in Requests, Step(p)
      PROVE  UNCHANGED <<request, history>> \/ Saves(p)
  BY <1>5 DEF Step, Saves, Middleware, Guard, Authenticate, Handle, Identify, Sign,
              LoadNewcomer, LoadUser, LoadTenant, LoadRemoved, Plan, Fail
<1>6. CASE Done
  BY <1>1, <1>6 DEF Done
<1> QED
  BY <1>1, <1>2, <1>3, <1>4, <1>5, <1>6 DEF Next

LEMMA SightedStep ==
    ASSUME TypeInv, [Next]_vars, NEW r \in Requests, Sighted(r)
    PROVE  Sighted(r)'
<1> USE DEF TypeInv, TypeOK
<1>1. CASE UNCHANGED vars
  BY <1>1 DEF vars, Sighted, UnderWay, Sight, Op, Tenant, Actor
<1>2. ASSUME NEW p \in Requests, NEW in \in Inputs, Receive(p, in)
      PROVE  Sighted(r)'
  <2>1. CASE r = p
    BY <1>2, <2>1 DEF Receive, Sighted
  <2>2. CASE r # p
    BY <1>2, <2>2 DEF Receive, Goto, Sighted, UnderWay, Sight, Op, Tenant, Actor
  <2> QED
    BY <2>1, <2>2
<1>3. ASSUME NEW p \in Requests,
             UNCHANGED <<tenants, users, request, history>>,
             pc[p] \in Waiting \cup {"handling"},
             NEW label, pc' = [pc EXCEPT ![p] = label]
      PROVE  Sighted(r)'
  BY <1>3 DEF history, Sighted, UnderWay, Sight, Op, Tenant, Actor
<1>4. ASSUME NEW p \in Requests, Saves(p)
      PROVE  Sighted(r)'
  <2>1. Notice /\ \E answer \in Final : pc' = [pc EXCEPT ![p] = answer]
    BY <1>4 DEF Saves, WriteUser, WriteTenant, InsertUser, InsertTenant, Provision, Goto, Final
  <2>2. UnderWay(r)' => UnderWay(r)
    BY <2>1 DEF UnderWay, Waiting, Final
  <2> QED
    BY <2>1, <2>2 DEF Sighted, Notice
<1>5. ASSUME NEW p \in Requests, Step(p)
      PROVE  \/ /\ UNCHANGED <<tenants, users, request, history>>
                /\ pc[p] \in Waiting \cup {"handling"}
                /\ \E label : pc' = [pc EXCEPT ![p] = label]
             \/ Saves(p)
  BY <1>5 DEF Step, Saves, Middleware, Guard, Authenticate, Handle, Identify, Sign,
              LoadNewcomer, LoadUser, LoadTenant, LoadRemoved, Plan, Fail, Goto, Waiting,
              UnderWay
<1>6. CASE Done
  BY <1>1, <1>6 DEF Done
<1> QED
  BY <1>1, <1>2, <1>3, <1>4, <1>5, <1>6 DEF Next

\* A request moves by its own steps only.
LEMMA OwnSteps ==
    ASSUME TypeInv, [Next]_vars, NEW r \in Requests, pc'[r] # pc[r]
    PROVE  Step(r) \/ \E in \in Inputs : Receive(r, in)
<1> USE DEF TypeInv, TypeOK
<1>1. ASSUME NEW p \in Requests, p # r, Step(p)
      PROVE  FALSE
  BY <1>1 DEF Step, Middleware, Guard, Authenticate, Handle, Identify, Sign, LoadNewcomer,
              LoadUser, LoadTenant, LoadRemoved, Plan, WriteUser, WriteTenant, InsertUser,
              InsertTenant, Provision, Fail, Goto
<1>2. ASSUME NEW p \in Requests, p # r, NEW in \in Inputs, Receive(p, in)
      PROVE  FALSE
  BY <1>2 DEF Receive, Goto
<1> QED
  BY <1>1, <1>2 DEF Next, Done, vars

LEMMA GroundsStep ==
    ASSUME TypeInv, SightInv, [Next]_vars, NEW r \in Requests
    PROVE  (Ready(r) /\ Entitled(r) /\ Barred(r))'
<1> USE DEF TypeInv, TypeOK, SightInv
<1>1. CASE pc'[r] = pc[r]
  <2>1. CASE pc[r] = "idle"
    BY <1>1, <2>1 DEF Ready, Entitled, Barred, Admitted
  <2>2. CASE pc[r] # "idle"
    <3>1. request'[r] = request[r] /\ seen[r] \subseteq seen'[r]
      BY <2>2, SeenGrows
    <3>2. Ready(r)' /\ Entitled(r)'
      BY <1>1, <3>1 DEF Ready, Entitled, Admitted, SawActive, Op, Actor, Required
    <3>3. Barred(r)'
      BY <1>1, <3>1 DEF Barred, Op, Actor, Required
    <3> QED
      BY <3>2, <3>3
  <2> QED
    BY <2>1, <2>2
<1>2. ASSUME NEW in \in Inputs, Receive(r, in)
      PROVE  (Ready(r) /\ Entitled(r) /\ Barred(r))'
  <2>1. /\ pc'[r] \in {"middleware", "loading", "inserting"} /\ request'[r] = in
        /\ pc'[r] # "middleware" => in.op \notin Gated
    BY <1>2 DEF Receive, Goto, Entry, Gated
  <2> QED
    BY <2>1 DEF Ready, Entitled, Barred, Admitted, Op, Gated, Guarded
<1>3. ASSUME Step(r)
      PROVE  (Ready(r) /\ Entitled(r) /\ Barred(r))'
  <2>1. request'[r] = request[r] /\ seen[r] \subseteq seen'[r] /\ pc[r] # "idle"
        /\ UnderWay(r) /\ request[r] \in Inputs
    <3>1. UnderWay(r)
      BY <1>3 DEF Step, Middleware, Guard, Authenticate, Handle, Identify, Sign, LoadNewcomer,
                  LoadUser, LoadTenant, LoadRemoved, Plan, WriteUser, WriteTenant, InsertUser,
                  InsertTenant, Provision, Fail, UnderWay, Waiting
    <3>2. pc[r] # "idle"
      BY <3>1 DEF UnderWay, Waiting
    <3> QED
      BY <3>1, <3>2, SeenGrows DEF Placed
  <2>2. Op(r) \in Gated => [tenant |-> Tenant(r), user |-> users[Actor(r)]] \in seen'[r]
    BY <2>1 DEF Sighted, Sight
  <2>3. SawActive(r) => SawActive(r)'
    BY <2>1 DEF SawActive
  <2>4. /\ Op(r)' = Op(r) /\ Actor(r)' = Actor(r) /\ Required(r)' = Required(r)
    BY <2>1 DEF Op, Actor, Required
  <2>5. CASE Middleware(r)
    <3>1. Op(r) \in Gated /\ Tenant(r) \in TenantRows \cup {NoTenant}
      BY <2>1, <2>5, ActorIsUser DEF Middleware, Placed, Tenant
    <3>2. CASE AdmittedTenant(r)
      <4>1. SawActive(r)'
        BY <2>2, <3>1, <3>2 DEF SawActive, AdmittedTenant
      <4>2. /\ pc'[r] \in {"guard", "loading", "inserting", "handling"}
            /\ pc'[r] # "guard" => Op(r) \notin Guarded
        BY <2>5, <3>2 DEF Middleware, Goto, AdmittedTenant, Entry
      <4> QED
        BY <2>4, <4>1, <4>2 DEF Ready, Entitled, Barred, Admitted
    <3>3. CASE ~AdmittedTenant(r)
      <4>1. \/ pc'[r] = "404" /\ (~Tenant(r).live \/ Tenant(r).status = "archived")
            \/ pc'[r] = "403" /\ Tenant(r).status \in {"pending", "suspended"}
        BY <2>5, <3>1, <3>3 DEF Middleware, Goto, AdmittedTenant, TenantRows, Statuses, NoTenant
      <4> QED
        BY <2>2, <3>1, <4>1 DEF Ready, Entitled, Barred, Admitted
    <3> QED
      BY <3>2, <3>3
  <2>6. CASE Guard(r)
    <3>1. Op(r) \in Gated /\ SawActive(r)'
      BY <2>3, <2>6 DEF Guard, Placed, Gated, Guarded, Ready
    <3>2. pc'[r] = "strategy" \/ (pc'[r] = "403" /\ ~Tenant(r).live)
      BY <2>6 DEF Guard, Goto
    <3> QED
      BY <2>2, <3>1, <3>2 DEF Ready, Entitled, Barred, Admitted
  <2>7. CASE Authenticate(r)
    <3>1. Op(r) \in Guarded /\ Op(r) \in Gated /\ SawActive(r)'
          /\ Actor(r) = request[r].token.user
      BY <2>3, <2>7 DEF Authenticate, Placed, Gated, Guarded, Ready, Actor
    <3>2. CASE pc'[r] = "401"
      BY <3>2 DEF Ready, Entitled, Barred, Admitted
    <3>3. CASE pc'[r] = "403" /\ HomeOf[Actor(r)] # request[r].tenant
      BY <2>1, <2>4, <3>1, <3>3 DEF Ready, Entitled, Barred, Admitted
    <3>4. CASE pc'[r] = "403" /\ users[Actor(r)].role \notin Required(r)
      BY <2>2, <2>4, <3>1, <3>4 DEF Ready, Entitled, Barred, Admitted
    <3>5. CASE /\ pc'[r] \in {"handling", "loading", "inserting"}
               /\ HomeOf[Actor(r)] = request[r].tenant
               /\ users[Actor(r)].role \in Required(r)
      BY <2>1, <2>2, <2>4, <3>1, <3>5 DEF Ready, Entitled, Barred, Admitted
    <3> QED
      BY <2>7, <3>1, <3>2, <3>3, <3>4, <3>5 DEF Authenticate, Goto, HasRole, Entry
  <2>8. CASE \/ Handle(r) \/ LoadUser(r) \/ LoadTenant(r) \/ LoadRemoved(r) \/ Plan(r)
             \/ Fail(r) \/ Identify(r) \/ Sign(r) \/ LoadNewcomer(r) \/ Saves(r)
    <3>1. /\ pc'[r] \notin {"guard", "strategy", "403"}
          /\ pc'[r] = "404" => Op(r) \notin {"use", "login", "register", "invite", "provision"}
      BY <2>8 DEF Handle, LoadUser, LoadTenant, LoadRemoved, Plan, Fail, Identify, Sign,
                  LoadNewcomer, Saves, WriteUser, WriteTenant, InsertUser, InsertTenant,
                  Provision, Goto
    <3>2. Admitted(r)' => Admitted(r)
      BY <2>4, <2>8 DEF Handle, LoadUser, LoadTenant, LoadRemoved, Plan, Fail, Identify, Sign,
                  LoadNewcomer, Saves, WriteUser, WriteTenant, InsertUser, InsertTenant,
                  Provision, Goto, Admitted, Guarded, Placed
    <3> QED
      BY <2>1, <2>3, <2>4, <3>1, <3>2 DEF Ready, Entitled, Barred
  <2> QED
    BY <1>3, <2>5, <2>6, <2>7, <2>8 DEF Step, Saves
<1> QED
  BY <1>1, <1>2, <1>3, OwnSteps

LEMMA SightInit ==
    ASSUME Init
    PROVE  SightInv
BY DEF Init, SightInv, Sighted, Ready, Entitled, Barred, Admitted, UnderWay, Waiting

LEMMA SightStep ==
    ASSUME TypeInv, SightInv, [Next]_vars
    PROVE  SightInv'
BY SightedStep, GroundsStep DEF SightInv

\* A request that reaches its handler was entitled to while it was under way.
THEOREM NobodyEntersOnThePast == Spec => []AdmittedOnGrounds
<1>1. SightInv => AdmittedOnGrounds
  BY DEF SightInv, Entitled, SawActive, AdmittedOnGrounds
<1> QED
  BY <1>1, TypeInit, TypeStep, SightInit, SightStep, PTL DEF Spec

\* A request that the checks turn away was barred while it was under way.
THEOREM NobodyIsBarredForThePast == Spec => []RefusedOnGrounds
<1>1. SightInv => RefusedOnGrounds
  BY DEF SightInv, Barred, RefusedOnGrounds
<1> QED
  BY <1>1, TypeInit, TypeStep, SightInit, SightStep, PTL DEF Spec

-----------------------------------------------------------------------------
(* What the handlers change.                                               *)

\* The role of a user, read two awaits before the UPDATE, cannot have become
\* super_admin since; a new user will have the role that was asked for; and
\* whatever a status has become since, a request that would write another one
\* without being asked has overlapped the change.
EditOK(r) ==
    /\ pc[r] \in {"planning", "writing"} /\ Op(r) = "setRole" =>
          /\ HomeOf[request[r].target] = request[r].tenant
          /\ "super_admin" \notin {users[request[r].target].role, entity[r].role}
    /\ pc[r] \in {"planning", "writing"} /\ Op(r) \in {"update", "setStatus"} =>
          \/ request[r].status # "" /\ entity[r].status = request[r].status
          \/ r \in during[request[r].target]
          \/ pc[r] = "planning" /\ entity[r].status = tenants[request[r].target].status
          \/ pc[r] = "writing" /\ "status" \notin dirty[r]
    /\ pc[r] = "writing" /\ Op(r) = "remove" => "status" \notin dirty[r]
    /\ pc[r] = "inserting" /\ Op(r) \in {"register", "invite"} =>
          entity[r].role = request[r].role
    /\ pc[r] = "inserting" /\ Op(r) = "invite" => request[r].role # "super_admin"

EditInv == \A r \in Requests : EditOK(r)

\* p writes the role of u, of whom there is a row, or makes the row.
Gives(p, u) ==
    \/ /\ Op(p) = "setRole" /\ WriteUser(p) /\ u = request[p].target
       /\ users[u] # NoUser
       /\ "super_admin" \notin {users[u].role, users'[u].role}
    \/ /\ Op(p) = "invite" /\ InsertUser(p) /\ u = request[p].target
       /\ users[u] = NoUser /\ users'[u].role # "super_admin"
    \/ /\ Op(p) = "register" /\ InsertUser(p) /\ u = request[p].target
       /\ users[u] = NoUser /\ users'[u].role = request[p].role
    \/ /\ Op(p) = "provision" /\ Provision(p) /\ u = request[p].admin
       /\ users[u] = NoUser /\ users'[u].role = "tenant_admin"

\* What an UPDATE or an INSERT leaves of the tables
LEMMA WriteEffect ==
    ASSUME TypeInv, EditInv, NEW p \in Requests, Saves(p)
    PROVE  /\ \A u \in Users : users'[u] # users[u] => Gives(p, u)
           /\ \A t \in Tenants :
                 tenants[t] # NoTenant /\ tenants'[t].status # tenants[t].status =>
                 /\ WriteTenant(p) /\ t = request[p].target
                 /\ Op(p) \in {"update", "setStatus"} /\ "status" \in dirty[p]
                 /\ tenants'[t].status = entity[p].status
                 /\ during'[t] = {s \in Requests : UnderWay(s)}
           /\ \A t \in Tenants : during'[t] \in {during[t], {s \in Requests : UnderWay(s)}}
<1> USE DEF TypeInv, TypeOK
<1>1. request[p] \in Inputs /\ EditOK(p)
  BY DEF Saves, WriteUser, WriteTenant, InsertUser, InsertTenant, Provision, Placed, EditInv
<1>2. CASE WriteUser(p)
  <2>1. Op(p) = "setRole" /\ request[p].target \in Users /\ entity[p] \in UserRows
        /\ Target(p) = users[request[p].target] /\ Target(p) \in UserRows /\ pc[p] = "writing"
    BY <1>1, <1>2, InputFields DEF WriteUser, Loaded, Rows, Op, Target
  <2>2. Updated(p) # Target(p) => Updated(p).role = entity[p].role
    BY <2>1, UserUpdate
  <2>3. users' = [users EXCEPT ![request[p].target] = Updated(p)]
        /\ UNCHANGED <<tenants, during>>
    BY <1>2 DEF WriteUser
  <2>4. users[request[p].target] # NoUser
    BY <2>1, NobodyIsNoRow
  <2>5. "super_admin" \notin {users[request[p].target].role, entity[p].role}
    BY <1>1, <2>1 DEF EditOK
  <2>6. ASSUME NEW u \in Users, users'[u] # users[u]
        PROVE  Gives(p, u)
    <3>1. u = request[p].target /\ users'[u] = Updated(p) /\ Updated(p) # Target(p)
      BY <2>1, <2>3, <2>6
    <3> QED
      BY <1>2, <2>1, <2>2, <2>4, <2>5, <3>1 DEF Gives
  <2> QED
    BY <2>3, <2>6
<1>3. CASE WriteTenant(p)
  <2>1. Op(p) \in {"update", "setStatus", "remove"} /\ request[p].target \in Tenants
        /\ entity[p] \in TenantRows /\ pc[p] = "writing"
        /\ Target(p) = tenants[request[p].target] /\ Target(p) \in TenantRows
    BY <1>1, <1>3, InputFields DEF WriteTenant, Loaded, Placed, Rows, Op, Target
  <2>2. Updated(p).status = IF "status" \in dirty[p] THEN entity[p].status
                                                     ELSE Target(p).status
    BY <2>1, TenantUpdate
  <2>3. /\ tenants' = [tenants EXCEPT ![request[p].target] = Updated(p)]
        /\ during' = [during EXCEPT ![request[p].target] =
              IF "status" \in dirty[p] THEN {s \in Requests : UnderWay(s)} ELSE @]
        /\ UNCHANGED users
    BY <1>3 DEF WriteTenant
  <2>4. \A t \in Tenants : tenants'[t].status # tenants[t].status =>
           t = request[p].target /\ "status" \in dirty[p]
           /\ tenants'[t].status = entity[p].status
    BY <2>1, <2>2, <2>3
  <2>5. "status" \in dirty[p] => Op(p) # "remove"
    BY <1>1, <2>1 DEF EditOK
  <2> QED
    BY <1>3, <2>1, <2>3, <2>4, <2>5
<1>4. CASE InsertUser(p)
  <2>1. UNCHANGED <<tenants, during>>
    BY <1>4 DEF InsertUser
  <2>2. ASSUME NEW u \in Users, users'[u] # users[u]
        PROVE  Gives(p, u)
    <3>1. /\ u = request[p].target /\ users[u] = NoUser /\ users'[u] = entity[p]
          /\ Op(p) \in {"register", "invite"} /\ pc[p] = "inserting"
      BY <1>4, <2>2 DEF InsertUser, Free, Exists
    <3>2. /\ entity[p].role = request[p].role
          /\ Op(p) = "invite" => request[p].role # "super_admin"
      BY <1>1, <3>1 DEF EditOK
    <3> QED
      BY <1>4, <3>1, <3>2 DEF Gives
  <2> QED
    BY <2>1, <2>2
<1>5. CASE InsertTenant(p)
  BY <1>5 DEF InsertTenant
<1>6. CASE Provision(p)
  <2>1. UNCHANGED during /\ Op(p) = "provision"
    BY <1>6 DEF Provision
  <2>2. ASSUME NEW u \in Users, users'[u] # users[u]
        PROVE  Gives(p, u)
    <3>1. /\ u = request[p].admin /\ users[u] = NoUser
          /\ users'[u] = [role |-> "tenant_admin"]
      BY <1>6, <2>2 DEF Provision, Exists
    <3> QED
      BY <1>6, <2>1, <3>1 DEF Gives
  <2>3. \A t \in Tenants : tenants'[t] # tenants[t] => tenants[t] = NoTenant
    BY <1>6 DEF Provision
  <2> QED
    BY <2>1, <2>2, <2>3
<1> QED
  BY <1>2, <1>3, <1>4, <1>5, <1>6 DEF Saves

LEMMA EditStep ==
    ASSUME TypeInv, EditInv, [Next]_vars, NEW r \in Requests
    PROVE  EditOK(r)'
<1> USE DEF TypeInv, TypeOK
<1>1. EditOK(r)
  BY DEF EditInv
<1>2. CASE UNCHANGED vars
  BY <1>1, <1>2 DEF vars, EditOK, Op
<1>3. ASSUME NEW p \in Requests, NEW in \in Inputs, Receive(p, in)
      PROVE  EditOK(r)'
  <2>1. CASE r = p
    <3>1. /\ pc'[r] \in {"middleware", "loading", "inserting"} /\ request'[r] = in
          /\ pc'[r] = "inserting" => in.op \notin {"register", "invite"}
      BY <1>3, <2>1 DEF Receive, Goto, Entry, Gated
    <3> QED
      BY <3>1 DEF EditOK, Op
  <2>2. CASE r # p
    BY <1>1, <1>3, <2>2 DEF Receive, Goto, EditOK, Op
  <2> QED
    BY <2>1, <2>2
<1>4. ASSUME NEW p \in Requests, Middleware(p) \/ Guard(p) \/ Authenticate(p)
                \/ Handle(p) \/ Identify(p) \/ Sign(p) \/ Fail(p)
      PROVE  EditOK(r)'
  <2>1. /\ UNCHANGED <<tenants, users, request, dirty, during>>
        /\ \A q \in Requests \ {p} : entity'[q] = entity[q] /\ pc'[q] = pc[q]
        /\ pc'[p] \notin {"planning", "writing"}
        /\ pc'[p] = "inserting" => Op(p) \notin {"register", "invite"}
    BY <1>4 DEF Middleware, Guard, Authenticate, Handle, Identify, Sign, Fail, Goto, Entry,
                Placed, history
  <2> QED
    BY <1>1, <2>1 DEF EditOK, Op
<1>5. ASSUME NEW p \in Requests,
             LoadNewcomer(p) \/ LoadUser(p) \/ LoadTenant(p) \/ LoadRemoved(p) \/ Plan(p)
      PROVE  EditOK(r)'
  <2>1. /\ UNCHANGED <<tenants, users, request, during>>
        /\ \A q \in Requests \ {p} : entity'[q] = entity[q] /\ pc'[q] = pc[q]
                                    /\ dirty'[q] = dirty[q]
    BY <1>5 DEF LoadNewcomer, LoadUser, LoadTenant, LoadRemoved, Plan, Goto, history
  <2>2. CASE r # p
    BY <1>1, <2>1, <2>2 DEF EditOK, Op
  <2>7. CASE r = p /\ LoadNewcomer(r)
    <3>1. \/ pc'[r] = "400"
          \/ /\ pc'[r] = "inserting" /\ entity'[r] = [role |-> request[r].role]
             /\ Op(r) = "invite" => request[r].role # "super_admin"
      BY <2>7 DEF LoadNewcomer, Goto
    <3>2. pc'[r] = "inserting" => entity'[r].role = request[r].role
      BY <3>1
    <3>3. request'[r] = request[r] /\ pc'[r] \notin {"planning", "writing"}
      BY <2>1, <3>1
    <3> QED
      BY <3>1, <3>2, <3>3 DEF EditOK, Op
  <2>3. CASE r = p /\ LoadUser(r)
    BY <2>1, <2>3 DEF LoadUser, Goto, EditOK, Op, FindsUser, TouchesSuperAdmin
  <2>4. CASE r = p /\ LoadTenant(r)
    <3>1. pc[r] = "loading" /\ request[r] \in Inputs /\ Op(r) \in {"update", "setStatus"}
      BY <2>4 DEF LoadTenant, Placed
    <3>2. \/ pc'[r] = "404"
          \/ pc'[r] = "planning" /\ entity'[r] = Assigned(r)
      BY <2>4 DEF LoadTenant, Goto
    <3>3. request[r].target \in Tenants
      BY <3>1, InputFields DEF Op
    <3>4. pc'[r] = "planning" => tenants[request[r].target] \in TenantRows
      BY <2>4, <3>3 DEF LoadTenant, Goto, NoTenant
    <3> QED
      BY <2>1, <3>1, <3>2, <3>4, AssignedType DEF EditOK, Op
  <2>5. CASE r = p /\ LoadRemoved(r)
    BY <2>1, <2>5 DEF LoadRemoved, Goto, EditOK, Op
  <2>6. CASE r = p /\ Plan(r)
    <3>1. pc[r] = "planning" /\ pc'[r] = "writing" /\ UNCHANGED entity
          /\ dirty'[r] = {c \in DOMAIN entity[r] : entity[r][c] # Target(r)[c]}
          /\ Op(r) \in {"setRole", "update", "setStatus"}
      BY <2>6 DEF Plan, Goto, Placed
    <3>2. Op(r) # "setRole" => Target(r) = tenants[request[r].target]
      BY DEF Target
    <3>3. Op(r) # "setRole" /\ entity[r].status = tenants[request[r].target].status =>
             "status" \notin dirty'[r]
      BY <3>1, <3>2
    <3> QED
      BY <1>1, <2>1, <3>1, <3>3 DEF EditOK, Op
  <2> QED
    BY <1>5, <2>2, <2>3, <2>4, <2>5, <2>6, <2>7
<1>6. ASSUME NEW p \in Requests, Saves(p)
      PROVE  EditOK(r)'
  <2>1. /\ UNCHANGED <<request, entity, dirty>>
        /\ \A q \in Requests \ {p} : pc'[q] = pc[q]
        /\ pc'[p] \in Final
    BY <1>6 DEF Saves, WriteUser, WriteTenant, InsertUser, InsertTenant, Provision, Goto, Final
  <2>2. CASE r = p
    BY <2>1, <2>2 DEF EditOK, Final
  <2>3. CASE r # p
    <3>1. CASE pc[r] \notin {"planning", "writing"}
      BY <1>1, <2>1, <2>3, <3>1 DEF EditOK, Op
    <3>2. CASE pc[r] \in {"planning", "writing"}
      <4>1. UnderWay(r) /\ request[r] \in Inputs
        BY <3>2 DEF UnderWay, Waiting, Placed
      <4>2. Op(r) = "setRole" =>
               request[r].target \in Users /\ users[request[r].target] # NoUser
        BY <3>2, <4>1, InputFields, NobodyIsNoRow DEF Op, Loaded, Rows, Target
      <4>3. Op(r) \in {"update", "setStatus"} =>
               request[r].target \in Tenants /\ tenants[request[r].target] # NoTenant
        BY <3>2, <4>1, InputFields, NobodyIsNoRow DEF Op, Loaded, Rows, Target
      <4>4. Op(r) = "setRole" =>
               "super_admin" \notin {users'[request[r].target].role, entity[r].role}
        BY <1>1, <1>6, <3>2, <4>2, WriteEffect DEF EditOK, Gives
      <4>5. Op(r) \in {"update", "setStatus"} =>
               \/ r \in during'[request[r].target]
               \/ /\ tenants'[request[r].target].status = tenants[request[r].target].status
                  /\ during'[request[r].target] = during[request[r].target]
        BY <1>6, <4>1, <4>3, WriteEffect
      <4> QED
        BY <1>1, <2>1, <2>3, <3>2, <4>4, <4>5 DEF EditOK, Op
    <3> QED
      BY <3>1, <3>2
  <2> QED
    BY <2>2, <2>3
<1>7. CASE Done
  BY <1>2, <1>7 DEF Done
<1> QED
  BY <1>2, <1>3, <1>4, <1>5, <1>6, <1>7 DEF Next, Step, Saves

\* Only an UPDATE or an INSERT changes a table.
LEMMA OnlyWrites ==
    ASSUME [Next]_vars, users' # users \/ tenants' # tenants
    PROVE  \E p \in Requests : Saves(p)
BY DEF Next, vars, Step, Saves, Receive, Middleware, Guard, Authenticate, Handle, Identify, Sign,
       LoadNewcomer, LoadUser, LoadTenant, LoadRemoved, Plan, Fail, Done

LEMMA EditInit ==
    ASSUME Init
    PROVE  EditInv
BY DEF Init, EditInv, EditOK

\* A status changes by a request that asks for it, or overlapped its last change.
THEOREM StatusesStay == Spec => StatusChangesAskedOrOverlapping
<1> DEFINE Kept == \A t \in Tenants :
                      tenants[t] # NoTenant /\ tenants'[t].status # tenants[t].status =>
                      \E r \in Requests :
                          /\ Writes(r)
                          /\ request[r].target = t
                          /\ \/ /\ Op(r) \in {"update", "setStatus"}
                                /\ request[r].status = tenants'[t].status
                             \/ r \in during[t]
<1>1. ASSUME TypeInv, EditInv, [Next]_vars
      PROVE  Kept
  <2> SUFFICES ASSUME NEW t \in Tenants, tenants[t] # NoTenant,
                      tenants'[t].status # tenants[t].status
               PROVE  \E r \in Requests :
                          /\ Writes(r)
                          /\ request[r].target = t
                          /\ \/ /\ Op(r) \in {"update", "setStatus"}
                                /\ request[r].status = tenants'[t].status
                             \/ r \in during[t]
    OBVIOUS
  <2>1. PICK p \in Requests : Saves(p)
    BY <1>1, OnlyWrites
  <2>2. /\ WriteTenant(p) /\ t = request[p].target
        /\ Op(p) \in {"update", "setStatus"} /\ "status" \in dirty[p]
        /\ tenants'[t].status = entity[p].status
    BY <1>1, <2>1, WriteEffect
  <2>3. Writes(p) /\ pc[p] = "writing"
    BY <1>1, <2>2 DEF Writes, WriteTenant, Goto, TypeInv, TypeOK
  <2> QED
    BY <1>1, <2>2, <2>3 DEF EditInv, EditOK
<1>2. TypeInv /\ EditInv /\ [Next]_vars => [Kept]_vars
  BY <1>1
<1>3. EditInv /\ TypeInv /\ [Next]_vars => EditInv'
  BY EditStep DEF EditInv
<1> QED
  BY <1>2, <1>3, TypeInit, TypeStep, EditInit, PTL
     DEF Spec, StatusChangesAskedOrOverlapping

\* Who registers gets the role that is asked for; after that a role is changed
\* only by an admin of the tenant, and never from or to super_admin.
THEOREM AdminsAloneChangeRoles == Spec => RolesChangedByAdmins
<1> DEFINE Given(u) == \E r \in Requests :
                          /\ Writes(r)
                          /\ Registers(r, u) \/ Appoints(r, u) \/ Installs(r, u)
           Kept == \A u \in Users : users'[u] # users[u] => Given(u)
<1>1. ASSUME TypeInv, SightInv, EditInv, [Next]_vars
      PROVE  Kept
  <2> SUFFICES ASSUME NEW u \in Users, users'[u] # users[u]
               PROVE  Given(u)
    OBVIOUS
  <2>1. PICK p \in Requests : Saves(p)
    BY <1>1, OnlyWrites
  <2>2. Gives(p, u)
    BY <1>1, <2>1, WriteEffect
  <2>3. Writes(p) /\ pc[p] \in {"writing", "inserting"}
    <3>1. CASE WriteUser(p)
      BY <1>1, <3>1 DEF Writes, WriteUser, Goto, TypeInv, TypeOK
    <3>2. CASE InsertUser(p)
      BY <1>1, <2>2, <3>2 DEF Writes, InsertUser, Goto, TypeInv, TypeOK
    <3>3. CASE Provision(p)
      BY <1>1, <2>2, <3>3 DEF Writes, Provision, Goto, TypeInv, TypeOK
    <3> QED
      BY <2>2, <3>1, <3>2, <3>3 DEF Gives
  <2>4. Op(p) \in Guarded => /\ HomeOf[Actor(p)] = request[p].tenant
                            /\ \E s \in seen[p] : s.user.role \in Required(p)
    BY <1>1, <2>3 DEF Admitted, SightInv, Entitled
  <2>5. CASE Op(p) \in {"setRole", "invite"}
    <3>1. HomeOf[u] = request[p].tenant
      BY <1>1, <2>2, <2>3, <2>5, InputFields DEF Gives, EditInv, EditOK, TypeInv, Placed, Op,
         WriteUser
    <3>2. "super_admin" \notin {users[u].role, users'[u].role}
      BY <2>2, <2>5 DEF Gives, NoUser
    <3>3. Appoints(p, u)
      BY <2>4, <2>5, <3>1, <3>2 DEF Appoints, Guarded, Required
    <3> QED
      BY <2>3, <3>3
  <2>6. CASE Op(p) = "register"
    <3>1. Registers(p, u)
      BY <2>2, <2>6 DEF Gives, Registers
    <3> QED
      BY <2>3, <3>1
  <2>7. CASE Op(p) = "provision"
    <3>1. Installs(p, u)
      BY <2>2, <2>4, <2>7 DEF Gives, Installs, Guarded, Required
    <3> QED
      BY <2>3, <3>1
  <2> QED
    BY <2>2, <2>5, <2>6, <2>7 DEF Gives
<1>2. TypeInv /\ SightInv /\ EditInv /\ [Next]_vars => [Kept]_vars
  BY <1>1
<1>3. EditInv /\ TypeInv /\ [Next]_vars => EditInv'
  BY EditStep DEF EditInv
<1> QED
  BY <1>2, <1>3, TypeInit, TypeStep, EditInit, SightInit, SightStep, PTL
     DEF Spec, RolesChangedByAdmins

-----------------------------------------------------------------------------
(* Super admins.                                                           *)

IsSuper(role) == role = "super_admin"

\* Who is there stays a super admin, or not one; and who comes to be one is
\* registered as one.
SuperAdminsComeByRegistration ==
    [][\A u \in Users :
          /\ users[u] # NoUser =>
                /\ users'[u] # NoUser
                /\ IsSuper(users'[u].role) <=> IsSuper(users[u].role)
          /\ users[u] = NoUser /\ IsSuper(users'[u].role) =>
                \E r \in Requests : Writes(r) /\ Registers(r, u)]_vars

LEMMA SuperStays ==
    ASSUME TypeInv, EditInv, [Next]_vars, NEW u \in Users
    PROVE  /\ users[u] # NoUser =>
                 /\ users'[u] # NoUser
                 /\ IsSuper(users'[u].role) <=> IsSuper(users[u].role)
           /\ users[u] = NoUser /\ IsSuper(users'[u].role) =>
                 \E r \in Requests : Writes(r) /\ Registers(r, u)
<1>1. CASE users'[u] = users[u]
  BY <1>1 DEF IsSuper, NoUser
<1>2. CASE users'[u] # users[u]
  <2>1. PICK p \in Requests : Saves(p)
    BY <1>2, OnlyWrites
  <2>2. Gives(p, u)
    BY <1>2, <2>1, WriteEffect
  <2>3. users[u] # NoUser => users'[u] # NoUser
    <3>1. RowsStay
      BY <2>1, SavedTypes
    <3> QED
      BY <3>1, NobodyIsNoRow DEF RowsStay, TypeInv, TypeOK
  <2>4. CASE users[u] # NoUser
    <3>1. "super_admin" \notin {users[u].role, users'[u].role}
      BY <2>2, <2>4 DEF Gives
    <3> QED
      BY <2>3, <2>4, <3>1 DEF IsSuper
  <2>5. CASE users[u] = NoUser /\ IsSuper(users'[u].role)
    <3>1. Op(p) = "register" /\ InsertUser(p) /\ Registers(p, u)
      BY <2>2, <2>5 DEF Gives, IsSuper, Registers
    <3>2. Writes(p)
      BY <1>2, <3>1 DEF Writes, InsertUser, Goto, TypeInv, TypeOK
    <3> QED
      BY <2>5, <3>1, <3>2
  <2> QED
    BY <2>4, <2>5
<1> QED
  BY <1>1, <1>2

\* updateUserRole looks at the role that it replaces two awaits before it
\* does, and still nobody who is there becomes a super admin, or ceases to be
\* one.  New ones come by registration alone, which takes the role from its
\* dto: never by an invitation, nor with a new tenant.
THEOREM SuperAdminsOnlyRegister == Spec => SuperAdminsComeByRegistration
<1> DEFINE Kept == \A u \in Users :
          /\ users[u] # NoUser =>
                /\ users'[u] # NoUser
                /\ IsSuper(users'[u].role) <=> IsSuper(users[u].role)
          /\ users[u] = NoUser /\ IsSuper(users'[u].role) =>
                \E r \in Requests : Writes(r) /\ Registers(r, u)
<1>1. TypeInv /\ EditInv /\ [Next]_vars => [Kept]_vars
  BY SuperStays
<1>2. EditInv /\ TypeInv /\ [Next]_vars => EditInv'
  BY EditStep DEF EditInv
<1> QED
  BY <1>1, <1>2, TypeInit, TypeStep, EditInit, PTL DEF Spec, SuperAdminsComeByRegistration

\* What a request has seen of its user, once there was one, and what a token or
\* the entity that a token is made of says, is in this respect still so.
SuperInv ==
    /\ \A token \in tokens :
          /\ users[token.user] # NoUser
          /\ IsSuper(token.role) <=> IsSuper(users[token.user].role)
    /\ \A r \in Requests :
          /\ pc[r] = "signing" =>
                /\ users[Actor(r)] # NoUser
                /\ IsSuper(entity[r].role) <=> IsSuper(users[Actor(r)].role)
          /\ pc[r] # "idle" /\ Op(r) \in Gated =>
                \A s \in seen[r] : s.user # NoUser =>
                    /\ users[Actor(r)] # NoUser
                    /\ IsSuper(s.user.role) <=> IsSuper(users[Actor(r)].role)

LEMMA SuperInit ==
    ASSUME Init
    PROVE  SuperInv
<1>1. \A token \in tokens : users[token.user] # NoUser /\ token.role = users[token.user].role
  BY DEF Init
<1> QED
  BY <1>1 DEF Init, SuperInv, IsSuper

\* A request sees what there is when it begins, and what there comes to be.
LEMMA SeenNow ==
    ASSUME TypeInv, [Next]_vars, NEW r \in Requests, pc'[r] # "idle"
    PROVE  \A s \in seen'[r] : s \in Sight(r)' \/ (pc[r] # "idle" /\ s \in seen[r])
<1> USE DEF TypeInv, TypeOK
<1>1. ASSUME NEW p \in Requests, NEW in \in Inputs, Receive(p, in)
      PROVE  \A s \in seen'[r] : s \in Sight(r)' \/ (pc[r] # "idle" /\ s \in seen[r])
  <2>1. CASE p = r
    <3>1. seen'[r] = Sight(r)'
      BY <1>1, <2>1 DEF Receive
    <3> QED
      BY <3>1
  <2>2. CASE p # r
    <3>1. seen'[r] = seen[r] /\ pc'[r] = pc[r]
      BY <1>1, <2>2 DEF Receive, Goto
    <3> QED
      BY <3>1
  <2> QED
    BY <2>1, <2>2
<1>2. CASE \A p \in Requests, in \in Inputs : ~Receive(p, in)
  <2>1. pc[r] # "idle"
    BY <1>2, OwnSteps DEF Step, Middleware, Guard, Authenticate, Handle, Identify, Sign,
         LoadNewcomer, LoadUser, LoadTenant, LoadRemoved, Plan, WriteUser, WriteTenant,
         InsertUser, InsertTenant, Provision, Fail, UnderWay, Waiting
  <2>2. CASE UNCHANGED seen
    BY <2>1, <2>2
  <2>3. ASSUME NEW p \in Requests, Saves(p)
        PROVE  seen'[r] \in {seen[r], seen[r] \cup Sight(r)'}
    BY <2>3 DEF Saves, WriteUser, WriteTenant, InsertUser, InsertTenant, Provision, Notice
  <2>4. UNCHANGED seen \/ \E p \in Requests : Saves(p)
    BY <1>2 DEF Next, vars, Step, Saves, Middleware, Guard, Authenticate, Handle, Identify, Sign,
         LoadNewcomer, LoadUser, LoadTenant, LoadRemoved, Plan, Fail, Done, history
  <2> QED
    BY <2>1, <2>2, <2>3, <2>4
<1> QED
  BY <1>1, <1>2

LEMMA SuperStep ==
    ASSUME TypeInv, EditInv, SuperInv, [Next]_vars
    PROVE  SuperInv'
<1> USE DEF TypeInv, TypeOK
<1>1. ASSUME NEW u \in Users, users[u] # NoUser
      PROVE  users'[u] # NoUser /\ (IsSuper(users'[u].role) <=> IsSuper(users[u].role))
  BY <1>1, SuperStays
<1>2. ASSUME NEW token \in tokens'
      PROVE  /\ users'[token.user] # NoUser
             /\ IsSuper(token.role) <=> IsSuper(users'[token.user].role)
  <2>1. CASE token \in tokens
    <3>1. token.user \in Users
      BY <2>1 DEF Tokens
    <3> QED
      BY <1>1, <2>1, <3>1 DEF SuperInv
  <2>2. CASE token \notin tokens
    <3>1. PICK r \in Requests : Sign(r)
      BY <2>2 DEF Next, vars, Step, Receive, Middleware, Guard, Authenticate, Handle, Identify,
           LoadNewcomer, LoadUser, LoadTenant, LoadRemoved, Plan, WriteUser, WriteTenant,
           InsertUser, InsertTenant, Provision, Fail, Done
    <3>2. token = [user |-> Actor(r), role |-> entity[r].role] /\ pc[r] = "signing"
          /\ users' = users
      BY <2>2, <3>1 DEF Sign
    <3> QED
      BY <3>2 DEF SuperInv
  <2> QED
    BY <2>1, <2>2
<1>3. ASSUME NEW r \in Requests, pc'[r] = "signing"
      PROVE  /\ users'[Actor(r)'] # NoUser
             /\ IsSuper(entity'[r].role) <=> IsSuper(users'[Actor(r)'].role)
  <2>1. CASE pc[r] = "signing"
    <3>1. entity'[r] = entity[r] /\ request'[r] = request[r]
      <4>1. request'[r] = request[r]
        BY <2>1, SeenGrows
      <4>2. ASSUME NEW p \in Requests,
                   Identify(p) \/ LoadNewcomer(p) \/ LoadUser(p) \/ LoadTenant(p) \/ LoadRemoved(p)
            PROVE  entity'[r] = entity[r]
        <5>1. pc[p] = "loading" /\ \E row : entity' = [entity EXCEPT ![p] = row]
          BY <4>2 DEF Identify, LoadNewcomer, LoadUser, LoadTenant, LoadRemoved
        <5> QED
          BY <2>1, <5>1
      <4>3. \/ UNCHANGED entity
            \/ \E p \in Requests : \/ Identify(p) \/ LoadNewcomer(p) \/ LoadUser(p)
                                  \/ LoadTenant(p) \/ LoadRemoved(p)
        BY DEF Next, vars, Step, Receive, Middleware, Guard, Authenticate, Handle, Sign, Plan,
           WriteUser, WriteTenant, InsertUser, InsertTenant, Provision, Fail, Done
      <4> QED
        BY <4>1, <4>2, <4>3
    <3>2. Actor(r)' = Actor(r) /\ Actor(r) \in Users
      BY <2>1, <3>1, ActorIsUser DEF Actor, Op, Placed, Gated
    <3> QED
      BY <1>1, <2>1, <3>1, <3>2 DEF SuperInv
  <2>2. CASE pc[r] # "signing"
    <3>1. Step(r)
      <4>1. ASSUME NEW in \in Inputs, Receive(r, in)
            PROVE  pc'[r] # "signing"
        BY <4>1 DEF Receive, Goto, Entry
      <4> QED
        BY <1>3, <2>2, <4>1, OwnSteps
    <3>2. Identify(r) /\ entity'[r] = users[Actor(r)] /\ users[Actor(r)] # NoUser
      <4>1. Identify(r)
        BY <1>3, <2>2, <3>1 DEF Step, Middleware, Guard, Authenticate, Handle, Sign, Entry,
             LoadNewcomer, LoadUser, LoadTenant, LoadRemoved, Plan, WriteUser, WriteTenant,
             InsertUser, InsertTenant, Provision, Fail, Goto
      <4> QED
        BY <1>3, <4>1 DEF Identify, FindsUser, Exists, Goto
    <3>3. users' = users /\ Actor(r)' = Actor(r)
      BY <3>2 DEF Identify, Actor, Op
    <3> QED
      BY <3>2, <3>3
  <2> QED
    BY <2>1, <2>2
<1>4. ASSUME NEW r \in Requests, pc'[r] # "idle", request'[r].op \in Gated, NEW s \in seen'[r],
             s.user # NoUser
      PROVE  /\ users'[Actor(r)'] # NoUser
             /\ IsSuper(s.user.role) <=> IsSuper(users'[Actor(r)'].role)
  <2>1. ASSUME s \in Sight(r)'
        PROVE  s.user = users'[Actor(r)']
    BY <1>4, <2>1 DEF Sight, Op
  <2>2. ASSUME request'[r] = request[r], s \in seen[r], pc[r] # "idle"
        PROVE  /\ users'[Actor(r)'] # NoUser
               /\ IsSuper(s.user.role) <=> IsSuper(users'[Actor(r)'].role)
    <3>1. Actor(r)' = Actor(r) /\ Op(r) \in Gated
      BY <1>4, <2>2 DEF Actor, Op
    <3>2. Actor(r) \in Users
      BY <2>2, <3>1, ActorIsUser DEF Placed
    <3>3. users[Actor(r)] # NoUser /\ (IsSuper(s.user.role) <=> IsSuper(users[Actor(r)].role))
      BY <1>4, <2>2, <3>1 DEF SuperInv
    <3> QED
      BY <1>1, <3>1, <3>2, <3>3
  <2> QED
    BY <1>4, <2>1, <2>2, SeenGrows, SeenNow
<1> QED
  BY <1>2, <1>3, <1>4 DEF SuperInv, Op

\* A token that names a super admin was signed for one, and who has one still
\* is: of this role no token is outdated.
TokensOfSuperAdmins ==
    \A token \in tokens : IsSuper(token.role) <=> IsSuper(users[token.user].role)

THEOREM SuperAdminTokensStayTrue == Spec => []TokensOfSuperAdmins
<1>1. SuperInv => TokensOfSuperAdmins
  BY DEF SuperInv, TokensOfSuperAdmins
<1>2. EditInv /\ TypeInv /\ [Next]_vars => EditInv'
  BY EditStep DEF EditInv
<1>3. TypeInv /\ EditInv /\ SuperInv /\ [Next]_vars => SuperInv'
  BY SuperStep
<1> QED
  BY <1>1, <1>2, <1>3, TypeInit, TypeStep, EditInit, SuperInit, PTL DEF Spec

\* Who changes the status of a tenant is a super admin when it is written.
SuperAdminsSetStatus ==
    \A r \in Requests :
        Admitted(r) /\ Op(r) = "setStatus" => IsSuper(users[Actor(r)].role)

\* The role of who asks for a new status is read three awaits before it is
\* written, by RoleGuard.  A demotion can overtake a request of an admin of a
\* tenant in this way; one of a super admin it cannot.
THEOREM SuperAdminsSetStatusThroughout == Spec => []SuperAdminsSetStatus
<1>1. TypeInv /\ SightInv /\ SuperInv => SuperAdminsSetStatus
  <2> SUFFICES ASSUME TypeInv, SightInv, SuperInv, NEW r \in Requests, Admitted(r),
                      Op(r) = "setStatus"
               PROVE  IsSuper(users[Actor(r)].role)
    BY DEF SuperAdminsSetStatus
  <2>1. pc[r] # "idle" /\ Op(r) \in Gated
    BY DEF Admitted, Gated
  <2>2. PICK s \in seen[r] : IsSuper(s.user.role) /\ s.user # NoUser
    BY DEF SightInv, Entitled, Required, IsSuper, NoUser
  <2> QED
    BY <2>1, <2>2 DEF SuperInv
<1>2. EditInv /\ TypeInv /\ [Next]_vars => EditInv'
  BY EditStep DEF EditInv
<1>3. TypeInv /\ EditInv /\ SuperInv /\ [Next]_vars => SuperInv'
  BY SuperStep
<1> QED
  BY <1>1, <1>2, <1>3, TypeInit, TypeStep, EditInit, SightInit, SightStep, SuperInit, PTL
     DEF Spec

-----------------------------------------------------------------------------
(* Four checks as one.                                                     *)

\* What the checks ask, of the rows as one moment has them
MayEnter(r, s) ==
    /\ s.tenant.live /\ s.tenant.status = "active"
    /\ HomeOf[Actor(r)] = request[r].tenant
    /\ s.user.role \in Required(r)

\* The four checks decide as one would.
ChecksAreAsOne ==
    \A r \in Requests : \A s \in seen[r] :
        Op(r) = "use" /\ seen[r] = {s} =>
            /\ Admitted(r) => MayEnter(r, s)
            /\ pc[r] \in {"403", "404"} => ~MayEnter(r, s)

\* A request is admitted by four checks at three moments.  Where neither its
\* tenant nor its user changes meanwhile, whatever else does, they let in who
\* may enter, and turn away who may not, as if they were one.
THEOREM ChecksDecideAsOne == Spec => []ChecksAreAsOne
<1>1. SightInv => ChecksAreAsOne
  <2> SUFFICES ASSUME SightInv, NEW r \in Requests, NEW s \in seen[r],
                      Op(r) = "use", seen[r] = {s}
               PROVE  /\ Admitted(r) => MayEnter(r, s)
                      /\ pc[r] \in {"403", "404"} => ~MayEnter(r, s)
    BY DEF ChecksAreAsOne
  <2>1. Entitled(r) /\ Barred(r)
    BY DEF SightInv
  <2> QED
    BY <2>1 DEF Entitled, SawActive, Barred, MayEnter
<1> QED
  BY <1>1, TypeInit, TypeStep, SightInit, SightStep, PTL DEF Spec

=============================================================================
