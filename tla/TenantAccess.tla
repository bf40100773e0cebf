---------------------------- MODULE TenantAccess ----------------------------
(***************************************************************************)
(* Who gets in: the way of a request through TenantMiddleware,            *)
(* TenantGuard, JwtAuthGuard with JwtStrategy, and RoleGuard, while the   *)
(* tenants and users that these look at are changed by other requests.    *)
(*                                                                         *)
(* Three of the four await a query, so a request is admitted on what was  *)
(* true at three different moments.  The requests that change tenants and *)
(* users are admitted in the same way, except that /v1/tenants is excluded *)
(* from the middleware and public, and that registration and login are    *)
(* public.  A row is changed as everywhere in this program: findOne,      *)
(* assign, save, where save reads the row again, and updates the columns  *)
(* in which the entity differs from it; that of a new entity only INSERTs. *)
(*                                                                         *)
(*   op          route                            must be                  *)
(*   use         any route with @Roles, or none   one of the roles         *)
(*   setRole     PATCH admin/users/:id/role       tenant_admin             *)
(*   setStatus   PATCH admin/tenants/:id/status   super_admin              *)
(*   invite      POST admin/users/invite          tenant_admin             *)
(*   provision   POST admin/tenants               super_admin              *)
(*   login       POST auth/login                                           *)
(*   register    POST auth/register               (role taken from the dto) *)
(*   create      POST tenants                                              *)
(*   update      PATCH tenants/:id                                         *)
(*   remove      DELETE tenants/:id                                        *)
(*                                                                         *)
(* Headers are well formed (a malformed one is refused before anything is *)
(* read), users are neither deactivated nor deleted (no code does either), *)
(* and nobody can refresh: no answer carries a refresh token.  A user is   *)
(* named by tenant and email, a tenant by its domain; those who are not    *)
(* there yet are NoUser and NoTenant.  The transaction that provisions a   *)
(* tenant is one step here; Administration takes it apart.                 *)
(***************************************************************************)
EXTENDS Integers

CONSTANTS
    Requests,
    Tenants,
    Users,
    HomeOf,          \* HomeOf[u]: the tenant of user u
    Roles,           \* the roles in use
    RouteRoles,      \* the sets of roles that routes ask for
    NoEntity,
    Beginnings       \* the tables of tenants and users a run starts from

Statuses == {"pending", "active", "suspended", "archived"}

TenantRows == [status : Statuses, live : BOOLEAN]

UserRows == [role : Roles]

\* What stands for a tenant or a user that is not there yet
NoTenant == [status |-> "none", live |-> FALSE]

NoUser == [role |-> "none"]

Columns == {"status", "live", "role"}

\* What the payload of an access token says.
Tokens == [user : Users, role : Roles]

\* Routes behind the middleware; and, of these, the ones that are not public
Gated == {"use", "setRole", "setStatus", "invite", "provision", "login", "register"}

Guarded == {"use", "setRole", "setStatus", "invite", "provision"}

\* A status of "" in an update is one that the dto leaves out.
Inputs ==
    [op : {"use"}, tenant : Tenants, token : Tokens, roles : RouteRoles]
    \cup [op : {"setRole"}, tenant : Tenants, token : Tokens,
          target : Users, role : Roles]
    \cup [op : {"setStatus"}, tenant : Tenants, token : Tokens,
          target : Tenants, status : Statuses]
    \cup {in \in [op : {"invite"}, tenant : Tenants, token : Tokens,
                  target : Users, role : Roles] : HomeOf[in.target] = in.tenant}
    \cup {in \in [op : {"provision"}, tenant : Tenants, token : Tokens,
                  target : Tenants, admin : Users] : HomeOf[in.admin] = in.target}
    \cup [op : {"login"}, tenant : Tenants, target : Users]
    \cup {in \in [op : {"register"}, tenant : Tenants, target : Users,
                  role : Roles] : HomeOf[in.target] = in.tenant}
    \cup [op : {"create"}, target : Tenants, status : Statuses]
    \cup [op : {"update"}, target : Tenants, status : Statuses \cup {""}]
    \cup [op : {"remove"}, target : Tenants]

NoInput == [op |-> "none"]

ASSUME TenantAccessAssumption ==
    /\ Tenants \cap Users = {}
    /\ HomeOf \in [Users -> Tenants]
    /\ {"tenant_admin", "super_admin"} \subseteq Roles
    /\ RouteRoles \subseteq SUBSET Roles
    /\ NoEntity \notin TenantRows \cup UserRows
    /\ "none" \notin Roles
    /\ Beginnings \subseteq [tenants : [Tenants -> TenantRows \cup {NoTenant}],
                             users : [Users -> UserRows \cup {NoUser}]]

VARIABLES
    tenants,   \* tenants[t]: the row of tenant t; not live if soft-deleted
    users,     \* users[u]: the row of user u
    tokens,    \* the tokens that were issued, and that may be sent
    request,   \* request[r]: what r asks for
    pc,        \* pc[r]: the check or the call r awaits, or its answer
    entity,    \* entity[r]: the entity r loaded and assigned to
    dirty,     \* dirty[r]: the columns the UPDATE of r will set
    \* History, for the properties only:
    seen,      \* seen[r]: the rows of its tenant and user while r was under way
    during     \* during[t]: the requests under way when t last changed status

vars == <<tenants, users, tokens, request, pc, entity, dirty, seen, during>>

history == <<seen, during>>

Waiting == {"middleware", "guard", "strategy", "loading", "planning", "writing",
            "inserting", "signing"}

Final == {"200", "400", "401", "403", "404", "409", "500"}

UnderWay(r) == pc[r] \in Waiting \cup {"handling"}

Op(r) == request[r].op

\* The tenant named by the header of r
Tenant(r) == tenants[request[r].tenant]

\* The user that r says it comes from, or will make
Actor(r) == IF Op(r) \in Guarded THEN request[r].token.user ELSE request[r].target

\* What @Roles asks for; me has none, which is as if it named every role
Required(r) ==
    CASE Op(r) = "use"                      -> request[r].roles
      [] Op(r) \in {"setRole", "invite"}      -> {"tenant_admin"}
      [] Op(r) \in {"setStatus", "provision"} -> {"super_admin"}

\* What the handler of an operation awaits first
Entry(op) ==
    CASE op = "use"                      -> "handling"
      [] op \in {"provision", "create"}  -> "inserting"
      [] OTHER                           -> "loading"

Sights == [tenant : TenantRows \cup {NoTenant}, user : UserRows \cup {NoUser}]

\* The rows that the checks of r depend on, as they are now
Sight(r) ==
    IF Op(r) \in Gated THEN {[tenant |-> Tenant(r), user |-> users[Actor(r)]]}
                       ELSE {}

-----------------------------------------------------------------------------

Goto(r, label) == pc' = [pc EXCEPT ![r] = label]

Init ==
    /\ \E b \in Beginnings : tenants = b.tenants /\ users = b.users
    /\ tokens = {[user |-> u, role |-> users[u].role] :
                    u \in {v \in Users : users[v] # NoUser}}
    /\ request = [r \in Requests |-> NoInput]
    /\ pc = [r \in Requests |-> "idle"]
    /\ entity = [r \in Requests |-> NoEntity]
    /\ dirty = [r \in Requests |-> {}]
    /\ seen = [r \in Requests |-> {}]
    /\ during = [t \in Tenants |-> {}]

Receive(r, in) ==
    /\ pc[r] = "idle"
    /\ in.op \in Guarded => in.token \in tokens
    /\ request' = [request EXCEPT ![r] = in]
    /\ Goto(r, IF in.op \in Gated THEN "middleware" ELSE Entry(in.op))
    /\ UNCHANGED <<tenants, users, tokens, entity, dirty, during>>
    /\ seen' = [seen EXCEPT ![r] = Sight(r)']

\* Slip: any tenant that is not archived is let in.
AdmittedTenantUnlessArchived(r) == Tenant(r).live /\ Tenant(r).status # "archived"

\* TenantMiddleware goes on with next().
AdmittedTenant(r) == Tenant(r).live /\ Tenant(r).status = "active"

\* The query of findByIdAndValidate
Middleware(r) ==
    /\ pc[r] = "middleware"
    /\ \/ /\ AdmittedTenant(r)
          /\ Goto(r, IF Op(r) \in Guarded THEN "guard" ELSE Entry(Op(r)))
       \/ /\ ~AdmittedTenant(r)
          /\ Tenant(r).live /\ Tenant(r).status # "archived"
          /\ Goto(r, "403")
       \/ /\ ~(Tenant(r).live /\ Tenant(r).status # "archived")
          /\ Goto(r, "404")
    /\ UNCHANGED <<tenants, users, tokens, request, entity, dirty, history>>

\* TenantGuard looks the tenant up again, though not its status.
Guard(r) ==
    /\ pc[r] = "guard"
    /\ Goto(r, IF Tenant(r).live THEN "strategy" ELSE "403")
    /\ UNCHANGED <<tenants, users, tokens, request, entity, dirty, history>>

\* Slip: the role is the one in the token.
HasRoleInToken(r) == request[r].token.role \in Required(r)

\* RoleGuard, on the user that JwtStrategy.validate has just read
HasRole(r) == users[request[r].token.user].role \in Required(r)

\* JwtAuthGuard and RoleGuard; the handler runs up to its first await.
Authenticate(r) ==
    /\ pc[r] = "strategy"
    /\ \/ Goto(r, "401")                       \* the token has expired
       \/ /\ HomeOf[request[r].token.user] # request[r].tenant \/ ~HasRole(r)
          /\ Goto(r, "403")
       \/ /\ HomeOf[request[r].token.user] = request[r].tenant /\ HasRole(r)
          /\ Goto(r, Entry(Op(r)))
    /\ UNCHANGED <<tenants, users, tokens, request, entity, dirty, history>>

\* The handler of a route that changes neither tenants nor users
Handle(r) ==
    /\ pc[r] = "handling"
    /\ Goto(r, "200")
    /\ UNCHANGED <<tenants, users, tokens, request, entity, dirty, history>>

Exists(u) == users[u] # NoUser

\* A query for user u with the tenantId of r
FindsUser(r, u) == HomeOf[u] = request[r].tenant /\ Exists(u)

\* login: the user is read, and the password, compared with the hash that was
\* read, may be wrong; then the token is signed.
Identify(r) ==
    /\ Op(r) = "login"
    /\ pc[r] = "loading"
    /\ \/ /\ FindsUser(r, Actor(r))
          /\ entity' = [entity EXCEPT ![r] = users[Actor(r)]]
          /\ Goto(r, "signing")
       \/ /\ Goto(r, "401")
          /\ UNCHANGED entity
    /\ UNCHANGED <<tenants, users, tokens, request, dirty, history>>

\* generateTokens, for the user as it was read
Sign(r) ==
    /\ pc[r] = "signing"
    /\ tokens' = tokens \cup {[user |-> Actor(r), role |-> entity[r].role]}
    /\ Goto(r, "200")
    /\ UNCHANGED <<tenants, users, request, entity, dirty, history>>

\* register and inviteUser up to their save: only the latter minds the role.
LoadNewcomer(r) ==
    /\ Op(r) \in {"register", "invite"}
    /\ pc[r] = "loading"
    /\ IF \/ Exists(request[r].target)
          \/ Op(r) = "invite" /\ request[r].role = "super_admin"
       THEN /\ Goto(r, "400")
            /\ UNCHANGED entity
       ELSE /\ entity' = [entity EXCEPT ![r] = [role |-> request[r].role]]
            /\ Goto(r, "inserting")
    /\ UNCHANGED <<tenants, users, tokens, request, dirty, history>>

TouchesSuperAdmin(r) ==
    "super_admin" \in {users[request[r].target].role, request[r].role}

\* updateUserRole up to its save
LoadUser(r) ==
    /\ Op(r) = "setRole"
    /\ pc[r] = "loading"
    /\ IF FindsUser(r, request[r].target) /\ ~TouchesSuperAdmin(r)
       THEN /\ entity' = [entity EXCEPT ![r] = [role |-> request[r].role]]
            /\ Goto(r, "planning")
       ELSE /\ Goto(r, IF FindsUser(r, request[r].target) THEN "400" ELSE "404")
            /\ UNCHANGED entity
    /\ UNCHANGED <<tenants, users, tokens, request, dirty, history>>

\* Slip: a status that is left out is taken for the default of a new tenant.
AssignedDefault(r) ==
    [tenants[request[r].target] EXCEPT !.status =
        IF request[r].status = "" THEN "active" ELSE request[r].status]

\* Slip: what the dto leaves out is assigned all the same.
AssignedBlank(r) ==
    [tenants[request[r].target] EXCEPT !.status = request[r].status]

\* The tenant that update and updateTenantStatus give to save
Assigned(r) ==
    [tenants[request[r].target] EXCEPT !.status =
        IF request[r].status = "" THEN @ ELSE request[r].status]

\* update and updateTenantStatus up to their save
LoadTenant(r) ==
    /\ Op(r) \in {"update", "setStatus"}
    /\ pc[r] = "loading"
    /\ IF tenants[request[r].target].live
       THEN /\ entity' = [entity EXCEPT ![r] = Assigned(r)]
            /\ Goto(r, "planning")
       ELSE /\ Goto(r, "404")
            /\ UNCHANGED entity
    /\ UNCHANGED <<tenants, users, tokens, request, dirty, history>>

\* remove up to softRemove, which sets nothing but the deletion mark
LoadRemoved(r) ==
    /\ Op(r) = "remove"
    /\ pc[r] = "loading"
    /\ IF tenants[request[r].target].live
       THEN /\ entity' = [entity EXCEPT ![r] =
                             [tenants[request[r].target] EXCEPT !.live = FALSE]]
            /\ dirty' = [dirty EXCEPT ![r] = {"live"}]
            /\ Goto(r, "writing")
       ELSE /\ Goto(r, "404")
            /\ UNCHANGED <<entity, dirty>>
    /\ UNCHANGED <<tenants, users, tokens, request, history>>

\* The row that r changes, as it is now
Target(r) ==
    IF Op(r) = "setRole" THEN users[request[r].target] ELSE tenants[request[r].target]

\* save reads the row again, deleted or not, to find the columns that differ.
Plan(r) ==
    /\ pc[r] = "planning"
    /\ dirty' = [dirty EXCEPT ![r] =
                    {c \in DOMAIN entity[r] : entity[r][c] # Target(r)[c]}]
    /\ Goto(r, "writing")
    /\ UNCHANGED <<tenants, users, tokens, request, entity, history>>

\* The row as the UPDATE of r leaves it
Updated(r) ==
    [c \in DOMAIN Target(r) |-> IF c \in dirty[r] THEN entity[r][c] ELSE Target(r)[c]]

\* Every request under way notes what it could now see.
Notice ==
    seen' = [r \in Requests |-> IF UnderWay(r) THEN seen[r] \cup Sight(r)' ELSE seen[r]]

\* An UPDATE commits; an answer that is lost, or an audit record or an
\* eviction that throws after it, makes it a 500.
WriteUser(r) ==
    /\ pc[r] = "writing" /\ Op(r) = "setRole"
    /\ users' = [users EXCEPT ![request[r].target] = Updated(r)]
    /\ \E answer \in {"200", "500"} : Goto(r, answer)
    /\ UNCHANGED <<tenants, tokens, request, entity, dirty, during>>
    /\ Notice

WriteTenant(r) ==
    /\ pc[r] = "writing" /\ Op(r) # "setRole"
    /\ tenants' = [tenants EXCEPT ![request[r].target] = Updated(r)]
    /\ during' = [during EXCEPT ![request[r].target] =
                     IF "status" \in dirty[r] THEN {s \in Requests : UnderWay(s)} ELSE @]
    /\ \E answer \in {"200", "500"} : Goto(r, answer)
    /\ UNCHANGED <<users, tokens, request, entity, dirty>>
    /\ Notice

\* Slip: an email that somebody has registered meanwhile is taken over.
TakesOver(u) == TRUE

\* The unique index on tenant and email lets a row for u in.
Free(u) == ~Exists(u)

\* The INSERT of register or inviteUser; only the latter knows what a
\* unique violation is.
InsertUser(r) ==
    /\ pc[r] = "inserting" /\ Op(r) \in {"register", "invite"}
    /\ \/ /\ Free(request[r].target)
          /\ users' = [users EXCEPT ![request[r].target] = entity[r]]
          /\ \E answer \in {"200", "500"} : Goto(r, answer)
       \/ /\ ~Free(request[r].target)
          /\ Goto(r, IF Op(r) = "invite" THEN "409" ELSE "500")
          /\ UNCHANGED users
    /\ UNCHANGED <<tenants, tokens, request, entity, dirty, during>>
    /\ Notice

\* The INSERT of TenantService.create
InsertTenant(r) ==
    /\ pc[r] = "inserting" /\ Op(r) = "create"
    /\ \/ /\ tenants[request[r].target] = NoTenant
          /\ tenants' = [tenants EXCEPT ![request[r].target] =
                            [status |-> request[r].status, live |-> TRUE]]
          /\ \E answer \in {"200", "500"} : Goto(r, answer)
       \/ /\ tenants[request[r].target] # NoTenant
          /\ Goto(r, "409")
          /\ UNCHANGED tenants
    /\ UNCHANGED <<users, tokens, request, entity, dirty, during>>
    /\ Notice

\* createTenant commits a tenant and its administrator, or finds the domain
\* or the email taken and rolls back.
Provision(r) ==
    /\ pc[r] = "inserting" /\ Op(r) = "provision"
    /\ LET t == request[r].target
           u == request[r].admin
       IN  \/ /\ tenants[t] = NoTenant /\ ~Exists(u)
              /\ tenants' = [tenants EXCEPT ![t] = [status |-> "active", live |-> TRUE]]
              /\ users' = [users EXCEPT ![u] = [role |-> "tenant_admin"]]
              /\ \E answer \in {"200", "500"} : Goto(r, answer)
           \/ /\ tenants[t] # NoTenant \/ Exists(u)
              /\ \E answer \in {"400", "409"} : Goto(r, answer)
              /\ UNCHANGED <<tenants, users>>
    /\ UNCHANGED <<tokens, request, entity, dirty, during>>
    /\ Notice

\* The database fails r, or the server that runs it dies.
Fail(r) ==
    /\ UnderWay(r)
    /\ Goto(r, "500")
    /\ UNCHANGED <<tenants, users, tokens, request, entity, dirty, history>>

Done ==
    /\ \A r \in Requests : pc[r] \in Final
    /\ UNCHANGED vars

Step(r) ==
    \/ Middleware(r)
    \/ Guard(r)
    \/ Authenticate(r)
    \/ Handle(r)
    \/ Identify(r)
    \/ Sign(r)
    \/ LoadNewcomer(r)
    \/ LoadUser(r)
    \/ LoadTenant(r)
    \/ LoadRemoved(r)
    \/ Plan(r)
    \/ WriteUser(r)
    \/ WriteTenant(r)
    \/ InsertUser(r)
    \/ InsertTenant(r)
    \/ Provision(r)
    \/ Fail(r)

Next ==
    \/ \E r \in Requests, in \in Inputs : Receive(r, in)
    \/ \E r \in Requests : Step(r)
    \/ Done

Spec == Init /\ [][Next]_vars

-----------------------------------------------------------------------------
(* Properties.                                                             *)

\* Every variable keeps to its type.
TypeOK ==
    /\ tenants \in [Tenants -> TenantRows \cup {NoTenant}]
    /\ users \in [Users -> UserRows \cup {NoUser}]
    /\ tokens \subseteq Tokens
    /\ request \in [Requests -> Inputs \cup {NoInput}]
    /\ pc \in [Requests -> {"idle", "handling"} \cup Waiting \cup Final]
    /\ entity \in [Requests -> TenantRows \cup UserRows \cup {NoEntity}]
    /\ dirty \in [Requests -> SUBSET Columns]
    /\ seen \in [Requests -> SUBSET Sights]
    /\ during \in [Tenants -> SUBSET Requests]

\* r got past every check.
Admitted(r) ==
    /\ Op(r) \in Guarded
    /\ \/ pc[r] \in {"handling", "loading", "planning", "writing", "inserting"}
       \/ pc[r] = "200"

\* A request reaches its handler only if, while it was under way, its tenant
\* was active, and its user, of that tenant, had a role the route asks for.
\* It is not enough that either was so before: a token outlives the role it
\* names, and a suspension or demotion that is over by the time a request
\* arrives bars it.
AdmittedOnGrounds ==
    \A r \in Requests : Admitted(r) =>
        /\ HomeOf[Actor(r)] = request[r].tenant
        /\ \E s \in seen[r] : s.tenant.live /\ s.tenant.status = "active"
        /\ \E s \in seen[r] : s.user.role \in Required(r)

\* Nor is a request turned away for what was over before it arrived: a 403
\* or 404 of the checks has its reason in something that was so while the
\* request was under way.
RefusedOnGrounds ==
    \A r \in Requests :
        /\ pc[r] = "404" /\ Op(r) \in {"use", "login", "register", "invite", "provision"} =>
              \E s \in seen[r] : ~s.tenant.live \/ s.tenant.status = "archived"
        /\ pc[r] = "403" =>
              \/ \E s \in seen[r] : \/ ~s.tenant.live
                                    \/ s.tenant.status \in {"pending", "suspended"}
              \/ /\ Op(r) \in Guarded
                 /\ \/ HomeOf[Actor(r)] # request[r].tenant
                    \/ \E s \in seen[r] : s.user.role \notin Required(r)

\* r is the request whose UPDATE or INSERT takes this step.
Writes(r) == pc[r] \in {"writing", "inserting"} /\ pc'[r] \in {"200", "500"}

\* The status of a tenant that is there changes only by a request that asks
\* for the new one, or that was under way when the status last changed: a
\* renaming loads the whole tenant and saves what differs, so it can undo a
\* suspension it overlaps, but not one that was over when it began.
StatusChangesAskedOrOverlapping ==
    [][\A t \in Tenants : tenants[t] # NoTenant /\ tenants'[t].status # tenants[t].status =>
          \E r \in Requests :
              /\ Writes(r)
              /\ request[r].target = t
              /\ \/ /\ Op(r) \in {"update", "setStatus"}
                    /\ request[r].status = tenants'[t].status
                 \/ r \in during[t]]_vars

\* The registration of u, with the role that it asks for
Registers(r, u) ==
    /\ Op(r) = "register"
    /\ request[r].target = u
    /\ users[u] = NoUser /\ users'[u].role = request[r].role

\* An admin of the tenant of u gives u a role.
Appoints(r, u) ==
    /\ HomeOf[Actor(r)] = HomeOf[u]
    /\ \E s \in seen[r] : s.user.role = "tenant_admin"
    /\ "super_admin" \notin {users[u].role, users'[u].role}

\* A super admin provisions a tenant with u.
Installs(r, u) ==
    /\ \E s \in seen[r] : s.user.role = "super_admin"
    /\ users[u] = NoUser /\ users'[u].role = "tenant_admin"

\* Who is registered gets the role that the registration names, whichever it
\* is, or, once somebody has the email, nothing.  After that a role changes
\* only by a request of a user who, while it was under way, was an admin of
\* the same tenant; and never from or to super_admin, although both roles
\* are looked at two awaits before the UPDATE.
RolesChangedByAdmins ==
    [][\A u \in Users : users'[u] # users[u] =>
          \E r \in Requests :
              /\ Writes(r)
              /\ Registers(r, u) \/ Appoints(r, u) \/ Installs(r, u)]_vars
=============================================================================
