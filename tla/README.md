# Tenantory: a verification development

TLA+ models of the multi-tenant inventory backend in `src/`, model-checked with TLC and, where it
matters most, proved with TLAPS. Paths below such as `inventory.service.ts:109` are relative to
`src/src/`; documents are in `src/docs/`.

## The system

A NestJS server (possibly several, behind a balancer) over Postgres (through TypeORM), Redis and an
object store. One HTTP request is one asynchronous handler; every `await` of a database or Redis
call is a point where other handlers run. There is no lock in the program: its only means against
interference are database transactions (read committed), the `version` column of stock levels,
unique indexes, and checks made before a save.

| Part | State | Operations | Interacts with | Hard behaviour |
|---|---|---|---|---|
| Stock engine (`inventory/`) | `stock_levels`: available, reserved, version | deduct, replenish, reserve, release | validates variant and warehouse; publishes audit record and movement event after COMMIT | lost updates, retries, insert races, crash after COMMIT, overflow |
| Notifications (`notifications/`) | `notifications`: read, deleted | dispatch, dedup, save; markRead, markAllRead, remove | fed by movement events; recipients from the users' roles | dedup race, swallowed errors, two-query answers |
| Categories, products, variants, warehouses, suppliers, tenants | one table each, soft-deleted | create, update, remove, cached lookups and listings | products read categories, stock reads variants and warehouses | check-then-save, write-back of stale columns, stale cache |
| Cache (`cache.service.ts`) | Redis keys with TTL | get, set, del, delByPattern | categories, products, users | fill after evict, swallowed errors |
| Tenant access (`tenant/`, `auth/`, guards) | tenants' status, users, tokens | middleware, guards, strategy; register, login, refresh | every request | status changed between checks |
| Links of the catalogue | parent of a category, category of a product, product of a variant | create under, move, edit, remove, `findOne` with relations, `findTree` | each service looks the rows above up, and the ORM compares those below | a save writes links that its client never named |
| Tenant administration (`admin/`) | tenants, users, settings | provision, change status, invite, change role, settings | users, cache | multi-insert transaction on one connection, lost update of settings |
| Audit log (`audit/`) | `audit` rows, request context | record, insert | every mutation emits a record | insert after COMMIT, swallowed errors |
| Media (`media/`) | object store and `media_assets` | upload, presign | object store | two stores, no transaction |
| Search, metrics, logging, filters, swagger | none of their own | read-only or stateless | | |

What makes each part correct:

* **Stock engine.** Quantities never leave their columns; units are lost, the published trail forks and
  an alert goes wrong only where a save wrote over a row that it had not read; a request takes effect
  wholly or not at all and its answer says which; a retry applies nothing twice and ends; tenants never
  touch each other's stock, and nobody that of a removed variant or warehouse.
* **Notifications.** One unread alert per user and stock; a dispatched alert arrives unless an
  error takes it; alerts stay in their tenant; markRead answers truthfully.
* **Master data.** Names are shared only by a race, and a conflict is reported only over what was asked;
  an edit that has finished is not undone by one that
  did not ask for it; the cache tells what the table holds.
* **Catalogue.** A live row is not left under a removed one; a save does not undo what another call
  has linked; a not-null link does not fail a save that has done nothing wrong.
* **Administration.** A tenant comes whole or not at all; answers are true of the tables; the pool
  gets its connections back; a key of the settings, or a domain, that a client did not send changes
  only by overlap; what was answered is on record.
* **Media.** No row without its object; no object without a row, but for known reasons; a URL serves
  the tenant that uploaded.
* **Access.** Only an active tenant's own users with the required role reach a handler, and nobody
  who is entitled is turned away; status and role change only by those who may change them.

## Modules

| Module | Models |
|---|---|
| `StockLedger` | what the stock engine promises: whole movements, one at a time, each covered by the holding it was computed from, be that the present one or one that used to be |
| `Inventory` | `InventoryService`, `retryWithBackoff` and TypeORM's `save`, request by request, await by await |
| `Notifications` | dispatch, `NotificationListener` and `NotificationService` |
| `MasterData` | the one pattern of the category, product, variant, warehouse, supplier and tenant services, with `CacheService` |
| `TenantAccess` | `TenantMiddleware`, `TenantGuard`, `JwtAuthGuard` with `JwtStrategy`, `RoleGuard`; login; registration, invitation, provisioning; the changes of a tenant's status and a user's role |
| `Catalog` | `CategoryService`, `ProductService` and `VariantService`, for the links between rows; `findTree`; the relation diff of TypeORM's `save` and `softRemove` |
| `Administration` | `TenantProvisioningService`, `TenantService`, `AuthService.register`, `inviteUser`, `TenantSettingService`, `AuditService` and its listener, over one pool of connections |
| `Media` | `MediaService` between the object store and `media_assets` |
| `MC<module>` | constants for TLC |
| `<module>Proofs` | theorems and their proofs, for each of the seven models |

Some definitions are preceded by a *slip*: the same operator as a plausible mistake would write it
(`TakenNever`, `CoversExceptRelease`, ...). No specification uses them. Each property is checked to
fail when its slip, paired with it under "mutants" in `PROJECT.json`, takes the operator's place.

### Inventory

A member of `Requests` is one request. `pc` names the call it awaits; an action is everything
between two awaits.

| Code | Action |
|---|---|
| `variantService.findOneById`, `warehouseService.findOne` (`Promise.all`) | `Validate` (deduct and replenish only) |
| `findOne` in the transaction, the test and the change of the entity | `Load`, `RejectMissing`, `RejectInsufficient` |
| `manager.save`: reload of the row, diff against the entity | `PlanUpdate` |
| `manager.save`: INSERT or UPDATE, then COMMIT | `Commit`, `UniqueViolation`, `VersionMismatch`, `IntegerOverflow` |
| `retryWithBackoff` | `RetryOrFail`, `Retry` |
| `publishStockMovement` | `Publish` |
| any database call that fails; the server's death | `DatabaseError`, `Crash` |
| `remove` of a variant or warehouse meanwhile | `SoftDelete` |

*Fusions.* The UPDATE holds the row's lock until its COMMIT, and nothing runs between them that
could leave a partial effect, so they are one action; the answer to COMMIT may be lost, which is
the `"500"` branch of `Commit`. The two lookups of `Promise.all` are one: neither writes, and the
answer can only differ by a soft delete between them, which is an order of `SoftDelete` and
`Validate` that the run has too.

*Versions.* `save` of an entity that was found without a lock mode increments the version and compares
nothing, so that a stale entity overwrites (`Stale`, `overwriting`); only an INSERT can collide
(`Conflict`). TypeORM has an error for a version that differs,
`OptimisticLockVersionMismatchError`, which the retry loop waits for; it raises it for a find with an
optimistic lock mode, and the code makes none. So that the loop, too, is checked, `VersionMismatch` lets
`save` raise the error for a stale entity, when it pleases; a behaviour of the program is one in which it
never does, and what holds of all holds of these.

*Removed stock.* The where clause of `findOne` is on the relations `variant` and `warehouse`, and TypeORM's
joins skip soft-deleted rows (`Finds`): a row of stock whose variant was removed is not found. So
`findOrCreate` makes a second entity for it, and its INSERT collides.

### Notifications

Event emitters are synchronous up to a listener's first await, so `Publish` is the movement, the
threshold test and the dispatch. `Resolve`, `Filter` and `Save` are the three awaits of
`handleDispatch`; `Fail` is the catch that logs and drops. A save of several rows is one
transaction. `rows`, `readRows` and `deletedRows` are the table; identifiers are (movement, user)
pairs, so that a row tells which dispatch wrote it. `MarkRead` and `CheckExists` are the UPDATE and
the second query of `markRead`.

### MasterData

The services differ in constants: whether there is a cache (`Cached`) and a unique index
(`Indexed`, the columns that have one: a category's slug and name both do), which operations check the
name (`Checks`) and which can be refused because of another
record (`Related`); the table is in the module's header. One column, *name*, stands for the one
that is checked, one, *note*, for all others; *state* is the deletion mark, and an id not yet
used is a `free` row. `Plan` is TypeORM's reload and diff: `save` sets every column in which the
entity, read earlier, differs from the row now, the deletion mark included. `Write` is the
statement and its COMMIT, after which the audit record may throw or the answer be lost (`"500"`,
with evictions skipped). All listings, of any query, are one cache key, `List`; the pattern that
evicts them covers each. Children, parents and variants are `Catalog`'s:
here `Refuse` lets a parent be missing, be the category itself, or children be there, at any time.
`Init` takes a table, and a cache that earlier calls may have left stale, from `Beginnings`.

### TenantAccess

A request passes up to three looks at the database before its handler runs: the tenant and its
status (`Middleware`), the tenant's existence (`Guard`), the user with its role (`Authenticate`).
What a look found may be undone before the next.

| Code | Action |
|---|---|
| arrival; whether the route is behind the middleware (`app.module.ts`) | `Receive` |
| `TenantMiddleware.use`, `TenantService.findByIdAndValidate` | `Middleware` |
| `TenantGuard.canActivate` | `Guard` |
| `JwtStrategy.validate`, `validateJwtPayload`, `RoleGuard.canActivate` | `Authenticate` |
| `AuthService.login`: `findOneByEmail` and `bcrypt.compare`; `generateTokens` | `Identify`; `Sign` |
| `register` and `inviteUser`: up to the save; its INSERT | `LoadNewcomer`; `InsertUser` |
| `TenantService.create`; `createTenant` | `InsertTenant`; `Provision` |
| `updateUserRole`; `update` and `updateTenantStatus`; `remove` of a tenant, up to the save | `LoadUser`; `LoadTenant`; `LoadRemoved` |
| `save`: reload and diff; UPDATE and COMMIT | `Plan`; `WriteUser`, `WriteTenant` |
| any other handler | `Handle` |
| any call that fails; the server's death | `Fail` |

*Fusions.* `RoleGuard` is synchronous and runs on the user that `JwtStrategy` has just read.
`bcrypt.compare` reads nothing. A handler runs from the last guard to its first await. `createTenant` is
one transaction, and so one action; its own statements are `Administration`'s.

*Newcomers.* A user is named by tenant and e-mail, a tenant by its domain; those that are not there are
`NoUser` and `NoTenant`. `register` is public and takes the role from its dto (`auth.service.ts:53`), so
anybody may come as a super admin; `inviteUser` refuses that role, and provisioning gives `tenant_admin`.

*Tokens.* A token is a user and the role the user had when it was signed. Requests carry only
tokens that were issued; each may turn out to have expired (the `"401"` branch of `Authenticate`).

*Not in the model.* `POST /auth/refresh` verifies a refresh token, but `login`, the only caller of
`generateTokens` a client can begin with, returns the access token alone, and so no client has one:
the route never succeeds. `/v1/tenants` is public and outside the middleware, and its
requests carry nobody's token: *asked* in `StatusChangesAskedOrOverlapping` means asked by anyone.
Accounts are never deactivated and users never deleted by the code, and so their checks are left out.

### Catalog

`MasterData` follows the columns of a row, `Catalog` the links between rows, and names no column.
`table[n].parent` is the row's foreign key. An *entity* is what `findOne` returns: the row above and
the set of rows below, of those that are live. A category is cached with both, a product with its
category and variants; a variant is not cached and is found without its product, but by a join with it,
which leaves out a removed one (`Missing`). So does the count before a removal: of a row that was itself
removed meanwhile it counts none (`HasChildren`).

| Code | Action |
|---|---|
| `cache.get`, of the row, the tree, or the category a product is to be in | `GetCached` |
| the query on a miss; a parent's lookup | `Load` |
| `cache.set` | `Fill` |
| `count` of children or variants before a removal | `Count` |
| `save`, `softRemove`: reload with relation ids, diff against the entity | `Plan` |
| the statements and COMMIT | `Write`, `NotNullViolation` |
| `cache.del`; `delByPattern` | `Evict`; `EvictTree` |
| any other call that fails, a name that is taken; expiry | `Fail`; `Expire` |

*TypeORM* (external). A one-to-many relation that was loaded with the entity is compared when it is
saved: a child in the database that the entity does not list has its foreign key set to null, one
that it lists and the database does not is given it (`Links`). `softRemove` does the same and writes
the deletion mark. Relation ids are loaded without the rows that are soft-deleted. A null in
`category_id` or `product_id` breaks the column's constraint and rolls the whole save back.

`Init` starts from Redis empty or holding what can be cached.

### Administration

A tenant or account is known by the call that creates it, so that `Whole(c)` can say what the
provisioning `c` must leave.

| Code | Action |
|---|---|
| `queryRunner.connect`, `startTransaction` | `Connect`; `Begin`, `BeginFails` |
| `createTenant`: `findOne` of the domain; three inserts and a lookup; COMMIT | `CheckDomain`; `InsertTenant`, `CheckAdmin`, `InsertAdmin`, `InsertSettings`; `Commit` |
| its catch and finally | `StatementFails`, `Rollback`; `Release` |
| `TenantService.create`: a connection for the save; the INSERT | `Create`; `InsertAlone` |
| `TenantService.update`: `findOne`; `save`: reload and diff; UPDATE and COMMIT | `FindTenant`; `CompareTenant`; `UpdateTenant` |
| `TenantService.remove`, by anybody | `Remove` |
| `findOneByEmail`, and `inviteUser`'s refusal of a super admin; `save` of `register` and `inviteUser` | `CheckEmail`; `InsertUser` |
| `getSettings`; `save`: reload and diff; UPDATE and COMMIT | `FindSettings`; `PlanSettings`; `WriteSettings` |
| `AuditService.record` and the answer; the listener's insert | `Answer`; `InsertAudit`, `LoseAudit` |
| `connectionTimeoutMillis` | `PoolTimeout` |
| any other call that fails; the server's death | `Fail`; `Crash` |

*The pool.* A transaction and a `save` that may wait or write later keep their connection from one action
to the next (`held`); any other statement takes and returns one within its action. The INSERT of
`TenantService.create` and the UPDATE of a domain have a connection while they wait for a key. *Locks.* A
write of a domain waits while a transaction that has inserted it has not ended (`DomainBusy`): Postgres
decides the violation only then.

*Tenants that change.* `TenantService.update` may give a tenant another domain, which a rival may then
find free or taken, and its `save` takes off the mark of a removal that it overlapped (`UpdatedRow`). An
update that names no domain (`Kept`) still saves the one it had found; `updateTenantStatus` does the same,
but answers a collision 500, as `Fail` does. `namer`, `writer` and `sights` remember who changed a domain
or a key, and what a call could have seen while it was under way. *Roles* and the tenant's status are
`TenantAccess`'s, which of the administrators may call what included.

### Media

`Put` and `Save` are the two writes of `uploadFile`, and nothing joins them. `Look` and `Sign` are the
two awaits of `getSignedURL`; a presigned upload is `Sign` alone, after which the client may put the
object by itself (`PutDirectly`) while the URL is good. The answer of either store may be lost.

History variables are read by no guard of an action: `committed`, `tally`, `past`, `overwriting`, `late`
(`Inventory`); `savedAtFilter` (`Notifications`); `writer`, `before`, `misled`, `excused` (`MasterData`);
`seen`, `during` (`TenantAccess`); `linker`, `marker`, `before`, `misled` (`Catalog`); `committed`,
`writer`, `namer`, `sights`, `before`, `unbegun`, `lost` (`Administration`).

## Runs

| Run | Configuration | Bounds | Shows |
|---|---|---|---|
| `inventory_contention` | `MCInventoryContention` | 3 requests of any operation, 1 row (absent, last unit, a few), quantities 1..2, column width 3, 2 attempts | retries owed to rivals; the trail forks, and an alert is wrong, only where a commit wrote over another; refinement of `StockLedger` |
| `inventory_as_built` | `MCInventoryAsBuilt` | 2 requests, 2 tenants, variant and warehouse removable | columns in range, units lost only by a stale commit, truthful answers, tenants apart, removed stock left alone; every request is answered |
| `inventory_last_unit` | `MCInventoryLastUnit` | 2 requests | **violation**: the last unit is sold twice |
| `notifications` | `MCNotifications` | 2 movements, 2 stock keys, 2 users in 2 tenants | duplicates only from overlap, truthful markRead, alerts stay in the tenant and reach its staff |
| `warehouses` | `MCWarehouses` | 3 calls, 2 ids, 2 names, 2 notes; tables with live, deleted and free rows | names shared, and edits undone, only by overlapping calls |
| `categories` | `MCCategories` | 2 calls, with a cache, empty or with an entry left stale, and two unique indexes | cache stale only by race or loss; a client told of a conflict only over what it asked for, or what its call found outdated |
| `products` | `MCProducts` | 2 calls, with a cache, empty or with an entry left stale, and no index | a skuPrefix shared only by calls that overlapped or that a stale entry misled |
| `catalog` | `MCCatalog` | 2 calls of any operation, 2 categories, 1 product, 1 variant; three tables, Redis cold or warm | rows orphaned, links undone and saves failed by a null link only if calls overlapped, the cache misled one, or the row above was removed |
| `catalog_tree_flat` | `MCCatalogTree` | the same tables, creations and reads | **violation**: a category with a child is two roots |
| `administration` | `MCAdministration` | 2 calls of any operation, or a third (create or register) beside two that make tenants; 2 connections, 2 domains, 1 e-mail, 2 keys of 2 values; a seeded tenant, there or removed | tenants whole or not at all, truthful answers, connections given back, settings and domains that nobody asked to change changed only by overlap, records of what was answered; every call ends |
| `media` | `MCMedia` | 3 calls, 2 tenants | no row without its object; URLs stay in the tenant |
| `tenant_access` | `MCTenantAccess` | 2 requests of any operation; a tenant with an admin and a super admin, where a customer is yet to come; another, suspended or yet to be created, where a guest is | requests are admitted and refused only on what was so while they were under way; status changes only by request or overlap, roles only by registration, provisioning or an admin |

Why the bounds are enough. Every conflict in this code is between two transactions about one row;
the third request of `inventory_contention` and the third call of `warehouses` let a pair's outcome be
disturbed by another, and exhaust the retries. In `inventory_as_built` two requests meet with what removes
their stock. In `categories` and `products` an entry that an earlier call left stale stands for
that third call. Widths and quantities are chosen so that
insufficiency, overflow and the threshold are a step or two away. In `tenant_access` one request
passes the checks while the other changes what they look at; users of each kind are there or can
register, and each has a token to send. In `catalog` a category can be moved into, out of and around another,
and each kind of row be created, removed and found stale in Redis while the other call compares it;
two categories, one in the other, are what it takes for a child to be counted, attached, detached and
orphaned. In `administration` two calls are enough to race for any row, and with two connections they do
so with both transactions open, so that one waits for the other's key; the third call finds both
connections held, and the key it wants too, so that it waits for the pool and then for the key, and
times out on either. With one connection nobody would ever wait for a key. Calls arrive in a fixed order
(`Arrivals`), for they are told apart by nothing but what they ask, and want one domain, which the seeded
tenant has or has not, and which an update may give it; two keys of the settings let an
update touch one and not the other. In `media` an upload, a direct
upload and a request for a URL meet. What the runs leave open for more requests, rows or tenants, the
theorems below settle.

Fairness. `FairSpec` of `Inventory`, and of `Administration`, is weak fairness of each request's own
steps: the event loop runs every continuation whose call has answered, the pool gives a connection or
times out (`connectionTimeoutMillis`, `app.module.ts:74`), a statement answers or fails, and backoff
timers fire. Nothing is assumed of clients, of crashes or of errors, of a soft delete or of the audit
listener. `FairSpec` of `Notifications` says the same of the listener's three steps.

### Disagreements with the documents

* `inventory_last_unit`: M6:218 says TypeORM "validates that the `version` matches what was read";
  the blueprint (line 379) asks that of concurrent requests for the last unit "exactly one request
  succeeds". As built, both do.
* `catalog_tree_flat`: M4:522 says that `GET /api/v1/categories/tree` "returns hierarchical tree
  structure", and `category.controller.ts:57` "the full category tree (hierarchical)". `findTree` asks
  for no relation, so that no category comes with its parent, and `buildTree` makes a root of each.

## Theorems

All hold for every value of the constants that satisfies the module's assumption.

**InventoryProofs.** Versions only grow, and a row changes only together with its version. So while
a row has the version a request read, it is the row the request read: that is the core of the
inductive invariant `RowInv` (`ReadIsPast`, `ReadCovers`, `PlanIsComplete`, `PlanIsWhole`), needed
because what makes a commit right was established two awaits earlier. From it: `TypeCorrect`;
`StockStaysInRange`, also of the rows that mix the columns of two transactions; and
`OnlyStaleCommitsLoseUnits`.

None of the theorems assumes that a save looks at the version. What is lost to a save that does not is
named instead, by `overwriting`, the requests whose commit wrote over a row that they had not read.
`LedgerInv` says that a loaded row that a request holds is one of the holdings the row has had; with
`ReadCovers` it gives `EngineImplementsLedger`, that every step is a step of `StockLedger`, a `Move` if
the commit is fresh and an `Overwrite` if not, or a stutter. `ChainInv`, that nobody else holds the
version a fresh commit has written over, gives `TrailForksAtStaleCommits`, and that a fresh commit has
seen the row it moves gives `StaleCommitsAloneMislead`. `LateInv` says that a request that came after
its stock was removed gets no further than its look for the row, and has committed nothing:
`RemovedStockIsNotMoved`. `AnswerInv`, that what is emitted and answered was committed, gives
`AnswersTellTheTruth`. `TenantInv`, that every row belongs to the tenant of its variant and of its
warehouse, and that whoever holds a row has been found to own both, gives `TenantsStayApart`: it is
needed because `deduct` validates before its first attempt only, and `reserve` not at all. `RetryInv`
counts a request's rivals: a conflict costs an attempt, and needs a commit since the read that none of
the earlier attempts has been charged to; whence `RivalsAloneCostRetries`, and
`EnoughAttemptsForContenders`: as many attempts as there are ever requests for a row are enough for each
of them.

**NotificationsProofs.** The inductive invariant is `TypeOK /\ DispatchInv /\ CallInv`: a filtered
target has no unread row for the key except from a dispatch that had not saved when the filter
looked; an id whose UPDATE affected nothing is, if it is the caller's at all, read or deleted and
stays so. From it: `NotificationTypes`, `OverlapAloneDuplicates`, `AlertsNeverLeaveTenant`,
`MarkReadTellsTheTruth`. `ReachInv` says that a recipient whom the filter took off the targets has
an alert about that stock already, and that a dispatch that is done has left one with every recipient (`DispatchesReachOrFail`).

**MasterDataProofs.** `IInv` adds to the types that what a call has found, and what Redis holds,
was read from a row that was live (`Genuine`): so a row that does not exist yet is nowhere cached,
and only creations write it. From it: `MasterDataTypes`; `CacheIsStaleOnlyByRaceOrLoss`. `OverlapInv` adds
that what a call found differs from its row only in columns that an overlapping call wrote, unless a stale
entry misled it: `EditsStay`, of every service, and `ConflictsAreOwed`, for what a save collides with is in
what its client asked for or in what its call found outdated. `CheckedInv` says that a name which passed
the check was taken since only by an overlapping call: `SharingNeedsOverlap`, if creations and renamings
check the name.

`SharedNamesOnlyFromOverlap` speaks of the step in which two rows come to share a name. It cannot
be said of the rows' present writers: a row that shares its name already may be deleted and brought
back to life by an edit that never overlapped the other row's writer. That takes five calls, more
than a run can explore.

**TenantAccessProofs.** `seen[r]` collects what a request's tenant and user were at any moment since
it arrived. `SightInv` says that it holds the present, and, of a request past the middleware, a
moment at which the tenant was active: each later check then adds its own ground, although what the
earlier ones found may be gone. `EditInv` says of a request about to write that the two roles it
tested still are not super_admin, since no UPDATE makes a user one, and that it writes a status it
was not asked for only if the status changed while it was under way. From these, and the types:
`TenantAccessTypes`, `NobodyEntersOnThePast`, `NobodyIsBarredForThePast`, `StatusesStay`,
`AdminsAloneChangeRoles`.

`SuperInv` says that of super admins alone whatever was read stays true: nobody who is there becomes one or
ceases to be one, and new ones come by registration only (`SuperAdminsOnlyRegister`), no token is outdated
in this (`SuperAdminTokensStayTrue`), and who was admitted to
change the status of a tenant still is a super admin when it is written
(`SuperAdminsSetStatusThroughout`), which cannot be said of the admins of tenants. Where a request's tenant
and user do not change meanwhile, the four checks decide as one would (`ChecksDecideAsOne`, a consequence of
`SightInv`: `seen[r]` then has one member).

**CatalogProofs.** `TypeInv` adds to the types what makes them inductive: each row, entity, cache entry
and plan links rows to rows of the right kind (`FoundType`, `CacheType`, `PlanType`), and a call that
plans has found its row. `CatalogTypes` is more than a matter of shape: it says that no diff of whole
entities leaves a product without a category or a variant without a product.
`LinkInv` is about what a call still knows when it acts on it: what it found of the row it changes is so,
except of rows that an overlapping call has written since, or unless the cache misled it (`Seen`); the
parent it looked up was live (`ParentHeld`), the row it removes had nobody below (`Emptied`), and each link
it has planned to write has its excuse in that (`Excused`). Such knowledge is never lost while the call is
under way (`KnowledgeEndures`), since whoever writes then overlaps it. From it: `OnlyOverlapOrphans`,
`OnlyOverlappingLinksAreLost`, `OnlyOverlapBreaksNotNull`.

**AdministrationProofs.** A row is there only because its call has committed (`Rooted`), what a call has
committed it has wholly (`Settled`), and what an open transaction has inserted depends only on the
statement it has come to (`Staged`). The steps of the others keep that, for rows stay, though they are
marked, renamed and revived (`Grown`, `UpdateKeeps`). A tenant that was in the way need not stay there:
`SightsInv` and `Grounded` therefore keep what each call could see while it was under way, to which its
answer is owed. From it: `AdministrationIsTruthful`. With
invariants of the connections held (`HeldInv`), and of what an update found of settings (`SettingsInv`) and
of a tenant's domain (`NamesInv`), each of which can be outdated only by an overlapping call:
`AdministrationTypes`, `OnlyFailedBeginsKeepConnections`, `ChangesAreAskedOrOverlap`,
`AnsweredChangesAreOnRecord`. `LockInv` says which statements have a transaction with the key of a domain,
or a connection, in hand, and `PoolInv` counts the connections. Whoever has a connection never asks for
a second one, and a transaction that has a key has a connection and waits for nothing; so who waits is at
most two calls away from one that can go on, though saves of tenants keep a connection while they wait
(`NobodyWaitsInCircles`).

**MediaProofs.** `Reached` says which of the two stores an upload has come to, `Sources` which call each
row, object and URL comes from: whence `MediaTypeCorrect`, `RowsHaveObjects`, `URLsServeOneTenant`.

Only model-checked: the liveness properties `EveryRequestAnswered`, `AlertsReachStaff` and
`EveryCallEnds`, for fairness and ENABLED are out of the prover's reach; and the two violations. What
each of the three needs besides fairness is proved, a bound on the steps that are left and that every step
lowers: `RequestsTakeBoundedSteps`, `DispatchesReachOrFail`, and `CallsTakeBoundedSteps` with
`NobodyWaitsInCircles`. That the next step is enabled is left to the runs.

No theorem assumes that requests, calls or dispatches take turns, or that the cache is right: nothing in
the code makes them so. Where overlap or a stale entry is what goes wrong, the property says so of the
step in which it does.

## What does not hold

* `update` of a category or a product modifies what `findOne` took from Redis, so an
  edit long over can be undone until the entry expires: `FinishedEditsStay` excuses who took a stale entry
  for the row (`misled`), as do `SharedNamesOnlyFromOverlap` and `ConflictsHaveGrounds`.
* `POST /v1/auth/register` is public and takes `dto.role` as it comes (`auth.service.ts:53`): anybody can
  register as a super admin. `RolesChangedByAdmins` and `SuperAdminsOnlyRegister` say what is left, that
  nobody becomes one in another way.
* M6 has the version protect a row of stock. Nothing compares it, so that units, audit trail and alerts
  are right only of commits that did not overwrite (`UnitsAccountedFor`, `TrailForksOnlyByOverwrite`,
  `AlertsFailOnlyByOverwrite`).
* A request for stock that was under way when the variant or warehouse was removed may still move it:
  `RemovedStockStays` is about those that came later.
* A suspension does not stop the requests admitted before it: `TenantGuard` looks only at deletion,
  and handlers do not look again. `AdmittedOnGrounds` asks for *a* moment of the request at which the
  tenant was active, and for *a* moment at which the user had the role, not for one in common and
  not for the moment the handler starts.
* A renaming of a tenant that overlaps its suspension makes it active again; the same `save` brings a
  tenant back to life that was removed meanwhile, and one that names no domain puts back a domain that was
  changed meanwhile.
* Who provisions or creates a tenant can be told of a conflict with a domain that is free again, and the
  loser of two need not be answered by a tenant that still is there: `AnswersAreTruthful` asks that the rival
  was in the way at some time of the call.
* M7:171 has login issue a refresh token too; as built it is signed and dropped.
* Overflow and the loser of an insert race are answered 500, not 4xx: `AnswersAreTruthful` does not
  say otherwise, for 500 promises nothing.
* `notification.event.ts:17` says that users with an unread notification of the same key "are skipped";
  overlapping dispatches skip nobody, for the filter and the save are two awaits.
  `DuplicatesOnlyFromOverlap` is what holds.
* M5:147 says of a skuPrefix that "the service enforces uniqueness within the tenant"; the check precedes
  the save and no index backs it.
* The blueprint (line 112) says "Strictly enforce tenant transitions: `Pending` -> `Active` <->
  `Suspended` -> `Archived`"; `updateTenantStatus` and `TenantService.update` assign any status to a
  tenant of any status.

Of the catalogue:

* Moving a category under its own descendant is not refused (`category.service.ts:226` refuses only the
  category itself): two moves, one after the other, make a cycle. So do two that overlap.
* A cached entry lists the rows below, and is not evicted when one is created, moved or removed. An
  update of what it tells detaches a row attached since, with nobody overlapping: `LinksStay` excuses
  what the cache misled. Of a product this ends in 500 until the entry expires, for `product_id` may not
  be null.
* Removing a category does not look at its products. They stay linked to it, are found without a
  category, and each update of one then sets a null link and is answered 500.
  `OrphansOnlyFromOverlap` does not speak of products.
* M4:277 has a category whose parent is missing treated as a root; `buildTree` leaves it out. As built no
  category has a parent there (see `catalog_tree_flat`).

Of the administration:

* A BEGIN that fails is outside of the try block, and its connection is not released. (`BeginFails` also
  allows that it was lost, and the driver gave it back.) Ten of them, and every request times out.
* `TenantService.create` makes a tenant without settings: its settings are 404 for ever.
* An update of settings that overlaps another writes back what it had read. So does an empty one.
* Of two registrations of one e-mail that overlap, one is answered 500; of two invitations, 409.
* Provisioning, `TenantService.create` and changes of status leave no audit record; a record whose insert
  fails is logged and forgotten.

Of media:

* M8:110 has a `MediaAsset` with status `PENDING` recorded for a presigned upload. None is, and so what a
  client has put directly can never be fetched.
* M8:95 asks that a key be prefixed with the tenant. It begins with the UUID
  (`s3-unique-key.util.ts`), and holds the tenant after it.

## Plan

1. `StockAlerts`: `Inventory` and `Notifications` composed, from a deduction to the alert. The event that
   joins them is emitted and heard in one step, so that it would add states and no interleaving.
2. Larger instances of `catalog` (two products, so that a variant is moved between what two saves list),
   if its state space can be cut further; its theorems hold for any number already.

Not modelled, and not planned: search and all listings' filters and pages (read-only), metrics,
logging, request ids, the exception filter, swagger, migrations (run before the program starts).
