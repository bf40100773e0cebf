------------------------------- MODULE Catalog -------------------------------
(***************************************************************************)
(* The catalogue as a hierarchy: categories under categories, products in *)
(* categories, variants of products.                                       *)
(*                                                                         *)
(* MasterData models what one row's columns go through.  Here it is the   *)
(* links between rows.  findOne loads a category with its parent and its  *)
(* children, a product with its category and its variants, and puts them  *)
(* into the cache; update and remove hand what they found to TypeORM,     *)
(* whose save and softRemove bring the links in the database in line with *)
(* it: a child that the entity does not list loses its parent, a child    *)
(* that it lists in excess is given it.  Names are left to MasterData.     *)
(* Every await of the database or of Redis ends an action.                 *)
(***************************************************************************)
CONSTANTS
    Categories,
    Products,
    Variants,
    NoParent,
    Tree,          \* the cache key of findTree's answer
    NoEntry,       \* what is found under a cache key that is not set
    Calls,         \* the calls of the services
    Nobody,        \* the writer of what no call has written
    Operations,    \* the operations a run explores
    InitialTables  \* the tables a run starts from

Nodes == Categories \cup Products \cup Variants

\* The relations that findOne loads with a row, and save compares: those to
\* the rows above it, and those to the rows below it.
Above(n) ==
    CASE n \in Categories -> Categories \cup {NoParent}
      [] n \in Products   -> Categories
      [] n \in Variants   -> Products

Below(n) ==
    CASE n \in Categories -> Categories
      [] n \in Products   -> Variants
      [] n \in Variants   -> {}

\* parent_id may be null; category_id and product_id may not.
Nullable == Categories

Rows == [state : {"free", "live", "deleted"}, parent : Nodes \cup {NoParent}]

Tables == {t \in [Nodes -> Rows] : \A n \in Nodes : t[n].parent \in Above(n)}

CacheKeys == Categories \cup Products \cup {Tree}

Entities == [parent : Nodes \cup {NoParent}, children : SUBSET Nodes]

Trees == [roots : SUBSET Nodes, children : [Categories -> SUBSET Nodes]]

Inputs ==
    {in \in [op : {"create", "move"}, id : Nodes, parent : Nodes \cup {NoParent}]
            \cup [op : {"edit", "remove"}, id : Nodes]
            \cup [op : {"get"}, id : CacheKeys] :
        /\ in.op \in Operations
        /\ in.op = "create" => in.parent \in Above(in.id)
        /\ in.op = "move" => /\ in.id \notin Variants
                             /\ in.parent \in Above(in.id)}

NoInput == [op |-> "none"]

ASSUME CatalogAssumption ==
    /\ Categories \cap Products = {}
    /\ Categories \cap Variants = {}
    /\ Products \cap Variants = {}
    /\ NoParent \notin Nodes
    /\ Tree \notin Nodes
    /\ NoEntry \notin Entities \cup Trees
    /\ Nobody \notin Calls
    /\ InitialTables \subseteq Tables

VARIABLES
    table,      \* table[n]: whether row n is there, and its link
    cache,      \* cache[k]: what Redis holds under k
    request,    \* request[c]: what c asks for
    pc,         \* pc[c]: what c awaits, or its answer
    found,      \* found[c][k]: what c found of k, in the database or the cache
    plan,       \* plan[c]: what the transaction of c will write
    \* History, for the properties only:
    linker,     \* linker[n]: the last call that wrote the link of n
    marker,     \* marker[n]: the last call that created, removed or revived n
    before,     \* before[c]: the calls that were over when c began
    misled      \* misled[c]: the cache told c what was not so

vars == <<table, cache, request, pc, found, plan, linker, marker, before, misled>>

history == <<linker, marker, before, misled>>

Final == {"200", "404", "409", "500", "failed"}

OfParent == {"gettingParent", "loadingParent", "fillingParent"}

Awaiting == {"getting", "loading", "filling", "gettingParent", "loadingParent",
             "fillingParent", "counting", "planning", "writing", "evicting",
             "evictingTree"}

Op(c) == request[c].op
Id(c) == request[c].id

\* The row, or the tree, that c is looking for
Key(c) == IF pc[c] \in OfParent THEN request[c].parent ELSE Id(c)

Live(n) == n \in Nodes /\ table[n].state = "live"

Children(n) == {m \in Below(n) : Live(m) /\ table[m].parent = n}

NoPlan == [links |-> << >>, revives |-> FALSE]

Plans == [links : UNION {[S -> Nodes \cup {NoParent}] : S \in SUBSET Nodes},
          revives : BOOLEAN]

-----------------------------------------------------------------------------

\* Slip: the children are not loaded.
EntityAlone(n) ==
    [parent |-> IF Live(table[n].parent) THEN table[n].parent ELSE NoParent,
     children |-> {}]

\* What findOne loads.  A join leaves out the rows that are soft-deleted.
Entity(n) ==
    [parent |-> IF Live(table[n].parent) THEN table[n].parent ELSE NoParent,
     children |-> Children(n)]

\* find of findTree asks for no relation: no row comes with its parent.
LoadedParent(n) == NoParent

\* buildTree, of the rows found: a row without a parent is a root, a row
\* whose parent was found is a child of it, any other is left out.
BuildTree ==
    LET rows == {n \in Categories : Live(n)}
    IN  [roots |-> {n \in rows : LoadedParent(n) = NoParent},
         children |-> [p \in Categories |->
                          {n \in rows : p \in rows /\ LoadedParent(n) = p}]]

Content(k) == IF k = Tree THEN BuildTree ELSE Entity(k)

Init ==
    /\ table \in InitialTables
    \* Redis is empty, or what can be cached has been.
    /\ cache \in {[k \in CacheKeys |-> NoEntry],
                  [k \in CacheKeys |-> IF k = Tree \/ Live(k) THEN Content(k)
                                                              ELSE NoEntry]}
    /\ request = [c \in Calls |-> NoInput]
    /\ pc = [c \in Calls |-> "idle"]
    /\ found = [c \in Calls |-> [k \in Nodes \cup {Tree} |-> NoEntry]]
    /\ plan = [c \in Calls |-> NoPlan]
    /\ linker = [n \in Nodes |-> Nobody]
    /\ marker = [n \in Nodes |-> Nobody]
    /\ before = [c \in Calls |-> {}]
    /\ misled = [c \in Calls |-> FALSE]

Goto(c, label) == pc' = [pc EXCEPT ![c] = label]

\* The id of a row is not known before it is there, and is given to one.
Knowable(c, in) ==
    /\ in.op = "create" => \A d \in Calls : Op(d) = "create" => Id(d) # in.id
    /\ in.id # Tree => (in.op = "create" <=> table[in.id].state = "free")

\* create and update look the parent up, a category through the cache if a
\* product is to be in it; then the row is written.
LookUpParent(c, in) ==
    CASE in.parent = NoParent -> IF in.op = "create" THEN "writing" ELSE "planning"
      [] in.id \in Products  -> "gettingParent"
      [] OTHER               -> "loadingParent"

Receive(c, in) ==
    /\ pc[c] = "idle"
    /\ Knowable(c, in)
    /\ request' = [request EXCEPT ![c] = in]
    /\ Goto(c, IF in.op = "create" THEN LookUpParent(c, in)
               ELSE IF in.id \in Variants THEN "loading" ELSE "getting")
    /\ before' = [before EXCEPT ![c] = {d \in Calls : pc[d] \in Final}]
    /\ UNCHANGED <<table, cache, found, plan, linker, marker, misled>>

\* What c does when it has found what it was looking for
Found(c) ==
    IF pc[c] \in OfParent
    THEN IF Op(c) = "create" THEN "writing" ELSE "planning"
    ELSE CASE Op(c) = "get"    -> "200"
           [] Op(c) = "edit"   -> "planning"
           [] Op(c) = "move"   -> IF request[c].parent = Id(c) THEN "409"
                                  ELSE LookUpParent(c, request[c])
           [] Op(c) = "remove" -> IF Id(c) \in Variants THEN "planning"
                                                         ELSE "counting"

\* What the database would answer
Truth(k) == IF k = Tree \/ Live(k) THEN Content(k) ELSE NoEntry

\* cache.get: a hit; or a miss, or a Redis error, which counts as a miss
GetCached(c) ==
    /\ pc[c] \in {"getting", "gettingParent"}
    /\ \/ /\ cache[Key(c)] # NoEntry
          /\ found' = [found EXCEPT ![c][Key(c)] = cache[Key(c)]]
          /\ misled' = [misled EXCEPT ![c] = @ \/ cache[Key(c)] # Truth(Key(c))]
          /\ Goto(c, Found(c))
       \/ /\ Goto(c, IF pc[c] = "getting" THEN "loading" ELSE "loadingParent")
          /\ UNCHANGED <<found, misled>>
    /\ UNCHANGED <<table, cache, request, plan, linker, marker, before>>

\* What is missing: the row, or, for the tree, every row.  A variant is looked
\* for with its product, in a join that leaves out a removed one.
Missing(k) ==
    IF k = Tree THEN \A n \in Categories : ~Live(n)
    ELSE Live(k) => k \in Variants /\ ~Live(table[k].parent)

\* The query.  A service's own lookup, and a product's of its category, put
\* what they found into the cache; other parents are only looked for.
Load(c) ==
    /\ pc[c] \in {"loading", "loadingParent"}
    /\ LET k == Key(c)
           own == pc[c] = "loading"
       IN  IF Missing(k)
           THEN Goto(c, "404") /\ UNCHANGED found
           ELSE /\ found' = IF own \/ Id(c) \in Products
                            THEN [found EXCEPT ![c][k] = Content(k)]
                            ELSE found
                /\ Goto(c, CASE own /\ k \in CacheKeys       -> "filling"
                             [] ~own /\ Id(c) \in Products  -> "fillingParent"
                             [] OTHER                       -> Found(c))
    /\ UNCHANGED <<table, cache, request, plan, history>>

\* cache.set, of what may have changed since it was read.  Redis may fail.
Fill(c) ==
    /\ pc[c] \in {"filling", "fillingParent"}
    /\ \/ cache' = [cache EXCEPT ![Key(c)] = found[c][Key(c)]]
       \/ UNCHANGED cache
    /\ Goto(c, Found(c))
    /\ UNCHANGED <<table, request, found, plan, history>>

\* Slip: nothing is counted.
ChildrenUncounted(c) == FALSE

\* A category with children, or a product with variants, is not removed.  The
\* count joins the row itself: of one that is removed by now it counts none.
HasChildren(c) == Live(Id(c)) /\ Children(Id(c)) # {}

Count(c) ==
    /\ pc[c] = "counting"
    /\ Goto(c, IF HasChildren(c) THEN "409" ELSE "planning")
    /\ UNCHANGED <<table, cache, request, found, plan, history>>

\* The entity that c hands to save or softRemove
Wanted(c) ==
    IF Op(c) = "move" THEN [found[c][Id(c)] EXCEPT !.parent = request[c].parent]
                      ELSE found[c][Id(c)]

\* save writes the row's own link if it differs; softRemove does not, and a
\* variant is found without its product.
OwnLink(c) ==
    IF /\ Op(c) \in {"edit", "move"}
       /\ Id(c) \notin Variants
       /\ Wanted(c).parent # table[Id(c)].parent
    THEN {Id(c)} ELSE {}

\* The links that differ between the entity and the database, each with what
\* it is to become.
Links(c) ==
    LET n == Id(c)
        listed == Wanted(c).children
        differing == (listed \ Children(n)) \cup (Children(n) \ listed)
    IN  [m \in OwnLink(c) \cup differing |->
            CASE m \in OwnLink(c)          -> Wanted(c).parent
              [] m \in listed \ OwnLink(c) -> n
              [] OTHER                     -> NoParent]

\* save reads the row again, deleted or not, with the ids of what it relates
\* to, and compares; a deletion mark that was not there is taken off.
Plan(c) ==
    /\ pc[c] = "planning"
    /\ plan' = [plan EXCEPT ![c] =
                   [links |-> Links(c),
                    revives |-> Op(c) # "remove" /\ ~Live(Id(c))]]
    /\ Goto(c, "writing")
    /\ UNCHANGED <<table, cache, request, found, history>>

\* The table as the transaction of c leaves it
Written(c) ==
    [n \in Nodes |->
        [state |-> IF n # Id(c) THEN table[n].state
                   ELSE IF Op(c) = "remove" THEN "deleted"
                   ELSE IF Op(c) = "create" \/ plan[c].revives THEN "live"
                   ELSE table[n].state,
         parent |-> IF n = Id(c) /\ Op(c) = "create" THEN request[c].parent
                    ELSE IF n \in DOMAIN plan[c].links THEN plan[c].links[n]
                    ELSE table[n].parent]]

\* The rows whose link, and whose presence, c writes
WritesLink(c) ==
    DOMAIN plan[c].links \cup IF Op(c) = "create" THEN {Id(c)} ELSE {}

WritesMark(c) ==
    IF Op(c) \in {"create", "remove"} \/ plan[c].revives THEN {Id(c)} ELSE {}

\* Slip: the columns may be null.
BreaksNothing(c) == FALSE

\* A product or a variant would be left with a null link.
BreaksNotNull(c) ==
    \E n \in Nodes \ Nullable : Written(c)[n].parent = NoParent

\* A create leaves no entry of a row stale, and no child's or parent's entry
\* is evicted.
AfterWrite(c) ==
    CASE Id(c) \in Variants                        -> "200"
      [] Id(c) \in Products /\ Op(c) = "create"    -> "200"
      [] Id(c) \in Categories /\ Op(c) = "create"  -> "evictingTree"
      [] OTHER                                     -> "evicting"

\* The statements of one transaction, committed
Write(c) ==
    /\ pc[c] = "writing"
    /\ ~BreaksNotNull(c)
    /\ table' = Written(c)
    /\ linker' = [n \in Nodes |-> IF n \in WritesLink(c) THEN c ELSE linker[n]]
    /\ marker' = [n \in Nodes |-> IF n \in WritesMark(c) THEN c ELSE marker[n]]
    /\ Goto(c, AfterWrite(c))
    /\ UNCHANGED <<cache, request, found, plan, before, misled>>

\* The constraint fails one of them, and all are rolled back.
NotNullViolation(c) ==
    /\ pc[c] = "writing"
    /\ BreaksNotNull(c)
    /\ Goto(c, "500")
    /\ UNCHANGED <<table, cache, request, found, plan, history>>

\* cache.del of the row's key, whose errors are swallowed
Evict(c) ==
    /\ pc[c] = "evicting"
    /\ cache' \in {cache, [cache EXCEPT ![Id(c)] = NoEntry]}
    /\ Goto(c, IF Id(c) \in Categories THEN "evictingTree" ELSE "200")
    /\ UNCHANGED <<table, request, found, plan, history>>

\* delByPattern, of which only the tree concerns this module
EvictTree(c) ==
    /\ pc[c] = "evictingTree"
    /\ cache' \in {cache, [cache EXCEPT ![Tree] = NoEntry]}
    /\ Goto(c, "200")
    /\ UNCHANGED <<table, request, found, plan, history>>

\* c ends early: its name is taken, a database call fails, its audit record
\* throws, its answer to COMMIT is lost, or its server dies.
Fail(c) ==
    /\ pc[c] \in Awaiting
    /\ Goto(c, "failed")
    /\ UNCHANGED <<table, cache, request, found, plan, history>>

\* The TTL of an entry is over.
Expire(k) ==
    /\ cache[k] # NoEntry
    /\ cache' = [cache EXCEPT ![k] = NoEntry]
    /\ UNCHANGED <<table, request, pc, found, plan, history>>

Done ==
    /\ \A c \in Calls : pc[c] \in Final
    /\ UNCHANGED vars

Step(c) ==
    \/ GetCached(c)
    \/ Load(c)
    \/ Fill(c)
    \/ Count(c)
    \/ Plan(c)
    \/ Write(c)
    \/ NotNullViolation(c)
    \/ Evict(c)
    \/ EvictTree(c)

Next ==
    \/ \E c \in Calls, in \in Inputs : Receive(c, in)
    \/ \E c \in Calls : Step(c) \/ Fail(c)
    \/ \E k \in CacheKeys : Expire(k)
    \/ Done

Spec == Init /\ [][Next]_vars

-----------------------------------------------------------------------------
(* Properties.                                                             *)

\* Every variable keeps to its type; in particular the not-null links of
\* products and variants never become null.
TypeOK ==
    /\ table \in Tables
    /\ cache \in [CacheKeys -> Entities \cup Trees \cup {NoEntry}]
    /\ request \in [Calls -> Inputs \cup {NoInput}]
    /\ pc \in [Calls -> {"idle"} \cup Awaiting \cup Final]
    /\ found \in [Calls -> [Nodes \cup {Tree} -> Entities \cup Trees \cup {NoEntry}]]
    /\ plan \in [Calls -> Plans]
    /\ linker \in [Nodes -> Calls \cup {Nobody}]
    /\ marker \in [Nodes -> Calls \cup {Nobody}]
    /\ before \in [Calls -> SUBSET Calls]
    /\ misled \in [Calls -> BOOLEAN]

Overlapped(c, d) ==
    d # Nobody /\ c \notin before[d] /\ d \notin before[c]

\* What c compared the database with may no longer have been so: the cache
\* told it wrong, or an overlapping call wrote the link or the mark of n.
MayBeOutdated(c, n) ==
    \/ misled[c]
    \/ Overlapped(c, linker[n])
    \/ Overlapped(c, marker[n])

\* p is removed, or was when c began
RemovedAround(c, p) == p \in Nodes /\ (~Live(p) \/ Overlapped(c, marker[p]))

Writing(c) == pc[c] = "writing" /\ pc'[c] # "writing"

\* n is a live row under one that is not.  (A category's products are not
\* counted when it is removed: of products this is not claimed.)
Orphan(n) ==
    /\ n \notin Products
    /\ Live(n)
    /\ table[n].parent # NoParent
    /\ ~Live(table[n].parent)

\* "Cannot delete a category that has children" (M4), nor a product that has
\* variants (M5), although the children are counted before the row is removed
\* and the parent looked up before the row is saved: a live row comes to be
\* under a removed one only in a write that overlapped the one that linked,
\* removed or revived either, or that the cache had misled.
OrphansOnlyFromOverlap ==
    [][\A n \in Nodes :
          Orphan(n)' /\ ~Orphan(n) =>
              \E c \in Calls :
                  /\ Writing(c)
                  /\ \/ MayBeOutdated(c, n)
                     \/ Overlapped(c, marker[table'[n].parent])]_vars

\* save compares all that the entity lists with the database, and writes the
\* links of rows the client never named.  That undoes what a finished call has
\* linked only if the cache misled the writer; or it clears a link to a row
\* that is removed.
LinksStay ==
    [][\A n \in Nodes :
          table'[n].parent # table[n].parent =>
              \E c \in Calls :
                  /\ Writing(c)
                  /\ \/ Op(c) \in {"create", "move"} /\ Id(c) = n
                     \/ MayBeOutdated(c, n)
                     \/ RemovedAround(c, table[n].parent)]_vars

\* A save is failed by a not-null link only if a variant it does not list was
\* linked or revived meanwhile, or was missing in the cache; or if the
\* product's own category is, or overlapping was, removed.
NotNullFailsOnlyTheOutdated ==
    [][\A c \in Calls :
          pc[c] = "writing" /\ pc'[c] = "500" =>
              \E n \in {m \in DOMAIN plan[c].links : plan[c].links[m] = NoParent} :
                  \/ MayBeOutdated(c, n)
                  \/ RemovedAround(c, table[n].parent)]_vars

\* The query of findTree answers c.
BuildsTree(c) == pc[c] = "loading" /\ Id(c) = Tree /\ pc'[c] = "filling"

\* "GET /api/v1/categories/tree returns hierarchical tree structure" (M4): a
\* live category under a live one is among that one's children.
TreeIsHierarchical ==
    [][\A c \in Calls :
          BuildsTree(c) =>
              \A n \in Categories :
                  Live(n) /\ Live(table[n].parent) =>
                      n \in found'[c][Tree].children[table[n].parent]]_vars
=============================================================================
