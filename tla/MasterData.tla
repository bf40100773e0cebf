----------------------------- MODULE MasterData -----------------------------
(***************************************************************************)
(* The records a tenant maintains: categories, products, variants,        *)
(* warehouses and suppliers, and the tenants themselves.                   *)
(*                                                                         *)
(* Their services are written to one pattern: find the record, change the *)
(* found, ask whether the name is free, save, evict the cache.  What they *)
(* differ in are the constants:                                            *)
(*                                                                         *)
(*               Cached  Indexed     Checks             Related            *)
(*   category    TRUE    name note   create rename edit create edit remove *)
(*   product     TRUE                create             create edit remove *)
(*   variant     FALSE   name        create rename      create             *)
(*   warehouse   FALSE               create rename                         *)
(*   supplier    FALSE               create rename                         *)
(*   tenant      FALSE   name                                              *)
(*                                                                         *)
(* A row's "name" is the column that is checked, or has to be unique (slug, *)
(* skuPrefix, sku, name, companyName, domainName); its "note" stands for   *)
(* the others, for a category's display name above all, which has an index *)
(* of its own and is not checked.  A product is never renamed.             *)
(* Every await of the database or of Redis ends an action.                 *)
(***************************************************************************)
EXTENDS Integers

CONSTANTS
    Records,       \* the ids a row may have
    List,          \* the cache key of the listings
    NoEntry,       \* what is found under a cache key that is not set
    Calls,         \* the calls of the service
    Nobody,        \* the writer of a column that no call has written
    Names,
    Notes,
    Operations,    \* the operations of this service
    Checks,        \* those that ask whether the name is free
    Related,       \* those that another record can rule out
    Cached,        \* findOne is cache-aside
    Indexed,       \* the columns with a unique index
    Beginnings     \* the tables and caches that earlier calls may have left

Columns == {"state", "name", "note"}

Rows == [state : {"free", "live", "deleted"}, name : Names, note : Notes]

Tables == [Records -> Rows]

CacheKeys == Records \cup {List}

\* What a query, or a cache entry, says of some rows
Snapshots == UNION {[S -> Rows] : S \in SUBSET Records}

Inputs ==
    {in \in [op : {"create"}, name : Names, note : Notes]
            \cup [op : {"rename"}, id : Records, name : Names]
            \cup [op : {"edit"}, id : Records, note : Notes]
            \cup [op : {"remove"}, id : Records]
            \cup [op : {"get"}, id : CacheKeys] : in.op \in Operations}

NoInput == [op |-> "none"]

\* A unique index admits the rows of t, deleted ones included.
Admitted(t) ==
    \A column \in Indexed, r, s \in Records :
        /\ r # s /\ t[r].state # "free" /\ t[s].state # "free"
        => t[r][column] # t[s][column]

\* The rows that the entry under a cache key is about
Scope(k) == IF k = List THEN Records ELSE {k}

\* A row that is cached was read while it was live.
Readable(t, k, entry) ==
    /\ Cached
    /\ entry \in [Scope(k) -> Rows]
    /\ k # List => entry[k].state = "live" /\ t[k].state # "free"

ASSUME MasterDataAssumption ==
    /\ List \notin Records
    /\ NoEntry \notin Snapshots
    /\ Nobody \notin Calls
    /\ Cached \in BOOLEAN
    /\ Indexed \subseteq {"name", "note"}
    /\ \A b \in Beginnings :
          /\ b.table \in Tables /\ Admitted(b.table)
          /\ b.cache \in [CacheKeys -> Snapshots \cup {NoEntry}]
          /\ \A k \in CacheKeys :
                b.cache[k] # NoEntry => Readable(b.table, k, b.cache[k])

VARIABLES
    table,      \* table[r]: the row with id r
    cache,      \* cache[k]: what Redis holds under k
    request,    \* request[c]: what c asks for
    pc,         \* pc[c]: what c awaits, or its answer
    found,      \* found[c]: what c found, in the database or the cache
    diff,       \* diff[c]: the columns the UPDATE of c will set
    \* History, for the properties only:
    writer,     \* writer[r]: the last call that wrote each column of row r
    before,     \* before[c]: the calls that were over when c began
    misled,     \* the calls that took a stale entry of the cache for the row
    excused     \* the keys whose entry a race or a lost eviction left stale

vars == <<table, cache, request, pc, found, diff, writer, before, misled, excused>>

history == <<writer, before, misled, excused>>

Final == {"200", "404", "409", "500", "dropped"}

AtDatabase == {"loading", "checking", "planning", "writing"}

AtRedis == {"getting", "filling", "evicting", "evictingList"}

Op(c) == request[c].op
Id(c) == request[c].id

\* What findOne, or a listing, reads from the database
Content(k) == [r \in Scope(k) |-> table[r]]

-----------------------------------------------------------------------------

Init ==
    /\ \E b \in Beginnings : table = b.table /\ cache = b.cache
    /\ request = [c \in Calls |-> NoInput]
    /\ pc = [c \in Calls |-> "idle"]
    /\ found = [c \in Calls |-> NoEntry]
    /\ diff = [c \in Calls |-> {}]
    /\ writer = [r \in Records |-> [column \in Columns |-> Nobody]]
    /\ before = [c \in Calls |-> {}]
    /\ misled = {}
    /\ excused = {k \in CacheKeys : cache[k] \notin {NoEntry, Content(k)}}

Goto(c, label) == pc' = [pc EXCEPT ![c] = label]

Receive(c, in) ==
    /\ pc[c] = "idle"
    /\ request' = [request EXCEPT ![c] = in]
    /\ \/ in.op = "create" /\ "create" \in Checks /\ Goto(c, "checking")
       \/ in.op = "create" /\ "create" \notin Checks /\ Goto(c, "writing")
       \/ in.op # "create" /\ Cached /\ Goto(c, "getting")
       \/ in.op # "create" /\ ~Cached /\ Goto(c, "loading")
    /\ before' = [before EXCEPT ![c] = {d \in Calls : pc[d] \in Final}]
    /\ UNCHANGED <<table, cache, found, diff, writer, misled, excused>>

\* Slips: the name is assigned to another field; a field that is not given
\* is set to a default.
EntityWrongField(c) ==
    CASE Op(c) = "rename" -> [found[c][Id(c)] EXCEPT !.note = request[c].name]
      [] Op(c) = "edit"   -> [found[c][Id(c)] EXCEPT !.note = request[c].note]

EntityDefaulted(c) ==
    CASE Op(c) = "rename" -> [found[c][Id(c)] EXCEPT !.name = request[c].name,
                                                     !.note = CHOOSE n \in Notes : TRUE]
      [] Op(c) = "edit"   -> [found[c][Id(c)] EXCEPT !.note = request[c].note]

\* The entity that c saves: what it found, with the requested field assigned
Entity(c) ==
    CASE Op(c) = "rename" -> [found[c][Id(c)] EXCEPT !.name = request[c].name]
      [] Op(c) = "edit"   -> [found[c][Id(c)] EXCEPT !.note = request[c].note]

\* findOne, or a listing, has answered.
Found(c) ==
    \/ Op(c) = "get" /\ Goto(c, "200")
    \/ Op(c) = "remove" /\ Goto(c, "writing")
    \/ Op(c) \in {"rename", "edit"} \cap Checks /\ Goto(c, "checking")
    \/ Op(c) \in {"rename", "edit"} \ Checks /\ Goto(c, "planning")

\* cache.get: a hit, or a miss, or a Redis error, which counts as a miss
GetCached(c) ==
    /\ pc[c] = "getting"
    /\ \/ /\ cache[Id(c)] # NoEntry
          /\ found' = [found EXCEPT ![c] = cache[Id(c)]]
          /\ misled' = IF cache[Id(c)] = Content(Id(c)) THEN misled
                                                       ELSE misled \cup {c}
          /\ Found(c)
       \/ Goto(c, "loading") /\ UNCHANGED <<found, misled>>
    /\ UNCHANGED <<table, cache, request, diff, writer, before, excused>>

\* The query of findOne; what it returned is first put into the cache.
Load(c) ==
    /\ pc[c] = "loading"
    /\ IF Id(c) # List /\ table[Id(c)].state # "live"
       THEN Goto(c, "404") /\ UNCHANGED found
       ELSE /\ found' = [found EXCEPT ![c] = Content(Id(c))]
            /\ IF Cached THEN Goto(c, "filling") ELSE Found(c)
    /\ UNCHANGED <<table, cache, request, diff, history>>

\* cache.set, of what may have changed since it was read.  Redis may fail.
Fill(c) ==
    /\ pc[c] = "filling"
    /\ Found(c)
    /\ \/ /\ cache' = [cache EXCEPT ![Id(c)] = found[c]]
          /\ excused' = IF found[c] = Content(Id(c)) THEN excused \ {Id(c)}
                                                      ELSE excused \cup {Id(c)}
       \/ UNCHANGED <<cache, excused>>
    /\ UNCHANGED <<table, request, found, diff, writer, before, misled>>

NewName(c) == IF Op(c) = "create" THEN request[c].name ELSE Entity(c).name

\* Slips: nothing is asked; a row is in its own way.
TakenNever(c) == FALSE

TakenByItself(c) ==
    \E r \in Records : table[r].state = "live" /\ table[r].name = NewName(c)

\* Another live row has the name.
Taken(c) ==
    \E r \in Records :
        /\ table[r].state = "live"
        /\ table[r].name = NewName(c)
        /\ Op(c) # "create" => r # Id(c)

\* assertNameUnique, assertSlugUnique, assertSkuUniqueness and their like
CheckName(c) ==
    /\ pc[c] = "checking"
    /\ \/ Taken(c) /\ Goto(c, "409")
       \/ ~Taken(c) /\ Op(c) = "create" /\ Goto(c, "writing")
       \/ ~Taken(c) /\ Op(c) # "create" /\ Goto(c, "planning")
    /\ UNCHANGED <<table, cache, request, found, diff, history>>

\* save reads the row again, deleted or not, to find the columns that differ.
Plan(c) ==
    /\ pc[c] = "planning"
    /\ diff' = [diff EXCEPT ![c] =
                   {column \in Columns : Entity(c)[column] # table[Id(c)][column]}]
    /\ Goto(c, "writing")
    /\ UNCHANGED <<table, cache, request, found, history>>

\* The row as the statement of c leaves it
NewRow(c, r) ==
    CASE Op(c) = "create" -> [state |-> "live", name |-> request[c].name,
                              note |-> request[c].note]
      [] Op(c) = "remove" -> [table[r] EXCEPT !.state = "deleted"]
      [] OTHER -> [column \in Columns |->
                      IF column \in diff[c] THEN Entity(c)[column]
                                            ELSE table[r][column]]

\* The columns the statement of c sets
Sets(c) ==
    CASE Op(c) = "create" -> Columns
      [] Op(c) = "remove" -> {"state"}
      [] OTHER            -> diff[c]

\* The columns the client of c asked to set
Asked(c) ==
    CASE Op(c) = "create" -> Columns
      [] Op(c) = "remove" -> {"state"}
      [] Op(c) = "rename" -> {"name"}
      [] Op(c) = "edit"   -> {"note"}
      [] OTHER            -> {}

\* A unique index, which deleted rows are in as well, has the row.
Collides(c, r) ==
    \E column \in Indexed \cap Sets(c), s \in Records \ {r} :
        table[s].state # "free" /\ table[s][column] = NewRow(c, r)[column]

\* The row that c writes: its own, or a new one
Targets(c) ==
    IF Op(c) = "create" THEN {r \in Records : table[r].state = "free"} ELSE {Id(c)}

\* The category or product that c names is missing; children, or variants, of
\* what c removes are there; a category is to become its own parent, or a
\* product to change its skuPrefix.  Which of them is so is left open.
Refuse(c) ==
    /\ Op(c) \in Related
    /\ pc[c] = IF Op(c) = "edit" THEN "planning" ELSE "writing"
    /\ \/ Op(c) # "remove" /\ Goto(c, "404")
       \/ Op(c) \in {"edit", "remove"} /\ Goto(c, "409")
    /\ UNCHANGED <<table, cache, request, found, diff, history>>

\* Slip: only the listings are evicted.
AfterWriteListOnly(c) == IF Cached THEN "evictingList" ELSE "200"

\* Where c goes once its statement is committed
AfterWrite(c) ==
    CASE ~Cached                        -> "200"
      [] Cached /\ Op(c) = "create"     -> "evictingList"
      [] OTHER                          -> "evicting"

\* The cache keys that c leaves stale if it ends before it evicts
Owed(c) == IF Op(c) = "create" THEN {List} ELSE {Id(c), List}

\* INSERT or UPDATE, committed; its answer may be lost on the way back.
Write(c) ==
    /\ pc[c] = "writing"
    /\ \E r \in Targets(c) :
          /\ ~Collides(c, r)
          /\ table' = [table EXCEPT ![r] = NewRow(c, r)]
          /\ writer' = [writer EXCEPT ![r] =
                           [column \in Columns |->
                               IF column \in Sets(c) THEN c ELSE @[column]]]
    /\ \/ Goto(c, AfterWrite(c)) /\ UNCHANGED excused
       \/ Goto(c, "500") /\ excused' = excused \cup Owed(c)
    /\ UNCHANGED <<cache, request, found, diff, before, misled>>

\* The unique violation is translated to a 409.
UniqueViolation(c) ==
    /\ pc[c] = "writing"
    /\ \E r \in Targets(c) : Collides(c, r)
    /\ Goto(c, "409")
    /\ UNCHANGED <<table, cache, request, found, diff, history>>

\* cache.del and delByPattern, whose errors are swallowed
Drop(k) ==
    \/ /\ cache' = [cache EXCEPT ![k] = NoEntry]
       /\ excused' = excused \ {k}
    \/ /\ excused' = excused \cup {k}
       /\ UNCHANGED cache

Evict(c) ==
    /\ pc[c] = "evicting"
    /\ Drop(Id(c))
    /\ Goto(c, "evictingList")
    /\ UNCHANGED <<table, request, found, diff, writer, before, misled>>

EvictList(c) ==
    /\ pc[c] = "evictingList"
    /\ Drop(List)
    /\ Goto(c, "200")
    /\ UNCHANGED <<table, request, found, diff, writer, before, misled>>

\* The database fails c before anything is committed.
DatabaseError(c) ==
    /\ pc[c] \in AtDatabase
    /\ Goto(c, "500")
    /\ UNCHANGED <<table, cache, request, found, diff, history>>

\* The keys whose eviction c still owes
Pending(c) ==
    CASE pc[c] = "evicting"     -> {Id(c), List}
      [] pc[c] = "evictingList" -> {List}
      [] OTHER                  -> {}

\* The server that runs c dies.
Crash(c) ==
    /\ pc[c] \in AtDatabase \cup AtRedis
    /\ Goto(c, "dropped")
    /\ excused' = excused \cup Pending(c)
    /\ UNCHANGED <<table, cache, request, found, diff, writer, before, misled>>

\* The TTL of an entry is over.
Expire(k) ==
    /\ cache[k] # NoEntry
    /\ cache' = [cache EXCEPT ![k] = NoEntry]
    /\ excused' = excused \ {k}
    /\ UNCHANGED <<table, request, pc, found, diff, writer, before, misled>>

Done ==
    /\ \A c \in Calls : pc[c] \in Final
    /\ UNCHANGED vars

Step(c) ==
    \/ GetCached(c)
    \/ Load(c)
    \/ Fill(c)
    \/ CheckName(c)
    \/ Plan(c)
    \/ Refuse(c)
    \/ Write(c)
    \/ UniqueViolation(c)
    \/ Evict(c)
    \/ EvictList(c)

Next ==
    \/ \E c \in Calls, in \in Inputs : Receive(c, in)
    \/ \E c \in Calls : Step(c) \/ DatabaseError(c) \/ Crash(c)
    \/ \E k \in CacheKeys : Expire(k)
    \/ Done

Spec == Init /\ [][Next]_vars

-----------------------------------------------------------------------------
(* Properties.                                                             *)

\* Every variable keeps to its type; a snapshot is a row or a listing.
TypeOK ==
    /\ table \in Tables
    /\ cache \in [CacheKeys -> Snapshots \cup {NoEntry}]
    /\ request \in [Calls -> Inputs \cup {NoInput}]
    /\ pc \in [Calls -> {"idle"} \cup AtDatabase \cup AtRedis \cup Final]
    /\ found \in [Calls -> Snapshots \cup {NoEntry}]
    /\ diff \in [Calls -> SUBSET Columns]
    /\ writer \in [Records -> [Columns -> Calls \cup {Nobody}]]
    /\ before \in [Calls -> SUBSET Calls]
    /\ misled \subseteq Calls
    /\ excused \subseteq CacheKeys

Overlapped(c, d) ==
    c # Nobody /\ d # Nobody /\ c \notin before[d] /\ d \notin before[c]

\* Two live rows have the same name.
Sharing(r, s) ==
    /\ r # s /\ table[r].state = "live" /\ table[s].state = "live"
    /\ table[r].name = table[s].name

\* c may hold another value of the column than row r: a call that c overlaps
\* wrote it, or c took a stale entry for the row.
Outdated(c, r, column) == Overlapped(c, writer[r][column]) \/ c \in misled

\* Without a unique index the check can still miss: but two live rows come to
\* share a name only in a write by a call that overlapped another, which had
\* written the name or the state of one of them, or that a stale entry had
\* misled.  That the first only wrote a stale name back, or brought a deleted
\* row to life, does not matter.
SharedNamesOnlyFromOverlap ==
    [][\A r, s \in Records :
          Sharing(r, s)' /\ ~Sharing(r, s) =>
              \E c \in Calls :
                  /\ pc[c] = "writing" /\ pc'[c] # "writing"
                  /\ \E t \in {r, s}, column \in {"name", "state"} :
                        Outdated(c, t, column)]_vars

\* save writes every column that differs, also those the client did not ask
\* to change.  But what a finished call has set, a deletion included, is
\* changed only by a call that asks for it, or that a stale entry misled:
\* what was found in the database undoes only what was written meanwhile.
FinishedEditsStay ==
    [][\A r \in Records, column \in Columns :
          table'[r][column] # table[r][column] =>
              \E c \in Calls :
                  /\ pc[c] = "writing" /\ pc'[c] # "writing"
                  /\ column \in Asked(c) \/ Outdated(c, r, column)]_vars

\* A row, be it deleted, has a value that c asks for.
InTheWay(c) ==
    \E column \in Asked(c) \cap {"name", "note"}, s \in Records :
        /\ Op(c) # "create" => s # Id(c)
        /\ table[s].state # "free" /\ table[s][column] = request[c][column]

\* The check, and the index after it, look at the whole entity, also at the
\* columns the client did not ask to change.  But a client is told of a
\* conflict only over a value that it asked for, unless its call found the
\* row outdated.
ConflictsHaveGrounds ==
    [][\A c \in Calls :
          /\ pc[c] \in {"checking", "writing"} /\ pc'[c] = "409"
          /\ Op(c) # "remove"
          => \/ InTheWay(c)
             \/ /\ Op(c) # "create"
                /\ \E column \in Columns : Outdated(c, Id(c), column)]_vars

\* What Redis holds is what the table holds, unless the call that changed it
\* is about to evict the entry, the row changed between a reader's query and
\* its cache.set, or the eviction was lost to an error or a crash.
StaleOnlyByRaceOrLoss ==
    \A k \in CacheKeys :
        \/ cache[k] \in {NoEntry, Content(k)}
        \/ k \in excused
        \/ \E c \in Calls : k \in Pending(c)
=============================================================================
