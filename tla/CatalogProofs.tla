---------------------------- MODULE CatalogProofs ----------------------------
(***************************************************************************)
(* What Catalog guarantees for any number of categories, products,        *)
(* variants and calls.                                                     *)
(*                                                                         *)
(* A call compares the database with what it found of it two awaits or    *)
(* more before.  The invariant says that what it found is still so of     *)
(* every row, except of those whose link or mark an overlapping call wrote *)
(* since, unless the cache had misled the call (Known, Held); that the    *)
(* row it removes had no children when they were counted (Emptied); and   *)
(* that what it is about to write is founded on that (Planned).            *)
(***************************************************************************)
EXTENDS Catalog, TLAPS

\* What can be found of row n
EntitiesOf(n) == [parent : Above(n) \cup {NoParent}, children : SUBSET Below(n)]

FindingsOf(k) == (IF k = Tree THEN Trees ELSE EntitiesOf(k)) \cup {NoEntry}

\* The calls that change a row which is there
Edits == {"edit", "move", "remove"}

\* Where a call can be depends on what it asks for.
Placed(c) ==
    /\ pc[c] # "idle" => request[c] \in Inputs
    /\ pc[c] = "idle" => request[c] = NoInput /\ \A k \in Nodes \cup {Tree} : found[c][k] = NoEntry
    /\ pc[c] \in {"getting", "filling"} => Id(c) \in CacheKeys
    /\ pc[c] \in {"getting", "loading", "filling"} => Op(c) \in Edits \cup {"get"}
    /\ pc[c] \in OfParent => /\ Op(c) \in {"create", "move"}
                             /\ request[c].parent # NoParent
    /\ pc[c] \in {"gettingParent", "fillingParent"} => Id(c) \in Products
    /\ pc[c] = "counting" => Op(c) = "remove" /\ Id(c) \in CacheKeys
    /\ pc[c] = "planning" => Op(c) \in Edits
    /\ pc[c] = "writing" => Op(c) \in Edits \cup {"create"}
    /\ pc[c] \in {"evicting", "evictingTree"} => Id(c) \in CacheKeys
    /\ pc[c] \in OfParent \cup {"filling", "counting", "planning", "writing"} =>
          (Op(c) # "create" => found[c][Id(c)] # NoEntry)

\* A plan links rows to rows of the right kind, or to none.
PlanType(c) ==
    \A n \in DOMAIN plan[c].links : plan[c].links[n] \in Above(n) \cup {NoParent}

FoundType(c) == \A k \in Nodes \cup {Tree} : found[c][k] \in FindingsOf(k)

CallType(c) == Placed(c) /\ PlanType(c) /\ FoundType(c)

CacheType == \A k \in CacheKeys : cache[k] \in FindingsOf(k)

TypeInv == TypeOK /\ CacheType /\ \A c \in Calls : CallType(c)

-----------------------------------------------------------------------------
(* Rows, inputs and findings.                                              *)

LEMMA Kinds ==
    ASSUME NEW n \in Nodes
    PROVE  /\ n # Tree /\ n # NoParent /\ NoParent \notin Nodes /\ Tree \notin Nodes
           /\ n \in Categories => /\ Above(n) = Categories \cup {NoParent}
                                  /\ Below(n) = Categories
                                  /\ n \notin Products /\ n \notin Variants
           /\ n \in Products => /\ Above(n) = Categories /\ Below(n) = Variants
                                /\ n \notin Categories /\ n \notin Variants
           /\ n \in Variants => /\ Above(n) = Products /\ Below(n) = {}
                                /\ n \notin Categories /\ n \notin Products
           /\ n \in Categories \/ n \in Products \/ n \in Variants
BY CatalogAssumption DEF Nodes, Above, Below

LEMMA AboveBelow ==
    ASSUME NEW n \in Nodes
    PROVE  /\ Above(n) \subseteq Nodes \cup {NoParent}
           /\ Below(n) \subseteq Nodes
           /\ \A m \in Below(n) : n \in Above(m)
           /\ NoParent \in Above(n) <=> n \in Nullable
           /\ \A p \in Above(n) \ {NoParent} : n \notin Products => n \in Below(p)
<1>1. Above(n) \subseteq Nodes \cup {NoParent} /\ Below(n) \subseteq Nodes
  BY Kinds DEF Nodes
<1>2. \A m \in Below(n) : n \in Above(m)
  BY <1>1, Kinds
<1>3. NoParent \in Above(n) <=> n \in Nullable
  BY Kinds DEF Nullable, Nodes
<1>4. ASSUME NEW p \in Above(n) \ {NoParent}, n \notin Products
      PROVE  n \in Below(p)
  BY <1>1, <1>4, Kinds
<1> QED
  BY <1>1, <1>2, <1>3, <1>4

LEMMA InputFields ==
    ASSUME NEW in \in Inputs
    PROVE  /\ in.op \in {"create", "get"} \cup Edits
           /\ in.op # "get" => in.id \in Nodes
           /\ in.op = "get" => in.id \in CacheKeys
           /\ in.op \in {"create", "move"} => in.parent \in Above(in.id)
           /\ in.op = "move" => in.id \notin Variants
BY DEF Inputs, Edits

LEMMA CacheKeyKinds ==
    /\ CacheKeys \subseteq Nodes \cup {Tree}
    /\ \A n \in Nodes : n \notin Variants => n \in CacheKeys
BY DEF CacheKeys, Nodes

LEMMA FindingTypes ==
    /\ \A k \in Nodes \cup {Tree} : FindingsOf(k) \subseteq Entities \cup Trees \cup {NoEntry}
    /\ \A n \in Nodes : /\ EntitiesOf(n) \subseteq Entities
                        /\ NoEntry \notin EntitiesOf(n)
                        /\ FindingsOf(n) = EntitiesOf(n) \cup {NoEntry}
    /\ FindingsOf(Tree) = Trees \cup {NoEntry}
    /\ NoEntry \notin Trees
<1>1. ASSUME NEW n \in Nodes
      PROVE  /\ EntitiesOf(n) \subseteq Entities
             /\ NoEntry \notin EntitiesOf(n)
             /\ FindingsOf(n) = EntitiesOf(n) \cup {NoEntry}
  <2>1. EntitiesOf(n) \subseteq Entities
    BY AboveBelow DEF EntitiesOf, Entities
  <2> QED
    BY <2>1, Kinds, CatalogAssumption DEF FindingsOf
<1> QED
  BY <1>1, CatalogAssumption DEF FindingsOf

\* What findOne loads is an entity of its row, what findTree builds a tree.
LEMMA ContentType ==
    ASSUME table \in Tables, NEW k \in Nodes \cup {Tree}
    PROVE  Content(k) \in FindingsOf(k) /\ Content(k) # NoEntry
<1>1. CASE k = Tree
  <2>1. BuildTree \in Trees
    BY DEF BuildTree, Trees, Nodes
  <2> QED
    BY <1>1, <2>1, FindingTypes DEF Content
<1>2. CASE k \in Nodes
  <2>1. table[k].parent \in Above(k)
    BY <1>2 DEF Tables
  <2>2. Entity(k) \in EntitiesOf(k)
    BY <2>1 DEF Entity, EntitiesOf, Children
  <2> QED
    BY <1>2, <2>2, FindingTypes, Kinds DEF Content
<1> QED
  BY <1>1, <1>2

LEMMA KeyType ==
    ASSUME NEW c \in Calls, TypeInv, request[c] \in Inputs
    PROVE  /\ Id(c) \in Nodes \cup {Tree}
           /\ Op(c) # "get" => Id(c) \in Nodes
           /\ pc[c] \in OfParent => Key(c) = request[c].parent /\ Key(c) \in Nodes
           /\ pc[c] \notin OfParent => Key(c) = Id(c)
           /\ pc[c] \in {"gettingParent", "fillingParent"} => Key(c) \in Categories
           /\ pc[c] \in {"getting", "filling", "gettingParent", "fillingParent"} =>
                 Key(c) \in CacheKeys
           /\ Key(c) \in Nodes \cup {Tree}
<1>1. Id(c) \in Nodes \cup {Tree} /\ (Op(c) # "get" => Id(c) \in Nodes)
  BY InputFields, CacheKeyKinds DEF Id, Op
<1>2. ASSUME pc[c] \in OfParent
      PROVE  /\ request[c].parent \in Nodes
             /\ pc[c] \in {"gettingParent", "fillingParent"} => request[c].parent \in Categories
  <2>1. /\ Op(c) \in {"create", "move"} /\ request[c].parent # NoParent
        /\ pc[c] \in {"gettingParent", "fillingParent"} => Id(c) \in Products
    BY <1>2 DEF TypeInv, CallType, Placed
  <2>2. request[c].parent \in Above(Id(c)) /\ Id(c) \in Nodes
    BY <1>1, <2>1, InputFields DEF Op, Id
  <2> QED
    BY <2>1, <2>2, AboveBelow, Kinds
<1> QED
  BY <1>1, <1>2 DEF Key, TypeInv, CallType, Placed, OfParent, CacheKeys

-----------------------------------------------------------------------------
(* The type invariant.                                                     *)

LEMMA TypeInit == Init => TypeInv
<1> SUFFICES ASSUME Init PROVE TypeInv
  OBVIOUS
<1>1. table \in Tables
  BY CatalogAssumption DEF Init
<1>2. CacheType
  <2> SUFFICES ASSUME NEW k \in CacheKeys PROVE cache[k] \in FindingsOf(k)
    BY DEF CacheType
  <2>1. k \in Nodes \cup {Tree}
    BY CacheKeyKinds
  <2>2. Content(k) \in FindingsOf(k)
    BY <1>1, <2>1, ContentType
  <2>3. cache[k] \in {NoEntry, Content(k)}
    BY DEF Init
  <2> QED
    BY <2>2, <2>3 DEF FindingsOf
<1>3. cache \in [CacheKeys -> Entities \cup Trees \cup {NoEntry}]
  <2>1. cache = [k \in CacheKeys |-> cache[k]]
    BY DEF Init
  <2> QED
    BY <1>2, <2>1, FindingTypes, CacheKeyKinds DEF CacheType
<1>4. ASSUME NEW c \in Calls
      PROVE  CallType(c)
  BY DEF CallType, FoundType, Init, Placed, PlanType, NoPlan, FindingsOf, OfParent
<1>5. NoPlan \in Plans
  <2>1. << >> \in [{} -> Nodes \cup {NoParent}] /\ {} \in SUBSET Nodes
    OBVIOUS
  <2> QED
    BY <2>1 DEF NoPlan, Plans
<1>6. TypeOK
  BY <1>1, <1>3, <1>5 DEF Init, TypeOK
<1> QED
  BY <1>2, <1>4, <1>6 DEF TypeInv

\* What only c's own step changes of the call of c
OwnUnchanged(c) ==
    /\ request'[c] = request[c]
    /\ pc'[c] = pc[c]
    /\ found'[c] = found[c]
    /\ plan'[c] = plan[c]

\* The invariants of a call depend on its own variables alone.
LEMMA OwnFrame ==
    ASSUME NEW c \in Calls, OwnUnchanged(c), CallType(c)
    PROVE  CallType(c)'
BY DEF OwnUnchanged, CallType, FoundType, Placed, PlanType, Op, Id

\* A step of c is typed if what it writes is.
LEMMA StepFrame ==
    ASSUME TypeInv, NEW c \in Calls, TypeOK', CacheType', CallType(c)',
           \A d \in Calls \ {c} : OwnUnchanged(d)
    PROVE  TypeInv'
BY OwnFrame DEF TypeInv

\* Where c can get to from what it found
LEMMA FoundLeads ==
    ASSUME NEW c \in Calls, TypeInv, request[c] \in Inputs,
           pc[c] \in {"getting", "loading", "filling"} \cup OfParent
    PROVE  \/ Found(c) = "writing" /\ Op(c) = "create"
           \/ Found(c) = "planning" /\ Op(c) \in Edits
           \/ Found(c) = "counting" /\ Op(c) = "remove" /\ Id(c) \in CacheKeys
           \/ Found(c) \in {"200", "409"}
           \/ /\ Found(c) \in {"gettingParent", "loadingParent"}
              /\ Op(c) = "move" /\ request[c].parent # NoParent
              /\ Found(c) = "gettingParent" => Id(c) \in Products
<1>1. CASE pc[c] \in OfParent
  <2>1. Op(c) \in {"create", "move"}
    BY <1>1 DEF TypeInv, CallType, Placed
  <2> QED
    BY <1>1, <2>1 DEF Found, Edits
<1>2. CASE pc[c] \in {"getting", "loading", "filling"}
  <2>1. Op(c) \in Edits \cup {"get"} /\ pc[c] \notin OfParent
    BY <1>2 DEF TypeInv, CallType, Placed, OfParent
  <2>2. CASE Op(c) = "get"
    BY <2>1, <2>2 DEF Found
  <2>3. CASE Op(c) = "edit"
    BY <2>1, <2>3 DEF Found, Edits
  <2>4. CASE Op(c) = "remove"
    <3>1. Id(c) \notin Variants => Id(c) \in CacheKeys
      BY <2>4, KeyType, CacheKeyKinds
    <3> QED
      BY <2>1, <2>4, <3>1 DEF Found, Edits
  <2>5. CASE Op(c) = "move"
    <3>0. Id(c) \in Products => request[c].parent # NoParent
      BY <2>5, KeyType, InputFields, Kinds DEF Op, Id, Nodes
    <3>1. CASE request[c].parent = NoParent
      <4>1. LookUpParent(c, request[c]) = "planning"
        BY <2>5, <3>0, <3>1 DEF LookUpParent, Op, Id
      <4> QED
        BY <2>1, <2>5, <4>1 DEF Found, Edits
    <3>2. CASE request[c].parent # NoParent
      <4>1. /\ LookUpParent(c, request[c]) \in {"gettingParent", "loadingParent"}
            /\ LookUpParent(c, request[c]) = "gettingParent" => Id(c) \in Products
        BY <2>5, <3>2 DEF LookUpParent, Op, Id
      <4>2. Found(c) \in {"409", LookUpParent(c, request[c])}
        BY <2>1, <2>5 DEF Found
      <4> QED
        BY <2>5, <3>2, <4>1, <4>2 DEF Edits
    <3> QED
      BY <3>1, <3>2
  <2> QED
    BY <2>1, <2>2, <2>3, <2>4, <2>5 DEF Edits
<1> QED
  BY <1>1, <1>2

\* Of the types, what a step of c leaves unchanged needs no proof.
LEMMA ReceiveTypes ==
    ASSUME TypeInv, NEW c \in Calls, NEW in \in Inputs, Receive(c, in)
    PROVE  TypeInv'
<1> USE DEF Receive, Goto
<1>1. request' \in [Calls -> Inputs \cup {NoInput}] /\ request'[c] = in
  BY DEF TypeInv, TypeOK
<1>2. \/ in.op = "create" /\ pc'[c] = LookUpParent(c, in)
      \/ in.op # "create" /\ in.id \in Variants /\ pc'[c] = "loading"
      \/ in.op # "create" /\ in.id \notin Variants /\ pc'[c] = "getting"
  BY DEF TypeInv, TypeOK
<1>3. \/ in.op = "create" /\ pc'[c] = "writing"
      \/ /\ in.op = "create" /\ in.parent # NoParent
         /\ pc'[c] = "gettingParent" /\ in.id \in Products
      \/ in.op = "create" /\ in.parent # NoParent /\ pc'[c] = "loadingParent"
      \/ in.op \in Edits \cup {"get"} /\ pc'[c] = "loading"
      \/ in.op \in Edits \cup {"get"} /\ pc'[c] = "getting" /\ in.id \in CacheKeys
  <2>1. in.op = "create" /\ in.id \in Products => in.parent # NoParent
    BY InputFields, Kinds DEF Nodes
  <2>2. in.id \notin Variants => in.id \in CacheKeys
    BY InputFields, CacheKeyKinds
  <2>3. CASE in.op = "create" /\ in.parent = NoParent
    <3>1. LookUpParent(c, in) = "writing"
      BY <2>1, <2>3 DEF LookUpParent
    <3> QED
      BY <1>2, <2>3, <3>1
  <2>4. CASE in.op = "create" /\ in.parent # NoParent
    <3>1. \/ LookUpParent(c, in) = "gettingParent" /\ in.id \in Products
          \/ LookUpParent(c, in) = "loadingParent"
      BY <2>4 DEF LookUpParent
    <3> QED
      BY <1>2, <2>4, <3>1
  <2>5. CASE in.op # "create"
    BY <1>2, <2>2, <2>5, InputFields
  <2> QED
    BY <2>3, <2>4, <2>5
<1>4. UNCHANGED <<table, cache, found, plan, linker, marker, misled>>
      /\ before' \in [Calls -> SUBSET Calls]
  BY DEF TypeInv, TypeOK
<1>5. TypeOK'
  <2>1. pc'[c] \in Awaiting /\ \A d \in Calls \ {c} : pc'[d] = pc[d]
    BY <1>3 DEF Awaiting, TypeInv, TypeOK
  <2>2. pc' \in [Calls -> {"idle"} \cup Awaiting \cup Final]
    BY <2>1 DEF TypeInv, TypeOK
  <2> QED
    BY <1>1, <1>4, <2>2 DEF TypeInv, TypeOK, Tables
<1>6. CallType(c)'
  <2>1. Placed(c)'
    BY <1>1, <1>3, <1>4 DEF Placed, Op, Id, OfParent, Edits
  <2> QED
    BY <1>4, <2>1 DEF TypeInv, CallType, PlanType, FoundType
<1>7. CacheType'
  BY <1>4 DEF TypeInv, CacheType
<1>8. \A d \in Calls \ {c} : OwnUnchanged(d)
  BY <1>4 DEF OwnUnchanged, TypeInv, TypeOK
<1> QED
  BY <1>5, <1>6, <1>7, <1>8, StepFrame

\* A call that has found what it was looking for
LEMMA FoundPlaced ==
    ASSUME TypeInv, NEW c \in Calls,
           pc[c] \in {"getting", "loading", "filling"} \cup OfParent,
           request' = request,
           pc' = [pc EXCEPT ![c] = Found(c)],
           Op(c) # "create" => found'[c][Id(c)] # NoEntry
    PROVE  /\ Placed(c)'
           /\ pc' \in [Calls -> {"idle"} \cup Awaiting \cup Final]
<1>1. request[c] \in Inputs
  BY DEF TypeInv, CallType, Placed, OfParent
<1>2. pc'[c] = Found(c) /\ Op(c)' = Op(c) /\ Id(c)' = Id(c)
  BY DEF TypeInv, TypeOK, Op, Id
<1>3. Placed(c)'
  BY <1>1, <1>2, FoundLeads DEF Placed, OfParent, Edits
<1>4. Found(c) \in Awaiting \cup Final
  BY <1>1, FoundLeads DEF Awaiting, Final
<1> QED
  BY <1>3, <1>4 DEF TypeInv, TypeOK

\* What c finds under a key is what can be found there.
LEMMA FindingKept ==
    ASSUME TypeInv, NEW c \in Calls, NEW k \in Nodes \cup {Tree}, NEW e \in FindingsOf(k),
           found' = [found EXCEPT ![c][k] = e]
    PROVE  /\ found' \in [Calls -> [Nodes \cup {Tree} -> Entities \cup Trees \cup {NoEntry}]]
           /\ FoundType(c)'
           /\ found'[c][k] = e
           /\ \A m \in Nodes \cup {Tree} : m # k => found'[c][m] = found[c][m]
           /\ \A d \in Calls \ {c} : found'[d] = found[d]
<1>1. e \in Entities \cup Trees \cup {NoEntry}
  BY FindingTypes
<1> QED
  BY <1>1 DEF TypeInv, TypeOK, CallType, FoundType

LEMMA GetCachedTypes ==
    ASSUME TypeInv, NEW c \in Calls, GetCached(c)
    PROVE  TypeInv'
<1> DEFINE k == Key(c)
<1>1. pc[c] \in {"getting", "gettingParent"} /\ request[c] \in Inputs
      /\ UNCHANGED <<table, cache, request, plan, linker, marker, before>>
  BY DEF GetCached, TypeInv, CallType, Placed
<1>2. k \in CacheKeys /\ k \in Nodes \cup {Tree} /\ cache[k] \in FindingsOf(k)
  BY <1>1, KeyType DEF TypeInv, CacheType
<1>3. CacheType'
  BY <1>1 DEF TypeInv, CacheType
<1>4. CASE /\ cache[k] # NoEntry
           /\ found' = [found EXCEPT ![c][k] = cache[k]]
           /\ misled' = [misled EXCEPT ![c] = @ \/ cache[k] # Truth(k)]
           /\ Goto(c, Found(c))
  <2>1. /\ found' \in [Calls -> [Nodes \cup {Tree} -> Entities \cup Trees \cup {NoEntry}]]
        /\ FoundType(c)' /\ found'[c][k] = cache[k]
        /\ \A m \in Nodes \cup {Tree} : m # k => found'[c][m] = found[c][m]
        /\ \A d \in Calls \ {c} : found'[d] = found[d]
    BY <1>2, <1>4, FindingKept
  <2>2. Op(c) # "create" => found'[c][Id(c)] # NoEntry
    <3>1. Id(c) \in Nodes \cup {Tree}
      BY <1>1, KeyType
    <3>2. CASE pc[c] = "getting"
      BY <1>1, <1>4, <2>1, <3>2, KeyType DEF OfParent
    <3>3. CASE pc[c] = "gettingParent"
      BY <1>4, <2>1, <3>1, <3>3 DEF TypeInv, CallType, Placed, OfParent
    <3> QED
      BY <1>1, <3>2, <3>3
  <2>3. Placed(c)' /\ pc' \in [Calls -> {"idle"} \cup Awaiting \cup Final]
    BY <1>1, <1>4, <2>2, FoundPlaced DEF Goto, OfParent
  <2>4. misled' \in [Calls -> BOOLEAN]
    BY <1>4 DEF TypeInv, TypeOK
  <2>5. TypeOK'
    BY <1>1, <2>1, <2>3, <2>4 DEF TypeInv, TypeOK, Tables
  <2>6. CallType(c)'
    BY <1>1, <2>1, <2>3 DEF TypeInv, CallType, PlanType
  <2>7. \A d \in Calls \ {c} : OwnUnchanged(d)
    BY <1>1, <1>4, <2>1 DEF OwnUnchanged, Goto, TypeInv, TypeOK
  <2> QED
    BY <1>3, <2>5, <2>6, <2>7, StepFrame
<1>5. CASE /\ Goto(c, IF pc[c] = "getting" THEN "loading" ELSE "loadingParent")
           /\ UNCHANGED <<found, misled>>
  <2>1. pc' \in [Calls -> {"idle"} \cup Awaiting \cup Final]
    BY <1>5 DEF Goto, TypeInv, TypeOK, Awaiting
  <2>2. \/ pc[c] = "getting" /\ pc'[c] = "loading"
        \/ pc[c] = "gettingParent" /\ pc'[c] = "loadingParent"
    BY <1>1, <1>5 DEF Goto, TypeInv, TypeOK
  <2>3. Placed(c)'
    BY <1>1, <1>5, <2>2 DEF TypeInv, CallType, Placed, OfParent, Op, Id
  <2>4. TypeOK'
    BY <1>1, <1>5, <2>1 DEF TypeInv, TypeOK, Tables
  <2>5. CallType(c)'
    BY <1>1, <1>5, <2>3 DEF TypeInv, CallType, PlanType, FoundType
  <2>6. \A d \in Calls \ {c} : OwnUnchanged(d)
    BY <1>1, <1>5 DEF OwnUnchanged, Goto, TypeInv, TypeOK
  <2> QED
    BY <1>3, <2>4, <2>5, <2>6, StepFrame
<1> QED
  BY <1>4, <1>5 DEF GetCached

LEMMA LoadTypes ==
    ASSUME TypeInv, NEW c \in Calls, Load(c)
    PROVE  TypeInv'
<1> DEFINE k == Key(c)
           own == pc[c] = "loading"
<1>1. /\ pc[c] \in {"loading", "loadingParent"} /\ request[c] \in Inputs
      /\ UNCHANGED <<table, cache, request, plan, linker, marker, before, misled>>
  BY DEF Load, TypeInv, CallType, Placed, history
<1>2. k \in Nodes \cup {Tree} /\ (own => k = Id(c))
  BY <1>1, KeyType DEF OfParent
<1>3. Content(k) \in FindingsOf(k) /\ Content(k) # NoEntry
  BY <1>2, ContentType DEF TypeInv, TypeOK
<1>4. CacheType'
  BY <1>1 DEF TypeInv, CacheType
<1>5. CASE Missing(k) /\ Goto(c, "404") /\ UNCHANGED found
  <2>1. pc' \in [Calls -> {"idle"} \cup Awaiting \cup Final] /\ pc'[c] = "404"
    BY <1>5 DEF Goto, TypeInv, TypeOK, Final
  <2>2. TypeOK'
    BY <1>1, <1>5, <2>1 DEF TypeInv, TypeOK, Tables
  <2>3. CallType(c)'
    BY <1>1, <1>5, <2>1 DEF TypeInv, CallType, Placed, OfParent, Op, Id, PlanType, FoundType
  <2>4. \A d \in Calls \ {c} : OwnUnchanged(d)
    BY <1>1, <1>5 DEF OwnUnchanged, Goto, TypeInv, TypeOK
  <2> QED
    BY <1>4, <2>2, <2>3, <2>4, StepFrame
<1>6. CASE /\ found' = IF own \/ Id(c) \in Products
                       THEN [found EXCEPT ![c][k] = Content(k)]
                       ELSE found
           /\ Goto(c, CASE own /\ k \in CacheKeys       -> "filling"
                        [] ~own /\ Id(c) \in Products  -> "fillingParent"
                        [] OTHER                       -> Found(c))
  <2>1. /\ found' \in [Calls -> [Nodes \cup {Tree} -> Entities \cup Trees \cup {NoEntry}]]
        /\ FoundType(c)'
        /\ own => found'[c][k] # NoEntry
        /\ found'[c][k] = NoEntry => found[c][k] = NoEntry
        /\ \A m \in Nodes \cup {Tree} : m # k => found'[c][m] = found[c][m]
        /\ \A d \in Calls \ {c} : found'[d] = found[d]
    <3>1. CASE found' = [found EXCEPT ![c][k] = Content(k)]
      BY <1>2, <1>3, <3>1, FindingKept
    <3>2. CASE ~own /\ found' = found
      BY <1>2, <3>2 DEF TypeInv, TypeOK, CallType, FoundType
    <3> QED
      BY <1>6, <3>1, <3>2
  <2>2. Op(c) # "create" => found'[c][Id(c)] # NoEntry
    <3>1. Id(c) \in Nodes \cup {Tree}
      BY <1>1, KeyType
    <3>2. ~own => (Op(c) # "create" => found[c][Id(c)] # NoEntry)
      BY <1>1 DEF TypeInv, CallType, Placed, OfParent
    <3> QED
      BY <1>2, <2>1, <3>1, <3>2
  <2>3. Placed(c)' /\ pc' \in [Calls -> {"idle"} \cup Awaiting \cup Final]
    <3>1. CASE own /\ k \in CacheKeys
      <4>1. pc' = [pc EXCEPT ![c] = "filling"]
        BY <1>6, <3>1 DEF Goto
      <4>2. Op(c) \in Edits \cup {"get"} /\ Id(c) \in CacheKeys
        BY <1>2, <3>1 DEF TypeInv, CallType, Placed
      <4>3. Placed(c)'
        BY <1>1, <2>2, <4>1, <4>2 DEF TypeInv, TypeOK, Placed, OfParent, Op, Id
      <4> QED
        BY <4>1, <4>3 DEF TypeInv, TypeOK, Awaiting
    <3>2. CASE ~own /\ Id(c) \in Products
      <4>1. pc' = [pc EXCEPT ![c] = "fillingParent"]
        BY <1>6, <3>2 DEF Goto
      <4>2. Op(c) \in {"create", "move"} /\ request[c].parent # NoParent
        BY <1>1, <3>2 DEF TypeInv, CallType, Placed, OfParent
      <4>3. Placed(c)'
        BY <1>1, <2>2, <3>2, <4>1, <4>2 DEF TypeInv, TypeOK, Placed, OfParent, Op, Id
      <4> QED
        BY <4>1, <4>3 DEF TypeInv, TypeOK, Awaiting
    <3>3. CASE ~(own /\ k \in CacheKeys) /\ ~(~own /\ Id(c) \in Products)
      <4>1. pc' = [pc EXCEPT ![c] = Found(c)]
        BY <1>6, <3>3 DEF Goto
      <4> QED
        BY <1>1, <2>2, <4>1, FoundPlaced DEF OfParent
    <3> QED
      BY <3>1, <3>2, <3>3
  <2>4. TypeOK'
    BY <1>1, <2>1, <2>3 DEF TypeInv, TypeOK, Tables
  <2>5. CallType(c)'
    BY <1>1, <2>1, <2>3 DEF TypeInv, CallType, PlanType
  <2>6. \A d \in Calls \ {c} : OwnUnchanged(d)
    BY <1>1, <1>6, <2>1 DEF OwnUnchanged, Goto, TypeInv, TypeOK
  <2> QED
    BY <1>4, <2>4, <2>5, <2>6, StepFrame
<1> QED
  BY <1>5, <1>6 DEF Load

LEMMA FillTypes ==
    ASSUME TypeInv, NEW c \in Calls, Fill(c)
    PROVE  TypeInv'
<1> DEFINE k == Key(c)
<1>1. /\ pc[c] \in {"filling", "fillingParent"} /\ request[c] \in Inputs
      /\ Goto(c, Found(c))
      /\ UNCHANGED <<table, request, found, plan, linker, marker, before, misled>>
  BY DEF Fill, TypeInv, CallType, Placed, history
<1>2. k \in CacheKeys /\ found[c][k] \in FindingsOf(k)
  BY <1>1, KeyType DEF TypeInv, CallType, FoundType
<1>3. CacheType' /\ cache' \in [CacheKeys -> Entities \cup Trees \cup {NoEntry}]
  BY <1>2, CacheKeyKinds, FindingTypes DEF Fill, TypeInv, TypeOK, CacheType
<1>4. Op(c) # "create" => found'[c][Id(c)] # NoEntry
  BY <1>1 DEF TypeInv, CallType, Placed, OfParent
<1>5. Placed(c)' /\ pc' \in [Calls -> {"idle"} \cup Awaiting \cup Final]
  BY <1>1, <1>4, FoundPlaced DEF Goto, OfParent
<1>6. TypeOK'
  BY <1>1, <1>3, <1>5 DEF TypeInv, TypeOK, Tables
<1>7. CallType(c)'
  BY <1>1, <1>5 DEF TypeInv, CallType, PlanType, FoundType
<1>8. \A d \in Calls \ {c} : OwnUnchanged(d)
  BY <1>1 DEF OwnUnchanged, Goto, TypeInv, TypeOK
<1> QED
  BY <1>3, <1>6, <1>7, <1>8, StepFrame

\* The steps that only move c on, and may take an entry out of the cache
LEMMA MovingTypes ==
    ASSUME TypeInv, NEW c \in Calls,
           Count(c) \/ NotNullViolation(c) \/ Evict(c) \/ EvictTree(c) \/ Fail(c)
    PROVE  TypeInv'
<1>1. /\ request[c] \in Inputs
      /\ UNCHANGED <<table, request, found, plan, linker, marker, before, misled>>
  BY DEF Count, NotNullViolation, Evict, EvictTree, Fail, history, Awaiting,
         TypeInv, CallType, Placed
<1>2. CacheType' /\ cache' \in [CacheKeys -> Entities \cup Trees \cup {NoEntry}]
  <2>1. /\ cache' \in [CacheKeys -> Entities \cup Trees \cup {NoEntry}]
        /\ \A k \in CacheKeys : cache'[k] \in {cache[k], NoEntry}
    BY DEF Count, NotNullViolation, Evict, EvictTree, Fail, TypeInv, TypeOK
  <2> QED
    BY <2>1 DEF TypeInv, CacheType, FindingsOf
<1>3. \E label : Goto(c, label)
  BY DEF Count, NotNullViolation, Evict, EvictTree, Fail
<1>4. \/ pc'[c] \in Final
      \/ pc[c] = "counting" /\ pc'[c] = "planning"
      \/ pc[c] = "evicting" /\ pc'[c] = "evictingTree"
  BY DEF Count, NotNullViolation, Evict, EvictTree, Fail, Goto, TypeInv, TypeOK, Final
<1>5. pc' \in [Calls -> {"idle"} \cup Awaiting \cup Final]
  BY <1>3, <1>4 DEF Goto, TypeInv, TypeOK, Awaiting, Final
<1>6. Placed(c)'
  BY <1>1, <1>4 DEF TypeInv, CallType, Placed, Edits, OfParent, Op, Id, Final
<1>7. TypeOK'
  BY <1>1, <1>2, <1>5 DEF TypeInv, TypeOK, Tables
<1>8. CallType(c)'
  BY <1>1, <1>6 DEF TypeInv, CallType, PlanType, FoundType
<1>9. \A d \in Calls \ {c} : OwnUnchanged(d)
  BY <1>1, <1>3 DEF OwnUnchanged, Goto, TypeInv, TypeOK
<1> QED
  BY <1>2, <1>7, <1>8, <1>9, StepFrame

\* What c plans to write links rows of the right kind.
LEMMA PlanTypes ==
    ASSUME TypeInv, NEW c \in Calls, Plan(c)
    PROVE  TypeInv'
<1> DEFINE n == Id(c)
           p == [links |-> Links(c), revives |-> Op(c) # "remove" /\ ~Live(n)]
<1>1. /\ pc[c] = "planning" /\ request[c] \in Inputs /\ Op(c) \in Edits
      /\ plan' = [plan EXCEPT ![c] = p] /\ Goto(c, "writing")
      /\ UNCHANGED <<table, cache, request, found, linker, marker, before, misled>>
  BY DEF Plan, history, TypeInv, CallType, Placed
<1>2. n \in Nodes /\ found[c][n] \in EntitiesOf(n)
  <2>1. n \in Nodes
    BY <1>1, KeyType DEF Edits
  <2>2. found[c][n] # NoEntry
    BY <1>1 DEF TypeInv, CallType, Placed, OfParent, Edits
  <2> QED
    BY <2>1, <2>2, FindingTypes DEF TypeInv, CallType, FoundType
<1>3. /\ Wanted(c).parent \in Above(n) \cup {NoParent}
      /\ Wanted(c).children = found[c][n].children
      /\ Wanted(c).children \subseteq Below(n)
  <2>1. Op(c) = "move" => request[c].parent \in Above(n)
    BY <1>1, InputFields DEF Op, Id
  <2>2. Op(c) = "move" => Wanted(c) = [found[c][n] EXCEPT !.parent = request[c].parent]
    BY DEF Wanted
  <2>3. Op(c) # "move" => Wanted(c) = found[c][n]
    BY DEF Wanted
  <2> QED
    BY <1>2, <2>1, <2>2, <2>3 DEF EntitiesOf
<1>4. /\ DOMAIN Links(c) \subseteq Nodes
      /\ \A m \in DOMAIN Links(c) : Links(c)[m] \in Above(m) \cup {NoParent}
  <2>1. OwnLink(c) \subseteq {n}
    BY DEF OwnLink
  <2>2. DOMAIN Links(c) = OwnLink(c) \cup (Wanted(c).children \ Children(n))
                              \cup (Children(n) \ Wanted(c).children)
    BY DEF Links
  <2>3. Children(n) \subseteq Below(n)
    BY DEF Children
  <2>4. Below(n) \subseteq Nodes /\ \A m \in Below(n) : n \in Above(m)
    BY <1>2, AboveBelow
  <2>5. ASSUME NEW m \in DOMAIN Links(c)
        PROVE  Links(c)[m] \in Above(m) \cup {NoParent}
    <3>1. CASE m \in OwnLink(c)
      <4>1. Links(c)[m] = Wanted(c).parent
        BY <2>5, <3>1 DEF Links
      <4> QED
        BY <1>3, <2>1, <3>1, <4>1
    <3>2. CASE m \in Wanted(c).children \ OwnLink(c)
      <4>1. Links(c)[m] = n
        BY <2>5, <3>2 DEF Links
      <4> QED
        BY <1>3, <2>4, <3>2, <4>1
    <3>3. CASE m \notin OwnLink(c) /\ m \notin Wanted(c).children
      BY <2>5, <3>3 DEF Links
    <3> QED
      BY <3>1, <3>2, <3>3
  <2> QED
    BY <1>2, <1>3, <2>1, <2>2, <2>3, <2>4, <2>5
<1>5. p \in Plans
  <2>1. Links(c) \in [DOMAIN Links(c) -> Nodes \cup {NoParent}]
    <3>1. Links(c) = [m \in DOMAIN Links(c) |-> Links(c)[m]]
      BY DEF Links
    <3>2. \A m \in DOMAIN Links(c) : Links(c)[m] \in Nodes \cup {NoParent}
      BY <1>4, AboveBelow
    <3> QED
      BY <3>1, <3>2
  <2>2. p.revives \in BOOLEAN
    OBVIOUS
  <2> QED
    BY <1>4, <2>1, <2>2 DEF Plans
<1>6. TypeOK'
  BY <1>1, <1>5 DEF Goto, TypeInv, TypeOK, Tables, Awaiting
<1>7. CallType(c)'
  <2>1. Placed(c)'
    BY <1>1 DEF Goto, TypeInv, TypeOK, CallType, Placed, OfParent, Op, Id
  <2>2. PlanType(c)'
    BY <1>1, <1>4 DEF PlanType, TypeInv, TypeOK
  <2> QED
    BY <1>1, <2>1, <2>2 DEF TypeInv, CallType, FoundType
<1>8. CacheType'
  BY <1>1 DEF TypeInv, CacheType
<1>9. \A d \in Calls \ {c} : OwnUnchanged(d)
  BY <1>1 DEF OwnUnchanged, Goto, TypeInv, TypeOK
<1> QED
  BY <1>6, <1>7, <1>8, <1>9, StepFrame

\* What c writes are rows, for the columns that may not be null do not become it.
LEMMA WrittenType ==
    ASSUME TypeInv, NEW c \in Calls, pc[c] = "writing", ~BreaksNotNull(c)
    PROVE  Written(c) \in Tables
<1>1. request[c] \in Inputs /\ Op(c) \in Edits \cup {"create"} /\ Id(c) \in Nodes
  BY KeyType DEF TypeInv, CallType, Placed, Edits
<1>2. ASSUME NEW n \in Nodes
      PROVE  Written(c)[n] \in Rows /\ Written(c)[n].parent \in Above(n)
  <2> DEFINE s == Written(c)[n].state
             p == Written(c)[n].parent
  <2>1. table[n] \in Rows /\ table[n].parent \in Above(n)
    BY DEF TypeInv, TypeOK, Tables
  <2>2. Written(c)[n] = [state |-> s, parent |-> p]
    BY DEF Written
  <2>3. s \in {"free", "live", "deleted"}
    BY <2>1 DEF Written, Rows
  <2>4. p \in Above(n) \cup {NoParent}
    <3>1. CASE n = Id(c) /\ Op(c) = "create"
      <4>1. p = request[c].parent
        BY <3>1 DEF Written
      <4> QED
        BY <1>1, <3>1, <4>1, InputFields DEF Op, Id
    <3>2. CASE ~(n = Id(c) /\ Op(c) = "create") /\ n \in DOMAIN plan[c].links
      <4>1. p = plan[c].links[n]
        BY <3>2 DEF Written
      <4> QED
        BY <3>2, <4>1 DEF TypeInv, CallType, PlanType
    <3>3. CASE ~(n = Id(c) /\ Op(c) = "create") /\ n \notin DOMAIN plan[c].links
      <4>1. p = table[n].parent
        BY <3>3 DEF Written
      <4> QED
        BY <2>1, <4>1
    <3> QED
      BY <3>1, <3>2, <3>3
  <2>5. p = NoParent => NoParent \in Above(n)
    BY AboveBelow DEF BreaksNotNull
  <2> QED
    BY <2>2, <2>3, <2>4, <2>5, AboveBelow DEF Rows
<1>3. Written(c) = [n \in Nodes |-> Written(c)[n]]
  BY DEF Written
<1>4. Written(c) \in [Nodes -> Rows]
  BY <1>2, <1>3
<1> QED
  BY <1>2, <1>4 DEF Tables

LEMMA WriteTypes ==
    ASSUME TypeInv, NEW c \in Calls, Write(c)
    PROVE  TypeInv'
<1>1. /\ pc[c] = "writing" /\ table' \in Tables /\ request[c] \in Inputs
      /\ Op(c) \in Edits \cup {"create"}
      /\ Goto(c, AfterWrite(c))
      /\ UNCHANGED <<cache, request, found, plan, before, misled>>
  BY WrittenType DEF Write, TypeInv, CallType, Placed
<1>2. AfterWrite(c) \in {"200", "evictingTree", "evicting"}
      /\ (AfterWrite(c) # "200" => Id(c) \in CacheKeys)
  BY <1>1, KeyType, Kinds, CacheKeyKinds DEF AfterWrite, Edits
<1>3. pc' \in [Calls -> {"idle"} \cup Awaiting \cup Final] /\ pc'[c] = AfterWrite(c)
  BY <1>1, <1>2 DEF Goto, TypeInv, TypeOK, Awaiting, Final
<1>4. Placed(c)'
  BY <1>1, <1>2, <1>3 DEF Placed, OfParent, Op, Id
<1>5. linker' \in [Nodes -> Calls \cup {Nobody}] /\ marker' \in [Nodes -> Calls \cup {Nobody}]
  BY DEF Write, TypeInv, TypeOK
<1>6. TypeOK'
  BY <1>1, <1>3, <1>5 DEF TypeInv, TypeOK
<1>7. CallType(c)'
  BY <1>1, <1>4 DEF TypeInv, CallType, PlanType, FoundType
<1>8. CacheType'
  BY <1>1 DEF TypeInv, CacheType
<1>9. \A d \in Calls \ {c} : OwnUnchanged(d)
  BY <1>1 DEF OwnUnchanged, Goto, TypeInv, TypeOK
<1> QED
  BY <1>6, <1>7, <1>8, <1>9, StepFrame

LEMMA TypeStep == TypeInv /\ [Next]_vars => TypeInv'
<1> SUFFICES ASSUME TypeInv, [Next]_vars PROVE TypeInv'
  OBVIOUS
<1>1. CASE UNCHANGED vars
  BY <1>1 DEF vars, TypeInv, TypeOK, CacheType, CallType, Placed, PlanType, FoundType,
              Tables, Op, Id
<1>2. CASE \E c \in Calls, in \in Inputs : Receive(c, in)
  BY <1>2, ReceiveTypes
<1>3. CASE \E c \in Calls : Step(c) \/ Fail(c)
  <2> PICK c \in Calls : Step(c) \/ Fail(c)
    BY <1>3
  <2>1. CASE GetCached(c)
    BY <2>1, GetCachedTypes
  <2>2. CASE Load(c)
    BY <2>2, LoadTypes
  <2>3. CASE Fill(c)
    BY <2>3, FillTypes
  <2>4. CASE Count(c) \/ NotNullViolation(c) \/ Evict(c) \/ EvictTree(c) \/ Fail(c)
    BY <2>4, MovingTypes
  <2>5. CASE Plan(c)
    BY <2>5, PlanTypes
  <2>6. CASE Write(c)
    BY <2>6, WriteTypes
  <2> QED
    BY <2>1, <2>2, <2>3, <2>4, <2>5, <2>6 DEF Step
<1>4. CASE \E k \in CacheKeys : Expire(k)
  <2>1. /\ cache' \in [CacheKeys -> Entities \cup Trees \cup {NoEntry}]
        /\ \A k \in CacheKeys : cache'[k] \in {cache[k], NoEntry}
        /\ UNCHANGED <<table, request, pc, found, plan, linker, marker, before, misled>>
    BY <1>4 DEF Expire, history, TypeInv, TypeOK
  <2>2. CacheType'
    BY <2>1 DEF TypeInv, CacheType, FindingsOf
  <2>3. TypeOK'
    BY <2>1 DEF TypeInv, TypeOK, Tables
  <2>4. \A c \in Calls : OwnUnchanged(c)
    BY <2>1 DEF OwnUnchanged
  <2> QED
    BY <2>2, <2>3, <2>4, OwnFrame DEF TypeInv
<1> QED
  BY <1>1, <1>2, <1>3, <1>4 DEF Next, Done

\* Every variable of the catalogue keeps its type: no interleaving of saves
\* that compare whole entities leaves a product without a category or a
\* variant without a product, nor links a row to one of the wrong kind.
THEOREM CatalogTypes == Spec => []TypeOK
<1>1. TypeInv => TypeOK
  BY DEF TypeInv
<1> QED
  BY <1>1, TypeInit, TypeStep, PTL DEF Spec

-----------------------------------------------------------------------------
(* What a call still knows of what it found.                               *)

\* p was live when c looked, unless c was misled; it may have been removed
\* since, by a call that overlaps c.
Held(c, p) == Live(p) \/ Overlapped(c, marker[p]) \/ misled[c]

\* What c found of n is still so, or may be outdated: the row itself, the row
\* it is under, its own link, and the rows below it.
Seen(c, n) ==
    /\ Held(c, n)
    /\ \A p \in Nodes : found[c][n].parent = p => Held(c, p)
    /\ \A p \in Nodes \cup {NoParent} :
          table[n].parent = p /\ found[c][n].parent # p =>
              MayBeOutdated(c, n) \/ RemovedAround(c, p)
    /\ \A m \in Nodes :
          ~(m \in found[c][n].children <=> m \in Children(n)) => MayBeOutdated(c, m)

\* Where a call is that has found the row it changes
Knowing == {"filling", "counting", "planning", "writing"} \cup OfParent

Known(c) ==
    \A n \in Nodes : pc[c] \in Knowing /\ Op(c) \in Edits /\ Id(c) = n => Seen(c, n)

\* The row under which c puts another was live when c looked it up.
ParentHeld(c) ==
    \A p \in Nodes :
        /\ pc[c] \in {"fillingParent", "planning", "writing"}
        /\ Op(c) \in {"create", "move"}
        /\ request[c].parent = p
        => Held(c, p)

\* The cache told c wrong, or n was removed or revived while c was under way.
Disturbed(c, n) == misled[c] \/ Overlapped(c, marker[n])

\* Nothing was below the row that c removes when its children were counted,
\* unless it was itself removed by then.
Emptied(c) ==
    \A n \in Nodes :
        pc[c] \in {"planning", "writing"} /\ Op(c) = "remove" /\ Id(c) = n =>
            Disturbed(c, n) \/ \A m \in Children(n) : MayBeOutdated(c, m)

\* Why c may write the link of m
Excused(c, m) ==
    \/ MayBeOutdated(c, m)
    \/ Op(c) = "move" /\ Id(c) = m /\ plan[c].links[m] = request[c].parent
    \/ /\ Op(c) = "edit" /\ Id(c) = m /\ plan[c].links[m] = found[c][m].parent
       /\ RemovedAround(c, table[m].parent)

Planned(c) ==
    /\ Op(c) \in {"none", "create"} => DOMAIN plan[c].links = {}
    /\ pc[c] = "writing" => \A m \in DOMAIN plan[c].links : Excused(c, m)

BeforeInv == \A c \in Calls : \A d \in before[c] : pc[d] \in Final

CallInv(c) == Known(c) /\ ParentHeld(c) /\ Emptied(c) /\ Planned(c)

LinkInv == BeforeInv /\ \A c \in Calls : CallInv(c)


\* Where no step of c is, c's own variables are.
LEMMA Moves ==
    ASSUME TypeInv, NEW c \in Calls, Step(c) \/ Fail(c)
    PROVE  /\ pc[c] \in Awaiting
           /\ UNCHANGED <<request, before>>
           /\ \A d \in Calls \ {c} : OwnUnchanged(d) /\ misled'[d] = misled[d]
           /\ misled[c] => misled'[c]
           /\ ~Write(c) => UNCHANGED <<table, linker, marker>>
<1> USE DEF TypeInv, TypeOK, OwnUnchanged, Goto, history, Awaiting
<1>1. CASE GetCached(c)
  BY <1>1 DEF GetCached
<1>2. CASE Load(c)
  <2>1. \A d \in Calls \ {c} : found'[d] = found[d]
    BY <1>2 DEF Load
  <2>2. \E label : Goto(c, label)
    BY <1>2 DEF Load
  <2> QED
    BY <1>2, <2>1, <2>2 DEF Load
<1>3. CASE Fill(c)
  BY <1>3 DEF Fill
<1>4. CASE Count(c)
  BY <1>4 DEF Count
<1>5. CASE Plan(c)
  BY <1>5 DEF Plan
<1>6. CASE Write(c)
  BY <1>6 DEF Write
<1>7. CASE NotNullViolation(c)
  BY <1>7 DEF NotNullViolation
<1>8. CASE Evict(c)
  BY <1>8 DEF Evict
<1>9. CASE EvictTree(c)
  BY <1>9 DEF EvictTree
<1>10. CASE Fail(c)
  BY <1>10 DEF Fail
<1> QED
  BY <1>1, <1>2, <1>3, <1>4, <1>5, <1>6, <1>7, <1>8, <1>9, <1>10 DEF Step

\* Receiving a request touches nothing that another call knows.
LEMMA Receives ==
    ASSUME TypeInv, NEW c \in Calls, NEW in \in Inputs, Receive(c, in)
    PROVE  /\ pc[c] = "idle"
           /\ UNCHANGED <<table, cache, found, plan, linker, marker, misled>>
           /\ request'[c] = in
           /\ \A d \in Calls \ {c} : OwnUnchanged(d) /\ before'[d] = before[d]
           /\ before'[c] = {d \in Calls : pc[d] \in Final}
BY DEF Receive, Goto, OwnUnchanged, TypeInv, TypeOK

\* A step is one of these.
LEMMA Cases ==
    ASSUME TypeInv, [Next]_vars
    PROVE  \/ \E c \in Calls, in \in Inputs : Receive(c, in)
           \/ \E c \in Calls : Step(c) \/ Fail(c)
           \/ UNCHANGED <<table, request, pc, found, plan, linker, marker, before, misled>>
BY DEF Next, vars, Expire, history, Done

\* Calls that are over stay so.
LEMMA OverIsOver ==
    ASSUME TypeInv, [Next]_vars, NEW d \in Calls, pc[d] \in Final
    PROVE  pc'[d] = pc[d]
<1>1. pc[d] # "idle" /\ pc[d] \notin Awaiting
  BY DEF Final, Awaiting
<1>2. ASSUME NEW c \in Calls, NEW in \in Inputs, Receive(c, in)
      PROVE  pc'[d] = pc[d]
  BY <1>1, <1>2, Receives DEF OwnUnchanged
<1>3. ASSUME NEW c \in Calls, Step(c) \/ Fail(c)
      PROVE  pc'[d] = pc[d]
  BY <1>1, <1>3, Moves DEF OwnUnchanged
<1> QED
  BY <1>2, <1>3, Cases

LEMMA BeforeStep ==
    ASSUME TypeInv, BeforeInv, [Next]_vars
    PROVE  BeforeInv'
<1> SUFFICES ASSUME NEW c \in Calls, NEW d \in before'[c]
             PROVE  pc'[d] \in Final
  BY DEF BeforeInv
<1>1. d \in Calls /\ pc[d] \in Final
  <2>1. \A e \in Calls : before[e] \subseteq Calls
    BY DEF TypeInv, TypeOK
  <2>2. ASSUME NEW b \in Calls, NEW in \in Inputs, Receive(b, in)
        PROVE  before'[c] \in {before[c], {e \in Calls : pc[e] \in Final}}
    BY <2>2, Receives
  <2>3. ASSUME NEW b \in Calls, Step(b) \/ Fail(b)
        PROVE  before'[c] = before[c]
    BY <2>3, Moves
  <2> QED
    BY <2>1, <2>2, <2>3, Cases DEF BeforeInv
<1> QED
  BY <1>1, OverIsOver

\* Calls that are both under way overlap.
LEMMA UnderWay ==
    ASSUME TypeInv, BeforeInv, NEW c \in Calls, NEW d \in Calls,
           pc[c] \in Awaiting, pc[d] \in Awaiting
    PROVE  Overlapped(c, d)
<1>1. Nobody # d
  BY CatalogAssumption
<1>2. pc[c] \notin Final /\ pc[d] \notin Final
  BY DEF Awaiting, Final
<1> QED
  BY <1>1, <1>2 DEF Overlapped, BeforeInv

\* What c writes, and who is told of it
LEMMA WriteFrame ==
    ASSUME TypeInv, NEW c \in Calls, Write(c), NEW n \in Nodes
    PROVE  /\ table'[n] = Written(c)[n]
           /\ linker'[n] = (IF n \in WritesLink(c) THEN c ELSE linker[n])
           /\ marker'[n] = (IF n \in WritesMark(c) THEN c ELSE marker[n])
           /\ table'[n].state # table[n].state => marker'[n] = c /\ n = Id(c)
           /\ table'[n].parent # table[n].parent => linker'[n] = c
           /\ table'[n] # table[n] => linker'[n] = c \/ marker'[n] = c
<1>1. /\ table'[n] = Written(c)[n]
      /\ linker'[n] = (IF n \in WritesLink(c) THEN c ELSE linker[n])
      /\ marker'[n] = (IF n \in WritesMark(c) THEN c ELSE marker[n])
  BY DEF Write, Written
<1>2. Written(c)[n].state # table[n].state => n \in WritesMark(c) /\ n = Id(c)
  BY DEF Written, WritesMark
<1>3. Written(c)[n].parent # table[n].parent => n \in WritesLink(c)
  BY DEF Written, WritesLink
<1>4. table[n] \in Rows /\ table'[n] \in Rows
  BY WriteTypes DEF TypeInv, TypeOK, Tables
<1>5. table'[n].state = table[n].state /\ table'[n].parent = table[n].parent =>
         table'[n] = table[n]
  BY <1>4 DEF Rows
<1> QED
  BY <1>1, <1>2, <1>3, <1>5

\* What a call under way may hold against the database, it may hold against it
\* until it is over; and whatever is written meanwhile.
Endures(c) ==
    /\ \A n \in Nodes : MayBeOutdated(c, n) => MayBeOutdated(c, n)'
    /\ \A n \in Nodes : table'[n] # table[n] => MayBeOutdated(c, n)'
    /\ \A p \in Nodes : Held(c, p) => Held(c, p)'
    /\ \A p \in Nodes : Disturbed(c, p) => Disturbed(c, p)'
    /\ \A p \in Nodes : RemovedAround(c, p) => RemovedAround(c, p)'

LEMMA KnowledgeEndures ==
    ASSUME TypeInv, BeforeInv, [Next]_vars, NEW c \in Calls, pc[c] \in Awaiting
    PROVE  Endures(c)
<1>0. pc[c] # "idle" /\ pc[c] \notin Final
  BY DEF Awaiting, Final
<1>1. ASSUME NEW d \in Calls, Write(d)
      PROVE  Endures(c)
  <2>1. /\ pc[d] \in Awaiting /\ UNCHANGED before
        /\ misled' = misled
    BY <1>1, Moves DEF Step, Write
  <2>2. Overlapped(c, d) /\ Overlapped(c, d)'
    BY <2>1, UnderWay DEF Overlapped
  <2>3. \A e : Overlapped(c, e)' <=> Overlapped(c, e)
    BY <2>1 DEF Overlapped
  <2>4. ASSUME NEW n \in Nodes
        PROVE  /\ Overlapped(c, linker[n]) => Overlapped(c, linker[n])'
               /\ Overlapped(c, marker[n]) => Overlapped(c, marker[n])'
               /\ table'[n] # table[n] =>
                     Overlapped(c, linker[n])' \/ Overlapped(c, marker[n])'
               /\ table'[n].state # table[n].state => Overlapped(c, marker[n])'
    <3>1. /\ linker'[n] \in {d, linker[n]} /\ marker'[n] \in {d, marker[n]}
          /\ table'[n] # table[n] => linker'[n] = d \/ marker'[n] = d
          /\ table'[n].state # table[n].state => marker'[n] = d
      BY <1>1, WriteFrame
    <3>2. linker'[n] = d => Overlapped(c, linker[n])'
      BY <2>1, <2>2 DEF Overlapped
    <3>3. marker'[n] = d => Overlapped(c, marker[n])'
      BY <2>1, <2>2 DEF Overlapped
    <3>4. linker'[n] = linker[n] /\ Overlapped(c, linker[n]) => Overlapped(c, linker[n])'
      BY <2>1 DEF Overlapped
    <3>5. marker'[n] = marker[n] /\ Overlapped(c, marker[n]) => Overlapped(c, marker[n])'
      BY <2>1 DEF Overlapped
    <3> QED
      BY <3>1, <3>2, <3>3, <3>4, <3>5
  <2>5. \A n \in Nodes : MayBeOutdated(c, n) => MayBeOutdated(c, n)'
    BY <2>1, <2>4 DEF MayBeOutdated
  <2>6. \A n \in Nodes : table'[n] # table[n] => MayBeOutdated(c, n)'
    BY <2>4 DEF MayBeOutdated
  <2>7. \A p \in Nodes : Held(c, p) => Held(c, p)'
    BY <2>1, <2>4 DEF Held, Live
  <2>8. \A p \in Nodes : RemovedAround(c, p) => RemovedAround(c, p)'
    BY <2>4 DEF RemovedAround, Live
  <2>9. \A p \in Nodes : Disturbed(c, p) => Disturbed(c, p)'
    BY <2>1, <2>4 DEF Disturbed
  <2> QED
    BY <2>5, <2>6, <2>7, <2>8, <2>9 DEF Endures
<1>2. ASSUME UNCHANGED <<table, linker, marker>>,
             misled[c] => misled'[c],
             \A e : Overlapped(c, e) => Overlapped(c, e)'
      PROVE  Endures(c)
  <2>1. \A n \in Nodes : /\ Overlapped(c, linker[n]) => Overlapped(c, linker[n])'
                         /\ Overlapped(c, marker[n]) => Overlapped(c, marker[n])'
    BY <1>2 DEF Overlapped
  <2>2. \A n : Live(n)' <=> Live(n)
    BY <1>2 DEF Live
  <2> QED
    BY <1>2, <2>1, <2>2 DEF Endures, MayBeOutdated, Held, Disturbed, RemovedAround
<1>3. ASSUME NEW d \in Calls, Step(d) \/ Fail(d), ~Write(d)
      PROVE  Endures(c)
  <2>1. UNCHANGED <<table, linker, marker, before>> /\ (misled[c] => misled'[c])
    BY <1>3, Moves
  <2> QED
    BY <1>2, <2>1 DEF Overlapped
<1>4. ASSUME NEW d \in Calls, NEW in \in Inputs, Receive(d, in)
      PROVE  Endures(c)
  <2>1. /\ UNCHANGED <<table, linker, marker, misled>>
        /\ c # d /\ before'[c] = before[c]
        /\ before'[d] = {e \in Calls : pc[e] \in Final}
        /\ \A e \in Calls \ {d} : before'[e] = before[e]
    BY <1>0, <1>4, Receives
  <2>2. \A e \in Calls : c \notin before[e] => c \notin before'[e]
    BY <1>0, <2>1
  <2>3. \A n \in Nodes : linker[n] \in Calls \cup {Nobody} /\ marker[n] \in Calls \cup {Nobody}
    BY DEF TypeInv, TypeOK
  <2>4. \A e \in Calls \cup {Nobody} : Overlapped(c, e) => Overlapped(c, e)'
    BY <2>1, <2>2 DEF Overlapped
  <2>5. \A n \in Nodes : /\ Overlapped(c, linker[n]) => Overlapped(c, linker[n])'
                         /\ Overlapped(c, marker[n]) => Overlapped(c, marker[n])'
    BY <2>1, <2>3, <2>4 DEF Overlapped
  <2>6. \A n : Live(n)' <=> Live(n)
    BY <2>1 DEF Live
  <2> QED
    BY <2>1, <2>5, <2>6 DEF Endures, MayBeOutdated, Held, Disturbed, RemovedAround
<1>5. CASE UNCHANGED <<table, request, pc, found, plan, linker, marker, before, misled>>
  BY <1>2, <1>5 DEF Overlapped
<1> QED
  BY <1>1, <1>3, <1>4, <1>5, Cases


\* Where c goes from what it found.  Only a create goes on to write at once;
\* only a move to the root, or what has no parent to look up, to plan.
LEMMA FoundMeans ==
    ASSUME TypeInv, NEW c \in Calls, pc[c] \in Awaiting
    PROVE  /\ pc[c] \in {"getting", "loading", "filling"} =>
                 /\ Found(c) \notin {"writing", "fillingParent", "filling"}
                 /\ Found(c) = "planning" =>
                       \/ Op(c) = "edit"
                       \/ Op(c) = "move" /\ request[c].parent = NoParent
                       \/ Op(c) = "remove" /\ Id(c) \in Variants
           /\ pc[c] \in OfParent =>
                 /\ Found(c) = "writing" => Op(c) = "create"
                 /\ Found(c) \in {"writing", "planning"}
                 /\ Op(c) \in {"create", "move"}
<1>1. ASSUME pc[c] \in {"getting", "loading", "filling"}
      PROVE  /\ Found(c) \notin {"writing", "fillingParent", "filling"}
             /\ Found(c) = "planning" =>
                   \/ Op(c) = "edit"
                   \/ Op(c) = "move" /\ request[c].parent = NoParent
                   \/ Op(c) = "remove" /\ Id(c) \in Variants
  <2>1. Op(c) \in {"edit", "move", "remove", "get"} /\ pc[c] \notin OfParent
    BY <1>1 DEF TypeInv, CallType, Placed, Edits, OfParent
  <2>2. CASE Op(c) = "move"
    <3>1. LookUpParent(c, request[c]) \in {"planning", "gettingParent", "loadingParent"}
          /\ (LookUpParent(c, request[c]) = "planning" => request[c].parent = NoParent)
      BY <2>2 DEF LookUpParent, Op
    <3>2. Found(c) \in {"409", LookUpParent(c, request[c])}
      BY <2>1, <2>2 DEF Found
    <3> QED
      BY <2>2, <3>1, <3>2
  <2>3. CASE Op(c) # "move"
    BY <2>1, <2>3 DEF Found
  <2> QED
    BY <2>2, <2>3
<1>2. ASSUME pc[c] \in OfParent
      PROVE  /\ Found(c) = "writing" => Op(c) = "create"
             /\ Found(c) \in {"writing", "planning"}
             /\ Op(c) \in {"create", "move"}
  BY <1>2 DEF Found, TypeInv, CallType, Placed
<1> QED
  BY <1>1, <1>2

\* The row that c looks up as a parent is not the one that it changes, if it
\* is a product's: what c found of the one stays when it finds the other.
LEMMA KeyOfParent ==
    ASSUME TypeInv, NEW c \in Calls, pc[c] \in OfParent
    PROVE  /\ Key(c) = request[c].parent
           /\ Key(c) \in Nodes
           /\ Id(c) \in Products => Key(c) # Id(c)
<1>1. /\ request[c] \in Inputs /\ Op(c) \in {"create", "move"}
      /\ request[c].parent # NoParent /\ Key(c) = request[c].parent
  BY DEF TypeInv, CallType, Placed, OfParent, Key
<1>2. Id(c) \in Nodes /\ request[c].parent \in Above(Id(c))
  BY <1>1, InputFields, KeyType DEF Op, Id
<1> QED
  BY <1>1, <1>2, AboveBelow, Kinds

\* What was so when c looked is seen.
LEMMA FreshFinding ==
    ASSUME TypeInv, NEW c \in Calls, NEW n \in Nodes, UNCHANGED table,
           misled'[c] \/ (Live(n) /\ found'[c][n] = Entity(n))
    PROVE  Seen(c, n)'
<1>1. CASE misled'[c]
  BY <1>1 DEF Seen, Held, MayBeOutdated
<1>2. CASE Live(n) /\ found'[c][n] = Entity(n)
  <2>1. table[n].parent \in Nodes \cup {NoParent} /\ NoParent \notin Nodes
    BY CatalogAssumption DEF TypeInv, TypeOK, Tables, Rows
  <2>2. /\ found'[c][n].children = Children(n)
        /\ found'[c][n].parent =
               (IF Live(table[n].parent) THEN table[n].parent ELSE NoParent)
    BY <1>2 DEF Entity
  <2>3. Held(c, n)' /\ \A p \in Nodes : found'[c][n].parent = p => Held(c, p)'
    BY <1>2, <2>1, <2>2 DEF Held, Live
  <2>4. \A p \in Nodes \cup {NoParent} :
           table'[n].parent = p /\ found'[c][n].parent # p => RemovedAround(c, p)'
    BY <2>1, <2>2 DEF RemovedAround, Live
  <2>5. Children(n)' = Children(n)
    BY DEF Children, Live
  <2> QED
    BY <2>2, <2>3, <2>4, <2>5 DEF Seen
<1> QED
  BY <1>1, <1>2

\* What is seen of a row stays seen.
LEMMA SeenEndures ==
    ASSUME TypeInv, NEW c \in Calls, NEW n \in Nodes, Seen(c, n), Endures(c),
           found'[c][n] = found[c][n]
    PROVE  Seen(c, n)'
<1>1. Held(c, n)' /\ \A p \in Nodes : found'[c][n].parent = p => Held(c, p)'
  BY DEF Seen, Endures
<1>2. ASSUME NEW p \in Nodes \cup {NoParent}, table'[n].parent = p, found'[c][n].parent # p
      PROVE  MayBeOutdated(c, n)' \/ RemovedAround(c, p)'
  <2>1. CASE table'[n] = table[n]
    <3>1. MayBeOutdated(c, n) \/ RemovedAround(c, p)
      BY <1>2, <2>1 DEF Seen
    <3>2. RemovedAround(c, p) => p \in Nodes
      BY DEF RemovedAround
    <3> QED
      BY <3>1, <3>2 DEF Endures
  <2>2. CASE table'[n] # table[n]
    BY <2>2 DEF Endures
  <2> QED
    BY <2>1, <2>2
<1>3. ASSUME NEW m \in Nodes, ~(m \in found'[c][n].children <=> m \in Children(n)')
      PROVE  MayBeOutdated(c, m)'
  <2>1. CASE table'[m] = table[m]
    <3>1. m \in Children(n)' <=> m \in Children(n)
      BY <2>1 DEF Children, Live
    <3> QED
      BY <1>3, <3>1 DEF Seen, Endures
  <2>2. CASE table'[m] # table[m]
    BY <2>2 DEF Endures
  <2> QED
    BY <2>1, <2>2
<1> QED
  BY <1>1, <1>2, <1>3 DEF Seen

LEMMA ExcusedEndures ==
    ASSUME NEW c \in Calls, NEW m \in Nodes, Excused(c, m), Endures(c),
           OwnUnchanged(c)
    PROVE  Excused(c, m)'
<1>1. UNCHANGED <<request[c], found[c], plan[c]>>
  BY DEF OwnUnchanged
<1>2. CASE MayBeOutdated(c, m)
  BY <1>2 DEF Excused, Endures
<1>3. CASE Op(c) = "move" /\ Id(c) = m /\ plan[c].links[m] = request[c].parent
  BY <1>1, <1>3 DEF Excused, Op, Id
<1>4. CASE /\ Op(c) = "edit" /\ Id(c) = m /\ plan[c].links[m] = found[c][m].parent
           /\ RemovedAround(c, table[m].parent)
  <2>1. CASE table'[m] = table[m]
    <3>1. table[m].parent \in Nodes
      BY <1>4 DEF RemovedAround
    <3>2. RemovedAround(c, table[m].parent)'
      BY <1>4, <2>1, <3>1 DEF Endures, RemovedAround, Live
    <3> QED
      BY <1>1, <1>4, <3>2 DEF Excused, Op, Id
  <2>2. CASE table'[m] # table[m]
    BY <2>2 DEF Excused, Endures
  <2> QED
    BY <2>1, <2>2
<1> QED
  BY <1>2, <1>3, <1>4 DEF Excused

LEMMA EmptiedEndures ==
    ASSUME NEW c \in Calls, NEW n \in Nodes, Endures(c),
           \A m \in Children(n) : MayBeOutdated(c, m)
    PROVE  \A m \in Children(n)' : MayBeOutdated(c, m)'
<1> SUFFICES ASSUME NEW m \in Children(n)' PROVE MayBeOutdated(c, m)'
  OBVIOUS
<1>1. m \in Nodes
  BY DEF Children, Live
<1>2. CASE table'[m] = table[m]
  BY <1>1, <1>2 DEF Children, Live, Endures
<1>3. CASE table'[m] # table[m]
  BY <1>1, <1>3 DEF Endures
<1> QED
  BY <1>2, <1>3

\* A step of another call takes nothing from what c knows.
LEMMA CallKept ==
    ASSUME TypeInv, NEW c \in Calls, CallInv(c), OwnUnchanged(c),
           pc[c] \in Awaiting => Endures(c)
    PROVE  CallInv(c)'
<1>1. UNCHANGED <<request[c], pc[c], found[c], plan[c]>>
  BY DEF OwnUnchanged
<1>2. CASE pc[c] \in Awaiting
  <2>1. Endures(c)
    BY <1>2
  <2>2. Known(c)'
    BY <1>1, <2>1, SeenEndures DEF CallInv, Known, Op, Id
  <2>3. ParentHeld(c)'
    BY <1>1, <2>1 DEF CallInv, ParentHeld, Endures, Op
  <2>4. Emptied(c)'
    <3>1. ASSUME NEW n \in Nodes,
                 pc'[c] \in {"planning", "writing"}, Op(c)' = "remove", Id(c)' = n
          PROVE  Disturbed(c, n)' \/ \A m \in Children(n)' : MayBeOutdated(c, m)'
      <4>1. Disturbed(c, n) \/ \A m \in Children(n) : MayBeOutdated(c, m)
        BY <1>1, <3>1 DEF CallInv, Emptied, Op, Id
      <4> QED
        BY <2>1, <4>1, EmptiedEndures DEF Endures
    <3> QED
      BY <3>1 DEF Emptied
  <2>5. Planned(c)'
    <3>1. \A m \in DOMAIN plan[c].links : m \in Nodes
      BY DEF TypeInv, TypeOK, Plans
    <3>2. pc[c] = "writing" => \A m \in DOMAIN plan[c].links : Excused(c, m)'
      BY <2>1, <3>1, ExcusedEndures DEF CallInv, Planned
    <3> QED
      BY <1>1, <3>2 DEF CallInv, Planned, Op
  <2> QED
    BY <2>2, <2>3, <2>4, <2>5 DEF CallInv
<1>3. CASE pc[c] \notin Awaiting
  <2>1. pc'[c] \notin Knowing \cup {"fillingParent", "counting", "planning", "writing"}
    BY <1>1, <1>3 DEF Awaiting, Knowing, OfParent
  <2> QED
    BY <1>1, <2>1 DEF CallInv, Known, ParentHeld, Emptied, Planned, Op
<1> QED
  BY <1>2, <1>3


\* Where the own steps of a call lead, and what they change of what it found
\* and plans
LEMMA OwnStep ==
    ASSUME TypeInv, NEW c \in Calls, Step(c) \/ Fail(c)
    PROVE  /\ pc'[c] \in Knowing => UNCHANGED table
           /\ pc'[c] \in Knowing => pc[c] \in {"getting", "loading"} \cup Knowing
           /\ ~Plan(c) => plan'[c] = plan[c]
           /\ ~Plan(c) /\ pc'[c] = "writing" => Op(c) = "create"
<1> USE DEF TypeInv, TypeOK, Goto, Knowing, OfParent
<1>1. CASE GetCached(c)
  BY <1>1, FoundMeans DEF GetCached, Awaiting
<1>2. CASE Load(c)
  <2>1. pc[c] \in Awaiting /\ pc'[c] \in {"404", "filling", "fillingParent", Found(c)}
    BY <1>2 DEF Load, Awaiting
  <2> QED
    BY <1>2, <2>1, FoundMeans DEF Load
<1>3. CASE Fill(c)
  BY <1>3, FoundMeans DEF Fill, Awaiting
<1>4. CASE Count(c)
  BY <1>4 DEF Count
<1>5. CASE Plan(c)
  BY <1>5 DEF Plan
<1>6. CASE Write(c)
  BY <1>6 DEF Write, AfterWrite
<1>7. CASE NotNullViolation(c)
  BY <1>7 DEF NotNullViolation
<1>8. CASE Evict(c)
  BY <1>8 DEF Evict
<1>9. CASE EvictTree(c)
  BY <1>9 DEF EvictTree
<1>10. CASE Fail(c)
  BY <1>10 DEF Fail
<1> QED
  BY <1>1, <1>2, <1>3, <1>4, <1>5, <1>6, <1>7, <1>8, <1>9, <1>10 DEF Step

LEMMA KnownStep ==
    ASSUME TypeInv, BeforeInv, NEW c \in Calls, CallInv(c), Endures(c),
           Step(c) \/ Fail(c)
    PROVE  Known(c)'
<1> SUFFICES ASSUME NEW n \in Nodes, pc'[c] \in Knowing, Op(c)' \in Edits, Id(c)' = n
             PROVE  Seen(c, n)'
  BY DEF Known
<1>1. Op(c) \in Edits /\ Id(c) = n /\ UNCHANGED table
  BY Moves, OwnStep DEF Op, Id
<1>2. CASE pc[c] \in Knowing
  <2>1. found'[c][n] = found[c][n]
    <3>1. CASE GetCached(c)
      <4>1. pc[c] = "gettingParent" /\ n \in Products
        BY <1>1, <1>2, <3>1 DEF GetCached, Knowing, OfParent, TypeInv, CallType, Placed
      <4>2. Key(c) # n
        BY <1>1, <4>1, KeyOfParent DEF OfParent
      <4> QED
        BY <3>1, <4>2 DEF GetCached, TypeInv, TypeOK
    <3>2. CASE Load(c)
      <4>1. pc[c] = "loadingParent"
        BY <1>2, <3>2 DEF Load, Knowing, OfParent
      <4>2. n \in Products => Key(c) # n
        BY <1>1, <4>1, KeyOfParent DEF OfParent
      <4> QED
        BY <1>1, <3>2, <4>1, <4>2 DEF Load, TypeInv, TypeOK
    <3>3. CASE ~GetCached(c) /\ ~Load(c)
      BY <3>3 DEF Step, Fail, Fill, Count, Plan, Write, NotNullViolation, Evict, EvictTree
    <3> QED
      BY <3>1, <3>2, <3>3
  <2> QED
    BY <1>1, <1>2, <2>1, SeenEndures DEF CallInv, Known
<1>3. CASE pc[c] \notin Knowing
  <2>1. pc[c] \in {"getting", "loading"} /\ Key(c) = n
    BY <1>1, <1>3, OwnStep DEF Key, Knowing, OfParent
  <2>2. \/ misled'[c]
        \/ Live(n) /\ found'[c][n] = Entity(n)
    <3>1. n # Tree
      BY Kinds
    <3>2. CASE GetCached(c)
      <4>1. /\ cache[n] # NoEntry
            /\ found' = [found EXCEPT ![c][n] = cache[n]]
            /\ misled' = [misled EXCEPT ![c] = @ \/ cache[n] # Truth(n)]
        BY <2>1, <3>2 DEF GetCached, Goto, Knowing, OfParent, TypeInv, TypeOK
      <4>2. found'[c][n] = cache[n] /\ (misled'[c] \/ cache[n] = Truth(n))
        BY <4>1 DEF TypeInv, TypeOK
      <4>3. Truth(n) # NoEntry => Live(n) /\ Truth(n) = Entity(n)
        BY <3>1 DEF Truth, Content
      <4> QED
        BY <4>1, <4>2, <4>3
    <3>3. CASE Load(c)
      <4>1. ~Missing(n) /\ found' = [found EXCEPT ![c][n] = Content(n)]
        BY <2>1, <3>3 DEF Load, Goto, Knowing, OfParent, TypeInv, TypeOK
      <4> QED
        BY <3>1, <4>1 DEF Missing, Content, TypeInv, TypeOK
    <3>4. CASE ~GetCached(c) /\ ~Load(c)
      <4>1. Fail(c)
        BY <2>1, <3>4 DEF Step, Fill, Count, Plan, Write, NotNullViolation, Evict, EvictTree
      <4> QED
        BY <4>1 DEF Fail, Goto, Knowing, OfParent, TypeInv, TypeOK
    <3> QED
      BY <3>2, <3>3, <3>4
  <2> QED
    BY <1>1, <2>2, FreshFinding
<1> QED
  BY <1>2, <1>3

LEMMA ParentHeldStep ==
    ASSUME TypeInv, BeforeInv, NEW c \in Calls, CallInv(c), Endures(c),
           Step(c) \/ Fail(c)
    PROVE  ParentHeld(c)'
<1> SUFFICES ASSUME NEW p \in Nodes,
                    pc'[c] \in {"fillingParent", "planning", "writing"},
                    Op(c)' \in {"create", "move"}, request'[c].parent = p
             PROVE  Held(c, p)'
  BY DEF ParentHeld
<1>1. Op(c) \in {"create", "move"} /\ request[c].parent = p /\ p # NoParent
  BY Moves, Kinds DEF Op
<1> USE DEF TypeInv, TypeOK, Goto, OfParent
<1>2. CASE pc[c] \in {"fillingParent", "planning", "writing"}
  BY <1>1, <1>2 DEF CallInv, ParentHeld, Endures
<1>3. CASE pc[c] \notin {"fillingParent", "planning", "writing"}
  <2>1. pc[c] \notin {"getting", "loading", "filling"}
    <3>1. CASE pc[c] \in {"getting", "loading", "filling"}
      <4>1. pc'[c] \in {"loading", "filling", "404", "failed", Found(c)}
        BY <1>3, <3>1 DEF Step, GetCached, Load, Fill, Count, Plan, Write,
                          NotNullViolation, Evict, EvictTree, Fail
      <4>2. Found(c) \notin {"fillingParent", "planning", "writing"}
        BY <1>1, <3>1, FoundMeans DEF Awaiting
      <4> QED
        BY <4>1, <4>2
    <3> QED
      BY <3>1
  <2>2. CASE pc[c] = "counting"
    BY <1>1, <2>2 DEF CallType, Placed
  <2>3. CASE GetCached(c)
    <3>1. pc[c] = "gettingParent" /\ Key(c) = p /\ p # Tree
      BY <1>1, <2>1, <2>3, Kinds DEF GetCached, Key
    <3>2. /\ cache[p] # NoEntry
          /\ misled' = [misled EXCEPT ![c] = @ \/ cache[p] # Truth(p)]
          /\ UNCHANGED table
      BY <2>3, <3>1 DEF GetCached
    <3> QED
      BY <3>1, <3>2 DEF Truth, Held, Live
  <2>4. CASE Load(c)
    <3>1. pc[c] = "loadingParent" /\ Key(c) = p /\ p # Tree
      BY <1>1, <2>1, <2>4, Kinds DEF Load, Key
    <3>2. ~Missing(p) /\ UNCHANGED table
      BY <2>4, <3>1 DEF Load
    <3> QED
      BY <3>1, <3>2 DEF Missing, Held, Live
  <2> QED
    BY <1>3, <2>1, <2>2, <2>3, <2>4
       DEF Step, Fill, Count, Plan, Write, NotNullViolation, Evict, EvictTree, Fail
<1> QED
  BY <1>2, <1>3

LEMMA EmptiedStep ==
    ASSUME TypeInv, BeforeInv, NEW c \in Calls, CallInv(c), Endures(c),
           Step(c) \/ Fail(c)
    PROVE  Emptied(c)'
<1> SUFFICES ASSUME NEW n \in Nodes, pc'[c] \in {"planning", "writing"},
                    Op(c)' = "remove", Id(c)' = n
             PROVE  Disturbed(c, n)' \/ \A m \in Children(n)' : MayBeOutdated(c, m)'
  BY DEF Emptied
<1>1. Op(c) = "remove" /\ Id(c) = n
  BY Moves DEF Op, Id
<1> USE DEF TypeInv, TypeOK, Goto, OfParent
<1>2. CASE n \in Variants
  BY <1>2, Kinds DEF Children
<1>3. CASE pc[c] \in {"planning", "writing"}
  <2>1. Disturbed(c, n) \/ \A m \in Children(n) : MayBeOutdated(c, m)
    BY <1>1, <1>3 DEF CallInv, Emptied
  <2> QED
    BY <2>1, EmptiedEndures DEF Endures
<1>4. CASE pc[c] = "counting" /\ n \notin Variants /\ ~Live(n)
  <2>1. Held(c, n)
    BY <1>1, <1>4 DEF CallInv, Known, Knowing, Edits, Seen
  <2>2. Disturbed(c, n)
    BY <1>4, <2>1 DEF Held, Disturbed
  <2> QED
    BY <2>2 DEF Endures
<1>5. CASE pc[c] = "counting" /\ n \notin Variants /\ Live(n)
  <2>1. Children(n) = {} /\ UNCHANGED table
    BY <1>1, <1>5 DEF Step, GetCached, Load, Fill, Count, Plan, Write, HasChildren,
                      NotNullViolation, Evict, EvictTree, Fail
  <2>2. Children(n)' = Children(n)
    BY <2>1 DEF Children, Live
  <2> QED
    BY <2>1, <2>2
<1>6. CASE pc[c] \notin {"planning", "writing", "counting"} /\ n \notin Variants
  <2>1. pc[c] \in Awaiting /\ pc[c] \notin OfParent
    BY <1>1, Moves DEF CallType, Placed
  <2>2. pc[c] \in {"getting", "loading", "filling"} => Found(c) \notin {"planning", "writing"}
    BY <1>1, <1>6, <2>1, FoundMeans
  <2> QED
    BY <1>6, <2>1, <2>2
       DEF Step, GetCached, Load, Fill, Count, Plan, Write, NotNullViolation,
           Evict, EvictTree, Fail, AfterWrite
<1> QED
  BY <1>2, <1>3, <1>4, <1>5, <1>6

\* What c plans to write follows from what it saw.
LEMMA PlanExcused ==
    ASSUME TypeInv, NEW c \in Calls, CallInv(c), Plan(c),
           NEW m \in DOMAIN plan'[c].links
    PROVE  Excused(c, m)'
<1> DEFINE n == Id(c)
<1>1. /\ pc[c] = "planning" /\ Op(c) \in Edits /\ request[c] \in Inputs
      /\ plan'[c].links = Links(c)
      /\ UNCHANGED <<table, request, found, linker, marker, before, misled>>
  BY DEF Plan, history, TypeInv, TypeOK, CallType, Placed
<1>2. n \in Nodes /\ Seen(c, n)
  BY <1>1, KeyType DEF Edits, CallInv, Known, Knowing
<1>3. /\ Wanted(c).children = found[c][n].children
      /\ Op(c) # "move" => Wanted(c) = found[c][n]
      /\ Op(c) = "move" => Wanted(c).parent = request[c].parent
  <2>1. found[c][n] \in EntitiesOf(n)
    BY <1>1, <1>2, FindingTypes DEF TypeInv, CallType, FoundType, Placed, Edits
  <2> QED
    BY <2>1 DEF Wanted, EntitiesOf
<1>4. /\ MayBeOutdated(c, m) => MayBeOutdated(c, m)'
      /\ RemovedAround(c, table[m].parent) => RemovedAround(c, table[m].parent)'
  BY <1>1 DEF MayBeOutdated, RemovedAround, Overlapped, Live
<1>5. CASE m \in OwnLink(c)
  <2>1. /\ m = n /\ Op(c) \in {"edit", "move"}
        /\ Wanted(c).parent # table[n].parent
        /\ plan'[c].links[m] = Wanted(c).parent
    BY <1>1, <1>5 DEF OwnLink, Links
  <2>2. CASE Op(c) = "move"
    BY <1>1, <1>3, <2>1, <2>2 DEF Excused, Op, Id
  <2>3. CASE Op(c) = "edit"
    <3>1. table[n].parent \in Nodes \cup {NoParent}
      BY <1>2 DEF TypeInv, TypeOK, Tables, Rows
    <3>2. MayBeOutdated(c, n) \/ RemovedAround(c, table[n].parent)
      BY <1>2, <1>3, <2>1, <2>3, <3>1 DEF Seen
    <3> QED
      BY <1>1, <1>3, <1>4, <2>1, <2>3, <3>2 DEF Excused, Op, Id
  <2> QED
    BY <2>1, <2>2, <2>3
<1>6. CASE m \notin OwnLink(c)
  <2>1. m \in Nodes /\ ~(m \in found[c][n].children <=> m \in Children(n))
    <3>1. ~(m \in Wanted(c).children <=> m \in Children(n))
      BY <1>1, <1>6 DEF Links
    <3>2. m \in Nodes
      <4>1. plan'[c] \in Plans
        BY PlanTypes DEF TypeInv, TypeOK
      <4> QED
        BY <4>1 DEF Plans
    <3> QED
      BY <1>3, <3>1, <3>2
  <2> QED
    BY <1>2, <1>4, <2>1 DEF Seen, Excused
<1> QED
  BY <1>5, <1>6

LEMMA PlannedStep ==
    ASSUME TypeInv, BeforeInv, NEW c \in Calls, CallInv(c), Endures(c),
           Step(c) \/ Fail(c)
    PROVE  Planned(c)'
<1>1. Op(c)' = Op(c)
  BY Moves DEF Op
<1>2. CASE Plan(c)
  <2>1. Op(c) \notin {"none", "create"}
    BY <1>2 DEF Plan, TypeInv, CallType, Placed, Edits
  <2> QED
    BY <1>1, <1>2, <2>1, PlanExcused DEF Planned
<1>3. CASE ~Plan(c)
  <2>1. plan'[c] = plan[c] /\ (pc'[c] = "writing" => Op(c) = "create")
    BY <1>3, OwnStep
  <2> QED
    BY <1>1, <2>1 DEF CallInv, Planned
<1> QED
  BY <1>2, <1>3

\* Receiving a request, a call knows nothing and has planned nothing yet.
LEMMA ReceiveKnows ==
    ASSUME TypeInv, NEW c \in Calls, CallInv(c), NEW in \in Inputs, Receive(c, in)
    PROVE  CallInv(c)'
<1>1. /\ pc[c] = "idle" /\ request'[c] = in /\ plan' = plan
      /\ pc'[c] \in {"getting", "loading", LookUpParent(c, in)}
      /\ pc'[c] \in {"getting", "loading"} \/ in.op = "create"
  BY DEF Receive, Goto, TypeInv, TypeOK
<1>2. DOMAIN plan[c].links = {}
  BY <1>1 DEF CallInv, Planned, TypeInv, CallType, Placed, NoInput, Op
<1>3. in.op = "create" =>
         /\ LookUpParent(c, in) \in {"writing", "gettingParent", "loadingParent"}
         /\ LookUpParent(c, in) = "writing" => in.parent = NoParent
  BY DEF LookUpParent
<1>4. Planned(c)'
  BY <1>1, <1>2 DEF Planned
<1>5. Known(c)' /\ Emptied(c)'
  BY <1>1, <1>3 DEF Known, Emptied, Knowing, OfParent, Op, Edits
<1>6. ParentHeld(c)'
  <2>1. pc'[c] \in {"fillingParent", "planning", "writing"} => in.parent \notin Nodes
    BY <1>1, <1>3, CatalogAssumption
  <2> QED
    BY <1>1, <2>1 DEF ParentHeld
<1> QED
  BY <1>4, <1>5, <1>6 DEF CallInv

LEMMA LinkInit == Init => LinkInv
<1> SUFFICES ASSUME Init PROVE LinkInv
  OBVIOUS
<1>1. \A c \in Calls : /\ pc[c] = "idle" /\ before[c] = {}
                       /\ DOMAIN plan[c].links = {}
  BY DEF Init, NoPlan
<1> QED
  BY <1>1 DEF LinkInv, BeforeInv, CallInv, Known, ParentHeld, Emptied, Planned,
              Knowing, OfParent

LEMMA LinkStep == TypeInv /\ LinkInv /\ [Next]_vars => LinkInv'
<1> SUFFICES ASSUME TypeInv, LinkInv, [Next]_vars, NEW c \in Calls
             PROVE  CallInv(c)'
  BY BeforeStep DEF LinkInv
<1>1. BeforeInv /\ CallInv(c) /\ (pc[c] \in Awaiting => Endures(c))
  BY KnowledgeEndures DEF LinkInv
<1>2. ASSUME NEW d \in Calls, NEW in \in Inputs, Receive(d, in)
      PROVE  CallInv(c)'
  <2>1. CASE d = c
    BY <1>1, <1>2, <2>1, ReceiveKnows
  <2>2. CASE d # c
    BY <1>1, <1>2, <2>2, Receives, CallKept
  <2> QED
    BY <2>1, <2>2
<1>3. ASSUME NEW d \in Calls, Step(d) \/ Fail(d)
      PROVE  CallInv(c)'
  <2>1. CASE d = c
    <3>1. Endures(c)
      BY <1>1, <1>3, <2>1, Moves
    <3> QED
      BY <1>1, <1>3, <2>1, <3>1, KnownStep, ParentHeldStep, EmptiedStep, PlannedStep
         DEF CallInv
  <2>2. CASE d # c
    BY <1>1, <1>3, <2>2, Moves, CallKept
  <2> QED
    BY <2>1, <2>2
<1>4. CASE UNCHANGED <<table, request, pc, found, plan, linker, marker, before, misled>>
  BY <1>1, <1>4, CallKept DEF OwnUnchanged
<1> QED
  BY <1>2, <1>3, <1>4, Cases

-----------------------------------------------------------------------------
(* What follows of the links.                                              *)

\* Only a transaction changes the table, and it is over with that.
LEMMA OnlyWriteChanges ==
    ASSUME TypeInv, [Next]_vars, NEW n \in Nodes, table'[n] # table[n]
    PROVE  \E c \in Calls : Write(c) /\ Writing(c) /\ pc[c] = "writing"
<1>1. PICK c \in Calls : Step(c) \/ Fail(c)
  BY Cases, Receives
<1>2. Write(c)
  BY <1>1, Moves
<1>3. pc[c] = "writing" /\ pc'[c] = AfterWrite(c)
  BY <1>2 DEF Write, Goto, TypeInv, TypeOK
<1> QED
  BY <1>2, <1>3 DEF Writing, AfterWrite

\* The only row that a transaction takes away is the one it was asked to
\* remove, and the only one that it brings is the one it was asked for.
LEMMA OnlyItsOwn ==
    ASSUME TypeInv, NEW c \in Calls, Write(c), NEW n \in Nodes
    PROVE  /\ Live(n) /\ ~Live(n)' => Op(c) = "remove" /\ n = Id(c)
           /\ ~Live(n) /\ Live(n)' => Op(c) # "remove" /\ n = Id(c)
           /\ Op(c) = "create" /\ n = Id(c) =>
                 Live(n)' /\ table'[n].parent = request[c].parent
           /\ table'[n].parent # table[n].parent /\ ~(Op(c) = "create" /\ n = Id(c)) =>
                 n \in DOMAIN plan[c].links /\ table'[n].parent = plan[c].links[n]
<1>1. table'[n] = Written(c)[n]
  BY WriteFrame
<1>2. /\ Live(n)' <=> Written(c)[n].state = "live"
      /\ Live(n) <=> table[n].state = "live"
  BY <1>1 DEF Live
<1>3. n # Id(c) => Written(c)[n].state = table[n].state
  BY DEF Written
<1>4. n = Id(c) =>
         /\ Op(c) = "remove" => Written(c)[n].state = "deleted"
         /\ Op(c) = "create" => /\ Written(c)[n].state = "live"
                               /\ Written(c)[n].parent = request[c].parent
         /\ Op(c) # "remove" /\ table[n].state = "live" => Written(c)[n].state = "live"
  BY DEF Written
<1>5. ~(Op(c) = "create" /\ n = Id(c)) =>
         Written(c)[n].parent = IF n \in DOMAIN plan[c].links THEN plan[c].links[n]
                                                             ELSE table[n].parent
  BY DEF Written
<1> QED
  BY <1>1, <1>2, <1>3, <1>4, <1>5

\* Saves that bring the database in line with what they found undo no link
\* that a finished call has made, unless the cache misled them: the links they
\* change were changed by a call that overlaps them, or lead to a removed row.
THEOREM OnlyOverlappingLinksAreLost == Spec => LinksStay
<1>1. ASSUME TypeInv, LinkInv, [Next]_vars,
             NEW n \in Nodes, table'[n].parent # table[n].parent
      PROVE  \E c \in Calls :
                /\ Writing(c)
                /\ \/ Op(c) \in {"create", "move"} /\ Id(c) = n
                   \/ MayBeOutdated(c, n)
                   \/ RemovedAround(c, table[n].parent)
  <2>1. PICK c \in Calls : Write(c) /\ Writing(c) /\ pc[c] = "writing"
    BY <1>1, OnlyWriteChanges
  <2>2. CASE Op(c) = "create" /\ n = Id(c)
    BY <2>1, <2>2
  <2>3. CASE ~(Op(c) = "create" /\ n = Id(c))
    <3>1. n \in DOMAIN plan[c].links
      BY <1>1, <2>1, <2>3, OnlyItsOwn
    <3>2. Excused(c, n)
      BY <1>1, <2>1, <3>1 DEF LinkInv, CallInv, Planned
    <3> QED
      BY <2>1, <3>2 DEF Excused
  <2> QED
    BY <2>2, <2>3
<1>2. TypeInv /\ LinkInv /\ [Next]_vars =>
         [\A n \in Nodes :
             table'[n].parent # table[n].parent =>
                 \E c \in Calls :
                     /\ Writing(c)
                     /\ \/ Op(c) \in {"create", "move"} /\ Id(c) = n
                        \/ MayBeOutdated(c, n)
                        \/ RemovedAround(c, table[n].parent)]_vars
  BY <1>1
<1> QED
  BY <1>2, TypeInit, TypeStep, LinkInit, LinkStep, PTL DEF Spec, LinksStay

\* A save is failed by the not-null constraint only for a link that it clears.
LEMMA BrokenLink ==
    ASSUME TypeInv, [Next]_vars, NEW c \in Calls, pc[c] = "writing", pc'[c] = "500"
    PROVE  \E n \in Nodes \ Nullable :
              /\ n \in DOMAIN plan[c].links /\ plan[c].links[n] = NoParent
              /\ Op(c) \in {"create", "move"} /\ Id(c) = n => request[c].parent # NoParent
<1>1. NotNullViolation(c)
  <2>1. Step(c) \/ Fail(c)
    BY Cases, Receives, Moves DEF OwnUnchanged
  <2>2. ~Write(c)
    BY DEF Write, Goto, AfterWrite, TypeInv, TypeOK
  <2> QED
    BY <2>1, <2>2 DEF Step, GetCached, Load, Fill, Count, Plan, Evict, EvictTree,
                      Fail, Goto, TypeInv, TypeOK
<1>2. PICK n \in Nodes \ Nullable : Written(c)[n].parent = NoParent
  BY <1>1 DEF NotNullViolation, BreaksNotNull
<1>3. NoParent \notin Above(n) /\ table[n].parent \in Above(n)
  BY <1>2, AboveBelow DEF TypeInv, TypeOK, Tables
<1>4. Op(c) \in {"create", "move"} /\ Id(c) = n => request[c].parent # NoParent
  <2>1. request[c] \in Inputs
    BY DEF TypeInv, CallType, Placed
  <2> QED
    BY <1>3, <2>1, InputFields DEF Op, Id
<1>5. n \in DOMAIN plan[c].links /\ plan[c].links[n] = NoParent
  BY <1>2, <1>3, <1>4 DEF Written
<1> QED
  BY <1>4, <1>5

\* A save is failed by a not-null link only over a row that an overlapping
\* call has linked, revived or removed, or of which the cache had misled it:
\* never for what the client asked.
THEOREM OnlyOverlapBreaksNotNull == Spec => NotNullFailsOnlyTheOutdated
<1>1. ASSUME TypeInv, LinkInv, [Next]_vars,
             NEW c \in Calls, pc[c] = "writing", pc'[c] = "500"
      PROVE  \E n \in {m \in DOMAIN plan[c].links : plan[c].links[m] = NoParent} :
                \/ MayBeOutdated(c, n)
                \/ RemovedAround(c, table[n].parent)
  <2>1. PICK n \in Nodes \ Nullable :
            /\ n \in DOMAIN plan[c].links /\ plan[c].links[n] = NoParent
            /\ Op(c) \in {"create", "move"} /\ Id(c) = n => request[c].parent # NoParent
    BY <1>1, BrokenLink
  <2>2. Excused(c, n)
    BY <1>1, <2>1 DEF LinkInv, CallInv, Planned
  <2> QED
    BY <2>1, <2>2 DEF Excused
<1>2. TypeInv /\ LinkInv /\ [Next]_vars =>
         [\A c \in Calls :
             pc[c] = "writing" /\ pc'[c] = "500" =>
                 \E n \in {m \in DOMAIN plan[c].links : plan[c].links[m] = NoParent} :
                     \/ MayBeOutdated(c, n)
                     \/ RemovedAround(c, table[n].parent)]_vars
  BY <1>1
<1> QED
  BY <1>2, TypeInit, TypeStep, LinkInit, LinkStep, PTL DEF Spec, NotNullFailsOnlyTheOutdated

\* A write that leaves a live category or variant under a removed row
LEMMA OrphansOverlap ==
    ASSUME TypeInv, LinkInv, [Next]_vars, NEW n \in Nodes, Orphan(n)', ~Orphan(n)
    PROVE  \E c \in Calls :
              /\ Writing(c)
              /\ \/ MayBeOutdated(c, n)
                 \/ Overlapped(c, marker[table'[n].parent])
<1> PICK p : p = table'[n].parent
  OBVIOUS
<1>1. /\ n \notin Products /\ Live(n)' /\ p # NoParent /\ ~Live(p)'
      /\ p \in Nodes /\ p \in Above(n) /\ n \in Below(p)
  <2>1. n \notin Products /\ Live(n)' /\ p # NoParent /\ ~Live(p)'
    BY DEF Orphan, Live
  <2>2. p \in Above(n)
    BY TypeStep DEF TypeInv, TypeOK, Tables
  <2> QED
    BY <2>1, <2>2, AboveBelow
<1>2. PICK c \in Calls : Write(c) /\ Writing(c) /\ pc[c] = "writing"
  <2>1. table'[n] # table[n] \/ table'[p] # table[p]
    BY <1>1 DEF Orphan, Live
  <2> QED
    BY <1>1, <2>1, OnlyWriteChanges
<1>3. CallInv(c)
  BY DEF LinkInv
<1>4. Held(c, p) /\ Op(c) # "remove" =>
         MayBeOutdated(c, n) \/ Overlapped(c, marker[p])
  BY <1>1, <1>2, OnlyItsOwn DEF Held, MayBeOutdated
<1>5. CASE Op(c) = "create" /\ n = Id(c)
  <2>1. request[c].parent = p
    BY <1>2, <1>5, OnlyItsOwn
  <2>2. Held(c, p)
    BY <1>1, <1>2, <1>3, <1>5, <2>1 DEF CallInv, ParentHeld
  <2> QED
    BY <1>2, <1>4, <1>5, <2>2
<1>6. CASE ~(Op(c) = "create" /\ n = Id(c)) /\ p # table[n].parent
  <2>1. n \in DOMAIN plan[c].links /\ p = plan[c].links[n]
    BY <1>2, <1>6, OnlyItsOwn
  <2>2. Excused(c, n)
    BY <1>2, <1>3, <2>1 DEF CallInv, Planned
  <2>3. CASE Op(c) = "move" /\ p = request[c].parent
    <3>1. Held(c, p)
      BY <1>1, <1>2, <1>3, <2>3 DEF CallInv, ParentHeld
    <3> QED
      BY <1>2, <1>4, <2>3, <3>1
  <2>4. CASE Op(c) = "edit" /\ Id(c) = n /\ p = found[c][n].parent
    <3>1. Seen(c, n)
      BY <1>2, <1>3, <2>4 DEF CallInv, Known, Knowing, Edits
    <3>2. Held(c, p)
      BY <1>1, <2>4, <3>1 DEF Seen
    <3> QED
      BY <1>2, <1>4, <2>4, <3>2
  <2> QED
    BY <1>2, <2>1, <2>2, <2>3, <2>4 DEF Excused
<1>7. CASE ~(Op(c) = "create" /\ n = Id(c)) /\ p = table[n].parent
  <2>1. CASE Live(n)
    <3>1. Live(p) /\ n \in Children(p)
      BY <1>1, <1>7, <2>1 DEF Orphan, Children
    <3>2. Op(c) = "remove" /\ Id(c) = p
      BY <1>1, <1>2, <3>1, OnlyItsOwn
    <3> QED
      BY <1>1, <1>2, <1>3, <3>1, <3>2 DEF CallInv, Emptied, Disturbed, MayBeOutdated
  <2>2. CASE ~Live(n)
    <3>1. Op(c) \in {"edit", "move"} /\ Id(c) = n
      <4>1. Op(c) \in Edits \cup {"create"}
        BY <1>2 DEF TypeInv, CallType, Placed
      <4>2. Op(c) # "remove" /\ Id(c) = n
        BY <1>1, <1>2, <2>2, OnlyItsOwn
      <4> QED
        BY <1>7, <4>1, <4>2 DEF Edits
    <3>2. Seen(c, n)
      BY <1>2, <1>3, <3>1 DEF CallInv, Known, Knowing, Edits
    <3> QED
      BY <1>2, <2>2, <3>2 DEF Seen, Held, MayBeOutdated
  <2> QED
    BY <2>1, <2>2
<1> QED
  BY <1>5, <1>6, <1>7

\* Counting the children before the row is removed, and looking the parent up
\* before the row is saved, lets a live category or variant come to be under a
\* removed row only where two calls overlap or the cache misled one.
THEOREM OnlyOverlapOrphans == Spec => OrphansOnlyFromOverlap
<1>1. TypeInv /\ LinkInv /\ [Next]_vars =>
         [\A n \in Nodes :
             Orphan(n)' /\ ~Orphan(n) =>
                 \E c \in Calls :
                     /\ Writing(c)
                     /\ \/ MayBeOutdated(c, n)
                        \/ Overlapped(c, marker[table'[n].parent])]_vars
  BY OrphansOverlap
<1> QED
  BY <1>1, TypeInit, TypeStep, LinkInit, LinkStep, PTL DEF Spec, OrphansOnlyFromOverlap
=============================================================================
