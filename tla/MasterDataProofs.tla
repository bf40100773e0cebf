-------------------------- MODULE MasterDataProofs --------------------------
(***************************************************************************)
(* What MasterData guarantees for any number of rows, names and calls.    *)
(*                                                                         *)
(* IInv is inductive: what a call has found, and what Redis holds, was     *)
(* once read from a row that was live (Genuine).  A row that does not     *)
(* exist yet is therefore nowhere cached, and nobody updates it.  To it    *)
(* come, for the action properties, what a call that no stale entry misled *)
(* knows of its row (SeenOK, PlannedOK), and that a name which has passed  *)
(* the check is taken only by calls that overlap it (CheckedOK).           *)
(***************************************************************************)
EXTENDS MasterData, TLAPS

\* s was read under the key k.
Genuine(k, s) ==
    /\ s \in [Scope(k) -> Rows]
    /\ k # List => s[k].state = "live" /\ table[k].state # "free"

\* Where a call can be depends on what it asks for.
CallOK(c) ==
    /\ pc[c] # "idle" => request[c] \in Inputs
    /\ pc[c] \in {"getting", "loading", "filling"} => Op(c) # "create"
    /\ pc[c] = "checking" => Op(c) \in {"create", "rename", "edit"} \cap Checks
    /\ pc[c] = "planning" => Op(c) \in {"rename", "edit"}
    /\ pc[c] = "evicting" => Op(c) \in {"rename", "edit", "remove"}
    /\ pc[c] \in {"writing", "evictingList"} => Op(c) # "get"
    /\ pc[c] \in AtRedis => Cached
    /\ pc[c] = "filling" => Genuine(Id(c), found[c])
    /\ pc[c] \in {"checking", "planning", "writing"} /\ Op(c) # "create" =>
          Genuine(Id(c), found[c])

CallsOK == \A c \in Calls : CallOK(c)

CacheOK ==
    \A k \in CacheKeys : cache[k] # NoEntry => Cached /\ Genuine(k, cache[k])

IInv == TypeOK /\ CallsOK /\ CacheOK

-----------------------------------------------------------------------------
(* Inputs, snapshots and rows.                                             *)

LEMMA InputFields ==
    ASSUME NEW in \in Inputs
    PROVE  /\ in.op \in {"create", "rename", "edit", "remove", "get"}
           /\ in.op \in {"create", "rename"} => in.name \in Names
           /\ in.op \in {"create", "edit"} => in.note \in Notes
           /\ in.op \in {"rename", "edit", "remove"} => in.id \in Records
           /\ in.op # "create" => in.id \in CacheKeys
BY DEF Inputs, CacheKeys

LEMMA GenuineIsSnapshot ==
    ASSUME NEW k \in CacheKeys, NEW s \in [Scope(k) -> Rows]
    PROVE  s \in Snapshots
<1>1. Scope(k) \in SUBSET Records
  BY DEF Scope, CacheKeys
<1> QED
  BY <1>1 DEF Snapshots

LEMMA ContentType ==
    ASSUME TypeOK, NEW k \in CacheKeys
    PROVE  Content(k) \in [Scope(k) -> Rows]
BY DEF TypeOK, Tables, Content, Scope, CacheKeys

\* The entity that is saved is what was found, but for the asked columns.
LEMMA EntityIsFound ==
    ASSUME NEW c \in Calls, request[c] \in Inputs, Op(c) \in {"rename", "edit"},
           Genuine(Id(c), found[c]), MasterDataAssumption
    PROVE  /\ Entity(c) \in Rows
           /\ Entity(c).state = "live"
           /\ \A column \in Columns \ Asked(c) :
                 Entity(c)[column] = found[c][Id(c)][column]
           /\ Op(c) = "rename" => Entity(c).name = request[c].name
<1>1. Id(c) \in Records /\ Id(c) # List /\ found[c][Id(c)] \in Rows
      /\ found[c][Id(c)].state = "live"
  BY InputFields DEF Genuine, Scope, Op, Id, MasterDataAssumption
<1>2. CASE Op(c) = "rename"
  <2>1. request[c].name \in Names
    BY <1>2, InputFields DEF Op
  <2>2. Entity(c) = [found[c][Id(c)] EXCEPT !.name = request[c].name]
    BY <1>2 DEF Entity
  <2> QED
    BY <1>1, <1>2, <2>1, <2>2 DEF Rows, Columns, Asked
<1>3. CASE Op(c) = "edit"
  <2>1. request[c].note \in Notes
    BY <1>3, InputFields DEF Op
  <2>2. Entity(c) = [found[c][Id(c)] EXCEPT !.note = request[c].note]
    BY <1>3 DEF Entity
  <2> QED
    BY <1>1, <1>3, <2>1, <2>2 DEF Rows, Columns, Asked
<1> QED
  BY <1>2, <1>3

\* What a statement writes is a row that exists.
LEMMA NewRowExists ==
    ASSUME NEW c \in Calls, IInv, MasterDataAssumption, pc[c] = "writing",
           NEW r \in Targets(c)
    PROVE  /\ r \in Records
           /\ NewRow(c, r) \in Rows
           /\ NewRow(c, r).state # "free"
           /\ Op(c) # "create" => r = Id(c) /\ table[r].state # "free"
           /\ Op(c) = "create" => table[r].state = "free"
<1>1. request[c] \in Inputs /\ Op(c) # "get"
      /\ (Op(c) # "create" => Genuine(Id(c), found[c]))
  BY DEF IInv, CallsOK, CallOK
<1>2. table \in [Records -> Rows] /\ diff[c] \subseteq Columns
  BY DEF IInv, TypeOK, Tables
<1>3. CASE Op(c) = "create"
  <2>1. r \in Records /\ table[r].state = "free"
    BY <1>3 DEF Targets
  <2>2. NewRow(c, r) = [state |-> "live", name |-> request[c].name,
                        note |-> request[c].note]
    BY <1>3 DEF NewRow
  <2> QED
    BY <1>1, <1>3, <2>1, <2>2, InputFields DEF Rows, Op
<1>4. ASSUME Op(c) \in {"remove", "rename", "edit"}
      PROVE  r = Id(c) /\ r \in Records /\ table[r].state # "free"
  BY <1>1, <1>4, InputFields DEF Targets, Op, Id, Genuine, MasterDataAssumption
<1>5. CASE Op(c) = "remove"
  BY <1>2, <1>4, <1>5 DEF NewRow, Rows
<1>6. CASE Op(c) \in {"rename", "edit"}
  <2> DEFINE new == [column \in Columns |->
                        IF column \in diff[c] THEN Entity(c)[column]
                                              ELSE table[r][column]]
  <2>1. NewRow(c, r) = new
    BY <1>6 DEF NewRow
  <2>2. Entity(c) \in Rows /\ Entity(c).state = "live"
    BY <1>1, <1>6, EntityIsFound
  <2>3. /\ new["state"] \in {"live", "deleted"}
        /\ new["name"] \in Names
        /\ new["note"] \in Notes
    BY <1>2, <1>4, <1>6, <2>2 DEF Columns, Rows
  <2>4. new \in Rows
    BY <2>3 DEF Rows, Columns
  <2> QED
    BY <1>4, <1>6, <2>1, <2>3, <2>4
<1>7. Op(c) \in {"create", "remove", "rename", "edit"}
  BY <1>1, InputFields DEF Op
<1> QED
  BY <1>3, <1>5, <1>6, <1>7

-----------------------------------------------------------------------------
(* The invariant.                                                          *)

LEMMA InitIInv == ASSUME MasterDataAssumption, Init PROVE IInv
<1>1. PICK b \in Beginnings : table = b.table /\ cache = b.cache
  BY DEF Init
<1>2. TypeOK
  BY <1>1 DEF Init, TypeOK, MasterDataAssumption, Columns
<1>3. CallsOK
  BY DEF Init, CallsOK, CallOK, AtRedis
<1>4. CacheOK
  BY <1>1 DEF CacheOK, Genuine, MasterDataAssumption, Readable
<1> QED
  BY <1>2, <1>3, <1>4 DEF IInv

\* A write changes one row, to another that exists; all else was there before.
LEMMA WriteKeepsRows ==
    ASSUME IInv, MasterDataAssumption, NEW c \in Calls, Write(c)
    PROVE  /\ table' \in Tables
           /\ writer' \in [Records -> [Columns -> Calls \cup {Nobody}]]
           /\ \A r \in Records : table[r].state # "free" => table'[r].state # "free"
<1>1. PICK r \in Targets(c) :
        /\ table' = [table EXCEPT ![r] = NewRow(c, r)]
        /\ writer' = [writer EXCEPT ![r] =
                         [column \in Columns |->
                             IF column \in Sets(c) THEN c ELSE @[column]]]
  BY DEF Write
<1>2. r \in Records /\ NewRow(c, r) \in Rows /\ NewRow(c, r).state # "free"
  BY NewRowExists DEF Write
<1>3. table \in [Records -> Rows]
      /\ writer \in [Records -> [Columns -> Calls \cup {Nobody}]]
  BY DEF IInv, TypeOK, Tables
<1> QED
  BY <1>1, <1>2, <1>3 DEF Tables

\* What was genuine stays so while no row ceases to exist.
LEMMA GenuineStays ==
    ASSUME NEW k \in CacheKeys, NEW s, Genuine(k, s), MasterDataAssumption,
           \A r \in Records : table[r].state # "free" => table'[r].state # "free"
    PROVE  Genuine(k, s)'
BY DEF Genuine, CacheKeys, Scope

\* A call that an action leaves where it is keeps its part of the invariant.
LEMMA OthersStay ==
    ASSUME NEW d \in Calls, CallOK(d), MasterDataAssumption,
           pc'[d] = pc[d], request'[d] = request[d], found'[d] = found[d],
           \A r \in Records : table[r].state # "free" => table'[r].state # "free"
    PROVE  CallOK(d)'
<1>1. pc[d] # "idle" /\ Op(d) # "create" => Id(d) \in CacheKeys
  BY InputFields DEF CallOK, Op, Id
<1>2. ASSUME pc[d] # "idle", Op(d) # "create", Genuine(Id(d), found[d])
      PROVE  Genuine(Id(d), found[d])'
  BY <1>1, <1>2, GenuineStays DEF Genuine, Id, Scope, CacheKeys
<1> QED
  BY <1>2 DEF CallOK, Op, Id, AtRedis

\* Where a call goes with what it found
LEMMA FoundMoves ==
    ASSUME NEW c \in Calls, Found(c), Op(c) # "create",
           pc \in [Calls -> {"idle"} \cup AtDatabase \cup AtRedis \cup Final]
    PROVE  /\ pc' \in [Calls -> {"idle"} \cup AtDatabase \cup AtRedis \cup Final]
           /\ \A d \in Calls \ {c} : pc'[d] = pc[d]
           /\ \/ Op(c) = "get" /\ pc'[c] = "200"
              \/ Op(c) = "remove" /\ pc'[c] = "writing"
              \/ /\ Op(c) \in {"rename", "edit"} /\ pc'[c] \in {"checking", "planning"}
                 /\ pc'[c] = "checking" => Op(c) \in Checks
BY DEF Found, Goto, Final, AtDatabase

LEMMA NextIInv ==
    ASSUME IInv, [Next]_vars, MasterDataAssumption
    PROVE  IInv'
<1> USE DEF IInv, history
<1>1. ASSUME NEW c \in Calls, NEW in \in Inputs, Receive(c, in)
      PROVE  IInv'
  <2>1. PICK label \in {"checking", "writing", "getting", "loading"} :
           /\ pc' = [pc EXCEPT ![c] = label]
           /\ label \in {"checking", "writing"} => in.op = "create"
           /\ label = "checking" => in.op \in Checks
           /\ label \in {"getting", "loading"} => in.op # "create"
           /\ label = "getting" => Cached
    BY <1>1 DEF Receive, Goto
  <2>2. /\ request' = [request EXCEPT ![c] = in]
        /\ UNCHANGED <<table, cache, found, diff, writer, misled, excused>>
        /\ before' = [before EXCEPT ![c] = {d \in Calls : pc[d] \in Final}]
    BY <1>1 DEF Receive
  <2>3. TypeOK'
    BY <2>1, <2>2 DEF TypeOK, AtDatabase, AtRedis
  <2>4. ASSUME NEW d \in Calls PROVE CallOK(d)'
    <3>1. CASE d = c
      BY <2>1, <2>2, <3>1 DEF TypeOK, CallOK, Op, Id, AtRedis
    <3>2. CASE d # c
      BY <2>1, <2>2, <3>2, OthersStay DEF TypeOK, CallsOK
    <3> QED BY <3>1, <3>2
  <2> QED
    BY <2>2, <2>3, <2>4 DEF CallsOK, CacheOK, Genuine, Scope
<1>2. ASSUME NEW c \in Calls, GetCached(c)
      PROVE  IInv'
  <2>1. /\ pc[c] = "getting"
        /\ UNCHANGED <<table, cache, request, diff, writer, before, excused>>
        /\ misled' \subseteq misled \cup {c}
    BY <1>2 DEF GetCached
  <2>2. request[c] \in Inputs /\ Op(c) # "create" /\ Id(c) \in CacheKeys /\ Cached
    BY <2>1, InputFields DEF CallsOK, CallOK, Op, Id, AtRedis
  <2>3. CASE Found(c) /\ cache[Id(c)] # NoEntry
             /\ found' = [found EXCEPT ![c] = cache[Id(c)]]
    <3>1. Genuine(Id(c), found'[c])
      BY <2>2, <2>3 DEF CacheOK, TypeOK
    <3>2. TypeOK'
      BY <2>1, <2>2, <2>3, FoundMoves DEF TypeOK
    <3>3. ASSUME NEW d \in Calls PROVE CallOK(d)'
      <4>1. CASE d = c
        BY <2>1, <2>2, <2>3, <3>1, <4>1, FoundMoves
           DEF TypeOK, CallOK, Op, Id, AtRedis, Genuine
      <4>2. CASE d # c
        BY <2>1, <2>3, <2>2, <4>2, OthersStay, FoundMoves DEF TypeOK, CallsOK
      <4> QED BY <4>1, <4>2
    <3> QED
      BY <2>1, <3>2, <3>3 DEF CallsOK, CacheOK, Genuine
  <2>4. CASE pc' = [pc EXCEPT ![c] = "loading"] /\ UNCHANGED found
    <3>1. TypeOK'
      BY <2>1, <2>4 DEF TypeOK, AtDatabase
    <3>2. ASSUME NEW d \in Calls PROVE CallOK(d)'
      <4>1. CASE d = c
        BY <2>1, <2>2, <2>4, <4>1 DEF TypeOK, CallOK, Op, AtRedis
      <4>2. CASE d # c
        BY <2>1, <2>4, <4>2, OthersStay DEF TypeOK, CallsOK
      <4> QED BY <4>1, <4>2
    <3> QED
      BY <2>1, <3>1, <3>2 DEF CallsOK, CacheOK, Genuine
  <2> QED
    BY <1>2, <2>3, <2>4 DEF GetCached, Goto
<1>3. ASSUME NEW c \in Calls, Load(c)
      PROVE  IInv'
  <2>1. pc[c] = "loading" /\ UNCHANGED <<table, cache, request, diff, writer, before, misled, excused>>
    BY <1>3 DEF Load
  <2>2. request[c] \in Inputs /\ Op(c) # "create" /\ Id(c) \in CacheKeys
    BY <2>1, InputFields DEF CallsOK, CallOK, Op, Id
  <2>3. CASE pc' = [pc EXCEPT ![c] = "404"] /\ UNCHANGED found
    <3>1. TypeOK'
      BY <2>1, <2>3 DEF TypeOK, Final
    <3>2. ASSUME NEW d \in Calls PROVE CallOK(d)'
      <4>1. CASE d = c
        BY <2>1, <2>2, <2>3, <4>1 DEF TypeOK, CallOK, AtRedis
      <4>2. CASE d # c
        BY <2>1, <2>3, <4>2, OthersStay DEF TypeOK, CallsOK
      <4> QED BY <4>1, <4>2
    <3> QED
      BY <2>1, <3>1, <3>2 DEF CallsOK, CacheOK, Genuine
  <2>4. CASE /\ Id(c) = List \/ table[Id(c)].state = "live"
             /\ found' = [found EXCEPT ![c] = Content(Id(c))]
             /\ IF Cached THEN Goto(c, "filling") ELSE Found(c)
    <3>1. Content(Id(c)) \in [Scope(Id(c)) -> Rows]
      BY <2>2, ContentType
    <3>2. Genuine(Id(c), found'[c])
      BY <2>2, <2>4, <3>1 DEF TypeOK, Genuine, Content, Scope
    <3>3. /\ pc' \in [Calls -> {"idle"} \cup AtDatabase \cup AtRedis \cup Final]
          /\ \A d \in Calls \ {c} : pc'[d] = pc[d]
          /\ \/ Op(c) = "get" /\ pc'[c] = "200"
             \/ Op(c) = "remove" /\ pc'[c] = "writing"
             \/ /\ Op(c) \in {"rename", "edit"} /\ pc'[c] \in {"checking", "planning"}
                /\ pc'[c] = "checking" => Op(c) \in Checks
             \/ Cached /\ pc'[c] = "filling"
      <4>1. CASE Cached
        BY <2>4, <4>1 DEF TypeOK, Goto, AtRedis
      <4>2. CASE ~Cached
        BY <2>2, <2>4, <4>2, FoundMoves DEF TypeOK
      <4> QED BY <4>1, <4>2
    <3>4. TypeOK'
      BY <2>1, <2>2, <2>4, <3>1, <3>3, GenuineIsSnapshot DEF TypeOK
    <3>5. ASSUME NEW d \in Calls PROVE CallOK(d)'
      <4>1. CASE d = c
        BY <2>1, <2>2, <3>2, <3>3, <4>1 DEF CallOK, Op, Id, AtRedis, Genuine
      <4>2. CASE d # c
        BY <2>1, <2>4, <3>3, <4>2, OthersStay DEF TypeOK, CallsOK
      <4> QED BY <4>1, <4>2
    <3> QED
      BY <2>1, <3>4, <3>5 DEF CallsOK, CacheOK, Genuine
  <2> QED
    BY <1>3, <2>2, <2>3, <2>4 DEF Load, Goto, CacheKeys, TypeOK
<1>4. ASSUME NEW c \in Calls, Fill(c)
      PROVE  IInv'
  <2>1. pc[c] = "filling" /\ Found(c) /\ UNCHANGED <<table, request, found, diff, writer, before, misled>>
    BY <1>4 DEF Fill
  <2>2. /\ request[c] \in Inputs /\ Op(c) # "create" /\ Id(c) \in CacheKeys
        /\ Genuine(Id(c), found[c]) /\ Cached
    BY <2>1, InputFields DEF CallsOK, CallOK, Op, Id, AtRedis
  <2>3. \/ UNCHANGED <<cache, excused>>
        \/ /\ cache' = [cache EXCEPT ![Id(c)] = found[c]]
           /\ excused' \in {excused \ {Id(c)}, excused \cup {Id(c)}}
    BY <1>4 DEF Fill
  <2>4. TypeOK'
    BY <2>1, <2>2, <2>3, FoundMoves DEF TypeOK
  <2>5. ASSUME NEW d \in Calls PROVE CallOK(d)'
    <3>1. CASE d = c
      BY <2>1, <2>2, <3>1, FoundMoves DEF TypeOK, CallOK, Op, Id, AtRedis, Genuine
    <3>2. CASE d # c
      BY <2>1, <2>2, <3>2, OthersStay, FoundMoves DEF TypeOK, CallsOK
    <3> QED BY <3>1, <3>2
  <2>6. CacheOK'
    BY <2>1, <2>2, <2>3 DEF CacheOK, Genuine, TypeOK
  <2> QED
    BY <2>4, <2>5, <2>6 DEF CallsOK
<1>5. ASSUME NEW c \in Calls, CheckName(c)
      PROVE  IInv'
  <2>1. pc[c] = "checking" /\ UNCHANGED <<table, cache, request, found, diff, writer, before, misled, excused>>
    BY <1>5 DEF CheckName
  <2>2. request[c] \in Inputs /\ Op(c) \in {"create", "rename", "edit"}
        /\ (Op(c) # "create" => Genuine(Id(c), found[c]))
    BY <2>1 DEF CallsOK, CallOK
  <2>3. PICK label \in {"409", "writing", "planning"} :
           /\ pc' = [pc EXCEPT ![c] = label]
           /\ label = "planning" => Op(c) # "create"
    BY <1>5 DEF CheckName, Goto
  <2>4. TypeOK'
    BY <2>1, <2>3 DEF TypeOK, AtDatabase, Final
  <2>5. ASSUME NEW d \in Calls PROVE CallOK(d)'
    <3>1. CASE d = c
      BY <2>1, <2>2, <2>3, <3>1 DEF TypeOK, CallOK, Op, Id, AtRedis, Genuine
    <3>2. CASE d # c
      BY <2>1, <2>3, <3>2, OthersStay DEF TypeOK, CallsOK
    <3> QED BY <3>1, <3>2
  <2> QED
    BY <2>1, <2>4, <2>5 DEF CallsOK, CacheOK, Genuine
<1>6. ASSUME NEW c \in Calls, Plan(c)
      PROVE  IInv'
  <2>1. /\ pc[c] = "planning" /\ pc' = [pc EXCEPT ![c] = "writing"]
        /\ UNCHANGED <<table, cache, request, found, writer, before, misled, excused>>
        /\ diff' = [diff EXCEPT ![c] =
                       {column \in Columns : Entity(c)[column] # table[Id(c)][column]}]
    BY <1>6 DEF Plan, Goto
  <2>2. Op(c) \in {"rename", "edit"} /\ request[c] \in Inputs /\ Genuine(Id(c), found[c])
    BY <2>1 DEF CallsOK, CallOK
  <2>3. TypeOK'
    BY <2>1 DEF TypeOK, AtDatabase
  <2>4. ASSUME NEW d \in Calls PROVE CallOK(d)'
    <3>1. CASE d = c
      BY <2>1, <2>2, <3>1 DEF TypeOK, CallOK, Op, Id, AtRedis, Genuine
    <3>2. CASE d # c
      BY <2>1, <3>2, OthersStay DEF TypeOK, CallsOK
    <3> QED BY <3>1, <3>2
  <2> QED
    BY <2>1, <2>3, <2>4 DEF CallsOK, CacheOK, Genuine
<1>7. ASSUME NEW c \in Calls, Write(c)
      PROVE  IInv'
  <2>1. /\ pc[c] = "writing"
        /\ UNCHANGED <<cache, request, found, diff, before, misled>>
    BY <1>7 DEF Write
  <2>2. /\ request[c] \in Inputs
        /\ Op(c) \in {"create", "rename", "edit", "remove"}
    BY <2>1, InputFields DEF CallsOK, CallOK, Op
  <2>3. PICK label \in {"200", "500", "evicting", "evictingList"} :
           /\ pc' = [pc EXCEPT ![c] = label]
           /\ label \in {"evicting", "evictingList"} => Cached
           /\ label = "evicting" => Op(c) # "create"
    <3>1. \/ pc' = [pc EXCEPT ![c] = AfterWrite(c)]
          \/ pc' = [pc EXCEPT ![c] = "500"]
      BY <1>7 DEF Write, Goto
    <3>2. /\ AfterWrite(c) \in {"200", "evicting", "evictingList"}
          /\ AfterWrite(c) \in {"evicting", "evictingList"} => Cached
          /\ AfterWrite(c) = "evicting" => Op(c) # "create"
      <4>1. CASE ~Cached
        BY <4>1 DEF AfterWrite
      <4>2. CASE Cached /\ Op(c) = "create"
        BY <4>2 DEF AfterWrite
      <4>3. CASE Cached /\ Op(c) # "create"
        BY <4>3 DEF AfterWrite
      <4> QED BY <4>1, <4>2, <4>3
    <3> QED
      BY <3>1, <3>2
  <2>4. excused' \subseteq CacheKeys
    <3>1. Owed(c) \subseteq CacheKeys
      BY <2>2, InputFields DEF Owed, CacheKeys, Op, Id
    <3> QED
      BY <1>7, <3>1 DEF Write, TypeOK
  <2>5. /\ table' \in Tables
        /\ writer' \in [Records -> [Columns -> Calls \cup {Nobody}]]
        /\ \A r \in Records : table[r].state # "free" => table'[r].state # "free"
    BY <1>7, WriteKeepsRows
  <2>6. TypeOK'
    BY <2>1, <2>3, <2>4, <2>5 DEF TypeOK, AtRedis, Final
  <2>7. ASSUME NEW d \in Calls PROVE CallOK(d)'
    <3>1. CASE d = c
      BY <2>1, <2>2, <2>3, <3>1 DEF TypeOK, CallOK, Op, AtRedis
    <3>2. CASE d # c
      BY <2>1, <2>3, <2>5, <3>2, OthersStay DEF TypeOK, CallsOK
    <3> QED BY <3>1, <3>2
  <2>8. CacheOK'
    <3> SUFFICES ASSUME NEW k \in CacheKeys, (cache[k] # NoEntry)'
                 PROVE  Cached /\ Genuine(k, cache[k])'
      BY DEF CacheOK
    <3>1. Cached /\ Genuine(k, cache[k])
      BY <2>1 DEF CacheOK
    <3> QED
      BY <2>1, <2>5, <3>1 DEF Genuine, Scope, CacheKeys
  <2> QED
    BY <2>6, <2>7, <2>8 DEF CallsOK
<1>8. ASSUME NEW c \in Calls, \/ Refuse(c) \/ UniqueViolation(c) \/ DatabaseError(c)
                              \/ Crash(c)
      PROVE  IInv'
  <2>1. PICK label \in {"404", "409", "500", "dropped"} : pc' = [pc EXCEPT ![c] = label]
    <3>1. CASE Refuse(c)
      BY <3>1 DEF Refuse, Goto
    <3>2. CASE UniqueViolation(c) \/ DatabaseError(c) \/ Crash(c)
      BY <3>2 DEF UniqueViolation, DatabaseError, Crash, Goto
    <3> QED BY <1>8, <3>1, <3>2
  <2>2. UNCHANGED <<table, cache, request, found, diff, writer, before, misled>>
    BY <1>8 DEF Refuse, UniqueViolation, DatabaseError, Crash
  <2>3. pc[c] # "idle" /\ request[c] \in Inputs
    BY <1>8 DEF Refuse, UniqueViolation, DatabaseError, Crash, AtDatabase, AtRedis,
                CallsOK, CallOK
  <2>4. excused' \subseteq CacheKeys
    <3>1. Pending(c) \subseteq CacheKeys
      <4>1. pc[c] = "evicting" => Id(c) \in Records
        BY <2>3, InputFields DEF CallsOK, CallOK, Op, Id
      <4> QED
        BY <4>1 DEF Pending, CacheKeys
    <3> QED
      BY <1>8, <3>1 DEF Refuse, UniqueViolation, DatabaseError, Crash, TypeOK
  <2>5. TypeOK'
    BY <2>1, <2>2, <2>4 DEF TypeOK, Final
  <2>6. ASSUME NEW d \in Calls PROVE CallOK(d)'
    <3>1. CASE d = c
      BY <2>1, <2>2, <2>3, <3>1 DEF TypeOK, CallOK, AtRedis
    <3>2. CASE d # c
      BY <2>1, <2>2, <3>2, OthersStay DEF TypeOK, CallsOK
    <3> QED BY <3>1, <3>2
  <2> QED
    BY <2>2, <2>5, <2>6 DEF CallsOK, CacheOK, Genuine
<1>9. ASSUME NEW c \in Calls, Evict(c) \/ EvictList(c)
      PROVE  IInv'
  <2>1. request[c] \in Inputs /\ Op(c) # "get" /\ Cached
        /\ UNCHANGED <<table, request, found, diff, writer, before, misled>>
    BY <1>9 DEF Evict, EvictList, CallsOK, CallOK, AtRedis
  <2>2. PICK k \in CacheKeys, label \in {"200", "evictingList"} :
          Drop(k) /\ pc' = [pc EXCEPT ![c] = label]
    <3>1. CASE Evict(c)
      <4>1. Id(c) \in CacheKeys
        BY <2>1, <3>1, InputFields DEF Evict, CallsOK, CallOK, Op, Id
      <4> QED
        BY <3>1, <4>1 DEF Evict, Goto
    <3>2. CASE EvictList(c)
      BY <3>2 DEF EvictList, Goto, CacheKeys
    <3> QED BY <1>9, <3>1, <3>2
  <2>3. \A j \in CacheKeys : cache'[j] \in {cache[j], NoEntry}
    BY <2>2 DEF Drop, TypeOK
  <2>4. TypeOK'
    BY <2>1, <2>2 DEF TypeOK, Drop, AtRedis, Final
  <2>5. ASSUME NEW d \in Calls PROVE CallOK(d)'
    <3>1. CASE d = c
      BY <2>1, <2>2, <3>1 DEF TypeOK, CallOK, AtRedis, Op
    <3>2. CASE d # c
      BY <2>1, <2>2, <3>2, OthersStay DEF TypeOK, CallsOK
    <3> QED BY <3>1, <3>2
  <2> QED
    BY <2>1, <2>3, <2>4, <2>5 DEF CallsOK, CacheOK, Genuine
<1>10. ASSUME NEW k \in CacheKeys, Expire(k)
       PROVE  IInv'
  <2>1. /\ UNCHANGED <<table, request, pc, found, diff, writer, before, misled>>
        /\ cache' = [cache EXCEPT ![k] = NoEntry]
        /\ excused' = excused \ {k}
    BY <1>10 DEF Expire
  <2>2. TypeOK'
    BY <2>1 DEF TypeOK
  <2>3. CallsOK'
    BY <2>1 DEF CallsOK, CallOK, Op, Id, Genuine
  <2>4. CacheOK'
    BY <2>1 DEF CacheOK, Genuine, TypeOK
  <2> QED
    BY <2>2, <2>3, <2>4
<1>11. CASE UNCHANGED vars
  <2>1. TypeOK'
    BY <1>11 DEF vars, TypeOK
  <2>2. CallsOK' /\ CacheOK'
    BY <1>11 DEF vars, CallsOK, CallOK, CacheOK, Op, Id, Genuine
  <2> QED
    BY <2>1, <2>2
<1> QED
  BY <1>1, <1>2, <1>3, <1>4, <1>5, <1>6, <1>7, <1>8, <1>9, <1>10, <1>11
     DEF Next, Step, Done

THEOREM SpecIInv == Spec => []IInv
<1> USE MasterDataAssumption
<1> QED
  BY InitIInv, NextIInv, PTL DEF Spec

\* Every variable of the services and of their cache keeps its type: what is
\* saved is a row, and what is cached is rows.
THEOREM MasterDataTypes == Spec => []TypeOK
BY SpecIInv, PTL DEF IInv

-----------------------------------------------------------------------------
(* The indexes.                                                            *)

\* All but Write leave the table alone.
LEMMA TableStays ==
    ASSUME [Next]_vars, \A c \in Calls : ~Write(c)
    PROVE  UNCHANGED <<table, writer>>
BY DEF Next, Step, Done, vars, history, Receive, GetCached, Load, Fill, CheckName, Plan,
       Refuse, UniqueViolation, Evict, EvictList, DatabaseError, Crash, Expire

\* A column that a statement does not set is as it was.
LEMMA UnsetColumnsStay ==
    ASSUME NEW c \in Calls, IInv, MasterDataAssumption, pc[c] = "writing",
           NEW r \in Targets(c), NEW column \in Columns \ Sets(c)
    PROVE  NewRow(c, r)[column] = table[r][column]
<1>1. /\ Op(c) \in {"create", "rename", "edit", "remove"}
      /\ r \in Records /\ table[r] \in Rows
  BY NewRowExists, InputFields DEF IInv, CallsOK, CallOK, TypeOK, Tables, Op
<1>2. CASE Op(c) = "create"
  BY <1>2 DEF Sets
<1>3. CASE Op(c) = "remove"
  <2>1. NewRow(c, r) = [table[r] EXCEPT !.state = "deleted"] /\ column # "state"
    BY <1>3 DEF NewRow, Sets
  <2> QED
    BY <1>1, <2>1 DEF Rows, Columns
<1>4. CASE Op(c) \in {"rename", "edit"}
  <2>1. Sets(c) = diff[c]
    BY <1>4 DEF Sets
  <2>2. NewRow(c, r) = [col \in Columns |-> IF col \in diff[c] THEN Entity(c)[col]
                                                               ELSE table[r][col]]
    BY <1>4 DEF NewRow
  <2> QED
    BY <2>1, <2>2
<1> QED
  BY <1>1, <1>2, <1>3, <1>4

\* No write brings in a value that an index has for another row.
LEMMA NextAdmitted ==
    ASSUME IInv, [Next]_vars, MasterDataAssumption, Admitted(table)
    PROVE  Admitted(table)'
<1>1. CASE \A c \in Calls : ~Write(c)
  BY <1>1, TableStays DEF Admitted
<1>2. ASSUME NEW c \in Calls, Write(c)
      PROVE  Admitted(table)'
  <2>1. pc[c] = "writing" /\ table \in [Records -> Rows]
    BY <1>2 DEF Write, IInv, TypeOK, Tables
  <2>2. PICK r \in Targets(c) : ~Collides(c, r) /\ table' = [table EXCEPT ![r] = NewRow(c, r)]
    BY <1>2 DEF Write
  <2>3. /\ r \in Records
        /\ Op(c) # "create" => table[r].state # "free"
    BY <2>1, <2>2, NewRowExists
  <2>4. ASSUME NEW column \in Indexed, NEW s \in Records \ {r}, table[s].state # "free"
        PROVE  table[s][column] # NewRow(c, r)[column]
    <3>1. CASE column \in Sets(c)
      BY <2>2, <2>4, <3>1 DEF Collides
    <3>2. CASE column \notin Sets(c)
      <4>1. Op(c) # "create" /\ column \in Columns
        BY <3>2 DEF Sets, Columns, MasterDataAssumption
      <4>2. NewRow(c, r)[column] = table[r][column]
        BY <2>1, <2>2, <3>2, <4>1, UnsetColumnsStay
      <4> QED
        BY <2>3, <2>4, <4>1, <4>2 DEF Admitted
    <3> QED BY <3>1, <3>2
  <2> QED
    BY <2>1, <2>2, <2>3, <2>4 DEF Admitted
<1> QED
  BY <1>1, <1>2

LEMMA SpecAdmitted == Spec => []Admitted(table)
<1> USE MasterDataAssumption
<1>1. Init => Admitted(table)
  BY DEF Init, MasterDataAssumption
<1>2. IInv /\ Admitted(table) /\ [Next]_vars => Admitted(table)'
  BY NextAdmitted
<1> QED
  BY <1>1, <1>2, SpecIInv, PTL DEF Spec

-----------------------------------------------------------------------------
(* The cache.                                                              *)

LEMMA NextStale ==
    ASSUME IInv, [Next]_vars, MasterDataAssumption, StaleOnlyByRaceOrLoss
    PROVE  StaleOnlyByRaceOrLoss'
<1> DEFINE Explained(k) == \/ cache[k] \in {NoEntry, Content(k)}
                           \/ k \in excused
                           \/ \E c \in Calls : k \in Pending(c)
<1> SUFFICES ASSUME NEW k \in CacheKeys PROVE Explained(k)'
  BY DEF StaleOnlyByRaceOrLoss
<1>1. Explained(k)
  BY DEF StaleOnlyByRaceOrLoss
<1>2. /\ cache \in [CacheKeys -> Snapshots \cup {NoEntry}]
      /\ pc \in [Calls -> {"idle"} \cup AtDatabase \cup AtRedis \cup Final]
  BY DEF IInv, TypeOK
\* Every action but three leaves calls that owe an eviction as they are.
<1>3. ASSUME \A c \in Calls : pc'[c] # pc[c] => pc[c] \notin {"evicting", "evictingList"},
             \A c \in Calls : pc[c] # "idle" => request'[c] = request[c],
             \/ UNCHANGED <<table, cache, excused>>
             \/ UNCHANGED table /\ k \in excused'
             \/ UNCHANGED table /\ cache'[k] = cache[k] /\ (k \in excused => k \in excused')
             \/ UNCHANGED table /\ cache'[k] \in {NoEntry, Content(k)}
      PROVE  Explained(k)'
  <2>1. ASSUME NEW c \in Calls, k \in Pending(c)
        PROVE  k \in Pending(c)'
    <3>1. pc[c] \in {"evicting", "evictingList"}
      BY <2>1 DEF Pending
    <3>2. pc'[c] = pc[c] /\ request'[c] = request[c]
      BY <1>3, <3>1
    <3> QED
      BY <2>1, <3>2 DEF Pending, Id
  <2> QED
    BY <1>1, <1>3, <2>1 DEF Content
<1>4. ASSUME NEW c \in Calls, NEW in \in Inputs, Receive(c, in)
      PROVE  Explained(k)'
  <2>1. /\ pc[c] = "idle" /\ UNCHANGED <<table, cache, excused>>
        /\ \A d \in Calls \ {c} : pc'[d] = pc[d] /\ request'[d] = request[d]
    BY <1>4, <1>2 DEF Receive, Goto, IInv, TypeOK
  <2> QED
    BY <1>3, <2>1
<1>5. ASSUME NEW c \in Calls,
             \/ GetCached(c) \/ Load(c) \/ CheckName(c) \/ Plan(c) \/ Refuse(c)
             \/ UniqueViolation(c) \/ DatabaseError(c)
      PROVE  Explained(k)'
  <2>1. /\ pc[c] \notin {"evicting", "evictingList"}
        /\ UNCHANGED <<table, cache, excused, request>>
    BY <1>5 DEF GetCached, Load, CheckName, Plan, Refuse, UniqueViolation, DatabaseError,
                history, AtDatabase
  <2>2. \A d \in Calls \ {c} : pc'[d] = pc[d]
    BY <1>2, <1>5 DEF GetCached, Load, CheckName, Plan, Refuse, UniqueViolation,
                      DatabaseError, Found, Goto
  <2> QED
    BY <1>3, <2>1, <2>2
<1>6. ASSUME NEW c \in Calls, Fill(c)
      PROVE  Explained(k)'
  <2>1. pc[c] = "filling" /\ UNCHANGED <<table, request>>
    BY <1>6 DEF Fill
  <2>2. \A d \in Calls \ {c} : pc'[d] = pc[d]
    BY <1>2, <1>6 DEF Fill, Found, Goto
  <2>3. \/ UNCHANGED <<cache, excused>>
        \/ /\ cache' = [cache EXCEPT ![Id(c)] = found[c]]
           /\ found[c] = Content(Id(c)) /\ excused' = excused \ {Id(c)}
        \/ /\ cache' = [cache EXCEPT ![Id(c)] = found[c]]
           /\ excused' = excused \cup {Id(c)}
    BY <1>6 DEF Fill
  <2>4. CASE k = Id(c)
    BY <1>2, <1>3, <2>1, <2>2, <2>3, <2>4
  <2>5. CASE k # Id(c)
    <3>1. cache'[k] = cache[k] /\ (k \in excused => k \in excused')
      BY <1>2, <2>3, <2>5
    <3> QED
      BY <1>3, <2>1, <2>2, <3>1
  <2> QED BY <2>4, <2>5
<1>7. ASSUME NEW c \in Calls, Write(c)
      PROVE  Explained(k)'
  <2>1. /\ pc[c] = "writing"
        /\ UNCHANGED <<cache, request, found, diff, before, misled>>
    BY <1>7 DEF Write
  <2>2. PICK r \in Targets(c) : table' = [table EXCEPT ![r] = NewRow(c, r)]
    BY <1>7 DEF Write
  <2>3. /\ r \in Records
        /\ Op(c) # "create" => r = Id(c)
        /\ Op(c) = "create" => table[r].state = "free"
    BY <2>1, <2>2, NewRowExists
  <2>4. \A d \in Calls \ {c} : pc'[d] = pc[d]
    BY <1>2, <1>7 DEF Write, Goto
  <2>5. CASE cache[k] = NoEntry
    BY <2>1, <2>5
  <2>6. CASE cache[k] # NoEntry /\ (k = List \/ k = r)
    <3>1. Cached /\ Genuine(k, cache[k])
      BY <2>6 DEF IInv, CacheOK
    <3>2. k \in Owed(c)
      BY <2>3, <2>6, <3>1 DEF Owed, Genuine, MasterDataAssumption
    <3>3. CASE excused' = excused \cup Owed(c)
      BY <3>2, <3>3
    <3>4. CASE pc' = [pc EXCEPT ![c] = AfterWrite(c)]
      <4>1. AfterWrite(c) = IF Op(c) = "create" THEN "evictingList" ELSE "evicting"
        BY <3>1 DEF AfterWrite
      <4>2. CASE Op(c) = "create"
        <5>1. pc'[c] = "evictingList" /\ k = List
          BY <1>2, <3>2, <3>4, <4>1, <4>2 DEF Owed
        <5> QED
          BY <5>1 DEF Pending
      <4>3. CASE Op(c) # "create"
        <5>1. pc'[c] = "evicting" /\ k \in {Id(c), List}
          BY <1>2, <3>2, <3>4, <4>1, <4>3 DEF Owed
        <5>2. Pending(c)' = {Id(c), List}
          BY <2>1, <5>1 DEF Pending, Id
        <5> QED
          BY <5>1, <5>2
      <4> QED BY <4>2, <4>3
    <3> QED
      BY <1>7, <3>3, <3>4 DEF Write, Goto
  <2>7. CASE k # List /\ k # r
    <3>1. Content(k)' = Content(k)
      BY <2>2, <2>7 DEF Content, Scope
    <3>2. k \in excused => k \in excused'
      BY <1>7 DEF Write
    <3>3. ASSUME NEW d \in Calls, k \in Pending(d)
          PROVE  k \in Pending(d)'
      <4>1. d # c
        BY <2>1, <3>3 DEF Pending
      <4> QED
        BY <2>1, <2>4, <3>3, <4>1 DEF Pending, Id
    <3> QED
      BY <1>1, <2>1, <3>1, <3>2, <3>3
  <2> QED
    BY <2>5, <2>6, <2>7
<1>8. ASSUME NEW c \in Calls, Evict(c) \/ EvictList(c) \/ Crash(c)
      PROVE  Explained(k)'
  <2>1. UNCHANGED <<table, request>> /\ \A d \in Calls \ {c} : pc'[d] = pc[d]
    BY <1>2, <1>8 DEF Evict, EvictList, Crash, Goto
  <2>2. \A d \in Calls \ {c} : k \in Pending(d) => k \in Pending(d)'
    BY <2>1 DEF Pending, Id
  <2>3. ASSUME k \in Pending(c)
        PROVE  \/ cache'[k] = NoEntry
               \/ k \in excused'
               \/ k \in Pending(c)'
    <3>1. CASE Evict(c)
      <4>1. Pending(c) = {Id(c), List} /\ pc'[c] = "evictingList" /\ Drop(Id(c))
        BY <1>2, <3>1 DEF Evict, Pending, Goto
      <4>2. k = Id(c) \/ k \in Pending(c)'
        BY <2>3, <4>1 DEF Pending
      <4> QED
        BY <1>2, <4>1, <4>2 DEF Drop
    <3>2. CASE EvictList(c)
      <4>1. Pending(c) = {List} /\ Drop(List)
        BY <3>2 DEF EvictList, Pending
      <4> QED
        BY <1>2, <2>3, <4>1 DEF Drop
    <3>3. CASE Crash(c)
      BY <2>3, <3>3 DEF Crash
    <3> QED BY <1>8, <3>1, <3>2, <3>3
  <2>4. \/ cache'[k] = NoEntry
        \/ k \in excused'
        \/ cache'[k] = cache[k] /\ k \notin excused
    BY <1>2, <1>8 DEF Evict, EvictList, Crash, Drop
  <2>5. Content(k)' = Content(k)
    BY <2>1 DEF Content
  <2> QED
    BY <1>1, <2>2, <2>3, <2>4, <2>5
<1>9. ASSUME NEW j \in CacheKeys, Expire(j)
      PROVE  Explained(k)'
  <2>1. /\ UNCHANGED <<table, request, pc>>
        /\ cache' = [cache EXCEPT ![j] = NoEntry]
        /\ excused' = excused \ {j}
    BY <1>9 DEF Expire
  <2> QED
    BY <1>2, <1>3, <2>1
<1>10. CASE UNCHANGED vars
  BY <1>3, <1>10 DEF vars
<1> QED
  BY <1>4, <1>5, <1>6, <1>7, <1>8, <1>9, <1>10 DEF Next, Step, Done

\* What Redis holds differs from the table only while an eviction is due, or
\* by a reader's race or a lost eviction.
THEOREM CacheIsStaleOnlyByRaceOrLoss == Spec => []StaleOnlyByRaceOrLoss
<1> USE MasterDataAssumption
<1>1. Init => StaleOnlyByRaceOrLoss
  BY DEF Init, StaleOnlyByRaceOrLoss, Content
<1>2. IInv /\ StaleOnlyByRaceOrLoss /\ [Next]_vars => StaleOnlyByRaceOrLoss'
  BY NextStale
<1> QED
  BY <1>1, <1>2, SpecIInv, PTL DEF Spec

-----------------------------------------------------------------------------
(* Overlapping calls.                                                      *)

Running(c) == pc[c] \in AtDatabase \cup AtRedis

\* What was over when a call began is still over.
HistoryOK == \A c, d \in Calls : d \in before[c] => pc[d] \in Final

LEMMA RunningIsNotOver ==
    ASSUME NEW c \in Calls, Running(c)
    PROVE  pc[c] # "idle" /\ pc[c] \notin Final
BY DEF Running, AtDatabase, AtRedis, Final

\* A call that is over stays over, and only one that is idle can begin.
LEMMA OnlyIdleCallsBegin ==
    ASSUME TypeOK, [Next]_vars, NEW c \in Calls
    PROVE  /\ pc[c] \in Final => pc'[c] = pc[c]
           /\ pc[c] # "idle" => before'[c] = before[c] /\ request'[c] = request[c]
           /\ before'[c] \in {before[c], {d \in Calls : pc[d] \in Final}}
<1> USE DEF TypeOK, Goto
<1>1. ASSUME NEW d \in Calls, NEW in \in Inputs, Receive(d, in)
      PROVE  /\ pc[c] \in Final => pc'[c] = pc[c]
             /\ pc[c] # "idle" => before'[c] = before[c] /\ request'[c] = request[c]
             /\ before'[c] \in {before[c], {e \in Calls : pc[e] \in Final}}
  BY <1>1 DEF Receive, Final
<1>2. ASSUME NEW d \in Calls, Step(d) \/ DatabaseError(d) \/ Crash(d)
      PROVE  UNCHANGED <<before, request>> /\ (pc[c] \in Final => pc'[c] = pc[c])
  <2>1. UNCHANGED <<before, request>> /\ Running(d)
    BY <1>2 DEF Step, GetCached, Load, Fill, CheckName, Plan, Refuse, Write, UniqueViolation,
                Evict, EvictList, DatabaseError, Crash, history, Running, AtDatabase, AtRedis
  <2>2. c # d => pc'[c] = pc[c]
    BY <1>2 DEF Step, GetCached, Load, Fill, CheckName, Plan, Refuse, Write, UniqueViolation,
                Evict, EvictList, DatabaseError, Crash, Found
  <2> QED
    BY <2>1, <2>2, RunningIsNotOver
<1>3. CASE UNCHANGED <<pc, before, request>>
  BY <1>3
<1> QED
  BY <1>1, <1>2, <1>3 DEF Next, Expire, Done, vars

LEMMA NextHistory ==
    ASSUME TypeOK, HistoryOK, [Next]_vars
    PROVE  HistoryOK'
<1> SUFFICES ASSUME NEW c \in Calls, NEW d \in Calls, d \in before'[c]
             PROVE  pc'[d] \in Final
  BY DEF HistoryOK
<1>1. pc[d] \in Final
  BY OnlyIdleCallsBegin DEF HistoryOK
<1> QED
  BY <1>1, OnlyIdleCallsBegin

LEMMA RunningCallsOverlap ==
    ASSUME HistoryOK, MasterDataAssumption, NEW c \in Calls, NEW d \in Calls,
           Running(c), Running(d)
    PROVE  Overlapped(c, d)
BY RunningIsNotOver DEF HistoryOK, Overlapped, MasterDataAssumption

LEMMA OverlapStays ==
    ASSUME TypeOK, [Next]_vars, NEW c \in Calls, NEW d \in Calls, Running(c), Overlapped(c, d)
    PROVE  Overlapped(c, d)'
<1>1. before'[c] = before[c]
  BY OnlyIdleCallsBegin, RunningIsNotOver
<1>2. c \notin before'[d]
  BY OnlyIdleCallsBegin, RunningIsNotOver DEF Overlapped
<1> QED
  BY <1>1, <1>2 DEF Overlapped

\* A column is as it was, or a call has just written it.
LEMMA ColumnsMove ==
    ASSUME IInv, MasterDataAssumption, [Next]_vars, NEW s \in Records, NEW column \in Columns
    PROVE  \/ /\ table'[s][column] = table[s][column]
              /\ writer'[s][column] = writer[s][column]
           \/ \E d \in Calls : /\ Write(d) /\ s \in Targets(d) /\ column \in Sets(d)
                              /\ table' = [table EXCEPT ![s] = NewRow(d, s)]
                              /\ writer'[s][column] = d
<1>1. CASE \A d \in Calls : ~Write(d)
  BY <1>1, TableStays
<1>2. ASSUME NEW d \in Calls, Write(d)
      PROVE  \/ /\ table'[s][column] = table[s][column]
                /\ writer'[s][column] = writer[s][column]
             \/ /\ s \in Targets(d) /\ column \in Sets(d)
                /\ table' = [table EXCEPT ![s] = NewRow(d, s)]
                /\ writer'[s][column] = d
  <2>1. table \in [Records -> Rows] /\ pc[d] = "writing"
        /\ writer \in [Records -> [Columns -> Calls \cup {Nobody}]]
    BY <1>2 DEF Write, IInv, TypeOK, Tables
  <2>2. PICK r \in Targets(d) :
          /\ table' = [table EXCEPT ![r] = NewRow(d, r)]
          /\ writer' = [writer EXCEPT ![r] =
                           [col \in Columns |-> IF col \in Sets(d) THEN d ELSE @[col]]]
    BY <1>2 DEF Write
  <2>3. CASE s # r
    BY <2>1, <2>2, <2>3
  <2>4. CASE s = r /\ column \in Sets(d)
    BY <2>1, <2>2, <2>4
  <2>5. CASE s = r /\ column \notin Sets(d)
    <3>1. NewRow(d, r)[column] = table[r][column]
      BY <2>1, <2>2, <2>5, UnsetColumnsStay
    <3> QED
      BY <2>1, <2>2, <2>5, <3>1
  <2> QED BY <2>3, <2>4, <2>5
<1> QED
  BY <1>1, <1>2

\* So what a running call has not seen was written by a call it overlaps.
LEMMA RunningSeesWriters ==
    ASSUME IInv, HistoryOK, MasterDataAssumption, [Next]_vars,
           NEW c \in Calls, Running(c), NEW s \in Records, NEW column \in Columns
    PROVE  \/ /\ table'[s][column] = table[s][column]
              /\ writer'[s][column] = writer[s][column]
              /\ Overlapped(c, writer[s][column]) => Overlapped(c, writer[s][column])'
           \/ Overlapped(c, writer[s][column])'
<1>1. CASE /\ table'[s][column] = table[s][column]
           /\ writer'[s][column] = writer[s][column]
  <2>1. ASSUME Overlapped(c, writer[s][column])
        PROVE  Overlapped(c, writer[s][column])'
    <3>1. PICK d \in Calls : d = writer[s][column]
      BY <2>1 DEF Overlapped, IInv, TypeOK
    <3>2. Overlapped(c, d)'
      BY <2>1, <3>1, OverlapStays DEF IInv
    <3> QED
      BY <1>1, <3>1, <3>2 DEF Overlapped
  <2> QED BY <1>1, <2>1
<1>2. ASSUME NEW d \in Calls, Write(d), writer'[s][column] = d
      PROVE  Overlapped(c, writer[s][column])'
  <2>1. Overlapped(c, d)
    BY <1>2, RunningCallsOverlap DEF Write, Running, AtDatabase
  <2>2. Overlapped(c, d)'
    BY <2>1, OverlapStays DEF IInv
  <2> QED
    BY <1>2, <2>2 DEF Overlapped
<1> QED
  BY <1>1, <1>2, ColumnsMove

\* And a call that was misled once stays so.
LEMMA MisledGrows == ASSUME [Next]_vars PROVE misled \subseteq misled'
BY DEF Next, Step, Done, vars, history, Receive, GetCached, Load, Fill, CheckName, Plan,
       Refuse, Write, UniqueViolation, Evict, EvictList, DatabaseError, Crash, Expire

LEMMA OutdatedStays ==
    ASSUME IInv, HistoryOK, MasterDataAssumption, [Next]_vars,
           NEW c \in Calls, Running(c), NEW s \in Records, NEW column \in Columns
    PROVE  \/ /\ table'[s][column] = table[s][column]
              /\ Outdated(c, s, column) => Outdated(c, s, column)'
           \/ Outdated(c, s, column)'
BY RunningSeesWriters, MisledGrows DEF Outdated

\* c has found its row.
HasFound(c) ==
    /\ pc[c] \in {"filling", "checking", "planning", "writing"}
    /\ Op(c) \in {"rename", "edit", "remove"}

HasPlanned(c) == pc[c] = "writing" /\ Op(c) \in {"rename", "edit"}

\* What c found differs from its row only where it is outdated.
SeenOK(c) ==
    HasFound(c) => \A column \in Columns :
        \/ found[c][Id(c)][column] = table[Id(c)][column]
        \/ Outdated(c, Id(c), column)

\* And so do the columns that c will set without being asked.
PlannedOK(c) ==
    HasPlanned(c) => \A column \in diff[c] \ Asked(c) : Outdated(c, Id(c), column)

\* The steps in which a call finds its row, plans or has yet to do either
LEMMA CallMoves ==
    ASSUME IInv, MasterDataAssumption, [Next]_vars, NEW c \in Calls, HasFound(c)'
    PROVE  \/ /\ HasFound(c) /\ found'[c] = found[c] /\ request'[c] = request[c]
              /\ HasPlanned(c)' => HasPlanned(c) /\ diff'[c] = diff[c]
           \/ /\ Load(c) \/ GetCached(c)
              /\ UNCHANGED <<table, request>> /\ ~HasPlanned(c)'
              /\ found'[c] = Content(Id(c)) \/ c \in misled'
           \/ Plan(c) /\ HasFound(c) /\ found'[c] = found[c] /\ request'[c] = request[c]
<1>1. /\ pc \in [Calls -> {"idle"} \cup AtDatabase \cup AtRedis \cup Final]
      /\ found \in [Calls -> Snapshots \cup {NoEntry}]
      /\ diff \in [Calls -> SUBSET Columns]
      /\ request \in [Calls -> Inputs \cup {NoInput}]
  BY DEF IInv, TypeOK
<1>2. /\ pc'[c] \in {"filling", "checking", "planning", "writing"}
      /\ request'[c] = request[c] => Op(c) \in {"rename", "edit", "remove"}
  BY DEF HasFound, Op
<1>3. ASSUME NEW d \in Calls, NEW in \in Inputs, Receive(d, in)
      PROVE  /\ HasFound(c) /\ found'[c] = found[c] /\ request'[c] = request[c]
             /\ HasPlanned(c)' => HasPlanned(c) /\ diff'[c] = diff[c]
  <2>1. c # d
    <3> SUFFICES ASSUME c = d PROVE FALSE
      OBVIOUS
    <3>1. request'[c].op = in.op
      BY <1>1, <1>3 DEF Receive
    <3>2. in.op = "create"
      BY <1>1, <1>2, <1>3 DEF Receive, Goto
    <3> QED
      BY <3>1, <3>2 DEF HasFound, Op
  <2>2. pc'[c] = pc[c] /\ UNCHANGED <<found, diff>> /\ request'[c] = request[c]
    BY <1>1, <1>3, <2>1 DEF Receive, Goto
  <2> QED
    BY <2>2 DEF HasFound, HasPlanned, Op
<1>4. ASSUME NEW d \in Calls, d # c, Step(d) \/ DatabaseError(d) \/ Crash(d)
      PROVE  /\ HasFound(c) /\ found'[c] = found[c] /\ request'[c] = request[c]
             /\ HasPlanned(c)' => HasPlanned(c) /\ diff'[c] = diff[c]
  <2>1. UNCHANGED request /\ pc'[c] = pc[c] /\ found'[c] = found[c] /\ diff'[c] = diff[c]
    BY <1>1, <1>4 DEF Step, GetCached, Load, Fill, CheckName, Plan, Refuse, Write,
          UniqueViolation, Evict, EvictList, DatabaseError, Crash, Found, Goto, history
  <2> QED
    BY <2>1 DEF HasFound, HasPlanned, Op
<1>5. CASE Load(c)
  <2>1. pc[c] = "loading" /\ UNCHANGED <<table, request>>
    BY <1>5 DEF Load
  <2>2. /\ found' = [found EXCEPT ![c] = Content(Id(c))]
        /\ IF Cached THEN Goto(c, "filling") ELSE Found(c)
    BY <1>1, <1>2, <1>5 DEF Load, Goto
  <2>3. ~HasPlanned(c)'
    BY <1>1, <2>1, <2>2 DEF HasPlanned, Found, Goto, Op
  <2> QED
    BY <1>1, <1>5, <2>1, <2>2, <2>3
<1>6. CASE GetCached(c)
  <2>1. UNCHANGED <<table, request>>
    BY <1>6 DEF GetCached
  <2>2. /\ found' = [found EXCEPT ![c] = cache[Id(c)]] /\ Found(c)
        /\ cache[Id(c)] = Content(Id(c)) \/ c \in misled'
    BY <1>1, <1>2, <1>6 DEF GetCached, Goto
  <2>3. ~HasPlanned(c)'
    BY <1>1, <2>1, <2>2 DEF HasPlanned, Found, Goto, Op
  <2> QED
    BY <1>1, <1>6, <2>1, <2>2, <2>3
<1>7. CASE Plan(c)
  <2>1. UNCHANGED <<found, request>> /\ pc[c] = "planning"
    BY <1>7 DEF Plan
  <2> QED
    BY <1>2, <1>7, <2>1 DEF HasFound, Op
<1>8. CASE CheckName(c)
  <2>1. UNCHANGED <<found, request, diff>> /\ pc[c] = "checking"
    BY <1>8 DEF CheckName
  <2>2. HasPlanned(c)' => Op(c) = "create"
    BY <1>1, <1>8 DEF CheckName, HasPlanned, Goto
  <2> QED
    BY <1>2, <2>1, <2>2 DEF HasFound, HasPlanned, Op
<1>9. CASE Fill(c)
  <2>1. UNCHANGED <<found, request, diff>> /\ pc[c] = "filling" /\ Found(c)
    BY <1>9 DEF Fill
  <2>2. ~HasPlanned(c)'
    BY <1>1, <2>1 DEF HasPlanned, Found, Goto, Op
  <2> QED
    BY <1>2, <2>1, <2>2 DEF HasFound, Op
<1>10. ASSUME \/ Refuse(c) \/ Write(c) \/ UniqueViolation(c)
              \/ Evict(c) \/ EvictList(c) \/ DatabaseError(c) \/ Crash(c)
       PROVE  FALSE
  <2>1. pc'[c] \in {"200", "404", "409", "500", "dropped", "evicting", "evictingList"}
    <3>1. CASE Refuse(c)
      BY <1>1, <3>1 DEF Refuse, Goto
    <3>2. CASE Write(c)
      <4>1. AfterWrite(c) \in {"200", "evicting", "evictingList"}
        BY DEF AfterWrite
      <4> QED
        BY <1>1, <3>2, <4>1 DEF Write, Goto
    <3>3. CASE Evict(c) \/ EvictList(c)
      BY <1>1, <3>3 DEF Evict, EvictList, Goto
    <3>4. CASE UniqueViolation(c) \/ DatabaseError(c) \/ Crash(c)
      BY <1>1, <3>4 DEF UniqueViolation, DatabaseError, Crash, Goto
    <3> QED BY <1>10, <3>1, <3>2, <3>3, <3>4
  <2> QED BY <1>2, <2>1
<1>11. CASE UNCHANGED <<pc, request, found, diff>>
  BY <1>11 DEF HasFound, HasPlanned, Op
<1> QED
  BY <1>3, <1>4, <1>5, <1>6, <1>7, <1>8, <1>9, <1>10, <1>11
     DEF Next, Step, Expire, Done, vars

\* What holds before a call moves and is stable while it has found its row
LEMMA FoundRow ==
    ASSUME IInv, MasterDataAssumption, NEW c \in Calls, HasFound(c)
    PROVE  /\ Op(c) \in {"rename", "edit", "remove"}
           /\ request[c] \in Inputs
           /\ Genuine(Id(c), found[c])
           /\ Id(c) \in Records
           /\ Running(c)
<1>1. /\ request[c] \in Inputs /\ Genuine(Id(c), found[c])
  BY DEF IInv, CallsOK, CallOK, HasFound
<1>2. Op(c) \in {"rename", "edit", "remove"} /\ Id(c) \in Records
  BY <1>1, InputFields DEF Op, Id, HasFound
<1> QED
  BY <1>1, <1>2 DEF HasFound, Running, AtDatabase, AtRedis

LEMMA NextSeen ==
    ASSUME IInv, MasterDataAssumption, HistoryOK, [Next]_vars,
           NEW c \in Calls, SeenOK(c), PlannedOK(c)
    PROVE  SeenOK(c)' /\ PlannedOK(c)'
<1> SUFFICES ASSUME HasFound(c)'
             PROVE  SeenOK(c)' /\ PlannedOK(c)'
  BY DEF SeenOK, PlannedOK, HasPlanned, HasFound, Op
<1>1. CASE /\ HasFound(c) /\ found'[c] = found[c] /\ request'[c] = request[c]
           /\ HasPlanned(c)' => HasPlanned(c) /\ diff'[c] = diff[c]
  <2>1. Id(c) \in Records /\ Running(c) /\ Id(c)' = Id(c)
    BY <1>1, FoundRow DEF Id
  <2>2. SeenOK(c)'
    <3> SUFFICES ASSUME NEW column \in Columns
                 PROVE  \/ found'[c][Id(c)][column] = table'[Id(c)][column]
                        \/ Outdated(c, Id(c), column)'
      BY <2>1 DEF SeenOK
    <3> QED
      BY <1>1, <2>1, OutdatedStays DEF SeenOK, Outdated
  <2>3. PlannedOK(c)'
    <3> SUFFICES ASSUME HasPlanned(c)', NEW column \in diff'[c] \ Asked(c)'
                 PROVE  Outdated(c, Id(c), column)'
      BY <2>1 DEF PlannedOK
    <3>1. HasPlanned(c) /\ column \in diff[c] \ Asked(c) /\ column \in Columns
      BY <1>1 DEF Asked, Op, IInv, TypeOK
    <3> QED
      BY <2>1, <3>1, OutdatedStays DEF PlannedOK, Outdated
  <2> QED BY <2>2, <2>3
<1>2. CASE /\ Load(c) \/ GetCached(c)
           /\ UNCHANGED <<table, request>> /\ ~HasPlanned(c)'
           /\ found'[c] = Content(Id(c)) \/ c \in misled'
  <2>1. Id(c)' = Id(c) /\ Op(c)' = Op(c) /\ Op(c) # "get" /\ Op(c) # "create"
    BY <1>2 DEF Id, Op, HasFound
  <2>2. Id(c) # List
    <3>1. request[c] \in Inputs
      BY <1>2 DEF Load, GetCached, IInv, CallsOK, CallOK
    <3> QED
      BY <2>1, <3>1, InputFields DEF Op, Id, MasterDataAssumption
  <2>3. found'[c][Id(c)] = table[Id(c)] \/ c \in misled'
    BY <1>2, <2>2 DEF Content, Scope
  <2> QED
    BY <1>2, <2>1, <2>3 DEF SeenOK, PlannedOK, Outdated
<1>3. CASE Plan(c) /\ HasFound(c) /\ found'[c] = found[c] /\ request'[c] = request[c]
  <2>1. /\ UNCHANGED <<table, writer, before, misled, found>>
        /\ Id(c)' = Id(c) /\ Op(c)' = Op(c)
        /\ diff'[c] = {column \in Columns : Entity(c)[column] # table[Id(c)][column]}
        /\ Op(c) \in {"rename", "edit"}
    BY <1>3 DEF Plan, history, Id, Op, IInv, TypeOK, CallsOK, CallOK
  <2>2. SeenOK(c)'
    BY <1>3, <2>1 DEF SeenOK, HasFound, Overlapped, Outdated
  <2>3. PlannedOK(c)'
    <3> SUFFICES ASSUME NEW column \in diff'[c] \ Asked(c)'
                 PROVE  Outdated(c, Id(c), column)
      BY <2>1 DEF PlannedOK, Overlapped, Outdated
    <3>1. column \in Columns \ Asked(c) /\ Entity(c)[column] # table[Id(c)][column]
      BY <2>1 DEF Asked
    <3>2. Entity(c)[column] = found[c][Id(c)][column]
      BY <1>3, <2>1, <3>1, FoundRow, EntityIsFound
    <3> QED
      BY <1>3, <3>1, <3>2 DEF SeenOK
  <2> QED BY <2>2, <2>3
<1> QED
  BY <1>1, <1>2, <1>3, CallMoves

OverlapInv == HistoryOK /\ \A c \in Calls : SeenOK(c) /\ PlannedOK(c)

LEMMA SpecOverlap == Spec => []OverlapInv
<1> USE MasterDataAssumption
<1>1. Init => OverlapInv
  BY DEF Init, OverlapInv, HistoryOK, SeenOK, PlannedOK, HasFound, HasPlanned
<1>2. IInv /\ OverlapInv /\ [Next]_vars => OverlapInv'
  BY NextHistory, NextSeen DEF OverlapInv, IInv
<1> QED
  BY <1>1, <1>2, SpecIInv, PTL DEF Spec

\* A statement sets what its client asked for, or what its call has outdated.
LEMMA WriteIsAskedOrUndoes ==
    ASSUME IInv, MasterDataAssumption, OverlapInv, NEW c \in Calls, Write(c),
           NEW r \in Targets(c), NEW column \in Sets(c)
    PROVE  /\ pc[c] = "writing" /\ pc'[c] # "writing"
           /\ column \in Asked(c) \/ Outdated(c, r, column)
<1>1. pc[c] = "writing" /\ pc'[c] # "writing"
  <2>1. AfterWrite(c) # "writing"
    BY DEF AfterWrite
  <2> QED
    BY <2>1 DEF Write, Goto, IInv, TypeOK
<1>2. Op(c) \in {"create", "rename", "edit", "remove"}
  BY <1>1, InputFields DEF IInv, CallsOK, CallOK, Op
<1>3. CASE Op(c) \in {"create", "remove"}
  BY <1>1, <1>3 DEF Sets, Asked
<1>4. CASE Op(c) \in {"rename", "edit"}
  <2>1. Sets(c) = diff[c] /\ r = Id(c)
    BY <1>4 DEF Sets, Targets
  <2> QED
    BY <1>1, <1>4, <2>1 DEF OverlapInv, PlannedOK, HasPlanned
<1> QED
  BY <1>2, <1>3, <1>4

\* Of every service: what a finished call has set is changed only by a call
\* that asks for it, that overlapped it, or that the cache had misled.
THEOREM EditsStay == Spec => FinishedEditsStay
<1> USE MasterDataAssumption
<1> DEFINE Kept == \A r \in Records, column \in Columns :
                     table'[r][column] # table[r][column] =>
                         \E c \in Calls :
                             /\ pc[c] = "writing" /\ pc'[c] # "writing"
                             /\ column \in Asked(c) \/ Outdated(c, r, column)
<1>1. ASSUME IInv, OverlapInv, [Next]_vars
      PROVE  Kept
  <2> SUFFICES ASSUME NEW r \in Records, NEW column \in Columns,
                      table'[r][column] # table[r][column]
               PROVE  \E c \in Calls :
                          /\ pc[c] = "writing" /\ pc'[c] # "writing"
                          /\ column \in Asked(c) \/ Outdated(c, r, column)
    OBVIOUS
  <2>1. PICK c \in Calls : Write(c) /\ r \in Targets(c) /\ column \in Sets(c)
    BY <1>1, ColumnsMove
  <2> QED
    BY <1>1, <2>1, WriteIsAskedOrUndoes
<1>2. IInv /\ OverlapInv /\ [Next]_vars => [Kept]_vars
  BY <1>1
<1> QED
  BY <1>2, SpecIInv, SpecOverlap, PTL DEF Spec, FinishedEditsStay

\* The name that c will write has passed the check: another row that is live
\* under that name was written by an overlapping call since.
HasChecked(c) ==
    \/ pc[c] = "planning" /\ Op(c) = "rename"
    \/ pc[c] = "writing" /\ Op(c) \in {"create", "rename"}

Rival(c, s) ==
    /\ table[s].state = "live" /\ table[s].name = request[c].name
    /\ Op(c) # "create" => s # Id(c)

CheckedOK(c) ==
    HasChecked(c) => \A s \in Records : Rival(c, s) =>
        \E column \in {"name", "state"} : Overlapped(c, writer[s][column])

\* The steps in which a call has its name checked or has yet to
LEMMA CheckMoves ==
    ASSUME IInv, MasterDataAssumption, [Next]_vars,
           {"create", "rename"} \cap Operations \subseteq Checks, NEW c \in Calls, HasChecked(c)'
    PROVE  /\ request'[c] = request[c]
           /\ HasChecked(c) \/ (CheckName(c) /\ ~Taken(c))
<1>1. /\ pc \in [Calls -> {"idle"} \cup AtDatabase \cup AtRedis \cup Final]
      /\ request \in [Calls -> Inputs \cup {NoInput}]
      /\ \A in \in Inputs : in.op \in Operations
  BY DEF IInv, TypeOK, Inputs
<1>2. /\ pc'[c] \in {"planning", "writing"}
      /\ Op(c)' \in {"create", "rename"}
      /\ pc'[c] = "planning" => Op(c)' = "rename"
  BY DEF HasChecked
<1>3. ASSUME NEW d \in Calls, NEW in \in Inputs, Receive(d, in)
      PROVE  request'[c] = request[c] /\ HasChecked(c)
  <2>1. c # d
    BY <1>1, <1>2, <1>3 DEF Receive, Goto, Op
  <2>2. pc'[c] = pc[c] /\ request'[c] = request[c]
    BY <1>1, <1>3, <2>1 DEF Receive, Goto
  <2> QED
    BY <2>2 DEF HasChecked, Op
<1>4. ASSUME UNCHANGED request
      PROVE  request'[c] = request[c] /\ Op(c)' = Op(c)
  BY <1>4 DEF Op
<1>5. ASSUME NEW d \in Calls, d # c, Step(d) \/ DatabaseError(d) \/ Crash(d)
      PROVE  request'[c] = request[c] /\ HasChecked(c)
  <2>1. UNCHANGED request /\ pc'[c] = pc[c]
    BY <1>1, <1>5 DEF Step, GetCached, Load, Fill, CheckName, Plan, Refuse, Write,
          UniqueViolation, Evict, EvictList, DatabaseError, Crash, Found, Goto, history
  <2> QED
    BY <2>1 DEF HasChecked, Op
<1>6. ASSUME Load(c) \/ GetCached(c) \/ Fill(c)
      PROVE  FALSE
  <2>1. UNCHANGED request /\ Found(c)
    BY <1>1, <1>2, <1>6 DEF Load, GetCached, Fill, Goto
  <2>2. Op(c) \in {"create", "rename"} /\ Op(c) \in Operations
    <3>1. request[c] \in Inputs
      BY <1>6 DEF Load, GetCached, Fill, IInv, CallsOK, CallOK
    <3> QED
      BY <1>1, <1>2, <1>4, <2>1, <3>1 DEF Op
  <2> QED
    BY <1>1, <1>2, <1>4, <2>1, <2>2 DEF Found, Goto
<1>7. CASE CheckName(c)
  <2>1. UNCHANGED request /\ ~Taken(c)
    BY <1>1, <1>2, <1>7 DEF CheckName, Goto
  <2> QED
    BY <1>4, <1>7, <2>1
<1>8. CASE Plan(c)
  BY <1>1, <1>2, <1>4, <1>8 DEF Plan, Goto, HasChecked, IInv, CallsOK, CallOK
<1>9. ASSUME \/ Refuse(c) \/ Write(c) \/ UniqueViolation(c)
             \/ Evict(c) \/ EvictList(c) \/ DatabaseError(c) \/ Crash(c)
      PROVE  FALSE
  <2>1. CASE Refuse(c)
    BY <1>1, <1>2, <2>1 DEF Refuse, Goto
  <2>2. CASE UniqueViolation(c) \/ DatabaseError(c) \/ Crash(c)
    BY <1>1, <1>2, <2>2 DEF UniqueViolation, DatabaseError, Crash, Goto
  <2>3. CASE Write(c)
    <3>1. AfterWrite(c) \notin {"planning", "writing"}
      BY DEF AfterWrite
    <3> QED
      BY <1>1, <1>2, <2>3, <3>1 DEF Write, Goto
  <2>4. CASE Evict(c) \/ EvictList(c)
    BY <1>1, <1>2, <2>4 DEF Evict, EvictList, Goto
  <2> QED BY <1>9, <2>1, <2>2, <2>3, <2>4
<1>10. CASE UNCHANGED <<pc, request>>
  BY <1>10 DEF HasChecked, Op
<1> QED
  BY <1>3, <1>5, <1>6, <1>7, <1>8, <1>9, <1>10 DEF Next, Step, Expire, Done, vars

LEMMA NextChecked ==
    ASSUME IInv, MasterDataAssumption, HistoryOK, [Next]_vars,
           {"create", "rename"} \cap Operations \subseteq Checks, NEW c \in Calls, CheckedOK(c)
    PROVE  CheckedOK(c)'
<1> SUFFICES ASSUME HasChecked(c)', NEW s \in Records, Rival(c, s)'
             PROVE  \E column \in {"name", "state"} : Overlapped(c, writer[s][column])'
  BY DEF CheckedOK
<1>1. request'[c] = request[c] /\ (HasChecked(c) \/ (CheckName(c) /\ ~Taken(c)))
  BY CheckMoves
<1>2. CASE HasChecked(c)
  <2>1. Running(c)
    BY <1>2 DEF HasChecked, Running, AtDatabase
  <2>2. CASE \E column \in {"name", "state"} : Overlapped(c, writer[s][column])'
    BY <2>2
  <2>3. CASE \A column \in {"name", "state"} : ~Overlapped(c, writer[s][column])'
    <3>1. \A column \in {"name", "state"} :
             /\ table'[s][column] = table[s][column]
             /\ Overlapped(c, writer[s][column]) => Overlapped(c, writer[s][column])'
      BY <2>1, <2>3, RunningSeesWriters DEF Columns
    <3>2. Rival(c, s)
      BY <1>1, <3>1 DEF Rival, Op, Id
    <3> QED
      BY <1>2, <3>1, <3>2 DEF CheckedOK
  <2> QED BY <2>2, <2>3
<1>3. CASE CheckName(c) /\ ~Taken(c)
  <2>1. UNCHANGED <<table, request, found>> /\ pc[c] = "checking" /\ Op(c)' = Op(c) /\ Id(c)' = Id(c)
    BY <1>3 DEF CheckName, Op, Id
  <2>2. NewName(c) = request[c].name
    <3>1. CASE Op(c) = "create"
      BY <3>1 DEF NewName
    <3>2. CASE Op(c) # "create"
      <4>1. HasFound(c) /\ Op(c) = "rename"
        BY <2>1, <3>2 DEF HasFound, HasChecked, Op
      <4> QED
        BY <3>2, <4>1, FoundRow, EntityIsFound DEF NewName
    <3> QED BY <3>1, <3>2
  <2> QED
    BY <1>3, <2>1, <2>2 DEF Rival, Taken
<1> QED
  BY <1>1, <1>2, <1>3

CheckedInv == \A c \in Calls : CheckedOK(c)

LEMMA SpecChecked ==
    ASSUME {"create", "rename"} \cap Operations \subseteq Checks
    PROVE  Spec => []CheckedInv
<1> USE MasterDataAssumption
<1>1. Init => CheckedInv
  BY DEF Init, CheckedInv, CheckedOK, HasChecked
<1>2. IInv /\ OverlapInv /\ CheckedInv /\ [Next]_vars => CheckedInv'
  BY NextChecked DEF CheckedInv, OverlapInv
<1> QED
  BY <1>1, <1>2, SpecIInv, SpecOverlap, PTL DEF Spec

\* The row that c writes comes to share its name with s.
LEMMA SharingIsOverlap ==
    ASSUME IInv, MasterDataAssumption, OverlapInv, CheckedInv,
           NEW c \in Calls, Write(c), NEW r \in Targets(c),
           table' = [table EXCEPT ![r] = NewRow(c, r)],
           NEW s \in Records, s # r, table'[s] = table[s],
           table'[r].state = "live", table[s].state = "live", table'[r].name = table[s].name,
           ~Sharing(r, s)
    PROVE  \E t \in {r, s}, column \in {"name", "state"} : Outdated(c, t, column)
<1>1. pc[c] = "writing" /\ table \in [Records -> Rows]
  BY DEF Write, IInv, TypeOK, Tables
<1>2. r \in Records /\ table'[r] = NewRow(c, r) /\ (Op(c) # "create" => r = Id(c))
  BY <1>1, NewRowExists
<1>3. Op(c) \in {"create", "rename", "edit", "remove"} /\ request[c] \in Inputs
  BY <1>1, InputFields DEF IInv, CallsOK, CallOK, Op
<1>4. CASE \E column \in {"name", "state"} :
              column \in Sets(c) /\ Outdated(c, r, column)
  BY <1>4
<1>5. CASE \A column \in {"name", "state"} : column \in Sets(c) => column \in Asked(c)
  <2>1. CASE Op(c) = "remove"
    BY <1>1, <1>2, <2>1 DEF NewRow, Rows
  <2>2. CASE Op(c) = "edit" \/ (Op(c) = "rename" /\ "name" \notin Sets(c))
    <3>1. "name" \notin Sets(c) /\ "state" \notin Sets(c)
      BY <1>5, <2>2 DEF Asked
    <3>2. NewRow(c, r)["name"] = table[r]["name"] /\ NewRow(c, r)["state"] = table[r]["state"]
      BY <1>1, <3>1, UnsetColumnsStay DEF Columns
    <3> QED
      BY <1>2, <3>2 DEF Sharing
  <2>3. CASE Op(c) = "create" \/ (Op(c) = "rename" /\ "name" \in Sets(c))
    <3>1. NewRow(c, r).name = request[c].name
      <4>1. CASE Op(c) = "create"
        BY <4>1 DEF NewRow
      <4>2. CASE Op(c) = "rename" /\ "name" \in Sets(c)
        <5>1. NewRow(c, r)["name"] = Entity(c)["name"]
          BY <4>2 DEF NewRow, Sets, Columns
        <5>2. HasFound(c)
          BY <1>1, <4>2 DEF HasFound
        <5> QED
          BY <4>2, <5>1, <5>2, FoundRow, EntityIsFound
      <4> QED BY <2>3, <4>1, <4>2
    <3>2. Rival(c, s) /\ HasChecked(c)
      BY <1>1, <1>2, <2>3, <3>1 DEF Rival, HasChecked
    <3> QED
      BY <3>2 DEF CheckedInv, CheckedOK, Outdated
  <2> QED BY <1>3, <2>1, <2>2, <2>3
<1> QED
  BY <1>4, <1>5, WriteIsAskedOrUndoes

\* Where the name is checked whenever a client asks for one, as it is for all
\* but tenants, live rows come to share a name only by a call that overlapped
\* another or that the cache had misled, with an index or without.
THEOREM SharingNeedsOverlap ==
    ASSUME {"create", "rename"} \cap Operations \subseteq Checks
    PROVE  Spec => SharedNamesOnlyFromOverlap
<1> USE MasterDataAssumption
<1> DEFINE Explained(r, s) ==
             \E c \in Calls :
                 /\ pc[c] = "writing" /\ pc'[c] # "writing"
                 /\ \E t \in {r, s}, column \in {"name", "state"} : Outdated(c, t, column)
<1>1. ASSUME IInv, OverlapInv, CheckedInv, [Next]_vars, NEW r \in Records, NEW s \in Records,
             Sharing(r, s)', ~Sharing(r, s)
      PROVE  Explained(r, s)
  <2>1. PICK c \in Calls : Write(c)
    BY <1>1, TableStays DEF Sharing
  <2>2. PICK t \in Targets(c) : table' = [table EXCEPT ![t] = NewRow(c, t)]
    BY <2>1 DEF Write
  <2>3. t \in Records /\ table \in [Records -> Rows]
    BY <1>1, <2>1, <2>2, NewRowExists DEF Write, IInv, TypeOK, Tables
  <2>4. t \in {r, s} /\ r # s
    BY <1>1, <2>2, <2>3 DEF Sharing
  <2>5. pc[c] = "writing" /\ pc'[c] # "writing"
    <3>1. AfterWrite(c) # "writing"
      BY DEF AfterWrite
    <3> QED
      BY <1>1, <2>1, <3>1 DEF Write, Goto, IInv, TypeOK
  <2>6. \E u \in {r, s}, column \in {"name", "state"} : Outdated(c, u, column)
    <3>1. CASE t = r
      <4>1. table'[s] = table[s] /\ table'[r].state = "live" /\ table[s].state = "live"
            /\ table'[r].name = table[s].name
        BY <1>1, <2>2, <2>3, <2>4, <3>1 DEF Sharing
      <4> QED
        BY <1>1, <2>1, <2>2, <2>4, <3>1, <4>1, SharingIsOverlap
    <3>2. CASE t = s
      <4>1. table'[r] = table[r] /\ table'[s].state = "live" /\ table[r].state = "live"
            /\ table'[s].name = table[r].name /\ ~Sharing(s, r)
        BY <1>1, <2>2, <2>3, <2>4, <3>2 DEF Sharing
      <4>2. \E u \in {s, r}, column \in {"name", "state"} : Outdated(c, u, column)
        BY <1>1, <2>1, <2>2, <2>4, <3>2, <4>1, SharingIsOverlap
      <4> QED
        BY <4>2
    <3> QED BY <2>4, <3>1, <3>2
  <2> QED
    BY <2>5, <2>6
<1>2. IInv /\ OverlapInv /\ CheckedInv /\ [Next]_vars =>
         [\A r, s \in Records : Sharing(r, s)' /\ ~Sharing(r, s) => Explained(r, s)]_vars
  BY <1>1
<1> QED
  BY <1>2, SpecIInv, SpecOverlap, SpecChecked, PTL DEF Spec, SharedNamesOnlyFromOverlap

-----------------------------------------------------------------------------
(* Conflicts.                                                              *)

\* The name a call has checked is the one its client asks for, but for edits.
LEMMA AskedNameIsChecked ==
    ASSUME IInv, MasterDataAssumption, NEW c \in Calls, pc[c] = "checking"
    PROVE  /\ Op(c) \in {"create", "rename", "edit"} /\ request[c] \in Inputs
           /\ Op(c) \in {"create", "rename"} => NewName(c) = request[c].name
           /\ Op(c) = "edit" => NewName(c) = found[c][Id(c)].name
<1>1. /\ Op(c) \in {"create", "rename", "edit"} /\ request[c] \in Inputs
      /\ Op(c) # "create" => HasFound(c)
  BY DEF IInv, CallsOK, CallOK, HasFound
<1>2. CASE Op(c) = "create"
  BY <1>1, <1>2 DEF NewName
<1>3. CASE Op(c) = "rename"
  BY <1>1, <1>3, FoundRow, EntityIsFound DEF NewName
<1>4. CASE Op(c) = "edit"
  <2>1. Entity(c)["name"] = found[c][Id(c)]["name"]
    BY <1>1, <1>4, FoundRow, EntityIsFound DEF Columns, Asked
  <2> QED
    BY <1>1, <1>4, <2>1 DEF NewName
<1> QED
  BY <1>1, <1>2, <1>3, <1>4

\* What the check turns away
LEMMA CheckHasGrounds ==
    ASSUME IInv, MasterDataAssumption, OverlapInv, Admitted(table),
           "edit" \in Checks => "name" \in Indexed,
           NEW c \in Calls, CheckName(c), Taken(c)
    PROVE  \/ InTheWay(c)
           \/ Op(c) # "create" /\ \E column \in Columns : Outdated(c, Id(c), column)
<1>1. pc[c] = "checking"
  BY DEF CheckName
<1>2. PICK r \in Records : /\ table[r].state = "live" /\ table[r].name = NewName(c)
                           /\ Op(c) # "create" => r # Id(c)
  BY DEF Taken
<1>3. CASE Op(c) \in {"create", "rename"}
  <2>1. "name" \in Asked(c) /\ table[r]["name"] = request[c]["name"]
    BY <1>1, <1>2, <1>3, AskedNameIsChecked DEF Asked, Columns
  <2> QED
    BY <1>2, <2>1 DEF InTheWay
<1>4. CASE Op(c) = "edit"
  <2>1. HasFound(c) /\ NewName(c) = found[c][Id(c)].name
    BY <1>1, <1>4, AskedNameIsChecked DEF HasFound
  <2>2. Id(c) \in Records /\ table[Id(c)].state # "free"
    BY <2>1, FoundRow DEF Genuine, MasterDataAssumption
  <2>3. \/ found[c][Id(c)]["name"] = table[Id(c)]["name"]
        \/ Outdated(c, Id(c), "name")
    BY <2>1 DEF OverlapInv, SeenOK, Columns
  <2>4. "name" \in Indexed
    BY <1>1, <1>4 DEF IInv, CallsOK, CallOK
  <2>5. table[r]["name"] # table[Id(c)]["name"]
    BY <1>2, <1>4, <2>2, <2>4 DEF Admitted
  <2> QED
    BY <1>2, <1>4, <2>1, <2>3, <2>5 DEF Columns
<1> QED
  BY <1>1, <1>3, <1>4, AskedNameIsChecked

\* What an index turns away
LEMMA IndexHasGrounds ==
    ASSUME IInv, MasterDataAssumption, OverlapInv, NEW c \in Calls, UniqueViolation(c)
    PROVE  \/ InTheWay(c)
           \/ Op(c) # "create" /\ \E column \in Columns : Outdated(c, Id(c), column)
<1>1. pc[c] = "writing" /\ Op(c) \in {"create", "rename", "edit", "remove"}
      /\ request[c] \in Inputs
  BY InputFields DEF UniqueViolation, IInv, CallsOK, CallOK, Op
<1>2. PICK r \in Targets(c), column \in Indexed \cap Sets(c), s \in Records :
        s # r /\ table[s].state # "free" /\ table[s][column] = NewRow(c, r)[column]
  BY DEF UniqueViolation, Collides
<1>3. column \in {"name", "note"} /\ (Op(c) # "create" => r = Id(c))
  BY <1>2 DEF MasterDataAssumption, Targets
<1>4. CASE Op(c) = "create"
  <2>1. NewRow(c, r)[column] = request[c][column] /\ column \in Asked(c)
    BY <1>3, <1>4 DEF NewRow, Asked, Columns
  <2> QED
    BY <1>2, <1>3, <1>4, <2>1 DEF InTheWay
<1>5. CASE Op(c) = "remove"
  BY <1>2, <1>3, <1>5 DEF Sets
<1>6. CASE Op(c) \in {"rename", "edit"} /\ column \notin Asked(c)
  <2>1. HasPlanned(c) /\ column \in diff[c]
    BY <1>1, <1>2, <1>6 DEF HasPlanned, Sets
  <2> QED
    BY <1>3, <1>6, <2>1 DEF OverlapInv, PlannedOK, Columns
<1>7. CASE Op(c) \in {"rename", "edit"} /\ column \in Asked(c)
  <2>1. NewRow(c, r)[column] = Entity(c)[column]
    BY <1>2, <1>3, <1>7 DEF NewRow, Sets, Columns
  <2>2. HasFound(c)
    BY <1>1, <1>7 DEF HasFound
  <2>3. Id(c) \in Records /\ found[c][Id(c)] \in Rows
    BY <2>2, FoundRow DEF Genuine, Scope, MasterDataAssumption
  <2>4. Entity(c)[column] = request[c][column]
    BY <1>7, <2>3 DEF Entity, Asked, Rows
  <2> QED
    BY <1>2, <1>3, <1>7, <2>1, <2>4 DEF InTheWay
<1> QED
  BY <1>1, <1>4, <1>5, <1>6, <1>7

\* Where an edit has its name checked only if there is an index too, as for a
\* category: whatever the whole entity collides with, a client is told of a
\* conflict only over what it asked for, or what its call found outdated.
THEOREM ConflictsAreOwed ==
    ASSUME "edit" \in Checks => "name" \in Indexed
    PROVE  Spec => ConflictsHaveGrounds
<1> USE MasterDataAssumption
<1> DEFINE Told(c) == /\ pc[c] \in {"checking", "writing"} /\ pc'[c] = "409"
                      /\ Op(c) # "remove"
           Grounds(c) == \/ InTheWay(c)
                         \/ /\ Op(c) # "create"
                            /\ \E column \in Columns : Outdated(c, Id(c), column)
<1>1. ASSUME IInv, OverlapInv, Admitted(table), [Next]_vars, NEW c \in Calls, Told(c)
      PROVE  Grounds(c)
  <2>1. pc \in [Calls -> {"idle"} \cup AtDatabase \cup AtRedis \cup Final]
    BY <1>1 DEF IInv, TypeOK
  <2>2. ASSUME NEW d \in Calls, NEW in \in Inputs
        PROVE  ~Receive(d, in)
    BY <1>1, <2>1 DEF Receive, Goto
  <2>3. ASSUME NEW d \in Calls, d # c
        PROVE  ~(Step(d) \/ DatabaseError(d) \/ Crash(d))
    BY <1>1, <2>1, <2>3 DEF Step, GetCached, Load, Fill, CheckName, Plan, Refuse, Write,
          UniqueViolation, Evict, EvictList, DatabaseError, Crash, Found, Goto
  <2>4. CheckName(c) \/ UniqueViolation(c)
    <3>1. ASSUME GetCached(c) \/ Load(c) \/ Fill(c) \/ Plan(c) \/ Evict(c) \/ EvictList(c)
          PROVE  FALSE
      BY <1>1, <3>1 DEF GetCached, Load, Fill, Plan, Evict, EvictList
    <3>2. ASSUME Refuse(c)
          PROVE  FALSE
      BY <1>1, <2>1, <3>2 DEF Refuse, Goto
    <3>3. ASSUME Write(c)
          PROVE  FALSE
      <4>1. AfterWrite(c) # "409"
        BY DEF AfterWrite
      <4> QED
        BY <1>1, <2>1, <3>3, <4>1 DEF Write, Goto
    <3>4. ASSUME DatabaseError(c) \/ Crash(c)
          PROVE  FALSE
      BY <1>1, <2>1, <3>4 DEF DatabaseError, Crash, Goto
    <3>5. pc' # pc
      BY <1>1
    <3> QED
      BY <1>1, <2>2, <2>3, <3>1, <3>2, <3>3, <3>4, <3>5 DEF Next, Step, Expire, Done, vars
  <2>5. CheckName(c) => Taken(c)
    BY <1>1, <2>1 DEF CheckName, Goto
  <2> QED
    BY <1>1, <2>4, <2>5, CheckHasGrounds, IndexHasGrounds
<1>2. IInv /\ OverlapInv /\ Admitted(table) /\ [Next]_vars =>
         [\A c \in Calls : Told(c) => Grounds(c)]_vars
  BY <1>1
<1> QED
  BY <1>2, SpecIInv, SpecOverlap, SpecAdmitted, PTL DEF Spec, ConflictsHaveGrounds

=============================================================================
