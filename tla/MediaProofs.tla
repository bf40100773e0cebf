----------------------------- MODULE MediaProofs -----------------------------
(***************************************************************************)
(* What Media guarantees for any number of tenants and calls.              *)
(*                                                                         *)
(* The two stores agree because an upload goes through them in order, and *)
(* because its key is nobody else's: the invariant says, of each call,     *)
(* which of the two it has reached (Reached), and of each row, object and  *)
(* URL, which call it comes from (Sources).                                *)
(***************************************************************************)
EXTENDS Media, TLAPS

\* Where a call can be depends on what it asks for.
Placed(c) ==
    /\ pc[c] # "idle" => request[c] \in Inputs
    /\ pc[c] = "idle" => request[c] = NoInput
    /\ pc[c] \in {"putting", "saving", "saved"} => Op(c) = "upload"
    /\ pc[c] = "looking" => Op(c) = "sign"
    /\ pc[c] = "signing" => Op(c) \in {"sign", "presign"}
    /\ pc[c] = "201" => Op(c) \in {"upload", "presign"}
    /\ pc[c] \in {"200", "404"} => Op(c) = "sign"

TypeInv == TypeOK /\ \A c \in Calls : Placed(c)

\* The stores that a call has reached
Reached(c) ==
    /\ pc[c] = "saving" => c \in objects
    /\ pc[c] \in {"saved", "201"} /\ Op(c) = "upload" => Recorded(c)
    /\ pc[c] = "signing" /\ Op(c) = "sign" => Finds(c)
    /\ c \in objects =>
          Recorded(c) \/ Op(c) = "presign" \/ pc[c] \in {"saving", "500", "dropped"}

\* Where rows, objects and URLs come from
Sources ==
    /\ \A k \in objects : Op(k) \in {"upload", "presign"}
    /\ \A a \in assets :
          a.key \in objects /\ Op(a.key) = "upload" /\ request[a.key].tenant = a.tenant
    /\ \A u \in urls :
          IF u.method = "GET"
          THEN \E a \in assets : a.key = u.key /\ a.tenant = u.holder
          ELSE Op(u.key) = "presign" /\ request[u.key].tenant = u.holder

StoreInv == Sources /\ \A c \in Calls : Reached(c)

-----------------------------------------------------------------------------
(* Types.                                                                  *)

\* What an input of each kind carries
LEMMA InputFields ==
    ASSUME NEW in \in Inputs
    PROVE  /\ in.op \in {"upload", "presign", "sign"}
           /\ in.tenant \in Tenants
           /\ in.op = "upload" => in.mime \in MimeTypes
           /\ in.op = "sign" => in.key \in Calls
BY DEF Inputs

\* getMediaTypeFromMimeType gives a type that the column admits.
LEMMA MediaTypeIsKnown ==
    ASSUME NEW mime \in MimeTypes
    PROVE  MediaTypeOf(mime) \in MediaTypes
BY DEF MediaTypeOf, MediaTypes, MimeTypes

LEMMA TypeInit ==
    ASSUME Init
    PROVE  TypeInv
BY DEF Init, TypeInv, TypeOK, Placed

LEMMA TypeStep ==
    ASSUME TypeInv, [Next]_vars
    PROVE  TypeInv'
<1> USE DEF TypeInv
<1>1. CASE UNCHANGED vars
  BY <1>1 DEF vars, TypeOK, Placed, Op
<1>2. ASSUME NEW c \in Calls, NEW in \in Inputs, Receive(c, in)
      PROVE  TypeInv'
  BY <1>2, InputFields DEF Receive, Goto, TypeOK, Placed, Op, Awaiting, Final
<1>3. ASSUME NEW c \in Calls, Put(c) \/ PutFails(c) \/ SaveAnswered(c) \/ Look(c)
      PROVE  TypeInv'
  BY <1>3 DEF Put, PutFails, AfterFailedPut, SaveAnswered, Look, Goto, TypeOK, Placed,
              Op, Awaiting, Final
<1>4. ASSUME NEW c \in Calls, Save(c)
      PROVE  TypeInv'
  <2>1. /\ request[c] \in Inputs /\ Op(c) = "upload"
        /\ pc[c] = "saving"
    BY <1>4 DEF Save, Placed
  <2>2. [key |-> c, tenant |-> request[c].tenant,
         mediaType |-> MediaTypeOf(request[c].mime)] \in Assets
    BY <2>1, InputFields, MediaTypeIsKnown DEF Assets, Op
  <2> QED
    BY <1>4, <2>1, <2>2 DEF Save, Goto, TypeOK, Placed, Op, Awaiting
<1>5. ASSUME NEW c \in Calls, Sign(c)
      PROVE  TypeInv'
  <2>1. request[c] \in Inputs /\ Op(c) \in {"sign", "presign"}
    BY <1>5 DEF Sign, Placed
  <2>2. urls' \in SUBSET URLs
    BY <1>5, <2>1, InputFields DEF Sign, TypeOK, URLs, Op
  <2> QED
    BY <1>5, <2>1, <2>2 DEF Sign, Goto, TypeOK, Placed, Op, Final
<1>6. ASSUME NEW u \in urls, PutDirectly(u) \/ Expire(u)
      PROVE  TypeInv'
  BY <1>6 DEF PutDirectly, Expire, TypeOK, URLs, Placed, Op
<1>7. ASSUME NEW c \in Calls, Fail(c) \/ Crash(c)
      PROVE  TypeInv'
  BY <1>7 DEF Fail, Crash, Goto, TypeOK, Placed, Op, Awaiting, Final
<1>8. CASE Done
  BY <1>1, <1>8 DEF Done
<1> QED
  BY <1>1, <1>2, <1>3, <1>4, <1>5, <1>6, <1>7, <1>8 DEF Next, Step

\* The type invariant.
THEOREM MediaTypeCorrect == Spec => []TypeOK
<1>1. TypeInv => TypeOK
  BY DEF TypeInv
<1> QED
  BY <1>1, TypeInit, TypeStep, PTL DEF Spec

-----------------------------------------------------------------------------
(* The two stores.                                                         *)

LEMMA StoreInit ==
    ASSUME Init
    PROVE  StoreInv
BY DEF Init, StoreInv, Sources, Reached, NoInput, Op, Recorded

LEMMA StoreStep ==
    ASSUME TypeInv, StoreInv, [Next]_vars
    PROVE  StoreInv'
<1> USE DEF TypeInv, StoreInv
<1>1. CASE UNCHANGED vars
  BY <1>1 DEF vars, Sources, Reached, Op, Recorded, Finds
<1>2. ASSUME NEW c \in Calls, NEW in \in Inputs, Receive(c, in)
      PROVE  StoreInv'
  <2>1. request[c] = NoInput /\ Op(c) = "none"
    BY <1>2 DEF Receive, Placed, NoInput, Op
  <2>2. c \notin objects /\ ~Recorded(c)
    BY <2>1 DEF Sources, Recorded
  <2>3. /\ \A k \in Calls \ {c} : request'[k] = request[k] /\ pc'[k] = pc[k]
        /\ request'[c] = in
        /\ pc'[c] \in {"putting", "signing", "looking"}
        /\ in.op = "sign" => pc'[c] = "looking"
        /\ UNCHANGED <<objects, assets, urls>>
    BY <1>2, InputFields DEF Receive, Goto, TypeOK
  <2>4. Sources'
    BY <2>1, <2>2, <2>3 DEF Sources, Op, Recorded, TypeOK, URLs, Assets
  <2>5. ASSUME NEW k \in Calls
        PROVE  Reached(k)'
    BY <2>2, <2>3, <2>5 DEF Reached, Op, Recorded, Finds
  <2> QED
    BY <2>4, <2>5
<1>3. ASSUME NEW c \in Calls, Put(c) \/ PutFails(c) \/ SaveAnswered(c) \/ Look(c)
      PROVE  StoreInv'
  BY <1>3 DEF Put, PutFails, AfterFailedPut, SaveAnswered, Look, Goto, TypeOK, Placed,
              Sources, Reached, Op, Recorded, Finds
<1>4. ASSUME NEW c \in Calls, Save(c)
      PROVE  StoreInv'
  <2>1. c \in objects /\ Op(c) = "upload" /\ request[c].tenant \in Tenants
    BY <1>4, InputFields DEF Save, Placed, Reached, Op
  <2>2. PICK new : /\ new.key = c /\ new.tenant = request[c].tenant
                   /\ assets' = assets \cup {new}
    BY <1>4 DEF Save
  <2>3. /\ \A k \in Calls \ {c} : pc'[k] = pc[k]
        /\ pc'[c] = "saved"
        /\ UNCHANGED <<objects, urls, request>>
    BY <1>4 DEF Save, Goto, TypeOK
  <2>4. Sources'
    BY <2>1, <2>2, <2>3 DEF Sources, Op
  <2>5. ASSUME NEW k \in Calls
        PROVE  Reached(k)'
    BY <2>2, <2>3 DEF Reached, Op, Recorded, Finds
  <2> QED
    BY <2>4, <2>5
<1>5. ASSUME NEW c \in Calls, Sign(c)
      PROVE  StoreInv'
  <2>1. Op(c) \in {"sign", "presign"} /\ (Op(c) = "sign" => Finds(c))
    BY <1>5 DEF Sign, Placed, Reached
  <2>2. Sources'
    BY <1>5, <2>1 DEF Sign, Sources, Op, Finds
  <2>3. ASSUME NEW k \in Calls
        PROVE  Reached(k)'
    BY <1>5, <2>1 DEF Sign, Goto, TypeOK, Reached, Op, Recorded, Finds
  <2> QED
    BY <2>2, <2>3
<1>6. ASSUME NEW u \in urls, PutDirectly(u) \/ Expire(u)
      PROVE  StoreInv'
  BY <1>6 DEF PutDirectly, Expire, Sources, Reached, Op, Recorded, Finds
<1>7. ASSUME NEW c \in Calls, Fail(c) \/ Crash(c)
      PROVE  StoreInv'
  BY <1>7 DEF Fail, Crash, Goto, TypeOK, Awaiting, Sources, Reached, Op, Recorded, Finds
<1>8. CASE Done
  BY <1>1, <1>8 DEF Done
<1> QED
  BY <1>1, <1>2, <1>3, <1>4, <1>5, <1>6, <1>7, <1>8 DEF Next, Step

\* No row is without its object, and an object without its row is explained.
THEOREM RowsHaveObjects == Spec => []StoresAgree
<1>1. TypeInv /\ StoreInv => StoresAgree
  BY DEF TypeInv, TypeOK, StoreInv, Sources, Reached, StoresAgree
<1> QED
  BY <1>1, TypeInit, TypeStep, StoreInit, StoreStep, PTL DEF Spec

\* Signed URLs serve the tenant that uploaded, and overwrite no recorded asset.
THEOREM URLsServeOneTenant == Spec => []URLsStayInTenant
<1>1. TypeInv /\ StoreInv => URLsStayInTenant
  BY DEF TypeInv, TypeOK, StoreInv, Sources, URLsStayInTenant, Recorded
<1> QED
  BY <1>1, TypeInit, TypeStep, StoreInit, StoreStep, PTL DEF Spec

==============================================================================
