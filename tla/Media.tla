-------------------------------- MODULE Media --------------------------------
(***************************************************************************)
(* Media: the files of tenants, in an object store, and the table that    *)
(* records them, between which there is no transaction.                    *)
(*                                                                         *)
(* uploadFile puts the object and then saves its row; getSignedURL finds  *)
(* the row and signs a URL to get the object; generatePresignedURL signs  *)
(* one to put an object, which the client does by itself and of which no  *)
(* row is made.  The handlers of media.controller.ts only pass the tenant *)
(* on.  A key holds a random UUID: it is known here by the call that      *)
(* generates it.  Every await of the object store or of the database ends *)
(* an action.                                                              *)
(***************************************************************************)
CONSTANTS
    Tenants,
    Calls

\* The media types that a file's MIME type is mapped to
MediaTypes == {"image", "document", "video", "audio", "other"}

\* What a file's MIME type says, as far as the service looks
MimeTypes == {"image", "video", "audio", "application/pdf", "application/zip", "text"}

Inputs ==
    [op : {"upload"}, tenant : Tenants, mime : MimeTypes]
    \cup [op : {"presign"}, tenant : Tenants]
    \cup [op : {"sign"}, tenant : Tenants, key : Calls]

NoInput == [op |-> "none"]

Assets == [key : Calls, tenant : Tenants, mediaType : MediaTypes]

URLs == [method : {"GET", "PUT"}, key : Calls, holder : Tenants]

VARIABLES
    objects,    \* the keys under which the store has an object
    assets,     \* the rows of media_assets
    urls,       \* the signed URLs that clients hold and that are good
    request,    \* request[c]: what c asks for
    pc          \* pc[c]: what c awaits, or its answer

vars == <<objects, assets, urls, request, pc>>

Final == {"200", "201", "404", "500", "dropped"}

Awaiting == {"putting", "saving", "saved", "looking", "signing"}

Op(c) == request[c].op

Goto(c, label) == pc' = [pc EXCEPT ![c] = label]

-----------------------------------------------------------------------------

Init ==
    /\ objects = {}
    /\ assets = {}
    /\ urls = {}
    /\ request = [c \in Calls |-> NoInput]
    /\ pc = [c \in Calls |-> "idle"]

Receive(c, in) ==
    /\ pc[c] = "idle"
    /\ request' = [request EXCEPT ![c] = in]
    /\ Goto(c, CASE in.op = "upload"  -> "putting"
                 [] in.op = "presign" -> "signing"
                 [] in.op = "sign"    -> "looking")
    /\ UNCHANGED <<objects, assets, urls>>

\* PutObjectCommand.  The answer may be lost when the object is stored.
Put(c) ==
    /\ pc[c] = "putting"
    /\ objects' = objects \cup {c}
    /\ \E label \in {"saving", "500"} : Goto(c, label)
    /\ UNCHANGED <<assets, urls, request>>

\* Slip: the failure is logged and the row saved.
SavesRegardless(c) == "saving"

AfterFailedPut(c) == "500"

PutFails(c) ==
    /\ pc[c] = "putting"
    /\ Goto(c, AfterFailedPut(c))
    /\ UNCHANGED <<objects, assets, urls, request>>

\* Slip: the type is the MIME type's own.
TypeAsSent(mime) == mime

MediaTypeOf(mime) ==
    CASE mime \in {"image", "video", "audio"} -> mime
      [] mime = "application/pdf"             -> "document"
      [] OTHER                                -> "other"

\* mediaRepo.save, whose answer may be lost in turn
Save(c) ==
    /\ pc[c] = "saving"
    /\ assets' = assets \cup {[key |-> c, tenant |-> request[c].tenant,
                               mediaType |-> MediaTypeOf(request[c].mime)]}
    /\ Goto(c, "saved")
    /\ UNCHANGED <<objects, urls, request>>

SaveAnswered(c) ==
    /\ pc[c] = "saved"
    /\ Goto(c, "201")
    /\ UNCHANGED <<objects, assets, urls, request>>

\* Slip: the tenant is not asked for.
FindsOfAnyone(c) == \E a \in assets : a.key = request[c].key

Finds(c) ==
    \E a \in assets : a.key = request[c].key /\ a.tenant = request[c].tenant

Look(c) ==
    /\ pc[c] = "looking"
    /\ Goto(c, IF Finds(c) THEN "signing" ELSE "404")
    /\ UNCHANGED <<objects, assets, urls, request>>

\* getSignedUrl, of a key looked up or of a new one.  It asks nobody whether
\* there is an object.
Sign(c) ==
    /\ pc[c] = "signing"
    /\ urls' = urls \cup
         {IF Op(c) = "sign"
          THEN [method |-> "GET", key |-> request[c].key, holder |-> request[c].tenant]
          ELSE [method |-> "PUT", key |-> c, holder |-> request[c].tenant]}
    /\ Goto(c, IF Op(c) = "sign" THEN "200" ELSE "201")
    /\ UNCHANGED <<objects, assets, request>>

\* A client uses a URL to put, as often as it likes while it is good.
PutDirectly(u) ==
    /\ u.method = "PUT"
    /\ objects' = objects \cup {u.key}
    /\ UNCHANGED <<assets, urls, request, pc>>

\* expiresIn is over.
Expire(u) ==
    /\ urls' = urls \ {u}
    /\ UNCHANGED <<objects, assets, request, pc>>

\* A database call or the signing fails, or an answer is lost; or the server
\* dies.
Fail(c) ==
    /\ pc[c] \in Awaiting \ {"putting"}
    /\ Goto(c, "500")
    /\ UNCHANGED <<objects, assets, urls, request>>

Crash(c) ==
    /\ pc[c] \in Awaiting
    /\ Goto(c, "dropped")
    /\ UNCHANGED <<objects, assets, urls, request>>

Done ==
    /\ \A c \in Calls : pc[c] \in Final
    /\ UNCHANGED vars

Step(c) ==
    \/ Put(c)
    \/ PutFails(c)
    \/ Save(c)
    \/ SaveAnswered(c)
    \/ Look(c)
    \/ Sign(c)

Next ==
    \/ \E c \in Calls, in \in Inputs : Receive(c, in)
    \/ \E c \in Calls : Step(c) \/ Fail(c) \/ Crash(c)
    \/ \E u \in urls : PutDirectly(u) \/ Expire(u)
    \/ Done

Spec == Init /\ [][Next]_vars

-----------------------------------------------------------------------------
(* Properties.                                                             *)

\* Every variable keeps to its type: in particular a row's mediaType is one
\* that its column admits.
TypeOK ==
    /\ objects \in SUBSET Calls
    /\ assets \in SUBSET Assets
    /\ urls \in SUBSET URLs
    /\ request \in [Calls -> Inputs \cup {NoInput}]
    /\ pc \in [Calls -> {"idle"} \cup Awaiting \cup Final]

Recorded(k) == \E a \in assets : a.key = k

\* "ONLY save to DB if S3 upload succeeds" (media.service.ts): no row without
\* its object, although neither store knows of the other.  The converse has
\* exceptions, and these alone: an object without a row is one whose upload is
\* between the two stores, or failed there; or a client put it directly.
\* An upload that answers 201 is in both.
StoresAgree ==
    /\ \A a \in assets : a.key \in objects
    /\ \A k \in objects :
          Recorded(k) \/ Op(k) = "presign" \/ pc[k] \in {"saving", "500", "dropped"}
    /\ \A c \in Calls : Op(c) = "upload" /\ pc[c] = "201" => Recorded(c)

\* "Media asset not found or access denied": a URL to get an object is in the
\* hands of the tenant that uploaded it, through a row that is there, and the
\* object is too.  A URL to put one never names a recorded asset, so that no
\* direct upload overwrites what the server has stored.
URLsStayInTenant ==
    \A u \in urls :
        IF u.method = "GET"
        THEN /\ u.key \in objects
             /\ \E a \in assets : a.key = u.key /\ a.tenant = u.holder
             /\ request[u.key].tenant = u.holder
        ELSE ~Recorded(u.key) /\ request[u.key].tenant = u.holder
=============================================================================
