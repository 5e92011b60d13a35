------------------------------- MODULE Gateway -------------------------------
(***************************************************************************)
(* HTTP requests through the gateway: the logging middleware, the routes,  *)
(* the checks of each handler, its call of the users client, the service's *)
(* own checks and statement, and the status the caller sees.               *)
(*                                                                         *)
(* One user and one request at a time: what requests do to one another is  *)
(* the subject of UserSystem.  Answers and events have arrived when a call *)
(* returns.                                                                *)
(***************************************************************************)
EXTENDS UserInput

VARIABLES phase,    \* idle, serving, calling, returned, answered
          request,  \* the request in hand
          code,     \* what the client's call came to
          status,   \* the status line sent
          user,     \* whether the user is unborn, present or deleted
          cached,   \* ids the gateway's cache holds the user under
          applied,  \* history: the request has changed the table
          faulted   \* history: some call failed that a healthy one had not

vars == <<phase, request, code, status, user, cached, applied, faulted>>

\* The user's id as the table prints it; another spelling of it that
\* uuid.Parse reads (upper case, no hyphens, urn:uuid:); no id at all.
Ids == {"canonical", "variant", "junk"}

Mutations == {"create", "update", "delete"}
Codes == {"OK", "BAD_REQUEST", "NOT_FOUND", "INTERNAL"}

\* A body that is no JSON object of the right types is None.
Request ==
    [route : {"create"}, body : CreateUserInput \cup {None}]
        \cup [route : {"list", "health"}]
        \cup [route : {"get", "delete"}, id : Ids]
        \cup [route : {"update"}, id : Ids, body : UpdateUserInput \cup {None}]
        \cup [route : {"ws"}, handshake : {"good", "malformed", "cross-origin"}]

\* As in openapi.yaml, which leaves out the 400 of get and delete.
Statuses == [create |-> {201, 400, 500},  list |-> {200, 500},
             get |-> {200, 400, 404, 500}, update |-> {200, 400, 404, 500},
             delete |-> {200, 400, 404, 500},
             health |-> {200},             ws |-> {101, 400, 403, 500}]

ASSUME NoneIsNoAnswer ==
    None \notin Request \cup Codes
                 \cup UNION {Statuses[route] : route \in DOMAIN Statuses}

TypeOK ==
    /\ phase \in {"idle", "serving", "calling", "returned", "answered"}
    /\ request # None => request.route \in DOMAIN Statuses
    /\ code \in Codes \cup {None}
    /\ status # None => status \in Statuses[request.route]
    /\ user \in {"unborn", "present", "deleted"}
    /\ cached \subseteq Ids
    /\ applied \in BOOLEAN
    /\ faulted \in BOOLEAN

Init ==
    /\ phase = "idle"
    /\ request = None
    /\ code = None
    /\ status = None
    /\ user \in {"unborn", "present"}
    /\ cached = {}
    /\ applied = FALSE
    /\ faulted = FALSE

-----------------------------------------------------------------------------
(* Routing and the middleware.                                             *)

Receive ==
    /\ phase = "idle"
    /\ request' \in Request
    /\ phase' = "serving"
    /\ UNCHANGED <<code, status, user, cached, applied, faulted>>

\* What a handler may ask of its ResponseWriter.
ResponseWriter == {"Header", "Write", "WriteHeader"}

\* The server's own writer can be taken over from it.
ServerWriter == ResponseWriter \cup {"Flush", "Hijack"}

\* statusRecorder embeds the interface, so only its methods are promoted.
statusRecorder(writer) == writer \cap ResponseWriter

\* requestLogMiddleware logs the request and is done with it.
requestLogMiddleware ==
    /\ phase = "answered"
    /\ phase' = "idle"
    /\ request' = None /\ code' = None /\ status' = None /\ applied' = FALSE
    /\ UNCHANGED <<user, cached, faulted>>

writeJSON(statusCode) ==
    /\ phase' = "answered"
    /\ status' = statusCode
    /\ UNCHANGED <<request, code, user, cached, applied, faulted>>

Serving(route) == phase = "serving" /\ request.route = route

\* The checks are passed: the client is called.
Call ==
    /\ phase' = "calling"
    /\ UNCHANGED <<request, code, status, user, cached, applied, faulted>>

CheckedCall(accepted) == IF accepted THEN Call ELSE writeJSON(400)

Health == Serving("health") /\ writeJSON(200)

\* gorilla's Upgrade, then Handle, which returns where it failed.
UpgradeWebSocket ==
    /\ Serving("ws")
    /\ CASE request.handshake = "malformed"    -> writeJSON(400)
         [] request.handshake = "cross-origin" -> writeJSON(403)
         [] OTHER -> writeJSON(IF "Hijack" \in statusRecorder(ServerWriter)
                               THEN 101 ELSE 500)

-----------------------------------------------------------------------------
(* The handlers, up to their call.                                         *)

\* Mutant of ValidId: whatever the service can parse.
ValidIdParsed(id) == id \in {"canonical", "variant"}

\* The uuid tag: lower case, with hyphens.
ValidId(id) == id = "canonical"

CreateUser ==
    /\ Serving("create")
    /\ LET body == request.body
       IN CheckedCall(/\ body # None /\ Decodes(body)
                      /\ ValidCreate(GatewayRules, body))

ListUsers == Serving("list") /\ Call

\* A cached user is returned without a request.
GetUserByID ==
    /\ Serving("get")
    /\ IF ValidId(request.id) /\ request.id \in cached THEN writeJSON(200)
       ELSE CheckedCall(ValidId(request.id))

UpdateUser ==
    /\ Serving("update")
    /\ LET body == request.body
       IN CheckedCall(/\ body # None /\ Decodes(body)
                      /\ HasField(body)
                      /\ ValidUpdate(GatewayRules, body)
                      /\ ValidId(request.id))

DeleteUser == Serving("delete") /\ CheckedCall(ValidId(request.id))

-----------------------------------------------------------------------------
(* user-service and the client.                                            *)

Return(route, result) ==
    /\ phase = "calling" /\ request.route = route
    /\ phase' = "returned"
    /\ code' = result
    /\ UNCHANGED <<request, status, faulted>>

Refuse(route, result) ==
    Return(route, result) /\ UNCHANGED <<user, cached, applied>>

\* The user's row is returned: it is cached under its own id.
Remember == cached' = cached \cup {"canonical"}

ParseUUID(id) == id \in {"canonical", "variant"}

\* The request is about the user, and the user is there.
Found == ParseUUID(request.id) /\ user = "present"

ServiceCreates ==
    LET body == request.body
    IN \/ /\ ~ValidCreate(ServiceRules, body)
          /\ Refuse("create", "BAD_REQUEST")
       \/ /\ ValidCreate(ServiceRules, body)
          /\ \/ ~Fits(body) /\ Refuse("create", "INTERNAL")
             \/ Fits(body) /\ body.email.taken /\ Refuse("create", "BAD_REQUEST")
             \/ /\ Fits(body) /\ ~body.email.taken
                /\ Return("create", "OK")
                /\ applied' = TRUE
                /\ \/ user = "unborn" /\ user' = "present" /\ Remember
                   \/ UNCHANGED <<user, cached>>    \* another user

ServiceLists ==
    /\ Return("list", "OK")
    /\ IF user = "present" THEN Remember ELSE UNCHANGED cached
    /\ UNCHANGED <<user, applied>>

ServiceGets ==
    \/ ~ParseUUID(request.id) /\ Refuse("get", "BAD_REQUEST")
    \/ ParseUUID(request.id) /\ ~Found /\ Refuse("get", "NOT_FOUND")
    \/ Found /\ Return("get", "OK") /\ Remember /\ UNCHANGED <<user, applied>>

\* Whether a value too wide is noticed for a user who is not there is up to
\* the planner.
ServiceUpdates ==
    LET body == request.body
        valid == /\ ParseUUID(request.id) /\ HasField(body)
                 /\ ValidUpdate(ServiceRules, body)
        taken == body.email # None /\ body.email.taken
    IN \/ ~valid /\ Refuse("update", "BAD_REQUEST")
       \/ valid /\ ~Fits(body) /\ Refuse("update", "INTERNAL")
       \/ valid /\ ~Found /\ Refuse("update", "NOT_FOUND")
       \/ valid /\ Fits(body) /\ Found /\ taken /\ Refuse("update", "BAD_REQUEST")
       \/ /\ valid /\ Fits(body) /\ Found /\ ~taken
          /\ Return("update", "OK")
          /\ applied' = TRUE
          /\ Remember
          /\ UNCHANGED user

\* Client and event drop the id as the request spelled it.
ServiceDeletes ==
    \/ ~ParseUUID(request.id) /\ Refuse("delete", "BAD_REQUEST")
    \/ ParseUUID(request.id) /\ ~Found /\ Refuse("delete", "NOT_FOUND")
    \/ /\ Found
       /\ Return("delete", "OK")
       /\ applied' = TRUE
       /\ user' = "deleted"
       /\ cached' = cached \ {request.id}

\* Timeout, no responders, broken database: the change may be made or not.
CallFails ==
    /\ phase = "calling"
    /\ phase' = "returned"
    /\ code' = "INTERNAL"
    /\ faulted' = TRUE
    /\ \/ applied' = FALSE /\ user' = user
       \/ /\ request.route \in {"create", "update"}
          /\ Fits(request.body) /\ applied' = TRUE /\ user' = user
       \/ /\ request.route = "delete" /\ Found
          /\ applied' = TRUE /\ user' = "deleted"
    /\ UNCHANGED <<request, status, cached>>

-----------------------------------------------------------------------------
(* The handlers, from the end of their call.                               *)

\* Mutant of ErrorStatus: what is not unknown is a bad request.
ErrorStatusNarrow(route, result) ==
    IF result = "NOT_FOUND" THEN 404 ELSE 400

ErrorStatus(route, result) ==
    CASE result = "BAD_REQUEST" /\ route # "list" -> 400
      [] result = "NOT_FOUND" /\ route \notin {"create", "list"} -> 404
      [] OTHER -> 500

\* Mutant of Respond: one status for all successes.
RespondAlike ==
    /\ phase = "returned"
    /\ writeJSON(IF code = "OK" THEN 200 ELSE ErrorStatus(request.route, code))

Respond ==
    /\ phase = "returned"
    /\ writeJSON(IF code # "OK" THEN ErrorStatus(request.route, code)
                 ELSE IF request.route = "create" THEN 201 ELSE 200)

Service ==
    phase = "calling" /\ CASE request.route = "create" -> ServiceCreates
                           [] request.route = "list"   -> ServiceLists
                           [] request.route = "get"    -> ServiceGets
                           [] request.route = "update" -> ServiceUpdates
                           [] request.route = "delete" -> ServiceDeletes

Next ==
    \/ Receive \/ Health \/ UpgradeWebSocket \/ requestLogMiddleware
    \/ CreateUser \/ ListUsers \/ GetUserByID \/ UpdateUser \/ DeleteUser
    \/ Service \/ CallFails \/ Respond

Spec == Init /\ [][Next]_vars

-----------------------------------------------------------------------------
(* Properties.                                                             *)

\* The program as a whole: with all its parts healthy, a user request is
\* answered 500 for three reasons only, all of them input that passed both
\* validations: a phone number of 21 characters, an e-mail address of more
\* than 255, a name with a NUL character.
OnlyUnstorableFails ==
    (status = 500 /\ ~faulted /\ request.route # "ws")
    => /\ request.route \in {"create", "update"}
       /\ \/ request.body.name # None /\ request.body.name.nul
          \/ request.body.email # None /\ request.body.email.length > 255
          \/ request.body.phone # None /\ Length(request.body.phone) = 21

\* What passed the gateway's validation is refused by user-service for an
\* e-mail address in use and for nothing else.
LayersAgree ==
    code = "BAD_REQUEST" => /\ request.route \in {"create", "update"}
                            /\ request.body.email # None
                            /\ request.body.email.taken

\* The status tells what became of the change: 200 and 201 that it was made,
\* 400 and 404 that it was not.
StatusTellsOutcome ==
    (status # None /\ request.route \in Mutations)
    => /\ status \in {200, 201} => applied
       /\ status \in {400, 404} => ~applied

\* A deleted user leaves the cache, under whatever spelling of its id the
\* deletion was asked for.
DeletedIsForgotten == user = "deleted" /\ ~faulted => cached = {}

\* The AsyncAPI description offers a WebSocket API: a client with a good
\* handshake gets its connection.  Does not hold behind the middleware.
UpgradeTakesOver ==
    (status # None /\ request.route = "ws" /\ request.handshake = "good")
    => status = 101
=============================================================================
