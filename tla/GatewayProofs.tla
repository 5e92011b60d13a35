---------------------------- MODULE GatewayProofs ----------------------------
(***************************************************************************)
(* One request through the gateway and the service, for all lengths and    *)
(* ages and whatever the largest integer: TypeOK, OnlyUnstorableFails,     *)
(* LayersAgree, StatusTellsOutcome and DeletedIsForgotten.                 *)
(*                                                                         *)
(* What they have in common is Accepted: a request that reached the client *)
(* has passed the gateway's checks, and still has when its answer is       *)
(* there.  That makes it valid for the service, whose rules are the same,  *)
(* and leaves the columns three ways to refuse it.                         *)
(***************************************************************************)
EXTENDS Gateway, TLAPS

\* The request in hand has passed the checks of its handler.
Accepted ==
    \/ /\ request.route = "create"
       /\ request.body # None
       /\ ValidCreate(GatewayRules, request.body)
    \/ /\ request.route = "update"
       /\ request.body # None
       /\ HasField(request.body)
       /\ ValidUpdate(GatewayRules, request.body)
       /\ ValidId(request.id)
    \/ request.route \in {"get", "delete"} /\ ValidId(request.id)
    \/ request.route = "list"

\* What each phase of a request knows.
PhaseInv ==
    /\ phase \in {"idle", "serving", "calling", "returned", "answered"}
    /\ IF phase = "idle" THEN request = None ELSE request \in Request
    /\ code \in Codes \cup {None}
    /\ applied \in BOOLEAN /\ faulted \in BOOLEAN
    /\ code \in Codes \/ phase \in {"calling", "returned"} => Accepted
    /\ phase \in {"idle", "serving", "calling"} => code = None /\ ~applied
    /\ phase = "returned" => code \in Codes
    /\ IF phase = "answered" THEN status \in Statuses[request.route]
                             ELSE status = None

\* Input that passes both validations and fits no column.
Unstorable(body) ==
    \/ body.name # None /\ body.name.nul
    \/ body.email # None /\ body.email.length > 255
    \/ body.phone # None /\ Length(body.phone) = 21

\* What a code says of the request it answers.
CodeInv ==
    /\ code = "OK" /\ request.route \in Mutations => applied
    /\ code \in {"BAD_REQUEST", "NOT_FOUND"} => ~applied
    /\ code = "BAD_REQUEST" => /\ request.route \in {"create", "update"}
                               /\ request.body.email # None
                               /\ request.body.email.taken
    /\ code = "NOT_FOUND" => request.route \in {"get", "update", "delete"}
    /\ code = "INTERNAL" /\ ~faulted => /\ request.route \in {"create", "update"}
                                        /\ Unstorable(request.body)

\* What a status says of the code it was chosen for.
AnswerInv ==
    phase = "answered" =>
        /\ status \in {400, 404} => ~applied
        /\ status = 500 => request.route = "ws" \/ code = "INTERNAL"
        /\ status \in {200, 201} /\ request.route \in Mutations => code = "OK"

CacheInv ==
    /\ user \in {"unborn", "present", "deleted"}
    /\ cached \subseteq {"canonical"}
    /\ user = "deleted" /\ ~faulted => cached = {}

Inv == PhaseInv /\ CodeInv /\ AnswerInv /\ CacheInv

-----------------------------------------------------------------------------
(* Requests, and the two layers that check them.                           *)

\* What a request holds goes by its route.
LEMMA RequestFields ==
    ASSUME NEW r \in Request
    PROVE  /\ r.route \in {"create", "list", "health", "get", "delete",
                           "update", "ws"}
           /\ r.route = "create" => r.body \in CreateUserInput \cup {None}
           /\ r.route = "update" => r.body \in UpdateUserInput \cup {None}
           /\ r.route \in {"get", "delete", "update"} => r.id \in Ids
           /\ r.route = "ws" =>
                  r.handshake \in {"good", "malformed", "cross-origin"}
<1> DEFINE Create == [route : {"create"}, body : CreateUserInput \cup {None}]
           Bare == [route : {"list", "health"}]
           One == [route : {"get", "delete"}, id : Ids]
           Update == [route : {"update"}, id : Ids,
                      body : UpdateUserInput \cup {None}]
           Ws == [route : {"ws"},
                  handshake : {"good", "malformed", "cross-origin"}]
<1>1. r \in Create \/ r \in Bare \/ r \in One \/ r \in Update \/ r \in Ws
  BY DEF Request
<1> HIDE DEF Create, Bare, One, Update, Ws
<1>2. CASE r \in Create
  BY <1>2 DEF Create
<1>3. CASE r \in Bare
  BY <1>3 DEF Bare
<1>4. CASE r \in One
  BY <1>4 DEF One
<1>5. CASE r \in Update
  BY <1>5 DEF Update
<1>6. CASE r \in Ws
  BY <1>6 DEF Ws
<1> QED
  BY <1>1, <1>2, <1>3, <1>4, <1>5, <1>6

\* The statuses of each route.
LEMMA RouteStatuses ==
    /\ DOMAIN Statuses = {"create", "list", "get", "update", "delete",
                          "health", "ws"}
    /\ Statuses["create"] = {201, 400, 500}
    /\ Statuses["list"] = {200, 500}
    /\ \A route \in {"get", "update", "delete"} :
           Statuses[route] = {200, 400, 404, 500}
    /\ Statuses["health"] = {200}
    /\ Statuses["ws"] = {101, 400, 403, 500}
  BY DEF Statuses

\* The fields of what the gateway decodes.
LEMMA InputFields ==
    ASSUME NEW body \in CreateUserInput \cup UpdateUserInput
    PROVE  /\ body.email \in Emails \cup {NoEmail, None}
           /\ body.name \in Names \cup {NoName, None}
           /\ body.phone \in Phones \cup {None}
<1>1. CASE body \in CreateUserInput
  BY <1>1 DEF CreateUserInput
<1>2. CASE body \in UpdateUserInput
  BY <1>2 DEF UpdateUserInput
<1> QED
  BY <1>1, <1>2

\* Lengths are numbers, and a phone number that matches the pattern has at
\* most twenty characters after its sign.
LEMMA PhoneLength ==
    ASSUME NEW p \in Phones, ValidPhone(p)
    PROVE  /\ Length(p) \in Nat /\ Length(p) <= 21
           /\ p.plus \in BOOLEAN /\ p.length \in Nat
<1>1. CASE p = NoPhone
  BY <1>1 DEF NoPhone, Length
<1>2. CASE p.legal /\ p.length \in 7 .. 20
  <2>1. NoPhone.plus \in BOOLEAN /\ BadPhone.plus = NoPhone.plus
    BY DEF NoPhone, BadPhone
  <2>2. p.plus \in BOOLEAN
    <3>1. p = NoPhone \/ p = BadPhone
          \/ p \in [plus : BOOLEAN, length : PhoneLengths, legal : {TRUE},
                    spaceAtEnd : BOOLEAN]
      BY DEF Phones
    <3>2. CASE p \in [plus : BOOLEAN, length : PhoneLengths, legal : {TRUE},
                      spaceAtEnd : BOOLEAN]
      BY <3>2
    <3> QED
      BY <2>1, <3>1, <3>2
  <2> QED
    BY <1>2, <2>2 DEF Length
<1> QED
  BY <1>1, <1>2 DEF ValidPhone

\* Of what is valid, only three kinds are too much for the columns.
LEMMA ValidFits ==
    ASSUME NEW body \in CreateUserInput \cup UpdateUserInput,
           body.name # None => body.name.length \in 2 .. 50,
           body.phone # None => ValidPhone(body.phone),
           ~Fits(body)
    PROVE  Unstorable(body)
<1>1. CASE ~(body.name # None => body.name.length <= 50 /\ ~body.name.nul)
  <2>1. body.name # None /\ body.name.length \in 2 .. 50
    BY <1>1
  <2>2. body.name.length <= 50
    BY <2>1
  <2> QED
    BY <1>1, <2>1, <2>2 DEF Unstorable
<1>2. CASE ~(body.email # None => body.email.length <= 255)
  <2>1. body.email # None /\ body.email \in Emails \cup {NoEmail}
    BY <1>2, InputFields
  <2>2. body.email.length \in Nat
    <3>1. CASE body.email = NoEmail
      BY <3>1 DEF NoEmail
    <3>2. CASE body.email \in Emails
      <4>1. body.email.length \in EmailLengths
        BY <3>2 DEF Emails
      <4> QED
        BY <4>1, SizesAreNats
    <3> QED
      BY <2>1, <3>1, <3>2
  <2> QED
    BY <1>2, <2>1, <2>2 DEF Unstorable
<1>3. CASE ~(body.phone # None => Length(body.phone) <=
                 (IF body.phone.spaceAtEnd THEN 21 ELSE 20))
  <2>1. body.phone # None /\ body.phone \in Phones
    BY <1>3, InputFields
  <2>2. Length(body.phone) \in Nat /\ Length(body.phone) <= 21
    BY <2>1, PhoneLength
  <2>3. Length(body.phone) > 20
    BY <1>3, <2>2
  <2>4. Length(body.phone) = 21
    BY <2>2, <2>3
  <2> QED
    BY <2>1, <2>4 DEF Unstorable
<1> QED
  BY <1>1, <1>2, <1>3 DEF Fits

\* The service accepts what the gateway accepts.
LEMMA RulesAgree ==
    ASSUME NEW body
    PROVE  /\ ValidCreate(GatewayRules, body) => ValidCreate(ServiceRules, body)
           /\ ValidUpdate(GatewayRules, body) => ValidUpdate(ServiceRules, body)
  BY DEF GatewayRules, ServiceRules

\* What the gateway has accepted is valid for the service, and if no column
\* takes it, it is one of the three kinds.
LEMMA AcceptedIsValid ==
    ASSUME request \in Request, Accepted
    PROVE  /\ request.route \in {"create", "list", "get", "update", "delete"}
           /\ request.route = "create" =>
                  /\ request.body \in CreateUserInput
                  /\ ValidCreate(ServiceRules, request.body)
                  /\ request.body.email # None
           /\ request.route = "update" =>
                  /\ request.body \in UpdateUserInput
                  /\ HasField(request.body)
                  /\ ValidUpdate(ServiceRules, request.body)
           /\ request.route \in {"create", "update"} /\ ~Fits(request.body) =>
                  Unstorable(request.body)
           /\ request.route \in {"get", "update", "delete"} =>
                  request.id = "canonical" /\ ParseUUID(request.id)
<1>1. request.route \in {"create", "list", "get", "update", "delete"}
  BY DEF Accepted
<1>2. ASSUME request.route = "create"
      PROVE  /\ request.body \in CreateUserInput
             /\ ValidCreate(ServiceRules, request.body)
             /\ request.body.email # None
             /\ ~Fits(request.body) => Unstorable(request.body)
  <2>1. request.body # None /\ ValidCreate(GatewayRules, request.body)
    BY <1>2 DEF Accepted
  <2>2. request.body \in CreateUserInput
    BY <1>2, <2>1, RequestFields
  <2>3. ValidCreate(ServiceRules, request.body)
    BY <2>1, RulesAgree
  <2>4. request.body.email \in Emails \cup {NoEmail}
    BY <2>2 DEF CreateUserInput
  <2>5. request.body.email # None
    BY <2>4, NoneIsNoField
  <2>6. /\ request.body.name.length \in 2 .. 50
        /\ ValidPhone(request.body.phone)
    BY <2>3 DEF ValidCreate, ServiceRules
  <2>7. ~Fits(request.body) => Unstorable(request.body)
    BY <2>2, <2>6, ValidFits
  <2> QED
    BY <2>2, <2>3, <2>5, <2>7
<1>3. ASSUME request.route = "update"
      PROVE  /\ request.body \in UpdateUserInput
             /\ HasField(request.body)
             /\ ValidUpdate(ServiceRules, request.body)
             /\ ~Fits(request.body) => Unstorable(request.body)
  <2>1. /\ request.body # None /\ HasField(request.body)
        /\ ValidUpdate(GatewayRules, request.body)
    BY <1>3 DEF Accepted
  <2>2. request.body \in UpdateUserInput
    BY <1>3, <2>1, RequestFields
  <2>3. ValidUpdate(ServiceRules, request.body)
    BY <2>1, RulesAgree
  <2>4. /\ request.body.name # None => request.body.name.length \in 2 .. 50
        /\ request.body.phone # None => ValidPhone(request.body.phone)
    BY <2>3 DEF ValidUpdate, ServiceRules
  <2>5. ~Fits(request.body) => Unstorable(request.body)
    BY <2>2, <2>4, ValidFits
  <2> QED
    BY <2>1, <2>2, <2>3, <2>5
<1>4. ASSUME request.route \in {"get", "update", "delete"}
      PROVE  request.id = "canonical" /\ ParseUUID(request.id)
  <2>1. ValidId(request.id)
    BY <1>4 DEF Accepted
  <2> QED
    BY <2>1 DEF ValidId, ParseUUID
<1> QED
  BY <1>1, <1>2, <1>3, <1>4

-----------------------------------------------------------------------------
(* The phases of a request.                                                *)

\* None is neither a request, nor a code, nor a status.
LEMMA NoneIsNothing ==
    /\ None \notin Request
    /\ None \notin Codes
    /\ \A route \in DOMAIN Statuses : None \notin Statuses[route]
  BY NoneIsNoAnswer

LEMMA InitInv == Init => Inv
<1> SUFFICES ASSUME Init PROVE Inv
  OBVIOUS
<1>1. code \notin Codes
  BY NoneIsNothing DEF Init
<1>2. PhaseInv
  BY <1>1 DEF Init, PhaseInv
<1>3. CodeInv
  BY <1>1 DEF Init, CodeInv, Codes
<1>4. AnswerInv /\ CacheInv
  BY DEF Init, AnswerInv, CacheInv
<1> QED
  BY <1>2, <1>3, <1>4 DEF Inv

\* Nothing in the request has changed.
LEMMA SameRequest ==
    ASSUME UNCHANGED request
    PROVE  /\ Accepted => Accepted'
           /\ Unstorable(request.body) => Unstorable(request.body)'
  BY DEF Accepted, Unstorable

LEMMA ReceiveInv == Inv /\ Receive => Inv'
<1> SUFFICES ASSUME Inv, Receive PROVE Inv'
  OBVIOUS
<1>1. phase = "idle" /\ code = None /\ status = None /\ ~applied
  BY DEF Receive, Inv, PhaseInv
<1>2. code' = None /\ code' \notin Codes
  BY <1>1, NoneIsNothing DEF Receive
<1>3. PhaseInv'
  BY <1>1, <1>2 DEF Receive, Inv, PhaseInv
<1>4. CodeInv'
  BY <1>2 DEF CodeInv, Codes
<1>5. AnswerInv' /\ CacheInv'
  BY DEF Receive, Inv, AnswerInv, CacheInv
<1> QED
  BY <1>3, <1>4, <1>5 DEF Inv

LEMMA LogInv == Inv /\ requestLogMiddleware => Inv'
<1> SUFFICES ASSUME Inv, requestLogMiddleware PROVE Inv'
  OBVIOUS
<1>1. code' = None /\ code' \notin Codes
  BY NoneIsNothing DEF requestLogMiddleware
<1>2. PhaseInv'
  BY <1>1 DEF requestLogMiddleware, Inv, PhaseInv
<1>3. CodeInv'
  BY <1>1 DEF CodeInv, Codes
<1>4. AnswerInv' /\ CacheInv'
  BY DEF requestLogMiddleware, Inv, AnswerInv, CacheInv
<1> QED
  BY <1>2, <1>3, <1>4 DEF Inv

\* A handler answers without a call: it must not claim a change.
LEMMA AnswerAtOnce ==
    ASSUME Inv, phase = "serving",
           NEW s \in Statuses[request.route], writeJSON(s),
           s = 500 => request.route = "ws",
           request.route \in Mutations => s \notin {200, 201}
    PROVE  Inv'
<1>1. code' = None /\ code' \notin Codes /\ ~applied'
  BY NoneIsNothing DEF writeJSON, Inv, PhaseInv
<1>2. PhaseInv'
  BY <1>1 DEF writeJSON, Inv, PhaseInv
<1>3. CodeInv'
  BY <1>1 DEF CodeInv, Codes
<1>4. AnswerInv'
  BY <1>1 DEF writeJSON, AnswerInv
<1>5. CacheInv'
  BY DEF writeJSON, Inv, CacheInv
<1> QED
  BY <1>2, <1>3, <1>4, <1>5 DEF Inv

\* A handler calls the client: the request must have passed its checks.
LEMMA CallAccepted ==
    ASSUME Inv, phase = "serving", Call, Accepted
    PROVE  Inv'
<1>1. code' = None /\ code' \notin Codes
  BY NoneIsNothing DEF Call, Inv, PhaseInv
<1>2. Accepted'
  BY SameRequest DEF Call
<1>3. PhaseInv'
  BY <1>1, <1>2 DEF Call, Inv, PhaseInv
<1>4. CodeInv'
  BY <1>1 DEF CodeInv, Codes
<1>5. AnswerInv' /\ CacheInv'
  BY DEF Call, Inv, AnswerInv, CacheInv
<1> QED
  BY <1>3, <1>4, <1>5 DEF Inv

\* A handler that checks: 400 or a call.
LEMMA CheckThenCall ==
    ASSUME Inv, phase = "serving",
           request.route \in {"create", "get", "update", "delete"},
           NEW accepted, CheckedCall(accepted), accepted => Accepted
    PROVE  Inv'
<1>1. CASE accepted
  BY <1>1, CallAccepted DEF CheckedCall
<1>2. CASE ~accepted
  <2>1. writeJSON(400)
    BY <1>2 DEF CheckedCall
  <2>2. 400 \in Statuses[request.route]
    BY RouteStatuses
  <2> QED
    BY <2>1, <2>2, AnswerAtOnce
<1> QED
  BY <1>1, <1>2

LEMMA HealthInv == Inv /\ Health => Inv'
<1> SUFFICES ASSUME Inv, Health PROVE Inv'
  OBVIOUS
<1>1. phase = "serving" /\ request.route = "health" /\ writeJSON(200)
  BY DEF Health, Serving
<1>2. 200 \in Statuses[request.route]
  BY <1>1, RouteStatuses
<1>3. request.route \notin Mutations
  BY <1>1 DEF Mutations
<1> QED
  BY <1>1, <1>2, <1>3, AnswerAtOnce

LEMMA UpgradeWebSocketInv == Inv /\ UpgradeWebSocket => Inv'
<1> SUFFICES ASSUME Inv, UpgradeWebSocket PROVE Inv'
  OBVIOUS
<1>1. phase = "serving" /\ request.route = "ws"
  BY DEF UpgradeWebSocket, Serving
<1>2. PICK s \in {101, 400, 403, 500} : writeJSON(s)
  BY DEF UpgradeWebSocket
<1>3. s \in Statuses[request.route]
  BY <1>1, <1>2, RouteStatuses
<1>4. request.route \notin Mutations
  BY <1>1 DEF Mutations
<1> QED
  BY <1>1, <1>2, <1>3, <1>4, AnswerAtOnce

LEMMA CreateUserInv == Inv /\ CreateUser => Inv'
<1> SUFFICES ASSUME Inv, CreateUser PROVE Inv'
  OBVIOUS
<1>1. phase = "serving" /\ request.route = "create"
  BY DEF CreateUser, Serving
<1>2. PICK accepted : /\ CheckedCall(accepted)
                      /\ accepted => /\ request.body # None
                                     /\ ValidCreate(GatewayRules, request.body)
  BY DEF CreateUser
<1>3. accepted => Accepted
  BY <1>1, <1>2 DEF Accepted
<1> QED
  BY <1>1, <1>2, <1>3, CheckThenCall

LEMMA ListUsersInv == Inv /\ ListUsers => Inv'
<1> SUFFICES ASSUME Inv, ListUsers PROVE Inv'
  OBVIOUS
<1>1. phase = "serving" /\ request.route = "list" /\ Call
  BY DEF ListUsers, Serving
<1>2. Accepted
  BY <1>1 DEF Accepted
<1> QED
  BY <1>1, <1>2, CallAccepted

LEMMA GetUserByIDInv == Inv /\ GetUserByID => Inv'
<1> SUFFICES ASSUME Inv, GetUserByID PROVE Inv'
  OBVIOUS
<1>1. phase = "serving" /\ request.route = "get"
  BY DEF GetUserByID, Serving
<1>2. CASE writeJSON(200)
  <2>1. 200 \in Statuses[request.route]
    BY <1>1, RouteStatuses
  <2>2. request.route \notin Mutations
    BY <1>1 DEF Mutations
  <2> QED
    BY <1>1, <1>2, <2>1, <2>2, AnswerAtOnce
<1>3. CASE CheckedCall(ValidId(request.id))
  <2>1. ValidId(request.id) => Accepted
    BY <1>1 DEF Accepted
  <2> QED
    BY <1>1, <1>3, <2>1, CheckThenCall
<1> QED
  BY <1>2, <1>3 DEF GetUserByID

LEMMA UpdateUserInv == Inv /\ UpdateUser => Inv'
<1> SUFFICES ASSUME Inv, UpdateUser PROVE Inv'
  OBVIOUS
<1>1. phase = "serving" /\ request.route = "update"
  BY DEF UpdateUser, Serving
<1>2. PICK accepted : /\ CheckedCall(accepted)
                      /\ accepted => /\ request.body # None
                                     /\ HasField(request.body)
                                     /\ ValidUpdate(GatewayRules, request.body)
                                     /\ ValidId(request.id)
  BY DEF UpdateUser
<1>3. accepted => Accepted
  BY <1>1, <1>2 DEF Accepted
<1> QED
  BY <1>1, <1>2, <1>3, CheckThenCall

LEMMA DeleteUserInv == Inv /\ DeleteUser => Inv'
<1> SUFFICES ASSUME Inv, DeleteUser PROVE Inv'
  OBVIOUS
<1>1. /\ phase = "serving" /\ request.route = "delete"
      /\ CheckedCall(ValidId(request.id))
  BY DEF DeleteUser, Serving
<1>2. ValidId(request.id) => Accepted
  BY <1>1 DEF Accepted
<1> QED
  BY <1>1, <1>2, CheckThenCall

-----------------------------------------------------------------------------
(* The call and its answer.                                                *)

\* While the client is being called.
LEMMA Calling ==
    ASSUME Inv, phase = "calling"
    PROVE  /\ request \in Request /\ Accepted /\ code = None /\ status = None
           /\ applied = FALSE /\ faulted \in BOOLEAN
           /\ user \in {"unborn", "present", "deleted"}
           /\ cached \subseteq {"canonical"}
           /\ user = "deleted" /\ ~faulted => cached = {}
  BY DEF Inv, PhaseInv, CacheInv

\* The call returns: what its code says of the request has to be true.
LEMMA CallReturns ==
    ASSUME Inv, phase = "calling", phase' = "returned",
           UNCHANGED <<request, status>>,
           code' \in Codes, applied' \in BOOLEAN, faulted' \in BOOLEAN,
           CodeInv', CacheInv'
    PROVE  Inv'
<1>1. request \in Request /\ Accepted /\ status = None
  BY Calling
<1>2. Accepted'
  BY <1>1, SameRequest
<1>3. PhaseInv'
  BY <1>1, <1>2 DEF PhaseInv
<1>4. AnswerInv'
  BY DEF AnswerInv
<1> QED
  BY <1>3, <1>4 DEF Inv

\* The service refuses the request and changes nothing.
LEMMA RefuseInv ==
    ASSUME Inv, NEW route, NEW result \in Codes \ {"OK"}, Refuse(route, result),
           result = "BAD_REQUEST" => /\ route \in {"create", "update"}
                                     /\ request.body.email # None
                                     /\ request.body.email.taken,
           result = "NOT_FOUND" => route \in {"get", "update", "delete"},
           result = "INTERNAL" => /\ route \in {"create", "update"}
                                  /\ Unstorable(request.body)
    PROVE  Inv'
<1>1. /\ phase = "calling" /\ request.route = route /\ phase' = "returned"
      /\ code' = result
      /\ UNCHANGED <<request, status, faulted, user, cached, applied>>
  BY DEF Refuse, Return
<1>2. applied' = FALSE /\ faulted' \in BOOLEAN
  BY <1>1, Calling
<1>3. result = "INTERNAL" => Unstorable(request.body)'
  BY <1>1, SameRequest
<1>4. CodeInv'
  BY <1>1, <1>2, <1>3 DEF CodeInv
<1>5. CacheInv'
  BY <1>1 DEF Inv, CacheInv
<1> QED
  BY <1>1, <1>2, <1>4, <1>5, CallReturns

\* The service does what was asked: a mutation has changed the table.
LEMMA SucceedInv ==
    ASSUME Inv, NEW route, Return(route, "OK"),
           applied' \in BOOLEAN, route \in Mutations => applied',
           CacheInv'
    PROVE  Inv'
<1>1. /\ phase = "calling" /\ request.route = route /\ phase' = "returned"
      /\ code' = "OK" /\ UNCHANGED <<request, status, faulted>>
  BY DEF Return
<1>2. code' \in Codes
  BY <1>1 DEF Codes
<1>3. CodeInv'
  BY <1>1 DEF CodeInv
<1>4. faulted' \in BOOLEAN
  BY <1>1, Calling
<1> QED
  BY <1>1, <1>2, <1>3, <1>4, CallReturns

\* Caching the row of a user who is there.
LEMMA RememberInv ==
    ASSUME Inv, Remember, user' = "present"
    PROVE  CacheInv'
  BY DEF Inv, CacheInv, Remember

LEMMA ServiceCreatesInv ==
    Inv /\ phase = "calling" /\ request.route = "create" /\ ServiceCreates
    => Inv'
<1> SUFFICES ASSUME Inv, phase = "calling", request.route = "create",
                    ServiceCreates
             PROVE  Inv'
  OBVIOUS
<1>1. /\ ValidCreate(ServiceRules, request.body)
      /\ request.body.email # None
      /\ ~Fits(request.body) => Unstorable(request.body)
  BY Calling, AcceptedIsValid
<1>2. CASE ~Fits(request.body) /\ Refuse("create", "INTERNAL")
  BY <1>1, <1>2, RefuseInv DEF Codes
<1>3. CASE request.body.email.taken /\ Refuse("create", "BAD_REQUEST")
  BY <1>1, <1>3, RefuseInv DEF Codes
<1>4. CASE /\ Return("create", "OK") /\ applied' = TRUE
           /\ \/ user = "unborn" /\ user' = "present" /\ Remember
              \/ UNCHANGED <<user, cached>>
  <2>1. UNCHANGED faulted
    BY <1>4 DEF Return
  <2>2. CacheInv'
    BY <1>4, <2>1, RememberInv DEF Inv, CacheInv
  <2> QED
    BY <1>4, <2>2, SucceedInv
<1> QED
  BY <1>1, <1>2, <1>3, <1>4 DEF ServiceCreates

LEMMA ServiceListsInv ==
    Inv /\ phase = "calling" /\ ServiceLists => Inv'
<1> SUFFICES ASSUME Inv, phase = "calling", ServiceLists PROVE Inv'
  OBVIOUS
<1>1. Return("list", "OK") /\ UNCHANGED <<user, applied, faulted>>
  BY DEF ServiceLists, Return
<1>2. CacheInv'
  BY <1>1, RememberInv DEF ServiceLists, Inv, CacheInv
<1>3. applied' \in BOOLEAN
  BY <1>1, Calling
<1>4. "list" \notin Mutations
  BY DEF Mutations
<1> QED
  BY <1>1, <1>2, <1>3, <1>4, SucceedInv

LEMMA ServiceGetsInv ==
    Inv /\ phase = "calling" /\ request.route = "get" /\ ServiceGets => Inv'
<1> SUFFICES ASSUME Inv, phase = "calling", request.route = "get", ServiceGets
             PROVE  Inv'
  OBVIOUS
<1>1. ParseUUID(request.id)
  BY Calling, AcceptedIsValid
<1>2. CASE Refuse("get", "NOT_FOUND")
  BY <1>2, RefuseInv DEF Codes
<1>3. CASE /\ Found /\ Return("get", "OK") /\ Remember
           /\ UNCHANGED <<user, applied>>
  <2>1. user' = "present"
    BY <1>3 DEF Found
  <2>2. CacheInv'
    BY <1>3, <2>1, RememberInv
  <2>3. applied' \in BOOLEAN
    BY <1>3, Calling
  <2>4. "get" \notin Mutations
    BY DEF Mutations
  <2> QED
    BY <1>3, <2>2, <2>3, <2>4, SucceedInv
<1> QED
  BY <1>1, <1>2, <1>3 DEF ServiceGets

LEMMA ServiceUpdatesInv ==
    Inv /\ phase = "calling" /\ request.route = "update" /\ ServiceUpdates
    => Inv'
<1> SUFFICES ASSUME Inv, phase = "calling", request.route = "update",
                    ServiceUpdates
             PROVE  Inv'
  OBVIOUS
<1>1. /\ ParseUUID(request.id) /\ HasField(request.body)
      /\ ValidUpdate(ServiceRules, request.body)
      /\ ~Fits(request.body) => Unstorable(request.body)
  BY Calling, AcceptedIsValid
<1>2. CASE ~Fits(request.body) /\ Refuse("update", "INTERNAL")
  BY <1>1, <1>2, RefuseInv DEF Codes
<1>3. CASE Refuse("update", "NOT_FOUND")
  BY <1>3, RefuseInv DEF Codes
<1>4. CASE /\ request.body.email # None /\ request.body.email.taken
           /\ Refuse("update", "BAD_REQUEST")
  BY <1>4, RefuseInv DEF Codes
<1>5. CASE /\ Found /\ Return("update", "OK") /\ applied' = TRUE
           /\ Remember /\ UNCHANGED user
  <2>1. user' = "present"
    BY <1>5 DEF Found
  <2>2. CacheInv'
    BY <1>5, <2>1, RememberInv
  <2> QED
    BY <1>5, <2>2, SucceedInv
<1> QED
  BY <1>1, <1>2, <1>3, <1>4, <1>5 DEF ServiceUpdates

LEMMA ServiceDeletesInv ==
    Inv /\ phase = "calling" /\ request.route = "delete" /\ ServiceDeletes
    => Inv'
<1> SUFFICES ASSUME Inv, phase = "calling", request.route = "delete",
                    ServiceDeletes
             PROVE  Inv'
  OBVIOUS
<1>1. request.id = "canonical" /\ ParseUUID(request.id)
  BY Calling, AcceptedIsValid
<1>2. CASE Refuse("delete", "NOT_FOUND")
  BY <1>2, RefuseInv DEF Codes
<1>3. CASE /\ Return("delete", "OK") /\ applied' = TRUE /\ user' = "deleted"
           /\ cached' = cached \ {request.id}
  <2>1. cached' = {}
    BY <1>1, <1>3, Calling
  <2>2. CacheInv'
    BY <1>3, <2>1 DEF CacheInv
  <2> QED
    BY <1>3, <2>2, SucceedInv
<1> QED
  BY <1>1, <1>2, <1>3 DEF ServiceDeletes

LEMMA ServiceInv == Inv /\ Service => Inv'
<1> SUFFICES ASSUME Inv, Service PROVE Inv'
  OBVIOUS
<1>1. phase = "calling"
  BY DEF Service
<1>2. request.route \in {"create", "list", "get", "update", "delete"}
  BY <1>1, Calling, AcceptedIsValid
<1>3. \/ request.route = "create" /\ ServiceCreates
      \/ request.route = "list" /\ ServiceLists
      \/ request.route = "get" /\ ServiceGets
      \/ request.route = "update" /\ ServiceUpdates
      \/ request.route = "delete" /\ ServiceDeletes
  BY <1>2 DEF Service
<1> QED
  BY <1>1, <1>3, ServiceCreatesInv, ServiceListsInv, ServiceGetsInv,
     ServiceUpdatesInv, ServiceDeletesInv

LEMMA CallFailsInv == Inv /\ CallFails => Inv'
<1> SUFFICES ASSUME Inv, CallFails PROVE Inv'
  OBVIOUS
<1>1. /\ phase = "calling" /\ phase' = "returned" /\ code' = "INTERNAL"
      /\ faulted' = TRUE /\ UNCHANGED <<request, status, cached>>
  BY DEF CallFails
<1>2. applied' \in BOOLEAN /\ user' \in {user, "deleted"}
  BY DEF CallFails
<1>3. code' \in Codes
  BY <1>1 DEF Codes
<1>4. CodeInv'
  BY <1>1 DEF CodeInv
<1>5. CacheInv'
  BY <1>1, <1>2 DEF Inv, CacheInv
<1> QED
  BY <1>1, <1>2, <1>3, <1>4, <1>5, CallReturns

LEMMA RespondInv == Inv /\ Respond => Inv'
<1> SUFFICES ASSUME Inv, Respond PROVE Inv'
  OBVIOUS
<1>1. /\ phase = "returned" /\ phase' = "answered"
      /\ UNCHANGED <<request, code, user, cached, applied, faulted>>
  BY DEF Respond, writeJSON
<1>2. request \in Request /\ Accepted /\ code \in Codes
  BY <1>1 DEF Inv, PhaseInv
<1>3. request.route \in {"create", "list", "get", "update", "delete"}
  BY <1>2, AcceptedIsValid
<1>4. status' = IF code # "OK" THEN ErrorStatus(request.route, code)
                ELSE IF request.route = "create" THEN 201 ELSE 200
  BY DEF Respond, writeJSON
<1>5. /\ code = "BAD_REQUEST" => request.route \in {"create", "update"}
      /\ code = "NOT_FOUND" => request.route \in {"get", "update", "delete"}
      /\ code \in {"BAD_REQUEST", "NOT_FOUND"} => ~applied
  BY DEF Inv, CodeInv
<1>6. \/ code = "OK" /\ status' = IF request.route = "create" THEN 201 ELSE 200
      \/ code = "BAD_REQUEST" /\ status' = 400
      \/ code = "NOT_FOUND" /\ status' = 404
      \/ code = "INTERNAL" /\ status' = 500
  BY <1>2, <1>3, <1>4, <1>5 DEF ErrorStatus, Codes
<1>7. status' \in Statuses[request.route]
  BY <1>3, <1>5, <1>6, RouteStatuses
<1>8. Accepted'
  BY <1>1, <1>2, SameRequest
<1>9. PhaseInv'
  BY <1>1, <1>7, <1>8 DEF Inv, PhaseInv
<1>10. CodeInv'
  BY <1>1 DEF Inv, CodeInv, Unstorable
<1>11. AnswerInv'
  BY <1>1, <1>5, <1>6 DEF AnswerInv
<1>12. CacheInv'
  BY <1>1 DEF Inv, CacheInv
<1> QED
  BY <1>9, <1>10, <1>11, <1>12 DEF Inv

-----------------------------------------------------------------------------
(* The theorems.                                                           *)

LEMMA NextInv == Inv /\ [Next]_vars => Inv'
<1> SUFFICES ASSUME Inv, [Next]_vars PROVE Inv'
  OBVIOUS
<1>1. CASE UNCHANGED vars
  BY <1>1 DEF vars, Inv, PhaseInv, CodeInv, AnswerInv, CacheInv, Accepted,
              Unstorable
<1>2. CASE Receive \/ requestLogMiddleware \/ Health \/ UpgradeWebSocket
  BY <1>2, ReceiveInv, LogInv, HealthInv, UpgradeWebSocketInv
<1>3. CASE CreateUser \/ ListUsers \/ GetUserByID \/ UpdateUser \/ DeleteUser
  BY <1>3, CreateUserInv, ListUsersInv, GetUserByIDInv, UpdateUserInv,
     DeleteUserInv
<1>4. CASE Service \/ CallFails \/ Respond
  BY <1>4, ServiceInv, CallFailsInv, RespondInv
<1> QED
  BY <1>1, <1>2, <1>3, <1>4 DEF Next

\* What is known of a request holds in every state.
THEOREM RequestInvariant == Spec => []Inv
<1>1. Init => Inv
  BY InitInv
<1>2. Inv /\ [Next]_vars => Inv'
  BY NextInv
<1> QED
  BY <1>1, <1>2, PTL DEF Spec

\* The types, and every status is one openapi.yaml gives its route, or the
\* 400 it leaves out.
THEOREM GatewayWellTyped == Spec => []TypeOK
<1>1. Inv => TypeOK
  <2> SUFFICES ASSUME Inv PROVE TypeOK
    OBVIOUS
  <2>1. request # None => request.route \in DOMAIN Statuses
    BY RequestFields, RouteStatuses DEF Inv, PhaseInv
  <2>2. status # None => status \in Statuses[request.route]
    BY DEF Inv, PhaseInv
  <2>3. cached \subseteq Ids
    BY DEF Inv, CacheInv, Ids
  <2> QED
    BY <2>1, <2>2, <2>3 DEF TypeOK, Inv, PhaseInv, CacheInv
<1> QED
  BY <1>1, RequestInvariant, PTL

\* With all parts healthy, what passed both validations is answered 500 only
\* for a long phone number, a long address or a NUL in the name.
THEOREM HealthyFailures == Spec => []OnlyUnstorableFails
<1>1. Inv => OnlyUnstorableFails
  <2> SUFFICES ASSUME Inv, status = 500, ~faulted, request.route # "ws"
               PROVE  /\ request.route \in {"create", "update"}
                      /\ Unstorable(request.body)
    BY DEF OnlyUnstorableFails, Unstorable
  <2>1. phase = "answered"
    <3> SUFFICES ASSUME phase # "answered" PROVE FALSE
      OBVIOUS
    <3>1. status = None
      BY DEF Inv, PhaseInv
    <3>2. None \notin Statuses["ws"]
      BY NoneIsNothing, RouteStatuses
    <3> QED
      BY <3>1, <3>2, RouteStatuses
  <2>2. code = "INTERNAL"
    BY <2>1 DEF Inv, AnswerInv
  <2> QED
    BY <2>2 DEF Inv, CodeInv
<1> QED
  BY <1>1, RequestInvariant, PTL

\* The service refuses what the gateway let through only for an address that
\* another user has.
THEOREM ValidationLayersAgree == Spec => []LayersAgree
<1>1. Inv => LayersAgree
  BY DEF Inv, CodeInv, LayersAgree
<1> QED
  BY <1>1, RequestInvariant, PTL

\* The status tells whether the change was made, unless it is 500.
THEOREM StatusIsTrue == Spec => []StatusTellsOutcome
<1>1. Inv => StatusTellsOutcome
  <2> SUFFICES ASSUME Inv, status # None, request.route \in Mutations
               PROVE  /\ status \in {200, 201} => applied
                      /\ status \in {400, 404} => ~applied
    BY DEF StatusTellsOutcome
  <2>1. phase = "answered"
    BY DEF Inv, PhaseInv
  <2>2. /\ status \in {400, 404} => ~applied
        /\ status \in {200, 201} => code = "OK"
    BY <2>1 DEF Inv, AnswerInv
  <2> QED
    BY <2>2 DEF Inv, CodeInv
<1> QED
  BY <1>1, RequestInvariant, PTL

\* A deletion reaches the cache however the id was spelled, because the
\* gateway lets one spelling through.
THEOREM DeletionIsForgotten == Spec => []DeletedIsForgotten
<1>1. Inv => DeletedIsForgotten
  BY DEF Inv, CacheInv, DeletedIsForgotten
<1> QED
  BY <1>1, RequestInvariant, PTL
=============================================================================
