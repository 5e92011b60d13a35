------------------------------- MODULE WsSession -------------------------------
(***************************************************************************)
(* The WebSocket handler over the hub: what a client that sends requests   *)
(* on its connection is told about each of them.                           *)
(*                                                                         *)
(* A reader handles one message at a time.  It writes its answer to the    *)
(* connection itself, unless the answer is the success of a create, update *)
(* or delete: that one the client is to learn from the event, which comes  *)
(* back from user-service through NATS and the hub.                        *)
(*                                                                         *)
(* The users client is known here by what UserDirectory promises of it: a  *)
(* call changes the directory at most once, and OK, 400 and 404 are final. *)
(***************************************************************************)
EXTENDS WsHub

\* A request is named by the event it may cause.
Requests == EventIds

Ops == {"create", "list", "get", "update", "delete"}
Mutations == Subjects
Codes == {"OK", "BAD_REQUEST", "NOT_FOUND", "INTERNAL"}
Answers == {"ok", "bad_request", "not_found", "internal_error"}

ASSUME NoneIsNoAnswer == None \notin Codes \cup Answers

\* valid is FALSE when the payload does not parse or fails its checks; a
\* message that is no JSON, or names no action, is "unknown".
RequestMessage ==
    [conn : Conns, action : Ops \ {"list"}, valid : BOOLEAN]
        \cup [conn : Conns, action : {"list"}, valid : {TRUE}]
        \cup [conn : Conns, action : {"unknown"}, valid : {FALSE}]

\* A request of a REST client, or of another gateway.
Elsewhere == [conn : {None}, action : Mutations, valid : {TRUE}]

VARIABLES req,          \* request -> what it asks for, once it was read
          applied,      \* requests that have changed the directory
          unannounced,  \* subject -> changes whose event is to be published
          lost,         \* changes whose event never reaches this gateway
          result,       \* request -> what its call or checks came to
          told          \* request -> the answer written to its connection

sessionVars == <<req, applied, unannounced, lost, result, told>>
vars == <<hubVars, sessionVars>>

TypeOK ==
    /\ HubTypeOK
    /\ req \in [Requests -> RequestMessage \cup Elsewhere \cup {None}]
    /\ applied \in SUBSET Requests
    /\ unannounced \in [Subjects -> Seq(Requests)]
    /\ lost \in SUBSET applied
    /\ result \in [Requests -> Codes \cup {None}]
    /\ told \in [Requests -> Answers \cup {None}]

Init ==
    /\ HubInit
    /\ req = [r \in Requests |-> None]
    /\ applied = {}
    /\ unannounced = [s \in Subjects |-> <<>>]
    /\ lost = {}
    /\ result = [r \in Requests |-> None]
    /\ told = [r \in Requests |-> None]

-----------------------------------------------------------------------------
(* The directory behind the client, and its events.                        *)

AskElsewhere(r) ==
    /\ req[r] = None
    /\ \E m \in Elsewhere : req' = [req EXCEPT ![r] = m]
    /\ UNCHANGED <<hubVars, applied, unannounced, lost, result, told>>

\* The change takes effect, perhaps after its caller was told of an internal
\* error, never after any other answer.
Apply(r) ==
    /\ req[r] # None
    /\ req[r].action \in Mutations /\ req[r].valid
    /\ r \notin applied
    /\ result[r] \in {None, "INTERNAL"}
    /\ applied' = applied \cup {r}
    /\ unannounced' = [unannounced EXCEPT ![req[r].action] = Append(@, r)]
    /\ UNCHANGED <<hubVars, req, lost, result, told>>

\* Changes of a kind are announced in the order they were made.
Announce(s) ==
    /\ unannounced[s] # <<>>
    /\ Arrive([subject |-> s, id |-> Head(unannounced[s])])
    /\ unannounced' = [unannounced EXCEPT ![s] = Tail(@)]
    /\ UNCHANGED <<req, applied, lost, result, told>>

\* The event is not published, or dropped on its way to this gateway.
LoseEvent(s) ==
    /\ unannounced[s] # <<>>
    /\ lost' = lost \cup {Head(unannounced[s])}
    /\ unannounced' = [unannounced EXCEPT ![s] = Tail(@)]
    /\ UNCHANGED <<hubVars, req, applied, result, told>>

-----------------------------------------------------------------------------
(* Handle, one message at a time.                                          *)

\* ReadMessage returned a message: it is decoded and dispatched.
Ask(c, r) ==
    /\ ReadMessage(c)
    /\ req[r] = None
    /\ \E m \in RequestMessage : m.conn = c /\ req' = [req EXCEPT ![r] = m]
    /\ UNCHANGED <<applied, unannounced, lost, result, told>>

\* The request Handle is working on.
InHand(c, r) == req[r] # None /\ req[r].conn = c /\ result[r] = None

\* Mutant of failFromError: whatever is not found to be a bad request is
\* taken for an unknown user.
failFromErrorNarrow(code) ==
    IF code = "BAD_REQUEST" THEN "bad_request" ELSE "not_found"

failFromError(code) ==
    CASE code = "BAD_REQUEST" -> "bad_request"
      [] code = "NOT_FOUND"   -> "not_found"
      [] OTHER                -> "internal_error"

\* Mutant of shouldWriteDirectResponse: the action alone decides.
shouldWriteDirectResponseByAction(action, code) == action \notin Mutations

shouldWriteDirectResponse(action, code) ==
    code # "OK" \/ action \notin Mutations

\* process returned; Handle writes the answer or goes on to the next message.
Conclude(c, r, code) ==
    /\ InHand(c, r)
    /\ result' = [result EXCEPT ![r] = code]
    /\ IF shouldWriteDirectResponse(req[r].action, code)
       THEN Respond(c) ELSE StaySilent(c)
    /\ UNCHANGED <<req, applied, unannounced, lost, told>>

\* Messages that reach no call: no JSON, no such action, a bad payload.
Reject(c, r) == Conclude(c, r, "BAD_REQUEST") /\ ~req[r].valid

\* What the client may return: see UserDirectory!Truthful.
MayReturn(r, code) ==
    /\ code = "OK" /\ req[r].action \in Mutations => r \in applied
    /\ code \in {"BAD_REQUEST", "NOT_FOUND"} => r \notin applied

\* create, list, get, update, delete: one call of the users client each.
Call(c, r) ==
    \E code \in Codes :
        /\ Conclude(c, r, code)
        /\ req[r].valid
        /\ MayReturn(r, code)

\* The answer of Handle that is still to be written.
ToWrite(c, r) ==
    /\ req[r] # None /\ req[r].conn = c
    /\ reader[c] = "answering"
    /\ result[r] # None /\ told[r] = None
    /\ shouldWriteDirectResponse(req[r].action, result[r])

Answer(c, r) ==
    /\ ToWrite(c, r)
    /\ ResponseWritten(c)
    /\ told' = [told EXCEPT ![r] = IF result[r] = "OK" THEN "ok"
                                   ELSE failFromError(result[r])]
    /\ UNCHANGED <<req, applied, unannounced, lost, result>>

Next ==
    \/ (HubStep \/ ConnStep) /\ UNCHANGED sessionVars
    \/ \E r \in Requests : AskElsewhere(r) \/ Apply(r)
    \/ \E s \in Subjects : Announce(s) \/ LoseEvent(s)
    \/ \E c \in Conns, r \in Requests :
          Ask(c, r) \/ Reject(c, r) \/ Call(c, r) \/ Answer(c, r)

Spec == Init /\ [][Next]_vars

\* As for the hub; calls return (they time out after 5 s), and what was
\* changed is announced or lost.
FairSpec ==
    /\ Spec
    /\ Fairness
    /\ \A s \in Subjects : WF_vars(Announce(s))

-----------------------------------------------------------------------------
(* Properties.                                                             *)

Ids(messages) == {m.id : m \in ToSet(messages)}

\* The event of r is on its way to c, or has been written to it.
OnItsWay(r, c) ==
    \/ r \in Ids(feed[c]) \cup Ids(broadcast)
    \/ \E s \in Subjects : r \in ToSet(unannounced[s]) \cup Ids(pending[s])
    \/ Behind(c) = 1 /\ current.id = r

\* When Handle moves on without an answer, the client is about to see the
\* event of what it asked for: only a success is left to its event, and a
\* connection is registered with the hub before its first request.  Lost
\* events apart: nobody then tells the client anything.
SilenceIsAnnounced ==
    \A r \in Requests, c \in clients :
        (/\ req[r] # None /\ req[r].conn = c
         /\ result[r] # None /\ told[r] = None
         /\ reader[c] \in {"reading", "busy"})
        => OnItsWay(r, c) \/ r \in lost

\* bad_request and not_found are final: no event of such a request is ever
\* broadcast.  (An internal error may well be followed by its event.)
RefusalsAreFinal ==
    \A r \in Requests :
        told[r] \in {"bad_request", "not_found"} => r \notin applied

\* Every request comes to an end its client can see: an answer, its event,
\* or the end of the connection, unless the event was lost.
EveryRequestConcluded ==
    \A r \in Requests, c \in Conns :
        (req[r] # None /\ req[r].conn = c)
        ~> (told[r] # None \/ r \in Ids(feed[c]) \cup lost \/ link[c] # "up")

\* The comment at run: the hub continuously listens.  A connection that asks
\* to be registered is registered.  Does not hold when some peer stalls.
ContinuouslyListens ==
    \A c \in Conns : reader[c] = "registering" ~> reader[c] # "registering"
=============================================================================
