------------------------------ MODULE UsersClient ------------------------------
(***************************************************************************)
(* usersclient, the library the gateway reaches user-service with: an RPC  *)
(* client over NATS request/reply and a cache of users by id.              *)
(*                                                                         *)
(* Every HTTP or WebSocket request runs in a goroutine of its own and      *)
(* stores what it is answered into the cache; three more goroutines, one   *)
(* per event subject, store and delete what they are told by events.  The  *)
(* cache is a sync.Map: single operations are atomic, nothing else is, and *)
(* an entry stays until it is overwritten, deleted or the process restarts.*)
(***************************************************************************)
EXTENDS Nats

CONSTANTS Gateways  \* the processes that hold a client and a cache

VARIABLES cache,    \* gateway -> its copy of users
          hearing,  \* gateway -> event subjects it has subscribed to
          events,   \* gateway -> event subject -> messages not yet applied
          pc,       \* request -> how far its goroutine is
          call,     \* request -> gateway, operation and user
          result,   \* request -> the error class it returned, or OK
          left      \* request -> rows of its answer not yet in the cache

clientVars == <<cache, hearing, events, pc, call, result, left>>

\* SubscribeUserEvents subscribes in this order.
EventOrder == <<"create", "update", "delete">>

Call == [gw : Gateways, op : {"list", "create"}, user : {None}]
            \cup [gw : Gateways, op : {"get", "update", "delete"}, user : Users]

ASSUME NoneIsNoCall == None \notin Call

ClientTypeOK ==
    /\ cache \in [Gateways -> Rows]
    /\ hearing \in [Gateways -> SUBSET Mutations]
    /\ events \in [Gateways -> [Mutations -> Seq(Event)]]
    /\ pc \in [Requests ->
                {"idle", "missed", "waiting", "answered", "done"}]
    /\ call \in [Requests -> Call \cup {None}]
    /\ result \in [Requests -> Codes \cup {None}]
    /\ left \in [Requests -> Rows]
    /\ \A r \in Requests : pc[r] = "missed" =>
          call[r] \in [gw : Gateways, op : {"get"}, user : Users]

\* The gateways are up and subscribed; how they come up, RestartGateway and
\* SubscribeUserEvents show.
ClientInit ==
    /\ cache = [g \in Gateways |-> Nothing]
    /\ hearing = [g \in Gateways |-> Mutations]
    /\ events = [g \in Gateways |-> [s \in Mutations |-> <<>>]]
    /\ pc = [r \in Requests |-> "idle"]
    /\ call = [r \in Requests |-> None]
    /\ result = [r \in Requests |-> None]
    /\ left = [r \in Requests |-> Nothing]

-----------------------------------------------------------------------------
(* Calls.                                                                  *)

Begin(r, g, op, u) ==
    /\ pc[r] = "idle"
    /\ call' = [call EXCEPT ![r] = [gw |-> g, op |-> op, user |-> u]]
    /\ UNCHANGED <<cache, hearing, events, left, subscribed, faults, lost>>

\* Return to the caller at once.
ReturnNow(r, code) ==
    /\ pc' = [pc EXCEPT ![r] = "done"]
    /\ result' = [result EXCEPT ![r] = code]
    /\ UNCHANGED queue

\* request: publish and wait.  Nothing is sent and the call fails without a
\* subscriber ("no responders") or when the caller has already gone away.
SendRequest(r, op, u, input) ==
    \/ /\ op \in subscribed
       /\ Enqueue(op, [req |-> r, user |-> u, input |-> input, good |-> TRUE])
       /\ pc' = [pc EXCEPT ![r] = "waiting"]
       /\ UNCHANGED result
    \/ ReturnNow(r, "INTERNAL")

List(r, g) == Begin(r, g, "list", None) /\ SendRequest(r, "list", None, NoInput)

\* A hit is returned as it is, for as long as the entry lives.
Get(r, g, u) ==
    /\ Begin(r, g, "get", u)
    /\ IF cache[g][u] # None
       THEN ReturnNow(r, "OK")
       ELSE /\ pc' = [pc EXCEPT ![r] = "missed"]
            /\ UNCHANGED <<queue, result>>

\* By the time a miss sends its request the entry may be there.
FetchMissed(r) ==
    /\ pc[r] = "missed"
    /\ SendRequest(r, "get", call[r].user, NoInput)
    /\ UNCHANGED <<cache, hearing, events, call, left,
                   subscribed, faults, lost>>

Create(r, g, input) ==
    Begin(r, g, "create", None) /\ SendRequest(r, "create", None, input)

Update(r, g, u, input) ==
    Begin(r, g, "update", u) /\ SendRequest(r, "update", u, input)

Delete(r, g, u) ==
    Begin(r, g, "delete", u) /\ SendRequest(r, "delete", u, NoInput)

\* Mutant of Serving: main listens before it subscribes to the events.
ServingAtOnce(g) == g \in Gateways

\* main: the server listens once the subscriptions are made.
Serving(g) == hearing[g] = Mutations

\* The handlers in front of the client let no malformed input through: a
\* create names all columns, an update at least one.
StartCall(r) ==
    \E g \in {h \in Gateways : Serving(h)} :
        \/ List(r, g)
        \/ \E u \in Users : Get(r, g, u) \/ Delete(r, g, u)
        \/ \E in \in NewUser : Create(r, g, in)
        \/ \E u \in Users, in \in Input \ {NoInput} : Update(r, g, u, in)

-----------------------------------------------------------------------------
(* Answers.                                                                *)

\* The answer to m.req arrives; nobody waits for it once the call timed out.
Accept(m) ==
    /\ IF pc[m.req] = "waiting"
       THEN /\ pc' = [pc EXCEPT ![m.req] = "answered"]
            /\ result' = [result EXCEPT ![m.req] = m.code]
            /\ left' = [left EXCEPT ![m.req] = m.rows]
       ELSE UNCHANGED <<pc, result, left>>
    /\ UNCHANGED <<cache, hearing, events, call>>

\* Mutant of Timeout: reported as if the service had not found the user.
TimeoutAsNotFound(r) ==
    /\ pc[r] = "waiting"
    /\ pc' = [pc EXCEPT ![r] = "done"]
    /\ result' = [result EXCEPT ![r] = "NOT_FOUND"]
    /\ UNCHANGED <<natsVars, cache, hearing, events, call, left>>

\* defaultTimeout, or the caller went away: the call fails, the command stays
\* on its way.
Timeout(r) ==
    /\ pc[r] = "waiting"
    /\ pc' = [pc EXCEPT ![r] = "done"]
    /\ result' = [result EXCEPT ![r] = "INTERNAL"]
    /\ UNCHANGED <<natsVars, cache, hearing, events, call, left>>

\* Mutant of StoreAnswer: the loop over a list keeps one key.
StoreAnswerUnderOneKey(r, u) ==
    /\ pc[r] = "answered"
    /\ left[r][u] # None
    /\ cache' = [cache EXCEPT ![call[r].gw] =
                    [v \in Users |-> IF left[r][v] # None THEN left[r][u]
                                                          ELSE @[v]]]
    /\ left' = [left EXCEPT ![r] = Nothing]
    /\ pc' = [pc EXCEPT ![r] = "done"]
    /\ UNCHANGED <<natsVars, hearing, events, call, result>>

\* setCachedUser: create, get and update store their row, list its rows one
\* after the other.
StoreAnswer(r, u) ==
    /\ pc[r] = "answered"
    /\ left[r][u] # None
    /\ cache' = [cache EXCEPT ![call[r].gw][u] = left[r][u]]
    /\ left' = [left EXCEPT ![r][u] = None]
    /\ pc' = IF left'[r] = Nothing THEN [pc EXCEPT ![r] = "done"] ELSE pc
    /\ UNCHANGED <<natsVars, hearing, events, call, result>>

\* Errors, an empty list, and delete, which drops the entry if the answer
\* was OK and leaves it alone if the user was not found.
ReturnAnswer(r) ==
    /\ pc[r] = "answered"
    /\ left[r] = Nothing
    /\ pc' = [pc EXCEPT ![r] = "done"]
    /\ cache' = IF call[r].op = "delete" /\ result[r] = "OK"
                THEN [cache EXCEPT ![call[r].gw][call[r].user] = None]
                ELSE cache
    /\ UNCHANGED <<natsVars, hearing, events, call, result, left>>

-----------------------------------------------------------------------------
(* Events.                                                                 *)

\* Some event subjects, but not all of them, reach the cache.
HalfSubscribed(g) == hearing[g] \notin {{}, Mutations}

\* The user an event is about if a half subscribed gateway misses it: the
\* cache may hold what an event on another subject has already brought.
MissedBy(m) ==
    {u \in Users :
        /\ m.kind = "event" /\ m.user = u
        /\ \E g \in Gateways :
              HalfSubscribed(g) /\ m.subject \notin hearing[g]}

\* Mutant of Distribute: the gateways share a queue group.
DistributeToOne(e) ==
    /\ \E g \in Gateways :
          events' = [events EXCEPT ![g][e.subject] = Append(@, e)]
    /\ UNCHANGED <<cache, hearing, pc, call, result, left>>

\* Mutant of Distribute: the newest event is applied first.
DistributeFirst(e) ==
    /\ events' = [g \in Gateways |->
                    [events[g] EXCEPT ![e.subject] = <<e>> \o @]]
    /\ UNCHANGED <<cache, hearing, pc, call, result, left>>

\* The server hands an event to every gateway that has subscribed to it.
Distribute(e) ==
    /\ events' = [g \in Gateways |->
                    IF e.subject \in hearing[g]
                    THEN [events[g] EXCEPT ![e.subject] = Append(@, e)]
                    ELSE events[g]]
    /\ UNCHANGED <<cache, hearing, pc, call, result, left>>

\* SubscribeUserEvents: the next event subject.  main calls it once, and
\* stops if it fails.
SubscribeUserEvents(g) ==
    /\ \E i \in 1..Len(EventOrder) :
          /\ hearing[g] = {EventOrder[j] : j \in 1..(i - 1)}
          /\ hearing' = [hearing EXCEPT ![g] = @ \cup {EventOrder[i]}]
    /\ UNCHANGED <<natsVars, cache, events, pc, call, result, left>>

\* Mutant of ApplyCacheEvent: the id of a deleted event is not found in it.
ApplyCacheEventButDeleted(g, s) ==
    /\ events[g][s] # <<>>
    /\ LET e == Head(events[g][s])
       IN cache' = IF s = "delete" THEN cache
                   ELSE [cache EXCEPT ![g][e.user] = e.row]
    /\ events' = [events EXCEPT ![g][s] = Tail(@)]
    /\ UNCHANGED <<natsVars, hearing, pc, call, result, left>>

\* applyCacheEvent, in the goroutine of subject s.  Deleting is storing None.
ApplyCacheEvent(g, s) ==
    /\ events[g][s] # <<>>
    /\ LET e == Head(events[g][s])
       IN cache' = [cache EXCEPT ![g][e.user] = e.row]
    /\ events' = [events EXCEPT ![g][s] = Tail(@)]
    /\ UNCHANGED <<natsVars, hearing, pc, call, result, left>>

\* One gateway misses an event: disconnection, or a slow consumer.
LoseEvent(g, s) ==
    /\ Fault
    /\ events[g][s] # <<>>
    /\ lost' = lost \cup {Head(events[g][s]).user}
    /\ events' = [events EXCEPT ![g][s] = Tail(@)]
    /\ UNCHANGED <<queue, subscribed, cache, hearing, pc, call, result, left>>

\* The process restarts with an empty cache and has to subscribe again.  Its
\* calls die with it.
RestartGateway(g) ==
    /\ Fault
    /\ cache' = [cache EXCEPT ![g] = Nothing]
    /\ hearing' = [hearing EXCEPT ![g] = {}]
    /\ events' = [events EXCEPT ![g] = [s \in Mutations |-> <<>>]]
    /\ LET dying == {r \in Requests : /\ pc[r] \in {"missed", "waiting", "answered"}
                                     /\ call[r].gw = g}
       IN /\ pc' = [r \in Requests |-> IF r \in dying THEN "done" ELSE pc[r]]
          /\ result' = [r \in Requests |->
                           IF r \in dying THEN "INTERNAL" ELSE result[r]]
          /\ left' = [r \in Requests |->
                           IF r \in dying THEN Nothing ELSE left[r]]
    /\ UNCHANGED <<queue, subscribed, lost, call>>

\* Every step of the client that involves no message from the service.
ClientStep ==
    \/ \E r \in Requests :
          StartCall(r) \/ FetchMissed(r) \/ Timeout(r) \/ ReturnAnswer(r)
    \/ \E r \in Requests, u \in Users : StoreAnswer(r, u)
    \/ \E g \in Gateways, s \in Mutations :
          ApplyCacheEvent(g, s) \/ LoseEvent(g, s)
    \/ \E g \in Gateways : SubscribeUserEvents(g) \/ RestartGateway(g)
=============================================================================
