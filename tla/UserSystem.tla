------------------------------ MODULE UserSystem ------------------------------
(***************************************************************************)
(* The whole path of a request: gateways with their caches (UsersClient),  *)
(* the NATS bus between (Nats) and user-service over Postgres              *)
(* (UserService), as docker-compose.yml wires them.                        *)
(***************************************************************************)
EXTENDS UserService, UsersClient

VARIABLE raced  \* history: users whose row changed while an older message
                \* about them, which the new one may overtake, was in flight

vars == <<natsVars, serviceVars, clientVars, raced>>

TypeOK ==
    /\ NatsTypeOK
    /\ ServiceTypeOK
    /\ ClientTypeOK
    /\ raced \in SUBSET Users

Init ==
    /\ NatsInit
    /\ ServiceInit
    /\ ClientInit
    /\ raced = {}

-----------------------------------------------------------------------------
(* What is in flight about a user.                                         *)

\* An answer with a row of u that some request will still store.
AnswerInFlight(u) ==
    \/ \E r \in Requests : left[r][u] # None
    \/ \E m \in Pending : m.kind = "reply" /\ m.rows[u] # None
                            /\ pc[m.req] = "waiting"

\* The events about u on their way to g.
EventsInFlight(g, u) ==
    {m \in Pending : m.kind = "event" /\ m.user = u}
        \cup UNION {{e \in ToSet(events[g][s]) : e.user = u} : s \in Mutations}

\* A change of u's row now may be overtaken.  Only the events of one update
\* cannot overtake those of the next: they share a subject, hence a handler
\* goroutine, a queue and a cache goroutine.
Overtakable(u, newRow) ==
    \/ AnswerInFlight(u)
    \/ \E g \in Gateways : \E e \in EventsInFlight(g, u) :
          ~(e.subject = "update" /\ newRow # None)

\* Bookkeeping of every step.
NoteRaces ==
    raced' = raced \cup {u \in Users : /\ table'[u] # table[u]
                                       /\ Overtakable(u, table'[u])}

-----------------------------------------------------------------------------
\* The server routes what the service flushes: an answer to the request that
\* asked, an event to the gateways that subscribed.
Deliver ==
    /\ Flush(MissedBy(Head(outbuf)))
    /\ LET m == Head(outbuf)
       IN IF m.kind = "reply" THEN Accept(m) ELSE Distribute(m)

Next ==
    /\ \/ ServiceStep /\ UNCHANGED clientVars
       \/ ClientStep /\ UNCHANGED serviceVars
       \/ Deliver
    /\ NoteRaces

Spec == Init /\ [][Next]_vars

\* Goroutines with work make progress, the flusher flushes, what was answered
\* is stored, and the service container is restarted until it has subscribed
\* to everything (restart: unless-stopped).  No request need ever be made.
Service(A) == A /\ UNCHANGED clientVars /\ NoteRaces
Client(A) == A /\ UNCHANGED serviceVars /\ NoteRaces

Fairness ==
    /\ WF_vars(Service(HandleSubscribe))
    /\ \A op \in Ops : WF_vars(Service(Callback(op)))
    /\ WF_vars(Deliver /\ NoteRaces)
    /\ \A g \in Gateways, s \in Mutations :
          WF_vars(Client(ApplyCacheEvent(g, s)))
    /\ \A r \in Requests :
          /\ WF_vars(Client(FetchMissed(r)))
          /\ WF_vars(Client(Timeout(r)))
          /\ WF_vars(Client(ReturnAnswer(r) \/ \E u \in Users : StoreAnswer(r, u)))

FairSpec == Spec /\ Fairness

-----------------------------------------------------------------------------
(* Safety.                                                                 *)

\* A cached user is out of date only for a reason: unless its row changed
\* while an older message was in flight, or an event about it was lost, an
\* entry that differs from the row is about to be corrected by an event
\* already on its way.  (main.go: subscribe to keep the cache up to date.)
CacheCoherentUnlessRaced ==
    \A g \in Gateways, u \in Users \ (raced \cup lost) :
        \/ cache[g][u] \in {None, table[u]}
        \/ \E e \in EventsInFlight(g, u) : e.row = table[u]

\* The comment in main.go, without excuses: at rest, with nothing about any
\* user in flight, caches hold what the table holds.  Does not hold.
CacheUpToDate ==
    (\A u \in Users, g \in Gateways :
        ~AnswerInFlight(u) /\ EventsInFlight(g, u) = {}) =>
            \A u \in Users, g \in Gateways : cache[g][u] \in {None, table[u]}

\* Whatever a cache holds, an answer carries or an event announces was once
\* the user's row in the table: rows are never mixed up between users, nor
\* made of a request's input instead of what the statement returned.
OnlyCommittedRows ==
    \A u \in Users :
        /\ \A g \in Gateways : cache[g][u] \in history[u] \cup {None}
        /\ \A r \in Requests : left[r][u] \in history[u] \cup {None}
        /\ \A g \in Gateways : \A e \in EventsInFlight(g, u) :
              e.row \in history[u] \cup {None}

\* What a request returns is the truth about its statement, also after
\* crashes and losses: OK only if it committed, 400 or 404 only if it did
\* not and never will.  Only an internal error leaves the outcome open.
DefiniteResultsAreTrue ==
    \A r \in Requests :
        /\ result[r] = "OK" /\ call[r].op \in Mutations => r \in applied
        /\ result[r] \in {"BAD_REQUEST", "NOT_FOUND"} => r \notin applied

\* Updates reach each cache in commit order: an event still to be applied is
\* newer than those in front of it.
UpdatesApplyInOrder ==
    \A g \in Gateways : Increasing(events[g]["update"] \o outbuf)

\* A stop of the service drops nothing it has handed to its connection: the
\* comment at the deferred Drain of user-service's main.  Does not hold.
StopDrains == [][subscribed # {} /\ subscribed' = {} => outbuf = <<>>]_vars

-----------------------------------------------------------------------------
(* Liveness and refinement.                                                *)

\* Whatever happened before, every cache entry settles on the row of the
\* table or on nothing, the users the two excuses cover apart.
CachesConverge ==
    \A g \in Gateways, u \in Users :
        <>[](u \in raced \cup lost \/ cache[g][u] \in {None, table[u]})

\* A request has returned once its goroutine is done.
Returned == [r \in Requests |-> IF pc[r] = "done" THEN result[r] ELSE None]

\* A request that has not been called has no wish yet.
ASSUME NoneIsNoWish == None \notin [op : Ops, user : Users \cup {None}]

\* What a called request names: the operation and, if it has one, the user.
Asked ==
    [r \in Requests |->
        IF call[r] = None THEN None
        ELSE [op |-> call[r].op, user |-> call[r].user]]

\* Its change is due, with the input its command carries, as long as the
\* command is still to be handled.
Outstanding(r) ==
    {c \in UNION {ToSet(queue[op]) : op \in Mutations} : c.req = r}
InputOf(commands) ==
    IF commands = {} THEN None ELSE (CHOOSE c \in commands : TRUE).input
Due == [r \in Requests |-> InputOf(Outstanding(r))]

Directory ==
    INSTANCE UserDirectory WITH asked <- Asked, due <- Due, returned <- Returned

\* The program keeps the promise of UserDirectory: each request takes effect
\* at most once, by one atomic change, which gives the user it named what its
\* input says, never after it returned a definite answer, and it returns OK,
\* 400 or 404 only if that is the truth.
ImplementsDirectory == Directory!Spec
=============================================================================
