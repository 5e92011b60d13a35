------------------------------ MODULE CommandBus ------------------------------
(***************************************************************************)
(* user-service on its own, driven by arbitrary clients of its command     *)
(* subjects: well-formed and malformed commands in any order and number,   *)
(* answered and announced on a bus that records what it is given.          *)
(***************************************************************************)
EXTENDS UserService

VARIABLES asked,     \* request -> the command it was, once it was published
          told,      \* request -> the answer the bus carried back
          announced  \* the events the bus was given, in order

vars == <<natsVars, serviceVars, asked, told, announced>>

TypeOK ==
    /\ NatsTypeOK
    /\ ServiceTypeOK
    /\ asked \in [Requests -> Ops \cup {None}]
    /\ told \in [Requests -> Codes \cup {None}]
    /\ announced \in Seq(Event)

Init ==
    /\ NatsInit
    /\ ServiceInit
    /\ asked = [r \in Requests |-> None]
    /\ told = [r \in Requests |-> None]
    /\ announced = <<>>

-----------------------------------------------------------------------------
\* A client publishes a command to a subject that has a subscriber.  Bound:
\* no more creates than there are ids left.
Ask(r) ==
    /\ asked[r] = None
    /\ \E op \in subscribed :
          /\ op = "create" =>
                Len(queue[op]) < Cardinality(UnusedIds(history))
          /\ \E c \in Command(op) : c.req = r /\ Enqueue(op, c)
          /\ asked' = [asked EXCEPT ![r] = op]
    /\ UNCHANGED <<subscribed, faults, lost, serviceVars, told, announced>>

\* The bus takes what the service flushes.
Carry ==
    /\ Flush({})
    /\ LET m == Head(outbuf) IN
       IF m.kind = "reply"
       THEN told' = [told EXCEPT ![m.req] = m.code] /\ UNCHANGED announced
       ELSE announced' = Append(announced, m) /\ UNCHANGED told
    /\ UNCHANGED asked

Serve == ServiceStep /\ UNCHANGED <<asked, told, announced>>

Next == (\E r \in Requests : Ask(r)) \/ Serve \/ Carry

Spec == Init /\ [][Next]_vars

\* Every callback goroutine with work makes progress, the flusher flushes,
\* and the container is restarted until it has subscribed to everything.
Fairness ==
    /\ \A op \in Ops :
          WF_vars(Callback(op) /\ UNCHANGED <<asked, told, announced>>)
    /\ WF_vars(Carry)
    /\ WF_vars(HandleSubscribe /\ UNCHANGED <<asked, told, announced>>)

FairSpec == Spec /\ Fairness

-----------------------------------------------------------------------------
(* Properties.                                                             *)

\* The events of u in a sequence of messages.
EventsOf(u, messages) ==
    {m \in ToSet(messages) : m.kind = "event" /\ m.user = u}

\* What has been said, or is about to be said, about u.
Said(u) ==
    EventsOf(u, announced) \cup EventsOf(u, outbuf)
        \cup UNION {EventsOf(u, handler[op]) : op \in Ops}

\* The rows, and the deletion, that events announce of u.
SaidRows(u) == {e.row : e \in Said(u)} \ {None}
SaidDeleted(u) == \E e \in Said(u) : e.row = None

\* The rows that statements gave u, and the deletion.
CommittedRows(u) == {w \in history[u] : w.stamp > 0}
Deleted(u) == history[u] # {} /\ table[u] = None

\* Nothing is published about a user that was not committed, whatever fails
\* or crashes; and unless an event about the user was lost, every new row and
\* the deletion are.  (publishEvent follows every successful statement and
\* nothing else.)
EveryCommitAnnounced ==
    /\ \A u \in Users :
          /\ SaidRows(u) \subseteq CommittedRows(u)
          /\ SaidDeleted(u) => Deleted(u)
    /\ \A u \in Users \ lost :
          /\ CommittedRows(u) \subseteq SaidRows(u)
          /\ Deleted(u) => SaidDeleted(u)

\* user.event.updated carries updates in the order they were committed,
\* whatever the other handlers do in between: one goroutine commits and
\* publishes them.
UpdatesAnnouncedInOrder == Increasing(announced)

\* The command of r is held by a subscription, or its answer by the service.
OnItsWay(r) ==
    \/ \E op \in Ops : \E c \in ToSet(queue[op]) : c.req = r
    \/ \E m \in Pending : m.kind = "reply" /\ m.req = r

\* A command that has got as far as a subscription, or its answer, gets to the
\* client unless another fault happens from then on, whatever has failed or
\* crashed before: no handler goroutine gets stuck behind another, also not
\* on a malformed command or a failed query.
EveryCommandAnswered ==
    \A r \in Requests, k \in 0..MaxFaults :
        (OnItsWay(r) /\ faults = k) ~> (told[r] # None \/ faults > k)
=============================================================================
