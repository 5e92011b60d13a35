--------------------------------- MODULE Nats ---------------------------------
(***************************************************************************)
(* The message contract between the gateway and user-service and the core  *)
(* NATS server that carries it, as far as this program uses it: one        *)
(* subject per command, a subscription per subject whose messages wait in  *)
(* FIFO order for one callback goroutine, request/reply with "no           *)
(* responders" when nobody subscribes, at-most-once delivery.              *)
(***************************************************************************)
EXTENDS UsersTable, SequencesExt

CONSTANTS Requests,   \* the requests made on the bus, each made at most once
          MaxFaults   \* bound: crashes, losses and database failures in a run

ASSUME MaxFaultsIsNat == MaxFaults \in Nat

VARIABLES queue,       \* command subject -> messages the subscription holds
          subscribed,  \* command subjects user-service has subscribed to
          faults,      \* how many faults have happened, at most MaxFaults
          lost         \* history: users about whom some event was lost

natsVars == <<queue, subscribed, faults, lost>>

\* main.go subscribes in this order.
SubjectOrder == <<"list", "create", "get", "update", "delete">>
Ops == {"list", "create", "get", "update", "delete"}

\* The operations that announce themselves on user.event.*
Mutations == {"create", "update", "delete"}

Codes == {"OK", "BAD_REQUEST", "NOT_FOUND", "INTERNAL"}

ASSUME NoneIsNoCode == None \notin Codes \cup Ops

\* CommandRequest: good is FALSE when the payload does not parse, fails its
\* validation tags or carries an id that is no UUID.
WellFormed(op) ==
    [req   : Requests,
     user  : IF op \in {"list", "create"} THEN {None} ELSE Users,
     input : CASE op = "create" -> NewUser
               [] op = "update" -> Input
               [] OTHER         -> {NoInput},
     good  : {TRUE}]

Malformed ==
    [req : Requests, user : {None}, input : {NoInput}, good : {FALSE}]

Command(op) == WellFormed(op) \cup Malformed

\* CommandResponse; an ok answer carries zero, one or all rows.
Reply == [kind : {"reply"}, req : Requests, code : Codes, rows : Rows]

\* Event; row is None on user.event.deleted, which carries only the id.
Event == [kind : {"event"}, subject : Mutations, user : Users,
          row : Row \cup {None}]

Message == Reply \cup Event

\* Updates stand in a sequence of messages in the order of their commits.
IsUpdate(m) == m.kind = "event" /\ m.subject = "update"
Increasing(s) ==
    \A i, j \in DOMAIN s :
        i < j /\ IsUpdate(s[i]) /\ IsUpdate(s[j]) =>
            s[i].row.stamp < s[j].row.stamp

Fault == faults < MaxFaults /\ faults' = faults + 1

NatsTypeOK ==
    /\ queue = [op \in Ops |-> queue[op]]
    /\ \A op \in Ops : queue[op] \in Seq(Command(op))
    /\ subscribed \in SUBSET Ops
    /\ faults \in 0..MaxFaults
    /\ lost \in SUBSET Users

NatsInit ==
    /\ queue = [op \in Ops |-> <<>>]
    /\ subscribed = {}
    /\ faults = 0
    /\ lost = {}

\* The message reaches the subscription of its subject.
Enqueue(op, c) == queue' = [queue EXCEPT ![op] = Append(@, c)]

\* A command is dropped on its way: disconnection, or a slow consumer.
LoseCommand(op) ==
    /\ Fault
    /\ queue[op] # <<>>
    /\ queue' = [queue EXCEPT ![op] = Tail(@)]
    /\ UNCHANGED <<subscribed, lost>>
=============================================================================
