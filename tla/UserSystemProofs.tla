--------------------------- MODULE UserSystemProofs ---------------------------
(***************************************************************************)
(* The whole system, for any number of users, requests, gateways and       *)
(* faults: type correctness, UpdatesApplyInOrder, DefiniteResultsAreTrue.  *)
(*                                                                         *)
(* OrderInv extends the pipeline of updates at its front, by what the      *)
(* service has yet to publish.                                             *)
(*                                                                         *)
(* DefiniteResultsAreTrue is not inductive: it speaks of what has          *)
(* returned, and the truth of a result is settled when the statement runs, *)
(* while the answer is still in the handler.  ResultsInv follows a request *)
(* from its command in a queue, which no answer has overtaken, to its      *)
(* answer in flight.                                                       *)
(***************************************************************************)
EXTENDS UserSystem, UserServiceProofs

-----------------------------------------------------------------------------
(* The client.                                                             *)

\* The state of the bus and the gateways.
ClientTypes == NatsTypeOK /\ ClientTypeOK

\* A gateway starts with an empty cache and no call.
LEMMA ClientInitTypes ==
    ClientInit => ClientTypeOK
<1> SUFFICES ASSUME ClientInit PROVE ClientTypeOK
  OBVIOUS
<1>1. Nothing \in Rows
  BY DEF Nothing, Rows
<1>2. events \in [Gateways -> [Mutations -> Seq(Event)]]
  BY DEF ClientInit
<1> QED
  BY <1>1, <1>2 DEF ClientInit, ClientTypeOK

\* A command handed to the bus keeps the queues well-typed.
LEMMA EnqueueTypes ==
    ASSUME NatsTypeOK, NEW op \in Ops, NEW c \in Command(op), Enqueue(op, c)
    PROVE  /\ queue' = [o \in Ops |-> queue'[o]]
           /\ \A o \in Ops : queue'[o] \in Seq(Command(o))
<1>1. queue' = [o \in Ops |-> IF o = op THEN Append(queue[op], c)
                                        ELSE queue[o]]
  BY DEF Enqueue, NatsTypeOK
<1>2. Append(queue[op], c) \in Seq(Command(op))
  BY AppendElements DEF NatsTypeOK
<1> QED
  BY <1>1, <1>2 DEF NatsTypeOK

\* A request puts a command of its subject on the queue, or returns.
LEMMA SendRequestTypes ==
    ASSUME ClientTypes, NEW r \in Requests, NEW op \in Ops, NEW u, NEW in,
           [req |-> r, user |-> u, input |-> in, good |-> TRUE] \in Command(op),
           SendRequest(r, op, u, in)
    PROVE  /\ queue' = [o \in Ops |-> queue'[o]]
           /\ \A o \in Ops : queue'[o] \in Seq(Command(o))
           /\ pc' \in [Requests ->
                         {"idle", "missed", "waiting", "answered", "done"}]
           /\ pc'[r] # "missed"
           /\ \A s \in Requests \ {r} : pc'[s] = pc[s]
           /\ result' \in [Requests -> Codes \cup {None}]
  BY EnqueueTypes
     DEF SendRequest, ReturnNow, ClientTypes, ClientTypeOK, NatsTypeOK, Codes

\* A call that begins and leaves its goroutine anywhere but at a miss.
LEMMA CallTypes ==
    ASSUME ClientTypes, NEW r \in Requests, NEW g \in Gateways, NEW op \in Ops,
           NEW u, NEW in, [gw |-> g, op |-> op, user |-> u] \in Call,
           [req |-> r, user |-> u, input |-> in, good |-> TRUE] \in Command(op),
           Begin(r, g, op, u), SendRequest(r, op, u, in)
    PROVE  ClientTypes'
<1>1. call' \in [Requests -> Call \cup {None}]
  BY DEF Begin, ClientTypes, ClientTypeOK
<1>2. \A s \in Requests \ {r} : call'[s] = call[s]
  BY DEF Begin, ClientTypes, ClientTypeOK
<1> QED
  BY <1>1, <1>2, SendRequestTypes
     DEF Begin, ClientTypes, ClientTypeOK, NatsTypeOK

\* A new call, whatever it asks for, is of its type.
LEMMA StartCallTypes ==
    ASSUME ClientTypes, NEW r \in Requests, StartCall(r) PROVE ClientTypes'
<1>1. PICK g \in Gateways :
          \/ List(r, g)
          \/ \E u \in Users : Get(r, g, u) \/ Delete(r, g, u)
          \/ \E in \in NewUser : Create(r, g, in)
          \/ \E u \in Users, in \in Input \ {NoInput} : Update(r, g, u, in)
  BY DEF StartCall
<1>2. CASE List(r, g)
  BY <1>2, CallTypes
     DEF List, Call, Command, WellFormed, Ops
<1>3. ASSUME NEW u \in Users, Get(r, g, u) PROVE ClientTypes'
  <2>1. call' = [call EXCEPT ![r] = [gw |-> g, op |-> "get", user |-> u]]
    BY <1>3 DEF Get, Begin
  <2>2. [gw |-> g, op |-> "get", user |-> u]
            \in [gw : Gateways, op : {"get"}, user : Users]
    OBVIOUS
  <2>3. call' \in [Requests -> Call \cup {None}]
    BY <2>1, <2>2 DEF ClientTypes, ClientTypeOK, Call
  <2>4. ASSUME NEW s \in Requests, pc'[s] = "missed"
        PROVE  call'[s] \in [gw : Gateways, op : {"get"}, user : Users]
    <3>1. call \in [Requests -> Call \cup {None}]
      BY DEF ClientTypes, ClientTypeOK
    <3>2. CASE s = r
      <4>1. call'[s] = [gw |-> g, op |-> "get", user |-> u]
        BY <2>1, <3>1, <3>2
      <4> QED
        BY <2>2, <4>1
    <3>3. CASE s # r
      <4>1. call'[s] = call[s]
        BY <2>1, <3>1, <3>3
      <4>2. \E p : pc' = [pc EXCEPT ![r] = p]
        BY <1>3 DEF Get, ReturnNow
      <4>3. pc'[s] = pc[s]
        BY <3>3, <4>2 DEF ClientTypes, ClientTypeOK
      <4> QED
        BY <2>4, <4>1, <4>3 DEF ClientTypes, ClientTypeOK
    <3> QED
      BY <3>2, <3>3
  <2>5. /\ pc' \in [Requests ->
                    {"idle", "missed", "waiting", "answered", "done"}]
        /\ result' \in [Requests -> Codes \cup {None}]
    <3>1. \E p \in {"missed", "done"} : pc' = [pc EXCEPT ![r] = p]
      BY <1>3 DEF Get, ReturnNow
    <3>2. result' = [result EXCEPT ![r] = "OK"] \/ result' = result
      BY <1>3 DEF Get, ReturnNow
    <3>3. pc' \in [Requests -> {"idle", "missed", "waiting", "answered", "done"}]
      BY <3>1 DEF ClientTypes, ClientTypeOK
    <3>4. result' \in [Requests -> Codes \cup {None}]
      BY <3>2 DEF ClientTypes, ClientTypeOK, Codes
    <3> QED
      BY <3>3, <3>4
  <2>6. UNCHANGED <<cache, hearing, events, left, natsVars>>
    BY <1>3 DEF Get, Begin, ReturnNow, natsVars
  <2> QED
    BY <2>3, <2>4, <2>5, <2>6
       DEF ClientTypes, ClientTypeOK, NatsTypeOK, natsVars
<1>4. ASSUME NEW u \in Users, Delete(r, g, u) PROVE ClientTypes'
  BY <1>4, CallTypes
     DEF Delete, Call, Command, WellFormed, Ops
<1>5. ASSUME NEW in \in NewUser, Create(r, g, in) PROVE ClientTypes'
  BY <1>5, CallTypes
     DEF Create, Call, Command, WellFormed, Ops
<1>6. ASSUME NEW u \in Users, NEW in \in Input \ {NoInput}, Update(r, g, u, in)
      PROVE  ClientTypes'
  BY <1>6, CallTypes
     DEF Update, Call, Command, WellFormed, Ops
<1> QED
  BY <1>1, <1>2, <1>3, <1>4, <1>5, <1>6

\* A get that missed sends a get command.
LEMMA FetchMissedTypes ==
    ASSUME ClientTypes, NEW r \in Requests, FetchMissed(r) PROVE ClientTypes'
<1>1. call[r] \in [gw : Gateways, op : {"get"}, user : Users]
  BY DEF FetchMissed, ClientTypes, ClientTypeOK
<1>2. [req |-> r, user |-> call[r].user, input |-> NoInput, good |-> TRUE]
          \in Command("get")
  BY <1>1 DEF Command, WellFormed
<1> QED
  BY <1>2, SendRequestTypes
     DEF FetchMissed, ClientTypes, ClientTypeOK, NatsTypeOK, Ops

\* Answers and events move rows from one well-typed place to another.
LEMMA AcceptTypes ==
    ASSUME ClientTypeOK, NEW m \in Reply, Accept(m) PROVE ClientTypeOK'
<1>1. m.req \in Requests /\ m.code \in Codes /\ m.rows \in Rows
  BY DEF Reply
<1>2. CASE pc[m.req] = "waiting"
  <2>1. /\ pc' = [pc EXCEPT ![m.req] = "answered"]
        /\ result' = [result EXCEPT ![m.req] = m.code]
        /\ left' = [left EXCEPT ![m.req] = m.rows]
        /\ UNCHANGED <<cache, hearing, events, call>>
    BY <1>2 DEF Accept
  <2>2. /\ pc' \in [Requests ->
                      {"idle", "missed", "waiting", "answered", "done"}]
        /\ \A r \in Requests : pc'[r] = "missed" => pc[r] = "missed"
    BY <1>1, <2>1 DEF ClientTypeOK
  <2>3. /\ result' \in [Requests -> Codes \cup {None}]
        /\ left' \in [Requests -> Rows]
    BY <1>1, <2>1 DEF ClientTypeOK
  <2> QED
    BY <2>1, <2>2, <2>3 DEF ClientTypeOK
<1>3. CASE pc[m.req] # "waiting"
  <2>1. UNCHANGED <<cache, hearing, events, pc, call, result, left>>
    BY <1>3 DEF Accept
  <2> QED
    BY <2>1 DEF ClientTypeOK
<1> QED
  BY <1>2, <1>3

\* An event joins the queue of its subject at the gateways that hear it.
LEMMA DistributeTypes ==
    ASSUME ClientTypeOK, NEW e \in Event, Distribute(e) PROVE ClientTypeOK'
<1>1. e.subject \in Mutations
  BY DEF Event
<1>2. ASSUME NEW g \in Gateways
      PROVE  Append(events[g][e.subject], e) \in Seq(Event)
  <2>1. events[g][e.subject] \in Seq(Event)
    BY <1>1 DEF ClientTypeOK
  <2> QED
    BY <2>1, AppendElements
<1>3. events' \in [Gateways -> [Mutations -> Seq(Event)]]
  BY <1>1, <1>2 DEF Distribute, ClientTypeOK
<1> QED
  BY <1>3 DEF Distribute, ClientTypeOK

\* The subjects of events, and nothing else, are subscribed to.
LEMMA EventSubjects == \A i \in 1..Len(EventOrder) : EventOrder[i] \in Mutations
  BY DEF EventOrder, Mutations

\* The first event of a queue, and what remains of the queue.
LEMMA TakeEventTypes ==
    ASSUME ClientTypeOK, NEW g \in Gateways, NEW s \in Mutations,
           events[g][s] # <<>>,
           events' = [events EXCEPT ![g][s] = Tail(@)]
    PROVE  /\ Head(events[g][s]) \in Event
           /\ events' \in [Gateways -> [Mutations -> Seq(Event)]]
<1>1. /\ Head(events[g][s]) \in Event
      /\ Tail(events[g][s]) \in Seq(Event)
  BY TailElements DEF ClientTypeOK
<1> QED
  BY <1>1 DEF ClientTypeOK

\* Every step of the client.
LEMMA ClientStepTypes ==
    ASSUME ClientTypes, ClientStep PROVE ClientTypes'
<1>1. ASSUME NEW r \in Requests, Timeout(r) PROVE ClientTypes'
  BY <1>1 DEF Timeout, ClientTypes, ClientTypeOK, NatsTypeOK, natsVars, Codes
<1>2. ASSUME NEW r \in Requests, ReturnAnswer(r) PROVE ClientTypes'
  BY <1>2 DEF ReturnAnswer, ClientTypes, ClientTypeOK, NatsTypeOK, natsVars,
              Rows
<1>3. ASSUME NEW r \in Requests, NEW u \in Users, StoreAnswer(r, u)
      PROVE  ClientTypes'
  <2>1. left[r][u] \in Row \cup {None}
    BY DEF ClientTypes, ClientTypeOK, Rows
  <2>2. cache' \in [Gateways -> Rows] /\ left' \in [Requests -> Rows]
    BY <1>3, <2>1 DEF StoreAnswer, ClientTypes, ClientTypeOK, Rows
  <2> QED
    BY <1>3, <2>2 DEF StoreAnswer, ClientTypes, ClientTypeOK, NatsTypeOK,
                      natsVars
<1>4. ASSUME NEW g \in Gateways, NEW s \in Mutations, ApplyCacheEvent(g, s)
      PROVE  ClientTypes'
  <2>1. Head(events[g][s]) \in Event
        /\ events' \in [Gateways -> [Mutations -> Seq(Event)]]
    BY <1>4, TakeEventTypes DEF ApplyCacheEvent, ClientTypes
  <2>2. cache' \in [Gateways -> Rows]
    BY <1>4, <2>1 DEF ApplyCacheEvent, ClientTypes, ClientTypeOK, Rows, Event
  <2> QED
    BY <1>4, <2>1, <2>2
       DEF ApplyCacheEvent, ClientTypes, ClientTypeOK, NatsTypeOK, natsVars
<1>5. ASSUME NEW g \in Gateways, NEW s \in Mutations, LoseEvent(g, s)
      PROVE  ClientTypes'
  <2>1. Head(events[g][s]) \in Event
        /\ events' \in [Gateways -> [Mutations -> Seq(Event)]]
    BY <1>5, TakeEventTypes DEF LoseEvent, ClientTypes
  <2>2. lost' \in SUBSET Users /\ faults' \in 0..MaxFaults
    BY <1>5, <2>1, MaxFaultsIsNat
       DEF LoseEvent, Fault, Event, ClientTypes, NatsTypeOK
  <2> QED
    BY <1>5, <2>1, <2>2 DEF LoseEvent, ClientTypes, ClientTypeOK, NatsTypeOK
<1>6. ASSUME NEW g \in Gateways, RestartGateway(g) PROVE ClientTypes'
  <2>1. Nothing \in Rows
    BY DEF Nothing, Rows
  <2>2. /\ pc' \in [Requests ->
                      {"idle", "missed", "waiting", "answered", "done"}]
        /\ \A r \in Requests : pc'[r] = "missed" => pc[r] = "missed"
        /\ result' \in [Requests -> Codes \cup {None}]
        /\ left' \in [Requests -> Rows]
    BY <1>6, <2>1 DEF RestartGateway, ClientTypes, ClientTypeOK, Codes
  <2>3. /\ cache' \in [Gateways -> Rows]
        /\ hearing' \in [Gateways -> SUBSET Mutations]
        /\ events' \in [Gateways -> [Mutations -> Seq(Event)]]
    BY <1>6, <2>1 DEF RestartGateway, ClientTypes, ClientTypeOK
  <2>4. faults' \in 0..MaxFaults
    BY <1>6, MaxFaultsIsNat DEF RestartGateway, Fault, ClientTypes, NatsTypeOK
  <2> QED
    BY <1>6, <2>2, <2>3, <2>4
       DEF RestartGateway, ClientTypes, ClientTypeOK, NatsTypeOK
<1>7. ASSUME NEW g \in Gateways, SubscribeUserEvents(g) PROVE ClientTypes'
  <2>1. hearing' \in [Gateways -> SUBSET Mutations]
    BY <1>7, EventSubjects DEF SubscribeUserEvents, ClientTypes, ClientTypeOK
  <2> QED
    BY <1>7, <2>1 DEF SubscribeUserEvents, ClientTypes, ClientTypeOK,
                      NatsTypeOK, natsVars
<1> QED
  BY <1>1, <1>2, <1>3, <1>4, <1>5, <1>6, <1>7, StartCallTypes, FetchMissedTypes
     DEF ClientStep

-----------------------------------------------------------------------------
(* Type correctness.                                                       *)

\* The program starts with every variable in its type.
LEMMA InitTypes == Init => TypeOK
  BY ServiceInitTypes, ClientInitTypes DEF Init, TypeOK, ServiceTypes

\* No step of any process takes a variable out of its type.
LEMMA NextTypes ==
    ASSUME TypeOK, [Next]_vars PROVE TypeOK'
<1>1. CASE UNCHANGED vars
  BY <1>1 DEF TypeOK, vars, natsVars, serviceVars, clientVars, NatsTypeOK,
              ServiceTypeOK, ClientTypeOK
<1>2. CASE Next
  <2>1. raced' \in SUBSET Users
    BY <1>2 DEF Next, NoteRaces, TypeOK
  <2>2. CASE ServiceStep /\ UNCHANGED clientVars
    <3>1. NatsTypeOK' /\ ServiceTypeOK'
      BY <2>2, ServiceStepTypes DEF TypeOK, ServiceTypes
    <3>2. ClientTypeOK'
      BY <2>2 DEF TypeOK, clientVars, ClientTypeOK
    <3> QED
      BY <2>1, <3>1, <3>2 DEF TypeOK
  <2>3. CASE ClientStep /\ UNCHANGED serviceVars
    <3>1. NatsTypeOK' /\ ClientTypeOK'
      BY <2>3, ClientStepTypes DEF TypeOK, ClientTypes
    <3>2. ServiceTypeOK'
      BY <2>3 DEF TypeOK, serviceVars, ServiceTypeOK
    <3> QED
      BY <2>1, <3>1, <3>2 DEF TypeOK
  <2>4. CASE Deliver
    <3>0. MissedBy(Head(outbuf)) \in SUBSET Users
      BY DEF MissedBy
    <3>1. NatsTypeOK' /\ ServiceTypeOK' /\ Head(outbuf) \in Message
      BY <2>4, <3>0, FlushTypes DEF Deliver, TypeOK, ServiceTypes
    <3>2. ClientTypeOK'
      <4>1. CASE Head(outbuf).kind = "reply"
        <5>1. Head(outbuf) \in Reply
          BY <3>1, <4>1 DEF Message, Event
        <5> QED
          BY <2>4, <4>1, <5>1, AcceptTypes DEF Deliver, TypeOK
      <4>2. CASE Head(outbuf).kind # "reply"
        <5>1. Head(outbuf) \in Event
          BY <3>1, <4>2 DEF Message, Reply
        <5> QED
          BY <2>4, <4>2, <5>1, DistributeTypes DEF Deliver, TypeOK
      <4> QED
        BY <4>1, <4>2
    <3> QED
      BY <2>1, <3>1, <3>2 DEF TypeOK
  <2> QED
    BY <1>2, <2>2, <2>3, <2>4 DEF Next
<1> QED
  BY <1>1, <1>2

\* Every variable keeps its type, whatever the size of the system.
THEOREM TypeCorrect == Spec => []TypeOK
  BY InitTypes, NextTypes, PTL DEF Spec

-----------------------------------------------------------------------------
(* The order of updates.                                                   *)

GatewayOrder(g) ==
    /\ Increasing(events[g]["update"])
    /\ Gone(ToSet(events[g]["update"]))

OrderInv == ServiceOrder /\ \A g \in Gateways : GatewayOrder(g)

\* What a gateway holds is typed.
LEMMA UpdatesTyped ==
    ASSUME TypeOK
    PROVE  /\ \A g \in Gateways : events[g]["update"] \in Seq(Event)
           /\ ServiceTypes
  BY DEF TypeOK, ServiceTypes, ClientTypeOK, Mutations

\* A part of what has left the service has left it.
LEMMA StillGone ==
    ASSUME TypeOK, LaterOnly, NEW S, NEW T, S \subseteq T, Gone(T)
    PROVE  (\A m \in S : Dated(m)') /\ Precede(S, Ahead')
<1>1. \A m \in S : Dated(m)'
  BY UpdatesTyped, StaysDated DEF LaterOnly, Gone
<1>2. Precede(T, Ahead')
  BY DEF LaterOnly
<1> QED
  BY <1>1, <1>2 DEF Precede

\* A gateway applies or misses the oldest update, or starts anew.
LEMMA ClientStepOrder ==
    ASSUME TypeOK, OrderInv, ClientStep, UNCHANGED serviceVars PROVE OrderInv'
<1>1. /\ clock' = clock
      /\ Increasing(outbuf') /\ ToSet(outbuf') = ToSet(outbuf)
      /\ \A op \in Ops : handler'[op] = handler[op]
  BY DEF serviceVars, OrderInv, ServiceOrder
<1> DEFINE Fewer == \A g \in Gateways :
                       /\ Increasing(events'[g]["update"])
                       /\ ToSet(events'[g]["update"])
                              \subseteq ToSet(events[g]["update"])
<1> SUFFICES Fewer
  <2>1. ServiceOrder' /\ LaterOnly
    BY <1>1, ShrinkOrder DEF OrderInv
  <2>2. ASSUME NEW g \in Gateways PROVE GatewayOrder(g)'
    <3>1. Gone(ToSet(events[g]["update"]))
      BY DEF OrderInv, GatewayOrder
    <3>2. /\ \A e \in ToSet(events'[g]["update"]) : Dated(e)'
          /\ Precede(ToSet(events'[g]["update"]), Ahead')
      BY <2>1, <3>1, StillGone
    <3> QED
      BY <3>2 DEF GatewayOrder, Gone
  <2> QED
    BY <2>1, <2>2 DEF OrderInv
<1>2. ASSUME events' = events PROVE Fewer
  BY <1>2 DEF OrderInv, GatewayOrder
<1>3. ASSUME NEW g \in Gateways, NEW s \in Mutations, events[g][s] # <<>>,
             events' = [events EXCEPT ![g][s] = Tail(@)]
      PROVE  Fewer
  <2>1. ASSUME NEW h \in Gateways
        PROVE  /\ Increasing(events'[h]["update"])
               /\ ToSet(events'[h]["update"])
                      \subseteq ToSet(events[h]["update"])
    <3>1. events[h]["update"] \in Seq(Event) /\ Increasing(events[h]["update"])
      BY UpdatesTyped DEF OrderInv, GatewayOrder
    <3>2. \/ events'[h]["update"] = events[h]["update"]
          \/ /\ events[h]["update"] # <<>>
             /\ events'[h]["update"] = Tail(events[h]["update"])
      BY <1>3 DEF TypeOK, ClientTypeOK, Mutations
    <3> QED
      BY <3>1, <3>2, IncreasingTail, TailElements
  <2> QED
    BY <2>1
<1>4. ASSUME NEW g \in Gateways, RestartGateway(g) PROVE Fewer
  <2>1. ASSUME NEW h \in Gateways
        PROVE  events'[h]["update"] \in {events[h]["update"], <<>>}
    BY <1>4 DEF RestartGateway, TypeOK, ClientTypeOK, Mutations
  <2> QED
    BY <2>1, IncreasingShort, ShortSequences DEF OrderInv, GatewayOrder
<1> QED
  BY <1>2, <1>3, <1>4
     DEF ClientStep, StartCall, List, Get, Create, Update, Delete, Begin,
         FetchMissed, Timeout, ReturnAnswer, StoreAnswer, ApplyCacheEvent,
         LoseEvent, SubscribeUserEvents

-----------------------------------------------------------------------------
(* Delivery, and the theorem.                                              *)

\* The oldest update of the write buffer is newer than any at a gateway.
LEMMA DeliverOrder ==
    ASSUME TypeOK, OrderInv, Deliver PROVE OrderInv'
<1> PICK m : m = Head(outbuf)
  OBVIOUS
<1>1. ServiceTypes /\ ServiceOrder /\ Flush(MissedBy(Head(outbuf)))
  BY UpdatesTyped DEF OrderInv, Deliver
<1>2. /\ ServiceOrder' /\ LaterOnly
      /\ m \in Message /\ Dated(m)
      /\ Precede({m}, Ahead')
      /\ \A T : Gone(T) => Precede(T, {m})
  BY <1>1, FlushOrder
<1> SUFFICES ASSUME NEW g \in Gateways PROVE GatewayOrder(g)'
  BY <1>2 DEF OrderInv
<1>3. GatewayOrder(g) /\ events[g]["update"] \in Seq(Event)
  BY UpdatesTyped DEF OrderInv
<1> DEFINE S == ToSet(events[g]["update"])
<1>4. (\A e \in S : Dated(e)') /\ Precede(S, Ahead') /\ Precede(S, {m})
  BY <1>2, <1>3, StillGone DEF GatewayOrder
<1>5. CASE IsUpdate(m) /\ "update" \in hearing[g]
  <2>1. m \in Event /\ Distribute(m) /\ m.subject = "update"
    BY <1>2, <1>5 DEF IsUpdate, Deliver, Message, Reply
  <2>2. events'[g]["update"] = Append(events[g]["update"], m)
    BY <1>5, <2>1 DEF Distribute, TypeOK, ClientTypeOK, Mutations
  <2>3. Dated(m)'
    BY <1>2, UpdatesTyped, StaysDated DEF LaterOnly
  <2>4. ToSet(events'[g]["update"]) = S \cup {m}
    <3>1. ToSet(Append(events[g]["update"], m)) = S \cup {m}
      BY <1>3, <2>1, AppendElements
    <3> QED
      BY <2>2, <3>1
  <2>5. Increasing(events'[g]["update"])
    BY <1>3, <1>4, <2>1, <2>2, IncreasingAppend DEF GatewayOrder
  <2> HIDE DEF S
  <2> QED
    BY <1>2, <1>4, <2>3, <2>4, <2>5 DEF GatewayOrder, Gone, Precede
<1>6. CASE ~(IsUpdate(m) /\ "update" \in hearing[g])
  <2>1. events'[g]["update"] = events[g]["update"]
    <3>1. CASE m.kind = "reply"
      BY <3>1 DEF Deliver, Accept
    <3>2. CASE m.kind # "reply"
      <4>1. /\ m.kind = "event" /\ Distribute(m)
            /\ m.subject # "update" \/ "update" \notin hearing[g]
        BY <1>2, <1>6, <3>2 DEF Deliver, IsUpdate, Message, Reply, Event
      <4> QED
        BY <4>1 DEF Distribute, TypeOK, ClientTypeOK, Mutations
    <3> QED
      BY <3>1, <3>2
  <2> QED
    BY <1>3, <1>4, <2>1 DEF GatewayOrder, Gone
<1> QED
  BY <1>5, <1>6

\* Empty sequences are in order.
LEMMA InitOrder == Init => OrderInv
<1> SUFFICES ASSUME Init PROVE OrderInv
  OBVIOUS
<1>1. ServiceOrder /\ Ahead = {}
  BY InitServiceOrder DEF Init
<1>2. \A g \in Gateways : events[g]["update"] = <<>>
  BY DEF Init, ClientInit, Mutations
<1> QED
  BY <1>1, <1>2, ShortSequences, IncreasingShort
     DEF OrderInv, GatewayOrder, Gone, Precede

\* OrderInv is inductive.
LEMMA NextOrder ==
    ASSUME TypeOK, OrderInv, [Next]_vars PROVE OrderInv'
<1>1. CASE UNCHANGED vars
  BY <1>1 DEF vars, serviceVars, clientVars, OrderInv, ServiceOrder, OneUpdater,
     GatewayOrder, Gone, Dated, Ahead, Pending
<1>2. CASE ServiceStep /\ UNCHANGED clientVars
  <2>1. ServiceOrder' /\ LaterOnly
    BY <1>2, UpdatesTyped, ServiceStepOrder DEF OrderInv
  <2>2. ASSUME NEW g \in Gateways PROVE GatewayOrder(g)'
    <3>1. GatewayOrder(g) /\ events' = events
      BY <1>2 DEF OrderInv, clientVars
    <3>2. /\ \A e \in ToSet(events[g]["update"]) : Dated(e)'
          /\ Precede(ToSet(events[g]["update"]), Ahead')
      BY <2>1, <3>1, StillGone DEF GatewayOrder
    <3> QED
      BY <3>1, <3>2 DEF GatewayOrder, Gone
  <2> QED
    BY <2>1, <2>2 DEF OrderInv
<1> QED
  BY <1>1, <1>2, ClientStepOrder, DeliverOrder DEF Next

\* Whatever is lost and whoever crashes, no cache applies an update before an
\* older one that is still to come.
THEOREM UpdatesAreInOrder == Spec => []UpdatesApplyInOrder
<1>1. ASSUME TypeOK, OrderInv PROVE UpdatesApplyInOrder
  <2>1. ASSUME NEW g \in Gateways
        PROVE  Increasing(events[g]["update"] \o outbuf)
    <3>1. /\ events[g]["update"] \in Seq(Message)
          /\ outbuf \in Seq(Message)
      BY <1>1, UpdatesTyped, PipelineTyped DEF Message
    <3>2. /\ Increasing(events[g]["update"])
          /\ Increasing(outbuf)
          /\ Precede(ToSet(events[g]["update"]), ToSet(outbuf))
      BY <1>1 DEF OrderInv, ServiceOrder, GatewayOrder, Gone, Ahead, Precede
    <3> QED
      BY <3>1, <3>2, IncreasingConcat
  <2> QED
    BY <2>1 DEF UpdatesApplyInOrder
<1> QED
  BY <1>1, InitTypes, InitOrder, NextTypes, NextOrder, PTL DEF Spec

-----------------------------------------------------------------------------
(* What a request returns is the truth.                                    *)

\* Answers that leave no doubt about a statement.
Definite == {"OK", "BAD_REQUEST", "NOT_FOUND"}

\* The answer is right about the statement of r.
IsTrue(r, code) ==
    /\ code = "OK" /\ call[r].op \in Mutations => r \in applied
    /\ code \in {"BAD_REQUEST", "NOT_FOUND"} => r \notin applied

Started(r) == call[r] # None

\* Only calls that were made, and have come that far, have had an effect.
CallsInv ==
    \A r \in Requests :
        /\ pc[r] = "idle" <=> ~Started(r)
        /\ result[r] # None => pc[r] \in {"answered", "done"}
        /\ pc[r] \in {"idle", "missed"} => r \notin applied

\* A command still waiting belongs to a call of that operation on that user,
\* has done nothing yet and has not been answered.
CommandsInv ==
    \A op \in Ops : \A c \in ToSet(queue[op]) :
        /\ Started(c.req)
        /\ call[c.req].op = op /\ call[c.req].user = c.user
        /\ pc[c.req] \in {"waiting", "done"}
        /\ c.req \notin applied
        /\ result[c.req] \notin Definite
        /\ \A m \in Pending : m.kind = "reply" => m.req # c.req

\* No request waits twice in a queue.
OneEach(s) == \A i, j \in DOMAIN s : s[i].req = s[j].req => i = j

QueuesInv == \A op \in Ops : OneEach(queue[op])

\* The answers on their way are right.
RepliesInv ==
    \A m \in Pending : m.kind = "reply" =>
        /\ Started(m.req)
        /\ pc[m.req] # "missed"
        /\ IsTrue(m.req, m.code)

ResultsInv ==
    /\ CallsInv
    /\ CommandsInv
    /\ QueuesInv
    /\ RepliesInv
    /\ DefiniteResultsAreTrue

-----------------------------------------------------------------------------
(* Queues and messages.                                                    *)

\* Taking the first command off a queue leaves no other of its request.
LEMMA OneEachTail ==
    ASSUME NEW S, NEW s \in Seq(S), s # <<>>, OneEach(s)
    PROVE  /\ OneEach(Tail(s))
           /\ \A c \in ToSet(Tail(s)) : c.req # Head(s).req
<1>1. /\ Head(s) = s[1]
      /\ Len(s) \in Nat \ {0}
      /\ Tail(s) \in Seq(S)
      /\ Len(Tail(s)) = Len(s) - 1
      /\ \A i \in 1..Len(Tail(s)) : Tail(s)[i] = s[i + 1]
  BY HeadTailProperties, EmptySeq
<1>2. /\ DOMAIN s = 1..Len(s)
      /\ DOMAIN Tail(s) = 1..(Len(s) - 1)
  BY <1>1, LenProperties
<1>3. \A i \in DOMAIN Tail(s) : i + 1 \in DOMAIN s /\ Tail(s)[i] = s[i + 1]
  BY <1>1, <1>2
<1>4. OneEach(Tail(s))
  <2>1. ASSUME NEW i \in DOMAIN Tail(s), NEW j \in DOMAIN Tail(s),
               Tail(s)[i].req = Tail(s)[j].req
        PROVE  i = j
    <3>1. s[i + 1].req = s[j + 1].req
      BY <1>3, <2>1
    <3>2. i + 1 = j + 1
      BY <1>3, <3>1 DEF OneEach
    <3> QED
      BY <1>2, <3>2
  <2> QED
    BY <2>1 DEF OneEach
<1>5. ASSUME NEW i \in DOMAIN Tail(s) PROVE Tail(s)[i].req # Head(s).req
  <2>1. 1 \in DOMAIN s /\ i + 1 # 1
    BY <1>1, <1>2
  <2> QED
    BY <1>1, <1>3, <2>1 DEF OneEach
<1> QED
  BY <1>4, <1>5 DEF ToSet

\* A command of a request that was not waiting keeps them distinct.
LEMMA OneEachAppend ==
    ASSUME NEW S, NEW s \in Seq(S), NEW e \in S, OneEach(s),
           \A c \in ToSet(s) : c.req # e.req
    PROVE  OneEach(Append(s, e))
<1>1. /\ Len(Append(s, e)) = Len(s) + 1
      /\ \A i \in 1..Len(s) : Append(s, e)[i] = s[i]
      /\ Append(s, e)[Len(s) + 1] = e
      /\ Append(s, e) \in Seq(S)
  BY AppendProperties
<1>2. /\ Len(s) \in Nat
      /\ DOMAIN s = 1..Len(s)
      /\ DOMAIN Append(s, e) = 1..(Len(s) + 1)
  BY <1>1, LenProperties
<1>3. \A i \in 1..Len(s) : s[i].req # e.req
  BY <1>2 DEF ToSet
<1>4. ASSUME NEW i \in 1..(Len(s) + 1), NEW j \in 1..(Len(s) + 1),
             Append(s, e)[i].req = Append(s, e)[j].req
      PROVE  i = j
  <2>1. CASE i \in 1..Len(s) /\ j \in 1..Len(s)
    BY <1>1, <1>2, <1>4, <2>1 DEF OneEach
  <2>2. CASE i = Len(s) + 1 /\ j \in 1..Len(s)
    BY <1>1, <1>3, <1>4, <2>2
  <2>3. CASE i \in 1..Len(s) /\ j = Len(s) + 1
    BY <1>1, <1>3, <1>4, <2>3
  <2> QED
    BY <1>2, <2>1, <2>2, <2>3
<1> QED
  BY <1>2, <1>4 DEF OneEach

\* A message is taken from the queue of op.
Taken(op) ==
    /\ op \in Ops
    /\ queue[op] # <<>>
    /\ queue' = [queue EXCEPT ![op] = Tail(@)]

\* A callback that takes a command leaves the queues otherwise alone.
LEMMA TakenQueues ==
    ASSUME TypeOK, QueuesInv, NEW op, Taken(op)
    PROVE  /\ QueuesInv'
           /\ \A o \in Ops : ToSet(queue'[o]) \subseteq ToSet(queue[o])
           /\ Head(queue[op]) \in ToSet(queue[op])
           /\ \A c \in ToSet(queue'[op]) : c.req # Head(queue[op]).req
           /\ Head(queue[op]).req \in Requests
<1>1. op \in Ops /\ queue[op] \in Seq(Command(op)) /\ queue[op] # <<>>
  BY DEF Taken, TypeOK, NatsTypeOK
<1>2. /\ queue'[op] = Tail(queue[op])
      /\ \A o \in Ops \ {op} : queue'[o] = queue[o]
  BY <1>1 DEF Taken, TypeOK, NatsTypeOK
<1>3. /\ OneEach(Tail(queue[op]))
      /\ \A c \in ToSet(Tail(queue[op])) : c.req # Head(queue[op]).req
  BY <1>1, OneEachTail DEF QueuesInv
<1>4. /\ Head(queue[op]) \in Command(op)
      /\ ToSet(queue[op]) = {Head(queue[op])} \cup ToSet(Tail(queue[op]))
  BY <1>1, TailElements
<1>5. QueuesInv'
  BY <1>2, <1>3 DEF QueuesInv
<1>6. Head(queue[op]).req \in Requests
  BY <1>4 DEF Command, WellFormed, Malformed
<1> QED
  BY <1>1, <1>2, <1>3, <1>4, <1>5, <1>6

\* Commands disappear, answers disappear, nothing else happens.
LEMMA ShrinkResults ==
    ASSUME ResultsInv, QueuesInv',
           \A op \in Ops : ToSet(queue'[op]) \subseteq ToSet(queue[op]),
           Pending' \subseteq Pending,
           UNCHANGED <<applied, pc, call, result>>
    PROVE  ResultsInv'
<1>1. CallsInv' /\ DefiniteResultsAreTrue'
  BY DEF ResultsInv, CallsInv, DefiniteResultsAreTrue, Started
<1>2. CommandsInv'
  BY DEF ResultsInv, CommandsInv, Started
<1>3. RepliesInv'
  BY DEF ResultsInv, RepliesInv, Started, IsTrue
<1> QED
  BY <1>1, <1>2, <1>3 DEF ResultsInv

-----------------------------------------------------------------------------
(* Steps of the service.                                                   *)

\* A handler concludes a command: it leaves the queue, has or has not changed
\* the table, and what the handler is about to answer is right.
LEMMA ConcludeResults ==
    ASSUME TypeOK, ResultsInv, NEW op \in Ops, Ready(op),
           NEW messages, Conclude(op, messages),
           applied' \in {applied, applied \cup {Request(op).req}},
           \A m \in ToSet(messages) : m.kind = "reply" =>
               /\ m.req = Request(op).req
               /\ m.code = "OK" /\ op \in Mutations => m.req \in applied'
               /\ m.code \in {"BAD_REQUEST", "NOT_FOUND"} =>
                      m.req \notin applied',
           UNCHANGED <<pc, call, result>>
    PROVE  ResultsInv'
<1> DEFINE r == Request(op).req
<1>1. Taken(op)
  BY DEF Taken, Conclude, Ready
<1>2. /\ QueuesInv'
      /\ \A o \in Ops : ToSet(queue'[o]) \subseteq ToSet(queue[o])
      /\ Request(op) \in ToSet(queue[op])
      /\ \A c \in ToSet(queue'[op]) : c.req # r
      /\ r \in Requests
  BY <1>1, TakenQueues DEF ResultsInv, Request
<1>3. /\ Started(r)
      /\ call[r].op = op
      /\ pc[r] \in {"waiting", "done"}
      /\ r \notin applied
      /\ result[r] \notin Definite
      /\ \A m \in Pending : m.kind = "reply" => m.req # r
  BY <1>2 DEF ResultsInv, CommandsInv
<1>4. \A o \in Ops : \A c \in ToSet(queue'[o]) : c.req # r
  BY <1>2, <1>3 DEF ResultsInv, CommandsInv
<1>5. Pending' \subseteq Pending \cup ToSet(messages)
  BY PendingAfterConclude DEF TypeOK
<1>6. CallsInv'
  BY <1>3 DEF ResultsInv, CallsInv, Started
<1>7. CommandsInv'
  <2>1. ASSUME NEW o \in Ops, NEW c \in ToSet(queue'[o])
        PROVE  /\ c \in ToSet(queue[o])
               /\ c.req # r
               /\ c.req \notin applied'
               /\ \A m \in Pending' : m.kind = "reply" => m.req # c.req
    BY <1>2, <1>4, <1>5 DEF ResultsInv, CommandsInv
  <2> QED
    BY <2>1 DEF ResultsInv, CommandsInv, Started
<1>8. RepliesInv'
  <2>1. ASSUME NEW m \in Pending, m.kind = "reply"
        PROVE  Started(m.req)' /\ pc'[m.req] # "missed"
                 /\ IsTrue(m.req, m.code)'
    BY <1>3, <2>1 DEF ResultsInv, RepliesInv, IsTrue, Started
  <2>2. ASSUME NEW m \in ToSet(messages), m.kind = "reply"
        PROVE  Started(m.req)' /\ pc'[m.req] # "missed"
                 /\ IsTrue(m.req, m.code)'
    BY <1>3, <2>2 DEF IsTrue, Started
  <2> QED
    BY <1>5, <2>1, <2>2 DEF RepliesInv
<1>9. DefiniteResultsAreTrue'
  BY <1>3 DEF ResultsInv, DefiniteResultsAreTrue, Definite
<1> QED
  BY <1>2, <1>6, <1>7, <1>8, <1>9 DEF ResultsInv

\* A handler that changed nothing answers 400, 404 or 500, or 200 to a read.
LEMMA ReplyOnlyResults ==
    ASSUME TypeOK, ResultsInv, NEW op \in Ops, Ready(op),
           NEW code, NEW rows, code = "OK" => op \notin Mutations,
           ReplyOnly(op, code, rows), UNCHANGED clientVars
    PROVE  ResultsInv'
<1>1. Request(op).req \notin applied
  <2>1. Taken(op)
    BY DEF Taken, ReplyOnly, Conclude, Ready
  <2> QED
    BY <2>1, TakenQueues DEF ResultsInv, CommandsInv, Request
<1>2. /\ Conclude(op, <<Answer(op, code, rows)>>)
      /\ applied' = applied
      /\ UNCHANGED <<pc, call, result>>
  BY DEF ReplyOnly, clientVars
<1>3. ToSet(<<Answer(op, code, rows)>>) = {Answer(op, code, rows)}
  BY ShortSequences
<1>4. Answer(op, code, rows).req = Request(op).req
      /\ Answer(op, code, rows).code = code
  BY DEF Answer
<1> QED
  BY <1>1, <1>2, <1>3, <1>4, ConcludeResults

\* A handler that committed answers OK, or INTERNAL if it did not learn of it.
LEMMA CommitResults ==
    ASSUME TypeOK, ResultsInv, NEW op \in Ops, Ready(op), NEW u, NEW row,
           Commit(op, u, row), UNCHANGED clientVars
    PROVE  ResultsInv'
<1>1. applied' = applied \cup {Request(op).req}
      /\ UNCHANGED <<pc, call, result>>
  BY DEF Commit, clientVars
<1>2. CASE Conclude(op, <<Answer(op, "OK", Only(u, row)),
                          Announcement(op, u, row)>>)
  <2>1. ToSet(<<Answer(op, "OK", Only(u, row)), Announcement(op, u, row)>>)
          = {Answer(op, "OK", Only(u, row)), Announcement(op, u, row)}
    BY ShortSequences
  <2>2. /\ Answer(op, "OK", Only(u, row)).req = Request(op).req
        /\ Answer(op, "OK", Only(u, row)).code = "OK"
        /\ Announcement(op, u, row).kind = "event"
    BY DEF Answer, Announcement
  <2> QED
    BY <1>1, <1>2, <2>1, <2>2, ConcludeResults
<1>3. CASE Conclude(op, <<Answer(op, "INTERNAL", Nothing)>>)
  <2>1. ToSet(<<Answer(op, "INTERNAL", Nothing)>>)
          = {Answer(op, "INTERNAL", Nothing)}
    BY ShortSequences
  <2>2. /\ Answer(op, "INTERNAL", Nothing).req = Request(op).req
        /\ Answer(op, "INTERNAL", Nothing).code = "INTERNAL"
    BY DEF Answer
  <2> QED
    BY <1>1, <1>3, <2>1, <2>2, ConcludeResults
<1> QED
  BY <1>2, <1>3 DEF Commit

\* No step of a handler goroutine makes a result false.
LEMMA CallbackResults ==
    ASSUME TypeOK, ResultsInv, NEW op \in Ops, Callback(op),
           UNCHANGED clientVars
    PROVE  ResultsInv'
<1> USE DEF Ops, Mutations
<1>1. CASE RejectMalformed(op)
  BY <1>1, ReplyOnlyResults DEF RejectMalformed
<1>2. CASE HandleListUsers
  BY <1>2, ReplyOnlyResults DEF HandleListUsers
<1>3. CASE HandleCreateUser
  <2>1. PICK u \in UnusedIds(history) :
           IF EmailTaken(table, u, Request("create").input.email)
           THEN ReplyOnly("create", "BAD_REQUEST", Nothing)
           ELSE Commit("create", u,
                       InsertedRow(Request("create").input, clock + 1))
    BY <1>3 DEF HandleCreateUser
  <2> QED
    BY <1>3, <2>1, ReplyOnlyResults, CommitResults DEF HandleCreateUser
<1>4. CASE HandleGetUser
  BY <1>4, ReplyOnlyResults DEF HandleGetUser
<1>5. CASE HandleUpdateUser
  <2>1. /\ Ready("update")
        /\ \/ ReplyOnly("update", "BAD_REQUEST", Nothing)
           \/ ReplyOnly("update", "NOT_FOUND", Nothing)
           \/ Commit("update", Request("update").user,
                     UpdatedRow(table[Request("update").user],
                                Request("update").input, clock + 1))
    BY <1>5 DEF HandleUpdateUser
  <2> QED
    BY <2>1, ReplyOnlyResults, CommitResults
<1>6. CASE HandleDeleteUser
  BY <1>6, ReplyOnlyResults, CommitResults DEF HandleDeleteUser
<1>7. ASSUME NEW kind, Send(op, kind) PROVE ResultsInv'
  <2>1. Pending' \subseteq Pending
    BY <1>7, PendingAfterSend DEF TypeOK
  <2>2. queue' = queue /\ UNCHANGED <<applied, pc, call, result>>
    BY <1>7 DEF Send, natsVars, clientVars
  <2>3. QueuesInv'
    BY <2>2 DEF ResultsInv, QueuesInv
  <2> QED
    BY <2>1, <2>2, <2>3, ShrinkResults
<1> QED
  BY <1>1, <1>2, <1>3, <1>4, <1>5, <1>6, <1>7
     DEF Callback, Respond, PublishEvent

\* No step of the service makes a result false, nor its death.
LEMMA ServiceStepResults ==
    ASSUME TypeOK, ResultsInv, ServiceStep, UNCHANGED clientVars
    PROVE  ResultsInv'
<1>1. ASSUME NEW op \in Ops, DatabaseFailure(op) PROVE ResultsInv'
  <2>1. /\ Ready(op)
        /\ Conclude(op, <<Answer(op, "INTERNAL", Nothing)>>)
        /\ applied' = applied
        /\ UNCHANGED <<pc, call, result>>
    BY <1>1 DEF DatabaseFailure, clientVars
  <2>2. ToSet(<<Answer(op, "INTERNAL", Nothing)>>)
          = {Answer(op, "INTERNAL", Nothing)}
    BY ShortSequences
  <2>3. /\ Answer(op, "INTERNAL", Nothing).req = Request(op).req
        /\ Answer(op, "INTERNAL", Nothing).code = "INTERNAL"
    BY DEF Answer
  <2> QED
    BY <2>1, <2>2, <2>3, ConcludeResults
<1>2. CASE LoseMessage
  <2>1. Pending' \subseteq Pending
    BY <1>2, PendingAfterFlush DEF LoseMessage, TypeOK
  <2>2. queue' = queue /\ UNCHANGED <<applied, pc, call, result>>
    BY <1>2 DEF LoseMessage, clientVars
  <2>3. QueuesInv'
    BY <2>2 DEF ResultsInv, QueuesInv
  <2> QED
    BY <2>1, <2>2, <2>3, ShrinkResults
<1>3. CASE HandleSubscribe
  <2>1. UNCHANGED <<queue, outbuf, handler, applied, pc, call, result>>
    BY <1>3 DEF HandleSubscribe, serviceVars, clientVars
  <2>2. QueuesInv' /\ Pending' = Pending
    BY <2>1 DEF ResultsInv, QueuesInv, Pending
  <2> QED
    BY <2>1, <2>2, ShrinkResults
<1>4. CASE Terminate
  <2>1. /\ \A op \in Ops : queue'[op] = <<>> /\ handler'[op] = <<>>
        /\ outbuf' = <<>>
        /\ UNCHANGED <<applied, pc, call, result>>
    BY <1>4 DEF Terminate, clientVars
  <2>2. /\ \A op \in Ops : ToSet(queue'[op]) = {}
        /\ Pending' = {}
    BY <2>1, ShortSequences DEF Pending
  <2>3. QueuesInv'
    BY <2>1 DEF QueuesInv, OneEach
  <2> QED
    BY <2>1, <2>2, <2>3, ShrinkResults
<1>5. ASSUME NEW op \in Ops, LoseCommand(op) /\ UNCHANGED serviceVars
      PROVE  ResultsInv'
  <2>1. Taken(op) /\ UNCHANGED <<outbuf, handler, applied, pc, call, result>>
    BY <1>5 DEF LoseCommand, Taken, serviceVars, clientVars
  <2>2. QueuesInv'
        /\ \A o \in Ops : ToSet(queue'[o]) \subseteq ToSet(queue[o])
    BY <2>1, TakenQueues DEF ResultsInv
  <2>3. Pending' = Pending
    BY <2>1 DEF Pending
  <2> QED
    BY <2>1, <2>2, <2>3, ShrinkResults
<1> QED
  BY <1>1, <1>2, <1>3, <1>4, <1>5, CallbackResults DEF ServiceStep

-----------------------------------------------------------------------------
(* Steps of the client.                                                    *)

\* What is known of a request that has not sent its command.
LEMMA UnsentRequest ==
    ASSUME TypeOK, ResultsInv, NEW r \in Requests,
           pc[r] \in {"idle", "missed"}
    PROVE  /\ \A o \in Ops : \A d \in ToSet(queue[o]) :
                 d.req \in Requests /\ d.req # r
           /\ \A m \in Pending : m.kind = "reply" =>
                 /\ m.req \in Requests
                 /\ call[m.req] # None
                 /\ pc[m.req] # "idle"
                 /\ m.req # r
           /\ r \notin applied
           /\ result[r] = None
<1>1. ASSUME NEW o \in Ops, NEW d \in ToSet(queue[o])
      PROVE d.req \in Requests /\ d.req # r
  <2>1. d \in Command(o)
    BY ElementsTyped DEF TypeOK, NatsTypeOK
  <2> QED
    BY <2>1 DEF Command, WellFormed, Malformed, ResultsInv, CommandsInv
<1>2. ASSUME NEW m \in Pending, m.kind = "reply"
      PROVE  m.req \in Requests /\ call[m.req] # None
               /\ pc[m.req] # "idle" /\ m.req # r
  <2>1. m \in Message
    BY ElementsTyped DEF Pending, TypeOK, ServiceTypeOK
  <2>2. m.req \in Requests
    BY <1>2, <2>1 DEF Message, Reply, Event
  <2> QED
    BY <1>2, <2>2 DEF ResultsInv, RepliesInv, CallsInv, Started
<1> QED
  BY <1>1, <1>2 DEF ResultsInv, CallsInv

\* A call that has not returned has no definite result.
LEMMA NoneIsNotDefinite == None \notin Definite
  BY NoneIsNoCode DEF Definite, Codes

\* A call that returns on the spot, without a command.
LEMMA ReturnNowResults ==
    ASSUME TypeOK, ResultsInv, NEW r \in Requests, NEW op \in Ops,
           pc[r] \in {"idle", "missed"},
           call'[r] # None, call'[r].op = op,
           \A s \in Requests \ {r} : call'[s] = call[s],
           NEW code \in {"OK", "INTERNAL"}, code = "OK" => op \notin Mutations,
           ReturnNow(r, code), UNCHANGED <<applied, outbuf, handler>>
    PROVE  ResultsInv'
<1>1. /\ queue' = queue
      /\ Pending' = Pending
      /\ pc'[r] = "done" /\ result'[r] = code
      /\ \A s \in Requests \ {r} : pc'[s] = pc[s] /\ result'[s] = result[s]
  BY DEF ReturnNow, TypeOK, ClientTypeOK, Pending
<1>2. CallsInv'
  BY <1>1 DEF ResultsInv, CallsInv, Started
<1>3. CommandsInv'
  BY <1>1, UnsentRequest DEF ResultsInv, CommandsInv, Started
<1>4. QueuesInv'
  BY <1>1 DEF ResultsInv, QueuesInv
<1>5. RepliesInv'
  BY <1>1, UnsentRequest DEF ResultsInv, RepliesInv, Started, IsTrue
<1>6. DefiniteResultsAreTrue'
  BY <1>1 DEF ResultsInv, DefiniteResultsAreTrue
<1> QED
  BY <1>2, <1>3, <1>4, <1>5, <1>6 DEF ResultsInv

\* A call whose command has not been sent sends it, or fails on the spot.
LEMMA SendRequestResults ==
    ASSUME TypeOK, ResultsInv, NEW r \in Requests, NEW op \in Ops,
           NEW u, NEW in,
           [req |-> r, user |-> u, input |-> in, good |-> TRUE] \in Command(op),
           pc[r] \in {"idle", "missed"},
           call'[r] # None, call'[r].op = op, call'[r].user = u,
           \A s \in Requests \ {r} : call'[s] = call[s],
           SendRequest(r, op, u, in),
           UNCHANGED <<applied, outbuf, handler>>
    PROVE  ResultsInv'
<1> DEFINE c == [req |-> r, user |-> u, input |-> in, good |-> TRUE]
<1>0. c.req = r /\ c.user = u /\ c \in Command(op)
  OBVIOUS
<1>1. \A o \in Ops : \A d \in ToSet(queue[o]) :
          d.req \in Requests /\ d.req # r
  BY UnsentRequest
<1>2. \A m \in Pending : m.kind = "reply" => m.req \in Requests /\ m.req # r
  BY UnsentRequest
<1>3. /\ r \notin applied
      /\ result[r] = None
      /\ Pending' = Pending
  BY UnsentRequest DEF Pending
<1>4. CASE /\ Enqueue(op, c)
           /\ pc' = [pc EXCEPT ![r] = "waiting"]
           /\ UNCHANGED result
  <2> HIDE DEF c
  <2>1. queue[op] \in Seq(Command(op)) /\ c \in Command(op)
    BY <1>0 DEF TypeOK, NatsTypeOK
  <2>2. /\ queue'[op] = Append(queue[op], c)
        /\ \A o \in Ops \ {op} : queue'[o] = queue[o]
    BY <1>4 DEF Enqueue, TypeOK, NatsTypeOK
  <2>3. ToSet(queue'[op]) = ToSet(queue[op]) \cup {c}
    BY <2>1, <2>2, AppendElements
  <2>4. OneEach(queue'[op])
    BY <1>0, <1>1, <2>1, <2>2, OneEachAppend DEF ResultsInv, QueuesInv
  <2>5. QueuesInv'
    BY <2>2, <2>4 DEF ResultsInv, QueuesInv
  <2>6. \A s \in Requests \ {r} : pc'[s] = pc[s]
    BY <1>4 DEF TypeOK, ClientTypeOK
  <2>7. pc'[r] = "waiting" /\ result'[r] = None
    BY <1>3, <1>4 DEF TypeOK, ClientTypeOK
  <2>8. CommandsInv'
    <3>1. ASSUME NEW o \in Ops, NEW d \in ToSet(queue[o])
          PROVE  /\ Started(d.req)'
                 /\ call'[d.req].op = o /\ call'[d.req].user = d.user
                 /\ pc'[d.req] \in {"waiting", "done"}
                 /\ d.req \notin applied'
                 /\ result'[d.req] \notin Definite
                 /\ \A m \in Pending' : m.kind = "reply" => m.req # d.req
      BY <1>1, <1>3, <1>4, <2>6 DEF ResultsInv, CommandsInv, Started
    <3>2. /\ Started(r)'
          /\ call'[r].op = op /\ call'[r].user = u
          /\ pc'[r] \in {"waiting", "done"}
          /\ r \notin applied'
          /\ result'[r] \notin Definite
          /\ \A m \in Pending' : m.kind = "reply" => m.req # r
      BY <1>2, <1>3, <2>7, NoneIsNotDefinite DEF Started
    <3>3. \A o \in Ops : \A d \in ToSet(queue'[o]) :
              d \in ToSet(queue[o]) \/ (o = op /\ d.req = r /\ d.user = u)
      BY <1>0, <2>2, <2>3
    <3>4. ASSUME NEW o \in Ops, NEW d \in ToSet(queue'[o])
          PROVE  /\ Started(d.req)'
                 /\ call'[d.req].op = o /\ call'[d.req].user = d.user
                 /\ pc'[d.req] \in {"waiting", "done"}
                 /\ d.req \notin applied'
                 /\ result'[d.req] \notin Definite
                 /\ \A m \in Pending' : m.kind = "reply" => m.req # d.req
      <4>1. CASE d \in ToSet(queue[o])
        BY <3>1, <4>1
      <4>2. CASE o = op /\ d.req = r /\ d.user = u
        BY <3>2, <4>2
      <4> QED
        BY <3>3, <4>1, <4>2
    <3> QED
      BY <3>4 DEF CommandsInv
  <2>9. RepliesInv'
    BY <1>2, <1>3, <2>6 DEF ResultsInv, RepliesInv, Started, IsTrue
  <2>10. CallsInv'
    BY <1>3, <1>4, <2>6, <2>7 DEF ResultsInv, CallsInv, Started
  <2>11. DefiniteResultsAreTrue'
    <3>1. ASSUME NEW s \in Requests \ {r}
          PROVE  result'[s] = result[s] /\ call'[s] = call[s]
      BY <1>4
    <3> QED
      BY <2>7, <3>1, NoneIsNotDefinite
         DEF ResultsInv, DefiniteResultsAreTrue, Definite
  <2> QED
    BY <2>5, <2>8, <2>9, <2>10, <2>11 DEF ResultsInv
<1>5. CASE ReturnNow(r, "INTERNAL")
  BY <1>5, ReturnNowResults
<1> QED
  BY <1>4, <1>5 DEF SendRequest

\* A new call has had no effect, and no command of it waits yet.
LEMMA StartCallResults ==
    ASSUME TypeOK, ResultsInv, NEW r \in Requests, StartCall(r),
           UNCHANGED serviceVars
    PROVE  ResultsInv'
<1>1. PICK g \in Gateways :
          \/ List(r, g)
          \/ \E u \in Users : Get(r, g, u) \/ Delete(r, g, u)
          \/ \E in \in NewUser : Create(r, g, in)
          \/ \E u \in Users, in \in Input \ {NoInput} : Update(r, g, u, in)
  BY DEF StartCall
<1>2. ASSUME NEW op \in Ops, NEW u, Begin(r, g, op, u),
             [gw |-> g, op |-> op, user |-> u] \in Call
      PROVE  /\ pc[r] = "idle"
             /\ call'[r] # None /\ call'[r].op = op /\ call'[r].user = u
             /\ \A s \in Requests \ {r} : call'[s] = call[s]
  BY <1>2, NoneIsNoCall DEF Begin, TypeOK, ClientTypeOK
<1>3. UNCHANGED <<applied, outbuf, handler>>
  BY DEF serviceVars
<1>4. CASE List(r, g)
  BY <1>2, <1>3, <1>4, SendRequestResults
     DEF List, Call, Command, WellFormed, Ops
<1>5. ASSUME NEW u \in Users, Get(r, g, u) PROVE ResultsInv'
  <2>1. /\ pc[r] = "idle"
        /\ call'[r] # None /\ call'[r].op = "get"
        /\ \A s \in Requests \ {r} : call'[s] = call[s]
    BY <1>2, <1>5 DEF Get, Call, Ops
  <2>2. CASE ReturnNow(r, "OK")
    BY <1>3, <2>1, <2>2, ReturnNowResults DEF Ops, Mutations
  <2>3. CASE pc' = [pc EXCEPT ![r] = "missed"] /\ UNCHANGED <<queue, result>>
    <3>1. /\ pc'[r] = "missed"
          /\ \A s \in Requests \ {r} : pc'[s] = pc[s]
          /\ Pending' = Pending
      BY <1>3, <2>3 DEF TypeOK, ClientTypeOK, Pending
    <3>2. CallsInv'
      BY <1>3, <2>1, <2>3, <3>1, UnsentRequest DEF ResultsInv, CallsInv, Started
    <3>3. CommandsInv'
      BY <1>3, <2>1, <2>3, <3>1, UnsentRequest
         DEF ResultsInv, CommandsInv, Started
    <3>4. QueuesInv'
      BY <2>3 DEF ResultsInv, QueuesInv
    <3>5. RepliesInv'
      BY <1>3, <2>1, <3>1, UnsentRequest
         DEF ResultsInv, RepliesInv, Started, IsTrue
    <3>6. DefiniteResultsAreTrue'
      BY <1>3, <2>1, <2>3, UnsentRequest, NoneIsNotDefinite
         DEF ResultsInv, DefiniteResultsAreTrue, Definite
    <3> QED
      BY <3>2, <3>3, <3>4, <3>5, <3>6 DEF ResultsInv
  <2> QED
    BY <1>5, <2>2, <2>3 DEF Get
<1>6. ASSUME NEW u \in Users, Delete(r, g, u) PROVE ResultsInv'
  BY <1>2, <1>3, <1>6, SendRequestResults
     DEF Delete, Call, Command, WellFormed, Ops
<1>7. ASSUME NEW in \in NewUser, Create(r, g, in) PROVE ResultsInv'
  BY <1>2, <1>3, <1>7, SendRequestResults
     DEF Create, Call, Command, WellFormed, Ops
<1>8. ASSUME NEW u \in Users, NEW in \in Input \ {NoInput}, Update(r, g, u, in)
      PROVE  ResultsInv'
  BY <1>2, <1>3, <1>8, SendRequestResults
     DEF Update, Call, Command, WellFormed, Ops
<1> QED
  BY <1>1, <1>4, <1>5, <1>6, <1>7, <1>8

\* Requests in flight end, with an internal error or with what they have.
LEMMA EndResults ==
    ASSUME TypeOK, ResultsInv,
           UNCHANGED <<queue, outbuf, handler, applied, call>>,
           \A r \in Requests :
               \/ pc'[r] = pc[r] /\ result'[r] = result[r]
               \/ /\ pc[r] \in {"missed", "waiting", "answered"}
                  /\ pc'[r] = "done"
                  /\ result'[r] \in {result[r], "INTERNAL"}
    PROVE  ResultsInv'
<1>1. Pending' = Pending /\ QueuesInv'
  BY DEF Pending, ResultsInv, QueuesInv
<1>2. CallsInv'
  BY DEF ResultsInv, CallsInv, Started
<1>3. CommandsInv'
  <2>1. ASSUME NEW o \in Ops, NEW d \in ToSet(queue[o])
        PROVE  /\ d.req \in Requests
               /\ pc'[d.req] \in {"waiting", "done"}
               /\ result'[d.req] \notin Definite
    <3>1. d \in Command(o)
      BY ElementsTyped DEF TypeOK, NatsTypeOK
    <3>2. d.req \in Requests
      BY <3>1 DEF Command, WellFormed, Malformed
    <3> QED
      BY <3>2 DEF ResultsInv, CommandsInv, Definite
  <2> QED
    BY <1>1, <2>1 DEF ResultsInv, CommandsInv, Started
<1>4. RepliesInv'
  <2>1. ASSUME NEW m \in Pending, m.kind = "reply" PROVE m.req \in Requests
    <3>1. m \in Message
      BY ElementsTyped DEF Pending, TypeOK, ServiceTypeOK
    <3> QED
      BY <2>1, <3>1 DEF Message, Reply, Event
  <2>2. ASSUME NEW m \in Pending, m.kind = "reply" PROVE pc'[m.req] # "missed"
    BY <2>1, <2>2 DEF ResultsInv, RepliesInv
  <2> QED
    BY <1>1, <2>2 DEF ResultsInv, RepliesInv, Started, IsTrue
<1>5. DefiniteResultsAreTrue'
  BY DEF ResultsInv, DefiniteResultsAreTrue
<1> QED
  BY <1>1, <1>2, <1>3, <1>4, <1>5 DEF ResultsInv

\* No step of a gateway makes a result false, nor its restart.
LEMMA ClientStepResults ==
    ASSUME TypeOK, ResultsInv, ClientStep, UNCHANGED serviceVars
    PROVE  ResultsInv'
<1>0. UNCHANGED <<outbuf, handler, applied>>
  BY DEF serviceVars
<1>1. ASSUME NEW r \in Requests, FetchMissed(r) PROVE ResultsInv'
  <2>1. call[r] \in [gw : Gateways, op : {"get"}, user : Users]
        /\ pc[r] = "missed"
    BY <1>1 DEF FetchMissed, TypeOK, ClientTypeOK
  <2>2. call[r] # None /\ call[r].op = "get" /\ call' = call
    BY <1>1, <2>1, NoneIsNoCall DEF FetchMissed, Call
  <2>3. [req |-> r, user |-> call[r].user, input |-> NoInput, good |-> TRUE]
            \in Command("get")
    BY <2>1 DEF Command, WellFormed
  <2>4. SendRequest(r, "get", call[r].user, NoInput)
    BY <1>1 DEF FetchMissed
  <2> QED
    BY <1>0, <2>1, <2>2, <2>3, <2>4, SendRequestResults DEF Ops
<1>2. ASSUME NEW r \in Requests, Timeout(r) PROVE ResultsInv'
  BY <1>0, <1>2, EndResults
     DEF Timeout, natsVars, TypeOK, ClientTypeOK
<1>3. ASSUME NEW r \in Requests, ReturnAnswer(r) PROVE ResultsInv'
  BY <1>0, <1>3, EndResults
     DEF ReturnAnswer, natsVars, TypeOK, ClientTypeOK
<1>4. ASSUME NEW r \in Requests, NEW u \in Users, StoreAnswer(r, u)
      PROVE  ResultsInv'
  BY <1>0, <1>4, EndResults
     DEF StoreAnswer, natsVars, TypeOK, ClientTypeOK
<1>5. ASSUME NEW g \in Gateways, NEW s \in Mutations,
             ApplyCacheEvent(g, s) \/ LoseEvent(g, s)
      PROVE  ResultsInv'
  BY <1>0, <1>5, EndResults
     DEF ApplyCacheEvent, LoseEvent, natsVars
<1>6. ASSUME NEW g \in Gateways, RestartGateway(g) PROVE ResultsInv'
  <2>1. \A r \in Requests :
            \/ pc'[r] = pc[r] /\ result'[r] = result[r]
            \/ /\ pc[r] \in {"missed", "waiting", "answered"}
               /\ pc'[r] = "done"
               /\ result'[r] = "INTERNAL"
    BY <1>6 DEF RestartGateway
  <2> QED
    BY <1>0, <1>6, <2>1, EndResults DEF RestartGateway
<1>7. ASSUME NEW g \in Gateways, SubscribeUserEvents(g) PROVE ResultsInv'
  BY <1>0, <1>7, EndResults DEF SubscribeUserEvents, natsVars
<1> QED
  BY <1>1, <1>2, <1>3, <1>4, <1>5, <1>6, <1>7, StartCallResults DEF ClientStep

-----------------------------------------------------------------------------
(* Delivery, and the theorem.                                              *)

\* An answer that arrives is right, and no command of its request waits.
LEMMA DeliverResults ==
    ASSUME TypeOK, ResultsInv, Deliver PROVE ResultsInv'
<1> DEFINE m == Head(outbuf)
<1>1. /\ outbuf # <<>>
      /\ outbuf' = Tail(outbuf)
      /\ UNCHANGED <<queue, handler, applied>>
  BY DEF Deliver, Flush, natsVars
<1>2. Pending' \subseteq Pending /\ m \in Pending /\ m \in Message
  BY <1>1, PendingAfterFlush DEF TypeOK
<1>3. QueuesInv'
  BY <1>1 DEF ResultsInv, QueuesInv
<1>4. CASE /\ m.kind = "reply"
           /\ pc[m.req] = "waiting"
  <2> DEFINE r == m.req
  <2>1. r \in Requests
    BY <1>2, <1>4 DEF Message, Reply, Event
  <2>2. Started(r) /\ IsTrue(r, m.code)
    BY <1>2, <1>4 DEF ResultsInv, RepliesInv
  <2>3. \A op \in Ops : \A c \in ToSet(queue[op]) : c.req # r
    BY <1>2, <1>4 DEF ResultsInv, CommandsInv
  <2>4. /\ pc' = [pc EXCEPT ![r] = "answered"]
        /\ result' = [result EXCEPT ![r] = m.code]
        /\ call' = call
    BY <1>4 DEF Deliver, Accept
  <2> HIDE DEF m, r
  <2>5. /\ pc'[r] = "answered"
        /\ result'[r] = m.code
        /\ \A s : s # r => pc'[s] = pc[s] /\ result'[s] = result[s]
    BY <2>1, <2>4 DEF TypeOK, ClientTypeOK
  <2>6. CallsInv'
    BY <1>1, <2>1, <2>2, <2>4, <2>5, <1>4 DEF ResultsInv, CallsInv, Started
  <2>7. CommandsInv'
    BY <1>1, <1>2, <2>3, <2>4, <2>5 DEF ResultsInv, CommandsInv, Started
  <2>8. RepliesInv'
    BY <1>1, <1>2, <2>4, <2>5 DEF ResultsInv, RepliesInv, Started, IsTrue
  <2>9. DefiniteResultsAreTrue'
    BY <1>1, <2>1, <2>2, <2>4, <2>5
       DEF ResultsInv, DefiniteResultsAreTrue, IsTrue
  <2> QED
    BY <1>3, <2>6, <2>7, <2>8, <2>9 DEF ResultsInv
<1>5. CASE ~(m.kind = "reply" /\ pc[m.req] = "waiting")
  <2>1. UNCHANGED <<pc, call, result>>
    BY <1>5 DEF Deliver, Accept, Distribute
  <2>2. \A op \in Ops : ToSet(queue'[op]) \subseteq ToSet(queue[op])
    BY <1>1
  <2> QED
    BY <1>1, <1>2, <1>3, <2>1, <2>2, ShrinkResults
<1> QED
  BY <1>4, <1>5

\* Before any call there is nothing to be right about.
LEMMA InitResults == Init => ResultsInv
<1> SUFFICES ASSUME Init PROVE ResultsInv
  OBVIOUS
<1>1. /\ \A op \in Ops : queue[op] = <<>> /\ handler[op] = <<>>
      /\ outbuf = <<>>
      /\ applied = {}
      /\ \A r \in Requests : pc[r] = "idle" /\ call[r] = None
                               /\ result[r] = None
  BY DEF Init, NatsInit, ServiceInit, ClientInit
<1>2. /\ \A op \in Ops : ToSet(queue[op]) = {}
      /\ Pending = {}
  BY <1>1, ShortSequences DEF Pending
<1>3. CallsInv /\ CommandsInv /\ RepliesInv
  BY <1>1, <1>2 DEF CallsInv, CommandsInv, RepliesInv, Started
<1>4. QueuesInv
  BY <1>1 DEF QueuesInv, OneEach
<1>5. DefiniteResultsAreTrue
  BY <1>1, NoneIsNotDefinite DEF DefiniteResultsAreTrue, Definite
<1> QED
  BY <1>3, <1>4, <1>5 DEF ResultsInv

\* ResultsInv is inductive.
LEMMA NextResults ==
    ASSUME TypeOK, ResultsInv, [Next]_vars PROVE ResultsInv'
<1>1. CASE UNCHANGED vars
  <2>1. UNCHANGED <<queue, outbuf, handler, applied, pc, call, result>>
    BY <1>1 DEF vars, natsVars, serviceVars, clientVars
  <2>2. Pending' = Pending /\ QueuesInv'
    BY <2>1 DEF Pending, ResultsInv, QueuesInv
  <2> QED
    BY <2>1, <2>2, ShrinkResults
<1>2. CASE Next
  BY <1>2, ServiceStepResults, ClientStepResults, DeliverResults DEF Next
<1> QED
  BY <1>1, <1>2

\* The invariant that carries the argument holds in every reachable state.
THEOREM ResultsInvariant == Spec => []ResultsInv
  BY InitTypes, InitResults, NextTypes, NextResults, PTL DEF Spec

\* A create, update or delete that returned OK took effect; one that returned
\* 400 or 404 did not and never will, crashes and losses included.
THEOREM ResultsAreTrue == Spec => []DefiniteResultsAreTrue
<1>1. ResultsInv => DefiniteResultsAreTrue
  BY DEF ResultsInv
<1> QED
  BY <1>1, ResultsInvariant, PTL
=============================================================================
