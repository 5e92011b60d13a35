-------------------------- MODULE UserSystemTheorems --------------------------
(***************************************************************************)
(* What caches hold, for any number of users, requests, gateways and       *)
(* faults (OnlyCommittedRows and CacheCoherentUnlessRaced), and that the   *)
(* program implements UserDirectory, with what follows from that.          *)
(*                                                                         *)
(* RowsInv adds the places a row passes through before a request or a      *)
(* cache has it: the table, the handlers and the write buffer.             *)
(* CoherenceInv says of all that is on its way to a cache what it will do  *)
(* there: an answer carries the row as it is, and so does an event, or it  *)
(* is an update that a newer one follows.  HearingInv adds that a gateway  *)
(* which hears no event yet has nothing an event could put out of date.    *)
(*                                                                         *)
(* A statement is the directory's Apply: ResultsInv says that its command  *)
(* was not carried out before, is the only one of its request (so that Due *)
(* is its input) and has not returned a definite answer, DirInv that the   *)
(* row it writes is new and the table's e-mails unique.                    *)
(***************************************************************************)
EXTENDS UserSystemProofs

\* Values that were once the row of u, or its absence.
Known(u) == history[u] \cup {None}

\* What a message says was once true.
Says(m) ==
    /\ m.kind = "reply" => \A u \in Users : m.rows[u] \in Known(u)
    /\ m.kind = "event" => m.row \in Known(m.user)

TableKnown == \A u \in Users : table[u] \in Known(u)
PendingKnown == \A m \in Pending : Says(m)
CachesKnown == \A g \in Gateways, u \in Users : cache[g][u] \in Known(u)
AnswersKnown == \A r \in Requests, u \in Users : left[r][u] \in Known(u)
EventsKnown ==
    \A g \in Gateways, s \in Mutations :
        \A e \in ToSet(events[g][s]) : e.row \in Known(e.user)

ServiceRows == TableKnown /\ PendingKnown
ClientRows == CachesKnown /\ AnswersKnown /\ EventsKnown

RowsInv == ServiceRows /\ ClientRows

\* A row once committed has been committed for ever.
HistoryGrows == \A u \in Users : history[u] \subseteq history'[u]

-----------------------------------------------------------------------------
(* Steps of the service.                                                   *)

\* What was true of the past stays true.
LEMMA SaysForEver ==
    ASSUME NEW m \in Message, Says(m), HistoryGrows
    PROVE  Says(m)'
  BY DEF Says, Known, HistoryGrows, Message, Event, Reply

\* Messages on their way are typed.
LEMMA PendingTyped ==
    ASSUME TypeOK PROVE Pending \subseteq Message
<1>1. outbuf \in Seq(Message) /\ \A op \in Ops : handler[op] \in Seq(Message)
  BY DEF TypeOK, ServiceTypeOK
<1>2. ToSet(outbuf) \subseteq Message
  BY <1>1, ElementsTyped
<1>3. \A op \in Ops : ToSet(handler[op]) \subseteq Message
  BY <1>1, ElementsTyped
<1> QED
  BY <1>2, <1>3 DEF Pending

\* Messages disappear, the table stays.
LEMMA ShrinkRows ==
    ASSUME ServiceRows, Pending' \subseteq Pending,
           UNCHANGED <<table, history>>
    PROVE  HistoryGrows /\ ServiceRows'
  BY DEF ServiceRows, HistoryGrows, TableKnown, PendingKnown, Says, Known

\* A handler concludes with messages that speak of the table it saw.
LEMMA ConcludeRows ==
    ASSUME TypeOK, ServiceRows, NEW op \in Ops, NEW messages,
           Conclude(op, messages), HistoryGrows, TableKnown',
           \A m \in ToSet(messages) : Says(m)'
    PROVE  HistoryGrows /\ ServiceRows'
<1>1. Pending' \subseteq Pending \cup ToSet(messages)
  BY PendingAfterConclude DEF TypeOK
<1>2. \A m \in Pending : Says(m)'
  BY PendingTyped, SaysForEver DEF ServiceRows, PendingKnown
<1> QED
  BY <1>1, <1>2 DEF ServiceRows, PendingKnown

\* An answer alone carries no row, or rows as they are in the table.
LEMMA ReplyOnlyRows ==
    ASSUME TypeOK, ServiceRows, NEW op \in Ops, NEW code, NEW rows,
           \A u \in Users : rows[u] \in {None, table[u]},
           Conclude(op, <<Answer(op, code, rows)>>),
           UNCHANGED <<table, history>>
    PROVE  HistoryGrows /\ ServiceRows'
<1>1. HistoryGrows /\ TableKnown'
  BY DEF HistoryGrows, ServiceRows, TableKnown, Known
<1>2. \A u \in Users : rows[u] \in Known(u)'
  BY DEF ServiceRows, TableKnown, Known
<1>3. ASSUME NEW m, m = Answer(op, code, rows) PROVE Says(m)'
  BY <1>2, <1>3 DEF Answer, Says
<1>4. ToSet(<<Answer(op, code, rows)>>) = {Answer(op, code, rows)}
  BY ShortSequences
<1> QED
  BY <1>1, <1>3, <1>4, ConcludeRows

\* A commit puts the new row on record before anybody is told of it.
LEMMA CommitRows ==
    ASSUME TypeOK, ServiceRows, NEW op \in Ops, NEW u \in Users, NEW row,
           Commit(op, u, row)
    PROVE  HistoryGrows /\ ServiceRows'
<1>1. /\ table' = [table EXCEPT ![u] = row]
      /\ history' = [history EXCEPT ![u] = @ \cup ({row} \ {None})]
  BY DEF Commit
<1>2. HistoryGrows
  BY <1>1 DEF HistoryGrows, TypeOK, ServiceTypeOK
<1>3. row \in Known(u)'
  BY <1>1 DEF Known, TypeOK, ServiceTypeOK
<1>4. TableKnown'
  BY <1>1, <1>2, <1>3
     DEF ServiceRows, TableKnown, Known, HistoryGrows, TypeOK, ServiceTypeOK,
         Rows
<1>5. CASE Conclude(op, <<Answer(op, "OK", Only(u, row)),
                          Announcement(op, u, row)>>)
  <2>1. ToSet(<<Answer(op, "OK", Only(u, row)), Announcement(op, u, row)>>)
          = {Answer(op, "OK", Only(u, row)), Announcement(op, u, row)}
    BY ShortSequences
  <2>2. \A v \in Users : Only(u, row)[v] \in Known(v)'
    BY <1>3 DEF Only, Nothing, Known
  <2>3. ASSUME NEW m, m = Answer(op, "OK", Only(u, row)) PROVE Says(m)'
    BY <2>2, <2>3 DEF Answer, Says
  <2>4. ASSUME NEW m, m = Announcement(op, u, row) PROVE Says(m)'
    BY <1>3, <2>4 DEF Announcement, Says
  <2> QED
    BY <1>2, <1>4, <1>5, <2>1, <2>3, <2>4, ConcludeRows
<1>6. CASE Conclude(op, <<Answer(op, "INTERNAL", Nothing)>>)
  <2>1. ToSet(<<Answer(op, "INTERNAL", Nothing)>>)
          = {Answer(op, "INTERNAL", Nothing)}
    BY ShortSequences
  <2>2. ASSUME NEW m, m = Answer(op, "INTERNAL", Nothing) PROVE Says(m)'
    BY <2>2 DEF Answer, Says, Nothing, Known
  <2> QED
    BY <1>2, <1>4, <1>6, <2>1, <2>2, ConcludeRows
<1> QED
  BY <1>5, <1>6 DEF Commit

\* No handler says anything that was never so.
LEMMA CallbackRows ==
    ASSUME TypeOK, ServiceRows, NEW op \in Ops, Callback(op)
    PROVE  HistoryGrows /\ ServiceRows'
<1> USE DEF Ops
<1> DEFINE NewRow == Commit("update", Request("update").user,
                            UpdatedRow(table[Request("update").user],
                                       Request("update").input, clock + 1))
<1>0. \A u \in Users : Nothing[u] \in {None, table[u]}
  BY DEF Nothing
<1>1. CASE RejectMalformed(op)
  BY <1>0, <1>1, ReplyOnlyRows DEF RejectMalformed, ReplyOnly
<1>2. CASE HandleListUsers
  BY <1>2, ReplyOnlyRows DEF HandleListUsers, ReplyOnly
<1>3. CASE HandleCreateUser
  <2>1. PICK u \in UnusedIds(history) :
           IF EmailTaken(table, u, Request("create").input.email)
           THEN ReplyOnly("create", "BAD_REQUEST", Nothing)
           ELSE Commit("create", u,
                       InsertedRow(Request("create").input, clock + 1))
    BY <1>3 DEF HandleCreateUser
  <2>2. u \in Users
    BY DEF UnusedIds
  <2> QED
    BY <1>0, <2>1, <2>2, ReplyOnlyRows, CommitRows DEF ReplyOnly
<1>4. CASE HandleGetUser
  <2> DEFINE v == Request("get").user
  <2>1. \A u \in Users : Only(v, table[v])[u] \in {None, table[u]}
    BY DEF Only, Nothing
  <2>2. \/ ReplyOnly("get", "NOT_FOUND", Nothing)
        \/ ReplyOnly("get", "OK", Only(v, table[v]))
    BY <1>4 DEF HandleGetUser
  <2> HIDE DEF v
  <2> QED
    BY <1>0, <2>1, <2>2, ReplyOnlyRows DEF ReplyOnly
<1>5. CASE HandleUpdateUser
  <2>1. Request("update").user \in Users
    BY <1>5, RequestTyped DEF HandleUpdateUser, TypeOK, ServiceTypes, WellFormed
  <2>2. \/ ReplyOnly("update", "BAD_REQUEST", Nothing)
        \/ ReplyOnly("update", "NOT_FOUND", Nothing)
        \/ NewRow
    BY <1>5 DEF HandleUpdateUser
  <2> QED
    BY <1>0, <2>1, <2>2, ReplyOnlyRows, CommitRows DEF ReplyOnly
<1>6. CASE HandleDeleteUser
  <2>1. Request("delete").user \in Users
    BY <1>6, RequestTyped DEF HandleDeleteUser, TypeOK, ServiceTypes, WellFormed
  <2>2. \/ ReplyOnly("delete", "NOT_FOUND", Nothing)
        \/ Commit("delete", Request("delete").user, None)
    BY <1>6 DEF HandleDeleteUser
  <2> QED
    BY <1>0, <2>1, <2>2, ReplyOnlyRows, CommitRows DEF ReplyOnly
<1>7. ASSUME NEW kind, Send(op, kind) PROVE HistoryGrows /\ ServiceRows'
  <2>1. Pending' \subseteq Pending
    BY <1>7, PendingAfterSend DEF TypeOK
  <2>2. UNCHANGED <<table, history>>
    BY <1>7 DEF Send
  <2> QED
    BY <2>1, <2>2, ShrinkRows
<1> QED
  BY <1>1, <1>2, <1>3, <1>4, <1>5, <1>6, <1>7
     DEF Callback, Respond, PublishEvent

\* Nor does any other step of the service; what dies with it is not said.
LEMMA ServiceStepRows ==
    ASSUME TypeOK, ServiceRows, ServiceStep
    PROVE  HistoryGrows /\ ServiceRows'
<1>1. ASSUME NEW op \in Ops, DatabaseFailure(op)
      PROVE  HistoryGrows /\ ServiceRows'
  <2>1. \A u \in Users : Nothing[u] \in {None, table[u]}
    BY DEF Nothing
  <2> QED
    BY <1>1, <2>1, ReplyOnlyRows DEF DatabaseFailure
<1>2. CASE LoseMessage
  BY <1>2, PendingAfterFlush, ShrinkRows DEF LoseMessage, TypeOK
<1>3. CASE HandleSubscribe
  <2>1. Pending' = Pending /\ UNCHANGED <<table, history>>
    BY <1>3 DEF HandleSubscribe, serviceVars, Pending
  <2> QED
    BY <2>1, ShrinkRows
<1>4. CASE Terminate
  <2>1. /\ \A op \in Ops : handler'[op] = <<>>
        /\ outbuf' = <<>>
        /\ UNCHANGED <<table, history>>
    BY <1>4 DEF Terminate
  <2>2. Pending' = {}
    BY <2>1, ShortSequences DEF Pending
  <2> QED
    BY <2>1, <2>2, ShrinkRows
<1>5. ASSUME NEW op \in Ops, UNCHANGED serviceVars
      PROVE  HistoryGrows /\ ServiceRows'
  <2>1. Pending' = Pending /\ UNCHANGED <<table, history>>
    BY <1>5 DEF serviceVars, Pending
  <2> QED
    BY <2>1, ShrinkRows
<1> QED
  BY <1>1, <1>2, <1>3, <1>4, <1>5, CallbackRows DEF ServiceStep

-----------------------------------------------------------------------------
(* Steps of the gateways.                                                  *)

\* What is not touched stays true.
LEMMA ClientRowsForEver ==
    ASSUME ClientRows, HistoryGrows, TypeOK, UNCHANGED <<cache, left, events>>
    PROVE  ClientRows'
<1>1. CachesKnown' /\ AnswersKnown'
  BY DEF ClientRows, CachesKnown, AnswersKnown, HistoryGrows, Known
<1>2. ASSUME NEW g \in Gateways, NEW s \in Mutations,
             NEW e \in ToSet(events[g][s])
      PROVE  e.row \in Known(e.user)'
  <2>1. e \in Event
    BY ElementsTyped DEF TypeOK, ClientTypeOK
  <2> QED
    BY <2>1 DEF ClientRows, EventsKnown, HistoryGrows, Known, Event
<1> QED
  BY <1>1, <1>2 DEF ClientRows, EventsKnown

\* An event leaves a queue, and speaks of its own user.
LEMMA TakeEventRows ==
    ASSUME TypeOK, EventsKnown, NEW g \in Gateways, NEW s \in Mutations,
           events[g][s] # <<>>,
           events' = [events EXCEPT ![g][s] = Tail(@)],
           history' = history
    PROVE  /\ EventsKnown'
           /\ Head(events[g][s]) \in Event
           /\ Head(events[g][s]).row \in Known(Head(events[g][s]).user)
<1>1. events[g][s] \in Seq(Event)
  BY DEF TypeOK, ClientTypeOK
<1>2. /\ Head(events[g][s]) \in Event
      /\ ToSet(events[g][s])
            = {Head(events[g][s])} \cup ToSet(Tail(events[g][s]))
  BY <1>1, TailElements
<1>3. \A h \in Gateways, t \in Mutations :
          events'[h][t] = IF h = g /\ t = s THEN Tail(events[g][s])
                                            ELSE events[h][t]
  BY DEF TypeOK, ClientTypeOK
<1>4. \A h \in Gateways, t \in Mutations :
          ToSet(events'[h][t]) \subseteq ToSet(events[h][t])
  BY <1>2, <1>3
<1>5. EventsKnown'
  BY <1>4 DEF EventsKnown, Known
<1> QED
  BY <1>2, <1>5 DEF EventsKnown

\* A gateway only moves rows about.
LEMMA ClientStepRows ==
    ASSUME TypeOK, RowsInv, ClientStep, UNCHANGED serviceVars
    PROVE  RowsInv'
<1>1. history' = history /\ HistoryGrows /\ ServiceRows'
  <2>1. Pending' = Pending /\ UNCHANGED <<table, history>>
    BY DEF serviceVars, Pending
  <2> QED
    BY <2>1, ShrinkRows DEF RowsInv
<1> SUFFICES ClientRows'
  BY <1>1 DEF RowsInv
<1>2. ASSUME UNCHANGED <<cache, left, events>> PROVE ClientRows'
  BY <1>1, <1>2, ClientRowsForEver DEF RowsInv
<1>3. ASSUME NEW g \in Gateways, SubscribeUserEvents(g) PROVE ClientRows'
  BY <1>2, <1>3 DEF SubscribeUserEvents
<1>4. ASSUME NEW r \in Requests, StartCall(r) PROVE ClientRows'
  BY <1>2, <1>4
     DEF StartCall, List, Get, Create, Update, Delete, Begin
<1>5. ASSUME NEW r \in Requests, FetchMissed(r) \/ Timeout(r)
      PROVE  ClientRows'
  BY <1>2, <1>5 DEF FetchMissed, Timeout
<1>6. ASSUME NEW r \in Requests, ReturnAnswer(r) PROVE ClientRows'
  <2>1. \A g \in Gateways, u \in Users : cache'[g][u] \in {None, cache[g][u]}
    BY <1>6 DEF ReturnAnswer, TypeOK, ClientTypeOK, Rows
  <2>2. UNCHANGED <<left, events>>
    BY <1>6 DEF ReturnAnswer
  <2> QED
    BY <1>1, <2>1, <2>2
       DEF RowsInv, ClientRows, CachesKnown, AnswersKnown, EventsKnown, Known
<1>7. ASSUME NEW r \in Requests, NEW u \in Users, StoreAnswer(r, u)
      PROVE  ClientRows'
  <2>1. \A g \in Gateways, v \in Users :
            \/ cache'[g][v] = cache[g][v]
            \/ v = u /\ cache'[g][v] = left[r][u]
    BY <1>7 DEF StoreAnswer, TypeOK, ClientTypeOK, Rows
  <2>2. \A q \in Requests, v \in Users : left'[q][v] \in {None, left[q][v]}
    BY <1>7 DEF StoreAnswer, TypeOK, ClientTypeOK, Rows
  <2>3. events' = events
    BY <1>7 DEF StoreAnswer
  <2> QED
    BY <1>1, <2>1, <2>2, <2>3
       DEF RowsInv, ClientRows, CachesKnown, AnswersKnown, EventsKnown, Known
<1>8. ASSUME NEW g \in Gateways, NEW s \in Mutations, ApplyCacheEvent(g, s)
      PROVE  ClientRows'
  <2> DEFINE e == Head(events[g][s])
  <2>1. /\ events[g][s] # <<>>
        /\ events' = [events EXCEPT ![g][s] = Tail(@)]
        /\ cache' = [cache EXCEPT ![g][e.user] = e.row]
        /\ left' = left
    BY <1>8 DEF ApplyCacheEvent
  <2>2. EventsKnown' /\ e \in Event /\ e.row \in Known(e.user)
    BY <1>1, <2>1, TakeEventRows DEF RowsInv, ClientRows
  <2> HIDE DEF e
  <2>3. \A h \in Gateways, v \in Users :
            \/ cache'[h][v] = cache[h][v]
            \/ v = e.user /\ cache'[h][v] = e.row
    BY <2>1, <2>2 DEF TypeOK, ClientTypeOK, Rows, Event
  <2> QED
    BY <1>1, <2>1, <2>2, <2>3
       DEF RowsInv, ClientRows, CachesKnown, AnswersKnown, Known
<1>9. ASSUME NEW g \in Gateways, NEW s \in Mutations, LoseEvent(g, s)
      PROVE  ClientRows'
  <2>1. EventsKnown' /\ UNCHANGED <<cache, left>>
    BY <1>1, <1>9, TakeEventRows DEF LoseEvent, RowsInv, ClientRows
  <2> QED
    BY <1>1, <2>1
       DEF RowsInv, ClientRows, CachesKnown, AnswersKnown, Known
<1>10. ASSUME NEW g \in Gateways, RestartGateway(g) PROVE ClientRows'
  <2>1. \A h \in Gateways, v \in Users : cache'[h][v] \in {None, cache[h][v]}
    BY <1>10 DEF RestartGateway, Nothing, TypeOK, ClientTypeOK
  <2>2. \A q \in Requests, v \in Users : left'[q][v] \in {None, left[q][v]}
    BY <1>10 DEF RestartGateway, Nothing
  <2>3. \A h \in Gateways, s \in Mutations :
            events'[h][s] = events[h][s] \/ events'[h][s] = <<>>
    BY <1>10 DEF RestartGateway, TypeOK, ClientTypeOK
  <2>4. EventsKnown'
    BY <1>1, <2>3, ShortSequences
       DEF RowsInv, ClientRows, EventsKnown, Known
  <2> QED
    BY <1>1, <2>1, <2>2, <2>4
       DEF RowsInv, ClientRows, CachesKnown, AnswersKnown, Known
<1> QED
  BY <1>4, <1>5, <1>6, <1>7, <1>8, <1>9, <1>10, <1>3 DEF ClientStep

-----------------------------------------------------------------------------
(* Delivery, and the theorem.                                              *)

\* What arrives is what was said.
LEMMA DeliverRows ==
    ASSUME TypeOK, RowsInv, Deliver PROVE RowsInv'
<1> DEFINE m == Head(outbuf)
<1>1. /\ outbuf # <<>>
      /\ outbuf' = Tail(outbuf)
      /\ UNCHANGED <<handler, table, history>>
  BY DEF Deliver, Flush
<1>2. Pending' \subseteq Pending /\ m \in Pending /\ m \in Message
  BY <1>1, PendingAfterFlush DEF TypeOK
<1>3. HistoryGrows /\ ServiceRows'
  BY <1>1, <1>2, ShrinkRows DEF RowsInv
<1>4. Says(m)
  BY <1>2 DEF RowsInv, ServiceRows, PendingKnown
<1>5. CASE m.kind = "reply"
  <2>1. m \in Reply
    BY <1>2, <1>5 DEF Message, Event
  <2>2. Accept(m)
    BY <1>5 DEF Deliver
  <2> HIDE DEF m
  <2>3. /\ UNCHANGED <<cache, events>>
        /\ \A r \in Requests, u \in Users :
              left'[r][u] \in {left[r][u], m.rows[u]}
    BY <2>1, <2>2 DEF Accept, Reply, TypeOK, ClientTypeOK
  <2> QED
    BY <1>1, <1>3, <1>4, <1>5, <2>3
       DEF RowsInv, ClientRows, CachesKnown, AnswersKnown, EventsKnown,
           Says, Known
<1>6. CASE m.kind # "reply"
  <2>1. m \in Event /\ m.kind = "event"
    BY <1>2, <1>6 DEF Message, Reply, Event
  <2>2. Distribute(m)
    BY <1>6 DEF Deliver
  <2> HIDE DEF m
  <2>3. ASSUME NEW g \in Gateways, NEW s \in Mutations
        PROVE  ToSet(events'[g][s]) \subseteq ToSet(events[g][s]) \cup {m}
    <3>1. events[g][s] \in Seq(Event)
      BY DEF TypeOK, ClientTypeOK
    <3>2. events'[g][s] \in {events[g][s], Append(events[g][s], m)}
      BY <2>2 DEF Distribute, TypeOK, ClientTypeOK
    <3>3. ToSet(Append(events[g][s], m)) = ToSet(events[g][s]) \cup {m}
      BY <2>1, <3>1, AppendElements
    <3> QED
      BY <3>2, <3>3
  <2>4. EventsKnown'
    BY <1>1, <1>4, <2>1, <2>3
       DEF RowsInv, ClientRows, EventsKnown, Says, Known
  <2> QED
    BY <1>1, <1>3, <2>2, <2>4
       DEF Distribute, RowsInv, ClientRows, CachesKnown, AnswersKnown, Known
<1> QED
  BY <1>5, <1>6

\* The rows an earlier life has left are on record from the start.
LEMMA InitRows == Init => RowsInv
<1> SUFFICES ASSUME Init PROVE RowsInv
  OBVIOUS
<1>1. /\ \A op \in Ops : handler[op] = <<>>
      /\ outbuf = <<>>
      /\ cache = [g \in Gateways |-> Nothing]
      /\ events = [g \in Gateways |-> [s \in Mutations |-> <<>>]]
      /\ left = [r \in Requests |-> Nothing]
      /\ history = [u \in Users |-> {table[u]} \ {None}]
  BY DEF Init, ServiceInit, ClientInit
<1>2. Pending = {}
  BY <1>1, ShortSequences DEF Pending
<1>3. ServiceRows
  BY <1>1, <1>2 DEF ServiceRows, TableKnown, PendingKnown, Known
<1>4. CachesKnown /\ AnswersKnown
  BY <1>1 DEF CachesKnown, AnswersKnown, Nothing, Known
<1>5. EventsKnown
  BY <1>1, ShortSequences DEF EventsKnown
<1> QED
  BY <1>3, <1>4, <1>5 DEF RowsInv, ClientRows

\* RowsInv is inductive.
LEMMA NextRows ==
    ASSUME TypeOK, RowsInv, [Next]_vars PROVE RowsInv'
<1>1. CASE UNCHANGED vars
  <2>1. /\ Pending' = Pending
        /\ UNCHANGED <<table, history, cache, left, events>>
    BY <1>1 DEF vars, serviceVars, clientVars, Pending
  <2> QED
    BY <2>1, ShrinkRows, ClientRowsForEver DEF RowsInv
<1>2. CASE ServiceStep /\ UNCHANGED clientVars
  <2>1. HistoryGrows /\ ServiceRows'
    BY <1>2, ServiceStepRows DEF RowsInv
  <2>2. UNCHANGED <<cache, left, events>>
    BY <1>2 DEF clientVars
  <2> QED
    BY <2>1, <2>2, ClientRowsForEver DEF RowsInv
<1> QED
  BY <1>1, <1>2, ClientStepRows, DeliverRows DEF Next

\* Only what the table once held is ever cached, answered or announced.
THEOREM RowsAreCommitted == Spec => []OnlyCommittedRows
<1>1. ASSUME TypeOK, RowsInv PROVE OnlyCommittedRows
  <2>1. ASSUME NEW g \in Gateways, NEW u \in Users,
               NEW e \in EventsInFlight(g, u)
        PROVE  e.row \in history[u] \cup {None}
    <3>1. CASE e \in Pending /\ e.kind = "event" /\ e.user = u
      BY <1>1, <3>1 DEF RowsInv, ServiceRows, PendingKnown, Says, Known
    <3>2. ASSUME NEW s \in Mutations, e \in ToSet(events[g][s]), e.user = u
          PROVE  e.row \in history[u] \cup {None}
      BY <1>1, <3>2 DEF RowsInv, ClientRows, EventsKnown, Known
    <3> QED
      BY <2>1, <3>1, <3>2 DEF EventsInFlight
  <2> QED
    BY <1>1, <2>1
       DEF RowsInv, ClientRows, CachesKnown, AnswersKnown, Known,
           OnlyCommittedRows
<1> QED
  BY <1>1, InitTypes, InitRows, NextTypes, NextRows, PTL DEF Spec
-----------------------------------------------------------------------------
(* Coherence: what a step says, stores or drops about a user neither raced *)
(* nor lost.                                                               *)

TableDated == \A u \in Users : table[u] # None => table[u].stamp <= clock

\* Each subscription is given the events of its subject.
EventsFiled ==
    \A g \in Gateways, s \in Mutations :
        \A e \in ToSet(events[g][s]) : e.subject = s

Current(u, row) == row \in {None, table[u]}

\* Answers that will be stored carry the row as it is.
AnswersCurrent(u) ==
    /\ \A r \in Requests : Current(u, left[r][u])
    /\ \A m \in Pending :
          m.kind = "reply" /\ pc[m.req] = "waiting" => Current(u, m.rows[u])

\* An update that a newer one will correct, which has the row as it is.
Superseded(g, u, e) ==
    /\ IsUpdate(e)
    /\ table[u] # None
    /\ e.row.stamp < table[u].stamp
    /\ \E f \in EventsInFlight(g, u) : IsUpdate(f) /\ f.row = table[u]

EventsCurrent(g, u) ==
    \A e \in EventsInFlight(g, u) : e.row = table[u] \/ Superseded(g, u, e)

CacheCurrent(g, u) ==
    \/ Current(u, cache[g][u])
    \/ \E e \in EventsInFlight(g, u) : e.row = table[u]

GatewayCurrent(g, u) == EventsCurrent(g, u) /\ CacheCurrent(g, u)

CoherenceInv ==
    /\ TableDated
    /\ EventsFiled
    /\ \A u \in Users \ (raced \cup lost) :
          AnswersCurrent(u) /\ \A g \in Gateways : GatewayCurrent(g, u)

-----------------------------------------------------------------------------
(* Users a step does not disturb.                                          *)

\* An event in flight waits in the service or at the gateway.
LEMMA InFlight ==
    /\ \A g, u, e : e \in EventsInFlight(g, u) <=>
          \/ e \in Pending /\ e.kind = "event" /\ e.user = u
          \/ \E s \in Mutations : e \in ToSet(events[g][s]) /\ e.user = u
    /\ \A g, u, e : e \in EventsInFlight(g, u)' <=>
          \/ e \in Pending' /\ e.kind = "event" /\ e.user = u
          \/ \E s \in Mutations : e \in ToSet(events'[g][s]) /\ e.user = u
  BY DEF EventsInFlight

\* What is in flight to a gateway about a user if nothing of it moves.
LEMMA SameInFlight ==
    ASSUME NEW g, NEW u, events' = events,
           \A m \in Pending \cup Pending' :
              m.kind = "event" /\ m.user = u => m \in Pending /\ m \in Pending'
    PROVE  EventsInFlight(g, u)' = EventsInFlight(g, u)
<1>1. \A e : e \in EventsInFlight(g, u)' <=> e \in EventsInFlight(g, u)
  BY InFlight
<1> QED
  BY <1>1

\* A gateway that hears nothing, or stores the row as it is.
LEMMA GatewayUndisturbed ==
    ASSUME NEW g \in Gateways, NEW u \in Users, GatewayCurrent(g, u),
           table'[u] = table[u],
           EventsInFlight(g, u)' = EventsInFlight(g, u),
           cache'[g][u] = cache[g][u] \/ Current(u, cache'[g][u])
    PROVE  GatewayCurrent(g, u)'
<1>1. EventsCurrent(g, u)'
  BY DEF GatewayCurrent, EventsCurrent, Superseded
<1>2. CacheCurrent(g, u)'
  BY DEF GatewayCurrent, CacheCurrent, Current
<1> QED
  BY <1>1, <1>2 DEF GatewayCurrent

\* A step that commits nothing may say and store rows as they are.
LEMMA Undisturbed ==
    ASSUME CoherenceInv, UNCHANGED <<table, clock>>, EventsFiled',
           raced \subseteq raced', lost \subseteq lost',
           \A u \in Users \ (raced \cup lost) :
              \A r \in Requests :
                  left'[r][u] = left[r][u] \/ Current(u, left'[r][u]),
           \A u \in Users \ (raced \cup lost) :
              \A m \in Pending' : m.kind = "reply" /\ pc'[m.req] = "waiting" =>
                  Current(u, m.rows[u]),
           \A u \in Users \ (raced' \cup lost'), g \in Gateways :
              GatewayCurrent(g, u) => GatewayCurrent(g, u)'
    PROVE  CoherenceInv'
<1>1. TableDated'
  BY DEF CoherenceInv, TableDated
<1>2. ASSUME NEW u \in Users \ (raced' \cup lost')
      PROVE  AnswersCurrent(u)' /\ \A g \in Gateways : GatewayCurrent(g, u)'
  <2>1. u \in Users \ (raced \cup lost)
    OBVIOUS
  <2>2. AnswersCurrent(u) /\ \A g \in Gateways : GatewayCurrent(g, u)
    BY <2>1 DEF CoherenceInv
  <2>3. AnswersCurrent(u)'
    BY <2>1, <2>2 DEF AnswersCurrent, Current
  <2> QED
    BY <2>2, <2>3
<1> QED
  BY <1>1, <1>2 DEF CoherenceInv

-----------------------------------------------------------------------------
(* Steps of the service.                                                   *)

\* The service answers with rows as they are, or loses messages.
LEMMA ServiceUndisturbed ==
    ASSUME CoherenceInv, UNCHANGED <<table, clock, clientVars>>,
           raced \subseteq raced', lost \subseteq lost',
           \A m \in Pending' \ Pending :
              m.kind = "reply" /\ \A u \in Users : Current(u, m.rows[u]),
           \A m \in Pending \ Pending' : m.kind = "event" => m.user \in lost'
    PROVE  CoherenceInv'
<1>1. UNCHANGED <<cache, events, pc, left>>
  BY DEF clientVars
<1>2. EventsFiled'
  BY <1>1 DEF CoherenceInv, EventsFiled
<1>3. ASSUME NEW u \in Users \ (raced \cup lost), NEW m \in Pending',
             m.kind = "reply", pc'[m.req] = "waiting"
      PROVE  Current(u, m.rows[u])
  BY <1>1, <1>3 DEF CoherenceInv, AnswersCurrent
<1>4. ASSUME NEW u \in Users \ (raced' \cup lost'), NEW g \in Gateways,
             GatewayCurrent(g, u)
      PROVE  GatewayCurrent(g, u)'
  <2>1. EventsInFlight(g, u)' = EventsInFlight(g, u)
    BY <1>1, <1>4, SameInFlight
  <2> QED
    BY <1>1, <1>4, <2>1, GatewayUndisturbed
<1> QED
  BY <1>1, <1>2, <1>3, <1>4, Undisturbed

\* An answer alone.
LEMMA ReplyOnlyCoherent ==
    ASSUME TypeOK, CoherenceInv, UNCHANGED <<table, clock, lost, clientVars>>,
           raced \subseteq raced',
           NEW op \in Ops, Ready(op), NEW code, NEW rows,
           \A u \in Users : Current(u, rows[u]),
           Conclude(op, <<Answer(op, code, rows)>>)
    PROVE  CoherenceInv'
<1>1. Pending' = Pending \cup {Answer(op, code, rows)}
  BY PendingAfterConclude, ShortSequences DEF TypeOK, ServiceTypes
<1>2. /\ Answer(op, code, rows).kind = "reply"
      /\ Answer(op, code, rows).rows = rows
  BY DEF Answer
<1> QED
  BY <1>1, <1>2, ServiceUndisturbed

\* A statement that changes a row, as the handlers run it.
RunsOn(op, u, row) ==
    /\ row # None => row \in Row /\ row.stamp = clock + 1
    /\ \/ op = "create" /\ table[u] = None /\ row # None
       \/ op = "update" /\ table[u] # None /\ row # None
       \/ op = "delete" /\ table[u] # None /\ row = None

\* Updates on their way to a gateway are older than a new one.
LEMMA OlderUpdates ==
    ASSUME TypeOK, OrderInv, EventsFiled, NEW g \in Gateways, NEW u \in Users,
           NEW e \in EventsInFlight(g, u), e.subject = "update"
    PROVE  IsUpdate(e) /\ Dated(e)
<1>1. CASE e \in Pending /\ e.kind = "event"
  BY <1>1 DEF OrderInv, ServiceOrder, IsUpdate
<1>2. ASSUME NEW s \in Mutations, e \in ToSet(events[g][s])
      PROVE  IsUpdate(e) /\ Dated(e)
  <2>1. e \in Event
    BY <1>2, ElementsTyped DEF TypeOK, ClientTypeOK
  <2>2. s = "update"
    BY <1>2 DEF EventsFiled
  <2> QED
    BY <1>2, <2>1, <2>2 DEF IsUpdate, Event, OrderInv, GatewayOrder, Gone
<1> QED
  BY <1>1, <1>2, InFlight

\* A commit that overtakes nothing: the user it is about.
LEMMA CommitSettles ==
    ASSUME TypeOK, OrderInv, CoherenceInv, UNCHANGED clientVars,
           NEW op \in Mutations, NEW u \in Users \ (raced \cup lost), NEW row,
           RunsOn(op, u, row), ~Overtakable(u, row),
           NEW answer, answer.kind = "reply", answer.rows[u] = row,
           Pending' = Pending \cup {answer, Announcement(op, u, row)},
           table'[u] = row
    PROVE  AnswersCurrent(u)' /\ \A g \in Gateways : GatewayCurrent(g, u)'
<1> DEFINE new == Announcement(op, u, row)
<1>1. new.kind = "event" /\ new.user = u /\ new.row = row /\ new.subject = op
  BY DEF Announcement
<1>2. UNCHANGED <<cache, events, pc, left>>
  BY DEF clientVars
<1> HIDE DEF new
<1>3. AnswersCurrent(u)'
  <2>1. \A r \in Requests : left[r][u] = None
    BY DEF Overtakable, AnswerInFlight
  <2>2. \A m \in Pending : m.kind = "reply" /\ pc[m.req] = "waiting" =>
            m.rows[u] = None
    BY DEF Overtakable, AnswerInFlight
  <2> QED
    BY <1>1, <1>2, <2>1, <2>2 DEF AnswersCurrent, Current, new
<1>4. ASSUME NEW g \in Gateways PROVE GatewayCurrent(g, u)'
  <2>1. EventsInFlight(g, u)' = EventsInFlight(g, u) \cup {new}
    <3>1. \A e : e \in EventsInFlight(g, u)'
                    <=> e \in EventsInFlight(g, u) \/ e = new
      BY <1>1, <1>2, InFlight DEF new
    <3> QED
      BY <3>1
  <2>2. CacheCurrent(g, u)'
    BY <1>1, <2>1 DEF CacheCurrent
  <2>3. ASSUME NEW e \in EventsInFlight(g, u)
        PROVE  Superseded(g, u, e)'
    <3>1. e.subject = "update" /\ row # None
      BY <2>3 DEF Overtakable
    <3>2. IsUpdate(e) /\ Dated(e)
      BY <2>3, <3>1, OlderUpdates DEF CoherenceInv
    <3>3. table[u] # None
      <4>1. e.row = table[u] \/ table[u] # None
        BY <2>3 DEF CoherenceInv, GatewayCurrent, EventsCurrent, Superseded
      <4> QED
        BY <3>2, <4>1, NoneIsNoValue DEF Dated
    <3>4. op = "update" /\ row.stamp = clock + 1
      BY <3>1, <3>3 DEF RunsOn
    <3>5. e.row.stamp < row.stamp
      BY <3>2, <3>4 DEF Dated, Row, TypeOK, ServiceTypeOK
    <3>6. IsUpdate(new) /\ new \in EventsInFlight(g, u)'
      BY <1>1, <2>1, <3>4 DEF IsUpdate
    <3> QED
      BY <1>1, <3>1, <3>2, <3>5, <3>6 DEF Superseded, IsUpdate
  <2>4. EventsCurrent(g, u)'
    BY <1>1, <2>1, <2>3 DEF EventsCurrent
  <2> QED
    BY <2>2, <2>4 DEF GatewayCurrent
<1> QED
  BY <1>3, <1>4

\* A commit: its user is current or raced, or its acknowledgement was lost;
\* nobody else notices.
LEMMA CommitCoherent ==
    ASSUME TypeOK, OrderInv, CoherenceInv, UNCHANGED clientVars, NoteRaces,
           NEW op \in Mutations, Ready(op), NEW u \in Users, NEW row,
           RunsOn(op, u, row), Commit(op, u, row)
    PROVE  CoherenceInv'
<1> USE DEF Mutations, Ops
<1>1. /\ table' = [table EXCEPT ![u] = row]
      /\ clock' = clock + 1
      /\ table'[u] = row
      /\ \A v \in Users \ {u} : table'[v] = table[v]
      /\ UNCHANGED <<cache, events, pc, left>>
  BY DEF Commit, clientVars, TypeOK, ServiceTypeOK, Rows
<1>2. clock \in Nat /\ \A v \in Users : table[v] # None => table[v].stamp \in Nat
  BY DEF TypeOK, ServiceTypeOK, Rows, Row
<1>3. table'[u] # table[u]
  BY <1>1, <1>2 DEF RunsOn, CoherenceInv, TableDated
<1>4. TableDated'
  BY <1>1, <1>2 DEF RunsOn, CoherenceInv, TableDated
<1>5. EventsFiled'
  BY <1>1 DEF CoherenceInv, EventsFiled
<1>6. /\ raced \subseteq raced'
      /\ u \notin raced' => ~Overtakable(u, row)
  BY <1>1, <1>3 DEF NoteRaces
<1>7. lost \subseteq lost'
  BY DEF Commit
<1>8. PICK answer :
          /\ answer.kind = "reply"
          /\ \A v \in Users \ {u} : answer.rows[v] = None
          /\ \/ /\ answer.rows[u] = row
                /\ Pending' = Pending \cup {answer, Announcement(op, u, row)}
             \/ u \in lost' /\ Pending' = Pending \cup {answer}
  <2>1. CASE Conclude(op, <<Answer(op, "OK", Only(u, row)),
                            Announcement(op, u, row)>>)
    <3>1. Pending' = Pending \cup {Answer(op, "OK", Only(u, row)),
                                   Announcement(op, u, row)}
      BY <2>1, PendingAfterConclude, ShortSequences DEF TypeOK, ServiceTypes
    <3> QED
      BY <3>1 DEF Answer, Only, Nothing
  <2>2. CASE /\ Conclude(op, <<Answer(op, "INTERNAL", Nothing)>>)
             /\ lost' = lost \cup {u}
    <3>1. Pending' = Pending \cup {Answer(op, "INTERNAL", Nothing)}
      BY <2>2, PendingAfterConclude, ShortSequences DEF TypeOK, ServiceTypes
    <3> QED
      BY <2>2, <3>1 DEF Answer, Nothing
  <2> QED
    BY <2>1, <2>2 DEF Commit
<1>9. Announcement(op, u, row).kind = "event" /\ Announcement(op, u, row).user = u
  BY DEF Announcement
<1>10. ASSUME NEW v \in Users \ (raced' \cup lost'), v # u
       PROVE  AnswersCurrent(v)' /\ \A g \in Gateways : GatewayCurrent(g, v)'
  <2>1. AnswersCurrent(v) /\ \A g \in Gateways : GatewayCurrent(g, v)
    BY <1>6, <1>7 DEF CoherenceInv
  <2>2. AnswersCurrent(v)'
    BY <1>1, <1>8, <1>9, <1>10, <2>1 DEF AnswersCurrent, Current
  <2>3. ASSUME NEW g \in Gateways PROVE GatewayCurrent(g, v)'
    <3>1. EventsInFlight(g, v)' = EventsInFlight(g, v)
      BY <1>1, <1>8, <1>9, <1>10, SameInFlight
    <3> QED
      BY <1>1, <1>10, <2>1, <3>1, GatewayUndisturbed
  <2> QED
    BY <2>2, <2>3
<1>11. ASSUME u \in Users \ (raced' \cup lost')
       PROVE  AnswersCurrent(u)' /\ \A g \in Gateways : GatewayCurrent(g, u)'
  BY <1>1, <1>6, <1>7, <1>8, <1>11, CommitSettles
<1> QED
  BY <1>4, <1>5, <1>10, <1>11 DEF CoherenceInv

\* The handlers.
LEMMA CallbackCoherent ==
    ASSUME TypeOK, RowsInv, OrderInv, CoherenceInv, UNCHANGED clientVars,
           NoteRaces, NEW op \in Ops, Callback(op)
    PROVE  CoherenceInv'
<1> USE DEF Ops, Mutations
<1>0. ServiceTypes /\ raced \subseteq raced' /\ \A u \in Users : Current(u, Nothing[u])
  BY DEF TypeOK, ServiceTypes, NoteRaces, Current, Nothing
<1>1. ASSUME NEW o \in Ops, NEW code, NEW rows, Ready(o),
             \A u \in Users : Current(u, rows[u]), ReplyOnly(o, code, rows)
      PROVE  CoherenceInv'
  BY <1>0, <1>1, ReplyOnlyCoherent DEF ReplyOnly
<1>2. CASE RejectMalformed(op)
  BY <1>0, <1>1, <1>2 DEF RejectMalformed
<1>3. CASE HandleListUsers
  <2>1. \A u \in Users : Current(u, table[u])
    BY DEF Current
  <2> QED
    BY <1>1, <1>3, <2>1 DEF HandleListUsers
<1>4. CASE HandleGetUser
  <2> DEFINE v == Request("get").user
  <2>1. \A u \in Users : Current(u, Only(v, table[v])[u])
    BY DEF Current, Only, Nothing
  <2>2. /\ Ready("get")
        /\ \/ ReplyOnly("get", "NOT_FOUND", Nothing)
           \/ ReplyOnly("get", "OK", Only(v, table[v]))
    BY <1>4 DEF HandleGetUser
  <2> HIDE DEF v
  <2> QED
    BY <1>0, <1>1, <2>1, <2>2
<1>5. CASE HandleCreateUser
  <2> DEFINE c == Request("create")
             row == InsertedRow(c.input, clock + 1)
  <2>1. Ready("create") /\ c \in WellFormed("create")
    BY <1>0, <1>5, RequestTyped DEF HandleCreateUser
  <2>2. PICK u \in UnusedIds(history) :
           IF EmailTaken(table, u, c.input.email)
           THEN ReplyOnly("create", "BAD_REQUEST", Nothing)
           ELSE Commit("create", u, row)
    BY <1>5 DEF HandleCreateUser
  <2>3. u \in Users /\ table[u] = None
    BY DEF UnusedIds, RowsInv, ServiceRows, TableKnown, Known
  <2>4. row \in Row /\ row.stamp = clock + 1
    BY <2>1 DEF InsertedRow, Row, WellFormed, NewUser, TypeOK, ServiceTypeOK
  <2>5. RunsOn("create", u, row)
    BY <2>3, <2>4, NoneIsNoValue DEF RunsOn
  <2> HIDE DEF row
  <2> QED
    BY <1>0, <1>1, <2>1, <2>2, <2>3, <2>5, CommitCoherent
<1>6. CASE HandleUpdateUser
  <2> DEFINE c == Request("update")
             row == UpdatedRow(table[c.user], c.input, clock + 1)
  <2>1. Ready("update") /\ c \in WellFormed("update")
    BY <1>0, <1>6, RequestTyped DEF HandleUpdateUser
  <2>2. c.user \in Users /\ c.input \in Input
    BY <2>1 DEF WellFormed
  <2>3. \/ ReplyOnly("update", "BAD_REQUEST", Nothing)
        \/ ReplyOnly("update", "NOT_FOUND", Nothing)
        \/ table[c.user] # None /\ Commit("update", c.user, row)
    BY <1>6 DEF HandleUpdateUser
  <2>4. ASSUME table[c.user] # None PROVE RunsOn("update", c.user, row)
    <3>1. table[c.user] \in Row /\ clock + 1 \in Nat
      BY <2>2, <2>4 DEF TypeOK, ServiceTypeOK, Rows
    <3>2. row \in Row /\ row.stamp = clock + 1
      BY <2>2, <3>1, UpdatedRowDated
    <3> QED
      BY <2>4, <3>2, NoneIsNoValue DEF RunsOn
  <2> HIDE DEF row, c
  <2> QED
    BY <1>0, <1>1, <2>1, <2>2, <2>3, <2>4, CommitCoherent
<1>7. CASE HandleDeleteUser
  <2> DEFINE v == Request("delete").user
  <2>1. Ready("delete") /\ Request("delete") \in WellFormed("delete")
    BY <1>0, <1>7, RequestTyped DEF HandleDeleteUser
  <2>2. v \in Users
    BY <2>1 DEF WellFormed
  <2>3. \/ ReplyOnly("delete", "NOT_FOUND", Nothing)
        \/ RunsOn("delete", v, None) /\ Commit("delete", v, None)
    BY <1>7 DEF HandleDeleteUser, RunsOn
  <2> HIDE DEF v
  <2> QED
    BY <1>0, <1>1, <2>1, <2>2, <2>3, CommitCoherent
<1>8. ASSUME NEW kind, Send(op, kind) PROVE CoherenceInv'
  <2>1. Pending' = Pending
    BY <1>0, <1>8, PendingAfterSend DEF ServiceTypes
  <2> QED
    BY <1>0, <1>8, <2>1, ServiceUndisturbed DEF Send, natsVars
<1> QED
  BY <1>2, <1>3, <1>4, <1>5, <1>6, <1>7, <1>8
     DEF Callback, Respond, PublishEvent

\* Every step of the service.
LEMMA ServiceStepCoherent ==
    ASSUME TypeOK, RowsInv, OrderInv, CoherenceInv, ServiceStep,
           UNCHANGED clientVars, NoteRaces
    PROVE  CoherenceInv'
<1>0. ServiceTypes /\ raced \subseteq raced'
  BY DEF TypeOK, ServiceTypes, NoteRaces
<1>1. ASSUME NEW op \in Ops, DatabaseFailure(op) PROVE CoherenceInv'
  <2>1. \A u \in Users : Current(u, Nothing[u])
    BY DEF Current, Nothing
  <2> QED
    BY <1>0, <1>1, <2>1, ReplyOnlyCoherent DEF DatabaseFailure
<1>2. CASE LoseMessage
  <2>1. Pending = Pending' \cup {Head(outbuf)}
    BY <1>0, <1>2, PendingAfterFlush DEF ServiceTypes, LoseMessage
  <2> QED
    BY <1>0, <1>2, <2>1, ServiceUndisturbed DEF LoseMessage
<1>3. ASSUME UNCHANGED <<serviceVars, lost>> PROVE CoherenceInv'
  <2>1. Pending' = Pending
    BY <1>3 DEF serviceVars, Pending
  <2> QED
    BY <1>0, <1>3, <2>1, ServiceUndisturbed DEF serviceVars
<1>4. CASE Terminate
  <2>1. /\ \A op \in Ops : handler'[op] = <<>>
        /\ outbuf' = <<>>
        /\ UNCHANGED <<table, clock>>
        /\ lost' = lost \cup {u \in Users : Unsent(u)}
    BY <1>4 DEF Terminate
  <2>2. Pending' = {}
    BY <2>1, ShortSequences DEF Pending
  <2>3. \A m \in Pending : m.kind = "event" => m.user \in Users
    BY PendingTyped DEF Message, Reply, Event
  <2>4. \A m \in Pending : m.kind = "event" => m.user \in lost'
    BY <2>1, <2>3 DEF Unsent
  <2> QED
    BY <1>0, <2>1, <2>2, <2>4, ServiceUndisturbed
<1> QED
  BY <1>1, <1>2, <1>3, <1>4, CallbackCoherent
     DEF ServiceStep, HandleSubscribe, LoseCommand
-----------------------------------------------------------------------------
(* Steps of the gateways.                                                  *)

\* Whoever has an answer on its way has asked.
AnsweredOnce ==
    \A m \in Pending : m.kind = "reply" => pc[m.req] \notin {"idle", "missed"}

\* A gateway's request moves on, and may store rows as they are.
LEMMA ClientUndisturbed ==
    ASSUME CoherenceInv, AnsweredOnce,
           UNCHANGED <<serviceVars, events, raced, lost>>,
           \A r \in Requests :
              pc'[r] = "waiting" => pc[r] \in {"idle", "missed", "waiting"},
           \A u \in Users \ (raced \cup lost) :
              /\ \A r \in Requests :
                    left'[r][u] = left[r][u] \/ Current(u, left'[r][u])
              /\ \A g \in Gateways :
                    cache'[g][u] = cache[g][u] \/ Current(u, cache'[g][u]),
           Pending \subseteq Message
    PROVE  CoherenceInv'
<1>1. Pending' = Pending /\ UNCHANGED <<table, clock>>
  BY DEF serviceVars, Pending
<1>2. EventsFiled'
  BY DEF CoherenceInv, EventsFiled
<1>3. ASSUME NEW u \in Users \ (raced \cup lost), NEW m \in Pending',
             m.kind = "reply", pc'[m.req] = "waiting"
      PROVE  Current(u, m.rows[u])
  <2>1. m.req \in Requests
    BY <1>1, <1>3 DEF Message, Reply, Event
  <2>2. pc[m.req] = "waiting"
    BY <1>1, <1>3, <2>1 DEF AnsweredOnce
  <2> QED
    BY <1>1, <1>3, <2>2 DEF CoherenceInv, AnswersCurrent
<1>4. ASSUME NEW u \in Users \ (raced' \cup lost'), NEW g \in Gateways,
             GatewayCurrent(g, u)
      PROVE  GatewayCurrent(g, u)'
  BY <1>1, <1>4, SameInFlight, GatewayUndisturbed
<1> QED
  BY <1>1, <1>2, <1>3, <1>4, Undisturbed

\* The first event of a queue, and what remains.
LEMMA TakeEvent ==
    ASSUME TypeOK, EventsFiled, NEW g \in Gateways, NEW s \in Mutations,
           events[g][s] # <<>>,
           events' = [events EXCEPT ![g][s] = Tail(@)]
    PROVE  /\ Head(events[g][s]) \in Event
           /\ Head(events[g][s]).subject = s
           /\ events'[g][s] = Tail(events[g][s])
           /\ ToSet(events[g][s])
                 = {Head(events[g][s])} \cup ToSet(events'[g][s])
           /\ \A h \in Gateways, t \in Mutations :
                 h # g \/ t # s => events'[h][t] = events[h][t]
           /\ EventsFiled'
<1>1. events[g][s] \in Seq(Event)
  BY DEF TypeOK, ClientTypeOK
<1>2. /\ Head(events[g][s]) \in Event
      /\ ToSet(events[g][s])
            = {Head(events[g][s])} \cup ToSet(Tail(events[g][s]))
  BY <1>1, TailElements
<1>3. /\ events'[g][s] = Tail(events[g][s])
      /\ \A h \in Gateways, t \in Mutations :
            h # g \/ t # s => events'[h][t] = events[h][t]
  BY DEF TypeOK, ClientTypeOK
<1>4. ASSUME NEW h \in Gateways, NEW t \in Mutations,
             NEW e \in ToSet(events'[h][t])
      PROVE  e \in ToSet(events[h][t])
  BY <1>2, <1>3, <1>4
<1>5. EventsFiled'
  BY <1>4 DEF EventsFiled
<1> QED
  BY <1>2, <1>3, <1>5 DEF EventsFiled

\* What remains in flight once a gateway has taken an event.
LEMMA TakenInFlight ==
    ASSUME TypeOK, EventsFiled, NEW g \in Gateways, NEW s \in Mutations,
           events[g][s] # <<>>,
           events' = [events EXCEPT ![g][s] = Tail(@)],
           Pending' = Pending
    PROVE  /\ \A h \in Gateways : \A u :
                 h # g \/ u # Head(events[g][s]).user =>
                     EventsInFlight(h, u)' = EventsInFlight(h, u)
           /\ \A u : /\ EventsInFlight(g, u)' \subseteq EventsInFlight(g, u)
                     /\ EventsInFlight(g, u) \ EventsInFlight(g, u)'
                           \subseteq {Head(events[g][s])}
<1> DEFINE e == Head(events[g][s])
<1>1. /\ ToSet(events[g][s]) = {e} \cup ToSet(events'[g][s])
      /\ \A h \in Gateways, t \in Mutations :
            h # g \/ t # s => events'[h][t] = events[h][t]
  BY TakeEvent, ZenonT(60)
<1> HIDE DEF e
<1>2. ASSUME NEW h \in Gateways, NEW u, h # g \/ u # e.user
      PROVE  EventsInFlight(h, u)' = EventsInFlight(h, u)
  <2>1. \A f : f \in EventsInFlight(h, u)' <=> f \in EventsInFlight(h, u)
    BY <1>1, <1>2, InFlight
  <2> QED
    BY <2>1
<1>3. ASSUME NEW u
      PROVE  /\ EventsInFlight(g, u)' \subseteq EventsInFlight(g, u)
             /\ EventsInFlight(g, u) \ EventsInFlight(g, u)' \subseteq {e}
  <2>1. \A f : f \in EventsInFlight(g, u)' => f \in EventsInFlight(g, u)
    BY <1>1, InFlight
  <2>2. \A f : f \in EventsInFlight(g, u) => f = e \/ f \in EventsInFlight(g, u)'
    BY <1>1, InFlight
  <2> QED
    BY <2>1, <2>2
<1> QED
  BY <1>2, <1>3 DEF e

\* An update at the head of its queue is older than all still in flight.
LEMMA HeadIsOldest ==
    ASSUME TypeOK, OrderInv, EventsFiled, NEW g \in Gateways,
           events[g]["update"] # <<>>,
           events' = [events EXCEPT ![g]["update"] = Tail(@)],
           Pending' = Pending, NEW u,
           NEW f \in EventsInFlight(g, u)', IsUpdate(f),
           IsUpdate(Head(events[g]["update"]))
    PROVE  Head(events[g]["update"]).row.stamp < f.row.stamp
<1> DEFINE e == Head(events[g]["update"])
<1>0. "update" \in Mutations /\ events[g]["update"] \in Seq(Event)
  BY UpdatesTyped DEF Mutations
<1>1. /\ ToSet(events[g]["update"]) = {e} \cup ToSet(events'[g]["update"])
      /\ events'[g]["update"] = Tail(events[g]["update"])
      /\ EventsFiled'
  BY <1>0, TakeEvent
<1>2. GatewayOrder(g) /\ OneUpdater
  BY DEF OrderInv, ServiceOrder
<1>3. Precede({e}, ToSet(events'[g]["update"]))
  BY <1>0, <1>1, <1>2, IncreasingTail DEF GatewayOrder
<1> HIDE DEF e
<1>4. CASE f \in Pending
  <2>1. f \in Ahead
    BY <1>2, <1>4 DEF OneUpdater, Pending, Ahead
  <2> QED
    BY <1>1, <1>2, <2>1 DEF GatewayOrder, Gone, Precede, e
<1>5. ASSUME NEW t \in Mutations, f \in ToSet(events'[g][t])
      PROVE  e.row.stamp < f.row.stamp
  <2>1. t = "update"
    BY <1>1, <1>5 DEF EventsFiled, IsUpdate
  <2> QED
    BY <1>3, <1>5, <2>1 DEF Precede, e
<1> QED
  BY <1>4, <1>5, InFlight DEF e

\* An event is applied: it had the row as it is, or a newer one follows.
LEMMA ApplyCoherent ==
    ASSUME TypeOK, OrderInv, CoherenceInv, NEW g \in Gateways,
           NEW s \in Mutations, ApplyCacheEvent(g, s),
           UNCHANGED <<serviceVars, raced, lost>>
    PROVE  CoherenceInv'
<1> PICK e : e = Head(events[g][s])
  OBVIOUS
<1>1. /\ events[g][s] # <<>>
      /\ events' = [events EXCEPT ![g][s] = Tail(@)]
      /\ cache' = [cache EXCEPT ![g][e.user] = e.row]
      /\ UNCHANGED <<pc, left>>
      /\ EventsFiled
      /\ Pending' = Pending
      /\ UNCHANGED <<table, clock>>
  BY DEF ApplyCacheEvent, serviceVars, Pending, CoherenceInv
<1>2. /\ e \in Event /\ e.subject = s
      /\ EventsFiled'
      /\ e \in ToSet(events[g][s])
  <2>1. /\ Head(events[g][s]) \in Event
        /\ Head(events[g][s]).subject = s
        /\ ToSet(events[g][s])
              = {Head(events[g][s])} \cup ToSet(events'[g][s])
        /\ EventsFiled'
    BY <1>1, TakeEvent
  <2> QED
    BY <2>1
<1>3. /\ \A h \in Gateways : \A u : h # g \/ u # e.user =>
            EventsInFlight(h, u)' = EventsInFlight(h, u)
      /\ \A u : /\ EventsInFlight(g, u)' \subseteq EventsInFlight(g, u)
                /\ EventsInFlight(g, u) \ EventsInFlight(g, u)' \subseteq {e}
  <2>1. /\ \A h \in Gateways : \A u :
              h # g \/ u # Head(events[g][s]).user =>
                  EventsInFlight(h, u)' = EventsInFlight(h, u)
        /\ \A u :
              /\ EventsInFlight(g, u)' \subseteq EventsInFlight(g, u)
              /\ EventsInFlight(g, u) \ EventsInFlight(g, u)'
                    \subseteq {Head(events[g][s])}
    BY <1>1, TakenInFlight
  <2> QED
    BY <2>1
<1>4. /\ e.user \in Users
      /\ \A h \in Gateways, u \in Users : h # g \/ u # e.user =>
            cache'[h][u] = cache[h][u]
      /\ cache'[g][e.user] = e.row
  BY <1>1, <1>2 DEF TypeOK, ClientTypeOK, Rows, Event
<1>5. s = "update" => \A f \in EventsInFlight(g, e.user)' :
          IsUpdate(e) /\ IsUpdate(f) => e.row.stamp < f.row.stamp
  BY <1>1, HeadIsOldest
<1>6. e \in EventsInFlight(g, e.user)
  BY <1>2, InFlight
<1>7. ASSUME e.user \notin raced \cup lost, GatewayCurrent(g, e.user)
      PROVE  GatewayCurrent(g, e.user)'
  <2> DEFINE u == e.user
             All == EventsInFlight(g, u)
             Rest == EventsInFlight(g, u)'
  <2>1. Rest \subseteq All /\ All \ Rest \subseteq {e}
    BY <1>3
  <2>2. table'[u] = table[u]
    BY <1>1
  <2>3. table[u] # None => table[u].stamp \in Nat
    BY <1>4 DEF TypeOK, ServiceTypeOK, Rows, Row
  <2>4. \A f \in All : f.row = table[u] \/ Superseded(g, u, f)
    BY <1>7 DEF GatewayCurrent, EventsCurrent
  <2>5. CASE e.row = table[u]
    <3>1. CacheCurrent(g, u)'
      BY <1>4, <2>2, <2>5 DEF CacheCurrent, Current
    <3>2. ASSUME NEW f \in Rest, f.row # table[u]
          PROVE  Superseded(g, u, f)'
      <4>1. Superseded(g, u, f)
        BY <2>1, <2>4, <3>2
      <4>2. PICK k \in All : IsUpdate(k) /\ k.row = table[u]
        BY <4>1 DEF Superseded
      <4>3. k # e
        <5> SUFFICES ASSUME k = e PROVE FALSE
          OBVIOUS
        <5>1. s = "update"
          BY <1>2, <4>2 DEF IsUpdate
        <5>2. e.row.stamp < f.row.stamp
          BY <1>5, <4>1, <4>2, <5>1, <3>2 DEF Superseded
        <5>3. f.row.stamp < e.row.stamp
          BY <4>1, <2>5 DEF Superseded
        <5>4. Dated(f) /\ e.row.stamp \in Nat
          <6>1. f.subject = "update" /\ f \in EventsInFlight(g, u)
            BY <4>1, <3>2, <2>1 DEF Superseded, IsUpdate
          <6>2. Dated(f)
            BY <1>1, <1>4, <6>1, OlderUpdates
          <6> QED
            BY <6>2, <2>3, <2>5, <4>1 DEF Superseded
        <5>5. f.row.stamp \in Nat
          BY <5>4, <4>1 DEF Superseded, Dated, Row
        <5> QED
          BY <5>2, <5>3, <5>4, <5>5
      <4>4. k \in Rest
        BY <2>1, <4>3
      <4> QED
        BY <2>2, <4>1, <4>2, <4>4 DEF Superseded
    <3>3. EventsCurrent(g, u)'
      BY <2>2, <3>2 DEF EventsCurrent
    <3> QED
      BY <3>1, <3>3 DEF GatewayCurrent
  <2>6. CASE Superseded(g, u, e)
    <3>1. PICK k \in All : IsUpdate(k) /\ k.row = table[u]
      BY <2>6 DEF Superseded
    <3>2. k # e
      BY <2>3, <2>6, <3>1 DEF Superseded
    <3>3. k \in Rest
      BY <2>1, <3>2
    <3>4. CacheCurrent(g, u)'
      BY <2>2, <3>1, <3>3 DEF CacheCurrent
    <3>5. ASSUME NEW f \in Rest, f.row # table[u]
          PROVE  Superseded(g, u, f)'
      <4>1. Superseded(g, u, f)
        BY <2>1, <2>4, <3>5
      <4> QED
        BY <2>2, <3>1, <3>3, <4>1 DEF Superseded
    <3>6. EventsCurrent(g, u)'
      BY <2>2, <3>5 DEF EventsCurrent
    <3> QED
      BY <3>4, <3>6 DEF GatewayCurrent
  <2> QED
    BY <1>6, <2>4, <2>5, <2>6
<1>8. ASSUME NEW u \in Users \ (raced' \cup lost'), NEW h \in Gateways,
             GatewayCurrent(h, u)
      PROVE  GatewayCurrent(h, u)'
  <2>1. CASE h = g /\ u = e.user
    BY <1>7, <1>8, <2>1
  <2>2. CASE h # g \/ u # e.user
    BY <1>1, <1>3, <1>4, <1>8, <2>2, GatewayUndisturbed
  <2> QED
    BY <2>1, <2>2
<1>9. ASSUME NEW u \in Users \ (raced \cup lost), NEW m \in Pending',
             m.kind = "reply", pc'[m.req] = "waiting"
      PROVE  Current(u, m.rows[u])
  BY <1>1, <1>9 DEF CoherenceInv, AnswersCurrent
<1> QED
  BY <1>1, <1>2, <1>8, <1>9, Undisturbed

\* A gateway misses an event, which excuses its user.
LEMMA LoseEventCoherent ==
    ASSUME TypeOK, CoherenceInv, NEW g \in Gateways,
           NEW s \in Mutations, LoseEvent(g, s),
           UNCHANGED <<serviceVars, raced>>
    PROVE  CoherenceInv'
<1> PICK e : e = Head(events[g][s])
  OBVIOUS
<1>1. /\ events[g][s] # <<>>
      /\ events' = [events EXCEPT ![g][s] = Tail(@)]
      /\ lost' = lost \cup {e.user}
      /\ UNCHANGED <<cache, pc, left>>
      /\ EventsFiled
      /\ Pending' = Pending
      /\ UNCHANGED <<table, clock>>
  BY DEF LoseEvent, serviceVars, Pending, CoherenceInv
<1>2. EventsFiled'
  BY <1>1, TakeEvent
<1>3. \A h \in Gateways : \A u : u # e.user =>
            EventsInFlight(h, u)' = EventsInFlight(h, u)
  <2>1. \A h \in Gateways : \A u :
            h # g \/ u # Head(events[g][s]).user =>
                EventsInFlight(h, u)' = EventsInFlight(h, u)
    BY <1>1, TakenInFlight
  <2> QED
    BY <2>1
<1>4. ASSUME NEW u \in Users \ (raced' \cup lost'), NEW h \in Gateways,
             GatewayCurrent(h, u)
      PROVE  GatewayCurrent(h, u)'
  BY <1>1, <1>3, <1>4, GatewayUndisturbed
<1>5. ASSUME NEW u \in Users \ (raced \cup lost), NEW m \in Pending',
             m.kind = "reply", pc'[m.req] = "waiting"
      PROVE  Current(u, m.rows[u])
  BY <1>1, <1>5 DEF CoherenceInv, AnswersCurrent
<1> QED
  BY <1>1, <1>2, <1>4, <1>5, Undisturbed

\* A gateway starts anew.  If an older update is still to come to it, so is
\* the newer one behind.
LEMMA RestartCoherent ==
    ASSUME TypeOK, OrderInv, CoherenceInv, NEW g \in Gateways,
           RestartGateway(g), UNCHANGED <<serviceVars, raced>>
    PROVE  CoherenceInv'
<1>1. /\ \A u \in Users : cache'[g][u] = None
      /\ \A h \in Gateways \ {g} :
            cache'[h] = cache[h] /\ events'[h] = events[h]
      /\ \A s \in Mutations : events'[g][s] = <<>>
      /\ \A r \in Requests, u \in Users : left'[r][u] \in {None, left[r][u]}
      /\ \A r \in Requests : pc'[r] = "waiting" => pc[r] = "waiting"
      /\ lost' = lost
  BY DEF RestartGateway, TypeOK, ClientTypeOK, Nothing
<1>2. Pending' = Pending /\ UNCHANGED <<table, clock>>
  BY DEF serviceVars, Pending
<1>3. EventsFiled /\ GatewayOrder(g) /\ OneUpdater
  BY DEF CoherenceInv, OrderInv, ServiceOrder
<1>4. EventsFiled'
  BY <1>1, <1>3, ShortSequences DEF EventsFiled
<1>5. \A u, f : f \in EventsInFlight(g, u)' <=>
          f \in Pending /\ f.kind = "event" /\ f.user = u
  BY <1>1, <1>2, InFlight, ShortSequences
<1>6. ASSUME NEW u \in Users, GatewayCurrent(g, u) PROVE GatewayCurrent(g, u)'
  <2>1. CacheCurrent(g, u)'
    BY <1>1 DEF CacheCurrent, Current
  <2>2. ASSUME NEW f \in EventsInFlight(g, u)', f.row # table[u]
        PROVE  Superseded(g, u, f)'
    <3>1. f \in Pending /\ f \in EventsInFlight(g, u)
      BY <1>5, <2>2, InFlight
    <3>2. Superseded(g, u, f)
      BY <1>6, <2>2, <3>1 DEF GatewayCurrent, EventsCurrent
    <3>3. PICK k \in EventsInFlight(g, u) : IsUpdate(k) /\ k.row = table[u]
      BY <3>2 DEF Superseded
    <3>4. ASSUME NEW s \in Mutations, k \in ToSet(events[g][s]) PROVE FALSE
      <4>1. s = "update"
        BY <1>3, <3>3, <3>4 DEF EventsFiled, IsUpdate
      <4>2. f \in Ahead /\ IsUpdate(f)
        BY <1>3, <3>1, <3>2 DEF OneUpdater, Pending, Ahead, Superseded
      <4>3. k.row.stamp < f.row.stamp
        BY <1>3, <3>3, <3>4, <4>1, <4>2 DEF GatewayOrder, Gone, Precede
      <4>4. f.row.stamp < k.row.stamp
        BY <3>2, <3>3 DEF Superseded
      <4>5. Dated(f) /\ Dated(k)
        BY <1>3, <3>1, <3>3, <4>2, OlderUpdates DEF IsUpdate
      <4> QED
        BY <3>3, <4>2, <4>3, <4>4, <4>5 DEF Dated, Row
    <3>5. k \in EventsInFlight(g, u)'
      BY <1>5, <3>3, <3>4, InFlight
    <3> QED
      BY <1>2, <3>2, <3>3, <3>5 DEF Superseded
  <2>3. EventsCurrent(g, u)'
    BY <1>2, <2>2 DEF EventsCurrent
  <2> QED
    BY <2>1, <2>3 DEF GatewayCurrent
<1>7. ASSUME NEW u \in Users \ (raced' \cup lost'), NEW h \in Gateways,
             GatewayCurrent(h, u)
      PROVE  GatewayCurrent(h, u)'
  <2>1. CASE h # g
    <3>1. \A f : f \in EventsInFlight(h, u)' <=> f \in EventsInFlight(h, u)
      BY <1>1, <1>2, <2>1, InFlight
    <3>2. EventsInFlight(h, u)' = EventsInFlight(h, u)
      BY <3>1
    <3> QED
      BY <1>1, <1>2, <1>7, <2>1, <3>2, GatewayUndisturbed
  <2> QED
    BY <1>6, <1>7, <2>1
<1>8. ASSUME NEW u \in Users \ (raced \cup lost), NEW m \in Pending',
             m.kind = "reply", pc'[m.req] = "waiting"
      PROVE  Current(u, m.rows[u])
  <2>1. m.req \in Requests
    BY <1>2, <1>8, PendingTyped DEF Message, Reply, Event
  <2> QED
    BY <1>1, <1>2, <1>8, <2>1 DEF CoherenceInv, AnswersCurrent
<1> QED
  BY <1>1, <1>2, <1>4, <1>7, <1>8, Undisturbed DEF Current

\* Every step of a gateway.
LEMMA ClientStepCoherent ==
    ASSUME TypeOK, OrderInv, CoherenceInv, AnsweredOnce, ClientStep,
           UNCHANGED serviceVars, NoteRaces
    PROVE  CoherenceInv'
<1>1. raced' = raced
  BY DEF NoteRaces, serviceVars
<1>2. Pending \subseteq Message
  BY PendingTyped
<1>3. ASSUME NEW r \in Requests, StartCall(r) PROVE CoherenceInv'
  <2>1. /\ UNCHANGED <<cache, events, left, lost>>
        /\ pc[r] = "idle"
        /\ \A q \in Requests \ {r} : pc'[q] = pc[q]
    BY <1>3 DEF StartCall, List, Get, Create, Update, Delete, Begin,
                SendRequest, ReturnNow, TypeOK, ClientTypeOK
  <2> QED
    BY <1>1, <1>2, <2>1, ClientUndisturbed
<1>4. ASSUME NEW r \in Requests, FetchMissed(r) PROVE CoherenceInv'
  <2>1. /\ UNCHANGED <<cache, events, left, lost>>
        /\ pc[r] = "missed"
        /\ \A q \in Requests \ {r} : pc'[q] = pc[q]
    BY <1>4 DEF FetchMissed, SendRequest, ReturnNow, TypeOK, ClientTypeOK
  <2> QED
    BY <1>1, <1>2, <2>1, ClientUndisturbed
<1>5. ASSUME NEW r \in Requests, Timeout(r) PROVE CoherenceInv'
  <2>1. /\ UNCHANGED <<cache, events, left, lost>>
        /\ \A q \in Requests : pc'[q] = "waiting" => pc[q] = "waiting"
    BY <1>5 DEF Timeout, natsVars, TypeOK, ClientTypeOK
  <2> QED
    BY <1>1, <1>2, <2>1, ClientUndisturbed
<1>6. ASSUME NEW r \in Requests, ReturnAnswer(r) PROVE CoherenceInv'
  <2>1. /\ UNCHANGED <<events, left, lost>>
        /\ \A q \in Requests : pc'[q] = "waiting" => pc[q] = "waiting"
        /\ \A g \in Gateways, u \in Users :
              cache'[g][u] = cache[g][u] \/ cache'[g][u] = None
    BY <1>6 DEF ReturnAnswer, natsVars, TypeOK, ClientTypeOK, Rows
  <2> QED
    BY <1>1, <1>2, <2>1, ClientUndisturbed DEF Current
<1>7. ASSUME NEW r \in Requests, NEW v \in Users, StoreAnswer(r, v)
      PROVE  CoherenceInv'
  <2>1. /\ UNCHANGED <<events, lost>>
        /\ \A q \in Requests : pc'[q] = "waiting" => pc[q] = "waiting"
        /\ \A q \in Requests, u \in Users :
              left'[q][u] = left[q][u] \/ left'[q][u] = None
        /\ \A g \in Gateways, u \in Users :
              \/ cache'[g][u] = cache[g][u]
              \/ u = v /\ cache'[g][u] = left[r][u]
    BY <1>7 DEF StoreAnswer, natsVars, TypeOK, ClientTypeOK, Rows
  <2>2. \A u \in Users \ (raced \cup lost) : Current(u, left[r][u])
    BY DEF CoherenceInv, AnswersCurrent
  <2> QED
    BY <1>1, <1>2, <2>1, <2>2, ClientUndisturbed DEF Current
<1>8. ASSUME NEW g \in Gateways, NEW s \in Mutations, ApplyCacheEvent(g, s)
      PROVE  CoherenceInv'
  <2>1. lost' = lost
    BY <1>8 DEF ApplyCacheEvent, natsVars
  <2> QED
    BY <1>1, <1>8, <2>1, ApplyCoherent
<1>9. ASSUME NEW g \in Gateways, SubscribeUserEvents(g) PROVE CoherenceInv'
  <2>1. UNCHANGED <<cache, events, left, pc, lost>>
    BY <1>9 DEF SubscribeUserEvents, natsVars
  <2> QED
    BY <1>1, <1>2, <2>1, ClientUndisturbed
<1> QED
  BY <1>1, <1>3, <1>4, <1>5, <1>6, <1>7, <1>8, <1>9, LoseEventCoherent,
     RestartCoherent DEF ClientStep

-----------------------------------------------------------------------------
(* What gateways hear.                                                     *)

\* A gateway that hears no event holds none and has cached nothing; one with
\* a request at work hears them all.
HearsNothing ==
    \A g \in Gateways : hearing[g] = {} =>
        /\ \A u \in Users : cache[g][u] = None
        /\ \A s \in Mutations : events[g][s] = <<>>
HearsAll ==
    \A r \in Requests : pc[r] \in {"missed", "waiting", "answered"} =>
        call[r].gw \in Gateways /\ hearing[call[r].gw] = Mutations

HearingInv == HearsNothing /\ HearsAll

\* Where nobody subscribes or calls, caches lose entries at most.
LEMMA HearingUndisturbed ==
    ASSUME HearingInv, UNCHANGED <<hearing, events, call>>,
           \A g \in Gateways, u \in Users : cache'[g][u] \in {None, cache[g][u]},
           \A r \in Requests : pc'[r] \in {"missed", "waiting", "answered"} =>
               pc[r] \in {"missed", "waiting", "answered"}
    PROVE  HearingInv'
<1>1. HearsNothing'
  BY DEF HearingInv, HearsNothing
<1>2. HearsAll'
  BY DEF HearingInv, HearsAll
<1> QED
  BY <1>1, <1>2 DEF HearingInv

\* Every step of a gateway.
LEMMA ClientStepHearing ==
    ASSUME TypeOK, HearingInv, ClientStep PROVE HearingInv'
<1>1. ASSUME NEW r \in Requests, StartCall(r) PROVE HearingInv'
  <2>1. PICK g \in Gateways :
            /\ Serving(g)
            /\ \E op, u : Begin(r, g, op, u)
            /\ \A q \in Requests \ {r} : pc'[q] = pc[q]
    BY <1>1 DEF StartCall, List, Get, Create, Update, Delete, SendRequest,
                ReturnNow, TypeOK, ClientTypeOK
  <2>2. /\ UNCHANGED <<cache, hearing, events>>
        /\ call'[r].gw = g
        /\ \A q \in Requests \ {r} : call'[q] = call[q]
    BY <2>1 DEF Begin, TypeOK, ClientTypeOK
  <2>3. HearsNothing'
    BY <2>2 DEF HearingInv, HearsNothing
  <2>4. HearsAll'
    BY <2>1, <2>2 DEF HearingInv, HearsAll, Serving
  <2> QED
    BY <2>3, <2>4 DEF HearingInv
<1>2. ASSUME NEW r \in Requests, FetchMissed(r) \/ Timeout(r) \/ ReturnAnswer(r)
      PROVE  HearingInv'
  <2>1. /\ pc[r] \in {"missed", "waiting", "answered"}
        /\ \A q \in Requests \ {r} : pc'[q] = pc[q]
        /\ UNCHANGED <<hearing, events, call>>
    BY <1>2 DEF FetchMissed, Timeout, ReturnAnswer, SendRequest, ReturnNow,
                TypeOK, ClientTypeOK
  <2>2. \A g \in Gateways, u \in Users : cache'[g][u] \in {None, cache[g][u]}
    <3>1. CASE FetchMissed(r) \/ Timeout(r)
      BY <3>1 DEF FetchMissed, Timeout
    <3>2. CASE ReturnAnswer(r)
      BY <3>2 DEF ReturnAnswer, TypeOK, ClientTypeOK, Rows
    <3> QED
      BY <1>2, <3>1, <3>2
  <2> QED
    BY <2>1, <2>2, HearingUndisturbed
<1>3. ASSUME NEW r \in Requests, NEW u \in Users, StoreAnswer(r, u)
      PROVE  HearingInv'
  <2>1. /\ pc[r] = "answered"
        /\ \A q \in Requests \ {r} : pc'[q] = pc[q]
        /\ UNCHANGED <<hearing, events, call>>
        /\ cache' = [cache EXCEPT ![call[r].gw][u] = left[r][u]]
    BY <1>3 DEF StoreAnswer, TypeOK, ClientTypeOK
  <2>2. hearing[call[r].gw] # {} /\ call[r].gw \in Gateways
    BY <2>1 DEF HearingInv, HearsAll, Mutations
  <2>3. \A g \in Gateways : hearing[g] = {} => cache'[g] = cache[g]
    BY <2>1, <2>2 DEF TypeOK, ClientTypeOK
  <2>4. HearsNothing'
    BY <2>1, <2>3 DEF HearingInv, HearsNothing
  <2>5. HearsAll'
    BY <2>1 DEF HearingInv, HearsAll
  <2> QED
    BY <2>4, <2>5 DEF HearingInv
<1>4. ASSUME NEW g \in Gateways, NEW s \in Mutations,
             ApplyCacheEvent(g, s) \/ LoseEvent(g, s)
      PROVE  HearingInv'
  <2>1. hearing[g] # {}
    BY <1>4 DEF ApplyCacheEvent, LoseEvent, HearingInv, HearsNothing
  <2>2. \A h \in Gateways \ {g} : cache'[h] = cache[h] /\ events'[h] = events[h]
    BY <1>4 DEF ApplyCacheEvent, LoseEvent, TypeOK, ClientTypeOK
  <2>3. UNCHANGED <<hearing, pc, call>>
    BY <1>4 DEF ApplyCacheEvent, LoseEvent
  <2>4. HearsNothing'
    BY <2>1, <2>2, <2>3 DEF HearingInv, HearsNothing
  <2>5. HearsAll'
    BY <2>3 DEF HearingInv, HearsAll
  <2> QED
    BY <2>4, <2>5 DEF HearingInv
<1>5. ASSUME NEW g \in Gateways, SubscribeUserEvents(g) PROVE HearingInv'
  <2>1. PICK i \in 1..Len(EventOrder) :
            hearing' = [hearing EXCEPT ![g] = @ \cup {EventOrder[i]}]
    BY <1>5 DEF SubscribeUserEvents
  <2>2. EventOrder[i] \in Mutations
    BY <2>1, EventSubjects
  <2> PICK x : x = EventOrder[i]
    OBVIOUS
  <2>3. /\ hearing'[g] = hearing[g] \cup {x} /\ x \in Mutations
        /\ \A h \in Gateways \ {g} : hearing'[h] = hearing[h]
    BY <2>1, <2>2 DEF TypeOK, ClientTypeOK
  <2>4. UNCHANGED <<cache, events, pc, call>>
    BY <1>5 DEF SubscribeUserEvents
  <2>5. HearsNothing'
    BY <2>3, <2>4 DEF HearingInv, HearsNothing
  <2>6. HearsAll'
    BY <2>3, <2>4 DEF HearingInv, HearsAll
  <2> QED
    BY <2>5, <2>6 DEF HearingInv
<1>6. ASSUME NEW g \in Gateways, RestartGateway(g) PROVE HearingInv'
  <2>1. /\ \A u \in Users : cache'[g][u] = None
        /\ \A s \in Mutations : events'[g][s] = <<>>
    BY <1>6 DEF RestartGateway, Nothing, TypeOK, ClientTypeOK
  <2>2. /\ \A h \in Gateways \ {g} : /\ cache'[h] = cache[h]
                                     /\ events'[h] = events[h]
                                     /\ hearing'[h] = hearing[h]
        /\ call' = call
    BY <1>6 DEF RestartGateway, TypeOK, ClientTypeOK
  <2>3. \A r \in Requests : pc'[r] \in {"missed", "waiting", "answered"} =>
            pc'[r] = pc[r] /\ call[r].gw # g
    BY <1>6 DEF RestartGateway
  <2>4. HearsNothing'
    BY <2>1, <2>2 DEF HearingInv, HearsNothing
  <2>5. HearsAll'
    BY <2>2, <2>3 DEF HearingInv, HearsAll
  <2> QED
    BY <2>4, <2>5 DEF HearingInv
<1> QED
  BY <1>1, <1>2, <1>3, <1>4, <1>5, <1>6 DEF ClientStep

\* Events go to gateways that hear them, answers to requests at work.
LEMMA DeliverHearing ==
    ASSUME TypeOK, HearingInv, Deliver PROVE HearingInv'
<1> PICK m : m = Head(outbuf)
  OBVIOUS
<1>1. CASE m.kind = "reply"
  <2>1. Accept(m)
    BY <1>1 DEF Deliver
  <2>2. UNCHANGED <<hearing, events, call, cache>>
    BY <2>1 DEF Accept
  <2>3. \A r \in Requests : pc'[r] = pc[r] \/ pc[r] = "waiting"
    BY <2>1 DEF Accept, TypeOK, ClientTypeOK
  <2> QED
    BY <2>2, <2>3, HearingUndisturbed
<1>2. CASE m.kind # "reply"
  <2>1. /\ UNCHANGED <<hearing, call, cache, pc>>
        /\ \A g \in Gateways : m.subject \notin hearing[g] =>
              events'[g] = events[g]
    BY <1>2 DEF Deliver, Distribute
  <2>2. HearsNothing'
    BY <2>1 DEF HearingInv, HearsNothing
  <2>3. HearsAll'
    BY <2>1 DEF HearingInv, HearsAll
  <2> QED
    BY <2>2, <2>3 DEF HearingInv
<1> QED
  BY <1>1, <1>2

\* The gateways of Init hear everything and have no request yet.
LEMMA InitHearing == Init => HearingInv
  BY DEF Init, ClientInit, HearingInv, HearsNothing, HearsAll, Mutations

\* HearingInv is inductive.
LEMMA NextHearing ==
    ASSUME TypeOK, HearingInv, [Next]_vars PROVE HearingInv'
<1>1. CASE UNCHANGED clientVars
  BY <1>1 DEF clientVars, HearingInv, HearsNothing, HearsAll
<1> QED
  BY <1>1, ClientStepHearing, DeliverHearing DEF Next, vars

-----------------------------------------------------------------------------
(* Delivery, and the theorem.                                              *)

\* What arrives was on its way before; a gateway that does not hear it has
\* nothing cached, or the user of the event counts as lost.
LEMMA DeliverCoherent ==
    ASSUME TypeOK, OrderInv, HearingInv, CoherenceInv, Deliver, NoteRaces
    PROVE  CoherenceInv'
<1> PICK m : m = Head(outbuf)
  OBVIOUS
<1>1. /\ outbuf # <<>>
      /\ outbuf' = Tail(outbuf)
      /\ UNCHANGED <<handler, table, clock>>
      /\ lost' = lost \cup MissedBy(m)
      /\ raced \subseteq raced'
  BY DEF Deliver, Flush, natsVars, NoteRaces
<1>2. Pending = Pending' \cup {m} /\ m \in Message
  BY <1>1, PendingAfterFlush DEF TypeOK, ServiceTypes
<1>3. CASE m.kind = "reply"
  <2>1. m \in Reply /\ Accept(m)
    BY <1>2, <1>3 DEF Deliver, Message, Event
  <2>2. /\ UNCHANGED <<cache, events>>
        /\ \A r \in Requests : \/ left'[r] = left[r]
                               \/ /\ r = m.req
                                  /\ pc[m.req] = "waiting"
                                  /\ left'[r] = m.rows
        /\ \A r \in Requests : pc'[r] = "waiting" => pc[r] = "waiting"
    BY <2>1 DEF Accept, Reply, TypeOK, ClientTypeOK
  <2>3. EventsFiled'
    BY <2>2 DEF CoherenceInv, EventsFiled
  <2>4. ASSUME NEW u \in Users \ (raced \cup lost)
        PROVE  AnswersCurrent(u)
    BY <2>4 DEF CoherenceInv
  <2>5. ASSUME NEW u \in Users \ (raced \cup lost), NEW r \in Requests
        PROVE  left'[r][u] = left[r][u] \/ Current(u, left'[r][u])
    BY <1>2, <1>3, <2>2, <2>4 DEF AnswersCurrent
  <2>6. ASSUME NEW u \in Users \ (raced \cup lost), NEW n \in Pending',
               n.kind = "reply", pc'[n.req] = "waiting"
        PROVE  Current(u, n.rows[u])
    <3>1. n.req \in Requests /\ n \in Pending
      BY <1>2, <2>6, PendingTyped DEF Message, Reply, Event
    <3> QED
      BY <2>2, <2>4, <2>6, <3>1 DEF AnswersCurrent
  <2>7. ASSUME NEW u \in Users \ (raced' \cup lost'), NEW g \in Gateways,
               GatewayCurrent(g, u)
        PROVE  GatewayCurrent(g, u)'
    <3>1. EventsInFlight(g, u)' = EventsInFlight(g, u)
      BY <1>2, <1>3, <2>2, SameInFlight
    <3> QED
      BY <1>1, <2>2, <2>7, <3>1, GatewayUndisturbed
  <2> QED
    BY <1>1, <2>3, <2>5, <2>6, <2>7, Undisturbed
<1>4. CASE m.kind # "reply"
  <2>1. m \in Event /\ m.kind = "event" /\ Distribute(m)
    BY <1>2, <1>4 DEF Deliver, Message, Reply, Event
  <2>2. UNCHANGED <<cache, pc, left>>
    BY <2>1 DEF Distribute
  <2>3. ASSUME NEW g \in Gateways, NEW s \in Mutations
        PROVE  ToSet(events'[g][s]) = ToSet(events[g][s])
                  \cup (IF s = m.subject /\ s \in hearing[g] THEN {m} ELSE {})
    <3>1. events[g][s] \in Seq(Event)
      BY DEF TypeOK, ClientTypeOK
    <3>2. events'[g][s] = IF s = m.subject /\ s \in hearing[g]
                          THEN Append(events[g][s], m) ELSE events[g][s]
      BY <2>1 DEF Distribute, TypeOK, ClientTypeOK
    <3>3. ToSet(Append(events[g][s], m)) = ToSet(events[g][s]) \cup {m}
      BY <2>1, <3>1, AppendElements
    <3> QED
      BY <3>2, <3>3
  <2>4. EventsFiled'
    BY <2>3 DEF CoherenceInv, EventsFiled
  <2>5. m.subject \in Mutations
    BY <2>1 DEF Event
  <2>6. ASSUME NEW u \in Users \ (raced' \cup lost'), NEW g \in Gateways,
               GatewayCurrent(g, u)
        PROVE  GatewayCurrent(g, u)'
    <3> DEFINE Waits(e) == e \in Pending /\ e.kind = "event" /\ e.user = u
               Heard(e) == \E s \in Mutations :
                              e \in ToSet(events[g][s]) /\ e.user = u
    <3>1. \A e : Waits(e) <=> Waits(e)' \/ (e = m /\ m.user = u)
      BY <1>2, <2>1
    <3>2. \A e : Heard(e)' <=> Heard(e) \/ (/\ e = m /\ m.user = u
                                            /\ m.subject \in hearing[g])
      BY <2>3, <2>5
    <3>3. \A e : e \in EventsInFlight(g, u) <=> Waits(e) \/ Heard(e)
      BY InFlight
    <3>4. \A e : e \in EventsInFlight(g, u)' <=> Waits(e)' \/ Heard(e)'
      BY InFlight
    <3>5. CASE m.subject \in hearing[g] \/ m.user # u
      <4> HIDE DEF Waits, Heard
      <4>1. \A e : e \in EventsInFlight(g, u)' <=> e \in EventsInFlight(g, u)
        BY <3>1, <3>2, <3>3, <3>4, <3>5
      <4>2. EventsInFlight(g, u)' = EventsInFlight(g, u)
        BY <4>1
      <4> QED
        BY <1>1, <2>2, <2>6, <4>2, GatewayUndisturbed
    <3>6. CASE m.subject \notin hearing[g] /\ m.user = u
      <4>1. u \notin MissedBy(m)
        BY <1>1, <2>6
      <4>2. hearing[g] = {}
        BY <2>1, <2>5, <2>6, <3>6, <4>1 DEF MissedBy, HalfSubscribed
      <4>3. /\ cache[g][u] = None
            /\ \A s \in Mutations : ToSet(events[g][s]) = {}
        BY <2>6, <4>2, ShortSequences DEF HearingInv, HearsNothing
      <4>4. \A e : ~Heard(e)
        BY <4>3
      <4> HIDE DEF Heard
      <4>5. CacheCurrent(g, u)'
        BY <2>2, <4>3 DEF CacheCurrent, Current
      <4>6. ASSUME NEW f \in EventsInFlight(g, u)', f.row # table[u]
            PROVE  Superseded(g, u, f)'
        <5>1. Waits(f)' /\ f \in EventsInFlight(g, u)
          BY <3>1, <3>2, <3>3, <3>4, <3>6, <4>4, <4>6
        <5>2. Superseded(g, u, f)
          BY <2>6, <4>6, <5>1 DEF GatewayCurrent, EventsCurrent
        <5>3. PICK k \in EventsInFlight(g, u) : IsUpdate(k) /\ k.row = table[u]
          BY <5>2 DEF Superseded
        <5>4. k # m
          <6> SUFFICES ASSUME k = m PROVE FALSE
            OBVIOUS
          <6>1. f \in Ahead' /\ IsUpdate(f)
            <7>1. OneUpdater /\ UNCHANGED handler
              BY <1>1 DEF OrderInv, ServiceOrder
            <7> QED
              BY <5>1, <5>2, <7>1 DEF OneUpdater, Pending, Ahead, Superseded
          <6>2. Precede({m}, Ahead')
            <7>1. /\ ServiceTypes /\ ServiceOrder
                  /\ Flush(MissedBy(Head(outbuf)))
              BY UpdatesTyped DEF OrderInv, Deliver
            <7> QED
              BY <7>1, FlushOrder
          <6>3. k.row.stamp < f.row.stamp
            BY <5>3, <6>1, <6>2 DEF Precede
          <6>4. f.row.stamp < k.row.stamp
            BY <5>2, <5>3 DEF Superseded
          <6>5. Dated(f) /\ Dated(k) /\ EventsFiled
            <7>1. EventsFiled
              BY DEF CoherenceInv
            <7> QED
              BY <2>6, <5>1, <5>3, <6>1, <7>1, OlderUpdates DEF IsUpdate
          <6> QED
            BY <5>3, <6>1, <6>3, <6>4, <6>5 DEF Dated, Row
        <5>5. k \in EventsInFlight(g, u)'
          <6>1. Waits(k)
            BY <3>3, <4>4, <5>3
          <6> QED
            BY <3>1, <3>4, <5>4, <6>1
        <5> QED
          BY <1>1, <5>2, <5>3, <5>5 DEF Superseded
      <4>7. EventsCurrent(g, u)'
        BY <1>1, <4>6 DEF EventsCurrent
      <4> QED
        BY <4>5, <4>7 DEF GatewayCurrent
    <3> QED
      BY <3>5, <3>6
  <2>7. ASSUME NEW u \in Users \ (raced \cup lost), NEW n \in Pending',
               n.kind = "reply", pc'[n.req] = "waiting"
        PROVE  Current(u, n.rows[u])
    BY <1>2, <2>2, <2>7 DEF CoherenceInv, AnswersCurrent
  <2> QED
    BY <1>1, <2>2, <2>4, <2>6, <2>7, Undisturbed
<1> QED
  BY <1>3, <1>4

\* At the start caches are empty and nothing is on its way.
LEMMA InitCoherent == Init => CoherenceInv
<1> SUFFICES ASSUME Init PROVE CoherenceInv
  OBVIOUS
<1>1. /\ \A op \in Ops : handler[op] = <<>>
      /\ outbuf = <<>>
      /\ cache = [g \in Gateways |-> Nothing]
      /\ events = [g \in Gateways |-> [s \in Mutations |-> <<>>]]
      /\ left = [r \in Requests |-> Nothing]
      /\ clock = 0
      /\ table \in [Users -> [email : Emails, name : Names, stamp : {0}]
                                \cup {None}]
  BY DEF Init, ServiceInit, ClientInit
<1>2. Pending = {}
  BY <1>1, ShortSequences DEF Pending
<1>3. TableDated
  <2>1. \A u \in Users : table[u] # None => table[u].stamp = 0
    BY <1>1
  <2> QED
    BY <1>1, <2>1 DEF TableDated
<1>4. EventsFiled
  BY <1>1, ShortSequences DEF EventsFiled
<1>5. \A g \in Gateways, u \in Users : EventsInFlight(g, u) = {}
  BY <1>1, <1>2, InFlight, ShortSequences
<1>6. \A u \in Users : AnswersCurrent(u)
  BY <1>1, <1>2 DEF AnswersCurrent, Current, Nothing
<1>7. \A g \in Gateways, u \in Users : GatewayCurrent(g, u)
  BY <1>1, <1>5 DEF GatewayCurrent, EventsCurrent, CacheCurrent, Current, Nothing
<1> QED
  BY <1>3, <1>4, <1>6, <1>7 DEF CoherenceInv

\* CoherenceInv is inductive.
LEMMA NextCoherent ==
    ASSUME TypeOK, ResultsInv, RowsInv, OrderInv, HearingInv, CoherenceInv,
           [Next]_vars
    PROVE  CoherenceInv'
<1>1. CASE UNCHANGED vars
  <2>1. \A m \in Pending' \cup Pending : m \in Pending /\ m \in Pending'
    BY <1>1 DEF vars, serviceVars, Pending
  <2> QED
    BY <1>1, <2>1, ServiceUndisturbed DEF vars, serviceVars, natsVars
<1>2. AnsweredOnce
  <2>1. \A m \in Pending : m.kind = "reply" => m.req \in Requests
    BY PendingTyped DEF Message, Reply, Event
  <2> QED
    BY <2>1 DEF ResultsInv, RepliesInv, CallsInv, AnsweredOnce
<1> QED
  BY <1>1, <1>2, ServiceStepCoherent, ClientStepCoherent, DeliverCoherent
     DEF Next

\* A cached user that differs from its row is about to be corrected, unless
\* its row changed with something about it in flight or an event was lost.
THEOREM CachesAreCoherent == Spec => []CacheCoherentUnlessRaced
<1>1. ASSUME CoherenceInv PROVE CacheCoherentUnlessRaced
  BY <1>1
     DEF CoherenceInv, GatewayCurrent, CacheCurrent, Current,
         CacheCoherentUnlessRaced
<1> QED
  BY <1>1, InitTypes, InitResults, InitRows, InitOrder, InitHearing,
     InitCoherent, NextTypes, NextResults, NextRows, NextOrder, NextHearing,
     NextCoherent, PTL DEF Spec

-----------------------------------------------------------------------------
(* The refinement of UserDirectory.                                         *)

TableInv ==
    /\ UniqueEmails(table)
    /\ \A u \in Users : table[u] # None => table[u].stamp <= clock

\* A request has a result from when it is answered.
SettledInv ==
    \A r \in Requests : pc[r] \in {"answered", "done"} <=> result[r] # None

DirInv == TableInv /\ SettledInv

\* A statement of a handler that changes the row of u, as its command says.
Statement(op, u, row) ==
    /\ Ready(op)
    /\ queue' = [queue EXCEPT ![op] = Tail(@)]
    /\ table' = [table EXCEPT ![u] = row]
    /\ clock' = clock + 1
    /\ applied' = applied \cup {Request(op).req}
    /\ row # None => row.stamp = clock + 1 /\ ~EmailTaken(table, u, row.email)
    /\ \/ /\ op = "create" /\ table[u] = None /\ row # None
          /\ row = InsertedRow(Request(op).input, clock + 1)
       \/ /\ op = "update" /\ table[u] # None /\ row # None
          /\ u = Request(op).user
          /\ row = UpdatedRow(table[u], Request(op).input, clock + 1)
       \/ /\ op = "delete" /\ table[u] # None /\ row = None
          /\ u = Request(op).user

SomeStatement ==
    \E op \in Mutations, u \in Users, row \in Row \cup {None} :
        Statement(op, u, row)

NoStatement == UNCHANGED <<table, clock, applied>>

-----------------------------------------------------------------------------
(* What a step does to the table.                                          *)

\* A handler runs one statement, which changes one row or none.
LEMMA CallbackStatement ==
    ASSUME TypeOK, TableKnown, NEW op \in Ops, Callback(op)
    PROVE  NoStatement \/ SomeStatement
<1> USE DEF Ops, Mutations
<1>0. TypeOK => ServiceTypes
  BY DEF TypeOK, ServiceTypes
<1>1. ASSUME NEW o, NEW code, NEW rows, ReplyOnly(o, code, rows)
      PROVE  NoStatement
  BY <1>1 DEF ReplyOnly, NoStatement
<1>2. CASE RejectMalformed(op)
  BY <1>1, <1>2 DEF RejectMalformed
<1>3. CASE HandleListUsers
  BY <1>1, <1>3 DEF HandleListUsers
<1>4. CASE HandleGetUser
  BY <1>1, <1>4 DEF HandleGetUser
<1>5. CASE HandleCreateUser
  <2> DEFINE c == Request("create")
             row == InsertedRow(c.input, clock + 1)
  <2>1. Ready("create") /\ c \in WellFormed("create")
    BY <1>0, <1>5, RequestTyped DEF HandleCreateUser
  <2>2. PICK u \in UnusedIds(history) :
           IF EmailTaken(table, u, c.input.email)
           THEN ReplyOnly("create", "BAD_REQUEST", Nothing)
           ELSE Commit("create", u, row)
    BY <1>5 DEF HandleCreateUser
  <2>3. u \in Users /\ table[u] = None
    BY DEF UnusedIds, TableKnown, Known
  <2>4. row \in Row /\ row.stamp = clock + 1 /\ row.email = c.input.email
    BY <2>1 DEF InsertedRow, Row, WellFormed, NewUser, TypeOK, ServiceTypeOK
  <2>5. row # None /\ row = InsertedRow(Request("create").input, clock + 1)
    BY <2>4, NoneIsNoValue
  <2> HIDE DEF row
  <2>6. CASE Commit("create", u, row) /\ ~EmailTaken(table, u, row.email)
    BY <2>1, <2>3, <2>4, <2>5, <2>6
       DEF Commit, Conclude, Statement, SomeStatement
  <2> QED
    BY <1>1, <2>2, <2>4, <2>6
<1>6. CASE HandleUpdateUser
  <2> DEFINE c == Request("update")
             row == UpdatedRow(table[c.user], c.input, clock + 1)
  <2>1. Ready("update") /\ c \in WellFormed("update")
    BY <1>0, <1>6, RequestTyped DEF HandleUpdateUser
  <2>2. c.user \in Users /\ c.input \in Input
    BY <2>1 DEF WellFormed
  <2>3. \/ ReplyOnly("update", "BAD_REQUEST", Nothing)
        \/ ReplyOnly("update", "NOT_FOUND", Nothing)
        \/ /\ table[c.user] # None
           /\ ~EmailTaken(table, c.user, row.email)
           /\ Commit("update", c.user, row)
    BY <1>6 DEF HandleUpdateUser
  <2>4. ASSUME table[c.user] # None
        PROVE  row \in Row /\ row.stamp = clock + 1
    <3>1. table[c.user] \in Row /\ clock + 1 \in Nat
      BY <2>2, <2>4 DEF TypeOK, ServiceTypeOK, Rows
    <3> QED
      BY <2>2, <3>1 DEF UpdatedRow, Coalesce, Row, Input
  <2>5. /\ table[c.user] # None => row # None
        /\ row = UpdatedRow(table[c.user], Request("update").input, clock + 1)
        /\ c.user = Request("update").user
    BY <2>4, NoneIsNoValue
  <2> HIDE DEF row, c
  <2>6. CASE /\ table[c.user] # None
             /\ ~EmailTaken(table, c.user, row.email)
             /\ Commit("update", c.user, row)
    BY <2>1, <2>2, <2>4, <2>5, <2>6
       DEF Commit, Conclude, Statement, SomeStatement
  <2> QED
    BY <1>1, <2>3, <2>6
<1>7. CASE HandleDeleteUser
  <2> DEFINE c == Request("delete")
  <2>1. Ready("delete") /\ c \in WellFormed("delete")
    BY <1>0, <1>7, RequestTyped DEF HandleDeleteUser
  <2>2. c.user \in Users
    BY <2>1 DEF WellFormed
  <2>3. \/ ReplyOnly("delete", "NOT_FOUND", Nothing)
        \/ table[c.user] # None /\ Commit("delete", c.user, None)
    BY <1>7 DEF HandleDeleteUser
  <2>4. c.user = Request("delete").user
    OBVIOUS
  <2> HIDE DEF c
  <2>5. CASE table[c.user] # None /\ Commit("delete", c.user, None)
    BY <2>1, <2>2, <2>5, <2>4
       DEF Commit, Conclude, Statement, SomeStatement
  <2> QED
    BY <1>1, <2>3, <2>5
<1>8. ASSUME NEW kind, Send(op, kind) PROVE NoStatement
  BY <1>8 DEF Send, NoStatement
<1> QED
  BY <1>2, <1>3, <1>4, <1>5, <1>6, <1>7, <1>8
     DEF Callback, Respond, PublishEvent

\* Nothing else in the service runs a statement that changes the table.
LEMMA ServiceStatement ==
    ASSUME TypeOK, TableKnown, ServiceStep
    PROVE  NoStatement \/ SomeStatement
<1>1. ASSUME NEW op \in Ops, DatabaseFailure(op) PROVE NoStatement
  BY <1>1 DEF DatabaseFailure, NoStatement
<1>2. ASSUME UNCHANGED serviceVars PROVE NoStatement
  BY <1>2 DEF serviceVars, NoStatement
<1> QED
  BY <1>1, <1>2, CallbackStatement
     DEF ServiceStep, HandleSubscribe, LoseMessage, Terminate, NoStatement

\* The service only takes commands off its queues.
LEMMA ServiceQueues ==
    ASSUME TypeOK, ServiceStep
    PROVE  \A op \in Ops : ToSet(queue'[op]) \subseteq ToSet(queue[op])
<1>1. \/ queue' = queue
      \/ \E op \in Ops : queue[op] # <<>> /\ queue' = [queue EXCEPT ![op] = Tail(@)]
      \/ \A op \in Ops : queue'[op] = <<>>
  <2>1. ASSUME NEW op, NEW messages, Ready(op), Conclude(op, messages)
        PROVE  queue[op] # <<>> /\ queue' = [queue EXCEPT ![op] = Tail(@)]
    BY <2>1 DEF Ready, Conclude
  <2>2. ASSUME NEW op \in Ops, Callback(op)
        PROVE  queue' = queue \/ \E o \in Ops : \E messages :
                   Ready(o) /\ Conclude(o, messages)
    BY <2>2 DEF Callback, RejectMalformed, HandleListUsers, HandleCreateUser,
                HandleGetUser, HandleUpdateUser, HandleDeleteUser, Respond,
                PublishEvent, Send, natsVars, ReplyOnly, Commit, Ops
  <2> QED
    BY <2>1, <2>2
       DEF ServiceStep, DatabaseFailure, LoseMessage, HandleSubscribe,
           Terminate, LoseCommand
<1>2. ASSUME NEW op \in Ops, queue[op] # <<>>,
             queue' = [queue EXCEPT ![op] = Tail(@)], NEW o \in Ops
      PROVE  ToSet(queue'[o]) \subseteq ToSet(queue[o])
  <2>1. queue[op] \in Seq(Command(op))
    BY DEF TypeOK, NatsTypeOK
  <2>2. queue'[o] = IF o = op THEN Tail(queue[op]) ELSE queue[o]
    BY <1>2 DEF TypeOK, NatsTypeOK
  <2> QED
    BY <1>2, <2>1, <2>2, TailElements
<1> QED
  BY <1>1, <1>2, ShortSequences

\* E-mails stay unique and stamps in the past.
LEMMA StatementTable ==
    ASSUME TypeOK, TableInv, SomeStatement PROVE TableInv'
<1>1. PICK op \in Mutations, u \in Users, row \in Row \cup {None} :
          Statement(op, u, row)
  BY DEF SomeStatement
<1>2. /\ table' = [table EXCEPT ![u] = row]
      /\ clock' = clock + 1
      /\ row # None => row.stamp = clock + 1 /\ ~EmailTaken(table, u, row.email)
      /\ clock \in Nat
      /\ table \in Rows
  BY <1>1 DEF Statement, TypeOK, ServiceTypeOK
<1>3. \A v \in Users : table'[v] = IF v = u THEN row ELSE table[v]
  BY <1>2 DEF Rows
<1>4. UniqueEmails(table')
  BY <1>2, <1>3 DEF TableInv, UniqueEmails, EmailTaken
<1>5. \A v \in Users : table'[v] # None => table'[v].stamp <= clock'
  <2>1. ASSUME NEW v \in Users, table'[v] # None, v # u
        PROVE  table'[v].stamp <= clock'
    <3>1. table[v] \in Row /\ table[v].stamp <= clock
      BY <1>2, <1>3, <2>1 DEF TableInv, Rows
    <3> QED
      BY <1>2, <1>3, <2>1, <3>1 DEF Row
  <2> QED
    BY <1>2, <1>3, <2>1
<1> QED
  BY <1>4, <1>5 DEF TableInv

-----------------------------------------------------------------------------
(* What a step does to the requests.                                       *)

\* One request gets its result.
Settle(r) ==
    /\ Returned[r] = None
    /\ pc'[r] = "done"
    /\ result'[r] \in Codes
    /\ \A q \in Requests \ {r} : pc'[q] = pc[q] /\ result'[q] = result[q]

\* What callers see of a step of a gateway.
Visible ==
    \/ UNCHANGED <<Asked, Due, Returned>>
    \/ \E r \in Requests : Directory!Invoke(r)
    \/ UNCHANGED <<call, Due>> /\ \E r \in Requests : Settle(r)
    \/ Directory!Abandon

\* What a request asked for is on record from when it is called.
LEMMA AskedIs ==
    ASSUME TypeOK, NEW r \in Requests
    PROVE  /\ call[r] = None => Asked[r] = None
           /\ call[r] # None =>
                 /\ Asked[r].op = call[r].op
                 /\ Asked[r].user = call[r].user
                 /\ Asked[r] \in Directory!Wish
                 /\ Asked[r] # None
<1>1. ASSUME call[r] # None
      PROVE  /\ Asked[r].op = call[r].op
             /\ Asked[r].user = call[r].user
             /\ Asked[r] \in Directory!Wish
             /\ Asked[r] # None
  <2>1. call[r] \in Call
    BY <1>1 DEF TypeOK, ClientTypeOK
  <2>2. call[r].op \in Ops /\ call[r].user \in Users \cup {None}
    BY <2>1 DEF Call, Ops
  <2>3. Asked[r] = [op |-> call[r].op, user |-> call[r].user]
    BY <1>1 DEF Asked
  <2>4. Asked[r] \in [op : Ops, user : Users \cup {None}]
    BY <2>2, <2>3
  <2> QED
    BY <2>3, <2>4, NoneIsNoWish DEF Directory!Wish
<1> QED
  BY <1>1 DEF Asked

-----------------------------------------------------------------------------
(* What is due.                                                            *)

\* The commands of a request that wait to be handled.
LEMMA OutstandingIs ==
    /\ \A r, c : c \in Outstanding(r) <=>
          c.req = r /\ \E op \in Mutations : c \in ToSet(queue[op])
    /\ \A r, c : c \in Outstanding(r)' <=>
          c.req = r /\ \E op \in Mutations : c \in ToSet(queue'[op])
  BY DEF Outstanding

\* What is due to a request without a command, or with one.
LEMMA InputOfOne ==
    InputOf({}) = None /\ \A c : InputOf({c}) = c.input
<1>1. ASSUME NEW c PROVE InputOf({c}) = c.input
  <2>1. (CHOOSE d \in {c} : TRUE) = c
    OBVIOUS
  <2> QED
    BY <2>1 DEF InputOf
<1> QED
  BY <1>1 DEF InputOf

\* Queues as they were: nothing new is due.
LEMMA SameDue ==
    ASSUME \A op \in Mutations : queue'[op] = queue[op] PROVE Due' = Due
<1>1. ASSUME NEW r PROVE Outstanding(r)' = Outstanding(r)
  <2>1. \A c : c \in Outstanding(r)' <=> c \in Outstanding(r)
    BY OutstandingIs
  <2> QED
    BY <2>1
<1> QED
  BY <1>1 DEF Due

\* A request has one command at most, whose input is what is due.
LEMMA DueIs ==
    ASSUME TypeOK, CommandsInv, QueuesInv, NEW r, NEW c \in Outstanding(r)
    PROVE  /\ r \in Requests
           /\ Outstanding(r) = {c}
           /\ Due[r] = c.input
           /\ c.input \in Input
           /\ c.input # None
<1>1. PICK op \in Mutations : c.req = r /\ c \in ToSet(queue[op])
  BY OutstandingIs
<1>2. op \in Ops
  BY DEF Mutations, Ops
<1>3. ASSUME NEW d \in Outstanding(r) PROVE d = c
  <2>1. PICK o \in Mutations : d.req = r /\ d \in ToSet(queue[o])
    BY OutstandingIs
  <2>2. o = op
    BY <1>1, <2>1 DEF CommandsInv, Mutations, Ops
  <2>3. PICK i \in DOMAIN queue[op] : queue[op][i] = c
    BY <1>1 DEF ToSet
  <2>4. PICK j \in DOMAIN queue[op] : queue[op][j] = d
    BY <2>1, <2>2 DEF ToSet
  <2>5. i = j
    BY <1>1, <1>2, <2>1, <2>3, <2>4 DEF QueuesInv, OneEach
  <2> QED
    BY <2>3, <2>4, <2>5
<1>4. Outstanding(r) = {c}
  BY <1>3
<1>5. c \in Command(op)
  BY <1>1, <1>2, ElementsTyped DEF TypeOK, NatsTypeOK
<1>6. r \in Requests /\ c.input \in Input
  <2>1. NoInput \in Input /\ NewUser \subseteq Input
    BY DEF NoInput, NewUser, Input
  <2>2. CASE c \in Malformed
    BY <1>1, <2>1, <2>2 DEF Malformed
  <2>3. CASE c \in WellFormed(op)
    <3>1. r \in Requests
      BY <1>1, <2>3 DEF WellFormed
    <3>2. CASE op = "create"
      BY <2>1, <2>3, <3>1, <3>2 DEF WellFormed
    <3>3. CASE op = "update"
      BY <2>3, <3>1, <3>3 DEF WellFormed
    <3>4. CASE op = "delete"
      BY <2>1, <2>3, <3>1, <3>4 DEF WellFormed
    <3> QED
      BY <3>2, <3>3, <3>4 DEF Mutations
  <2> QED
    BY <1>5, <2>2, <2>3 DEF Command
<1>8. Due[r] = c.input
  BY <1>4, <1>6, InputOfOne DEF Due
<1> QED
  BY <1>4, <1>6, <1>8, NoneIsNoValue

\* A command is handed to the bus: it, and nothing else, becomes due.
LEMMA EnqueuedDue ==
    ASSUME TypeOK, NEW r \in Requests, \A q : Outstanding(q) = {} \/ q # r,
           NEW op \in Ops, NEW c \in Command(op), c.req = r, Enqueue(op, c)
    PROVE  /\ Due' = [Due EXCEPT ![r] = Due'[r]]
           /\ Due'[r] \in {c.input, None}
           /\ Due'[r] # None => op \in Mutations
<1>1. /\ queue[op] \in Seq(Command(op))
      /\ queue'[op] = Append(queue[op], c)
      /\ \A o \in Ops \ {op} : queue'[o] = queue[o]
  BY DEF Enqueue, TypeOK, NatsTypeOK
<1>2. ToSet(queue'[op]) = ToSet(queue[op]) \cup {c}
  BY <1>1, AppendElements
<1>3. ASSUME NEW o \in Mutations, NEW d
      PROVE  d \in ToSet(queue'[o])
                <=> d \in ToSet(queue[o]) \/ (o = op /\ d = c)
  <2>1. o \in Ops
    BY DEF Mutations, Ops
  <2> QED
    BY <1>1, <1>2, <2>1
<1>4. ASSUME NEW q, q # r PROVE Outstanding(q)' = Outstanding(q)
  <2>1. \A d : d \in Outstanding(q)' <=> d \in Outstanding(q)
    BY <1>3, <1>4, OutstandingIs
  <2> QED
    BY <2>1
<1>5. \A d : d \in Outstanding(r)' => d = c /\ op \in Mutations
  BY <1>3, OutstandingIs
<1>6. /\ Due' = [Due EXCEPT ![r] = Due'[r]]
      /\ Due'[r] = InputOf(Outstanding(r)')
  BY <1>4 DEF Due
<1>7. CASE Outstanding(r)' = {}
  BY <1>6, <1>7, InputOfOne
<1>8. CASE Outstanding(r)' # {}
  <2>1. Outstanding(r)' = {c} /\ op \in Mutations
    BY <1>5, <1>8
  <2> QED
    BY <1>6, <2>1, InputOfOne
<1> QED
  BY <1>6, <1>7, <1>8

\* Commands leave the queues: nothing else becomes due.
LEMMA LessDue ==
    ASSUME TypeOK, CommandsInv, QueuesInv, NEW r \in Requests,
           \A op \in Ops : ToSet(queue'[op]) \subseteq ToSet(queue[op])
    PROVE  /\ Due'[r] \in {None, Due[r]}
           /\ Outstanding(r)' = {} => Due'[r] = None
<1>1. \A c : c \in Outstanding(r)' => c \in Outstanding(r)
  BY OutstandingIs DEF Mutations, Ops
<1>2. CASE Outstanding(r)' = {}
  BY <1>2, InputOfOne DEF Due
<1>3. CASE Outstanding(r)' # {}
  <2>1. PICK c : c \in Outstanding(r)'
    BY <1>3
  <2>2. Outstanding(r) = {c}
    BY <1>1, <2>1, DueIs
  <2>3. Outstanding(r)' = Outstanding(r)
    BY <1>1, <2>1, <2>2
  <2> QED
    BY <1>3, <2>3 DEF Due
<1> QED
  BY <1>2, <1>3

\* The command of op is taken: nothing is due to its request any more, and
\* the others are owed what they were.
LEMMA TakenDue ==
    ASSUME TypeOK, CommandsInv, QueuesInv, NEW op \in Mutations, Taken(op)
    PROVE  /\ Due[Request(op).req] = Request(op).input
           /\ Request(op).input # None
           /\ Due' = [Due EXCEPT ![Request(op).req] = None]
<1> PICK c : c = Request(op)
  OBVIOUS
<1> PICK r : r = c.req
  OBVIOUS
<1>0. op \in Ops
  BY DEF Mutations, Ops
<1>1. /\ \A o \in Ops : ToSet(queue'[o]) \subseteq ToSet(queue[o])
      /\ c \in ToSet(queue[op])
      /\ \A d \in ToSet(queue'[op]) : d.req # r
      /\ r \in Requests
  BY TakenQueues DEF Request
<1>2. ToSet(queue[op]) = {c} \cup ToSet(queue'[op])
  <2>1. queue[op] \in Seq(Command(op)) /\ queue[op] # <<>>
    BY <1>0 DEF Taken, TypeOK, NatsTypeOK
  <2>2. queue'[op] = Tail(queue[op])
    BY <1>0 DEF Taken, TypeOK, NatsTypeOK
  <2> QED
    BY <2>1, <2>2, TailElements DEF Request
<1>3. \A o \in Ops \ {op} : queue'[o] = queue[o]
  BY <1>0 DEF Taken, TypeOK, NatsTypeOK
<1>4. c \in Outstanding(r)
  BY <1>1, OutstandingIs
<1>5. Due[r] = c.input /\ c.input # None /\ Outstanding(r) = {c}
  BY <1>4, DueIs
<1>6. Outstanding(r)' = {}
  <2>1. ASSUME NEW d \in Outstanding(r)' PROVE FALSE
    <3>1. PICK o \in Mutations : d.req = r /\ d \in ToSet(queue'[o])
      BY OutstandingIs
    <3>2. o # op
      BY <1>1, <3>1
    <3>3. call[r].op = op /\ call[r].op = o
      BY <1>0, <1>1, <3>1 DEF CommandsInv, Mutations, Ops
    <3> QED
      BY <3>2, <3>3
  <2> QED
    BY <2>1
<1>7. ASSUME NEW q, q # r PROVE Outstanding(q)' = Outstanding(q)
  <2>1. \A d : d \in Outstanding(q)' <=> d \in Outstanding(q)
    BY <1>0, <1>2, <1>3, <1>7, OutstandingIs DEF Mutations, Ops
  <2> QED
    BY <2>1
<1>8. Due' = [Due EXCEPT ![r] = None]
  BY <1>6, <1>7, InputOfOne DEF Due
<1> QED
  BY <1>5, <1>8

-----------------------------------------------------------------------------
(* What callers see.                                                       *)

\* A new call is the directory's Invoke: what it sends becomes due.
LEMMA StartCallVisible ==
    ASSUME TypeOK, ResultsInv, SettledInv, NEW r \in Requests, StartCall(r),
           UNCHANGED <<table, applied>>
    PROVE  SettledInv' /\ Directory!Invoke(r)
<1>0. CallsInv
  BY DEF ResultsInv
<1>1. PICK g \in Gateways, op \in Ops, u \in Users \cup {None} :
          /\ Begin(r, g, op, u)
          /\ [gw |-> g, op |-> op, user |-> u] \in Call
          /\ \/ \E in \in Input :
                   /\ SendRequest(r, op, u, in)
                   /\ [req |-> r, user |-> u, input |-> in, good |-> TRUE]
                          \in Command(op)
             \/ op = "get" /\ ReturnNow(r, "OK")
             \/ /\ pc' = [pc EXCEPT ![r] = "missed"]
                /\ UNCHANGED <<queue, result>>
  <2>1. PICK g \in Gateways :
            \/ List(r, g)
            \/ \E u \in Users : Get(r, g, u) \/ Delete(r, g, u)
            \/ \E in \in NewUser : Create(r, g, in)
            \/ \E u \in Users, in \in Input \ {NoInput} : Update(r, g, u, in)
    BY DEF StartCall
  <2>2. NoInput \in Input /\ NewUser \subseteq Input
    BY DEF NoInput, Input, NewUser
  <2> QED
    BY <2>1, <2>2
       DEF List, Get, Delete, Create, Update, Ops, Call, Command, WellFormed
<1>2. /\ pc[r] = "idle"
      /\ call[r] = None
      /\ result[r] = None
  BY <1>0, <1>1 DEF Begin, CallsInv, Started, SettledInv
<1>3. PICK code \in {None, "INTERNAL"} \cup (IF op = "get" THEN {"OK"} ELSE {}),
           stage \in {"missed", "waiting", "done"} :
          /\ pc' = [pc EXCEPT ![r] = stage]
          /\ result' = [result EXCEPT ![r] = code]
          /\ code # None <=> stage = "done"
          /\ \/ queue' = queue
             \/ /\ stage = "waiting"
                /\ \E c \in Command(op) :
                      /\ c.req = r /\ c.input \in Input
                      /\ Enqueue(op, c)
  <2>1. result = [result EXCEPT ![r] = None]
    BY <1>2 DEF TypeOK, ClientTypeOK
  <2>2. None # "OK" /\ None # "INTERNAL"
    BY NoneIsNoCode DEF Codes
  <2>3. CASE \E in \in Input :
                 /\ SendRequest(r, op, u, in)
                 /\ [req |-> r, user |-> u, input |-> in, good |-> TRUE]
                        \in Command(op)
    BY <2>1, <2>2, <2>3 DEF SendRequest, ReturnNow
  <2>4. CASE \/ op = "get" /\ ReturnNow(r, "OK")
             \/ /\ pc' = [pc EXCEPT ![r] = "missed"]
                /\ UNCHANGED <<queue, result>>
    BY <2>1, <2>2, <2>4 DEF ReturnNow
  <2> QED
    BY <1>1, <2>3, <2>4
<1>4. /\ pc'[r] = stage /\ result'[r] = code
      /\ \A q \in Requests \ {r} : pc'[q] = pc[q] /\ result'[q] = result[q]
  BY <1>3 DEF TypeOK, ClientTypeOK
<1>5. SettledInv'
  BY <1>3, <1>4 DEF SettledInv
<1>6. call' = [call EXCEPT ![r] = [gw |-> g, op |-> op, user |-> u]]
  BY <1>1 DEF Begin
<1>7. [gw |-> g, op |-> op, user |-> u] # None
  BY <1>1, NoneIsNoCall
<1> PICK wish : wish = [op |-> op, user |-> u]
  OBVIOUS
<1>8. /\ Asked' = [Asked EXCEPT ![r] = wish]
      /\ Asked'[r] = wish
      /\ Asked[r] = None
      /\ wish \in Directory!Wish /\ wish.op = op
  BY <1>2, <1>6, <1>7 DEF Asked, TypeOK, ClientTypeOK, Directory!Wish
<1>9. Returned' = [Returned EXCEPT ![r] = code] /\ Returned[r] = None
  BY <1>2, <1>3, <1>4 DEF Returned, TypeOK, ClientTypeOK
<1>10. \A q : Outstanding(q) = {} \/ q # r
  BY <1>2, UnsentRequest, OutstandingIs DEF Mutations, Ops
<1>11. CASE queue' = queue
  <2>1. Due' = Due /\ Due[r] = None
    <3>1. Due' = Due
      BY <1>11, SameDue
    <3>2. Outstanding(r) = {}
      BY <1>10
    <3> QED
      BY <3>1, <3>2 DEF Due, InputOf
  <2>2. Due' = [Due EXCEPT ![r] = Due'[r]]
    BY <2>1 DEF Due
  <2>3. CASE code = None
    <3>1. Returned' = Returned
      BY <1>9, <2>3 DEF Returned
    <3> QED
      BY <1>5, <1>8, <2>1, <2>2, <3>1 DEF Directory!Invoke
  <2>4. CASE code # None
    <3>1. code \in {"INTERNAL"} \cup (IF wish.op = "get" THEN {"OK"} ELSE {})
      BY <1>3, <1>8, <2>4
    <3> QED
      BY <1>5, <1>8, <1>9, <2>1, <3>1 DEF Directory!Invoke
  <2> QED
    BY <2>3, <2>4
<1>12. ASSUME stage = "waiting", NEW c \in Command(op), c.req = r,
              c.input \in Input, Enqueue(op, c)
       PROVE  SettledInv' /\ Directory!Invoke(r)
  <2>1. /\ Due' = [Due EXCEPT ![r] = Due'[r]]
        /\ Due'[r] \in {c.input, None}
        /\ Due'[r] # None => op \in Mutations
    BY <1>10, <1>12, EnqueuedDue
  <2>2. Returned' = Returned
    BY <1>3, <1>9, <1>12 DEF Returned
  <2> QED
    BY <1>5, <1>8, <1>12, <2>1, <2>2
       DEF Directory!Invoke, Directory!Input, Input
<1> QED
  BY <1>3, <1>11, <1>12

\* Every other step of a gateway settles requests, or nothing callers see.
LEMMA ClientStepVisible ==
    ASSUME TypeOK, ResultsInv, SettledInv, ClientStep,
           UNCHANGED <<table, applied>>
    PROVE  SettledInv' /\ Visible
<1> USE DEF TypeOK, ClientTypeOK
<1>0. None \notin Codes /\ CallsInv
  BY NoneIsNoCode DEF ResultsInv
<1>1. ASSUME NEW r \in Requests, StartCall(r) PROVE SettledInv' /\ Visible
  BY <1>1, StartCallVisible DEF Visible
<1>2. ASSUME UNCHANGED <<pc, call, result, Due>> PROVE SettledInv' /\ Visible
  BY <1>2 DEF SettledInv, Visible, Asked, Returned
<1>3. ASSUME NEW r \in Requests, pc[r] # "done", result'[r] \in Codes,
             pc' = [pc EXCEPT ![r] = "done"], UNCHANGED <<call, Due>>,
             \A q \in Requests \ {r} : result'[q] = result[q]
      PROVE  SettledInv' /\ Visible
  BY <1>0, <1>3 DEF SettledInv, Visible, Settle, Returned
<1>4. ASSUME NEW r \in Requests, FetchMissed(r) PROVE SettledInv' /\ Visible
  <2>0. \A op \in Mutations : queue'[op] = queue[op]
    BY <1>4 DEF FetchMissed, SendRequest, ReturnNow, Enqueue, NatsTypeOK,
                Mutations, Ops
  <2>1. call' = call /\ Due' = Due /\ pc[r] = "missed"
    BY <1>4, <2>0, SameDue DEF FetchMissed
  <2>2. CASE ReturnNow(r, "INTERNAL")
    BY <1>3, <2>1, <2>2 DEF ReturnNow, Codes
  <2>3. CASE pc' = [pc EXCEPT ![r] = "waiting"] /\ result' = result
    BY <2>1, <2>3 DEF SettledInv, Visible, Asked, Returned
  <2> QED
    BY <1>4, <2>2, <2>3 DEF FetchMissed, SendRequest
<1>5. ASSUME NEW r \in Requests, Timeout(r) PROVE SettledInv' /\ Visible
  <2>1. Due' = Due
    BY <1>5, SameDue DEF Timeout, natsVars
  <2> QED
    BY <1>3, <1>5, <2>1 DEF Timeout, Codes
<1>6. ASSUME NEW r \in Requests, pc[r] = "answered",
             pc' \in {pc, [pc EXCEPT ![r] = "done"]},
             UNCHANGED <<call, result, queue>>
      PROVE  SettledInv' /\ Visible
  <2>0. Due' = Due
    BY <1>6, SameDue
  <2>1. result[r] \in Codes
    BY <1>6 DEF SettledInv
  <2> QED
    BY <1>2, <1>3, <1>6, <2>0, <2>1
<1>7. ASSUME NEW r \in Requests, ReturnAnswer(r) PROVE SettledInv' /\ Visible
  BY <1>6, <1>7 DEF ReturnAnswer, natsVars
<1>8. ASSUME NEW r \in Requests, NEW u \in Users, StoreAnswer(r, u)
      PROVE  SettledInv' /\ Visible
  BY <1>6, <1>8 DEF StoreAnswer, natsVars
<1>9. ASSUME NEW g \in Gateways, RestartGateway(g)
      PROVE  SettledInv' /\ Visible
  <2> DEFINE R == {r \in Requests :
                      /\ pc[r] \in {"missed", "waiting", "answered"}
                      /\ call[r].gw = g}
  <2>1. /\ pc' = [r \in Requests |-> IF r \in R THEN "done" ELSE pc[r]]
        /\ result' = [r \in Requests |->
                         IF r \in R THEN "INTERNAL" ELSE result[r]]
        /\ call' = call
    BY <1>9 DEF RestartGateway
  <2>2. \A r \in R : Asked[r] # None /\ Returned[r] = None
    <3>1. ASSUME NEW r \in R PROVE Asked[r] # None
      BY <1>0, AskedIs DEF CallsInv, Started
    <3> QED
      BY <3>1 DEF Returned
  <2>3. \A r \in Requests : Returned'[r] = IF r \in R THEN "INTERNAL"
                                                     ELSE Returned[r]
    BY <2>1 DEF Returned
  <2>4. Asked' = Asked
    BY <2>1 DEF Asked
  <2>5. Directory!Abandon
    <3>1. Due' = Due
      BY <1>9, SameDue DEF RestartGateway
    <3> QED
      BY <2>2, <2>3, <2>4, <3>1 DEF Directory!Abandon
  <2>6. SettledInv'
    BY <1>0, <2>1 DEF SettledInv, Codes
  <2> QED
    BY <2>5, <2>6 DEF Visible
<1>10. ASSUME UNCHANGED <<pc, call, result, queue>> PROVE SettledInv' /\ Visible
  BY <1>2, <1>10, SameDue
<1>11. ASSUME NEW g \in Gateways, NEW s \in Mutations,
              ApplyCacheEvent(g, s) \/ LoseEvent(g, s)
       PROVE  SettledInv' /\ Visible
  BY <1>10, <1>11 DEF ApplyCacheEvent, LoseEvent, natsVars
<1>12. ASSUME NEW g \in Gateways, SubscribeUserEvents(g)
       PROVE  SettledInv' /\ Visible
  BY <1>10, <1>12 DEF SubscribeUserEvents, natsVars
<1> QED
  BY <1>1, <1>4, <1>5, <1>7, <1>8, <1>9, <1>11, <1>12 DEF ClientStep

\* An answer that arrives is not yet returned.
LEMMA DeliverVisible ==
    ASSUME TypeOK, SettledInv, Deliver
    PROVE  SettledInv' /\ UNCHANGED <<Asked, Due, Returned>>
<1> DEFINE m == Head(outbuf)
<1>0. Due' = Due
  BY SameDue DEF Deliver, Flush
<1>1. m \in Message
  BY PendingAfterFlush DEF Deliver, Flush, TypeOK
<1>2. CASE m.kind = "reply" /\ pc[m.req] = "waiting"
  <2>1. /\ m.req \in Requests
        /\ m.code # None
    BY <1>1, <1>2, NoneIsNoCode DEF Message, Reply, Event
  <2>2. /\ pc' = [pc EXCEPT ![m.req] = "answered"]
        /\ result' = [result EXCEPT ![m.req] = m.code]
        /\ call' = call
    BY <1>2 DEF Deliver, Accept
  <2> HIDE DEF m
  <2> QED
    BY <1>0, <1>2, <2>1, <2>2
       DEF SettledInv, Asked, Returned, TypeOK, ClientTypeOK
<1>3. CASE ~(m.kind = "reply" /\ pc[m.req] = "waiting")
  <2>1. UNCHANGED <<pc, call, result>>
    BY <1>3 DEF Deliver, Accept, Distribute
  <2> QED
    BY <1>0, <2>1 DEF SettledInv, Asked, Returned
<1> QED
  BY <1>2, <1>3

-----------------------------------------------------------------------------
(* The invariant.                                                          *)

\* The table of an earlier life has unique e-mails and old stamps.
LEMMA InitDirectory == Init => DirInv /\ Directory!Init
<1> SUFFICES ASSUME Init PROVE DirInv /\ Directory!Init
  OBVIOUS
<1>1. /\ table \in [Users -> [email : Emails, name : Names, stamp : {0}]
                                \cup {None}]
      /\ UniqueEmails(table)
      /\ clock = 0
      /\ applied = {}
  BY DEF Init, ServiceInit
<1>2. /\ pc = [r \in Requests |-> "idle"]
      /\ call = [r \in Requests |-> None]
      /\ result = [r \in Requests |-> None]
      /\ \A op \in Mutations : queue[op] = <<>>
  BY DEF Init, ClientInit, NatsInit, Mutations, Ops
<1>3. TableInv
  BY <1>1 DEF TableInv
<1>4. SettledInv
  BY <1>2 DEF SettledInv
<1>5. Asked = [r \in Requests |-> None] /\ Returned = [r \in Requests |-> None]
  BY <1>2 DEF Asked, Returned
<1>6. Due = [r \in Requests |-> None]
  <2>1. \A r : Outstanding(r) = {}
    BY <1>2, OutstandingIs, ShortSequences
  <2> QED
    BY <2>1, InputOfOne DEF Due
<1>7. Directory!Init
  BY <1>1, <1>5, <1>6 DEF Directory!Init, Directory!UniqueEmails, UniqueEmails
<1> QED
  BY <1>3, <1>4, <1>7 DEF DirInv

-----------------------------------------------------------------------------
(* The theorem.                                                            *)

\* A settled request returns what is true of it.
LEMMA SettleReturns ==
    ASSUME TypeOK, ResultsInv', NEW r \in Requests, Settle(r),
           UNCHANGED <<table, applied, call, Due>>
    PROVE  Directory!Return(r)
<1>1. Asked' = Asked
  BY DEF Asked
<1>2. Asked[r] # None /\ Asked[r].op = call[r].op
  <2>1. call[r] # None
    BY DEF Settle, ResultsInv, CallsInv, Started
  <2> QED
    BY <2>1, AskedIs
<1>3. Returned' = [Returned EXCEPT ![r] = result'[r]]
  BY DEF Settle, Returned
<1>4. result'[r] # "INTERNAL" => Due[r] = None
  <2>1. ASSUME result'[r] # "INTERNAL" PROVE Outstanding(r)' = {}
    <3>1. result'[r] \in Definite
      BY <2>1 DEF Settle, Codes, Definite
    <3>2. \A c : c \notin Outstanding(r)'
      BY <3>1, OutstandingIs DEF ResultsInv, CommandsInv, Mutations, Ops
    <3> QED
      BY <3>2
  <2> QED
    BY <2>1, InputOfOne DEF Due
<1>5. Returned'[r] = result'[r]
  BY DEF Settle, Returned
<1>6. Directory!Truthful(r, result'[r])
  BY <1>2, <1>4 DEF ResultsInv, DefiniteResultsAreTrue, Directory!Truthful
<1> QED
  BY <1>1, <1>2, <1>3, <1>6, <1>5 DEF Settle, Directory!Return

\* A statement is the directory's Apply, once and before any final answer.
LEMMA StatementApplies ==
    ASSUME TypeOK, ResultsInv, DirInv, TableInv', SomeStatement,
           UNCHANGED clientVars
    PROVE  \E r \in Requests : Directory!Apply(r)
<1>1. PICK op \in Mutations, u \in Users, row \in Row \cup {None} :
          Statement(op, u, row)
  BY DEF SomeStatement
<1> DEFINE r == Request(op).req
<1>2. op \in Ops /\ queue[op] \in Seq(Command(op)) /\ queue[op] # <<>>
  BY <1>1 DEF Mutations, Ops, Statement, Ready, TypeOK, NatsTypeOK
<1>3. /\ Request(op) \in ToSet(queue[op])
      /\ Request(op) \in Command(op)
  BY <1>2, TailElements DEF Request
<1>4. /\ r \in Requests
      /\ Started(r)
      /\ call[r].op = op
      /\ r \notin applied
      /\ result[r] \notin Definite
  BY <1>2, <1>3 DEF ResultsInv, CommandsInv, Command, WellFormed, Malformed
<1>5. /\ table' = [table EXCEPT ![u] = row]
      /\ applied' = applied \cup {r}
      /\ row # None => row.stamp = clock + 1
      /\ \/ /\ op = "create" /\ table[u] = None /\ row # None
            /\ row = InsertedRow(Request(op).input, clock + 1)
         \/ /\ op = "update" /\ table[u] # None /\ row # None
            /\ u = Request(op).user
            /\ row = UpdatedRow(table[u], Request(op).input, clock + 1)
         \/ /\ op = "delete" /\ table[u] # None /\ row = None
            /\ u = Request(op).user
  BY <1>1 DEF Statement
<1>6. call[r].user = Request(op).user
  BY <1>2, <1>3 DEF ResultsInv, CommandsInv
<1>7. /\ Due[r] = Request(op).input /\ Due[r] # None
       /\ Due' = [Due EXCEPT ![r] = None]
  <2>1. Taken(op) /\ CommandsInv /\ QueuesInv
    BY <1>1, <1>2 DEF Taken, Statement, ResultsInv
  <2> QED
    BY <2>1, TakenDue
<1> HIDE DEF r
<1>8. Asked' = Asked /\ Returned' = Returned
  BY DEF clientVars, Asked, Returned
<1>9. /\ Asked[r].op = op /\ Asked[r].user = Request(op).user
      /\ Returned[r] \in {None, "INTERNAL"}
  <2>1. Asked[r].op = op /\ Asked[r].user = Request(op).user
    BY <1>4, <1>6, AskedIs DEF Started
  <2> QED
    BY <1>4, <2>1 DEF Returned, Definite, TypeOK, ClientTypeOK, Codes
<1>10. row # table[u]
  <2>1. CASE op = "update"
    <3>1. table[u].stamp <= clock /\ table[u].stamp \in Nat /\ clock \in Nat
      BY <1>5, <2>1 DEF DirInv, TableInv, TypeOK, ServiceTypeOK, Rows, Row
    <3>2. row.stamp = clock + 1
      BY <1>5, <2>1
    <3> QED
      BY <3>1, <3>2
  <2> QED
    BY <1>5, <2>1
<1>11. table'[u] = row /\ table' = [table EXCEPT ![u] = table'[u]]
  BY <1>5 DEF TypeOK, ServiceTypeOK, Rows
<1>12. Directory!Permitted(Asked[r], Due[r], u, table[u], table'[u])
  BY <1>5, <1>9, <1>10, <1>11, <1>7
     DEF Directory!Permitted, Directory!InsertedRow, InsertedRow,
         Directory!UpdatedRow, UpdatedRow, Directory!Coalesce, Coalesce
<1>13. Directory!UniqueEmails(table')
  BY DEF TableInv, UniqueEmails, Directory!UniqueEmails
<1> QED
  BY <1>4, <1>5, <1>8, <1>9, <1>10, <1>11, <1>12, <1>13, <1>7
     DEF Directory!Apply

\* Every step keeps DirInv and is a step of the directory, or none.
LEMMA NextDirectory ==
    ASSUME TypeOK, ResultsInv, ResultsInv', RowsInv, DirInv, [Next]_vars
    PROVE  DirInv' /\ [Directory!Next]_(Directory!dirVars)
<1>1. TableKnown /\ CallsInv /\ TableInv /\ SettledInv
  BY DEF RowsInv, ServiceRows, ResultsInv, DirInv
<1>2. ASSUME NoStatement PROVE TableInv'
  BY <1>1, <1>2 DEF NoStatement, TableInv, UniqueEmails
<1>3. ASSUME NoStatement, UNCHANGED <<Asked, Due, Returned>>
      PROVE  [Directory!Next]_(Directory!dirVars)
  BY <1>3 DEF NoStatement, Directory!dirVars
<1>4. CASE UNCHANGED vars
  <2>1. NoStatement /\ UNCHANGED <<pc, call, result>>
    BY <1>4 DEF vars, serviceVars, clientVars, NoStatement
  <2>2. SettledInv' /\ Asked' = Asked /\ Returned' = Returned
    BY <1>1, <2>1 DEF SettledInv, Asked, Returned
  <2>3. Due' = Due
    BY <1>4, SameDue DEF vars, natsVars
  <2> QED
    BY <1>2, <1>3, <2>1, <2>2, <2>3 DEF DirInv
<1>5. CASE ServiceStep /\ UNCHANGED clientVars
  <2>1. SettledInv' /\ Asked' = Asked /\ Returned' = Returned
    BY <1>1, <1>5 DEF clientVars, SettledInv, Asked, Returned
  <2>2. CASE NoStatement
    <3>1. \A op \in Ops : ToSet(queue'[op]) \subseteq ToSet(queue[op])
      BY <1>5, ServiceQueues
    <3>2. \A r \in Requests : Due'[r] \in {None, Due[r]}
      BY <3>1, LessDue DEF ResultsInv
    <3>3. Directory!GiveUp
      BY <2>1, <2>2, <3>2 DEF NoStatement, Directory!GiveUp
    <3> QED
      BY <1>2, <2>1, <2>2, <3>3 DEF DirInv, Directory!Next
  <2>3. CASE SomeStatement
    <3>1. TableInv'
      BY <1>1, <2>3, StatementTable
    <3>2. \E r \in Requests : Directory!Apply(r)
      BY <1>5, <2>3, <3>1, StatementApplies
    <3> QED
      BY <2>1, <3>1, <3>2 DEF DirInv, Directory!Next
  <2> QED
    BY <1>1, <1>5, <2>2, <2>3, ServiceStatement
<1>6. CASE ClientStep /\ UNCHANGED serviceVars
  <2>1. NoStatement
    BY <1>6 DEF serviceVars, NoStatement
  <2>2. SettledInv' /\ Visible
    BY <1>1, <1>6, <2>1, ClientStepVisible DEF NoStatement
  <2>3. ASSUME NEW r \in Requests, UNCHANGED <<call, Due>>, Settle(r)
        PROVE  Directory!Return(r)
    BY <2>1, <2>3, SettleReturns DEF NoStatement
  <2>4. [Directory!Next]_(Directory!dirVars)
    BY <1>3, <2>1, <2>2, <2>3 DEF Visible, Directory!Next
  <2> QED
    BY <1>2, <2>1, <2>2, <2>4 DEF DirInv
<1>7. CASE Deliver
  <2>1. NoStatement
    BY <1>7 DEF Deliver, Flush, NoStatement
  <2> QED
    BY <1>1, <1>2, <1>3, <1>7, <2>1, DeliverVisible DEF DirInv
<1> QED
  BY <1>4, <1>5, <1>6, <1>7 DEF Next

\* The program keeps the promise of UserDirectory: every request takes effect
\* at most once, atomically, on one user, and returns what is true of that.
THEOREM DirectoryImplemented == Spec => ImplementsDirectory
  BY InitTypes, InitResults, InitRows, InitDirectory,
     NextTypes, NextResults, NextRows, NextDirectory, PTL
     DEF Spec, ImplementsDirectory, Directory!Spec

-----------------------------------------------------------------------------
(* What the promise of UserDirectory comes to.                              *)

\* No two users ever have one e-mail address, creates and updates of
\* several handlers at once included (UNIQUE (email), users.sql).
THEOREM EmailsStayUnique == Spec => []UniqueEmails(table)
<1>1. DirInv => UniqueEmails(table)
  BY DEF DirInv, TableInv
<1> QED
  BY <1>1, InitTypes, InitResults, InitRows, InitDirectory,
     NextTypes, NextResults, NextRows, NextDirectory, PTL DEF Spec

\* A request that has returned a definite answer keeps it, and no longer
\* changes the directory.
AnswerStands(r) ==
    Returned[r] \in Definite => /\ Returned'[r] = Returned[r]
                                /\ r \in applied' <=> r \in applied

\* Requests change the table one at a time, each at most once, and only as
\* it asked for: the user it named, or a new one, and the input it is owed.
OneChangeEach ==
    table' # table =>
        \E r \in Requests \ applied :
            /\ applied' = applied \cup {r}
            /\ \E u \in Users :
                  /\ table' = [table EXCEPT ![u] = table'[u]]
                  /\ Directory!Permitted(Asked[r], Due[r], u,
                                         table[u], table'[u])

\* A call not yet begun has returned nothing.
LEMMA InvokedAnew ==
    ASSUME TypeOK, CallsInv, NEW r \in Requests, Asked[r] = None
    PROVE  Returned[r] = None
<1>1. call[r] = None
  BY AskedIs
<1> QED
  BY <1>1 DEF CallsInv, Started, Returned

\* No step of the directory takes a definite answer back.
LEMMA StepStands ==
    ASSUME TypeOK, CallsInv, NEW r \in Requests,
           [Directory!Next]_(Directory!dirVars)
    PROVE  AnswerStands(r)
<1> SUFFICES ASSUME Returned[r] \in Definite
             PROVE  /\ Returned'[r] = Returned[r]
                    /\ r \in applied' <=> r \in applied
  BY DEF AnswerStands
<1>1. Returned[r] # None /\ Returned[r] # "INTERNAL"
  BY NoneIsNotDefinite DEF Definite
<1>2. CASE UNCHANGED Directory!dirVars
  BY <1>2 DEF Directory!dirVars
<1>3. ASSUME NEW q \in Requests, NEW code, Returned[q] = None,
             Returned' = [Returned EXCEPT ![q] = code], applied' = applied
      PROVE  /\ Returned'[r] = Returned[r]
             /\ r \in applied' <=> r \in applied
  BY <1>1, <1>3
<1>4. ASSUME NEW q \in Requests, Directory!Invoke(q)
      PROVE  /\ Returned'[r] = Returned[r]
             /\ r \in applied' <=> r \in applied
  <2>1. Returned[q] = None
    BY <1>4, InvokedAnew DEF Directory!Invoke
  <2>2. \/ Returned' = Returned
        \/ \E code : Returned' = [Returned EXCEPT ![q] = code]
    BY <1>4 DEF Directory!Invoke
  <2>3. applied' = applied
    BY <1>4 DEF Directory!Invoke
  <2> QED
    BY <1>3, <2>1, <2>2, <2>3
<1>5. ASSUME NEW q \in Requests, Directory!Apply(q)
      PROVE  /\ Returned'[r] = Returned[r]
             /\ r \in applied' <=> r \in applied
  <2>1. /\ Returned[q] \in {None, "INTERNAL"}
        /\ applied' = applied \cup {q} /\ Returned' = Returned
    BY <1>5 DEF Directory!Apply
  <2>2. r # q
    BY <1>1, <2>1
  <2> QED
    BY <2>1, <2>2
<1>6. ASSUME NEW q \in Requests, Directory!Return(q)
      PROVE  /\ Returned'[r] = Returned[r]
             /\ r \in applied' <=> r \in applied
  <2>1. \E code : Returned' = [Returned EXCEPT ![q] = code]
    BY <1>6 DEF Directory!Return
  <2>2. Returned[q] = None /\ applied' = applied
    BY <1>6 DEF Directory!Return
  <2> QED
    BY <1>3, <2>1, <2>2
<1>7. CASE Directory!Abandon
  BY <1>1, <1>7 DEF Directory!Abandon
<1>8. CASE Directory!GiveUp
  BY <1>8 DEF Directory!GiveUp
<1> QED
  BY <1>2, <1>4, <1>5, <1>6, <1>7, <1>8 DEF Directory!Next

\* Only Apply changes the table.
LEMMA StepChangesOne ==
    ASSUME [Directory!Next]_(Directory!dirVars)
    PROVE  OneChangeEach
<1> SUFFICES ASSUME table' # table
             PROVE  \E r \in Requests \ applied :
                        /\ applied' = applied \cup {r}
                        /\ \E u \in Users :
                              /\ table' = [table EXCEPT ![u] = table'[u]]
                              /\ Directory!Permitted(Asked[r], Due[r], u,
                                                     table[u], table'[u])
  BY DEF OneChangeEach
<1>1. PICK r \in Requests : Directory!Apply(r)
  BY DEF Directory!Next, Directory!dirVars, Directory!Invoke,
         Directory!Return, Directory!Abandon, Directory!GiveUp
<1> QED
  BY <1>1 DEF Directory!Apply

\* What a caller was told for good stays said and stays true, whatever is
\* redelivered, late or restarted (the errors by code of client.go).
THEOREM AnswersStand == Spec => [][\A r \in Requests : AnswerStands(r)]_vars
<1>1. ASSUME TypeOK, ResultsInv, [Directory!Next]_(Directory!dirVars)
      PROVE  \A r \in Requests : AnswerStands(r)
  BY <1>1, StepStands DEF ResultsInv
<1> QED
  BY <1>1, InitTypes, InitResults, InitRows, InitDirectory,
     NextTypes, NextResults, NextRows, NextDirectory, PTL DEF Spec

\* The table changes one user at a time, each time for a request that has not
\* changed it before and has asked for just that: no command is carried out
\* twice, on another user or with another request's input.
THEOREM ChangesAreRequested == Spec => [][OneChangeEach]_vars
<1>1. ASSUME [Directory!Next]_(Directory!dirVars) PROVE OneChangeEach
  BY <1>1, StepChangesOne
<1> QED
  BY <1>1, InitTypes, InitResults, InitRows, InitDirectory,
     NextTypes, NextResults, NextRows, NextDirectory, PTL DEF Spec
=============================================================================
