--------------------------- MODULE UserServiceProofs ---------------------------
(***************************************************************************)
(* The service for whatever it is composed with: its types, what is on its *)
(* way after a step, and the order of the updates it announces.            *)
(***************************************************************************)
EXTENDS UserService, SequenceLemmas

-----------------------------------------------------------------------------
(* Types.                                                                  *)

\* The state of the bus and the service.
ServiceTypes == NatsTypeOK /\ ServiceTypeOK

\* Both start well-typed, on any table an earlier life has left.
LEMMA ServiceInitTypes ==
    NatsInit /\ ServiceInit => ServiceTypes
<1> SUFFICES ASSUME NatsInit, ServiceInit PROVE ServiceTypes
  OBVIOUS
<1>1. NatsTypeOK
  BY MaxFaultsIsNat DEF NatsInit, NatsTypeOK
<1>2. table \in Rows /\ history \in [Users -> SUBSET Row]
  BY DEF ServiceInit, Rows, Row
<1>3. handler \in [Ops -> Seq(Message)] /\ outbuf \in Seq(Message)
  BY DEF ServiceInit
<1> QED
  BY <1>1, <1>2, <1>3 DEF ServiceTypes, ServiceTypeOK, ServiceInit

\* What a handler reads and says is well-typed.
LEMMA RequestTyped ==
    ASSUME ServiceTypes, NEW op \in Ops, Ready(op)
    PROVE  /\ Request(op) \in Command(op)
           /\ Request(op).req \in Requests
           /\ Tail(queue[op]) \in Seq(Command(op))
           /\ Request(op).good => Request(op) \in WellFormed(op)
<1>1. queue[op] \in Seq(Command(op)) /\ queue[op] # <<>>
  BY DEF ServiceTypes, NatsTypeOK, Ready
<1>2. Request(op) \in Command(op) /\ Tail(queue[op]) \in Seq(Command(op))
  BY <1>1, TailElements DEF Request
<1> QED
  BY <1>2 DEF Command, WellFormed, Malformed

\* The answer a handler builds is a CommandResponse.
LEMMA AnswerTyped ==
    ASSUME ServiceTypes, NEW op \in Ops, Ready(op),
           NEW code \in Codes, NEW rows \in Rows
    PROVE  Answer(op, code, rows) \in Reply
  BY RequestTyped DEF Answer, Reply

\* What publishEvent is given is an Event.
LEMMA AnnouncementTyped ==
    ASSUME NEW op \in Mutations, NEW u \in Users, NEW row \in Row \cup {None}
    PROVE  Announcement(op, u, row) \in Event
  BY DEF Announcement, Event

\* An answer with no row or with one is a partial copy of the table.
LEMMA RowsTyped ==
    /\ Nothing \in Rows
    /\ \A u, row : row \in Row \cup {None} => Only(u, row) \in Rows
  BY DEF Nothing, Only, Rows

\* The two ways a message is concluded.
LEMMA ConcludeTypes ==
    ASSUME ServiceTypes, NEW op \in Ops, Ready(op),
           NEW messages \in Seq(Message), Conclude(op, messages)
    PROVE  /\ queue' = [o \in Ops |-> queue'[o]]
           /\ \A o \in Ops : queue'[o] \in Seq(Command(o))
           /\ handler' \in [Ops -> Seq(Message)]
           /\ outbuf' \in Seq(Message)
           /\ subscribed' \in SUBSET Ops
<1> USE DEF ServiceTypes, NatsTypeOK, ServiceTypeOK, Conclude
<1>1. queue' = [o \in Ops |-> IF o = op THEN Tail(queue[op]) ELSE queue[o]]
  OBVIOUS
<1>2. Tail(queue[op]) \in Seq(Command(op))
  BY RequestTyped
<1>3. \A o \in Ops : queue'[o] \in Seq(Command(o))
  BY <1>1, <1>2
<1>4. handler' \in [Ops -> Seq(Message)]
  OBVIOUS
<1> QED
  BY <1>1, <1>3, <1>4

\* An answer without an event keeps every variable in its type.
LEMMA ReplyOnlyTypes ==
    ASSUME ServiceTypes, NEW op \in Ops, Ready(op),
           NEW code \in Codes, NEW rows \in Rows, ReplyOnly(op, code, rows)
    PROVE  ServiceTypes'
<1>1. <<Answer(op, code, rows)>> \in Seq(Message)
  BY AnswerTyped DEF Message
<1>2. Conclude(op, <<Answer(op, code, rows)>>)
      /\ UNCHANGED <<table, clock, history, applied, faults, lost>>
  BY DEF ReplyOnly
<1> QED
  BY <1>1, <1>2, ConcludeTypes DEF ServiceTypes, NatsTypeOK, ServiceTypeOK

\* Faults stay within their bound.
LEMMA FaultTypes ==
    ASSUME faults \in 0..MaxFaults, Fault PROVE faults' \in 0..MaxFaults
  BY MaxFaultsIsNat DEF Fault

\* So does a committed statement with its answer and event.
LEMMA CommitTypes ==
    ASSUME ServiceTypes, NEW op \in Mutations, Ready(op),
           NEW u \in Users, NEW row \in Row \cup {None}, Commit(op, u, row)
    PROVE  ServiceTypes'
<1> op \in Ops
  BY DEF Mutations, Ops
<1>1. Request(op).req \in Requests
  BY RequestTyped
<1>2. /\ table' \in Rows
      /\ clock' \in Nat
      /\ history' \in [Users -> SUBSET Row]
      /\ applied' \in SUBSET Requests
  BY <1>1 DEF Commit, ServiceTypes, ServiceTypeOK, Rows
<1>3. CASE /\ Conclude(op, <<Answer(op, "OK", Only(u, row)),
                             Announcement(op, u, row)>>)
           /\ UNCHANGED <<faults, lost>>
  <2>1. Answer(op, "OK", Only(u, row)) \in Message
    BY AnswerTyped, RowsTyped DEF Message, Codes
  <2>2. Announcement(op, u, row) \in Message
    BY AnnouncementTyped DEF Message
  <2>3. <<Answer(op, "OK", Only(u, row)), Announcement(op, u, row)>>
            \in Seq(Message)
    BY <2>1, <2>2
  <2> QED
    BY <1>2, <1>3, <2>3, ConcludeTypes
       DEF ServiceTypes, NatsTypeOK, ServiceTypeOK
<1>4. CASE /\ Fault
           /\ Conclude(op, <<Answer(op, "INTERNAL", Nothing)>>)
           /\ lost' = lost \cup {u}
  <2>1. <<Answer(op, "INTERNAL", Nothing)>> \in Seq(Message)
    BY AnswerTyped, RowsTyped DEF Message, Codes
  <2> QED
    BY <1>2, <1>4, <2>1, ConcludeTypes, FaultTypes
       DEF ServiceTypes, NatsTypeOK, ServiceTypeOK
<1> QED
  BY <1>3, <1>4 DEF Commit

\* The five handlers.
LEMMA HandlerTypes ==
    ASSUME ServiceTypes, NEW op \in Ops,
           \/ RejectMalformed(op)
           \/ HandleListUsers \/ HandleCreateUser \/ HandleGetUser
           \/ HandleUpdateUser \/ HandleDeleteUser
    PROVE  ServiceTypes'
<1>1. CASE RejectMalformed(op)
  BY <1>1, ReplyOnlyTypes, RowsTyped DEF RejectMalformed, Codes
<1>2. CASE HandleListUsers
  BY <1>2, ReplyOnlyTypes
     DEF HandleListUsers, Codes, Ops, ServiceTypes, ServiceTypeOK
<1>3. CASE HandleCreateUser
  <2>1. PICK u \in UnusedIds(history) :
           IF EmailTaken(table, u, Request("create").input.email)
           THEN ReplyOnly("create", "BAD_REQUEST", Nothing)
           ELSE Commit("create", u,
                       InsertedRow(Request("create").input, clock + 1))
    BY <1>3 DEF HandleCreateUser
  <2>2. Ready("create") /\ Request("create") \in WellFormed("create")
    BY <1>3, RequestTyped DEF HandleCreateUser, Ops
  <2>3. InsertedRow(Request("create").input, clock + 1) \in Row
    BY <2>2 DEF InsertedRow, Row, WellFormed, NewUser, ServiceTypes,
                ServiceTypeOK
  <2> QED
    BY <2>1, <2>2, <2>3, ReplyOnlyTypes, CommitTypes, RowsTyped
       DEF Codes, Ops, Mutations, UnusedIds
<1>4. CASE HandleGetUser
  <2>1. Ready("get") /\ Request("get") \in WellFormed("get")
    BY <1>4, RequestTyped DEF HandleGetUser, Ops
  <2>2. table[Request("get").user] \in Row \cup {None}
    BY <2>1 DEF WellFormed, ServiceTypes, ServiceTypeOK, Rows
  <2> QED
    BY <1>4, <2>1, <2>2, ReplyOnlyTypes, RowsTyped
       DEF HandleGetUser, Codes, Ops
<1>5. CASE HandleUpdateUser
  <2> DEFINE c == Request("update")
             row == UpdatedRow(table[c.user], c.input, clock + 1)
  <2>1. Ready("update") /\ c \in WellFormed("update")
    BY <1>5, RequestTyped DEF HandleUpdateUser, Ops
  <2>2. c.user \in Users /\ c.input \in Input
    BY <2>1 DEF WellFormed
  <2>3. table[c.user] \in Row \cup {None} /\ clock + 1 \in Nat
    BY <2>2 DEF ServiceTypes, ServiceTypeOK, Rows
  <2>4. table[c.user] # None => row \in Row
    BY <2>2, <2>3 DEF UpdatedRow, Coalesce, Row, Input
  <2>5. \/ ReplyOnly("update", "BAD_REQUEST", Nothing)
        \/ ReplyOnly("update", "NOT_FOUND", Nothing)
        \/ table[c.user] # None /\ Commit("update", c.user, row)
    BY <1>5 DEF HandleUpdateUser
  <2> HIDE DEF c, row
  <2> QED
    BY <2>1, <2>2, <2>4, <2>5, ReplyOnlyTypes, CommitTypes, RowsTyped
       DEF Codes, Ops, Mutations
<1>6. CASE HandleDeleteUser
  <2>1. Ready("delete") /\ Request("delete") \in WellFormed("delete")
    BY <1>6, RequestTyped DEF HandleDeleteUser, Ops
  <2>2. Request("delete").user \in Users
    BY <2>1 DEF WellFormed
  <2> QED
    BY <1>6, <2>1, <2>2, ReplyOnlyTypes, CommitTypes, RowsTyped
       DEF HandleDeleteUser, Codes, Ops, Mutations
<1> QED
  BY <1>1, <1>2, <1>3, <1>4, <1>5, <1>6

\* Respond and PublishEvent move a message to the write buffer.
LEMMA SendTypes ==
    ASSUME ServiceTypes, NEW op \in Ops, NEW kind, Send(op, kind)
    PROVE  ServiceTypes'
<1>1. Head(handler[op]) \in Message /\ Tail(handler[op]) \in Seq(Message)
  BY TailElements DEF Send, ServiceTypes, ServiceTypeOK
<1>2. outbuf' \in Seq(Message)
  BY <1>1, AppendElements DEF Send, ServiceTypes, ServiceTypeOK
<1>3. handler' \in [Ops -> Seq(Message)]
  BY <1>1 DEF Send, ServiceTypes, ServiceTypeOK
<1> QED
  BY <1>2, <1>3
     DEF Send, ServiceTypes, ServiceTypeOK, NatsTypeOK, natsVars

\* Every step of the service.
LEMMA ServiceStepTypes ==
    ASSUME ServiceTypes, ServiceStep PROVE ServiceTypes'
<1>1. ASSUME NEW op \in Ops, Callback(op) PROVE ServiceTypes'
  BY <1>1, HandlerTypes, SendTypes DEF Callback, Respond, PublishEvent
<1>2. ASSUME NEW op \in Ops, DatabaseFailure(op) PROVE ServiceTypes'
  <2>1. <<Answer(op, "INTERNAL", Nothing)>> \in Seq(Message)
    BY <1>2, AnswerTyped, RowsTyped DEF DatabaseFailure, Message, Codes
  <2> QED
    BY <1>2, <2>1, ConcludeTypes, FaultTypes
       DEF DatabaseFailure, ServiceTypes, NatsTypeOK, ServiceTypeOK
<1>3. CASE LoseMessage
  <2>1. Head(outbuf) \in Message /\ Tail(outbuf) \in Seq(Message)
    BY <1>3, TailElements DEF LoseMessage, ServiceTypes, ServiceTypeOK
  <2>2. lost' \in SUBSET Users
    BY <1>3, <2>1
       DEF LoseMessage, Message, Reply, Event, ServiceTypes, NatsTypeOK
  <2> QED
    BY <1>3, <2>1, <2>2, FaultTypes
       DEF LoseMessage, ServiceTypes, NatsTypeOK, ServiceTypeOK
<1>4. CASE HandleSubscribe
  <2>1. \A i \in 1..Len(SubjectOrder) : SubjectOrder[i] \in Ops
    BY DEF SubjectOrder, Ops
  <2>2. subscribed' \in SUBSET Ops
    BY <1>4, <2>1 DEF HandleSubscribe, ServiceTypes, NatsTypeOK
  <2> QED
    BY <1>4, <2>2 DEF HandleSubscribe, ServiceTypes, NatsTypeOK,
                      ServiceTypeOK, serviceVars
<1>5. CASE Terminate
  BY <1>5, FaultTypes
     DEF Terminate, ServiceTypes, NatsTypeOK, ServiceTypeOK
<1>6. ASSUME NEW op \in Ops, LoseCommand(op) /\ UNCHANGED serviceVars
      PROVE ServiceTypes'
  <2>1. Tail(queue[op]) \in Seq(Command(op))
    BY <1>6, TailElements DEF LoseCommand, ServiceTypes, NatsTypeOK
  <2>2. queue' = [o \in Ops |-> IF o = op THEN Tail(queue[op]) ELSE queue[o]]
    BY <1>6 DEF LoseCommand, ServiceTypes, NatsTypeOK
  <2> QED
    BY <1>6, <2>1, <2>2, FaultTypes
       DEF LoseCommand, ServiceTypes, NatsTypeOK, ServiceTypeOK, serviceVars
<1> QED
  BY <1>1, <1>2, <1>3, <1>4, <1>5, <1>6 DEF ServiceStep

\* What the service flushes is a message.
LEMMA FlushTypes ==
    ASSUME ServiceTypes, NEW missed \in SUBSET Users, Flush(missed)
    PROVE  ServiceTypes' /\ Head(outbuf) \in Message
<1>1. Head(outbuf) \in Message /\ Tail(outbuf) \in Seq(Message)
  BY TailElements DEF Flush, ServiceTypes, ServiceTypeOK
<1> QED
  BY <1>1 DEF Flush, ServiceTypes, ServiceTypeOK, NatsTypeOK, natsVars

-----------------------------------------------------------------------------
(* What is on its way after a step.                                        *)

\* A handler that concludes adds the messages it concludes with, and takes
\* none away if it was idle.
LEMMA PendingAfterConclude ==
    ASSUME ServiceTypeOK, NEW op \in Ops, NEW messages, Conclude(op, messages)
    PROVE  /\ Pending' \subseteq Pending \cup ToSet(messages)
           /\ Ready(op) => Pending' = Pending \cup ToSet(messages)
<1>1. /\ outbuf' = outbuf
      /\ handler'[op] = messages
      /\ \A o \in Ops \ {op} : handler'[o] = handler[o]
  BY DEF Conclude, ServiceTypeOK
<1>2. Ready(op) => ToSet(handler[op]) = {}
  BY ShortSequences DEF Ready
<1> QED
  BY <1>1, <1>2 DEF Pending

\* Handing a message to the connection adds none and takes none away.
LEMMA PendingAfterSend ==
    ASSUME ServiceTypeOK, NEW op \in Ops, NEW kind, Send(op, kind)
    PROVE  Pending' = Pending
<1>1. handler[op] \in Seq(Message) /\ handler[op] # <<>>
      /\ outbuf \in Seq(Message)
  BY DEF Send, ServiceTypeOK
<1>2. /\ outbuf' = Append(outbuf, Head(handler[op]))
      /\ handler'[op] = Tail(handler[op])
      /\ \A o \in Ops \ {op} : handler'[o] = handler[o]
  BY DEF Send, ServiceTypeOK
<1>3. Head(handler[op]) \in Message
      /\ ToSet(handler[op])
            = {Head(handler[op])} \cup ToSet(Tail(handler[op]))
  BY <1>1, TailElements
<1>4. ToSet(outbuf') = ToSet(outbuf) \cup {Head(handler[op])}
  BY <1>1, <1>2, <1>3, AppendElements
<1> QED
  BY <1>2, <1>3, <1>4 DEF Pending

\* The flusher takes away the oldest message, and nothing else.
LEMMA PendingAfterFlush ==
    ASSUME ServiceTypeOK, outbuf # <<>>, outbuf' = Tail(outbuf), handler' = handler
    PROVE  /\ Pending = Pending' \cup {Head(outbuf)}
           /\ Pending' \subseteq Pending
           /\ Head(outbuf) \in Pending
           /\ Head(outbuf) \in Message
<1>1. outbuf \in Seq(Message)
  BY DEF ServiceTypeOK
<1>2. /\ ToSet(outbuf) = {Head(outbuf)} \cup ToSet(Tail(outbuf))
      /\ Head(outbuf) \in Message
  BY <1>1, TailElements
<1> QED
  BY <1>2 DEF Pending

-----------------------------------------------------------------------------
(* The order of updates, as the service keeps it: what the update handler  *)
(* has yet to publish is newer than what it has published, nothing is      *)
(* newer than the clock, and no other handler publishes updates.           *)

\* Every update in S was committed before every update in T.
Precede(S, T) ==
    \A a \in S, b \in T :
        IsUpdate(a) /\ IsUpdate(b) => a.row.stamp < b.row.stamp

Dated(m) == IsUpdate(m) => m.row \in Row /\ m.row.stamp <= clock

OneUpdater ==
    \A op \in Ops : \A m \in ToSet(handler[op]) : IsUpdate(m) => op = "update"

ServiceOrder ==
    /\ OneUpdater
    /\ \A m \in Pending : Dated(m)
    /\ Increasing(outbuf)
    /\ Increasing(handler["update"])
    /\ Precede(ToSet(outbuf), ToSet(handler["update"]))

\* Updates the service has not let go of.
Ahead == ToSet(outbuf) \cup ToSet(handler["update"])

\* T has left the service, before what is still in it.
Gone(T) == (\A m \in T : Dated(m)) /\ Precede(T, Ahead)

\* What has left stays behind what has not.
LaterOnly ==
    /\ clock' \in {clock, clock + 1}
    /\ \A T : Gone(T) => Precede(T, Ahead')

-----------------------------------------------------------------------------
(* Sequences of messages.                                                  *)

\* The head of an increasing sequence precedes the rest.
LEMMA IncreasingTail ==
    ASSUME NEW S, NEW s \in Seq(S), s # <<>>, Increasing(s)
    PROVE  Increasing(Tail(s)) /\ Precede({Head(s)}, ToSet(Tail(s)))
<1>1. /\ Head(s) = s[1]
      /\ Len(s) \in Nat \ {0}
      /\ Tail(s) \in Seq(S)
      /\ Len(Tail(s)) = Len(s) - 1
      /\ \A i \in 1..Len(Tail(s)) : Tail(s)[i] = s[i + 1]
  BY HeadTailProperties, EmptySeq
<1>2. /\ DOMAIN s = 1..Len(s)
      /\ DOMAIN Tail(s) = 1..(Len(s) - 1)
  BY <1>1, LenProperties
<1>3. \A i \in DOMAIN Tail(s) : i + 1 \in DOMAIN s /\ Tail(s)[i] = s[i + 1]
  BY <1>1, <1>2
<1>4. Increasing(Tail(s))
  <2>1. ASSUME NEW i \in DOMAIN Tail(s), NEW j \in DOMAIN Tail(s), i < j,
               IsUpdate(Tail(s)[i]), IsUpdate(Tail(s)[j])
        PROVE  Tail(s)[i].row.stamp < Tail(s)[j].row.stamp
    <3>1. i + 1 < j + 1
      BY <1>2, <2>1
    <3> QED
      BY <1>3, <2>1, <3>1 DEF Increasing
  <2> QED
    BY <2>1 DEF Increasing
<1>5. ASSUME NEW j \in DOMAIN Tail(s), IsUpdate(s[1]), IsUpdate(Tail(s)[j])
      PROVE  s[1].row.stamp < Tail(s)[j].row.stamp
  <2>1. 1 \in DOMAIN s /\ 1 < j + 1
    BY <1>1, <1>2
  <2> QED
    BY <1>3, <1>5, <2>1 DEF Increasing
<1> QED
  BY <1>1, <1>4, <1>5 DEF Precede, ToSet

\* Two increasing sequences make one if the first precedes the second.
LEMMA IncreasingConcat ==
    ASSUME NEW S, NEW s \in Seq(S), NEW t \in Seq(S),
           Increasing(s), Increasing(t), Precede(ToSet(s), ToSet(t))
    PROVE  Increasing(s \o t)
<1>1. /\ Len(s) \in Nat
      /\ Len(t) \in Nat
      /\ DOMAIN s = 1..Len(s)
      /\ DOMAIN t = 1..Len(t)
      /\ s \o t \in Seq(S)
      /\ Len(s \o t) = Len(s) + Len(t)
      /\ DOMAIN (s \o t) = 1..(Len(s) + Len(t))
  BY ConcatProperties, LenProperties
<1>2. /\ \A i \in 1..Len(s) : (s \o t)[i] = s[i]
      /\ \A i \in (Len(s) + 1)..(Len(s) + Len(t)) :
            (s \o t)[i] = t[i - Len(s)]
  BY <1>1, ConcatProperties
<1> DEFINE c == s \o t
<1> HIDE DEF c
<1>3. ASSUME NEW i \in 1..(Len(s) + Len(t)), NEW j \in 1..(Len(s) + Len(t)),
             i < j, IsUpdate(c[i]), IsUpdate(c[j])
      PROVE  c[i].row.stamp < c[j].row.stamp
  <2>1. CASE j <= Len(s)
    BY <1>1, <1>2, <1>3, <2>1 DEF Increasing, c
  <2>2. CASE Len(s) < i
    <3>1. /\ i - Len(s) \in DOMAIN t
          /\ j - Len(s) \in DOMAIN t
          /\ i - Len(s) < j - Len(s)
      BY <1>1, <1>3, <2>2
    <3>2. c[i] = t[i - Len(s)] /\ c[j] = t[j - Len(s)]
      BY <1>1, <1>2, <1>3, <2>2 DEF c
    <3> QED
      BY <1>3, <3>1, <3>2 DEF Increasing
  <2>3. CASE i <= Len(s) /\ Len(s) < j
    <3>1. i \in DOMAIN s /\ j - Len(s) \in DOMAIN t
      BY <1>1, <2>3
    <3>2. c[i] = s[i] /\ c[j] = t[j - Len(s)]
      BY <1>1, <1>2, <2>3 DEF c
    <3>3. c[i] \in ToSet(s) /\ c[j] \in ToSet(t)
      BY <3>1, <3>2 DEF ToSet
    <3> QED
      BY <1>3, <3>3 DEF Precede
  <2> QED
    BY <1>1, <2>1, <2>2, <2>3
<1> QED
  BY <1>1, <1>3 DEF Increasing, c

\* A message that all updates of the sequence precede may be appended.
LEMMA IncreasingAppend ==
    ASSUME NEW S, NEW s \in Seq(S), NEW e \in S,
           Increasing(s), Precede(ToSet(s), {e})
    PROVE  Increasing(Append(s, e))
<1>1. <<e>> \in Seq(S) /\ Append(s, e) = s \o <<e>>
  OBVIOUS
<1>2. Increasing(<<e>>)
  BY DEF Increasing
<1>3. ToSet(<<e>>) = {e}
  BY ShortSequences
<1> QED
  BY <1>1, <1>2, <1>3, IncreasingConcat

\* What a handler leaves to be sent has at most one update in it.
LEMMA IncreasingShort ==
    /\ Increasing(<<>>)
    /\ \A a : Increasing(<<a>>)
    /\ \A a, b : ~IsUpdate(a) => Increasing(<<a, b>>)
<1>1. Increasing(<<>>)
  BY DEF Increasing
<1>2. ASSUME NEW a PROVE Increasing(<<a>>)
  BY DEF Increasing
<1>3. ASSUME NEW a, NEW b, ~IsUpdate(a) PROVE Increasing(<<a, b>>)
  BY <1>3 DEF Increasing
<1> QED
  BY <1>1, <1>2, <1>3

-----------------------------------------------------------------------------
(* Steps and the order.                                                    *)

\* What the service's part of the pipeline is made of.
LEMMA PipelineTyped ==
    ASSUME ServiceTypes
    PROVE  /\ outbuf \in Seq(Message)
           /\ \A op \in Ops : handler[op] \in Seq(Message)
           /\ handler["update"] \in Seq(Message)
           /\ clock \in Nat
           /\ handler = [op \in Ops |-> handler[op]]
  BY DEF ServiceTypes, ServiceTypeOK, Ops

\* Time goes on: what was dated stays dated.
LEMMA StaysDated ==
    ASSUME ServiceTypes, clock' \in {clock, clock + 1}, NEW m, Dated(m)
    PROVE  Dated(m)'
  BY PipelineTyped DEF Dated, Row

\* Messages leave the pipeline, from its end or all at once.
LEMMA ShrinkOrder ==
    ASSUME ServiceOrder, clock' = clock,
           Increasing(outbuf'), ToSet(outbuf') \subseteq ToSet(outbuf),
           \A op \in Ops : handler'[op] \in {handler[op], <<>>}
    PROVE  ServiceOrder' /\ LaterOnly
<1>1. \A op \in Ops : ToSet(handler'[op]) \subseteq ToSet(handler[op])
  BY ShortSequences
<1>2. Pending' \subseteq Pending
  BY <1>1 DEF Pending
<1>3. OneUpdater' /\ \A m \in Pending' : Dated(m)'
  BY <1>1, <1>2 DEF ServiceOrder, OneUpdater, Dated
<1>4. /\ Increasing(handler'["update"])
      /\ ToSet(handler'["update"]) \subseteq ToSet(handler["update"])
  BY <1>1, IncreasingShort DEF ServiceOrder, Ops
<1>5. Precede(ToSet(outbuf'), ToSet(handler'["update"]))
  BY <1>4 DEF ServiceOrder, Precede
<1>6. Ahead' \subseteq Ahead
  BY <1>4 DEF Ahead
<1>7. LaterOnly
  BY <1>6 DEF LaterOnly, Gone, Precede
<1> QED
  BY <1>3, <1>4, <1>5, <1>7 DEF ServiceOrder

\* A handler that is idle concludes a command: only the update handler leaves
\* an update to be sent, and it is the newest.
LEMMA ConcludeOrder ==
    ASSUME ServiceTypes, ServiceOrder, NEW op \in Ops, NEW messages,
           Ready(op), Conclude(op, messages),
           clock' \in {clock, clock + 1},
           Increasing(messages),
           \A m \in ToSet(messages) : IsUpdate(m) =>
               /\ op = "update"
               /\ clock' = clock + 1
               /\ m.row \in Row
               /\ m.row.stamp = clock'
    PROVE  ServiceOrder' /\ LaterOnly
<1>1. /\ outbuf' = outbuf
      /\ handler'[op] = messages
      /\ \A o \in Ops \ {op} : handler'[o] = handler[o]
      /\ clock \in Nat
  BY PipelineTyped DEF Conclude
<1>3. \A m \in ToSet(messages) : Dated(m)'
  BY <1>1 DEF Dated
<1>4. Pending' \subseteq Pending \cup ToSet(messages)
  BY PendingAfterConclude DEF ServiceTypes
<1>5. OneUpdater'
  BY <1>1 DEF ServiceOrder, OneUpdater
<1>6. \A m \in Pending' : Dated(m)'
  BY StaysDated, <1>3, <1>4 DEF ServiceOrder
<1>7. Increasing(handler'["update"])
  BY <1>1 DEF ServiceOrder, Ops
<1>8. \/ handler'["update"] = handler["update"]
      \/ \A m \in ToSet(handler'["update"]) : IsUpdate(m) =>
             m.row.stamp = clock + 1
  BY <1>1 DEF Ops
<1>9. ASSUME NEW T, \A e \in T : Dated(e),
             Precede(T, ToSet(handler["update"]))
      PROVE  Precede(T, ToSet(handler'["update"]))
  BY <1>1, <1>8, <1>9 DEF Precede, Dated, Row
<1>10. Precede(ToSet(outbuf), ToSet(handler'["update"]))
  <2>1. \A m \in ToSet(outbuf) : Dated(m)
    BY DEF ServiceOrder, Pending
  <2>2. Precede(ToSet(outbuf), ToSet(handler["update"]))
    BY DEF ServiceOrder
  <2> QED
    BY <1>9, <2>1, <2>2
<1>11. ASSUME NEW T, Gone(T) PROVE Precede(T, Ahead')
  <2>1. /\ Precede(T, ToSet(outbuf))
        /\ Precede(T, ToSet(handler["update"]))
        /\ \A e \in T : Dated(e)
    BY <1>11 DEF Gone, Ahead, Precede
  <2>2. Precede(T, ToSet(handler'["update"]))
    BY <1>9, <2>1
  <2> QED
    BY <1>1, <2>1, <2>2 DEF Ahead, Precede
<1>12. LaterOnly
  BY <1>11 DEF LaterOnly
<1> QED
  BY <1>1, <1>5, <1>6, <1>7, <1>10, <1>12 DEF ServiceOrder

\* A handler hands its next message to the connection.
LEMMA SendOrder ==
    ASSUME ServiceTypes, ServiceOrder, NEW op \in Ops, NEW kind, Send(op, kind)
    PROVE  ServiceOrder' /\ LaterOnly
<1> DEFINE m == Head(handler[op])
<1>1. /\ handler[op] \in Seq(Message) /\ handler[op] # <<>>
      /\ outbuf \in Seq(Message)
      /\ outbuf' = Append(outbuf, m)
      /\ handler'[op] = Tail(handler[op])
      /\ \A o \in Ops \ {op} : handler'[o] = handler[o]
      /\ clock' = clock
  BY PipelineTyped DEF Send
<1>2. /\ m \in Message
      /\ ToSet(handler[op]) = {m} \cup ToSet(handler'[op])
  BY <1>1, TailElements
<1>3. ToSet(outbuf') = ToSet(outbuf) \cup {m}
  BY <1>1, <1>2, AppendElements
<1>4. IsUpdate(m) => op = "update"
  BY <1>2 DEF ServiceOrder, OneUpdater
<1> HIDE DEF m
<1>5. Precede(ToSet(outbuf), {m})
  BY <1>2, <1>4 DEF ServiceOrder, Precede
<1>6. Increasing(outbuf')
  BY <1>1, <1>2, <1>5, IncreasingAppend DEF ServiceOrder
<1>7. /\ Increasing(handler'["update"])
      /\ Precede({m}, ToSet(handler'["update"]))
      /\ ToSet(handler'["update"]) \subseteq ToSet(handler["update"])
      /\ IsUpdate(m) => m \in ToSet(handler["update"])
  <2>1. CASE op = "update"
    <3>1. Increasing(handler["update"])
      BY DEF ServiceOrder
    <3>2. /\ Increasing(Tail(handler["update"]))
          /\ Precede({m}, ToSet(Tail(handler["update"])))
      BY <1>1, <2>1, <3>1, IncreasingTail DEF m
    <3> QED
      BY <1>1, <1>2, <2>1, <3>2
  <2>2. CASE op # "update"
    BY <1>1, <1>4, <2>2 DEF ServiceOrder, Precede, Ops
  <2> QED
    BY <2>1, <2>2
<1>8. Precede(ToSet(outbuf'), ToSet(handler'["update"]))
  BY <1>3, <1>7 DEF ServiceOrder, Precede
<1>9. OneUpdater'
  BY <1>1, <1>2 DEF ServiceOrder, OneUpdater
<1>10. \A n \in Pending' : Dated(n)'
  BY <1>1, PendingAfterSend DEF ServiceOrder, Dated, ServiceTypes
<1>11. LaterOnly
  BY <1>1, <1>3, <1>7 DEF LaterOnly, Gone, Ahead, Precede
<1> QED
  BY <1>6, <1>7, <1>8, <1>9, <1>10, <1>11 DEF ServiceOrder

\* A handler that changes nothing says nothing of updates.
LEMMA ReplyOnlyOrder ==
    ASSUME ServiceTypes, ServiceOrder, NEW op \in Ops, Ready(op), NEW code, NEW rows,
           Conclude(op, <<Answer(op, code, rows)>>),
           clock' \in {clock, clock + 1}
    PROVE  ServiceOrder' /\ LaterOnly
<1> DEFINE a == Answer(op, code, rows)
<1>1. ToSet(<<a>>) = {a} /\ ~IsUpdate(a)
  BY ShortSequences DEF Answer, IsUpdate
<1>2. Increasing(<<a>>)
  BY IncreasingShort
<1> QED
  BY <1>1, <1>2, ConcludeOrder

\* A handler that commits stamps the row with the new time.
LEMMA CommitOrder ==
    ASSUME ServiceTypes, ServiceOrder, NEW op \in Ops, Ready(op), NEW u, NEW row,
           Commit(op, u, row),
           op = "update" => row \in Row /\ row.stamp = clock + 1
    PROVE  ServiceOrder' /\ LaterOnly
<1>1. clock' = clock + 1
  BY DEF Commit
<1>2. CASE Conclude(op, <<Answer(op, "OK", Only(u, row)),
                          Announcement(op, u, row)>>)
  <2> DEFINE a == Answer(op, "OK", Only(u, row))
             e == Announcement(op, u, row)
  <2>1. /\ ToSet(<<a, e>>) = {a, e}
        /\ ~IsUpdate(a)
        /\ IsUpdate(e) => op = "update"
        /\ e.row = row
    BY ShortSequences DEF Answer, Announcement, IsUpdate
  <2>2. Increasing(<<a, e>>)
    BY <2>1, IncreasingShort
  <2> QED
    BY <1>1, <1>2, <2>1, <2>2, ConcludeOrder
<1>3. CASE Conclude(op, <<Answer(op, "INTERNAL", Nothing)>>)
  BY <1>1, <1>3, ReplyOnlyOrder
<1> QED
  BY <1>2, <1>3 DEF Commit

\* The row an update leaves is typed and new.
LEMMA UpdatedRowDated ==
    ASSUME NEW old \in Row, NEW in \in Input, NEW now \in Nat
    PROVE  UpdatedRow(old, in, now) \in Row /\ UpdatedRow(old, in, now).stamp = now
  BY DEF UpdatedRow, Coalesce, Row, Input

\* No handler breaks the order.
LEMMA CallbackOrder ==
    ASSUME ServiceTypes, ServiceOrder, NEW op \in Ops, Callback(op)
    PROVE  ServiceOrder' /\ LaterOnly
<1> USE DEF Ops
<1>1. CASE RejectMalformed(op)
  BY <1>1, ReplyOnlyOrder DEF RejectMalformed, ReplyOnly
<1>2. CASE HandleListUsers
  BY <1>2, ReplyOnlyOrder DEF HandleListUsers, ReplyOnly
<1>3. CASE HandleCreateUser
  <2>1. PICK u \in UnusedIds(history) :
           IF EmailTaken(table, u, Request("create").input.email)
           THEN ReplyOnly("create", "BAD_REQUEST", Nothing)
           ELSE Commit("create", u,
                       InsertedRow(Request("create").input, clock + 1))
    BY <1>3 DEF HandleCreateUser
  <2> QED
    BY <1>3, <2>1, ReplyOnlyOrder, CommitOrder DEF HandleCreateUser, ReplyOnly
<1>4. CASE HandleGetUser
  BY <1>4, ReplyOnlyOrder DEF HandleGetUser, ReplyOnly
<1>5. CASE HandleUpdateUser
  <2> DEFINE c == Request("update")
             row == UpdatedRow(table[c.user], c.input, clock + 1)
  <2>1. Ready("update") /\ c \in WellFormed("update")
    BY <1>5, RequestTyped DEF HandleUpdateUser
  <2>2. c.user \in Users /\ c.input \in Input
    BY <2>1 DEF WellFormed
  <2>3. \/ ReplyOnly("update", "BAD_REQUEST", Nothing)
        \/ ReplyOnly("update", "NOT_FOUND", Nothing)
        \/ table[c.user] # None /\ Commit("update", c.user, row)
    BY <1>5 DEF HandleUpdateUser
  <2>4. ASSUME table[c.user] # None
        PROVE  row \in Row /\ row.stamp = clock + 1
    <3>1. table[c.user] \in Row /\ clock + 1 \in Nat
      BY <2>2, <2>4 DEF ServiceTypes, ServiceTypeOK, Rows
    <3> QED
      BY <2>2, <3>1, UpdatedRowDated
  <2> HIDE DEF row, c
  <2> QED
    BY <2>1, <2>3, <2>4, ReplyOnlyOrder, CommitOrder DEF ReplyOnly
<1>6. CASE HandleDeleteUser
  BY <1>6, ReplyOnlyOrder, CommitOrder DEF HandleDeleteUser, ReplyOnly
<1> QED
  BY <1>1, <1>2, <1>3, <1>4, <1>5, <1>6, SendOrder
     DEF Callback, Respond, PublishEvent

\* Nor does any other step of the service: a crash empties its pipeline.
LEMMA ServiceStepOrder ==
    ASSUME ServiceTypes, ServiceOrder, ServiceStep
    PROVE  ServiceOrder' /\ LaterOnly
<1>1. ASSUME NEW op \in Ops, DatabaseFailure(op) PROVE ServiceOrder' /\ LaterOnly
  BY <1>1, ReplyOnlyOrder DEF DatabaseFailure
<1>2. CASE LoseMessage
  <2>1. Increasing(outbuf') /\ ToSet(outbuf') \subseteq ToSet(outbuf)
    BY <1>2, PipelineTyped, IncreasingTail, TailElements
       DEF LoseMessage, ServiceOrder
  <2> QED
    BY <1>2, <2>1, ShrinkOrder DEF LoseMessage
<1>3. ASSUME UNCHANGED serviceVars PROVE ServiceOrder' /\ LaterOnly
  <2>1. Increasing(outbuf')
    BY <1>3 DEF serviceVars, ServiceOrder
  <2> QED
    BY <1>3, <2>1, ShrinkOrder DEF serviceVars
<1>4. CASE Terminate
  <2>1. /\ \A op \in Ops : handler'[op] = <<>>
        /\ outbuf' = <<>>
        /\ clock' = clock
    BY <1>4 DEF Terminate
  <2>2. Increasing(outbuf') /\ ToSet(outbuf') = {}
    BY <2>1, IncreasingShort, ShortSequences
  <2> QED
    BY <2>1, <2>2, ShrinkOrder
<1> QED
  BY <1>1, <1>2, <1>3, <1>4, CallbackOrder DEF ServiceStep, HandleSubscribe

\* The flusher takes the oldest message: it goes where all before it went.
LEMMA FlushOrder ==
    ASSUME ServiceTypes, ServiceOrder, NEW missed, Flush(missed)
    PROVE  /\ ServiceOrder' /\ LaterOnly
           /\ Head(outbuf) \in Message /\ Dated(Head(outbuf))
           /\ Precede({Head(outbuf)}, Ahead')
           /\ \A T : Gone(T) => Precede(T, {Head(outbuf)})
<1> DEFINE m == Head(outbuf)
<1>1. /\ outbuf # <<>>
      /\ outbuf' = Tail(outbuf)
      /\ UNCHANGED <<handler, clock>>
      /\ outbuf \in Seq(Message)
  BY PipelineTyped DEF Flush
<1>2. /\ m \in Message
      /\ ToSet(outbuf) = {m} \cup ToSet(outbuf')
      /\ Increasing(outbuf')
      /\ Precede({m}, ToSet(outbuf'))
  BY <1>1, TailElements, IncreasingTail DEF ServiceOrder
<1> HIDE DEF m
<1>3. ServiceOrder' /\ LaterOnly
  BY <1>1, <1>2, ShrinkOrder
<1>4. Dated(m)
  BY <1>2 DEF ServiceOrder, Pending
<1>5. Precede({m}, Ahead')
  BY <1>1, <1>2 DEF ServiceOrder, Precede, Ahead
<1>6. \A T : Gone(T) => Precede(T, {m})
  BY <1>2 DEF Gone, Precede, Ahead
<1> QED
  BY <1>2, <1>3, <1>4, <1>5, <1>6 DEF m

\* A service that has just started has nothing to announce.
LEMMA InitServiceOrder ==
    ASSUME ServiceInit PROVE ServiceOrder /\ Ahead = {}
<1>1. /\ \A op \in Ops : handler[op] = <<>>
      /\ outbuf = <<>>
      /\ handler["update"] = <<>>
  BY DEF ServiceInit, Ops
<1>2. Pending = {} /\ Ahead = {}
  BY <1>1, ShortSequences DEF Pending, Ahead
<1> QED
  BY <1>1, <1>2, ShortSequences, IncreasingShort
     DEF ServiceOrder, OneUpdater, Precede
=============================================================================
