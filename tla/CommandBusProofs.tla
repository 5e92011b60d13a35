--------------------------- MODULE CommandBusProofs ---------------------------
(***************************************************************************)
(* The service under arbitrary clients, for any number of users, commands  *)
(* and faults: its types, EveryCommitAnnounced, UpdatesAnnouncedInOrder.   *)
(*                                                                         *)
(* EveryCommitAnnounced is inductive together with RowsRecorded, by which  *)
(* an id that was never used has no row.  The order needs ServiceOrder:    *)
(* what is announced precedes what the service still has to publish.       *)
(***************************************************************************)
EXTENDS CommandBus, UserServiceProofs

RowsRecorded == \A u \in Users : table[u] # None => table[u] \in history[u]

AnnouncedInv == RowsRecorded /\ EveryCommitAnnounced

BusOrder == ServiceOrder /\ Increasing(announced) /\ Gone(ToSet(announced))

-----------------------------------------------------------------------------
(* Types.                                                                  *)

\* The bus starts well-typed.
LEMMA InitTypes == Init => TypeOK
<1> SUFFICES ASSUME Init PROVE TypeOK
  OBVIOUS
<1>1. NatsTypeOK /\ ServiceTypeOK
  BY ServiceInitTypes DEF Init, ServiceTypes
<1> QED
  BY <1>1 DEF Init, TypeOK

\* A client's command is one of its subject.
LEMMA AskTypes ==
    ASSUME TypeOK, NEW r \in Requests, Ask(r) PROVE TypeOK'
<1>1. PICK op \in subscribed :
          /\ \E c \in Command(op) : c.req = r /\ Enqueue(op, c)
          /\ asked' = [asked EXCEPT ![r] = op]
  BY DEF Ask
<1>2. PICK c \in Command(op) : Enqueue(op, c)
  BY <1>1
<1>3. op \in Ops /\ queue[op] \in Seq(Command(op))
  BY DEF TypeOK, NatsTypeOK
<1>4. Append(queue[op], c) \in Seq(Command(op))
  BY <1>3
<1>5. /\ queue' = [o \in Ops |->
                     IF o = op THEN Append(queue[op], c) ELSE queue[o]]
      /\ \A o \in Ops : queue'[o] \in Seq(Command(o))
  BY <1>2, <1>3, <1>4 DEF Enqueue, TypeOK, NatsTypeOK
<1>6. NatsTypeOK'
  BY <1>5 DEF Ask, TypeOK, NatsTypeOK
<1>7. ServiceTypeOK' /\ told' = told /\ announced' = announced
  BY DEF Ask, TypeOK, ServiceTypeOK, serviceVars
<1>8. asked' \in [Requests -> Ops \cup {None}]
  BY <1>1, <1>3 DEF TypeOK
<1> QED
  BY <1>6, <1>7, <1>8 DEF TypeOK

\* The bus carries answers to their requests, and events to everybody.
LEMMA CarryTypes ==
    ASSUME TypeOK, Carry PROVE TypeOK'
<1>1. NatsTypeOK' /\ ServiceTypeOK' /\ Head(outbuf) \in Message
  BY FlushTypes DEF Carry, TypeOK, ServiceTypes
<1>2. PICK m \in Message : m = Head(outbuf)
  BY <1>1
<1>3. CASE m.kind = "reply"
  <2>1. m.req \in Requests /\ m.code \in Codes
    BY <1>3 DEF Message, Reply, Event
  <2>2. told' = [told EXCEPT ![m.req] = m.code] /\ UNCHANGED <<announced, asked>>
    BY <1>2, <1>3 DEF Carry
  <2> QED
    BY <1>1, <2>1, <2>2 DEF TypeOK
<1>4. CASE m.kind # "reply"
  <2>1. m \in Event
    BY <1>4 DEF Message, Reply
  <2>2. announced' = Append(announced, m) /\ UNCHANGED <<told, asked>>
    BY <1>2, <1>4 DEF Carry
  <2>3. Append(announced, m) \in Seq(Event)
    BY <2>1 DEF TypeOK
  <2> QED
    BY <1>1, <2>2, <2>3 DEF TypeOK
<1> QED
  BY <1>3, <1>4

\* No step takes a variable out of its type.
LEMMA NextTypes ==
    ASSUME TypeOK, [Next]_vars PROVE TypeOK'
<1>1. CASE UNCHANGED vars
  BY <1>1 DEF vars, natsVars, serviceVars, TypeOK, NatsTypeOK, ServiceTypeOK
<1>2. CASE Serve
  BY <1>2, ServiceStepTypes DEF Serve, TypeOK, ServiceTypes
<1> QED
  BY <1>1, <1>2, AskTypes, CarryTypes DEF Next

\* Whatever clients send, every variable keeps its type.
THEOREM BusTypeCorrect == Spec => []TypeOK
  BY InitTypes, NextTypes, PTL DEF Spec

-----------------------------------------------------------------------------
(* What is said about a user.                                              *)

About(u, m) == m.kind = "event" /\ m.user = u

\* Said in terms of what is on its way.
LEMMA SaidIs ==
    /\ \A u : Said(u) = {m \in ToSet(announced) \cup Pending : About(u, m)}
    /\ \A u : Said(u)' = {m \in ToSet(announced)' \cup Pending' : About(u, m)}
  BY DEF Said, EventsOf, Pending, About

\* Nothing was committed, and nothing more is said, nor less about a user of
\* whom no event was lost.
LEMMA SaidTheSame ==
    ASSUME AnnouncedInv, UNCHANGED <<table, history>>, lost \subseteq lost',
           \A u \in Users : Said(u)' \subseteq Said(u),
           \A u \in Users \ lost' : Said(u)' = Said(u)
    PROVE  AnnouncedInv'
<1>1. \A u \in Users : /\ SaidRows(u)' \subseteq SaidRows(u)
                       /\ SaidDeleted(u)' => SaidDeleted(u)
  BY DEF SaidRows, SaidDeleted
<1>2. \A u \in Users \ lost' : /\ SaidRows(u)' = SaidRows(u)
                                /\ SaidDeleted(u)' <=> SaidDeleted(u)
  BY DEF SaidRows, SaidDeleted
<1>3. \A u \in Users : /\ CommittedRows(u)' = CommittedRows(u)
                       /\ Deleted(u)' <=> Deleted(u)
  BY DEF CommittedRows, Deleted
<1>4. EveryCommitAnnounced'
  BY <1>1, <1>2, <1>3 DEF AnnouncedInv, EveryCommitAnnounced
<1> QED
  BY <1>4 DEF AnnouncedInv, RowsRecorded

\* An answer says nothing about a user.
LEMMA ReplySays ==
    ASSUME ServiceTypes, AnnouncedInv, UNCHANGED announced,
           NEW op \in Ops, Ready(op), NEW code, NEW rows,
           Conclude(op, <<Answer(op, code, rows)>>),
           UNCHANGED <<table, history, lost>>
    PROVE  AnnouncedInv'
<1>1. Pending' = Pending \cup {Answer(op, code, rows)}
  BY PendingAfterConclude, ShortSequences DEF ServiceTypes
<1>2. Answer(op, code, rows).kind = "reply"
  BY DEF Answer
<1>3. \A u : Said(u)' = Said(u)
  BY <1>1, <1>2, SaidIs DEF About
<1> QED
  BY <1>3, SaidTheSame

\* A commit says about its user what it did, or its user counts as lost.
LEMMA CommitSays ==
    ASSUME ServiceTypes, AnnouncedInv, UNCHANGED announced,
           NEW op \in Ops, Ready(op), NEW u \in Users,
           NEW row \in Row \cup {None}, Commit(op, u, row),
           row = None => table[u] # None,
           row # None => /\ row.stamp > 0
                         /\ table[u] # None \/ history[u] = {}
    PROVE  AnnouncedInv'
<1> DEFINE Kept(v) == /\ SaidRows(v)' \subseteq CommittedRows(v)'
                      /\ SaidDeleted(v)' => Deleted(v)'
           Met(v) == /\ CommittedRows(v)' \subseteq SaidRows(v)'
                     /\ Deleted(v)' => SaidDeleted(v)'
<1>1. /\ table' = [table EXCEPT ![u] = row]
      /\ history' = [history EXCEPT ![u] = history[u] \cup ({row} \ {None})]
      /\ table \in Rows /\ history \in [Users -> SUBSET Row]
      /\ RowsRecorded /\ EveryCommitAnnounced
  BY DEF Commit, ServiceTypes, ServiceTypeOK, AnnouncedInv
<1>2. RowsRecorded'
  BY <1>1 DEF RowsRecorded, Rows
<1>3. CASE /\ Conclude(op, <<Answer(op, "OK", Only(u, row)),
                             Announcement(op, u, row)>>)
           /\ UNCHANGED <<faults, lost>>
  <2>1. PICK a, e : /\ a = Answer(op, "OK", Only(u, row))
                    /\ e = Announcement(op, u, row)
    OBVIOUS
  <2>2. a.kind = "reply" /\ About(u, e) /\ e.row = row
    BY <2>1 DEF Answer, Announcement, About
  <2>3. Pending' = Pending \cup {a, e}
    BY <1>3, <2>1, PendingAfterConclude, ShortSequences
       DEF ServiceTypes
  <2>4. /\ Said(u)' = Said(u) \cup {e}
        /\ \A v \in Users \ {u} : Said(v)' = Said(v)
    BY <2>2, <2>3, SaidIs DEF About
  <2>5. ASSUME NEW v \in Users
        PROVE  /\ Kept(v)
               /\ v \notin lost' => Met(v)
    <3>0. /\ SaidRows(v) \subseteq CommittedRows(v)
          /\ SaidDeleted(v) => Deleted(v)
          /\ v \notin lost' => /\ CommittedRows(v) \subseteq SaidRows(v)
                               /\ Deleted(v) => SaidDeleted(v)
      BY <1>1, <1>3 DEF EveryCommitAnnounced
    <3>1. CASE v # u
      <4>1. /\ SaidRows(v)' = SaidRows(v)
            /\ SaidDeleted(v)' <=> SaidDeleted(v)
        BY <2>4, <3>1 DEF SaidRows, SaidDeleted
      <4>2. /\ CommittedRows(v)' = CommittedRows(v)
            /\ Deleted(v)' <=> Deleted(v)
        BY <1>1, <3>1 DEF CommittedRows, Deleted, Rows
      <4> QED
        BY <3>0, <4>1, <4>2
    <3>2. CASE v = u /\ row = None
      <4>1. SaidRows(u)' = SaidRows(u) /\ SaidDeleted(u)'
        BY <2>2, <2>4, <3>2 DEF SaidRows, SaidDeleted
      <4>2. CommittedRows(u)' = CommittedRows(u) /\ Deleted(u)'
        BY <1>1, <3>2 DEF RowsRecorded, CommittedRows, Deleted, Rows
      <4> QED
        BY <3>0, <3>2, <4>1, <4>2
    <3>3. CASE v = u /\ row # None
      <4>1. SaidRows(u)' = SaidRows(u) \cup {row}
        BY <2>2, <2>4, <3>3 DEF SaidRows
      <4>2. CommittedRows(u)' = CommittedRows(u) \cup {row} /\ ~Deleted(u)'
        BY <1>1, <3>3 DEF CommittedRows, Deleted, Rows
      <4>3. ~Deleted(u)
        BY <3>3 DEF Deleted
      <4>4. ~SaidDeleted(u)'
        BY <2>2, <2>4, <3>0, <3>3, <4>3 DEF SaidDeleted
      <4> QED
        BY <3>0, <3>3, <4>1, <4>2, <4>4
    <3> QED
      BY <3>1, <3>2, <3>3
  <2>6. EveryCommitAnnounced'
    BY <2>5 DEF EveryCommitAnnounced
  <2> QED
    BY <1>2, <2>6 DEF AnnouncedInv
<1>4. CASE /\ Conclude(op, <<Answer(op, "INTERNAL", Nothing)>>)
           /\ lost' = lost \cup {u}
  <2>1. Pending' = Pending \cup {Answer(op, "INTERNAL", Nothing)}
    BY <1>4, PendingAfterConclude, ShortSequences
       DEF ServiceTypes
  <2>2. Answer(op, "INTERNAL", Nothing).kind = "reply"
    BY DEF Answer
  <2>3. \A v : Said(v)' = Said(v)
    BY <2>1, <2>2, SaidIs DEF About
  <2>4. \A v : SaidRows(v)' = SaidRows(v) /\ (SaidDeleted(v)' <=> SaidDeleted(v))
    BY <2>3 DEF SaidRows, SaidDeleted
  <2>5. \A v \in Users : /\ CommittedRows(v) \subseteq CommittedRows(v)'
                         /\ Deleted(v) => Deleted(v)'
    BY <1>1 DEF CommittedRows, Deleted, RowsRecorded, Rows
  <2>6. \A v \in Users \ {u} : /\ CommittedRows(v)' = CommittedRows(v)
                               /\ Deleted(v)' <=> Deleted(v)
    BY <1>1 DEF CommittedRows, Deleted, Rows
  <2>7. EveryCommitAnnounced'
    BY <1>1, <1>4, <2>4, <2>5, <2>6 DEF EveryCommitAnnounced
  <2> QED
    BY <1>2, <2>7 DEF AnnouncedInv
<1> QED
  BY <1>3, <1>4 DEF Commit

-----------------------------------------------------------------------------
(* Every commit is announced.                                              *)

\* The handlers announce what they commit.
LEMMA CallbackSays ==
    ASSUME ServiceTypes, AnnouncedInv, UNCHANGED announced,
           NEW op \in Ops, Callback(op)
    PROVE  AnnouncedInv'
<1> USE DEF Ops
<1>0. RowsRecorded /\ clock \in Nat /\ table \in Rows
  BY DEF AnnouncedInv, ServiceTypes, ServiceTypeOK
<1>1. CASE RejectMalformed(op)
  BY <1>1, ReplySays DEF RejectMalformed, ReplyOnly
<1>2. CASE HandleListUsers
  BY <1>2, ReplySays DEF HandleListUsers, ReplyOnly
<1>3. CASE HandleCreateUser
  <2> DEFINE row == InsertedRow(Request("create").input, clock + 1)
  <2>1. PICK u \in UnusedIds(history) :
           \/ ReplyOnly("create", "BAD_REQUEST", Nothing)
           \/ Commit("create", u, row)
    BY <1>3 DEF HandleCreateUser
  <2>2. Ready("create") /\ Request("create") \in WellFormed("create")
    BY <1>3, RequestTyped DEF HandleCreateUser
  <2>3. row \in Row /\ row.stamp = clock + 1
    BY <1>0, <2>2 DEF InsertedRow, Row, WellFormed, NewUser
  <2>4. u \in Users /\ history[u] = {}
    BY DEF UnusedIds
  <2>5. row # None /\ row.stamp > 0
    BY <1>0, <2>3, NoneIsNoValue
  <2> HIDE DEF row
  <2> QED
    BY <2>1, <2>2, <2>3, <2>4, <2>5, ReplySays, CommitSays DEF ReplyOnly
<1>4. CASE HandleGetUser
  BY <1>4, ReplySays DEF HandleGetUser, ReplyOnly
<1>5. CASE HandleUpdateUser
  <2> DEFINE c == Request("update")
             row == UpdatedRow(table[c.user], c.input, clock + 1)
  <2>1. Ready("update") /\ c \in WellFormed("update")
    BY <1>5, RequestTyped DEF HandleUpdateUser
  <2>2. c.user \in Users /\ c.input \in Input
    BY <2>1 DEF WellFormed
  <2>3. \/ ReplyOnly("update", "BAD_REQUEST", Nothing)
        \/ ReplyOnly("update", "NOT_FOUND", Nothing)
        \/ table[c.user] # None /\ Commit("update", c.user, row)
    BY <1>5 DEF HandleUpdateUser
  <2>4. ASSUME table[c.user] # None
        PROVE  row \in Row /\ row.stamp > 0 /\ row # None
    <3>1. table[c.user] \in Row /\ clock + 1 \in Nat
      BY <1>0, <2>2, <2>4 DEF Rows
    <3>2. row \in Row /\ row.stamp = clock + 1
      BY <2>2, <3>1, UpdatedRowDated
    <3> QED
      BY <1>0, <3>2, NoneIsNoValue
  <2> HIDE DEF row, c
  <2> QED
    BY <2>1, <2>2, <2>3, <2>4, ReplySays, CommitSays DEF ReplyOnly
<1>6. CASE HandleDeleteUser
  <2>1. Ready("delete") /\ Request("delete") \in WellFormed("delete")
    BY <1>6, RequestTyped DEF HandleDeleteUser
  <2>2. Request("delete").user \in Users
    BY <2>1 DEF WellFormed
  <2>3. \/ ReplyOnly("delete", "NOT_FOUND", Nothing)
        \/ /\ table[Request("delete").user] # None
           /\ Commit("delete", Request("delete").user, None)
    BY <1>6 DEF HandleDeleteUser
  <2> QED
    BY <2>1, <2>2, <2>3, ReplySays, CommitSays DEF ReplyOnly
<1>7. ASSUME NEW kind, Send(op, kind) PROVE AnnouncedInv'
  <2>1. Pending' = Pending /\ UNCHANGED <<table, history, lost>>
    BY <1>7, PendingAfterSend DEF ServiceTypes, Send, natsVars
  <2>2. \A u : Said(u)' = Said(u)
    BY <2>1, SaidIs
  <2> QED
    BY <2>1, <2>2, SaidTheSame
<1> QED
  BY <1>1, <1>2, <1>3, <1>4, <1>5, <1>6, <1>7 DEF Callback, Respond, PublishEvent

\* Whose events are lost, in the buffer or by a crash, counts as lost.
LEMMA ServeSays ==
    ASSUME TypeOK, AnnouncedInv, Serve PROVE AnnouncedInv'
<1>0. ServiceTypes /\ UNCHANGED announced
  BY DEF Serve, TypeOK, ServiceTypes
<1>1. ASSUME NEW op \in Ops, DatabaseFailure(op) PROVE AnnouncedInv'
  BY <1>0, <1>1, ReplySays DEF DatabaseFailure
<1>2. CASE LoseMessage
  <2>1. PICK m : m = Head(outbuf)
    OBVIOUS
  <2>2. Pending = Pending' \cup {m}
    BY <1>0, <1>2, <2>1, PendingAfterFlush DEF ServiceTypes, LoseMessage
  <2>3. /\ UNCHANGED <<table, history>>
        /\ lost' = IF m.kind = "event" THEN lost \cup {m.user} ELSE lost
    BY <1>2, <2>1 DEF LoseMessage
  <2>4. /\ \A u \in Users : Said(u)' \subseteq Said(u)
        /\ \A u \in Users \ lost' : Said(u)' = Said(u)
    BY <1>0, <2>2, <2>3, SaidIs DEF About
  <2> QED
    BY <2>3, <2>4, SaidTheSame
<1>3. ASSUME UNCHANGED <<serviceVars, lost>> PROVE AnnouncedInv'
  <2>1. Pending' = Pending /\ UNCHANGED <<table, history>>
    BY <1>3 DEF serviceVars, Pending
  <2>2. \A u : Said(u)' = Said(u)
    BY <1>0, <2>1, SaidIs
  <2> QED
    BY <1>3, <2>1, <2>2, SaidTheSame
<1>4. CASE Terminate
  <2>1. /\ UNCHANGED <<table, history>>
        /\ lost' = lost \cup {u \in Users : Unsent(u)}
        /\ \A op \in Ops : handler'[op] = <<>>
        /\ outbuf' = <<>>
    BY <1>4 DEF Terminate
  <2>2. Pending' = {}
    BY <2>1, ShortSequences DEF Pending
  <2>3. /\ \A u \in Users : Said(u)' \subseteq Said(u)
        /\ \A u \in Users \ lost' : Said(u)' = Said(u)
    BY <1>0, <2>1, <2>2, SaidIs DEF Unsent, About
  <2> QED
    BY <2>1, <2>3, SaidTheSame
<1> QED
  BY <1>0, <1>1, <1>2, <1>3, <1>4, CallbackSays
     DEF Serve, ServiceStep, HandleSubscribe, LoseCommand

\* An event that is carried has still been said.
LEMMA CarrySays ==
    ASSUME TypeOK, AnnouncedInv, Carry PROVE AnnouncedInv'
<1>1. PICK m : m = Head(outbuf)
  OBVIOUS
<1>2. /\ Pending = Pending' \cup {m} /\ m \in Message
      /\ UNCHANGED <<table, history, lost>>
  BY <1>1, PendingAfterFlush DEF Carry, Flush, TypeOK, ServiceTypes
<1>3. \A u : Said(u)' = Said(u)
  <2>1. CASE m.kind = "reply"
    <3>1. announced' = announced
      BY <1>1, <2>1 DEF Carry
    <3> QED
      BY <1>2, <2>1, <3>1, SaidIs DEF About
  <2>2. CASE m.kind # "reply"
    <3>1. m \in Event /\ announced \in Seq(Event)
      BY <1>2, <2>2 DEF Message, Reply, TypeOK
    <3>2. announced' = Append(announced, m)
      BY <1>1, <2>2 DEF Carry
    <3>3. ToSet(Append(announced, m)) = ToSet(announced) \cup {m}
      BY <3>1, AppendElements
    <3> QED
      BY <1>2, <3>2, <3>3, SaidIs
  <2> QED
    BY <2>1, <2>2
<1> QED
  BY <1>2, <1>3, SaidTheSame

\* A bus on which nothing was said, over a table nobody has changed.
LEMMA InitSays == Init => AnnouncedInv
<1> SUFFICES ASSUME Init PROVE AnnouncedInv
  OBVIOUS
<1>1. /\ \A op \in Ops : handler[op] = <<>>
      /\ outbuf = <<>> /\ announced = <<>>
      /\ table \in [Users -> [email : Emails, name : Names, stamp : {0}]
                                \cup {None}]
      /\ history = [u \in Users |-> {table[u]} \ {None}]
  BY DEF Init, ServiceInit
<1>2. \A u : Said(u) = {}
  BY <1>1, ShortSequences, SaidIs DEF Pending
<1>3. RowsRecorded
  BY <1>1 DEF RowsRecorded
<1>4. \A u \in Users : CommittedRows(u) = {} /\ ~Deleted(u)
  <2>1. ASSUME NEW u \in Users PROVE CommittedRows(u) = {}
    <3>1. \A w \in history[u] : w.stamp = 0
      BY <1>1
    <3> QED
      BY <3>1 DEF CommittedRows
  <2>2. \A u \in Users : ~Deleted(u)
    BY <1>1 DEF Deleted
  <2> QED
    BY <2>1, <2>2
<1>5. \A u \in Users : SaidRows(u) = {} /\ ~SaidDeleted(u)
  BY <1>2 DEF SaidRows, SaidDeleted
<1>6. EveryCommitAnnounced
  BY <1>4, <1>5 DEF EveryCommitAnnounced
<1> QED
  BY <1>3, <1>6 DEF AnnouncedInv

\* AnnouncedInv is inductive.
LEMMA NextSays ==
    ASSUME TypeOK, AnnouncedInv, [Next]_vars PROVE AnnouncedInv'
<1>1. ASSUME UNCHANGED <<serviceVars, lost, announced>> PROVE AnnouncedInv'
  <2>1. Pending' = Pending /\ UNCHANGED <<table, history>>
    BY <1>1 DEF serviceVars, Pending
  <2>2. \A u : Said(u)' = Said(u)
    BY <1>1, <2>1, SaidIs
  <2> QED
    BY <1>1, <2>1, <2>2, SaidTheSame
<1>2. CASE UNCHANGED vars
  BY <1>1, <1>2 DEF vars, natsVars
<1>3. ASSUME NEW r \in Requests, Ask(r) PROVE AnnouncedInv'
  BY <1>1, <1>3 DEF Ask
<1> QED
  BY <1>2, <1>3, ServeSays, CarrySays DEF Next

\* Whatever the clients send and whoever crashes, nothing is announced that was
\* not committed, and unless an event about a user was lost, its rows and its
\* deletion are announced.
THEOREM CommitsAreAnnounced == Spec => []EveryCommitAnnounced
<1>1. AnnouncedInv => EveryCommitAnnounced
  BY DEF AnnouncedInv
<1> QED
  BY <1>1, InitTypes, InitSays, NextTypes, NextSays, PTL DEF Spec

-----------------------------------------------------------------------------
(* In the order of the commits.                                            *)

\* What has been announced stays behind what has not.
LEMMA StillAnnounced ==
    ASSUME TypeOK, BusOrder, ServiceOrder', LaterOnly, UNCHANGED announced
    PROVE  BusOrder'
<1>1. \A m \in ToSet(announced) : Dated(m)'
  BY StaysDated DEF BusOrder, Gone, LaterOnly, TypeOK, ServiceTypes
<1>2. Precede(ToSet(announced), Ahead')
  BY DEF BusOrder, LaterOnly
<1> QED
  BY <1>1, <1>2 DEF BusOrder, Gone

\* The message carried is newer than those carried before it.
LEMMA CarryOrder ==
    ASSUME TypeOK, BusOrder, Carry PROVE BusOrder'
<1>1. PICK m : m = Head(outbuf)
  OBVIOUS
<1>2. ServiceTypes /\ ServiceOrder /\ Flush({}) /\ announced \in Seq(Event)
  BY DEF TypeOK, ServiceTypes, BusOrder, Carry
<1>3. /\ ServiceOrder' /\ LaterOnly
      /\ m \in Message /\ Dated(m)
      /\ Precede({m}, Ahead')
      /\ \A T : Gone(T) => Precede(T, {m})
  BY <1>1, <1>2, FlushOrder
<1>4. CASE m.kind = "reply"
  BY <1>1, <1>3, <1>4, StillAnnounced DEF Carry
<1>5. CASE m.kind # "reply"
  <2>1. m \in Event
    BY <1>3, <1>5 DEF Message, Reply
  <2>2. announced' = Append(announced, m)
    BY <1>1, <1>5 DEF Carry
  <2>3. /\ Increasing(announced) /\ Gone(ToSet(announced))
        /\ Precede(ToSet(announced), {m}) /\ Precede(ToSet(announced), Ahead')
    BY <1>3 DEF BusOrder, LaterOnly
  <2>4. Increasing(announced')
    BY <1>2, <2>1, <2>2, <2>3, IncreasingAppend
  <2>5. ToSet(announced') = ToSet(announced) \cup {m}
    <3>1. ToSet(Append(announced, m)) = ToSet(announced) \cup {m}
      BY <1>2, <2>1, AppendElements
    <3> QED
      BY <2>2, <3>1
  <2>6. \A e \in ToSet(announced') : Dated(e)'
    BY <1>2, <1>3, <2>3, <2>5, StaysDated DEF Gone, LaterOnly
  <2>7. Precede(ToSet(announced'), Ahead')
    BY <1>3, <2>3, <2>5 DEF Precede
  <2> QED
    BY <1>3, <2>4, <2>6, <2>7 DEF BusOrder, Gone
<1> QED
  BY <1>4, <1>5

\* BusOrder is inductive.
LEMMA NextBusOrder ==
    ASSUME TypeOK, BusOrder, [Next]_vars PROVE BusOrder'
<1>1. ASSUME UNCHANGED <<serviceVars, announced>> PROVE BusOrder'
  <2>1. Increasing(outbuf') /\ UNCHANGED <<clock, outbuf, handler>>
    BY <1>1 DEF serviceVars, BusOrder, ServiceOrder
  <2>2. ServiceOrder' /\ LaterOnly
    BY <2>1, ShrinkOrder DEF BusOrder
  <2> QED
    BY <1>1, <2>2, StillAnnounced
<1>2. CASE UNCHANGED vars
  BY <1>1, <1>2 DEF vars
<1>3. ASSUME NEW r \in Requests, Ask(r) PROVE BusOrder'
  BY <1>1, <1>3 DEF Ask
<1>4. CASE Serve
  <2>1. ServiceOrder' /\ LaterOnly
    BY <1>4, ServiceStepOrder DEF Serve, BusOrder, TypeOK, ServiceTypes
  <2> QED
    BY <1>4, <2>1, StillAnnounced DEF Serve
<1> QED
  BY <1>2, <1>3, <1>4, CarryOrder DEF Next

\* The bus gets the updates in the order of their commits, whatever the other
\* handlers do, whatever is lost and whoever crashes.
THEOREM AnnouncedInOrder == Spec => []UpdatesAnnouncedInOrder
<1>1. Init => BusOrder
  BY InitServiceOrder, ShortSequences, IncreasingShort
     DEF Init, BusOrder, Gone, Precede
<1>2. BusOrder => UpdatesAnnouncedInOrder
  BY DEF BusOrder, UpdatesAnnouncedInOrder
<1> QED
  BY <1>1, <1>2, InitTypes, NextTypes, NextBusOrder, PTL DEF Spec
=============================================================================
