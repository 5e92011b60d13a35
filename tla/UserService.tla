------------------------------ MODULE UserService ------------------------------
(***************************************************************************)
(* user-service: five NATS command handlers over one table.                *)
(*                                                                         *)
(* nats.go runs each subscription's callback in a goroutine of its own,    *)
(* one message at a time, so the five handlers interleave and no handler   *)
(* overlaps itself.  A handler runs one SQL statement, responds, and then, *)
(* when it changed the table, publishes an event: three steps between      *)
(* which the other handlers run and the process may die.  Responses and    *)
(* events go through the connection's write buffer, flushed in the         *)
(* background.                                                             *)
(***************************************************************************)
EXTENDS Nats

VARIABLES table,    \* the users table in Postgres
          clock,    \* NOW(): the stamp of the latest committed statement
          handler,  \* command subject -> what its goroutine still has to send
          outbuf,   \* the NATS connection's write buffer, in sending order
          history,  \* history: every row each user has ever had
          applied   \* history: requests whose statement changed the table

serviceVars == <<table, clock, handler, outbuf, history, applied>>

NoRows == [u \in Users |-> {}]

ServiceTypeOK ==
    /\ table \in Rows
    /\ clock \in Nat
    /\ handler \in [Ops -> Seq(Message)]
    /\ outbuf \in Seq(Message)
    /\ history \in [Users -> SUBSET Row]
    /\ applied \in SUBSET Requests

\* The table persists across restarts, so the service may start on any
\* table an earlier life has left.
ServiceInit ==
    /\ table \in [Users -> [email : Emails, name : Names, stamp : {0}]
                              \cup {None}]
    /\ UniqueEmails(table)
    /\ clock = 0
    /\ handler = [op \in Ops |-> <<>>]
    /\ outbuf = <<>>
    /\ history = [u \in Users |-> {table[u]} \ {None}]
    /\ applied = {}

-----------------------------------------------------------------------------
(* One message of a subject, up to the end of its SQL statement.           *)

\* The goroutine of op is idle and has a message.
Ready(op) == handler[op] = <<>> /\ queue[op] # <<>>

Request(op) == Head(queue[op])

Answer(op, code, rows) ==
    [kind |-> "reply", req |-> Request(op).req, code |-> code, rows |-> rows]

Announcement(op, u, row) ==
    [kind |-> "event", subject |-> op, user |-> u, row |-> row]

\* Mutant of Conclude: the message is handed to the callback again.
ConcludeRedelivering(op, messages) ==
    /\ handler' = [handler EXCEPT ![op] = messages]
    /\ UNCHANGED <<queue, outbuf, subscribed>>

\* The message is done with but for what remains to be sent.
Conclude(op, messages) ==
    /\ queue' = [queue EXCEPT ![op] = Tail(@)]
    /\ handler' = [handler EXCEPT ![op] = messages]
    /\ UNCHANGED <<outbuf, subscribed>>

\* Mutant of ReplyOnly: no return after the error reply.
ReplyOnlyFallingThrough(op, code, rows) ==
    /\ Conclude(op, <<Answer(op, code, rows),
                      Announcement(op, Request(op).user, None)>>)
    /\ UNCHANGED <<table, clock, history, applied, faults, lost>>

\* The statement changed nothing: answer and stop there.
ReplyOnly(op, code, rows) ==
    /\ Conclude(op, <<Answer(op, code, rows)>>)
    /\ UNCHANGED <<table, clock, history, applied, faults, lost>>

\* The statement committed row for u.  Should its acknowledgement be lost on
\* the way from Postgres, the handler takes it for a failure: it answers
\* INTERNAL and publishes nothing.
Commit(op, u, row) ==
    /\ table' = [table EXCEPT ![u] = row]
    /\ clock' = clock + 1
    /\ history' = [history EXCEPT ![u] = @ \cup ({row} \ {None})]
    /\ applied' = applied \cup {Request(op).req}
    /\ \/ /\ Conclude(op, <<Answer(op, "OK", Only(u, row)),
                            Announcement(op, u, row)>>)
          /\ UNCHANGED <<faults, lost>>
       \/ /\ Fault
          /\ Conclude(op, <<Answer(op, "INTERNAL", Nothing)>>)
          /\ lost' = lost \cup {u}

\* Mutant of RejectMalformed: a parse error is logged and not answered.
RejectMalformedSilently(op) ==
    /\ Ready(op)
    /\ ~Request(op).good
    /\ Conclude(op, <<>>)
    /\ UNCHANGED <<table, clock, history, applied, faults, lost>>

\* Parse, validate and id errors.
RejectMalformed(op) ==
    /\ Ready(op)
    /\ ~Request(op).good
    /\ ReplyOnly(op, "BAD_REQUEST", Nothing)

HandleListUsers ==
    /\ Ready("list")
    /\ Request("list").good
    /\ ReplyOnly("list", "OK", table)

HandleGetUser ==
    /\ Ready("get")
    /\ LET c == Request("get") IN
       /\ c.good
       /\ IF table[c.user] = None
          THEN ReplyOnly("get", "NOT_FOUND", Nothing)
          ELSE ReplyOnly("get", "OK", Only(c.user, table[c.user]))

\* Bound: once every id of Users has been used, a create waits forever.
HandleCreateUser ==
    /\ Ready("create")
    /\ LET c == Request("create") IN
       /\ c.good
       /\ \E u \in UnusedIds(history) :
              IF EmailTaken(table, u, c.input.email)
              THEN ReplyOnly("create", "BAD_REQUEST", Nothing)
              ELSE Commit("create", u, InsertedRow(c.input, clock + 1))

HandleUpdateUser ==
    /\ Ready("update")
    /\ LET c == Request("update")
           row == UpdatedRow(table[c.user], c.input, clock + 1)
       IN
       /\ c.good
       /\ CASE c.input = NoInput -> ReplyOnly("update", "BAD_REQUEST", Nothing)
            [] c.input # NoInput /\ table[c.user] = None ->
                   ReplyOnly("update", "NOT_FOUND", Nothing)
            [] OTHER ->
                   IF EmailTaken(table, c.user, row.email)
                   THEN ReplyOnly("update", "BAD_REQUEST", Nothing)
                   ELSE Commit("update", c.user, row)

HandleDeleteUser ==
    /\ Ready("delete")
    /\ LET c == Request("delete") IN
       /\ c.good
       /\ IF table[c.user] = None
          THEN ReplyOnly("delete", "NOT_FOUND", Nothing)
          ELSE Commit("delete", c.user, None)

\* The query fails and changes nothing: pool exhausted, connection refused,
\* a value too long for its column.  An update that sets nothing runs none.
DatabaseFailure(op) ==
    /\ Ready(op)
    /\ Request(op).good
    /\ op = "update" => Request(op).input # NoInput
    /\ Fault
    /\ Conclude(op, <<Answer(op, "INTERNAL", Nothing)>>)
    /\ UNCHANGED <<table, clock, history, applied, lost>>

-----------------------------------------------------------------------------
(* What follows the statement.                                             *)

\* Mutant of Send: the newest message is written first.
SendFirst(op, kind) ==
    /\ handler[op] # <<>>
    /\ Head(handler[op]).kind = kind
    /\ outbuf' = <<Head(handler[op])>> \o outbuf
    /\ handler' = [handler EXCEPT ![op] = Tail(@)]
    /\ UNCHANGED <<natsVars, table, clock, history, applied>>

\* reply, then publishEvent: each hands one message to the connection.
Send(op, kind) ==
    /\ handler[op] # <<>>
    /\ Head(handler[op]).kind = kind
    /\ outbuf' = Append(outbuf, Head(handler[op]))
    /\ handler' = [handler EXCEPT ![op] = Tail(@)]
    /\ UNCHANGED <<natsVars, table, clock, history, applied>>

Respond(op) == Send(op, "reply")

PublishEvent(op) == Send(op, "event")

\* The flusher goroutine writes the oldest message to the socket.  Where it
\* goes, and for which users that means an event lost, is the business of the
\* module that composes this one.
Flush(missed) ==
    /\ outbuf # <<>>
    /\ outbuf' = Tail(outbuf)
    /\ lost' = lost \cup missed
    /\ UNCHANGED <<queue, subscribed, faults, table, clock, handler, history,
                   applied>>

\* Respond or Publish returned an error, which the handler only logs, or the
\* message left and was dropped on the way.
LoseMessage ==
    /\ outbuf # <<>>
    /\ Fault
    /\ outbuf' = Tail(outbuf)
    /\ lost' = IF Head(outbuf).kind = "event"
               THEN lost \cup {Head(outbuf).user} ELSE lost
    /\ UNCHANGED <<queue, subscribed, table, clock, handler, history, applied>>

-----------------------------------------------------------------------------
(* Start and stop.                                                         *)

\* main: subscribe to the next command subject.
HandleSubscribe ==
    /\ \E i \in 1..Len(SubjectOrder) :
          /\ subscribed = {SubjectOrder[j] : j \in 1..(i - 1)}
          /\ subscribed' = subscribed \cup {SubjectOrder[i]}
    /\ UNCHANGED <<queue, faults, lost, serviceVars>>

\* Messages the service has not flushed yet.
Pending ==
    ToSet(outbuf) \cup UNION {ToSet(handler[op]) : op \in Ops}

\* Events the process has committed to but that have not left it.
Unsent(u) == \E m \in Pending : m.kind = "event" /\ m.user = u

\* The process dies: SIGTERM, SIGKILL, panic.  main never returns from its
\* select {}, so the deferred Drain does not run.
Terminate ==
    /\ Fault
    /\ subscribed # {}
    /\ subscribed' = {}
    /\ queue' = [op \in Ops |-> <<>>]
    /\ handler' = [op \in Ops |-> <<>>]
    /\ outbuf' = <<>>
    /\ lost' = lost \cup {u \in Users : Unsent(u)}
    /\ UNCHANGED <<table, clock, history, applied>>

\* The steps of the goroutine that runs the callback of op.
Callback(op) ==
    \/ RejectMalformed(op)
    \/ op = "list"   /\ HandleListUsers
    \/ op = "create" /\ HandleCreateUser
    \/ op = "get"    /\ HandleGetUser
    \/ op = "update" /\ HandleUpdateUser
    \/ op = "delete" /\ HandleDeleteUser
    \/ Respond(op)
    \/ PublishEvent(op)

\* Every step of the service but the delivery of what it flushes.
ServiceStep ==
    \/ \E op \in Ops : Callback(op) \/ DatabaseFailure(op)
    \/ LoseMessage
    \/ HandleSubscribe
    \/ Terminate
    \/ \E op \in Ops : LoseCommand(op) /\ UNCHANGED serviceVars
=============================================================================
