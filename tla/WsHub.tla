--------------------------------- MODULE WsHub ---------------------------------
(***************************************************************************)
(* The WebSocket hub of the gateway: one goroutine that owns the set of    *)
(* registered connections and copies every user event to each of them.     *)
(*                                                                         *)
(* It meets three kinds of goroutines: the callbacks of the three event    *)
(* subscriptions, which put events into its buffered channel; the reader   *)
(* of each connection, which registers and unregisters through unbuffered  *)
(* channels and writes answers of its own to the connection; and the peers *)
(* behind the connections, which may leave or stop reading at any time.    *)
(***************************************************************************)
EXTENDS Naturals, SequencesExt

CONSTANTS Conns,     \* WebSocket connections, each upgraded at most once
          EventIds,  \* bound: the events published, one for each id
          Capacity,  \* how many messages the broadcast channel holds (64)
          Stalling,  \* connections whose peer may stop reading for good
          None       \* no message, no connection

Subjects == {"create", "update", "delete"}

Event == [subject : Subjects, id : EventIds]

\* What arrives at the peer when two goroutines write at the same time.
Garbled == [subject |-> "garbled", id |-> None]

ASSUME CapacityIsNat == Capacity \in Nat
ASSUME StallingAreConns == Stalling \subseteq Conns
ASSUME NoneIsNoConn == None \notin Conns \cup EventIds \cup Event

VARIABLES pending,    \* subject -> events its callback has not handed over
          broadcast,  \* the channel between the callbacks and the hub
          clients,    \* h.clients
          current,    \* the message the hub took last
          rest,       \* clients its loop still has to visit
          target,     \* the client whose writeText it has called
          writers,    \* conn -> goroutines inside a write: its mutex
          reader,     \* conn -> how far Handle is
          link,       \* conn -> what has become of the TCP connection
          closes,     \* history: conn -> how often the hub closed it
          feed,       \* history: conn -> the broadcasts written to it
          arrived,    \* history: subject -> the events NATS delivered
          log,        \* history: all messages the hub took, in order
          joined      \* history: conn -> length of log when it registered

busVars == <<pending, arrived>>
loopVars == <<clients, current, rest, target, log, joined>>
connVars == <<writers, link, closes, feed>>
hubVars == <<busVars, broadcast, loopVars, connVars, reader>>

ReaderStates ==
    {"new", "registering", "reading", "busy", "answering", "leaving", "done"}

HubTypeOK ==
    /\ pending \in [Subjects -> Seq(Event)]
    /\ broadcast \in Seq(Event) /\ Len(broadcast) <= Capacity
    /\ clients \in SUBSET Conns
    /\ current \in Event \cup {None}
    /\ rest \in SUBSET clients
    /\ target \in clients \cup {None}
    /\ writers \in [Conns -> SUBSET {"hub", "reader"}]
    /\ reader \in [Conns -> ReaderStates]
    /\ link \in [Conns -> {"none", "up", "gone", "closed"}]
    /\ closes \in [Conns -> Nat]
    /\ feed \in [Conns -> Seq(Event \cup {Garbled})]
    /\ arrived \in [Subjects -> Seq(Event)]
    /\ log \in Seq(Event)
    /\ joined \in [Conns -> Nat]

HubInit ==
    /\ pending = [s \in Subjects |-> <<>>]
    /\ broadcast = <<>>
    /\ clients = {}
    /\ current = None
    /\ rest = {}
    /\ target = None
    /\ writers = [c \in Conns |-> {}]
    /\ reader = [c \in Conns |-> "new"]
    /\ link = [c \in Conns |-> "none"]
    /\ closes = [c \in Conns |-> 0]
    /\ feed = [c \in Conns |-> <<>>]
    /\ arrived = [s \in Subjects |-> <<>>]
    /\ log = <<>>
    /\ joined = [c \in Conns |-> 0]

-----------------------------------------------------------------------------
(* The subscriptions.                                                      *)

Delivered == UNION {ToSet(arrived[s]) : s \in Subjects}

\* NATS hands an event to the subscription of its subject.
Arrive(e) ==
    /\ e \in Event
    /\ \A d \in Delivered : d.id # e.id
    /\ arrived' = [arrived EXCEPT ![e.subject] = Append(@, e)]
    /\ pending' = [pending EXCEPT ![e.subject] = Append(@, e)]
    /\ UNCHANGED <<broadcast, loopVars, connVars, reader>>

\* Mutant of Broadcast: never block, drop the message when the channel is full.
BroadcastOrDrop(s) ==
    /\ pending[s] # <<>>
    /\ broadcast' = IF Len(broadcast) < Capacity
                    THEN Append(broadcast, Head(pending[s])) ELSE broadcast
    /\ pending' = [pending EXCEPT ![s] = Tail(@)]
    /\ UNCHANGED <<arrived, loopVars, connVars, reader>>

\* Mutant of Broadcast: the channel has no bound.
BroadcastUnbounded(s) ==
    /\ pending[s] # <<>>
    /\ broadcast' = Append(broadcast, Head(pending[s]))
    /\ pending' = [pending EXCEPT ![s] = Tail(@)]
    /\ UNCHANGED <<arrived, loopVars, connVars, reader>>

\* The callback of s sends its message into the channel, and waits while the
\* channel is full; the events behind it wait in the subscription.
Broadcast(s) ==
    /\ pending[s] # <<>>
    /\ Len(broadcast) < Capacity
    /\ broadcast' = Append(broadcast, Head(pending[s]))
    /\ pending' = [pending EXCEPT ![s] = Tail(@)]
    /\ UNCHANGED <<arrived, loopVars, connVars, reader>>

-----------------------------------------------------------------------------
(* The hub's goroutine.                                                    *)

\* run waits in its select.
Listening == target = None /\ rest = {}

Goto(c, from, to) ==
    /\ reader[c] = from
    /\ reader' = [reader EXCEPT ![c] = to]

Close(c) ==
    /\ link' = [link EXCEPT ![c] = "closed"]
    /\ closes' = [closes EXCEPT ![c] = @ + 1]

\* register: the reader's send and the hub's receive are one step.
Register(c) ==
    /\ Listening
    /\ Goto(c, "registering", "reading")
    /\ clients' = clients \cup {c}
    /\ joined' = [joined EXCEPT ![c] = Len(log)]
    /\ UNCHANGED <<busVars, broadcast, current, rest, target, log, connVars>>

\* Mutant of Unregister: close without asking whether the client is known.
UnregisterUnchecked(c) ==
    /\ Listening
    /\ Goto(c, "leaving", "done")
    /\ clients' = clients \ {c}
    /\ Close(c)
    /\ UNCHANGED <<busVars, broadcast, current, rest, target, log, joined,
                   writers, feed>>

\* Mutant of Unregister: only clients the hub knows are received.
UnregisterKnown(c) ==
    /\ Listening
    /\ Goto(c, "leaving", "done")
    /\ c \in clients
    /\ clients' = clients \ {c}
    /\ Close(c)
    /\ UNCHANGED <<busVars, broadcast, current, rest, target, log, joined,
                   writers, feed>>

\* unregister: a client that is still known is deleted and closed.
Unregister(c) ==
    /\ Listening
    /\ Goto(c, "leaving", "done")
    /\ clients' = clients \ {c}
    /\ IF c \in clients THEN Close(c) ELSE UNCHANGED <<link, closes>>
    /\ UNCHANGED <<busVars, broadcast, current, rest, target, log, joined,
                   writers, feed>>

\* The hub takes a message and begins its loop over the clients.
Take ==
    /\ Listening
    /\ broadcast # <<>>
    /\ current' = Head(broadcast)
    /\ broadcast' = Tail(broadcast)
    /\ rest' = clients
    /\ log' = Append(log, Head(broadcast))
    /\ UNCHANGED <<busVars, clients, target, joined, connVars, reader>>

\* The next client, in whatever order the map is iterated: writeText is
\* called and waits for the connection's mutex.
Visit(c) ==
    /\ target = None
    /\ c \in rest
    /\ target' = c
    /\ rest' = rest \ {c}
    /\ UNCHANGED <<busVars, broadcast, clients, current, log, joined, connVars,
                   reader>>

\* Mutant of Acquire: no mutex.
AcquireUnlocked(c, who) ==
    /\ who \notin writers[c]
    /\ writers' = [writers EXCEPT ![c] = @ \cup {who}]

\* c.mu.Lock()
Acquire(c, who) ==
    /\ writers[c] = {}
    /\ writers' = [writers EXCEPT ![c] = {who}]

\* defer c.mu.Unlock()
Release(c, who) ==
    /\ who \in writers[c]
    /\ writers' = [writers EXCEPT ![c] = @ \ {who}]

Lock ==
    /\ target # None
    /\ "hub" \notin writers[target]
    /\ Acquire(target, "hub")
    /\ UNCHANGED <<busVars, broadcast, loopVars, link, closes, feed, reader>>

\* The write is done: the peer has read enough, or is gone and the kernel
\* took the bytes.  Without either it lasts forever: there is no deadline.
Written ==
    /\ target # None
    /\ link[target] \in {"up", "gone"}
    /\ Release(target, "hub")
    /\ feed' = [feed EXCEPT ![target] =
                   Append(@, IF writers[target] = {"hub"}
                             THEN current ELSE Garbled)]
    /\ target' = None
    /\ UNCHANGED <<busVars, broadcast, clients, current, rest, log, joined,
                   link, closes, reader>>

\* Mutant of WriteFailed: the loop ends with the first client that fails.
WriteFailedBreaking ==
    /\ target # None
    /\ link[target] # "up"
    /\ Release(target, "hub")
    /\ clients' = clients \ {target}
    /\ Close(target)
    /\ target' = None
    /\ rest' = {}
    /\ UNCHANGED <<busVars, broadcast, current, log, joined, feed, reader>>

\* The write failed: the client is deleted and closed, the loop goes on.
WriteFailed ==
    /\ target # None
    /\ link[target] # "up"
    /\ Release(target, "hub")
    /\ clients' = clients \ {target}
    /\ Close(target)
    /\ target' = None
    /\ UNCHANGED <<busVars, broadcast, current, rest, log, joined, feed, reader>>

-----------------------------------------------------------------------------
(* The reader of a connection (Handle) and its peer.                       *)

\* The upgrade succeeded; the connection asks to be registered.
Upgrade(c) ==
    /\ Goto(c, "new", "registering")
    /\ link' = [link EXCEPT ![c] = "up"]
    /\ UNCHANGED <<busVars, broadcast, loopVars, writers, closes, feed>>

\* Close frame, broken network, end of the client.
PeerLeaves(c) ==
    /\ link[c] = "up"
    /\ link' = [link EXCEPT ![c] = "gone"]
    /\ UNCHANGED <<busVars, broadcast, loopVars, writers, closes, feed, reader>>

ReaderOnly(c, from, to) ==
    /\ Goto(c, from, to)
    /\ UNCHANGED <<busVars, broadcast, loopVars, connVars>>

\* Also what the peer sent before it left, or the hub closed: it is buffered.
ReadMessage(c) == ReaderOnly(c, "reading", "busy")

\* Mutant of ReadFailed: the loop continues.
ReadFailedContinuing(c) ==
    link[c] \in {"gone", "closed"} /\ ReaderOnly(c, "reading", "reading")

\* ReadMessage returned an error: leave the loop; unregister is deferred.
ReadFailed(c) ==
    link[c] \in {"gone", "closed"} /\ ReaderOnly(c, "reading", "leaving")

\* The message is done with: nothing to write, or writeJSON is called.
StaySilent(c) == ReaderOnly(c, "busy", "reading")
Respond(c) == ReaderOnly(c, "busy", "answering")

ReaderLock(c) ==
    /\ reader[c] = "answering"
    /\ "reader" \notin writers[c]
    /\ Acquire(c, "reader")
    /\ UNCHANGED <<busVars, broadcast, loopVars, link, closes, feed, reader>>

ResponseWritten(c) ==
    /\ link[c] \in {"up", "gone"}
    /\ Goto(c, "answering", "reading")
    /\ Release(c, "reader")
    /\ UNCHANGED <<busVars, broadcast, loopVars, link, closes, feed>>

ResponseFailed(c) ==
    /\ link[c] # "up"
    /\ Goto(c, "answering", "leaving")
    /\ Release(c, "reader")
    /\ UNCHANGED <<busVars, broadcast, loopVars, link, closes, feed>>

-----------------------------------------------------------------------------
HubStep ==
    \/ \E s \in Subjects : Broadcast(s)
    \/ \E c \in Conns : Register(c) \/ Unregister(c) \/ Visit(c)
    \/ Take \/ Lock \/ Written \/ WriteFailed

\* What a connection does besides handling messages.
ConnStep ==
    \E c \in Conns :
        \/ Upgrade(c) \/ PeerLeaves(c) \/ ReadFailed(c)
        \/ ReaderLock(c) \/ ResponseFailed(c)

\* Goroutines that can run do.  Strong fairness where Go chooses among those
\* that wait: select picks a ready case at random, a mutex in starvation mode
\* goes to the one that waited longest.  A write ends because its peer reads
\* or leaves; nothing is assumed of a peer in Stalling.
Fairness ==
    /\ \A s \in Subjects : WF_hubVars(Broadcast(s))
    /\ SF_hubVars(Take) /\ SF_hubVars(Lock)
    /\ \A c \in Conns :
          /\ SF_hubVars(Register(c)) /\ SF_hubVars(Unregister(c))
          /\ WF_hubVars(Visit(c))
          /\ SF_hubVars(ReaderLock(c))
          /\ WF_hubVars(ReadFailed(c))
          /\ WF_hubVars(StaySilent(c) \/ Respond(c))
          /\ WF_hubVars(ResponseFailed(c))
    /\ WF_hubVars(WriteFailed)
    /\ \A c \in Conns \ Stalling :
          /\ WF_hubVars(target = c /\ Written)
          /\ WF_hubVars(ResponseWritten(c))

-----------------------------------------------------------------------------
(* Properties.                                                             *)

\* A client is behind by the message in hand, or not at all.
Behind(c) == IF c \in rest \cup {target} THEN 1 ELSE 0

\* Every connection is fed a gapless piece of the hub's log, from the message
\* after its registration on, each message once and whole; the clients the
\* hub still knows have all of it but the message in hand.
FeedsAreGapless ==
    \A c \in Conns :
        /\ joined[c] + Len(feed[c]) <= Len(log)
        /\ feed[c] = SubSeq(log, joined[c] + 1, joined[c] + Len(feed[c]))
        /\ c \in clients =>
               joined[c] + Len(feed[c]) + Behind(c) = Len(log)

\* A connection is closed once, by the hub alone, and not while it is a
\* client; one whose reader is done has been closed and forgotten.
ExitsAreClean ==
    \A c \in Conns :
        /\ closes[c] <= 1
        /\ c \in clients => closes[c] = 0 /\ reader[c] \notin {"new", "done"}
        /\ reader[c] = "done" => closes[c] = 1 /\ c \notin clients

OfSubject(s, messages) == {n \in DOMAIN messages : messages[n].subject = s}

\* Inside the gateway no event is lost, repeated or overtaken by a later one
\* of its subject, however full the channel is: what the hub has taken, and
\* what it is still to take, hold the events of a subject in the order they
\* arrived in, and nothing else of it.
NothingLostInside ==
    \A s \in Subjects :
        LET way == log \o broadcast \o pending[s]
        IN \E at \in Surjection(DOMAIN arrived[s], OfSubject(s, way)) :
              \A i, j \in DOMAIN arrived[s] :
                  /\ way[at[i]] = arrived[s][i]
                  /\ i < j => at[i] < at[j]

\* A client gets every event that is on its way, or its connection ends.
EventsReachClients ==
    \A c \in Conns, i \in EventIds :
        (/\ c \in clients
         /\ \E s \in Subjects : \E e \in ToSet(pending[s]) : e.id = i)
        ~> (c \notin clients \/ \E e \in ToSet(feed[c]) : e.id = i)

\* The reader of a connection whose peer has left comes to its end, known to
\* the hub or not.
ReadersFinish == \A c \in Conns : link[c] = "gone" ~> reader[c] = "done"
=============================================================================
