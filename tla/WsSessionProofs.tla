---------------------------- MODULE WsSessionProofs ----------------------------
(***************************************************************************)
(* The hub and the WebSocket sessions, for any number of connections and   *)
(* requests, any capacity, and whatever readers and peers do.              *)
(*                                                                         *)
(* HubInv is kept by every step of the hub's variables, whoever takes it.  *)
(* A request that changed the directory is followed from its change to the *)
(* hub's log (TraceInv); a reader that reads on has written every answer   *)
(* that is its own to write (HandleInv); and the event of a connection's   *)
(* request comes after its registration in the log (OwnInv).  With the     *)
(* hub's FeedInv this gives SilenceIsAnnounced.                            *)
(*                                                                         *)
(* That the hub takes the events of a subject as they arrived is OrderInv, *)
(* for whatever way the steps of the hub and the callbacks interleave.     *)
(***************************************************************************)
EXTENDS WsSession, SequenceLemmas

-----------------------------------------------------------------------------
(* The invariant of the hub.                                               *)

\* Every step the variables of the hub can take.
HubMove ==
    \/ \E e \in Event : Arrive(e)
    \/ HubStep
    \/ ConnStep
    \/ \E c \in Conns : \/ ReadMessage(c) \/ StaySilent(c) \/ Respond(c)
                        \/ ResponseWritten(c)

\* One writer at a time; the hub writes to the client it has called.
MutexInv ==
    \A c \in Conns :
        /\ writers[c] \in {{}, {"hub"}, {"reader"}}
        /\ "hub" \in writers[c] => target = c

\* While the loop runs, its message is the last one taken.
LoopInv ==
    /\ rest # {} \/ target # None => log # <<>> /\ current = log[Len(log)]
    /\ target \notin rest

\* A connection that is being served is known to the hub or was closed by it.
ExitInv ==
    \A c \in Conns :
        /\ reader[c] \in {"new", "registering"} =>
               c \notin clients /\ closes[c] = 0 /\ feed[c] = <<>>
        /\ c \in clients => closes[c] = 0 /\ reader[c] # "done"
        /\ reader[c] \notin {"new", "registering"} /\ c \notin clients =>
               closes[c] = 1

\* FeedsAreGapless, message by message.
FeedInv ==
    \A c \in Conns :
        /\ joined[c] + Len(feed[c]) <= Len(log)
        /\ \A i \in 1 .. Len(feed[c]) : feed[c][i] = log[joined[c] + i]
        /\ c \in clients => joined[c] + Len(feed[c]) + Behind(c) = Len(log)

HubInv == HubTypeOK /\ MutexInv /\ LoopInv /\ ExitInv /\ FeedInv

-----------------------------------------------------------------------------
(* The callbacks, and the taking of a message.                             *)

\* The hub starts with its invariant.
LEMMA HubInitInv == HubInit => HubInv
<1> SUFFICES ASSUME HubInit PROVE HubInv
  OBVIOUS
<1>1. HubTypeOK
  BY CapacityIsNat DEF HubInit, HubTypeOK, ReaderStates
<1>2. MutexInv /\ LoopInv /\ ExitInv
  BY DEF HubInit, MutexInv, LoopInv, ExitInv
<1>3. FeedInv
  BY DEF HubInit, FeedInv
<1> QED
  BY <1>1, <1>2, <1>3 DEF HubInv

\* The loop and the connections know nothing of the events' way to the hub.
LEMMA BusInv ==
    ASSUME HubInv, HubTypeOK', UNCHANGED <<loopVars, connVars, reader>>
    PROVE  HubInv'
<1> USE DEF loopVars, connVars
<1>1. MutexInv' /\ LoopInv' /\ ExitInv'
  BY DEF HubInv, MutexInv, LoopInv, ExitInv
<1>2. FeedInv'
  BY DEF HubInv, FeedInv, Behind
<1> QED
  BY <1>1, <1>2 DEF HubInv

\* An event arrives.
LEMMA ArriveInv ==
    ASSUME HubInv, NEW e \in Event, Arrive(e) PROVE HubInv'
<1>1. e.subject \in Subjects /\ HubTypeOK
  BY DEF Event, HubInv
<1>2. arrived' \in [Subjects -> Seq(Event)] /\ pending' \in [Subjects -> Seq(Event)]
  BY <1>1, AppendElements DEF Arrive, HubTypeOK
<1>3. HubTypeOK'
  BY <1>1, <1>2 DEF Arrive, HubTypeOK, loopVars, connVars
<1> QED
  BY <1>3, BusInv DEF Arrive

\* A callback hands its event to the channel, within the channel's capacity.
LEMMA BroadcastInv ==
    ASSUME HubInv, NEW s \in Subjects, Broadcast(s) PROVE HubInv'
<1> HubTypeOK
  BY DEF HubInv
<1>1. Head(pending[s]) \in Event /\ Tail(pending[s]) \in Seq(Event)
  BY TailElements DEF Broadcast, HubTypeOK
<1>2. broadcast' \in Seq(Event) /\ Len(broadcast') = Len(broadcast) + 1
  BY <1>1, AppendProperties DEF Broadcast, HubTypeOK
<1>3. Len(broadcast') <= Capacity
  BY <1>2, CapacityIsNat, LenProperties DEF Broadcast, HubTypeOK
<1>4. pending' \in [Subjects -> Seq(Event)]
  BY <1>1 DEF Broadcast, HubTypeOK
<1>5. HubTypeOK'
  BY <1>2, <1>3, <1>4 DEF Broadcast, HubTypeOK, loopVars, connVars
<1> QED
  BY <1>5, BusInv DEF Broadcast

\* A message is taken: every client is now one behind.
LEMMA TakeInv ==
    ASSUME HubInv, Take PROVE HubInv'
<1> HubTypeOK /\ MutexInv /\ LoopInv /\ ExitInv /\ FeedInv
  BY DEF HubInv
<1> USE DEF busVars, connVars
<1>1. /\ Head(broadcast) \in Event /\ Tail(broadcast) \in Seq(Event)
      /\ Len(Tail(broadcast)) = Len(broadcast) - 1
  BY HeadTailProperties DEF Take, HubTypeOK
<1>2. Len(broadcast') <= Capacity
  BY <1>1, CapacityIsNat, LenProperties DEF Take, HubTypeOK
<1>3. /\ log' \in Seq(Event) /\ Len(log') = Len(log) + 1 /\ Len(log) \in Nat
      /\ \A i \in 1 .. Len(log) : log'[i] = log[i]
      /\ log'[Len(log')] = current'
  BY <1>1, AppendProperties, LenProperties DEF Take, HubTypeOK
<1>4. HubTypeOK'
  BY <1>1, <1>2, <1>3 DEF Take, HubTypeOK
<1>5. MutexInv' /\ ExitInv'
  BY DEF Take, MutexInv, ExitInv
<1>6. LoopInv'
  BY <1>3, NoneIsNoConn DEF Take, LoopInv, Listening, HubTypeOK
<1>7. ASSUME NEW c \in Conns
      PROVE  /\ joined'[c] + Len(feed'[c]) <= Len(log')
             /\ \A i \in 1 .. Len(feed'[c]) : feed'[c][i] = log'[joined'[c] + i]
             /\ c \in clients' => joined'[c] + Len(feed'[c]) + Behind(c)' = Len(log')
  <2>1. joined[c] \in Nat /\ Len(feed[c]) \in Nat /\ joined' = joined /\ feed' = feed
    BY LenProperties DEF HubTypeOK, Take
  <2>2. /\ joined[c] + Len(feed[c]) <= Len(log)
        /\ \A i \in 1 .. Len(feed[c]) : feed[c][i] = log[joined[c] + i]
        /\ c \in clients => joined[c] + Len(feed[c]) + Behind(c) = Len(log)
    BY DEF FeedInv
  <2>3. c \in clients => Behind(c) = 0 /\ Behind(c)' = 1
    BY NoneIsNoConn DEF Take, Listening, Behind
  <2>4. joined'[c] + Len(feed'[c]) <= Len(log')
    BY <1>3, <2>1, <2>2
  <2>5. ASSUME NEW i \in 1 .. Len(feed'[c])
        PROVE  feed'[c][i] = log'[joined'[c] + i]
    <3>1. feed[c][i] = log[joined[c] + i]
      BY <2>1, <2>2
    <3>2. joined[c] + i \in 1 .. Len(log)
      BY <1>3, <2>1, <2>2
    <3> QED
      BY <1>3, <2>1, <3>1, <3>2
  <2>6. clients' = clients
    BY DEF Take
  <2> QED
    BY <1>3, <2>1, <2>2, <2>3, <2>4, <2>5, <2>6
<1> QED
  BY <1>4, <1>5, <1>6, <1>7 DEF HubInv, FeedInv

-----------------------------------------------------------------------------
(* The loop over the clients.                                              *)

\* The next client is visited, and stays one behind.
LEMMA VisitInv ==
    ASSUME HubInv, NEW c \in Conns, Visit(c) PROVE HubInv'
<1> HubTypeOK /\ MutexInv /\ LoopInv /\ ExitInv /\ FeedInv
  BY DEF HubInv
<1> USE DEF busVars, connVars
<1>1. HubTypeOK'
  BY DEF Visit, HubTypeOK
<1>2. MutexInv'
  BY NoneIsNoConn DEF Visit, MutexInv
<1>3. LoopInv' /\ ExitInv'
  BY DEF Visit, LoopInv, ExitInv
<1>4. \A d \in Conns : Behind(d)' = Behind(d)
  BY NoneIsNoConn DEF Visit, Behind
<1>5. FeedInv'
  BY <1>4 DEF Visit, FeedInv
<1> QED
  BY <1>1, <1>2, <1>3, <1>5 DEF HubInv

\* The hub gets the mutex of the client it visits.
LEMMA LockInv ==
    ASSUME HubInv, Lock PROVE HubInv'
<1> HubTypeOK /\ MutexInv /\ LoopInv /\ ExitInv /\ FeedInv
  BY DEF HubInv
<1> USE DEF busVars, loopVars
<1>1. target \in Conns /\ writers' = [writers EXCEPT ![target] = {"hub"}]
  BY DEF Lock, Acquire, HubTypeOK
<1>2. HubTypeOK'
  BY <1>1 DEF Lock, HubTypeOK
<1>3. MutexInv'
  BY <1>1 DEF Lock, MutexInv, HubTypeOK
<1>4. LoopInv' /\ ExitInv'
  BY DEF Lock, LoopInv, ExitInv
<1>5. FeedInv'
  BY DEF Lock, FeedInv, Behind
<1> QED
  BY <1>2, <1>3, <1>4, <1>5 DEF HubInv

\* A client has been written to: it is behind no more.
LEMMA WrittenInv ==
    ASSUME HubInv, Written PROVE HubInv'
<1> HubTypeOK /\ MutexInv /\ LoopInv /\ ExitInv /\ FeedInv
  BY DEF HubInv
<1> USE DEF busVars
<1>1. target \in Conns /\ target \in clients /\ writers[target] = {"hub"}
  BY DEF Written, Release, MutexInv, HubTypeOK
<1>2. /\ log # <<>> /\ current = log[Len(log)] /\ Len(log) \in Nat \ {0}
      /\ current \in Event
  <2>1. log # <<>> /\ current = log[Len(log)]
    BY DEF LoopInv, Written
  <2>2. Len(log) \in Nat \ {0} /\ \A i \in 1 .. Len(log) : log[i] \in Event
    BY <2>1, LenProperties, EmptySeq DEF HubTypeOK
  <2> QED
    BY <2>1, <2>2
<1>3. feed' = [feed EXCEPT ![target] = Append(feed[target], current)]
  BY <1>1 DEF Written
<1>4. /\ Append(feed[target], current) \in Seq(Event \cup {Garbled})
      /\ Len(Append(feed[target], current)) = Len(feed[target]) + 1
      /\ \A i \in 1 .. Len(feed[target]) :
             Append(feed[target], current)[i] = feed[target][i]
      /\ Append(feed[target], current)[Len(feed[target]) + 1] = current
  <2>1. feed[target] \in Seq(Event \cup {Garbled}) /\ current \in Event \cup {Garbled}
    BY <1>1, <1>2 DEF HubTypeOK
  <2> QED
    BY <2>1, AppendProperties
<1>5. HubTypeOK'
  BY <1>1, <1>3, <1>4 DEF Written, Release, HubTypeOK
<1>6. MutexInv' /\ LoopInv'
  BY <1>1, NoneIsNoConn DEF Written, Release, MutexInv, LoopInv, HubTypeOK
<1>7. ExitInv'
  BY <1>1, <1>3 DEF Written, ExitInv, HubTypeOK
<1>8. ASSUME NEW c \in Conns
      PROVE  /\ joined[c] + Len(feed'[c]) <= Len(log)
             /\ \A i \in 1 .. Len(feed'[c]) : feed'[c][i] = log[joined[c] + i]
             /\ c \in clients => joined[c] + Len(feed'[c]) + Behind(c)' = Len(log)
  <2>1. joined[c] \in Nat /\ Len(feed[c]) \in Nat
    BY LenProperties DEF HubTypeOK
  <2>2. /\ joined[c] + Len(feed[c]) <= Len(log)
        /\ \A i \in 1 .. Len(feed[c]) : feed[c][i] = log[joined[c] + i]
        /\ c \in clients => joined[c] + Len(feed[c]) + Behind(c) = Len(log)
    BY DEF FeedInv
  <2>3. CASE c = target
    <3>1. Behind(c) = 1 /\ Behind(c)' = 0
      BY <1>1, <2>3, NoneIsNoConn DEF Written, Behind, LoopInv
    <3>2. joined[c] + Len(feed[c]) + 1 = Len(log)
      BY <1>1, <2>2, <2>3, <3>1
    <3>3. feed'[c] = Append(feed[target], current)
      BY <1>1, <1>3, <2>3 DEF HubTypeOK
    <3>4. Len(feed'[c]) = Len(feed[c]) + 1
      BY <1>4, <2>3, <3>3
    <3>5. ASSUME NEW i \in 1 .. Len(feed'[c])
          PROVE  feed'[c][i] = log[joined[c] + i]
      <4>1. CASE i \in 1 .. Len(feed[c])
        BY <1>4, <2>2, <2>3, <3>3, <4>1
      <4>2. CASE i = Len(feed[c]) + 1
        <5>1. feed'[c][i] = current
          BY <1>4, <2>3, <3>3, <4>2
        <5>2. joined[c] + i = Len(log)
          BY <2>1, <3>2, <4>2
        <5> QED
          BY <1>2, <5>1, <5>2
      <4>3. i \in 1 .. Len(feed[c]) \/ i = Len(feed[c]) + 1
        BY <2>1, <3>4
      <4> QED
        BY <4>1, <4>2, <4>3
    <3> QED
      BY <2>1, <3>1, <3>2, <3>4, <3>5
  <2>4. CASE c # target
    <3>1. feed'[c] = feed[c]
      BY <1>1, <1>3, <2>4 DEF HubTypeOK
    <3>2. Behind(c)' = Behind(c)
      BY <1>1, <2>4, NoneIsNoConn DEF Written, Behind
    <3> QED
      BY <2>2, <3>1, <3>2
  <2> QED
    BY <2>3, <2>4
<1>9. FeedInv'
  BY <1>8 DEF FeedInv, Written
<1> QED
  BY <1>5, <1>6, <1>7, <1>9 DEF HubInv

\* A client that cannot be written to is deleted and closed.
LEMMA WriteFailedInv ==
    ASSUME HubInv, WriteFailed PROVE HubInv'
<1> HubTypeOK /\ MutexInv /\ LoopInv /\ ExitInv /\ FeedInv
  BY DEF HubInv
<1> USE DEF busVars
<1>1. target \in Conns /\ target \in clients /\ writers[target] = {"hub"}
  BY DEF WriteFailed, Release, MutexInv, HubTypeOK
<1>2. target \notin rest
  BY DEF LoopInv
<1>3. HubTypeOK'
  BY <1>1, <1>2 DEF WriteFailed, Release, Close, HubTypeOK
<1>4. MutexInv' /\ LoopInv'
  BY <1>1, NoneIsNoConn DEF WriteFailed, Release, MutexInv, LoopInv, HubTypeOK
<1>5. ExitInv'
  BY <1>1 DEF WriteFailed, Close, ExitInv, HubTypeOK
<1>6. \A d \in Conns : d \in clients' => Behind(d)' = Behind(d)
  BY <1>1, NoneIsNoConn DEF WriteFailed, Behind
<1>7. FeedInv'
  BY <1>6 DEF WriteFailed, FeedInv
<1> QED
  BY <1>3, <1>4, <1>5, <1>7 DEF HubInv

-----------------------------------------------------------------------------
(* The connections.                                                        *)

\* A connection is registered: it is owed everything taken from now on.
LEMMA RegisterInv ==
    ASSUME HubInv, NEW c \in Conns, Register(c) PROVE HubInv'
<1> HubTypeOK /\ MutexInv /\ LoopInv /\ ExitInv /\ FeedInv
  BY DEF HubInv
<1> USE DEF busVars, connVars
<1>1. /\ reader[c] = "registering" /\ reader' = [reader EXCEPT ![c] = "reading"]
      /\ rest = {} /\ target = None /\ rest' = {} /\ target' = None
      /\ Len(log) \in Nat
  BY LenProperties DEF Register, Goto, Listening, HubTypeOK
<1>2. HubTypeOK'
  BY <1>1 DEF Register, HubTypeOK, ReaderStates
<1>3. MutexInv' /\ LoopInv'
  BY <1>1 DEF Register, MutexInv, LoopInv
<1>4. ExitInv'
  BY <1>1 DEF Register, ExitInv, HubTypeOK
<1>5. \A d \in Conns : Behind(d)' = 0 /\ Behind(d) = 0
  BY <1>1, NoneIsNoConn DEF Behind
<1>6. ASSUME NEW d \in Conns
      PROVE  /\ joined'[d] + Len(feed[d]) <= Len(log)
             /\ \A i \in 1 .. Len(feed[d]) : feed[d][i] = log[joined'[d] + i]
             /\ d \in clients' => joined'[d] + Len(feed[d]) + 0 = Len(log)
  <2>1. CASE d = c
    <3>1. feed[d] = <<>> /\ joined'[d] = Len(log)
      BY <1>1, <2>1 DEF ExitInv, Register, HubTypeOK
    <3>2. Len(feed[d]) = 0
      BY <3>1
    <3> QED
      BY <1>1, <3>1, <3>2
  <2>2. CASE d # c
    BY <1>5, <2>2 DEF Register, FeedInv, HubTypeOK
  <2> QED
    BY <2>1, <2>2
<1>7. FeedInv'
  BY <1>5, <1>6 DEF Register, FeedInv
<1> QED
  BY <1>2, <1>3, <1>4, <1>7 DEF HubInv

\* A reader gives up its connection: the hub closes it unless it has already.
LEMMA UnregisterInv ==
    ASSUME HubInv, NEW c \in Conns, Unregister(c) PROVE HubInv'
<1> HubTypeOK /\ MutexInv /\ LoopInv /\ ExitInv /\ FeedInv
  BY DEF HubInv
<1> USE DEF busVars
<1>1. /\ reader[c] = "leaving" /\ reader' = [reader EXCEPT ![c] = "done"]
      /\ rest = {} /\ target = None /\ rest' = {} /\ target' = None
  BY DEF Unregister, Goto, Listening
<1>2. HubTypeOK'
  BY <1>1 DEF Unregister, Close, HubTypeOK, ReaderStates
<1>3. MutexInv' /\ LoopInv'
  BY <1>1 DEF Unregister, MutexInv, LoopInv
<1>4. ExitInv'
  <2>1. CASE c \in clients
    BY <1>1, <2>1 DEF Unregister, Close, ExitInv, HubTypeOK
  <2>2. CASE c \notin clients
    BY <1>1, <2>2 DEF Unregister, ExitInv, HubTypeOK
  <2> QED
    BY <2>1, <2>2
<1>5. \A d \in Conns : Behind(d)' = Behind(d)
  BY <1>1 DEF Behind
<1>6. FeedInv'
  BY <1>5 DEF Unregister, FeedInv
<1> QED
  BY <1>2, <1>3, <1>4, <1>6 DEF HubInv

\* Steps that leave alone what the hub does with its clients.
LEMMA OutsideInv ==
    ASSUME HubInv, HubTypeOK', MutexInv', ExitInv',
           UNCHANGED <<loopVars, feed>>
    PROVE  HubInv'
<1> USE DEF loopVars
<1>1. LoopInv'
  BY DEF HubInv, LoopInv
<1>2. FeedInv'
  BY DEF HubInv, FeedInv, Behind
<1> QED
  BY <1>1, <1>2 DEF HubInv

\* The peer of a connection, before it is known to the hub and when it leaves.
LEMMA PeerInv ==
    ASSUME HubInv, NEW c \in Conns, Upgrade(c) \/ PeerLeaves(c) PROVE HubInv'
<1> HubTypeOK /\ MutexInv /\ ExitInv
  BY DEF HubInv
<1> USE DEF busVars, loopVars
<1>1. HubTypeOK'
  BY DEF Upgrade, PeerLeaves, Goto, HubTypeOK, ReaderStates
<1>2. MutexInv'
  BY DEF Upgrade, PeerLeaves, MutexInv
<1>3. ExitInv'
  BY DEF Upgrade, PeerLeaves, Goto, ExitInv, HubTypeOK
<1> QED
  BY <1>1, <1>2, <1>3, OutsideInv DEF Upgrade, PeerLeaves

\* A reader moves on, between its registration and its end.
LEMMA ReaderOnlyInv ==
    ASSUME HubInv, NEW c \in Conns,
           NEW from \in {"reading", "busy"},
           NEW to \in {"reading", "busy", "answering", "leaving"},
           ReaderOnly(c, from, to)
    PROVE  HubInv'
<1> HubTypeOK /\ MutexInv /\ ExitInv
  BY DEF HubInv
<1> USE DEF busVars, loopVars, connVars
<1>1. reader[c] = from /\ reader' = [reader EXCEPT ![c] = to]
  BY DEF ReaderOnly, Goto
<1>2. HubTypeOK'
  BY <1>1 DEF ReaderOnly, HubTypeOK, ReaderStates
<1>3. MutexInv'
  BY DEF ReaderOnly, MutexInv
<1>4. ExitInv'
  BY <1>1 DEF ReaderOnly, ExitInv, HubTypeOK
<1> QED
  BY <1>2, <1>3, <1>4, OutsideInv DEF ReaderOnly

\* A reader gets the mutex of its connection, or gives it back.
LEMMA AnsweringInv ==
    ASSUME HubInv, NEW c \in Conns,
           ReaderLock(c) \/ ResponseWritten(c) \/ ResponseFailed(c)
    PROVE  HubInv'
<1> HubTypeOK /\ MutexInv /\ ExitInv
  BY DEF HubInv
<1> USE DEF busVars, loopVars
<1>1. CASE ReaderLock(c)
  <2>1. /\ reader' = reader /\ writers[c] = {}
        /\ writers' = [writers EXCEPT ![c] = {"reader"}]
    BY <1>1 DEF ReaderLock, Acquire
  <2>2. HubTypeOK'
    BY <1>1, <2>1 DEF ReaderLock, HubTypeOK
  <2>3. MutexInv'
    BY <1>1, <2>1 DEF ReaderLock, MutexInv, HubTypeOK
  <2>4. ExitInv'
    BY <1>1 DEF ReaderLock, ExitInv
  <2> QED
    BY <1>1, <2>2, <2>3, <2>4, OutsideInv DEF ReaderLock
<1>2. CASE ResponseWritten(c) \/ ResponseFailed(c)
  <2>1. /\ reader[c] = "answering" /\ writers[c] = {"reader"}
        /\ writers' = [writers EXCEPT ![c] = {}]
    BY <1>2 DEF ResponseWritten, ResponseFailed, Goto, Release, MutexInv
  <2>2. HubTypeOK'
    BY <1>2, <2>1 DEF ResponseWritten, ResponseFailed, Goto, HubTypeOK, ReaderStates
  <2>3. MutexInv'
    BY <1>2, <2>1 DEF ResponseWritten, ResponseFailed, MutexInv, HubTypeOK
  <2>4. ExitInv'
    BY <1>2, <2>1 DEF ResponseWritten, ResponseFailed, Goto, ExitInv, HubTypeOK
  <2> QED
    BY <1>2, <2>2, <2>3, <2>4, OutsideInv DEF ResponseWritten, ResponseFailed
<1> QED
  BY <1>1, <1>2

-----------------------------------------------------------------------------
(* All of them.                                                            *)

\* No step breaks the invariant of the hub.
LEMMA HubMoveInv ==
    ASSUME HubInv, [HubMove]_hubVars PROVE HubInv'
<1>1. CASE UNCHANGED hubVars
  BY <1>1 DEF hubVars, busVars, loopVars, connVars, HubInv, HubTypeOK, MutexInv,
     LoopInv, ExitInv, FeedInv, Behind
<1>2. CASE \E e \in Event : Arrive(e)
  BY <1>2, ArriveInv
<1>3. CASE HubStep
  <2>1. CASE \E s \in Subjects : Broadcast(s)
    BY <2>1, BroadcastInv
  <2>2. CASE \E c \in Conns : Register(c) \/ Unregister(c) \/ Visit(c)
    BY <2>2, RegisterInv, UnregisterInv, VisitInv
  <2>3. CASE Take \/ Lock \/ Written \/ WriteFailed
    BY <2>3, TakeInv, LockInv, WrittenInv, WriteFailedInv
  <2> QED
    BY <1>3, <2>1, <2>2, <2>3 DEF HubStep
<1>4. CASE ConnStep
  <2>1. PICK c \in Conns :
            \/ Upgrade(c) \/ PeerLeaves(c) \/ ReadFailed(c)
            \/ ReaderLock(c) \/ ResponseFailed(c)
    BY <1>4 DEF ConnStep
  <2>2. CASE Upgrade(c) \/ PeerLeaves(c)
    BY <2>2, PeerInv
  <2>3. CASE ReadFailed(c)
    BY <2>3, ReaderOnlyInv DEF ReadFailed
  <2>4. CASE ReaderLock(c) \/ ResponseFailed(c)
    BY <2>4, AnsweringInv
  <2> QED
    BY <2>1, <2>2, <2>3, <2>4
<1>5. ASSUME NEW c \in Conns,
             ReadMessage(c) \/ StaySilent(c) \/ Respond(c) \/ ResponseWritten(c)
      PROVE  HubInv'
  <2>1. CASE ReadMessage(c) \/ StaySilent(c) \/ Respond(c)
    BY <2>1, ReaderOnlyInv DEF ReadMessage, StaySilent, Respond
  <2>2. CASE ResponseWritten(c)
    BY <2>2, AnsweringInv
  <2> QED
    BY <1>5, <2>1, <2>2
<1> QED
  BY <1>1, <1>2, <1>3, <1>4, <1>5 DEF HubMove

\* What the invariant says of the ends of connections.
LEMMA ExitsFromInv == HubInv => ExitsAreClean
<1> SUFFICES ASSUME HubInv, NEW c \in Conns
             PROVE  /\ closes[c] <= 1
                    /\ c \in clients => closes[c] = 0 /\ reader[c] \notin {"new", "done"}
                    /\ reader[c] = "done" => closes[c] = 1 /\ c \notin clients
  BY DEF ExitsAreClean
<1> QED
  BY DEF HubInv, ExitInv

\* What the invariant says of the broadcasts a connection was fed.
LEMMA FeedsFromInv == HubInv => FeedsAreGapless
<1> SUFFICES ASSUME HubInv, NEW c \in Conns
             PROVE  feed[c] = SubSeq(log, joined[c] + 1, joined[c] + Len(feed[c]))
  BY DEF FeedsAreGapless, HubInv, FeedInv
<1> DEFINE piece == SubSeq(log, joined[c] + 1, joined[c] + Len(feed[c]))
<1>1. /\ feed[c] \in Seq(Event \cup {Garbled}) /\ log \in Seq(Event)
      /\ joined[c] \in Nat /\ Len(feed[c]) \in Nat /\ Len(log) \in Nat
      /\ joined[c] + Len(feed[c]) <= Len(log)
      /\ \A i \in 1 .. Len(feed[c]) : feed[c][i] = log[joined[c] + i]
  BY LenProperties DEF HubInv, HubTypeOK, FeedInv
<1>2. /\ Len(piece) = Len(feed[c]) /\ piece \in Seq(Event)
      /\ \A i \in 1 .. Len(feed[c]) : piece[i] = log[joined[c] + i]
  <2> DEFINE first == joined[c] + 1
             last == joined[c] + Len(feed[c])
  <2>1. first \in Int /\ last \in Int /\ last - first + 1 = Len(feed[c])
    BY <1>1
  <2>2. \A i \in 1 .. Len(log) : log[i] \in Event
    BY <1>1, LenProperties
  <2>3. \A i \in first .. last : log[i] \in Event
    BY <1>1, <2>2
  <2>4. /\ piece \in Seq(Event)
        /\ Len(piece) = IF first <= last THEN last - first + 1 ELSE 0
        /\ \A i \in 1 .. last - first + 1 : piece[i] = log[first + i - 1]
    <3> HIDE DEF first, last
    <3>1. /\ SubSeq(log, first, last) \in Seq(Event)
          /\ Len(SubSeq(log, first, last)) =
                 IF first <= last THEN last - first + 1 ELSE 0
          /\ \A i \in 1 .. last - first + 1 :
                 SubSeq(log, first, last)[i] = log[first + i - 1]
      BY <2>1, <2>3, SubSeqProperties
    <3> QED
      BY <3>1 DEF first, last
  <2>5. \A i \in 1 .. Len(feed[c]) : first + i - 1 = joined[c] + i
    BY <1>1
  <2> HIDE DEF piece, first, last
  <2>6. Len(piece) = Len(feed[c])
    BY <1>1, <2>1, <2>4
  <2>7. \A i \in 1 .. Len(feed[c]) : piece[i] = log[joined[c] + i]
    BY <2>1, <2>4, <2>5
  <2> QED
    BY <2>4, <2>6, <2>7
<1>3. \A i \in 1 .. Len(feed[c]) : feed[c][i] = piece[i]
  BY <1>1, <1>2
<1> HIDE DEF piece
<1>4. feed[c] = piece
  BY <1>1, <1>2, <1>3, SeqEqual
<1> QED
  BY <1>4 DEF piece

-----------------------------------------------------------------------------
(* The order of the events of a subject.                                   *)

\* at takes the events that arrived to their places on the way, the places of
\* the messages of s.
Places(at, s, way, events) ==
    /\ at \in [DOMAIN events -> OfSubject(s, way)]
    /\ \A n \in OfSubject(s, way) : \E i \in DOMAIN events : at[i] = n
    /\ \A i \in DOMAIN events : way[at[i]] = events[i]
    /\ \A i, j \in DOMAIN events : i < j => at[i] < at[j]

\* What is still with the callback of s has the subject s.
OrderInv ==
    \A s \in Subjects :
        /\ \A i \in 1 .. Len(pending[s]) : pending[s][i].subject = s
        /\ \E at : Places(at, s, log \o broadcast \o pending[s], arrived[s])

\* An event of s that arrives takes the last place.
LEMMA PlacesAppend ==
    ASSUME NEW s, NEW way \in Seq(Event), NEW events \in Seq(Event),
           NEW e \in Event, e.subject = s,
           NEW at, Places(at, s, way, events)
    PROVE  \E bt : Places(bt, s, Append(way, e), Append(events, e))
<1> PICK w : w = Append(way, e)
  OBVIOUS
<1> PICK v : v = Append(events, e)
  OBVIOUS
<1> PICK m : m = Len(way)
  OBVIOUS
<1> PICK l : l = Len(events)
  OBVIOUS
<1>1. /\ m \in Nat /\ DOMAIN way = 1 .. m /\ DOMAIN w = 1 .. m + 1
      /\ \A i \in 1 .. m : w[i] = way[i]
      /\ w[m + 1] = e
  BY AppendProperties, LenProperties
<1>2. /\ l \in Nat /\ DOMAIN events = 1 .. l /\ DOMAIN v = 1 .. l + 1
      /\ \A i \in 1 .. l : v[i] = events[i]
      /\ v[l + 1] = e
  BY AppendProperties, LenProperties
<1>3. /\ \A i \in 1 .. l : at[i] \in 1 .. m /\ way[at[i]] = events[i]
      /\ \A i \in 1 .. l : at[i] \in OfSubject(s, way)
      /\ \A i, j \in 1 .. l : i < j => at[i] < at[j]
      /\ \A n \in OfSubject(s, way) : \E i \in 1 .. l : at[i] = n
  BY <1>1, <1>2 DEF Places, OfSubject
<1>4. \A n \in OfSubject(s, w) : n = m + 1 \/ n \in OfSubject(s, way)
  BY <1>1 DEF OfSubject
<1>5. \A n \in OfSubject(s, way) : n \in OfSubject(s, w)
  BY <1>1 DEF OfSubject
<1>6. m + 1 \in OfSubject(s, w)
  BY <1>1 DEF OfSubject
<1> PICK bt : bt = [i \in 1 .. l + 1 |-> IF i <= l THEN at[i] ELSE m + 1]
  OBVIOUS
<1>7. (\A i \in 1 .. l : bt[i] = at[i]) /\ bt[l + 1] = m + 1
  BY <1>2
<1>8. bt \in [1 .. l + 1 -> OfSubject(s, w)]
  BY <1>2, <1>3, <1>5, <1>6
<1>9. ASSUME NEW n \in OfSubject(s, w) PROVE \E i \in 1 .. l + 1 : bt[i] = n
  <2>1. CASE n = m + 1
    BY <1>2, <1>7, <2>1
  <2>2. CASE n \in OfSubject(s, way)
    <3>1. PICK i \in 1 .. l : at[i] = n
      BY <1>3, <2>2
    <3>2. i \in 1 .. l + 1 /\ bt[i] = n
      BY <1>2, <1>7, <3>1
    <3> QED
      BY <3>2
  <2> QED
    BY <1>4, <2>1, <2>2
<1>10. ASSUME NEW i \in 1 .. l + 1 PROVE w[bt[i]] = v[i]
  <2>1. CASE i = l + 1
    BY <1>1, <1>2, <1>7, <2>1
  <2>2. CASE i \in 1 .. l
    BY <1>1, <1>2, <1>3, <1>7, <2>2
  <2>3. i = l + 1 \/ i \in 1 .. l
    BY <1>2
  <2> QED
    BY <2>1, <2>2, <2>3
<1>11. ASSUME NEW i \in 1 .. l + 1, NEW j \in 1 .. l + 1, i < j
       PROVE  bt[i] < bt[j]
  <2>1. i \in 1 .. l /\ bt[i] \in 1 .. m
    BY <1>2, <1>3, <1>7, <1>11
  <2>2. CASE j = l + 1
    BY <1>1, <1>7, <2>1, <2>2
  <2>3. CASE j \in 1 .. l
    BY <1>3, <1>7, <1>11, <2>1, <2>3
  <2> QED
    BY <1>2, <2>2, <2>3
<1>12. Places(bt, s, w, v)
  BY <1>2, <1>8, <1>9, <1>10, <1>11 DEF Places
<1> QED
  BY <1>12

\* A message of another subject that comes between them moves those behind
\* it on by one.
LEMMA PlacesInsert ==
    ASSUME NEW s, NEW front \in Seq(Event), NEW back \in Seq(Event),
           NEW events \in Seq(Event),
           NEW e \in Event, e.subject # s,
           NEW at, Places(at, s, front \o back, events)
    PROVE  \E bt : Places(bt, s, Append(front, e) \o back, events)
<1> PICK f : f = Append(front, e)
  OBVIOUS
<1> PICK way : way = front \o back
  OBVIOUS
<1> PICK w : w = f \o back
  OBVIOUS
<1> PICK m : m = Len(front)
  OBVIOUS
<1>1. /\ m \in Nat /\ Len(back) \in Nat
      /\ f \in Seq(Event) /\ Len(f) = m + 1
      /\ \A i \in 1 .. m : f[i] = front[i]
      /\ f[m + 1] = e
  BY AppendProperties, LenProperties
<1>2. /\ DOMAIN way = 1 .. m + Len(back)
      /\ \A i \in 1 .. m + Len(back) :
             way[i] = IF i <= m THEN front[i] ELSE back[i - m]
  BY <1>1, ConcatProperties, LenProperties
<1>3. /\ DOMAIN w = 1 .. m + 1 + Len(back)
      /\ \A i \in 1 .. m + 1 + Len(back) :
             w[i] = IF i <= m + 1 THEN f[i] ELSE back[i - (m + 1)]
  BY <1>1, ConcatProperties, LenProperties
<1> DEFINE Moved(n) == IF n <= m THEN n ELSE n + 1
<1>4. ASSUME NEW n \in DOMAIN way
      PROVE  Moved(n) \in DOMAIN w /\ w[Moved(n)] = way[n]
  <2>1. CASE n <= m
    BY <1>1, <1>2, <1>3, <2>1
  <2>2. CASE n > m
    <3> PICK k : k = n + 1
      OBVIOUS
    <3>1. /\ n \in Nat /\ k \in 1 .. m + 1 + Len(back) /\ ~(k <= m + 1)
          /\ k - (m + 1) = n - m
      BY <1>1, <1>2, <2>2
    <3>2. w[k] = back[n - m]
      BY <1>3, <3>1
    <3>3. way[n] = back[n - m]
      BY <1>1, <1>2, <2>2
    <3> QED
      BY <1>1, <1>3, <2>2, <3>1, <3>2, <3>3
  <2> QED
    BY <1>1, <1>2, <2>1, <2>2
<1>5. ASSUME NEW k \in DOMAIN w, k # m + 1
      PROVE  \E n \in DOMAIN way : k = Moved(n)
  <2>1. CASE k <= m
    <3>1. k \in DOMAIN way /\ k = Moved(k)
      BY <1>1, <1>2, <1>3, <2>1
    <3> QED
      BY <3>1
  <2>2. CASE k > m + 1
    <3>1. k - 1 \in DOMAIN way /\ k = Moved(k - 1)
      BY <1>1, <1>2, <1>3, <2>2
    <3> QED
      BY <3>1
  <2> QED
    BY <1>1, <1>3, <1>5, <2>1, <2>2
<1>6. \A n, k \in DOMAIN way : n < k => Moved(n) < Moved(k)
  BY <1>1, <1>2
<1>7. w[m + 1].subject # s
  BY <1>1, <1>3
<1> HIDE DEF Moved
<1>8. \A k \in OfSubject(s, w) : \E n \in OfSubject(s, way) : k = Moved(n)
  <2> TAKE k \in OfSubject(s, w)
  <2>1. k \in DOMAIN w /\ w[k].subject = s /\ k # m + 1
    BY <1>7 DEF OfSubject
  <2>2. PICK n \in DOMAIN way : k = Moved(n)
    BY <1>5, <2>1
  <2>3. n \in OfSubject(s, way)
    BY <1>4, <2>1, <2>2 DEF OfSubject
  <2> QED
    BY <2>2, <2>3
<1>9. \A n \in OfSubject(s, way) : Moved(n) \in OfSubject(s, w)
  BY <1>4 DEF OfSubject
<1>10. PICK bt : bt = [i \in DOMAIN events |-> Moved(at[i])]
  OBVIOUS
<1>11. /\ at \in [DOMAIN events -> OfSubject(s, way)]
       /\ \A i \in DOMAIN events : at[i] \in DOMAIN way /\ way[at[i]] = events[i]
       /\ \A i, j \in DOMAIN events : i < j => at[i] < at[j]
       /\ \A n \in OfSubject(s, way) : \E i \in DOMAIN events : at[i] = n
  BY DEF Places, OfSubject
<1>12. bt \in [DOMAIN events -> OfSubject(s, w)]
  BY <1>9, <1>10, <1>11
<1>13. \A k \in OfSubject(s, w) : \E i \in DOMAIN events : bt[i] = k
  BY <1>8, <1>10, <1>11
<1>14. \A i \in DOMAIN events : w[bt[i]] = events[i]
  BY <1>4, <1>10, <1>11
<1>15. \A i, j \in DOMAIN events : i < j => bt[i] < bt[j]
  BY <1>6, <1>10, <1>11
<1>16. Places(bt, s, w, events)
  BY <1>12, <1>13, <1>14, <1>15 DEF Places
<1> QED
  BY <1>16

\* An event arrives behind the others of its subject.
LEMMA ArriveInOrder ==
    ASSUME HubTypeOK, OrderInv, NEW e \in Event, Arrive(e) PROVE OrderInv'
<1> PICK t : t = e.subject
  OBVIOUS
<1>1. /\ t \in Subjects
      /\ arrived[t] \in Seq(Event) /\ pending[t] \in Seq(Event)
      /\ log \o broadcast \in Seq(Event)
  BY ConcatProperties DEF HubTypeOK, Event
<1>2. /\ arrived'[t] = Append(arrived[t], e)
      /\ pending'[t] = Append(pending[t], e)
      /\ \A s \in Subjects \ {t} :
             arrived'[s] = arrived[s] /\ pending'[s] = pending[s]
      /\ log' = log /\ broadcast' = broadcast
  BY <1>1 DEF Arrive, HubTypeOK, loopVars
<1> PICK q : q = log \o broadcast
  OBVIOUS
<1>3. log' \o broadcast' = q
  BY <1>2
<1>4. ASSUME NEW s \in Subjects, s # t
      PROVE  /\ \A i \in 1 .. Len(pending'[s]) : pending'[s][i].subject = s
             /\ \E at : Places(at, s, q \o pending'[s], arrived'[s])
  BY <1>2, <1>4 DEF OrderInv
<1>5. \A i \in 1 .. Len(pending'[t]) : pending'[t][i].subject = t
  <2> PICK n : n = Len(pending[t])
    OBVIOUS
  <2>1. /\ n \in Nat /\ Len(pending'[t]) = n + 1
        /\ \A i \in 1 .. n : pending'[t][i] = pending[t][i]
        /\ pending'[t][n + 1] = e
    BY <1>1, <1>2, AppendProperties, LenProperties
  <2>2. \A i \in 1 .. n : pending[t][i].subject = t
    BY <1>1 DEF OrderInv
  <2>3. \A i \in 1 .. n + 1 : i = n + 1 \/ i \in 1 .. n
    BY <2>1
  <2> QED
    BY <2>1, <2>2, <2>3
<1>6. \E at : Places(at, t, q \o pending'[t], arrived'[t])
  <2> PICK p : p = pending[t]
    OBVIOUS
  <2>1. q \in Seq(Event) /\ p \in Seq(Event)
    BY <1>1
  <2>2. q \o Append(p, e) = Append(q \o p, e)
    BY ONLY <2>1, e \in Event, AppendAfter
  <2>3. q \o p \in Seq(Event)
    BY <2>1, ConcatProperties
  <2>4. PICK at : Places(at, t, q \o p, arrived[t])
    BY <1>1 DEF OrderInv
  <2>5. \E bt : Places(bt, t, Append(q \o p, e), Append(arrived[t], e))
    BY <1>1, <2>3, <2>4, PlacesAppend
  <2> QED
    BY <1>2, <2>2, <2>5
<1> QED
  BY <1>3, <1>4, <1>5, <1>6 DEF OrderInv

\* The event of one subject that enters the channel passes those of others,
\* which have not entered it, and stays in front of those of its own.
LEMMA BroadcastInOrder ==
    ASSUME HubTypeOK, OrderInv, NEW t \in Subjects, Broadcast(t)
    PROVE  OrderInv'
<1> PICK e : e = Head(pending[t])
  OBVIOUS
<1> PICK u : u = Tail(pending[t])
  OBVIOUS
<1> PICK q : q = log \o broadcast
  OBVIOUS
<1>1. /\ q \in Seq(Event) /\ log \in Seq(Event) /\ broadcast \in Seq(Event)
      /\ pending[t] \in Seq(Event) /\ pending[t] # <<>>
  BY ConcatProperties DEF HubTypeOK, Broadcast
<1>2. /\ e \in Event /\ u \in Seq(Event) /\ e = pending[t][1]
      /\ Len(pending[t]) \in Nat \ {0} /\ Len(u) = Len(pending[t]) - 1
      /\ \A i \in 1 .. Len(u) : u[i] = pending[t][i + 1]
  BY <1>1, HeadTailProperties, EmptySeq
<1>3. /\ broadcast' = Append(broadcast, e) /\ log' = log /\ arrived' = arrived
      /\ pending'[t] = u
      /\ \A s \in Subjects \ {t} : pending'[s] = pending[s]
  BY DEF Broadcast, loopVars, HubTypeOK
<1>4. log' \o broadcast' = Append(q, e)
  BY <1>1, <1>2, <1>3, AppendAfter
<1>5. e.subject = t /\ \A i \in 1 .. Len(u) : u[i].subject = t
  BY <1>2 DEF OrderInv
<1>6. \E at : Places(at, t, Append(q, e) \o u, arrived[t])
  BY <1>1, HandedOn DEF OrderInv
<1>7. ASSUME NEW s \in Subjects, s # t
      PROVE  \E at : Places(at, s, Append(q, e) \o pending[s], arrived[s])
  <2>1. pending[s] \in Seq(Event) /\ arrived[s] \in Seq(Event)
    BY DEF HubTypeOK
  <2>2. PICK at : Places(at, s, q \o pending[s], arrived[s])
    BY DEF OrderInv
  <2> QED
    BY <1>1, <1>2, <1>5, <1>7, <2>1, <2>2, PlacesInsert
<1> QED
  BY <1>3, <1>4, <1>5, <1>6, <1>7 DEF OrderInv

\* No other step moves an event, but from the channel to the log.
LEMMA ElseInOrder ==
    ASSUME HubTypeOK, OrderInv, UNCHANGED busVars,
           \/ UNCHANGED <<log, broadcast>>
           \/ /\ broadcast # <<>>
              /\ log' = Append(log, Head(broadcast))
              /\ broadcast' = Tail(broadcast)
    PROVE  OrderInv'
<1>1. log \in Seq(Event) /\ broadcast \in Seq(Event)
  BY DEF HubTypeOK
<1>2. log' \o broadcast' = log \o broadcast
  BY <1>1, HandedOn
<1> QED
  BY <1>2 DEF OrderInv, busVars

\* The order is kept by every step of the hub's variables.
LEMMA MoveInOrder ==
    ASSUME HubTypeOK, OrderInv, [HubMove]_hubVars PROVE OrderInv'
<1> USE DEF loopVars, connVars
<1>1. CASE UNCHANGED hubVars
  BY <1>1, ElseInOrder DEF hubVars
<1>2. CASE \E e \in Event : Arrive(e)
  BY <1>2, ArriveInOrder
<1>3. CASE HubStep
  <2>1. CASE \E s \in Subjects : Broadcast(s)
    BY <2>1, BroadcastInOrder
  <2>2. CASE \E c \in Conns : Register(c) \/ Unregister(c) \/ Visit(c)
    BY <2>2, ElseInOrder DEF Register, Unregister, Visit
  <2>3. CASE Take \/ Lock \/ Written \/ WriteFailed
    BY <2>3, ElseInOrder DEF Take, Lock, Written, WriteFailed
  <2> QED
    BY <1>3, <2>1, <2>2, <2>3 DEF HubStep
<1>4. CASE ConnStep
  BY <1>4, ElseInOrder DEF ConnStep, Upgrade, PeerLeaves, ReadFailed,
     ReaderLock, ResponseFailed, ReaderOnly
<1>5. CASE \E c \in Conns : \/ ReadMessage(c) \/ StaySilent(c) \/ Respond(c)
                            \/ ResponseWritten(c)
  BY <1>5, ElseInOrder DEF ReadMessage, StaySilent, Respond, ResponseWritten,
     ReaderOnly
<1> QED
  BY <1>1, <1>2, <1>3, <1>4, <1>5 DEF HubMove

\* Nothing has arrived in the beginning.
LEMMA InitInOrder == HubInit => OrderInv
<1> SUFFICES ASSUME HubInit, NEW s \in Subjects
             PROVE  /\ \A i \in 1 .. Len(pending[s]) : pending[s][i].subject = s
                    /\ \E at : Places(at, s, log \o broadcast \o pending[s],
                                      arrived[s])
  BY DEF OrderInv
<1>1. pending[s] = <<>> /\ arrived[s] = <<>> /\ log \o broadcast \o pending[s] = <<>>
  BY DEF HubInit
<1>2. Places(<<>>, s, <<>>, <<>>)
  BY DEF Places, OfSubject
<1> QED
  BY <1>1, <1>2

-----------------------------------------------------------------------------
(* The invariant of the sessions.                                          *)

SessionTypeOK ==
    /\ req \in [Requests -> RequestMessage \cup Elsewhere \cup {None}]
    /\ applied \in SUBSET Requests
    /\ unannounced \in [Subjects -> Seq(Requests)]
    /\ lost \in SUBSET Requests
    /\ result \in [Requests -> Codes \cup {None}]
    /\ told \in [Requests -> Answers \cup {None}]

\* The change of r is on its way to the hub's log, in it, or lost.
Traced(r) ==
    \/ r \in lost \cup Ids(broadcast) \cup Ids(log)
    \/ \E s \in Subjects : r \in ToSet(unannounced[s]) \cup Ids(pending[s])

TraceInv ==
    \A r \in Requests :
        /\ r \in applied <=> Traced(r)
        /\ r \in applied => /\ req[r] # None
                            /\ req[r].action \in Mutations
                            /\ req[r].valid = TRUE

ResultInv ==
    \A r \in Requests :
        /\ req[r] = None => result[r] = None
        /\ result[r] \in {"BAD_REQUEST", "NOT_FOUND"} => r \notin applied
        /\ told[r] \in {"bad_request", "not_found"} =>
               result[r] \in {"BAD_REQUEST", "NOT_FOUND"}
        /\ result[r] = "OK" /\ req[r].action \in Mutations => r \in applied

Owns(c, r) == req[r] # None /\ req[r].conn = c

\* An answer Handle has to write.
Owed(r) ==
    result[r] # None /\ told[r] = None
        /\ shouldWriteDirectResponse(req[r].action, result[r])

HandleInv ==
    \A c \in Conns, r \in Requests : Owns(c, r) =>
        /\ reader[c] \notin {"new", "registering"}
        /\ Owed(r) => reader[c] \in {"answering", "leaving", "done"}
        /\ \A q \in Requests :
               Owns(c, q) /\ Owed(q) /\ Owed(r) /\ reader[c] = "answering"
               => q = r

OwnInv ==
    \A c \in Conns, r \in Requests : Owns(c, r) =>
        \A i \in 1 .. Len(log) : log[i].id = r => i > joined[c]

SessionInv == SessionTypeOK /\ TraceInv /\ ResultInv /\ HandleInv /\ OwnInv

Inv == HubInv /\ SessionInv

-----------------------------------------------------------------------------
(* Steps of the hub.                                                       *)

\* The events a sequence names, when it grows or loses its head.
LEMMA IdsOfSeq ==
    ASSUME NEW S, NEW q \in Seq(S)
    PROVE  /\ \A e \in S : Ids(Append(q, e)) = Ids(q) \cup {e.id}
           /\ q # <<>> => Ids(q) = {Head(q).id} \cup Ids(Tail(q))
<1>1. ASSUME NEW e \in S PROVE Ids(Append(q, e)) = Ids(q) \cup {e.id}
  <2>1. ToSet(Append(q, e)) = ToSet(q) \cup {e}
    BY AppendElements
  <2> QED
    BY <2>1 DEF Ids
<1>2. ASSUME q # <<>> PROVE Ids(q) = {Head(q).id} \cup Ids(Tail(q))
  <2>1. ToSet(q) = {Head(q)} \cup ToSet(Tail(q))
    BY <1>2, TailElements
  <2> QED
    BY <2>1 DEF Ids
<1> QED
  BY <1>1, <1>2

\* Every step of a session is one the hub's invariant allows for.
LEMMA StepIsHubMove == ASSUME [Next]_vars PROVE [HubMove]_hubVars
<1>1. CASE UNCHANGED vars
  BY <1>1 DEF vars
<1>2. CASE (HubStep \/ ConnStep) /\ UNCHANGED sessionVars
  BY <1>2 DEF HubMove
<1>3. CASE \E r \in Requests : AskElsewhere(r) \/ Apply(r)
  BY <1>3 DEF AskElsewhere, Apply
<1>4. CASE \E s \in Subjects : Announce(s) \/ LoseEvent(s)
  <2>1. PICK s \in Subjects : Announce(s) \/ LoseEvent(s)
    BY <1>4
  <2>2. CASE Announce(s)
    BY <2>2 DEF Announce, Arrive, HubMove
  <2>3. CASE LoseEvent(s)
    BY <2>3 DEF LoseEvent
  <2> QED
    BY <2>1, <2>2, <2>3
<1>5. CASE \E c \in Conns, r \in Requests :
              Ask(c, r) \/ Reject(c, r) \/ Call(c, r) \/ Answer(c, r)
  BY <1>5 DEF Ask, Reject, Call, Answer, Conclude, HubMove
<1> QED
  BY <1>1, <1>2, <1>3, <1>4, <1>5 DEF Next

\* A request moves from its callback into the hub's channel.
LEMMA BroadcastTraced ==
    ASSUME HubInv, SessionInv, UNCHANGED sessionVars,
           NEW s \in Subjects, Broadcast(s)
    PROVE  SessionInv'
<1> USE DEF sessionVars
<1>1. /\ pending[s] \in Seq(Event) /\ pending[s] # <<>> /\ broadcast \in Seq(Event)
      /\ Head(pending[s]) \in Event
      /\ broadcast' = Append(broadcast, Head(pending[s]))
      /\ pending'[s] = Tail(pending[s])
      /\ \A t \in Subjects \ {s} : pending'[t] = pending[t]
  BY TailElements DEF HubInv, HubTypeOK, Broadcast
<1>2. /\ Ids(broadcast') = Ids(broadcast) \cup {Head(pending[s]).id}
      /\ Ids(pending[s]) = {Head(pending[s]).id} \cup Ids(pending'[s])
  BY <1>1, IdsOfSeq
<1>3. UNCHANGED <<log, joined, reader>>
  BY DEF Broadcast, loopVars
<1>4. \A r \in Requests : Traced(r)' <=> Traced(r)
  BY <1>1, <1>2, <1>3 DEF Traced
<1>5. TraceInv'
  BY <1>4 DEF SessionInv, TraceInv
<1>6. SessionTypeOK' /\ ResultInv' /\ HandleInv' /\ OwnInv'
  BY <1>3 DEF SessionInv, SessionTypeOK, ResultInv, HandleInv, OwnInv, Owns, Owed
<1> QED
  BY <1>5, <1>6 DEF SessionInv

\* A request moves into the hub's log, behind every registration.
LEMMA TakeTraced ==
    ASSUME HubInv, SessionInv, UNCHANGED sessionVars, Take
    PROVE  SessionInv'
<1> USE DEF sessionVars
<1>1. /\ broadcast \in Seq(Event) /\ broadcast # <<>> /\ log \in Seq(Event)
      /\ Head(broadcast) \in Event /\ broadcast' = Tail(broadcast)
      /\ log' = Append(log, Head(broadcast))
  BY TailElements DEF HubInv, HubTypeOK, Take
<1>2. /\ Ids(broadcast) = {Head(broadcast).id} \cup Ids(broadcast')
      /\ Ids(log') = Ids(log) \cup {Head(broadcast).id}
  BY <1>1, IdsOfSeq
<1>3. UNCHANGED <<pending, joined, reader>>
  BY DEF Take, busVars
<1>4. \A r \in Requests : Traced(r)' <=> Traced(r)
  BY <1>2, <1>3 DEF Traced
<1>5. TraceInv'
  BY <1>4 DEF SessionInv, TraceInv
<1>6. SessionTypeOK' /\ ResultInv' /\ HandleInv'
  BY <1>3 DEF SessionInv, SessionTypeOK, ResultInv, HandleInv, Owns, Owed
<1>7. OwnInv'
  <2>1. /\ Len(log) \in Nat /\ Len(log') = Len(log) + 1
        /\ \A i \in 1 .. Len(log) : log'[i] = log[i]
    BY <1>1, AppendProperties, LenProperties
  <2>2. \A c \in Conns : joined[c] \in Nat /\ joined[c] <= Len(log)
    BY <2>1, LenProperties DEF HubInv, HubTypeOK, FeedInv
  <2> SUFFICES ASSUME NEW c \in Conns, NEW r \in Requests, Owns(c, r),
                      NEW i \in 1 .. Len(log'), log'[i].id = r
               PROVE  i > joined[c]
    BY <1>3 DEF OwnInv, Owns
  <2>3. CASE i \in 1 .. Len(log)
    BY <2>1, <2>3 DEF SessionInv, OwnInv
  <2>4. CASE i = Len(log) + 1
    BY <2>1, <2>2, <2>4
  <2> QED
    BY <2>1, <2>3, <2>4
<1> QED
  BY <1>5, <1>6, <1>7 DEF SessionInv

\* Other steps of the hub and the readers: no answer is dropped, and who is
\* only now registered has asked for nothing.
LEMMA HubTraced ==
    ASSUME HubInv, SessionInv, UNCHANGED sessionVars,
           UNCHANGED <<pending, broadcast, log>>,
           \A c \in Conns :
               /\ reader'[c] # reader[c] =>
                      \/ reader[c] \in {"new", "registering"}
                      \/ reader'[c] \in {"leaving", "done"}
               /\ joined'[c] # joined[c] => reader[c] = "registering"
    PROVE  SessionInv'
<1> USE DEF sessionVars
<1>1. TraceInv'
  BY DEF SessionInv, TraceInv, Traced
<1>2. SessionTypeOK' /\ ResultInv'
  BY DEF SessionInv, SessionTypeOK, ResultInv
<1>3. HandleInv'
  BY DEF SessionInv, HandleInv, Owns, Owed
<1>4. OwnInv'
  BY DEF SessionInv, HandleInv, OwnInv, Owns
<1> QED
  BY <1>1, <1>2, <1>3, <1>4 DEF SessionInv

\* All steps of the hub and the connections' own.
LEMMA HubStepsTraced ==
    ASSUME HubInv, SessionInv, UNCHANGED sessionVars, HubStep \/ ConnStep
    PROVE  SessionInv'
<1> USE DEF busVars, loopVars, connVars
<1> HubTypeOK
  BY DEF HubInv
<1>1. CASE \E s \in Subjects : Broadcast(s)
  BY <1>1, BroadcastTraced
<1>2. CASE Take
  BY <1>2, TakeTraced
<1>3. CASE Lock \/ Written \/ WriteFailed \/ \E c \in Conns : Visit(c)
  <2>1. UNCHANGED <<pending, broadcast, log, reader, joined>>
    BY <1>3 DEF Lock, Written, WriteFailed, Visit
  <2> QED
    BY <2>1, HubTraced
<1>4. ASSUME NEW c \in Conns, Register(c) \/ Unregister(c)
      PROVE  SessionInv'
  <2>1. /\ UNCHANGED <<pending, broadcast, log>>
        /\ \A d \in Conns \ {c} : reader'[d] = reader[d] /\ joined'[d] = joined[d]
        /\ \/ reader[c] = "registering"
           \/ reader'[c] = "done" /\ joined'[c] = joined[c]
    BY <1>4 DEF Register, Unregister, Goto, HubTypeOK
  <2> QED
    BY <2>1, HubTraced
<1>5. CASE ConnStep
  <2>1. PICK c \in Conns :
            \/ Upgrade(c) \/ PeerLeaves(c) \/ ReadFailed(c)
            \/ ReaderLock(c) \/ ResponseFailed(c)
    BY <1>5 DEF ConnStep
  <2>2. /\ UNCHANGED <<pending, broadcast, log, joined>>
        /\ \A d \in Conns \ {c} : reader'[d] = reader[d]
        /\ \/ reader'[c] = reader[c]
           \/ reader[c] = "new" /\ reader'[c] = "registering"
           \/ reader'[c] = "leaving"
    BY <2>1 DEF Upgrade, PeerLeaves, ReadFailed, ReaderOnly, ReaderLock,
       ResponseFailed, Goto, HubTypeOK
  <2> QED
    BY <2>2, HubTraced
<1> QED
  BY <1>1, <1>2, <1>3, <1>4, <1>5 DEF HubStep

-----------------------------------------------------------------------------
(* Requests of others, changes and their events.                           *)

\* Somebody else's request changes nothing for the connections.
LEMMA AskElsewhereTraced ==
    ASSUME SessionInv, NEW r \in Requests, AskElsewhere(r)
    PROVE  SessionInv'
<1> SessionTypeOK /\ TraceInv /\ ResultInv /\ HandleInv /\ OwnInv
  BY DEF SessionInv
<1> USE DEF hubVars, busVars, loopVars, connVars
<1>1. PICK m \in Elsewhere : req' = [req EXCEPT ![r] = m]
  BY DEF AskElsewhere
<1>2. m \in RequestMessage \cup Elsewhere \cup {None} /\ m.conn = None
  BY DEF Elsewhere
<1>3. req[r] = None /\ result[r] = None /\ r \notin applied
  BY DEF AskElsewhere, ResultInv, TraceInv
<1>4. SessionTypeOK'
  BY <1>1, <1>2 DEF AskElsewhere, SessionTypeOK
<1>5. TraceInv'
  BY <1>1, <1>3 DEF AskElsewhere, SessionTypeOK, TraceInv, Traced
<1>6. ResultInv'
  BY <1>1, <1>3, NoneIsNoAnswer DEF AskElsewhere, SessionTypeOK, ResultInv, Codes
<1>7. \A c \in Conns, q \in Requests : Owns(c, q)' => q # r /\ Owns(c, q)
  BY <1>1, <1>2, NoneIsNoConn DEF Owns, SessionTypeOK
<1>8. HandleInv'
  <2>1. \A q \in Requests \ {r} : Owed(q)' <=> Owed(q)
    BY <1>1 DEF AskElsewhere, Owed, SessionTypeOK
  <2> QED
    BY <1>7, <2>1 DEF AskElsewhere, HandleInv
<1>9. OwnInv'
  BY <1>7 DEF AskElsewhere, OwnInv
<1> QED
  BY <1>4, <1>5, <1>6, <1>8, <1>9 DEF SessionInv

\* A change is made; its event is the last of its kind to be announced.
LEMMA ApplyTraced ==
    ASSUME SessionInv, NEW r \in Requests, Apply(r)
    PROVE  SessionInv'
<1> SessionTypeOK /\ TraceInv /\ ResultInv /\ HandleInv /\ OwnInv
  BY DEF SessionInv
<1> USE DEF hubVars, busVars, loopVars, connVars
<1> DEFINE s == req[r].action
<1>1. /\ s \in Subjects /\ applied' = applied \cup {r} /\ req' = req
      /\ unannounced' = [unannounced EXCEPT ![s] = Append(unannounced[s], r)]
  BY DEF Apply, Mutations
<1>2. /\ Append(unannounced[s], r) \in Seq(Requests)
      /\ ToSet(Append(unannounced[s], r)) = ToSet(unannounced[s]) \cup {r}
  BY <1>1, AppendElements DEF SessionTypeOK
<1> HIDE DEF s
<1>3. SessionTypeOK'
  BY <1>1, <1>2 DEF Apply, SessionTypeOK
<1>4. TraceInv'
  <2>1. \A q \in Requests : Traced(q)' <=> Traced(q) \/ q = r
    BY <1>1, <1>2 DEF Apply, Traced, SessionTypeOK
  <2>2. req[r] # None /\ req[r].action \in Mutations /\ req[r].valid = TRUE
    <3>1. req[r] # None /\ req[r].action \in Mutations /\ req[r].valid
      BY DEF Apply
    <3>2. req[r].valid \in BOOLEAN
      BY <3>1 DEF SessionTypeOK, RequestMessage, Elsewhere
    <3> QED
      BY <3>1, <3>2
  <2> QED
    BY <1>1, <2>1, <2>2 DEF TraceInv
<1>5. ResultInv'
  BY <1>1, NoneIsNoAnswer DEF Apply, ResultInv, Codes
<1>6. HandleInv' /\ OwnInv'
  BY DEF Apply, HandleInv, OwnInv, Owns, Owed
<1> QED
  BY <1>3, <1>4, <1>5, <1>6 DEF SessionInv

\* An event leaves user-service, for the gateway or for nowhere.
LEMMA EventTraced ==
    ASSUME HubInv, SessionInv, NEW s \in Subjects, Announce(s) \/ LoseEvent(s)
    PROVE  SessionInv'
<1> SessionTypeOK /\ TraceInv /\ ResultInv /\ HandleInv /\ OwnInv /\ HubTypeOK
  BY DEF SessionInv, HubInv
<1> USE DEF hubVars, busVars, loopVars, connVars
<1>1. /\ unannounced[s] \in Seq(Requests) /\ unannounced[s] # <<>>
      /\ unannounced' = [unannounced EXCEPT ![s] = Tail(unannounced[s])]
  BY DEF Announce, LoseEvent, SessionTypeOK
<1>2. /\ Tail(unannounced[s]) \in Seq(Requests) /\ Head(unannounced[s]) \in Requests
      /\ ToSet(unannounced[s]) =
             {Head(unannounced[s])} \cup ToSet(unannounced'[s])
  BY <1>1, TailElements DEF SessionTypeOK
<1>3. UNCHANGED <<req, applied, result, told, reader, log, joined, broadcast>>
  BY DEF Announce, LoseEvent, Arrive
<1>4. SessionTypeOK'
  BY <1>1, <1>2, <1>3 DEF Announce, LoseEvent, SessionTypeOK
<1>5. \A r \in Requests : Traced(r)' <=> Traced(r)
  <2>1. CASE Announce(s)
    <3> DEFINE e == [subject |-> s, id |-> Head(unannounced[s])]
    <3>1. /\ e \in Event /\ e.id = Head(unannounced[s]) /\ lost' = lost
          /\ pending' = [pending EXCEPT ![s] = Append(pending[s], e)]
      BY <2>1 DEF Announce, Arrive
    <3> HIDE DEF e
    <3>2. /\ pending'[s] = Append(pending[s], e) /\ pending[s] \in Seq(Event)
          /\ \A t \in Subjects \ {s} : pending'[t] = pending[t]
                                       /\ unannounced'[t] = unannounced[t]
      BY <1>1, <3>1 DEF HubTypeOK, SessionTypeOK
    <3>3. Ids(pending'[s]) = Ids(pending[s]) \cup {Head(unannounced[s])}
      BY <3>1, <3>2, IdsOfSeq
    <3> QED
      BY <1>2, <1>3, <3>1, <3>2, <3>3 DEF Traced
  <2>2. CASE LoseEvent(s)
    <3>1. /\ lost' = lost \cup {Head(unannounced[s])} /\ pending' = pending
          /\ \A t \in Subjects \ {s} : unannounced'[t] = unannounced[t]
      BY <1>1, <2>2 DEF LoseEvent, SessionTypeOK
    <3> QED
      BY <1>2, <1>3, <3>1 DEF Traced
  <2> QED
    BY <2>1, <2>2
<1>6. TraceInv'
  BY <1>3, <1>5 DEF TraceInv
<1>7. ResultInv' /\ HandleInv' /\ OwnInv'
  BY <1>3 DEF ResultInv, HandleInv, OwnInv, Owns, Owed
<1> QED
  BY <1>4, <1>6, <1>7 DEF SessionInv

-----------------------------------------------------------------------------
(* Handle.                                                                 *)

\* A message is read: nothing of it can be in the log yet.
LEMMA AskTraced ==
    ASSUME HubInv, SessionInv, NEW c \in Conns, NEW r \in Requests, Ask(c, r)
    PROVE  SessionInv'
<1> SessionTypeOK /\ TraceInv /\ ResultInv /\ HandleInv /\ OwnInv /\ HubTypeOK
  BY DEF SessionInv, HubInv
<1> USE DEF busVars, loopVars, connVars
<1>1. PICK m \in RequestMessage : m.conn = c /\ req' = [req EXCEPT ![r] = m]
  BY DEF Ask
<1>2. /\ UNCHANGED <<applied, unannounced, lost, result, told>>
      /\ UNCHANGED <<pending, broadcast, log, joined>>
      /\ reader[c] = "reading" /\ reader' = [reader EXCEPT ![c] = "busy"]
  BY DEF Ask, ReadMessage, ReaderOnly, Goto
<1>3. req[r] = None /\ result[r] = None /\ r \notin applied
  BY DEF Ask, ResultInv, TraceInv
<1>4. SessionTypeOK'
  BY <1>1, <1>2 DEF SessionTypeOK
<1>5. TraceInv'
  BY <1>1, <1>2, <1>3 DEF SessionTypeOK, TraceInv, Traced
<1>6. ResultInv'
  BY <1>1, <1>2, <1>3, NoneIsNoAnswer DEF SessionTypeOK, ResultInv, Codes
<1>7. \A d \in Conns, q \in Requests : Owns(d, q)' => (q = r /\ d = c) \/ Owns(d, q)
  BY <1>1 DEF Owns, SessionTypeOK
<1>8. \A q \in Requests : Owed(q)' => Owed(q) /\ q # r
  BY <1>1, <1>2, <1>3 DEF Owed, SessionTypeOK
<1>9. HandleInv'
  BY <1>2, <1>7, <1>8 DEF HandleInv, HubTypeOK
<1>10. OwnInv'
  <2> SUFFICES ASSUME NEW d \in Conns, NEW q \in Requests, Owns(d, q)',
                      NEW i \in 1 .. Len(log), log[i].id = q
               PROVE  i > joined[d]
    BY <1>2 DEF OwnInv
  <2>1. q # r
    <3>1. log[i] \in ToSet(log)
      BY LenProperties DEF HubTypeOK, ToSet
    <3>2. q \in Ids(log)
      BY <3>1 DEF Ids
    <3> QED
      BY <1>3, <3>2 DEF TraceInv, Traced
  <2> QED
    BY <1>7, <2>1 DEF OwnInv
<1> QED
  BY <1>4, <1>5, <1>6, <1>9, <1>10 DEF SessionInv

\* The message is done with: it is the one whose answer Handle now owes, or
\* a change that was made.
LEMMA ConcludeTraced ==
    ASSUME HubInv, SessionInv, NEW c \in Conns, NEW r \in Requests,
           NEW code \in Codes, Conclude(c, r, code),
           code \in {"BAD_REQUEST", "NOT_FOUND"} => r \notin applied,
           code = "OK" /\ req[r].action \in Mutations => r \in applied
    PROVE  SessionInv'
<1> SessionTypeOK /\ TraceInv /\ ResultInv /\ HandleInv /\ OwnInv /\ HubTypeOK
  BY DEF SessionInv, HubInv
<1> USE DEF busVars, loopVars, connVars
<1> DEFINE speak == shouldWriteDirectResponse(req[r].action, code)
<1>1. /\ result' = [result EXCEPT ![r] = code]
      /\ UNCHANGED <<req, applied, unannounced, lost, told>>
      /\ UNCHANGED <<pending, broadcast, log, joined>>
      /\ reader[c] = "busy" /\ Owns(c, r) /\ result[r] = None
      /\ reader' = [reader EXCEPT ![c] = IF speak THEN "answering" ELSE "reading"]
  BY DEF Conclude, Respond, StaySilent, ReaderOnly, Goto, InHand, Owns
<1>2. SessionTypeOK'
  BY <1>1 DEF SessionTypeOK
<1>3. TraceInv'
  BY <1>1 DEF TraceInv, Traced
<1>4. ResultInv'
  BY <1>1, NoneIsNoAnswer DEF ResultInv, SessionTypeOK, Owns, Codes
<1>5. /\ \A d \in Conns, q \in Requests : Owns(d, q)' <=> Owns(d, q)
      /\ \A q \in Requests \ {r} : Owed(q)' <=> Owed(q)
      /\ Owed(r)' => speak
      /\ \A d \in Conns : Owns(d, r) => d = c
  BY <1>1 DEF Owns, Owed, SessionTypeOK
<1> HIDE DEF speak
<1>6. \A q \in Requests : Owns(c, q) => ~Owed(q)
  BY <1>1 DEF HandleInv
<1>7. HandleInv'
  BY <1>1, <1>5, <1>6 DEF HandleInv, HubTypeOK
<1>8. OwnInv'
  BY <1>1, <1>5 DEF OwnInv
<1> QED
  BY <1>2, <1>3, <1>4, <1>7, <1>8 DEF SessionInv

\* A message that is rejected, and one that made a call.
LEMMA ProcessTraced ==
    ASSUME HubInv, SessionInv, NEW c \in Conns, NEW r \in Requests,
           Reject(c, r) \/ Call(c, r)
    PROVE  SessionInv'
<1>1. CASE Reject(c, r)
  <2>1. Conclude(c, r, "BAD_REQUEST") /\ ~req[r].valid
    BY <1>1 DEF Reject
  <2>2. r \notin applied
    BY <2>1 DEF SessionInv, TraceInv
  <2> QED
    BY <2>1, <2>2, ConcludeTraced DEF Codes
<1>2. CASE Call(c, r)
  <2>1. PICK code \in Codes : Conclude(c, r, code) /\ MayReturn(r, code)
    BY <1>2 DEF Call
  <2> QED
    BY <2>1, ConcludeTraced DEF MayReturn
<1> QED
  BY <1>1, <1>2

\* The answer is written: it was the only one owed.
LEMMA AnswerTraced ==
    ASSUME HubInv, SessionInv, NEW c \in Conns, NEW r \in Requests, Answer(c, r)
    PROVE  SessionInv'
<1> SessionTypeOK /\ TraceInv /\ ResultInv /\ HandleInv /\ OwnInv /\ HubTypeOK
  BY DEF SessionInv, HubInv
<1> USE DEF busVars, loopVars, connVars
<1> DEFINE words == IF result[r] = "OK" THEN "ok" ELSE failFromError(result[r])
<1>1. /\ told' = [told EXCEPT ![r] = words]
      /\ UNCHANGED <<req, applied, unannounced, lost, result>>
      /\ UNCHANGED <<pending, broadcast, log, joined>>
      /\ reader[c] = "answering" /\ reader' = [reader EXCEPT ![c] = "reading"]
      /\ Owns(c, r) /\ Owed(r) /\ result[r] # None
  BY DEF Answer, ToWrite, ResponseWritten, Goto, Owns, Owed
<1>2. /\ result[r] \in Codes
      /\ words \in Answers /\ words # None
      /\ words \in {"bad_request", "not_found"} =>
             result[r] \in {"BAD_REQUEST", "NOT_FOUND"}
  BY <1>1, NoneIsNoAnswer DEF SessionTypeOK, failFromError, Codes, Answers
<1> HIDE DEF words
<1>3. SessionTypeOK'
  BY <1>1, <1>2 DEF SessionTypeOK
<1>4. TraceInv' /\ OwnInv'
  BY <1>1 DEF TraceInv, Traced, OwnInv, Owns
<1>5. ResultInv'
  BY <1>1, <1>2 DEF ResultInv, SessionTypeOK
<1>6. \A q \in Requests : Owed(q)' => Owed(q)
  BY <1>1 DEF Owed, SessionTypeOK
<1>7. \A q \in Requests : Owns(c, q) => ~Owed(q)'
  <2>1. \A q \in Requests : Owns(c, q) /\ Owed(q) => q = r
    BY <1>1 DEF HandleInv
  <2>2. ~Owed(r)' \/ words = None
    BY <1>1 DEF Owed, SessionTypeOK
  <2> QED
    BY <1>2, <1>6, <2>1, <2>2
<1>8. HandleInv'
  BY <1>1, <1>6, <1>7 DEF HandleInv, Owns, HubTypeOK
<1> QED
  BY <1>3, <1>4, <1>5, <1>8 DEF SessionInv

-----------------------------------------------------------------------------
(* The theorems.                                                           *)

\* The sessions start with their invariant.
LEMMA InitInv == Init => Inv
<1> SUFFICES ASSUME Init PROVE Inv
  OBVIOUS
<1> USE DEF Init
<1>1. HubInv
  BY HubInitInv
<1>2. SessionTypeOK
  BY DEF SessionTypeOK
<1>3. TraceInv
  BY ShortSequences DEF HubInit, TraceInv, Traced, Ids
<1>4. ResultInv
  BY NoneIsNoAnswer DEF ResultInv, Codes, Answers
<1>5. HandleInv /\ OwnInv
  BY DEF HandleInv, OwnInv, Owns
<1> QED
  BY <1>1, <1>2, <1>3, <1>4, <1>5 DEF Inv, SessionInv

\* No step breaks it.
LEMMA NextInv == Inv /\ [Next]_vars => Inv'
<1> SUFFICES ASSUME Inv, [Next]_vars PROVE Inv'
  OBVIOUS
<1> USE DEF Inv
<1>1. HubInv'
  BY StepIsHubMove, HubMoveInv
<1>2. SessionInv'
  <2>1. CASE UNCHANGED vars
    BY <2>1 DEF vars, sessionVars, hubVars, busVars, loopVars, connVars,
       SessionInv, SessionTypeOK, TraceInv, Traced, ResultInv, HandleInv, OwnInv,
       Owns, Owed
  <2>2. CASE (HubStep \/ ConnStep) /\ UNCHANGED sessionVars
    BY <2>2, HubStepsTraced
  <2>3. CASE \E r \in Requests : AskElsewhere(r) \/ Apply(r)
    BY <2>3, AskElsewhereTraced, ApplyTraced
  <2>4. CASE \E s \in Subjects : Announce(s) \/ LoseEvent(s)
    BY <2>4, EventTraced
  <2>5. CASE \E c \in Conns, r \in Requests :
                Ask(c, r) \/ Reject(c, r) \/ Call(c, r) \/ Answer(c, r)
    BY <2>5, AskTraced, ProcessTraced, AnswerTraced
  <2> QED
    BY <2>1, <2>2, <2>3, <2>4, <2>5 DEF Next
<1> QED
  BY <1>1, <1>2

\* The invariant holds in every reachable state.
LEMMA AlwaysInv == Spec => []Inv
  BY InitInv, NextInv, PTL DEF Spec

\* The variables of the hub and of the sessions keep their types; a lost event
\* is that of a change that was made.
THEOREM SessionsWellTyped == Spec => []TypeOK
<1>1. Inv => TypeOK
  <2>1. ASSUME Inv PROVE lost \subseteq applied
    BY <2>1 DEF Inv, SessionInv, SessionTypeOK, TraceInv, Traced
  <2> QED
    BY <2>1 DEF Inv, HubInv, SessionInv, SessionTypeOK, TypeOK
<1> QED
  BY <1>1, AlwaysInv, PTL

\* Each connection is closed once, by the hub, whether its reader or a failed
\* write comes first.
THEOREM ExitsAreAlwaysClean == Spec => []ExitsAreClean
<1>1. Inv => ExitsAreClean
  BY ExitsFromInv DEF Inv
<1> QED
  BY <1>1, AlwaysInv, PTL

\* Each connection is fed every message the hub takes while it knows it, once,
\* in order and never mixed with an answer.
THEOREM FeedsAreAlwaysGapless == Spec => []FeedsAreGapless
<1>1. Inv => FeedsAreGapless
  BY FeedsFromInv DEF Inv
<1> QED
  BY <1>1, AlwaysInv, PTL

\* Inside the gateway no event is lost, repeated or overtaken by a later one
\* of its subject.
THEOREM NothingIsLostInside == Spec => []NothingLostInside
<1>1. Init => OrderInv
  BY InitInOrder DEF Init
<1>2. Inv /\ OrderInv /\ [Next]_vars => OrderInv'
  BY StepIsHubMove, MoveInOrder DEF Inv, HubInv
<1>3. OrderInv => NothingLostInside
  BY DEF OrderInv, Places, NothingLostInside, Surjection
<1> QED
  BY <1>1, <1>2, <1>3, AlwaysInv, PTL DEF Spec

\* A request that was refused over WebSocket changes nothing, now or later.
THEOREM RefusalsAreAlwaysFinal == Spec => []RefusalsAreFinal
<1>1. Inv => RefusalsAreFinal
  BY DEF Inv, SessionInv, ResultInv, RefusalsAreFinal
<1> QED
  BY <1>1, AlwaysInv, PTL

\* A client that was told nothing is about to see the event of what it asked
\* for, or that event was lost outside the gateway.
THEOREM SilenceIsAlwaysAnnounced == Spec => []SilenceIsAnnounced
<1>1. Inv => SilenceIsAnnounced
  <2> SUFFICES ASSUME Inv, NEW r \in Requests, NEW c \in clients,
                      req[r] # None /\ req[r].conn = c,
                      result[r] # None /\ told[r] = None,
                      reader[c] \in {"reading", "busy"}
               PROVE  OnItsWay(r, c) \/ r \in lost
    BY DEF SilenceIsAnnounced
  <2> /\ HubTypeOK /\ LoopInv /\ FeedInv
      /\ TraceInv /\ ResultInv /\ HandleInv /\ OwnInv /\ SessionTypeOK
    BY DEF Inv, HubInv, SessionInv
  <2>1. c \in Conns /\ Owns(c, r)
    BY DEF HubTypeOK, Owns
  <2>2. ~Owed(r)
    BY <2>1 DEF HandleInv
  <2>3. r \in applied
    BY <2>2 DEF Owed, shouldWriteDirectResponse, ResultInv
  <2>4. Traced(r)
    BY <2>3 DEF TraceInv
  <2>5. CASE r \in Ids(log)
    <3>1. PICK i \in 1 .. Len(log) : log[i].id = r
      BY <2>5, LenProperties DEF HubTypeOK, Ids, ToSet
    <3>2. /\ i > joined[c] /\ joined[c] \in Nat /\ Len(log) \in Nat
          /\ Len(feed[c]) \in Nat
      BY <2>1, <3>1, LenProperties DEF OwnInv, HubTypeOK
    <3>3. joined[c] + Len(feed[c]) + Behind(c) = Len(log)
      BY <2>1 DEF FeedInv
    <3>4. CASE i <= joined[c] + Len(feed[c])
      <4> DEFINE k == i - joined[c]
      <4>1. k \in 1 .. Len(feed[c]) /\ joined[c] + k = i
        BY <3>1, <3>2, <3>4
      <4>2. feed[c][k] = log[i]
        BY <2>1, <4>1 DEF FeedInv
      <4>3. feed[c][k] \in ToSet(feed[c])
        BY <2>1, <4>1, LenProperties DEF HubTypeOK, ToSet
      <4>4. r \in Ids(feed[c])
        BY <3>1, <4>2, <4>3 DEF Ids
      <4> QED
        BY <4>4 DEF OnItsWay
    <3>5. CASE i > joined[c] + Len(feed[c])
      <4>1. Behind(c) = 1 /\ i = Len(log)
        BY <3>1, <3>2, <3>3, <3>5 DEF Behind
      <4>2. c \in rest \cup {target}
        BY <4>1 DEF Behind
      <4>3. rest # {} \/ target # None
        BY <2>1, <4>2, NoneIsNoConn
      <4>4. current = log[Len(log)]
        BY <4>3 DEF LoopInv
      <4> QED
        BY <3>1, <4>1, <4>4 DEF OnItsWay
    <3> QED
      BY <3>1, <3>2, <3>4, <3>5
  <2> QED
    BY <2>4, <2>5 DEF Traced, OnItsWay
<1> QED
  BY <1>1, AlwaysInv, PTL
=============================================================================
