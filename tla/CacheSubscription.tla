--------------------------- MODULE CacheSubscription ---------------------------
(***************************************************************************)
(* The subscriptions by which a users client keeps its cache: two          *)
(* operations of the package, SubscribeUserEvents and                      *)
(* UnsubscribeUserEvents, that any goroutine may call at any time, over    *)
(* a connection that may drain or close at any time.                       *)
(*                                                                         *)
(* An event is applied once for each live subscription to its subject.     *)
(***************************************************************************)
EXTENDS Naturals, SequencesExt

CONSTANTS Callers,  \* goroutines
          None

ASSUME NoneIsNoCaller == None \notin Callers

VARIABLES subsMu,     \* the goroutine that holds the mutex
          task,       \* goroutine -> what it is doing
          subs,       \* goroutine -> created so far, or to be removed still
          eventSubs,  \* c.eventSubs
          live,       \* subject -> subscriptions the connection serves
          conn        \* what has become of the connection

vars == <<subsMu, task, subs, eventSubs, live, conn>>

subjects == <<"created", "updated", "deleted">>
Subjects == ToSet(subjects)

TypeOK ==
    /\ subsMu \in Callers \cup {None}
    /\ task \in [Callers -> {"idle", "subscribe", "rollback", "unsubscribe"}]
    /\ \A c \in Callers : subs[c] \in Seq(Subjects) /\ IsInjective(subs[c])
    /\ eventSubs \in {<<>>, subjects}
    /\ live \in [Subjects -> Nat]
    /\ conn \in {"up", "draining", "closed"}

\* NewUserCache, on a connection of its own.
Init ==
    /\ subsMu = None
    /\ task = [c \in Callers |-> "idle"]
    /\ subs = [c \in Callers |-> <<>>]
    /\ eventSubs = <<>>
    /\ live = [s \in Subjects |-> 0]
    /\ conn = "up"

\* Mutant of Lock: no mutex.
LockAnyway(c) == subsMu' = c

Lock(c) == subsMu = None /\ subsMu' = c

Goto(c, to, handles) ==
    /\ task' = [task EXCEPT ![c] = to]
    /\ subs' = [subs EXCEPT ![c] = handles]

\* The call returns and the deferred Unlock runs.
ReturnUnlocked(c) == Goto(c, "idle", <<>>) /\ subsMu' = None

\* SubscribeUserEvents, up to its first Subscribe: nothing is to be done when
\* the events are subscribed to already.
BeginSubscribe(c) ==
    /\ task[c] = "idle"
    /\ IF eventSubs = <<>> THEN Lock(c) /\ Goto(c, "subscribe", <<>>)
       ELSE subsMu = None /\ UNCHANGED <<subsMu, task, subs>>
    /\ UNCHANGED <<eventSubs, live, conn>>

\* Mutant of Subscribe: each subscription is recorded as it is made.
SubscribeRecording(c) ==
    /\ task[c] = "subscribe" /\ Len(subs[c]) < Len(subjects)
    /\ LET s == subjects[Len(subs[c]) + 1]
       IN IF conn = "up"
          THEN /\ live' = [live EXCEPT ![s] = @ + 1]
               /\ eventSubs' = Append(eventSubs, s)
               /\ Goto(c, "subscribe", Append(subs[c], s))
          ELSE Goto(c, "rollback", subs[c]) /\ UNCHANGED <<live, eventSubs>>
    /\ UNCHANGED <<subsMu, conn>>

\* The next subject.  A connection that is up takes the subscription.
Subscribe(c) ==
    /\ task[c] = "subscribe" /\ Len(subs[c]) < Len(subjects)
    /\ LET s == subjects[Len(subs[c]) + 1]
       IN IF conn = "up"
          THEN /\ live' = [live EXCEPT ![s] = @ + 1]
               /\ Goto(c, "subscribe", Append(subs[c], s))
          ELSE Goto(c, "rollback", subs[c]) /\ UNCHANGED live
    /\ UNCHANGED <<subsMu, eventSubs, conn>>

\* All were made: they are kept.
Keep(c) ==
    /\ task[c] = "subscribe" /\ subs[c] = subjects
    /\ eventSubs' = subs[c]
    /\ ReturnUnlocked(c)
    /\ UNCHANGED <<live, conn>>

BeginUnsubscribe(c) ==
    /\ task[c] = "idle"
    /\ Lock(c)
    /\ Goto(c, "unsubscribe", eventSubs)
    /\ UNCHANGED <<eventSubs, live, conn>>

\* The next handle, of the rollback or of UnsubscribeUserEvents.  Neither
\* stops at an error, which a connection returns that is not up.
Unsubscribe(c) ==
    /\ task[c] \in {"rollback", "unsubscribe"} /\ subs[c] # <<>>
    /\ Goto(c, task[c], Tail(subs[c]))
    /\ live' = IF conn = "up" THEN [live EXCEPT ![Head(subs[c])] = @ - 1] ELSE live
    /\ UNCHANGED <<subsMu, eventSubs, conn>>

\* The rollback is through: the error is returned, eventSubs is as it was.
GiveUp(c) ==
    /\ task[c] = "rollback" /\ subs[c] = <<>>
    /\ ReturnUnlocked(c)
    /\ UNCHANGED <<eventSubs, live, conn>>

\* Mutant of Forget: the handles are kept.
ForgetNothing(c) ==
    /\ task[c] = "unsubscribe" /\ subs[c] = <<>>
    /\ ReturnUnlocked(c)
    /\ UNCHANGED <<eventSubs, live, conn>>

\* All were visited: they are forgotten, removed or not.
Forget(c) ==
    /\ task[c] = "unsubscribe" /\ subs[c] = <<>>
    /\ eventSubs' = <<>>
    /\ ReturnUnlocked(c)
    /\ UNCHANGED <<live, conn>>

-----------------------------------------------------------------------------
(* The connection of nats.go.                                              *)

\* Drain: what is subscribed is served to its end, nothing else is accepted.
Drain ==
    /\ conn = "up"
    /\ conn' = "draining"
    /\ UNCHANGED <<subsMu, task, subs, eventSubs, live>>

\* The end of a drain, or 60 reconnections that failed.  It does not reopen.
Close ==
    /\ conn # "closed"
    /\ conn' = "closed"
    /\ live' = [s \in Subjects |-> 0]
    /\ UNCHANGED <<subsMu, task, subs, eventSubs>>

Next ==
    \/ Drain \/ Close
    \/ \E c \in Callers :
          \/ BeginSubscribe(c) \/ Subscribe(c) \/ Keep(c) \/ GiveUp(c)
          \/ BeginUnsubscribe(c) \/ Unsubscribe(c) \/ Forget(c)

Spec == Init /\ [][Next]_vars

-----------------------------------------------------------------------------
(* Properties.                                                             *)

\* No event is applied twice: not when calls overlap, not after a removal or
\* rollback that failed half-way and is never retried.
NoDoubleApplication == \A s \in Subjects : live[s] <= 1

\* Between calls, a connection that is up serves all three subjects or none,
\* and the cache knows which.
AllOrNothing ==
    subsMu = None /\ conn = "up" =>
        \A s \in Subjects : live[s] = IF eventSubs = subjects THEN 1 ELSE 0
=============================================================================
