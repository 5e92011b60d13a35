------------------------ MODULE CacheSubscriptionProofs ------------------------
(***************************************************************************)
(* The subscriptions of a cache, for any number of goroutines: types,      *)
(* NoDoubleApplication and AllOrNothing.                                   *)
(*                                                                         *)
(* Neither property is inductive: both speak of the connection, and what   *)
(* a call does to it next depends on the handles it holds.  LiveInv says   *)
(* that a connection that is up serves exactly the subjects for which      *)
(* someone has a handle: the call that holds the mutex, or the cache when  *)
(* no call does.                                                           *)
(***************************************************************************)
EXTENDS CacheSubscription, SequenceLemmas

\* Handles for consecutive subjects, those before them left out.
Follow(h, before) ==
    /\ before \in Nat /\ before + Len(h) <= 3
    /\ \A i \in 1 .. Len(h) : h[i] = subjects[before + i]

\* What a call to subscribe has made, what one to unsubscribe has left, and
\* what a rollback has, which removes in order what was made.
Made == {h \in Seq(Subjects) : Follow(h, 0)}
Remaining == {h \in Seq(Subjects) : Follow(h, 3 - Len(h))}
Handles == {h \in Seq(Subjects) : \E before \in Nat : Follow(h, before)}

Types ==
    /\ subsMu \in Callers \cup {None}
    /\ task \in [Callers -> {"idle", "subscribe", "rollback", "unsubscribe"}]
    /\ subs \in [Callers -> Handles]
    /\ eventSubs \in {<<>>, subjects}
    /\ live \in [Subjects -> {0, 1}]
    /\ conn \in {"up", "draining", "closed"}

\* A call that is under way holds the mutex.
MutexInv ==
    \A c \in Callers : /\ subsMu = c <=> task[c] # "idle"
                       /\ task[c] = "idle" => subs[c] = <<>>

\* A call to subscribe goes on only when there was nothing, and is rolled
\* back only on a connection that has been given up.
CallInv ==
    \A c \in Callers :
        /\ task[c] = "subscribe" => subs[c] \in Made
        /\ task[c] = "unsubscribe" => subs[c] \in Remaining
        /\ task[c] \in {"subscribe", "rollback"} => eventSubs = <<>>
        /\ task[c] = "rollback" => conn # "up"

\* The handles in use.
Held == IF subsMu = None THEN eventSubs ELSE subs[subsMu]

LiveInv ==
    conn = "up" =>
        \A s \in Subjects : live[s] = IF s \in ToSet(Held) THEN 1 ELSE 0

Inv == Types /\ MutexInv /\ CallInv /\ LiveInv

-----------------------------------------------------------------------------
(* Sequences of handles.                                                   *)

\* There are three subjects, and each comes once.
LEMMA SubjectsDiffer ==
    /\ subjects \in Seq(Subjects) /\ Len(subjects) = 3
    /\ \A i, j \in 1 .. 3 : subjects[i] = subjects[j] => i = j
    /\ \A i \in 1 .. 3 : subjects[i] \in Subjects
    /\ \A s \in Subjects : \E i \in 1 .. 3 : subjects[i] = s
<1>1. DOMAIN subjects = 1 .. 3 /\ Len(subjects) = 3
  BY DEF subjects
<1>2. \A i, j \in 1 .. 3 : subjects[i] = subjects[j] => i = j
  BY DEF subjects
<1>3. Subjects = {subjects[i] : i \in 1 .. 3}
  BY <1>1 DEF Subjects, ToSet
<1>4. subjects \in Seq(Subjects)
  BY <1>3 DEF subjects
<1> QED
  BY <1>1, <1>2, <1>3, <1>4

\* No two handles of a sequence are for the same subject.
LEMMA HandlesDiffer ==
    ASSUME NEW h \in Handles
    PROVE  h \in Seq(Subjects) /\ IsInjective(h)
<1>1. PICK before \in Nat : Follow(h, before)
  BY DEF Handles
<1>2. h \in Seq(Subjects) /\ Len(h) \in Nat /\ DOMAIN h = 1 .. Len(h)
  BY LenProperties DEF Handles
<1>3. ASSUME NEW i \in 1 .. Len(h), NEW j \in 1 .. Len(h), h[i] = h[j]
      PROVE  i = j
  <2>1. before + i \in 1 .. 3 /\ before + j \in 1 .. 3
    BY <1>1, <1>2 DEF Follow
  <2>2. subjects[before + i] = subjects[before + j]
    BY <1>1, <1>3 DEF Follow
  <2>3. before + i = before + j
    BY <2>1, <2>2, SubjectsDiffer
  <2> QED
    BY <1>2, <2>3
<1> QED
  BY <1>2, <1>3 DEF IsInjective

\* The empty sequence is what every call begins or ends with.
LEMMA NoHandles ==
    <<>> \in Made /\ <<>> \in Remaining /\ <<>> \in Handles
<1>1. Follow(<<>>, 0) /\ Follow(<<>>, 3)
  BY DEF Follow
<1> QED
  BY <1>1 DEF Made, Remaining, Handles

\* All three handles are what is made, and what is to be removed.
LEMMA AllHandles ==
    subjects \in Made /\ subjects \in Remaining /\ subjects \in Handles
<1>1. Follow(subjects, 0)
  BY SubjectsDiffer DEF Follow
<1>2. Follow(subjects, 3 - Len(subjects))
  BY SubjectsDiffer DEF Follow
<1> QED
  BY <1>1, <1>2, SubjectsDiffer DEF Made, Remaining, Handles

\* What was made, or remains, is a sequence of handles.
LEMMA HandlesAre == Made \subseteq Handles /\ Remaining \subseteq Handles
<1>1. ASSUME NEW h \in Remaining PROVE h \in Handles
  <2>1. 3 - Len(h) \in Nat
    BY DEF Remaining, Follow
  <2> QED
    BY <2>1 DEF Remaining, Handles
<1> QED
  BY <1>1 DEF Made, Handles

\* One subscription more.
LEMMA MadeGrows ==
    ASSUME NEW h \in Made, Len(h) < 3,
           NEW s, s = subjects[Len(h) + 1]
    PROVE  /\ s \in Subjects /\ s \notin ToSet(h)
           /\ Append(h, s) \in Made
           /\ ToSet(Append(h, s)) = ToSet(h) \cup {s}
<1> h \in Seq(Subjects)
  BY DEF Made
<1> Len(h) \in Nat /\ DOMAIN h = 1 .. Len(h)
  BY LenProperties
<1>1. Len(h) \in 0 .. 2
  OBVIOUS
<1>2. s \in Subjects
  BY <1>1, SubjectsDiffer
<1>3. \A i \in 1 .. Len(h) : h[i] = subjects[i]
  BY <1>1 DEF Made, Follow
<1>4. s \notin ToSet(h)
  BY <1>1, <1>3, SubjectsDiffer DEF ToSet
<1>5. /\ Append(h, s) \in Seq(Subjects)
      /\ ToSet(Append(h, s)) = ToSet(h) \cup {s}
  BY <1>1, <1>2, AppendElements
<1>6. /\ Len(Append(h, s)) = Len(h) + 1
      /\ \A i \in 1 .. Len(h) : Append(h, s)[i] = h[i]
      /\ Append(h, s)[Len(h) + 1] = s
  BY <1>1, <1>2, AppendProperties
<1>7. Follow(Append(h, s), 0)
  BY <1>1, <1>3, <1>6 DEF Follow
<1>8. Append(h, s) \in Made
  BY <1>5, <1>7 DEF Made
<1> QED
  BY <1>2, <1>4, <1>5, <1>8

\* One handle less.
LEMMA HandlesShrink ==
    ASSUME NEW h \in Seq(Subjects), h # <<>>,
           NEW before \in Nat, Follow(h, before)
    PROVE  /\ Tail(h) \in Seq(Subjects) /\ Follow(Tail(h), before + 1)
           /\ Len(Tail(h)) = Len(h) - 1
           /\ Head(h) \in Subjects /\ Head(h) \notin ToSet(Tail(h))
           /\ ToSet(h) = {Head(h)} \cup ToSet(Tail(h))
<1>1. /\ Tail(h) \in Seq(Subjects) /\ Head(h) \in Subjects
      /\ ToSet(h) = {Head(h)} \cup ToSet(Tail(h))
  BY TailElements
<1>2. /\ Head(h) = h[1]
      /\ Len(h) \in Nat \ {0}
      /\ Len(Tail(h)) = Len(h) - 1
      /\ \A i \in 1 .. Len(Tail(h)) : Tail(h)[i] = h[i + 1]
  BY HeadTailProperties, EmptySeq
<1>3. Follow(Tail(h), before + 1)
  <2>1. before + 1 + Len(Tail(h)) <= 3
    BY <1>2 DEF Follow
  <2>2. ASSUME NEW i \in 1 .. Len(Tail(h))
        PROVE  Tail(h)[i] = subjects[before + 1 + i]
    <3>1. i + 1 \in 1 .. Len(h) /\ before + (i + 1) = before + 1 + i
      BY <1>2
    <3>2. h[i + 1] = subjects[before + (i + 1)]
      BY <3>1 DEF Follow
    <3> QED
      BY <1>2, <3>1, <3>2
  <2> QED
    BY <2>1, <2>2 DEF Follow
<1>4. Head(h) = subjects[before + 1]
  BY <1>2 DEF Follow
<1>5. ASSUME NEW i \in 1 .. Len(Tail(h)) PROVE Tail(h)[i] # Head(h)
  <2>1. before + 1 \in 1 .. 3 /\ before + 1 + i \in 1 .. 3
    BY <1>2 DEF Follow
  <2>2. Tail(h)[i] = subjects[before + 1 + i]
    BY <1>3 DEF Follow
  <2>3. before + 1 # before + 1 + i
    OBVIOUS
  <2> QED
    BY <1>4, <2>1, <2>2, <2>3, SubjectsDiffer
<1>6. DOMAIN Tail(h) = 1 .. Len(Tail(h))
  BY <1>1, LenProperties
<1> QED
  BY <1>1, <1>2, <1>3, <1>5, <1>6 DEF ToSet


-----------------------------------------------------------------------------
(* The steps.                                                              *)

\* A cache starts without subscriptions.
LEMMA InitInv == Init => Inv
<1> SUFFICES ASSUME Init PROVE Inv
  OBVIOUS
<1>2. Types
  BY NoHandles DEF Init, Types
<1>3. MutexInv /\ CallInv
  BY NoneIsNoCaller DEF Init, MutexInv, CallInv
<1>4. LiveInv
  BY ShortSequences DEF Init, LiveInv, Held
<1> QED
  BY <1>2, <1>3, <1>4 DEF Inv

\* The invariant speaks of the variables only.
LEMMA StutterInv == Inv /\ UNCHANGED vars => Inv'
  BY DEF Inv, vars, Types, MutexInv, CallInv, LiveInv, Held

\* The mutex is taken by a call that was not under way.
LEMMA BeginSubscribeInv ==
    ASSUME Inv, NEW c \in Callers, BeginSubscribe(c)
    PROVE  Inv'
<1> USE DEF Inv
<1>1. CASE eventSubs # <<>>
  <2>1. UNCHANGED vars
    BY <1>1 DEF BeginSubscribe, vars
  <2> QED
    BY <2>1, StutterInv
<1>2. CASE eventSubs = <<>>
  <2>1. /\ subsMu = None /\ subsMu' = c
        /\ task' = [task EXCEPT ![c] = "subscribe"]
        /\ subs' = [subs EXCEPT ![c] = <<>>]
        /\ UNCHANGED <<eventSubs, live, conn>>
    BY <1>2 DEF BeginSubscribe, Lock, Goto
  <2>2. Types'
    BY <2>1, NoHandles DEF Types
  <2>3. MutexInv' /\ CallInv'
    BY <1>2, <2>1, NoHandles, NoneIsNoCaller DEF Types, MutexInv, CallInv
  <2>4. Held = <<>> /\ Held' = <<>>
    BY <1>2, <2>1, NoneIsNoCaller DEF Held, Types
  <2>5. LiveInv'
    BY <2>1, <2>4 DEF LiveInv
  <2> QED
    BY <2>2, <2>3, <2>5
<1> QED
  BY <1>1, <1>2


\* A subscription is made for one subject more, or refused by a connection
\* that has been given up, and the rollback begins.
LEMMA SubscribeInv ==
    ASSUME Inv, NEW c \in Callers, Subscribe(c)
    PROVE  Inv'
<1> PICK s : s = subjects[Len(subs[c]) + 1]
  OBVIOUS
<1>1. task[c] = "subscribe" /\ Len(subs[c]) < 3
  BY SubjectsDiffer DEF Subscribe
<1>2. subs[c] \in Made /\ eventSubs = <<>> /\ subsMu = c /\ c # None
  BY <1>1, NoneIsNoCaller DEF Inv, CallInv, MutexInv
<1>3. Held = subs[c]
  BY <1>2 DEF Held
<1>4. CASE conn = "up"
  <2>1. /\ live' = [live EXCEPT ![s] = @ + 1]
        /\ task' = [task EXCEPT ![c] = "subscribe"]
        /\ subs' = [subs EXCEPT ![c] = Append(subs[c], s)]
        /\ UNCHANGED <<subsMu, eventSubs, conn>>
    BY <1>4 DEF Subscribe, Goto
  <2>2. PICK h : h = Append(subs[c], s)
    OBVIOUS
  <2>3. /\ s \in Subjects /\ s \notin ToSet(subs[c])
        /\ h \in Made /\ h \in Handles
        /\ ToSet(h) = ToSet(subs[c]) \cup {s}
    BY <1>1, <1>2, <2>2, MadeGrows, HandlesAre
  <2>4. subs' = [subs EXCEPT ![c] = h]
    BY <2>1, <2>2
  <2>5. live[s] = 0
    BY <1>3, <1>4, <2>3 DEF Inv, LiveInv
  <2>6. Types'
    <3>1. live' = [live EXCEPT ![s] = 1]
      BY <2>1, <2>5 DEF Inv, Types
    <3>2. live' \in [Subjects -> {0, 1}] /\ subs' \in [Callers -> Handles]
      BY <2>3, <2>4, <3>1 DEF Inv, Types
    <3>3. task' \in [Callers ->
                        {"idle", "subscribe", "rollback", "unsubscribe"}]
      BY <2>1 DEF Inv, Types
    <3> QED
      BY <2>1, <3>2, <3>3 DEF Inv, Types
  <2>7. MutexInv' /\ CallInv'
    BY <1>1, <1>2, <2>1, <2>3, <2>4 DEF Inv, Types, MutexInv, CallInv
  <2>8. Held' = h
    BY <1>2, <2>1, <2>4 DEF Held, Inv, Types
  <2>9. LiveInv'
    <3>1. ASSUME NEW t \in Subjects
          PROVE  live'[t] = IF t \in ToSet(h) THEN 1 ELSE 0
      BY <1>3, <1>4, <2>1, <2>3, <2>5 DEF Inv, Types, LiveInv
    <3> QED
      BY <2>8, <3>1 DEF LiveInv
  <2> QED
    BY <2>6, <2>7, <2>9 DEF Inv
<1>5. CASE conn # "up"
  <2>1. /\ task' = [task EXCEPT ![c] = "rollback"]
        /\ subs' = [subs EXCEPT ![c] = subs[c]]
        /\ UNCHANGED <<subsMu, eventSubs, live, conn>>
    BY <1>5 DEF Subscribe, Goto
  <2>2. Types'
    BY <2>1 DEF Inv, Types
  <2>3. MutexInv' /\ CallInv'
    BY <1>1, <1>2, <1>5, <2>1 DEF Inv, Types, MutexInv, CallInv
  <2>4. LiveInv'
    BY <1>5, <2>1 DEF LiveInv
  <2> QED
    BY <2>2, <2>3, <2>4 DEF Inv
<1> QED
  BY <1>4, <1>5

\* A call that returns leaves the mutex, and no handles of its own.
LEMMA ReturnInv ==
    ASSUME Inv, NEW c \in Callers, task[c] # "idle", ReturnUnlocked(c),
           conn' = conn, eventSubs' \in {<<>>, subjects}
    PROVE  /\ Types' <=> live' \in [Subjects -> {0, 1}]
           /\ MutexInv' /\ CallInv'
           /\ Held = subs[c] /\ Held' = eventSubs'
<1>1. subsMu = c /\ c # None
  BY NoneIsNoCaller DEF Inv, MutexInv
<1>2. /\ task' = [task EXCEPT ![c] = "idle"]
      /\ subs' = [subs EXCEPT ![c] = <<>>]
      /\ subsMu' = None
  BY DEF ReturnUnlocked, Goto
<1>3. Types' <=> live' \in [Subjects -> {0, 1}]
  BY <1>2, NoHandles DEF Inv, Types
<1>4. \A d \in Callers : task'[d] = "idle" /\ subs'[d] = <<>>
  BY <1>1, <1>2 DEF Inv, Types, MutexInv
<1>5. MutexInv' /\ CallInv'
  BY <1>2, <1>4, NoneIsNoCaller DEF MutexInv, CallInv
<1> QED
  BY <1>1, <1>2, <1>3, <1>5 DEF Held

\* The handles pass from the call to the cache.
LEMMA KeepInv ==
    ASSUME Inv, NEW c \in Callers, Keep(c)
    PROVE  Inv'
<1>1. /\ task[c] = "subscribe" /\ subs[c] = subjects
      /\ ReturnUnlocked(c)
      /\ eventSubs' = subjects
      /\ UNCHANGED <<live, conn>>
  BY DEF Keep
<1>2. MutexInv' /\ CallInv' /\ Held = Held'
  BY <1>1, ReturnInv
<1>3. Types'
  BY <1>1, ReturnInv DEF Inv, Types
<1>4. LiveInv'
  BY <1>1, <1>2 DEF Inv, LiveInv
<1> QED
  BY <1>2, <1>3, <1>4 DEF Inv

\* A rollback ends on a connection that has been given up.
LEMMA GiveUpInv ==
    ASSUME Inv, NEW c \in Callers, GiveUp(c)
    PROVE  Inv'
<1>1. /\ task[c] = "rollback" /\ subs[c] = <<>>
      /\ ReturnUnlocked(c)
      /\ UNCHANGED <<eventSubs, live, conn>>
  BY DEF GiveUp
<1>2. eventSubs' \in {<<>>, subjects} /\ conn # "up"
  BY <1>1 DEF Inv, Types, CallInv
<1>3. MutexInv' /\ CallInv'
  BY <1>1, <1>2, ReturnInv
<1>4. Types'
  BY <1>1, <1>2, ReturnInv DEF Inv, Types
<1>5. LiveInv'
  BY <1>1, <1>2 DEF LiveInv
<1> QED
  BY <1>3, <1>4, <1>5 DEF Inv

\* The handles pass from the cache to the call.
LEMMA BeginUnsubscribeInv ==
    ASSUME Inv, NEW c \in Callers, BeginUnsubscribe(c)
    PROVE  Inv'
<1>1. /\ subsMu = None /\ subsMu' = c /\ c # None
      /\ task' = [task EXCEPT ![c] = "unsubscribe"]
      /\ subs' = [subs EXCEPT ![c] = eventSubs]
      /\ UNCHANGED <<eventSubs, live, conn>>
  BY NoneIsNoCaller DEF BeginUnsubscribe, Lock, Goto
<1>2. eventSubs \in Remaining /\ eventSubs \in Handles
  BY NoHandles, AllHandles DEF Inv, Types
<1>3. Types'
  BY <1>1, <1>2 DEF Inv, Types
<1>4. MutexInv' /\ CallInv'
  <2>1. ASSUME NEW d \in Callers, d # c
        PROVE  task'[d] = "idle" /\ subs'[d] = <<>>
    BY <1>1, <2>1, NoneIsNoCaller DEF Inv, Types, MutexInv
  <2>2. task'[c] = "unsubscribe" /\ subs'[c] \in Remaining
    BY <1>1, <1>2 DEF Inv, Types
  <2> QED
    BY <1>1, <2>1, <2>2 DEF MutexInv, CallInv
<1>5. Held' = Held
  BY <1>1 DEF Held, Inv, Types
<1>6. LiveInv'
  BY <1>1, <1>5 DEF Inv, LiveInv
<1> QED
  BY <1>3, <1>4, <1>6 DEF Inv

\* The first handle goes, and with it, where the connection is up, its
\* subscription.  A rollback finds no connection that is up.
LEMMA UnsubscribeInv ==
    ASSUME Inv, NEW c \in Callers, Unsubscribe(c)
    PROVE  Inv'
<1> PICK h : h = subs[c]
  OBVIOUS
<1> PICK t : t = Tail(h)
  OBVIOUS
<1> PICK e : e = Head(h)
  OBVIOUS
<1>1. /\ task[c] \in {"rollback", "unsubscribe"} /\ h # <<>>
      /\ task' = [task EXCEPT ![c] = task[c]]
      /\ subs' = [subs EXCEPT ![c] = t]
      /\ live' = IF conn = "up" THEN [live EXCEPT ![e] = @ - 1] ELSE live
      /\ UNCHANGED <<subsMu, eventSubs, conn>>
  BY DEF Unsubscribe, Goto
<1>2. /\ subsMu = c /\ c # None /\ Held = h
      /\ h \in Handles /\ h \in Seq(Subjects)
      /\ conn = "up" => h \in Remaining
      /\ task[c] = "unsubscribe" => h \in Remaining
  BY <1>1, NoneIsNoCaller DEF Inv, Types, MutexInv, CallInv, Held, Handles
<1>3. t \in Handles /\ e \in Subjects
  <2>1. PICK before \in Nat : Follow(h, before)
    BY <1>2 DEF Handles
  <2>2. t \in Seq(Subjects) /\ Follow(t, before + 1) /\ e \in Subjects
    BY <1>1, <1>2, <2>1, HandlesShrink
  <2>3. before + 1 \in Nat
    OBVIOUS
  <2> QED
    BY <2>2, <2>3 DEF Handles
<1>4. h \in Remaining => t \in Remaining
  <2> SUFFICES ASSUME h \in Remaining PROVE t \in Remaining
    OBVIOUS
  <2>1. Follow(h, 3 - Len(h)) /\ 3 - Len(h) \in Nat
    BY DEF Remaining, Follow
  <2>2. /\ t \in Seq(Subjects) /\ Follow(t, 3 - Len(h) + 1)
        /\ Len(t) = Len(h) - 1
    BY <1>1, <1>2, <2>1, HandlesShrink
  <2>3. Len(h) \in Nat /\ 3 - Len(t) = 3 - Len(h) + 1
    BY <1>2, <2>2, LenProperties
  <2> QED
    BY <2>2, <2>3 DEF Remaining
<1>5. ToSet(h) = {e} \cup ToSet(t) /\ e \notin ToSet(t)
  BY <1>1, <1>2, HandlesShrink DEF Handles
<1>6. conn = "up" => live[e] = 1
  BY <1>2, <1>3, <1>5 DEF Inv, LiveInv
<1>7. Types'
  BY <1>1, <1>3, <1>6 DEF Inv, Types
<1>8. MutexInv' /\ CallInv'
  BY <1>1, <1>2, <1>4 DEF Inv, Types, MutexInv, CallInv
<1>9. Held' = t
  BY <1>1, <1>2 DEF Held, Inv, Types
<1>10. ASSUME conn = "up", NEW s \in Subjects
       PROVE  live'[s] = IF s \in ToSet(t) THEN 1 ELSE 0
  BY <1>1, <1>2, <1>3, <1>5, <1>6, <1>10 DEF Inv, Types, LiveInv
<1>11. LiveInv'
  BY <1>1, <1>9, <1>10 DEF LiveInv
<1> QED
  BY <1>7, <1>8, <1>11 DEF Inv

\* All handles have been visited: none is left on a connection that is up.
LEMMA ForgetInv ==
    ASSUME Inv, NEW c \in Callers, Forget(c)
    PROVE  Inv'
<1>1. /\ task[c] = "unsubscribe" /\ subs[c] = <<>>
      /\ ReturnUnlocked(c)
      /\ eventSubs' = <<>>
      /\ UNCHANGED <<live, conn>>
  BY DEF Forget
<1>2. MutexInv' /\ CallInv' /\ Held = Held'
  BY <1>1, ReturnInv
<1>3. Types'
  BY <1>1, ReturnInv DEF Inv, Types
<1>4. LiveInv'
  BY <1>1, <1>2 DEF Inv, LiveInv
<1> QED
  BY <1>2, <1>3, <1>4 DEF Inv

\* A connection that is given up serves what it served, or nothing.
LEMMA ConnectionInv ==
    ASSUME Inv, Drain \/ Close
    PROVE  Inv'
<1>1. /\ UNCHANGED <<subsMu, task, subs, eventSubs>>
      /\ conn' \in {"draining", "closed"}
      /\ live' = live \/ live' = [s \in Subjects |-> 0]
  BY DEF Drain, Close
<1>2. Types'
  BY <1>1 DEF Inv, Types
<1>3. MutexInv' /\ CallInv' /\ LiveInv'
  BY <1>1 DEF Inv, MutexInv, CallInv, LiveInv
<1> QED
  BY <1>2, <1>3 DEF Inv

\* Every step keeps the invariant.
LEMMA NextInv == Inv /\ [Next]_vars => Inv'
<1> SUFFICES ASSUME Inv, [Next]_vars PROVE Inv'
  OBVIOUS
<1>1. CASE Drain \/ Close
  BY <1>1, ConnectionInv
<1>2. ASSUME NEW c \in Callers,
             \/ BeginSubscribe(c) \/ Subscribe(c) \/ Keep(c) \/ GiveUp(c)
             \/ BeginUnsubscribe(c) \/ Unsubscribe(c) \/ Forget(c)
      PROVE  Inv'
  BY <1>2, BeginSubscribeInv, SubscribeInv, KeepInv, GiveUpInv,
     BeginUnsubscribeInv, UnsubscribeInv, ForgetInv
<1>3. CASE UNCHANGED vars
  BY <1>3, StutterInv
<1> QED
  BY <1>1, <1>2, <1>3 DEF Next

LEMMA AlwaysInv == Spec => []Inv
  BY InitInv, NextInv, PTL DEF Spec

-----------------------------------------------------------------------------
(* The theorems.                                                           *)

\* The state stays within its types; in particular no call of subscribe or
\* unsubscribe ever holds two handles for one subject.
THEOREM SubscriptionsWellTyped == Spec => []TypeOK
<1>1. Inv => TypeOK
  <2> SUFFICES ASSUME Inv PROVE TypeOK
    OBVIOUS
  <2>1. \A c \in Callers : subs[c] \in Seq(Subjects) /\ IsInjective(subs[c])
    BY HandlesDiffer DEF Inv, Types
  <2>2. live \in [Subjects -> Nat]
    BY DEF Inv, Types
  <2> QED
    BY <2>1, <2>2 DEF Inv, Types, TypeOK
<1> QED
  BY <1>1, AlwaysInv, PTL

\* No event is applied twice, whatever calls overlap and however removals and
\* rollbacks fail.
THEOREM EventsAppliedOnce == Spec => []NoDoubleApplication
<1>1. Inv => NoDoubleApplication
  BY DEF Inv, Types, NoDoubleApplication
<1> QED
  BY <1>1, AlwaysInv, PTL

\* Between calls a connection that is up serves all subjects or none, and the
\* cache knows which.
THEOREM SubscribedToAllOrNone == Spec => []AllOrNothing
<1>1. Inv => AllOrNothing
  <2> SUFFICES ASSUME Inv, subsMu = None, conn = "up", NEW s \in Subjects
               PROVE  live[s] = IF eventSubs = subjects THEN 1 ELSE 0
    BY DEF AllOrNothing
  <2>1. Held = eventSubs
    BY DEF Held
  <2>2. CASE eventSubs = subjects
    BY <2>1, <2>2 DEF Inv, LiveInv, Subjects
  <2>3. CASE eventSubs = <<>> /\ eventSubs # subjects
    BY <2>1, <2>3, ShortSequences DEF Inv, LiveInv
  <2> QED
    BY <2>2, <2>3 DEF Inv, Types
<1> QED
  BY <1>1, AlwaysInv, PTL
=============================================================================
