---------------------------- MODULE SequenceLemmas ----------------------------
(***************************************************************************)
(* What the proofs need to know of the message queues: the elements of a   *)
(* sequence after Append and Tail.                                         *)
(***************************************************************************)
EXTENDS SequencesExt, SequenceTheorems, TLAPS

\* A message put into a queue is the only one the queue gains.
LEMMA AppendElements ==
    ASSUME NEW S, NEW s \in Seq(S), NEW e \in S
    PROVE  /\ Append(s, e) \in Seq(S)
           /\ ToSet(Append(s, e)) = ToSet(s) \cup {e}
<1>1. /\ Append(s, e) \in Seq(S)
      /\ Len(Append(s, e)) = Len(s) + 1
      /\ \A i \in 1..Len(s) : Append(s, e)[i] = s[i]
      /\ Append(s, e)[Len(s) + 1] = e
  BY AppendProperties
<1>2. /\ Len(s) \in Nat
      /\ DOMAIN s = 1..Len(s)
      /\ DOMAIN Append(s, e) = 1..(Len(s) + 1)
  BY <1>1, LenProperties
<1>3. ToSet(Append(s, e)) \subseteq ToSet(s) \cup {e}
  BY <1>1, <1>2 DEF ToSet
<1>4. ToSet(s) \cup {e} \subseteq ToSet(Append(s, e))
  BY <1>1, <1>2 DEF ToSet
<1> QED
  BY <1>1, <1>3, <1>4

\* Taking the head of a queue leaves nothing behind that was not there.
LEMMA TailElements ==
    ASSUME NEW S, NEW s \in Seq(S), s # <<>>
    PROVE  /\ Tail(s) \in Seq(S)
           /\ Head(s) \in S
           /\ ToSet(s) = {Head(s)} \cup ToSet(Tail(s))
<1>1. /\ Tail(s) \in Seq(S)
      /\ Head(s) \in S
      /\ Head(s) = s[1]
      /\ Len(s) \in Nat \ {0}
      /\ Len(Tail(s)) = Len(s) - 1
      /\ \A i \in 1..Len(Tail(s)) : Tail(s)[i] = s[i + 1]
  BY HeadTailProperties, EmptySeq
<1>2. /\ DOMAIN s = 1..Len(s)
      /\ DOMAIN Tail(s) = 1..(Len(s) - 1)
  BY <1>1, LenProperties
<1>3. ToSet(Tail(s)) \subseteq ToSet(s) /\ Head(s) \in ToSet(s)
  BY <1>1, <1>2 DEF ToSet
<1>4. ASSUME NEW i \in DOMAIN s, s[i] # Head(s)
      PROVE  s[i] \in ToSet(Tail(s))
  <2>1. i - 1 \in DOMAIN Tail(s) /\ Tail(s)[i - 1] = s[i]
    BY <1>1, <1>2, <1>4
  <2> QED
    BY <2>1 DEF ToSet
<1> QED
  BY <1>1, <1>3, <1>4 DEF ToSet

\* The elements of a typed sequence are typed.
LEMMA ElementsTyped ==
    ASSUME NEW S, NEW s \in Seq(S)
    PROVE  ToSet(s) \subseteq S
  BY LenProperties DEF ToSet

\* A sequence of one or two messages, as a handler leaves them.
LEMMA ShortSequences ==
    /\ ToSet(<<>>) = {}
    /\ \A a : ToSet(<<a>>) = {a}
    /\ \A a, b : ToSet(<<a, b>>) = {a, b}
<1>1. ToSet(<<>>) = {}
  BY DEF ToSet
<1>2. ASSUME NEW a PROVE ToSet(<<a>>) = {a}
  BY DEF ToSet
<1>3. ASSUME NEW a, NEW b PROVE ToSet(<<a, b>>) = {a, b}
  BY DEF ToSet
<1> QED
  BY <1>1, <1>2, <1>3


\* A message that moves from the head of one queue to the end of the queue
\* before it stays in its place.
LEMMA HandedOn ==
    ASSUME NEW S, NEW s \in Seq(S), NEW t \in Seq(S), t # <<>>
    PROVE  Append(s, Head(t)) \o Tail(t) = s \o t
<1> PICK e : e = Head(t)
  OBVIOUS
<1> PICK u : u = Tail(t)
  OBVIOUS
<1> PICK r : r = Append(s, e)
  OBVIOUS
<1>1. /\ e \in S /\ u \in Seq(S) /\ e = t[1]
      /\ Len(u) = Len(t) - 1
      /\ \A i \in 1 .. Len(u) : u[i] = t[i + 1]
      /\ Len(t) \in Nat \ {0} /\ Len(s) \in Nat
  BY HeadTailProperties, EmptySeq, LenProperties
<1>2. /\ r \in Seq(S) /\ Len(r) = Len(s) + 1
      /\ \A i \in 1 .. Len(s) : r[i] = s[i]
      /\ r[Len(s) + 1] = e
  BY <1>1, AppendProperties
<1>3. /\ r \o u \in Seq(S) /\ Len(r \o u) = Len(r) + Len(u)
      /\ \A i \in 1 .. Len(r) + Len(u) :
             (r \o u)[i] = IF i <= Len(r) THEN r[i] ELSE u[i - Len(r)]
  BY <1>1, <1>2, ConcatProperties
<1>4. /\ s \o t \in Seq(S) /\ Len(s \o t) = Len(s) + Len(t)
      /\ \A i \in 1 .. Len(s) + Len(t) :
             (s \o t)[i] = IF i <= Len(s) THEN s[i] ELSE t[i - Len(s)]
  BY ConcatProperties
<1> PICK a : a = r \o u
  OBVIOUS
<1> PICK b : b = s \o t
  OBVIOUS
<1>5. ASSUME NEW i \in 1 .. Len(a) PROVE a[i] = b[i]
  <2>1. i \in 1 .. Len(s) + Len(t)
    BY <1>1, <1>2, <1>3
  <2>2. CASE i <= Len(s)
    BY <1>1, <1>2, <1>3, <1>4, <2>1, <2>2
  <2>3. CASE i = Len(s) + 1
    BY <1>1, <1>2, <1>3, <1>4, <2>1, <2>3
  <2>4. CASE i > Len(s) + 1
    <3>1. a[i] = u[i - (Len(s) + 1)] /\ b[i] = t[i - Len(s)]
      BY <1>1, <1>2, <1>3, <1>4, <2>1, <2>4
    <3>2. i - (Len(s) + 1) \in 1 .. Len(u)
      BY <1>1, <2>1, <2>4
    <3>3. i - (Len(s) + 1) + 1 = i - Len(s)
      BY <1>1
    <3> QED
      BY <1>1, <3>1, <3>2, <3>3
  <2> QED
    BY <1>1, <2>1, <2>2, <2>3, <2>4
<1>6. a \in Seq(S) /\ b \in Seq(S) /\ Len(a) = Len(b)
  BY <1>1, <1>2, <1>3, <1>4
<1>7. a = b
  BY <1>5, <1>6, SeqEqual
<1> QED
  BY <1>7

\* A message appended behind two queues in a row is appended to the second.
LEMMA AppendAfter ==
    ASSUME NEW S, NEW s \in Seq(S), NEW t \in Seq(S), NEW e \in S
    PROVE  s \o Append(t, e) = Append(s \o t, e)
<1>1. <<e>> \in Seq(S) /\ s \o t \in Seq(S)
  BY ConcatProperties
<1>2. Append(t, e) = t \o <<e>>
  BY AppendIsConcat
<1>3. Append(s \o t, e) = (s \o t) \o <<e>>
  BY <1>1, AppendIsConcat
<1> QED
  BY <1>1, <1>2, <1>3, ConcatAssociative
=============================================================================
