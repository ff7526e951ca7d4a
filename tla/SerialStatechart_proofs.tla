------------------------- MODULE SerialStatechart_proofs -------------------------
(***************************************************************************)
(* A plugin that does not set on_exhaust implements the serial statechart: *)
(* its queue, the holder of the lock and then the waiters, changes only as *)
(* SerialStatechart's queue does.                                          *)
(***************************************************************************)
EXTENDS Statechart_proofs

\* The tasks of a queue with the events they carry.
Pairs(s, e) == [i \in 1..Len(s) |-> <<s[i], e[s[i]]>>]
\* The holder, if there is one, and the waiters.
Line(h, w) == IF h = None THEN w ELSE <<h>> \o w
Saved == IF disk = None THEN None ELSE disk.state

----------------------------------------------------------------------------
(* Queues as values.                                                       *)

LEMMA PairsSeq ==
  ASSUME NEW s \in Seq(Tasks), NEW e \in [Tasks -> Event \cup {None}]
  PROVE  /\ Pairs(s, e) \in Seq(Tasks \X (Event \cup {None}))
         /\ Len(Pairs(s, e)) = Len(s) /\ DOMAIN Pairs(s, e) = 1..Len(s)
         /\ \A i \in 1..Len(s) : Pairs(s, e)[i] = <<s[i], e[s[i]]>>
<1>1. \A i \in 1..Len(s) : s[i] \in Tasks /\ e[s[i]] \in Event \cup {None}
  OBVIOUS
<1> QED BY <1>1 DEF Pairs

LEMMA PairsAgree ==
  ASSUME NEW s \in Seq(Tasks), NEW e, NEW f, \A i \in 1..Len(s) : f[s[i]] = e[s[i]]
  PROVE  Pairs(s, f) = Pairs(s, e)
  BY DEF Pairs

LEMMA LineHeld ==
  ASSUME NEW h \in Tasks, NEW w \in Seq(Tasks)
  PROVE  /\ Line(h, w) \in Seq(Tasks) /\ Len(Line(h, w)) = Len(w) + 1
         /\ Line(h, w)[1] = h /\ \A i \in 1..Len(w) : Line(h, w)[i + 1] = w[i]
<1>1. <<h>> \in Seq(Tasks) /\ Len(<<h>>) = 1 /\ <<h>>[1] = h /\ Line(h, w) = <<h>> \o w
  BY TaskAssumption DEF Line
<1> QED BY <1>1, ConcatProperties

LEMMA LineSeq ==
  ASSUME NEW h \in Tasks \cup {None}, NEW w \in Seq(Tasks)
  PROVE  Line(h, w) \in Seq(Tasks)
<1>1. CASE h = None
  BY <1>1 DEF Line
<1>2. CASE h \in Tasks
  BY <1>2, LineHeld
<1> QED BY <1>1, <1>2

\* Who is in the line: the holder and the waiters.
LEMMA LineElements ==
  ASSUME NEW h \in Tasks \cup {None}, NEW w \in Seq(Tasks), NEW t \in Tasks, t # h,
         \A i \in 1..Len(w) : w[i] # t
  PROVE  \A i \in 1..Len(Line(h, w)) : Line(h, w)[i] # t
<1>1. CASE h = None
  BY <1>1 DEF Line
<1>2. CASE h \in Tasks
  <2>1. Len(w) \in Nat
    OBVIOUS
  <2>2. \A i \in 1..Len(w) + 1 : i = 1 \/ (i - 1 \in 1..Len(w) /\ i = (i - 1) + 1)
    BY <2>1
  <2>3. /\ Len(Line(h, w)) = Len(w) + 1 /\ Line(h, w)[1] = h
        /\ \A i \in 1..Len(w) : Line(h, w)[i + 1] = w[i]
    BY <1>2, LineHeld
  <2> SUFFICES ASSUME NEW i \in 1..Len(w) + 1 PROVE Line(h, w)[i] # t
    BY <2>3
  <2>4. CASE i = 1
    BY <2>3, <2>4
  <2>5. CASE i - 1 \in 1..Len(w) /\ i = (i - 1) + 1
    BY <2>3, <2>5
  <2> QED BY <2>2, <2>4, <2>5
<1> QED BY <1>1, <1>2

LEMMA PairsAppend ==
  ASSUME NEW s \in Seq(Tasks), NEW t \in Tasks,
         NEW e \in [Tasks -> Event \cup {None}],
         NEW f \in [Tasks -> Event \cup {None}],
         \A i \in 1..Len(s) : f[s[i]] = e[s[i]]
  PROVE  Pairs(Append(s, t), f) = Append(Pairs(s, e), <<t, f[t]>>)
<1> DEFINE a == Pairs(Append(s, t), f)
           b == Append(Pairs(s, e), <<t, f[t]>>)
<1>1. /\ Append(s, t) \in Seq(Tasks) /\ Len(Append(s, t)) = Len(s) + 1
      /\ Append(s, t)[Len(s) + 1] = t
      /\ \A i \in 1..Len(s) : Append(s, t)[i] = s[i]
  OBVIOUS
<1>2. /\ a \in Seq(Tasks \X (Event \cup {None})) /\ Len(a) = Len(s) + 1
      /\ \A i \in 1..Len(s) : a[i] = <<s[i], e[s[i]]>>
      /\ a[Len(s) + 1] = <<t, f[t]>>
  <2>1. /\ a \in Seq(Tasks \X (Event \cup {None})) /\ Len(a) = Len(s) + 1
        /\ \A i \in 1..Len(s) + 1 : a[i] = <<Append(s, t)[i], f[Append(s, t)[i]]>>
    BY <1>1, PairsSeq
  <2> HIDE DEF a
  <2> QED BY <1>1, <2>1
<1>3. /\ b \in Seq(Tasks \X (Event \cup {None})) /\ Len(b) = Len(s) + 1
      /\ \A i \in 1..Len(s) : b[i] = <<s[i], e[s[i]]>>
      /\ b[Len(s) + 1] = <<t, f[t]>>
  <2> DEFINE p == Pairs(s, e)
  <2>1. /\ p \in Seq(Tasks \X (Event \cup {None})) /\ Len(p) = Len(s)
        /\ \A i \in 1..Len(s) : p[i] = <<s[i], e[s[i]]>>
    BY PairsSeq
  <2> DEFINE x == <<t, f[t]>>
             T == Tasks \X (Event \cup {None})
  <2>2. x \in T
    OBVIOUS
  <2> HIDE DEF p, x, T
  <2>3. /\ Append(p, x) \in Seq(T) /\ Len(Append(p, x)) = Len(p) + 1
        /\ \A i \in 1..Len(p) : Append(p, x)[i] = p[i]
        /\ Append(p, x)[Len(p) + 1] = x
    BY <2>1, <2>2 DEF T
  <2> QED BY <2>1, <2>3 DEF p, x, T
<1>4. \A i \in 1..Len(a) : a[i] = b[i]
  <2>1. \A i \in 1..Len(s) + 1 : i \in 1..Len(s) \/ i = Len(s) + 1
    OBVIOUS
  <2> HIDE DEF a, b
  <2> QED BY <1>2, <1>3, <2>1
<1> HIDE DEF a, b
<1>5. a = b
  BY <1>2, <1>3, <1>4, SeqEqual
<1> QED BY <1>5 DEF a, b

LEMMA WithoutSeq ==
  ASSUME NEW S, NEW s \in Seq(S), NEW i \in 1..Len(s)
  PROVE  /\ Without(s, i) \in Seq(S) /\ Len(Without(s, i)) = Len(s) - 1
         /\ \A j \in 1..Len(s) - 1 : Without(s, i)[j] = IF j < i THEN s[j] ELSE s[j + 1]
<1> DEFINE a == SubSeq(s, 1, i - 1)
           b == SubSeq(s, i + 1, Len(s))
<1>1. a \in Seq(S) /\ Len(a) = i - 1 /\ \A j \in 1..i - 1 : a[j] = s[j]
  OBVIOUS
<1>2. b \in Seq(S) /\ Len(b) = Len(s) - i /\ \A j \in 1..Len(s) - i : b[j] = s[i + j]
  OBVIOUS
<1>3. Without(s, i) = a \o b
  BY DEF Without
<1> HIDE DEF a, b
<1> QED BY <1>1, <1>2, <1>3

\* Leaving out one task leaves out its pair.
LEMMA PairsWithout ==
  ASSUME NEW s \in Seq(Tasks), NEW i \in 1..Len(s),
         NEW e \in [Tasks -> Event \cup {None}],
         NEW f \in [Tasks -> Event \cup {None}],
         \A j \in 1..Len(s) : j # i => f[s[j]] = e[s[j]]
  PROVE  Pairs(Without(s, i), f) = Without(Pairs(s, e), i)
<1> DEFINE T == Tasks \X (Event \cup {None})
           p == Pairs(s, e)
           a == Pairs(Without(s, i), f)
           b == Without(p, i)
<1>1. p \in Seq(T) /\ Len(p) = Len(s) /\ \A j \in 1..Len(s) : p[j] = <<s[j], e[s[j]]>>
  BY PairsSeq
<1>2. /\ b \in Seq(T) /\ Len(b) = Len(s) - 1
      /\ \A j \in 1..Len(s) - 1 : b[j] = IF j < i THEN p[j] ELSE p[j + 1]
  <2> HIDE DEF p
  <2> QED BY <1>1, WithoutSeq
<1>3. /\ Without(s, i) \in Seq(Tasks) /\ Len(Without(s, i)) = Len(s) - 1
      /\ \A j \in 1..Len(s) - 1 : Without(s, i)[j] = IF j < i THEN s[j] ELSE s[j + 1]
  BY WithoutSeq
<1>4. /\ a \in Seq(T) /\ Len(a) = Len(s) - 1
      /\ \A j \in 1..Len(s) - 1 : a[j] = <<Without(s, i)[j], f[Without(s, i)[j]]>>
  BY <1>3, PairsSeq
<1>5. ASSUME NEW j \in 1..Len(s) - 1 PROVE a[j] = b[j]
  <2> HIDE DEF a, b, p
  <2>1. CASE j < i
    <3>1. j \in 1..Len(s) /\ j # i
      BY <2>1
    <3>2. a[j] = <<s[j], f[s[j]]>> /\ b[j] = p[j]
      BY <1>2, <1>3, <1>4, <2>1
    <3> QED BY <1>1, <3>1, <3>2
  <2>2. CASE ~(j < i)
    <3>1. j + 1 \in 1..Len(s) /\ j + 1 # i
      BY <2>2
    <3>2. a[j] = <<s[j + 1], f[s[j + 1]]>> /\ b[j] = p[j + 1]
      BY <1>2, <1>3, <1>4, <2>2
    <3> QED BY <1>1, <3>1, <3>2
  <2> QED BY <2>1, <2>2
<1> HIDE DEF a, b
<1>6. a = b
  BY <1>2, <1>4, <1>5, SeqEqual
<1> QED BY <1>6 DEF a, b

\* Settling the event at the head of the queue.
LEMMA PairsTail ==
  ASSUME NEW t \in Tasks, NEW w \in Seq(Tasks), NEW e \in [Tasks -> Event \cup {None}]
  PROVE  /\ Pairs(Line(t, w), e) # <<>> /\ Head(Pairs(Line(t, w), e)) = <<t, e[t]>>
         /\ Tail(Pairs(Line(t, w), e)) = Pairs(w, e)
<1> USE TaskAssumption
<1> DEFINE T == Tasks \X (Event \cup {None})
           p == Pairs(Line(t, w), e)
           q == Pairs(w, e)
<1>1. /\ Line(t, w) \in Seq(Tasks) /\ Len(Line(t, w)) = Len(w) + 1 /\ Line(t, w)[1] = t
      /\ \A i \in 1..Len(w) : Line(t, w)[i + 1] = w[i]
  BY LineHeld
<1>2. /\ p \in Seq(T) /\ Len(p) = Len(w) + 1
      /\ \A i \in 1..Len(w) + 1 : p[i] = <<Line(t, w)[i], e[Line(t, w)[i]]>>
  BY <1>1, PairsSeq
<1>3. q \in Seq(T) /\ Len(q) = Len(w) /\ \A i \in 1..Len(w) : q[i] = <<w[i], e[w[i]]>>
  BY PairsSeq
<1> HIDE DEF p, q
<1>4. Len(w) \in Nat /\ p # <<>> /\ Head(p) = p[1] /\ p[1] = <<t, e[t]>>
  BY <1>1, <1>2
<1>5. /\ Tail(p) \in Seq(T) /\ Len(Tail(p)) = Len(w)
      /\ \A i \in 1..Len(w) : Tail(p)[i] = p[i + 1]
  BY <1>2, <1>4
<1>6. \A i \in 1..Len(w) : i + 1 \in 1..Len(w) + 1
  BY <1>4
<1>7. \A i \in 1..Len(w) : Tail(p)[i] = q[i]
  BY <1>1, <1>2, <1>3, <1>5, <1>6
<1>8. Tail(p) = q
  BY <1>3, <1>5, <1>7, SeqEqual
<1> QED BY <1>4, <1>8 DEF p, q

\* Leaving a waiter out of the line.
LEMMA LineWithout ==
  ASSUME NEW h \in Tasks \cup {None}, NEW w \in Seq(Tasks), NEW k \in 1..Len(w), w[k] # h,
         \A i, j \in 1..Len(w) : w[i] = w[j] => i = j
  PROVE  \E i \in 1..Len(Line(h, w)) :
           /\ Line(h, Without(w, k)) = Without(Line(h, w), i)
           /\ \A j \in 1..Len(Line(h, w)) : j # i => Line(h, w)[j] # w[k]
<1>1. CASE h = None
  BY <1>1 DEF Line
<1>2. CASE h \in Tasks
  <2> DEFINE l == Line(h, w)
             v == Without(w, k)
             a == Line(h, v)
             b == Without(l, k + 1)
  <2>0. /\ l \in Seq(Tasks) /\ Len(l) = Len(w) + 1 /\ l[1] = h
        /\ \A i \in 1..Len(w) : l[i + 1] = w[i]
    BY <1>2, LineHeld
  <2>1. /\ l \in Seq(Tasks) /\ Len(l) = Len(w) + 1 /\ l[1] = h /\ Len(w) \in Nat
        /\ \A i \in 1..Len(w) : l[i + 1] = w[i]
    <3> HIDE DEF l
    <3> QED BY <2>0
  <2>2. /\ v \in Seq(Tasks) /\ Len(v) = Len(w) - 1
        /\ \A j \in 1..Len(w) - 1 : v[j] = IF j < k THEN w[j] ELSE w[j + 1]
    BY WithoutSeq
  <2>3. /\ a \in Seq(Tasks) /\ Len(a) = Len(v) + 1 /\ a[1] = h
        /\ \A i \in 1..Len(v) : a[i + 1] = v[i]
    <3> HIDE DEF v
    <3> QED BY <1>2, <2>2, LineHeld
  <2>4. k + 1 \in 1..Len(l)
    BY <2>1
  <2>5. /\ b \in Seq(Tasks) /\ Len(b) = Len(l) - 1
        /\ \A j \in 1..Len(l) - 1 : b[j] = IF j < k + 1 THEN l[j] ELSE l[j + 1]
    <3> HIDE DEF l
    <3> QED BY <2>1, <2>4, WithoutSeq
  <2> HIDE DEF l, v, a, b
  <2>6. ASSUME NEW j \in 1..Len(a) PROVE a[j] = b[j]
    <3>1. CASE j = 1
      BY <2>1, <2>2, <2>3, <2>5, <3>1
    <3>2. CASE j # 1
      <4>1. j - 1 \in 1..Len(v) /\ j = (j - 1) + 1 /\ j \in 1..Len(l) - 1
        BY <2>1, <2>2, <2>3, <3>2
      <4>2. a[j] = v[j - 1]
        BY <2>3, <4>1
      <4>3. CASE j < k + 1
        <5>1. a[j] = w[j - 1] /\ b[j] = l[j] /\ j - 1 \in 1..Len(w)
          BY <2>1, <2>2, <2>5, <4>1, <4>2, <4>3
        <5> QED BY <2>1, <4>1, <5>1
      <4>4. CASE ~(j < k + 1)
        <5>1. a[j] = w[(j - 1) + 1] /\ b[j] = l[j + 1] /\ j \in 1..Len(w)
          BY <2>1, <2>2, <2>5, <4>1, <4>2, <4>4
        <5> QED BY <2>1, <4>1, <5>1
      <4> QED BY <4>3, <4>4
    <3> QED BY <3>1, <3>2
  <2>7. a = b
    BY <2>1, <2>2, <2>3, <2>5, <2>6, SeqEqual
  <2>8. ASSUME NEW j \in 1..Len(l), j # k + 1 PROVE l[j] # w[k]
    <3>1. CASE j = 1
      BY <2>1, <3>1
    <3>2. CASE j # 1
      <4>1. j - 1 \in 1..Len(w) /\ j = (j - 1) + 1 /\ j - 1 # k
        BY <2>1, <2>8, <3>2
      <4> QED BY <2>1, <4>1
    <3> QED BY <3>1, <3>2
  <2> QED BY <2>4, <2>7, <2>8 DEF l, v, a, b
<1> QED BY <1>1, <1>2

----------------------------------------------------------------------------
(* The queue of the states the engine reaches.                             *)

\* No waiter holds the lock, so that none is left out of the queue.
LEMMA QueueIsLine ==
  ASSUME NEW h \in Tasks \cup {None}, NEW w \in Seq(Tasks), NEW e,
         \A i \in 1..Len(w) : w[i] # h
  PROVE  [i \in DOMAIN InOrder(h, w) |-> <<InOrder(h, w)[i], e[InOrder(h, w)[i]]>>]
           = Pairs(Line(h, w), e)
<1>1. Others(h, w) = w
  BY DEF Others
<1>2. InOrder(h, w) = Line(h, w)
  BY <1>1 DEF InOrder, Line
<1>3. DOMAIN Line(h, w) = 1..Len(Line(h, w))
  BY LineSeq
<1> QED BY <1>2, <1>3 DEF Pairs

LEMMA UnsettledIsLine ==
  ASSUME Inv, NoneNested
  PROVE  /\ Unsettled = Pairs(Line(holder, waiters), event)
         /\ holder \in Tasks \cup {None} /\ waiters \in Seq(Tasks)
         /\ event \in [Tasks -> Event \cup {None}]
         /\ \A i \in 1..Len(waiters) : waiters[i] # holder /\ pc[waiters[i]] = "queued"
         /\ \A i, j \in 1..Len(waiters) : waiters[i] = waiters[j] => i = j
<1>1. /\ holder \in Tasks \cup {None} /\ waiters \in Seq(Tasks)
      /\ event \in [Tasks -> Event \cup {None}]
  BY DEF Inv, TypeOK
<1>2. \A i \in 1..Len(waiters) : waiters[i] # holder
  BY <1>1, NoneWaitsForItself DEF NoSelfWait
<1>3. \A i \in 1..Len(waiters) : pc[waiters[i]] = "queued"
  BY <1>1 DEF Inv, WaitersOK, NoneNested
<1>4. Unsettled = Pairs(Line(holder, waiters), event)
  BY <1>1, <1>2, QueueIsLine DEF Unsettled
<1> QED BY <1>1, <1>2, <1>3, <1>4 DEF Inv, WaitersOK

\* The same of the next state.
LEMMA UnsettledIsLineNext ==
  ASSUME Inv', NoneNested'
  PROVE  /\ Unsettled' = Pairs(Line(holder', waiters'), event')
         /\ event' \in [Tasks -> Event \cup {None}]
<1>1. /\ holder' \in Tasks \cup {None} /\ waiters' \in Seq(Tasks)
      /\ event' \in [Tasks -> Event \cup {None}]
  BY DEF Inv, TypeOK
<1>2. \A i \in 1..Len(waiters') : waiters'[i] \in Tasks /\ pc'[waiters'[i]] = "queued"
  BY <1>1 DEF Inv, WaitersOK, NoneNested
<1>3. \A i \in 1..Len(waiters') : waiters'[i] # holder'
  BY <1>2 DEF Inv, LockDiscipline, Inside
<1>4. Unsettled' = Pairs(Line(holder', waiters'), event')
  BY <1>1, <1>3, QueueIsLine DEF Unsettled
<1> QED BY <1>1, <1>4

\* The holder leaves: the head of the queue is settled.
LEMMA HeadSettled ==
  ASSUME Inv, NoneNested, Inv', NoneNested', NEW t \in Tasks, holder = t,
         NEW where, Leave(t, where), waiters' = waiters
  PROVE  /\ Unsettled # <<>> /\ Head(Unsettled) = <<t, event[t]>>
         /\ Unsettled' = Tail(Unsettled)
<1>1. Unsettled' = Pairs(waiters, event')
  BY UnsettledIsLineNext DEF Leave, Line
<1>2. \A i \in 1..Len(waiters) : event'[waiters[i]] = event[waiters[i]]
  BY UnsettledIsLine DEF Leave
<1>3. Pairs(waiters, event') = Pairs(waiters, event)
  BY <1>2, UnsettledIsLine, PairsAgree
<1> QED BY <1>1, <1>3, UnsettledIsLine, PairsTail

----------------------------------------------------------------------------
(* Each step of the engine is a step of the serial statechart or none.     *)

Idles == UNCHANGED <<current, disk, Unsettled>>

LEMMA IdlesStutters == ASSUME Idles PROVE UNCHANGED Serial!vars
  BY DEF Idles, Serial!vars

LEMMA Refuses ==
  ASSUME Inv, NoneNested, Inv', NoneNested', NEW t \in Tasks, holder = t,
         NEW where, Leave(t, where), UNCHANGED <<waiters, current, disk>>
  PROVE  Serial!Refuse
  BY HeadSettled DEF Serial!Refuse

LEMMA UnwindSerial ==
  ASSUME Inv, NoneNested, Inv', NoneNested', NEW t \in Tasks, holder = t,
         NEW n, NEW exc, Unwind(t, n, exc)
  PROVE  Serial!Refuse \/ Idles
<1>1. UNCHANGED <<waiters, current, disk>>
  BY DEF Unwind
<1>2. CASE Leave(t, "idle")
  BY <1>1, <1>2, Refuses
<1>3. CASE UNCHANGED <<holder, event>>
  BY <1>1, <1>3, UnsettledIsLine, UnsettledIsLineNext DEF Idles
<1> QED BY <1>2, <1>3 DEF Unwind, Return, Raise

LEMMA StepSerial ==
  ASSUME Inv, NoneNested, Inv', NoneNested', NEW t \in Tasks, Step(t)
  PROVE  Serial!Next \/ Idles
<1>1. ASSUME UNCHANGED <<holder, waiters, event, current, disk>> PROVE Idles
  BY <1>1, UnsettledIsLine, UnsettledIsLineNext DEF Idles
<1>2. ASSUME pc[t] \in {"locked", "acting", "external", "posting"} PROVE holder = t
  BY <1>2 DEF Inv, LockDiscipline, Inside
<1>3. CASE Acquire(t)
  <2>1. waiters \in Seq(Tasks) /\ waiters # <<>> /\ Line(t, Tail(waiters)) = waiters
    <3>1. waiters \in Seq(Tasks) /\ waiters # <<>> /\ t = Head(waiters)
      BY <1>3 DEF Acquire, Inv, TypeOK
    <3>2. Line(t, Tail(waiters)) = <<Head(waiters)>> \o Tail(waiters)
      BY <3>1, TaskAssumption DEF Line
    <3> QED BY <3>1, <3>2
  <2>2. Line(holder, waiters) = waiters /\ Line(holder', waiters') = waiters
    BY <1>3, <2>1 DEF Acquire, Line
  <2> QED BY <1>3, <2>2, UnsettledIsLine, UnsettledIsLineNext DEF Acquire, Idles
<1>4. CASE Choose(t)
  <2>1. CASE UNCHANGED <<lock, event, current, disk>>
    BY <1>1, <2>1 DEF lock
  <2>2. CASE Leave(t, "idle") /\ UNCHANGED <<waiters, current, disk>>
    BY <1>2, <1>4, <2>2, Refuses DEF Choose, Serial!Next
  <2> QED BY <1>4, <2>1, <2>2 DEF Choose, Return, engine
<1>5. CASE Commit(t)
  <2>1. pc[t] \in Stacked /\ holder = t
    BY <1>2, <1>5 DEF Commit, Acting, Stacked
  <2>2. /\ Unsettled # <<>> /\ Head(Unsettled) = <<t, event[t]>>
        /\ Unsettled' = Tail(Unsettled)
    BY <1>5, <2>1, HeadSettled DEF Commit, Return, Raise
  <2>3. current' = target[t] /\ current' \in Targets(current, event[t])
    BY <1>5, <2>1, Busy DEF Commit
  <2>4. Saved' \in {Saved, current'}
    <3>1. CASE disk' = disk
      BY <3>1 DEF Saved
    <3>2. CASE disk' = Persisted(target[t])
      <4>1. Persisted(target[t]) # None
        <5>1. target[t] \in States
          BY <2>1, Busy
        <5>2. Persisted(target[t]) \in [state : States, context : [Keys \ Excluded -> Int]]
          BY <5>1 DEF Persisted, Persistable, Context, Inv, TypeOK
        <5> QED BY <5>2, FileAssumption
      <4> QED BY <2>3, <3>2, <4>1 DEF Saved, Persisted
    <3> QED BY <1>5, <3>1, <3>2 DEF Commit
  <2>5. Serial!Move
    BY <2>2, <2>3, <2>4 DEF Serial!Move, Saved
  <2> QED BY <2>5 DEF Serial!Next
<1>6. CASE Do(t) \/ StartExternal(t) \/ SkipSend(t) \/ PostEnds(t)
  BY <1>1, <1>6 DEF Do, StartExternal, SkipSend, PostEnds, lock, engine
<1>7. CASE BackOff(t) \/ Retry(t) \/ EndFallback(t)
  BY <1>1, <1>7 DEF BackOff, Retry, EndFallback, lock, engine
<1>8. CASE Exhaust(t)
  <2>1. UNCHANGED <<holder, event, current, disk>>
    BY <1>8 DEF Exhaust
  <2>2. pc \in [Tasks -> PCs] /\ pc'[t] # "nested"
    BY DEF Inv, TypeOK, NoneNested
  <2>3. waiters' = waiters
    BY <1>8, <2>2 DEF Exhaust
  <2> QED BY <1>1, <2>1, <2>3
<1>9. CASE Fail(t) \/ EndExternal(t) \/ Post(t)
  <2>1. holder = t
    BY <1>2, <1>9 DEF Fail, EndExternal, Post, Sending, Acting
  <2>2. \/ \E n, exc : Unwind(t, n, exc)
        \/ UNCHANGED <<holder, waiters, event, current, disk>>
    BY <1>9 DEF Fail, EndExternal, Post, lock, engine
  <2> QED BY <1>1, <2>1, <2>2, UnwindSerial DEF Serial!Next
<1> QED BY <1>3, <1>4, <1>5, <1>6, <1>7, <1>8, <1>9 DEF Step

LEMMA DeliverSerial ==
  ASSUME Inv, NoneNested, Inv', NoneNested', NEW t \in Tasks, NEW e \in Event,
         Deliver(t, e)
  PROVE  Serial!Arrive(t, e)
<1> DEFINE l == Line(holder, waiters)
<1>1. l \in Seq(Tasks) /\ \A i \in 1..Len(l) : l[i] # t
  <2>1. pc[t] = "idle" /\ holder # t
    BY DEF Deliver, Inv, LockDiscipline, Inside
  <2>2. \A i \in 1..Len(waiters) : waiters[i] # t
    BY <2>1, UnsettledIsLine
  <2> QED BY <2>1, <2>2, UnsettledIsLine, LineSeq, LineElements
<1>2. Line(holder', waiters') = Append(l, t)
  <2>1. CASE holder = None /\ waiters = <<>>
    BY <2>1, TaskAssumption DEF Deliver, Line
  <2>2. CASE ~(holder = None /\ waiters = <<>>)
    <3>1. holder' = holder /\ waiters' = Append(waiters, t) /\ waiters \in Seq(Tasks)
      BY <2>2, UnsettledIsLine DEF Deliver
    <3>2. \A h \in Tasks : <<h>> \o Append(waiters, t) = Append(<<h>> \o waiters, t)
      BY <3>1
    <3> QED BY <3>1, <3>2, UnsettledIsLine DEF Line
  <2> QED BY <2>1, <2>2
<1>3. /\ event' = [event EXCEPT ![t] = e] /\ UNCHANGED <<current, disk>>
      /\ event \in [Tasks -> Event \cup {None}] /\ event' \in [Tasks -> Event \cup {None}]
  BY UnsettledIsLine, UnsettledIsLineNext DEF Deliver
<1> HIDE DEF l
<1>4. Pairs(Append(l, t), event') = Append(Pairs(l, event), <<t, e>>)
  <2>1. event'[t] = e /\ \A i \in 1..Len(l) : event'[l[i]] = event[l[i]]
    BY <1>1, <1>3
  <2>2. Pairs(Append(l, t), event') = Append(Pairs(l, event), <<t, event'[t]>>)
    <3>1. /\ l \in Seq(Tasks) /\ event \in [Tasks -> Event \cup {None}]
          /\ event' \in [Tasks -> Event \cup {None}]
          /\ \A i \in 1..Len(l) : event'[l[i]] = event[l[i]]
      BY <1>1, <1>3, <2>1
    <3> QED BY <3>1, PairsAppend
  <2> QED BY <2>1, <2>2
<1>5. Unsettled = Pairs(l, event) /\ Unsettled' = Append(Unsettled, <<t, e>>)
  BY <1>2, <1>4, UnsettledIsLine, UnsettledIsLineNext DEF l
<1>6. \A i \in DOMAIN Unsettled : Unsettled[i][1] # t
  BY <1>1, <1>3, <1>5, PairsSeq
<1> QED BY <1>3, <1>5, <1>6 DEF Serial!Arrive

LEMMA CancelSerial ==
  ASSUME Inv, NoneNested, Inv', NoneNested', NEW t \in Tasks, Cancel(t)
  PROVE  Serial!Refuse \/ Serial!Drop \/ Idles
<1>1. /\ Leave(t, "cancelled") /\ UNCHANGED <<current, disk>>
      /\ pc[t] # "nested" /\ event' = [event EXCEPT ![t] = None]
  BY DEF Cancel, Leave, NoneNested
<1>2. CASE holder = t
  <2>1. waiters' = waiters
    <3>1. pc[t] # "queued"
      BY <1>2 DEF Inv, LockDiscipline, Inside
    <3>2. \A i \in DOMAIN waiters : waiters[i] # t
      BY <1>2, UnsettledIsLine
    <3> QED BY <3>1, <3>2 DEF Cancel
  <2> QED BY <1>1, <1>2, <2>1, Refuses
<1>3. CASE holder # t /\ waiters' = waiters /\ pc[t] # "queued"
  <2>1. holder' = holder
    BY <1>1, <1>3 DEF Leave
  <2>2. \A i \in 1..Len(waiters) : waiters[i] # t
    BY <1>3, UnsettledIsLine
  <2> DEFINE l == Line(holder, waiters)
  <2>3. l \in Seq(Tasks) /\ \A i \in 1..Len(l) : l[i] # t
    <3> QED BY <1>3, <2>2, UnsettledIsLine, LineSeq, LineElements
  <2> HIDE DEF l
  <2>4. \A i \in 1..Len(l) : event'[l[i]] = event[l[i]]
    BY <1>1, <2>3, UnsettledIsLine
  <2>5. Pairs(l, event') = Pairs(l, event)
    BY <2>3, <2>4, PairsAgree
  <2> QED BY <1>1, <1>3, <2>1, <2>5, UnsettledIsLine, UnsettledIsLineNext DEF Idles, l
<1>4. ASSUME holder # t, NEW k \in DOMAIN waiters, waiters[k] = t,
             waiters' = Without(waiters, k)
      PROVE  Serial!Drop
  <2> DEFINE l == Line(holder, waiters)
  <2>1. /\ waiters \in Seq(Tasks) /\ holder \in Tasks \cup {None} /\ holder' = holder
        /\ k \in 1..Len(waiters)
    BY <1>1, <1>4, UnsettledIsLine DEF Leave
  <2>0. \A i, j \in 1..Len(waiters) : waiters[i] = waiters[j] => i = j
    BY UnsettledIsLine
  <2>2. PICK i \in 1..Len(l) : /\ Line(holder, Without(waiters, k)) = Without(l, i)
                               /\ \A j \in 1..Len(l) : j # i => l[j] # t
    <3>1. waiters[k] # holder
      BY <1>4
    <3>2. \E i \in 1..Len(l) :
             /\ Line(holder, Without(waiters, k)) = Without(l, i)
             /\ \A j \in 1..Len(l) : j # i => l[j] # waiters[k]
      BY <2>0, <2>1, <3>1, LineWithout
    <3> QED BY <1>4, <3>2
  <2>3. l \in Seq(Tasks)
    BY <2>1, LineSeq
  <2> HIDE DEF l
  <2>4. \A j \in 1..Len(l) : j # i => event'[l[j]] = event[l[j]]
    BY <1>1, <2>2, <2>3, UnsettledIsLine
  <2>5. /\ event \in [Tasks -> Event \cup {None}]
        /\ event' \in [Tasks -> Event \cup {None}]
    BY UnsettledIsLine, UnsettledIsLineNext
  <2>6. Pairs(Without(l, i), event') = Without(Pairs(l, event), i)
    BY <2>3, <2>4, <2>5, PairsWithout
  <2>7. Unsettled' = Without(Unsettled, i) /\ i \in DOMAIN Unsettled
    <3>1. Unsettled' = Pairs(Without(l, i), event')
      BY <1>4, <2>1, <2>2, UnsettledIsLineNext
    <3>2. Unsettled = Pairs(l, event)
      BY UnsettledIsLine DEF l
    <3> QED BY <2>3, <2>5, <2>6, <3>1, <3>2, PairsSeq
  <2> QED BY <1>1, <2>7 DEF Serial!Drop, Without
<1> QED BY <1>2, <1>3, <1>4 DEF Cancel, NoneNested

LEMMA NextSerial ==
  ASSUME Inv, NoneNested, Inv', NoneNested', [Next]_vars
  PROVE  [Serial!Next]_Serial!vars
<1>1. CASE UNCHANGED vars
  <2>1. Idles
    BY <1>1, UnsettledIsLine, UnsettledIsLineNext DEF vars, engine, lock, tasks, Idles
  <2> QED BY <2>1, IdlesStutters
<1>2. CASE SaveAtShutdown
  <2>1. UNCHANGED <<current, Unsettled>>
    BY <1>2, UnsettledIsLine, UnsettledIsLineNext DEF SaveAtShutdown, lock, tasks
  <2>2. CASE disk' = disk
    BY <2>1, <2>2, IdlesStutters DEF Idles
  <2>3. CASE disk' = Persisted(current)
    <3>1. Persisted(current) \in [state : States, context : [Keys \ Excluded -> Int]]
      BY DEF Persisted, Persistable, Context, Inv, TypeOK
    <3>2. Saved' = current
      BY <2>3, <3>1, FileAssumption DEF Saved, Persisted
    <3>3. Serial!Save
      BY <2>1, <3>2 DEF Serial!Save, Saved
    <3> QED BY <3>3 DEF Serial!Next
  <2> QED BY <1>2, <2>2, <2>3 DEF SaveAtShutdown
<1>3. CASE Restart
  <2>1. Unsettled' = <<>>
    BY <1>3, UnsettledIsLineNext DEF Restart, Line, Pairs
  <2>2. Serial!Restart
    BY <1>3, <2>1 DEF Restart, Serial!Restart
  <2> QED BY <2>2 DEF Serial!Next
<1>4. ASSUME NEW t \in Tasks, Step(t) \/ Cancel(t) \/ \E e \in Event : Deliver(t, e)
      PROVE  [Serial!Next]_Serial!vars
  BY <1>4, StepSerial, CancelSerial, DeliverSerial, IdlesStutters DEF Serial!Next
<1> QED BY <1>1, <1>2, <1>3, <1>4 DEF Next

\* Without on_exhaust the engine implements the serial statechart: events are
\* taken one at a time in the order of arrival, and each moves the state along
\* a transition it leaves or changes nothing.  (statechart.py:316-429)
THEOREM ImplementsSerial == ~OnExhaust => (Spec => SerialSpec)
<1> SUFFICES ASSUME ~OnExhaust PROVE Spec => SerialSpec
  OBVIOUS
<1>1. Init => Serial!Init
  <2> SUFFICES ASSUME Init PROVE Serial!Init
    OBVIOUS
  <2>1. holder = None /\ waiters = <<>> /\ NoneNested
    BY DEF Init, NoneNested
  <2>2. Unsettled = Pairs(<<>>, event)
    BY <2>1, InitInv, UnsettledIsLine DEF Line
  <2>3. Unsettled = <<>>
    BY <2>2 DEF Pairs
  <2> QED BY <2>3 DEF Init, Serial!Init
<1>2. Init => NoneNested
  BY DEF Init, NoneNested
<1>3. Inv /\ NoneNested /\ [Next]_vars => NoneNested'
  BY NoneNestedKept
<1>4. Inv /\ NoneNested /\ Inv' /\ NoneNested' /\ [Next]_vars => [Serial!Next]_Serial!vars
  BY NextSerial
<1> QED BY <1>1, <1>2, <1>3, <1>4, InvHolds, PTL DEF Spec, SerialSpec, Serial!Spec
=============================================================================
