---------------------------- MODULE Statechart_proofs ----------------------------
(***************************************************************************)
(* Theorems about Statechart, for every plugin, every set of tasks and     *)
(* every bound.  One inductive invariant, Inv, carries them all.           *)
(***************************************************************************)
EXTENDS Statechart, SequenceTheorems, TLAPS

\* A list of frames: only the transition's own frame and the first fallback's
\* were entered with from_fallback clear, and every frame but the top one is
\* held up at an action of its list.
Piled(s) ==
  /\ s \in Seq(Frame)
  /\ \A i \in 1..Len(s) : s[i].saved <=> i > 2
  /\ \A i \in 1..Len(s) - 1 : s[i].todo # <<>>

Stacked == {"acting", "external", "posting", "backoff", "nested"}
StackOK ==
  \A t \in Tasks :
    /\ Piled(stack[t])
    /\ stack[t] # <<>> <=> pc[t] \in Stacked
    /\ pc[t] \in Stacked \ {"acting"} => Top(t).todo # <<>>

\* A task that is not idle has an event, and aims, once it has chosen, at a
\* target of the state the engine is still in.
EventOK ==
  \A t \in Tasks : /\ pc[t] \notin {"idle", "cancelled"} => event[t] \in Event
                   /\ stack[t] # <<>> => target[t] \in Targets(current, event[t])

\* The lock's queue holds tasks that wait for it, each of them once.
WaitersOK ==
  /\ \A i \in 1..Len(waiters) : pc[waiters[i]] \in {"queued", "nested"}
  /\ \A i, j \in 1..Len(waiters) : waiters[i] = waiters[j] => i = j

Inv == /\ TypeOK /\ LockDiscipline /\ StackOK /\ EventOK /\ WaitersOK
       /\ FallbackFlagScoped

\* The variables no lemma about control looks at.
DataOK ==
  /\ current \in States /\ context \in Context
  /\ disk \in {None} \cup [state : States, context : [Keys \ Excluded -> Int]]
  /\ last \in Results \cup {None}
  /\ arrivals \in 0..MaxArrivals /\ boots \in 1..MaxBoots
  /\ drained \in BOOLEAN

----------------------------------------------------------------------------
(* Lists of frames.                                                        *)

LEMMA BelowPiled ==
  ASSUME NEW s, Piled(s), NEW i \in 1..Len(s) + 1
  PROVE  /\ Piled(Below(s, i)) /\ Len(Below(s, i)) = i - 1
         /\ \A j \in 1..i - 1 : Below(s, i)[j] = s[j]
  BY DEF Piled, Below

\* Replacing the top of what is below i by a frame entered like s[i].
LEMMA ReplacePiled ==
  ASSUME NEW s, Piled(s), NEW i \in 1..Len(s),
         NEW f \in Frame, f.saved = s[i].saved
  PROVE  /\ Piled(Append(Below(s, i), f)) /\ Len(Append(Below(s, i), f)) = i
         /\ Append(Below(s, i), f)[i] = f
<1> DEFINE b == Below(s, i)
<1>1. /\ Piled(b) /\ Len(b) = i - 1 /\ \A j \in 1..i - 1 : b[j] = s[j]
  BY BelowPiled DEF Piled
<1>2. /\ Append(b, f) \in Seq(Frame) /\ Len(Append(b, f)) = i /\ Append(b, f)[i] = f
      /\ \A j \in 1..i - 1 : Append(b, f)[j] = s[j]
  BY <1>1 DEF Piled
<1>3. \A j \in 1..i : Append(b, f)[j].saved <=> j > 2
  BY <1>1, <1>2 DEF Piled
<1>4. \A j \in 1..i - 1 : Append(b, f)[j].todo # <<>>
  BY <1>1, <1>2 DEF Piled
<1> QED BY <1>2, <1>3, <1>4 DEF Piled

LEMMA AdvancedPiled ==
  ASSUME NEW s, Piled(s), s # <<>>, s[Len(s)].todo # <<>>
  PROVE  Piled(Advanced(s)) /\ Len(Advanced(s)) = Len(s)
<1> DEFINE f == [s[Len(s)] EXCEPT !.todo = Tail(@)]
<1>1. Len(s) \in 1..Len(s) /\ s[Len(s)] \in Frame
  BY DEF Piled
<1>2. Tail(s[Len(s)].todo) \in Seq(Action)
  BY <1>1 DEF Frame
<1>3. f \in Frame /\ f.saved = s[Len(s)].saved
  BY <1>1, <1>2 DEF Frame
<1>4. Advanced(s) = Append(Below(s, Len(s)), f)
  BY DEF Advanced
<1> HIDE DEF f
<1> QED BY <1>1, <1>3, <1>4, ReplacePiled

LEMMA ResentPiled ==
  ASSUME NEW s, Piled(s), NEW i \in 1..Len(s), s[i].todo # <<>>
  PROVE  Piled(Resent(s, i)) /\ Len(Resent(s, i)) = i
<1> DEFINE a == [Head(s[i].todo) EXCEPT !.metadata = "dropped"]
           f == [s[i] EXCEPT !.todo = <<[Head(@) EXCEPT !.metadata = "dropped"]>> \o Tail(@)]
<1>1. s[i] \in Frame
  BY DEF Piled
<1>2. Head(s[i].todo) \in Action /\ Tail(s[i].todo) \in Seq(Action)
  BY <1>1 DEF Frame
<1>3. a \in Action
  BY <1>2 DEF Action
<1>4. <<a>> \o Tail(s[i].todo) \in Seq(Action)
  BY <1>2, <1>3
<1>5. f \in Frame /\ f.saved = s[i].saved
  BY <1>1, <1>4 DEF Frame
<1>6. Resent(s, i) = Append(Below(s, i), f)
  BY DEF Resent
<1> HIDE DEF f
<1> QED BY <1>5, <1>6, ReplacePiled

----------------------------------------------------------------------------
(* What an action can do to the control state: leave the lock, go on with  *)
(* the loop, or suspend with the lock.  Each keeps Inv.                    *)

\* Only the holder has a list of actions.
LEMMA OnlyHolder ==
  ASSUME Inv
  PROVE  /\ \A t \in Tasks : stack[t] # <<>> => holder = t
         /\ \A t \in Tasks : Inside(t) /\ pc[t] # "locked" => stack[t] # <<>>
         /\ \A t \in Tasks : Len(stack[t]) > 1 => holder = t
  BY DEF Inv, StackOK, LockDiscipline, Inside, Stacked, TypeOK

LEMMA WaitersKept ==
  ASSUME Inv, NEW t \in Tasks, NEW p, pc' = [pc EXCEPT ![t] = p],
         pc[t] \notin {"queued", "nested"}, waiters' = waiters
  PROVE  WaitersOK'
<1>0. waiters \in Seq(Tasks)
  BY DEF Inv, TypeOK
<1>1. \A i \in 1..Len(waiters) : waiters[i] \in Tasks /\ waiters[i] # t
  BY <1>0 DEF Inv, WaitersOK
<1>2. \A u \in Tasks \ {t} : pc'[u] = pc[u]
  BY DEF Inv, TypeOK
<1> QED BY <1>1, <1>2 DEF Inv, WaitersOK

LEMMA WaitersJoined ==
  ASSUME WaitersOK, waiters \in Seq(Tasks), NEW t \in Tasks,
         \A i \in 1..Len(waiters) : waiters[i] # t,
         \A u \in Tasks \ {t} : pc'[u] = pc[u], pc'[t] \in {"queued", "nested"},
         waiters' = Append(waiters, t)
  PROVE  waiters' \in Seq(Tasks) /\ WaitersOK'
<1>1. /\ waiters' \in Seq(Tasks)
      /\ Len(waiters') = Len(waiters) + 1 /\ waiters'[Len(waiters) + 1] = t
      /\ \A i \in 1..Len(waiters) : waiters'[i] = waiters[i]
  OBVIOUS
<1>2. \A i \in 1..Len(waiters') : i \in 1..Len(waiters) \/ i = Len(waiters) + 1
  BY <1>1
<1>3. \A i \in 1..Len(waiters) : pc'[waiters[i]] = pc[waiters[i]]
  OBVIOUS
<1>4. \A i \in 1..Len(waiters') : pc'[waiters'[i]] \in {"queued", "nested"}
  BY <1>1, <1>2, <1>3 DEF WaitersOK
<1>5. \A i, j \in 1..Len(waiters') : waiters'[i] = waiters'[j] => i = j
  BY <1>1, <1>2 DEF WaitersOK
<1> QED BY <1>1, <1>4, <1>5 DEF WaitersOK

LEMMA LeaveInv ==
  ASSUME Inv, DataOK', WaitersOK', NEW t \in Tasks, NEW where \in {"idle", "cancelled"},
         Leave(t, where), running \in {None, t}, waiters' \in Seq(Tasks),
         fromFallback' = Restored(stack[t], 2),
         current' # current => holder = t
  PROVE  Inv'
<1> USE TaskAssumption DEF Inv, Leave
<1>1. TypeOK'
  <2>1. fromFallback' \in BOOLEAN
    <3>1. Len(stack[t]) >= 2 => stack[t][2] \in Frame
      BY DEF StackOK, Piled
    <3> QED BY <3>1 DEF Restored, TypeOK, StackOK, Piled, Frame
  <2>2. <<>> \in Seq(Frame) /\ where \in PCs /\ 0 \in 0..MaxRetries
    BY PolicyAssumption DEF PCs
  <2> QED BY <2>1, <2>2 DEF TypeOK, DataOK
<1>2. LockDiscipline'
  BY DEF LockDiscipline, Inside, TypeOK
<1>3. StackOK'
  <2>1. Piled(<<>>)
    BY DEF Piled
  <2> QED BY <2>1 DEF StackOK, Stacked, TypeOK, Top
<1>4. EventOK'
  <2> SUFFICES ASSUME NEW u \in Tasks
               PROVE  /\ pc'[u] \notin {"idle", "cancelled"} => event'[u] \in Event
                      /\ stack'[u] # <<>> => target'[u] \in Targets(current', event'[u])
    BY DEF EventOK
  <2>1. CASE u = t
    BY <2>1 DEF TypeOK
  <2>2. CASE u # t
    <3>1. stack[u] # <<>> => current' = current
      BY <2>2, OnlyHolder
    <3> QED BY <2>2, <3>1 DEF EventOK, TypeOK
  <2> QED BY <2>1, <2>2
<1>5. FallbackFlagScoped'
  <2>1. CASE Len(stack[t]) > 1
    <3>1. ~fromFallback'
      BY <2>1 DEF Restored, StackOK, Piled
    <3>2. \A u \in Tasks : ~(Len(stack'[u]) > 1)
      BY <2>1, OnlyHolder DEF TypeOK
    <3> QED BY <3>1, <3>2 DEF FallbackFlagScoped
  <2>2. CASE ~(Len(stack[t]) > 1)
    <3>1. fromFallback' = fromFallback
      BY <2>2 DEF Restored, TypeOK
    <3>2. \A u \in Tasks : Len(stack'[u]) > 1 <=> Len(stack[u]) > 1
      BY <2>2 DEF TypeOK
    <3> QED BY <3>1, <3>2 DEF FallbackFlagScoped
  <2> QED BY <2>1, <2>2
<1> QED BY <1>1, <1>2, <1>3, <1>4, <1>5

LEMMA RunInv ==
  ASSUME Inv, DataOK', NEW t \in Tasks, holder = t, pc[t] # "nested", running \in {None, t},
         running' = t, holder' = holder, waiters' = waiters, event' = event,
         current' = current, pc' = [pc EXCEPT ![t] = "acting"],
         NEW s, Piled(s), s # <<>>, stack' = [stack EXCEPT ![t] = s],
         fromFallback' \in BOOLEAN, fromFallback' <=> Len(s) > 1,
         target' \in [Tasks -> States \cup {None}],
         \A u \in Tasks \ {t} : target'[u] = target[u],
         target'[t] \in Targets(current, event[t]),
         attempt' \in [Tasks -> 0..MaxRetries]
  PROVE  Inv'
<1> USE TaskAssumption DEF Inv
<1>1. TypeOK'
  <2>1. s \in Seq(Frame) /\ "acting" \in PCs
    BY DEF Piled, PCs
  <2> QED BY <2>1 DEF TypeOK, DataOK
<1>2. LockDiscipline'
  BY DEF LockDiscipline, Inside, TypeOK
<1>3. StackOK'
  BY DEF StackOK, Stacked, TypeOK, Top
<1>4. EventOK'
  <2>1. pc[t] \notin {"idle", "cancelled"}
    BY DEF LockDiscipline, Inside
  <2> SUFFICES ASSUME NEW u \in Tasks
               PROVE  /\ pc'[u] \notin {"idle", "cancelled"} => event'[u] \in Event
                      /\ stack'[u] # <<>> => target'[u] \in Targets(current', event'[u])
    BY DEF EventOK
  <2> QED BY <2>1 DEF EventOK, TypeOK
<1>5. FallbackFlagScoped'
  <2>1. \A u \in Tasks : Len(stack'[u]) > 1 <=> u = t /\ Len(s) > 1
    BY OnlyHolder DEF TypeOK
  <2> QED BY <2>1 DEF FallbackFlagScoped
<1>6. WaitersOK'
  BY WaitersKept DEF LockDiscipline, Inside
<1> QED BY <1>1, <1>2, <1>3, <1>4, <1>5, <1>6

LEMMA SuspendInv ==
  ASSUME Inv, DataOK', WaitersOK', NEW t \in Tasks, holder = t, running \in {None, t},
         running' = None, holder' = holder, waiters' \in Seq(Tasks),
         event' = event, current' = current, stack' = stack, target' = target,
         fromFallback' = fromFallback, stack[t] # <<>>, Top(t).todo # <<>>,
         NEW p \in Stacked \ {"acting"}, pc' = [pc EXCEPT ![t] = p],
         attempt' \in [Tasks -> 0..MaxRetries]
  PROVE  Inv'
<1> USE TaskAssumption DEF Inv
<1>1. TypeOK'
  BY DEF TypeOK, DataOK, PCs, Stacked
<1>2. LockDiscipline'
  BY DEF LockDiscipline, Inside, TypeOK, Stacked
<1>3. StackOK'
  BY DEF StackOK, Stacked, TypeOK, Top
<1>4. EventOK'
  <2> SUFFICES ASSUME NEW u \in Tasks
               PROVE  /\ pc'[u] \notin {"idle", "cancelled"} => event'[u] \in Event
                      /\ stack'[u] # <<>> => target'[u] \in Targets(current', event'[u])
    BY DEF EventOK
  <2> QED BY DEF EventOK, TypeOK, Stacked, StackOK
<1>5. FallbackFlagScoped'
  BY DEF FallbackFlagScoped
<1> QED BY <1>1, <1>2, <1>3, <1>4, <1>5

----------------------------------------------------------------------------
(* The actions.                                                            *)

\* What a task that runs an action, or waits for one to end, looks like.
LEMMA Busy ==
  ASSUME Inv, NEW t \in Tasks, pc[t] \in Stacked
  PROVE  /\ holder = t /\ stack[t] # <<>> /\ Piled(stack[t])
         /\ target[t] \in Targets(current, event[t]) /\ target[t] \in States
         /\ event[t] \in Event
         /\ Len(stack[t]) \in Nat \ {0} /\ Top(t) \in Frame
         /\ pc[t] # "acting" => Top(t).todo # <<>>
         /\ Top(t).todo # <<>> => Current(t) \in Action
         /\ fromFallback <=> Len(stack[t]) > 1
<1> USE DEF Inv
<1>1. holder = t /\ stack[t] # <<>> /\ Piled(stack[t])
  BY DEF LockDiscipline, Inside, Stacked, StackOK
<1>2. Len(stack[t]) \in Nat \ {0} /\ Top(t) \in Frame
  BY <1>1 DEF Piled, Top
<1>3. /\ target[t] \in Targets(current, event[t]) /\ target[t] \in States
      /\ event[t] \in Event
  BY <1>1 DEF EventOK, Targets, Stacked
<1>4. pc[t] # "acting" => Top(t).todo # <<>>
  BY DEF StackOK
<1>5. Top(t).todo # <<>> => Current(t) \in Action
  BY <1>2 DEF Current, Frame
<1>6. fromFallback <=> Len(stack[t]) > 1
  BY <1>1, OnlyHolder, TaskAssumption DEF FallbackFlagScoped
<1> QED BY <1>1, <1>2, <1>3, <1>4, <1>5, <1>6

\* The current action is over, whatever it did to the context and the attempts.
LEMMA GoOnInv ==
  ASSUME Inv, DataOK', NEW t \in Tasks, pc[t] \in Stacked \ {"nested"},
         Top(t).todo # <<>>, running \in {None, t}, GoOn(t),
         UNCHANGED <<holder, waiters, event, target, current, fromFallback>>,
         attempt' \in [Tasks -> 0..MaxRetries]
  PROVE  Inv'
<1> DEFINE s == Advanced(stack[t])
<1>1. Piled(s) /\ Len(s) = Len(stack[t])
  BY Busy, AdvancedPiled DEF Top
<1>2. s # <<>>
  BY <1>1, Busy DEF Piled
<1>3. stack' = [stack EXCEPT ![t] = s]
  BY DEF GoOn
<1>4. /\ fromFallback' \in BOOLEAN
      /\ fromFallback' <=> Len(s) > 1
      /\ target' \in [Tasks -> States \cup {None}]
  BY <1>1, Busy DEF Inv, TypeOK
<1>5. /\ target'[t] \in Targets(current, event[t])
      /\ \A u \in Tasks \ {t} : target'[u] = target[u]
  BY Busy
<1>6. holder = t /\ running' = t /\ pc' = [pc EXCEPT ![t] = "acting"]
  BY Busy DEF GoOn
<1> HIDE DEF s
<1> QED BY <1>1, <1>2, <1>3, <1>4, <1>5, <1>6, RunInv

LEMMA UnwindInv ==
  ASSUME Inv, NEW t \in Tasks, pc[t] \in Stacked \ {"nested"},
         Top(t).todo # <<>>, running \in {None, t}, NEW exc \in Errors,
         NEW n \in {Len(stack[t]) - 1, Len(stack[t])}, Unwind(t, n, exc)
  PROVE  Inv'
<1>1. DataOK'
  BY DEF Unwind, Return, Raise, Inv, TypeOK, DataOK, Results
<1>2. CASE \E i \in Handlers(t, n, exc) :
             /\ fromFallback' = Restored(stack[t], i + 1)
             /\ stack' = [stack EXCEPT ![t] = Resent(@, i)]
             /\ running' = t /\ pc' = [pc EXCEPT ![t] = "acting"]
             /\ UNCHANGED <<holder, event, target, attempt, last>>
  <2>1. PICK i \in Handlers(t, n, exc) :
             /\ fromFallback' = Restored(stack[t], i + 1)
             /\ stack' = [stack EXCEPT ![t] = Resent(@, i)]
             /\ running' = t /\ pc' = [pc EXCEPT ![t] = "acting"]
             /\ UNCHANGED <<holder, event, target, attempt, last>>
    BY <1>2
  <2> DEFINE s == Resent(stack[t], i)
  <2>2. i \in 1..Len(stack[t])
    BY Busy DEF Handlers, Highest
  <2>3. stack[t][i].todo # <<>>
    BY <2>2, Busy DEF Piled, Top
  <2>4. Piled(s) /\ Len(s) = i
    BY <2>2, <2>3, Busy, ResentPiled
  <2>5. s # <<>>
    BY <2>2, <2>4 DEF Piled
  <2>6. fromFallback' <=> i > 1
    BY <2>1, <2>2, Busy DEF Restored, Piled
  <2>7. fromFallback' \in BOOLEAN
    <3>1. i + 1 <= Len(stack[t]) => stack[t][i + 1] \in Frame
      BY <2>2, Busy DEF Piled
    <3> QED BY <2>1, <3>1 DEF Restored, Frame, Inv, TypeOK
  <2>8. stack' = [stack EXCEPT ![t] = s]
    BY <2>1
  <2>9. /\ target' \in [Tasks -> States \cup {None}]
        /\ attempt' \in [Tasks -> 0..MaxRetries]
    BY <2>1 DEF Inv, TypeOK
  <2> HIDE DEF s
  <2> QED BY <1>1, <2>1, <2>4, <2>5, <2>6, <2>7, <2>8, <2>9, Busy, RunInv DEF Unwind
<1>3. CASE /\ fromFallback' = Restored(stack[t], 2)
           /\ Return(t, "no_transition") \/ Raise(t)
  <2>1. /\ running \in {None, t} /\ waiters' \in Seq(Tasks) /\ Leave(t, "idle")
        /\ current' = current
    BY <1>3 DEF Unwind, Return, Raise, Inv, TypeOK
  <2>2. WaitersOK'
    BY <2>1, WaitersKept DEF Leave, Stacked, Unwind
  <2> QED BY <1>1, <1>3, <2>1, <2>2, LeaveInv
<1> QED BY <1>2, <1>3 DEF Unwind

LEMMA InitInv == ASSUME Init PROVE Inv
<1> USE TaskAssumption, ChartAssumption, PolicyAssumption, BoundAssumption DEF Init
<1>1. TypeOK
  <2>1. <<>> \in Seq(Tasks) /\ <<>> \in Seq(Frame) /\ "idle" \in PCs
    BY DEF PCs
  <2>2. 0 \in 0..MaxRetries /\ 0 \in 0..MaxArrivals /\ 1 \in 1..MaxBoots
    OBVIOUS
  <2> QED BY <2>1, <2>2 DEF TypeOK
<1>2. LockDiscipline
  BY DEF LockDiscipline, Inside
<1>3. StackOK
  BY DEF StackOK, Piled, Stacked
<1>4. EventOK /\ WaitersOK /\ FallbackFlagScoped
  BY DEF EventOK, WaitersOK, FallbackFlagScoped
<1> QED BY <1>1, <1>2, <1>3, <1>4 DEF Inv

LEMMA DeliverInv ==
  ASSUME Inv, NEW t \in Tasks, NEW e \in Event, Deliver(t, e)
  PROVE  Inv'
<1> USE TaskAssumption, BoundAssumption DEF Inv, Deliver
<1>1. stack' = stack /\ target' = target /\ current' = current /\ stack[t] = <<>>
  BY DEF StackOK, Stacked
<1>2. TypeOK'
  <2>1. waiters' \in Seq(Tasks)
    <3>1. waiters \in Seq(Tasks)
      BY DEF TypeOK
    <3>2. waiters' \in {waiters, Append(waiters, t)}
      OBVIOUS
    <3> HIDE DEF Inv, Deliver
    <3> QED BY <3>1, <3>2
  <2>2. pc' \in [Tasks -> PCs]
    BY DEF TypeOK, PCs
  <2>3. event' \in [Tasks -> Event \cup {None}]
    <3>1. event \in [Tasks -> Event \cup {None}]
      BY DEF TypeOK
    <3>2. event' = [event EXCEPT ![t] = e]
      OBVIOUS
    <3> HIDE DEF Inv, Deliver
    <3> QED BY <3>1, <3>2
  <2>4. holder' \in Tasks \cup {None} /\ running' \in Tasks \cup {None}
    BY DEF TypeOK
  <2>5. arrivals' \in 0..MaxArrivals
    BY DEF TypeOK
  <2>6. /\ UNCHANGED <<current, context, fromFallback, disk, target, stack>>
        /\ UNCHANGED <<attempt, last, boots, drained>>
    OBVIOUS
  <2>7. TypeOK
    OBVIOUS
  <2> HIDE DEF Inv, Deliver
  <2> QED BY <2>1, <2>2, <2>3, <2>4, <2>5, <2>6, <2>7 DEF TypeOK
<1>3. LockDiscipline'
  BY DEF LockDiscipline, Inside, TypeOK
<1>4. StackOK'
  BY <1>1 DEF StackOK, Stacked, TypeOK, Top
<1>5. EventOK'
  <2> SUFFICES ASSUME NEW u \in Tasks
               PROVE  /\ pc'[u] \notin {"idle", "cancelled"} => event'[u] \in Event
                      /\ stack'[u] # <<>> => target'[u] \in Targets(current', event'[u])
    BY DEF EventOK
  <2> QED BY <1>1 DEF EventOK, TypeOK
<1>6. FallbackFlagScoped'
  BY <1>1 DEF FallbackFlagScoped
<1>7. WaitersOK'
  <2>1. /\ waiters \in Seq(Tasks) /\ \A i \in 1..Len(waiters) : waiters[i] # t
        /\ \A u \in Tasks \ {t} : pc'[u] = pc[u]
    BY DEF WaitersOK, TypeOK
  <2>2. CASE waiters' = waiters
    BY <2>1, <2>2 DEF WaitersOK
  <2>3. CASE waiters' = Append(waiters, t) /\ pc' = [pc EXCEPT ![t] = "queued"]
    <3>1. pc'[t] = "queued"
      BY <2>3 DEF TypeOK
    <3> QED BY <2>1, <2>3, <3>1, WaitersJoined
  <2> QED BY <2>2, <2>3
<1> QED BY <1>2, <1>3, <1>4, <1>5, <1>6, <1>7

LEMMA AcquireInv ==
  ASSUME Inv, NEW t \in Tasks, Acquire(t)
  PROVE  Inv'
<1> USE TaskAssumption DEF Inv, Acquire
<1>0. /\ waiters \in Seq(Tasks) /\ Len(waiters) \in Nat \ {0} /\ waiters[1] = t
      /\ Len(waiters') = Len(waiters) - 1
      /\ \A i \in 1..Len(waiters') : waiters'[i] = waiters[i + 1]
  BY DEF TypeOK
<1>1. /\ stack' = stack /\ target' = target /\ current' = current
      /\ event' = event /\ stack[t] = <<>>
  BY DEF StackOK, Stacked, LockDiscipline, Inside
<1>2. TypeOK'
  <2>1. waiters' \in Seq(Tasks)
    BY DEF TypeOK
  <2>2. pc' \in [Tasks -> PCs]
    BY DEF TypeOK, PCs
  <2> QED BY <2>1, <2>2 DEF TypeOK
<1>3. LockDiscipline'
  BY DEF LockDiscipline, Inside, TypeOK
<1>4. StackOK'
  BY <1>1 DEF StackOK, Stacked, TypeOK, Top
<1>5. EventOK'
  <2> SUFFICES ASSUME NEW u \in Tasks
               PROVE  /\ pc'[u] \notin {"idle", "cancelled"} => event'[u] \in Event
                      /\ stack'[u] # <<>> => target'[u] \in Targets(current', event'[u])
    BY DEF EventOK
  <2>1. pc[t] \in {"queued", "nested"}
    BY <1>0 DEF WaitersOK
  <2> QED BY <1>1, <2>1 DEF EventOK, TypeOK
<1>6. FallbackFlagScoped'
  BY <1>1 DEF FallbackFlagScoped
<1>7. WaitersOK'
  <2>1. \A i \in 1..Len(waiters') : /\ i + 1 \in 1..Len(waiters)
                                    /\ waiters'[i] = waiters[i + 1]
    BY <1>0
  <2>2. \A i \in 1..Len(waiters') : waiters'[i] # t
    BY <1>0, <2>1 DEF WaitersOK
  <2>3. \A i \in 1..Len(waiters') : pc'[waiters'[i]] = pc[waiters'[i]]
    BY <1>0, <2>1, <2>2 DEF TypeOK
  <2> QED BY <2>1, <2>3 DEF WaitersOK
<1> QED BY <1>2, <1>3, <1>4, <1>5, <1>6, <1>7

\* A sequence without its i-th element.
LEMMA RemoveOne ==
  ASSUME NEW S, NEW s \in Seq(S), NEW i \in 1..Len(s)
  PROVE  /\ Without(s, i) \in Seq(S) /\ Len(Without(s, i)) = Len(s) - 1
         /\ \A j \in 1..Len(s) - 1 :
              Without(s, i)[j] = IF j < i THEN s[j] ELSE s[j + 1]
<1> DEFINE a == SubSeq(s, 1, i - 1)
           b == SubSeq(s, i + 1, Len(s))
           n == Len(s)
           r == Without(s, i)
<1>1. n \in Nat /\ i \in Int /\ i >= 1 /\ i <= n /\ \A k \in 1..n : s[k] \in S
  OBVIOUS
<1>2. a \in Seq(S) /\ Len(a) = i - 1 /\ \A j \in 1..i - 1 : a[j] = s[j]
  <2>1. \A k \in 1..i - 1 : s[k] \in S
    BY <1>1
  <2>2. /\ a \in Seq(S) /\ Len(a) = IF 1 <= i - 1 THEN (i - 1) - 1 + 1 ELSE 0
        /\ \A j \in 1..(i - 1) - 1 + 1 : a[j] = s[1 + j - 1]
    BY <1>1, <2>1, SubSeqProperties
  <2> HIDE DEF a
  <2> QED BY <1>1, <2>2
<1>3. b \in Seq(S) /\ Len(b) = n - i /\ \A j \in 1..n - i : b[j] = s[i + j]
  <2>1. \A k \in i + 1..n : s[k] \in S
    BY <1>1
  <2>2. /\ b \in Seq(S) /\ Len(b) = IF i + 1 <= n THEN n - (i + 1) + 1 ELSE 0
        /\ \A j \in 1..n - (i + 1) + 1 : b[j] = s[(i + 1) + j - 1]
    BY <1>1, <2>1, SubSeqProperties
  <2> HIDE DEF b, n
  <2>3. \A j \in 1..n - i : (i + 1) + j - 1 = i + j /\ j \in 1..n - (i + 1) + 1
    BY <1>1
  <2> QED BY <1>1, <2>2, <2>3
<1> HIDE DEF a, b
<1>4. /\ r \in Seq(S) /\ Len(r) = Len(a) + Len(b)
      /\ \A j \in 1..Len(a) + Len(b) :
           r[j] = IF j <= Len(a) THEN a[j] ELSE b[j - Len(a)]
  <2>1. r = a \o b
    BY DEF a, b, Without
  <2>2. /\ a \o b \in Seq(S) /\ Len(a \o b) = Len(a) + Len(b)
        /\ \A j \in 1..Len(a) + Len(b) :
             (a \o b)[j] = IF j <= Len(a) THEN a[j] ELSE b[j - Len(a)]
    BY <1>2, <1>3, ConcatProperties
  <2> QED BY <2>1, <2>2, Zenon
<1> HIDE DEF n, r
<1>5. Len(a) = i - 1 /\ Len(a) + Len(b) = n - 1
  BY <1>1, <1>2, <1>3
<1>6. r \in Seq(S) /\ Len(r) = n - 1
  BY <1>4, <1>5
<1>7. ASSUME NEW j \in 1..n - 1
      PROVE  r[j] = IF j < i THEN s[j] ELSE s[j + 1]
  <2>1. CASE j < i
    BY <1>1, <1>2, <1>3, <1>4, <1>5, <2>1
  <2>2. CASE ~(j < i)
    <3>1. j - (i - 1) \in 1..n - i /\ i + (j - (i - 1)) = j + 1
      BY <1>1, <2>2
    <3>2. r[j] = b[j - (i - 1)]
      BY <1>1, <1>2, <1>3, <1>4, <1>5, <2>2
    <3> QED BY <1>3, <2>2, <3>1, <3>2
  <2> QED BY <2>1, <2>2
<1> QED BY <1>6, <1>7 DEF n, r

LEMMA CancelInv ==
  ASSUME Inv, NEW t \in Tasks, Cancel(t)
  PROVE  Inv'
<1> USE DEF Cancel
<1>1. DataOK'
  BY DEF Inv, TypeOK, DataOK
<1>2. waiters \in Seq(Tasks) /\ \A i \in 1..Len(waiters) : waiters[i] \in Tasks
  BY DEF Inv, TypeOK
<1>3. waiters' \in Seq(Tasks) /\ WaitersOK'
  <2>1. CASE pc[t] \notin {"queued", "nested"} /\ UNCHANGED waiters
    BY <1>2, <2>1, WaitersKept DEF Leave
  <2>2. CASE \E i \in DOMAIN waiters :
          /\ waiters[i] = t
          /\ waiters' = Without(waiters, i)
    <3> DEFINE n == Len(waiters)
    <3>1. DOMAIN waiters = 1..n /\ n \in Nat
      BY <1>2
    <3>2. PICK i \in 1..n :
          /\ waiters[i] = t
          /\ waiters' = Without(waiters, i)
      BY <2>2, <3>1
    <3> DEFINE from(j) == IF j < i THEN j ELSE j + 1
    <3>3. /\ waiters' \in Seq(Tasks) /\ Len(waiters') = n - 1
          /\ \A j \in 1..n - 1 : waiters'[j] = IF j < i THEN waiters[j] ELSE waiters[j + 1]
      BY <1>2, <3>2, RemoveOne
    <3>6. \A j \in 1..n - 1 : waiters'[j] = waiters[from(j)]
      BY <3>3
    <3>7. \A j \in 1..n - 1 : from(j) \in 1..n /\ from(j) # i
      BY <3>1
    <3>8. \A j, k \in 1..n - 1 : from(j) = from(k) => j = k
      BY <3>1
    <3> HIDE DEF from
    <3>9. /\ \A j, k \in 1..n : waiters[j] = waiters[k] => j = k
          /\ \A j \in 1..n : pc[waiters[j]] \in {"queued", "nested"}
      BY DEF Inv, WaitersOK
    <3>10. \A j \in 1..n - 1 : waiters'[j] # t /\ waiters'[j] \in Tasks
      <4> SUFFICES ASSUME NEW j \in 1..n - 1
                   PROVE  waiters'[j] # t /\ waiters'[j] \in Tasks
        OBVIOUS
      <4>1. waiters'[j] = waiters[from(j)] /\ from(j) \in 1..n /\ from(j) # i
        BY <3>6, <3>7
      <4> QED BY <1>2, <3>2, <3>9, <4>1
    <3>11. \A u \in Tasks \ {t} : pc'[u] = pc[u]
      BY DEF Leave, Inv, TypeOK
    <3>12. \A j \in 1..n - 1 : pc'[waiters'[j]] \in {"queued", "nested"}
      <4> SUFFICES ASSUME NEW j \in 1..n - 1
                   PROVE  pc'[waiters'[j]] \in {"queued", "nested"}
        OBVIOUS
      <4>1. pc'[waiters'[j]] = pc[waiters'[j]]
        BY <3>10, <3>11
      <4>2. waiters'[j] = waiters[from(j)] /\ from(j) \in 1..n
        BY <3>6, <3>7
      <4> QED BY <3>9, <4>1, <4>2
    <3>13. \A j, k \in 1..n - 1 : waiters'[j] = waiters'[k] => j = k
      <4> SUFFICES ASSUME NEW j \in 1..n - 1, NEW k \in 1..n - 1,
                          waiters'[j] = waiters'[k]
                   PROVE  j = k
        OBVIOUS
      <4>1. waiters[from(j)] = waiters[from(k)] /\ from(j) \in 1..n /\ from(k) \in 1..n
        BY <3>6, <3>7
      <4>2. from(j) = from(k)
        BY <3>9, <4>1
      <4> QED BY <3>8, <4>2
    <3> QED BY <3>3, <3>12, <3>13 DEF WaitersOK
  <2> QED BY <2>1, <2>2
<1> QED BY <1>1, <1>3, LeaveInv

LEMMA RestartInv == ASSUME Inv, Restart PROVE Inv'
<1> USE TaskAssumption, ChartAssumption, PolicyAssumption, BoundAssumption DEF Restart
<1>1. TypeOK'
  <2>1. <<>> \in Seq(Tasks) /\ <<>> \in Seq(Frame) /\ "idle" \in PCs
    BY DEF PCs
  <2>2. 0 \in 0..MaxRetries /\ boots' \in 1..MaxBoots
    BY DEF Inv, TypeOK
  <2> QED BY <2>1, <2>2 DEF Inv, TypeOK
<1>2. LockDiscipline'
  BY DEF LockDiscipline, Inside
<1>3. StackOK'
  BY DEF StackOK, Piled, Stacked
<1>4. EventOK' /\ WaitersOK' /\ FallbackFlagScoped'
  BY DEF EventOK, WaitersOK, FallbackFlagScoped
<1> QED BY <1>1, <1>2, <1>3, <1>4 DEF Inv

LEMMA SaveInv == ASSUME Inv, SaveAtShutdown PROVE Inv'
<1>1. /\ UNCHANGED <<current, context, fromFallback, holder, waiters, running, pc>>
      /\ UNCHANGED <<event, target, stack, attempt, last, arrivals, boots>>
      /\ drained' = TRUE /\ disk' \in {disk, Persisted(current)}
  BY DEF SaveAtShutdown, lock, tasks
<1>2. Persisted(current) \in [state : States, context : [Keys \ Excluded -> Int]]
  BY DEF Persisted, Persistable, Context, Inv, TypeOK
<1>3. TypeOK'
  BY <1>1, <1>2 DEF Inv, TypeOK
<1>4. LockDiscipline' /\ WaitersOK' /\ FallbackFlagScoped'
  BY <1>1 DEF Inv, LockDiscipline, Inside, WaitersOK, FallbackFlagScoped
<1>5. StackOK' /\ EventOK'
  BY <1>1 DEF Inv, StackOK, EventOK, Top
<1> QED BY <1>3, <1>4, <1>5 DEF Inv

LEMMA ChooseInv ==
  ASSUME Inv, NEW t \in Tasks, Choose(t)
  PROVE  Inv'
<1> DEFINE trs == Transitions(current, event[t].type)
<1>1. /\ holder = t /\ running = t /\ pc[t] = "locked" /\ stack[t] = <<>>
      /\ event[t] \in Event /\ event[t].type \in EventTypes
      /\ event[t].message_id \in BOOLEAN /\ ~fromFallback /\ current \in States
  <2>1. running = t /\ pc[t] = "locked" /\ holder = t /\ stack[t] = <<>>
    BY DEF Choose, Inv, LockDiscipline, Inside, StackOK, Stacked
  <2>2. event[t] \in Event /\ current \in States
    BY <2>1 DEF Inv, EventOK, TypeOK
  <2>3. ~fromFallback
    BY <2>1, OnlyHolder DEF Inv, FallbackFlagScoped
  <2> QED BY <2>1, <2>2, <2>3 DEF Event
<1>2. CASE \E r \in Results : Return(t, r) /\ UNCHANGED <<engine, arrivals, boots, drained, waiters>>
  <2>1. DataOK'
    BY <1>2 DEF Inv, TypeOK, DataOK, Return, engine
  <2>2. /\ Leave(t, "idle") /\ running \in {None, t} /\ waiters' \in Seq(Tasks)
        /\ fromFallback' = Restored(stack[t], 2) /\ current' = current
    BY <1>1, <1>2 DEF Return, engine, Restored, Inv, TypeOK
  <2>3. WaitersOK'
    BY <1>1, <1>2, WaitersKept DEF Return, Leave
  <2> QED BY <2>1, <2>2, <2>3, LeaveInv
<1>3. CASE \E i \in DOMAIN trs :
             /\ trs[i].target \in States
             /\ pc' = [pc EXCEPT ![t] = "acting"]
             /\ target' = [target EXCEPT ![t] = trs[i].target]
             /\ stack' = [stack EXCEPT ![t] =
                  <<[todo |-> trs[i].actions \o Entry[trs[i].target],
                     message_id |-> event[t].message_id, saved |-> FALSE]>>]
             /\ UNCHANGED <<lock, running, event, attempt, last>>
             /\ UNCHANGED <<engine, arrivals, boots, drained>>
  <2>1. PICK i \in DOMAIN trs :
             /\ trs[i].target \in States
             /\ pc' = [pc EXCEPT ![t] = "acting"]
             /\ target' = [target EXCEPT ![t] = trs[i].target]
             /\ stack' = [stack EXCEPT ![t] =
                  <<[todo |-> trs[i].actions \o Entry[trs[i].target],
                     message_id |-> event[t].message_id, saved |-> FALSE]>>]
             /\ UNCHANGED <<lock, running, event, attempt, last>>
             /\ UNCHANGED <<engine, arrivals, boots, drained>>
    BY <1>3
  <2> DEFINE f == [todo |-> trs[i].actions \o Entry[trs[i].target],
                   message_id |-> event[t].message_id, saved |-> FALSE]
             s == <<f>>
  <2>2. trs[i].actions \in Seq(Action)
    BY <1>1, ChartAssumption DEF Transitions
  <2>3. f \in Frame
    BY <1>1, <2>1, <2>2, ChartAssumption DEF Frame
  <2>4. ~f.saved
    OBVIOUS
  <2> HIDE DEF f
  <2>5. Piled(s) /\ s # <<>> /\ Len(s) = 1
    BY <2>3, <2>4 DEF Piled
  <2>6. trs[i].target \in Targets(current, event[t])
    BY <2>1 DEF Targets
  <2>7. DataOK'
    BY <2>1 DEF Inv, TypeOK, DataOK, engine
  <2>8. stack' = [stack EXCEPT ![t] = s]
    BY <2>1 DEF f
  <2>9. /\ running' = t /\ holder' = holder /\ waiters' = waiters
        /\ event' = event /\ current' = current
        /\ attempt' \in [Tasks -> 0..MaxRetries]
        /\ fromFallback' \in BOOLEAN
        /\ fromFallback' <=> Len(s) > 1
    BY <1>1, <2>1, <2>5 DEF lock, engine, Inv, TypeOK
  <2>10. /\ target' \in [Tasks -> States \cup {None}]
         /\ target'[t] \in Targets(current, event[t])
         /\ \A u \in Tasks \ {t} : target'[u] = target[u]
    BY <2>1, <2>6 DEF Inv, TypeOK
  <2> HIDE DEF s
  <2> QED BY <1>1, <2>1, <2>5, <2>7, <2>8, <2>9, <2>10, RunInv
<1>4. \A i, h : Verdict(trs[i], context, h) = "fires" => trs[i].target \in States
  BY DEF Verdict
<1>5. \A i, h : Verdict(trs[i], context, h) # "fires"
                  => Verdict(trs[i], context, h) \in Results
  BY DEF Verdict, Results
<1>6. "no_transition" \in Results
  BY DEF Results
<1> HIDE DEF trs
<1> QED BY <1>2, <1>3, <1>4, <1>5, <1>6 DEF Choose, Lowest, trs

LEMMA ActInv ==
  ASSUME Inv, NEW t \in Tasks, Do(t) \/ Fail(t) \/ StartExternal(t) \/ EndExternal(t)
  PROVE  Inv'
<1>1. CASE Do(t)
  <2>1. /\ pc[t] \in Stacked \ {"nested"} /\ running = t /\ Top(t).todo # <<>>
        /\ Current(t) \in Action
    BY <1>1, Busy DEF Do, Acting, Stacked
  <2>2. context' \in Context
    BY <1>1, <2>1 DEF Do, Effect, Action, Context, Inv, TypeOK
  <2>3. DataOK'
    BY <1>1, <2>2 DEF Do, Inv, TypeOK, DataOK
  <2>4. /\ GoOn(t) /\ attempt' \in [Tasks -> 0..MaxRetries]
        /\ UNCHANGED <<holder, waiters, event, target, current, fromFallback>>
    BY <1>1 DEF Do, lock, Inv, TypeOK
  <2> QED BY <2>1, <2>3, <2>4, GoOnInv
<1>2. CASE Fail(t)
  <2>1. /\ pc[t] \in Stacked \ {"nested"} /\ running = t /\ Top(t).todo # <<>>
    BY <1>2 DEF Fail, Acting, Stacked
  <2>2. PICK exc \in Errors : Unwind(t, Len(stack[t]) - 1, exc)
    BY <1>2, PolicyAssumption DEF Fail, Raises, Errors
  <2> QED BY <2>1, <2>2, UnwindInv
<1>3. CASE StartExternal(t)
  <2>1. /\ pc[t] = "acting" /\ pc[t] \in Stacked /\ running = t /\ Top(t).todo # <<>>
    BY <1>3 DEF StartExternal, Acting, Stacked
  <2>2. holder = t /\ stack[t] # <<>>
    BY <2>1, Busy
  <2>3. DataOK'
    BY <1>3 DEF StartExternal, engine, Inv, TypeOK, DataOK
  <2>4. /\ UNCHANGED <<holder, waiters, event, target, current, stack, attempt, fromFallback>>
        /\ running' = None /\ pc' = [pc EXCEPT ![t] = "external"]
    BY <1>3 DEF StartExternal, engine, lock
  <2>5. waiters' \in Seq(Tasks) /\ attempt' \in [Tasks -> 0..MaxRetries]
    BY <2>4 DEF Inv, TypeOK
  <2>6. WaitersOK'
    BY <2>1, <2>4, WaitersKept
  <2>7. "external" \in Stacked \ {"acting"}
    BY DEF Stacked
  <2> QED BY <2>1, <2>2, <2>3, <2>4, <2>5, <2>6, <2>7, SuspendInv
<1>4. CASE EndExternal(t)
  <2>1. /\ pc[t] \in Stacked \ {"nested", "acting"} /\ running = None
    BY <1>4 DEF EndExternal, Stacked
  <2>2. Top(t).todo # <<>>
    BY <2>1, Busy
  <2>3. CASE \E exc \in Errors : Unwind(t, Len(stack[t]) - 1, exc)
    BY <2>1, <2>2, <2>3, UnwindInv
  <2>4. CASE /\ GoOn(t)
             /\ UNCHANGED <<engine, lock, event, target, attempt, last, arrivals, boots, drained>>
    <3>1. DataOK'
      BY <2>4 DEF engine, Inv, TypeOK, DataOK
    <3>2. /\ UNCHANGED <<holder, waiters, event, target, current, fromFallback>>
          /\ attempt' \in [Tasks -> 0..MaxRetries]
      BY <2>4 DEF engine, lock, Inv, TypeOK
    <3> QED BY <2>1, <2>2, <2>4, <3>1, <3>2, GoOnInv
  <2> QED BY <1>4, <2>3, <2>4, PolicyAssumption DEF EndExternal, Raises, Errors
<1> QED BY <1>1, <1>2, <1>3, <1>4

LEMMA CommitInv ==
  ASSUME Inv, NEW t \in Tasks, Commit(t)
  PROVE  Inv'
<1>1. /\ pc[t] = "acting" /\ pc[t] \in Stacked /\ running = t /\ Len(stack[t]) = 1
  BY DEF Commit, Acting, Stacked
<1>2. holder = t /\ target[t] \in States
  BY <1>1, Busy
<1>3. Leave(t, "idle") /\ last' \in Results \cup {None}
  BY DEF Commit, Return, Raise, Results, Inv, TypeOK
<1>4. DataOK'
  <2>1. Persisted(target[t]) \in [state : States, context : [Keys \ Excluded -> Int]]
    BY <1>2 DEF Persisted, Persistable, Context, Inv, TypeOK
  <2>2. disk' \in {disk, Persisted(target[t])}
    BY DEF Commit
  <2> QED BY <1>2, <1>3, <2>1, <2>2 DEF Commit, Inv, TypeOK, DataOK
<1>5. waiters' \in Seq(Tasks) /\ fromFallback' = Restored(stack[t], 2)
  BY <1>1 DEF Commit, Restored, Inv, TypeOK
<1>6. WaitersOK'
  BY <1>1, <1>3, WaitersKept DEF Commit, Leave
<1> QED BY <1>1, <1>2, <1>3, <1>4, <1>5, <1>6, LeaveInv

LEMMA SendInv ==
  ASSUME Inv, NEW t \in Tasks, SkipSend(t) \/ Post(t) \/ PostEnds(t) \/ BackOff(t) \/ Retry(t)
  PROVE  Inv'
<1>1. CASE SkipSend(t) \/ PostEnds(t)
  <2>1. pc[t] \in Stacked \ {"nested"} /\ running \in {None, t}
    BY <1>1 DEF SkipSend, PostEnds, Sending, Acting, Stacked
  <2>2. Top(t).todo # <<>>
    <3>1. CASE pc[t] = "acting"
      BY <1>1, <3>1 DEF SkipSend, PostEnds, Sending
    <3>2. CASE pc[t] # "acting"
      BY <2>1, <3>2, Busy
    <3> QED BY <3>1, <3>2
  <2>3. DataOK'
    BY <1>1 DEF SkipSend, PostEnds, engine, Inv, TypeOK, DataOK
  <2>4. /\ GoOn(t)
        /\ UNCHANGED <<holder, waiters, event, target, current, fromFallback>>
    BY <1>1 DEF SkipSend, PostEnds, engine, lock
  <2>5. attempt' = attempt \/ attempt' = [attempt EXCEPT ![t] = 0]
    BY <1>1 DEF SkipSend, PostEnds
  <2>6. attempt' \in [Tasks -> 0..MaxRetries]
    <3>1. 0 \in 0..MaxRetries /\ attempt \in [Tasks -> 0..MaxRetries]
      BY PolicyAssumption DEF Inv, TypeOK
    <3> QED BY <2>5, <3>1
  <2> QED BY <2>1, <2>2, <2>3, <2>4, <2>6, GoOnInv
<1>2. CASE Post(t)
  <2>1. /\ pc[t] = "acting" /\ pc[t] \in Stacked /\ running = t /\ Top(t).todo # <<>>
    BY <1>2 DEF Post, Sending, Acting, Stacked
  <2>2. CASE Unwind(t, Len(stack[t]), "TypeError")
    <3>1. "TypeError" \in Errors
      BY DEF Errors
    <3> QED BY <2>1, <2>2, <3>1, UnwindInv
  <2>3. CASE /\ running' = None /\ pc' = [pc EXCEPT ![t] = "posting"]
             /\ UNCHANGED <<engine, lock, event, target, stack, attempt, last,
                            arrivals, boots, drained>>
    <3>1. holder = t /\ stack[t] # <<>>
      BY <2>1, Busy
    <3>2. DataOK'
      BY <2>3 DEF engine, Inv, TypeOK, DataOK
    <3>3. /\ UNCHANGED <<holder, waiters, event, target, current, stack, fromFallback>>
          /\ waiters' \in Seq(Tasks) /\ attempt' \in [Tasks -> 0..MaxRetries]
      BY <2>3 DEF engine, lock, Inv, TypeOK
    <3>4. WaitersOK' /\ "posting" \in Stacked \ {"acting"}
      BY <2>1, <2>3, <3>3, WaitersKept DEF Stacked
    <3> QED BY <2>1, <2>3, <3>1, <3>2, <3>3, <3>4, SuspendInv
  <2> QED BY <1>2, <2>2, <2>3 DEF Post
<1>3. CASE BackOff(t) \/ Retry(t)
  <2>1. /\ pc[t] \in Stacked \ {"nested", "acting"} /\ running = None /\ running' = None
    BY <1>3 DEF BackOff, Retry, Stacked
  <2>2. holder = t /\ stack[t] # <<>> /\ Top(t).todo # <<>>
    BY <2>1, Busy
  <2>3. DataOK'
    BY <1>3 DEF BackOff, Retry, engine, Inv, TypeOK, DataOK
  <2>4. /\ UNCHANGED <<holder, waiters, event, target, current, stack, fromFallback>>
        /\ waiters' \in Seq(Tasks)
    BY <1>3 DEF BackOff, Retry, engine, lock, Inv, TypeOK
  <2>7. attempt' \in [Tasks -> 0..MaxRetries]
    <3>1. CASE BackOff(t)
      <4>1. attempt[t] \in 0..MaxRetries /\ attempt[t] < MaxRetries
        BY <3>1 DEF BackOff, Inv, TypeOK
      <4>2. attempt[t] + 1 \in 0..MaxRetries
        BY <4>1, PolicyAssumption
      <4> QED BY <3>1, <4>2 DEF BackOff, Inv, TypeOK
    <3>2. CASE Retry(t)
      BY <3>2 DEF Retry, Inv, TypeOK
    <3> QED BY <1>3, <3>1, <3>2
  <2>5. PICK p \in Stacked \ {"acting"} : pc' = [pc EXCEPT ![t] = p]
    BY <1>3 DEF BackOff, Retry, Stacked
  <2>6. WaitersOK'
    BY <2>1, <2>4, <2>5, WaitersKept DEF Stacked
  <2> QED BY <2>1, <2>2, <2>3, <2>4, <2>5, <2>6, <2>7, SuspendInv
<1> QED BY <1>1, <1>2, <1>3

LEMMA ExhaustInv ==
  ASSUME Inv, NEW t \in Tasks, Exhaust(t)
  PROVE  Inv'
<1> DEFINE fits == {i \in DOMAIN Fallbacks :
                      Value(Fallbacks[i].condition, context, "error") = "true"}
<1>1. /\ pc[t] = "posting" /\ pc[t] \in Stacked \ {"nested"} /\ running = None
      /\ Top(t).todo # <<>> /\ holder = t /\ stack[t] # <<>>
  <2>1. pc[t] = "posting" /\ running = None
    BY DEF Exhaust
  <2> QED BY <2>1, Busy DEF Stacked
<1>2. DataOK' /\ attempt' \in [Tasks -> 0..MaxRetries]
  BY PolicyAssumption DEF Exhaust, Inv, TypeOK, DataOK
<1>3. CASE \E i \in Lowest(fits) :
             /\ stack' = [stack EXCEPT ![t] = Append(@,
                  [todo |-> Fallbacks[i].actions,
                   message_id |-> FALSE, saved |-> fromFallback])]
             /\ fromFallback' = TRUE
             /\ running' = t /\ pc' = [pc EXCEPT ![t] = "acting"]
             /\ UNCHANGED waiters
  <2>1. PICK i \in Lowest(fits) :
             /\ stack' = [stack EXCEPT ![t] = Append(@,
                  [todo |-> Fallbacks[i].actions,
                   message_id |-> FALSE, saved |-> fromFallback])]
             /\ fromFallback' = TRUE
             /\ running' = t /\ pc' = [pc EXCEPT ![t] = "acting"]
             /\ UNCHANGED waiters
    BY <1>3
  <2> DEFINE f == [todo |-> Fallbacks[i].actions,
                   message_id |-> FALSE, saved |-> fromFallback]
             s == Append(stack[t], f)
  <2>2. f \in Frame
    BY ChartAssumption DEF Lowest, Frame, Inv, TypeOK
  <2>3. f.saved = fromFallback
    OBVIOUS
  <2> HIDE DEF f
  <2>4. Piled(s) /\ s # <<>> /\ Len(s) > 1
    <3> DEFINE n == Len(stack[t])
    <3>1. /\ Piled(stack[t]) /\ n \in Nat \ {0}
          /\ fromFallback <=> n > 1
      BY <1>1, Busy
    <3>2. /\ s \in Seq(Frame) /\ Len(s) = n + 1 /\ s[n + 1] = f
          /\ \A j \in 1..n : s[j] = stack[t][j]
      BY <2>2, <3>1 DEF Piled
    <3>3. \A j \in 1..n : stack[t][j].todo # <<>>
      BY <1>1, <3>1 DEF Piled, Top
    <3> HIDE DEF s
    <3>4. \A j \in 1..n + 1 : j \in 1..n \/ j = n + 1
      BY <3>1
    <3>5. \A j \in 1..n + 1 : s[j].saved <=> j > 2
      BY <2>3, <3>1, <3>2, <3>4 DEF Piled
    <3>6. \A j \in 1..(n + 1) - 1 : s[j].todo # <<>>
      BY <3>1, <3>2, <3>3
    <3> QED BY <3>1, <3>2, <3>5, <3>6 DEF Piled
  <2>5. stack' = [stack EXCEPT ![t] = s]
    BY <2>1 DEF f
  <2>6. /\ holder' = holder /\ event' = event /\ current' = current
        /\ fromFallback' \in BOOLEAN
        /\ fromFallback' <=> Len(s) > 1
        /\ target' \in [Tasks -> States \cup {None}]
        /\ target'[t] \in Targets(current, event[t])
        /\ \A u \in Tasks \ {t} : target'[u] = target[u]
    BY <1>1, <2>1, <2>4, Busy DEF Exhaust, Inv, TypeOK
  <2> HIDE DEF s
  <2> QED BY <1>1, <1>2, <2>1, <2>4, <2>5, <2>6, RunInv
<1>4. CASE /\ waiters' = Append(waiters, t)
           /\ pc' = [pc EXCEPT ![t] = "nested"]
           /\ UNCHANGED <<stack, fromFallback, running>>
  <2>1. /\ waiters \in Seq(Tasks) /\ \A i \in 1..Len(waiters) : waiters[i] # t
        /\ \A u \in Tasks \ {t} : pc'[u] = pc[u]
        /\ pc'[t] = "nested"
    BY <1>1, <1>4 DEF Inv, WaitersOK, TypeOK
  <2>2. waiters' \in Seq(Tasks) /\ WaitersOK'
    BY <1>4, <2>1, WaitersJoined DEF Inv
  <2>3. "nested" \in Stacked \ {"acting"}
    BY DEF Stacked
  <2>4. UNCHANGED <<holder, event, target, current>>
    BY DEF Exhaust
  <2> QED BY <1>1, <1>2, <1>4, <2>2, <2>3, <2>4, SuspendInv
<1>5. CASE GoOn(t) /\ UNCHANGED <<waiters, fromFallback>>
  <2>1. UNCHANGED <<holder, waiters, event, target, current, fromFallback>>
    BY <1>5 DEF Exhaust
  <2> QED BY <1>1, <1>2, <1>5, <2>1, GoOnInv
<1> HIDE DEF fits
<1> QED BY <1>3, <1>4, <1>5 DEF Exhaust, fits

LEMMA EndFallbackInv ==
  ASSUME Inv, NEW t \in Tasks, EndFallback(t)
  PROVE  Inv'
<1> DEFINE n == Len(stack[t])
           b == Below(stack[t], n)
           s == Advanced(b)
<1>1. /\ pc[t] = "acting" /\ pc[t] \in Stacked /\ running = t
      /\ stack' = [stack EXCEPT ![t] = s] /\ fromFallback' = Top(t).saved
      /\ UNCHANGED <<current, context, disk, lock, running, pc, event,
                     target, attempt, last, arrivals, boots, drained>>
  BY DEF EndFallback, Acting, Stacked
<1>2. n \in Nat /\ n > 1 /\ Piled(stack[t])
  BY <1>1, Busy DEF EndFallback
<1>3. Piled(b) /\ Len(b) = n - 1 /\ b[n - 1] = stack[t][n - 1]
  <2>1. n \in 1..n + 1 /\ n - 1 \in 1..n - 1
    BY <1>2
  <2> QED BY <1>2, <2>1, BelowPiled
<1>4. b # <<>> /\ b[Len(b)].todo # <<>>
  BY <1>2, <1>3 DEF Piled
<1> HIDE DEF b
<1>5. Piled(s) /\ Len(s) = n - 1
  BY <1>3, <1>4, AdvancedPiled
<1>6. s # <<>>
  BY <1>2, <1>5 DEF Piled
<1>7. /\ fromFallback' \in BOOLEAN
      /\ fromFallback' <=> Len(s) > 1
  <2>1. n \in 1..n /\ stack[t][n] \in Frame
    BY <1>2 DEF Piled
  <2> QED BY <1>1, <1>2, <1>5, <2>1 DEF Piled, Top, Frame
<1>8. DataOK'
  BY <1>1 DEF Inv, TypeOK, DataOK
<1>9. /\ holder = t /\ holder' = holder /\ waiters' = waiters /\ running' = t
      /\ pc' = [pc EXCEPT ![t] = "acting"]
      /\ target' \in [Tasks -> States \cup {None}]
      /\ target'[t] \in Targets(current, event[t])
      /\ \A u \in Tasks \ {t} : target'[u] = target[u]
      /\ attempt' \in [Tasks -> 0..MaxRetries]
      /\ event' = event /\ current' = current
  BY <1>1, Busy DEF lock, Inv, TypeOK
<1> HIDE DEF s
<1> QED BY <1>1, <1>5, <1>6, <1>7, <1>8, <1>9, RunInv

\* Whatever a task does by itself keeps Inv.
LEMMA StepInv == ASSUME Inv, NEW t \in Tasks, Step(t) PROVE Inv'
  BY AcquireInv, ChooseInv, ActInv, CommitInv, SendInv, ExhaustInv, EndFallbackInv
  DEF Step

\* Inv is inductive.
LEMMA NextInv == ASSUME Inv, [Next]_vars PROVE Inv'
<1>1. CASE Next
  BY <1>1, StepInv, CancelInv, DeliverInv, SaveInv, RestartInv DEF Next
<1>2. CASE UNCHANGED vars
  <2> USE <1>2 DEF Inv, vars, engine, lock, tasks
  <2>1. TypeOK'
    BY DEF TypeOK
  <2>2. LockDiscipline' /\ WaitersOK' /\ FallbackFlagScoped'
    BY DEF LockDiscipline, Inside, WaitersOK, FallbackFlagScoped
  <2>3. StackOK' /\ EventOK'
    BY DEF StackOK, EventOK, Top
  <2> QED BY <2>1, <2>2, <2>3
<1> QED BY <1>1, <1>2

\* Inv holds on every path through transition(), its actions and the send path,
\* through cancellations and restarts.  (statechart.py:316-489,
\* a2a_client.py:165-174, 584-625)
THEOREM InvHolds == Spec => []Inv
<1>1. Init => Inv
  BY InitInv
<1>2. Inv /\ [Next]_vars => Inv'
  BY NextInv
<1> QED BY <1>1, <1>2, PTL DEF Spec

----------------------------------------------------------------------------
(* The properties.                                                         *)

\* Every variable keeps its type.
THEOREM TypeCorrect == Spec => []TypeOK
<1>1. Inv => TypeOK
  BY DEF Inv
<1> QED BY <1>1, InvHolds, PTL

\* The lock is held by exactly the task that is inside a transition: no return,
\* exception or cancellation keeps it, and no await gives it up.
THEOREM LockHeldThroughout == Spec => []LockDiscipline
<1>1. Inv => LockDiscipline
  BY DEF Inv
<1> QED BY <1>1, InvHolds, PTL

\* from_fallback is set exactly while a fallback's actions are under way,
\* however deep the fallbacks are nested and however they end.
THEOREM FlagScoped == Spec => []FallbackFlagScoped
<1>1. Inv => FallbackFlagScoped
  BY DEF Inv
<1> QED BY <1>1, InvHolds, PTL

\* Nothing but these touches the state or the file.
LEMMA OnlyTheseWrite ==
  ASSUME [Next]_vars
  PROVE  \/ UNCHANGED <<current, disk>> \/ SaveAtShutdown \/ Restart
         \/ \E t \in Tasks : Commit(t)
<1>1. ASSUME NEW t \in Tasks, Cancel(t) \/ \E e \in Event : Deliver(t, e)
      PROVE  UNCHANGED <<current, disk>>
  BY <1>1 DEF Cancel, Deliver
<1>2. ASSUME NEW t \in Tasks, NEW n, NEW exc, Unwind(t, n, exc)
      PROVE  UNCHANGED <<current, disk>>
  BY <1>2 DEF Unwind
<1>3. ASSUME NEW t \in Tasks, Step(t), ~Commit(t)
      PROVE  UNCHANGED <<current, disk>>
  <2>1. CASE Acquire(t) \/ Choose(t) \/ Do(t) \/ StartExternal(t)
    BY <2>1 DEF Acquire, Choose, Do, StartExternal, engine
  <2>2. CASE Fail(t) \/ EndExternal(t) \/ Post(t)
    BY <1>2, <2>2 DEF Fail, EndExternal, Post, engine
  <2>3. CASE SkipSend(t) \/ PostEnds(t) \/ BackOff(t) \/ Retry(t)
    BY <2>3 DEF SkipSend, PostEnds, BackOff, Retry, engine
  <2>4. CASE Exhaust(t) \/ EndFallback(t)
    BY <2>4 DEF Exhaust, EndFallback
  <2> QED BY <1>3, <2>1, <2>2, <2>3, <2>4 DEF Step
<1>4. CASE UNCHANGED vars
  BY <1>4 DEF vars, engine
<1> QED BY <1>1, <1>3, <1>4 DEF Next

\* The state moves only along a transition that the state it leaves lists for
\* the event of the task that holds the lock.
THEOREM MovesLegal == Spec => LegalMove
<1> DEFINE Legal == current' # current /\ boots' = boots =>
                      holder # None /\ current' \in Targets(current, event[holder])
<1>1. ASSUME Inv, [Next]_vars PROVE Legal
  <2> SUFFICES ASSUME current' # current, boots' = boots
               PROVE  holder # None /\ current' \in Targets(current, event[holder])
    OBVIOUS
  <2>1. ~Restart /\ ~SaveAtShutdown
    BY <1>1, BoundAssumption DEF Restart, SaveAtShutdown, Inv, TypeOK
  <2>2. PICK t \in Tasks : Commit(t)
    BY <1>1, <2>1, OnlyTheseWrite
  <2>3. pc[t] \in Stacked
    BY <2>2 DEF Commit, Acting, Stacked
  <2>4. holder = t /\ target[t] \in Targets(current, event[t]) /\ current' = target[t]
    BY <1>1, <2>2, <2>3, Busy DEF Commit
  <2> QED BY <2>4, TaskAssumption
<1>2. Inv /\ [Next]_vars => [Legal]_vars
  BY <1>1
<1> QED BY <1>2, InvHolds, PTL DEF Spec, LegalMove

\* With a disk that takes every write, the state file names the state of every
\* statechart that has left its initial state, whoever wrote it last: the
\* transition or a shutdown in the middle of one.  (statechart.py:418-420,
\* host.py:345-350)
THEOREM FileNamesState == PersistOutcomes = {"written"} => (Spec => []DiskFollowsState)
<1> SUFFICES ASSUME PersistOutcomes = {"written"} PROVE Spec => []DiskFollowsState
  OBVIOUS
<1> DEFINE Recorded(d, s) ==
      d # None /\ d.state = s /\ DOMAIN d.context = Keys \ Excluded
<1>1. ASSUME Inv, NEW s \in States PROVE Recorded(Persisted(s), s)
  <2>1. Persisted(s) \in [state : States, context : [Keys \ Excluded -> Int]]
    BY <1>1 DEF Persisted, Persistable, Context, Inv, TypeOK
  <2>2. Persisted(s) # None
    BY <2>1, FileAssumption
  <2>3. Persisted(s).state = s
    BY DEF Persisted
  <2> QED BY <2>1, <2>2, <2>3
<1>2. Init => DiskFollowsState
  BY DEF Init, DiskFollowsState
<1>3. ASSUME Inv, DiskFollowsState, [Next]_vars PROVE DiskFollowsState'
  <2>1. CASE UNCHANGED <<current, disk>>
    BY <1>3, <2>1 DEF DiskFollowsState
  <2>2. CASE SaveAtShutdown
    <3>1. disk' = Persisted(current) /\ current' = current /\ current \in States
      BY <1>3, <2>2 DEF SaveAtShutdown, Inv, TypeOK
    <3>2. Recorded(disk', current')
      BY <1>1, <1>3, <3>1
    <3> QED BY <3>2 DEF DiskFollowsState
  <2>3. ASSUME NEW t \in Tasks, Commit(t) PROVE DiskFollowsState'
    <3>1. disk' = Persisted(target[t]) /\ current' = target[t]
      BY <2>3 DEF Commit
    <3>2. target[t] \in States
      BY <1>3, <2>3, Busy DEF Commit, Acting, Stacked
    <3>3. Recorded(disk', current')
      BY <1>1, <1>3, <3>1, <3>2
    <3> QED BY <3>3 DEF DiskFollowsState
  <2>4. CASE Restart
    BY <2>4 DEF Restart, DiskFollowsState
  <2>5. \/ UNCHANGED <<current, disk>> \/ SaveAtShutdown \/ Restart
        \/ \E t \in Tasks : Commit(t)
    BY <1>3, OnlyTheseWrite
  <2> QED BY <2>1, <2>2, <2>3, <2>4, <2>5
<1> QED BY <1>2, <1>3, InvHolds, PTL DEF Spec

\* No task waits for the lock from inside a transition.
NoneNested == \A t \in Tasks : pc[t] # "nested"
LEMMA NoneNestedKept ==
  ASSUME ~OnExhaust, Inv, NoneNested, [Next]_vars
  PROVE  NoneNested'
<1> SUFFICES ASSUME NEW u \in Tasks, pc'[u] = "nested"
             PROVE  FALSE
  BY DEF NoneNested
<1>1. pc \in [Tasks -> PCs] /\ pc[u] # "nested"
  BY DEF Inv, TypeOK, NoneNested
<1>2. CASE UNCHANGED vars
  BY <1>1, <1>2 DEF vars, tasks
<1>3. CASE SaveAtShutdown \/ Restart
  BY <1>1, <1>3 DEF SaveAtShutdown, tasks, Restart
<1>4. ASSUME NEW t \in Tasks, NEW e \in Event, Deliver(t, e) PROVE FALSE
  BY <1>1, <1>4 DEF Deliver
<1>5. ASSUME NEW t \in Tasks, Cancel(t) PROVE FALSE
  BY <1>1, <1>5 DEF Cancel, Leave
<1>6. ASSUME NEW t \in Tasks, Step(t) PROVE FALSE
  <2> USE <1>1, <1>6 DEF Leave, Return, Raise, Unwind, GoOn
  <2>1. CASE Acquire(t) \/ Choose(t) \/ Commit(t)
    BY <2>1 DEF Acquire, Choose, Commit
  <2>2. CASE Do(t) \/ Fail(t) \/ StartExternal(t) \/ EndExternal(t)
    BY <2>2 DEF Do, Fail, StartExternal, EndExternal
  <2>3. CASE SkipSend(t) \/ Post(t) \/ PostEnds(t)
    BY <2>3 DEF SkipSend, Post, PostEnds
  <2>4. CASE BackOff(t) \/ Retry(t) \/ EndFallback(t)
    BY <2>4 DEF BackOff, Retry, EndFallback
  <2>5. CASE Exhaust(t)
    BY <2>5 DEF Exhaust
  <2> QED BY <1>6, <2>1, <2>2, <2>3, <2>4, <2>5 DEF Step
<1> QED BY <1>2, <1>3, <1>4, <1>5, <1>6 DEF Next

\* No task waits for the lock it holds.
NoSelfWait == \A i \in DOMAIN waiters : waiters[i] # holder

LEMMA NoneWaitsForItself == ASSUME Inv, NoneNested PROVE NoSelfWait
<1> SUFFICES ASSUME NEW i \in DOMAIN waiters, waiters[i] = holder
             PROVE  FALSE
  BY DEF NoSelfWait
<1>1. i \in 1..Len(waiters) /\ waiters[i] \in Tasks
  BY DEF Inv, TypeOK
<1> QED BY <1>1 DEF Inv, WaitersOK, NoneNested, LockDiscipline, Inside
=============================================================================
