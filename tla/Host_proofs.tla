------------------------------ MODULE Host_proofs ------------------------------
(***************************************************************************)
(* Theorems about Host, for any plugins, triggers, ids, messages and any   *)
(* order of their steps.                                                   *)
(***************************************************************************)
EXTENDS Host, TLAPS

LoopPlaces == {"off", "idle", "waiting", "acting", "cancelled", "ended"}
RequestPlaces == {"out", "scanning", "waiting", "acting", "answered", "refused",
                  "cut", "ended"}
AdminPlaces == {"out", "waiting", "acting", "answered", "cut", "ended"}

\* Each kind of task keeps to its places.
Kinds ==
  /\ \A t \in Loops : pc[t] \in LoopPlaces
  /\ \A r \in Requests : pc[r] \in RequestPlaces
  /\ \A a \in Admins : pc[a] \in AdminPlaces

\* A start that is still binding has an attempt left.
Attempts == boot \in {"registering", "binding"} => attempt < 3

\* Handler triggers of the first n of Order are in the listener's list, but for
\* those whose setup raised.
ServedUpTo(n) ==
  \A i \in 1..n : Live(Order[i]) /\ Order[i] \in Handlers \ Bad =>
    \E k \in 1..Len(handlers) : handlers[k] = Order[i]
Complete == next = Len(Order) /\ AllSetUp /\ ServedUpTo(Len(Order))

\* The list has nothing but live triggers of Order.
Genuine ==
  \A k \in 1..Len(handlers) :
    \E i \in 1..Len(Order) : Order[i] = handlers[k] /\ Live(Order[i])

\* While the triggers are registered the door is shut and the loops still to
\* come are off.
Registering ==
  boot = "registering" =>
    /\ ServedUpTo(next) /\ ~ listening /\ down = 1
    /\ drain \in {"no", "refusing", "waiting"}
    /\ \A i \in (next + 1)..Len(Order) :
         Order[i] \in Loops => pc[Order[i]] = "off"

\* Nobody is let in before all are registered.
DoorAfterRegistration ==
  /\ boot \in {"binding", "bound", "up"} => Complete
  /\ listening => Complete
  /\ \A r \in Requests : pc[r] \notin {"out", "ended"} => Complete

\* The handlers up to position n that take r's message.
TakenUpTo(r, n) == {handlers[k] : k \in {k \in 1..n : handlers[k] \in Takes[r]}}

\* What a request has fired is what it has passed.
Scanned ==
  \A r \in Requests :
    /\ pc[r] = "out" => at[r] = 1 /\ fired[r] = {}
    /\ pc[r] = "scanning" =>
         at[r] <= Len(handlers) + 1 /\ fired[r] = TakenUpTo(r, at[r] - 1)
    /\ pc[r] \in {"waiting", "acting"} =>
         at[r] <= Len(handlers) /\ fired[r] = TakenUpTo(r, at[r])
    /\ pc[r] = "answered" => fired[r] = TakenUpTo(r, Len(handlers))

\* Who holds a lock is inside a transition.
Locks ==
  \A p \in Plugins : holder[p] # None => pc[holder[p]] \in {"acting", "cancelled"}

\* What is in the table or runs has been registered.
Enlisted(t, n) == \E i \in 1..n : Order[i] = t
Registrations ==
  /\ \A i \in Ids : table[i] # None => Id[table[i]] = i /\ Enlisted(table[i], next)
  /\ \A t \in Loops : pc[t] \notin {"off", "ended"} => Enlisted(t, next)

\* The teardown has every loop that runs and keeps its id still before it.
Reachable ==
  \A t \in Loops : pc[t] \notin {"off", "ended"} /\ ~ Overtaken(t) =>
    \E k \in down..Len(ids) : ids[k] = Id[t] /\ table[Id[t]] = t

\* What the shutdown has behind it.
Behind ==
  /\ drain \in {"closing", "finishing", "done"} => down > Len(ids) /\ ~ listening
  /\ drain \in {"finishing", "done"} => Busy(Requests) = {}
  /\ adminUp \/ drain = "finishing" \/ Busy(Admins) = {}
  /\ drain = "done" => Busy(Admins) = {}

Inv ==
  /\ TypeOK /\ Attempts /\ Kinds /\ Genuine /\ Registering /\ DoorAfterRegistration
  /\ Scanned /\ Locks /\ Behind /\ Registrations /\ Reachable

USE DEF Triggers, Tasks

----------------------------------------------------------------------------
\* The triggers of Order, and their ids.
LEMMA OrderTypes ==
  /\ Len(Order) \in Nat
  /\ \A i \in 1..Len(Order) : Order[i] \in Triggers /\ Id[Order[i]] \in Ids
BY MapsAssumption DEF Ids

\* The initial states satisfy the invariant.  (host.py:76-104)
LEMMA InitInv == Init => Inv
<1>. SUFFICES ASSUME Init PROVE Inv
  OBVIOUS
<1>1. TypeOK
  <2>1. pc \in [Tasks -> Places]
    BY DEF Init, Places
  <2>2. holder \in [Plugins -> Tasks \cup {None}]
    BY DEF Init
  <2>3. table \in [Ids -> Triggers \cup {None}]
    BY DEF Init
  <2>4. at \in [Requests -> Nat \ {0}] /\ fired \in [Requests -> SUBSET Handlers]
    BY DEF Init
  <2>5. ids \in Seq(Ids) /\ handlers \in Seq(Handlers)
    BY DEF Init
  <2>6. loaded \subseteq Plugins /\ boot \in {"registering", "failed"}
    BY DEF Init
  <2>7. next \in 0..Len(Order) /\ attempt \in 0..3 /\ down \in Nat \ {0}
    BY OrderTypes DEF Init
  <2>8. /\ listening \in BOOLEAN /\ rejecting \in BOOLEAN /\ adminUp \in BOOLEAN
        /\ drain = "no"
    BY DEF Init
  <2>. QED
    BY <2>1, <2>2, <2>3, <2>4, <2>5, <2>6, <2>7, <2>8 DEF TypeOK
<1>2. Attempts /\ Kinds /\ Scanned
  BY SetsAssumption DEF Init, Attempts, Kinds, LoopPlaces, RequestPlaces, AdminPlaces, Scanned
<1>3. Genuine /\ Registering
  BY SetsAssumption, OrderTypes DEF Init, Genuine, Registering, ServedUpTo
<1>4. DoorAfterRegistration /\ Locks /\ Registrations /\ Reachable
  BY SetsAssumption DEF Init, DoorAfterRegistration, Locks, Registrations, Reachable
<1>5. Behind
  BY SetsAssumption DEF Init, Behind, Busy
<1>. QED
  BY <1>1, <1>2, <1>3, <1>4, <1>5 DEF Inv

\* Every step keeps the types.
LEMMA TypeStep == TypeOK /\ Attempts /\ [Next]_vars => (TypeOK /\ Attempts)'
<1>. SUFFICES ASSUME TypeOK, Attempts, [Next]_vars PROVE (TypeOK /\ Attempts)'
  OBVIOUS
<1>. USE DEF TypeOK, Attempts
<1>1. CASE Register
  <2>. DEFINE t == Order[next + 1]
  <2>1. /\ next + 1 \in 1..Len(Order) /\ t \in Triggers /\ Id[t] \in Ids
    BY <1>1, OrderTypes DEF Register
  <2>2. Append(ids, Id[t]) \in Seq(Ids)
    BY <2>1
  <2>3. t \in Handlers => Append(handlers, t) \in Seq(Handlers)
    OBVIOUS
  <2>4. next' \in 0..Len(Order) /\ boot' \in {"registering", "failed"}
    BY <1>1, <2>1, OrderTypes DEF Register
  <2>5. ids' \in Seq(Ids) /\ table' \in [Ids -> Triggers \cup {None}]
    BY <1>1, <2>1, <2>2 DEF Register, Listed
  <2>6. handlers' \in Seq(Handlers) /\ pc' \in [Tasks -> Places]
    BY <1>1, <2>1, <2>3 DEF Register, Places
  <2>. QED
    BY <1>1, <2>4, <2>5, <2>6 DEF Register, doors
<1>2. CASE Registered
  BY <1>2 DEF Registered, registry, doors, work
<1>3. CASE Bind
  <2>1. attempt' \in 0..3 /\ Attempts'
    BY <1>3 DEF Bind, LastAttempt
  <2>2. /\ boot' \in {"binding", "bound", "failed"} /\ listening' \in BOOLEAN
        /\ UNCHANGED <<loaded, registry, rejecting, adminUp, drain, down, work>>
    BY <1>3 DEF Bind
  <2>. QED
    BY <2>1, <2>2 DEF registry, work
<1>4. CASE StartAdmin
  BY <1>4 DEF StartAdmin, registry, work
<1>5. CASE Exit
  <2>1. pc' \in [Tasks -> Places] /\ holder' \in [Plugins -> Tasks \cup {None}]
    BY <1>5 DEF Exit, Places
  <2>. QED
    BY <1>5, <2>1 DEF Exit, registry
<1>6. CASE Signal \/ Refuse \/ Drained
  BY <1>6 DEF Signal, Refuse, Drained, registry, doors, work
<1>7. CASE CloseListener \/ CloseAdmin \/ FinishDrain
  BY <1>7 DEF CloseListener, CloseAdmin, FinishDrain, registry, doors, work
<1>8. ASSUME NEW t \in Loops, Fire(t) PROVE (TypeOK /\ Attempts)'
  BY <1>8 DEF Fire, registry, doors, Places
<1>9. ASSUME NEW t \in Loops, EndLoop(t) PROVE (TypeOK /\ Attempts)'
  <2>1. pc' \in [Tasks -> Places] /\ holder' \in [Plugins -> Tasks \cup {None}]
    BY <1>9 DEF EndLoop, Released, Places
  <2>. QED
    BY <1>9, <2>1 DEF EndLoop, registry, doors
<1>10. ASSUME NEW r \in Requests, Arrive(r) PROVE (TypeOK /\ Attempts)'
  <2>1. pc' \in [Tasks -> Places]
    BY <1>10 DEF Arrive, Places
  <2>. QED
    BY <1>10, <2>1 DEF Arrive, registry, doors
<1>11. ASSUME NEW r \in Requests, Scan(r) PROVE (TypeOK /\ Attempts)'
  <2>1. pc' \in [Tasks -> Places]
    BY <1>11 DEF Scan, Places
  <2>2. \A i \in Taking(r) : i \in Nat \ {0} /\ handlers[i] \in Handlers
    BY DEF Taking
  <2>3. at' \in [Requests -> Nat \ {0}]
    BY <1>11, <2>2 DEF Scan
  <2>4. fired' \in [Requests -> SUBSET Handlers]
    <3>1. fired \in [Requests -> SUBSET Handlers]
      BY DEF TypeOK
    <3>2. CASE fired' = fired
      BY <3>1, <3>2
    <3>3. ASSUME NEW i \in Taking(r),
                 fired' = [fired EXCEPT ![r] = @ \cup {handlers[i]}]
          PROVE  fired' \in [Requests -> SUBSET Handlers]
      <4>1. fired[r] \cup {handlers[i]} \in SUBSET Handlers
        BY <2>2, <3>1
      <4>. HIDE DEF TypeOK
      <4>. QED
        BY <3>1, <3>3, <4>1
    <3>. QED
      BY <1>11, <3>2, <3>3 DEF Scan
  <2>. QED
    BY <1>11, <2>1, <2>3, <2>4 DEF Scan, registry, doors
<1>12. ASSUME NEW a \in Admins, Ask(a) PROVE (TypeOK /\ Attempts)'
  <2>1. pc' \in [Tasks -> Places]
    BY <1>12 DEF Ask, Places
  <2>. QED
    BY <1>12, <2>1 DEF Ask, registry, doors
<1>13. ASSUME NEW x \in Tasks, Enter(x) PROVE (TypeOK /\ Attempts)'
  <2>1. pc' \in [Tasks -> Places] /\ holder' \in [Plugins -> Tasks \cup {None}]
    BY <1>13 DEF Enter, Places
  <2>. QED
    BY <1>13, <2>1 DEF Enter, registry, doors
<1>14. ASSUME NEW x \in Tasks, Finish(x) PROVE (TypeOK /\ Attempts)'
  <2>1. pc' \in [Tasks -> Places]
    BY <1>14 DEF Finish, After, Places
  <2>2. holder' \in [Plugins -> Tasks \cup {None}] /\ at' \in [Requests -> Nat \ {0}]
    BY <1>14 DEF Finish, Released
  <2>. QED
    BY <1>14, <2>1, <2>2 DEF Finish, registry, doors
<1>15. ASSUME NEW x \in Requests \cup Admins, Cut(x) PROVE (TypeOK /\ Attempts)'
  <2>1. pc' \in [Tasks -> Places] /\ holder' \in [Plugins -> Tasks \cup {None}]
    BY <1>15 DEF Cut, Released, Places
  <2>. QED
    BY <1>15, <2>1 DEF Cut, registry, doors
<1>16. CASE CancelLoop
  <2>1. pc' \in [Tasks -> Places]
    BY <1>16 DEF CancelLoop, Cancel, Places
  <2>. QED
    BY <1>16, <2>1 DEF CancelLoop, registry, doors
<1>17. CASE TearDown
  <2>1. table' \in [Ids -> Triggers \cup {None}]
    BY <1>17 DEF TearDown, Torn
  <2>2. down' \in Nat \ {0}
    BY <1>17 DEF TearDown
  <2>. QED
    BY <1>17, <2>1, <2>2 DEF TearDown, doors, work
<1>18. CASE UNCHANGED vars
  BY <1>18 DEF vars, registry, doors, work
<1>. QED
  BY <1>1, <1>2, <1>3, <1>4, <1>5, <1>6, <1>7, <1>8, <1>9, <1>10, <1>11, <1>12,
    <1>13, <1>14, <1>15, <1>16, <1>17, <1>18 DEF Next, Shutdown

\* Every step keeps each kind of task to its places.
LEMMA KindsStep == TypeOK /\ Kinds /\ [Next]_vars => Kinds'
<1>. SUFFICES ASSUME TypeOK, Kinds, [Next]_vars PROVE Kinds'
  OBVIOUS
<1>1. pc \in [Tasks -> Places]
  BY DEF TypeOK
<1>. USE <1>1, SetsAssumption DEF Kinds, LoopPlaces, RequestPlaces, AdminPlaces
<1>2. CASE Register
  <2>. DEFINE t == Order[next + 1]
  <2>1. CASE t \in Loops /\ pc' = [pc EXCEPT ![t] = "idle"]
    BY <2>1
  <2>2. CASE UNCHANGED pc
    BY <2>2
  <2>. QED
    BY <1>2, <2>1, <2>2 DEF Register
<1>3. CASE UNCHANGED pc
  BY <1>3
<1>4. CASE Exit
  BY <1>4 DEF Exit
<1>5. ASSUME NEW t \in Loops, Fire(t) \/ EndLoop(t) PROVE Kinds'
  BY <1>5 DEF Fire, EndLoop
<1>6. ASSUME NEW r \in Requests, Arrive(r) \/ Scan(r) PROVE Kinds'
  <2>1. pc' \in {[pc EXCEPT ![r] = s] :
                    s \in {"refused", "scanning", "answered", "waiting"}}
    BY <1>6 DEF Arrive, Scan
  <2>. QED
    BY <2>1
<1>7. ASSUME NEW a \in Admins, Ask(a) PROVE Kinds'
  BY <1>7 DEF Ask
<1>8. ASSUME NEW x \in Tasks, Enter(x) PROVE Kinds'
  BY <1>8 DEF Enter
<1>9. ASSUME NEW x \in Tasks, Finish(x) PROVE Kinds'
  <2>1. PICK s \in After(x) : pc' = [pc EXCEPT ![x] = s]
    BY <1>9 DEF Finish
  <2>. QED
    BY <2>1 DEF After
<1>10. ASSUME NEW x \in Requests \cup Admins, Cut(x) PROVE Kinds'
  BY <1>10 DEF Cut
<1>11. CASE CancelLoop
  BY <1>11 DEF CancelLoop, Cancel
<1>. QED
  BY <1>2, <1>3, <1>4, <1>5, <1>6, <1>7, <1>8, <1>9, <1>10, <1>11
  DEF Next, Shutdown, Registered, Bind, StartAdmin, Signal, Refuse, Drained,
    TearDown, CloseListener, CloseAdmin, FinishDrain, work, vars

\* A registration serves one trigger more and keeps the list genuine.
LEMMA RegisterStep ==
  ASSUME Inv, Register
  PROVE  (Genuine /\ Registering /\ DoorAfterRegistration)'
<1>. DEFINE t == Order[next + 1]
<1>. USE DEF Inv
<1>1. /\ next + 1 \in 1..Len(Order) /\ t \in Triggers /\ next' = next + 1
      /\ next \in Nat /\ boot = "registering"
      /\ UNCHANGED <<loaded, drain, down, listening>>
  BY OrderTypes DEF Register, TypeOK, doors
<1>2. ~ listening /\ \A r \in Requests : pc[r] \in {"out", "ended"}
  BY <1>1 DEF Registering, DoorAfterRegistration, Complete, Register
<1>3. \A u : Live(u)' <=> Live(u)
  BY <1>1 DEF Live, Degraded
<1>4. ASSUME handlers' = handlers, t \notin Handlers \ Bad \/ ~ Live(t)
      PROVE  ServedUpTo(next)'
  <2>1. ServedUpTo(next)
    BY <1>1 DEF Registering
  <2>2. ASSUME NEW i \in 1..next', Live(Order[i]), Order[i] \in Handlers \ Bad
        PROVE  \E k \in 1..Len(handlers) : handlers[k] = Order[i]
    <3>1. i \in 1..next
      BY <1>1, <1>4, <2>2
    <3>. QED
      BY <2>1, <2>2, <3>1 DEF ServedUpTo
  <2>. QED
    BY <1>3, <1>4, <2>2 DEF ServedUpTo
<1>5. DoorAfterRegistration'
  <2>1. \A r \in Requests : pc'[r] \in {"out", "ended"}
    BY <1>2, <1>1, SetsAssumption DEF Register, TypeOK
  <2>2. boot' \in {"registering", "failed"}
    BY <1>1 DEF Register
  <2>. QED
    BY <1>1, <1>2, <2>1, <2>2 DEF DoorAfterRegistration
<1>6. ASSUME NEW i \in (next' + 1)..Len(Order), Order[i] \in Loops, boot' = "registering"
      PROVE  pc'[Order[i]] = "off"
  <2>1. /\ i \in (next + 1)..Len(Order) /\ i # next + 1
        /\ next + 1 \in DOMAIN Order /\ i \in DOMAIN Order
    BY <1>1, <1>6, OrderTypes, MapsAssumption
  <2>2. Order[i] # t
    BY <2>1, MapsAssumption
  <2>3. pc[Order[i]] = "off"
    BY <1>1, <1>6, <2>1 DEF Registering
  <2>. QED
    BY <2>2, <2>3, <1>6 DEF Register, TypeOK
<1>7. ASSUME boot' = "registering", ServedUpTo(next)' PROVE Registering'
  BY <1>1, <1>2, <1>6, <1>7 DEF Registering
<1>8. CASE ~ Live(t) \/ t \in Bad
  <2>1. handlers' = handlers
    BY <1>8 DEF Register
  <2>2. Genuine'
    BY <1>3, <2>1 DEF Genuine
  <2>3. boot' = "registering" /\ (t \notin Handlers \ Bad \/ ~ Live(t))
    BY <1>8, <1>1 DEF Register
  <2>4. Registering'
    BY <1>4, <1>7, <2>1, <2>3
  <2>. QED
    BY <1>5, <2>2, <2>4
<1>9. CASE Live(t) /\ t \notin Bad /\ t \in Loops
  <2>1. handlers' = handlers /\ t \notin Handlers /\ boot' = "registering"
    BY <1>1, <1>9, SetsAssumption DEF Register
  <2>2. Genuine'
    BY <1>3, <2>1 DEF Genuine
  <2>. QED
    BY <1>4, <1>5, <1>7, <2>1, <2>2
<1>10. CASE Live(t) /\ t \notin Bad /\ t \in Handlers
  <2>1. /\ handlers' = Append(handlers, t) /\ boot' = "registering"
        /\ handlers \in Seq(Handlers)
    BY <1>1, <1>10, SetsAssumption DEF Register, TypeOK
  <2>2. /\ Len(handlers') = Len(handlers) + 1 /\ Len(handlers) \in Nat
        /\ handlers'[Len(handlers) + 1] = t
        /\ \A k \in 1..Len(handlers) : handlers'[k] = handlers[k]
    BY <2>1, <1>10
  <2>3. Genuine'
    <3>1. ASSUME NEW k \in 1..Len(handlers')
          PROVE  \E i \in 1..Len(Order) : Order[i] = handlers'[k] /\ Live(Order[i])
      <4>1. CASE k = Len(handlers) + 1
        BY <1>1, <1>10, <2>2, <4>1
      <4>2. CASE k \in 1..Len(handlers)
        BY <2>2, <4>2 DEF Genuine
      <4>. QED
        BY <2>2, <4>1, <4>2
    <3>. QED
      BY <1>3, <3>1 DEF Genuine
  <2>4. ServedUpTo(next)'
    <3>1. ASSUME NEW i \in 1..next', Live(Order[i]), Order[i] \in Handlers \ Bad
          PROVE  \E k \in 1..Len(handlers') : handlers'[k] = Order[i]
      <4>1. CASE i = next + 1
        BY <2>2, <4>1
      <4>2. CASE i \in 1..next
        <5>1. PICK k \in 1..Len(handlers) : handlers[k] = Order[i]
          BY <1>1, <3>1, <4>2 DEF Registering, ServedUpTo
        <5>. QED
          BY <2>2, <5>1
      <4>. QED
        BY <1>1, <4>1, <4>2
    <3>. QED
      BY <1>3, <3>1 DEF ServedUpTo
  <2>. QED
    BY <1>5, <1>7, <2>1, <2>3, <2>4
<1>. QED
  BY <1>1, <1>8, <1>9, <1>10

\* Apart from a registration, a cancellation and the exit, a task moves only by
\* a step of its own.
LEMMA Moves ==
  ASSUME TypeOK, [Next]_vars, ~ Register, ~ CancelLoop, ~ Exit,
         NEW x \in Tasks, pc'[x] # pc[x]
  PROVE  \/ x \in Loops /\ (Fire(x) \/ EndLoop(x))
         \/ x \in Requests /\ (Arrive(x) \/ Scan(x))
         \/ x \in Admins /\ Ask(x)
         \/ Enter(x) \/ Finish(x)
         \/ x \in Requests \cup Admins /\ Cut(x)
<1>1. pc \in [Tasks -> Places]
  BY DEF TypeOK
<1>2. ASSUME NEW y \in Tasks, NEW q, pc' = [pc EXCEPT ![y] = q] PROVE x = y
  BY <1>1, <1>2
<1>3. pc' # pc
  OBVIOUS
<1>4. ASSUME NEW t \in Loops, Fire(t) \/ EndLoop(t) PROVE x = t
  BY <1>2, <1>4 DEF Fire, EndLoop
<1>5. ASSUME NEW r \in Requests, Arrive(r) \/ Scan(r) PROVE x = r
  <2>1. \E q : pc' = [pc EXCEPT ![r] = q]
    BY <1>5 DEF Arrive, Scan
  <2>. QED
    BY <1>2, <2>1
<1>6. ASSUME NEW a \in Admins, Ask(a) PROVE x = a
  BY <1>2, <1>6 DEF Ask
<1>7. ASSUME NEW y \in Tasks, Enter(y) \/ Finish(y) PROVE x = y
  <2>1. \E q : pc' = [pc EXCEPT ![y] = q]
    BY <1>7 DEF Enter, Finish
  <2>. QED
    BY <1>2, <2>1
<1>8. ASSUME NEW y \in Requests \cup Admins, Cut(y) PROVE x = y
  BY <1>2, <1>8 DEF Cut
<1>9. ~ (Registered \/ Bind \/ StartAdmin \/ Signal \/ Refuse \/ Drained \/ TearDown
         \/ CloseListener \/ CloseAdmin \/ FinishDrain \/ UNCHANGED vars)
  BY <1>3 DEF Registered, Bind, StartAdmin, Signal, Refuse, Drained, TearDown,
    CloseListener, CloseAdmin, FinishDrain, work, vars
<1>. QED
  BY <1>4, <1>5, <1>6, <1>7, <1>8, <1>9 DEF Next, Shutdown

\* What no step but a registration and the fan-out changes.
LEMMA RegistryKept ==
  ASSUME UNCHANGED <<loaded, next, handlers>>
  PROVE  /\ Genuine => Genuine'
         /\ Complete => Complete'
         /\ ServedUpTo(next) => ServedUpTo(next)'
BY DEF Genuine, Complete, AllSetUp, ServedUpTo, Live, Degraded

\* Every step lets requests in only after the last registration.
LEMMA RegistrationStep ==
  Inv /\ [Next]_vars => (Genuine /\ Registering /\ DoorAfterRegistration)'
<1>. SUFFICES ASSUME Inv, [Next]_vars
              PROVE  (Genuine /\ Registering /\ DoorAfterRegistration)'
  OBVIOUS
<1>. USE DEF Inv
<1>1. CASE Register
  BY <1>1, RegisterStep
<1>2. SUFFICES ASSUME ~ Register
               PROVE  (Genuine /\ Registering /\ DoorAfterRegistration)'
  BY <1>1
<1>3. UNCHANGED <<loaded, next, handlers>>
  BY <1>2 DEF Next, Shutdown, Registered, Bind, StartAdmin, Exit, Fire, EndLoop,
    Arrive, Scan, Ask, Enter, Finish, Cut, Signal, Refuse, Drained, CancelLoop,
    TearDown, CloseListener, CloseAdmin, FinishDrain, registry, vars
<1>4. Genuine'
  BY <1>3, RegistryKept
<1>5. ASSUME boot' = "registering" PROVE boot = "registering"
  BY <1>2, <1>5 DEF Next, Shutdown, Registered, Bind, StartAdmin, Exit, Fire,
    EndLoop, Arrive, Scan, Ask, Enter, Finish, Cut, Signal, Refuse, Drained,
    CancelLoop, TearDown, CloseListener, CloseAdmin, FinishDrain, vars
<1>6. ASSUME boot = "registering", boot' = "registering"
      PROVE  /\ ~ listening' /\ down' = 1
             /\ drain' \in {"no", "refusing", "waiting"}
  <2>1. ~ listening /\ down = 1 /\ drain \in {"no", "refusing", "waiting"}
    BY <1>6 DEF Registering
  <2>. QED
    BY <1>2, <1>6, <2>1 DEF Next, Shutdown, Registered, Bind, StartAdmin, Exit,
      Fire, EndLoop, Arrive, Scan, Ask, Enter, Finish, Cut, Signal, Refuse,
      Drained, CancelLoop, TearDown, TearingDown, CloseListener, CloseAdmin,
      FinishDrain, doors, vars
<1>7. ASSUME NEW t \in Loops, pc[t] = "off", boot = "registering",
             boot' = "registering"
      PROVE  pc'[t] = "off"
  <2>1. ~ CancelLoop /\ ~ Exit
    BY <1>7 DEF Registering, CancelLoop, TearingDown, Exit
  <2>2. CASE pc'[t] # pc[t]
    BY <1>2, <1>7, <2>1, <2>2, Moves, SetsAssumption
    DEF Fire, EndLoop, Enter, Finish
  <2>. QED
    BY <1>7, <2>2
<1>8. Registering'
  BY <1>3, <1>5, <1>6, <1>7, RegistryKept DEF Registering
<1>9. CASE Complete
  BY <1>3, <1>4, <1>8, <1>9, RegistryKept DEF DoorAfterRegistration
<1>10. CASE ~ Complete /\ Registered
  <2>1. ~ AllSetUp /\ boot' = "failed"
    BY <1>10 DEF Registered, Registering, Complete
  <2>2. ~ listening' /\ \A r \in Requests : pc'[r] \in {"out", "ended"}
    BY <1>10 DEF Registered, DoorAfterRegistration, doors, work
  <2>. QED
    BY <1>4, <1>8, <2>1, <2>2 DEF DoorAfterRegistration
<1>11. CASE ~ Complete /\ ~ Registered
  <2>1. /\ boot \in {"registering", "failed", "exited"} /\ ~ listening
        /\ \A r \in Requests : pc[r] \in {"out", "ended"}
    BY <1>11 DEF DoorAfterRegistration, TypeOK
  <2>2. boot' \in {"registering", "failed", "exited"} /\ ~ listening'
    BY <1>2, <1>11, <2>1 DEF Next, Shutdown, Bind, StartAdmin, Exit,
      Fire, EndLoop, Arrive, Scan, Ask, Enter, Finish, Cut, Signal, Refuse,
      Drained, CancelLoop, TearDown, CloseListener, CloseAdmin,
      FinishDrain, doors, vars
  <2>3. ASSUME NEW r \in Requests PROVE pc'[r] \in {"out", "ended"}
    <3>1. CASE Exit
      BY <3>1 DEF Exit
    <3>2. CASE CancelLoop
      BY <2>1, <3>2, SetsAssumption DEF CancelLoop, Cancel, TypeOK
    <3>3. CASE ~ Exit /\ ~ CancelLoop /\ pc'[r] # pc[r]
      BY <1>2, <2>1, <3>3, Moves, SetsAssumption
      DEF Arrive, Scan, Enter, Finish, Cut, Busy
    <3>. QED
      BY <2>1, <3>1, <3>2, <3>3
  <2>. QED
    BY <1>4, <1>8, <2>2, <2>3 DEF DoorAfterRegistration
<1>. QED
  BY <1>4, <1>8, <1>9, <1>10, <1>11

\* A request that does not move keeps its position and what it has fired.
LEMMA Unmoved ==
  ASSUME TypeOK, Kinds, [Next]_vars, NEW r \in Requests, pc'[r] = pc[r]
  PROVE  at'[r] = at[r] /\ fired'[r] = fired[r]
<1>1. /\ pc \in [Tasks -> Places] /\ at \in [Requests -> Nat \ {0}]
      /\ fired \in [Requests -> SUBSET Handlers]
  BY DEF TypeOK
<1>2. ASSUME NEW q \in Requests, Scan(q) PROVE at'[r] = at[r] /\ fired'[r] = fired[r]
  <2>1. q # r
    BY <1>1, <1>2 DEF Scan
  <2>. QED
    BY <1>1, <1>2, <2>1 DEF Scan
<1>3. ASSUME NEW x \in Tasks, Finish(x) PROVE at'[r] = at[r] /\ fired'[r] = fired[r]
  <2>1. x # r
    BY <1>1, <1>3 DEF Finish, After
  <2>. QED
    BY <1>1, <1>3, <2>1 DEF Finish
<1>. QED
  BY <1>2, <1>3 DEF Next, Shutdown, Register, Registered, Bind, StartAdmin, Exit,
    Fire, EndLoop, Arrive, Ask, Enter, Cut, Signal, Refuse, Drained, CancelLoop,
    TearDown, CloseListener, CloseAdmin, FinishDrain, work, vars

\* Every step keeps account of what each request has passed.
LEMMA ScannedStep == Inv /\ [Next]_vars => Scanned'
<1>. SUFFICES ASSUME Inv, [Next]_vars PROVE Scanned'
  OBVIOUS
<1>. USE DEF Inv
<1>1. /\ pc \in [Tasks -> Places] /\ at \in [Requests -> Nat \ {0}]
      /\ fired \in [Requests -> SUBSET Handlers] /\ Len(handlers) \in Nat
  BY DEF TypeOK
<1>2. SUFFICES ASSUME NEW r \in Requests
      PROVE  /\ pc'[r] = "out" => at'[r] = 1 /\ fired'[r] = {}
             /\ pc'[r] = "scanning" => /\ at'[r] <= Len(handlers)' + 1
                                      /\ fired'[r] = TakenUpTo(r, at[r] - 1)'
             /\ pc'[r] \in {"waiting", "acting"} =>
                  at'[r] <= Len(handlers)' /\ fired'[r] = TakenUpTo(r, at[r])'
             /\ pc'[r] = "answered" => fired'[r] = TakenUpTo(r, Len(handlers))'
  BY DEF Scanned
<1>3. r \in Tasks /\ r \notin Loops /\ r \notin Admins
  BY SetsAssumption
<1>4. CASE Register
  <2>1. pc[r] \in {"out", "ended"}
    BY <1>4 DEF Register, Registering, DoorAfterRegistration, Complete
  <2>2. pc'[r] = pc[r] /\ at' = at /\ fired' = fired
    BY <1>1, <1>3, <1>4 DEF Register
  <2>. QED
    BY <2>1, <2>2 DEF Scanned
<1>5. CASE Exit
  BY <1>3, <1>5 DEF Exit
<1>6. CASE ~ Register /\ ~ Exit /\ pc'[r] = pc[r]
  <2>1. handlers' = handlers
    BY <1>6 DEF Next, Shutdown, Registered, Bind, StartAdmin, Fire, EndLoop,
      Arrive, Scan, Ask, Enter, Finish, Cut, Signal, Refuse, Drained, CancelLoop,
      TearDown, CloseListener, CloseAdmin, FinishDrain, registry, vars
  <2>. QED
    BY <1>6, <2>1, Unmoved DEF Scanned, TakenUpTo
<1>7. CASE ~ Register /\ ~ Exit /\ pc'[r] # pc[r]
  <2>1. ~ CancelLoop
    BY <1>1, <1>3, <1>7 DEF CancelLoop, Cancel
  <2>2. CASE Arrive(r)
    <3>1. at'[r] = 1 /\ fired'[r] = {} /\ pc'[r] \in {"refused", "scanning"}
      BY <1>1, <1>3, <2>2 DEF Arrive, Scanned
    <3>2. TakenUpTo(r, at[r] - 1)' = {}
      BY <3>1 DEF TakenUpTo
    <3>. QED
      BY <1>1, <2>2, <3>1, <3>2 DEF Arrive, registry
  <2>3. CASE Scan(r)
    <3>1. /\ handlers' = handlers /\ at[r] <= Len(handlers) + 1
          /\ fired[r] = TakenUpTo(r, at[r] - 1)
      BY <2>3 DEF Scan, registry, Scanned
    <3>2. CASE Taking(r) = {}
      <4>1. pc'[r] = "answered" /\ fired' = fired
        BY <1>1, <1>3, <2>3, <3>2 DEF Scan
      <4>2. \A k \in 1..Len(handlers) : handlers[k] \in Takes[r] => k \in 1..(at[r] - 1)
        BY <1>1, <3>2 DEF Taking
      <4>3. TakenUpTo(r, at[r] - 1) = TakenUpTo(r, Len(handlers))
        BY <1>1, <3>1, <4>2 DEF TakenUpTo
      <4>. QED
        BY <3>1, <4>1, <4>3 DEF TakenUpTo
    <3>3. CASE Taking(r) # {}
      <4>1. PICK i \in Taking(r) :
              /\ \A j \in Taking(r) : i <= j
              /\ at' = [at EXCEPT ![r] = i]
              /\ fired' = [fired EXCEPT ![r] = @ \cup {handlers[i]}]
              /\ pc' = [pc EXCEPT ![r] = "waiting"]
        BY <2>3, <3>3 DEF Scan
      <4>2. i \in 1..Len(handlers) /\ at[r] <= i /\ handlers[i] \in Takes[r]
        BY <1>1, <4>1 DEF Taking
      <4>3. \A k \in 1..i : handlers[k] \in Takes[r] => k \in 1..(at[r] - 1) \/ k = i
        BY <1>1, <4>1, <4>2 DEF Taking
      <4>4. TakenUpTo(r, i) = TakenUpTo(r, at[r] - 1) \cup {handlers[i]}
        BY <1>1, <4>2, <4>3 DEF TakenUpTo
      <4>5. /\ at'[r] = i /\ pc'[r] = "waiting"
            /\ fired'[r] = TakenUpTo(r, i)
        BY <1>1, <1>3, <3>1, <4>1, <4>4
      <4>. QED
        BY <3>1, <4>2, <4>5 DEF TakenUpTo
    <3>. QED
      BY <3>2, <3>3
  <2>4. CASE Enter(r)
    <3>1. pc[r] = "waiting" /\ pc'[r] = "acting" /\ UNCHANGED <<at, fired, handlers>>
      BY <1>1, <1>3, <2>4 DEF Enter, registry
    <3>. QED
      BY <3>1 DEF Scanned, TakenUpTo
  <2>5. CASE Finish(r)
    <3>1. /\ pc[r] = "acting" /\ pc'[r] = "scanning" /\ UNCHANGED <<fired, handlers>>
          /\ at'[r] = at[r] + 1
      BY <1>1, <1>3, <2>5 DEF Finish, After, registry
    <3>2. at'[r] - 1 = at[r]
      BY <1>1, <3>1
    <3>. QED
      BY <1>1, <3>1, <3>2 DEF Scanned, TakenUpTo
  <2>6. CASE Cut(r)
    BY <1>1, <1>3, <2>6 DEF Cut
  <2>. QED
    BY <1>3, <1>7, <2>1, <2>2, <2>3, <2>4, <2>5, <2>6, Moves
<1>. QED
  BY <1>4, <1>5, <1>6, <1>7

\* A task that gives its locks back holds none, and takes no other's.
LEMMA ReleasedAll ==
  ASSUME NEW x \in Tasks, NEW p \in Plugins, Released(x)[p] # None
  PROVE  Released(x)[p] = holder[p] /\ holder[p] # x
BY DEF Released

\* Every step leaves the locks with tasks inside a transition.
LEMMA LocksStep == Inv /\ [Next]_vars => Locks'
<1>. SUFFICES ASSUME Inv, [Next]_vars, NEW p \in Plugins, holder'[p] # None
              PROVE  pc'[holder'[p]] \in {"acting", "cancelled"}
  BY DEF Locks
<1>. USE DEF Inv
<1>. DEFINE h == holder[p]
<1>1. /\ pc \in [Tasks -> Places] /\ holder \in [Plugins -> Tasks \cup {None}]
      /\ h # None => h \in Tasks /\ pc[h] \in {"acting", "cancelled"}
  BY DEF TypeOK, Locks
<1>2. ASSUME NEW x \in Tasks, holder' = Released(x), NEW q,
             pc' = [pc EXCEPT ![x] = q]
      PROVE  pc'[holder'[p]] \in {"acting", "cancelled"}
  BY <1>1, <1>2, ReleasedAll
<1>3. ASSUME NEW x \in Tasks, pc[x] \notin {"acting", "cancelled"},
             holder' = holder, NEW q, pc' = [pc EXCEPT ![x] = q]
      PROVE  pc'[holder'[p]] \in {"acting", "cancelled"}
  BY <1>1, <1>3
<1>4. CASE Register
  <2>. DEFINE t == Order[next + 1]
  <2>1. holder' = holder /\ t \in Triggers
    BY <1>4, OrderTypes DEF Register, TypeOK
  <2>2. CASE t \in Loops /\ pc' = [pc EXCEPT ![t] = "idle"]
    <3>1. pc[t] = "off"
      BY <1>4, <2>2, OrderTypes DEF Register, Registering, TypeOK
    <3>. QED
      BY <1>3, <2>1, <2>2, <3>1
  <2>3. CASE pc' = pc
    BY <1>1, <2>1, <2>3
  <2>. QED
    BY <1>4, <2>2, <2>3 DEF Register
<1>5. CASE Exit
  BY <1>5 DEF Exit
<1>6. CASE CancelLoop
  BY <1>1, <1>6 DEF CancelLoop, Cancel
<1>7. ASSUME NEW x \in Tasks, Enter(x) PROVE pc'[holder'[p]] \in {"acting", "cancelled"}
  <2>1. pc[x] = "waiting" /\ pc' = [pc EXCEPT ![x] = "acting"]
    BY <1>7 DEF Enter
  <2>2. holder'[p] = x \/ holder'[p] = h
    BY <1>1, <1>7 DEF Enter
  <2>. QED
    BY <1>1, <2>1, <2>2
<1>8. ASSUME NEW x \in Tasks, Finish(x) PROVE pc'[holder'[p]] \in {"acting", "cancelled"}
  BY <1>2, <1>8 DEF Finish
<1>9. ASSUME NEW t \in Loops, Fire(t) \/ EndLoop(t)
      PROVE  pc'[holder'[p]] \in {"acting", "cancelled"}
  BY <1>2, <1>3, <1>9 DEF Fire, EndLoop
<1>10. ASSUME NEW r \in Requests, Arrive(r) \/ Scan(r)
       PROVE  pc'[holder'[p]] \in {"acting", "cancelled"}
  <2>1. /\ pc[r] \notin {"acting", "cancelled"} /\ holder' = holder
        /\ \E q : pc' = [pc EXCEPT ![r] = q]
    BY <1>10 DEF Arrive, Scan
  <2>. QED
    BY <1>3, <2>1
<1>11. ASSUME NEW a \in Admins, Ask(a) PROVE pc'[holder'[p]] \in {"acting", "cancelled"}
  BY <1>3, <1>11 DEF Ask
<1>12. ASSUME NEW x \in Requests \cup Admins, Cut(x)
       PROVE  pc'[holder'[p]] \in {"acting", "cancelled"}
  BY <1>2, <1>12 DEF Cut
<1>13. CASE UNCHANGED <<pc, holder>>
  BY <1>1, <1>13
<1>. QED
  BY <1>4, <1>5, <1>6, <1>7, <1>8, <1>9, <1>10, <1>11, <1>12, <1>13
  DEF Next, Shutdown, Registered, Bind, StartAdmin, Signal, Refuse, Drained,
    TearDown, CloseListener, CloseAdmin, FinishDrain, work, vars

\* Every step keeps the registered triggers registered, and only a
\* registration adds one.
LEMMA RegistrationsStep == Inv /\ [Next]_vars => Registrations'
<1>. SUFFICES ASSUME Inv, [Next]_vars PROVE Registrations'
  OBVIOUS
<1>. USE DEF Inv
<1>1. /\ pc \in [Tasks -> Places] /\ table \in [Ids -> Triggers \cup {None}]
      /\ next \in Nat
  BY OrderTypes DEF TypeOK
<1>2. next' = next \/ (Register /\ next' = next + 1)
  BY DEF Next, Shutdown, Register, Registered, Bind, StartAdmin, Exit, Fire,
    EndLoop, Arrive, Scan, Ask, Enter, Finish, Cut, Signal, Refuse, Drained,
    CancelLoop, TearDown, CloseListener, CloseAdmin, FinishDrain, registry, vars
<1>3. \A t : Enlisted(t, next) => Enlisted(t, next')
  BY <1>1, <1>2 DEF Enlisted
<1>4. ASSUME Register
      PROVE  /\ Order[next + 1] \in Triggers /\ Id[Order[next + 1]] \in Ids
             /\ Enlisted(Order[next + 1], next')
  BY <1>1, <1>4, OrderTypes DEF Register, TypeOK, Enlisted
<1>5. ASSUME NEW i \in Ids, table'[i] # None
      PROVE  Id[table'[i]] = i /\ Enlisted(table'[i], next')
  <2>1. table[i] # None => Id[table[i]] = i /\ Enlisted(table[i], next)
    BY DEF Registrations
  <2>2. CASE Register
    <3>1. table' = table \/ table' = [table EXCEPT ![Id[Order[next + 1]]] = Order[next + 1]]
      BY <2>2 DEF Register
    <3>. QED
      BY <1>1, <1>3, <1>4, <1>5, <2>1, <2>2, <3>1
  <2>3. CASE TearDown
    BY <1>1, <1>3, <1>5, <2>1, <2>3 DEF TearDown
  <2>4. CASE table' = table
    BY <1>3, <1>5, <2>1, <2>4
  <2>. QED
    BY <2>2, <2>3, <2>4 DEF Next, Shutdown, Registered, Bind, StartAdmin, Exit,
      Fire, EndLoop, Arrive, Scan, Ask, Enter, Finish, Cut, Signal, Refuse,
      Drained, CancelLoop, CloseListener, CloseAdmin, FinishDrain, registry, vars
<1>6. ASSUME NEW t \in Loops, pc'[t] \notin {"off", "ended"} PROVE Enlisted(t, next')
  <2>1. pc[t] \notin {"off", "ended"} => Enlisted(t, next)
    BY DEF Registrations
  <2>2. CASE Register /\ pc'[t] # pc[t]
    <3>1. t = Order[next + 1]
      BY <1>1, <2>2 DEF Register
    <3>. QED
      BY <1>4, <2>2, <3>1
  <2>3. CASE CancelLoop /\ pc'[t] # pc[t]
    <3>1. t = Torn /\ ids[down] \in Ids
      BY <1>1, <2>3 DEF CancelLoop, Cancel, TearingDown, TypeOK
    <3>2. t \in Triggers /\ t # None
      BY SetsAssumption
    <3>. QED
      BY <1>3, <3>1, <3>2 DEF Registrations, Torn
  <2>4. CASE Exit
    BY <1>6, <2>4 DEF Exit
  <2>5. CASE ~ (Register \/ CancelLoop \/ Exit) /\ pc'[t] # pc[t]
    BY <1>3, <1>6, <2>1, <2>5, Moves, SetsAssumption DEF Fire, EndLoop, Enter, Finish
  <2>6. CASE pc'[t] = pc[t]
    BY <1>3, <1>6, <2>1, <2>6
  <2>. QED
    BY <2>2, <2>3, <2>4, <2>5, <2>6
<1>. QED
  BY <1>5, <1>6 DEF Registrations

\* Every step leaves the running loops that keep their ids within the teardown's
\* reach: a registration that overwrites an entry overtakes its trigger, the
\* teardown passes no trigger whose task runs.
LEMMA ReachableStep == Inv /\ [Next]_vars => Reachable'
<1>. SUFFICES ASSUME Inv, [Next]_vars,
                     NEW t \in Loops, pc'[t] \notin {"off", "ended"}, ~ Overtaken(t)'
              PROVE  \E k \in down'..Len(ids') : ids'[k] = Id[t] /\ table'[Id[t]] = t
  BY DEF Reachable
<1>. USE DEF Inv
<1>1. /\ pc \in [Tasks -> Places] /\ ids \in Seq(Ids) /\ Len(ids) \in Nat
      /\ down \in Nat \ {0} /\ table \in [Ids -> Triggers \cup {None}]
      /\ next \in Nat
  BY OrderTypes DEF TypeOK
<1>2. /\ loaded' = loaded
      /\ next' = next \/ (Register /\ next' = next + 1)
  BY DEF Next, Shutdown, Register, Registered, Bind, StartAdmin, Exit, Fire,
    EndLoop, Arrive, Scan, Ask, Enter, Finish, Cut, Signal, Refuse, Drained,
    CancelLoop, TearDown, CloseListener, CloseAdmin, FinishDrain, registry, vars
<1>3. ~ Overtaken(t)
  <2>1. \A u : Live(u)' <=> Live(u)
    BY <1>2 DEF Live, Degraded
  <2>. QED
    BY <1>1, <1>2, <2>1 DEF Overtaken
<1>4. /\ t \in Triggers /\ t # None /\ t \notin Handlers /\ Id[t] \in Ids
      /\ pc[t] \notin {"off", "ended"} =>
           \E k \in down..Len(ids) : ids[k] = Id[t] /\ table[Id[t]] = t
  BY <1>3, SetsAssumption DEF Reachable, Ids
<1>5. CASE Register
  <2>. DEFINE u == Order[next + 1]
  <2>1. /\ u \in Triggers /\ down' = down /\ down = 1 /\ Id[u] \in Ids
    BY <1>5, OrderTypes DEF Register, TypeOK, Registering
  <2>2. CASE UNCHANGED <<ids, table, pc>>
    BY <1>4, <2>1, <2>2
  <2>3. CASE /\ ids' = Append(ids, Id[u]) /\ table' = [table EXCEPT ![Id[u]] = u]
             /\ Live(u) /\ u \notin Bad
    <3>1. /\ Len(ids') = Len(ids) + 1 /\ ids'[Len(ids) + 1] = Id[u]
          /\ \A k \in 1..Len(ids) : ids'[k] = ids[k]
      BY <1>1, <2>1, <2>3
    <3>2. CASE t = u
      BY <1>1, <2>1, <2>3, <3>1, <3>2
    <3>3. CASE t # u
      <4>1. pc'[t] = pc[t]
        BY <1>1, <1>5, <3>3 DEF Register
      <4>2. PICK i \in 1..next : Order[i] = t
        BY <4>1 DEF Registrations, Enlisted
      <4>3. next' = next + 1 /\ \A k : Live(Order[k])' <=> Live(Order[k])
        BY <1>2, <1>5 DEF Live, Degraded, Register
      <4>4. Id[u] # Id[t]
        <5>1. i \in 1..next' /\ next + 1 \in 1..next' /\ i < next + 1
          BY <1>1, <4>2, <4>3
        <5>. QED
          BY <2>3, <4>2, <4>3, <5>1 DEF Overtaken
      <4>5. table'[Id[t]] = table[Id[t]]
        BY <1>1, <1>4, <2>1, <2>3, <4>4
      <4>6. PICK k \in down..Len(ids) : ids[k] = Id[t] /\ table[Id[t]] = t
        BY <1>4, <4>1
      <4>. QED
        BY <1>1, <2>1, <3>1, <4>5, <4>6
    <3>. QED
      BY <3>2, <3>3
  <2>. QED
    BY <1>5, <2>2, <2>3 DEF Register, Listed
<1>6. CASE TearDown
  <2>1. PICK k \in down..Len(ids) : ids[k] = Id[t] /\ table[Id[t]] = t
    BY <1>4, <1>6 DEF TearDown, work
  <2>2. Torn # t
    BY <1>4, <1>6 DEF TearDown, Gone, work
  <2>3. ids[down] # Id[t]
    BY <2>1, <2>2 DEF Torn
  <2>4. k \in (down + 1)..Len(ids) /\ table'[Id[t]] = t
    BY <1>1, <1>4, <1>6, <2>1, <2>3 DEF TearDown
  <2>. QED
    BY <1>6, <2>1, <2>4 DEF TearDown
<1>7. CASE CancelLoop /\ Torn = t
  <2>1. ids[down] \in Ids /\ down \in down..Len(ids) /\ table[ids[down]] = t
    BY <1>1, <1>7 DEF CancelLoop, TearingDown, Torn
  <2>2. Id[t] = ids[down]
    BY <1>4, <2>1 DEF Registrations
  <2>. QED
    BY <1>7, <2>1, <2>2 DEF CancelLoop, registry
<1>8. CASE CancelLoop /\ Torn # t
  BY <1>1, <1>4, <1>8 DEF CancelLoop, Cancel, registry
<1>9. CASE Exit
  BY <1>9 DEF Exit
<1>10. CASE ~ (Register \/ TearDown \/ CancelLoop \/ Exit)
  <2>1. UNCHANGED <<ids, table, down>>
    BY <1>10 DEF Next, Shutdown, Registered, Bind, StartAdmin, Fire, EndLoop,
      Arrive, Scan, Ask, Enter, Finish, Cut, Signal, Refuse, Drained,
      CloseListener, CloseAdmin, FinishDrain, registry, vars
  <2>2. pc[t] \notin {"off", "ended"}
    <3>1. CASE pc'[t] # pc[t]
      BY <1>10, <3>1, Moves, SetsAssumption DEF Fire, EndLoop, Enter, Finish
    <3>. QED
      BY <3>1
  <2>. QED
    BY <1>4, <2>1, <2>2
<1>. QED
  BY <1>5, <1>6, <1>7, <1>8, <1>9, <1>10

\* Every step keeps what the shutdown has behind it.
LEMMA BehindStep == Inv /\ [Next]_vars => Behind'
<1>. SUFFICES ASSUME Inv, [Next]_vars PROVE Behind'
  OBVIOUS
<1>. USE DEF Inv
<1>1. pc \in [Tasks -> Places] /\ Len(ids) \in Nat /\ down \in Nat
  BY DEF TypeOK
<1>2. drain' \in {"closing", "finishing", "done"} => down' > Len(ids') /\ ~ listening'
  <2>1. CASE Register
    BY <2>1 DEF Register, Registering
  <2>2. CASE ~ Register
    BY <1>1, <2>2 DEF Behind, Next, Shutdown, Registered, Bind, RunnerGone,
      StartAdmin, Exit, Fire, EndLoop, Arrive, Scan, Ask, Enter, Finish, Cut,
      Signal, Refuse, Drained, CancelLoop, TearDown, CloseListener, CloseAdmin,
      FinishDrain, registry, doors, vars
  <2>. QED
    BY <2>1, <2>2
\* Requests and admin requests get busy only through an open door.
<1>3. ASSUME NEW r \in Requests, r \in Busy(Requests)', r \notin Busy(Requests)
      PROVE  listening
  <2>1. pc'[r] # pc[r] /\ pc'[r] \in {"scanning", "waiting", "acting"}
    BY <1>3 DEF Busy
  <2>2. ~ Register /\ ~ CancelLoop /\ ~ Exit
    BY <1>1, <2>1, OrderTypes, SetsAssumption
    DEF Register, CancelLoop, Cancel, Exit, TypeOK
  <2>. QED
    BY <1>3, <2>1, <2>2, Moves, SetsAssumption
    DEF Arrive, Scan, Enter, Finish, Cut, Busy
<1>4. ASSUME NEW a \in Admins, a \in Busy(Admins)', a \notin Busy(Admins)
      PROVE  adminUp /\ drain # "done" /\ UNCHANGED <<adminUp, drain>>
  <2>1. pc'[a] # pc[a] /\ pc'[a] \in {"scanning", "waiting", "acting"}
    BY <1>4 DEF Busy
  <2>2. ~ Register /\ ~ CancelLoop /\ ~ Exit
    BY <1>1, <2>1, OrderTypes, SetsAssumption
    DEF Register, CancelLoop, Cancel, Exit, TypeOK
  <2>. QED
    BY <1>1, <1>4, <2>1, <2>2, Moves, SetsAssumption
    DEF Ask, Enter, Finish, Cut, After, Busy, doors
<1>5. drain' \in {"finishing", "done"} => Busy(Requests)' = {}
  <2>1. CASE drain \in {"finishing", "done"}
    BY <1>3, <2>1 DEF Behind, Busy
  <2>2. CASE drain \notin {"finishing", "done"} /\ drain' \in {"finishing", "done"}
    BY <2>2 DEF Next, Shutdown, Register, Registered, Bind, StartAdmin, Exit,
      Fire, EndLoop, Arrive, Scan, Ask, Enter, Finish, Cut, Signal, Refuse,
      Drained, CancelLoop, TearDown, CloseListener, CloseAdmin, FinishDrain,
      work, vars, Busy
  <2>. QED
    BY <2>1, <2>2
<1>6. (adminUp' \/ drain' = "finishing" \/ Busy(Admins)' = {})
      /\ (drain' = "done" => Busy(Admins)' = {})
  <2>1. CASE \E a \in Admins : a \in Busy(Admins)' /\ a \notin Busy(Admins)
    BY <1>4, <2>1
  <2>2. CASE Busy(Admins)' \subseteq Busy(Admins)
    <3>1. CASE Exit
      BY <3>1, SetsAssumption DEF Exit, Busy
    <3>2. CASE CloseAdmin
      BY <2>2, <3>2 DEF CloseAdmin, Behind
    <3>3. CASE FinishDrain
      BY <2>2, <3>3 DEF FinishDrain, Behind
    <3>4. CASE StartAdmin
      BY <2>2, <3>4 DEF StartAdmin, Behind, Busy
    <3>5. CASE ~ (Exit \/ CloseAdmin \/ FinishDrain \/ StartAdmin)
      <4>1. /\ adminUp => adminUp'
            /\ drain' = drain \/ (drain # "finishing" /\ drain' # "done")
        BY <3>5 DEF Next, Shutdown, Register, Registered, Bind, Fire, EndLoop,
          Arrive, Scan, Ask, Enter, Finish, Cut, Signal, Refuse, Drained,
          CancelLoop, TearDown, CloseListener, doors, vars
      <4>. QED
        BY <2>2, <4>1 DEF Behind
    <3>. QED
      BY <3>1, <3>2, <3>3, <3>4, <3>5
  <2>. QED
    BY <2>1, <2>2 DEF Busy
<1>. QED
  BY <1>2, <1>5, <1>6 DEF Behind

\* The parts of the invariant are inductive together: what is registered, who is
\* where, who holds which lock and how far the teardown has come.
\* (host.py:89-379, trigger.py:78-120)
THEOREM InvHolds == Spec => []Inv
<1>1. Inv /\ [Next]_vars => Inv'
  BY TypeStep, KindsStep, RegistrationStep, ScannedStep, LocksStep,
    RegistrationsStep, ReachableStep, BehindStep DEF Inv
<1>. QED
  BY <1>1, InitInv, PTL DEF Spec

\* Every variable keeps its type, for any plugins, triggers and requests.
THEOREM TypeCorrect == Spec => []TypeOK
<1>1. Inv => TypeOK
  BY DEF Inv
<1>. QED
  BY <1>1, InvHolds, PTL

\* An answered message was offered to every trigger that takes it, however many
\* there are and whatever runs in between.  (host.py:173-177,
\* a2a_client.py:432-441)
THEOREM FanOutComplete == Spec => []FanOut
<1>1. Inv => FanOut
  <2>. SUFFICES ASSUME Inv, NEW r \in Requests, pc[r] = "answered"
       PROVE  fired[r] = {Order[i] : i \in {i \in DOMAIN Order :
                                       Live(Order[i]) /\ Order[i] \in Takes[r]}}
    BY DEF FanOut
  <2>1. Complete /\ Genuine /\ fired[r] = TakenUpTo(r, Len(handlers))
    BY DEF Inv, DoorAfterRegistration, Scanned
  <2>2. Takes[r] \subseteq Handlers /\ DOMAIN Order = 1..Len(Order)
    BY MapsAssumption
  <2>3. ASSUME NEW k \in 1..Len(handlers), handlers[k] \in Takes[r]
        PROVE  \E i \in DOMAIN Order : /\ Order[i] = handlers[k]
                                      /\ Live(Order[i]) /\ Order[i] \in Takes[r]
    BY <2>1, <2>2, <2>3 DEF Genuine
  <2>4. ASSUME NEW i \in DOMAIN Order, Live(Order[i]), Order[i] \in Takes[r]
        PROVE  \E k \in 1..Len(handlers) : /\ Order[i] = handlers[k]
                                           /\ handlers[k] \in Takes[r]
    <3>1. Order[i] \in Handlers \ Bad
      BY <2>1, <2>2, <2>4 DEF Complete, AllSetUp
    <3>. QED
      BY <2>1, <2>2, <2>4, <3>1 DEF Complete, ServedUpTo
  <2>. QED
    BY <2>1, <2>3, <2>4 DEF TakenUpTo
<1>. QED
  BY <1>1, InvHolds, PTL

\* The loops that outlive the scheduler's shutdown are those whose id a later
\* registration took: the table has lost them.  (trigger.py:92-120)
THEOREM OnlyOvertakenLeft == Spec => []TornDown
<1>1. Inv => TornDown
  <2>. SUFFICES ASSUME Inv, drain \in {"closing", "finishing", "done"},
                       NEW t \in Loops, pc[t] \notin {"off", "ended"}, ~ Overtaken(t)
                PROVE  FALSE
    BY DEF TornDown
  <2>1. \E k \in down..Len(ids) : TRUE
    BY DEF Inv, Reachable
  <2>2. down > Len(ids) /\ down \in Nat /\ Len(ids) \in Nat
    BY DEF Inv, Behind, TypeOK
  <2>. QED
    BY <2>1, <2>2
<1>. QED
  BY <1>1, InvHolds, PTL

\* Nobody but such a loop is inside a transition when shutdown() returns.
\* (host.py:352-379)
THEOREM OnlyOvertakenInside == Spec => []Quiet
<1>1. Inv /\ TornDown => Quiet
  <2>. SUFFICES ASSUME Inv, TornDown, drain = "done",
                       NEW p \in Plugins, holder[p] # None
                PROVE  holder[p] \in Loops /\ Overtaken(holder[p])
    BY DEF Quiet
  <2>. DEFINE x == holder[p]
  <2>1. x \in Tasks /\ pc[x] \in {"acting", "cancelled"}
    BY DEF Inv, Locks, TypeOK
  <2>2. CASE x \in Loops
    BY <2>1, <2>2 DEF TornDown
  <2>3. CASE x \notin Loops
    <3>1. pc[x] = "acting"
      BY <2>1, <2>3 DEF Inv, Kinds, RequestPlaces, AdminPlaces
    <3>2. x \in Busy(Requests) \/ x \in Busy(Admins)
      BY <2>1, <2>3, <3>1 DEF Busy
    <3>. QED
      BY <3>2 DEF Inv, Behind
  <2>. QED
    BY <2>2, <2>3
<1>. QED
  BY <1>1, InvHolds, OnlyOvertakenLeft, PTL

----------------------------------------------------------------------------
(* With an id for each trigger.                                            *)

OwnIds == \A t, u \in Triggers : Id[t] = Id[u] => t = u

LEMMA NoneOvertaken == ASSUME OwnIds, Inv, NEW t \in Loops PROVE ~ Overtaken(t)
<1>. SUFFICES ASSUME NEW i \in 1..next, NEW j \in 1..next, i < j, Order[i] = t,
                     Id[Order[j]] = Id[t]
              PROVE  FALSE
  BY DEF Overtaken
<1>1. /\ i \in DOMAIN Order /\ j \in DOMAIN Order /\ i # j
      /\ Order[i] \in Triggers /\ Order[j] \in Triggers
  BY OrderTypes, MapsAssumption DEF Inv, TypeOK
<1>2. Order[j] = Order[i]
  BY <1>1 DEF OwnIds
<1>. QED
  BY <1>1, <1>2, MapsAssumption

\* If no two triggers share an id, every cron loop and poller there is has ended
\* once the scheduler has shut down.  (trigger.py:92-120)
THEOREM AllTornDown ==
  OwnIds => (Spec => [](drain \in {"closing", "finishing", "done"} =>
                          \A t \in Loops : pc[t] \in {"off", "ended"}))
<1>. SUFFICES ASSUME OwnIds
              PROVE  Spec => [](drain \in {"closing", "finishing", "done"} =>
                                  \A t \in Loops : pc[t] \in {"off", "ended"})
  OBVIOUS
<1>1. Inv /\ TornDown => (drain \in {"closing", "finishing", "done"} =>
                            \A t \in Loops : pc[t] \in {"off", "ended"})
  BY NoneOvertaken DEF TornDown
<1>. QED
  BY <1>1, InvHolds, OnlyOvertakenLeft, PTL

\* If no two triggers share an id, nobody at all is inside a transition when
\* shutdown() returns.  (host.py:352-379)
THEOREM QuietAtTheEnd ==
  OwnIds => (Spec => [](drain = "done" => \A p \in Plugins : holder[p] = None))
<1>. SUFFICES ASSUME OwnIds
              PROVE  Spec => [](drain = "done" => \A p \in Plugins : holder[p] = None)
  OBVIOUS
<1>1. Inv /\ Quiet => (drain = "done" => \A p \in Plugins : holder[p] = None)
  BY NoneOvertaken DEF Quiet
<1>. QED
  BY <1>1, InvHolds, OnlyOvertakenInside, PTL
=============================================================================
