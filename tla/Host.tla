--------------------------------- MODULE Host ---------------------------------
(***************************************************************************)
(* The life of a host: start-up and shutdown (core/host.py), the trigger   *)
(* registry (core/trigger.py), the triggers' tasks and handlers            *)
(* (core/trigger_impl.py), the A2A listener that offers a message to every *)
(* handler in turn (core/a2a_client.py) and the admin API's triggers.      *)
(*                                                                         *)
(* A plugin's engine is its lock: who is inside a transition, and who      *)
(* waits.  What a transition does is the business of Statechart.  A setup  *)
(* never suspends, so a registration is one step of the event loop.        *)
(***************************************************************************)
EXTENDS Integers, Sequences, FiniteSets

CONSTANTS
  Plugins,
  Requires,   \* the plugins each plugin requires
  Unmet,      \* plugins that require a peer or capability there is not
  Loops,      \* cron and history_change triggers: a task each
  Handlers,   \* a2a_message_type and a2a_content_match triggers
  Order,      \* the triggers in the order _setup_triggers collects them
  Id,         \* a trigger's id; nothing makes ids unique
  Owner,      \* a trigger's plugin
  Bad,        \* triggers whose setup raises
  Requests,   \* POSTs of a message to the listener
  Takes,      \* the handlers that match a request's message and fire for it
  Admins,     \* POSTs to /admin/plugins/{name}/trigger
  Asks,       \* the plugin each of them names
  Stuck,      \* plugins whose transitions may never end
  None

Triggers == Loops \cup Handlers
Tasks == Loops \cup Requests \cup Admins
Ids == {Id[t] : t \in Triggers}

ASSUME SetsAssumption ==
  /\ Loops \cap Handlers = {} /\ Loops \cap Requests = {}
  /\ Loops \cap Admins = {} /\ Requests \cap Admins = {}
  /\ Bad \subseteq Triggers /\ None \notin Triggers /\ None \notin Tasks
ASSUME MapsAssumption ==
  /\ Requires \in [Plugins -> SUBSET Plugins] /\ Unmet \subseteq Plugins
  /\ Order \in Seq(Triggers)
  /\ \A i, j \in DOMAIN Order : Order[i] = Order[j] => i = j
  /\ Owner \in [Triggers -> Plugins] /\ Id \in [Triggers -> Ids]
  /\ Takes \in [Requests -> SUBSET Handlers] /\ Asks \in [Admins -> Plugins]

VARIABLES
  loaded,     \* plugins load_all accepted
  boot,       \* how far start() has come
  next,       \* triggers of Order that are registered or passed over
  attempt,    \* binds of the listener's port that failed
  ids,        \* _by_plugin, one list after the other
  table,      \* _triggers: id -> trigger
  handlers,   \* the listener's _inbound_handlers
  listening, rejecting, adminUp,
  drain,      \* how far shutdown() has come
  down,       \* the position in ids of the teardown
  pc,         \* where each task is
  at,         \* a request's position in handlers
  holder,     \* who is inside each plugin's transition
  fired       \* for the properties: the triggers a request has fired

registry == <<next, ids, table, handlers>>
doors == <<listening, rejecting, adminUp>>
work == <<pc, at, holder, fired>>
vars == <<loaded, boot, attempt, registry, doors, drain, down, work>>

Init ==
  /\ loaded \in SUBSET Plugins
  \* start() raises before it registers anything when no plugin was loaded, or
  \* when a trigger's constructor raises.
  /\ boot \in {"registering", "failed"} /\ (loaded = {} => boot = "failed")
  /\ next = 0 /\ attempt = 0
  /\ ids = <<>> /\ handlers = <<>> /\ table = [i \in Ids |-> None]
  /\ listening = FALSE /\ rejecting = FALSE /\ adminUp = FALSE
  /\ drain = "no" /\ down = 1
  /\ pc = [x \in Tasks |-> IF x \in Loops THEN "off" ELSE "out"]
  /\ at = [r \in Requests |-> 1]
  /\ holder = [p \in Plugins |-> None]
  /\ fired = [r \in Requests |-> {}]

----------------------------------------------------------------------------
(* Start-up.                                                               *)

\* A plugin that misses a dependency stays loaded, without its triggers.
Degraded ==
  {p \in loaded : p \in Unmet \/ ~ (Requires[p] \subseteq loaded \cup {p})}
Live(t) == Owner[t] \in loaded \ Degraded

\* Mutant: a registration replaces what its plugin's list had.
OnlyLatest(t) == <<Id[t]>>
Listed(t) == Append(ids, Id[t])

\* One setup of gather()'s.  One that raises leaves its trigger out, and the
\* others go on.
Register ==
  /\ boot = "registering" /\ next < Len(Order)
  /\ next' = next + 1
  /\ LET t == Order[next + 1] IN
     \/ /\ ~ Live(t) \/ t \in Bad
        /\ UNCHANGED <<ids, table, handlers, pc>>
     \/ /\ Live(t) /\ t \notin Bad
        /\ ids' = Listed(t)
        /\ table' = [table EXCEPT ![Id[t]] = t]
        /\ \/ /\ t \in Loops /\ pc' = [pc EXCEPT ![t] = "idle"]
              /\ UNCHANGED handlers
           \/ /\ t \in Handlers /\ handlers' = Append(handlers, t)
              /\ UNCHANGED pc
  /\ UNCHANGED <<loaded, boot, attempt, doors, drain, down, at, holder, fired>>

\* No setup has raised.
AllSetUp == \A i \in DOMAIN Order : Live(Order[i]) => Order[i] \notin Bad

\* gather() is over, and start() with it if a setup has raised; if not, the
\* listener's runner is set up.
Registered ==
  /\ boot = "registering" /\ next = Len(Order)
  /\ boot' = IF AllSetUp THEN "binding" ELSE "failed"
  /\ UNCHANGED <<loaded, attempt, registry, doors, drain, down, work>>

\* The runner was cleaned up by a shutdown that overtook the start.
RunnerGone == drain \in {"closing", "finishing", "done"}

\* Mutant: one attempt more.
AfterFour(n) == n = 4
LastAttempt(n) == n = 3

\* An attempt to bind the port; the third that fails is the last, and without
\* a runner there is none.
Bind ==
  /\ boot = "binding"
  /\ \/ /\ ~ RunnerGone
        /\ boot' = "bound" /\ listening' = TRUE /\ UNCHANGED attempt
     \/ /\ ~ RunnerGone
        /\ attempt' = attempt + 1
        /\ boot' = IF LastAttempt(attempt') THEN "failed" ELSE "binding"
        /\ UNCHANGED listening
     \/ /\ RunnerGone
        /\ boot' = "failed" /\ UNCHANGED <<attempt, listening>>
  /\ UNCHANGED <<loaded, registry, rejecting, adminUp, drain, down, work>>

\* Its port may be taken too; that is tried once.
StartAdmin ==
  /\ boot = "bound"
  /\ \/ boot' = "up" /\ adminUp' = (Admins # {})
     \/ Admins # {} /\ boot' = "failed" /\ UNCHANGED adminUp
  /\ UNCHANGED <<loaded, attempt, registry, listening, rejecting, drain, down,
                 work>>

\* _run_host returns: start() raised, or the shutdown event is set.  The loop
\* cancels whatever is left.
Exit ==
  /\ boot = "failed" \/ (boot = "up" /\ drain = "done")
  /\ boot' = "exited"
  /\ listening' = FALSE /\ adminUp' = FALSE
  /\ pc' = [x \in Tasks |-> "ended"]
  /\ holder' = [p \in Plugins |-> None]
  /\ UNCHANGED <<loaded, attempt, registry, rejecting, drain, down, at, fired>>

----------------------------------------------------------------------------
(* Events and transitions.                                                 *)

Target(x) ==
  CASE x \in Loops -> Owner[x]
    [] x \in Requests -> Owner[handlers[at[x]]]
    [] x \in Admins -> Asks[x]

\* The time has come, or the poll found something.
Fire(t) ==
  /\ pc[t] = "idle" /\ pc' = [pc EXCEPT ![t] = "waiting"]
  /\ UNCHANGED <<loaded, boot, attempt, registry, doors, drain, down, at,
                 holder, fired>>

\* A message arrives; draining, the listener answers 503.
Arrive(r) ==
  /\ pc[r] = "out" /\ listening
  /\ pc' = [pc EXCEPT ![r] = IF rejecting THEN "refused" ELSE "scanning"]
  /\ UNCHANGED <<loaded, boot, attempt, registry, doors, drain, down, at,
                 holder, fired>>

\* The handlers from the request's position on that take its message.
Taking(r) == {i \in at[r]..Len(handlers) : handlers[i] \in Takes[r]}

\* On to the next handler that takes the message, or to the answer.
Scan(r) ==
  /\ pc[r] = "scanning"
  /\ \/ /\ Taking(r) = {}
        /\ pc' = [pc EXCEPT ![r] = "answered"] /\ UNCHANGED <<at, fired>>
     \/ \E i \in Taking(r) :
          /\ \A j \in Taking(r) : i <= j
          /\ at' = [at EXCEPT ![r] = i]
          /\ fired' = [fired EXCEPT ![r] = @ \cup {handlers[i]}]
          /\ pc' = [pc EXCEPT ![r] = "waiting"]
  /\ UNCHANGED <<loaded, boot, attempt, registry, doors, drain, down, holder>>

\* The admin API takes triggers for every loaded plugin, degraded or not, and
\* goes on taking them while the host drains.
Ask(a) ==
  /\ pc[a] = "out" /\ adminUp /\ drain # "done"
  /\ pc' = [pc EXCEPT ![a] = IF Asks[a] \in loaded THEN "waiting" ELSE "answered"]
  /\ UNCHANGED <<loaded, boot, attempt, registry, doors, drain, down, at,
                 holder, fired>>

\* The engine's lock is free.
Enter(x) ==
  /\ pc[x] = "waiting" /\ holder[Target(x)] = None
  /\ pc' = [pc EXCEPT ![x] = "acting"]
  /\ holder' = [holder EXCEPT ![Target(x)] = x]
  /\ UNCHANGED <<loaded, boot, attempt, registry, doors, drain, down, at,
                 fired>>

\* Mutant: the lock is not released.
Kept(x) == holder
Released(x) == [p \in Plugins |-> IF holder[p] = x THEN None ELSE holder[p]]

\* Mutant: the first handler that takes a message answers it.
AfterFirst(x) ==
  IF x \in Loops THEN {"idle", "ended"} ELSE {"answered"}
\* A loop sleeps again (a cron loop that cannot compute its next time returns),
\* a message is offered to the handlers after this one.
After(x) ==
  IF x \in Loops THEN {"idle", "ended"}
  ELSE IF x \in Requests THEN {"scanning"} ELSE {"answered"}

\* The transition returns or raises; every caller logs what it raises.
Finish(x) ==
  /\ pc[x] = "acting"
  /\ holder' = Released(x)
  /\ \E s \in After(x) : pc' = [pc EXCEPT ![x] = s]
  /\ at' = IF x \in Requests THEN [at EXCEPT ![x] = @ + 1] ELSE at
  /\ UNCHANGED <<loaded, boot, attempt, registry, doors, drain, down, fired>>

----------------------------------------------------------------------------
(* Shutdown.                                                               *)

\* SIGTERM or SIGINT.  A second one finds draining set.
Signal ==
  /\ drain = "no" /\ boot \in {"registering", "binding", "bound", "up"}
  /\ drain' = "refusing" /\ rejecting' = TRUE
  /\ UNCHANGED <<loaded, boot, attempt, registry, listening, adminUp, down,
                 work>>

\* Two sleeps, with a log line between them.
Refuse ==
  /\ drain = "refusing" /\ boot # "exited"
  /\ drain' = "waiting"
  /\ UNCHANGED <<loaded, boot, attempt, registry, doors, down, work>>

\* in_flight_count is set to 0 by the constructor and by nothing else.
InFlight == 0

\* The count is 0, so no deadline is waited for; the engines' files are written.
\* The sleeps outlast the setups of a start they overtake.
Drained ==
  /\ drain = "waiting" /\ InFlight = 0 /\ boot \notin {"registering", "exited"}
  /\ drain' = "tearing"
  /\ UNCHANGED <<loaded, boot, attempt, registry, doors, down, work>>

\* The trigger the scheduler tears down; None when its id is gone.
Torn == table[ids[down]]
TearingDown == drain = "tearing" /\ down <= Len(ids) /\ boot # "exited"

\* Mutant: the task is awaited without having been cancelled.
NotCancelled(t) == UNCHANGED pc
Cancel(t) == pc' = [pc EXCEPT ![t] = "cancelled"]

CancelLoop ==
  /\ TearingDown /\ Torn \in Loops
  /\ pc[Torn] \notin {"cancelled", "ended"}
  /\ Cancel(Torn)
  /\ UNCHANGED <<loaded, boot, attempt, registry, doors, drain, down, at,
                 holder, fired>>

\* CancelledError reaches the task where it sleeps, waits or acts.
EndLoop(t) ==
  /\ pc[t] = "cancelled"
  /\ pc' = [pc EXCEPT ![t] = "ended"] /\ holder' = Released(t)
  /\ UNCHANGED <<loaded, boot, attempt, registry, doors, drain, down, at,
                 fired>>

\* Mutant: a cancelled task is not awaited.
CancelledOrEnded(t) == pc[t] \in {"cancelled", "ended"}
Gone(t) == pc[t] = "ended"

\* A teardown returns.  A handler's only clears a flag that nothing reads.
TearDown ==
  /\ TearingDown
  /\ Torn \in Loops => Gone(Torn)
  /\ table' = [table EXCEPT ![ids[down]] = None]
  /\ down' = down + 1
  /\ UNCHANGED <<loaded, boot, attempt, next, ids, handlers, doors, drain, work>>

\* The listener's port is closed; its cleanup waits for the requests it has.
CloseListener ==
  /\ drain = "tearing" /\ down > Len(ids) /\ boot # "exited"
  /\ drain' = "closing" /\ listening' = FALSE
  /\ UNCHANGED <<loaded, boot, attempt, registry, rejecting, adminUp, down,
                 work>>

Busy(S) == {x \in S : pc[x] \in {"scanning", "waiting", "acting"}}

\* A cleanup loses patience and cancels a request.
Cut(x) ==
  /\ \/ drain = "closing" /\ x \in Busy(Requests)
     \/ drain = "finishing" /\ x \in Busy(Admins)
  /\ pc' = [pc EXCEPT ![x] = "cut"] /\ holder' = Released(x)
  /\ UNCHANGED <<loaded, boot, attempt, registry, doors, drain, down, at,
                 fired>>

\* The A2A client is closed, then the admin site, if there is one by now.
CloseAdmin ==
  /\ drain = "closing" /\ Busy(Requests) = {} /\ boot # "exited"
  /\ adminUp' = FALSE
  /\ drain' = IF adminUp THEN "finishing" ELSE "done"
  /\ UNCHANGED <<loaded, boot, attempt, registry, listening, rejecting, down,
                 work>>

FinishDrain ==
  /\ drain = "finishing" /\ Busy(Admins) = {} /\ boot # "exited"
  /\ drain' = "done"
  /\ UNCHANGED <<loaded, boot, attempt, registry, doors, down, work>>

Shutdown ==
  Refuse \/ Drained \/ CancelLoop \/ TearDown \/ CloseListener \/ CloseAdmin
  \/ FinishDrain

----------------------------------------------------------------------------
Next ==
  \/ Register \/ Registered \/ Bind \/ StartAdmin \/ Exit
  \/ \E t \in Loops : Fire(t) \/ EndLoop(t)
  \/ \E r \in Requests : Arrive(r) \/ Scan(r)
  \/ \E a \in Admins : Ask(a)
  \/ \E x \in Tasks : Enter(x) \/ Finish(x)
  \/ \E x \in Requests \cup Admins : Cut(x)
  \/ Signal \/ Shutdown

Spec == Init /\ [][Next]_vars

FinishUnlessStuck(x) ==
  pc[x] = "acting" /\ Target(x) \notin Stuck /\ Finish(x)
\* The event loop runs what is ready, sleeps and cleanups end, the lock goes
\* round, and a transition ends unless its plugin is stuck.
FairSpec ==
  /\ Spec
  /\ WF_vars(Register) /\ WF_vars(Registered) /\ WF_vars(Bind)
  /\ WF_vars(StartAdmin) /\ WF_vars(Exit) /\ WF_vars(Shutdown)
  /\ \A t \in Loops : WF_vars(EndLoop(t))
  /\ \A r \in Requests : WF_vars(Scan(r))
  /\ \A x \in Tasks :
       SF_vars(Enter(x)) /\ WF_vars(FinishUnlessStuck(x))
  /\ \A x \in Requests \cup Admins : WF_vars(Cut(x))

----------------------------------------------------------------------------
(* Properties.                                                             *)

Places == {"off", "idle", "waiting", "acting", "cancelled", "ended", "out",
           "scanning", "answered", "refused", "cut"}

TypeOK ==
  /\ loaded \subseteq Plugins
  /\ boot \in {"registering", "binding", "bound", "up", "failed", "exited"}
  /\ next \in 0..Len(Order) /\ attempt \in 0..3
  /\ ids \in Seq(Ids) /\ table \in [Ids -> Triggers \cup {None}]
  /\ handlers \in Seq(Handlers)
  /\ listening \in BOOLEAN /\ rejecting \in BOOLEAN /\ adminUp \in BOOLEAN
  /\ drain \in {"no", "refusing", "waiting", "tearing", "closing", "finishing",
                "done"}
  /\ down \in Nat \ {0}
  /\ pc \in [Tasks -> Places] /\ at \in [Requests -> Nat \ {0}]
  /\ holder \in [Plugins -> Tasks \cup {None}]
  /\ fired \in [Requests -> SUBSET Handlers]

\* An answered message was offered to every trigger that takes it: none was
\* registered after the port was bound, none was left out because another took
\* the message before it or failed.  (host.py:173-177, a2a_client.py:432-441)
FanOut ==
  \A r \in Requests : pc[r] = "answered" =>
    fired[r] = {Order[i] : i \in {i \in DOMAIN Order :
                                    Live(Order[i]) /\ Order[i] \in Takes[r]}}

\* A later registration took t's id, and with it t's place in the table.
Overtaken(t) ==
  \E i, j \in 1..next :
    /\ i < j /\ Order[i] = t
    /\ Live(Order[j]) /\ Order[j] \notin Bad /\ Id[Order[j]] = Id[t]

\* When the scheduler has shut down no cron loop and no poller is left, but for
\* those whose id a later registration took.  (trigger.py:92-120)
TornDown ==
  drain \in {"closing", "finishing", "done"} =>
    \A t \in Loops : pc[t] \in {"off", "ended"} \/ Overtaken(t)

\* When shutdown() returns nobody but such a loop is inside a transition: no
\* other file is written and no other message sent.  (host.py:352-379)
Quiet ==
  drain = "done" => \A p \in Plugins :
    holder[p] # None => holder[p] \in Loops /\ Overtaken(holder[p])

\* A shutdown completes whatever the plugins do, also one that overtakes the
\* start.  (host.py:322-379)
ShutdownCompletes == drain = "refusing" ~> boot = "exited"

\* A message that no stuck plugin takes is answered or cut off by the end of the
\* host, whatever other plugins do to the loop and to the messages before it.
\* (a2a_client.py:432-453)
Answered ==
  \A r \in Requests :
    {Owner[h] : h \in Takes[r]} \cap Stuck = {} =>
      (pc[r] = "scanning" ~> pc[r] \in {"answered", "cut", "ended"})

\* The triggers are torn down only when no transition is in progress.
InFlightDrained ==
  [][drain = "waiting" /\ drain' = "tearing"
       => \A p \in Plugins : holder[p] = None]_vars
=============================================================================
