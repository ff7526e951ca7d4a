------------------------------- MODULE Statechart -------------------------------
(***************************************************************************)
(* One plugin's StatechartEngine (core/statechart.py) together with the    *)
(* send path its actions run through: the host's send wrapper, the retry   *)
(* policy and the fallback dispatcher.                                     *)
(*                                                                         *)
(* Everything runs on one asyncio loop.  A task gives the loop up only at  *)
(* an await that really suspends: on the engine's lock, on a subprocess or *)
(* HTTP request, on the POST of a message, on the sleep between two        *)
(* attempts.  `running` names the task that has the loop, so that the      *)
(* steps between two awaits are atomic to every other task.                *)
(***************************************************************************)
EXTENDS Integers, Sequences, FiniteSets

CONSTANTS
  Tasks,            \* tasks that deliver events: cron loops, pollers, requests
  Cancellable,      \* those of them a trigger's teardown cancels
  States, Initial,  \* the plugin's states and statechart.initial
  EventTypes,
  On,               \* On[s][e]: the list of transitions under states.s.on.e
  Shorthand,        \* <<s, e>> where the plugin writes the bare target instead
  Entry,            \* Entry[s]: the entry actions of s
  Keys, InitContext,\* statechart.context
  Excluded,         \* keys persist() leaves out: persist.exclude and *token* etc.
  Fallbacks,        \* the plugin's fallbacks[]
  OnExhaust,        \* whether resilience.on_exhaust is set
  MaxRetries,       \* RetryPolicy.max_retries, 2 in the host's one A2AClient
  Peers, Unreachable, \* peers, and those permission or discovery rules out
  Faults,           \* exceptions an action may raise in this instance
  PersistOutcomes,  \* what persist() may meet: "written", "os_error", "unserialisable"
  MaxArrivals,      \* bound: events delivered
  MaxBoots,         \* bound: process starts
  MaxFrames,        \* bound: nested fallbacks
  None

Truth == {"true", "false", "error"}
Errors == {"ActionError", "TypeError", "OtherError"}
Event == [type : EventTypes, message_id : BOOLEAN]
Guard == [test : {"none", "equals", "below", "raises", "history"},
          key : Keys, than : Int]
ActionTypes ==
  {"log", "set_context", "increment_context", "write_file", "spawn_subprocess",
   "http_request", "reply_a2a", "send_a2a", "unknown"}
Action == [type : ActionTypes, key : Keys, by : Int, peer : Peers,
           metadata : {"none", "plain", "unserialisable", "dropped"}]
Context == [Keys -> Int]
Frame == [todo : Seq(Action), message_id : BOOLEAN, saved : BOOLEAN]
Results == {"matched", "no_transition", "guard_false", "guard_error",
            "error", "action_failed"}

ASSUME TaskAssumption == None \notin Tasks /\ Cancellable \subseteq Tasks
ASSUME FileAssumption ==
  None \notin [state : States, context : [Keys \ Excluded -> Int]]
ASSUME ChartAssumption ==
  /\ Initial \in States /\ InitContext \in Context
  /\ \A s \in States, e \in EventTypes :
       \A i \in DOMAIN On[s][e] : On[s][e][i].actions \in Seq(Action)
  /\ Entry \in [States -> Seq(Action)]
  /\ \A i \in DOMAIN Fallbacks : Fallbacks[i].actions \in Seq(Action)
ASSUME PolicyAssumption ==
  /\ OnExhaust \in BOOLEAN /\ MaxRetries \in Nat
  /\ Faults \subseteq Errors
  /\ PersistOutcomes \subseteq {"written", "os_error", "unserialisable"}
ASSUME BoundAssumption ==
  MaxArrivals \in Nat /\ MaxBoots \in Nat \ {0} /\ MaxFrames \in Nat

VARIABLES
  current,       \* engine.current_state
  context,       \* engine.context, shared by reference with every EvalEnv
  fromFallback,  \* engine.from_fallback
  disk,          \* the state file: None or [state, context]
  holder,        \* task that holds engine._lock
  waiters,       \* tasks queued on engine._lock, first come first
  running,       \* task that has the event loop
  pc,            \* where each task is
  event,         \* the event each task delivers
  target,        \* the target of the transition it is in
  stack,         \* its action lists: the transition's, then nested fallbacks'
  attempt,       \* RetryPolicy's loop variable
  last,          \* plugin.last_match / last_reason
  arrivals, boots,
  drained        \* whether shutdown() has been through its phase P3

engine == <<current, context, fromFallback, disk>>
lock == <<holder, waiters>>
tasks == <<pc, event, target, stack, attempt>>
vars == <<engine, lock, running, tasks, last, arrivals, boots, drained>>

PCs == {"idle", "queued", "locked", "acting", "external", "posting",
        "backoff", "nested", "cancelled"}
\* Where a task is suspended, so that another may run or cancel it.
Suspended == {"queued", "external", "posting", "backoff", "nested"}

Init ==
  /\ current = Initial /\ context = InitContext
  /\ fromFallback = FALSE /\ disk = None
  /\ holder = None /\ waiters = <<>> /\ running = None
  /\ pc = [t \in Tasks |-> "idle"]
  /\ event = [t \in Tasks |-> None]
  /\ target = [t \in Tasks |-> None]
  /\ stack = [t \in Tasks |-> <<>>]
  /\ attempt = [t \in Tasks |-> 0]
  /\ last = None /\ arrivals = 0 /\ boots = 1 /\ drained = FALSE

----------------------------------------------------------------------------
(* Guards: expression.evaluate reduced to what the engine tells apart.  A  *)
(* guard over the peers/history namespaces reads a remote service, so its  *)
(* value h is the environment's.                                           *)

Value(g, ctx, h) ==
  CASE g.test = "none"    -> "true"
    [] g.test = "equals"  -> IF ctx[g.key] = g.than THEN "true" ELSE "false"
    [] g.test = "below"   -> IF ctx[g.key] < g.than THEN "true" ELSE "false"
    [] g.test = "raises"  -> "error"
    [] g.test = "history" -> h

\* The scan of the list goes past a transition only when its guard holds and
\* it has no target; anything else decides the event.
Decides(tr, ctx, h) == Value(tr.guard, ctx, h) # "true" \/ tr.target # None

\* The first and the last of some positions of a list; {} if there are none.
Lowest(S) == {i \in S : \A j \in S : i <= j}
Highest(S) == {i \in S : \A j \in S : j <= i}

----------------------------------------------------------------------------
(* The lock and the caller.  asyncio.Lock hands itself over in arrival     *)
(* order: a newcomer queues as soon as anyone holds it or waits for it.    *)

\* run_tracked_transition reaches `async with self._lock`.
Deliver(t, e) ==
  /\ running = None /\ pc[t] = "idle" /\ arrivals < MaxArrivals
  /\ arrivals' = arrivals + 1
  /\ event' = [event EXCEPT ![t] = e]
  /\ IF holder = None /\ waiters = <<>>
     THEN /\ holder' = t /\ running' = t
          /\ pc' = [pc EXCEPT ![t] = "locked"]
          /\ UNCHANGED waiters
     ELSE /\ waiters' = Append(waiters, t)
          /\ pc' = [pc EXCEPT ![t] = "queued"]
          /\ UNCHANGED <<holder, running>>
  /\ UNCHANGED <<current, context, fromFallback, disk, target, stack,
                 attempt, last, boots, drained>>

\* Mutant: the last waiter is served first.
AcquireLast(t) ==
  /\ running = None /\ holder = None
  /\ waiters # <<>> /\ waiters[Len(waiters)] = t
  /\ waiters' = SubSeq(waiters, 1, Len(waiters) - 1)
  /\ holder' = t /\ running' = t
  /\ pc' = [pc EXCEPT ![t] = "locked"]
  /\ UNCHANGED <<current, context, fromFallback, disk, event, target, stack,
                 attempt, last, arrivals, boots, drained>>

Acquire(t) ==
  /\ running = None /\ holder = None
  /\ waiters # <<>> /\ Head(waiters) = t
  /\ waiters' = Tail(waiters)
  /\ holder' = t /\ running' = t
  /\ pc' = [pc EXCEPT ![t] = "locked"]
  /\ UNCHANGED <<current, context, fromFallback, disk, event, target, stack,
                 attempt, last, arrivals, boots, drained>>

\* The task leaves the lock and forgets its event, and the loop is free.
Leave(t, where) ==
  /\ holder' = IF holder = t THEN None ELSE holder
  /\ running' = None
  /\ pc' = [pc EXCEPT ![t] = where]
  /\ event' = [event EXCEPT ![t] = None]
  /\ target' = [target EXCEPT ![t] = None]
  /\ stack' = [stack EXCEPT ![t] = <<>>]
  /\ attempt' = [attempt EXCEPT ![t] = 0]

\* transition() returns: the caller's bookkeeping runs before the loop does
\* anything else.
Return(t, result) == Leave(t, "idle") /\ last' = result

\* Mutant: the lock is released only when transition() returns a result.
RaiseKeepsLock(t) ==
  /\ running' = None
  /\ pc' = [pc EXCEPT ![t] = "idle"] /\ event' = [event EXCEPT ![t] = None]
  /\ target' = [target EXCEPT ![t] = None] /\ stack' = [stack EXCEPT ![t] = <<>>]
  /\ attempt' = [attempt EXCEPT ![t] = 0]
  /\ UNCHANGED <<holder, last>>

\* An exception no one below the trigger catches skips the bookkeeping.
Raise(t) == Leave(t, "idle") /\ UNCHANGED last

----------------------------------------------------------------------------
(* _transition_locked: choose, act, switch, persist.                       *)

\* The scan walks a bare target character by character and skips each one.
Transitions(s, e) == IF <<s, e>> \in Shorthand THEN <<>> ELSE On[s][e]

\* What a transition that decides the event comes to.
Verdict(tr, ctx, h) ==
  LET v == Value(tr.guard, ctx, h)
  IN CASE v = "false"             -> "guard_false"
       [] v = "error"             -> "guard_error"
       [] tr.target \notin States -> "error"
       [] OTHER                   -> "fires"

\* h is what history guards read during this scan.
Choose(t) ==
  /\ running = t /\ pc[t] = "locked"
  /\ \E h \in Truth :
       LET trs  == Transitions(current, event[t].type)
           hits == {i \in DOMAIN trs : Decides(trs[i], context, h)}
       IN \/ hits = {} /\ Return(t, "no_transition") /\ UNCHANGED waiters
          \/ \E i \in Lowest(hits) :
               /\ Verdict(trs[i], context, h) # "fires"
               /\ Return(t, Verdict(trs[i], context, h))
               /\ UNCHANGED waiters
          \/ \E i \in Lowest(hits) :
               /\ Verdict(trs[i], context, h) = "fires"
               /\ pc' = [pc EXCEPT ![t] = "acting"]
               /\ target' = [target EXCEPT ![t] = trs[i].target]
               /\ stack' = [stack EXCEPT ![t] =
                    <<[todo |-> trs[i].actions \o Entry[trs[i].target],
                       message_id |-> event[t].message_id, saved |-> FALSE]>>]
               /\ UNCHANGED <<lock, running, event, attempt, last>>
  /\ UNCHANGED <<engine, arrivals, boots, drained>>

\* Mutant: the exclusion and the sensitive patterns are not applied.
PersistableAll(ctx) == ctx
Persistable(ctx) == [k \in Keys \ Excluded |-> ctx[k]]

\* Mutant: persist() runs before the switch.
PersistedEarly(s) == [state |-> current, context |-> Persistable(context)]
\* The payload: the state the engine is in, and the context without its secrets.
Persisted(s) == [state |-> s, context |-> Persistable(context)]

Acting(t) == running = t /\ pc[t] = "acting"
Top(t) == stack[t][Len(stack[t])]
Current(t) == Head(Top(t).todo)
\* The current action is finished: the list goes on after it.
Below(s, i) == SubSeq(s, 1, i - 1)
Advanced(s) == Append(Below(s, Len(s)), [s[Len(s)] EXCEPT !.todo = Tail(@)])
GoOn(t) ==
  /\ running' = t /\ pc' = [pc EXCEPT ![t] = "acting"]
  /\ stack' = [stack EXCEPT ![t] = Advanced(@)]

\* Steps 5 and 6: switch, then persist.  persist() swallows an OSError; a
\* context json cannot write raises, after the switch.
Commit(t) ==
  /\ Acting(t) /\ Len(stack[t]) = 1 /\ Top(t).todo = <<>>
  /\ current' = target[t]
  /\ \E w \in PersistOutcomes :
       /\ disk' = IF w = "written" THEN Persisted(target[t]) ELSE disk
       /\ IF w = "unserialisable" THEN Raise(t) ELSE Return(t, "matched")
  /\ UNCHANGED <<context, fromFallback, waiters, arrivals, boots, drained>>

----------------------------------------------------------------------------
(* _dispatch_action.                                                       *)

\* Handlers that finish without suspending, and what they do to the context.
Instant == {"log", "set_context", "increment_context", "write_file", "reply_a2a"}
Effect(a, ctx) ==
  CASE a.type = "set_context"       -> [ctx EXCEPT ![a.key] = a.by]
    [] a.type = "increment_context" -> [ctx EXCEPT ![a.key] = @ + a.by]
    [] OTHER                        -> ctx

Do(t) ==
  /\ Acting(t) /\ Top(t).todo # <<>> /\ Current(t).type \in Instant
  /\ Current(t).type = "reply_a2a" => Top(t).message_id
  /\ context' = Effect(Current(t), context)
  /\ GoOn(t)
  /\ UNCHANGED <<current, fromFallback, disk, lock, event, target,
                 attempt, last, arrivals, boots, drained>>

\* What an action can raise: a TypeError (a template, an argument of a command
\* or an option of a request of the wrong type), a refused permission or a
\* timeout (ActionError), an unknown namespace, an I/O error.
\* reply_a2a without a message id and an unknown type always raise.
Raises(a, message_id) ==
  IF a.type = "unknown" \/ (a.type = "reply_a2a" /\ ~message_id)
  THEN {"ActionError"}
  ELSE Faults \cap
       IF a.type \in {"write_file", "spawn_subprocess", "http_request"}
       THEN Errors ELSE {"TypeError", "OtherError"}

\* Who catches exc when it comes out of frame n + 1: the nearest send_a2a below
\* that has not yet done so takes a TypeError for a client without metadata.
Handlers(t, n, exc) ==
  Highest({i \in 1..n : exc = "TypeError" /\ Head(stack[t][i].todo).metadata # "dropped"})
\* It sends again, without the metadata.
Resent(s, i) ==
  Append(Below(s, i),
    [s[i] EXCEPT !.todo = <<[Head(@) EXCEPT !.metadata = "dropped"]>> \o Tail(@)])

\* Mutant: no `finally` around the fallback's actions.
NotRestored(s, inner) == fromFallback
\* from_fallback once the frames from `inner` on have been left.
Restored(s, inner) == IF inner <= Len(s) THEN s[inner].saved ELSE fromFallback

\* Exception exc comes out of frame n + 1: every fallback above the frame that
\* handles it restores from_fallback in its `finally`.
Unwind(t, n, exc) ==
  /\ \/ \E i \in Handlers(t, n, exc) :
          /\ fromFallback' = Restored(stack[t], i + 1)
          /\ stack' = [stack EXCEPT ![t] = Resent(@, i)]
          /\ running' = t /\ pc' = [pc EXCEPT ![t] = "acting"]
          /\ UNCHANGED <<holder, event, target, attempt, last>>
     \/ /\ Handlers(t, n, exc) = {}
        /\ fromFallback' = Restored(stack[t], 2)
        /\ IF exc = "ActionError" THEN Return(t, "no_transition") ELSE Raise(t)
  /\ UNCHANGED <<current, context, disk, waiters, arrivals, boots, drained>>

Fail(t) ==
  /\ Acting(t) /\ Top(t).todo # <<>>
  /\ \E exc \in Raises(Current(t), Top(t).message_id) :
       Unwind(t, Len(stack[t]) - 1, exc)

\* Mutant: the engine does not hold its lock over an action's await.
StartUnlocked(t) ==
  /\ Acting(t) /\ Top(t).todo # <<>>
  /\ Current(t).type \in {"spawn_subprocess", "http_request"}
  /\ running' = None /\ holder' = None /\ pc' = [pc EXCEPT ![t] = "external"]
  /\ UNCHANGED <<engine, waiters, event, target, stack, attempt, last, arrivals,
                 boots, drained>>

\* spawn_subprocess and http_request await; both end within their timeout.
StartExternal(t) ==
  /\ Acting(t) /\ Top(t).todo # <<>>
  /\ Current(t).type \in {"spawn_subprocess", "http_request"}
  /\ running' = None /\ pc' = [pc EXCEPT ![t] = "external"]
  /\ UNCHANGED <<engine, lock, event, target, stack, attempt, last, arrivals, boots, drained>>

EndExternal(t) ==
  /\ running = None /\ pc[t] = "external"
  /\ \/ /\ GoOn(t)
        /\ UNCHANGED <<engine, lock, event, target, attempt, last, arrivals, boots, drained>>
     \/ \E exc \in Raises(Current(t), Top(t).message_id) :
          Unwind(t, Len(stack[t]) - 1, exc)

----------------------------------------------------------------------------
(* send_a2a: the host's wrapper, A2AClient.send_message, RetryPolicy and   *)
(* FallbackDispatcher.                                                     *)

Sending(t) == Acting(t) /\ Top(t).todo # <<>> /\ Current(t).type = "send_a2a"

\* PERMISSION_DENIED, or FAILED because no URL is known: no post, no fallback,
\* and the action counts as done.
SkipSend(t) ==
  /\ Sending(t) /\ Current(t).peer \in Unreachable
  /\ GoOn(t)
  /\ UNCHANGED <<engine, lock, event, target, attempt, last, arrivals, boots, drained>>

Post(t) ==
  /\ Sending(t) /\ Current(t).peer \notin Unreachable
  /\ \/ /\ Current(t).metadata = "unserialisable"
        /\ Unwind(t, Len(stack[t]), "TypeError")
     \/ /\ Current(t).metadata # "unserialisable"
        /\ running' = None /\ pc' = [pc EXCEPT ![t] = "posting"]
        /\ UNCHANGED <<engine, lock, event, target, stack, attempt, last,
                       arrivals, boots, drained>>

\* SUCCESS, or a FAILED the policy does not retry because max_retries is 0.
PostEnds(t) ==
  /\ running = None /\ pc[t] = "posting"
  /\ GoOn(t)
  /\ attempt' = [attempt EXCEPT ![t] = 0]
  /\ UNCHANGED <<engine, lock, event, target, last, arrivals, boots, drained>>

BackOff(t) ==
  /\ running = None /\ pc[t] = "posting" /\ attempt[t] < MaxRetries
  /\ pc' = [pc EXCEPT ![t] = "backoff"]
  /\ attempt' = [attempt EXCEPT ![t] = @ + 1]
  /\ UNCHANGED <<engine, lock, running, event, target, stack, last, arrivals, boots, drained>>

Retry(t) ==
  /\ running = None /\ pc[t] = "backoff"
  /\ pc' = [pc EXCEPT ![t] = "posting"]
  /\ UNCHANGED <<engine, lock, running, event, target, stack, attempt, last,
                 arrivals, boots, drained>>

\* The last attempt failed: EXHAUSTED.  The first fallback whose condition
\* holds runs in place; with none, on_exhaust delivers an event to the same
\* engine, through the lock this task holds.  The dispatcher's environment has
\* no history client, so a condition over history fails to evaluate.
Exhaust(t) ==
  /\ running = None /\ pc[t] = "posting"
  /\ MaxRetries > 0 /\ attempt[t] = MaxRetries
  /\ attempt' = [attempt EXCEPT ![t] = 0]
  /\ LET fits == {i \in DOMAIN Fallbacks :
                    Value(Fallbacks[i].condition, context, "error") = "true"}
     IN \/ /\ Len(stack[t]) < MaxFrames
           /\ \E i \in Lowest(fits) :
                stack' = [stack EXCEPT ![t] = Append(@,
                  [todo |-> Fallbacks[i].actions,
                   message_id |-> FALSE, saved |-> fromFallback])]
           /\ fromFallback' = TRUE
           /\ running' = t /\ pc' = [pc EXCEPT ![t] = "acting"]
           /\ UNCHANGED waiters
        \/ /\ fits = {} /\ OnExhaust
           /\ waiters' = Append(waiters, t)
           /\ pc' = [pc EXCEPT ![t] = "nested"]
           /\ UNCHANGED <<stack, fromFallback, running>>
        \/ /\ fits = {} /\ ~OnExhaust
           /\ GoOn(t)
           /\ UNCHANGED <<waiters, fromFallback>>
  /\ UNCHANGED <<current, context, disk, holder, event, target, last,
                 arrivals, boots, drained>>

\* The fallback's list is done: `finally`, and its send_a2a returns.
EndFallback(t) ==
  /\ Acting(t) /\ Len(stack[t]) > 1 /\ Top(t).todo = <<>>
  /\ fromFallback' = Top(t).saved
  /\ stack' = [stack EXCEPT ![t] = Advanced(Below(@, Len(@)))]
  /\ UNCHANGED <<current, context, disk, lock, running, pc, event,
                 target, attempt, last, arrivals, boots, drained>>

----------------------------------------------------------------------------
(* Shutdown, cancellation and restart.                                     *)

\* shutdown()'s phase P3 persists without the lock, between any two awaits of
\* whoever is inside a transition, and logs what persist() raises.
SaveAtShutdown ==
  /\ running = None /\ ~drained
  /\ drained' = TRUE
  /\ \E w \in PersistOutcomes :
       disk' = IF w = "written" THEN Persisted(current) ELSE disk
  /\ UNCHANGED <<current, context, fromFallback, lock, running, tasks, last,
                 arrivals, boots>>

Without(s, i) == SubSeq(s, 1, i - 1) \o SubSeq(s, i + 1, Len(s))

\* CancelledError at the await the task is suspended on: every `finally` and
\* the `async with` run, nothing is caught, and the task is over.
Cancel(t) ==
  /\ running = None /\ t \in Cancellable
  /\ pc[t] \in Suspended \cup {"idle"}
  /\ Leave(t, "cancelled")
  /\ \/ pc[t] \notin {"queued", "nested"} /\ UNCHANGED waiters
     \/ \E i \in DOMAIN waiters :
          /\ waiters[i] = t
          /\ waiters' = Without(waiters, i)
  /\ fromFallback' = Restored(stack[t], 2)
  /\ UNCHANGED <<current, context, disk, last, arrivals, boots, drained>>

\* The process dies at any await and host.start() builds a fresh engine from
\* the plugin's file; the state file stays, and nothing reads it back.
Restart ==
  /\ running = None /\ boots < MaxBoots
  /\ boots' = boots + 1
  /\ current' = Initial /\ context' = InitContext
  /\ fromFallback' = FALSE
  /\ holder' = None /\ waiters' = <<>>
  /\ pc' = [t \in Tasks |-> "idle"]
  /\ event' = [t \in Tasks |-> None]
  /\ target' = [t \in Tasks |-> None]
  /\ stack' = [t \in Tasks |-> <<>>]
  /\ attempt' = [t \in Tasks |-> 0]
  /\ last' = None /\ drained' = FALSE
  /\ UNCHANGED <<disk, running, arrivals>>

----------------------------------------------------------------------------

\* What t does by itself once it has an event.
Step(t) ==
  \/ Acquire(t) \/ Choose(t) \/ Do(t) \/ Fail(t) \/ Commit(t)
  \/ StartExternal(t) \/ EndExternal(t)
  \/ SkipSend(t) \/ Post(t) \/ PostEnds(t)
  \/ BackOff(t) \/ Retry(t) \/ Exhaust(t) \/ EndFallback(t)

Next ==
  \/ \E t \in Tasks : Step(t) \/ Cancel(t) \/ \E e \in Event : Deliver(t, e)
  \/ SaveAtShutdown \/ Restart

Spec == Init /\ [][Next]_vars
\* The loop runs every task that is ready, and every await of a task ends: the
\* posts, requests and subprocesses at their timeout, the sleeps by themselves.
FairSpec == Spec /\ \A t \in Tasks : WF_vars(Step(t))
----------------------------------------------------------------------------
(* Properties.                                                             *)

TypeOK ==
  /\ current \in States /\ context \in Context
  /\ fromFallback \in BOOLEAN
  /\ disk \in {None} \cup [state : States, context : [Keys \ Excluded -> Int]]
  /\ holder \in Tasks \cup {None} /\ running \in Tasks \cup {None}
  /\ waiters \in Seq(Tasks)
  /\ pc \in [Tasks -> PCs]
  /\ event \in [Tasks -> Event \cup {None}]
  /\ target \in [Tasks -> States \cup {None}]
  /\ stack \in [Tasks -> Seq(Frame)]
  /\ attempt \in [Tasks -> 0..MaxRetries]
  /\ last \in Results \cup {None}
  /\ arrivals \in 0..MaxArrivals /\ boots \in 1..MaxBoots
  /\ drained \in BOOLEAN

\* Inside _transition_locked.
Inside(t) == pc[t] \in {"locked", "acting", "external", "posting", "backoff", "nested"}

\* The lock is held by exactly the task that is inside a transition, whatever
\* path it is on, and by no one who has left it: no exit (result, exception,
\* cancellation) keeps it and no await gives it up.  (statechart.py:316-319)
LockDiscipline ==
  /\ \A t \in Tasks : Inside(t) <=> holder = t
  /\ \A t \in Tasks : pc[t] \in {"locked", "acting"} <=> running = t

\* from_fallback is set exactly while some fallback's actions are under way,
\* however the fallback ends.  (a2a_client.py:617-625)
FallbackFlagScoped == fromFallback <=> \E t \in Tasks : Len(stack[t]) > 1

\* A fallback whose own send_a2a is exhausted does not run the fallbacks again.
FallbackNotNested == \A t \in Tasks : Len(stack[t]) <= 2

Targets(s, e) ==
  {Transitions(s, e.type)[i].target : i \in DOMAIN Transitions(s, e.type)} \cap States

\* The state moves only along a transition that the state it moves from lists
\* for the event being handled, though actions suspend between the choice of
\* the transition and the switch.
LegalMove ==
  [][current' # current /\ boots' = boots =>
       holder # None /\ current' \in Targets(current, event[holder])]_vars

\* With a disk that takes every write, the state file of a statechart that has
\* left its initial state names the state it is in, also when shutdown() wrote
\* it in the middle of a transition.  (statechart.py:418-420, host.py:345-350)
DiskFollowsState ==
  current # Initial =>
    disk # None /\ disk.state = current /\ DOMAIN disk.context = Keys \ Excluded

\* Every event delivered is settled: its caller is not left waiting.
EventsSettled == \A t \in Tasks : event[t] # None ~> event[t] = None

\* The host comes back in the state the file records.
RestoredOnStartup ==
  [][boots' # boots /\ disk # None => current' = disk.state]_vars

----------------------------------------------------------------------------
(* The engine is a serial statechart: its queue is the transition under    *)
(* way and then the callers waiting for the lock.                          *)

\* The waiters but for one that waits for the lock it holds.
Others(h, w) ==
  IF \E i \in DOMAIN w : w[i] = h
  THEN Without(w, CHOOSE i \in DOMAIN w : w[i] = h) ELSE w
InOrder(h, w) == (IF h = None THEN <<>> ELSE <<h>>) \o Others(h, w)
Unsettled ==
  [i \in DOMAIN InOrder(holder, waiters) |->
     <<InOrder(holder, waiters)[i], event[InOrder(holder, waiters)[i]]>>]

Serial == INSTANCE SerialStatechart WITH
            state <- current,
            saved <- IF disk = None THEN None ELSE disk.state,
            queue <- Unsettled
SerialSpec == Serial!Spec
=============================================================================
