# A TLA+ model of agentwire-cue

agentwire-cue is an asyncio host that loads *plugins* (YAML statecharts), feeds
them events from triggers, and lets their transitions run actions: change the
context, write files, start processes, send messages to peers over A2A.  It
runs on one event loop, so its hard questions are about `await`: what another
task may do while a transition is suspended, what an exception or a
cancellation leaves behind, and what a shutdown finds when it gets there.  The
modules here keep that control and abstract the data.

## The system

| part | state | operations | talks to |
|---|---|---|---|
| **statechart engine** `core/statechart.py` | current state, context, `asyncio.Lock`, `from_fallback`, the state file | `transition`, `_dispatch_action`, `persist`, `restore_from_persist`; `run_tracked_transition` around it | every trigger and request calls it; it calls the send path and the history client |
| **send path** `core/a2a_client.py` (client, retry policy, fallback dispatcher), `core/host.py:233-265` | the attempt counter, `engine.from_fallback` | `send_message`, `execute_with_retry`, `dispatch` | called from an action, inside the engine's lock; `on_exhaust` calls the engine back |
| **built-in actions** `core/actions.py` | none | write a file, start a process, HTTP | the engine |
| **expressions** `core/expression.py` | none | parse, `evaluate`, `render_template` | guards, templates, fallback conditions |
| **history client and proxies** `core/history_client.py`, `history_proxy.py` | two caches with a time to live: `list_peers`, messages | `list_peers`, `list_messages`, `invalidate` | CORE's RPC; pollers use one client, the engines another |
| **triggers and scheduler** `core/trigger.py`, `trigger_impl.py` | `_triggers`, `_by_plugin`, a task per loop, the poller's snapshot | register, setup, fire, teardown | the listener's handler list, the engines |
| **A2A listener** `core/a2a_client.py:351-570` | handler list, `reject_new`, runner | start with three attempts, inbound messages, stop | offers a message to every handler, which delivers to its engine |
| **host** `core/host.py`, `__main__.py` | plugins, `draining`, `shutdown_event` | start, dependency check, shutdown in phases, signals | everything |
| **peer cards** `core/a2a_client.py:56-150` | memory and disk cache with a time to live | get, fetch, write back, invalidate | the send path |
| **loader, sandbox, types** `core/loader.py`, `sandbox.py`, `types.py` | none of its own; what it reads becomes `host.plugins` | discovery, overlay merge, schema, persist path, secrets, guards, targets | the host at start; the engine relies on what it checked |
| **permission enforcer** `core/permission.py` | permissions, timer slots | checks, register, acquire and release a slot | actions; nothing takes a slot |
| **admin API** `core/admin_api.py` | last match of a plugin | trigger, status, reload views | the engines |
| **command line, doctor, redaction, observability** | none the properties read | | |

What makes it hard, and what makes it right:

- *Engine.*  Transitions suspend in subprocesses, HTTP requests, posts and
  sleeps, raise in every action and may be cancelled at every await.  The lock
  must be held by exactly the one inside (`LockDiscipline`), the state must move
  only along the transition that was chosen (`LegalMove`), callers must be
  served in order, and each event must move the statechart or change nothing
  (`SerialSpec`); the file must follow (`DiskFollowsState`) and no caller may
  wait for ever (`EventsSettled`).
- *Send path.*  It runs inside the lock and can deliver an event to the same
  engine; fallbacks send, are exhausted and nest (`EventsSettled`,
  `FallbackFlagScoped`).
- *Histories.*  Two caches, filled by whoever comes first; an event invalidates
  one of them before it waits for the lock.  What a guard reads must not be
  older than its event (`FreshGuard`), what an event announces must be there
  (`AnnouncedVisible`), and a poller must announce each round at most once, though
  lists come back cut short, and notice every one while the peers are few enough
  for whole lists (`AtMostOnce`, `NoticedBelowCap`).
- *Peer cards.*  A card is looked for in memory, in a file and at CORE; only the
  last suspends, and two sends may be there at once.  Each copy keeps the time
  it was fetched at, through files, failed writes, torn writes and restarts, so
  that no address is older than the time to live and a fetch (`FreshAddress`), and
  no file takes the place of what the process remembers (`OnlyAnswersReplace`).
- *Loader and expressions.*  One bad file must harm no other (`FailsAlone`), an
  overlay must win exactly where it has a value (`OverlayWins`), what was checked
  must be what runs (`ChecksHold`), and a guard must have one reading
  (`GuardsRead`), and decide as it reads (`GuardsDecide`).
- *Host.*  A message is offered to handlers one by one while each waits for a
  lock (`FanOut`, `Answered`); the teardown awaits tasks that may wait for a
  lock that never comes free, while requests go on firing, and may overtake the
  start (`TornDown`, `Quiet`, `ShutdownCompletes`).

`PROJECT.json` lists every hazard at its line with the properties that meet it.

## The modules

`Statechart` is one plugin's engine with the send path its actions run through.
`SerialStatechart` is what the engine promises its callers, a queue of events
and a state; `Statechart` implements it (`SerialSpec`, the refinement mapping is
at the end of `Statechart`).  `History` is the two history clients, the pollers
and the transitions that read them.  `Host` is the life of a process: start,
registration, the listener, the engines' locks, shutdown.  The three overlap in
the engine's lock only: `Statechart` opens up what happens inside it, `History`
and `Host` take its use as given (one holder, released on every way out, which
is `LockDiscipline`).  `PeerCards` is what a send does before its first attempt,
the lookup of an address; `Statechart` starts where it has answered.  `Loader` is
how files become running plugins, composed with the engine's reading of a
transition.  It extends `Expressions`, the evaluator of guards and what the grammar
says they mean, which extends `Parser`, the parser of guards and the grammar itself.
`MC*` modules give the constants values, `*_proofs` hold the theorems.

### Statechart

| in the module | in the code |
|---|---|
| `running` | the task that has the event loop.  Only an await that really suspends gives it up, so everything between two such awaits is atomic to other tasks though it takes several actions |
| `holder`, `waiters` | `engine._lock`; asyncio's lock is first come first served, and a newcomer queues while anyone waits |
| `stack` | the action lists under way: the transition's, and one per fallback nested in it, each with the `from_fallback` it found |
| `pc` | `queued` at the lock, `locked` scanning the transitions, `acting` between actions, `external` in a subprocess or request, `posting`, `backoff` in the retry's sleep, `nested` in an `on_exhaust` delivery |
| `Choose` | the scan of the transitions (323-405): guard error, false guard, missing target and undeclared target end it as they do in the code |
| `Do`, `StartExternal`, `EndExternal`, `Fail` | an action that finishes, suspends, ends, raises |
| `Post`, `PostEnds`, `BackOff`, `Retry`, `Exhaust`, `EndFallback`, `SkipSend` | `send_a2a` |
| `Unwind` | what an exception passes on its way out: `finally` blocks, the wrapper that takes any TypeError for a client without metadata and sends again, `transition`'s ActionError |
| `Commit` | switch and `persist()`, which may swallow an OSError or raise for a context json cannot write |
| `SaveAtShutdown`, `drained` | phase P3 of `shutdown()` (`host.py:345-350`): it persists without the engine's lock, whenever the loop is free, once in a process |
| `Cancel`, `Restart` | a trigger's teardown at any await; a process that dies and comes back |

Guards and templates are reduced to true, false or error; a guard over the
peers or history namespaces reads a service, so its value is the environment's.
A transition that the plugin writes as a bare target (`Shorthand`) is scanned
character by character by the code and never found.

### History

A round is a number, the highest task CORE holds for a peer.  The clients call
CORE synchronously, so a poll or the evaluation of an expression is one step of
the loop; a poller waits inside `_fire` between two reports of one list
(`left`), which is where its list grows old.  `ListPeers` is the paged list:
`Complete` when the paging ends by itself, at the last page or, with peers and
rounds missing, at the cap; `Partial` when a page fails and configured aliases are
put in at round 0.  Either is cached like an answer.  A guard or template reads the messages of one alias,
or of none (`Evaluate`).  A peer without an alias cannot be read: the proxy asks CORE
by the `uuid` of the list, and that is the start of a task's id
(`history_client.py:205`, `history_proxy.py:40`).  The proxies' other reads
(`last_round`, `count`) see the list alone and are left out.  `Expire` drops any entry at any time, a time to live of any length.
`floor`, `view` and `reported` are there for the properties.

### PeerCards

A card is its number in the order CORE had them, a copy a card and the time it
was fetched at, a file a copy, nothing or `Torn`.  `FromMemory`, `FromDisk` and
`Fetch` are the three ways of `PeerCardCache.get`; the first two never suspend.
CORE answers a request with the card it has then (`Serve`) and the answer is
written back later (`WriteBack`), so two answers may arrive in the wrong order.
`Stored` is what becomes of the file: written, left alone, or cut short; `Restart`
may also cut it short, and forgets the memory.  `Tick` lets no fetch outlive its
timeout.  Of two answers the later write stays, whichever card is newer; in a file a
fault may even keep the newer one.  What the code promises is an age
(`FreshAddress`) and that a copy in memory is never replaced from a file
(`OnlyAnswersReplace`).  Names that are "self" or an alias never come here.

### Loader, Parser and Expressions

A file's content is the mapping YAML makes of it, with the keys that a check, the
dependency check or the engine reads.  `Merged` is what `load_plugin` has after
the overlay; `SchemaValid`, `PersistUsable`, `SecretsSet`, `GuardsParse` and
`TargetsDeclared` are its checks, of which the sandbox and the file system
(`AllowedPaths`, `WritablePaths`) and the environment (`EnvVars`) are constants.
`DeepMerge` is a recursive function of the place in the two mappings, down to
`MaxDepth` keys, which is more than the files of the run have and any number in the
theorems; `At` follows a path.
`Discover` and `LoadNext` are `load_all`, the files in the order `Before`; `Start` keeps the last plugin of each
name and marks those that require a plugin, an alias or a capability there is not
(`Lacking`), and `Handle` is the engine's own
reading of the merged plugin, without actions, which are `Statechart`'s.  One
transition per state and event, since the schema takes no list of them.  The
start from a single file, which skips discovery, is left out.

A guard is a sequence of tokens.  `Parse...` in `Parser` follow the recursive
descent one operator per method.  The methods call each other, so what they return
is a table, `call[rule][i]`, filled one depth of calls after another down to
`MaxNesting`, where Python would raise a RecursionError, which the loader takes for
a bad file as it does any exception.  (The depth that is left is the same at load
and at run time in the model; Python leaves about a thousand calls at either.)  The
`while` loops of `parse_or`, `parse_and`, the arguments and the path are one, `Loop`,
whose turns `Turn` are told apart by the symbol and by what is joined.  The grammar
is written the other way round: `Phrases` says which trees a span of tokens has if
the trees of derivations that are lower are known, and `Readings(s)` are the trees
of the whole guard.

`Evaluate` in `Expressions` is `evaluate`.  It calls itself for the parts of a node
(`Parts`), so `EvaluateTo` walks the tree layer by layer down to `MaxNesting` and
gives every node of a layer its value from those of the layer below (`ValueOf`); what
lies deeper is an error, as Python's RecursionError is to the engine.  `Compare`,
`Call`, `CallMethod` and `Resolve` are the functions it uses.  Both operands of
"and" and "or" have a value in the table, but `Logical` looks at the second only if
the first does not decide.  `Means` is the grammar again, without a tree: the values
that a span of tokens can have by any derivation, given those of lower ones.  There
the operands of "and" and "or" are a list, which means the first that decides or the
last (`Chosen`), and depth plays no part.  `Meanings(s, env)` is what the guard `s`
may mean in the environment `env`.

### Host

`boot` and `drain` are how far `start()` and `shutdown()` have come; they run
side by side after an early signal.  A setup never suspends, so a registration
is one step; one that raises leaves its trigger out, and `start()` fails when the
others are done (`AllSetUp`).  A constructor that raises fails it before any.  `pc` and `at` say where each loop, request and admin request is;
`holder` is the lock of each plugin's engine (who gets it next is left open,
more than the code allows).  What a transition does is left out, except that
plugins in `Stuck` may never end one.  The process's exit cancels everything
(`asyncio.run`).  How long aiohttp waits for open requests in its cleanup is
modelled as `Cut`, at any time.  The two POST endpoints of the listener share
one action, since they share the loop over the handlers.

## The runs

| run | instance | question and answer |
|---|---|---|
| `engine` | three tasks, four events, two boots, a shutdown's save at any moment, a plugin with every kind of guard, target and action, failing writes | is the engine a serial statechart whatever its actions do?  Yes: `LockDiscipline`, `LegalMove`, `SerialSpec` |
| `send` | two tasks, three events, frames to depth 3, sends that are retried to exhaustion, fallbacks that send, nest and raise, TypeErrors, no `on_exhaust`, fair tasks | do lock and flag survive every way out of the send path, does the file follow the state, though a shutdown may write it in mid-transition, and is every event settled?  Yes |
| `on_exhaust` | `on_exhaust` set, and no fallback that fits | no: the task waits for the lock it holds (finding) |
| `fallback_sends` | a fallback that itself sends | it runs the fallbacks again, though the flag is there to prevent it (finding) |
| `restart` | two boots | the host comes back in the initial state (finding) |
| `watch` | a poller of two peers, one of them without an alias, and a caller of another plugin; a cap of one peer, two rounds, failing calls, one boot | nothing stale is read, announced rounds are visible, and none is announced twice or was there before |
| `notice` | one poller, two peers, a cap of three, which they never reach, failing calls, two boots, fairness | below the cap every round is noticed in the end, and a restart announces none twice |
| `admin_stale` | a caller that does not go through `run_tracked_transition` | its guard reads messages older than its event (finding) |
| `host` | four plugins of which any subset is loaded, two of which may never end a transition and one of which has a trigger whose setup raises; a loop, three handlers, one of which takes the loop's id, two messages, an admin request, a signal at any time, fairness | every answered message was offered to all, no loop is left but one whose id was taken, a shutdown completes and a message for the others is answered |
| `cards` | two sends, one peer, a time to live of two ticks and a timeout of one, five ticks, three cards, two boots, failing disk | no address is older than time to live and timeout, only an answer replaces what memory has |
| `load` | one file with every guard of up to three tokens and operands and operators by turns up to seven; two files of 23 kinds in one directory or two, `*.yaml` or `*.yml`, under one of eleven overlays or none, or a link; one event type, three payloads | the engine never meets what the checks were to keep out, a guard has one tree, by which it decides as the grammar says, files fail alone and take with them only what was required of them, the overlay wins path by path |
| `in_flight` | as `host` with two loops and one message | the teardown starts while a transition is in progress (finding) |

*Bounds.*  Every bound is a constant of the specification (`MaxArrivals`,
`MaxBoots`, `MaxFrames`, `MaxRounds`, `MaxCalls`, `MaxCards`, `MaxTime`, `MaxDepth`,
`MaxNesting`) or the size of a set.  Three
tasks are the holder, a waiter and one that comes in between; four events let
one wait behind two.  Three frames are a transition, a fallback and the fallback
of a fallback, after which the pattern repeats; the theorems have no such bound.
Two rounds are one that was there and one that is new; two boots are enough for
what a restart forgets.  In `watch` the cap is one peer, so that a list may lack
either of the two and any round but one; with a cap that the peers reach TLC shows
that a round may never be noticed (`NoticedBelowCap` without its `Cut`), which is why
`notice` stays below it.  A restart between two lists that are cut is left to the
theorem `NoRoundTwice`.  Two handlers and two messages give two scans that meet
at one lock.  `Exhaust` stops at `MaxFrames` when a fallback fits, so the fallback
of `send` that sends counts up first and no longer fits the second time.  Five
ticks are two times to live and a tick, three cards let one be replaced while an
answer that carries it waits and while a copy of it lies in a file.  Seven tokens
are three operands with two operators and a `!` or parentheses, which is every
question of what binds closer, and 120 nested calls are eight per token, which is
proved to be enough; two files and an overlay are the least that can
share a name, an overlay or a dependency.  The state graph ends when the bounds are
used up, and a host may well have nothing to do, so deadlock is not checked; that
nobody waits for ever is `EventsSettled`, `Answered` and `ShutdownCompletes`.

*Fairness.*  Weak fairness of every task's own steps in `Statechart`: asyncio
runs what is ready, and every await in a transition has a timeout (subprocess,
HTTP, post) or is a sleep.  In `History`, strong fairness of `Handle` because the
lock goes round in arrival order, and of a poll over an answer from CORE: CORE
answers again and again, though not always; without that no poller can notice
anything.  That promises nothing beyond the cap, where a peer may be missing from
every list.  In `Host` the same for the lock, weak fairness for the loop's own
steps, and none for arrivals, signals, and transitions of `Stuck` plugins.
`PeerCards` and `Loader` need none: their properties are safety.

## What is proved

All theorems hold for every value of the constants that satisfies the named
assumptions, with no bound on tasks, plugins, nesting, triggers, rounds or files.

*Statechart* (`Statechart_proofs`).  The inductive invariant is the types,
`LockDiscipline`, `FallbackFlagScoped` and three strengthenings:
`StackOK` (a frame below the top is held up at an action; only the lowest two
frames found `from_fallback` clear, so restoring what a frame saved gives the
right flag at every depth), `EventOK` (a task inside a transition aims at a target
of the state the engine is *still* in, because nobody else has moved it) and
`WaitersOK` (the queue holds each waiting task once, so cancelling one removes
it).  From it: `TypeCorrect`, `LockHeldThroughout`, `FlagScoped`, `MovesLegal`,
`FileNamesState` (`DiskFollowsState` where every write succeeds; a write that fails
leaves the old file, as it must).

*The refinement* (`SerialStatechart_proofs`).  `ImplementsSerial`: without
`on_exhaust` every behaviour of the engine, with any tasks, faults and restarts,
is one of `SerialStatechart`.  Under the mapping the abstract queue is the holder
of the lock followed by the waiters, each with its event (`Line`, `Pairs`); lemmas
say what taking, leaving and losing a place does to it, and one per group of
actions that the step is an abstract one or a stutter.  `NoneNested` is why
`on_exhaust` is excluded: a task that waits for the lock it holds is in the queue
twice.

*PeerCards* (`PeerCards_proofs`).  `CopiesAged` (a copy's card was served
no longer before the time the copy bears than a fetch may take) and `FetchesAged`
(an answer under way was served after its fetch began) with the types and
`MemoryNotBehind` (memory was written no earlier than the file, which says nothing
of which card is newer, but means that a file is out of date whenever memory is).
From it: `TypeCorrect`, `AnswersReplace`, `AddressesFresh`, for any tasks, peers,
time to live and timeout, whatever the disk does.

*History* (`History_proofs`).  `Behind` (nothing read is newer than CORE),
`CacheFresh` (while any task waits or acts the cached messages are no older than
its delivery, since the delivery emptied the cache) and `InOrder` (what a
watcher has reported is in its snapshot or is what it is delivering).  The
assumption is `AllTracked`: every caller invalidates.  The admin handler does
not, which the run `admin_stale` shows.  From it: `TypeCorrect`,
`GuardsAreFresh`, `AnnouncedIsVisible` (of peers with an alias, the only ones that
can be read) and `NoRoundTwice`.

*Host* (`Host_proofs`).  `Registering` and `DoorAfterRegistration` (nobody is let
in before all handlers are listed), `Genuine` and `Scanned` (what a request has
fired is what it has passed), `Locks`, `Reachable` (every running loop is still
ahead of the teardown and is the one its id names) and `Behind`.  From it:
`TypeCorrect`, `FanOutComplete`, and that the only loops left after a shutdown, or
inside a transition at its end, are those whose id a later registration took
(`OnlyOvertakenLeft`, `OnlyOvertakenInside`).  Such a loop does outlive the shutdown.
`AllTornDown` and `QuietAtTheEnd` say that nothing does, for triggers of which no two
share an id (`OwnIds`); nothing in the code sees to that.

*Parser* (`Parser_proofs`), for guards of any length and any vocabulary in which a
name is no literal and neither is a sign (`TokensAssumption`).  `OneTree`: the
grammar gives a guard one tree at most, so nothing can be read in two ways.
`ParsedRight`: what the parser accepts has a tree, and what it returns is that tree.
`ParsedIfTree`: it accepts every guard that has a tree and no more than an eighth of
`MaxNesting` tokens.  `HeightIsEnough`: the bound on derivations in `Readings` leaves
no tree out.  The argument: `Height(level, n)`, eight times the tokens less a rank
of the level, drops from a phrase to each of its parts (`Lower`, `PartsAreLower`), so
that at a height of eight times the tokens the table of derivations no longer
changes and is a fixpoint of the grammar (`AllTrees`, `IsGrammar`).  By induction
on the depth of calls, what a method returns is a phrase of its rule (`CallsRead`).
By induction on the height, every phrase is found (`EveryTreeFound`), but only if
what follows it is not a token that would let the method go on: `Goes` and `Inner`
are those tokens for each method and loop, and that they never follow a part inside
a phrase is what makes the grammar unambiguous (`GoesAre`).  Since the parser
returns one thing, two trees of a guard are the same.

*Expressions* (`Expressions_proofs`), for the same guards and any environment: values
at any paths, methods that return anything.  `OneMeaning`: a guard means something
exactly if it has a tree, and never two things.  `EvaluatedRight`: what `evaluate`
returns for the tree of an accepted guard is what the guard means, or the error of
calls that nest too deep, and it is not that error if the guard has no more than
`MaxNesting` tokens.  (A longer one can be: the parser reads `a || a || ...` in a loop
and builds a tree from the left that `evaluate` descends one call per operator, so a
guard may pass the check at load and yet be an error at every event.)  The argument: by
induction on the height of derivations, the trees of a span and its values
correspond, in both directions (`Agreement`, `LevelsAgree`, one lemma per rule of the
grammar).  Corresponding is `Fits(t, v, w, env)`: at every depth `evaluate` returns
`v` or fails for want of depth, and with `w` calls, the tokens of the span, it does
not fail.  An error below must therefore not turn into another value on its way up,
which is where the code's order of evaluation matters: an argument that is never
looked at may fail, one that is looked at makes the call fail (`CallStrict`), and so
with the second operand of "and" and "or" (`LogicalFits`).  That a list of operands means the
same as the tree that joins them from the left is `ChosenAppended`.  That a value
depends on the depth that is left and not on the tree around it is `SameValue`.

*Loader* (`Loader_proofs`).  The assumptions are that a directory's files have
different names and one of two extensions, that the compared paths are no longer
than `MaxDepth`, and `TokensAssumption`.  The inductive
invariant `LoadInv` is the types, `PluginsLoaded` (every plugin is that of a good
file, in the order of the files), `NoneForgotten` (what is pending comes after all
that is loaded, and a good file is one or the other) and `RunningLoaded`.  From it:
`TypeCorrect`, `ChecksAreKept`, `EachFailsAlone`,
`OverlayAlwaysWins`, and, with the theorems about the parser and the evaluator,
`GuardsAreRead` and `GuardsAlwaysDecide`: from the file to the state machine, a guard
that is loaded decides as the grammar says.  For
`OverlayAlwaysWins`, `At` and `DeepMerge` must be unfolded, along paths of any length
(`WalkExists`, `AtNext`) and for mappings of any depth (`MergeExists`,
`MergeUnfolds`), with what a path through the merge passes (`MergeAlong`).

That a recursive function of these three modules exists and satisfies its equation,
and whatever else needs an induction, is proved by taking a least counterexample
(`LeastNat`, from the library's well-foundedness of the natural numbers), since the
provers cannot use an induction theorem whose parameter is an operator.

*Only model-checked*: every liveness property (`EventsSettled`,
`NoticedBelowCap`, `Answered`, `ShutdownCompletes`), which is beyond
the prover.  Every safety property of a passing run is a theorem.

## Where the code and its documents disagree

Shown by a run:

- `on_exhaust`: with no fallback that fits, `dispatch()` awaits `transition()` of
  the engine whose lock its own task holds (`a2a_client.py:609`); no event of
  that plugin is settled after that.
- `fallback_sends`: the send wrapper never reads `from_fallback` (`host.py:256`).
- `restart`: `start()` never calls `restore_from_persist()`.
- `admin_stale`: `handle_trigger` does not invalidate (`admin_api.py:192`).
- `in_flight`: `in_flight_count` stays 0, so the wait of phase P2 is over at once.

Met while reading; the models have the behaviour, no run is spent on it:

- A TypeError raised while sending (metadata that json cannot write, say) is
  taken for an old two-argument client and sends the message, its retries and
  its fallbacks again without metadata (`statechart.py:464-468`; `Handlers` and
  `Resent`).
- A bare target passes the schema, which says it is migrated, and is never taken
  (`schema/plugin.schema.json:412`, `statechart.py:340`; `Transitions`, `Outcome` in
  `Loader`); its target is not checked either (`loader.py:216`).
- `resilience.a2a_retries` is read by nobody; the one client retries twice
  (`host.py:129`; `MaxRetries` is the client's).
- A first poll that fails becomes the snapshot, with aliases at round 0, and the
  next that works announces their whole history (`history_client.py:230`; `Start`
  over `Partial`).
- `granularity: manual` does not stop a trigger from polling
  (`trigger_impl.py:282`).
- Two triggers with one id: the second takes the first's place in `_triggers` and
  the first's task is never cancelled (`trigger.py:92`; `Overtaken`, the exception
  in `TornDown` and `Quiet`, which the run `host` meets; no property catches it).
- A message trigger's teardown leaves its handler in the listener's list
  (`trigger_impl.py:193`; `TearDown`).
- `statechart.initial` is not among the names that are checked, though "every
  transition target MUST be a declared state" is (`loader.py:231`): a plugin with a
  misspelt one loads, runs and never moves (`Start`, `Handle` in `Loader`).
- A key after "." may be a number or a reserved word, where EXPRESSION_REFERENCE
  says identifier (`expression.py:125`; `Words`).  The grammar of `GuardsRead` is
  the code's, so it does not show this.
- Paging stops at fifty peers, and what was left out is never listed though the
  list is cached like a whole one (`history_client.py:224`; `Complete`).
- A guard that names an unknown namespace or function parses, loads, and is an
  error at every event (`expression.py:194`; `guard_eval_error`).
- One `production.local.yaml` lies over every plugin of its directory, so one that
  sets a name leaves one plugin of them all (`loader.py:176`; `Overlays`, `ByName`).
- A plugin that requires a degraded plugin is not degraded itself (`host.py:218`;
  `Lacking`).
- One trigger whose setup raises ends the host and not only its plugin
  (`host.py:302`; `Registered`).

## Not modelled

What could still be added, in this order:

1. The admin API's answer and last-match bookkeeping next to
   `run_tracked_transition`'s.
2. `restore_from_persist`, which only tests call; the finding of `restart` is
   that nothing else does.
3. Lists of transitions and the action lists in `Loader`, and templates
   (`render_template`) in `Expressions`.

What the properties do not see: the context that a failed action has half changed,
which the next transition, or the shutdown's save, writes to the file
(`SerialSpec` and `DiskFollowsState` are about states); which of two cards that
arrive out of order is the newer; and in `GuardsDecide`, which compares the
evaluator with the grammar's meaning, what a path, a call or a comparison of two
values gives, since both sides take it from `Resolve`, `Call` and `Compare`.

Left out for good: cron's computation of the next time (croniter), YAML and
JSON schema (libraries; `SchemaValid` keeps what the model's keys are subject to),
the characters of a guard (`tokenize` is one regular expression), the sandbox's
path tables, the enforcer's checks and the redaction (pure predicates over
strings), the token lookup, `PeerCardCache.invalidate` (nothing calls it), the
doctor, the command line and logging.  Timer slots exist in the enforcer but
nothing takes one.  The interleaving of two processes over one plugin directory
or one set of card files is not modelled: the host is meant to run once.
