------------------------------- MODULE History -------------------------------
(***************************************************************************)
(* Watching remote histories: the two HistoryClients of a host with their  *)
(* caches (core/history_client.py), the HistoryChangeTriggers that poll    *)
(* one of them (core/trigger_impl.py) and the guards and templates that    *)
(* read the other (core/history_proxy.py) inside a transition.             *)
(*                                                                         *)
(* The clients call CORE synchronously, so a poll or an evaluation, its    *)
(* RPCs included, is one step of the event loop.  A transition gives the   *)
(* loop up while it waits for its engine's lock and while its actions      *)
(* suspend.  A round is a number: the highest task number CORE holds for   *)
(* the peer, whose message its message list then has.                      *)
(***************************************************************************)
EXTENDS Integers, FiniteSets

CONSTANTS
  Peers,        \* peers CORE may hold a history for
  Aliases,      \* those of them named in some plugin's spec.peers
  Plugins,
  Watchers,     \* history_change triggers
  Callers,      \* other tasks that deliver events: cron, A2A, the admin API
  Tracked,      \* callers that go through run_tracked_transition
  PluginOf,     \* the plugin a watcher or caller delivers to
  Watches,      \* the peers a watcher's `peer` matches
  PeerCap,      \* peers after which list_peers stops paging, 50 in the code
  Flaky,        \* whether a call to CORE may fail
  MaxRounds,    \* bound: rounds of a peer
  MaxCalls,     \* bound: events of callers
  MaxBoots,     \* bound: process starts
  None

Tasks == Watchers \cup Callers
Rounds == 0..MaxRounds
Listing == UNION {[S -> Rounds] : S \in SUBSET Peers}
Report == [peer : Peers, prev : Rounds, new : Rounds]

ASSUME NamesAssumption ==
  /\ Aliases \subseteq Peers /\ Tracked \subseteq Callers
  /\ Watchers \cap Callers = {}
  /\ PluginOf \in [Watchers \cup Callers -> Plugins]
  /\ Watches \in [Watchers -> SUBSET Peers]
  /\ None \notin Tasks
  /\ \A S \in SUBSET Peers : None \notin [S -> Rounds]
ASSUME NumbersAssumption ==
  /\ Flaky \in BOOLEAN /\ PeerCap \in Nat
  /\ MaxRounds \in Nat /\ MaxCalls \in Nat /\ MaxBoots \in Nat \ {0}
\* None stands outside every set of data it is added to.
ASSUME NoneAssumption == None \notin Rounds /\ None \notin Report

VARIABLES
  rounds,     \* CORE: the highest round of each peer
  listed,     \* the engines' client: its cached list_peers, or None
  messages,   \* the engines' client: what it has cached of each peer's messages
  polled,     \* the triggers' client: its cached list_peers, or None
  snapshot,   \* each watcher's _last_snapshot
  left,       \* what it has still to report of the list it polled
  pc,         \* where each task is
  event,      \* the report a watcher is delivering
  view,       \* what the task's last evaluation read of a peer's messages
  holder,     \* who holds each engine's lock
  calls, boots,
  \* For the properties only:
  floor,      \* rounds when the task delivered its event
  reported    \* what the watcher found at its start, and has reported since

engineCache == <<listed, messages>>
watch == <<snapshot, left, event, reported>>
vars == <<rounds, engineCache, polled, watch, pc, view, holder, calls, boots,
          floor>>

Empty == [p \in {} |-> 0]
Nothing == [p \in Peers |-> None]
Nowhere == [t \in Tasks |-> IF t \in Watchers THEN "starting" ELSE "idle"]
NoTask == [t \in Tasks |-> None]
NoRound == [p \in Peers |-> 0]

Init ==
  /\ rounds \in [Peers -> Rounds]
  /\ listed = None /\ polled = None /\ messages = Nothing
  /\ snapshot = [w \in Watchers |-> Empty] /\ left = snapshot
  /\ pc = Nowhere /\ event = NoTask /\ view = NoTask
  /\ holder = [e \in Plugins |-> None]
  /\ floor = [t \in Tasks |-> rounds]
  /\ reported = [w \in Watchers |-> NoRound]
  /\ calls = 0 /\ boots = 1

----------------------------------------------------------------------------
(* CORE and the caches.                                                    *)

NewRound(p) ==
  /\ rounds[p] < MaxRounds
  /\ rounds' = [rounds EXCEPT ![p] = @ + 1]
  /\ UNCHANGED <<engineCache, polled, watch, pc, view, holder, calls, boots, floor>>

Known == {p \in Peers : rounds[p] > 0}
\* What the first pages of ListTasks may give: some of the peers, each at the
\* highest round among the tasks on those pages.
Pages == {l \in UNION {[S -> 1..MaxRounds] : S \in SUBSET Known} :
            \A p \in DOMAIN l : l[p] <= rounds[p]}
\* Every page, or the pages up to one with which the peers reach the cap: such
\* a list lacks peers and rounds, and is cached like a whole one.
Complete == {[p \in Known |-> rounds[p]]} \cup
            {l \in Pages : Cardinality(DOMAIN l) >= PeerCap}
\* A page fails: what the pages before it gave, and every alias at round 0.
Partial == {[p \in DOMAIN l \cup Aliases |-> IF p \in Aliases THEN 0 ELSE l[p]] :
              l \in Pages}
\* What list_peers may return over a cache; it caches a fallback like an answer.
ListPeers(cache) ==
  IF cache # None THEN {cache}
  ELSE Complete \cup (IF Flaky THEN Partial ELSE {})

\* An entry older than the time to live is not used any more.
Expire ==
  /\ \/ listed' = None /\ UNCHANGED <<messages, polled>>
     \/ polled' = None /\ UNCHANGED engineCache
     \/ \E p \in Peers :
          messages' = [messages EXCEPT ![p] = None] /\ UNCHANGED <<listed, polled>>
  /\ UNCHANGED <<rounds, watch, pc, view, holder, calls, boots, floor>>

----------------------------------------------------------------------------
(* Delivering an event.                                                    *)

\* Mutant: the cached messages survive the invalidation.
InvalidateListed == listed' = None /\ UNCHANGED messages
Invalidate == listed' = None /\ messages' = Nothing

\* run_tracked_transition up to the lock; the admin handler goes to the lock
\* directly.
Call(t) ==
  /\ pc[t] = "idle" /\ calls < MaxCalls
  /\ calls' = calls + 1
  /\ IF t \in Tracked THEN Invalidate ELSE UNCHANGED engineCache
  /\ pc' = [pc EXCEPT ![t] = "queued"]
  /\ floor' = [floor EXCEPT ![t] = rounds]
  /\ UNCHANGED <<rounds, polled, watch, view, holder, boots>>

Without(f, p) == [q \in DOMAIN f \ {p} |-> f[q]]
With(f, p, n) == [q \in DOMAIN f \cup {p} |-> IF q = p THEN n ELSE f[q]]
Previous(snap, p) == IF p \in DOMAIN snap THEN snap[p] ELSE 0

\* The poll loop goes on with what is left of the list: it fires for the next
\* peer, or sleeps.
Proceed(w, rest) ==
  \/ /\ DOMAIN rest = {}
     /\ pc' = [pc EXCEPT ![w] = "asleep"]
     /\ left' = [left EXCEPT ![w] = Empty]
     /\ event' = [event EXCEPT ![w] = None]
     /\ UNCHANGED <<engineCache, reported, floor>>
  \/ \E p \in DOMAIN rest :
       /\ pc' = [pc EXCEPT ![w] = "queued"]
       /\ left' = [left EXCEPT ![w] = Without(rest, p)]
       /\ event' = [event EXCEPT ![w] =
            [peer |-> p, prev |-> Previous(snapshot'[w], p), new |-> rest[p]]]
       /\ reported' = [reported EXCEPT ![w][p] = rest[p]]
       /\ floor' = [floor EXCEPT ![w] = rounds]
       /\ Invalidate

\* Mutant: the first list is not taken as the snapshot.
StartEmpty(w) ==
  /\ pc[w] = "starting" /\ pc' = [pc EXCEPT ![w] = "asleep"]
  /\ \E l \in ListPeers(polled) :
       /\ polled' = l
       /\ reported' = [reported EXCEPT ![w] = [p \in Peers |->
            IF p \in DOMAIN l \cap Watches[w] THEN l[p] ELSE 0]]
  /\ UNCHANGED <<rounds, engineCache, snapshot, left, event, view, holder,
                 calls, boots, floor>>

\* The initial snapshot.
Start(w) ==
  /\ pc[w] = "starting"
  /\ \E l \in ListPeers(polled) :
       /\ polled' = l
       /\ snapshot' = [snapshot EXCEPT ![w] =
            [p \in DOMAIN l \cap Watches[w] |-> l[p]]]
       /\ reported' = [reported EXCEPT ![w] =
            [p \in Peers |-> Previous(snapshot'[w], p)]]
  /\ pc' = [pc EXCEPT ![w] = "asleep"]
  /\ UNCHANGED <<rounds, engineCache, left, event, view, holder,
                 calls, boots, floor>>

Grown(w, l) ==
  {p \in DOMAIN l \cap Watches[w] : l[p] > Previous(snapshot[w], p)}

\* The sleep is over, and list_peers returns l.
Poll(w, l) ==
  /\ pc[w] = "asleep"
  /\ polled' = l
  /\ UNCHANGED snapshot
  /\ Proceed(w, [p \in Grown(w, l) |-> l[p]])
  /\ UNCHANGED <<rounds, view, holder, calls, boots>>

----------------------------------------------------------------------------
(* The transition, as far as it reads histories.                           *)

\* EvalEnv.as_dict refreshes the peers namespace, in which every alias has its
\* uuid, listed or not; the expression then reads the messages of one alias, or
\* of none.  A call that fails reads nothing, and so does one for a peer without
\* an alias: its uuid in a list is the start of a task's id, and no peer has it.
Evaluate(t) ==
  \E l \in ListPeers(listed) :
    /\ listed' = l
    /\ \/ view' = [view EXCEPT ![t] = None] /\ UNCHANGED messages
       \/ \E p \in Aliases :
            LET n == IF messages[p] # None THEN messages[p] ELSE rounds[p]
            IN /\ messages' = [messages EXCEPT ![p] = n]
               /\ view' = [view EXCEPT ![t] = [peer |-> p, round |-> n]]

\* The engine's lock is free: the guards are evaluated.
Handle(t) ==
  /\ pc[t] = "queued" /\ holder[PluginOf[t]] = None
  /\ Evaluate(t)
  /\ holder' = [holder EXCEPT ![PluginOf[t]] = t]
  /\ pc' = [pc EXCEPT ![t] = "acting"]
  /\ UNCHANGED <<rounds, polled, watch, calls, boots, floor>>

\* An action renders its templates.
Render(t) ==
  /\ pc[t] = "acting"
  /\ Evaluate(t)
  /\ UNCHANGED <<rounds, polled, watch, pc, holder, calls, boots, floor>>

\* Mutants: the snapshot is one round ahead; it is not brought up to date.
OneAhead(w) == With(snapshot[w], event[w].peer, event[w].new + 1)
Forgotten(w) == snapshot[w]
Updated(w) == With(snapshot[w], event[w].peer, event[w].new)

\* The transition ends, in whatever way: no guard holds, the last action is
\* done, or an exception that _fire logs.
Finish(t) ==
  /\ pc[t] = "acting"
  /\ holder' = [holder EXCEPT ![PluginOf[t]] = None]
  /\ view' = [view EXCEPT ![t] = None]
  /\ \/ /\ t \in Watchers
        /\ snapshot' = [snapshot EXCEPT ![t] = Updated(t)]
        /\ Proceed(t, left[t])
     \/ /\ t \in Callers
        /\ pc' = [pc EXCEPT ![t] = "idle"]
        /\ UNCHANGED <<engineCache, watch, floor>>
  /\ UNCHANGED <<rounds, polled, calls, boots>>

\* A new process: caches and snapshots are gone, CORE keeps its histories.
Restart ==
  /\ boots < MaxBoots /\ boots' = boots + 1
  /\ listed' = None /\ polled' = None /\ messages' = Nothing
  /\ snapshot' = [w \in Watchers |-> Empty] /\ left' = snapshot'
  /\ pc' = Nowhere /\ event' = NoTask /\ view' = NoTask
  /\ holder' = [e \in Plugins |-> None]
  /\ floor' = [t \in Tasks |-> rounds]
  /\ reported' = [w \in Watchers |-> NoRound]
  /\ UNCHANGED <<rounds, calls>>

----------------------------------------------------------------------------
Next ==
  \/ \E p \in Peers : NewRound(p)
  \/ \E t \in Callers : Call(t)
  \/ \E w \in Watchers : Start(w) \/ \E l \in ListPeers(polled) : Poll(w, l)
  \/ \E t \in Tasks : Handle(t) \/ Render(t) \/ Finish(t)
  \/ Expire \/ Restart

Spec == Init /\ [][Next]_vars

Wakes(w) == \E l \in Complete \cap ListPeers(polled) : Poll(w, l)
\* Every sleep and every transition ends, the lock goes round, an entry grows
\* old, and CORE answers again and again.
FairSpec ==
  /\ Spec /\ WF_vars(Expire)
  /\ \A w \in Watchers : WF_vars(Start(w)) /\ SF_vars(Wakes(w))
  /\ \A t \in Tasks : SF_vars(Handle(t)) /\ WF_vars(Finish(t))

----------------------------------------------------------------------------
(* Properties.                                                             *)

TypeOK ==
  /\ rounds \in [Peers -> Rounds]
  /\ listed \in Listing \cup {None} /\ polled \in Listing \cup {None}
  /\ messages \in [Peers -> Rounds \cup {None}]
  /\ snapshot \in [Watchers -> Listing] /\ left \in [Watchers -> Listing]
  /\ pc \in [Tasks -> {"starting", "asleep", "idle", "queued", "acting"}]
  /\ event \in [Tasks -> Report \cup {None}]
  /\ view \in [Tasks -> [peer : Peers, round : Rounds] \cup {None}]
  /\ holder \in [Plugins -> Tasks \cup {None}]
  /\ floor \in [Tasks -> [Peers -> Rounds]]
  /\ reported \in [Watchers -> [Peers -> Rounds]]
  /\ calls \in 0..MaxCalls /\ boots \in 1..MaxBoots

\* Whatever waits and cached reads lie between, a guard or template never reads
\* messages older than the delivery of its event.  (statechart.py:188-191,
\* history_client.py:157-168)
FreshGuard ==
  \A t \in Tasks : view[t] # None => view[t].round >= floor[t][view[t].peer]

\* The round a history_change event announces of a peer with an alias is there
\* when its transition reads that peer, though the announcement came from
\* another client's cache.
\* (host.py:140-143, 275-278)
AnnouncedVisible ==
  \A w \in Watchers :
    view[w] # None /\ event[w] # None /\ view[w].peer = event[w].peer
    => view[w].round >= event[w].new

Fires(w) == event'[w] # None /\ event'[w] # event[w]

\* A watcher announces no round twice, and none that its first poll found,
\* whatever the polls in between returned: failed ones list aliases at round 0,
\* and those cut by the cap any peer at an earlier round than the poll before.
\* (trigger_impl.py:256-287, history_client.py:219-225)
AtMostOnce ==
  [][\A w \in Watchers : Fires(w) =>
       /\ event'[w].prev >= reported[w][event'[w].peer]
       /\ event'[w].new > event'[w].prev]_vars

Cut == Cardinality(Known) >= PeerCap
Noticed(w, p, n) == Previous(snapshot[w], p) >= n

\* While CORE knows fewer peers than the cap, every round of a watched one is
\* noticed in the end, though polls fail in between.
\* (history_client.py:189-247, trigger_impl.py:268-287)
NoticedBelowCap ==
  \A w \in Watchers, p \in Peers, n \in Rounds \ {0} :
    p \in Watches[w] /\ rounds[p] >= n ~> Noticed(w, p, n) \/ Cut
=============================================================================
