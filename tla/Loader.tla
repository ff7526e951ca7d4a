------------------------------- MODULE Loader -------------------------------
(***************************************************************************)
(* How plugin files become the plugins a host runs: src/core/loader.py,    *)
(* the first part of Host.start (src/core/host.py) and, to see what the    *)
(* checks at load are worth at run time, how the statechart engine reads a *)
(* transition of a loaded plugin.                                          *)
(*                                                                         *)
(* A file's content is what the YAML parser makes of it: a mapping         *)
(* ([dict |-> function from keys]), or a leaf ([leaf |-> sequence], which  *)
(* stands for scalars and lists alike).  A guard is a leaf of tokens; the  *)
(* parser of guards is Parser's, the evaluator that of Expressions.  Of a  *)
(* plugin's keys the model keeps those that a check, the dependency check  *)
(* or the engine reads.                                                    *)
(***************************************************************************)
EXTENDS Expressions, FiniteSets

CONSTANTS
    Trees,          \* plugin directories: sequences of files, in path order
    Paths,          \* the paths at which OverlayWins compares
    MaxDepth,       \* how deep mappings are merged
    EnvVars,        \* the environment variables that are set
    WritablePaths,  \* persist paths whose directory can be created and written
    AllowedPaths,   \* persist paths the sandbox lets through
    Environments,   \* what an event offers to a guard
    Events          \* event types

VARIABLES
    tree,       \* the directory; it does not change
    phase,      \* "discovering", "loading", "up" or "refused"
    pending,    \* load_all: the files not yet loaded, indices into tree
    plugins,    \* load_all: the plugins loaded, in order
    running,    \* Host.plugins: the plugin of each name
    degraded,   \* the names marked degraded
    state,      \* each engine's current_state
    last        \* the last event handled, with what came of it

vars == <<tree, phase, pending, plugins, running, degraded, state, last>>

---------------------------------------------------------------------------
(* Reading a parsed file. *)

Absent == [absent |-> TRUE]
IsDict(x) == "dict" \in DOMAIN x
IsLeaf(x) == ~IsDict(x) /\ x # Absent
Dict(f) == [dict |-> f]
Leaf(v) == [leaf |-> v]

\* The keys of a mapping: strings that something is held under.
Keys(x) ==
    IF IsDict(x) THEN {k \in DOMAIN x.dict : k \in STRING /\ x.dict[k] # Absent} ELSE {}

\* d.get(key), and a chain of them.
Get(d, key) == IF key \in Keys(d) THEN d.dict[key] ELSE Absent
At(d, path) ==
    LET after[k \in 0 .. Len(path)] ==
            IF k = 0 THEN d ELSE Get(after[k - 1], path[k])
    IN after[Len(path)]
ListAt(d, path) == IF IsLeaf(At(d, path)) THEN At(d, path).leaf ELSE <<>>

\* Files of one directory have different names.
ASSUME TreesAssumption ==
    \A t \in Trees :
        /\ t \in Seq(Elements(t))
        /\ \A i \in DOMAIN t : t[i].ext \in {"yaml", "yml"}
        /\ \A i, j \in DOMAIN t : t[i].dir = t[j].dir /\ t[i].name = t[j].name => i = j

ASSUME PathsAssumption ==
    MaxDepth \in Nat /\ \A path \in Paths : path \in Seq(STRING) /\ Len(path) <= MaxDepth

States(p) == At(p, <<"spec", "statechart", "states">>)
Initial(p) == ListAt(p, <<"spec", "statechart", "initial">>)[1]
OnExhaust(p) == ListAt(p, <<"spec", "resilience", "on_exhaust">>)
Persist(p) == ListAt(p, <<"spec", "statechart", "persist", "path">>)

\* The transitions of a plugin that are written as mappings; the schema also
\* takes a string, for the target alone.
TransitionAt(p, s, e) == At(States(p), <<s, "on", e>>)
Transitions(p) ==
    UNION {{TransitionAt(p, s, e) : e \in Keys(At(States(p), <<s, "on">>))} :
           s \in Keys(States(p))}
ObjectTransitions(p) == {t \in Transitions(p) : IsDict(t)}

---------------------------------------------------------------------------
(* load_plugin. *)

\* Mutant: a list of the overlay is added to the base's.
DeepMergeAppending(base, overlay) ==
    LET Places == {p \in Seq(STRING) : Len(p) <= MaxDepth}
        merged[p \in Places] ==
            LET b == At(base, p)
                o == At(overlay, p)
            IN IF IsDict(b) /\ IsDict(o) /\ Len(p) < MaxDepth
               THEN Dict([k \in Keys(b) \cup Keys(o) |->
                            IF k \in Keys(o) THEN merged[Append(p, k)] ELSE b.dict[k]])
               ELSE IF IsLeaf(b) /\ IsLeaf(o) THEN Leaf(b.leaf \o o.leaf)
               ELSE o
    IN merged[<<>>]

\* Mappings are merged key by key, place by place; anything else of the overlay,
\* a list too, takes the place of what the base has there.
DeepMerge(base, overlay) ==
    LET Places == {p \in Seq(STRING) : Len(p) <= MaxDepth}
        merged[p \in Places] ==
            LET b == At(base, p)
                o == At(overlay, p)
            IN IF IsDict(b) /\ IsDict(o) /\ Len(p) < MaxDepth
               THEN Dict([k \in Keys(b) \cup Keys(o) |->
                            IF k \in Keys(o) THEN merged[Append(p, k)] ELSE b.dict[k]])
               ELSE o
    IN merged[<<>>]

\* The directory's production.local.yaml, if it is a file that holds a mapping:
\* one file, for every plugin of its directory.  One that cannot be read is
\* passed over.
Overlays(dir) ==
    {tree[i] : i \in {i \in DOMAIN tree : /\ tree[i].dir = dir
                                          /\ tree[i].name = "production.local.yaml"
                                          /\ ~tree[i].symlink
                                          /\ IsDict(tree[i].content)}}

\* What is checked, and run, for the file i.
Merged(i) ==
    IF Overlays(tree[i].dir) = {} THEN tree[i].content
    ELSE DeepMerge(tree[i].content, (CHOOSE o \in Overlays(tree[i].dir) : TRUE).content)

\* The part of the schema that the keys of the model are subject to: what is
\* required (of the four keys at the top the model keeps two), what a transition
\* may hold, and no key at the top that it does not know.  That the initial state,
\* or a target, is declared is not its business.
SchemaValid(p) ==
    /\ Keys(p) = {"metadata", "spec"}
    /\ ListAt(p, <<"metadata", "name">>) # <<>>
    /\ ListAt(p, <<"spec", "statechart", "initial">>) # <<>>
    /\ IsLeaf(At(p, <<"spec", "secrets">>))
    /\ ~IsLeaf(At(p, <<"spec", "peers">>)) /\ ~IsLeaf(At(p, <<"spec", "requires">>))
    /\ Keys(States(p)) # {}
    /\ \A t \in Transitions(p) :
          \/ IsLeaf(t) /\ t.leaf # <<>>
          \/ /\ IsDict(t) /\ Keys(t) \subseteq {"target", "guard"}
             /\ ListAt(t, <<"target">>) # <<>>
             /\ ~IsDict(Get(t, "guard")) /\ ListAt(t, <<"guard">>) \in Seq(STRING)

PersistUsable(p) ==
    \/ Persist(p) = <<>>
    \/ Persist(p)[1] \in AllowedPaths \cap WritablePaths

\* A secret that is not required may be missing.
SecretsSet(p) ==
    \A secret \in Elements(ListAt(p, <<"spec", "secrets">>)) :
        secret.required => secret.name \in EnvVars

Guards(p) ==
    {Get(t, "guard").leaf : t \in {t \in ObjectTransitions(p) : IsLeaf(Get(t, "guard"))}}

\* Every guard parses, an empty one, which the engine would not read, too.
GuardsParse(p) == \A g \in Guards(p) : Parses(g)

TargetsDeclared(p) ==
    /\ OnExhaust(p) = <<>> \/ OnExhaust(p)[1] \in Keys(States(p))
    /\ \A t \in ObjectTransitions(p) : ListAt(t, <<"target">>)[1] \in Keys(States(p))

\* Mutant: the guards and the targets are those of the file without its overlay.
LoadsBase(i) ==
    /\ IsDict(tree[i].content)
    /\ LET p == Merged(i)
       IN SchemaValid(p) /\ PersistUsable(p) /\ SecretsSet(p)
          /\ GuardsParse(tree[i].content) /\ TargetsDeclared(tree[i].content)

\* load_plugin returns a plugin, and not None: every check passes, in whatever
\* order, since the first that fails ends it.
FineButGuards(i) ==
    /\ IsDict(tree[i].content)
    /\ LET p == Merged(i)
       IN SchemaValid(p) /\ PersistUsable(p) /\ SecretsSet(p) /\ TargetsDeclared(p)

Loads(i) == FineButGuards(i) /\ GuardsParse(Merged(i))

Plugin(i) == [file |-> i, name |-> ListAt(Merged(i), <<"metadata", "name">>)[1],
              spec |-> Merged(i)]

---------------------------------------------------------------------------
NoEvent == [result |-> "none"]

Init ==
    /\ tree \in Trees
    /\ phase = "discovering"
    /\ pending = {}
    /\ plugins = <<>>
    /\ running = <<>>
    /\ degraded = {}
    /\ state = <<>>
    /\ last = NoEvent

\* Neither a symbolic link nor a *.local.yaml, which is an overlay.
IsPlugin(i) == ~tree[i].symlink /\ ~tree[i].local

\* The order of discover_plugins: the *.yaml in path order, then the *.yml.
Before(i, j) ==
    \/ tree[i].ext = "yaml" /\ tree[j].ext = "yml"
    \/ tree[i].ext = tree[j].ext /\ i < j

Discover ==
    /\ phase = "discovering"
    /\ pending' = {i \in DOMAIN tree : IsPlugin(i)}
    /\ phase' = "loading"
    /\ UNCHANGED <<tree, plugins, running, degraded, state, last>>

\* Mutant: the first file that fails ends the loading.
LoadUntilFailure(i) ==
    /\ phase = "loading"
    /\ \A j \in pending \ {i} : Before(i, j)
    /\ pending' = IF Loads(i) THEN pending \ {i} ELSE {}
    /\ plugins' = IF Loads(i) THEN Append(plugins, Plugin(i)) ELSE plugins
    /\ UNCHANGED <<tree, phase, running, degraded, state, last>>

\* One turn of load_all: a file that fails is logged and left out.
LoadNext(i) ==
    /\ phase = "loading"
    /\ \A j \in pending \ {i} : Before(i, j)
    /\ pending' = pending \ {i}
    /\ plugins' = IF Loads(i) THEN Append(plugins, Plugin(i)) ELSE plugins
    /\ UNCHANGED <<tree, phase, running, degraded, state, last>>

\* Host.start: of the plugins of one name the last loaded is kept.
ByName ==
    [n \in {plugins[k].name : k \in DOMAIN plugins} |->
        plugins[CHOOSE k \in DOMAIN plugins :
                    /\ plugins[k].name = n
                    /\ \A m \in DOMAIN plugins : plugins[m].name = n => m <= k]]

Required(p, kind) == Elements(ListAt(p.spec, <<"spec", "requires", kind>>))
Aliases(p) == Keys(At(p.spec, <<"spec", "peers">>))
KnownCapabilities == {"metadata"}

\* Mutant: the names that are missing are marked, not those that miss them.
Missing(ps) == UNION {Required(ps[n], "plugins") : n \in DOMAIN ps} \ DOMAIN ps

\* _check_requires: the plugins of ps that require a plugin that is not there, an
\* alias that no plugin there has, or a capability there is not.  A plugin that is
\* there is enough, degraded itself or not.
Lacking(ps) ==
    {n \in DOMAIN ps :
        \/ \E m \in Required(ps[n], "plugins") : m \notin DOMAIN ps
        \/ \E a \in Required(ps[n], "peers") : \A m \in DOMAIN ps : a \notin Aliases(ps[m])
        \/ \E c \in Required(ps[n], "capabilities") : c \notin KnownCapabilities}

Start ==
    /\ phase = "loading" /\ pending = {}
    /\ UNCHANGED <<tree, pending, plugins, last>>
    /\ IF plugins = <<>>
       THEN /\ phase' = "refused"
            /\ UNCHANGED <<running, degraded, state>>
       ELSE /\ phase' = "up"
            /\ running' = ByName
            /\ degraded' = Lacking(ByName)
            /\ state' = [n \in DOMAIN ByName |-> Initial(ByName[n].spec)]

\* The engine's reading of a transition t in env: what comes of the event.  A
\* transition that is a string is never taken.
Outcome(p, t, env) ==
    LET guard == ListAt(t, <<"guard">>)
        target == ListAt(t, <<"target">>)
        value == Decision(Parse(guard).ast, env)
        Passes == IF target[1] \in Keys(States(p)) THEN "matched" ELSE "undeclared"
    IN IF ~IsDict(t) THEN "no_match"
       ELSE IF guard = <<>> THEN Passes
       ELSE IF ~Parses(guard) THEN "unparsed"
       ELSE IF value = "error" THEN "guard_eval_error"
       ELSE IF value = "false" THEN "guard_false"
       ELSE Passes

\* An event for plugin n, from a trigger or, for a degraded one, the admin API.
Handle(n, e, env) ==
    LET p == running[n].spec
        t == TransitionAt(p, state[n], e)
        result == Outcome(p, t, env)
    IN /\ phase = "up"
       /\ last' = [plugin |-> n, transition |-> t, env |-> env, result |-> result]
       /\ state' = IF result = "matched"
                   THEN [state EXCEPT ![n] = ListAt(t, <<"target">>)[1]] ELSE state
       /\ UNCHANGED <<tree, phase, pending, plugins, running, degraded>>

Next ==
    \/ Discover
    \/ \E i \in pending : LoadNext(i)
    \/ Start
    \/ \E n \in DOMAIN running, e \in Events, env \in Environments : Handle(n, e, env)

Spec == Init /\ [][Next]_vars

---------------------------------------------------------------------------
(* Properties. *)

\* The variables keep their shapes: in particular the engines are those of the
\* plugins that run, and each is in a state its plugin declares, or still in
\* the initial one, which nothing compares with the declared ones.
TypeOK ==
    /\ phase \in {"discovering", "loading", "up", "refused"}
    /\ pending \subseteq DOMAIN tree
    /\ DOMAIN state = DOMAIN running
    /\ degraded \subseteq DOMAIN running
    /\ \A n \in DOMAIN running :
          /\ running[n].name = n
          /\ state[n] \in Keys(States(running[n].spec)) \cup {Initial(running[n].spec)}

\* What the checks at load promise of the run: the engine, which reads the
\* merged plugin for itself, never meets a guard it cannot parse nor a target
\* that is not declared, and the state that on_exhaust names is there.
ChecksHold ==
    /\ last # NoEvent => last.result \notin {"unparsed", "undeclared"}
    /\ \A n \in DOMAIN running :
          OnExhaust(running[n].spec) # <<>> =>
              OnExhaust(running[n].spec)[1] \in Keys(States(running[n].spec))

\* A guard is read in one way.  One that a loaded plugin has is given one tree by
\* the grammar, and by that the engine decides; and a file is not refused for its
\* guards unless one of them has no tree, or is so long that calls might nest too
\* deep.
GuardsRead ==
    LET files == {plugins[k].file : k \in DOMAIN plugins}
    IN /\ \A i \in files : \A g \in Guards(Merged(i)) :
             \E ast \in Readings(g) : Readings(g) = {ast}
       /\ phase \in {"up", "refused"} =>
             \A i \in DOMAIN tree \ files :
                IsPlugin(i) /\ FineButGuards(i) =>
                    \E g \in Guards(Merged(i)) : Readings(g) = {} \/ 8 * Len(g) > MaxNesting
       /\ last # NoEvent /\ ListAt(last.transition, <<"guard">>) # <<>> =>
             \E ast \in Readings(ListAt(last.transition, <<"guard">>)) :
                 /\ Readings(ListAt(last.transition, <<"guard">>)) = {ast}
                 /\ last.result = CASE Decision(ast, last.env) = "error" -> "guard_eval_error"
                                    [] Decision(ast, last.env) = "false" -> "guard_false"
                                    [] OTHER -> "matched"

\* A guard decides as the grammar says: what the engine made of the last event
\* is what its guard means, which is one thing.  Only a guard of very many tokens
\* may be an error instead, since its tree may be too deep to be evaluated.
GuardsDecide ==
    LET guard == ListAt(last.transition, <<"guard">>)
        meanings == Meanings(guard, last.env)
    IN last # NoEvent /\ guard # <<>> =>
          \E v \in meanings :
             /\ meanings = {v}
             /\ \/ last.result = CASE Verdict(v) = "error" -> "guard_eval_error"
                                   [] Verdict(v) = "false" -> "guard_false"
                                   [] OTHER -> "matched"
                \/ Len(guard) > MaxNesting /\ last.result = "guard_eval_error"

\* A plugin fails alone: once the host has loaded a directory, it runs, for
\* every name, the last of the files that are good by themselves, whatever the
\* others are, and it refuses to start only if there is none.  What a plugin loses
\* by the failure of others is what it requires of them: it is degraded exactly if
\* it requires a name that no good file has, an alias that no file that runs has
\* (so one that is broken, or gives way to a later one of its name, takes its
\* aliases with it), or a capability the host does not know.
FailsAlone ==
    LET good == {i \in DOMAIN tree : IsPlugin(i) /\ Loads(i)}
        named(n) == {i \in good : Plugin(i).name = n}
        runs == {i \in good : \A j \in named(Plugin(i).name) \ {i} : Before(j, i)}
    IN phase \in {"up", "refused"} =>
        /\ phase = "refused" <=> good = {}
        /\ DOMAIN running = {Plugin(i).name : i \in good}
        /\ \A n \in DOMAIN running :
              /\ running[n].file \in named(n) \cap runs
              /\ n \in degraded <=>
                    \/ \E m \in Required(running[n], "plugins") : named(m) = {}
                    \/ \E a \in Required(running[n], "peers") :
                          \A i \in runs : a \notin Aliases(Plugin(i))
                    \/ \E c \in Required(running[n], "capabilities") : c \notin KnownCapabilities

\* The overlay, path by path: where it has a value, that is the plugin's; where
\* it cuts a mapping of the base short, nothing is left; everywhere else the
\* base's value stands.
OverlayWins ==
    LET Cut(o, path) == \E k \in 1 .. Len(path) - 1 : IsLeaf(At(o, SubSeq(path, 1, k)))
    IN \A k \in DOMAIN plugins :
        LET base == tree[plugins[k].file].content
            over == {o.content : o \in Overlays(tree[plugins[k].file].dir)}
        IN \A path \in Paths :
            LET mine == At(plugins[k].spec, path)
            IN IF over = {} THEN mine = At(base, path)
               ELSE \A o \in over :
                    CASE IsLeaf(At(o, path)) -> mine = At(o, path)
                      [] Cut(o, path) -> mine = Absent
                      [] IsDict(At(o, path)) -> IsDict(mine)
                      [] OTHER -> mine = At(base, path)
=============================================================================
