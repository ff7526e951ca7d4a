--------------------------- MODULE Loader_proofs ---------------------------
(***************************************************************************)
(* Theorems about Loader, for every set of directories, vocabulary,        *)
(* environment and depth.  At and DeepMerge are recursive functions: that  *)
(* such a function exists, and what it is, is proved by taking a least     *)
(* counterexample (LeastNat of Parser_proofs).                             *)
(***************************************************************************)
EXTENDS Loader, Expressions_proofs

---------------------------------------------------------------------------
(* Induction. *)

\* Of a set of natural numbers that has a bound, the greatest.
LEMMA GreatestNat ==
  ASSUME NEW T \in SUBSET Nat, T # {}, NEW n \in Nat, \A k \in T : k <= n
  PROVE  \E m \in T : \A k \in T : k <= m
<1> DEFINE D == {n - k : k \in T}
<1>1. D \in SUBSET Nat /\ D # {}
  <2>1. \A k \in T : n - k \in Nat
    OBVIOUS
  <2> QED BY <2>1
<1>2. PICK d \in D : \A c \in D : d <= c
  <2> HIDE DEF D
  <2> QED BY <1>1, LeastNat
<1>3. PICK m \in T : d = n - m
  OBVIOUS
<1>4. ASSUME NEW k \in T PROVE k <= m
  <2>1. n - k \in D
    OBVIOUS
  <2>2. n - m <= n - k
    BY <2>1, <1>2, <1>3
  <2> QED BY <2>2
<1> QED BY <1>4

---------------------------------------------------------------------------
(* Get and At. *)

LEMMA GetValue ==
  ASSUME NEW d, NEW k
  PROVE  /\ Get(d, k) # Absent <=> k \in Keys(d)
         /\ k \in Keys(d) => k \in STRING /\ IsDict(d) /\ Get(d, k) = d.dict[k]
  BY DEF Get, Keys

LEMMA GetOfNoDict ==
  ASSUME NEW d, NEW k, ~IsDict(d)
  PROVE  Get(d, k) = Absent
  BY DEF Get, Keys

LEMMA AbsentIsNoDict == ~IsDict(Absent) /\ ~IsLeaf(Absent)
  BY DEF IsDict, IsLeaf, Absent

\* f holds what is found in d along the path, key by key.
Walks(f, d, path, n) ==
  f = [k \in 0 .. n |-> IF k = 0 THEN d ELSE Get(f[k - 1], path[k])]

LEMMA WalkExists ==
  ASSUME NEW d, NEW path, NEW n \in Nat
  PROVE  \E f : Walks(f, d, path, n)
<1> DEFINE T == {m \in Nat : ~\E f : Walks(f, d, path, m)}
<1> SUFFICES ASSUME T # {} PROVE FALSE
  OBVIOUS
<1>1. PICK m \in T : \A k \in T : m <= k
  <2> HIDE DEF T
  <2>1. T \in SUBSET Nat BY DEF T
  <2> QED BY <2>1, LeastNat
<1>2. m # 0
  <2>1. Walks([k \in 0 .. 0 |-> d], d, path, 0)
    BY DEF Walks
  <2> QED BY <2>1, <1>1
<1>3. m - 1 \in Nat /\ m - 1 \notin T
  BY <1>1, <1>2
<1>4. PICK f : Walks(f, d, path, m - 1)
  BY <1>3
<1> DEFINE g == [k \in 0 .. m |-> IF k = m THEN Get(f[m - 1], path[m]) ELSE f[k]]
<1>5. ASSUME NEW k \in 0 .. m
      PROVE  g[k] = IF k = 0 THEN d ELSE Get(g[k - 1], path[k])
  <2>1. CASE k = m
    BY <2>1, <1>2, <1>3
  <2>2. CASE k # m
    <3>1. k \in 0 .. m - 1
      BY <2>2, <1>3
    <3>2. f[k] = IF k = 0 THEN d ELSE Get(f[k - 1], path[k])
      BY <1>4, <3>1 DEF Walks
    <3> QED BY <3>1, <3>2, <2>2
  <2> QED BY <2>1, <2>2
<1>6. Walks(g, d, path, m)
  BY <1>5 DEF Walks
<1> QED BY <1>6, <1>1

\* A walk along the beginning of a path ends where one along the path passes.
LEMMA WalksAgree ==
  ASSUME NEW d, NEW path, NEW m \in Nat, NEW f, Walks(f, d, path, m),
         NEW start, NEW n \in Nat, NEW g, Walks(g, d, start, n),
         n <= m, \A k \in 1 .. n : start[k] = path[k]
  PROVE  g[n] = f[n]
<1> DEFINE T == {k \in 0 .. n : f[k] # g[k]}
<1> SUFFICES ASSUME T # {} PROVE FALSE
  OBVIOUS
<1>1. PICK k \in T : \A j \in T : k <= j
  <2> HIDE DEF T
  <2>1. T \in SUBSET Nat BY DEF T
  <2> QED BY <2>1, LeastNat
<1>2. /\ f[k] = IF k = 0 THEN d ELSE Get(f[k - 1], path[k])
      /\ g[k] = IF k = 0 THEN d ELSE Get(g[k - 1], start[k])
  <2>1. k \in 0 .. m /\ k \in 0 .. n
    OBVIOUS
  <2> QED BY <2>1 DEF Walks
<1>3. CASE k = 0
  BY <1>2, <1>3
<1>4. CASE k # 0
  <2>1. k - 1 \in 0 .. n /\ k - 1 \notin T
    BY <1>1, <1>4
  <2> QED BY <2>1, <1>2, <1>4
<1> QED BY <1>3, <1>4

\* What At finds along the beginning of a path, a walk along the path passes.
LEMMA AtWalk ==
  ASSUME NEW d, NEW path, NEW m \in Nat, NEW f, Walks(f, d, path, m),
         NEW start, Len(start) \in Nat, Len(start) <= m,
         \A k \in 1 .. Len(start) : start[k] = path[k]
  PROVE  At(d, start) = f[Len(start)]
<1> DEFINE n == Len(start)
           after == CHOOSE g : Walks(g, d, start, n)
<1>1. At(d, start) = after[n]
  BY Zenon DEF At, Walks
<1>2. Walks(after, d, start, n)
  BY WalkExists, Zenon
<1> HIDE DEF after
<1>3. after[n] = f[n]
  BY <1>2, WalksAgree
<1> QED BY <1>1, <1>3

LEMMA AtEmpty ==
  ASSUME NEW d
  PROVE  At(d, <<>>) = d
<1>1. PICK f : Walks(f, d, <<>>, 0)
  BY WalkExists
<1>2. At(d, <<>>) = f[0]
  BY <1>1, AtWalk
<1> QED BY <1>1, <1>2 DEF Walks

\* One key further.
LEMMA AtNext ==
  ASSUME NEW d, NEW path \in Seq(STRING), NEW n \in 1 .. Len(path)
  PROVE  At(d, SubSeq(path, 1, n)) = Get(At(d, SubSeq(path, 1, n - 1)), path[n])
<1>1. Len(path) \in Nat
  OBVIOUS
<1>2. PICK f : Walks(f, d, path, Len(path))
  BY <1>1, WalkExists
<1>3. ASSUME NEW m \in 0 .. Len(path)
      PROVE  At(d, SubSeq(path, 1, m)) = f[m]
  <2> DEFINE start == SubSeq(path, 1, m)
  <2>1. /\ Len(start) = m
        /\ \A k \in 1 .. m : start[k] = path[k]
    OBVIOUS
  <2> HIDE DEF start
  <2>2. At(d, start) = f[Len(start)]
    BY <1>1, <1>2, <2>1, AtWalk
  <2> QED BY <2>1, <2>2 DEF start
<1>4. f[n] = Get(f[n - 1], path[n])
  BY <1>2 DEF Walks
<1> QED BY <1>3, <1>4

LEMMA AtOne ==
  ASSUME NEW d, NEW a
  PROVE  At(d, <<a>>) = Get(d, a)
<1> DEFINE path == <<a>>
<1>1. Len(path) = 1 /\ path[1] = a
  OBVIOUS
<1> HIDE DEF path
<1>2. PICK f : Walks(f, d, path, Len(path))
  BY <1>1, WalkExists
<1>3. At(d, path) = f[Len(path)]
  <2>1. Len(path) \in Nat /\ Len(path) <= Len(path)
    BY <1>1
  <2> QED BY <2>1, <1>2, AtWalk
<1>4. f[1] = Get(f[0], a) /\ f[0] = d
  BY <1>1, <1>2 DEF Walks
<1> QED BY <1>1, <1>3, <1>4 DEF path

LEMMA AtTwo ==
  ASSUME NEW d, NEW a, NEW b
  PROVE  At(d, <<a, b>>) = Get(Get(d, a), b)
<1> DEFINE path == <<a, b>>
<1>1. Len(path) = 2 /\ path[1] = a /\ path[2] = b
  OBVIOUS
<1> HIDE DEF path
<1>2. PICK f : Walks(f, d, path, Len(path))
  BY <1>1, WalkExists
<1>3. At(d, path) = f[Len(path)]
  <2>1. Len(path) \in Nat /\ Len(path) <= Len(path)
    BY <1>1
  <2> QED BY <2>1, <1>2, AtWalk
<1>4. f[2] = Get(f[1], b) /\ f[1] = Get(f[0], a) /\ f[0] = d
  BY <1>1, <1>2 DEF Walks
<1> QED BY <1>1, <1>3, <1>4 DEF path

LEMMA AtThree ==
  ASSUME NEW d, NEW a, NEW b, NEW c
  PROVE  At(d, <<a, b, c>>) = Get(Get(Get(d, a), b), c)
<1> DEFINE path == <<a, b, c>>
<1>1. Len(path) = 3 /\ path[1] = a /\ path[2] = b /\ path[3] = c
  OBVIOUS
<1> HIDE DEF path
<1>2. PICK f : Walks(f, d, path, Len(path))
  BY <1>1, WalkExists
<1>3. At(d, path) = f[Len(path)]
  <2>1. Len(path) \in Nat /\ Len(path) <= Len(path)
    BY <1>1
  <2> QED BY <2>1, <1>2, AtWalk
<1>4. f[3] = Get(f[2], c) /\ f[2] = Get(f[1], b) /\ f[1] = Get(f[0], a) /\ f[0] = d
  BY <1>1, <1>2 DEF Walks
<1> QED BY <1>1, <1>3, <1>4 DEF path

\* A transition that is found is one of the plugin's, and of a declared state.
LEMMA TransitionFound ==
  ASSUME NEW p, NEW s, NEW e, TransitionAt(p, s, e) # Absent
  PROVE  s \in Keys(States(p)) /\ TransitionAt(p, s, e) \in Transitions(p)
<1> DEFINE handlers == Get(Get(States(p), s), "on")
<1>1. /\ TransitionAt(p, s, e) = Get(handlers, e)
      /\ At(States(p), <<s, "on">>) = handlers
  BY AtTwo, AtThree DEF TransitionAt
<1> HIDE DEF handlers
<1>2. e \in Keys(handlers) /\ handlers # Absent
  BY <1>1, GetValue, AbsentIsNoDict
<1>3. Get(States(p), s) # Absent
  BY <1>2, GetValue, AbsentIsNoDict DEF handlers
<1>4. s \in Keys(States(p))
  BY <1>3, GetValue
<1> QED BY <1>1, <1>2, <1>4 DEF Transitions

---------------------------------------------------------------------------
(* The files that are loaded. *)

Good(i) == i \in DOMAIN tree /\ IsPlugin(i) /\ Loads(i)

Loaded(q) == Good(q.file) /\ q = Plugin(q.file)

\* Every plugin is that of a good file, and they are in the order of the files.
PluginsLoaded ==
  /\ tree \in Trees
  /\ plugins \in Seq({Plugin(i) : i \in DOMAIN tree})
  /\ \A k \in DOMAIN plugins : Loaded(plugins[k])
  /\ \A j, k \in DOMAIN plugins : j < k => Before(plugins[j].file, plugins[k].file)

\* What is still to be loaded comes later, and no good file is forgotten.
NoneForgotten ==
  /\ phase = "discovering" => plugins = <<>>
  /\ phase # "loading" => pending = {}
  /\ \A i \in pending : i \in DOMAIN tree /\ IsPlugin(i)
  /\ \A k \in DOMAIN plugins, i \in pending : Before(plugins[k].file, i)
  /\ phase # "discovering" =>
        \A i \in DOMAIN tree : Good(i) =>
            i \in pending \/ \E k \in DOMAIN plugins : plugins[k].file = i

\* Only what was loaded runs, under its name.
RunningLoaded ==
  /\ phase # "up" => running = <<>>
  /\ \A n \in DOMAIN running : Loaded(running[n]) /\ running[n].name = n

LoadInv == TypeOK /\ PluginsLoaded /\ NoneForgotten /\ RunningLoaded

\* The directory does not change, and so neither does what is made of it.
LEMMA TreeStays == [Next]_vars => tree' = tree
  BY DEF Next, vars, Discover, LoadNext, Start, Handle

LEMMA SameFiles ==
  ASSUME tree' = tree
  PROVE  /\ \A i : Merged(i)' = Merged(i)
         /\ \A i : Plugin(i)' = Plugin(i)
         /\ \A i : Loads(i)' <=> Loads(i)
         /\ \A i : IsPlugin(i)' <=> IsPlugin(i)
         /\ \A i, j : Before(i, j)' <=> Before(i, j)
         /\ \A i : Good(i)' <=> Good(i)
         /\ \A q : Loaded(q)' <=> Loaded(q)
<1>1. \A i : Merged(i)' = Merged(i)
  BY DEF Merged, Overlays
<1>2. \A i : Plugin(i)' = Plugin(i)
  BY <1>1 DEF Plugin
<1>3. \A i : Loads(i)' <=> Loads(i)
  BY <1>1 DEF Loads, FineButGuards
<1>4. \A i : IsPlugin(i)' <=> IsPlugin(i)
  BY DEF IsPlugin
<1>5. \A i, j : Before(i, j)' <=> Before(i, j)
  BY DEF Before
<1>6. \A i : Good(i)' <=> Good(i)
  BY <1>3, <1>4 DEF Good
<1>7. \A q : Loaded(q)' <=> Loaded(q)
  BY <1>2, <1>6 DEF Loaded
<1> QED BY <1>1, <1>2, <1>3, <1>4, <1>5, <1>6, <1>7

\* The order of the files is total.
LEMMA FilesOrdered ==
  ASSUME tree \in Trees, NEW i \in DOMAIN tree, NEW j \in DOMAIN tree
  PROVE  /\ ~Before(i, i)
         /\ i = j \/ Before(i, j) \/ Before(j, i)
         /\ ~(Before(i, j) /\ Before(j, i))
         /\ \A k \in DOMAIN tree : Before(i, j) /\ Before(j, k) => Before(i, k)
<1>1. /\ tree \in Seq(Elements(tree))
      /\ \A k \in DOMAIN tree : tree[k].ext \in {"yaml", "yml"}
  BY TreesAssumption
<1>2. \A k \in DOMAIN tree : k \in Nat
  BY <1>1
<1> QED BY <1>1, <1>2 DEF Before

\* Host.start keeps the last of a name.
LEMMA LastOfName ==
  ASSUME plugins \in Seq({Plugin(i) : i \in DOMAIN tree})
  PROVE  /\ DOMAIN ByName = {plugins[k].name : k \in DOMAIN plugins}
         /\ \A n \in DOMAIN ByName :
               \E k \in DOMAIN plugins :
                  /\ ByName[n] = plugins[k] /\ plugins[k].name = n
                  /\ \A m \in DOMAIN plugins : plugins[m].name = n => m <= k
<1>1. DOMAIN ByName = {plugins[k].name : k \in DOMAIN plugins}
  BY DEF ByName
<1>2. ASSUME NEW n \in DOMAIN ByName
      PROVE  \E k \in DOMAIN plugins :
                /\ ByName[n] = plugins[k] /\ plugins[k].name = n
                /\ \A m \in DOMAIN plugins : plugins[m].name = n => m <= k
  <2> DEFINE Named == {k \in DOMAIN plugins : plugins[k].name = n}
             IsLast(k) == /\ plugins[k].name = n
                          /\ \A m \in DOMAIN plugins : plugins[m].name = n => m <= k
  <2>1. Named \in SUBSET Nat /\ Named # {} /\ Len(plugins) \in Nat
        /\ \A k \in Named : k <= Len(plugins)
    BY <1>1
  <2>2. \E k \in Named : \A m \in Named : m <= k
    <3> HIDE DEF Named
    <3> QED BY <2>1, GreatestNat
  <2>3. \E k \in DOMAIN plugins : IsLast(k)
    BY <2>2
  <2>4. ByName[n] = plugins[CHOOSE k \in DOMAIN plugins : IsLast(k)]
    BY <1>1 DEF ByName
  <2> QED BY <2>3, <2>4
<1> QED BY <1>1, <1>2

---------------------------------------------------------------------------
(* The shapes, and what is loaded. *)

LEMMA LoadInit == Init => LoadInv
<1> SUFFICES ASSUME Init PROVE LoadInv
  OBVIOUS
<1> USE DEF Init
<1>1. TypeOK
  BY DEF TypeOK
<1>2. PluginsLoaded
  BY DEF PluginsLoaded
<1>3. NoneForgotten
  BY DEF NoneForgotten
<1>4. RunningLoaded
  BY DEF RunningLoaded
<1> QED BY <1>1, <1>2, <1>3, <1>4 DEF LoadInv

LEMMA DiscoverKeepsLoad ==
  ASSUME LoadInv, Discover
  PROVE  LoadInv'
<1> USE DEF LoadInv, Discover
<1>1. TypeOK'
  BY DEF TypeOK
<1>2. PluginsLoaded'
  BY SameFiles DEF PluginsLoaded, NoneForgotten
<1>3. NoneForgotten'
  <2>1. plugins' = <<>> /\ DOMAIN plugins' = {}
    BY DEF NoneForgotten
  <2> QED BY <2>1, SameFiles DEF NoneForgotten, Good
<1>4. RunningLoaded'
  BY SameFiles DEF RunningLoaded
<1> QED BY <1>1, <1>2, <1>3, <1>4

LEMMA LoadNextKeepsLoad ==
  ASSUME LoadInv, NEW i \in pending, LoadNext(i)
  PROVE  LoadInv'
<1> USE DEF LoadInv, LoadNext
<1>1. TypeOK'
  BY DEF TypeOK
<1>2. i \in DOMAIN tree /\ IsPlugin(i) /\ tree \in Trees /\ tree' = tree
  BY DEF NoneForgotten, PluginsLoaded
<1>3. \A j \in pending' : j \in DOMAIN tree /\ IsPlugin(j) /\ Before(i, j)
  BY DEF NoneForgotten
<1>4. CASE Loads(i)
  <2>1. plugins' = Append(plugins, Plugin(i)) /\ Plugin(i).file = i
    BY <1>4 DEF Plugin
  <2>2. plugins \in Seq({Plugin(j) : j \in DOMAIN tree})
    BY DEF PluginsLoaded
  <2>3. /\ plugins' \in Seq({Plugin(j) : j \in DOMAIN tree})
        /\ Len(plugins) \in Nat
        /\ DOMAIN plugins = 1 .. Len(plugins)
        /\ DOMAIN plugins' = 1 .. (Len(plugins) + 1)
        /\ \A k \in DOMAIN plugins : plugins'[k] = plugins[k]
        /\ plugins'[Len(plugins) + 1] = Plugin(i)
    BY <2>1, <2>2, <1>2
  <2>4. Loaded(Plugin(i))
    BY <1>2, <1>4, <2>1 DEF Loaded, Good
  <2>5. \A k \in DOMAIN plugins' : Loaded(plugins'[k])
    BY <2>3, <2>4 DEF PluginsLoaded
  <2>6. \A k \in DOMAIN plugins : Before(plugins'[k].file, i)
    BY <2>3 DEF NoneForgotten
  <2>7. \A j, k \in DOMAIN plugins' : j < k => Before(plugins'[j].file, plugins'[k].file)
    BY <2>1, <2>3, <2>6 DEF PluginsLoaded
  <2>8. {Plugin(j) : j \in DOMAIN tree}' = {Plugin(j) : j \in DOMAIN tree}
    BY <1>2, SameFiles
  <2>9. PluginsLoaded'
    BY <1>2, <2>3, <2>5, <2>7, <2>8, SameFiles DEF PluginsLoaded
  <2>10. \A k \in DOMAIN plugins', j \in pending' : Before(plugins'[k].file, j)
    BY <1>3, <2>1, <2>3 DEF NoneForgotten
  <2>11. \A j \in DOMAIN tree :
            Good(j) => j \in pending' \/ \E k \in DOMAIN plugins' : plugins'[k].file = j
    BY <2>1, <2>3 DEF NoneForgotten
  <2>12. NoneForgotten'
    BY <1>2, <1>3, <2>10, <2>11, SameFiles DEF NoneForgotten
  <2>13. RunningLoaded'
    BY <1>2, SameFiles DEF RunningLoaded
  <2> QED BY <1>1, <2>9, <2>12, <2>13
<1>5. CASE ~Loads(i)
  <2>1. plugins' = plugins
    BY <1>5
  <2>2. ~Good(i)
    BY <1>5 DEF Good
  <2>3. PluginsLoaded'
    BY <1>2, <2>1, SameFiles DEF PluginsLoaded
  <2>4. NoneForgotten'
    BY <1>2, <1>3, <2>1, <2>2, SameFiles DEF NoneForgotten
  <2>5. RunningLoaded'
    BY <1>2, SameFiles DEF RunningLoaded
  <2> QED BY <1>1, <2>3, <2>4, <2>5
<1> QED BY <1>4, <1>5

LEMMA StartKeepsLoad ==
  ASSUME LoadInv, Start
  PROVE  LoadInv'
<1> USE DEF LoadInv, Start
<1>1. tree' = tree /\ plugins' = plugins /\ pending' = pending /\ pending = {}
  OBVIOUS
<1>2. PluginsLoaded'
  BY <1>1, SameFiles DEF PluginsLoaded
<1>3. NoneForgotten'
  BY <1>1, SameFiles DEF NoneForgotten
<1>4. CASE plugins = <<>>
  <2>1. running' = running /\ state' = state /\ degraded' = degraded /\ running = <<>>
        /\ phase' = "refused"
    BY <1>4 DEF RunningLoaded
  <2>2. TypeOK'
    BY <1>1, <2>1 DEF TypeOK
  <2>3. RunningLoaded'
    BY <1>1, <2>1 DEF RunningLoaded
  <2> QED BY <1>2, <1>3, <2>2, <2>3
<1>5. CASE plugins # <<>>
  <2>1. /\ phase' = "up"
        /\ running' = ByName
        /\ degraded' = Lacking(ByName)
        /\ state' = [n \in DOMAIN ByName |-> Initial(ByName[n].spec)]
    BY <1>5
  <2>2. \A n \in DOMAIN ByName : Loaded(ByName[n]) /\ ByName[n].name = n
    BY LastOfName DEF PluginsLoaded
  <2>3. Lacking(ByName) \subseteq DOMAIN ByName
    BY DEF Lacking
  <2>4. TypeOK'
    BY <1>1, <2>1, <2>2, <2>3 DEF TypeOK
  <2>5. RunningLoaded'
    BY <1>1, <2>1, <2>2, SameFiles DEF RunningLoaded
  <2> QED BY <1>2, <1>3, <2>4, <2>5
<1> QED BY <1>4, <1>5

\* An event is matched only along a transition that is a mapping, to a state
\* that is declared.
LEMMA Matched ==
  ASSUME NEW p, NEW t, NEW env, Outcome(p, t, env) = "matched"
  PROVE  IsDict(t) /\ ListAt(t, <<"target">>)[1] \in Keys(States(p))
  BY DEF Outcome

LEMMA HandleKeepsLoad ==
  ASSUME LoadInv, NEW n \in DOMAIN running, NEW e \in Events, NEW env \in Environments,
         Handle(n, e, env)
  PROVE  LoadInv'
<1> USE DEF LoadInv
<1> DEFINE p == running[n].spec
           t == TransitionAt(p, state[n], e)
           to == ListAt(t, <<"target">>)[1]
<1>1. /\ UNCHANGED <<tree, phase, pending, plugins, running, degraded>>
      /\ state' = IF Outcome(p, t, env) = "matched" THEN [state EXCEPT ![n] = to] ELSE state
  BY DEF Handle
<1>2. Outcome(p, t, env) = "matched" => to \in Keys(States(p))
  BY Matched
<1>3. TypeOK'
  <2> HIDE DEF p, t, to
  <2>1. CASE Outcome(p, t, env) = "matched"
    <3>1. state' = [state EXCEPT ![n] = to] /\ to \in Keys(States(p))
      BY <1>1, <1>2, <2>1
    <3>2. DOMAIN state' = DOMAIN running /\ state'[n] = to
          /\ \A m \in DOMAIN running \ {n} : state'[m] = state[m]
      BY <3>1 DEF TypeOK
    <3> QED BY <1>1, <3>1, <3>2 DEF TypeOK, p
  <2>2. CASE Outcome(p, t, env) # "matched"
    BY <1>1, <2>2 DEF TypeOK
  <2> QED BY <2>1, <2>2
<1>4. PluginsLoaded'
  BY <1>1, SameFiles DEF PluginsLoaded
<1>5. NoneForgotten'
  BY <1>1, SameFiles DEF NoneForgotten
<1>6. RunningLoaded'
  BY <1>1, SameFiles DEF RunningLoaded
<1> QED BY <1>3, <1>4, <1>5, <1>6

LEMMA NothingKeepsLoad ==
  ASSUME LoadInv, UNCHANGED vars
  PROVE  LoadInv'
<1> USE DEF LoadInv, vars
<1>1. TypeOK'
  BY DEF TypeOK
<1>2. PluginsLoaded'
  BY SameFiles DEF PluginsLoaded
<1>3. NoneForgotten'
  BY SameFiles DEF NoneForgotten
<1>4. RunningLoaded'
  BY SameFiles DEF RunningLoaded
<1> QED BY <1>1, <1>2, <1>3, <1>4

THEOREM LoadInvariant == Spec => []LoadInv
<1>1. Init => LoadInv
  BY LoadInit
<1>2. LoadInv /\ [Next]_vars => LoadInv'
  <2> SUFFICES ASSUME LoadInv, [Next]_vars PROVE LoadInv'
    OBVIOUS
  <2>1. CASE Discover
    BY <2>1, DiscoverKeepsLoad
  <2>2. ASSUME NEW i \in pending, LoadNext(i) PROVE LoadInv'
    BY <2>2, LoadNextKeepsLoad
  <2>3. CASE Start
    BY <2>3, StartKeepsLoad
  <2>4. ASSUME NEW n \in DOMAIN running, NEW e \in Events, NEW env \in Environments,
               Handle(n, e, env)
        PROVE  LoadInv'
    BY <2>4, HandleKeepsLoad
  <2>5. CASE UNCHANGED vars
    BY <2>5, NothingKeepsLoad
  <2> QED BY <2>1, <2>2, <2>3, <2>4, <2>5 DEF Next
<1> QED BY <1>1, <1>2, PTL DEF Spec

\* The shapes are kept: the engines are those of the plugins that run, each in a
\* state that its plugin declares or in the initial one.
THEOREM TypeCorrect == Spec => []TypeOK
<1>1. LoadInv => TypeOK
  BY DEF LoadInv
<1> QED BY <1>1, LoadInvariant, PTL

---------------------------------------------------------------------------
(* What the checks at load are worth at run time. *)

LEMMA OutcomeChecked ==
  ASSUME NEW p, GuardsParse(p), TargetsDeclared(p), NEW s, NEW e, NEW env
  PROVE  Outcome(p, TransitionAt(p, s, e), env) \notin {"unparsed", "undeclared"}
<1> DEFINE t == TransitionAt(p, s, e)
<1> HIDE DEF t
<1>1. CASE ~IsDict(t)
  BY <1>1 DEF Outcome, t
<1>2. CASE IsDict(t)
  <2>1. t \in ObjectTransitions(p)
    BY <1>2, TransitionFound, AbsentIsNoDict DEF ObjectTransitions, t
  <2>2. ListAt(t, <<"guard">>) =
           IF IsLeaf(Get(t, "guard")) THEN Get(t, "guard").leaf ELSE <<>>
    BY AtOne DEF ListAt
  <2>3. ListAt(t, <<"guard">>) # <<>> => Parses(ListAt(t, <<"guard">>))
    BY <2>1, <2>2 DEF GuardsParse, Guards
  <2>4. ListAt(t, <<"target">>)[1] \in Keys(States(p))
    BY <2>1 DEF TargetsDeclared
  <2> QED BY <2>3, <2>4 DEF Outcome, t
<1> QED BY <1>1, <1>2

\* What runs is what was checked.
LEMMA RunningChecked ==
  ASSUME LoadInv, NEW n \in DOMAIN running
  PROVE  GuardsParse(running[n].spec) /\ TargetsDeclared(running[n].spec)
<1> DEFINE i == running[n].file
<1>1. running[n].spec = Merged(i) /\ Loads(i)
  BY DEF LoadInv, RunningLoaded, Loaded, Good, Plugin
<1> QED BY <1>1 DEF Loads, FineButGuards

NoneUnchecked == last # NoEvent => last.result \notin {"unparsed", "undeclared"}

\* The checks at load hold at run time: the engine meets no guard it cannot parse
\* and no target that is not declared, and the state that on_exhaust names is there.
THEOREM ChecksAreKept == Spec => []ChecksHold
<1>1. Init => NoneUnchecked
  BY DEF Init, NoneUnchecked
<1>2. LoadInv /\ NoneUnchecked /\ [Next]_vars => NoneUnchecked'
  <2> SUFFICES ASSUME LoadInv, NoneUnchecked, [Next]_vars PROVE NoneUnchecked'
    OBVIOUS
  <2>1. CASE last' = last
    BY <2>1 DEF NoneUnchecked
  <2>2. ASSUME NEW n \in DOMAIN running, NEW e \in Events, NEW env \in Environments,
               Handle(n, e, env)
        PROVE  NoneUnchecked'
    <3> DEFINE p == running[n].spec
               result == Outcome(p, TransitionAt(p, state[n], e), env)
    <3>1. last'.result = result
      BY <2>2 DEF Handle
    <3>2. result \notin {"unparsed", "undeclared"}
      BY RunningChecked, OutcomeChecked
    <3> QED BY <3>1, <3>2 DEF NoneUnchecked
  <2> QED BY <2>1, <2>2 DEF Next, vars, Discover, LoadNext, Start
<1>3. LoadInv /\ NoneUnchecked => ChecksHold
  <2> SUFFICES ASSUME LoadInv, NoneUnchecked PROVE ChecksHold
    OBVIOUS
  <2>1. \A n \in DOMAIN running : TargetsDeclared(running[n].spec)
    BY RunningChecked
  <2> QED BY <2>1 DEF ChecksHold, NoneUnchecked, TargetsDeclared
<1> QED BY <1>1, <1>2, <1>3, LoadInvariant, PTL DEF Spec

---------------------------------------------------------------------------
(* A guard is read in one way. *)

LEMMA GuardIsTokens ==
  ASSUME NEW p, SchemaValid(p), NEW g \in Guards(p)
  PROVE  Len(g) \in Nat
<1>1. PICK t \in ObjectTransitions(p) : IsLeaf(Get(t, "guard")) /\ g = Get(t, "guard").leaf
  BY DEF Guards
<1>2. t \in Transitions(p) /\ IsDict(t)
  BY DEF ObjectTransitions
<1>3. ListAt(t, <<"guard">>) \in Seq(STRING)
  BY <1>2 DEF SchemaValid, IsLeaf
<1>4. ListAt(t, <<"guard">>) = g
  BY <1>1, AtOne DEF ListAt
<1> QED BY <1>3, <1>4

LEMMA GuardHasOneTree ==
  ASSUME NEW p, SchemaValid(p), GuardsParse(p), NEW g \in Guards(p)
  PROVE  Parses(g) /\ Readings(g) = {Parse(g).ast}
<1>1. Parses(g)
  BY DEF GuardsParse
<1> QED BY <1>1, GuardIsTokens, ParsedRight

LEMMA RefusedForItsGuards ==
  ASSUME NEW i, FineButGuards(i), ~Loads(i)
  PROVE  \E g \in Guards(Merged(i)) : Readings(g) = {} \/ 8 * Len(g) > MaxNesting
<1>1. SchemaValid(Merged(i)) /\ ~GuardsParse(Merged(i))
  BY DEF FineButGuards, Loads
<1>2. PICK g \in Guards(Merged(i)) : ~Parses(g)
  BY <1>1 DEF GuardsParse
<1>3. Len(g) \in Nat /\ MaxNesting \in Nat
  BY <1>1, GuardIsTokens, TokensAssumption
<1>4. ~(8 * Len(g) <= MaxNesting) \/ Readings(g) = {}
  BY <1>2, <1>3, ParsedIfTree
<1> QED BY <1>3, <1>4

LEMMA GuardOfTransition ==
  ASSUME NEW p, SchemaValid(p), GuardsParse(p), NEW s, NEW e,
         ListAt(TransitionAt(p, s, e), <<"guard">>) # <<>>
  PROVE  LET guard == ListAt(TransitionAt(p, s, e), <<"guard">>)
         IN /\ TransitionAt(p, s, e) \in ObjectTransitions(p)
            /\ IsDict(TransitionAt(p, s, e))
            /\ guard \in Guards(p) /\ Len(guard) \in Nat
            /\ Parses(guard) /\ Readings(guard) = {Parse(guard).ast}
<1> DEFINE t == TransitionAt(p, s, e)
           guard == ListAt(t, <<"guard">>)
<1>1. IsLeaf(Get(t, "guard")) /\ guard = Get(t, "guard").leaf
  BY AtOne DEF ListAt
<1>2. IsDict(t)
  BY <1>1, GetOfNoDict, AbsentIsNoDict
<1>3. t \in ObjectTransitions(p)
  BY <1>2, TransitionFound, AbsentIsNoDict DEF ObjectTransitions
<1>4. guard \in Guards(p)
  BY <1>1, <1>3 DEF Guards
<1>5. Len(guard) \in Nat /\ Parses(guard) /\ Readings(guard) = {Parse(guard).ast}
  BY <1>4, GuardIsTokens, GuardHasOneTree
<1> QED BY <1>2, <1>3, <1>4, <1>5

\* What the engine makes of a guard that was checked.
LEMMA OutcomeOfGuard ==
  ASSUME NEW p, SchemaValid(p), GuardsParse(p), TargetsDeclared(p), NEW s, NEW e, NEW env,
         ListAt(TransitionAt(p, s, e), <<"guard">>) # <<>>
  PROVE  LET guard == ListAt(TransitionAt(p, s, e), <<"guard">>)
             value == Decision(Parse(guard).ast, env)
         IN /\ Readings(guard) = {Parse(guard).ast}
            /\ Outcome(p, TransitionAt(p, s, e), env) =
                  CASE value = "error" -> "guard_eval_error"
                    [] value = "false" -> "guard_false"
                    [] OTHER -> "matched"
<1> DEFINE t == TransitionAt(p, s, e)
           guard == ListAt(t, <<"guard">>)
<1>1. /\ t \in ObjectTransitions(p) /\ IsDict(t)
      /\ Parses(guard) /\ Readings(guard) = {Parse(guard).ast}
  BY GuardOfTransition
<1>2. ListAt(t, <<"target">>)[1] \in Keys(States(p))
  BY <1>1 DEF TargetsDeclared
<1>3. guard # <<>>
  OBVIOUS
<1>4. Outcome(p, t, env) = CASE Decision(Parse(guard).ast, env) = "error" -> "guard_eval_error"
                             [] Decision(Parse(guard).ast, env) = "false" -> "guard_false"
                             [] OTHER -> "matched"
  <2> HIDE DEF t
  <2> QED BY <1>1, <1>2, <1>3 DEF Outcome
<1> QED BY <1>1, <1>4

\* The last event was decided by the only tree of its guard.
LastRead ==
  last # NoEvent /\ ListAt(last.transition, <<"guard">>) # <<>> =>
     \E ast \in Readings(ListAt(last.transition, <<"guard">>)) :
        /\ Readings(ListAt(last.transition, <<"guard">>)) = {ast}
        /\ last.result = CASE Decision(ast, last.env) = "error" -> "guard_eval_error"
                           [] Decision(ast, last.env) = "false" -> "guard_false"
                           [] OTHER -> "matched"

LEMMA HandleReads ==
  ASSUME LoadInv, NEW n \in DOMAIN running, NEW e, NEW env, Handle(n, e, env)
  PROVE  LastRead'
<1> DEFINE p == running[n].spec
           t == TransitionAt(p, state[n], e)
           guard == ListAt(t, <<"guard">>)
           ast == Parse(guard).ast
<1>1. last'.transition = t /\ last'.env = env /\ last'.result = Outcome(p, t, env)
  BY DEF Handle
<1>2. SchemaValid(p) /\ GuardsParse(p) /\ TargetsDeclared(p)
  <2>1. p = Merged(running[n].file) /\ Loads(running[n].file)
    BY DEF LoadInv, RunningLoaded, Loaded, Good, Plugin
  <2> QED BY <2>1 DEF Loads, FineButGuards
<1> SUFFICES ASSUME guard # <<>>
             PROVE  /\ Readings(guard) = {ast}
                    /\ Outcome(p, t, env) =
                          CASE Decision(ast, env) = "error" -> "guard_eval_error"
                            [] Decision(ast, env) = "false" -> "guard_false"
                            [] OTHER -> "matched"
  <2> HIDE DEF t, p
  <2>1. ListAt(last.transition, <<"guard">>)' = guard
    BY <1>1 DEF ListAt
  <2> QED BY <1>1, <2>1 DEF LastRead
<1> QED BY <1>2, OutcomeOfGuard

\* A guard is read in one way: a plugin's guards have one tree each, by which its
\* events are decided, and no file is refused for guards that have a tree and are
\* short enough.
THEOREM GuardsAreRead == Spec => []GuardsRead
<1>1. Init => LastRead
  BY DEF Init, LastRead
<1>2. LoadInv /\ LastRead /\ [Next]_vars => LastRead'
  <2> SUFFICES ASSUME LoadInv, LastRead, [Next]_vars PROVE LastRead'
    OBVIOUS
  <2>1. CASE last' = last
    BY <2>1 DEF LastRead
  <2>2. ASSUME NEW n \in DOMAIN running, NEW e \in Events, NEW env \in Environments,
               Handle(n, e, env)
        PROVE  LastRead'
    BY <2>2, HandleReads
  <2> QED BY <2>1, <2>2 DEF Next, vars, Discover, LoadNext, Start
<1>3. LoadInv /\ LastRead => GuardsRead
  <2> SUFFICES ASSUME LoadInv, LastRead PROVE GuardsRead
    OBVIOUS
  <2> DEFINE files == {plugins[k].file : k \in DOMAIN plugins}
  <2>1. ASSUME NEW i \in files, NEW g \in Guards(Merged(i))
        PROVE  \E ast \in Readings(g) : Readings(g) = {ast}
    <3>1. Loads(i)
      BY DEF LoadInv, PluginsLoaded, Loaded, Good
    <3>2. Readings(g) = {Parse(g).ast}
      BY <3>1, GuardHasOneTree DEF Loads, FineButGuards
    <3> QED BY <3>2
  <2>2. ASSUME phase \in {"up", "refused"}, NEW i \in DOMAIN tree \ files,
               IsPlugin(i), FineButGuards(i)
        PROVE  \E g \in Guards(Merged(i)) : Readings(g) = {} \/ 8 * Len(g) > MaxNesting
    <3>1. ~Good(i)
      BY <2>2 DEF LoadInv, NoneForgotten
    <3>2. ~Loads(i)
      BY <2>2, <3>1 DEF Good
    <3> QED BY <2>2, <3>2, RefusedForItsGuards
  <2> QED BY <2>1, <2>2 DEF GuardsRead, LastRead
<1> QED BY <1>1, <1>2, <1>3, LoadInvariant, PTL DEF Spec

---------------------------------------------------------------------------
(* A guard decides as the grammar says. *)

LEMMA HandleDecides ==
  ASSUME LoadInv, NEW n \in DOMAIN running, NEW e, NEW env, Handle(n, e, env)
  PROVE  GuardsDecide'
<1> DEFINE p == running[n].spec
           t == TransitionAt(p, state[n], e)
           guard == ListAt(t, <<"guard">>)
           ast == Parse(guard).ast
<1>1. last'.transition = t /\ last'.env = env /\ last'.result = Outcome(p, t, env)
  BY DEF Handle
<1>2. SchemaValid(p) /\ GuardsParse(p) /\ TargetsDeclared(p)
  <2>1. p = Merged(running[n].file) /\ Loads(running[n].file)
    BY DEF LoadInv, RunningLoaded, Loaded, Good, Plugin
  <2> QED BY <2>1 DEF Loads, FineButGuards
<1> SUFFICES ASSUME guard # <<>>
             PROVE  \E v \in Meanings(guard, env) :
                       /\ Meanings(guard, env) = {v}
                       /\ \/ Outcome(p, t, env) = CASE Verdict(v) = "error" -> "guard_eval_error"
                                                      [] Verdict(v) = "false" -> "guard_false"
                                                      [] OTHER -> "matched"
                          \/ /\ Len(guard) > MaxNesting
                             /\ Outcome(p, t, env) = "guard_eval_error"
  <2> HIDE DEF t, p
  <2>1. ListAt(last.transition, <<"guard">>)' = guard
    BY <1>1 DEF ListAt
  <2>2. Meanings(ListAt(last.transition, <<"guard">>), last.env)' = Meanings(guard, env)
    BY <1>1, <2>1
  <2> HIDE DEF guard
  <2> QED BY <1>1, <2>1, <2>2 DEF GuardsDecide
<1>3. Parses(guard) /\ Len(guard) \in Nat /\ MaxNesting \in Nat
  BY <1>2, GuardOfTransition, TokensAssumption
<1>4. PICK v : /\ Meanings(guard, env) = {v}
               /\ Evaluate(ast, env) \in {v, Error}
               /\ Len(guard) <= MaxNesting => Evaluate(ast, env) = v
  BY <1>3, EvaluatedRight
<1>5. Outcome(p, t, env) = CASE Decision(ast, env) = "error" -> "guard_eval_error"
                             [] Decision(ast, env) = "false" -> "guard_false"
                             [] OTHER -> "matched"
  BY <1>2, OutcomeOfGuard
<1> HIDE DEF guard, ast, t, p
<1>6. CASE Evaluate(ast, env) = v
  BY <1>4, <1>5, <1>6 DEF Decision
<1>7. CASE Evaluate(ast, env) # v
  <2>1. Len(guard) > MaxNesting /\ Evaluate(ast, env) = Error
    BY <1>3, <1>4, <1>7
  <2>2. Decision(ast, env) = "error"
    BY <2>1, ErrorIs DEF Decision, Verdict
  <2> QED BY <1>4, <1>5, <2>1, <2>2
<1> QED BY <1>6, <1>7

\* What the engine makes of an event is what the grammar makes of the guard:
\* neither how the parser groups the operands nor how evaluate() goes through the
\* tree shows, except that a guard longer than calls may nest can be an error.
THEOREM GuardsAlwaysDecide == Spec => []GuardsDecide
<1>1. Init => GuardsDecide
  BY DEF Init, GuardsDecide
<1>2. LoadInv /\ GuardsDecide /\ [Next]_vars => GuardsDecide'
  <2> SUFFICES ASSUME LoadInv, GuardsDecide, [Next]_vars PROVE GuardsDecide'
    OBVIOUS
  <2>1. CASE last' = last
    BY <2>1 DEF GuardsDecide
  <2>2. ASSUME NEW n \in DOMAIN running, NEW e \in Events, NEW env \in Environments,
               Handle(n, e, env)
        PROVE  GuardsDecide'
    BY <2>2, HandleDecides
  <2> QED BY <2>1, <2>2 DEF Next, vars, Discover, LoadNext, Start
<1> QED BY <1>1, <1>2, LoadInvariant, PTL DEF Spec

---------------------------------------------------------------------------
(* A plugin fails alone. *)

GoodFiles == {i \in DOMAIN tree : IsPlugin(i) /\ Loads(i)}
Named(n) == {i \in GoodFiles : Plugin(i).name = n}
Runs == {i \in GoodFiles : \A j \in Named(Plugin(i).name) \ {i} : Before(j, i)}

\* What plugin q requires and the good files do not give.
Wants(q) ==
  \/ \E m \in Required(q, "plugins") : Named(m) = {}
  \/ \E a \in Required(q, "peers") : \A i \in Runs : a \notin Aliases(Plugin(i))
  \/ \E c \in Required(q, "capabilities") : c \notin KnownCapabilities

\* FailsAlone of the host as it starts, with its three parts.
LEMMA StartsWithTheGood ==
  ASSUME LoadInv, phase = "loading", pending = {}
  PROVE  /\ plugins = <<>> <=> GoodFiles = {}
         /\ DOMAIN ByName = {Plugin(i).name : i \in GoodFiles}
         /\ \A n \in DOMAIN ByName :
               /\ ByName[n].file \in Named(n) \cap Runs
               /\ n \in Lacking(ByName) <=> Wants(ByName[n])
<1>1. /\ plugins \in Seq({Plugin(i) : i \in DOMAIN tree})
      /\ \A k \in DOMAIN plugins : Loaded(plugins[k])
      /\ \A j, k \in DOMAIN plugins : j < k => Before(plugins[j].file, plugins[k].file)
  BY DEF LoadInv, PluginsLoaded
<1>2. \A k \in DOMAIN plugins :
         /\ plugins[k].file \in GoodFiles
         /\ plugins[k] = Plugin(plugins[k].file)
  BY <1>1 DEF Loaded, Good, GoodFiles
<1>3. \A i \in GoodFiles : \E k \in DOMAIN plugins : plugins[k].file = i
  BY DEF LoadInv, NoneForgotten, Good, GoodFiles
<1>4. plugins = <<>> <=> GoodFiles = {}
  <2>1. plugins = <<>> <=> DOMAIN plugins = {}
    BY <1>1
  <2> QED BY <2>1, <1>2, <1>3
<1>5. DOMAIN ByName = {Plugin(i).name : i \in GoodFiles}
  <2>1. DOMAIN ByName = {plugins[k].name : k \in DOMAIN plugins}
    BY <1>1, LastOfName
  <2>2. \A k \in DOMAIN plugins : \E i \in GoodFiles : plugins[k].name = Plugin(i).name
    BY <1>2
  <2>3. \A i \in GoodFiles : \E k \in DOMAIN plugins : plugins[k].name = Plugin(i).name
    BY <1>2, <1>3
  <2> QED BY <2>1, <2>2, <2>3
<1>6. ASSUME NEW n \in DOMAIN ByName
      PROVE  /\ ByName[n].file \in Named(n) \cap Runs
             /\ ByName[n] = Plugin(ByName[n].file)
  <2>1. PICK k \in DOMAIN plugins :
           /\ ByName[n] = plugins[k] /\ plugins[k].name = n
           /\ \A m \in DOMAIN plugins : plugins[m].name = n => m <= k
    BY <1>1, LastOfName
  <2>2. ByName[n].file \in Named(n) /\ ByName[n] = Plugin(ByName[n].file)
    BY <2>1, <1>2 DEF Named
  <2>3. ASSUME NEW j \in Named(n) \ {ByName[n].file}
        PROVE  Before(j, ByName[n].file)
    <3>1. PICK m \in DOMAIN plugins : plugins[m].file = j
      BY <1>3 DEF Named
    <3>2. plugins[m].name = n /\ m # k
      BY <3>1, <2>1, <1>2 DEF Named
    <3>3. m < k
      BY <3>2, <2>1, <1>1
    <3> QED BY <3>1, <3>3, <2>1, <1>1
  <2>4. Plugin(ByName[n].file).name = n /\ ByName[n].file \in GoodFiles
    BY <2>2 DEF Named
  <2>5. ByName[n].file \in Runs
    BY <2>3, <2>4 DEF Runs
  <2> QED BY <2>2, <2>5
\* The files that run are those of ByName.
<1>7. ASSUME NEW i \in Runs
      PROVE  \E n \in DOMAIN ByName : ByName[n] = Plugin(i)
  <2> DEFINE n == Plugin(i).name
  <2>1. i \in GoodFiles /\ n \in DOMAIN ByName
    BY <1>5 DEF Runs
  <2>2. ByName[n].file \in Named(n) /\ ByName[n] = Plugin(ByName[n].file)
    BY <2>1, <1>6
  <2>3. \A j \in Named(n) : j \in DOMAIN tree
    BY DEF Named, GoodFiles
  <2>4. i \in Named(n)
    BY <2>1 DEF Named
  <2>5. ByName[n].file = i
    <3> SUFFICES ASSUME ByName[n].file # i PROVE FALSE
      OBVIOUS
    <3>1. Before(ByName[n].file, i)
      BY <2>2 DEF Runs
    <3>2. ByName[n].file \in Runs /\ Plugin(ByName[n].file).name = n
      BY <2>1, <2>2, <1>6 DEF Named
    <3>3. Before(i, ByName[n].file)
      BY <3>2, <2>4 DEF Runs
    <3>4. tree \in Trees
      BY DEF LoadInv, PluginsLoaded
    <3> QED BY <3>1, <3>3, <3>4, <2>2, <2>3, <2>4, FilesOrdered
  <2> QED BY <2>1, <2>2, <2>5
<1>8. ASSUME NEW n \in DOMAIN ByName
      PROVE  n \in Lacking(ByName) <=> Wants(ByName[n])
  <2>1. \A m : m \in DOMAIN ByName <=> Named(m) # {}
    BY <1>5 DEF Named
  <2>2. \A a : (\A m \in DOMAIN ByName : a \notin Aliases(ByName[m]))
                <=> \A i \in Runs : a \notin Aliases(Plugin(i))
    <3>1. ASSUME NEW m \in DOMAIN ByName
          PROVE  \E i \in Runs : ByName[m] = Plugin(i)
      BY <1>6
    <3> QED BY <3>1, <1>7, Zenon
  <2> QED BY <2>1, <2>2 DEF Lacking, Wants
<1> QED BY <1>4, <1>5, <1>6, <1>8

\* Once the host has loaded a directory it runs, for every name, the last of the
\* files that are good by themselves, and no other; it refuses to start only if
\* there is none, and a plugin is degraded exactly if it requires a name that no
\* good file has, an alias that none of the files that run has, or a capability
\* the host does not know.
THEOREM EachFailsAlone == Spec => []FailsAlone
<1> DEFINE Alone == /\ phase = "refused" <=> GoodFiles = {}
                    /\ DOMAIN running = {Plugin(i).name : i \in GoodFiles}
                    /\ \A n \in DOMAIN running :
                          /\ running[n].file \in Named(n) \cap Runs
                          /\ n \in degraded <=> Wants(running[n])
<1>1. FailsAlone <=> (phase \in {"up", "refused"} => Alone)
  BY DEF FailsAlone, GoodFiles, Named, Runs, Wants
<1>2. ASSUME tree' = tree
      PROVE  /\ GoodFiles' = GoodFiles
             /\ \A n : Named(n)' = Named(n)
             /\ Runs' = Runs
             /\ \A q : Wants(q)' <=> Wants(q)
  <2>1. GoodFiles' = GoodFiles
    BY <1>2, SameFiles DEF GoodFiles
  <2>2. \A n : Named(n)' = Named(n)
    BY <2>1, <1>2, SameFiles DEF Named
  <2>3. Runs' = Runs
    BY <2>1, <2>2, <1>2, SameFiles DEF Runs
  <2>4. \A q : Wants(q)' <=> Wants(q)
    BY <2>2, <2>3, <1>2, SameFiles DEF Wants
  <2> QED BY <2>1, <2>2, <2>3, <2>4
<1>3. Init => FailsAlone
  BY DEF Init, FailsAlone
<1>4. LoadInv /\ FailsAlone /\ [Next]_vars => FailsAlone'
  <2> SUFFICES ASSUME LoadInv, FailsAlone, [Next]_vars PROVE FailsAlone'
    OBVIOUS
  <2>1. CASE phase' \notin {"up", "refused"}
    BY <2>1 DEF FailsAlone
  <2>2. CASE UNCHANGED <<tree, phase, running, degraded>>
    <3>1. phase \in {"up", "refused"} => Alone
      BY <1>1
    <3>2. phase \in {"up", "refused"} => Alone'
      BY <2>2, <3>1, <1>2, SameFiles
    <3> QED BY <2>2, <3>2 DEF FailsAlone, GoodFiles, Named, Runs, Wants
  <2>3. CASE Start
    <3>1. tree' = tree /\ phase = "loading" /\ pending = {}
      BY <2>3 DEF Start
    <3>2. /\ GoodFiles' = GoodFiles /\ Runs' = Runs
          /\ \A n : Named(n)' = Named(n)
          /\ \A q : Wants(q)' <=> Wants(q)
      BY <3>1, <1>2
    <3>3. Alone'
      <4>1. CASE plugins = <<>>
        <5>1. phase' = "refused" /\ GoodFiles = {} /\ running' = <<>>
          BY <4>1, <2>3, <3>1, StartsWithTheGood DEF Start, LoadInv, RunningLoaded
        <5> QED BY <5>1, <3>2
      <4>2. CASE plugins # <<>>
        <5>1. phase' = "up" /\ running' = ByName /\ degraded' = Lacking(ByName)
          BY <4>2, <2>3 DEF Start
        <5>2. GoodFiles # {}
          BY <4>2, <3>1, StartsWithTheGood
        <5>3. {Plugin(i).name : i \in GoodFiles}' = {Plugin(i).name : i \in GoodFiles}
          BY <3>1, <3>2, SameFiles
        <5> QED BY <5>1, <5>2, <5>3, <3>1, <3>2, SameFiles, StartsWithTheGood
      <4> QED BY <4>1, <4>2
    <3> QED BY <3>3 DEF FailsAlone, GoodFiles, Named, Runs, Wants
  <2>4. Discover \/ (\E i \in pending : LoadNext(i)) => phase' \notin {"up", "refused"}
    BY DEF Discover, LoadNext
  <2>5. ASSUME NEW n \in DOMAIN running, NEW e \in Events, NEW env \in Environments,
               Handle(n, e, env)
        PROVE  UNCHANGED <<tree, phase, running, degraded>>
    BY <2>5 DEF Handle
  <2> QED BY <2>1, <2>2, <2>3, <2>4, <2>5 DEF Next, vars
<1> QED BY <1>3, <1>4, LoadInvariant, PTL DEF Spec

---------------------------------------------------------------------------
(* The merge. *)

Places == {p \in Seq(STRING) : Len(p) <= MaxDepth}

\* What is at p in the merge, if g is what is merged at the places below.
MergedAt(g, base, overlay, p) ==
  LET b == At(base, p)
      o == At(overlay, p)
  IN IF IsDict(b) /\ IsDict(o) /\ Len(p) < MaxDepth
     THEN Dict([k \in Keys(b) \cup Keys(o) |->
                  IF k \in Keys(o) THEN g[Append(p, k)] ELSE b.dict[k]])
     ELSE o

\* g is the merge, place by place.
IsMerge(g, base, overlay) == \A p \in Places : g[p] = MergedAt(g, base, overlay, p)

\* g is the merge at the places that are n above the deepest at most.
Merges(g, base, overlay, n) ==
  g = [p \in {p \in Places : Len(p) >= MaxDepth - n} |-> MergedAt(g, base, overlay, p)]

\* Only the places below count.
LEMMA MergedAtBelow ==
  ASSUME NEW base, NEW overlay, NEW p \in Places, NEW f, NEW g,
         \A k \in STRING : Len(p) < MaxDepth => f[Append(p, k)] = g[Append(p, k)]
  PROVE  MergedAt(f, base, overlay, p) = MergedAt(g, base, overlay, p)
<1> DEFINE b == At(base, p)
           o == At(overlay, p)
<1>1. CASE IsDict(b) /\ IsDict(o) /\ Len(p) < MaxDepth
  <2>1. \A k \in Keys(o) : f[Append(p, k)] = g[Append(p, k)]
    BY <1>1, GetValue
  <2>2. [k \in Keys(b) \cup Keys(o) |-> IF k \in Keys(o) THEN f[Append(p, k)] ELSE b.dict[k]]
        = [k \in Keys(b) \cup Keys(o) |-> IF k \in Keys(o) THEN g[Append(p, k)] ELSE b.dict[k]]
    BY <2>1
  <2> QED BY <1>1, <2>2 DEF MergedAt
<1>2. CASE ~(IsDict(b) /\ IsDict(o) /\ Len(p) < MaxDepth)
  BY <1>2 DEF MergedAt
<1> QED BY <1>1, <1>2

LEMMA PlaceBelow ==
  ASSUME NEW p \in Places, Len(p) < MaxDepth, NEW k \in STRING
  PROVE  Append(p, k) \in Places /\ Len(Append(p, k)) = Len(p) + 1
<1>1. ASSUME NEW S, NEW q \in Seq(S), NEW x \in S
      PROVE  Append(q, x) \in Seq(S) /\ Len(Append(q, x)) = Len(q) + 1 /\ Len(q) \in Nat
  OBVIOUS
<1>2. Append(p, k) \in Seq(STRING) /\ Len(Append(p, k)) = Len(p) + 1 /\ Len(p) \in Nat
  BY <1>1 DEF Places
<1>3. Len(Append(p, k)) <= MaxDepth
  BY <1>2, PathsAssumption
<1> QED BY <1>2, <1>3 DEF Places

LEMMA MergeExists ==
  ASSUME NEW base, NEW overlay, NEW n \in Nat
  PROVE  \E g : Merges(g, base, overlay, n)
<1> DEFINE T == {m \in Nat : ~\E g : Merges(g, base, overlay, m)}
           Above(m) == {p \in Places : Len(p) >= MaxDepth - m}
<1> SUFFICES ASSUME T # {} PROVE FALSE
  OBVIOUS
<1>1. PICK m \in T : \A k \in T : m <= k
  <2> HIDE DEF T
  <2>1. T \in SUBSET Nat BY DEF T
  <2> QED BY <2>1, LeastNat
<1>2. MaxDepth \in Nat /\ \A p \in Places : Len(p) \in Nat /\ Len(p) <= MaxDepth
  BY PathsAssumption DEF Places
<1>3. \E f : \A p \in Above(m) : \A k \in STRING :
                Len(p) < MaxDepth => f[Append(p, k)] = MergedAt(f, base, overlay, Append(p, k))
                                     /\ Append(p, k) \in Above(m)
  <2>1. CASE m = 0
    <3>1. \A p \in Above(m) : ~(Len(p) < MaxDepth)
      BY <2>1, <1>2
    <3> QED BY <3>1
  <2>2. CASE m # 0
    <3>1. m - 1 \in Nat /\ m - 1 \notin T
      BY <1>1, <2>2
    <3>2. PICK f : Merges(f, base, overlay, m - 1)
      BY <3>1
    <3>3. \A p \in Above(m), k \in STRING :
             Len(p) < MaxDepth => Append(p, k) \in Above(m - 1) /\ Append(p, k) \in Above(m)
      <4>1. ASSUME NEW p \in Above(m), NEW k \in STRING, Len(p) < MaxDepth
            PROVE  Append(p, k) \in Above(m - 1) /\ Append(p, k) \in Above(m)
        <5>1. Append(p, k) \in Places /\ Len(Append(p, k)) = Len(p) + 1
          BY <4>1, PlaceBelow
        <5>2. Len(p) \in Nat /\ Len(p) >= MaxDepth - m
          BY <1>2
        <5>3. Len(p) + 1 >= MaxDepth - (m - 1) /\ Len(p) + 1 >= MaxDepth - m
          BY <5>2, <1>2
        <5>4. ASSUME NEW q \in Places, Len(q) = Len(p) + 1
              PROVE  q \in Above(m - 1) /\ q \in Above(m)
          BY <5>3, <5>4
        <5> HIDE DEF Above
        <5> QED BY <5>1, <5>4
      <4> QED BY <4>1
    <3>4. \A q \in Above(m - 1) : f[q] = MergedAt(f, base, overlay, q)
      BY <3>2 DEF Merges
    <3> QED BY <3>3, <3>4
  <2> QED BY <2>1, <2>2
<1>4. PICK f : \A p \in Above(m) : \A k \in STRING :
                Len(p) < MaxDepth => f[Append(p, k)] = MergedAt(f, base, overlay, Append(p, k))
                                     /\ Append(p, k) \in Above(m)
  BY <1>3
<1> DEFINE g == [p \in Above(m) |-> MergedAt(f, base, overlay, p)]
<1>5. ASSUME NEW p \in Above(m)
      PROVE  MergedAt(f, base, overlay, p) = MergedAt(g, base, overlay, p)
  <2>1. \A k \in STRING : Len(p) < MaxDepth => f[Append(p, k)] = g[Append(p, k)]
    BY <1>4
  <2> HIDE DEF g
  <2> QED BY <2>1, MergedAtBelow
<1>6. Merges(g, base, overlay, m)
  BY <1>5 DEF Merges
<1> QED BY <1>6, <1>1

\* The merge is what its definition says, place by place.
LEMMA MergeUnfolds ==
  ASSUME NEW base, NEW overlay
  PROVE  \E g : DeepMerge(base, overlay) = g[<<>>] /\ IsMerge(g, base, overlay)
<1> DEFINE IsTable(g) == g = [p \in Places |-> MergedAt(g, base, overlay, p)]
           merged == CHOOSE g : IsTable(g)
<1>1. DeepMerge(base, overlay) = merged[<<>>]
  BY Zenon DEF DeepMerge, MergedAt, Places
<1>2. {p \in Places : Len(p) >= MaxDepth - MaxDepth} = Places
  BY PathsAssumption DEF Places
<1>3. \E g : IsTable(g)
  <2>1. PICK g : Merges(g, base, overlay, MaxDepth)
    BY MergeExists, PathsAssumption
  <2> QED BY <1>2, <2>1 DEF Merges
<1>4. IsTable(merged)
  <2> HIDE DEF IsTable
  <2> QED BY <1>3
<1> HIDE DEF merged
<1>5. IsMerge(merged, base, overlay)
  BY <1>4 DEF IsMerge
<1> QED BY <1>1, <1>5

LEMMA GetOfDict ==
  ASSUME NEW f, NEW k \in STRING
  PROVE  /\ IsDict(Dict(f))
         /\ Get(Dict(f), k) = IF k \in DOMAIN f THEN f[k] ELSE Absent
  BY DEF Get, Keys, IsDict, Dict

\* One key further down the merge.
LEMMA MergeNext ==
  ASSUME NEW base, NEW overlay, NEW g, IsMerge(g, base, overlay),
         NEW p \in Places, Len(p) < MaxDepth, NEW k \in STRING,
         At(base, Append(p, k)) = Get(At(base, p), k),
         At(overlay, Append(p, k)) = Get(At(overlay, p), k)
  PROVE  /\ IsLeaf(At(overlay, p)) => Get(g[p], k) = Absent
         /\ IsDict(At(overlay, p)) =>
               Get(g[p], k) = IF Get(At(overlay, p), k) = Absent THEN Get(At(base, p), k)
                              ELSE g[Append(p, k)]
<1> DEFINE b == At(base, p)
           o == At(overlay, p)
           f == [x \in Keys(b) \cup Keys(o) |->
                    IF x \in Keys(o) THEN g[Append(p, x)] ELSE b.dict[x]]
           next == Append(p, k)
<1>1. g[p] = IF IsDict(b) /\ IsDict(o) THEN Dict(f) ELSE o
  BY DEF IsMerge, MergedAt
<1>2. next \in Places
  BY PlaceBelow
<1>3. g[next] = MergedAt(g, base, overlay, next)
  BY <1>2 DEF IsMerge
<1>4. ~IsDict(b) => g[next] = Get(o, k)
  <2>1. ~IsDict(b) => At(base, next) = Absent
    BY GetOfNoDict
  <2> QED BY <2>1, <1>3, AbsentIsNoDict DEF MergedAt
<1>5. CASE IsLeaf(o)
  <2>1. g[p] = o /\ ~IsDict(o)
    BY <1>1, <1>5 DEF IsLeaf
  <2> QED BY <2>1, GetOfNoDict
<1>6. CASE IsDict(o) /\ ~IsDict(b)
  <2>1. g[p] = o
    BY <1>1, <1>6
  <2>2. Get(b, k) = Absent
    BY <1>6, GetOfNoDict
  <2> QED BY <2>1, <2>2, <1>4, <1>6 DEF IsLeaf
<1>7. CASE IsDict(o) /\ IsDict(b)
  <2> HIDE DEF f, b, o, next
  <2>1. Get(g[p], k) = IF k \in DOMAIN f THEN f[k] ELSE Absent
    BY <1>1, <1>7, GetOfDict
  <2>2. /\ DOMAIN f = Keys(b) \cup Keys(o)
        /\ k \in DOMAIN f => f[k] = IF k \in Keys(o) THEN g[next] ELSE b.dict[k]
    BY DEF f, next
  <2>3. /\ Get(o, k) # Absent <=> k \in Keys(o)
        /\ Get(b, k) # Absent <=> k \in Keys(b)
        /\ k \in Keys(b) => Get(b, k) = b.dict[k]
    BY GetValue
  <2>4. Get(g[p], k) = IF Get(o, k) = Absent THEN Get(b, k) ELSE g[next]
    BY <2>1, <2>2, <2>3
  <2> QED BY <2>4, <1>7 DEF IsLeaf, o, b, next
<1>8. CASE ~IsDict(o) /\ ~IsLeaf(o)
  BY <1>8
<1> QED BY <1>5, <1>6, <1>7, <1>8

\* Along a path: where the overlay has something, the merge of it and what the
\* base has there is found; below a leaf of the overlay nothing; elsewhere what
\* the base has.
LEMMA MergeAlong ==
  ASSUME NEW base, NEW overlay, IsDict(overlay),
         NEW g, DeepMerge(base, overlay) = g[<<>>], IsMerge(g, base, overlay),
         NEW path \in Seq(STRING), Len(path) <= MaxDepth, NEW n \in 0 .. Len(path)
  PROVE  LET start(j) == SubSeq(path, 1, j)
             mine == At(DeepMerge(base, overlay), start(n))
         IN /\ At(overlay, start(n)) # Absent =>
                  /\ mine = g[start(n)]
                  /\ \A j \in 0 .. n - 1 : IsDict(At(overlay, start(j)))
            /\ At(overlay, start(n)) = Absent =>
                  mine = IF \E j \in 0 .. n : IsLeaf(At(overlay, start(j))) THEN Absent
                         ELSE At(base, start(n))
<1> DEFINE start(j) == SubSeq(path, 1, j)
           b(j) == At(base, start(j))
           o(j) == At(overlay, start(j))
           mine(j) == At(DeepMerge(base, overlay), start(j))
           Along(j) == /\ o(j) # Absent => /\ mine(j) = g[start(j)]
                                           /\ \A i \in 0 .. j - 1 : IsDict(o(i))
                       /\ o(j) = Absent =>
                             mine(j) = IF \E i \in 0 .. j : IsLeaf(o(i)) THEN Absent ELSE b(j)
           T == {j \in 0 .. Len(path) : ~Along(j)}
<1>1. Len(path) \in Nat /\ MaxDepth \in Nat
  BY PathsAssumption
<1>2. Along(0)
  <2>1. start(0) = <<>>
    OBVIOUS
  <2>2. o(0) = overlay /\ overlay # Absent /\ mine(0) = g[start(0)]
    BY <2>1, AtEmpty, AbsentIsNoDict
  <2> HIDE DEF o, mine, start, b
  <2> QED BY <2>2
<1>3. ASSUME NEW j \in 1 .. Len(path), Along(j - 1)
      PROVE  Along(j)
  <2> DEFINE k == path[j]
             i == j - 1
  <2>1. i \in Nat /\ i < j /\ i < MaxDepth /\ k \in STRING
    BY <1>1
  <2>2. /\ start(i) \in Seq(STRING) /\ Len(start(i)) = i
        /\ start(j) = Append(start(i), k)
    OBVIOUS
  <2>3. /\ b(j) = Get(b(i), k)
        /\ o(j) = Get(o(i), k)
        /\ mine(j) = Get(mine(i), k)
    BY AtNext
  <2>4. \A x \in 0 .. j : x \in 0 .. i \/ x = j
    OBVIOUS
  <2>5. i \in 0 .. i /\ i \in 0 .. j /\ \A x \in 0 .. j - 1 : x = i \/ x \in 0 .. i - 1
    OBVIOUS
  <2> HIDE DEF start, mine, k, i
  <2>6. start(i) \in Places /\ Len(start(i)) < MaxDepth
    BY <2>1, <2>2, <1>1 DEF Places
  <2>7. /\ At(base, Append(start(i), k)) = Get(At(base, start(i)), k)
        /\ At(overlay, Append(start(i), k)) = Get(At(overlay, start(i)), k)
    BY <2>2, <2>3
  <2>8. /\ IsLeaf(o(i)) => Get(g[start(i)], k) = Absent
        /\ IsDict(o(i)) => Get(g[start(i)], k) =
                              IF o(j) = Absent THEN b(j) ELSE g[start(j)]
    <3>1. /\ IsLeaf(At(overlay, start(i))) => Get(g[start(i)], k) = Absent
          /\ IsDict(At(overlay, start(i))) =>
                Get(g[start(i)], k) = IF Get(At(overlay, start(i)), k) = Absent
                                      THEN Get(At(base, start(i)), k)
                                      ELSE g[Append(start(i), k)]
      <4> DEFINE q == start(i)
      <4>1. /\ q \in Places /\ Len(q) < MaxDepth /\ k \in STRING
            /\ At(base, Append(q, k)) = Get(At(base, q), k)
            /\ At(overlay, Append(q, k)) = Get(At(overlay, q), k)
        BY <2>1, <2>6, <2>7
      <4> HIDE DEF q
      <4>2. /\ IsLeaf(At(overlay, q)) => Get(g[q], k) = Absent
            /\ IsDict(At(overlay, q)) =>
                  Get(g[q], k) = IF Get(At(overlay, q), k) = Absent
                                 THEN Get(At(base, q), k) ELSE g[Append(q, k)]
        BY <4>1, MergeNext
      <4> QED BY <4>2 DEF q
    <3> QED BY <3>1, <2>2, <2>3
  <2>9. ~IsDict(o(i)) => o(j) = Absent
    BY <2>3, GetOfNoDict
  <2>10. /\ o(i) # Absent => /\ mine(i) = g[start(i)]
                             /\ \A x \in 0 .. i - 1 : IsDict(o(x))
         /\ o(i) = Absent =>
               mine(i) = IF \E x \in 0 .. i : IsLeaf(o(x)) THEN Absent ELSE b(i)
    BY <1>3 DEF i
  <2>11. (o(j) # Absent => /\ mine(j) = g[start(j)]
                           /\ \A x \in 0 .. j - 1 : IsDict(o(x)))
         /\ (o(j) = Absent =>
               mine(j) = IF \E x \in 0 .. j : IsLeaf(o(x)) THEN Absent ELSE b(j))
    <3> HIDE DEF o, b
    <3>1. CASE o(i) = Absent
      <4>1. o(j) = Absent /\ ~IsLeaf(o(j))
        BY <3>1, <2>9, AbsentIsNoDict
      <4>2. (\E x \in 0 .. j : IsLeaf(o(x))) <=> \E x \in 0 .. i : IsLeaf(o(x))
        <5>1. \A x \in 0 .. i : x \in 0 .. j
          BY <2>1 DEF i
        <5> QED BY <5>1, <4>1, <2>4
      <4>3. Get(Absent, k) = Absent
        BY GetOfNoDict, AbsentIsNoDict
      <4> QED BY <3>1, <4>1, <4>2, <4>3, <2>3, <2>10
    <3>2. CASE IsLeaf(o(i))
      <4>1. o(i) # Absent /\ ~IsDict(o(i))
        BY <3>2 DEF IsLeaf
      <4>2. o(j) = Absent /\ mine(j) = Absent
        BY <3>2, <4>1, <2>3, <2>8, <2>9, <2>10
      <4> QED BY <3>2, <4>2, <2>5
    <3>3. CASE IsDict(o(i))
      <4>1. o(i) # Absent
        BY <3>3, AbsentIsNoDict
      <4>2. mine(j) = IF o(j) = Absent THEN b(j) ELSE g[start(j)]
        BY <3>3, <4>1, <2>3, <2>8, <2>10
      <4>3. \A x \in 0 .. j - 1 : IsDict(o(x))
        BY <3>3, <4>1, <2>5, <2>10
      <4>4. \A x \in 0 .. j : x \in 0 .. j - 1 \/ x = j
        OBVIOUS
      <4>5. o(j) = Absent => ~\E x \in 0 .. j : IsLeaf(o(x))
        BY <4>3, <4>4, AbsentIsNoDict DEF IsLeaf
      <4> QED BY <4>2, <4>3, <4>5
    <3> QED BY <3>1, <3>2, <3>3 DEF IsLeaf
  <2> QED BY <2>11
<1> HIDE DEF Along
<1>4. ASSUME T # {} PROVE FALSE
  <2>1. PICK j \in T : \A x \in T : j <= x
    <3> HIDE DEF T
    <3>1. T \in SUBSET Nat BY <1>1 DEF T
    <3> QED BY <3>1, <1>4, LeastNat
  <2>2. j # 0
    BY <1>2
  <2>3. j \in 1 .. Len(path) /\ j - 1 \in 0 .. Len(path) /\ j - 1 \notin T
    BY <2>1, <2>2, <1>1
  <2>4. Along(j - 1)
    BY <2>3
  <2> QED BY <2>1, <2>3, <2>4, <1>3
<1>5. Along(n)
  BY <1>4
<1> QED BY <1>5 DEF Along

\* What OverlayWins says of the base, the overlay and the merge of both.
LEMMA MergeWins ==
  ASSUME NEW base, NEW overlay, IsDict(overlay), NEW path \in Paths
  PROVE  LET mine == At(DeepMerge(base, overlay), path)
             cut == \E k \in 1 .. Len(path) - 1 : IsLeaf(At(overlay, SubSeq(path, 1, k)))
         IN CASE IsLeaf(At(overlay, path)) -> mine = At(overlay, path)
              [] cut -> mine = Absent
              [] IsDict(At(overlay, path)) -> IsDict(mine)
              [] OTHER -> mine = At(base, path)
<1> DEFINE mine == At(DeepMerge(base, overlay), path)
           o(j) == At(overlay, SubSeq(path, 1, j))
           n == Len(path)
           cut == \E k \in 1 .. n - 1 : IsLeaf(o(k))
<1>1. /\ path \in Seq(STRING) /\ n <= MaxDepth /\ n \in Nat /\ MaxDepth \in Nat
      /\ SubSeq(path, 1, n) = path /\ SubSeq(path, 1, 0) = <<>>
      /\ path \in Places
  <2>1. path \in Seq(STRING) /\ n <= MaxDepth /\ MaxDepth \in Nat
    BY PathsAssumption
  <2>2. n \in Nat /\ SubSeq(path, 1, n) = path /\ SubSeq(path, 1, 0) = <<>>
    BY <2>1
  <2> QED BY <2>1, <2>2 DEF Places
<1>2. o(n) = At(overlay, path) /\ o(0) = overlay
  BY <1>1, AtEmpty
<1>3. PICK g : DeepMerge(base, overlay) = g[<<>>] /\ IsMerge(g, base, overlay)
  BY MergeUnfolds
<1>4. /\ o(n) # Absent => mine = g[path] /\ \A j \in 0 .. n - 1 : IsDict(o(j))
      /\ o(n) = Absent => mine = IF \E j \in 0 .. n : IsLeaf(o(j)) THEN Absent
                                 ELSE At(base, path)
  <2>1. n \in 0 .. Len(path)
    BY <1>1
  <2>2. LET start(j) == SubSeq(path, 1, j)
            mine_n == At(DeepMerge(base, overlay), start(n))
        IN /\ At(overlay, start(n)) # Absent =>
                 /\ mine_n = g[start(n)]
                 /\ \A j \in 0 .. n - 1 : IsDict(At(overlay, start(j)))
           /\ At(overlay, start(n)) = Absent =>
                 mine_n = IF \E j \in 0 .. n : IsLeaf(At(overlay, start(j))) THEN Absent
                          ELSE At(base, start(n))
    BY <1>1, <1>3, <2>1, MergeAlong
  <2> QED BY <2>2, <1>1
<1>5. g[path] = MergedAt(g, base, overlay, path)
  BY <1>1, <1>3 DEF IsMerge
<1>6. cut => o(n) = Absent
  <2>1. \A k \in 1 .. n - 1 : k \in 0 .. n - 1
    OBVIOUS
  <2> QED BY <1>4, <2>1 DEF IsLeaf
<1> HIDE DEF o, mine, cut
<1>7. CASE IsLeaf(o(n))
  <2>1. mine = o(n) /\ ~cut
    BY <1>2, <1>4, <1>5, <1>6, <1>7 DEF IsLeaf, MergedAt
  <2>2. ~IsDict(o(n))
    BY <1>7 DEF IsLeaf
  <2> QED BY <2>1, <2>2, <1>2, <1>7 DEF mine, cut, o
<1>8. CASE IsDict(o(n))
  <2>1. ~cut /\ ~IsLeaf(o(n)) /\ o(n) # Absent
    BY <1>6, <1>8, AbsentIsNoDict DEF IsLeaf
  <2>2. IsDict(mine)
    BY <1>2, <1>4, <1>5, <1>8, <2>1 DEF MergedAt, Dict, IsDict
  <2> QED BY <2>1, <2>2, <1>2, <1>8 DEF mine, cut, o
<1>9. CASE o(n) = Absent
  <2>1. ~IsLeaf(o(n)) /\ ~IsDict(o(n))
    BY <1>9, AbsentIsNoDict
  <2>2. cut <=> \E j \in 0 .. n : IsLeaf(o(j))
    <3>1. ~IsLeaf(o(0))
      BY <1>2 DEF IsLeaf
    <3>2. \A j \in 0 .. n : j = 0 \/ j = n \/ j \in 1 .. n - 1
      <4>1. n \in Nat
        BY <1>1
      <4> HIDE DEF n
      <4> QED BY <4>1
    <3>3. \A j \in 1 .. n - 1 : j \in 0 .. n
      BY <1>1
    <3> QED BY <3>1, <3>2, <3>3, <2>1 DEF cut
  <2>3. mine = IF cut THEN Absent ELSE At(base, path)
    BY <1>4, <1>9, <2>2
  <2> QED BY <2>1, <2>3, <1>2 DEF mine, cut, o
<1> QED BY <1>7, <1>8, <1>9 DEF IsLeaf

\* The overlay, path by path, for every plugin that was loaded: where it has a
\* value, that is the plugin's; where it cuts a mapping short, nothing is left;
\* everywhere else the base's value stands.
THEOREM OverlayAlwaysWins == Spec => []OverlayWins
<1>1. ASSUME LoadInv PROVE OverlayWins
  <2> SUFFICES ASSUME NEW k \in DOMAIN plugins, NEW path \in Paths
      PROVE  LET i == plugins[k].file
                 base == tree[i].content
                 over == {o.content : o \in Overlays(tree[i].dir)}
                 mine == At(plugins[k].spec, path)
                 cut(o) == \E m \in 1 .. Len(path) - 1 : IsLeaf(At(o, SubSeq(path, 1, m)))
             IN IF over = {} THEN mine = At(base, path)
                ELSE \A o \in over :
                        CASE IsLeaf(At(o, path)) -> mine = At(o, path)
                          [] cut(o) -> mine = Absent
                          [] IsDict(At(o, path)) -> IsDict(mine)
                          [] OTHER -> mine = At(base, path)
    BY DEF OverlayWins
  <2> DEFINE i == plugins[k].file
             over == Overlays(tree[i].dir)
  <2>1. plugins[k].spec = Merged(i)
    BY <1>1 DEF LoadInv, PluginsLoaded, Loaded, Plugin
  <2>2. CASE over = {}
    BY <2>1, <2>2 DEF Merged
  <2>3. CASE over # {}
    <3>1. \A o, q \in over : o = q
      BY <1>1, TreesAssumption DEF LoadInv, PluginsLoaded, Overlays
    <3>2. \A o \in over : IsDict(o.content)
      BY DEF Overlays
    <3>3. ASSUME NEW o \in over
          PROVE  plugins[k].spec = DeepMerge(tree[i].content, o.content)
      <4>1. (CHOOSE q \in over : TRUE) = o
        BY <3>1
      <4> QED BY <2>1, <2>3, <4>1 DEF Merged
    <3> HIDE DEF over, i
    <3>4. \A o \in over :
             LET mine == At(plugins[k].spec, path)
                 cut == \E m \in 1 .. Len(path) - 1 :
                           IsLeaf(At(o.content, SubSeq(path, 1, m)))
             IN CASE IsLeaf(At(o.content, path)) -> mine = At(o.content, path)
                  [] cut -> mine = Absent
                  [] IsDict(At(o.content, path)) -> IsDict(mine)
                  [] OTHER -> mine = At(tree[i].content, path)
      BY <3>2, <3>3, MergeWins
    <3> QED BY <2>3, <3>4 DEF over, i
  <2> QED BY <2>2, <2>3
<1> QED BY <1>1, LoadInvariant, PTL
=============================================================================
