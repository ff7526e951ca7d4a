------------------------- MODULE Expressions_proofs -------------------------
(***************************************************************************)
(* The evaluator makes of a guard's tree what the guard means, for every   *)
(* guard and every environment: the tree is read without recourse to the   *)
(* tokens, the meaning without recourse to a tree.                         *)
(***************************************************************************)
EXTENDS Expressions, Parser_proofs

---------------------------------------------------------------------------
(* The recursive functions and their equations. *)

\* The layers of a tree, from its root down.
IsNodes(f, ast, m) ==
  f = [n \in 0 .. m |-> IF n = 0 THEN {ast} ELSE UNION {Parts(t) : t \in f[n - 1]}]

\* What evaluate() returns for the nodes of the layers f, from the lowest up.
IsValues(g, f, env, m) ==
  g = [d \in 0 .. m |-> [t \in f[m - d] |->
                            IF d = 0 THEN Error ELSE ValueOf(g[d - 1], t, env)]]

\* The values of the spans for every height up to m.
IsMeans(h, s, env, m) ==
  h = [n \in 0 .. m |-> [x \in Levels |-> [y \in Positions(s) |-> [z \in Positions(s) |->
                            IF n = 0 THEN {} ELSE Means(x, h[n - 1], s, env, y, z)]]]]

LEMMA NodesExist ==
  ASSUME NEW ast, NEW n \in Nat
  PROVE  \E f : IsNodes(f, ast, n)
<1> DEFINE T == {m \in Nat : ~\E f : IsNodes(f, ast, m)}
           Base == {ast}
           Step(c) == UNION {Parts(t) : t \in c}
<1>1. \A f, m : IsNodes(f, ast, m) <=>
                f = [d \in 0 .. m |-> IF d = 0 THEN Base ELSE Step(f[d - 1])]
  BY Zenon DEF IsNodes
<1> HIDE DEF Base, Step
<1> SUFFICES ASSUME T # {} PROVE FALSE
  OBVIOUS
<1>2. PICK m \in T : \A k \in T : m <= k
  <2> HIDE DEF T
  <2>1. T \in SUBSET Nat BY DEF T
  <2> QED BY <2>1, LeastNat
<1>3. m # 0
  <2> DEFINE h == [d \in 0 .. 0 |-> Base]
  <2>1. IsNodes(h, ast, 0)
    <3>1. h = [d \in 0 .. 0 |-> IF d = 0 THEN Base ELSE Step(h[d - 1])]
      OBVIOUS
    <3> HIDE DEF h
    <3> QED BY <3>1, <1>1
  <2> QED BY <2>1, <1>2
<1>4. m - 1 \in Nat /\ m - 1 \notin T
  BY <1>2, <1>3
<1>5. PICK f : IsNodes(f, ast, m - 1)
  BY <1>4
<1> DEFINE h == [d \in 0 .. m |-> IF d = m THEN Step(f[m - 1]) ELSE f[d]]
<1>6. ASSUME NEW d \in 0 .. m
      PROVE  h[d] = IF d = 0 THEN Base ELSE Step(h[d - 1])
  <2>1. CASE d = m
    BY <2>1, <1>3, <1>4
  <2>2. CASE d # m
    <3>1. d \in 0 .. m - 1
      BY <2>2, <1>4
    <3>2. f[d] = IF d = 0 THEN Base ELSE Step(f[d - 1])
      BY <1>1, <1>5, <3>1
    <3> QED BY <3>1, <3>2, <2>2
  <2> QED BY <2>1, <2>2
<1>7. IsNodes(h, ast, m)
  BY <1>1, <1>6
<1> QED BY <1>7, <1>2

LEMMA ValuesExist ==
  ASSUME NEW f, NEW env, NEW m \in Nat
  PROVE  \E g : IsValues(g, f, env, m)
<1> DEFINE Base == [t \in f[m] |-> Error]
           Step(c, d) == [t \in f[m - d] |-> ValueOf(c, t, env)]
           Upto(g, k) == g = [d \in 0 .. k |-> IF d = 0 THEN Base ELSE Step(g[d - 1], d)]
           T == {k \in Nat : ~\E g : Upto(g, k)}
<1>1. \A g : Upto(g, m) => IsValues(g, f, env, m)
  <2> SUFFICES ASSUME NEW g
      PROVE  [d \in 0 .. m |-> IF d = 0 THEN Base ELSE Step(g[d - 1], d)]
             = [d \in 0 .. m |-> [t \in f[m - d] |->
                                    IF d = 0 THEN Error ELSE ValueOf(g[d - 1], t, env)]]
    BY Zenon DEF IsValues
  <2>1. ASSUME NEW d \in 0 .. m
        PROVE  (IF d = 0 THEN Base ELSE Step(g[d - 1], d))
               = [t \in f[m - d] |-> IF d = 0 THEN Error ELSE ValueOf(g[d - 1], t, env)]
    <3>1. CASE d = 0
      <4>1. m - d = m
        BY <3>1
      <4> QED BY <3>1, <4>1
    <3>2. CASE d # 0
      BY <3>2
    <3> QED BY <3>1, <3>2
  <2> HIDE DEF Base, Step
  <2> QED BY <2>1
<1> HIDE DEF Base, Step
<1> SUFFICES ASSUME T # {} PROVE FALSE
  <2> HIDE DEF Upto
  <2> QED BY <1>1
<1>2. PICK k \in T : \A l \in T : k <= l
  <2> HIDE DEF T
  <2>1. T \in SUBSET Nat BY DEF T
  <2> QED BY <2>1, LeastNat
<1>3. k # 0
  <2>1. Upto([d \in 0 .. 0 |-> Base], 0)
    OBVIOUS
  <2> QED BY <2>1, <1>2
<1>4. k - 1 \in Nat /\ k - 1 \notin T
  <2> HIDE DEF Upto
  <2> QED BY <1>2, <1>3
<1>5. PICK g : Upto(g, k - 1)
  <2> HIDE DEF Upto
  <2> QED BY <1>4
<1> DEFINE h == [d \in 0 .. k |-> IF d = k THEN Step(g[k - 1], k) ELSE g[d]]
<1>6. ASSUME NEW d \in 0 .. k
      PROVE  h[d] = IF d = 0 THEN Base ELSE Step(h[d - 1], d)
  <2>1. CASE d = k
    BY <2>1, <1>3, <1>4
  <2>2. CASE d # k
    <3>1. d \in 0 .. k - 1
      BY <2>2, <1>4
    <3>2. g[d] = IF d = 0 THEN Base ELSE Step(g[d - 1], d)
      BY <1>5, <3>1
    <3> QED BY <3>1, <3>2, <2>2
  <2> QED BY <2>1, <2>2
<1>7. Upto(h, k)
  BY <1>6
<1> QED BY <1>7, <1>2

LEMMA MeansExist ==
  ASSUME NEW s, NEW env, NEW n \in Nat
  PROVE  \E f : IsMeans(f, s, env, n)
<1> DEFINE T == {m \in Nat : ~\E f : IsMeans(f, s, env, m)}
           Base == [x \in Levels |-> [y \in Positions(s) |-> [z \in Positions(s) |-> {}]]]
           Step(c) == [x \in Levels |-> [y \in Positions(s) |-> [z \in Positions(s) |->
                         Means(x, c, s, env, y, z)]]]
<1>1. \A f, m : IsMeans(f, s, env, m) <=>
                f = [d \in 0 .. m |-> IF d = 0 THEN Base ELSE Step(f[d - 1])]
  <2> SUFFICES ASSUME NEW f, NEW m
      PROVE  [d \in 0 .. m |-> [x \in Levels |-> [y \in Positions(s) |-> [z \in Positions(s) |->
                    IF d = 0 THEN {} ELSE Means(x, f[d - 1], s, env, y, z)]]]]
             = [d \in 0 .. m |-> IF d = 0 THEN Base ELSE Step(f[d - 1])]
    BY DEF IsMeans
  <2>1. ASSUME NEW d \in 0 .. m
        PROVE  [x \in Levels |-> [y \in Positions(s) |-> [z \in Positions(s) |->
                    IF d = 0 THEN {} ELSE Means(x, f[d - 1], s, env, y, z)]]]
               = IF d = 0 THEN Base ELSE Step(f[d - 1])
    BY Zenon
  <2> QED BY <2>1
<1> HIDE DEF Base, Step
<1> SUFFICES ASSUME T # {} PROVE FALSE
  OBVIOUS
<1>2. PICK m \in T : \A k \in T : m <= k
  <2> HIDE DEF T
  <2>1. T \in SUBSET Nat BY DEF T
  <2> QED BY <2>1, LeastNat
<1>3. m # 0
  <2>1. IsMeans([d \in 0 .. 0 |-> Base], s, env, 0)
    BY <1>1
  <2> QED BY <2>1, <1>2
<1>4. m - 1 \in Nat /\ m - 1 \notin T
  BY <1>2, <1>3
<1>5. PICK f : IsMeans(f, s, env, m - 1)
  BY <1>4
<1> DEFINE h == [d \in 0 .. m |-> IF d = m THEN Step(f[m - 1]) ELSE f[d]]
<1>6. ASSUME NEW d \in 0 .. m
      PROVE  h[d] = IF d = 0 THEN Base ELSE Step(h[d - 1])
  <2>1. CASE d = m
    BY <2>1, <1>3, <1>4
  <2>2. CASE d # m
    <3>1. d \in 0 .. m - 1
      BY <2>2, <1>4
    <3>2. f[d] = IF d = 0 THEN Base ELSE Step(f[d - 1])
      BY <1>1, <1>5, <3>1
    <3> QED BY <3>1, <3>2, <2>2
  <2> QED BY <2>1, <2>2
<1>7. IsMeans(h, s, env, m)
  BY <1>1, <1>6
<1> QED BY <1>7, <1>2

\* A tree's layers and what is evaluated on them.
LEMMA EvaluationIs ==
  ASSUME NEW ast, NEW env, NEW m \in Nat
  PROVE  \E f, g : /\ IsNodes(f, ast, m)
                   /\ IsValues(g, f, env, m)
                   /\ EvaluateTo(m, ast, env) = g[m][ast]
<1> DEFINE f == CHOOSE f : IsNodes(f, ast, m)
           g == CHOOSE g : IsValues(g, f, env, m)
<1>1. EvaluateTo(m, ast, env) = g[m][ast]
  BY Zenon DEF EvaluateTo, IsNodes, IsValues
<1>2. IsNodes(f, ast, m)
  BY NodesExist
<1>3. IsValues(g, f, env, m)
  <2> HIDE DEF f
  <2> QED BY ValuesExist
<1> QED BY <1>1, <1>2, <1>3

LEMMA MeaningsAre ==
  ASSUME NEW s, Len(s) \in Nat, NEW env
  PROVE  \E h : /\ IsMeans(h, s, env, 8 * Len(s))
                /\ Meanings(s, env) = ValuesOf("or", h[8 * Len(s)], 1, Len(s) + 1)
<1> DEFINE m == 8 * Len(s)
           h == CHOOSE h : IsMeans(h, s, env, m)
<1>1. Meanings(s, env) = ValuesOf("or", h[m], 1, Len(s) + 1)
  BY Zenon DEF Meanings, IsMeans, Positions
<1>2. IsMeans(h, s, env, m)
  <2>1. m \in Nat
    OBVIOUS
  <2> HIDE DEF m
  <2> QED BY <2>1, MeansExist
<1> QED BY <1>1, <1>2

LEMMA NodesAt ==
  ASSUME NEW f, NEW ast, NEW m \in Nat, IsNodes(f, ast, m)
  PROVE  /\ f[0] = {ast}
         /\ \A n \in 0 .. m : n # m => \A t \in f[n] : Parts(t) \subseteq f[n + 1]
<1>1. \A n \in 0 .. m : f[n] = IF n = 0 THEN {ast} ELSE UNION {Parts(t) : t \in f[n - 1]}
  BY Zenon DEF IsNodes
<1>2. f[0] = {ast}
  <2>1. 0 \in 0 .. m
    OBVIOUS
  <2> QED BY <1>1, <2>1, Zenon
<1>3. ASSUME NEW n \in 0 .. m, n # m, NEW t \in f[n]
      PROVE  Parts(t) \subseteq f[n + 1]
  <2> DEFINE k == n + 1
  <2>1. k \in 0 .. m /\ k # 0 /\ k - 1 = n
    BY <1>3
  <2>2. f[k] = UNION {Parts(u) : u \in f[k - 1]}
    BY <1>1, <2>1
  <2> QED BY <2>1, <2>2
<1> QED BY <1>2, <1>3

LEMMA ValueAt ==
  ASSUME NEW g, NEW f, NEW env, NEW m \in Nat, IsValues(g, f, env, m),
         NEW d \in 0 .. m, NEW t \in f[m - d]
  PROVE  g[d][t] = IF d = 0 THEN Error ELSE ValueOf(g[d - 1], t, env)
<1> DEFINE Table(c) == [u \in f[m - c] |-> IF c = 0 THEN Error ELSE ValueOf(g[c - 1], u, env)]
<1>1. g = [c \in 0 .. m |-> Table(c)]
  BY Zenon DEF IsValues
<1> HIDE DEF Table
<1>2. g[d] = Table(d)
  BY <1>1
<1> QED BY <1>2 DEF Table

LEMMA MeansAt ==
  ASSUME NEW h, NEW s, NEW env, NEW m \in Nat, IsMeans(h, s, env, m), NEW n \in 0 .. m,
         NEW level \in Levels, NEW i \in Positions(s), NEW j \in Positions(s)
  PROVE  h[n][level][i][j] = IF n = 0 THEN {} ELSE Means(level, h[n - 1], s, env, i, j)
<1> DEFINE Table(c) == [x \in Levels |-> [y \in Positions(s) |-> [z \in Positions(s) |->
                          IF c = 0 THEN {} ELSE Means(x, h[c - 1], s, env, y, z)]]]
<1>1. h = [c \in 0 .. m |-> Table(c)]
  BY Zenon DEF IsMeans
<1> HIDE DEF Table
<1>2. h[n] = Table(n)
  BY <1>1
<1>3. h[n] = [x \in Levels |-> [y \in Positions(s) |-> [z \in Positions(s) |->
                IF n = 0 THEN {} ELSE Means(x, h[n - 1], s, env, y, z)]]]
  BY <1>2 DEF Table
<1> QED BY <1>3

---------------------------------------------------------------------------
(* The value of a tree, from the values of its parts. *)

\* A node's value depends on what is returned for its parts and on nothing else.
LEMMA ValueOfParts ==
  ASSUME NEW v, NEW w, NEW t, NEW env, \A p \in Parts(t) : v[p] = w[p]
  PROVE  ValueOf(v, t, env) = ValueOf(w, t, env)
<1>1. CASE t.op \in {"function", "method"}
  <2>1. \A k \in DOMAIN t.args : v[t.args[k]] = w[t.args[k]]
    BY <1>1 DEF Parts, Elements
  <2>2. [k \in DOMAIN t.args |-> v[t.args[k]]] = [k \in DOMAIN t.args |-> w[t.args[k]]]
    BY <2>1
  <2> QED BY <1>1, <2>2 DEF ValueOf
<1>2. CASE t.op \in {"cmp", "or", "and"}
  <2>1. v[t.lhs] = w[t.lhs] /\ v[t.rhs] = w[t.rhs]
    BY <1>2 DEF Parts
  <2> QED BY <1>2, <2>1 DEF ValueOf
<1>3. CASE t.op = "not"
  <2>1. v[t.expr] = w[t.expr]
    BY <1>3 DEF Parts
  <2> QED BY <1>3, <2>1 DEF ValueOf
<1>4. CASE t.op \notin {"function", "method", "cmp", "or", "and", "not"}
  BY <1>4 DEF ValueOf
<1> QED BY <1>1, <1>2, <1>3, <1>4

\* The layers f of the tree a, and the values g of their nodes.
IsEvaluation(f, g, a, env, m) == IsNodes(f, a, m) /\ IsValues(g, f, env, m)

\* A node's value depends on how deep calls may still nest, not on the tree it is in.
LEMMA SameValue ==
  ASSUME NEW env,
         NEW f, NEW g, NEW a, NEW m \in Nat, IsEvaluation(f, g, a, env, m),
         NEW p, NEW q, NEW b, NEW l \in Nat, IsEvaluation(p, q, b, env, l)
  PROVE  \A d \in Nat : d <= m /\ d <= l =>
            \A t : t \in f[m - d] /\ t \in p[l - d] => g[d][t] = q[d][t]
<1> DEFINE Same(c) == \A u : u \in f[m - c] /\ u \in p[l - c] => g[c][u] = q[c][u]
           T == {c \in Nat : c \in 0 .. m /\ c \in 0 .. l /\ ~Same(c)}
<1>1. T = {}
  <2> HIDE DEF Same
  <2> SUFFICES ASSUME T # {} PROVE FALSE
    OBVIOUS
  <2>1. PICK c \in T : \A k \in T : c <= k
    <3>1. T \in SUBSET Nat
      OBVIOUS
    <3> HIDE DEF T
    <3> QED BY <3>1, LeastNat
  <2>2. PICK u : u \in f[m - c] /\ u \in p[l - c] /\ g[c][u] # q[c][u]
    BY <2>1 DEF Same
  <2>3. c \in 0 .. m /\ c \in 0 .. l /\ c \in Nat
    BY <2>1
  <2>4. g[c][u] = IF c = 0 THEN Error ELSE ValueOf(g[c - 1], u, env)
    BY <2>2, <2>3, ValueAt DEF IsEvaluation
  <2>5. q[c][u] = IF c = 0 THEN Error ELSE ValueOf(q[c - 1], u, env)
    BY <2>2, <2>3, ValueAt DEF IsEvaluation
  <2>6. c # 0
    BY <2>2, <2>4, <2>5
  <2>7. c - 1 \in 0 .. m /\ c - 1 \in 0 .. l /\ c - 1 \in Nat /\ ~(c <= c - 1)
    BY <2>3, <2>6
  <2>8. Same(c - 1)
    BY <2>1, <2>7
  <2>9. ASSUME NEW e \in Parts(u) PROVE g[c - 1][e] = q[c - 1][e]
    <3>1. m - c \in 0 .. m /\ m - c # m /\ (m - c) + 1 = m - (c - 1)
      BY <2>3, <2>6
    <3>2. l - c \in 0 .. l /\ l - c # l /\ (l - c) + 1 = l - (c - 1)
      BY <2>3, <2>6
    <3>3. e \in f[m - (c - 1)]
      BY <3>1, <2>2, NodesAt DEF IsEvaluation
    <3>4. e \in p[l - (c - 1)]
      BY <3>2, <2>2, NodesAt DEF IsEvaluation
    <3> QED BY <2>8, <3>3, <3>4 DEF Same
  <2>10. ValueOf(g[c - 1], u, env) = ValueOf(q[c - 1], u, env)
    BY <2>9, ValueOfParts
  <2> QED BY <2>2, <2>4, <2>5, <2>10
<1> QED BY <1>1

\* evaluate() of a node calls itself for parts of the node, one call deeper.
LEMMA EvaluateIs ==
  ASSUME NEW t, NEW env, NEW m \in Nat
  PROVE  /\ m = 0 => EvaluateTo(m, t, env) = Error
         /\ m # 0 => \E w : /\ EvaluateTo(m, t, env) = ValueOf(w, t, env)
                            /\ \A p \in Parts(t) : w[p] = EvaluateTo(m - 1, p, env)
<1>1. PICK f, g : /\ IsNodes(f, t, m)
                  /\ IsValues(g, f, env, m)
                  /\ EvaluateTo(m, t, env) = g[m][t]
  BY EvaluationIs
<1>2. m - m = 0 /\ m \in 0 .. m /\ t \in f[m - m]
  BY <1>1, NodesAt
<1>3. g[m][t] = IF m = 0 THEN Error ELSE ValueOf(g[m - 1], t, env)
  BY <1>1, <1>2, ValueAt
<1>4. ASSUME m # 0, NEW p \in Parts(t)
      PROVE  g[m - 1][p] = EvaluateTo(m - 1, p, env)
  <2> DEFINE l == m - 1
  <2>1. l \in Nat /\ l \in 0 .. m /\ l \in 0 .. l /\ l - l = 0 /\ m - l = 1
    BY <1>4
  <2> HIDE DEF l
  <2>2. PICK f2, g2 : /\ IsNodes(f2, p, l)
                      /\ IsValues(g2, f2, env, l)
                      /\ EvaluateTo(l, p, env) = g2[l][p]
    BY <2>1, EvaluationIs
  <2>3. p \in f2[l - l]
    BY <2>1, <2>2, NodesAt
  <2>4. p \in f[m - l]
    <3>1. 0 \in 0 .. m /\ 0 # m /\ 0 + 1 = 1
      BY <1>4
    <3> QED BY <1>1, <1>2, <2>1, <3>1, NodesAt
  <2>5. g[l][p] = g2[l][p]
    <3>1. IsEvaluation(f, g, t, env, m) /\ IsEvaluation(f2, g2, p, env, l)
      BY <1>1, <2>2 DEF IsEvaluation
    <3>2. \A d \in Nat : d <= m /\ d <= l =>
             \A u : u \in f[m - d] /\ u \in f2[l - d] => g[d][u] = g2[d][u]
      BY <2>1, <3>1, SameValue
    <3> QED BY <2>1, <2>3, <2>4, <3>2
  <2> QED BY <2>2, <2>5 DEF l
<1> QED BY <1>1, <1>3, <1>4

\* evaluate() finds the value v of t, or nests too deep, which it does not if w
\* calls may nest.
Fits(t, v, w, env) ==
  \A m \in Nat : /\ EvaluateTo(m, t, env) \in {v, Error}
                 /\ m >= w => EvaluateTo(m, t, env) = v

IsList(vs) == vs \in Seq(Elements(vs))

\* The same for a list, part by part.
FitsAll(ts, vs, w, env) ==
  /\ IsList(ts) /\ IsList(vs) /\ Len(ts) = Len(vs)
  /\ \A k \in 1 .. Len(ts) : Fits(ts[k], vs[k], w, env)

LEMMA ErrorIs ==
  /\ IsError(Error)
  /\ Negated(Error) = Error
  /\ \A x, op : Compared(Error, op, x) = Error /\ Compared(x, op, Error) = Error
  /\ \A x, op : Logical(op, Error, x) = Error
BY DEF IsError, Error, Value, Negated, Compared, Logical, Decides

LEMMA FitsWider ==
  ASSUME NEW t, NEW v, NEW env, NEW w \in Int, NEW u \in Int, w <= u, Fits(t, v, w, env)
  PROVE  Fits(t, v, u, env)
BY DEF Fits

\* What a node needs to fit: nothing without a call, and its value at each depth.
LEMMA FitsIf ==
  ASSUME NEW t, NEW v, NEW w \in Int, w >= 1, NEW env,
         \A m \in Nat : m # 0 =>
            /\ EvaluateTo(m, t, env) \in {v, Error}
            /\ m >= w => EvaluateTo(m, t, env) = v
  PROVE  Fits(t, v, w, env)
<1> SUFFICES ASSUME NEW m \in Nat
             PROVE  /\ EvaluateTo(m, t, env) \in {v, Error}
                    /\ m >= w => EvaluateTo(m, t, env) = v
  BY DEF Fits
<1>1. m = 0 => EvaluateTo(m, t, env) = Error
  BY EvaluateIs
<1> QED BY <1>1

LEMMA LiteralFits ==
  ASSUME NEW v, NEW w \in Int, w >= 1, NEW env
  PROVE  Fits(LiteralOf(v), v, w, env)
<1>1. ASSUME NEW m \in Nat, m # 0 PROVE EvaluateTo(m, LiteralOf(v), env) = v
  <2>1. \A x : ValueOf(x, LiteralOf(v), env) = v
    BY DEF ValueOf, LiteralOf
  <2> QED BY <1>1, <2>1, EvaluateIs
<1> QED BY <1>1, FitsIf

LEMMA VariableFits ==
  ASSUME NEW p, NEW w \in Int, w >= 1, NEW env
  PROVE  Fits(VariableOf(p), Resolve(env, p), w, env)
<1>1. ASSUME NEW m \in Nat, m # 0
      PROVE  EvaluateTo(m, VariableOf(p), env) = Resolve(env, p)
  <2>1. \A x : ValueOf(x, VariableOf(p), env) = Resolve(env, p)
    BY DEF ValueOf, VariableOf
  <2> QED BY <1>1, <2>1, EvaluateIs
<1> QED BY <1>1, FitsIf

LEMMA NotFits ==
  ASSUME NEW e, NEW v, NEW u \in Int, NEW w \in Int, u < w, 1 <= w, NEW env,
         Fits(e, v, u, env)
  PROVE  Fits(NotOf(e), Negated(v), w, env)
<1> SUFFICES ASSUME NEW m \in Nat, m # 0
             PROVE  /\ EvaluateTo(m, NotOf(e), env) \in {Negated(v), Error}
                    /\ m >= w => EvaluateTo(m, NotOf(e), env) = Negated(v)
  BY FitsIf
<1> DEFINE x == EvaluateTo(m - 1, e, env)
<1>1. x \in {v, Error} /\ (m >= w => x = v)
  <2>1. m - 1 \in Nat /\ (m >= w => m - 1 >= u)
    OBVIOUS
  <2> QED BY <2>1 DEF Fits
<1>2. EvaluateTo(m, NotOf(e), env) = Negated(x)
  <2>1. Parts(NotOf(e)) = {e} /\ \A f : ValueOf(f, NotOf(e), env) = Negated(f[e])
    BY DEF Parts, ValueOf, NotOf
  <2> QED BY <2>1, EvaluateIs
<1> HIDE DEF x
<1> QED BY <1>1, <1>2, ErrorIs

LEMMA CmpFits ==
  ASSUME NEW op, NEW l, NEW a, NEW r, NEW b,
         NEW u \in Int, NEW w \in Int, u < w, 1 <= w, NEW env,
         Fits(l, a, u, env), Fits(r, b, u, env)
  PROVE  Fits(CmpOf(op, l, r), Compared(a, op, b), w, env)
<1> DEFINE t == CmpOf(op, l, r)
           v == Compared(a, op, b)
<1> SUFFICES ASSUME NEW m \in Nat, m # 0
             PROVE  /\ EvaluateTo(m, t, env) \in {v, Error}
                    /\ m >= w => EvaluateTo(m, t, env) = v
  BY FitsIf
<1> DEFINE x == EvaluateTo(m - 1, l, env)
           y == EvaluateTo(m - 1, r, env)
<1>1. /\ x \in {a, Error} /\ (m >= w => x = a)
      /\ y \in {b, Error} /\ (m >= w => y = b)
  <2>1. m - 1 \in Nat /\ (m >= w => m - 1 >= u)
    OBVIOUS
  <2> QED BY <2>1 DEF Fits
<1>2. EvaluateTo(m, t, env) = Compared(x, op, y)
  <2>1. Parts(t) = {l, r} /\ \A f : ValueOf(f, t, env) = Compared(f[l], op, f[r])
    BY DEF Parts, ValueOf, CmpOf
  <2> HIDE DEF t
  <2> QED BY <2>1, EvaluateIs
<1> HIDE DEF x, y, t
<1> QED BY <1>1, <1>2, ErrorIs

LEMMA LogicalFits ==
  ASSUME NEW op \in {"or", "and"}, NEW l, NEW a, NEW r, NEW b,
         NEW u \in Int, NEW w \in Int, u < w, 1 <= w, NEW env,
         Fits(l, a, u, env), Fits(r, b, u, env)
  PROVE  Fits(Joined(op, l, r), Logical(op, a, b), w, env)
<1> DEFINE t == Joined(op, l, r)
           v == Logical(op, a, b)
<1> SUFFICES ASSUME NEW m \in Nat, m # 0
             PROVE  /\ EvaluateTo(m, t, env) \in {v, Error}
                    /\ m >= w => EvaluateTo(m, t, env) = v
  BY FitsIf
<1> DEFINE x == EvaluateTo(m - 1, l, env)
           y == EvaluateTo(m - 1, r, env)
<1>1. /\ x \in {a, Error} /\ (m >= w => x = a)
      /\ y \in {b, Error} /\ (m >= w => y = b)
  <2>1. m - 1 \in Nat /\ (m >= w => m - 1 >= u)
    OBVIOUS
  <2> QED BY <2>1 DEF Fits
<1>2. EvaluateTo(m, t, env) = Logical(op, x, y)
  <2>1. Parts(t) = {l, r} /\ \A f : ValueOf(f, t, env) = Logical(op, f[l], f[r])
    BY DEF Parts, ValueOf, Joined
  <2> HIDE DEF t
  <2> QED BY <2>1, EvaluateIs
<1>3. Logical(op, a, Error) \in {v, Error}
  BY DEF Logical
<1> HIDE DEF x, y, t, v
<1> QED BY <1>1, <1>2, <1>3, ErrorIs DEF v

---------------------------------------------------------------------------
(* Lists of parts. *)

LEMMA ListIs ==
  ASSUME NEW vs, IsList(vs)
  PROVE  Len(vs) \in Nat /\ DOMAIN vs = 1 .. Len(vs) /\ vs = [k \in 1 .. Len(vs) |-> vs[k]]
BY DEF IsList

LEMMA ListsEqual ==
  ASSUME NEW as, IsList(as), NEW vs, IsList(vs), Len(as) = Len(vs),
         \A k \in 1 .. Len(vs) : as[k] = vs[k]
  PROVE  as = vs
<1> DEFINE n == Len(vs)
<1>1. as = [k \in 1 .. n |-> as[k]] /\ vs = [k \in 1 .. n |-> vs[k]]
  BY ListIs
<1>2. [k \in 1 .. n |-> as[k]] = [k \in 1 .. n |-> vs[k]]
  OBVIOUS
<1> QED BY <1>1, <1>2, Zenon

LEMMA SeqIsTable ==
  ASSUME NEW S, NEW f \in Seq(S)
  PROVE  f = [k \in 1 .. Len(f) |-> f[k]]
OBVIOUS

LEMMA TableIsList ==
  ASSUME NEW n \in Nat, NEW f, f = [k \in 1 .. n |-> f[k]]
  PROVE  IsList(f) /\ Len(f) = n
<1>1. \A k \in 1 .. n : f[k] \in Elements(f)
  BY DEF Elements
<1> QED BY <1>1 DEF IsList

LEMMA ListOfOne ==
  ASSUME NEW v
  PROVE  IsList(<<v>>) /\ Len(<<v>>) = 1 /\ <<v>>[1] = v
BY DEF IsList, Elements

LEMMA ListAppended ==
  ASSUME NEW vs, IsList(vs), NEW v
  PROVE  /\ IsList(Append(vs, v))
         /\ Len(Append(vs, v)) = Len(vs) + 1
         /\ \A k \in 1 .. Len(vs) : Append(vs, v)[k] = vs[k]
         /\ Append(vs, v)[Len(vs) + 1] = v
<1> DEFINE S == Elements(vs) \cup {v}
<1>1. vs \in Seq(S)
  <2>1. \A k \in 1 .. Len(vs) : vs[k] \in S
    BY ListIs DEF Elements
  <2> HIDE DEF S
  <2> QED BY <2>1 DEF IsList
<1>2. /\ Append(vs, v) \in Seq(S)
      /\ Len(Append(vs, v)) = Len(vs) + 1
      /\ \A k \in 1 .. Len(vs) : Append(vs, v)[k] = vs[k]
      /\ Append(vs, v)[Len(vs) + 1] = v
  <2>1. v \in S
    OBVIOUS
  <2> HIDE DEF S
  <2> QED BY <1>1, <2>1
<1>3. IsList(Append(vs, v))
  <2> DEFINE f == Append(vs, v)
             n == Len(vs) + 1
  <2>1. n \in Nat /\ f = [k \in 1 .. n |-> f[k]]
    <3>1. n \in Nat /\ Len(f) = n
      BY <1>2, ListIs
    <3>2. f = [k \in 1 .. Len(f) |-> f[k]]
      BY <1>2, SeqIsTable, Zenon
    <3> QED BY <3>1, <3>2, Zenon
  <2> HIDE DEF f, n
  <2> QED BY <2>1, TableIsList DEF f
<1> QED BY <1>2, <1>3

LEMMA FitsOne ==
  ASSUME NEW t, NEW v, NEW w, NEW env, Fits(t, v, w, env)
  PROVE  FitsAll(<<t>>, <<v>>, w, env)
BY ListOfOne DEF FitsAll

LEMMA FitsAppended ==
  ASSUME NEW ts, NEW vs, NEW t, NEW v, NEW u \in Int, NEW w \in Int, u <= w, NEW env,
         FitsAll(ts, vs, u, env), Fits(t, v, u, env)
  PROVE  FitsAll(Append(ts, t), Append(vs, v), w, env)
<1> DEFINE n == Len(ts)
<1>1. IsList(ts) /\ IsList(vs) /\ Len(vs) = n /\ n \in Nat
  BY ListIs DEF FitsAll
<1>2. /\ IsList(Append(ts, t)) /\ Len(Append(ts, t)) = n + 1
      /\ IsList(Append(vs, v)) /\ Len(Append(vs, v)) = n + 1
  BY <1>1, ListAppended
<1>3. ASSUME NEW k \in 1 .. n + 1
      PROVE  Fits(Append(ts, t)[k], Append(vs, v)[k], w, env)
  <2>1. CASE k \in 1 .. n
    <3>1. Append(ts, t)[k] = ts[k] /\ Append(vs, v)[k] = vs[k]
      BY <1>1, <2>1, ListAppended
    <3>2. Fits(ts[k], vs[k], u, env)
      BY <2>1 DEF FitsAll
    <3> QED BY <3>1, <3>2, FitsWider
  <2>2. CASE k = n + 1
    <3>1. Append(ts, t)[k] = t /\ Append(vs, v)[k] = v
      BY <1>1, <2>2, ListAppended
    <3> QED BY <3>1, FitsWider
  <2> QED BY <1>1, <2>1, <2>2
<1> QED BY <1>2, <1>3 DEF FitsAll

\* A call with an argument that could not be evaluated is an error, unless the
\* arguments are not looked at.
LEMMA CallStrict ==
  ASSUME NEW as, IsList(as), NEW vs, IsList(vs), Len(as) = Len(vs),
         \A k \in 1 .. Len(vs) : as[k] \in {vs[k], Error},
         NEW path, NEW env
  PROVE  CallValue(path, as, env) \in {CallValue(path, vs, env), Error}
<1> DEFINE n == Len(vs)
<1>1. n \in Nat /\ DOMAIN as = 1 .. n
  BY ListIs
<1>2. CASE \A k \in 1 .. n : as[k] = vs[k]
  <2>1. as = vs
    BY <1>2, ListsEqual
  <2> QED BY <2>1
<1>3. CASE ~ \A k \in 1 .. n : as[k] = vs[k]
  <2>1. PICK k \in 1 .. n : as[k] = Error
    BY <1>3
  <2>2. as # <<>>
    <3>1. as = <<>> => DOMAIN as = {}
      OBVIOUS
    <3> QED BY <1>1, <2>1, <3>1
  <2>3. Call(path[1], as, env) = Error
    <3>1. ASSUME Len(as) = 1 PROVE as[1] = Error
      <4>1. k = 1
        BY <1>1, <3>1
      <4> QED BY <2>1, <4>1
    <3>2. Error.kind = "error"
      BY DEF Error, Value
    <3> QED BY <2>2, <3>1, <3>2 DEF Call, Numeric
  <2>4. \E m \in DOMAIN as : IsError(as[m])
    BY <1>1, <2>1, ErrorIs
  <2>5. CallMethod(path, as, env) \in {CallMethod(path, vs, env), Error}
    BY <2>4 DEF CallMethod
  <2> QED BY <2>3, <2>5 DEF CallValue
<1> QED BY <1>2, <1>3

LEMMA CallFits ==
  ASSUME NEW path, NEW args, NEW vs, NEW u \in Int, NEW w \in Int, u < w, 1 <= w, NEW env,
         FitsAll(args, vs, u, env)
  PROVE  Fits(CallOf(path, args), CallValue(path, vs, env), w, env)
<1> SUFFICES ASSUME NEW m \in Nat, m # 0
             PROVE  /\ EvaluateTo(m, CallOf(path, args), env)
                          \in {CallValue(path, vs, env), Error}
                    /\ m >= w => EvaluateTo(m, CallOf(path, args), env)
                                    = CallValue(path, vs, env)
  BY FitsIf
<1> DEFINE n == Len(args)
           as == [k \in 1 .. n |-> EvaluateTo(m - 1, args[k], env)]
<1>1. IsList(args) /\ IsList(vs) /\ Len(vs) = n /\ n \in Nat /\ DOMAIN args = 1 .. n
  BY ListIs DEF FitsAll
<1>2. \A k \in 1 .. n : as[k] \in {vs[k], Error} /\ (m >= w => as[k] = vs[k])
  <2>1. m - 1 \in Nat /\ (m >= w => m - 1 >= u)
    OBVIOUS
  <2> QED BY <2>1 DEF FitsAll, Fits
<1>3. EvaluateTo(m, CallOf(path, args), env) = CallValue(path, as, env)
  <2> DEFINE t == CallOf(path, args)
  <2>1. Parts(t) = {args[k] : k \in 1 .. n}
    BY <1>1 DEF Parts, CallOf, Elements
  <2>2. \A f : ValueOf(f, t, env) = CallValue(path, [k \in 1 .. n |-> f[args[k]]], env)
    BY <1>1 DEF ValueOf, CallOf, CallValue
  <2> HIDE DEF t
  <2>3. PICK f : /\ EvaluateTo(m, t, env) = ValueOf(f, t, env)
                 /\ \A p \in Parts(t) : f[p] = EvaluateTo(m - 1, p, env)
    BY EvaluateIs
  <2>4. [k \in 1 .. n |-> f[args[k]]] = as
    BY <2>1, <2>3
  <2> HIDE DEF as
  <2>5. EvaluateTo(m, t, env) = CallValue(path, as, env)
    BY <2>2, <2>3, <2>4
  <2> QED BY <2>5 DEF t
<1>4. IsList(as) /\ Len(as) = n
  <2>1. as = [k \in 1 .. n |-> as[k]]
    OBVIOUS
  <2> HIDE DEF as
  <2> QED BY <1>1, <2>1, TableIsList
<1>5. m >= w => as = vs
  <2> HIDE DEF as
  <2> QED BY <1>1, <1>2, <1>4, ListsEqual
<1> HIDE DEF as
<1> QED BY <1>1, <1>2, <1>3, <1>4, <1>5, CallStrict

---------------------------------------------------------------------------
(* What several operands mean. *)

LEMMA ChosenIs ==
  ASSUME NEW op, NEW vs, IsList(vs), NEW k \in 1 .. Len(vs),
         Decides(op, vs[k]) \/ k = Len(vs), \A m \in 1 .. k - 1 : ~Decides(op, vs[m])
  PROVE  Chosen(op, vs) = vs[k]
<1> DEFINE P(l) == /\ Decides(op, vs[l]) \/ l = Len(vs)
                   /\ \A m \in 1 .. l - 1 : ~Decides(op, vs[m])
<1>0. Len(vs) \in Nat
  BY ListIs
<1>1. P(k)
  OBVIOUS
<1>2. ASSUME NEW l \in 1 .. Len(vs), P(l) PROVE l = k
  <2>1. CASE l < k
    BY <1>0, <1>2, <2>1
  <2>2. CASE k < l
    BY <1>0, <1>2, <2>2
  <2> QED BY <2>1, <2>2
<1>3. Chosen(op, vs) = vs[CHOOSE l \in 1 .. Len(vs) : P(l)]
  BY DEF Chosen
<1> HIDE DEF P
<1> QED BY <1>1, <1>2, <1>3

\* An operand more changes nothing if one before it decides, and decides otherwise.
LEMMA ChosenAppended ==
  ASSUME NEW op, NEW vs, IsList(vs), Len(vs) # 0, NEW v
  PROVE  Chosen(op, Append(vs, v)) = Logical(op, Chosen(op, vs), v)
<1> DEFINE n == Len(vs)
           T == {m \in 1 .. n : Decides(op, vs[m]) \/ m = n}
           all == Append(vs, v)
<1>1. n \in Nat /\ n \in T
  BY ListIs
<1>2. PICK k \in T : \A m \in T : k <= m
  <2>1. T \in SUBSET Nat /\ T # {}
    BY <1>1
  <2> HIDE DEF T
  <2> QED BY <2>1, LeastNat
<1>3. \A m \in 1 .. k - 1 : ~Decides(op, vs[m])
  BY <1>1, <1>2
<1>4. Chosen(op, vs) = vs[k]
  BY <1>1, <1>2, <1>3, ChosenIs
<1>5. /\ IsList(all) /\ Len(all) = n + 1 /\ all[n + 1] = v
      /\ \A m \in 1 .. n : all[m] = vs[m]
  BY ListAppended
<1> HIDE DEF all
<1>6. CASE Decides(op, vs[k])
  <2>1. k \in 1 .. n + 1 /\ all[k] = vs[k] /\ \A m \in 1 .. k - 1 : all[m] = vs[m]
    BY <1>1, <1>2, <1>5
  <2>2. Chosen(op, all) = all[k]
    BY <1>3, <1>5, <1>6, <2>1, ChosenIs
  <2> QED BY <1>4, <1>6, <2>1, <2>2 DEF all, Logical
<1>7. CASE ~Decides(op, vs[k])
  <2>1. k = n
    BY <1>2, <1>7
  <2>2. n + 1 \in 1 .. Len(all) /\ \A m \in 1 .. (n + 1) - 1 : ~Decides(op, all[m])
    BY <1>1, <1>3, <1>5, <1>7, <2>1
  <2>3. Chosen(op, all) = all[n + 1]
    BY <1>5, <2>2, ChosenIs
  <2> QED BY <1>4, <1>5, <1>7, <2>3 DEF all, Logical
<1> QED BY <1>6, <1>7

---------------------------------------------------------------------------
(* The values of a span, level by level. *)

Listed == {"or", "and", "args"}

LEMMA ListedAre ==
  /\ Listed \subseteq Levels /\ Listed \subseteq Loops
  /\ \A level \in Listed : Operand[level] \in Rules
BY EveryLevel, EveryRule DEF Listed, Operand

\* The tree of a list of one part.
FirstOf(level, a) == IF level = "args" THEN <<a>> ELSE a

LEMMA ListChainsAre ==
  ASSUME NEW level \in Listed, NEW b, NEW s, NEW i \in Int, NEW j \in Int, NEW t
  PROVE  t \in Chains(level, b, s, i, j) <=>
            \/ \E a \in b[Operand[level]][i][j] : t = FirstOf(level, a)
            \/ \E k \in i .. j - 1 :
                  /\ s[k] = Symbol[level]
                  /\ \E l \in b[level][i][k], r \in b[Operand[level]][k + 1][j] :
                        t = Joined(level, l, r)
<1>1. t \in Firsts(level, b, s, i, j) <=>
         \E a \in b[Operand[level]][i][j] : t = FirstOf(level, a)
  BY FirstsAre DEF Listed, Operand, FirstOf
<1>2. \A p : Items(level, b, s, p, j) = b[Operand[level]][p][j]
  BY DEF Items, Listed
<1> QED BY <1>1, <1>2, ChainsAre

LEMMA ListsAre ==
  ASSUME NEW level, NEW c, NEW s, NEW i \in Int, NEW j \in Int, NEW x
  PROVE  x \in Lists(level, c, s, i, j) <=>
            \/ \E v \in ValuesOf(Operand[level], c, i, j) : x = <<v>>
            \/ \E k \in i .. j - 1 :
                  /\ s[k] = Symbol[level]
                  /\ \E vs \in c[level][i][k], v \in ValuesOf(Operand[level], c, k + 1, j) :
                        x = Append(vs, v)
<1> DEFINE At(k) == {Append(vs, v) : vs \in c[level][i][k],
                                     v \in ValuesOf(Operand[level], c, k + 1, j)}
           Ks == {m \in i .. j - 1 : s[m] = Symbol[level]}
           Ones == {<<v>> : v \in ValuesOf(Operand[level], c, i, j)}
<1>1. Lists(level, c, s, i, j) = Ones \cup UNION {At(k) : k \in Ks}
  BY DEF Lists
<1>2. \A k : x \in At(k) <=>
         \E vs \in c[level][i][k], v \in ValuesOf(Operand[level], c, k + 1, j) :
            x = Append(vs, v)
  OBVIOUS
<1>3. \A k : k \in Ks <=> k \in i .. j - 1 /\ s[k] = Symbol[level]
  BY Zenon
<1>4. x \in Ones <=> \E v \in ValuesOf(Operand[level], c, i, j) : x = <<v>>
  BY Zenon
<1> HIDE DEF At, Ks, Ones
<1> QED BY <1>1, <1>2, <1>3, <1>4, Zenon

LEMMA NotValuesAre ==
  ASSUME NEW c, NEW s, NEW i, NEW j, NEW x
  PROVE  x \in NotValues(c, s, i, j) <=>
            \/ x \in c["cmp"][i][j]
            \/ /\ i < j
               /\ s[i] = "!"
               /\ \E v \in c["not"][i + 1][j] : x = Negated(v)
BY Zenon DEF NotValues

LEMMA CmpValuesAre ==
  ASSUME NEW c, NEW s, NEW i, NEW j, NEW x
  PROVE  x \in CmpValues(c, s, i, j) <=>
            \/ x \in c["primary"][i][j]
            \/ \E k \in i .. j - 1 :
                  /\ s[k] \in Operators
                  /\ \E l \in c["primary"][i][k], r \in c["primary"][k + 1][j] :
                        x = Compared(l, s[k], r)
<1> DEFINE At(k) == {Compared(l, s[k], r) :
                       l \in c["primary"][i][k], r \in c["primary"][k + 1][j]}
           Ks == {m \in i .. j - 1 : s[m] \in Operators}
<1>1. CmpValues(c, s, i, j) = c["primary"][i][j] \cup UNION {At(k) : k \in Ks}
  BY DEF CmpValues
<1>2. \A k : x \in At(k) <=> \E l \in c["primary"][i][k], r \in c["primary"][k + 1][j] :
                x = Compared(l, s[k], r)
  OBVIOUS
<1>3. \A k : k \in Ks <=> k \in i .. j - 1 /\ s[k] \in Operators
  BY Zenon
<1> HIDE DEF At, Ks
<1> QED BY <1>1, <1>2, <1>3, Zenon

LEMMA PrimaryValuesAre ==
  ASSUME NEW c, NEW s, NEW i, NEW j, NEW x
  PROVE  x \in PrimaryValues(c, s, i, j) <=>
            \/ x \in c["variable_or_call"][i][j]
            \/ /\ j = i + 1
               /\ s[i] \in Known
               /\ x = KnownValue(s[i])
            \/ /\ i + 1 < j - 1
               /\ s[i] = "("
               /\ s[j - 1] = ")"
               /\ x \in ValuesOf("or", c, i + 1, j - 1)
BY Zenon DEF PrimaryValues

LEMMA PathValuesAre ==
  ASSUME NEW c, NEW s, NEW env, NEW i, NEW j, NEW x
  PROVE  x \in PathValues(c, s, env, i, j) <=>
            \/ \E p \in c["keys"][i][j] : x = Resolve(env, p)
            \/ \E k \in i .. j - 2 :
                  /\ s[k] = "("
                  /\ s[j - 1] = ")"
                  /\ \E p \in c["keys"][i][k], args \in Arguments(c, k + 1, j - 1) :
                        x = CallValue(p, args, env)
<1> DEFINE At(k) == {CallValue(p, args, env) : p \in c["keys"][i][k],
                                               args \in Arguments(c, k + 1, j - 1)}
           Ks == {m \in i .. j - 2 : s[m] = "(" /\ s[j - 1] = ")"}
           Variables == {Resolve(env, p) : p \in c["keys"][i][j]}
<1>1. PathValues(c, s, env, i, j) = Variables \cup UNION {At(k) : k \in Ks}
  BY DEF PathValues
<1>2. \A k : x \in At(k) <=>
         \E p \in c["keys"][i][k], args \in Arguments(c, k + 1, j - 1) :
            x = CallValue(p, args, env)
  OBVIOUS
<1>3. \A k : k \in Ks <=> k \in i .. j - 2 /\ s[k] = "(" /\ s[j - 1] = ")"
  BY Zenon
<1>4. x \in Variables <=> \E p \in c["keys"][i][j] : x = Resolve(env, p)
  BY Zenon
<1> HIDE DEF At, Ks, Variables
<1> QED BY <1>1, <1>2, <1>3, <1>4, Zenon

LEMMA MeansAre ==
  ASSUME NEW c, NEW s, NEW env, NEW i, NEW j
  PROVE  /\ \A level \in Listed : Means(level, c, s, env, i, j) = Lists(level, c, s, i, j)
         /\ Means("keys", c, s, env, i, j) = Chains("keys", c, s, i, j)
         /\ Means("not", c, s, env, i, j) = NotValues(c, s, i, j)
         /\ Means("cmp", c, s, env, i, j) = CmpValues(c, s, i, j)
         /\ Means("primary", c, s, env, i, j) = PrimaryValues(c, s, i, j)
         /\ Means("variable_or_call", c, s, env, i, j) = PathValues(c, s, env, i, j)
BY DEF Means, Listed

LEMMA ListMeans ==
  ASSUME NEW c, NEW s, NEW env, NEW i, NEW j, NEW level \in Listed
  PROVE  Means(level, c, s, env, i, j) = Lists(level, c, s, i, j)
BY DEF Means, Listed

---------------------------------------------------------------------------
(* A span has the values of its trees and no others. *)

\* What the entries of the two tables are to each other.
Agrees(level, t, x, w, env) ==
  CASE level = "keys" -> t = x
    [] level = "args" -> FitsAll(t, x, w, env)
    [] level \in {"or", "and"} -> /\ IsList(x) /\ Len(x) # 0
                                  /\ Fits(t, Chosen(level, x), w, env)
    [] level \in {"not", "cmp", "primary", "variable_or_call"} -> Fits(t, x, w, env)

AllAgree(ts, xs, level, w, env) ==
  /\ \A t \in ts : \E x \in xs : Agrees(level, t, x, w, env)
  /\ \A x \in xs : \E t \in ts : Agrees(level, t, x, w, env)

AllFit(ts, vs, w, env) ==
  /\ \A t \in ts : \E v \in vs : Fits(t, v, w, env)
  /\ \A v \in vs : \E t \in ts : Fits(t, v, w, env)

Agreement(b, c, s, env) ==
  \A x \in Levels : \A p, q \in Positions(s) : AllAgree(b[x][p][q], c[x][p][q], x, q - p, env)

LEMMA ValuesFit ==
  ASSUME NEW b, NEW c, NEW s, NEW env, Agreement(b, c, s, env), NEW rule \in Rules,
         NEW i \in Positions(s), NEW j \in Positions(s)
  PROVE  AllFit(b[rule][i][j], ValuesOf(rule, c, i, j), j - i, env)
<1>1. AllAgree(b[rule][i][j], c[rule][i][j], rule, j - i, env)
  BY EveryRule DEF Agreement
<1>2. CASE rule \in {"or", "and"}
  <2>1. \A v : v \in ValuesOf(rule, c, i, j) <=> \E x \in c[rule][i][j] : v = Chosen(rule, x)
    BY <1>2 DEF ValuesOf
  <2>2. \A t, x : Agrees(rule, t, x, j - i, env) => Fits(t, Chosen(rule, x), j - i, env)
    BY <1>2 DEF Agrees
  <2> QED BY <1>1, <2>1, <2>2 DEF AllAgree, AllFit
<1>3. CASE rule \in {"not", "cmp", "primary", "variable_or_call"}
  <2>1. ValuesOf(rule, c, i, j) = c[rule][i][j]
    BY <1>3 DEF ValuesOf
  <2>2. \A t, x : Agrees(rule, t, x, j - i, env) <=> Fits(t, x, j - i, env)
    BY <1>3 DEF Agrees
  <2> QED BY <1>1, <2>1, <2>2 DEF AllAgree, AllFit
<1> QED BY <1>2, <1>3 DEF Rules

LEMMA AgreesOne ==
  ASSUME NEW level \in Listed, NEW t, NEW v, NEW w \in Int, NEW env, Fits(t, v, w, env)
  PROVE  Agrees(level, FirstOf(level, t), <<v>>, w, env)
<1>1. CASE level = "args"
  BY <1>1, FitsOne DEF Agrees, FirstOf
<1>2. CASE level \in {"or", "and"}
  <2> DEFINE x == <<v>>
  <2>1. IsList(x) /\ Len(x) = 1 /\ x[1] = v
    BY ListOfOne
  <2> HIDE DEF x
  <2>2. Chosen(level, x) = x[1]
    BY <2>1, ChosenIs
  <2>3. Fits(t, Chosen(level, x), w, env)
    BY <2>1, <2>2, Zenon
  <2>4. Agrees(level, t, x, w, env)
    <3>1. Agrees(level, t, x, w, env) <=>
             IsList(x) /\ Len(x) # 0 /\ Fits(t, Chosen(level, x), w, env)
      BY <1>2 DEF Agrees
    <3> QED BY <2>1, <2>3, <3>1
  <2> QED BY <1>2, <2>4 DEF x, FirstOf
<1> QED BY <1>1, <1>2 DEF Listed

LEMMA AgreesAppended ==
  ASSUME NEW level \in Listed, NEW l, NEW vs, NEW r, NEW v, NEW env,
         NEW p \in Int, NEW q \in Int, NEW w \in Int, p < w, q < w, 1 <= w,
         Agrees(level, l, vs, p, env), Fits(r, v, q, env)
  PROVE  Agrees(level, Joined(level, l, r), Append(vs, v), w, env)
<1> DEFINE u == w - 1
<1>1. u \in Int /\ u < w /\ u <= w /\ p <= u /\ q <= u
  OBVIOUS
<1> HIDE DEF u
<1>2. Fits(r, v, u, env)
  BY <1>1, FitsWider
<1>3. CASE level = "args"
  <2>1. FitsAll(l, vs, u, env)
    <3>1. FitsAll(l, vs, p, env)
      BY <1>3 DEF Agrees
    <3> QED BY <1>1, <3>1, FitsWider DEF FitsAll
  <2>2. FitsAll(Append(l, r), Append(vs, v), w, env)
    BY <1>1, <1>2, <2>1, FitsAppended
  <2> QED BY <1>3, <2>2 DEF Agrees, Joined
<1>4. CASE level \in {"or", "and"}
  <2>1. IsList(vs) /\ Len(vs) # 0 /\ Fits(l, Chosen(level, vs), u, env)
    BY <1>1, <1>4, FitsWider DEF Agrees
  <2>2. Fits(Joined(level, l, r), Logical(level, Chosen(level, vs), v), w, env)
    BY <1>1, <1>2, <1>4, <2>1, LogicalFits
  <2>3. Chosen(level, Append(vs, v)) = Logical(level, Chosen(level, vs), v)
    BY <2>1, ChosenAppended
  <2>4. IsList(Append(vs, v)) /\ Len(Append(vs, v)) # 0
    BY <2>1, ListAppended, ListIs
  <2> QED BY <1>4, <2>2, <2>3, <2>4 DEF Agrees
<1> QED BY <1>3, <1>4 DEF Listed

\* One level, from the level's parts.
LEMMA ListsAgree ==
  ASSUME NEW b, NEW c, NEW s, Len(s) \in Nat, NEW env,
         Agreement(b, c, s, env), TakesTokens(b, s), NEW level \in Listed,
         NEW i \in Positions(s), NEW j \in Positions(s), i < j
  PROVE  AllAgree(Chains(level, b, s, i, j), Lists(level, c, s, i, j), level, j - i, env)
<1> DEFINE rule == Operand[level]
           w == j - i
<1>1. rule \in Rules /\ level \in Levels
  BY ListedAre
<1>2. i \in Int /\ j \in Int /\ w \in Int /\ 1 <= w
  BY PositionsBetween
<1>3. ASSUME NEW k \in i .. j - 1
      PROVE  /\ k \in Positions(s) /\ k + 1 \in Positions(s)
             /\ k - i \in Int /\ k - i < w
             /\ j - (k + 1) \in Int /\ j - (k + 1) < w
  <2>1. k \in Positions(s) /\ k + 1 \in Positions(s)
    BY PositionsBetween
  <2> QED BY <1>2, <2>1
<1>4. \A p, q \in Positions(s) : AllFit(b[rule][p][q], ValuesOf(rule, c, p, q), q - p, env)
  BY <1>1, ValuesFit
<1>5. \A p, q \in Positions(s) : AllAgree(b[level][p][q], c[level][p][q], level, q - p, env)
  BY <1>1 DEF Agreement
<1>6. ASSUME NEW t \in Chains(level, b, s, i, j)
      PROVE  \E x \in Lists(level, c, s, i, j) : Agrees(level, t, x, w, env)
  <2>1. ASSUME NEW a \in b[rule][i][j], t = FirstOf(level, a)
        PROVE  \E x \in Lists(level, c, s, i, j) : Agrees(level, t, x, w, env)
    <3>1. PICK v \in ValuesOf(rule, c, i, j) : Fits(a, v, w, env)
      BY <1>4 DEF AllFit
    <3>2. Agrees(level, t, <<v>>, w, env)
      BY <1>2, <2>1, <3>1, AgreesOne
    <3>3. <<v>> \in Lists(level, c, s, i, j)
      BY <1>2, <3>1, ListsAre
    <3> QED BY <3>2, <3>3
  <2>2. ASSUME NEW k \in i .. j - 1, s[k] = Symbol[level],
               NEW l \in b[level][i][k], NEW r \in b[rule][k + 1][j], t = Joined(level, l, r)
        PROVE  \E x \in Lists(level, c, s, i, j) : Agrees(level, t, x, w, env)
    <3>1. PICK vs \in c[level][i][k] : Agrees(level, l, vs, k - i, env)
      BY <1>3, <1>5 DEF AllAgree
    <3>2. PICK v \in ValuesOf(rule, c, k + 1, j) : Fits(r, v, j - (k + 1), env)
      BY <1>3, <1>4 DEF AllFit
    <3>3. Agrees(level, t, Append(vs, v), w, env)
      <4> HIDE DEF w
      <4> QED BY <1>2, <1>3, <2>2, <3>1, <3>2, AgreesAppended
    <3>4. Append(vs, v) \in Lists(level, c, s, i, j)
      BY <1>2, <2>2, <3>1, <3>2, ListsAre
    <3> QED BY <3>3, <3>4
  <2> QED BY <1>2, <2>1, <2>2, ListChainsAre
<1>7. ASSUME NEW x \in Lists(level, c, s, i, j)
      PROVE  \E t \in Chains(level, b, s, i, j) : Agrees(level, t, x, w, env)
  <2>1. ASSUME NEW v \in ValuesOf(rule, c, i, j), x = <<v>>
        PROVE  \E t \in Chains(level, b, s, i, j) : Agrees(level, t, x, w, env)
    <3>1. PICK a \in b[rule][i][j] : Fits(a, v, w, env)
      BY <1>4 DEF AllFit
    <3>2. Agrees(level, FirstOf(level, a), x, w, env)
      BY <1>2, <2>1, <3>1, AgreesOne
    <3>3. FirstOf(level, a) \in Chains(level, b, s, i, j)
      BY <1>2, <3>1, ListChainsAre
    <3> QED BY <3>2, <3>3
  <2>2. ASSUME NEW k \in i .. j - 1, s[k] = Symbol[level],
               NEW vs \in c[level][i][k], NEW v \in ValuesOf(rule, c, k + 1, j),
               x = Append(vs, v)
        PROVE  \E t \in Chains(level, b, s, i, j) : Agrees(level, t, x, w, env)
    <3>1. PICK l \in b[level][i][k] : Agrees(level, l, vs, k - i, env)
      BY <1>3, <1>5 DEF AllAgree
    <3>2. PICK r \in b[rule][k + 1][j] : Fits(r, v, j - (k + 1), env)
      BY <1>3, <1>4 DEF AllFit
    <3>3. Agrees(level, Joined(level, l, r), x, w, env)
      <4> HIDE DEF w
      <4> QED BY <1>2, <1>3, <2>2, <3>1, <3>2, AgreesAppended
    <3>4. Joined(level, l, r) \in Chains(level, b, s, i, j)
      BY <1>2, <2>2, <3>1, <3>2, ListChainsAre
    <3> QED BY <3>3, <3>4
  <2> QED BY <1>2, <2>1, <2>2, ListsAre
<1> QED BY <1>6, <1>7 DEF AllAgree

LEMMA KeysAgree ==
  ASSUME NEW b, NEW c, NEW s, Len(s) \in Nat, NEW env, Agreement(b, c, s, env),
         NEW i \in Positions(s), NEW j \in Positions(s)
  PROVE  \A t : t \in Chains("keys", b, s, i, j) <=> t \in Chains("keys", c, s, i, j)
<1>1. i \in Int /\ j \in Int
  BY PositionsBetween
<1>2. \A p, q \in Positions(s) : \A t : t \in b["keys"][p][q] <=> t \in c["keys"][p][q]
  <2>1. \A t, x, w : Agrees("keys", t, x, w, env) <=> t = x
    BY DEF Agrees
  <2>2. \A p, q \in Positions(s) :
           AllAgree(b["keys"][p][q], c["keys"][p][q], "keys", q - p, env)
    BY EveryLevel DEF Agreement
  <2> QED BY <2>1, <2>2 DEF AllAgree
<1>3. \A k \in i .. j - 1 : \A t : t \in b["keys"][i][k] <=> t \in c["keys"][i][k]
  BY <1>2, PositionsBetween
<1>4. \A p, t : t \in Items("keys", b, s, p, j) <=> t \in Items("keys", c, s, p, j)
  BY ItemsAre
<1>5. \A t : t \in Firsts("keys", b, s, i, j) <=> t \in Firsts("keys", c, s, i, j)
  BY FirstsAre
<1> DEFINE Longer(d, t) ==
             \E k \in i .. j - 1 :
                /\ s[k] = Symbol["keys"]
                /\ \E l \in d["keys"][i][k], r \in Items("keys", d, s, k + 1, j) :
                      t = Joined("keys", l, r)
<1>6. \A d, t : t \in Chains("keys", d, s, i, j) <=>
                   t \in Firsts("keys", d, s, i, j) \/ Longer(d, t)
  BY <1>1, ChainsAre
<1>7. \A t : Longer(b, t) <=> Longer(c, t)
  BY <1>3, <1>4
<1> HIDE DEF Longer
<1> QED BY <1>5, <1>6, <1>7

LEMMA NotsFit ==
  ASSUME NEW b, NEW c, NEW s, Len(s) \in Nat, NEW env, Agreement(b, c, s, env),
         NEW i \in Positions(s), NEW j \in Positions(s), i < j
  PROVE  AllFit(Nots(b, s, i, j), NotValues(c, s, i, j), j - i, env)
<1> DEFINE w == j - i
           u == j - (i + 1)
<1>1. u \in Int /\ w \in Int /\ u < w /\ 1 <= w /\ i + 1 \in Positions(s)
  BY PositionsBetween
<1>2. AllFit(b["cmp"][i][j], c["cmp"][i][j], w, env)
  <2>1. "cmp" \in Rules /\ ValuesOf("cmp", c, i, j) = c["cmp"][i][j]
    BY EveryRule DEF ValuesOf
  <2> QED BY <2>1, ValuesFit
<1>3. AllFit(b["not"][i + 1][j], c["not"][i + 1][j], u, env)
  <2>1. "not" \in Rules /\ ValuesOf("not", c, i + 1, j) = c["not"][i + 1][j]
    BY EveryRule DEF ValuesOf
  <2> QED BY <1>1, <2>1, ValuesFit
<1> HIDE DEF w, u
<1>4. \A e, v : Fits(e, v, u, env) => Fits(NotOf(e), Negated(v), w, env)
  BY <1>1, NotFits
<1>5. ASSUME NEW t \in Nots(b, s, i, j)
      PROVE  \E v \in NotValues(c, s, i, j) : Fits(t, v, w, env)
  BY <1>2, <1>3, <1>4, NotsAre, NotValuesAre DEF AllFit
<1>6. ASSUME NEW v \in NotValues(c, s, i, j)
      PROVE  \E t \in Nots(b, s, i, j) : Fits(t, v, w, env)
  BY <1>2, <1>3, <1>4, NotsAre, NotValuesAre DEF AllFit
<1> QED BY <1>5, <1>6 DEF AllFit, w

LEMMA CmpsFit ==
  ASSUME NEW b, NEW c, NEW s, Len(s) \in Nat, NEW env, Agreement(b, c, s, env),
         NEW i \in Positions(s), NEW j \in Positions(s), i < j
  PROVE  AllFit(Cmps(b, s, i, j), CmpValues(c, s, i, j), j - i, env)
<1> DEFINE w == j - i
           u == w - 1
<1>1. u \in Int /\ w \in Int /\ u < w /\ 1 <= w
  <2>1. i \in Int /\ j \in Int
    BY PositionsBetween
  <2> QED BY <2>1
<1>2. \A p, q \in Positions(s) : AllFit(b["primary"][p][q], c["primary"][p][q], q - p, env)
  <2>1. "primary" \in Rules
        /\ \A p, q : ValuesOf("primary", c, p, q) = c["primary"][p][q]
    BY EveryRule DEF ValuesOf
  <2> QED BY <2>1, ValuesFit
<1>3. ASSUME NEW k \in i .. j - 1
      PROVE  /\ AllFit(b["primary"][i][k], c["primary"][i][k], u, env)
             /\ AllFit(b["primary"][k + 1][j], c["primary"][k + 1][j], u, env)
  <2>1. k \in Positions(s) /\ k + 1 \in Positions(s) /\ i \in Int /\ j \in Int /\ k \in Int
    BY PositionsBetween
  <2>2. k - i \in Int /\ k - i <= u /\ j - (k + 1) \in Int /\ j - (k + 1) <= u
    BY <2>1
  <2>3. /\ AllFit(b["primary"][i][k], c["primary"][i][k], k - i, env)
        /\ AllFit(b["primary"][k + 1][j], c["primary"][k + 1][j], j - (k + 1), env)
    BY <1>2, <2>1
  <2> HIDE DEF u
  <2> QED BY <1>1, <2>2, <2>3, FitsWider DEF AllFit
<1>4. AllFit(b["primary"][i][j], c["primary"][i][j], w, env)
  BY <1>2
<1> HIDE DEF w, u
<1>5. \A op, l, x, r, y : Fits(l, x, u, env) /\ Fits(r, y, u, env) =>
                             Fits(CmpOf(op, l, r), Compared(x, op, y), w, env)
  BY <1>1, CmpFits
<1>6. ASSUME NEW t \in Cmps(b, s, i, j)
      PROVE  \E v \in CmpValues(c, s, i, j) : Fits(t, v, w, env)
  <2>1. CASE t \in b["primary"][i][j]
    BY <2>1, <1>4, CmpValuesAre DEF AllFit
  <2>2. ASSUME NEW k \in i .. j - 1, s[k] \in Operators,
               NEW l \in b["primary"][i][k], NEW r \in b["primary"][k + 1][j],
               t = CmpOf(s[k], l, r)
        PROVE  \E v \in CmpValues(c, s, i, j) : Fits(t, v, w, env)
    <3>1. PICK x \in c["primary"][i][k], y \in c["primary"][k + 1][j] :
             Fits(l, x, u, env) /\ Fits(r, y, u, env)
      BY <1>3 DEF AllFit
    <3>2. Compared(x, s[k], y) \in CmpValues(c, s, i, j)
      BY <2>2, <3>1, CmpValuesAre
    <3> QED BY <1>5, <2>2, <3>1, <3>2
  <2>3. \/ t \in b["primary"][i][j]
        \/ \E k \in i .. j - 1 :
              /\ s[k] \in Operators
              /\ \E l \in b["primary"][i][k], r \in b["primary"][k + 1][j] :
                    t = CmpOf(s[k], l, r)
    BY CmpsAre
  <2> QED BY <2>1, <2>2, <2>3
<1>7. ASSUME NEW v \in CmpValues(c, s, i, j)
      PROVE  \E t \in Cmps(b, s, i, j) : Fits(t, v, w, env)
  <2>1. CASE v \in c["primary"][i][j]
    BY <2>1, <1>4, CmpsAre DEF AllFit
  <2>2. ASSUME NEW k \in i .. j - 1, s[k] \in Operators,
               NEW x \in c["primary"][i][k], NEW y \in c["primary"][k + 1][j],
               v = Compared(x, s[k], y)
        PROVE  \E t \in Cmps(b, s, i, j) : Fits(t, v, w, env)
    <3>1. PICK l \in b["primary"][i][k], r \in b["primary"][k + 1][j] :
             Fits(l, x, u, env) /\ Fits(r, y, u, env)
      BY <1>3 DEF AllFit
    <3>2. CmpOf(s[k], l, r) \in Cmps(b, s, i, j)
      BY <2>2, <3>1, CmpsAre
    <3> QED BY <1>5, <2>2, <3>1, <3>2
  <2>3. \/ v \in c["primary"][i][j]
        \/ \E k \in i .. j - 1 :
              /\ s[k] \in Operators
              /\ \E x \in c["primary"][i][k], y \in c["primary"][k + 1][j] :
                    v = Compared(x, s[k], y)
    BY CmpValuesAre
  <2> QED BY <2>1, <2>2, <2>3
<1> QED BY <1>6, <1>7 DEF AllFit, w


LEMMA PrimariesFit ==
  ASSUME NEW b, NEW c, NEW s, Len(s) \in Nat, NEW env, Agreement(b, c, s, env),
         NEW i \in Positions(s), NEW j \in Positions(s), i < j
  PROVE  AllFit(Primaries(b, s, i, j), PrimaryValues(c, s, i, j), j - i, env)
<1> DEFINE w == j - i
<1>1. i \in Int /\ j \in Int /\ w \in Int /\ 1 <= w
  <2>1. i \in Int /\ j \in Int
    BY PositionsBetween
  <2> QED BY <2>1
<1>2. AllFit(b["variable_or_call"][i][j], c["variable_or_call"][i][j], w, env)
  <2>1. "variable_or_call" \in Rules
        /\ ValuesOf("variable_or_call", c, i, j) = c["variable_or_call"][i][j]
    BY EveryRule DEF ValuesOf
  <2> QED BY <2>1, ValuesFit
<1>3. ASSUME i + 1 < j - 1
      PROVE  AllFit(b["or"][i + 1][j - 1], ValuesOf("or", c, i + 1, j - 1), w, env)
  <2> DEFINE u == (j - 1) - (i + 1)
  <2>1. "or" \in Rules /\ i + 1 \in Positions(s) /\ j - 1 \in Positions(s)
    BY <1>3, EveryRule, PositionsBetween
  <2>2. AllFit(b["or"][i + 1][j - 1], ValuesOf("or", c, i + 1, j - 1), u, env)
    BY <2>1, ValuesFit
  <2>3. u \in Int /\ u <= w
    BY <1>1
  <2> HIDE DEF u, w
  <2> QED BY <1>1, <2>2, <2>3, FitsWider DEF AllFit
<1> HIDE DEF w
<1>4. \A v : Fits(LiteralOf(v), v, w, env)
  BY <1>1, LiteralFits
<1>5. ASSUME NEW t \in Primaries(b, s, i, j)
      PROVE  \E v \in PrimaryValues(c, s, i, j) : Fits(t, v, w, env)
  <2>1. CASE t \in b["variable_or_call"][i][j]
    BY <1>2, <2>1, PrimaryValuesAre DEF AllFit
  <2>2. CASE j = i + 1 /\ s[i] \in Known /\ t = LiteralOf(KnownValue(s[i]))
    BY <1>4, <2>2, PrimaryValuesAre
  <2>3. CASE i + 1 < j - 1 /\ s[i] = "(" /\ s[j - 1] = ")" /\ t \in b["or"][i + 1][j - 1]
    BY <1>3, <2>3, PrimaryValuesAre DEF AllFit
  <2> QED BY <2>1, <2>2, <2>3, PrimariesAre
<1>6. ASSUME NEW v \in PrimaryValues(c, s, i, j)
      PROVE  \E t \in Primaries(b, s, i, j) : Fits(t, v, w, env)
  <2>1. CASE v \in c["variable_or_call"][i][j]
    BY <1>2, <2>1, PrimariesAre DEF AllFit
  <2>2. CASE j = i + 1 /\ s[i] \in Known /\ v = KnownValue(s[i])
    BY <1>4, <2>2, PrimariesAre
  <2>3. CASE /\ i + 1 < j - 1
             /\ s[i] = "("
             /\ s[j - 1] = ")"
             /\ v \in ValuesOf("or", c, i + 1, j - 1)
    BY <1>3, <2>3, PrimariesAre DEF AllFit
  <2> QED BY <2>1, <2>2, <2>3, PrimaryValuesAre
<1> QED BY <1>5, <1>6 DEF AllFit, w

LEMMA ArgumentsFit ==
  ASSUME NEW b, NEW c, NEW s, Len(s) \in Nat, NEW env, Agreement(b, c, s, env),
         NEW i \in Positions(s), NEW j \in Positions(s), NEW w \in Int, j - i <= w
  PROVE  /\ \A args \in Arguments(b, i, j) : \E vs \in Arguments(c, i, j) :
               FitsAll(args, vs, w, env)
         /\ \A vs \in Arguments(c, i, j) : \E args \in Arguments(b, i, j) :
               FitsAll(args, vs, w, env)
<1>1. CASE i = j
  <2>1. Arguments(b, i, j) = {<<>>} /\ Arguments(c, i, j) = {<<>>}
    BY <1>1 DEF Arguments
  <2>2. FitsAll(<<>>, <<>>, w, env)
    BY DEF FitsAll, IsList
  <2> QED BY <2>1, <2>2
<1>2. CASE i # j
  <2>1. Arguments(b, i, j) = b["args"][i][j] /\ Arguments(c, i, j) = c["args"][i][j]
    BY <1>2 DEF Arguments
  <2>2. AllAgree(b["args"][i][j], c["args"][i][j], "args", j - i, env)
    BY EveryLevel DEF Agreement
  <2>3. \A t, x : Agrees("args", t, x, j - i, env) => FitsAll(t, x, w, env)
    <3>1. j - i \in Int
      <4>1. i \in Int /\ j \in Int
        BY PositionsBetween
      <4> QED BY <4>1
    <3>2. \A t, x : Agrees("args", t, x, j - i, env) <=> FitsAll(t, x, j - i, env)
      BY DEF Agrees
    <3> QED BY <3>1, <3>2, FitsWider DEF FitsAll
  <2> QED BY <2>1, <2>2, <2>3 DEF AllAgree
<1> QED BY <1>1, <1>2

LEMMA PathsFit ==
  ASSUME NEW b, NEW c, NEW s, Len(s) \in Nat, NEW env, Agreement(b, c, s, env),
         NEW i \in Positions(s), NEW j \in Positions(s), i < j
  PROVE  AllFit(VariablesAndCalls(b, s, i, j), PathValues(c, s, env, i, j), j - i, env)
<1> DEFINE w == j - i
           u == w - 1
<1>1. i \in Int /\ j \in Int /\ u \in Int /\ w \in Int /\ u < w /\ 1 <= w
  <2>1. i \in Int /\ j \in Int
    BY PositionsBetween
  <2> QED BY <2>1
<1>2. \A p, q \in Positions(s) : \A t : t \in b["keys"][p][q] <=> t \in c["keys"][p][q]
  <2>1. \A t, x, n : Agrees("keys", t, x, n, env) <=> t = x
    BY DEF Agrees
  <2>2. \A p, q \in Positions(s) :
           AllAgree(b["keys"][p][q], c["keys"][p][q], "keys", q - p, env)
    BY EveryLevel DEF Agreement
  <2> QED BY <2>1, <2>2 DEF AllAgree
<1>3. ASSUME NEW k \in i .. j - 2
      PROVE  /\ k \in Positions(s)
             /\ \A args \in Arguments(b, k + 1, j - 1) :
                   \E vs \in Arguments(c, k + 1, j - 1) : FitsAll(args, vs, u, env)
             /\ \A vs \in Arguments(c, k + 1, j - 1) :
                   \E args \in Arguments(b, k + 1, j - 1) : FitsAll(args, vs, u, env)
  <2>1. k \in Int /\ k \in Positions(s) /\ k + 1 \in Positions(s) /\ j - 1 \in Positions(s)
    BY PositionsBetween
  <2>2. (j - 1) - (k + 1) <= u
    BY <1>1, <2>1
  <2> HIDE DEF u
  <2> QED BY <1>1, <2>1, <2>2, ArgumentsFit
<1> HIDE DEF w, u
<1>4. \A p : Fits(VariableOf(p), Resolve(env, p), w, env)
  BY <1>1, VariableFits
<1>5. \A p, args, vs : FitsAll(args, vs, u, env) =>
                          Fits(CallOf(p, args), CallValue(p, vs, env), w, env)
  BY <1>1, CallFits
<1>6. ASSUME NEW t \in VariablesAndCalls(b, s, i, j)
      PROVE  \E v \in PathValues(c, s, env, i, j) : Fits(t, v, w, env)
  <2>1. ASSUME NEW p \in b["keys"][i][j], t = VariableOf(p)
        PROVE  \E v \in PathValues(c, s, env, i, j) : Fits(t, v, w, env)
    <3>1. Resolve(env, p) \in PathValues(c, s, env, i, j)
      BY <1>2, PathValuesAre
    <3> QED BY <1>4, <2>1, <3>1
  <2>2. ASSUME NEW k \in i .. j - 2, s[k] = "(", s[j - 1] = ")",
               NEW p \in b["keys"][i][k], NEW args \in Arguments(b, k + 1, j - 1),
               t = CallOf(p, args)
        PROVE  \E v \in PathValues(c, s, env, i, j) : Fits(t, v, w, env)
    <3>1. PICK vs \in Arguments(c, k + 1, j - 1) : FitsAll(args, vs, u, env)
      BY <1>3
    <3>2. p \in c["keys"][i][k]
      BY <1>2, <1>3
    <3>3. CallValue(p, vs, env) \in PathValues(c, s, env, i, j)
      BY <2>2, <3>2, PathValuesAre
    <3> QED BY <1>5, <2>2, <3>1, <3>3
  <2>3. \/ \E p \in b["keys"][i][j] : t = VariableOf(p)
        \/ \E k \in i .. j - 2 :
              /\ s[k] = "("
              /\ s[j - 1] = ")"
              /\ \E p \in b["keys"][i][k], args \in Arguments(b, k + 1, j - 1) :
                    t = CallOf(p, args)
    BY VariablesAndCallsAre
  <2> QED BY <2>1, <2>2, <2>3
<1>7. ASSUME NEW v \in PathValues(c, s, env, i, j)
      PROVE  \E t \in VariablesAndCalls(b, s, i, j) : Fits(t, v, w, env)
  <2>1. ASSUME NEW p \in c["keys"][i][j], v = Resolve(env, p)
        PROVE  \E t \in VariablesAndCalls(b, s, i, j) : Fits(t, v, w, env)
    <3>1. VariableOf(p) \in VariablesAndCalls(b, s, i, j)
      BY <1>2, VariablesAndCallsAre
    <3> QED BY <1>4, <2>1, <3>1
  <2>2. ASSUME NEW k \in i .. j - 2, s[k] = "(", s[j - 1] = ")",
               NEW p \in c["keys"][i][k], NEW vs \in Arguments(c, k + 1, j - 1),
               v = CallValue(p, vs, env)
        PROVE  \E t \in VariablesAndCalls(b, s, i, j) : Fits(t, v, w, env)
    <3>1. PICK args \in Arguments(b, k + 1, j - 1) : FitsAll(args, vs, u, env)
      BY <1>3
    <3>2. p \in b["keys"][i][k]
      BY <1>2, <1>3
    <3>3. CallOf(p, args) \in VariablesAndCalls(b, s, i, j)
      BY <2>2, <3>2, VariablesAndCallsAre
    <3> QED BY <1>5, <2>2, <3>1, <3>3
  <2>3. \/ \E p \in c["keys"][i][j] : v = Resolve(env, p)
        \/ \E k \in i .. j - 2 :
              /\ s[k] = "("
              /\ s[j - 1] = ")"
              /\ \E p \in c["keys"][i][k], args \in Arguments(c, k + 1, j - 1) :
                    v = CallValue(p, args, env)
    BY PathValuesAre
  <2> QED BY <2>1, <2>2, <2>3
<1> QED BY <1>6, <1>7 DEF AllFit, w

\* What has no trees has no values.
LEMMA MeansTakeTokens ==
  ASSUME NEW b, NEW c, NEW s, Len(s) \in Nat, NEW env, Agreement(b, c, s, env),
         TakesTokens(b, s), NEW level \in Levels,
         NEW i \in Positions(s), NEW j \in Positions(s), ~(i < j)
  PROVE  Means(level, c, s, env, i, j) = {}
<1>1. \A x \in Levels : \A v : v \notin c[x][i][j]
  <2>1. \A x \in Levels : \A t : t \notin b[x][i][j]
    BY DEF TakesTokens
  <2> QED BY <2>1 DEF Agreement, AllAgree
<1>2. \A rule \in Rules : \A v : v \notin ValuesOf(rule, c, i, j)
  <2>1. \A rule \in Rules : \A t : t \notin b[rule][i][j]
    BY EveryRule DEF TakesTokens
  <2>2. \A rule \in Rules : AllFit(b[rule][i][j], ValuesOf(rule, c, i, j), j - i, env)
    BY ValuesFit
  <2> QED BY <2>1, <2>2 DEF AllFit
<1>3. i \in Int /\ j \in Int /\ i .. j - 1 = {} /\ i .. j - 2 = {}
      /\ j # i + 1 /\ ~(i + 1 < j - 1)
  BY DEF Positions
<1>4. SUFFICES ASSUME NEW x \in Means(level, c, s, env, i, j) PROVE FALSE
  BY Zenon
<1>5. CASE level \in Listed
  <2>1. Means(level, c, s, env, i, j) = Lists(level, c, s, i, j)
    BY <1>5, ListMeans
  <2>2. Operand[level] \in Rules
    BY <1>5, ListedAre
  <2>3. x \in Lists(level, c, s, i, j)
    BY <2>1
  <2> QED BY <1>2, <1>3, <2>2, <2>3, ListsAre
<1>6. CASE level = "keys"
  <2>1. x \in Chains("keys", c, s, i, j)
    BY <1>6, MeansAre
  <2>2. x \in Firsts("keys", c, s, i, j)
    BY <1>3, <2>1, ChainsAre
  <2> QED BY <1>3, <2>2, FirstsAre
<1>7. CASE level = "not"
  <2>1. x \in NotValues(c, s, i, j) /\ "cmp" \in Levels
    BY <1>7, MeansAre, EveryLevel
  <2> QED BY <1>1, <2>1, NotValuesAre
<1>8. CASE level = "cmp"
  <2>1. x \in CmpValues(c, s, i, j) /\ "primary" \in Levels
    BY <1>8, MeansAre, EveryLevel
  <2> QED BY <1>1, <1>3, <2>1, CmpValuesAre
<1>9. CASE level = "primary"
  <2>1. x \in PrimaryValues(c, s, i, j) /\ "variable_or_call" \in Levels
    BY <1>9, MeansAre, EveryLevel
  <2> QED BY <1>1, <1>3, <2>1, PrimaryValuesAre
<1>10. CASE level = "variable_or_call"
  <2>1. x \in PathValues(c, s, env, i, j) /\ "keys" \in Levels
    BY <1>10, MeansAre, EveryLevel
  <2> QED BY <1>1, <1>3, <2>1, PathValuesAre
<1> QED BY <1>5, <1>6, <1>7, <1>8, <1>9, <1>10, EveryLevel DEF Listed

\* Every level of a span, from what is lower by one.
LEMMA LevelsAgree ==
  ASSUME NEW b, NEW c, NEW s, Len(s) \in Nat, NEW env, Agreement(b, c, s, env),
         TakesTokens(b, s), NEW level \in Levels,
         NEW i \in Positions(s), NEW j \in Positions(s)
  PROVE  AllAgree(Phrases(level, b, s, i, j), Means(level, c, s, env, i, j),
                  level, j - i, env)
<1>1. CASE ~(i < j)
  <2>1. \A t : t \notin Phrases(level, b, s, i, j)
    BY <1>1, PhrasesTakeTokens
  <2>2. Means(level, c, s, env, i, j) = {}
    BY <1>1, MeansTakeTokens
  <2> QED BY <2>1, <2>2 DEF AllAgree
<1>2. CASE i < j
  <2>1. CASE level \in Listed
    <3>1. /\ Phrases(level, b, s, i, j) = Chains(level, b, s, i, j)
          /\ Means(level, c, s, env, i, j) = Lists(level, c, s, i, j)
      BY <2>1, ListedAre, LoopPhrases, ListMeans
    <3>2. AllAgree(Chains(level, b, s, i, j), Lists(level, c, s, i, j), level, j - i, env)
      BY <1>2, <2>1, ListsAgree
    <3> QED BY <3>1, <3>2, Zenon
  <2>2. CASE level = "keys"
    <3>1. \A t : t \in Phrases(level, b, s, i, j) <=> t \in Means(level, c, s, env, i, j)
      <4>1. /\ Phrases(level, b, s, i, j) = Chains("keys", b, s, i, j)
            /\ Means(level, c, s, env, i, j) = Chains("keys", c, s, i, j)
        BY <2>2, EveryLevel, LoopPhrases, MeansAre
      <4> QED BY <4>1, KeysAgree
    <3>2. \A t : Agrees(level, t, t, j - i, env)
      BY <2>2 DEF Agrees
    <3> QED BY <3>1, <3>2 DEF AllAgree
  <2>3. CASE level \in {"not", "cmp", "primary", "variable_or_call"}
    <3>1. \A t, x, w : Agrees(level, t, x, w, env) <=> Fits(t, x, w, env)
      BY <2>3 DEF Agrees
    <3>2. \A ts, xs, w : AllFit(ts, xs, w, env) => AllAgree(ts, xs, level, w, env)
      BY <3>1 DEF AllFit, AllAgree
    <3>3. AllFit(Phrases(level, b, s, i, j), Means(level, c, s, env, i, j), j - i, env)
      <4>1. CASE level = "not"
        BY <1>2, <4>1, PhrasesAre, MeansAre, NotsFit
      <4>2. CASE level = "cmp"
        BY <1>2, <4>2, PhrasesAre, MeansAre, CmpsFit
      <4>3. CASE level = "primary"
        BY <1>2, <4>3, PhrasesAre, MeansAre, PrimariesFit
      <4>4. CASE level = "variable_or_call"
        BY <1>2, <4>4, PhrasesAre, MeansAre, PathsFit
      <4> QED BY <2>3, <4>1, <4>2, <4>3, <4>4
    <3> QED BY <3>2, <3>3
  <2> QED BY <2>1, <2>2, <2>3, EveryLevel DEF Listed
<1> QED BY <1>1, <1>2

\* By induction on the height of the derivations.
LEMMA HeightsAgree ==
  ASSUME NEW s, Len(s) \in Nat, NEW env, NEW m \in Nat,
         NEW g, IsBelow(g, s, m), NEW h, IsMeans(h, s, env, m), NEW n \in 0 .. m
  PROVE  Agreement(g[n], h[n], s, env)
<1> DEFINE T == {p \in 0 .. m : ~Agreement(g[p], h[p], s, env)}
<1>1. T = {}
  <2> SUFFICES ASSUME T # {} PROVE FALSE
    OBVIOUS
  <2>1. PICK p \in T : \A k \in T : p <= k
    <3>1. T \in SUBSET Nat
      OBVIOUS
    <3> HIDE DEF T
    <3> QED BY <3>1, LeastNat
  <2>2. p \in 0 .. m /\ ~Agreement(g[p], h[p], s, env)
    OBVIOUS
  <2>3. PICK x \in Levels, i \in Positions(s), j \in Positions(s) :
           ~AllAgree(g[p][x][i][j], h[p][x][i][j], x, j - i, env)
    BY <2>2 DEF Agreement
  <2>4. /\ g[p][x][i][j] = IF p = 0 THEN {} ELSE Phrases(x, g[p - 1], s, i, j)
        /\ h[p][x][i][j] = IF p = 0 THEN {} ELSE Means(x, h[p - 1], s, env, i, j)
    <3> HIDE DEF T
    <3> QED BY <2>2, BelowAt, MeansAt
  <2>5. CASE p = 0
    BY <2>3, <2>4, <2>5 DEF AllAgree
  <2>6. CASE p # 0
    <3>1. p - 1 \in 0 .. m /\ p - 1 < p
      BY <2>2, <2>6
    <3>2. Agreement(g[p - 1], h[p - 1], s, env)
      <4>1. p - 1 \notin T
        BY <2>1, <2>2, <3>1
      <4> QED BY <3>1, <4>1
    <3> HIDE DEF T
    <3>3. TakesTokens(g[p - 1], s)
      BY <3>1, TreesTakeTokens DEF TakesTokens
    <3>4. AllAgree(Phrases(x, g[p - 1], s, i, j), Means(x, h[p - 1], s, env, i, j),
                   x, j - i, env)
      BY <3>2, <3>3, LevelsAgree
    <3> QED BY <2>3, <2>4, <2>6, <3>4, Zenon
  <2> QED BY <2>5, <2>6
<1> QED BY <1>1

---------------------------------------------------------------------------
(* A guard. *)

LEMMA GuardFits ==
  ASSUME NEW s, Len(s) \in Nat, NEW env
  PROVE  AllFit(Readings(s), Meanings(s, env), Len(s), env)
<1> DEFINE m == 8 * Len(s)
<1>1. m \in Nat /\ 1 \in Positions(s) /\ Len(s) + 1 \in Positions(s)
  BY DEF Positions
<1>2. PICK g : IsBelow(g, s, m) /\ Readings(s) = g[m]["or"][1][Len(s) + 1]
  BY <1>1, TreesAre DEF Readings
<1>3. PICK h : /\ IsMeans(h, s, env, m)
               /\ Meanings(s, env) = ValuesOf("or", h[m], 1, Len(s) + 1)
  BY MeaningsAre
<1> HIDE DEF m
<1>4. Agreement(g[m], h[m], s, env)
  BY <1>1, <1>2, <1>3, HeightsAgree
<1>5. AllFit(g[m]["or"][1][Len(s) + 1], ValuesOf("or", h[m], 1, Len(s) + 1),
             (Len(s) + 1) - 1, env)
  BY <1>1, <1>4, EveryRule, ValuesFit
<1> QED BY <1>2, <1>3, <1>5

\* No guard means two things, and one that has a tree means something: grouping
\* the operands of "and" and "or" from the left is the same as taking the first
\* that decides.
THEOREM OneMeaning ==
  ASSUME NEW s, Len(s) \in Nat, NEW env
  PROVE  /\ Meanings(s, env) = {} <=> Readings(s) = {}
         /\ \A v, x \in Meanings(s, env) : v = x
<1>1. AllFit(Readings(s), Meanings(s, env), Len(s), env)
  BY GuardFits
<1>2. ASSUME NEW v \in Meanings(s, env), NEW x \in Meanings(s, env) PROVE v = x
  <2>1. PICK t \in Readings(s), u \in Readings(s) :
           Fits(t, v, Len(s), env) /\ Fits(u, x, Len(s), env)
    BY <1>1 DEF AllFit
  <2>2. t = u
    BY <2>1, OneTree
  <2>3. EvaluateTo(Len(s), t, env) = v /\ EvaluateTo(Len(s), u, env) = x
    BY <2>1 DEF Fits
  <2> QED BY <2>2, <2>3
<1> QED BY <1>1, <1>2 DEF AllFit

\* What the parser accepts means one thing, and evaluate() of its tree returns
\* that or, where calls would nest too deep, raises an error: no deeper than the
\* guard has tokens.
THEOREM EvaluatedRight ==
  ASSUME NEW s, Len(s) \in Nat, NEW env, Parses(s)
  PROVE  \E v : /\ Meanings(s, env) = {v}
                /\ Evaluate(Parse(s).ast, env) \in {v, Error}
                /\ Len(s) <= MaxNesting => Evaluate(Parse(s).ast, env) = v
<1>1. Readings(s) = {Parse(s).ast}
  BY ParsedRight
<1>2. PICK v \in Meanings(s, env) : Fits(Parse(s).ast, v, Len(s), env)
  BY <1>1, GuardFits DEF AllFit
<1>3. Meanings(s, env) = {v}
  BY <1>2, OneMeaning
<1>4. /\ Evaluate(Parse(s).ast, env) \in {v, Error}
      /\ Len(s) <= MaxNesting => Evaluate(Parse(s).ast, env) = v
  BY <1>2, TokensAssumption DEF Evaluate, Fits
<1> QED BY <1>3, <1>4
=============================================================================
