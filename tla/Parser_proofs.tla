--------------------------- MODULE Parser_proofs ---------------------------
(***************************************************************************)
(* The parser reads a guard as the grammar does, for every guard: what it  *)
(* returns is a tree of the grammar, there is no other, and it finds it if *)
(* calls may nest deep enough.                                             *)
(***************************************************************************)
EXTENDS Parser, WellFoundedInduction, TLAPS

---------------------------------------------------------------------------
(* Induction. *)

\* A set of natural numbers that is not empty has a least element.
LEMMA LeastNat ==
  ASSUME NEW T \in SUBSET Nat, T # {}
  PROVE  \E m \in T : \A k \in T : m <= k
<1> DEFINE R == {ss \in Nat \X Nat : ss[1] < ss[2]}
<1>1. R = OpToRel(<, Nat)
  BY Zenon DEF OpToRel
<1>2. IsWellFoundedOn(R, Nat)
  BY <1>1, NatLessThanWellFounded, Zenon
<1>3. \E x \in T : \A y \in T : ~(<<y, x>> \in R)
  <2> HIDE DEF R
  <2> QED BY <1>2, WFMin
<1>4. PICK x \in T : \A y \in T : ~(<<y, x>> \in R)
  BY <1>3
<1>5. ASSUME NEW y \in T PROVE x <= y
  <2>1. ~(y < x) BY <1>4 DEF R
  <2> QED BY <2>1
<1> QED BY <1>5

---------------------------------------------------------------------------
(* The recursive functions and their equations. *)

Positions(s) == 1 .. Len(s) + 1

\* What the methods return for every depth up to m.
IsCalls(f, s, m) ==
  f = [d \in 0 .. m |-> [x \in Rules |-> [y \in Positions(s) |->
                            IF d = 0 THEN Failed ELSE Rule(x, f[d - 1], s, y)]]]

\* The derivations for every height up to m.
IsBelow(g, s, m) ==
  g = [n \in 0 .. m |-> [x \in Levels |-> [y \in Positions(s) |-> [z \in Positions(s) |->
                            IF n = 0 THEN {} ELSE Phrases(x, g[n - 1], s, y, z)]]]]

\* The turns of a loop, up to m.
IsTurns(lhs, loop, call, s, i, m) ==
  lhs = [k \in 0 .. m |-> IF k = 0 THEN First(loop, call, s, i)
                          ELSE Turn(loop, call, s, lhs[k - 1])]

LEMMA CallsExist ==
  ASSUME NEW s, NEW n \in Nat
  PROVE  \E f : IsCalls(f, s, n)
<1> DEFINE T == {m \in Nat : ~\E f : IsCalls(f, s, m)}
           Base == [x \in Rules |-> [y \in Positions(s) |-> Failed]]
           Step(c) == [x \in Rules |-> [y \in Positions(s) |-> Rule(x, c, s, y)]]
<1>1. \A f, m : IsCalls(f, s, m) <=>
                f = [d \in 0 .. m |-> IF d = 0 THEN Base ELSE Step(f[d - 1])]
  <2> SUFFICES ASSUME NEW f, NEW m
      PROVE  [d \in 0 .. m |-> [x \in Rules |-> [y \in Positions(s) |->
                    IF d = 0 THEN Failed ELSE Rule(x, f[d - 1], s, y)]]]
             = [d \in 0 .. m |-> IF d = 0 THEN Base ELSE Step(f[d - 1])]
    BY DEF IsCalls
  <2>1. ASSUME NEW d \in 0 .. m
        PROVE  [x \in Rules |-> [y \in Positions(s) |->
                    IF d = 0 THEN Failed ELSE Rule(x, f[d - 1], s, y)]]
               = IF d = 0 THEN Base ELSE Step(f[d - 1])
    BY Zenon
  <2> QED BY <2>1
<1> HIDE DEF Base, Step
<1> SUFFICES ASSUME T # {} PROVE FALSE
  OBVIOUS
<1>2. PICK m \in T : \A k \in T : m <= k
  <2> HIDE DEF T
  <2>1. T \in SUBSET Nat BY DEF T
  <2> QED BY <2>1, LeastNat
<1>3. m # 0
  <2>1. IsCalls([d \in 0 .. 0 |-> Base], s, 0)
    BY <1>1
  <2> QED BY <2>1, <1>2
<1>4. m - 1 \in Nat /\ m - 1 \notin T
  BY <1>2, <1>3
<1>5. PICK f : IsCalls(f, s, m - 1)
  BY <1>4
<1> DEFINE h == [d \in 0 .. m |-> IF d = m THEN Step(f[m - 1]) ELSE f[d]]
<1>6. ASSUME NEW d \in 0 .. m
      PROVE  h[d] = IF d = 0 THEN Base ELSE Step(h[d - 1])
  <2>1. CASE d = m
    BY <2>1, <1>3, <1>4
  <2>2. CASE d # m
    <3>1. d \in 0 .. m - 1
      BY <2>2, <1>4
    <3>2. f[d] = IF d = 0 THEN Base ELSE Step(f[d - 1])
      BY <1>1, <1>5, <3>1
    <3> QED BY <3>1, <3>2, <2>2
  <2> QED BY <2>1, <2>2
<1>7. IsCalls(h, s, m)
  BY <1>1, <1>6
<1> QED BY <1>7, <1>2
LEMMA BelowExist ==
  ASSUME NEW s, NEW n \in Nat
  PROVE  \E f : IsBelow(f, s, n)
<1> DEFINE T == {m \in Nat : ~\E f : IsBelow(f, s, m)}
           Base == [x \in Levels |-> [y \in Positions(s) |-> [z \in Positions(s) |-> {}]]]
           Step(c) == [x \in Levels |-> [y \in Positions(s) |-> [z \in Positions(s) |->
                         Phrases(x, c, s, y, z)]]]
<1>1. \A f, m : IsBelow(f, s, m) <=>
                f = [d \in 0 .. m |-> IF d = 0 THEN Base ELSE Step(f[d - 1])]
  <2> SUFFICES ASSUME NEW f, NEW m
      PROVE  [d \in 0 .. m |-> [x \in Levels |-> [y \in Positions(s) |-> [z \in Positions(s) |->
                    IF d = 0 THEN {} ELSE Phrases(x, f[d - 1], s, y, z)]]]]
             = [d \in 0 .. m |-> IF d = 0 THEN Base ELSE Step(f[d - 1])]
    BY DEF IsBelow
  <2>1. ASSUME NEW d \in 0 .. m
        PROVE  [x \in Levels |-> [y \in Positions(s) |-> [z \in Positions(s) |->
                    IF d = 0 THEN {} ELSE Phrases(x, f[d - 1], s, y, z)]]]
               = IF d = 0 THEN Base ELSE Step(f[d - 1])
    BY Zenon
  <2> QED BY <2>1
<1> HIDE DEF Base, Step
<1> SUFFICES ASSUME T # {} PROVE FALSE
  OBVIOUS
<1>2. PICK m \in T : \A k \in T : m <= k
  <2> HIDE DEF T
  <2>1. T \in SUBSET Nat BY DEF T
  <2> QED BY <2>1, LeastNat
<1>3. m # 0
  <2>1. IsBelow([d \in 0 .. 0 |-> Base], s, 0)
    BY <1>1
  <2> QED BY <2>1, <1>2
<1>4. m - 1 \in Nat /\ m - 1 \notin T
  BY <1>2, <1>3
<1>5. PICK f : IsBelow(f, s, m - 1)
  BY <1>4
<1> DEFINE h == [d \in 0 .. m |-> IF d = m THEN Step(f[m - 1]) ELSE f[d]]
<1>6. ASSUME NEW d \in 0 .. m
      PROVE  h[d] = IF d = 0 THEN Base ELSE Step(h[d - 1])
  <2>1. CASE d = m
    BY <2>1, <1>3, <1>4
  <2>2. CASE d # m
    <3>1. d \in 0 .. m - 1
      BY <2>2, <1>4
    <3>2. f[d] = IF d = 0 THEN Base ELSE Step(f[d - 1])
      BY <1>1, <1>5, <3>1
    <3> QED BY <3>1, <3>2, <2>2
  <2> QED BY <2>1, <2>2
<1>7. IsBelow(h, s, m)
  BY <1>1, <1>6
<1> QED BY <1>7, <1>2

LEMMA TurnsExist ==
  ASSUME NEW loop, NEW call, NEW s, NEW i, NEW n \in Nat
  PROVE  \E lhs : IsTurns(lhs, loop, call, s, i, n)
<1> DEFINE T == {m \in Nat : ~\E f : IsTurns(f, loop, call, s, i, m)}
           Base == First(loop, call, s, i)
           Step(lhs) == Turn(loop, call, s, lhs)
<1>1. \A f, m : IsTurns(f, loop, call, s, i, m) <=>
                f = [k \in 0 .. m |-> IF k = 0 THEN Base ELSE Step(f[k - 1])]
  BY Zenon DEF IsTurns
<1> HIDE DEF Base, Step
<1> SUFFICES ASSUME T # {} PROVE FALSE
  OBVIOUS
<1>2. PICK m \in T : \A k \in T : m <= k
  <2> HIDE DEF T
  <2>1. T \in SUBSET Nat BY DEF T
  <2> QED BY <2>1, LeastNat
<1>3. m # 0
  <2> DEFINE b == [k \in 0 .. 0 |-> Base]
  <2>a. ASSUME NEW k \in 0 .. 0 PROVE Base = IF k = 0 THEN Base ELSE Step(b[k - 1])
    OBVIOUS
  <2>b. b = [k \in 0 .. 0 |-> IF k = 0 THEN Base ELSE Step(b[k - 1])]
    BY <2>a, Zenon
  <2>1. IsTurns(b, loop, call, s, i, 0)
    BY <1>1, <2>b
  <2> QED BY <2>1, <1>2
<1>4. m - 1 \in Nat /\ m - 1 \notin T
  BY <1>2, <1>3
<1>5. PICK f : IsTurns(f, loop, call, s, i, m - 1)
  BY <1>4
<1> DEFINE h == [k \in 0 .. m |-> IF k = m THEN Step(f[m - 1]) ELSE f[k]]
<1>6. ASSUME NEW k \in 0 .. m
      PROVE  h[k] = IF k = 0 THEN Base ELSE Step(h[k - 1])
  <2>1. CASE k = m
    BY <2>1, <1>3, <1>4
  <2>2. CASE k # m
    <3>1. k \in 0 .. m - 1
      BY <2>2, <1>4
    <3>2. f[k] = IF k = 0 THEN Base ELSE Step(f[k - 1])
      BY <1>1, <1>5, <3>1
    <3> QED BY <3>1, <3>2, <2>2
  <2> QED BY <2>1, <2>2
<1>7. IsTurns(h, loop, call, s, i, m)
  BY <1>1, <1>6
<1> QED BY <1>7, <1>2


---------------------------------------------------------------------------
(* What the three functions are, at every place. *)

LEMMA CallsAre ==
  ASSUME NEW s
  PROVE  \E f : IsCalls(f, s, MaxNesting) /\ Calls(s) = f[MaxNesting]
<1>1. Calls(s) = (CHOOSE f : IsCalls(f, s, MaxNesting))[MaxNesting]
  BY Zenon DEF Calls, IsCalls, Positions
<1>2. IsCalls(CHOOSE f : IsCalls(f, s, MaxNesting), s, MaxNesting)
  BY CallsExist, TokensAssumption
<1> QED BY <1>1, <1>2

LEMMA TreesAre ==
  ASSUME NEW s, NEW h \in Nat
  PROVE  \E g : IsBelow(g, s, h) /\ ReadingsTo(h, s) = g[h]["or"][1][Len(s) + 1]
<1>1. ReadingsTo(h, s) = (CHOOSE g : IsBelow(g, s, h))[h]["or"][1][Len(s) + 1]
  BY Zenon DEF ReadingsTo, IsBelow, Positions
<1>2. IsBelow(CHOOSE g : IsBelow(g, s, h), s, h)
  BY BelowExist
<1> QED BY <1>1, <1>2

LEMMA LoopIs ==
  ASSUME NEW loop, NEW call, NEW s, Len(s) \in Nat, NEW i \in Positions(s)
  PROVE  \E n \in Nat :
            /\ Len(s) + 1 - i <= 2 * n + 1
            /\ \E lhs : IsTurns(lhs, loop, call, s, i, n) /\ Loop(loop, call, s, i) = lhs[n]
<1> DEFINE n == (Len(s) + 1 - i) \div 2
           lhs == CHOOSE lhs : IsTurns(lhs, loop, call, s, i, n)
<1>1. n \in Nat /\ Len(s) + 1 - i <= 2 * n + 1
  <2>1. Len(s) + 1 - i \in Nat
    BY DEF Positions
  <2>2. \A l \in Nat : l \div 2 \in Nat /\ l <= 2 * (l \div 2) + 1
    OBVIOUS
  <2> QED BY <2>1, <2>2
<1>2. Loop(loop, call, s, i) = lhs[n]
  BY Zenon DEF Loop, IsTurns
<1>3. IsTurns(lhs, loop, call, s, i, n)
  <2> HIDE DEF n
  <2> QED BY <1>1, TurnsExist
<1> HIDE DEF lhs, n
<1> QED BY <1>1, <1>2, <1>3

LEMMA CallAt ==
  ASSUME NEW f, NEW s, NEW m \in Nat, IsCalls(f, s, m),
         NEW d \in 0 .. m, NEW r \in Rules, NEW i \in Positions(s)
  PROVE  f[d][r][i] = IF d = 0 THEN Failed ELSE Rule(r, f[d - 1], s, i)
<1>1. f[d] = [x \in Rules |-> [y \in Positions(s) |->
                IF d = 0 THEN Failed ELSE Rule(x, f[d - 1], s, y)]]
  <2> DEFINE Table(c) == [x \in Rules |-> [y \in Positions(s) |->
                            IF c = 0 THEN Failed ELSE Rule(x, f[c - 1], s, y)]]
  <2>1. f = [c \in 0 .. m |-> Table(c)]
    BY Zenon DEF IsCalls
  <2> HIDE DEF Table
  <2>2. f[d] = Table(d)
    BY <2>1
  <2> QED BY <2>2 DEF Table
<1> QED BY <1>1

LEMMA BelowAt ==
  ASSUME NEW g, NEW s, NEW m \in Nat, IsBelow(g, s, m), NEW n \in 0 .. m,
         NEW level \in Levels, NEW i \in Positions(s), NEW j \in Positions(s)
  PROVE  g[n][level][i][j] = IF n = 0 THEN {} ELSE Phrases(level, g[n - 1], s, i, j)
<1>1. g[n] = [x \in Levels |-> [y \in Positions(s) |-> [z \in Positions(s) |->
                IF n = 0 THEN {} ELSE Phrases(x, g[n - 1], s, y, z)]]]
  <2> DEFINE Table(c) == [x \in Levels |-> [y \in Positions(s) |-> [z \in Positions(s) |->
                            IF c = 0 THEN {} ELSE Phrases(x, g[c - 1], s, y, z)]]]
  <2>1. g = [c \in 0 .. m |-> Table(c)]
    BY Zenon DEF IsBelow
  <2> HIDE DEF Table
  <2>2. g[n] = Table(n)
    BY <2>1
  <2> QED BY <2>2 DEF Table
<1> QED BY <1>1

LEMMA TurnAt ==
  ASSUME NEW lhs, NEW loop, NEW call, NEW s, NEW i, NEW m \in Nat,
         IsTurns(lhs, loop, call, s, i, m), NEW k \in 0 .. m
  PROVE  lhs[k] = IF k = 0 THEN First(loop, call, s, i)
                  ELSE Turn(loop, call, s, lhs[k - 1])
BY Zenon DEF IsTurns

---------------------------------------------------------------------------
(* The trees of a span, level by level. *)

LEMMA ChainsAre ==
  ASSUME NEW loop, NEW b, NEW s, NEW i \in Int, NEW j \in Int, NEW t
  PROVE  t \in Chains(loop, b, s, i, j) <=>
            \/ t \in Firsts(loop, b, s, i, j)
            \/ \E k \in i .. j - 1 :
                  /\ s[k] = Symbol[loop]
                  /\ \E l \in b[loop][i][k], r \in Items(loop, b, s, k + 1, j) :
                        t = Joined(loop, l, r)
<1> DEFINE At(k) == {Joined(loop, l, r) : l \in b[loop][i][k], r \in Items(loop, b, s, k + 1, j)}
           Ks == {m \in i .. j - 1 : s[m] = Symbol[loop]}
<1>1. Chains(loop, b, s, i, j) = Firsts(loop, b, s, i, j) \cup UNION {At(k) : k \in Ks}
  BY DEF Chains
<1>2. \A k : t \in At(k) <=> \E l \in b[loop][i][k], r \in Items(loop, b, s, k + 1, j) :
                              t = Joined(loop, l, r)
  OBVIOUS
<1>3. \A k : k \in Ks <=> k \in i .. j - 1 /\ s[k] = Symbol[loop]
  BY Zenon
<1> HIDE DEF At, Ks
<1> QED BY <1>1, <1>2, <1>3, Zenon

LEMMA FirstsAre ==
  ASSUME NEW b, NEW s, NEW i, NEW j, NEW t
  PROVE  /\ t \in Firsts("or", b, s, i, j) <=> t \in b["and"][i][j]
         /\ t \in Firsts("and", b, s, i, j) <=> t \in b["not"][i][j]
         /\ t \in Firsts("args", b, s, i, j) <=> \E a \in b["or"][i][j] : t = <<a>>
         /\ t \in Firsts("keys", b, s, i, j) <=>
               j = i + 1 /\ s[i] \in Names /\ t = <<s[i]>>
BY DEF Firsts, Operand

LEMMA ItemsAre ==
  ASSUME NEW b, NEW s, NEW i, NEW j, NEW t
  PROVE  /\ t \in Items("or", b, s, i, j) <=> t \in b["and"][i][j]
         /\ t \in Items("and", b, s, i, j) <=> t \in b["not"][i][j]
         /\ t \in Items("args", b, s, i, j) <=> t \in b["or"][i][j]
         /\ t \in Items("keys", b, s, i, j) <=> j = i + 1 /\ s[i] \in Words /\ t = s[i]
BY DEF Items, Operand

LEMMA NotsAre ==
  ASSUME NEW b, NEW s, NEW i, NEW j, NEW t
  PROVE  t \in Nots(b, s, i, j) <=>
            \/ t \in b["cmp"][i][j]
            \/ /\ i < j
               /\ s[i] = "!"
               /\ \E e \in b["not"][i + 1][j] : t = NotOf(e)
BY Zenon DEF Nots

LEMMA CmpsAre ==
  ASSUME NEW b, NEW s, NEW i, NEW j, NEW t
  PROVE  t \in Cmps(b, s, i, j) <=>
            \/ t \in b["primary"][i][j]
            \/ \E k \in i .. j - 1 :
                  /\ s[k] \in Operators
                  /\ \E l \in b["primary"][i][k], r \in b["primary"][k + 1][j] :
                        t = CmpOf(s[k], l, r)
<1> DEFINE At(k) == {CmpOf(s[k], l, r) :
                       l \in b["primary"][i][k], r \in b["primary"][k + 1][j]}
           Ks == {m \in i .. j - 1 : s[m] \in Operators}
<1>1. Cmps(b, s, i, j) = b["primary"][i][j] \cup UNION {At(k) : k \in Ks}
  BY DEF Cmps
<1>2. \A k : t \in At(k) <=> \E l \in b["primary"][i][k], r \in b["primary"][k + 1][j] :
                t = CmpOf(s[k], l, r)
  OBVIOUS
<1>3. \A k : k \in Ks <=> k \in i .. j - 1 /\ s[k] \in Operators
  BY Zenon
<1> HIDE DEF At, Ks
<1> QED BY <1>1, <1>2, <1>3, Zenon

LEMMA PrimariesAre ==
  ASSUME NEW b, NEW s, NEW i, NEW j, NEW t
  PROVE  t \in Primaries(b, s, i, j) <=>
            \/ t \in b["variable_or_call"][i][j]
            \/ /\ j = i + 1
               /\ s[i] \in Known
               /\ t = LiteralOf(KnownValue(s[i]))
            \/ /\ i + 1 < j - 1
               /\ s[i] = "("
               /\ s[j - 1] = ")"
               /\ t \in b["or"][i + 1][j - 1]
BY Zenon DEF Primaries

LEMMA VariablesAndCallsAre ==
  ASSUME NEW b, NEW s, NEW i, NEW j, NEW t
  PROVE  t \in VariablesAndCalls(b, s, i, j) <=>
            \/ \E p \in b["keys"][i][j] : t = VariableOf(p)
            \/ \E k \in i .. j - 2 :
                  /\ s[k] = "("
                  /\ s[j - 1] = ")"
                  /\ \E p \in b["keys"][i][k], args \in Arguments(b, k + 1, j - 1) :
                        t = CallOf(p, args)
<1> DEFINE At(k) == {CallOf(p, args) : p \in b["keys"][i][k],
                                       args \in Arguments(b, k + 1, j - 1)}
           Ks == {m \in i .. j - 2 : s[m] = "(" /\ s[j - 1] = ")"}
           Variables == {VariableOf(p) : p \in b["keys"][i][j]}
<1>1. VariablesAndCalls(b, s, i, j) = Variables \cup UNION {At(k) : k \in Ks}
  BY DEF VariablesAndCalls
<1>2. \A k : t \in At(k) <=>
         \E p \in b["keys"][i][k], args \in Arguments(b, k + 1, j - 1) : t = CallOf(p, args)
  OBVIOUS
<1>3. \A k : k \in Ks <=> k \in i .. j - 2 /\ s[k] = "(" /\ s[j - 1] = ")"
  BY Zenon
<1>4. t \in Variables <=> \E p \in b["keys"][i][j] : t = VariableOf(p)
  BY Zenon
<1> HIDE DEF At, Ks, Variables
<1> QED BY <1>1, <1>2, <1>3, <1>4, Zenon

LEMMA PhrasesAre ==
  ASSUME NEW b, NEW s, NEW i, NEW j
  PROVE  /\ \A loop \in Loops : Phrases(loop, b, s, i, j) = Chains(loop, b, s, i, j)
         /\ Phrases("not", b, s, i, j) = Nots(b, s, i, j)
         /\ Phrases("cmp", b, s, i, j) = Cmps(b, s, i, j)
         /\ Phrases("primary", b, s, i, j) = Primaries(b, s, i, j)
         /\ Phrases("variable_or_call", b, s, i, j) = VariablesAndCalls(b, s, i, j)
BY DEF Phrases, Loops

LEMMA LoopPhrases ==
  ASSUME NEW b, NEW s, NEW i, NEW j, NEW loop \in Loops
  PROVE  Phrases(loop, b, s, i, j) = Chains(loop, b, s, i, j)
BY PhrasesAre

LEMMA EveryLevel ==
  /\ Levels = {"or", "and", "not", "cmp", "primary", "variable_or_call", "args", "keys"}
  /\ Loops = {"or", "and", "args", "keys"}
  /\ Loops \subseteq Levels
BY DEF Levels, Rules, Loops

LEMMA EveryRule ==
  /\ Rules = {"or", "and", "not", "cmp", "primary", "variable_or_call"}
  /\ Rules \subseteq Levels
BY DEF Levels, Rules

LEMMA PositionsBetween ==
  ASSUME NEW s, Len(s) \in Nat, NEW i \in Positions(s), NEW j \in Positions(s)
  PROVE  /\ i \in Int /\ j \in Int
         /\ \A k \in i .. j - 1 : k \in Int /\ k \in Positions(s) /\ k + 1 \in Positions(s)
         /\ \A k \in i .. j - 2 : k \in i .. j - 1 /\ j - 1 \in Positions(s)
         /\ i < j => i + 1 \in Positions(s)
         /\ i + 1 < j - 1 => i + 1 \in Positions(s) /\ j - 1 \in Positions(s)
BY DEF Positions

\* No tree has no tokens.
TakesTokens(b, s) ==
  \A x \in Levels : \A p, q \in Positions(s) : \A t \in b[x][p][q] : p < q

LEMMA PhrasesTakeTokens ==
  ASSUME NEW b, NEW s, Len(s) \in Nat, TakesTokens(b, s), NEW level \in Levels,
         NEW i \in Positions(s), NEW j \in Positions(s), NEW t \in Phrases(level, b, s, i, j)
  PROVE  i < j
<1> SUFFICES ASSUME ~(i < j) PROVE FALSE
  OBVIOUS
<1>1. \A x \in Levels : b[x][i][j] = {}
  BY DEF TakesTokens
<1>2. i \in Int /\ j \in Int /\ i .. j - 1 = {} /\ i .. j - 2 = {}
      /\ j # i + 1 /\ ~(i + 1 < j - 1)
  BY DEF Positions
<1>3. CASE level \in Loops
  <2>1. \A v : v \notin Firsts(level, b, s, i, j)
    BY <1>1, <1>2, <1>3, FirstsAre, EveryLevel
  <2>2. t \in Chains(level, b, s, i, j)
    BY <1>3, PhrasesAre
  <2>3. \A k \in i .. j - 1 : FALSE
    BY <1>2
  <2> QED BY <2>1, <2>2, <2>3, <1>2, ChainsAre
<1>4. CASE level = "not"
  BY <1>4, <1>1, <1>2, EveryLevel, NotsAre, PhrasesAre
<1>5. CASE level = "cmp"
  BY <1>5, <1>1, <1>2, EveryLevel, CmpsAre, PhrasesAre
<1>6. CASE level = "primary"
  BY <1>6, <1>1, <1>2, EveryLevel, PrimariesAre, PhrasesAre
<1>7. CASE level = "variable_or_call"
  BY <1>7, <1>1, <1>2, EveryLevel, VariablesAndCallsAre, PhrasesAre
<1> QED BY EveryLevel, <1>3, <1>4, <1>5, <1>6, <1>7

LEMMA TreesTakeTokens ==
  ASSUME NEW g, NEW s, Len(s) \in Nat, NEW m \in Nat, IsBelow(g, s, m),
         NEW n \in 0 .. m, NEW level \in Levels,
         NEW i \in Positions(s), NEW j \in Positions(s), NEW t \in g[n][level][i][j]
  PROVE  i < j
<1> DEFINE T == {p \in 0 .. m : ~TakesTokens(g[p], s)}
<1>1. T = {}
  <2> SUFFICES ASSUME T # {} PROVE FALSE
    OBVIOUS
  <2>1. PICK p \in T : \A k \in T : p <= k
    <3>1. T \in SUBSET Nat
      OBVIOUS
    <3> HIDE DEF T
    <3> QED BY <3>1, LeastNat
  <2>2. PICK x \in Levels, k \in Positions(s), l \in Positions(s) :
           ~(k < l) /\ \E u : u \in g[p][x][k][l]
    BY <2>1 DEF TakesTokens
  <2>3. p # 0 /\ p - 1 \in 0 .. m
    BY <2>1, <2>2, BelowAt
  <2>4. TakesTokens(g[p - 1], s)
    BY <2>1, <2>3
  <2>5. PICK u : u \in Phrases(x, g[p - 1], s, k, l)
    BY <2>1, <2>2, <2>3, BelowAt
  <2> QED BY <2>2, <2>4, <2>5, PhrasesTakeTokens
<1>2. TakesTokens(g[n], s)
  BY <1>1
<1> QED BY <1>2 DEF TakesTokens

\* How high a derivation of a span may be: the levels below it take one step each,
\* and a token more gives eight.
Rank == [args |-> 0, or |-> 1, and |-> 2, not |-> 3, cmp |-> 4, primary |-> 5,
         variable_or_call |-> 6, keys |-> 7]
Height(level, n) == 8 * n - Rank[level]

LEMMA RankIs ==
  /\ Rank["args"] = 0 /\ Rank["or"] = 1 /\ Rank["and"] = 2 /\ Rank["not"] = 3
  /\ Rank["cmp"] = 4 /\ Rank["primary"] = 5 /\ Rank["variable_or_call"] = 6
  /\ Rank["keys"] = 7
  /\ \A level \in Levels : Rank[level] \in 0 .. 7
BY EveryLevel DEF Rank

LEMMA HeightIs ==
  ASSUME NEW level \in Levels, NEW n \in Int
  PROVE  /\ Height(level, n) \in Int
         /\ n >= 1 => Height(level, n) >= 1
         /\ Height(level, n) <= 8 * n
<1>1. PICK a \in 0 .. 7 : Rank[level] = a
  BY RankIs
<1> QED BY <1>1 DEF Height

\* The parts of a phrase are lower than it.
Lower(x, p, q, level, i, j) == p < q /\ Height(x, q - p) < Height(level, j - i)

LEMMA PartsAreLower ==
  ASSUME NEW i \in Int, NEW j \in Int
  PROVE  /\ i < j => /\ Lower("and", i, j, "or", i, j)
                     /\ Lower("not", i, j, "and", i, j)
                     /\ Lower("cmp", i, j, "not", i, j)
                     /\ Lower("primary", i, j, "cmp", i, j)
                     /\ Lower("variable_or_call", i, j, "primary", i, j)
                     /\ Lower("keys", i, j, "variable_or_call", i, j)
                     /\ Lower("or", i, j, "args", i, j)
         /\ i + 1 < j => Lower("not", i + 1, j, "not", i, j)
         /\ i + 1 < j - 1 => Lower("or", i + 1, j - 1, "primary", i, j)
         /\ \A k \in Int : i < k /\ k < j => \A level \in Levels : Lower(level, i, k, level, i, j)
         /\ \A k \in Int : i < k /\ k + 1 < j =>
               /\ \A x, level \in Levels : Lower(x, k + 1, j, level, i, j)
               /\ Lower("keys", i, k, "variable_or_call", i, j)
               /\ Lower("primary", i, k, "cmp", i, j)
         /\ \A k \in Int : i < k /\ k + 1 < j - 1 =>
               Lower("args", k + 1, j - 1, "variable_or_call", i, j)
BY RankIs DEF Lower, Height

\* More trees below make more trees.
MoreBelow(b, c, s, level, i, j) ==
  \A x \in Levels : \A p, q \in Positions(s) :
     Lower(x, p, q, level, i, j) => \A t \in b[x][p][q] : t \in c[x][p][q]

LEMMA PhrasesRise ==
  ASSUME NEW b, NEW c, NEW s, Len(s) \in Nat, NEW level \in Levels,
         NEW i \in Positions(s), NEW j \in Positions(s), TakesTokens(b, s),
         MoreBelow(b, c, s, level, i, j), NEW t \in Phrases(level, b, s, i, j)
  PROVE  t \in Phrases(level, c, s, i, j)
<1>0. i \in Int /\ j \in Int
  BY PositionsBetween
<1>a. \A x \in Levels : \A p, q \in Positions(s) : \A u \in b[x][p][q] :
         p < q /\ (Lower(x, p, q, level, i, j) => u \in c[x][p][q])
  BY DEF MoreBelow, TakesTokens
<1>b. \A k \in i .. j - 1 : k \in Int /\ k \in Positions(s) /\ k + 1 \in Positions(s)
  BY PositionsBetween
<1>1. CASE level \in Loops
  <2>1. ASSUME t \in Firsts(level, b, s, i, j)
        PROVE  t \in Firsts(level, c, s, i, j)
    <3>1. CASE level = "or"
      BY <2>1, <3>1, <1>0, <1>a, EveryLevel, PartsAreLower, FirstsAre
    <3>2. CASE level = "and"
      BY <2>1, <3>2, <1>0, <1>a, EveryLevel, PartsAreLower, FirstsAre
    <3>3. CASE level = "args"
      BY <2>1, <3>3, <1>0, <1>a, EveryLevel, PartsAreLower, FirstsAre
    <3>4. CASE level = "keys"
      BY <2>1, <3>4, FirstsAre
    <3> QED BY <3>1, <3>2, <3>3, <3>4, <1>1, EveryLevel
  <2>2. ASSUME NEW k \in i .. j - 1, s[k] = Symbol[level],
               NEW l \in b[level][i][k], NEW r \in Items(level, b, s, k + 1, j),
               t = Joined(level, l, r)
        PROVE  t \in Chains(level, c, s, i, j)
    <3>1. i < k /\ k < j /\ l \in c[level][i][k]
      BY <1>0, <1>a, <1>b, PartsAreLower
    <3>2. \A x \in Levels : \A u \in b[x][k + 1][j] : u \in c[x][k + 1][j]
      BY <1>0, <1>a, <1>b, <3>1, PartsAreLower
    <3>3. r \in Items(level, c, s, k + 1, j)
      <4>1. CASE level = "or"
        BY <3>2, <4>1, ItemsAre, EveryLevel
      <4>2. CASE level = "and"
        BY <3>2, <4>2, ItemsAre, EveryLevel
      <4>3. CASE level = "args"
        BY <3>2, <4>3, ItemsAre, EveryLevel
      <4>4. CASE level = "keys"
        BY <4>4, ItemsAre
      <4> QED BY <4>1, <4>2, <4>3, <4>4, <1>1, EveryLevel
    <3> QED BY <1>0, <3>1, <3>3, <2>2, ChainsAre
  <2>3. t \in Chains(level, b, s, i, j)
    BY <1>1, PhrasesAre
  <2>4. t \in Chains(level, c, s, i, j)
    BY <1>0, <2>1, <2>2, <2>3, ChainsAre
  <2>5. Phrases(level, c, s, i, j) = Chains(level, c, s, i, j)
    BY <1>1, LoopPhrases
  <2> QED BY <2>4, <2>5
<1>2. CASE level = "not"
  <2>1. t \in Nots(b, s, i, j)
    BY <1>2, PhrasesAre
  <2>2. t \in b["cmp"][i][j] => t \in c["cmp"][i][j]
    BY <1>0, <1>2, <1>a, EveryLevel, PartsAreLower
  <2>3. \A e \in b["not"][i + 1][j] : i < j => e \in c["not"][i + 1][j]
    BY <1>0, <1>2, <1>a, EveryLevel, PartsAreLower, PositionsBetween
  <2>4. t \in Nots(c, s, i, j)
    BY <2>1, <2>2, <2>3, NotsAre
  <2> QED BY <1>2, <2>4, PhrasesAre
<1>3. CASE level = "cmp"
  <2>1. t \in Cmps(b, s, i, j)
    BY <1>3, PhrasesAre
  <2>2. t \in b["primary"][i][j] => t \in c["primary"][i][j]
    BY <1>0, <1>3, <1>a, EveryLevel, PartsAreLower
  <2>3. ASSUME NEW k \in i .. j - 1, s[k] \in Operators,
               NEW l \in b["primary"][i][k], NEW r \in b["primary"][k + 1][j],
               t = CmpOf(s[k], l, r)
        PROVE  t \in Cmps(c, s, i, j)
    <3>1. i < k /\ k + 1 < j
      BY <1>a, <1>b, EveryLevel
    <3>2. l \in c["primary"][i][k] /\ r \in c["primary"][k + 1][j]
      BY <1>0, <1>3, <1>a, <1>b, <3>1, EveryLevel, PartsAreLower
    <3> QED BY <2>3, <3>2, CmpsAre
  <2>4. t \in Cmps(c, s, i, j)
    BY <2>1, <2>2, <2>3, CmpsAre
  <2> QED BY <1>3, <2>4, PhrasesAre
<1>4. CASE level = "primary"
  <2>1. t \in Primaries(b, s, i, j)
    BY <1>4, PhrasesAre
  <2>2. t \in b["variable_or_call"][i][j] => t \in c["variable_or_call"][i][j]
    BY <1>0, <1>4, <1>a, EveryLevel, PartsAreLower
  <2>3. i + 1 < j - 1 => \A e \in b["or"][i + 1][j - 1] : e \in c["or"][i + 1][j - 1]
    BY <1>0, <1>4, <1>a, EveryLevel, PartsAreLower, PositionsBetween
  <2>4. t \in Primaries(c, s, i, j)
    BY <2>1, <2>2, <2>3, PrimariesAre
  <2> QED BY <1>4, <2>4, PhrasesAre
<1>5. CASE level = "variable_or_call"
  <2>1. t \in VariablesAndCalls(b, s, i, j)
    BY <1>5, PhrasesAre
  <2>2. \A p \in b["keys"][i][j] : p \in c["keys"][i][j]
    BY <1>0, <1>5, <1>a, EveryLevel, PartsAreLower
  <2>3. ASSUME NEW k \in i .. j - 2, s[k] = "(", s[j - 1] = ")",
               NEW p \in b["keys"][i][k], NEW args \in Arguments(b, k + 1, j - 1),
               t = CallOf(p, args)
        PROVE  t \in VariablesAndCalls(c, s, i, j)
    <3>1. k \in i .. j - 1 /\ k + 1 < j /\ j - 1 \in Positions(s)
      BY <1>0, PositionsBetween
    <3>2. i < k
      BY <1>a, <1>b, <3>1, EveryLevel
    <3>3. p \in c["keys"][i][k]
      BY <1>0, <1>5, <1>a, <1>b, <3>1, <3>2, EveryLevel, PartsAreLower
    <3>4. \A u \in b["args"][k + 1][j - 1] : u \in c["args"][k + 1][j - 1]
      BY <1>0, <1>5, <1>a, <1>b, <3>1, <3>2, EveryLevel, PartsAreLower
    <3>5. args \in Arguments(c, k + 1, j - 1)
      BY <3>4 DEF Arguments
    <3> QED BY <2>3, <3>3, <3>5, VariablesAndCallsAre
  <2>4. t \in VariablesAndCalls(c, s, i, j)
    BY <2>1, <2>2, <2>3, VariablesAndCallsAre
  <2> QED BY <1>5, <2>4, PhrasesAre
<1> QED BY <1>1, <1>2, <1>3, <1>4, <1>5, EveryLevel

More(b, c, s) ==
  \A x \in Levels : \A p, q \in Positions(s) : \A t \in b[x][p][q] : t \in c[x][p][q]

\* A higher bound keeps every derivation.
LEMMA HigherHasMore ==
  ASSUME NEW g, NEW s, Len(s) \in Nat, NEW m \in Nat, IsBelow(g, s, m),
         NEW n \in 0 .. m, NEW o \in n .. m, NEW level \in Levels,
         NEW i \in Positions(s), NEW j \in Positions(s)
  PROVE  g[n][level][i][j] \subseteq g[o][level][i][j]
<1> DEFINE T == {p \in 0 .. m : \E q \in p .. m : ~More(g[p], g[q], s)}
<1>1. T = {}
  <2> SUFFICES ASSUME T # {} PROVE FALSE
    OBVIOUS
  <2>1. PICK p \in T : \A k \in T : p <= k
    <3>1. T \in SUBSET Nat
      OBVIOUS
    <3> HIDE DEF T
    <3> QED BY <3>1, LeastNat
  <2>2. PICK q \in p .. m : ~More(g[p], g[q], s)
    BY <2>1
  <2>3. PICK x \in Levels, k \in Positions(s), l \in Positions(s) :
           \E t \in g[p][x][k][l] : t \notin g[q][x][k][l]
    BY <2>2, Zenon DEF More
  <2>4. p \in 0 .. m /\ q \in 0 .. m /\ q >= p
    BY <2>1
  <2>5. p # 0
    <3>1. p = 0 => g[p][x][k][l] = {}
      BY <2>4, BelowAt
    <3> QED BY <3>1, <2>3
  <2>6. p - 1 \in 0 .. m /\ q - 1 \in p - 1 .. m /\ q # 0
    BY <2>4, <2>5
  <2>7. p - 1 \notin T
    BY <2>1, <2>6
  <2>8. More(g[p - 1], g[q - 1], s)
    BY <2>6, <2>7
  <2>9. /\ g[p][x][k][l] = Phrases(x, g[p - 1], s, k, l)
        /\ g[q][x][k][l] = Phrases(x, g[q - 1], s, k, l)
    BY <2>4, <2>5, <2>6, BelowAt
  <2>10. \A t \in Phrases(x, g[p - 1], s, k, l) : t \in Phrases(x, g[q - 1], s, k, l)
    <3>1. TakesTokens(g[p - 1], s)
      BY <2>6, TreesTakeTokens DEF TakesTokens
    <3>2. MoreBelow(g[p - 1], g[q - 1], s, x, k, l)
      BY <2>8 DEF More, MoreBelow
    <3> QED BY <3>1, <3>2, PhrasesRise
  <2> QED BY <2>3, <2>9, <2>10
<1>2. More(g[n], g[o], s)
  BY <1>1
<1> QED BY <1>2 DEF More

\* No derivation is higher than its level and its tokens allow.
LEMMA HeightIsBounded ==
  ASSUME NEW g, NEW s, Len(s) \in Nat, NEW m \in Nat, IsBelow(g, s, m),
         NEW n \in 0 .. m, NEW level \in Levels,
         NEW i \in Positions(s), NEW j \in Positions(s), NEW t \in g[n][level][i][j]
  PROVE  Height(level, j - i) \in 0 .. m => t \in g[Height(level, j - i)][level][i][j]
<1> DEFINE Bounded(p) == \A x \in Levels : \A k, l \in Positions(s) : \A u \in g[p][x][k][l] :
                            Height(x, l - k) \in 0 .. m => u \in g[Height(x, l - k)][x][k][l]
           T == {p \in 0 .. m : ~Bounded(p)}
<1>1. T = {}
  <2> SUFFICES ASSUME T # {} PROVE FALSE
    OBVIOUS
  <2>1. PICK p \in T : \A k \in T : p <= k
    <3>1. T \in SUBSET Nat
      OBVIOUS
    <3> HIDE DEF T
    <3> QED BY <3>1, LeastNat
  <2>a. PICK x \in Levels, k \in Positions(s), l \in Positions(s) :
           \E u \in g[p][x][k][l] :
              Height(x, l - k) \in 0 .. m /\ u \notin g[Height(x, l - k)][x][k][l]
    BY <2>1
  <2>2. PICK u \in g[p][x][k][l] :
           Height(x, l - k) \in 0 .. m /\ u \notin g[Height(x, l - k)][x][k][l]
    BY <2>a
  <2>3. p \in 0 .. m /\ p # 0 /\ p - 1 \in 0 .. m
    BY <2>1, <2>2, BelowAt
  <2> DEFINE h == Height(x, l - k)
  <2>4. k < l /\ h \in 1 .. m /\ h - 1 \in 0 .. m /\ h # 0
    <3>1. k < l /\ k \in Int /\ l \in Int
      BY <2>2, <2>3, TreesTakeTokens, PositionsBetween
    <3>2. l - k \in Int /\ l - k >= 1
      BY <3>1
    <3>3. h \in Int /\ h >= 1
      BY <3>2, HeightIs
    <3>4. h \in 0 .. m
      BY <2>2
    <3> HIDE DEF h, T
    <3> QED BY <3>1, <3>3, <3>4
  <2>5. Bounded(p - 1)
    <3> HIDE DEF Bounded
    <3>1. p - 1 \notin T
      BY <2>1, <2>3
    <3> QED BY <3>1, <2>3
  <2>6. TakesTokens(g[p - 1], s)
    BY <2>3, TreesTakeTokens DEF TakesTokens
  <2>7. MoreBelow(g[p - 1], g[h - 1], s, x, k, l)
    <3> SUFFICES ASSUME NEW y \in Levels, NEW q \in Positions(s), NEW r \in Positions(s),
                        Lower(y, q, r, x, k, l), NEW v \in g[p - 1][y][q][r]
                 PROVE  v \in g[h - 1][y][q][r]
      BY DEF MoreBelow
    <3> DEFINE n1 == Height(y, r - q)
    <3>1. n1 \in Int /\ n1 >= 1 /\ n1 < h
      <4>1. q \in Int /\ r \in Int /\ q < r
        BY PositionsBetween DEF Lower
      <4>2. r - q \in Int /\ r - q >= 1
        BY <4>1
      <4> QED BY <4>2, HeightIs DEF Lower
    <3>2. n1 \in 0 .. m /\ h - 1 \in n1 .. m
      BY <3>1, <2>4
    <3>3. v \in g[n1][y][q][r]
      BY <3>2, <2>5
    <3> DEFINE o1 == h - 1
    <3>4. n1 \in 0 .. m /\ o1 \in n1 .. m
      BY <3>2
    <3>5. g[n1][y][q][r] \subseteq g[o1][y][q][r]
      <4> HIDE DEF h, n1, o1, T, Bounded
      <4> QED BY <3>4, HigherHasMore
    <3> QED BY <3>3, <3>5
  <2> HIDE DEF h
  <2>8. u \in Phrases(x, g[p - 1], s, k, l)
    BY <2>2, <2>3, BelowAt
  <2>9. u \in Phrases(x, g[h - 1], s, k, l)
    BY <2>6, <2>7, <2>8, PhrasesRise
  <2>10. u \in g[h][x][k][l]
    <3> HIDE DEF T, Bounded
    <3>1. h \in 0 .. m /\ h # 0
      BY <2>4
    <3>2. g[h][x][k][l] = Phrases(x, g[h - 1], s, k, l)
      BY <3>1, BelowAt
    <3> QED BY <3>2, <2>9
  <2> QED BY <2>2, <2>10 DEF h
<1> QED BY <1>1

\* The trees of every span, whatever the height, follow the grammar's equations.
IsGrammar(b, s) ==
  /\ TakesTokens(b, s)
  /\ \A level \in Levels : \A i, j \in Positions(s) : \A t :
        t \in b[level][i][j] <=> t \in Phrases(level, b, s, i, j)

LEMMA AllTrees ==
  ASSUME NEW g, NEW s, Len(s) \in Nat, NEW m \in Nat, IsBelow(g, s, m), m >= 8 * Len(s)
  PROVE  IsGrammar(g[m], s)
<1>1. TakesTokens(g[m], s)
  BY TreesTakeTokens DEF TakesTokens
<1>2. ASSUME NEW level \in Levels, NEW i \in Positions(s), NEW j \in Positions(s),
             NEW t \in g[m][level][i][j]
      PROVE  t \in Phrases(level, g[m], s, i, j)
  <2>1. m \in 0 .. m
    OBVIOUS
  <2>2. m # 0 /\ t \in Phrases(level, g[m - 1], s, i, j)
    BY <1>2, <2>1, BelowAt
  <2>3. m - 1 \in 0 .. m /\ m \in m - 1 .. m
    BY <2>2
  <2>4. TakesTokens(g[m - 1], s)
    BY <2>3, TreesTakeTokens DEF TakesTokens
  <2>5. MoreBelow(g[m - 1], g[m], s, level, i, j)
    BY <2>3, HigherHasMore DEF MoreBelow
  <2> QED BY <2>2, <2>4, <2>5, PhrasesRise
<1>3. ASSUME NEW level \in Levels, NEW i \in Positions(s), NEW j \in Positions(s),
             NEW t \in Phrases(level, g[m], s, i, j)
      PROVE  t \in g[m][level][i][j]
  <2> DEFINE h == Height(level, j - i)
  <2>1. ASSUME NEW y \in Levels, NEW q \in Positions(s), NEW r \in Positions(s),
               Lower(y, q, r, level, i, j)
        PROVE  Height(y, r - q) \in 0 .. m /\ h - 1 \in Height(y, r - q) .. m /\ h \in 1 .. m
    <3>1. /\ q \in Int /\ r \in Int /\ i \in Int /\ j \in Int /\ q < r
          /\ j - i \in Int /\ j - i <= Len(s) /\ r - q \in Int /\ r - q >= 1
      BY <2>1 DEF Positions, Lower
    <3>2. Height(y, r - q) \in Int /\ Height(y, r - q) >= 1 /\ Height(y, r - q) < h
      BY <3>1, <2>1, HeightIs DEF Lower
    <3>3. h \in Int /\ h <= 8 * (j - i)
      BY <3>1, HeightIs
    <3> QED BY <3>1, <3>2, <3>3
  <2>2. CASE h \in 1 .. m
    <3>1. MoreBelow(g[m], g[h - 1], s, level, i, j)
      <4> SUFFICES ASSUME NEW y \in Levels, NEW q \in Positions(s), NEW r \in Positions(s),
                          Lower(y, q, r, level, i, j), NEW v \in g[m][y][q][r]
                   PROVE  v \in g[h - 1][y][q][r]
        BY DEF MoreBelow
      <4>1. Height(y, r - q) \in 0 .. m /\ h - 1 \in Height(y, r - q) .. m
        BY <2>1
      <4>2. v \in g[Height(y, r - q)][y][q][r]
        BY <4>1, HeightIsBounded
      <4> HIDE DEF h
      <4> QED BY <4>1, <4>2, HigherHasMore
    <3> HIDE DEF h
    <3>2. t \in Phrases(level, g[h - 1], s, i, j)
      BY <1>1, <3>1, PhrasesRise
    <3>3. h \in 0 .. m /\ h # 0 /\ m \in h .. m
      BY <2>2
    <3>4. t \in g[h][level][i][j]
      BY <3>2, <3>3, BelowAt
    <3> QED BY <3>3, <3>4, HigherHasMore
  <2>3. h \in 1 .. m
    <3>1. i \in Int /\ j \in Int /\ j - i <= Len(s)
      BY DEF Positions
    <3>2. i < j
      BY <1>1, PhrasesTakeTokens
    <3>3. j - i \in Int /\ j - i >= 1
      BY <3>1, <3>2
    <3>4. h \in Int /\ h >= 1 /\ h <= 8 * (j - i)
      BY <3>3, HeightIs
    <3> QED BY <3>1, <3>4
  <2> QED BY <2>2, <2>3
<1> QED BY <1>1, <1>2, <1>3 DEF IsGrammar

---------------------------------------------------------------------------
(* What the parser returns is a tree. *)

LEMMA TokensApart ==
  /\ "end of expression" \notin Names /\ "end of expression" \notin Known
  /\ "end of expression" \notin Words /\ "end of expression" \notin Operators
  /\ \A loop \in Loops : Symbol[loop] # "end of expression"
  /\ "(" \notin Names /\ "(" \notin Known /\ "!" \notin Names /\ "!" \notin Known
  /\ ")" \notin Names /\ ")" \notin Known
  /\ \A t \in Names : t \notin Known
<1> DEFINE Signs == {"(", ")", "!", ".", ",", "||", "&&", "end of expression"} \cup Operators
<1>1. \A t \in Signs : t \notin Names /\ t \notin Known
  BY TokensAssumption
<1>2. "end of expression" \in Signs /\ "(" \in Signs /\ ")" \in Signs /\ "!" \in Signs
  OBVIOUS
<1>3. \A t \in Names : t \notin Known
  BY TokensAssumption
<1>4. "end of expression" \notin Operators
  BY DEF Operators
<1>5. \A loop \in Loops : Symbol[loop] # "end of expression"
  <2>1. Symbol["or"] = "||" /\ Symbol["and"] = "&&" /\ Symbol["args"] = "," /\ Symbol["keys"] = "."
    BY DEF Symbol
  <2> QED BY <2>1, EveryLevel
<1>6. "end of expression" \notin Words
  BY TokensAssumption
<1> HIDE DEF Signs
<1> QED BY <1>1, <1>2, <1>3, <1>4, <1>5, <1>6

LEMMA TokenIs ==
  ASSUME NEW s, Len(s) \in Nat, NEW i \in Positions(s)
  PROVE  /\ Token(s, i) # "end of expression" =>
               i <= Len(s) /\ Token(s, i) = s[i] /\ i + 1 \in Positions(s)
         /\ i <= Len(s) => Token(s, i) = s[i]
         /\ i > Len(s) => Token(s, i) = "end of expression"
<1>1. i \in Int /\ (i <= Len(s) => i + 1 \in Positions(s))
  BY DEF Positions
<1>2. CASE i <= Len(s)
  <2>1. Token(s, i) = s[i] /\ ~(i > Len(s))
    BY <1>1, <1>2 DEF Token
  <2> QED BY <2>1, <1>1, <1>2
<1>3. CASE ~(i <= Len(s))
  <2>1. Token(s, i) = "end of expression"
    BY <1>3 DEF Token
  <2> QED BY <2>1, <1>3
<1> QED BY <1>2, <1>3

\* r is a failure, or it has read a tree from i on.
Reads(b, s, level, i, r) ==
  r.at # 0 => r.at \in Positions(s) /\ r.ast \in b[level][i][r.at]

\* The method for a name is called where a name is.
Called(s, rule, i) == rule = "variable_or_call" => Token(s, i) \in Names

AllRead(b, s, call) ==
  \A rule \in Rules : \A i \in Positions(s) :
     Called(s, rule, i) => Reads(b, s, rule, i, call[rule][i])

LEMMA ReadIs ==
  /\ \A at, ast : Read(at, ast).at = at /\ Read(at, ast).ast = ast
  /\ Failed.at = 0
BY DEF Read, Failed

LEMMA FirstReads ==
  ASSUME NEW b, NEW s, Len(s) \in Nat, IsGrammar(b, s), NEW call, AllRead(b, s, call),
         NEW loop \in Loops, NEW i \in Positions(s), loop = "keys" => Token(s, i) \in Names
  PROVE  Reads(b, s, loop, i, First(loop, call, s, i))
<1> DEFINE r == First(loop, call, s, i)
<1>0. i \in Int
  BY PositionsBetween
<1>1. ASSUME r.at # 0, r.at \in Positions(s), r.ast \in Firsts(loop, b, s, i, r.at)
      PROVE  Reads(b, s, loop, i, r)
  <2>1. r.at \in Int
    BY <1>1, PositionsBetween
  <2> HIDE DEF r
  <2>2. r.ast \in Chains(loop, b, s, i, r.at)
    BY <1>0, <1>1, <2>1, ChainsAre
  <2>3. r.ast \in Phrases(loop, b, s, i, r.at)
    <3>1. Phrases(loop, b, s, i, r.at) = Chains(loop, b, s, i, r.at)
      BY LoopPhrases
    <3> QED BY <2>2, <3>1
  <2> QED BY <2>3, <1>1, EveryLevel DEF IsGrammar, Reads
<1>2. CASE loop = "or"
  <2>1. r = call["and"][i]
    BY <1>2 DEF First, Operand
  <2>2. Reads(b, s, "and", i, r)
    BY <2>1 DEF AllRead, Called, Rules
  <2> QED BY <1>1, <1>2, <2>2, FirstsAre DEF Reads
<1>3. CASE loop = "and"
  <2>1. r = call["not"][i]
    BY <1>3 DEF First, Operand
  <2>2. Reads(b, s, "not", i, r)
    BY <2>1 DEF AllRead, Called, Rules
  <2> QED BY <1>1, <1>3, <2>2, FirstsAre DEF Reads
<1>4. CASE loop = "args"
  <2> DEFINE a == call["or"][i]
  <2>1. r = IF Bad(a) THEN Failed ELSE Read(a.at, <<a.ast>>)
    BY <1>4 DEF First
  <2>2. Reads(b, s, "or", i, a)
    BY DEF AllRead, Called, Rules
  <2>3. r.at # 0 => r.at = a.at /\ r.ast = <<a.ast>> /\ a.at # 0
    BY <2>1, ReadIs DEF Bad
  <2>4. ASSUME r.at # 0 PROVE Reads(b, s, loop, i, r)
    <3>1. a.at \in Positions(s) /\ a.ast \in b["or"][i][a.at]
      BY <2>2, <2>3, <2>4 DEF Reads
    <3>2. r.ast \in Firsts("args", b, s, i, a.at)
      <4> HIDE DEF a, r
      <4>1. <<a.ast>> \in {<<x>> : x \in b["or"][i][a.at]}
        BY <3>1
      <4> QED BY <2>3, <2>4, <4>1 DEF Firsts
    <3>3. r.at \in Positions(s) /\ r.ast \in Firsts(loop, b, s, i, r.at)
      BY <1>4, <2>3, <2>4, <3>1, <3>2
    <3> QED BY <1>1, <2>4, <3>3
  <2> QED BY <2>4 DEF Reads
<1>5. CASE loop = "keys"
  <2>1. r = Read(i + 1, <<s[i]>>)
    BY <1>5 DEF First
  <2>2. i + 1 \in Positions(s) /\ s[i] \in Names
    BY <1>5, TokenIs, TokensApart
  <2>3. r.at = i + 1 /\ r.ast = <<s[i]>>
    <3> HIDE DEF r
    <3> QED BY <2>1, ReadIs
  <2>4. r.ast \in Firsts("keys", b, s, i, i + 1)
    BY <2>2, <2>3, FirstsAre
  <2>5. r.at # 0 /\ r.at \in Positions(s)
    BY <2>2, <2>3 DEF Positions
  <2>6. r.ast \in Firsts(loop, b, s, i, r.at)
    BY <1>5, <2>3, <2>4
  <2> QED BY <1>1, <2>5, <2>6
<1> QED BY <1>2, <1>3, <1>4, <1>5, EveryLevel

LEMMA ItemReads ==
  ASSUME NEW b, NEW s, Len(s) \in Nat, IsGrammar(b, s), NEW call, AllRead(b, s, call),
         NEW loop \in Loops, NEW i \in Positions(s), Item(loop, call, s, i).at # 0
  PROVE  /\ Item(loop, call, s, i).at \in Positions(s)
         /\ i < Item(loop, call, s, i).at
         /\ Item(loop, call, s, i).ast \in Items(loop, b, s, i, Item(loop, call, s, i).at)
<1> DEFINE r == Item(loop, call, s, i)
<1>1. CASE loop # "keys"
  <2>1. PICK rule \in {"and", "not", "or"} :
           rule = Operand[loop] /\ r = call[rule][i]
    BY <1>1, EveryLevel DEF Item, Operand
  <2>2. Reads(b, s, rule, i, r)
    BY <2>1 DEF AllRead, Called, Rules
  <2>3. r.at \in Positions(s) /\ r.ast \in b[rule][i][r.at]
    BY <2>2 DEF Reads
  <2>4. rule \in Levels
    BY <2>1, EveryLevel
  <2>5. i < r.at
    BY <2>3, <2>4 DEF IsGrammar, TakesTokens
  <2>6. r.ast \in Items(loop, b, s, i, r.at)
    BY <1>1, <2>1, <2>3 DEF Items
  <2> QED BY <2>3, <2>5, <2>6
<1>2. CASE loop = "keys"
  <2>1. r = IF Token(s, i) \in Words THEN Read(i + 1, s[i]) ELSE Failed
    BY <1>2 DEF Item
  <2>2. Token(s, i) \in Words /\ r = Read(i + 1, s[i])
    BY <2>1, ReadIs
  <2>3. i + 1 \in Positions(s) /\ s[i] \in Words
    <3>1. Token(s, i) # "end of expression"
      BY <2>2, TokensApart
    <3> QED BY <2>2, <3>1, TokenIs
  <2>4. i < i + 1
    <3>1. i \in Int
      BY PositionsBetween
    <3> QED BY <3>1
  <2> QED BY <1>2, <2>2, <2>3, <2>4, ReadIs, ItemsAre
<1> QED BY <1>1, <1>2

LEMMA TurnReads ==
  ASSUME NEW b, NEW s, Len(s) \in Nat, IsGrammar(b, s), NEW call, AllRead(b, s, call),
         NEW loop \in Loops, NEW i \in Positions(s), NEW lhs, Reads(b, s, loop, i, lhs)
  PROVE  Reads(b, s, loop, i, Turn(loop, call, s, lhs))
<1> DEFINE r == Turn(loop, call, s, lhs)
           k == lhs.at
           rhs == Item(loop, call, s, k + 1)
<1>1. r = IF Bad(lhs) \/ Token(s, k) # Symbol[loop] THEN lhs
          ELSE IF Bad(rhs) THEN Failed
          ELSE Read(rhs.at, Joined(loop, lhs.ast, rhs.ast))
  BY DEF Turn
<1> SUFFICES Reads(b, s, loop, i, r)
  OBVIOUS
<1> HIDE DEF r
<1>2. CASE Bad(lhs) \/ Token(s, k) # Symbol[loop]
  BY <1>1, <1>2
<1>3. CASE ~(Bad(lhs) \/ Token(s, k) # Symbol[loop]) /\ Bad(rhs)
  <2>1. r = Failed
    BY <1>1, <1>3
  <2> QED BY <2>1, ReadIs DEF Reads
<1>4. CASE ~(Bad(lhs) \/ Token(s, k) # Symbol[loop]) /\ ~Bad(rhs)
  <2>1. r = Read(rhs.at, Joined(loop, lhs.ast, rhs.ast))
    BY <1>1, <1>4
  <2>2. r.at = rhs.at /\ r.ast = Joined(loop, lhs.ast, rhs.ast)
    BY <2>1, ReadIs
  <2>3. k \in Positions(s) /\ lhs.ast \in b[loop][i][k] /\ Token(s, k) = Symbol[loop]
    BY <1>4 DEF Reads, Bad
  <2>4. k + 1 \in Positions(s) /\ s[k] = Symbol[loop]
    BY <2>3, TokenIs, TokensApart
  <2>5. rhs.at \in Positions(s) /\ k + 1 < rhs.at /\ rhs.ast \in Items(loop, b, s, k + 1, rhs.at)
    BY <1>4, <2>4, ItemReads DEF Bad
  <2>6. i < k
    BY <2>3, EveryLevel DEF IsGrammar, TakesTokens
  <2>7. i \in Int /\ k \in Int /\ rhs.at \in Int
    BY <2>3, <2>5, PositionsBetween
  <2> HIDE DEF k, rhs
  <2>8. k \in i .. rhs.at - 1
    BY <2>5, <2>6, <2>7
  <2>9. r.ast \in Chains(loop, b, s, i, rhs.at)
    BY <2>2, <2>3, <2>4, <2>5, <2>7, <2>8, ChainsAre
  <2>10. r.ast \in Phrases(loop, b, s, i, rhs.at)
    <3>1. Phrases(loop, b, s, i, rhs.at) = Chains(loop, b, s, i, rhs.at)
      BY LoopPhrases
    <3> QED BY <2>9, <3>1
  <2> QED BY <2>2, <2>5, <2>10, EveryLevel DEF IsGrammar, Reads
<1> QED BY <1>2, <1>3, <1>4

LEMMA LoopReads ==
  ASSUME NEW b, NEW s, Len(s) \in Nat, IsGrammar(b, s), NEW call, AllRead(b, s, call),
         NEW loop \in Loops, NEW i \in Positions(s), loop = "keys" => Token(s, i) \in Names
  PROVE  Reads(b, s, loop, i, Loop(loop, call, s, i))
<1>1. PICK n \in Nat : \E lhs : IsTurns(lhs, loop, call, s, i, n) /\ Loop(loop, call, s, i) = lhs[n]
  BY LoopIs
<1>2. PICK lhs : IsTurns(lhs, loop, call, s, i, n) /\ Loop(loop, call, s, i) = lhs[n]
  BY <1>1
<1> DEFINE T == {k \in 0 .. n : ~Reads(b, s, loop, i, lhs[k])}
<1>3. T = {}
  <2> SUFFICES ASSUME T # {} PROVE FALSE
    OBVIOUS
  <2>1. PICK k \in T : \A l \in T : k <= l
    <3>1. T \in SUBSET Nat
      OBVIOUS
    <3> HIDE DEF T
    <3> QED BY <3>1, LeastNat
  <2>2. k \in 0 .. n /\ ~Reads(b, s, loop, i, lhs[k])
    BY <2>1
  <2>3. k # 0
    <3>1. k = 0 => lhs[k] = First(loop, call, s, i)
      BY <1>2, <2>2, TurnAt
    <3> QED BY <3>1, <2>2, FirstReads
  <2>4. k - 1 \in 0 .. n /\ k - 1 \notin T
    BY <2>1, <2>2, <2>3
  <2>5. Reads(b, s, loop, i, lhs[k - 1])
    BY <2>4
  <2>6. lhs[k] = Turn(loop, call, s, lhs[k - 1])
    BY <1>2, <2>2, <2>3, TurnAt
  <2> QED BY <2>2, <2>5, <2>6, TurnReads
<1>4. n \in 0 .. n
  OBVIOUS
<1> QED BY <1>2, <1>3, <1>4

LEMMA NotReads ==
  ASSUME NEW b, NEW s, Len(s) \in Nat, IsGrammar(b, s), NEW call, AllRead(b, s, call),
         NEW i \in Positions(s)
  PROVE  Reads(b, s, "not", i, ParseNot(call, s, i))
<1> DEFINE r == ParseNot(call, s, i)
           e == call["not"][i + 1]
<1>1. r = IF Token(s, i) # "!" THEN call["cmp"][i]
          ELSE IF Bad(e) THEN Failed ELSE Read(e.at, NotOf(e.ast))
  BY DEF ParseNot
<1> SUFFICES ASSUME r.at # 0
             PROVE  r.at \in Positions(s) /\ r.ast \in Nots(b, s, i, r.at)
  <2> HIDE DEF r
  <2>1. r.at # 0 => r.at \in Positions(s) /\ r.ast \in Phrases("not", b, s, i, r.at)
    BY PhrasesAre
  <2> QED BY <2>1, EveryLevel DEF IsGrammar, Reads, r
<1> HIDE DEF r
<1>2. CASE Token(s, i) # "!"
  <2>1. r = call["cmp"][i]
    BY <1>1, <1>2
  <2>2. Reads(b, s, "cmp", i, r)
    BY <2>1 DEF AllRead, Called, Rules
  <2> QED BY <2>2, NotsAre DEF Reads
<1>3. CASE Token(s, i) = "!"
  <2>1. r = Read(e.at, NotOf(e.ast)) /\ e.at # 0
    BY <1>1, <1>3, ReadIs DEF Bad
  <2>2. i + 1 \in Positions(s) /\ s[i] = "!"
    BY <1>3, TokenIs
  <2>3. Reads(b, s, "not", i + 1, e)
    BY <2>2 DEF AllRead, Called, Rules
  <2>4. e.at \in Positions(s) /\ e.ast \in b["not"][i + 1][e.at]
    BY <2>1, <2>3 DEF Reads
  <2>5. i + 1 < e.at
    BY <2>2, <2>4, EveryLevel DEF IsGrammar, TakesTokens
  <2>6. i < e.at
    <3>1. i \in Int /\ e.at \in Int
      BY <2>4, PositionsBetween
    <3> QED BY <3>1, <2>5
  <2>7. r.at = e.at /\ r.ast = NotOf(e.ast)
    BY <2>1, ReadIs
  <2> QED BY <2>2, <2>4, <2>6, <2>7, NotsAre
<1> QED BY <1>2, <1>3

LEMMA CmpReads ==
  ASSUME NEW b, NEW s, Len(s) \in Nat, IsGrammar(b, s), NEW call, AllRead(b, s, call),
         NEW i \in Positions(s)
  PROVE  Reads(b, s, "cmp", i, ParseCmp(call, s, i))
<1> DEFINE r == ParseCmp(call, s, i)
           lhs == call["primary"][i]
           k == lhs.at
           rhs == call["primary"][k + 1]
<1>1. r = IF Bad(lhs) \/ Token(s, k) \notin Operators THEN lhs
          ELSE IF Bad(rhs) THEN Failed
          ELSE Read(rhs.at, CmpOf(s[k], lhs.ast, rhs.ast))
  BY DEF ParseCmp
<1> SUFFICES ASSUME r.at # 0
             PROVE  r.at \in Positions(s) /\ r.ast \in Cmps(b, s, i, r.at)
  <2> HIDE DEF r
  <2>1. r.at # 0 => r.at \in Positions(s) /\ r.ast \in Phrases("cmp", b, s, i, r.at)
    BY PhrasesAre
  <2> QED BY <2>1, EveryLevel DEF IsGrammar, Reads, r
<1> HIDE DEF r
<1>2. Reads(b, s, "primary", i, lhs)
  BY DEF AllRead, Called, Rules
<1>3. CASE Bad(lhs) \/ Token(s, k) \notin Operators
  <2>1. r = lhs
    BY <1>1, <1>3
  <2> QED BY <1>2, <2>1, CmpsAre DEF Reads
<1>4. CASE ~(Bad(lhs) \/ Token(s, k) \notin Operators)
  <2>1. r = Read(rhs.at, CmpOf(s[k], lhs.ast, rhs.ast)) /\ rhs.at # 0 /\ k # 0
    BY <1>1, <1>4, ReadIs DEF Bad
  <2>2. k \in Positions(s) /\ lhs.ast \in b["primary"][i][k]
    BY <1>2, <2>1 DEF Reads
  <2>3. k + 1 \in Positions(s) /\ s[k] \in Operators
    BY <1>4, <2>2, TokenIs, TokensApart
  <2>4. Reads(b, s, "primary", k + 1, rhs)
    BY <2>3 DEF AllRead, Called, Rules
  <2>5. rhs.at \in Positions(s) /\ rhs.ast \in b["primary"][k + 1][rhs.at]
    BY <2>1, <2>4 DEF Reads
  <2>6. i < k /\ k + 1 < rhs.at
    <3> HIDE DEF k, rhs, lhs
    <3>1. "primary" \in Levels /\ TakesTokens(b, s)
      BY EveryLevel DEF IsGrammar
    <3>2. i < k
      BY <2>2, <3>1 DEF TakesTokens
    <3>3. k + 1 < rhs.at
      BY <2>3, <2>5, <3>1 DEF TakesTokens
    <3> QED BY <3>2, <3>3
  <2>7. k \in i .. rhs.at - 1
    <3>1. i \in Int /\ k \in Int /\ rhs.at \in Int
      BY <2>2, <2>5, PositionsBetween
    <3> HIDE DEF k, rhs
    <3> QED BY <3>1, <2>6
  <2>8. r.at = rhs.at /\ r.ast = CmpOf(s[k], lhs.ast, rhs.ast)
    <3> HIDE DEF k, rhs, lhs
    <3> QED BY <2>1, ReadIs
  <2> HIDE DEF k, rhs, lhs
  <2> QED BY <2>2, <2>3, <2>5, <2>7, <2>8, CmpsAre
<1> QED BY <1>3, <1>4

LEMMA PrimaryReads ==
  ASSUME NEW b, NEW s, Len(s) \in Nat, IsGrammar(b, s), NEW call, AllRead(b, s, call),
         NEW i \in Positions(s)
  PROVE  Reads(b, s, "primary", i, ParsePrimary(call, s, i))
<1> DEFINE r == ParsePrimary(call, s, i)
           e == call["or"][i + 1]
<1>1. r = IF Token(s, i) \in Names THEN call["variable_or_call"][i]
          ELSE IF Token(s, i) # "(" THEN ParseLiteral(s, i)
          ELSE IF Bad(e) \/ Token(s, e.at) # ")" THEN Failed ELSE Read(e.at + 1, e.ast)
  BY DEF ParsePrimary
<1> SUFFICES ASSUME r.at # 0
             PROVE  r.at \in Positions(s) /\ r.ast \in Primaries(b, s, i, r.at)
  <2> HIDE DEF r
  <2>1. r.at # 0 => r.at \in Positions(s) /\ r.ast \in Phrases("primary", b, s, i, r.at)
    BY PhrasesAre
  <2> QED BY <2>1, EveryLevel DEF IsGrammar, Reads, r
<1> HIDE DEF r
<1>2. CASE Token(s, i) \in Names
  <2>1. r = call["variable_or_call"][i]
    BY <1>1, <1>2
  <2>2. Reads(b, s, "variable_or_call", i, r)
    BY <1>2, <2>1 DEF AllRead, Called, Rules
  <2> QED BY <2>2, PrimariesAre DEF Reads
<1>3. CASE Token(s, i) \notin Names /\ Token(s, i) # "("
  <2>1. r = IF Token(s, i) \in Known THEN Read(i + 1, LiteralOf(KnownValue(s[i]))) ELSE Failed
    BY <1>1, <1>3 DEF ParseLiteral
  <2>2. Token(s, i) \in Known /\ r = Read(i + 1, LiteralOf(KnownValue(s[i])))
    BY <2>1, ReadIs
  <2>3. i + 1 \in Positions(s) /\ s[i] \in Known
    <3>1. Token(s, i) # "end of expression"
      BY <2>2, TokensApart
    <3> QED BY <2>2, <3>1, TokenIs
  <2> QED BY <2>2, <2>3, ReadIs, PrimariesAre
<1>4. CASE Token(s, i) \notin Names /\ Token(s, i) = "("
  <2>1. r = Read(e.at + 1, e.ast) /\ e.at # 0 /\ Token(s, e.at) = ")"
    BY <1>1, <1>4, ReadIs DEF Bad
  <2>2. i + 1 \in Positions(s) /\ s[i] = "("
    BY <1>4, TokenIs
  <2>3. Reads(b, s, "or", i + 1, e)
    BY <2>2 DEF AllRead, Called, Rules
  <2>4. e.at \in Positions(s) /\ e.ast \in b["or"][i + 1][e.at]
    BY <2>1, <2>3 DEF Reads
  <2>5. e.at + 1 \in Positions(s) /\ s[e.at] = ")"
    BY <2>1, <2>4, TokenIs
  <2>6. i + 1 < e.at
    BY <2>2, <2>4, EveryLevel DEF IsGrammar, TakesTokens
  <2> DEFINE k == e.at + 1
  <2>7. k - 1 = e.at /\ i + 1 < k - 1
    <3>1. e.at \in Int
      BY <2>4, PositionsBetween
    <3> QED BY <3>1, <2>6
  <2>8. r.at = k /\ r.ast = e.ast /\ k \in Positions(s)
    BY <2>1, <2>5, ReadIs
  <2>9. s[k - 1] = ")" /\ e.ast \in b["or"][i + 1][k - 1]
    BY <2>4, <2>5, <2>7
  <2> HIDE DEF k, e
  <2> QED BY <2>2, <2>7, <2>8, <2>9, PrimariesAre
<1> QED BY <1>2, <1>3, <1>4

LEMMA ArgsRead ==
  ASSUME NEW b, NEW s, Len(s) \in Nat, IsGrammar(b, s), NEW call, AllRead(b, s, call),
         NEW i \in Positions(s), ParseArgs(call, s, i).at # 0
  PROVE  \E k \in Positions(s) :
            /\ i <= k /\ s[k] = ")" /\ k + 1 \in Positions(s)
            /\ ParseArgs(call, s, i).at = k + 1
            /\ ParseArgs(call, s, i).ast \in Arguments(b, i, k)
<1> DEFINE r == ParseArgs(call, s, i)
           args == Loop("args", call, s, i)
<1>0. i \in Int
  BY PositionsBetween
<1>1. r = IF Token(s, i) = ")" THEN Read(i + 1, <<>>)
          ELSE IF Bad(args) \/ Token(s, args.at) # ")" THEN Failed
          ELSE Read(args.at + 1, args.ast)
  BY DEF ParseArgs
<1> HIDE DEF r
<1> SUFFICES \E k \in Positions(s) :
               /\ i <= k /\ s[k] = ")" /\ k + 1 \in Positions(s)
               /\ r.at = k + 1 /\ r.ast \in Arguments(b, i, k)
  BY DEF r
<1>2. CASE Token(s, i) = ")"
  <2>1. s[i] = ")" /\ i + 1 \in Positions(s)
    BY <1>2, TokenIs
  <2>2. r.at = i + 1 /\ r.ast = <<>>
    BY <1>1, <1>2, ReadIs
  <2>3. <<>> \in Arguments(b, i, i)
    BY DEF Arguments
  <2> QED BY <1>0, <2>1, <2>2, <2>3
<1>3. CASE Token(s, i) # ")"
  <2>0. r.at # 0
    BY DEF r
  <2>1. r = Read(args.at + 1, args.ast) /\ args.at # 0 /\ Token(s, args.at) = ")"
    BY <1>1, <1>3, <2>0, ReadIs DEF Bad
  <2>2. Reads(b, s, "args", i, args)
    BY LoopReads, EveryLevel
  <2> HIDE DEF args
  <2>3. args.at \in Positions(s) /\ args.ast \in b["args"][i][args.at]
    BY <2>1, <2>2 DEF Reads
  <2>4. i < args.at
    BY <2>3, EveryLevel DEF IsGrammar, TakesTokens
  <2>5. args.at + 1 \in Positions(s) /\ s[args.at] = ")"
    BY <2>1, <2>3, TokenIs
  <2>6. i <= args.at /\ i # args.at
    <3>1. args.at \in Int
      BY <2>3, PositionsBetween
    <3> QED BY <3>1, <1>0, <2>4
  <2>7. args.ast \in Arguments(b, i, args.at)
    BY <2>3, <2>6 DEF Arguments
  <2>8. r.at = args.at + 1 /\ r.ast = args.ast
    BY <2>1, ReadIs
  <2> QED BY <2>3, <2>5, <2>6, <2>7, <2>8
<1> QED BY <1>2, <1>3

LEMMA VariableOrCallReads ==
  ASSUME NEW b, NEW s, Len(s) \in Nat, IsGrammar(b, s), NEW call, AllRead(b, s, call),
         NEW i \in Positions(s), Token(s, i) \in Names
  PROVE  Reads(b, s, "variable_or_call", i, ParseVariableOrCall(call, s, i))
<1> DEFINE r == ParseVariableOrCall(call, s, i)
           path == Loop("keys", call, s, i)
           k == path.at
           args == ParseArgs(call, s, k + 1)
<1>1. r = IF Bad(path) THEN Failed
          ELSE IF Token(s, k) # "(" THEN Read(k, VariableOf(path.ast))
          ELSE IF Bad(args) THEN Failed
          ELSE Read(args.at, CallOf(path.ast, args.ast))
  BY DEF ParseVariableOrCall, EndPath, EndCall
<1> SUFFICES ASSUME r.at # 0
             PROVE  r.at \in Positions(s) /\ r.ast \in VariablesAndCalls(b, s, i, r.at)
  <2> HIDE DEF r
  <2>1. r.at # 0 => r.at \in Positions(s) /\ r.ast \in Phrases("variable_or_call", b, s, i, r.at)
    BY PhrasesAre
  <2> QED BY <2>1, EveryLevel DEF IsGrammar, Reads, r
<1> HIDE DEF r
<1>2. Reads(b, s, "keys", i, path)
  BY LoopReads, EveryLevel
<1> HIDE DEF path
<1>3. k # 0
  BY <1>1, ReadIs DEF Bad
<1>4. k \in Positions(s) /\ path.ast \in b["keys"][i][k]
  BY <1>2, <1>3 DEF Reads
<1>5. CASE Token(s, k) # "("
  <2>1. r = Read(k, VariableOf(path.ast))
    BY <1>1, <1>3, <1>5 DEF Bad
  <2> QED BY <2>1, <1>4, ReadIs, VariablesAndCallsAre
<1>6. CASE Token(s, k) = "("
  <2>1. r = Read(args.at, CallOf(path.ast, args.ast)) /\ args.at # 0
    BY <1>1, <1>3, <1>6, ReadIs DEF Bad
  <2>2. k + 1 \in Positions(s) /\ s[k] = "("
    BY <1>4, <1>6, TokenIs
  <2>3. PICK l \in Positions(s) :
           /\ k + 1 <= l /\ s[l] = ")" /\ l + 1 \in Positions(s)
           /\ args.at = l + 1
           /\ args.ast \in Arguments(b, k + 1, l)
    BY <2>1, <2>2, ArgsRead
  <2>4. i < k
    BY <1>4, EveryLevel DEF IsGrammar, TakesTokens
  <2> DEFINE j == l + 1
  <2>5. i \in Int /\ k \in Int /\ l \in Int
    BY <1>4, PositionsBetween
  <2> HIDE DEF k, args
  <2>6. k \in i .. j - 2 /\ j - 1 = l
    BY <2>3, <2>4, <2>5
  <2>7. r.at = j /\ r.ast = CallOf(path.ast, args.ast) /\ j \in Positions(s)
    BY <2>1, <2>3, ReadIs
  <2>8. s[j - 1] = ")" /\ args.ast \in Arguments(b, k + 1, j - 1)
    BY <2>3, <2>6
  <2> HIDE DEF j
  <2> QED BY <1>4, <2>2, <2>6, <2>7, <2>8, VariablesAndCallsAre
<1> QED BY <1>5, <1>6

LEMMA CallsRead ==
  ASSUME NEW b, NEW s, Len(s) \in Nat, IsGrammar(b, s),
         NEW f, NEW m \in Nat, IsCalls(f, s, m), NEW d \in 0 .. m
  PROVE  AllRead(b, s, f[d])
<1> DEFINE T == {e \in 0 .. m : ~AllRead(b, s, f[e])}
<1>1. T = {}
  <2> SUFFICES ASSUME T # {} PROVE FALSE
    OBVIOUS
  <2>1. PICK e \in T : \A k \in T : e <= k
    <3>1. T \in SUBSET Nat
      OBVIOUS
    <3> HIDE DEF T
    <3> QED BY <3>1, LeastNat
  <2>2. e \in 0 .. m
    BY <2>1
  <2>3. PICK rule \in Rules, i \in Positions(s) :
           Called(s, rule, i) /\ ~Reads(b, s, rule, i, f[e][rule][i])
    BY <2>1 DEF AllRead
  <2>4. e # 0
    <3>1. e = 0 => f[e][rule][i] = Failed
      BY <2>2, CallAt
    <3> QED BY <3>1, <2>3, ReadIs DEF Reads
  <2>5. e - 1 \in 0 .. m /\ e - 1 \notin T
    BY <2>1, <2>2, <2>4
  <2>6. AllRead(b, s, f[e - 1])
    BY <2>5
  <2>7. f[e][rule][i] = Rule(rule, f[e - 1], s, i)
    BY <2>2, <2>4, CallAt
  <2>8. CASE rule \in {"or", "and"}
    <3>1. Rule(rule, f[e - 1], s, i) = Loop(rule, f[e - 1], s, i)
      BY <2>8 DEF Rule
    <3>2. rule \in Loops /\ rule # "keys"
      BY <2>8, EveryLevel
    <3>3. Reads(b, s, rule, i, Loop(rule, f[e - 1], s, i))
      BY <3>2, <2>6, LoopReads
    <3> QED BY <3>1, <3>3, <2>3, <2>7
  <2>9. CASE rule = "not"
    BY <2>9, <2>3, <2>6, <2>7, NotReads DEF Rule
  <2>10. CASE rule = "cmp"
    BY <2>10, <2>3, <2>6, <2>7, CmpReads DEF Rule
  <2>11. CASE rule = "primary"
    BY <2>11, <2>3, <2>6, <2>7, PrimaryReads DEF Rule
  <2>12. CASE rule = "variable_or_call"
    BY <2>12, <2>3, <2>6, <2>7, VariableOrCallReads DEF Rule, Called
  <2> QED BY <2>8, <2>9, <2>10, <2>11, <2>12 DEF Rules
<1> QED BY <1>1

---------------------------------------------------------------------------
(* Every tree is found. *)

\* What the first token of a tree can be.
Starts == [keys |-> Names, variable_or_call |-> Names,
           primary |-> Names \cup Known \cup {"("}, cmp |-> Names \cup Known \cup {"("},
           not |-> Names \cup Known \cup {"(", "!"}, and |-> Names \cup Known \cup {"(", "!"},
           or |-> Names \cup Known \cup {"(", "!"}, args |-> Names \cup Known \cup {"(", "!"}]

LEMMA StartsAre ==
  /\ \A t : t \in Starts["keys"] <=> t \in Names
  /\ \A t : t \in Starts["variable_or_call"] <=> t \in Names
  /\ \A t : t \in Starts["primary"] <=> t \in Names \/ t \in Known \/ t = "("
  /\ \A t : t \in Starts["cmp"] <=> t \in Starts["primary"]
  /\ \A t : t \in Starts["not"] <=> t \in Starts["cmp"] \/ t = "!"
  /\ \A t : t \in Starts["and"] <=> t \in Starts["not"]
  /\ \A t : t \in Starts["or"] <=> t \in Starts["not"]
  /\ \A t : t \in Starts["args"] <=> t \in Starts["not"]
BY DEF Starts

LEMMA Begins ==
  ASSUME NEW b, NEW s, Len(s) \in Nat, IsGrammar(b, s), NEW level \in Levels,
         NEW i \in Positions(s), NEW j \in Positions(s), NEW t \in b[level][i][j]
  PROVE  s[i] \in Starts[level]
<1> DEFINE Bad1(h) == \E x \in Levels : \E p, q \in Positions(s) :
                        /\ Height(x, q - p) = h
                        /\ \E u : u \in b[x][p][q] /\ s[p] \notin Starts[x]
           T == {h \in Nat : Bad1(h)}
<1>0. \A x \in Levels : \A p, q \in Positions(s) : \A u \in b[x][p][q] :
         p < q /\ p \in Int /\ q \in Int /\ Height(x, q - p) \in Nat
  <2> SUFFICES ASSUME NEW x \in Levels, NEW p \in Positions(s), NEW q \in Positions(s),
                      NEW u \in b[x][p][q]
               PROVE  p < q /\ p \in Int /\ q \in Int /\ Height(x, q - p) \in Nat
    OBVIOUS
  <2>1. p < q /\ p \in Int /\ q \in Int
    BY PositionsBetween DEF IsGrammar, TakesTokens
  <2>2. q - p \in Int /\ q - p >= 1
    BY <2>1
  <2>3. Height(x, q - p) \in Int /\ Height(x, q - p) >= 1
    BY <2>2, HeightIs
  <2> QED BY <2>1, <2>3
<1>1. T = {}
  <2> SUFFICES ASSUME T # {} PROVE FALSE
    OBVIOUS
  <2>1. PICK h \in T : \A k \in T : h <= k
    <3>1. T \in SUBSET Nat
      OBVIOUS
    <3> HIDE DEF T
    <3> QED BY <3>1, LeastNat
  <2>2. PICK x \in Levels, p \in Positions(s), q \in Positions(s) :
           Height(x, q - p) = h /\ \E u : u \in b[x][p][q] /\ s[p] \notin Starts[x]
    BY <2>1
  <2>3. PICK u : u \in b[x][p][q] /\ s[p] \notin Starts[x]
    BY <2>2
  <2>4. p < q /\ p \in Int /\ q \in Int
    BY <1>0, <2>3
  <2>5. ASSUME NEW y \in Levels, NEW r \in Positions(s), NEW v \in b[y][p][r],
               Lower(y, p, r, x, p, q)
        PROVE  s[p] \in Starts[y]
    <3> DEFINE l == Height(y, r - p)
    <3>1. l \in Nat /\ l < h /\ h \in Nat
      BY <1>0, <2>1, <2>2, <2>5 DEF Lower
    <3>2. ~(l \in T)
      <4> HIDE DEF l, T
      <4> QED BY <3>1, <2>1
    <3> QED BY <3>1, <3>2
  <2> HIDE DEF T, Bad1
  <2>6. u \in Phrases(x, b, s, p, q)
    BY <2>3 DEF IsGrammar
  <2>7. CASE x \in Loops
    <3>1. u \in Chains(x, b, s, p, q)
      BY <2>6, <2>7, PhrasesAre
    <3>2. CASE u \in Firsts(x, b, s, p, q)
      <4>1. CASE x = "or"
        <5>1. u \in b["and"][p][q] /\ "and" \in Levels
          BY <3>2, <4>1, FirstsAre, EveryLevel
        <5>2. Lower("and", p, q, x, p, q)
          BY <2>4, <4>1, PartsAreLower
        <5>3. s[p] \in Starts["and"]
          BY <2>5, <5>1, <5>2
        <5> QED BY <2>3, <4>1, <5>3, StartsAre
      <4>2. CASE x = "and"
        <5>1. u \in b["not"][p][q] /\ "not" \in Levels
          BY <3>2, <4>2, FirstsAre, EveryLevel
        <5>2. Lower("not", p, q, x, p, q)
          BY <2>4, <4>2, PartsAreLower
        <5>3. s[p] \in Starts["not"]
          BY <2>5, <5>1, <5>2
        <5> QED BY <2>3, <4>2, <5>3, StartsAre
      <4>3. CASE x = "args"
        <5>1. PICK a : a \in b["or"][p][q] /\ "or" \in Levels
          BY <3>2, <4>3, FirstsAre, EveryLevel
        <5>2. Lower("or", p, q, x, p, q)
          BY <2>4, <4>3, PartsAreLower
        <5>3. s[p] \in Starts["or"]
          BY <2>5, <5>1, <5>2
        <5> QED BY <2>3, <4>3, <5>3, StartsAre
      <4>4. CASE x = "keys"
        BY <3>2, <4>4, <2>3, FirstsAre, StartsAre
      <4> QED BY <2>7, <4>1, <4>2, <4>3, <4>4, EveryLevel
    <3>3. CASE \E k \in p .. q - 1 : \E l : l \in b[x][p][k]
      <4>1. PICK k \in p .. q - 1 : \E l : l \in b[x][p][k]
        BY <3>3
      <4>2. k \in Int /\ k < q /\ k \in Positions(s)
        BY <2>4, PositionsBetween
      <4>3. p < k
        BY <4>1, <4>2, <1>0
      <4>4. Lower(x, p, k, x, p, q)
        BY <4>2, <4>3, <2>4, PartsAreLower
      <4> QED BY <4>1, <4>2, <4>4, <2>3, <2>5
    <3> QED BY <3>1, <3>2, <3>3, <2>4, ChainsAre
  <2>8. CASE x = "not"
    <3>1. u \in b["cmp"][p][q] \/ s[p] = "!"
      BY <2>6, <2>8, PhrasesAre, NotsAre
    <3>2. u \in b["cmp"][p][q] => s[p] \in Starts["cmp"]
      BY <2>8, <2>4, <2>5, EveryLevel, PartsAreLower
    <3> QED BY <3>1, <3>2, <2>3, <2>8, StartsAre
  <2>9. CASE x = "cmp"
    <3>1. CASE u \in b["primary"][p][q]
      BY <3>1, <2>9, <2>3, <2>4, <2>5, StartsAre, EveryLevel, PartsAreLower
    <3>2. CASE \E k \in p .. q - 1 :
                  (\E l : l \in b["primary"][p][k]) /\ \E r : r \in b["primary"][k + 1][q]
      <4>1. PICK k \in p .. q - 1 :
                  (\E l : l \in b["primary"][p][k]) /\ \E r : r \in b["primary"][k + 1][q]
        BY <3>2
      <4>2. k \in Int /\ k \in Positions(s) /\ k + 1 \in Positions(s)
        BY <2>4, PositionsBetween
      <4>3. p < k /\ k + 1 < q
        BY <4>1, <4>2, <1>0, EveryLevel
      <4>4. Lower("primary", p, k, x, p, q)
        BY <2>9, <4>2, <4>3, <2>4, PartsAreLower
      <4>5. s[p] \in Starts["primary"]
        BY <4>1, <4>2, <4>4, <2>5, EveryLevel
      <4> QED BY <2>9, <4>5, <2>3, StartsAre
    <3>3. u \in Cmps(b, s, p, q)
      BY <2>6, <2>9, PhrasesAre
    <3> QED BY <3>1, <3>2, <3>3, CmpsAre
  <2>10. CASE x = "primary"
    <3>1. u \in b["variable_or_call"][p][q] \/ s[p] \in Known \/ s[p] = "("
      BY <2>6, <2>10, PhrasesAre, PrimariesAre
    <3>2. u \in b["variable_or_call"][p][q] => s[p] \in Starts["variable_or_call"]
      BY <2>10, <2>4, <2>5, EveryLevel, PartsAreLower
    <3> QED BY <3>1, <3>2, <2>3, <2>10, StartsAre
  <2>11. CASE x = "variable_or_call"
    <3>1. CASE \E v : v \in b["keys"][p][q]
      BY <3>1, <2>11, <2>3, <2>4, <2>5, StartsAre, EveryLevel, PartsAreLower
    <3>2. CASE \E k \in p .. q - 2 : \E v : v \in b["keys"][p][k]
      <4>1. PICK k \in p .. q - 2 : \E v : v \in b["keys"][p][k]
        BY <3>2
      <4>2. k \in Int /\ k \in Positions(s) /\ k + 1 < q
        BY <2>4, PositionsBetween
      <4>3. p < k
        BY <4>1, <4>2, <1>0, EveryLevel
      <4>4. Lower("keys", p, k, x, p, q)
        BY <2>11, <4>2, <4>3, <2>4, PartsAreLower
      <4>5. s[p] \in Starts["keys"]
        BY <4>1, <4>2, <4>4, <2>5, EveryLevel
      <4> QED BY <2>11, <4>5, <2>3, StartsAre
    <3>3. u \in VariablesAndCalls(b, s, p, q)
      BY <2>6, <2>11, PhrasesAre
    <3> QED BY <3>1, <3>2, <3>3, VariablesAndCallsAre
  <2> QED BY <2>7, <2>8, <2>9, <2>10, <2>11, EveryLevel
<1> QED BY <1>0, <1>1

\* The tokens after which a method, or the part of a loop, reads on.
Goes == [keys |-> {"."}, variable_or_call |-> {".", "("}, primary |-> {".", "("},
         cmp |-> {".", "("} \cup Operators, not |-> {".", "("} \cup Operators,
         and |-> {".", "(", "&&"} \cup Operators,
         or |-> {".", "(", "&&", "||"} \cup Operators,
         args |-> {".", "(", "&&", "||", ","} \cup Operators]
Inner == [keys |-> {}, and |-> Goes["not"], or |-> Goes["and"], args |-> Goes["or"]]

LEMMA GoesAre ==
  /\ \A loop \in Loops : Symbol[loop] \notin Inner[loop]
  /\ \A loop \in Loops : \A t : t \notin Goes[loop] => t \notin Inner[loop] /\ t # Symbol[loop]
  /\ Inner["or"] = Goes["and"] /\ Inner["and"] = Goes["not"] /\ Inner["args"] = Goes["or"]
  /\ ")" \notin Goes["or"] /\ ")" \notin Inner["args"] /\ ")" # Symbol["args"]
  /\ "(" \notin Inner["keys"] /\ "(" # Symbol["keys"]
  /\ \A t : t \notin Goes["not"] => t \notin Goes["cmp"]
  /\ \A t : t \notin Goes["cmp"] => t \notin Goes["primary"] /\ t \notin Operators
  /\ \A t \in Operators : t \notin Goes["primary"]
  /\ \A t : t \notin Goes["primary"] => t \notin Goes["variable_or_call"]
  /\ \A t : t \notin Goes["variable_or_call"] =>
               t # "(" /\ t \notin Inner["keys"] /\ t # Symbol["keys"]
<1>1. /\ Symbol["or"] = "||" /\ Symbol["and"] = "&&" /\ Symbol["args"] = "," /\ Symbol["keys"] = "."
  BY DEF Symbol
<1>2. /\ Goes["keys"] = {"."} /\ Goes["variable_or_call"] = {".", "("}
      /\ Goes["primary"] = {".", "("}
      /\ Goes["cmp"] = {".", "("} \cup Operators
      /\ Goes["not"] = {".", "("} \cup Operators
      /\ Goes["and"] = {".", "(", "&&"} \cup Operators
      /\ Goes["or"] = {".", "(", "&&", "||"} \cup Operators
      /\ Goes["args"] = {".", "(", "&&", "||", ","} \cup Operators
  BY DEF Goes
<1>3. /\ Inner["keys"] = {} /\ Inner["and"] = Goes["not"]
      /\ Inner["or"] = Goes["and"] /\ Inner["args"] = Goes["or"]
  BY DEF Inner
<1>4. Operators = {"==", "!=", ">", "<", ">=", "<="}
  BY DEF Operators
<1>5. \A loop \in Loops : Symbol[loop] \notin Inner[loop]
  <2>1. "||" \notin Goes["and"] /\ "&&" \notin Goes["not"] /\ "," \notin Goes["or"]
    BY <1>2, <1>4
  <2> QED BY <1>1, <1>3, <2>1, EveryLevel
<1>6. \A loop \in Loops : \A t : t \notin Goes[loop] => t \notin Inner[loop] /\ t # Symbol[loop]
  <2> SUFFICES ASSUME NEW loop \in Loops, NEW t, t \notin Goes[loop]
               PROVE  t \notin Inner[loop] /\ t # Symbol[loop]
    OBVIOUS
  <2>1. CASE loop = "or"
    BY <2>1, <1>1, <1>2, <1>3
  <2>2. CASE loop = "and"
    BY <2>2, <1>1, <1>2, <1>3
  <2>3. CASE loop = "args"
    BY <2>3, <1>1, <1>2, <1>3
  <2>4. CASE loop = "keys"
    BY <2>4, <1>1, <1>2, <1>3
  <2> QED BY <2>1, <2>2, <2>3, <2>4, EveryLevel
<1>7. ")" \notin Goes["or"] /\ ")" \notin Inner["args"] /\ ")" # Symbol["args"]
  <2>1. ")" \notin {".", "(", "&&", "||"} /\ ")" \notin Operators
    BY <1>4
  <2> QED BY <2>1, <1>1, <1>2, <1>3
<1>8. "(" \notin Inner["keys"] /\ "(" # Symbol["keys"]
  BY <1>1, <1>3
<1>9. \A t : t \notin Goes["cmp"] => t \notin Goes["primary"] /\ t \notin Operators
  BY <1>2
<1>10. \A t \in Operators : t \notin Goes["primary"]
  BY <1>2, <1>4
<1>11. \A t : t \notin Goes["variable_or_call"] =>
                 t # "(" /\ t \notin Inner["keys"] /\ t # Symbol["keys"]
  BY <1>1, <1>2, <1>3
<1> QED BY <1>2, <1>3, <1>5, <1>6, <1>7, <1>8, <1>9, <1>10, <1>11

\* r has read the tree t up to j.
Finds(r, j, t) == r.at = j /\ r.ast = t

\* A tree is found by its method, or by the turns of its loop, wherever what follows
\* does not make the parser read on.
FoundByRule(f, s, m, level, i, j, t) ==
  \A d \in 0 .. m :
     Height(level, j - i) <= d /\ Token(s, j) \notin Goes[level] => Finds(f[d][level][i], j, t)

FoundByTurns(f, s, m, level, i, j, t) ==
  \A d \in 0 .. m, n \in Nat : \A lhs :
     /\ Height(level, j - i) <= d + 1
     /\ Token(s, j) \notin Inner[level]
     /\ j - i <= 2 * n + 1
     /\ IsTurns(lhs, level, f[d], s, i, n)
     => \E k \in 0 .. n : 2 * k + 1 <= j - i /\ Finds(lhs[k], j, t)

Found(f, s, m, level, i, j, t) ==
  /\ level \in Rules => FoundByRule(f, s, m, level, i, j, t)
  /\ level \in Loops => FoundByTurns(f, s, m, level, i, j, t)

FoundBelow(b, f, s, m, level, i, j) ==
  \A x \in Levels : \A p, q \in Positions(s) :
     Lower(x, p, q, level, i, j) => \A u \in b[x][p][q] : Found(f, s, m, x, p, q, u)

\* A loop stays where its symbol does not follow.
LEMMA LoopStops ==
  ASSUME NEW lhs, NEW loop, NEW call, NEW s, NEW i, NEW n \in Nat,
         IsTurns(lhs, loop, call, s, i, n), NEW k \in 0 .. n, NEW j, NEW t,
         Finds(lhs[k], j, t), Token(s, j) # Symbol[loop]
  PROVE  Finds(lhs[n], j, t)
<1> DEFINE T == {l \in k .. n : lhs[l] # lhs[k]}
<1>1. T = {}
  <2> SUFFICES ASSUME T # {} PROVE FALSE
    OBVIOUS
  <2>1. PICK l \in T : \A o \in T : l <= o
    <3>1. T \in SUBSET Nat
      OBVIOUS
    <3> HIDE DEF T
    <3> QED BY <3>1, LeastNat
  <2>2. l \in 0 .. n /\ l # 0 /\ l - 1 \in k .. n /\ l - 1 \notin T
    BY <2>1
  <2>3. lhs[l - 1] = lhs[k]
    BY <2>2
  <2>4. lhs[l] = Turn(loop, call, s, lhs[k])
    BY <2>2, <2>3, TurnAt
  <2>5. Turn(loop, call, s, lhs[k]) = lhs[k]
    BY DEF Turn, Finds
  <2> QED BY <2>1, <2>4, <2>5
<1>2. n \in k .. n
  OBVIOUS
<1> QED BY <1>1, <1>2

LEMMA LoopFinds ==
  ASSUME NEW f, NEW s, Len(s) \in Nat, NEW m \in Nat, NEW loop \in Loops,
         NEW i \in Positions(s), NEW j \in Positions(s), NEW t,
         FoundByTurns(f, s, m, loop, i, j, t),
         NEW d \in 0 .. m, Height(loop, j - i) <= d + 1, Token(s, j) \notin Inner[loop],
         Token(s, j) # Symbol[loop]
  PROVE  Finds(Loop(loop, f[d], s, i), j, t)
<1>1. PICK n \in Nat :
         /\ Len(s) + 1 - i <= 2 * n + 1
         /\ \E lhs : IsTurns(lhs, loop, f[d], s, i, n) /\ Loop(loop, f[d], s, i) = lhs[n]
  BY LoopIs
<1>2. PICK lhs : IsTurns(lhs, loop, f[d], s, i, n) /\ Loop(loop, f[d], s, i) = lhs[n]
  BY <1>1
<1>3. j - i <= 2 * n + 1
  <2>1. i \in Int /\ j \in Int /\ j <= Len(s) + 1
    BY DEF Positions
  <2> QED BY <2>1, <1>1
<1>4. PICK k \in 0 .. n : Finds(lhs[k], j, t)
  BY <1>2, <1>3 DEF FoundByTurns
<1> QED BY <1>2, <1>4, LoopStops

\* What follows the symbol of a loop is found.
LEMMA ItemFound ==
  ASSUME NEW b, NEW f, NEW s, Len(s) \in Nat, NEW m \in Nat, IsGrammar(b, s),
         NEW loop \in Loops, NEW i \in Positions(s), NEW j \in Positions(s),
         FoundBelow(b, f, s, m, loop, i, j),
         NEW p \in Positions(s), i < p, NEW r \in Items(loop, b, s, p, j),
         \A x \in Levels : p < j => Lower(x, p, j, loop, i, j),
         NEW d \in 0 .. m, Height(loop, j - i) <= d + 1, Token(s, j) \notin Inner[loop]
  PROVE  p < j /\ Finds(Item(loop, f[d], s, p), j, r)
<1>0. i \in Int /\ j \in Int /\ p \in Int
  BY PositionsBetween
<1>1. CASE loop # "keys"
  <2>1. PICK x \in {"or", "and", "not"} :
           x = Operand[loop] /\ Inner[loop] = Goes[x] /\ Items(loop, b, s, p, j) = b[x][p][j]
           /\ Item(loop, f[d], s, p) = f[d][x][p]
    BY <1>1, EveryLevel, GoesAre DEF Items, Item, Operand
  <2>2. x \in Levels /\ x \in Rules
    BY <2>1, EveryLevel DEF Rules
  <2>3. p < j
    BY <2>1, <2>2 DEF IsGrammar, TakesTokens
  <2>4. Lower(x, p, j, loop, i, j)
    BY <2>2, <2>3
  <2>5. FoundByRule(f, s, m, x, p, j, r)
    BY <2>1, <2>2, <2>4 DEF FoundBelow, Found
  <2>6. Height(x, j - p) <= d
    <3>1. Height(x, j - p) < Height(loop, j - i)
      BY <2>4 DEF Lower
    <3>2. Height(x, j - p) \in Int /\ Height(loop, j - i) \in Int
      <4>1. j - p \in Int /\ j - i \in Int
        BY <1>0
      <4> QED BY <4>1, <2>2, HeightIs, EveryLevel
    <3> QED BY <3>1, <3>2
  <2>7. Finds(f[d][x][p], j, r)
    BY <2>1, <2>5, <2>6 DEF FoundByRule
  <2> QED BY <2>1, <2>3, <2>7
<1>2. CASE loop = "keys"
  <2>1. j = p + 1 /\ s[p] \in Words /\ r = s[p]
    BY <1>2, ItemsAre
  <2>2. p <= Len(s)
    BY <2>1, <1>0 DEF Positions
  <2>3. Token(s, p) \in Words
    BY <2>1, <2>2, TokenIs
  <2>4. Item(loop, f[d], s, p) = Read(p + 1, s[p])
    BY <1>2, <2>3 DEF Item
  <2> QED BY <1>0, <2>1, <2>4, ReadIs DEF Finds
<1> QED BY <1>1, <1>2

LEMMA TurnsFind ==
  ASSUME NEW b, NEW f, NEW s, Len(s) \in Nat, NEW m \in Nat, IsGrammar(b, s),
         NEW loop \in Loops, NEW i \in Positions(s), NEW j \in Positions(s),
         FoundBelow(b, f, s, m, loop, i, j), NEW t \in b[loop][i][j]
  PROVE  FoundByTurns(f, s, m, loop, i, j, t)
<1> SUFFICES ASSUME NEW d \in 0 .. m, NEW n \in Nat, NEW lhs,
                    Height(loop, j - i) <= d + 1, Token(s, j) \notin Inner[loop],
                    j - i <= 2 * n + 1, IsTurns(lhs, loop, f[d], s, i, n)
             PROVE  \E k \in 0 .. n : 2 * k + 1 <= j - i /\ Finds(lhs[k], j, t)
  BY DEF FoundByTurns
<1>0. i \in Int /\ j \in Int
  BY PositionsBetween
<1>1. i < j
  BY EveryLevel DEF IsGrammar, TakesTokens
<1>2. t \in Chains(loop, b, s, i, j)
  BY PhrasesAre, EveryLevel DEF IsGrammar
<1>3. CASE t \in Firsts(loop, b, s, i, j)
  <2>1. 0 \in 0 .. n /\ 2 * 0 + 1 <= j - i
    BY <1>0, <1>1
  <2>2. lhs[0] = First(loop, f[d], s, i)
    BY <2>1, TurnAt
  <2>3. j - i \in Int /\ d \in Int
    BY <1>0
  <2>4. ASSUME NEW x \in {"or", "and", "not"}, Lower(x, i, j, loop, i, j), Inner[loop] = Goes[x],
               NEW u \in b[x][i][j]
        PROVE  Finds(f[d][x][i], j, u)
    <3>1. x \in Levels /\ x \in Rules
      BY EveryLevel DEF Rules
    <3>2. FoundByRule(f, s, m, x, i, j, u)
      BY <2>4, <3>1 DEF FoundBelow, Found
    <3>3. Height(x, j - i) <= d
      <4>1. Height(x, j - i) \in Int /\ Height(loop, j - i) \in Int
        BY <2>3, <3>1, HeightIs, EveryLevel
      <4> QED BY <2>3, <2>4, <4>1 DEF Lower
    <3> QED BY <2>4, <3>2, <3>3 DEF FoundByRule
  <2>5. Finds(First(loop, f[d], s, i), j, t)
    <3>1. CASE loop = "or"
      <4>1. t \in b["and"][i][j] /\ First(loop, f[d], s, i) = f[d]["and"][i]
        BY <1>3, <3>1, FirstsAre DEF First, Operand
      <4> QED BY <1>0, <1>1, <3>1, <2>4, <4>1, GoesAre, PartsAreLower
    <3>2. CASE loop = "and"
      <4>1. t \in b["not"][i][j] /\ First(loop, f[d], s, i) = f[d]["not"][i]
        BY <1>3, <3>2, FirstsAre DEF First, Operand
      <4> QED BY <1>0, <1>1, <3>2, <2>4, <4>1, GoesAre, PartsAreLower
    <3>3. CASE loop = "args"
      <4>1. PICK a \in b["or"][i][j] : t = <<a>>
        BY <1>3, <3>3, FirstsAre
      <4>2. Finds(f[d]["or"][i], j, a)
        BY <1>0, <1>1, <3>3, <2>4, <4>1, GoesAre, PartsAreLower
      <4>3. f[d]["or"][i].at # 0
        <5>1. j # 0
          BY DEF Positions
        <5> QED BY <4>2, <5>1 DEF Finds
      <4>4. First(loop, f[d], s, i) = Read(f[d]["or"][i].at, <<f[d]["or"][i].ast>>)
        BY <3>3, <4>3 DEF First, Bad
      <4> QED BY <4>1, <4>2, <4>4, ReadIs DEF Finds
    <3>4. CASE loop = "keys"
      <4>1. j = i + 1 /\ t = <<s[i]>>
        BY <1>3, <3>4, FirstsAre
      <4>2. First(loop, f[d], s, i) = Read(i + 1, <<s[i]>>)
        BY <3>4 DEF First
      <4> QED BY <4>1, <4>2, ReadIs DEF Finds
    <3> QED BY <3>1, <3>2, <3>3, <3>4, EveryLevel
  <2> QED BY <2>1, <2>2, <2>5
<1>4. ASSUME NEW k \in i .. j - 1, s[k] = Symbol[loop],
             NEW l \in b[loop][i][k], NEW r \in Items(loop, b, s, k + 1, j),
             t = Joined(loop, l, r)
      PROVE  \E o \in 0 .. n : 2 * o + 1 <= j - i /\ Finds(lhs[o], j, t)
  <2>1. k \in Positions(s) /\ k + 1 \in Positions(s) /\ k \in Int /\ k < j /\ k <= Len(s)
    <3>1. k \in Int /\ k < j /\ j <= Len(s) + 1
      BY <1>0 DEF Positions
    <3> QED BY <1>0, <3>1, PositionsBetween
  <2>2. i < k
    BY <2>1, EveryLevel DEF IsGrammar, TakesTokens
  <2>3. Token(s, k) = Symbol[loop]
    BY <1>4, <2>1, TokenIs
  <2>4. Lower(loop, i, k, loop, i, j)
    BY <1>0, <2>1, <2>2, EveryLevel, PartsAreLower
  <2>5. FoundByTurns(f, s, m, loop, i, k, l)
    BY <2>1, <2>4, EveryLevel DEF FoundBelow, Found
  <2>6. Height(loop, k - i) <= d + 1
    <3>1. k - i \in Int /\ j - i \in Int
      BY <1>0, <2>1
    <3>2. Height(loop, k - i) \in Int /\ Height(loop, j - i) \in Int
      BY <3>1, HeightIs, EveryLevel
    <3> QED BY <2>4, <3>2 DEF Lower
  <2>7. k - i <= 2 * n + 1
    BY <1>0, <2>1
  <2>8. PICK o \in 0 .. n : 2 * o + 1 <= k - i /\ Finds(lhs[o], k, l)
    BY <2>3, <2>5, <2>6, <2>7, GoesAre DEF FoundByTurns
  <2>9. \A x \in Levels : k + 1 < j => Lower(x, k + 1, j, loop, i, j)
    BY <1>0, <2>1, <2>2, EveryLevel, PartsAreLower
  <2>10. i < k + 1
    BY <1>0, <2>1, <2>2
  <2>11. k + 1 < j /\ Finds(Item(loop, f[d], s, k + 1), j, r)
    BY <2>1, <2>9, <2>10, ItemFound
  <2>12. o + 1 \in 0 .. n /\ 2 * (o + 1) + 1 <= j - i /\ o + 1 # 0
    <3>1. o \in Nat /\ o <= n /\ 2 * o + 1 <= k - i /\ k + 1 < j /\ j - i <= 2 * n + 1
      BY <2>8, <2>11
    <3>2. i \in Int /\ j \in Int /\ k \in Int
      BY <1>0, <2>1
    <3>3. 2 * o + 1 <= (j - i) - 2
      BY <3>1, <3>2
    <3>4. 2 * (o + 1) + 1 <= j - i
      BY <3>1, <3>2, <3>3
    <3>5. o + 1 <= n
      BY <3>1, <3>2, <3>4
    <3> QED BY <3>1, <3>4, <3>5
  <2>13. lhs[o + 1] = Turn(loop, f[d], s, lhs[o])
    <3>1. (o + 1) - 1 = o
      OBVIOUS
    <3>2. lhs[o + 1] = IF o + 1 = 0 THEN First(loop, f[d], s, i)
                       ELSE Turn(loop, f[d], s, lhs[(o + 1) - 1])
      BY <2>12, TurnAt
    <3> QED BY <2>12, <3>1, <3>2
  <2>14. k # 0 /\ j # 0
    BY <2>1 DEF Positions
  <2>15. Turn(loop, f[d], s, lhs[o]) = Read(j, t)
    BY <1>4, <2>3, <2>8, <2>11, <2>14 DEF Turn, Finds, Bad
  <2>16. Finds(lhs[o + 1], j, t)
    BY <2>13, <2>15, ReadIs DEF Finds
  <2> QED BY <2>12, <2>16
<1>5. CASE t \notin Firsts(loop, b, s, i, j)
  <2>1. \E k \in i .. j - 1 :
           /\ s[k] = Symbol[loop]
           /\ \E l \in b[loop][i][k], r \in Items(loop, b, s, k + 1, j) : t = Joined(loop, l, r)
    BY <1>0, <1>2, <1>5, ChainsAre
  <2>2. PICK k \in i .. j - 1 :
           /\ s[k] = Symbol[loop]
           /\ \E l \in b[loop][i][k], r \in Items(loop, b, s, k + 1, j) : t = Joined(loop, l, r)
    BY <2>1
  <2>3. PICK l \in b[loop][i][k], r \in Items(loop, b, s, k + 1, j) : t = Joined(loop, l, r)
    BY <2>2
  <2> QED BY <1>4, <2>2, <2>3
<1> QED BY <1>3, <1>5

\* One level of calls: what a method returns if those it calls find their trees.
LEMMA LoopRuleFinds ==
  ASSUME NEW f, NEW s, Len(s) \in Nat, NEW m \in Nat, IsCalls(f, s, m),
         NEW loop \in {"or", "and"}, NEW i \in Positions(s), NEW j \in Positions(s), i < j,
         NEW t, FoundByTurns(f, s, m, loop, i, j, t)
  PROVE  FoundByRule(f, s, m, loop, i, j, t)
<1> SUFFICES ASSUME NEW d \in 0 .. m, Height(loop, j - i) <= d, Token(s, j) \notin Goes[loop]
             PROVE  Finds(f[d][loop][i], j, t)
  BY DEF FoundByRule
<1>1. loop \in Loops /\ loop \in Levels /\ loop \in Rules
  BY EveryLevel DEF Rules
<1>2. Height(loop, j - i) \in Int /\ Height(loop, j - i) >= 1
  <2>1. j - i \in Int /\ j - i >= 1
    BY PositionsBetween
  <2> QED BY <1>1, <2>1, HeightIs
<1>3. d # 0 /\ d - 1 \in 0 .. m /\ Height(loop, j - i) <= (d - 1) + 1
  BY <1>2
<1>4. f[d][loop][i] = Rule(loop, f[d - 1], s, i)
  BY <1>1, <1>3, CallAt
<1>5. Rule(loop, f[d - 1], s, i) = Loop(loop, f[d - 1], s, i)
  BY DEF Rule
<1> QED BY <1>1, <1>3, <1>4, <1>5, GoesAre, LoopFinds

\* What a caller needs of what it calls one call deeper.
LEMMA CalleeFinds ==
  ASSUME NEW b, NEW f, NEW s, Len(s) \in Nat, NEW m \in Nat,
         NEW level \in Levels, NEW i \in Positions(s), NEW j \in Positions(s),
         FoundBelow(b, f, s, m, level, i, j), NEW d \in 0 .. m, Height(level, j - i) <= d,
         NEW x \in Rules, NEW p \in Positions(s), NEW q \in Positions(s),
         Lower(x, p, q, level, i, j), NEW u \in b[x][p][q], Token(s, q) \notin Goes[x]
  PROVE  /\ Finds(f[d - 1][x][p], q, u)
         /\ q # 0
<1>1. x \in Levels
  BY EveryLevel DEF Rules
<1>2. p \in Int /\ q \in Int /\ i \in Int /\ j \in Int /\ p < q /\ q # 0
  BY DEF Positions, Lower
<1>3. q - p \in Int /\ q - p >= 1 /\ j - i \in Int
  BY <1>2
<1>4. Height(x, q - p) \in Int /\ Height(x, q - p) >= 1 /\ Height(level, j - i) \in Int
  BY <1>1, <1>3, HeightIs
<1>5. Height(x, q - p) < Height(level, j - i)
  BY DEF Lower
<1>6. d - 1 \in 0 .. m /\ Height(x, q - p) <= d - 1
  BY <1>4, <1>5
<1>7. FoundByRule(f, s, m, x, p, q, u)
  BY <1>1 DEF FoundBelow, Found
<1> QED BY <1>2, <1>6, <1>7 DEF FoundByRule

LEMMA CallIs ==
  ASSUME NEW f, NEW s, Len(s) \in Nat, NEW m \in Nat, IsCalls(f, s, m), NEW rule \in Rules,
         NEW i \in Positions(s), NEW j \in Positions(s), i < j,
         NEW d \in 0 .. m, Height(rule, j - i) <= d
  PROVE  d - 1 \in 0 .. m /\ f[d][rule][i] = Rule(rule, f[d - 1], s, i)
<1>0. i \in Int /\ j \in Int
  BY PositionsBetween
<1>1. j - i \in Int /\ j - i >= 1
  BY <1>0
<1>2. Height(rule, j - i) \in Int /\ Height(rule, j - i) >= 1
  BY <1>1, HeightIs, EveryLevel DEF Rules
<1>3. d # 0 /\ d - 1 \in 0 .. m
  BY <1>2
<1> QED BY <1>3, CallAt

LEMMA NotFinds ==
  ASSUME NEW b, NEW f, NEW s, Len(s) \in Nat, NEW m \in Nat, IsGrammar(b, s), IsCalls(f, s, m),
         NEW i \in Positions(s), NEW j \in Positions(s),
         FoundBelow(b, f, s, m, "not", i, j), NEW t \in b["not"][i][j]
  PROVE  FoundByRule(f, s, m, "not", i, j, t)
<1> SUFFICES ASSUME NEW d \in 0 .. m, Height("not", j - i) <= d, Token(s, j) \notin Goes["not"]
             PROVE  Finds(f[d]["not"][i], j, t)
  BY DEF FoundByRule
<1>0. i \in Int /\ j \in Int /\ i < j /\ i <= Len(s)
  <2>1. i < j
    BY EveryLevel DEF IsGrammar, TakesTokens
  <2> QED BY <2>1 DEF Positions
<1>r. "not" \in Rules /\ "not" \in Levels
  BY EveryRule
<1>1. f[d]["not"][i] = ParseNot(f[d - 1], s, i)
  BY <1>0, CallIs DEF Rules, Rule
<1>2. t \in Nots(b, s, i, j)
  BY PhrasesAre, EveryLevel DEF IsGrammar
<1>3. CASE t \in b["cmp"][i][j]
  <2>1. s[i] # "!"
    BY <1>3, Begins, StartsAre, TokensApart, EveryLevel
  <2>2. ParseNot(f[d - 1], s, i) = f[d - 1]["cmp"][i]
    BY <1>0, <2>1, TokenIs DEF ParseNot
  <2>3. Lower("cmp", i, j, "not", i, j) /\ Token(s, j) \notin Goes["cmp"]
    BY <1>0, PartsAreLower, GoesAre
  <2>4. "cmp" \in Rules /\ "not" \in Levels
    BY EveryLevel DEF Rules
  <2>5. Finds(f[d - 1]["cmp"][i], j, t)
    BY <1>3, <2>3, <2>4, CalleeFinds
  <2> QED BY <1>1, <2>2, <2>5
<1>4. ASSUME s[i] = "!", NEW e \in b["not"][i + 1][j], t = NotOf(e)
      PROVE  Finds(f[d]["not"][i], j, t)
  <2>1. i + 1 \in Positions(s) /\ Token(s, i) = "!"
    BY <1>0, <1>4, TokenIs, PositionsBetween
  <2>2. i + 1 < j
    BY <1>4, <2>1, EveryLevel DEF IsGrammar, TakesTokens
  <2>3. Lower("not", i + 1, j, "not", i, j)
    BY <1>0, <2>2, PartsAreLower
  <2>4. Finds(f[d - 1]["not"][i + 1], j, e) /\ j # 0
    BY <2>1, <2>3, <1>r, CalleeFinds
  <2>5. ParseNot(f[d - 1], s, i) = Read(j, NotOf(e))
    BY <2>1, <2>4 DEF ParseNot, Finds, Bad
  <2> QED BY <1>1, <1>4, <2>5, ReadIs DEF Finds
<1> QED BY <1>2, <1>3, <1>4, NotsAre

LEMMA CmpFinds ==
  ASSUME NEW b, NEW f, NEW s, Len(s) \in Nat, NEW m \in Nat, IsGrammar(b, s), IsCalls(f, s, m),
         NEW i \in Positions(s), NEW j \in Positions(s),
         FoundBelow(b, f, s, m, "cmp", i, j), NEW t \in b["cmp"][i][j]
  PROVE  FoundByRule(f, s, m, "cmp", i, j, t)
<1> SUFFICES ASSUME NEW d \in 0 .. m, Height("cmp", j - i) <= d, Token(s, j) \notin Goes["cmp"]
             PROVE  Finds(f[d]["cmp"][i], j, t)
  BY DEF FoundByRule
<1>0. i \in Int /\ j \in Int /\ i < j
  BY PositionsBetween, EveryLevel DEF IsGrammar, TakesTokens
<1>r. "primary" \in Rules /\ "cmp" \in Levels
  BY EveryRule
<1>1. f[d]["cmp"][i] = ParseCmp(f[d - 1], s, i)
  BY <1>0, CallIs DEF Rules, Rule
<1>2. t \in Cmps(b, s, i, j)
  BY PhrasesAre, EveryLevel DEF IsGrammar
<1>3. Token(s, j) \notin Goes["primary"] /\ Token(s, j) \notin Operators
  BY GoesAre
<1> DEFINE lhs == f[d - 1]["primary"][i]
<1>4. CASE t \in b["primary"][i][j]
  <2>1. Lower("primary", i, j, "cmp", i, j)
    BY <1>0, PartsAreLower
  <2>2. Finds(lhs, j, t)
    BY <1>3, <1>4, <2>1, <1>r, CalleeFinds
  <2>3. ParseCmp(f[d - 1], s, i) = lhs
    BY <1>3, <2>2 DEF ParseCmp, Finds
  <2> QED BY <1>1, <2>2, <2>3
<1>5. ASSUME NEW k \in i .. j - 1, s[k] \in Operators,
             NEW l \in b["primary"][i][k], NEW r \in b["primary"][k + 1][j],
             t = CmpOf(s[k], l, r)
      PROVE  Finds(f[d]["cmp"][i], j, t)
  <2>1. k \in Positions(s) /\ k + 1 \in Positions(s) /\ k \in Int
    BY PositionsBetween
  <2>2. i < k /\ k + 1 < j
    BY <2>1, EveryLevel DEF IsGrammar, TakesTokens
  <2>3. k <= Len(s)
    BY <1>0, <2>1, <2>2 DEF Positions
  <2>4. Token(s, k) = s[k] /\ Token(s, k) \notin Goes["primary"]
    <3>1. Token(s, k) = s[k]
      BY <2>1, <2>3, TokenIs
    <3>2. s[k] \notin Goes["primary"]
      BY <1>5, GoesAre
    <3> QED BY <3>1, <3>2
  <2>5. Lower("primary", i, k, "cmp", i, j) /\ Lower("primary", k + 1, j, "cmp", i, j)
    BY <1>0, <2>1, <2>2, PartsAreLower, EveryLevel
  <2>6. Finds(f[d - 1]["primary"][i], k, l) /\ k # 0
    <3>1. Lower("primary", i, k, "cmp", i, j) /\ Token(s, k) \notin Goes["primary"]
      BY <2>4, <2>5
    <3> QED BY <1>r, <2>1, <3>1, CalleeFinds
  <2>7. Finds(f[d - 1]["primary"][k + 1], j, r) /\ j # 0
    BY <1>3, <2>1, <2>5, <1>r, CalleeFinds
  <2>8. ParseCmp(f[d - 1], s, i) = Read(j, CmpOf(s[k], l, r))
    BY <1>5, <2>4, <2>6, <2>7 DEF ParseCmp, Finds, Bad
  <2> QED BY <1>1, <1>5, <2>8, ReadIs DEF Finds
<1> QED BY <1>2, <1>4, <1>5, CmpsAre

LEMMA PrimaryFinds ==
  ASSUME NEW b, NEW f, NEW s, Len(s) \in Nat, NEW m \in Nat, IsGrammar(b, s), IsCalls(f, s, m),
         NEW i \in Positions(s), NEW j \in Positions(s),
         FoundBelow(b, f, s, m, "primary", i, j), NEW t \in b["primary"][i][j]
  PROVE  FoundByRule(f, s, m, "primary", i, j, t)
<1> SUFFICES ASSUME NEW d \in 0 .. m, Height("primary", j - i) <= d,
                    Token(s, j) \notin Goes["primary"]
             PROVE  Finds(f[d]["primary"][i], j, t)
  BY DEF FoundByRule
<1>0. i \in Int /\ j \in Int /\ i < j /\ i <= Len(s)
  <2>1. i < j
    BY EveryLevel DEF IsGrammar, TakesTokens
  <2> QED BY <2>1 DEF Positions
<1>r. "or" \in Rules /\ "primary" \in Levels
  BY EveryRule
<1>1. f[d]["primary"][i] = ParsePrimary(f[d - 1], s, i)
  BY <1>0, CallIs DEF Rules, Rule
<1>2. t \in Primaries(b, s, i, j)
  BY PhrasesAre, EveryLevel DEF IsGrammar
<1>a. Token(s, i) = s[i]
  BY <1>0, TokenIs
<1>3. CASE t \in b["variable_or_call"][i][j]
  <2>1. s[i] \in Names
    BY <1>3, Begins, StartsAre, EveryLevel
  <2>2. ParsePrimary(f[d - 1], s, i) = f[d - 1]["variable_or_call"][i]
    BY <1>a, <2>1 DEF ParsePrimary
  <2>3. /\ Lower("variable_or_call", i, j, "primary", i, j)
        /\ Token(s, j) \notin Goes["variable_or_call"]
    BY <1>0, PartsAreLower, GoesAre
  <2>4. "variable_or_call" \in Rules
    BY EveryRule
  <2>5. Finds(f[d - 1]["variable_or_call"][i], j, t)
    BY <1>3, <1>r, <2>3, <2>4, CalleeFinds
  <2> QED BY <1>1, <2>2, <2>5
<1>4. CASE j = i + 1 /\ s[i] \in Known /\ t = LiteralOf(KnownValue(s[i]))
  <2>1. Token(s, i) \notin Names /\ Token(s, i) # "("
    BY <1>a, <1>4, TokensApart
  <2>2. ParsePrimary(f[d - 1], s, i) = Read(i + 1, LiteralOf(KnownValue(s[i])))
    BY <1>a, <1>4, <2>1 DEF ParsePrimary, ParseLiteral
  <2> QED BY <1>1, <1>4, <2>2, ReadIs DEF Finds
<1>5. CASE i + 1 < j - 1 /\ s[i] = "(" /\ s[j - 1] = ")" /\ t \in b["or"][i + 1][j - 1]
  <2>1. i + 1 \in Positions(s) /\ j - 1 \in Positions(s)
    BY <1>5, PositionsBetween
  <2>2. j - 1 <= Len(s)
    BY DEF Positions
  <2>3. Token(s, j - 1) = ")" /\ Token(s, j - 1) \notin Goes["or"]
    BY <1>5, <2>1, <2>2, TokenIs, GoesAre
  <2>4. Lower("or", i + 1, j - 1, "primary", i, j)
    BY <1>0, <1>5, PartsAreLower
  <2>5. Finds(f[d - 1]["or"][i + 1], j - 1, t) /\ j - 1 # 0
    <3>1. t \in b["or"][i + 1][j - 1] /\ Token(s, j - 1) \notin Goes["or"]
      BY <1>5, <2>3
    <3> QED BY <2>1, <2>4, <3>1, <1>r, CalleeFinds
  <2>6. Token(s, i) \notin Names /\ Token(s, i) = "("
    BY <1>a, <1>5, TokensApart
  <2>7. ParsePrimary(f[d - 1], s, i) = Read((j - 1) + 1, t)
    BY <2>3, <2>5, <2>6 DEF ParsePrimary, Finds, Bad
  <2>8. (j - 1) + 1 = j
    BY <1>0
  <2> QED BY <1>1, <2>7, <2>8, ReadIs DEF Finds
<1> QED BY <1>2, <1>3, <1>4, <1>5, PrimariesAre

LEMMA VariableOrCallFinds ==
  ASSUME NEW b, NEW f, NEW s, Len(s) \in Nat, NEW m \in Nat, IsGrammar(b, s), IsCalls(f, s, m),
         NEW i \in Positions(s), NEW j \in Positions(s),
         FoundBelow(b, f, s, m, "variable_or_call", i, j), NEW t \in b["variable_or_call"][i][j]
  PROVE  FoundByRule(f, s, m, "variable_or_call", i, j, t)
<1> SUFFICES ASSUME NEW d \in 0 .. m, Height("variable_or_call", j - i) <= d,
                    Token(s, j) \notin Goes["variable_or_call"]
             PROVE  Finds(f[d]["variable_or_call"][i], j, t)
  BY DEF FoundByRule
<1>0. i \in Int /\ j \in Int /\ i < j
  BY PositionsBetween, EveryLevel DEF IsGrammar, TakesTokens
<1>1. d - 1 \in 0 .. m /\ f[d]["variable_or_call"][i] = ParseVariableOrCall(f[d - 1], s, i)
  BY <1>0, CallIs DEF Rules, Rule
<1>2. t \in VariablesAndCalls(b, s, i, j)
  BY PhrasesAre, EveryLevel DEF IsGrammar
<1> DEFINE path == Loop("keys", f[d - 1], s, i)
\* A loop that is lower is found.
<1>3. ASSUME NEW loop \in {"keys", "args"}, NEW p \in Positions(s), NEW q \in Positions(s),
             Lower(loop, p, q, "variable_or_call", i, j), NEW u \in b[loop][p][q],
             Token(s, q) \notin Inner[loop], Token(s, q) # Symbol[loop]
      PROVE  Finds(Loop(loop, f[d - 1], s, p), q, u) /\ q # 0
  <2>1. loop \in Loops /\ loop \in Levels
    BY EveryLevel
  <2>2. FoundByTurns(f, s, m, loop, p, q, u)
    BY <1>3, <2>1 DEF FoundBelow, Found
  <2>3. p \in Int /\ q \in Int /\ q # 0
    BY DEF Positions
  <2>4. q - p \in Int /\ j - i \in Int
    BY <1>0, <2>3
  <2>5. Height(loop, q - p) \in Int /\ Height("variable_or_call", j - i) \in Int
    BY <2>1, <2>4, HeightIs, EveryLevel
  <2>6. Height(loop, q - p) <= (d - 1) + 1
    BY <1>3, <2>5 DEF Lower
  <2> QED BY <1>1, <1>3, <2>1, <2>2, <2>3, <2>6, LoopFinds
<1>4. CASE \E p \in b["keys"][i][j] : t = VariableOf(p)
  <2>1. PICK p \in b["keys"][i][j] : t = VariableOf(p)
    BY <1>4
  <2>2. Lower("keys", i, j, "variable_or_call", i, j)
    BY <1>0, PartsAreLower
  <2>3. Finds(path, j, p) /\ j # 0
    BY <1>3, <2>2, GoesAre
  <2>4. ParseVariableOrCall(f[d - 1], s, i) = Read(j, VariableOf(p))
    BY <2>3, GoesAre DEF ParseVariableOrCall, EndPath, EndCall, Finds, Bad
  <2> QED BY <1>1, <2>1, <2>4, ReadIs DEF Finds
<1>5. ASSUME NEW k \in i .. j - 2, s[k] = "(", s[j - 1] = ")",
             NEW p \in b["keys"][i][k], NEW args \in Arguments(b, k + 1, j - 1),
             t = CallOf(p, args)
      PROVE  Finds(f[d]["variable_or_call"][i], j, t)
  <2>1. k \in Positions(s) /\ k + 1 \in Positions(s) /\ j - 1 \in Positions(s) /\ k \in Int
    BY PositionsBetween
  <2>2. i < k /\ k + 1 < j /\ k <= Len(s) /\ j - 1 <= Len(s) /\ k + 1 <= j - 1
    <3>1. i < k
      BY <2>1, EveryLevel DEF IsGrammar, TakesTokens
    <3> QED BY <1>0, <2>1, <3>1 DEF Positions
  <2>3. Token(s, k) = "(" /\ Token(s, j - 1) = ")"
    BY <1>5, <2>1, <2>2, TokenIs
  <2>4. Lower("keys", i, k, "variable_or_call", i, j)
    BY <1>0, <2>1, <2>2, PartsAreLower
  <2>5. Finds(path, k, p) /\ k # 0
    BY <1>3, <2>1, <2>3, <2>4, GoesAre
  <2>6. Finds(ParseArgs(f[d - 1], s, k + 1), j, args)
    <3>1. CASE k + 1 = j - 1
      <4>1. args = <<>>
        BY <3>1 DEF Arguments
      <4>2. ParseArgs(f[d - 1], s, k + 1) = Read((k + 1) + 1, <<>>)
        BY <2>3, <3>1 DEF ParseArgs
      <4>3. (k + 1) + 1 = j
        BY <1>0, <2>1, <3>1
      <4> QED BY <4>1, <4>2, <4>3, ReadIs DEF Finds
    <3>2. CASE k + 1 # j - 1
      <4>1. args \in b["args"][k + 1][j - 1] /\ k + 1 < j - 1
        BY <1>0, <2>1, <2>2, <3>2 DEF Arguments
      <4>2. s[k + 1] # ")"
        <5>1. "args" \in Levels
          BY EveryLevel
        <5>2. s[k + 1] \in Starts["args"]
          BY <2>1, <4>1, <5>1, Begins
        <5>3. ")" \notin Starts["args"]
          BY StartsAre, TokensApart
        <5> QED BY <5>2, <5>3
      <4>3. Token(s, k + 1) # ")"
        <5>1. k + 1 <= Len(s)
          <6>1. k \in Int /\ j \in Int
            BY <1>0, <2>1
          <6> QED BY <2>2, <6>1
        <5> QED BY <2>1, <4>2, <5>1, TokenIs
      <4>4. Lower("args", k + 1, j - 1, "variable_or_call", i, j)
        BY <1>0, <2>1, <2>2, <4>1, PartsAreLower
      <4>5. Finds(Loop("args", f[d - 1], s, k + 1), j - 1, args) /\ j - 1 # 0
        BY <1>3, <2>1, <2>3, <4>1, <4>4, GoesAre
      <4>6. ParseArgs(f[d - 1], s, k + 1) = Read((j - 1) + 1, args)
        BY <2>3, <4>3, <4>5 DEF ParseArgs, Finds, Bad
      <4>7. (j - 1) + 1 = j
        BY <1>0
      <4> QED BY <4>6, <4>7, ReadIs DEF Finds
    <3> QED BY <3>1, <3>2
  <2>7. j # 0
    BY DEF Positions
  <2>8. ParseVariableOrCall(f[d - 1], s, i) = Read(j, CallOf(p, args))
    BY <2>3, <2>5, <2>6, <2>7 DEF ParseVariableOrCall, EndPath, EndCall, Finds, Bad
  <2> QED BY <1>1, <1>5, <2>8, ReadIs DEF Finds
<1> QED BY <1>2, <1>4, <1>5, VariablesAndCallsAre

LEMMA EveryTreeFound ==
  ASSUME NEW b, NEW f, NEW s, Len(s) \in Nat, NEW m \in Nat, IsGrammar(b, s), IsCalls(f, s, m),
         NEW level \in Levels, NEW i \in Positions(s), NEW j \in Positions(s),
         NEW t \in b[level][i][j]
  PROVE  Found(f, s, m, level, i, j, t)
<1> DEFINE Lost(h) == \E x \in Levels : \E p, q \in Positions(s) :
                        /\ Height(x, q - p) = h
                        /\ \E u : u \in b[x][p][q] /\ ~Found(f, s, m, x, p, q, u)
           T == {h \in Nat : Lost(h)}
<1>0. ASSUME NEW x \in Levels, NEW p \in Positions(s), NEW q \in Positions(s),
             NEW u \in b[x][p][q]
      PROVE  p < q /\ Height(x, q - p) \in Nat
  <2>1. p < q /\ p \in Int /\ q \in Int
    BY PositionsBetween DEF IsGrammar, TakesTokens
  <2>2. q - p \in Int /\ q - p >= 1
    BY <2>1
  <2>3. Height(x, q - p) \in Int /\ Height(x, q - p) >= 1
    BY <2>2, HeightIs
  <2> QED BY <2>1, <2>3
<1>1. T = {}
  <2> SUFFICES ASSUME T # {} PROVE FALSE
    OBVIOUS
  <2>1. PICK h \in T : \A k \in T : h <= k
    <3>1. T \in SUBSET Nat
      OBVIOUS
    <3> HIDE DEF T
    <3> QED BY <3>1, LeastNat
  <2>2. PICK x \in Levels, p \in Positions(s), q \in Positions(s) :
           Height(x, q - p) = h /\ \E u : u \in b[x][p][q] /\ ~Found(f, s, m, x, p, q, u)
    BY <2>1
  <2>3. PICK u : u \in b[x][p][q] /\ ~Found(f, s, m, x, p, q, u)
    BY <2>2
  <2>4. FoundBelow(b, f, s, m, x, p, q)
    <3> SUFFICES ASSUME NEW y \in Levels, NEW k \in Positions(s), NEW l \in Positions(s),
                        Lower(y, k, l, x, p, q), NEW v \in b[y][k][l]
                 PROVE  Found(f, s, m, y, k, l, v)
      BY DEF FoundBelow
    <3> DEFINE o == Height(y, l - k)
    <3>1. o \in Nat /\ o < h /\ h \in Nat
      BY <1>0, <2>1, <2>2 DEF Lower
    <3>2. ~(o \in T)
      <4> HIDE DEF o, T
      <4> QED BY <3>1, <2>1
    <3> QED BY <3>1, <3>2
  <2> HIDE DEF T, Lost
  <2>5. x \in Loops => FoundByTurns(f, s, m, x, p, q, u)
    BY <2>3, <2>4, TurnsFind
  <2>6. x \in Rules => FoundByRule(f, s, m, x, p, q, u)
    <3>1. CASE x \in {"or", "and"}
      <4>1. x \in Loops
        BY <3>1, EveryLevel
      <4> QED BY <3>1, <4>1, <1>0, <2>3, <2>5, LoopRuleFinds
    <3>2. CASE x = "not"
      BY <3>2, <2>3, <2>4, NotFinds
    <3>3. CASE x = "cmp"
      BY <3>3, <2>3, <2>4, CmpFinds
    <3>4. CASE x = "primary"
      BY <3>4, <2>3, <2>4, PrimaryFinds
    <3>5. CASE x = "variable_or_call"
      BY <3>5, <2>3, <2>4, VariableOrCallFinds
    <3> QED BY <3>1, <3>2, <3>3, <3>4, <3>5 DEF Rules
  <2> QED BY <2>3, <2>5, <2>6 DEF Found
<1>2. Height(level, j - i) \in Nat
  BY <1>0
<1> QED BY <1>1, <1>2

---------------------------------------------------------------------------
(* The parser and the grammar. *)

\* The whole guard: what the methods return there, by how deep calls may nest.
LEMMA WholeGuard ==
  ASSUME NEW s, Len(s) \in Nat, NEW h \in Nat, h >= 8 * Len(s),
         NEW f, NEW m \in Nat, IsCalls(f, s, m)
  PROVE  /\ f[m]["or"][1].at = Len(s) + 1 => f[m]["or"][1].ast \in ReadingsTo(h, s)
         /\ m >= 8 * Len(s) =>
               \A t \in ReadingsTo(h, s) : Finds(f[m]["or"][1], Len(s) + 1, t)
<1>1. PICK g : IsBelow(g, s, h) /\ ReadingsTo(h, s) = g[h]["or"][1][Len(s) + 1]
  BY TreesAre
<1>2. IsGrammar(g[h], s)
  BY <1>1, AllTrees
<1>3. 1 \in Positions(s) /\ Len(s) + 1 \in Positions(s) /\ m \in 0 .. m
  BY DEF Positions
<1>4. "or" \in Rules /\ "or" \in Levels /\ "or" \in Loops
  BY EveryLevel DEF Rules
<1>5. ASSUME f[m]["or"][1].at = Len(s) + 1
      PROVE  f[m]["or"][1].ast \in ReadingsTo(h, s)
  <2>1. Reads(g[h], s, "or", 1, f[m]["or"][1])
    BY <1>2, <1>3, <1>4, CallsRead DEF AllRead, Called
  <2> QED BY <1>1, <1>5, <2>1 DEF Reads
<1>6. ASSUME m >= 8 * Len(s), NEW t \in ReadingsTo(h, s)
      PROVE  Finds(f[m]["or"][1], Len(s) + 1, t)
  <2>1. FoundByRule(f, s, m, "or", 1, Len(s) + 1, t)
    BY <1>1, <1>2, <1>3, <1>4, EveryTreeFound DEF Found
  <2>2. Height("or", (Len(s) + 1) - 1) <= m
    <3>1. (Len(s) + 1) - 1 = Len(s) /\ Len(s) \in Int
      OBVIOUS
    <3>2. Height("or", Len(s)) \in Int /\ Height("or", Len(s)) <= 8 * Len(s)
      BY <1>4, <3>1, HeightIs
    <3> QED BY <1>6, <3>1, <3>2
  <2>3. Token(s, Len(s) + 1) \notin Goes["or"]
    <3>1. Token(s, Len(s) + 1) = "end of expression"
      <4>1. Len(s) + 1 > Len(s)
        OBVIOUS
      <4> QED BY <1>3, <4>1, TokenIs
    <3>2. "end of expression" \notin {".", "(", "&&", "||"} /\ "end of expression" \notin Operators
      BY DEF Operators
    <3>3. Goes["or"] = {".", "(", "&&", "||"} \cup Operators
      BY DEF Goes
    <3> QED BY <3>1, <3>2, <3>3
  <2> QED BY <1>3, <2>1, <2>2, <2>3 DEF FoundByRule
<1> QED BY <1>5, <1>6

\* The grammar gives a guard one tree at most: no guard can be read in two ways.
THEOREM OneTree ==
  ASSUME NEW s, Len(s) \in Nat, NEW t \in Readings(s), NEW u \in Readings(s)
  PROVE  t = u
<1> DEFINE h == 8 * Len(s)
<1>1. h \in Nat
  OBVIOUS
<1>2. PICK f : IsCalls(f, s, h)
  BY <1>1, CallsExist
<1>3. Finds(f[h]["or"][1], Len(s) + 1, t) /\ Finds(f[h]["or"][1], Len(s) + 1, u)
  BY <1>1, <1>2, WholeGuard DEF Readings
<1> QED BY <1>3 DEF Finds

\* Higher derivations give no guard a tree that the height of Readings leaves out.
THEOREM HeightIsEnough ==
  ASSUME NEW s, Len(s) \in Nat, NEW h \in Nat, h >= 8 * Len(s)
  PROVE  ReadingsTo(h, s) = Readings(s)
<1> DEFINE l == 8 * Len(s)
<1>1. l \in Nat
  OBVIOUS
<1>2. PICK f : IsCalls(f, s, l)
  BY <1>1, CallsExist
<1>3. ASSUME NEW t \in ReadingsTo(h, s) PROVE t \in Readings(s)
  <2>1. Finds(f[l]["or"][1], Len(s) + 1, t)
    BY <1>1, <1>2, WholeGuard
  <2>2. f[l]["or"][1].ast \in ReadingsTo(l, s)
    BY <1>1, <1>2, <2>1, WholeGuard DEF Finds
  <2> QED BY <2>1, <2>2 DEF Finds, Readings
<1>4. ASSUME NEW t \in Readings(s) PROVE t \in ReadingsTo(h, s)
  <2>1. Finds(f[l]["or"][1], Len(s) + 1, t)
    BY <1>1, <1>2, WholeGuard DEF Readings
  <2>2. f[l]["or"][1].ast \in ReadingsTo(h, s)
    BY <1>1, <1>2, <2>1, WholeGuard DEF Finds
  <2> QED BY <2>1, <2>2 DEF Finds
<1> QED BY <1>3, <1>4

\* What the parser returns is the one tree of the guard.
THEOREM ParsedRight ==
  ASSUME NEW s, Len(s) \in Nat, Parses(s)
  PROVE  Readings(s) = {Parse(s).ast}
<1> DEFINE l == 8 * Len(s)
<1>0. l \in Nat /\ MaxNesting \in Nat
  <2>1. MaxNesting \in Nat
    BY TokensAssumption
  <2>2. l \in Nat
    OBVIOUS
  <2> QED BY <2>1, <2>2
<1>1. PICK f : IsCalls(f, s, MaxNesting) /\ Calls(s) = f[MaxNesting]
  BY CallsAre
<1> DEFINE e == f[MaxNesting]["or"][1]
<1>2. Parse(s) = e /\ e.at = Len(s) + 1
  BY <1>1, ReadIs DEF Parse, NothingTrails, Parses, Bad
<1>3. e.ast \in Readings(s)
  BY <1>0, <1>1, <1>2, WholeGuard DEF Readings
<1> QED BY <1>2, <1>3, OneTree

\* A guard that has a tree is accepted, if calls may nest deep enough.
THEOREM ParsedIfTree ==
  ASSUME NEW s, Len(s) \in Nat, 8 * Len(s) <= MaxNesting, Readings(s) # {}
  PROVE  Parses(s)
<1> DEFINE l == 8 * Len(s)
<1>0. l \in Nat /\ MaxNesting \in Nat
  <2>1. MaxNesting \in Nat
    BY TokensAssumption
  <2>2. l \in Nat
    OBVIOUS
  <2> QED BY <2>1, <2>2
<1>1. PICK f : IsCalls(f, s, MaxNesting) /\ Calls(s) = f[MaxNesting]
  BY CallsAre
<1> DEFINE e == f[MaxNesting]["or"][1]
<1>2. PICK t : t \in Readings(s)
  OBVIOUS
<1>3. Finds(e, Len(s) + 1, t)
  BY <1>0, <1>1, <1>2, WholeGuard DEF Readings
<1>4. e.at = Len(s) + 1 /\ e.at # 0
  BY <1>3 DEF Finds
<1> QED BY <1>1, <1>4 DEF Parse, NothingTrails, Parses, Bad

=============================================================================
