---------------------------- MODULE Expressions ----------------------------
(***************************************************************************)
(* The evaluator of the guard language of src/core/expression.py and, for  *)
(* it to be compared with, what the grammar says a guard means, given span *)
(* by span and without a tree (Meanings).                                  *)
(*                                                                         *)
(* A value is a kind and a number: a number counts halves (1 is 2, 1.5 is  *)
(* 3), a string is 0 when empty, a mapping counts its keys, so that Python *)
(* takes a value for false exactly when its number is 0.  Numbers are      *)
(* exact: that an order compares integers as floats, which differs from    *)
(* 2^53 on, is left out.                                                   *)
(*                                                                         *)
(* Like the parser, the evaluator is a function of how deep calls nest.    *)
(***************************************************************************)
EXTENDS Parser

Elements(s) == {s[k] : k \in DOMAIN s}

Error == Value("error", 0)

Namespaces == {"event", "context", "state", "meta", "now", "peers", "history"}

IsError(x) == x.kind = "error"
Truthy(x) == x.v # 0
Numeric(x) == x.kind \in {"int", "float"}

---------------------------------------------------------------------------
(* The evaluator.  The environment is the value at each path that leads    *)
(* somewhere (values), what each method returns (methods), and now.        *)

\* A namespace outside the list is an error; a path that leads nowhere is null.
Resolve(env, path) ==
    IF path[1] \notin Namespaces \/ (path[1] = "now" /\ Len(path) # 1) THEN Error
    ELSE IF path[1] = "now" THEN env.now
    ELSE IF path \in DOMAIN env.values THEN env.values[path]
    ELSE Null

\* int(): toward zero.
Whole(v) == IF v >= 0 THEN v - (v % 2) ELSE v + (v % 2)

\* The functions, given their evaluated arguments: since() takes a boolean for
\* a number, as Python does.
Call(name, args, env) ==
    LET duration == Resolve(env, <<"state", "duration_ms">>)
    IN IF name = "now" /\ args = <<>> THEN env.now
       ELSE IF name = "since" /\ Len(args) = 1
               /\ (Numeric(args[1]) \/ args[1].kind = "bool")
            THEN Value("int", env.now.v - (IF Numeric(args[1]) THEN Whole(args[1].v)
                                                                ELSE 2 * args[1].v))
       ELSE IF name = "duration_in_state" /\ args = <<>>
            THEN IF duration = Null THEN Value("int", 0) ELSE duration
       ELSE Error

\* A method of nothing, or one that the object does not have, is null before
\* its arguments are looked at.
CallMethod(path, args, env) ==
    LET object == Resolve(env, SubSeq(path, 1, Len(path) - 1))
    IN IF IsError(object) THEN Error
       ELSE IF object = Null \/ path \notin DOMAIN env.methods THEN Null
       ELSE IF \E k \in DOMAIN args : IsError(args[k]) THEN Error
       ELSE env.methods[path]

\* No conversion: two values are equal if they are of one kind, numbers being
\* one; a mapping equals nothing; only numbers are ordered.
Equal(l, r) ==
    /\ l.v = r.v
    /\ \/ l.kind = r.kind /\ l.kind \in {"null", "bool", "str"}
       \/ Numeric(l) /\ Numeric(r)

Compare(l, op, r) ==
    CASE op = "==" -> Equal(l, r)
      [] op = "!=" -> ~Equal(l, r)
      [] OTHER -> /\ Numeric(l) /\ Numeric(r)
                  /\ CASE op = ">"  -> l.v > r.v
                       [] op = "<"  -> l.v < r.v
                       [] op = ">=" -> l.v >= r.v
                       [] op = "<=" -> l.v <= r.v

Compared(l, op, r) ==
    IF IsError(l) \/ IsError(r) THEN Error ELSE Bool(Compare(l, op, r))

Negated(x) == IF IsError(x) THEN Error ELSE Bool(~Truthy(x))

\* "and" and "or" return an operand, and the second one only if the first does
\* not decide.
Decides(op, l) == IsError(l) \/ Truthy(l) = (op = "or")

\* Mutant: both operands are evaluated, and the second one's error counts.
LogicalEager(op, l, r) == IF IsError(r) THEN r ELSE IF Decides(op, l) THEN l ELSE r

Logical(op, l, r) == IF Decides(op, l) THEN l ELSE r

\* The nodes below a node.
Parts(ast) ==
    CASE ast.op \in {"function", "method"} -> Elements(ast.args)
      [] ast.op \in {"cmp", "or", "and"} -> {ast.lhs, ast.rhs}
      [] ast.op = "not" -> {ast.expr}
      [] OTHER -> {}

\* evaluate() of a node; value[part] is what it returns for a part, one call deeper.
ValueOf(value, ast, env) ==
    LET args == [k \in DOMAIN ast.args |-> value[ast.args[k]]]
    IN CASE ast.op = "literal" -> ast.value
         [] ast.op = "variable" -> Resolve(env, ast.path)
         [] ast.op = "function" -> Call(ast.name, args, env)
         [] ast.op = "method" -> CallMethod(ast.path, args, env)
         [] ast.op = "cmp" -> Compared(value[ast.lhs], ast.cmp_op, value[ast.rhs])
         [] ast.op \in {"or", "and"} -> Logical(ast.op, value[ast.lhs], value[ast.rhs])
         [] ast.op = "not" -> Negated(value[ast.expr])
         [] OTHER -> Error

\* The value of a tree if calls nest depth deep, layer by layer: deeper than that
\* evaluate() raises, and nothing on the way up takes the error back.
EvaluateTo(depth, ast, env) ==
    LET nodes[n \in 0 .. depth] ==
            IF n = 0 THEN {ast} ELSE UNION {Parts(t) : t \in nodes[n - 1]}
        value[d \in 0 .. depth] ==
            [t \in nodes[depth - d] |->
                IF d = 0 THEN Error ELSE ValueOf(value[d - 1], t, env)]
    IN value[depth][ast]

Evaluate(ast, env) == EvaluateTo(MaxNesting, ast, env)

\* What the engine asks of the tree of a guard.
Verdict(x) == IF IsError(x) THEN "error" ELSE IF Truthy(x) THEN "true" ELSE "false"
Decision(ast, env) == Verdict(Evaluate(ast, env))

---------------------------------------------------------------------------
(* The meaning of a guard.  Each derivation of Parser's grammar gives a    *)
(* span of tokens a value, and a span of the levels "or" and "and" the     *)
(* values of all its operands: it means the first that decides, the last   *)
(* if none does, however the operands are grouped.                         *)

Chosen(op, vs) ==
    vs[CHOOSE k \in 1 .. Len(vs) :
          /\ Decides(op, vs[k]) \/ k = Len(vs)
          /\ \A m \in 1 .. k - 1 : ~Decides(op, vs[m])]

ValuesOf(level, below, i, j) ==
    IF level \in {"or", "and"} THEN {Chosen(level, vs) : vs \in below[level][i][j]}
    ELSE below[level][i][j]

Lists(level, below, s, i, j) ==
    {<<v>> : v \in ValuesOf(Operand[level], below, i, j)}
    \cup UNION {{Append(vs, v) : vs \in below[level][i][k],
                                 v \in ValuesOf(Operand[level], below, k + 1, j)} :
                k \in {m \in i .. j - 1 : s[m] = Symbol[level]}}

NotValues(below, s, i, j) ==
    below["cmp"][i][j]
    \cup IF i < j /\ s[i] = "!" THEN {Negated(v) : v \in below["not"][i + 1][j]} ELSE {}

CmpValues(below, s, i, j) ==
    below["primary"][i][j]
    \cup UNION {{Compared(l, s[k], r) :
                    l \in below["primary"][i][k], r \in below["primary"][k + 1][j]} :
                k \in {m \in i .. j - 1 : s[m] \in Operators}}

PrimaryValues(below, s, i, j) ==
    below["variable_or_call"][i][j]
    \cup (IF j = i + 1 /\ s[i] \in Known THEN {KnownValue(s[i])} ELSE {})
    \cup (IF i + 1 < j - 1 /\ s[i] = "(" /\ s[j - 1] = ")"
          THEN ValuesOf("or", below, i + 1, j - 1) ELSE {})

CallValue(path, args, env) ==
    IF Len(path) = 1 THEN Call(path[1], args, env) ELSE CallMethod(path, args, env)

PathValues(below, s, env, i, j) ==
    {Resolve(env, p) : p \in below["keys"][i][j]}
    \cup UNION {{CallValue(p, args, env) : p \in below["keys"][i][k],
                                           args \in Arguments(below, k + 1, j - 1)} :
                k \in {m \in i .. j - 2 : s[m] = "(" /\ s[j - 1] = ")"}}

Means(level, below, s, env, i, j) ==
    CASE level \in {"or", "and", "args"} -> Lists(level, below, s, i, j)
      [] level = "keys" -> Chains(level, below, s, i, j)
      [] level = "not" -> NotValues(below, s, i, j)
      [] level = "cmp" -> CmpValues(below, s, i, j)
      [] level = "primary" -> PrimaryValues(below, s, i, j)
      [] level = "variable_or_call" -> PathValues(below, s, env, i, j)

\* The values that the derivations of a guard, no higher than those of Readings,
\* give it.
Meanings(s, env) ==
    LET below[n \in 0 .. 8 * Len(s)] ==
            [level \in Levels |-> [i \in 1 .. Len(s) + 1 |-> [j \in 1 .. Len(s) + 1 |->
                IF n = 0 THEN {} ELSE Means(level, below[n - 1], s, env, i, j)]]]
    IN ValuesOf("or", below[8 * Len(s)], 1, Len(s) + 1)
============================================================================
