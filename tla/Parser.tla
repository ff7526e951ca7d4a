------------------------------- MODULE Parser -------------------------------
(***************************************************************************)
(* The recursive-descent parser of src/core/expression.py and, for it to   *)
(* be compared with, the grammar it is to follow: the trees that any       *)
(* derivation gives a span of tokens (Readings).                           *)
(*                                                                         *)
(* A guard is a sequence of tokens, as tokenize() cuts it; a token is a    *)
(* string and is never looked into.  The parser is a function of how deep  *)
(* its methods' calls may nest, the grammar one of how high a derivation   *)
(* may be; both are recursive functions, so that they can be proved about. *)
(***************************************************************************)
EXTENDS Integers, Sequences

CONSTANTS
    Names,      \* tokens that begin with an ASCII letter, "_" or "$", no keywords
    Words,      \* tokens that may be a key after "."
    Literals,   \* the value of each number or quoted string token
    MaxNesting  \* how deep calls nest before Python raises a RecursionError

Value(kind, v) == [kind |-> kind, v |-> v]
Null == Value("null", 0)
Bool(b) == Value("bool", IF b THEN 1 ELSE 0)

Keywords == [true |-> Bool(TRUE), false |-> Bool(FALSE), null |-> Null]
Operators == {"==", "!=", ">", "<", ">=", "<="}

Known == DOMAIN Keywords \cup DOMAIN Literals
KnownValue(t) == IF t \in DOMAIN Keywords THEN Keywords[t] ELSE Literals[t]

\* A name is no literal, and neither is a sign.
ASSUME TokensAssumption ==
    /\ MaxNesting \in Nat
    /\ Names \cap Known = {}
    /\ (Names \cup Known) \cap
          ({"(", ")", "!", ".", ",", "||", "&&", "end of expression"} \cup Operators) = {}
    /\ "end of expression" \notin Words

---------------------------------------------------------------------------
(* The parser.  A method takes the tokens and the position it starts at    *)
(* and returns the position after what it read, with the tree, or Failed.  *)

Token(s, i) == IF i <= Len(s) THEN s[i] ELSE "end of expression"
Read(at, ast) == [at |-> at, ast |-> ast]
Failed == [at |-> 0]
Bad(r) == r.at = 0

\* The loops: what separates the parts of one, and the method that reads them.
\* The keys of a path are single tokens.
Symbol == [or |-> "||", and |-> "&&", args |-> ",", keys |-> "."]
Operand == [or |-> "and", and |-> "not", args |-> "or"]
Loops == {"or", "and", "args", "keys"}

\* The nodes of a tree.
LiteralOf(value) == [op |-> "literal", value |-> value]
VariableOf(path) == [op |-> "variable", path |-> path]
NotOf(expr) == [op |-> "not", expr |-> expr]
CmpOf(op, lhs, rhs) == [op |-> "cmp", cmp_op |-> op, lhs |-> lhs, rhs |-> rhs]

\* A name before "(" is a function, a path before "(" is a method of what the
\* path leads to, and what a call returns is not followed further.
CallOf(path, args) ==
    IF Len(path) = 1 THEN [op |-> "function", name |-> path[1], args |-> args]
    ELSE [op |-> "method", path |-> path, args |-> args]

\* The parts of a loop are taken into the tree from the left, or make a list.
Joined(loop, lhs, rhs) ==
    IF loop \in {"or", "and"} THEN [op |-> loop, lhs |-> lhs, rhs |-> rhs]
    ELSE Append(lhs, rhs)

\* The first part, and one that follows; call[rule][i] is what the method for the
\* rule returns at i, one call deeper.
First(loop, call, s, i) ==
    LET a == call["or"][i]
    IN IF loop = "keys" THEN Read(i + 1, <<s[i]>>)
       ELSE IF loop # "args" THEN call[Operand[loop]][i]
       ELSE IF Bad(a) THEN Failed ELSE Read(a.at, <<a.ast>>)

Item(loop, call, s, i) ==
    IF loop # "keys" THEN call[Operand[loop]][i]
    ELSE IF Token(s, i) \in Words THEN Read(i + 1, s[i]) ELSE Failed

\* Mutant: one loop for both operators, neither binding closer.
TurnFlat(loop, call, s, lhs) ==
    LET symbols == IF loop \in {"or", "and"} THEN {"||", "&&"} ELSE {Symbol[loop]}
        rhs == Item(loop, call, s, lhs.at + 1)
        its == IF loop \notin {"or", "and"} THEN loop
               ELSE IF Token(s, lhs.at) = "||" THEN "or" ELSE "and"
    IN IF Bad(lhs) \/ Token(s, lhs.at) \notin symbols THEN lhs
       ELSE IF Bad(rhs) THEN Failed
       ELSE Read(rhs.at, Joined(its, lhs.ast, rhs.ast))

\* One turn: nothing changes where the symbol does not follow.
Turn(loop, call, s, lhs) ==
    LET rhs == Item(loop, call, s, lhs.at + 1)
    IN IF Bad(lhs) \/ Token(s, lhs.at) # Symbol[loop] THEN lhs
       ELSE IF Bad(rhs) THEN Failed
       ELSE Read(rhs.at, Joined(loop, lhs.ast, rhs.ast))

\* The whole loop: a turn takes two tokens at least.
Loop(loop, call, s, i) ==
    LET turns == (Len(s) + 1 - i) \div 2
        lhs[k \in 0 .. turns] ==
            IF k = 0 THEN First(loop, call, s, i) ELSE Turn(loop, call, s, lhs[k - 1])
    IN lhs[turns]

\* "!" takes all that follows it up to "&&" or "||".
ParseNot(call, s, i) ==
    LET e == call["not"][i + 1]
    IN IF Token(s, i) # "!" THEN call["cmp"][i]
       ELSE IF Bad(e) THEN Failed ELSE Read(e.at, NotOf(e.ast))

\* A comparison takes one operator: a second one is left for the caller to refuse.
ParseCmp(call, s, i) ==
    LET lhs == call["primary"][i]
        rhs == call["primary"][lhs.at + 1]
    IN IF Bad(lhs) \/ Token(s, lhs.at) \notin Operators THEN lhs
       ELSE IF Bad(rhs) THEN Failed
       ELSE Read(rhs.at, CmpOf(s[lhs.at], lhs.ast, rhs.ast))

\* Any token that opens nothing is read as a literal and refused if it is none.
ParseLiteral(s, i) ==
    IF Token(s, i) \in Known THEN Read(i + 1, LiteralOf(KnownValue(s[i])))
    ELSE Failed

ParsePrimary(call, s, i) ==
    LET e == call["or"][i + 1]
    IN IF Token(s, i) \in Names THEN call["variable_or_call"][i]
       ELSE IF Token(s, i) # "(" THEN ParseLiteral(s, i)
       ELSE IF Bad(e) \/ Token(s, e.at) # ")" THEN Failed ELSE Read(e.at + 1, e.ast)

\* After "(", up to and with ")": none is allowed, a trailing comma is not.
ParseArgs(call, s, i) ==
    LET args == Loop("args", call, s, i)
    IN IF Token(s, i) = ")" THEN Read(i + 1, <<>>)
       ELSE IF Bad(args) \/ Token(s, args.at) # ")" THEN Failed
       ELSE Read(args.at + 1, args.ast)

\* What the path and, if there are any, the arguments make.
EndCall(path, args) ==
    IF Bad(args) THEN Failed ELSE Read(args.at, CallOf(path.ast, args.ast))

EndPath(call, s, path) ==
    IF Bad(path) THEN Failed
    ELSE IF Token(s, path.at) # "(" THEN Read(path.at, VariableOf(path.ast))
    ELSE EndCall(path, ParseArgs(call, s, path.at + 1))

ParseVariableOrCall(call, s, i) == EndPath(call, s, Loop("keys", call, s, i))

Rules == {"or", "and", "not", "cmp", "primary", "variable_or_call"}

Rule(rule, call, s, i) ==
    CASE rule \in {"or", "and"} -> Loop(rule, call, s, i)
      [] rule = "not" -> ParseNot(call, s, i)
      [] rule = "cmp" -> ParseCmp(call, s, i)
      [] rule = "primary" -> ParsePrimary(call, s, i)
      [] rule = "variable_or_call" -> ParseVariableOrCall(call, s, i)

\* What the methods return if calls nest MaxNesting deep.
Calls(s) ==
    LET call[d \in 0 .. MaxNesting] ==
            [rule \in Rules |-> [i \in 1 .. Len(s) + 1 |->
                IF d = 0 THEN Failed ELSE Rule(rule, call[d - 1], s, i)]]
    IN call[MaxNesting]

\* parse(): the whole guard, or Failed.
NothingTrails(s, e) == IF Bad(e) \/ e.at # Len(s) + 1 THEN Failed ELSE e

Parse(s) == NothingTrails(s, Calls(s)["or"][1])

Parses(s) == ~Bad(Parse(s))

---------------------------------------------------------------------------
(* The grammar:                                                            *)
(*   or  = and | or "||" and          cmp = primary | primary op primary   *)
(*   and = not | and "&&" not         primary = literal | variable_or_call *)
(*   not = cmp | "!" not                        | "(" or ")"               *)
(*   keys = name | keys "." word      args = or | args "," or              *)
(*   variable_or_call = keys | keys "(" ")" | keys "(" args ")"            *)
(* A span is the tokens i .. j - 1; below[level][i][j] is the set of trees *)
(* of the derivations of a span that are lower by one.                     *)

Levels == Rules \cup {"args", "keys"}

Firsts(loop, below, s, i, j) ==
    CASE loop \in {"or", "and"} -> below[Operand[loop]][i][j]
      [] loop = "args" -> {<<a>> : a \in below["or"][i][j]}
      [] loop = "keys" -> IF j = i + 1 /\ s[i] \in Names THEN {<<s[i]>>} ELSE {}

Items(loop, below, s, i, j) ==
    IF loop # "keys" THEN below[Operand[loop]][i][j]
    ELSE IF j = i + 1 /\ s[i] \in Words THEN {s[i]} ELSE {}

Chains(loop, below, s, i, j) ==
    Firsts(loop, below, s, i, j)
    \cup UNION {{Joined(loop, l, r) : l \in below[loop][i][k],
                                      r \in Items(loop, below, s, k + 1, j)} :
                k \in {m \in i .. j - 1 : s[m] = Symbol[loop]}}

Nots(below, s, i, j) ==
    below["cmp"][i][j]
    \cup IF i < j /\ s[i] = "!" THEN {NotOf(e) : e \in below["not"][i + 1][j]}
         ELSE {}

Cmps(below, s, i, j) ==
    below["primary"][i][j]
    \cup UNION {{CmpOf(s[k], l, r) :
                    l \in below["primary"][i][k], r \in below["primary"][k + 1][j]} :
                k \in {m \in i .. j - 1 : s[m] \in Operators}}

Primaries(below, s, i, j) ==
    below["variable_or_call"][i][j]
    \cup (IF j = i + 1 /\ s[i] \in Known
          THEN {LiteralOf(KnownValue(s[i]))} ELSE {})
    \cup (IF i + 1 < j - 1 /\ s[i] = "(" /\ s[j - 1] = ")"
          THEN below["or"][i + 1][j - 1] ELSE {})

Arguments(below, i, j) == IF i = j THEN {<<>>} ELSE below["args"][i][j]

VariablesAndCalls(below, s, i, j) ==
    {VariableOf(p) : p \in below["keys"][i][j]}
    \cup UNION {{CallOf(p, args) : p \in below["keys"][i][k],
                                   args \in Arguments(below, k + 1, j - 1)} :
                k \in {m \in i .. j - 2 : s[m] = "(" /\ s[j - 1] = ")"}}

Phrases(level, below, s, i, j) ==
    CASE level \in Loops -> Chains(level, below, s, i, j)
      [] level = "not" -> Nots(below, s, i, j)
      [] level = "cmp" -> Cmps(below, s, i, j)
      [] level = "primary" -> Primaries(below, s, i, j)
      [] level = "variable_or_call" -> VariablesAndCalls(below, s, i, j)

\* The trees of a guard whose derivations are no higher than h; no derivation is
\* higher than eight times the tokens.
ReadingsTo(h, s) ==
    LET below[n \in 0 .. h] ==
            [level \in Levels |-> [i \in 1 .. Len(s) + 1 |-> [j \in 1 .. Len(s) + 1 |->
                IF n = 0 THEN {} ELSE Phrases(level, below[n - 1], s, i, j)]]]
    IN below[h]["or"][1][Len(s) + 1]

Readings(s) == ReadingsTo(8 * Len(s), s)
============================================================================
