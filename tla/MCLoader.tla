------------------------------ MODULE MCLoader ------------------------------
(***************************************************************************)
(* A small instance of Loader.  Two families of directories: one file      *)
(* whose guard runs over the token sequences of MCGuards, and two files of *)
(* the kinds in Contents, in one directory or in two, with an overlay or   *)
(* without.                                                                *)
(***************************************************************************)
EXTENDS Loader, SequencesExt

MCNames == {"event", "since"}
\* A number and a word with a meaning of its own are keys after "." too.
MCWords == {"event", "since", "x", "1", "1.5", "true", "null"}
MCLiterals == [t \in {"1", "1.5"} |-> IF t = "1" THEN Value("int", 2) ELSE Value("float", 3)]

\* The payload's x: true, a number, or not there.
MCEnvironments ==
    {[values |-> [p \in {<<"event">>} \cup {<<"event", "x">> : v \in x} |->
                    IF Len(p) = 1 THEN Value("dict", 3) ELSE CHOOSE v \in x : TRUE],
      methods |-> [p \in {<<"event", "x", "since">>} |-> Value("int", 2)],
      now |-> Value("int", 20)] : x \in {{}, {Bool(TRUE)}, {Value("float", 2)}}}

\* Every sequence of up to three tokens, and operands and operators by turns up
\* to seven tokens, with "!" and parentheses, for what binds closer than what.
Vocabulary == {"(", ")", ".", ",", "!", "||", "==", "1", "1.5", "true", "event", "since", "x"}
Binaries == {"||", "&&", "==", "<"}
Operands == {<<"1">>, <<"null">>, <<"event", ".", "x">>}
Nays == {<<>>, <<"!">>}
MCGuards ==
    UNION {[1 .. n -> Vocabulary] : n \in 0 .. 3}
    \cup {n \o a \o <<p>> \o m \o b \o <<q>> \o c :
             n \in Nays, m \in Nays, a \in Operands, b \in Operands, c \in Operands,
             p \in Binaries, q \in Binaries}
    \cup {<<"(">> \o a \o <<p>> \o b \o <<")", q>> \o a :
             a \in Operands, b \in Operands, p \in Binaries, q \in Binaries}
    \cup {f \o <<"(">> \o a \o c \o <<")", p, "1">> :
             f \in {<<"since">>, <<"event", ".", "x", ".", "since">>},
             a \in Operands, c \in {<<>>, <<",", "1">>, <<",">>}, p \in Binaries}
    \cup {<<a, p, "since", "(">> \o b \o <<")">> :
             a \in {"1", "null", "true"}, b \in Operands, p \in Binaries}

---------------------------------------------------------------------------
Key(k, d) == Dict([x \in {k} |-> d])
With(d, e) == DeepMerge(d, e)
Under(path, d) == FoldRight(Key, path, d)
Token1(v) == Leaf(<<v>>)

\* A plugin that is good by itself: states A and B, on "e" from A to B.
Good == With(Under(<<"metadata", "name">>, Token1("p")),
        With(Under(<<"spec", "secrets">>, Leaf(<<>>)),
        With(Under(<<"spec", "statechart", "initial">>, Token1("A")),
        With(Under(<<"spec", "statechart", "states", "B", "type">>, Token1("final")),
             Under(<<"spec", "statechart", "states", "A", "on", "e", "target">>,
                   Token1("B"))))))

Guard(g) == Under(<<"spec", "statechart", "states", "A", "on", "e", "guard">>, Leaf(g))
Target(s) == Under(<<"spec", "statechart", "states", "A", "on", "e", "target">>, Token1(s))
Name(n) == Under(<<"metadata", "name">>, Token1(n))
Needs(kind, n) == Under(<<"spec", "requires", kind>>, Token1(n))
Peer(a) == Under(<<"spec", "peers", a, "uuid">>, Token1("u"))
Exhausts(s) == Under(<<"spec", "resilience", "on_exhaust">>, Token1(s))
Secret(v) == Under(<<"spec", "secrets">>, Token1([name |-> v, required |-> TRUE]))
Optional(v) == Under(<<"spec", "secrets">>, Token1([name |-> v, required |-> FALSE]))
PersistAt(v) == Under(<<"spec", "statechart", "persist", "path">>, Token1(v))
Shorthand(s) == Under(<<"spec", "statechart", "states", "A", "on", "e">>, Token1(s))
Starts(s) == Under(<<"spec", "statechart", "initial">>, Token1(s))
Unreadable == Leaf(<<>>)

Contents ==
    {Good, With(Good, Name("q")), Unreadable, With(Good, Key("extra", Leaf(<<>>))),
     With(With(Good, Name("q")), Needs("plugins", "p")),
     With(With(Good, Needs("plugins", "q")), Exhausts("B")),
     With(Good, Needs("peers", "a")), With(With(Good, Name("q")), Peer("a")),
     With(With(Good, Needs("peers", "a")), Peer("a")),
     With(Good, Needs("capabilities", "metadata")), With(Good, Needs("capabilities", "other")),
     With(Good, Optional("UNSET")), With(Good, Key("spec", Key("peers", Leaf(<<>>)))),
     With(Good, Target("Z")), With(Good, Exhausts("Z")), With(Good, Guard(<<"(">>)),
     With(Good, PersistAt("blocked")), With(Good, PersistAt("readonly")),
     With(Good, PersistAt("ok")), With(Good, Secret("UNSET")), With(Good, Secret("SET")),
     With(Good, Shorthand("Z")), With(Good, Starts("Z"))}

\* What production.local.yaml may do to them.
OverlayContents ==
    {Unreadable, Name("r"), Target("Z"), Target("A"), Guard(<<"1", "==">>),
     Guard(<<"event", ".", "x">>), Shorthand("B"), Secret("SET"), Exhausts("A"), Peer("a"),
     Key("spec", Leaf(<<>>))}

File(dir, name, ext, local, symlink, content) ==
    [dir |-> dir, name |-> name, ext |-> ext, local |-> local, symlink |-> symlink,
     content |-> content]

Cue(dir, ext, symlink, c) == File(dir, "cue", ext, FALSE, symlink, c)
Other(dir, ext, symlink, c) == File(dir, "other", ext, FALSE, symlink, c)
Overlay(symlink, c) == File("d1", "production.local.yaml", "yaml", TRUE, symlink, c)

MCTrees ==
    {<<Cue("d1", "yaml", FALSE, With(Good, Guard(g)))>> : g \in MCGuards}
    \cup {<<Cue("d1", ext1, FALSE, c), Other("d2", ext2, link, d)>> :
             ext1 \in {"yaml", "yml"}, ext2 \in {"yaml", "yml"}, link \in BOOLEAN,
             c \in Contents, d \in Contents}
    \cup {<<Cue("d1", "yaml", FALSE, c), Overlay(FALSE, o), Other("d1", "yaml", FALSE, d)>> :
             c \in Contents, d \in Contents, o \in OverlayContents}
    \cup {<<Cue("d1", "yaml", FALSE, c), Overlay(FALSE, o), Other("d2", "yaml", FALSE, d)>> :
             c \in Contents, d \in {Good, With(Good, Needs("peers", "a"))}, o \in OverlayContents}
    \cup {<<Cue("d1", "yaml", FALSE, c), Overlay(TRUE, o)>> :
             c \in Contents, o \in OverlayContents}

MCPaths ==
    {<<"metadata", "name">>, <<"spec", "resilience", "on_exhaust">>,
     <<"spec", "secrets">>, <<"spec", "requires", "plugins">>, <<"spec", "peers", "a">>,
     <<"spec", "statechart", "initial">>}
    \cup {<<"spec", "statechart", "states", s, "on", e>> \o q :
             s \in {"A", "B"}, e \in Events, q \in {<<>>, <<"target">>, <<"guard">>}}
=============================================================================
