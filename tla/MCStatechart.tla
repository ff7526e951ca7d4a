------------------------------ MODULE MCStatechart ------------------------------
(***************************************************************************)
(* Small plugins for the model checker.  `n` is a counter the guards read, *)
(* `note` a key persist() leaves out.                                      *)
(***************************************************************************)
EXTENDS Statechart

CONSTANTS t1, t2, t3

A(type) == [type |-> type, key |-> "n", by |-> 0, peer |-> "up", metadata |-> "none"]
Inc == [A("increment_context") EXCEPT !.by = 1]
Set(k, v) == [A("set_context") EXCEPT !.key = k, !.by = v]
Send(p) == [A("send_a2a") EXCEPT !.peer = p]
SendWith(m) == [A("send_a2a") EXCEPT !.metadata = m]
G(test, n) == [test |-> test, key |-> "n", than |-> n]
T(guard, to, actions) == [guard |-> guard, target |-> to, actions |-> actions]
F(condition, actions) == [condition |-> condition, actions |-> actions]
Always == G("none", 0)

MCKeys == {"n", "note"}
MCContext == [k \in MCKeys |-> 0]

\* States idle, busy and done, and every kind of entry the engine takes: a list,
\* a transition with no target or an undeclared one, an unknown action.  (The
\* loader's schema lets only single transitions to declared states through; the
\* tests hand the engine the others.)
MCStates == {"idle", "busy", "done"}
MCEventTypes == {"ping", "tick"}
NoEntry == [s \in MCStates |-> <<>>]
SomeEntry == [NoEntry EXCEPT !["busy"] = <<A("log")>>, !["done"] = <<A("reply_a2a")>>]

OnEngine == [
  idle |-> [ping |-> << T(G("below", 1), None, <<>>),
                        T(Always, "busy", <<Inc, A("spawn_subprocess")>>) >>,
            tick |-> << T(G("history", 0), "done", <<Set("note", 1)>>) >>],
  busy |-> [ping |-> << T(G("equals", 1), "idle", <<A("write_file")>>) >>,
            tick |-> << T(G("history", 0), "nowhere", <<>>) >>],
  done |-> [ping |-> << T(Always, "idle", <<A("http_request"), Set("n", 0)>>) >>,
            tick |-> << T(G("raises", 0), "idle", <<>>) >>]]

\* A plugin that sends: unguarded, to a peer that answers and one that is not
\* allowed, then a counter; `ping` in busy replies, which takes a message id.
OnSend == [
  idle |-> [ping |-> << T(Always, "busy", <<Send("up"), Inc>>) >>,
            tick |-> << T(Always, "done", <<Send("down"), SendWith("plain")>>) >>],
  busy |-> [ping |-> << T(Always, "idle", <<A("reply_a2a")>>) >>,
            tick |-> << T(Always, "idle", <<Inc, Send("up")>>) >>],
  done |-> [ping |-> << T(Always, "idle", <<>>) >>, tick |-> <<>>]]

\* The plugin writes OnSend's last ping as the bare target "idle".
NoShorthand == {}
AsString == {<<"done", "ping">>}
NoFallbacks == <<>>
\* A condition that fails to evaluate, a fallback that sends itself, once, and
\* one that must raise.
SomeFallbacks == << F(G("raises", 0), <<>>),
                    F(G("equals", 0), <<Inc, Send("up"), A("log")>>),
                    F(G("below", 2), <<A("reply_a2a")>>) >>
SendingFallback == << F(Always, <<Send("up")>>) >>
=============================================================================
