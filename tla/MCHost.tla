-------------------------------- MODULE MCHost --------------------------------
(***************************************************************************)
(* Plugin x with a loop or two, y with a handler, z with a handler and the *)
(* dependencies, v with a trigger that cannot be set up; a request every   *)
(* handler takes and one only y's does; an admin request for y.            *)
(***************************************************************************)
EXTENDS Host

CONSTANTS x, y, z, v, c1, c2, h1, h2, h3, r1, r2, a1

MCOwner == [t \in Triggers |-> CASE t \in {c1, c2} -> x [] t = h1 -> y
                                 [] t = h2 -> z [] t = h3 -> v]
MCOrder == SelectSeq(<<c1, c2, h1, h2, h3>>, LAMBDA t : t \in Triggers)
\* z's handler has the id of x's loop, and takes its place if z is served.
MCId == [t \in Triggers |-> IF t = h2 THEN c1 ELSE t]
MCRequires == [p \in Plugins |-> IF p = z THEN {y, z} ELSE {}]
MCTakes == [r \in Requests |-> IF r = r1 THEN Handlers ELSE {h1}]
MCAsks == [a \in Admins |-> y]
=============================================================================
