------------------------------ MODULE MCHistory ------------------------------
(***************************************************************************)
(* Two plugins: x with a trigger on every peer, y with one on p; y also    *)
(* takes other events.                                                     *)
(***************************************************************************)
EXTENDS History

CONSTANTS p, q, w1, w2, c1, x, y

MCPluginOf == [t \in Tasks |-> IF t \in {w2, c1} THEN y ELSE x]
MCWatches == [w \in Watchers |-> IF w = w2 THEN {p} ELSE Peers]
=============================================================================
