------------------------------ MODULE MCPeerCards ------------------------------
(***************************************************************************)
(* Two plugins that send to one peer.                                      *)
(***************************************************************************)
EXTENDS PeerCards

CONSTANTS t1, t2, p
=============================================================================
