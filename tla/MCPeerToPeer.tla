--------------------------- MODULE MCPeerToPeer ---------------------------
(***************************************************************************)
(* Instances of PeerToPeer for TLC: in the networks of CallTwice a second   *)
(* call follows the first.                                                  *)
(***************************************************************************)
EXTENDS PeerToPeer

CONSTANT CallTwice

Calls == [n \in Networks |-> IF n \in CallTwice THEN 2 ELSE 1]
=============================================================================
