----------------------------- MODULE MCSessions -----------------------------
(***************************************************************************)
(* An instance of Sessions for TLC: two clients c1 and c2, each with its    *)
(* own public address, and the users they log in as.                       *)
(***************************************************************************)
EXTENDS Sessions, TLC

CONSTANTS a, b, c1, c2, h1, h2

OwnHosts  == (c1 :> h1) @@ (c2 :> h2)
OwnUsers  == (c1 :> {a}) @@ (c2 :> {b})
=============================================================================
