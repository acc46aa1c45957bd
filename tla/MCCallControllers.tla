------------------------- MODULE MCCallControllers -------------------------
(***************************************************************************)
(* Instances of CallControllers for TLC: which users place a call, and how *)
(* often, is given in the .cfg; the other users only answer.               *)
(***************************************************************************)
EXTENDS CallControllers, TLC

CONSTANTS CallOnce, CallTwice

Calls == [u \in Users |-> IF u \in CallTwice THEN 2
                          ELSE IF u \in CallOnce THEN 1 ELSE 0]

UserSymmetry == Permutations(Users)
=============================================================================
