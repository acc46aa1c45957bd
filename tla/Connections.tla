---------------------------- MODULE Connections ----------------------------
(***************************************************************************)
(* What the server's poll promises to the main loop: the clients it serves *)
(* are a list without repetition, in the order they connected.  A new one  *)
(* goes to the end while there is room; when one leaves, the others keep   *)
(* their order.                                                            *)
(***************************************************************************)
EXTENDS Naturals, Sequences

CONSTANTS Fds,   \* socket descriptors
          Room   \* how many clients can be served

VARIABLE conns

ConnectionsInit == conns = <<>>

Join(f) ==
  /\ Len(conns) < Room
  /\ \A i \in 1..Len(conns) : conns[i] # f
  /\ conns' = Append(conns, f)

Leave(k) ==
  conns' = [i \in 1..(Len(conns) - 1) |-> conns[IF i < k THEN i ELSE i + 1]]

ConnectionsNext == \/ \E f \in Fds : Join(f)
                   \/ \E k \in 1..Len(conns) : Leave(k)

ConnectionsSpec == ConnectionsInit /\ [][ConnectionsNext]_conns
=============================================================================
