----------------------------- MODULE Datagrams -----------------------------
(***************************************************************************)
(* The datagrams of a call set-up: between a P2P's socket and the server   *)
(* (src/src/client/peer_to_peer.cpp, send_server) and between the sockets  *)
(* of two P2Ps (handshake_peer, hole_punch).                               *)
(*                                                                         *)
(* net is the bag of datagrams that have been sent and not yet read,       *)
(* whether they are on their way or in the buffer of the socket.  They may *)
(* overtake each other and take any time; one that is lost is one that     *)
(* comes when nobody reads any more.  When the two ends are not in one     *)
(* network, an end behind a filtering NAT gets nothing from an address to  *)
(* which its socket has not sent.                                          *)
(***************************************************************************)
EXTENDS Integers, BagsExt, Bags

CONSTANTS Filtered,   \* the ends behind such a NAT
          Networks    \* the address types considered: "LOCAL", "WEB"

Ends == {"initiator", "acceptor"}

Other(e) == CHOOSE d \in Ends : d # e

ASSUME DatagramsAssumption ==
  /\ Filtered \subseteq Ends
  /\ Networks \subseteq {"LOCAL", "WEB"}

VARIABLES net,      \* the bag of datagrams
          sent_to,  \* <<a, b>>: socket a has sent to socket b
          network   \* what address_type makes of the two ends

netVars == <<net, sent_to, network>>

\* A socket is named by its end and the number of the P2P that opened it.
Socket   == Ends \X (Nat \ {0})
Server   == <<"server", 0>>
NoSocket == <<"none", 0>>

Commands == {"CONNECT", "ACCEPT", "PING", "HANGUP"}

\* An answer of the server and the handshake message of a peer are both
\* text that starts with a code; 201 is followed by an address.
Codes == {"200", "201", "203", "306", "307"}

Datagram == [from : Socket \cup {Server}, to : Socket \cup {Server},
             text : Commands \cup Codes, address : Socket \cup {NoSocket}]

Text(from, to, text) ==
  [from |-> from, to |-> to, text |-> text, address |-> NoSocket]

NetTypeOK ==
  /\ IsABag(net)
  /\ BagToSet(net) \subseteq Datagram
  /\ sent_to \subseteq Socket \X Socket
  /\ network \in Networks

NetInit ==
  /\ net = EmptyBag
  /\ sent_to = {}
  /\ network \in Networks

-----------------------------------------------------------------------------
\* The NAT lets m through: always from the server or in the local network.
Passes(m) ==
  \/ network = "LOCAL"
  \/ m.from = Server
  \/ m.to[1] \notin Filtered
  \/ <<m.to, m.from>> \in sent_to

\* recvfrom on socket a may return m, whoever sent it.
Readable(a, m) == m \in BagToSet(net) /\ m.to = a /\ Passes(m)

\* What the NATs remember of m.
Remember(m) ==
  sent_to' = sent_to \cup (IF Server \in {m.from, m.to} THEN {}
                           ELSE {<<m.from, m.to>>})

\* sendto, n times the same datagram.
Send(m, n) ==
  /\ net' = net (+) [d \in {m} |-> n]
  /\ Remember(m)
  /\ UNCHANGED network

\* recvfrom.
Receive(m) ==
  /\ net' = BagRemove(net, m)
  /\ UNCHANGED <<sent_to, network>>

\* recvfrom, then sendto.
Answer(m, reply) ==
  /\ net' = BagAdd(BagRemove(net, m), reply)
  /\ Remember(reply)
  /\ UNCHANGED network

\* The NAT drops a datagram from an unknown address.
Drop(m) ==
  /\ m.to # Server
  /\ ~ Passes(m)
  /\ Receive(m)
=============================================================================
