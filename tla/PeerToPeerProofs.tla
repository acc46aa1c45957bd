-------------------------- MODULE PeerToPeerProofs --------------------------
(***************************************************************************)
(* Proofs about PeerToPeer: its type invariant, that an end that is        *)
(* Connected has heard from the other one, whatever is lost, late or       *)
(* answered twice, and that the streams of a first call are paired, for    *)
(* any number of calls, answers, PINGs and turns.                          *)
(***************************************************************************)
EXTENDS PeerToPeer, TLAPS

SocketsOf(e) == {e} \X (Nat \ {0})
Peers(e)     == SocketsOf(e) \cup {NoSocket}

\* A thread in a set-up has a socket, and P2Ps know sockets of the other end.
EndsInv ==
  /\ p2p \in [Ends -> [Streams -> P2Ps]] /\ stream \in [Ends -> Streams]
  /\ pc \in [Ends -> PCs] /\ opened \in [Ends -> Nat]
  /\ \A e \in Ends :
       /\ \A s \in Streams : /\ p2p[e][s].sock <= opened[e]
                             /\ p2p[e][s].peer \in Peers(Other(e))
       /\ pc[e] \notin {"idle", "between"} => Current(e).sock # 0

ReqInv ==
  /\ req \in [Ends -> [valid : BOOLEAN, address : Socket \cup {NoSocket}]]
  /\ \A e \in Ends : req[e].valid => req[e].address \in SocketsOf(Other(e))

RequestInv ==
  /\ request \in [address : Socket \cup {NoSocket}, peer_address : Socket \cup {NoSocket}]
  /\ \/ request = NoRequest
     \/ request.address \in SocketsOf(Initiator) /\ request.peer_address \in Peers(Acceptor)

CountsInv ==
  /\ count \in [Ends -> Nat] /\ trial \in [Ends -> 0..m_MAX_PUNCH_TRIALS]
  /\ m_hangup \in BOOLEAN /\ ringing \in BOOLEAN /\ called_off \in BOOLEAN
  /\ calls \in [Ends -> Nat] /\ late \in 0..MaxLate

\* A datagram is a command to the server, a message from one end to the other, or
\* an answer of the server; only the initiator asks what is answered by 200 or 306.
DatagramInv(m) ==
  \/ /\ m.from # Server /\ m.to = Server
     /\ m.text \in Commands
     /\ m.from[1] = (IF m.text = "ACCEPT" THEN Acceptor ELSE Initiator)
     /\ m.from[2] <= opened[m.from[1]]
  \/ /\ m.from # Server /\ m.to # Server
     /\ m.text = "200"
     /\ m.from[2] <= opened[m.from[1]] /\ m.to[1] = Other(m.from[1])
     /\ <<m.from, m.to>> \in sent_to
  \/ /\ m.from = Server /\ m.to # Server
     /\ m.text \in Codes
     /\ m.to[2] <= opened[m.to[1]]
     /\ m.text \in {"200", "306"} => m.to[1] = Initiator
     /\ m.text = "201" => m.address \in SocketsOf(Other(m.to[1]))

NetInv == NetTypeOK /\ \A m \in BagToSet(net) : DatagramInv(m)

\* The other end has sent to socket a.
Heard(a) == \E n \in 1..opened[Other(a[1])] : <<<<Other(a[1]), n>>, a>> \in sent_to

\* A CONNECT and the answers to it, of which there is one at a time; an answer to
\* a HANGUP looks the same.
Asking(m, a) == \/ m.from = a /\ m.text = "CONNECT"
                \/ m.from = Server /\ m.to = a /\ m.text \in {"200", "306"}
HangsUp(m, a) == m.from = a /\ m.text = "HANGUP"

\* Past the answer to its CONNECT, and not hanging up.
Engaged == {"ping", "pinged", "handshake", "await 200", "retry"}

\* What the server answers to the initiator's CONNECT has been read when the
\* initiator is past it, or else something came from the acceptor in its place.
AskedInv ==
  LET a == Sock(Initiator)
  IN /\ pc[Initiator] = "connect" =>
          \A m \in BagToSet(net) : Asking(m, a) =>
            net[m] = 1 /\ \A k \in BagToSet(net) : Asking(k, a) => k = m
     /\ pc[Initiator] \in Engaged =>
          Heard(a) \/ \A m \in BagToSet(net) : ~ Asking(m, a)
     /\ pc[Initiator] \in Engaged \cup {"connect"} =>
          \A m \in BagToSet(net) : ~ HangsUp(m, a)

IInv ==
  /\ EndsInv /\ ReqInv /\ RequestInv /\ CountsInv /\ NetInv
  /\ AskedInv /\ ConnectedHeardPeer

-----------------------------------------------------------------------------
\* Names and bags.

LEMMA Names ==
  /\ Ends = {Initiator, Acceptor} /\ Initiator # Acceptor
  /\ Other(Initiator) = Acceptor /\ Other(Acceptor) = Initiator
  /\ Server \notin Socket /\ NoSocket \notin Socket
<1>1. Ends = {Initiator, Acceptor} /\ Initiator # Acceptor
  BY DEF Ends, Initiator, Acceptor
<1>2. Other(Initiator) = Acceptor /\ Other(Acceptor) = Initiator
  BY DEF Other, Ends, Initiator, Acceptor
<1>3. Server \notin Socket /\ NoSocket \notin Socket
  BY DEF Server, NoSocket, Socket
<1> QED BY <1>1, <1>2, <1>3

LEMMA SocketsOfAnEnd ==
  ASSUME NEW e \in Ends
  PROVE  /\ Other(e) \in Ends /\ Other(Other(e)) = e /\ Other(e) # e
         /\ SocketsOf(e) \subseteq Socket /\ Peers(e) \subseteq Socket \cup {NoSocket}
         /\ \A a \in Socket : a[1] \in Ends /\ a[2] \in Nat \ {0}
         /\ \A a \in Socket : a \in SocketsOf(e) <=> a[1] = e
<1>1. Other(e) \in Ends /\ Other(Other(e)) = e /\ Other(e) # e
  BY Names
<1> QED BY <1>1 DEF SocketsOf, Peers, Socket

LEMMA BagRemoved ==
  ASSUME NEW B, IsABag(B), NEW x \in DOMAIN B
  PROVE  /\ IsABag(BagRemove(B, x))
         /\ DOMAIN BagRemove(B, x) \subseteq DOMAIN B
         /\ \A y \in DOMAIN BagRemove(B, x) : BagRemove(B, x)[y] <= B[y]
         /\ B[x] = 1 => x \notin DOMAIN BagRemove(B, x)
BY DEF IsABag, BagRemove

LEMMA BagAdded ==
  ASSUME NEW B, IsABag(B), NEW x
  PROVE  /\ IsABag(BagAdd(B, x))
         /\ DOMAIN BagAdd(B, x) = DOMAIN B \cup {x}
         /\ \A y \in DOMAIN B \ {x} : BagAdd(B, x)[y] = B[y]
         /\ x \notin DOMAIN B => BagAdd(B, x)[x] = 1
BY DEF IsABag, BagAdd

LEMMA BagSum ==
  ASSUME NEW B, IsABag(B), NEW x, NEW n \in Nat \ {0}
  PROVE  LET S == B (+) [d \in {x} |-> n]
         IN  /\ IsABag(S) /\ DOMAIN S = DOMAIN B \cup {x}
             /\ \A y \in DOMAIN B \ {x} : S[y] = B[y]
             /\ x \notin DOMAIN B => S[x] = n
<1> DEFINE S == B (+) [d \in {x} |-> n]
           copies(y) == (IF y \in DOMAIN B THEN B[y] ELSE 0)
                          + (IF y \in {x} THEN [d \in {x} |-> n][y] ELSE 0)
<1>1. S = [y \in DOMAIN B \cup {x} |-> copies(y)]
  BY DEF (+)
<1>2. ASSUME NEW y \in DOMAIN B \cup {x}
      PROVE  /\ copies(y) \in Nat /\ copies(y) > 0
             /\ y # x => copies(y) = B[y]
             /\ y \notin DOMAIN B => copies(y) = n
  BY DEF IsABag
<1> HIDE DEF S, copies
<1>3. DOMAIN S = DOMAIN B \cup {x} /\ \A y \in DOMAIN B \cup {x} : S[y] = copies(y)
  BY <1>1
<1>4. S \in [DOMAIN S -> {k \in Nat : k > 0}]
  BY <1>1, <1>2, <1>3
<1>5. IsABag(S)
  BY <1>4 DEF IsABag
<1>6. \A y \in DOMAIN B \ {x} : S[y] = B[y]
  BY <1>2, <1>3
<1>7. x \notin DOMAIN B => S[x] = n
  BY <1>2, <1>3
<1> QED BY <1>3, <1>5, <1>6, <1>7 DEF S

\* What a step does to the network: it brings at most these datagrams.
Brings(new) ==
  /\ IsABag(net')
  /\ BagToSet(net') \subseteq BagToSet(net) \cup new
  /\ \A k \in BagToSet(net') \ new : net'[k] <= net[k]
  /\ sent_to' = sent_to \cup {<<k.from, k.to>> : k \in {j \in new : Server \notin {j.from, j.to}}}
  /\ network' = network

LEMMA NothingBrought ==
  ASSUME NetInv, UNCHANGED netVars PROVE Brings({})
BY DEF NetInv, NetTypeOK, netVars, Brings, BagToSet, IsABag

LEMMA SendBag ==
  ASSUME IsABag(net), NEW m, NEW n \in Nat \ {0}, Send(m, n)
  PROVE  /\ IsABag(net') /\ DOMAIN net' = DOMAIN net \cup {m}
         /\ \A y \in DOMAIN net \ {m} : net'[y] = net[y]
         /\ m \notin DOMAIN net => net'[m] = n
<1> DEFINE S == net (+) [d \in {m} |-> n]
<1>1. /\ IsABag(S) /\ DOMAIN S = DOMAIN net \cup {m}
      /\ \A y \in DOMAIN net \ {m} : S[y] = net[y]
      /\ m \notin DOMAIN net => S[m] = n
  BY BagSum, ZenonT(30)
<1>2. net' = S
  BY DEF Send
<1> HIDE DEF S
<1> QED BY <1>1, <1>2

LEMMA SendBrings ==
  ASSUME NetInv, NEW m, NEW n \in Nat \ {0}, Send(m, n)
  PROVE  /\ Brings({m})
         /\ m \notin BagToSet(net) => net'[m] = n
<1>1. IsABag(net)
  BY DEF NetInv, NetTypeOK
<1>2. /\ IsABag(net') /\ DOMAIN net' = DOMAIN net \cup {m}
      /\ \A y \in DOMAIN net \ {m} : net'[y] = net[y]
      /\ m \notin DOMAIN net => net'[m] = n
  BY <1>1, SendBag
<1>3. \A y \in DOMAIN net : net[y] \in Nat
  BY <1>1 DEF IsABag
<1>4. \A y \in DOMAIN net \ {m} : net'[y] <= net[y]
  BY <1>2, <1>3
<1> QED BY <1>2, <1>4 DEF Brings, BagToSet, Send, Remember

LEMMA ReceiveBrings ==
  ASSUME NetInv, NEW m \in BagToSet(net), Receive(m)
  PROVE  /\ Brings({})
         /\ net[m] = 1 => m \notin BagToSet(net')
<1>1. IsABag(net) /\ m \in DOMAIN net
  BY DEF NetInv, NetTypeOK, BagToSet
<1> QED BY <1>1, BagRemoved DEF Brings, BagToSet, Receive

LEMMA AnswerBrings ==
  ASSUME NetInv, NEW m \in BagToSet(net), NEW reply, Answer(m, reply)
  PROVE  /\ Brings({reply})
         /\ net[m] = 1 /\ m # reply => m \notin BagToSet(net')
         /\ reply \notin BagToSet(net) => net'[reply] = 1
<1> DEFINE B == BagRemove(net, m)
<1>1. IsABag(net) /\ m \in DOMAIN net
  BY DEF NetInv, NetTypeOK, BagToSet
<1>2. /\ IsABag(B) /\ DOMAIN B \subseteq DOMAIN net
      /\ \A y \in DOMAIN B : B[y] <= net[y]
      /\ net[m] = 1 => m \notin DOMAIN B
  BY <1>1, BagRemoved
<1>3. net' = BagAdd(B, reply)
  BY DEF Answer
<1> HIDE DEF B
<1>4. /\ IsABag(net') /\ DOMAIN net' = DOMAIN B \cup {reply}
      /\ \A y \in DOMAIN B \ {reply} : net'[y] = B[y]
      /\ reply \notin DOMAIN B => net'[reply] = 1
  BY <1>2, <1>3, BagAdded
<1> QED BY <1>2, <1>4 DEF Brings, BagToSet, Answer, Remember

-----------------------------------------------------------------------------
\* The network after a step that brings only proper datagrams.

Proper(m) == m \in Datagram /\ DatagramInv(m)'
Opens == opened \in [Ends -> Nat] /\ \A e \in Ends : opened'[e] >= opened[e] /\ opened'[e] \in Nat

LEMMA StillProper ==
  ASSUME Opens, sent_to \subseteq sent_to', NEW m \in Datagram, DatagramInv(m)
  PROVE  DatagramInv(m)'
<1>1. ASSUME NEW a \in Socket PROVE a[1] \in Ends /\ a[2] \in Nat /\ a # Server
  BY <1>1, SocketsOfAnEnd, Names
<1>2. ASSUME NEW a \in Socket, a[2] <= opened[a[1]] PROVE a[2] <= opened'[a[1]]
  BY <1>1, <1>2 DEF Opens
<1>3. m.from \in Socket \cup {Server} /\ m.to \in Socket \cup {Server}
  BY DEF Datagram
<1> QED BY <1>2, <1>3 DEF DatagramInv

LEMMA NetStep ==
  ASSUME NetInv, Opens, NEW new, Brings(new), \A m \in new : Proper(m)
  PROVE  NetInv'
<1>1. sent_to' \subseteq Socket \X Socket
  <2>1. ASSUME NEW m \in new, Server \notin {m.from, m.to}
        PROVE  <<m.from, m.to>> \in Socket \X Socket
    BY <2>1 DEF Proper, Datagram
  <2> QED BY <2>1 DEF NetInv, NetTypeOK, Brings
<1>2. \A m \in BagToSet(net') : m \in BagToSet(net) \/ m \in new
  BY DEF Brings
<1>3. BagToSet(net') \subseteq Datagram
  BY <1>2 DEF NetInv, NetTypeOK, Proper
<1>4. NetTypeOK'
  BY <1>1, <1>3 DEF NetInv, NetTypeOK, Brings
<1>5. sent_to \subseteq sent_to'
  BY DEF Brings
<1>6. ASSUME NEW m \in BagToSet(net) PROVE DatagramInv(m)'
  <2>1. m \in Datagram /\ DatagramInv(m)
    BY <1>6 DEF NetInv, NetTypeOK
  <2> QED BY <1>5, <2>1, StillProper
<1>7. \A m \in BagToSet(net') : DatagramInv(m)'
  BY <1>2, <1>6 DEF Proper
<1> QED BY <1>4, <1>7 DEF NetInv

\* The three kinds of datagrams.
LEMMA CommandProper ==
  ASSUME EndsInv, NEW e \in Ends, NEW n \in Nat \ {0}, n <= opened'[e],
         NEW command \in Commands, e = (IF command = "ACCEPT" THEN Acceptor ELSE Initiator)
  PROVE  Proper(Text(<<e, n>>, Server, command))
<1> DEFINE m == Text(<<e, n>>, Server, command)
<1>1. m \in Datagram /\ m.from = <<e, n>> /\ m.to = Server /\ m.text = command
  BY DEF Text, Datagram, Socket
<1>2. m.from # Server /\ m.from[1] = e /\ m.from[2] = n
  BY <1>1, Names DEF Socket
<1> HIDE DEF m
<1>3. DatagramInv(m)'
  BY <1>1, <1>2 DEF DatagramInv
<1> QED BY <1>1, <1>3 DEF Proper, m

LEMMA MessageProper ==
  ASSUME NEW e \in Ends, NEW n \in Nat \ {0}, n <= opened'[e],
         NEW to \in SocketsOf(Other(e)), <<<<e, n>>, to>> \in sent_to'
  PROVE  Proper(Text(<<e, n>>, to, "200"))
<1> DEFINE m == Text(<<e, n>>, to, "200")
<1>1. to \in Socket /\ to[1] = Other(e) /\ to # Server
  BY SocketsOfAnEnd, Names
<1>2. m \in Datagram /\ m.from = <<e, n>> /\ m.to = to /\ m.text = "200"
  BY <1>1 DEF Text, Datagram, Socket, Codes
<1>3. m.from # Server /\ m.from[1] = e /\ m.from[2] = n
  BY <1>2, Names DEF Socket
<1> HIDE DEF m
<1>4. DatagramInv(m)'
  BY <1>1, <1>2, <1>3 DEF DatagramInv
<1> QED BY <1>2, <1>4 DEF Proper, m

LEMMA AnswerProper ==
  ASSUME EndsInv, NetInv, opened' = opened, NEW m \in BagToSet(net), m.text \in Commands,
         NEW text \in Codes, NEW address \in Socket \cup {NoSocket},
         text \in {"200", "306"} => m.text # "ACCEPT",
         text = "201" => address \in SocketsOf(Other(m.from[1]))
  PROVE  Proper(Told(m, text, address))
<1> DEFINE r == Told(m, text, address)
<1>1. m \in Datagram /\ DatagramInv(m)
  BY DEF NetInv, NetTypeOK
<1>2. /\ m.from # Server /\ m.from[2] <= opened[m.from[1]]
      /\ m.from[1] = (IF m.text = "ACCEPT" THEN Acceptor ELSE Initiator)
  BY <1>1 DEF DatagramInv, Commands, Codes
<1>3. m.from \in Socket
  BY <1>1, <1>2 DEF Datagram
<1>4. r \in Datagram
  BY <1>3 DEF Told, Datagram
<1>5. r.from = Server /\ r.to = m.from /\ r.text = text /\ r.address = address
  BY DEF Told
<1> HIDE DEF r
<1>6. DatagramInv(r)'
  BY <1>2, <1>5 DEF DatagramInv
<1> QED BY <1>4, <1>6 DEF Proper, r

-----------------------------------------------------------------------------
\* The P2Ps after a step.

\* End e goes on to another place, with p for the P2P it is setting up.
EndMoves(e, p, place) ==
  /\ UNCHANGED <<stream, opened>> /\ Goto(e, place) /\ place \in PCs
  /\ Set(e, p) \/ (UNCHANGED p2p /\ p = Current(e))
  /\ p \in P2Ps /\ p.peer \in Peers(Other(e))
  /\ p.sock = Current(e).sock \/ (p = Null /\ place \in {"idle", "between"})
  /\ pc[e] \notin {"idle", "between"} \/ place = "idle"
  /\ p.status = "Connected" => Current(e).status = "Connected" \/ Heard(Sock(e))

Constructs(e, s, command, place) ==
  /\ Construct(e, s, command) /\ Goto(e, place) /\ place \in PCs

LEMMA MoveIs ==
  ASSUME EndsInv, NEW e \in Ends, NEW p, NEW place, EndMoves(e, p, place)
  PROVE  /\ p2p' \in [Ends -> [Streams -> P2Ps]] /\ pc' \in [Ends -> PCs]
         /\ p2p'[e][stream[e]] = p /\ pc'[e] = place
         /\ \A s \in Streams \ {stream[e]} : p2p'[e][s] = p2p[e][s]
         /\ \A d \in Ends \ {e} : p2p'[d] = p2p[d] /\ pc'[d] = pc[d]
<1>1. stream[e] \in Streams /\ p2p \in [Ends -> [Streams -> P2Ps]] /\ p \in P2Ps
  BY DEF EndsInv, EndMoves
<1>2. /\ pc' \in [Ends -> PCs] /\ pc'[e] = place
      /\ \A d \in Ends \ {e} : pc'[d] = pc[d]
  BY DEF EndsInv, EndMoves, Goto
<1> HIDE DEF P2Ps
<1>3. CASE Set(e, p)
  <2> DEFINE row == [p2p[e] EXCEPT ![stream[e]] = p]
  <2>1. p2p' = [p2p EXCEPT ![e] = row]
    BY <1>3 DEF Set
  <2>2. /\ row \in [Streams -> P2Ps] /\ row[stream[e]] = p
        /\ \A s \in Streams \ {stream[e]} : row[s] = p2p[e][s]
    BY <1>1
  <2> HIDE DEF row
  <2> QED BY <1>1, <1>2, <2>1, <2>2
<1>4. CASE UNCHANGED p2p /\ p = Current(e)
  BY <1>1, <1>2, <1>4 DEF Current
<1> QED BY <1>3, <1>4 DEF EndMoves

LEMMA ConstructIs ==
  ASSUME EndsInv, NEW e \in Ends, NEW s \in Streams, NEW command, NEW place,
         Constructs(e, s, command, place)
  PROVE  /\ p2p' \in [Ends -> [Streams -> P2Ps]] /\ pc' \in [Ends -> PCs]
         /\ stream' \in [Ends -> Streams] /\ opened' \in [Ends -> Nat]
         /\ pc'[e] = place /\ stream'[e] = s /\ opened'[e] = opened[e] + 1
         /\ p2p'[e][s] = P2P(opened[e] + 1)
         /\ \A t \in Streams \ {s} : p2p'[e][t] = p2p[e][t] \/ p2p'[e][t] = Null
         /\ \A d \in Ends \ {e} : /\ p2p'[d] = p2p[d] /\ pc'[d] = pc[d]
                                  /\ stream'[d] = stream[d] /\ opened'[d] = opened[d]
<1>1. opened[e] \in Nat /\ p2p[e] \in [Streams -> P2Ps] /\ p2p \in [Ends -> [Streams -> P2Ps]]
  BY DEF EndsInv
<1>2. P2P(opened[e] + 1) \in P2Ps /\ Null \in P2Ps
  BY <1>1 DEF P2P, Null, P2Ps
<1>3. /\ pc' \in [Ends -> PCs] /\ stream' \in [Ends -> Streams] /\ opened' \in [Ends -> Nat]
      /\ pc'[e] = place /\ stream'[e] = s /\ opened'[e] = opened[e] + 1
      /\ \A d \in Ends \ {e} : /\ pc'[d] = pc[d]
                               /\ stream'[d] = stream[d] /\ opened'[d] = opened[d]
  BY <1>1 DEF EndsInv, Constructs, Construct, Goto
<1> DEFINE n == opened[e] + 1
           row == IF s = "audio" THEN [audio |-> P2P(n), video |-> Null]
                  ELSE [p2p[e] EXCEPT !.video = P2P(n)]
<1>4. p2p' = [p2p EXCEPT ![e] = row]
  BY DEF Constructs, Construct
<1>5. /\ row \in [Streams -> P2Ps] /\ row[s] = P2P(n)
      /\ \A t \in Streams \ {s} : row[t] = p2p[e][t] \/ row[t] = Null
  <2> HIDE DEF P2Ps
  <2>1. CASE s = "audio"
    <3>1. row = [audio |-> P2P(n), video |-> Null]
      BY <2>1
    <3> HIDE DEF row
    <3> QED BY <1>2, <2>1, <3>1 DEF Streams
  <2>2. CASE s # "audio"
    <3>1. row = [p2p[e] EXCEPT !["video"] = P2P(n)] /\ s = "video"
      BY <2>2 DEF Streams
    <3> HIDE DEF row
    <3> QED BY <1>1, <1>2, <3>1 DEF Streams
  <2> QED BY <2>1, <2>2
<1> HIDE DEF row, P2Ps
<1>6. p2p' \in [Ends -> [Streams -> P2Ps]] /\ p2p'[e] = row /\ \A d \in Ends \ {e} : p2p'[d] = p2p[d]
  BY <1>1, <1>4, <1>5
<1> QED BY <1>3, <1>5, <1>6

LEMMA MoveKeepsEnds ==
  ASSUME EndsInv, NEW e \in Ends, NEW p, NEW place, EndMoves(e, p, place)
  PROVE  EndsInv' /\ Opens
<1>1. /\ p2p' \in [Ends -> [Streams -> P2Ps]] /\ pc' \in [Ends -> PCs]
      /\ p2p'[e][stream[e]] = p /\ pc'[e] = place
      /\ \A s \in Streams \ {stream[e]} : p2p'[e][s] = p2p[e][s]
      /\ \A d \in Ends \ {e} : p2p'[d] = p2p[d] /\ pc'[d] = pc[d]
  BY MoveIs
<1>2. stream' = stream /\ opened' = opened /\ stream \in [Ends -> Streams] /\ opened \in [Ends -> Nat]
  BY DEF EndMoves, EndsInv
<1>3. /\ p.sock <= opened[e] /\ p.peer \in Peers(Other(e))
      /\ place \notin {"idle", "between"} => p.sock # 0
  <2>1. Current(e).sock <= opened[e]
    BY <1>2 DEF EndsInv, Current
  <2>2. p.sock = 0 => p.sock <= opened[e]
    BY <1>2
  <2>3. /\ p.peer \in Peers(Other(e))
        /\ p.sock = Current(e).sock \/ (p.sock = 0 /\ place \in {"idle", "between"})
        /\ pc[e] \notin {"idle", "between"} \/ place = "idle"
    BY DEF EndMoves, Null, P2P
  <2> QED BY <2>1, <2>2, <2>3 DEF EndsInv
<1>4. ASSUME NEW d \in Ends
      PROVE  /\ \A s \in Streams : /\ p2p'[d][s].sock <= opened'[d]
                                   /\ p2p'[d][s].peer \in Peers(Other(d))
             /\ pc'[d] \notin {"idle", "between"} => p2p'[d][stream'[d]].sock # 0
  <2>1. CASE d = e
    BY <1>1, <1>2, <1>3, <2>1 DEF EndsInv
  <2>2. CASE d # e
    BY <1>1, <1>2, <2>2 DEF EndsInv, Current
  <2> QED BY <2>1, <2>2
<1>5. EndsInv'
  BY <1>1, <1>2, <1>4 DEF EndsInv, Current
<1> QED BY <1>2, <1>5 DEF Opens

LEMMA ConstructKeepsEnds ==
  ASSUME EndsInv, NEW e \in Ends, NEW s \in Streams, NEW command, NEW place,
         Constructs(e, s, command, place)
  PROVE  EndsInv' /\ Opens
<1>1. /\ p2p' \in [Ends -> [Streams -> P2Ps]] /\ pc' \in [Ends -> PCs]
      /\ stream' \in [Ends -> Streams] /\ opened' \in [Ends -> Nat]
      /\ pc'[e] = place /\ stream'[e] = s /\ opened'[e] = opened[e] + 1
      /\ p2p'[e][s] = P2P(opened[e] + 1)
      /\ \A t \in Streams \ {s} : p2p'[e][t] = p2p[e][t] \/ p2p'[e][t] = Null
      /\ \A d \in Ends \ {e} : /\ p2p'[d] = p2p[d] /\ pc'[d] = pc[d]
                               /\ stream'[d] = stream[d] /\ opened'[d] = opened[d]
  BY ConstructIs
<1>2. /\ P2P(opened[e] + 1).sock = opened[e] + 1 /\ P2P(opened[e] + 1).peer = NoSocket
      /\ Null.sock = 0 /\ Null.peer = NoSocket /\ opened \in [Ends -> Nat]
  BY DEF P2P, Null, EndsInv
<1>3. \A d \in Ends : NoSocket \in Peers(Other(d))
  BY DEF Peers
<1>4. ASSUME NEW t \in Streams
      PROVE  p2p'[e][t].sock <= opened'[e] /\ p2p'[e][t].peer \in Peers(Other(e))
  <2>1. p2p[e][t].sock <= opened[e] /\ p2p[e][t].peer \in Peers(Other(e)) /\ p2p[e][t].sock \in Nat
    BY DEF EndsInv, P2Ps
  <2> QED BY <1>1, <1>2, <1>3, <2>1
<1>5. ASSUME NEW d \in Ends
      PROVE  /\ \A t \in Streams : /\ p2p'[d][t].sock <= opened'[d]
                                   /\ p2p'[d][t].peer \in Peers(Other(d))
             /\ pc'[d] \notin {"idle", "between"} => p2p'[d][stream'[d]].sock # 0
  <2>1. CASE d = e
    BY <1>1, <1>2, <1>4, <2>1
  <2>2. CASE d # e
    BY <1>1, <2>2 DEF EndsInv, Current
  <2> QED BY <2>1, <2>2
<1>6. EndsInv'
  BY <1>1, <1>5 DEF EndsInv, Current
<1>7. Opens
  BY <1>1, <1>2 DEF Opens
<1> QED BY <1>6, <1>7

\* Who has been heard, stays so.
LEMMA HeardStays ==
  ASSUME Opens, sent_to \subseteq sent_to', NEW e \in Ends, NEW n, Heard(<<e, n>>)
  PROVE  \E k \in 1..opened'[Other(e)] : <<<<Other(e), k>>, <<e, n>>>> \in sent_to'
<1>1. PICK k \in 1..opened[Other(e)] : <<<<Other(e), k>>, <<e, n>>>> \in sent_to
  BY DEF Heard
<1>2. k \in 1..opened'[Other(e)]
  BY <1>1, SocketsOfAnEnd DEF Opens
<1> QED BY <1>1, <1>2

LEMMA ConnectedStep ==
  ASSUME EndsInv, ConnectedHeardPeer, Opens, sent_to \subseteq sent_to',
         \A e \in Ends, s \in Streams :
           p2p'[e][s].status = "Connected" =>
             \/ p2p'[e][s] = p2p[e][s]
             \/ p2p'[e][s].sock = p2p[e][s].sock /\ Heard(<<e, p2p[e][s].sock>>)
  PROVE  ConnectedHeardPeer'
<1>1. ASSUME NEW e \in Ends, NEW s \in Streams, p2p'[e][s].status = "Connected"
      PROVE  \E k \in 1..opened'[Other(e)] :
               <<<<Other(e), k>>, <<e, p2p'[e][s].sock>>>> \in sent_to'
  <2>1. p2p'[e][s].sock = p2p[e][s].sock /\ Heard(<<e, p2p[e][s].sock>>)
    BY <1>1 DEF ConnectedHeardPeer, Heard
  <2> DEFINE n == p2p[e][s].sock
  <2>2. Heard(<<e, n>>) /\ p2p'[e][s].sock = n
    BY <2>1
  <2> HIDE DEF n
  <2> QED BY <2>2, HeardStays
<1> QED BY <1>1 DEF ConnectedHeardPeer

-----------------------------------------------------------------------------
\* What the initiator has asked, after a step.

\* None of these datagrams is a CONNECT, an answer to one, or a HANGUP.
Quiet(new) ==
  \A m \in new : ~ Asking(m, Sock(Initiator)) /\ ~ HangsUp(m, Sock(Initiator))

LEMMA AskedKept ==
  ASSUME AskedInv, Opens, NEW new, Brings(new), Sock(Initiator)' = Sock(Initiator),
         pc'[Initiator] = "connect" => pc[Initiator] = "connect",
         pc'[Initiator] \in Engaged => pc[Initiator] \in Engaged,
         pc'[Initiator] \in Engaged \cup {"connect"} => Quiet(new)
  PROVE  AskedInv'
<1>1. PICK n : Sock(Initiator) = <<Initiator, n>>
  BY DEF Sock
<1> DEFINE a == <<Initiator, n>>
<1>2. Sock(Initiator) = a /\ Sock(Initiator)' = a
  BY <1>1
<1>3. ASSUME NEW m \in BagToSet(net'), pc'[Initiator] \in Engaged \cup {"connect"},
             Asking(m, a) \/ HangsUp(m, a)
      PROVE  m \in BagToSet(net) /\ net'[m] <= net[m] /\ net'[m] \in Nat \ {0}
  BY <1>2, <1>3 DEF Quiet, Brings, IsABag, BagToSet
<1>4. ASSUME pc'[Initiator] = "connect", NEW m \in BagToSet(net'), Asking(m, a)
      PROVE  net'[m] = 1 /\ \A k \in BagToSet(net') : Asking(k, a) => k = m
  <2>1. m \in BagToSet(net) /\ net'[m] <= net[m] /\ net'[m] \in Nat \ {0}
    BY <1>3, <1>4
  <2>2. net[m] = 1 /\ \A k \in BagToSet(net) : Asking(k, a) => k = m
    BY <1>2, <1>4, <2>1 DEF AskedInv
  <2> QED BY <1>3, <1>4, <2>1, <2>2
<1>5. ASSUME pc'[Initiator] \in Engaged
      PROVE  \/ \E k \in 1..opened'[Other(Initiator)] : <<<<Other(Initiator), k>>, a>> \in sent_to'
             \/ \A m \in BagToSet(net') : ~ Asking(m, a)
  <2>1. CASE Heard(a)
    BY <2>1, HeardStays, Names DEF Brings
  <2>2. CASE ~ Heard(a)
    BY <1>2, <1>3, <1>5, <2>2 DEF AskedInv
  <2> QED BY <2>1, <2>2
<1>6. ASSUME pc'[Initiator] \in Engaged \cup {"connect"}, NEW m \in BagToSet(net')
      PROVE  ~ HangsUp(m, a)
  BY <1>2, <1>3, <1>6 DEF AskedInv
<1>7. a[1] = Initiator
  OBVIOUS
<1> HIDE DEF a
<1> QED BY <1>2, <1>4, <1>5, <1>6, <1>7 DEF AskedInv, Asking, HangsUp, Heard

LEMMA AskedVoid ==
  ASSUME pc'[Initiator] \notin Engaged \cup {"connect"} PROVE AskedInv'
BY DEF AskedInv, Engaged

\* A step of end e that brings new and ends at this place asks nothing.
Onward(e, new, place) ==
  \/ e = Acceptor /\ \A m \in new : m.from # Server /\ m.from[1] = Acceptor
  \/ e = Initiator /\ place \notin Engaged \cup {"connect"}
  \/ /\ e = Initiator /\ pc[e] \in Engaged /\ place \in Engaged
     /\ \A m \in new : m.from # Server /\ m.text \notin {"CONNECT", "HANGUP"}

\* What every step has to keep.
Core == EndsInv /\ NetInv /\ AskedInv /\ ConnectedHeardPeer

LEMMA MoveKeeps ==
  ASSUME Core, NEW e \in Ends, NEW p, NEW place, EndMoves(e, p, place),
         NEW new, Brings(new), \A m \in new : Proper(m)
  PROVE  /\ EndsInv' /\ NetInv' /\ ConnectedHeardPeer' /\ Opens
         /\ Onward(e, new, place) => AskedInv'
<1>1. EndsInv' /\ Opens
  BY MoveKeepsEnds DEF Core
<1>2. NetInv'
  BY <1>1, NetStep DEF Core
<1>3. /\ p2p'[e][stream[e]] = p /\ pc'[e] = place
      /\ \A s \in Streams \ {stream[e]} : p2p'[e][s] = p2p[e][s]
      /\ \A d \in Ends \ {e} : p2p'[d] = p2p[d] /\ pc'[d] = pc[d]
  BY MoveIs DEF Core
<1>4. sent_to \subseteq sent_to' /\ stream' = stream
  BY DEF Brings, EndMoves
<1>5. ConnectedHeardPeer'
  <2>1. ASSUME NEW d \in Ends, NEW s \in Streams, p2p'[d][s].status = "Connected"
        PROVE  \/ p2p'[d][s] = p2p[d][s]
               \/ p2p'[d][s].sock = p2p[d][s].sock /\ Heard(<<d, p2p[d][s].sock>>)
    <3>1. CASE d # e \/ s # stream[e]
      BY <1>3, <3>1
    <3>2. CASE d = e /\ s = stream[e]
      <4>1. p.status = "Connected" /\ p2p'[d][s] = p
        BY <1>3, <2>1, <3>2
      <4>2. p.sock = Current(e).sock
        <5>1. Null.status # "Connected"
          BY DEF Null, P2P
        <5> QED BY <4>1, <5>1 DEF EndMoves
      <4>3. Heard(<<e, Current(e).sock>>)
        <5>1. CASE Current(e).status = "Connected"
          BY <3>2, <5>1 DEF Core, ConnectedHeardPeer, Heard, Current
        <5>2. CASE Heard(Sock(e))
          BY <5>2 DEF Sock
        <5> QED BY <4>1, <5>1, <5>2 DEF EndMoves
      <4> QED BY <3>2, <4>1, <4>2, <4>3 DEF Current
    <3> QED BY <3>1, <3>2
  <2> QED BY <1>1, <1>4, <2>1, ConnectedStep DEF Core
<1>6. ASSUME Onward(e, new, place) PROVE AskedInv'
  <2>1. CASE e = Acceptor
    <3>1. Sock(Initiator)' = Sock(Initiator) /\ pc'[Initiator] = pc[Initiator]
      BY <1>3, <1>4, <2>1, Names DEF Sock, Current
    <3>2. ASSUME NEW m \in new PROVE m.from # Server /\ m.from # Sock(Initiator)
      <4>1. m.from # Server /\ m.from[1] = Acceptor
        BY <1>6, <2>1, Names DEF Onward
      <4>2. Sock(Initiator)[1] = Initiator
        BY DEF Sock
      <4> QED BY <4>1, <4>2, Names
    <3>3. Quiet(new)
      BY <3>2 DEF Quiet, Asking, HangsUp
    <3> QED BY <1>1, <3>1, <3>3, AskedKept DEF Core
  <2>2. CASE e = Initiator /\ place \notin Engaged \cup {"connect"}
    BY <1>3, <2>2, AskedVoid
  <2>3. CASE /\ e = Initiator /\ pc[e] \in Engaged /\ place \in Engaged
             /\ \A m \in new : m.from # Server /\ m.text \notin {"CONNECT", "HANGUP"}
    <3>1. Sock(Initiator)' = Sock(Initiator)
      <4>1. p.sock = Current(e).sock
        BY <2>3 DEF EndMoves, Engaged
      <4>2. Sock(Initiator)' = <<e, p.sock>>
        BY <1>3, <1>4, <2>3 DEF Sock, Current
      <4> QED BY <2>3, <4>1, <4>2 DEF Sock
    <3>2. Quiet(new)
      BY <2>3 DEF Quiet, Asking, HangsUp
    <3>3. pc'[Initiator] \in Engaged /\ pc[Initiator] \in Engaged /\ pc'[Initiator] # "connect"
      BY <1>3, <2>3 DEF Engaged
    <3> QED BY <1>1, <3>1, <3>2, <3>3, AskedKept DEF Core
  <2> QED BY <1>6, <2>1, <2>2, <2>3 DEF Onward
<1> QED BY <1>1, <1>2, <1>5, <1>6

\* The first command of a new P2P, whose socket nobody knows yet.
LEMMA ConstructKeeps ==
  ASSUME Core, NEW e \in Ends, NEW s \in Streams, NEW command, NEW place,
         Constructs(e, s, command, place),
         command = (IF e = Initiator THEN "CONNECT" ELSE "ACCEPT"),
         place = (IF e = Initiator THEN "connect" ELSE "accept")
  PROVE  Core'
<1>1. EndsInv' /\ Opens
  BY ConstructKeepsEnds DEF Core
<1>2. /\ pc'[e] = place /\ stream'[e] = s /\ opened'[e] = opened[e] + 1
      /\ p2p'[e][s] = P2P(opened[e] + 1)
      /\ \A t \in Streams \ {s} : p2p'[e][t] = p2p[e][t] \/ p2p'[e][t] = Null
      /\ \A d \in Ends \ {e} : /\ p2p'[d] = p2p[d] /\ pc'[d] = pc[d]
                               /\ stream'[d] = stream[d] /\ opened'[d] = opened[d]
  BY ConstructIs DEF Core
<1>3. PICK n : n = opened[e] + 1
  OBVIOUS
<1>4. n \in Nat \ {0} /\ n = opened'[e] /\ n > opened[e]
  BY <1>2, <1>3 DEF Core, EndsInv
<1> DEFINE m == Text(<<e, n>>, Server, command)
<1>5. Send(m, 1)
  BY <1>3 DEF Constructs, Construct
<1>6. Brings({m}) /\ (m \notin BagToSet(net) => net'[m] = 1)
  <2>1. NetInv /\ 1 \in Nat \ {0}
    BY DEF Core
  <2> HIDE DEF m
  <2> QED BY <1>5, <2>1, SendBrings
<1>7. Proper(m)
  <2>1. command \in Commands /\ e = (IF command = "ACCEPT" THEN Acceptor ELSE Initiator)
    BY Names DEF Commands
  <2> QED BY <1>4, <2>1, CommandProper DEF Core
<1>8. m.from = <<e, n>> /\ m.to = Server /\ m.text = command
  BY DEF Text
<1> HIDE DEF m
<1>9. NetInv'
  BY <1>1, <1>6, <1>7, NetStep DEF Core
<1>10. ConnectedHeardPeer'
  <2>1. ASSUME NEW d \in Ends, NEW t \in Streams, p2p'[d][t].status = "Connected"
        PROVE  p2p'[d][t] = p2p[d][t]
    <3>1. P2P(opened[e] + 1).status # "Connected" /\ Null.status # "Connected"
      BY DEF P2P, Null
    <3> QED BY <1>2, <2>1, <3>1
  <2>2. sent_to \subseteq sent_to'
    BY <1>6 DEF Brings
  <2> QED BY <1>1, <2>1, <2>2, ConnectedStep DEF Core
<1>11. ASSUME e = Initiator PROVE AskedInv'
  <2>1. Sock(Initiator)' = <<Initiator, n>> /\ pc'[Initiator] = "connect"
    BY <1>2, <1>3, <1>11 DEF Sock, Current, P2P
  <2>2. ASSUME NEW k \in BagToSet(net)
        PROVE  ~ Asking(k, <<Initiator, n>>) /\ ~ HangsUp(k, <<Initiator, n>>)
    <3>1. DatagramInv(k)
      BY DEF Core, NetInv
    <3>2. <<Initiator, n>> # Server
      BY Names DEF Server, Initiator
    <3>3. opened[Initiator] \in Nat /\ ~ (n <= opened[Initiator])
      BY <1>4, <1>11 DEF Core, EndsInv
    <3>4. k.from # <<Initiator, n>>
      BY <3>1, <3>2, <3>3 DEF DatagramInv
    <3>5. ~ (k.from = Server /\ k.to = <<Initiator, n>>)
      BY <3>1, <3>2, <3>3 DEF DatagramInv
    <3> QED BY <3>4, <3>5 DEF Asking, HangsUp
  <2>3. ASSUME NEW k \in BagToSet(net') PROVE k \in BagToSet(net) \/ k = m
    BY <1>6 DEF Brings
  <2>4. Asking(m, <<Initiator, n>>) /\ ~ HangsUp(m, <<Initiator, n>>)
    BY <1>8, <1>11 DEF Asking, HangsUp
  <2>5. net'[m] = 1
    BY <1>6, <2>2, <2>4
  <2>6. ASSUME NEW k \in BagToSet(net')
        PROVE  /\ ~ HangsUp(k, <<Initiator, n>>)
               /\ Asking(k, <<Initiator, n>>) => k = m
    BY <2>2, <2>3, <2>4
  <2>7. pc'[Initiator] \notin Engaged
    BY <2>1 DEF Engaged
  <2> QED BY <2>1, <2>5, <2>6, <2>7 DEF AskedInv, Asking, HangsUp
<1>12. ASSUME e = Acceptor PROVE AskedInv'
  <2>1. Sock(Initiator)' = Sock(Initiator) /\ pc'[Initiator] = pc[Initiator]
    BY <1>2, <1>12, Names DEF Sock, Current
  <2>2. m.from # Server /\ m.from # Sock(Initiator)
    BY <1>8, <1>12, Names DEF Sock, Server, Acceptor, Initiator
  <2>3. Quiet({m})
    BY <2>2 DEF Quiet, Asking, HangsUp
  <2> QED BY <1>1, <1>6, <2>1, <2>3, AskedKept DEF Core
<1> QED BY <1>1, <1>9, <1>10, <1>11, <1>12, Names DEF Core

\* A step that leaves the ends where they are.
LEMMA StayKeeps ==
  ASSUME Core, UNCHANGED <<p2p, stream, pc, opened>>,
         NEW new, Brings(new), \A m \in new : Proper(m)
  PROVE  /\ EndsInv' /\ NetInv' /\ ConnectedHeardPeer' /\ Opens
         /\ Sock(Initiator)' = Sock(Initiator) /\ pc' = pc
         /\ Quiet(new) => AskedInv'
<1>1. EndsInv'
  BY DEF Core, EndsInv, Current
<1>2. Opens
  BY DEF Core, EndsInv, Opens
<1>3. NetInv'
  BY <1>2, NetStep DEF Core
<1>4. sent_to \subseteq sent_to'
  BY DEF Brings
<1>5. ConnectedHeardPeer'
  BY <1>2, <1>4, ConnectedStep DEF Core
<1>6. Sock(Initiator)' = Sock(Initiator) /\ pc' = pc
  BY DEF Sock, Current
<1>7. Quiet(new) => AskedInv'
  BY <1>2, <1>6, AskedKept DEF Core
<1> QED BY <1>1, <1>2, <1>3, <1>5, <1>6, <1>7

-----------------------------------------------------------------------------
\* The server.

LEMMA CommandIs ==
  ASSUME NetInv, NEW m \in BagToSet(net), m.text \in Commands
  PROVE  /\ m.from # Server
         /\ m.from \in SocketsOf(IF m.text = "ACCEPT" THEN Acceptor ELSE Initiator)
<1>1. m \in Datagram /\ DatagramInv(m)
  BY DEF NetInv, NetTypeOK
<1>2. /\ m.from # Server
      /\ m.from[1] = (IF m.text = "ACCEPT" THEN Acceptor ELSE Initiator)
  BY <1>1 DEF DatagramInv, Commands, Codes
<1>3. m.from \in Socket
  BY <1>1, <1>2 DEF Datagram
<1> DEFINE e == IF m.text = "ACCEPT" THEN Acceptor ELSE Initiator
<1>4. e \in Ends /\ m.from[1] = e
  BY <1>2, Names
<1> HIDE DEF e
<1>5. m.from \in SocketsOf(e)
  BY <1>3, <1>4, SocketsOfAnEnd
<1> QED BY <1>2, <1>5 DEF e

\* The server answers a command to whoever sent it.
LEMMA ServerAnswers ==
  ASSUME Core, UNCHANGED endVars, NEW m \in BagToSet(net), m.text \in Commands,
         NEW text \in Codes, NEW address \in Socket \cup {NoSocket},
         text \in {"200", "306"} => m.text # "ACCEPT",
         text = "201" => address \in SocketsOf(Other(m.from[1])),
         Answer(m, Told(m, text, address))
  PROVE  /\ EndsInv' /\ NetInv' /\ ConnectedHeardPeer'
         /\ (text \in {"200", "306"} => m.from # Sock(Initiator)) => AskedInv'
<1> DEFINE r == Told(m, text, address)
<1>1. Brings({r})
  <2> HIDE DEF r
  <2> QED BY AnswerBrings DEF Core, r
<1>2. Proper(r)
  BY AnswerProper DEF Core, endVars
<1>3. r.from = Server /\ r.to = m.from /\ r.text = text
  BY DEF Told
<1> HIDE DEF r
<1>4. ASSUME text \in {"200", "306"} => m.from # Sock(Initiator)
      PROVE  Quiet({r})
  <2>1. Server # Sock(Initiator)
    BY Names DEF Server, Sock, Initiator
  <2> QED BY <1>3, <1>4, <2>1 DEF Quiet, Asking, HangsUp
<1> QED BY <1>1, <1>2, <1>4, StayKeeps DEF endVars

LEMMA ServeConnectKeeps ==
  ASSUME Core, RequestInv, UNCHANGED endVars, NEW m \in BagToSet(net), ServeConnect(m)
  PROVE  Core' /\ RequestInv'
<1>1. m.text = "CONNECT" /\ m.text \in Commands /\ m.text # "ACCEPT"
  BY DEF ServeConnect, Commands
<1>2. m.from # Server /\ m.from \in SocketsOf(Initiator) /\ m.from \in Socket
  BY <1>1, CommandIs, SocketsOfAnEnd, Names DEF Core
<1>3. PICK text \in {"200", "306"} : Answer(m, Told(m, text, NoSocket))
  BY DEF ServeConnect, Reply
<1>4. text \in Codes /\ text # "201"
  BY <1>3 DEF Codes
<1>5. /\ EndsInv' /\ NetInv' /\ ConnectedHeardPeer'
      /\ (text \in {"200", "306"} => m.from # Sock(Initiator)) => AskedInv'
  BY <1>1, <1>3, <1>4, ServerAnswers
<1> DEFINE r == Told(m, text, NoSocket)
<1>6. r.from = Server /\ r.to = m.from /\ r.text = text /\ m # r
  BY <1>2 DEF Told
<1>7. /\ Brings({r})
      /\ net[m] = 1 /\ m # r => m \notin BagToSet(net')
      /\ r \notin BagToSet(net) => net'[r] = 1
  <2> HIDE DEF r
  <2> QED BY <1>3, AnswerBrings DEF Core, r
<1>8. ASSUME m.from = Sock(Initiator) PROVE AskedInv'
  <2>1. PICK n : Sock(Initiator) = <<Initiator, n>>
    BY DEF Sock
  <2> DEFINE a == <<Initiator, n>>
  <2>2. Sock(Initiator) = a /\ Sock(Initiator)' = a /\ pc' = pc /\ opened' = opened
    BY <2>1 DEF Sock, Current, endVars
  <2>3. Server # a /\ a[1] = Initiator
    BY Names DEF Server, Initiator
  <2> HIDE DEF r, a
  <2>4. Asking(m, a) /\ Asking(r, a) /\ ~ HangsUp(r, a)
    BY <1>1, <1>3, <1>6, <1>8, <2>2, <2>3 DEF Asking, HangsUp
  <2>5. ASSUME NEW k \in BagToSet(net') PROVE k \in BagToSet(net) \/ k = r
    BY <1>7 DEF Brings
  <2>6. ASSUME pc[Initiator] = "connect"
        PROVE  net'[r] = 1 /\ \A k \in BagToSet(net') : Asking(k, a) => k = r
    <3>1. net[m] = 1 /\ \A k \in BagToSet(net) : Asking(k, a) => k = m
      BY <2>2, <2>4, <2>6 DEF AskedInv, Core
    <3>2. r \notin BagToSet(net) /\ m \notin BagToSet(net')
      BY <1>6, <1>7, <2>4, <3>1
    <3> QED BY <1>7, <2>5, <3>1, <3>2
  <2>7. ASSUME pc[Initiator] \in Engaged
        PROVE  \E k \in 1..opened'[Other(Initiator)] :
                 <<<<Other(Initiator), k>>, a>> \in sent_to'
    <3>1. Heard(a)
      BY <2>2, <2>4, <2>7 DEF AskedInv, Core
    <3> QED BY <1>7, <2>2, <2>3, <3>1 DEF Heard, Brings
  <2>8. ASSUME pc[Initiator] \in Engaged \cup {"connect"}, NEW k \in BagToSet(net')
        PROVE  ~ HangsUp(k, a)
    BY <2>2, <2>4, <2>5, <2>8 DEF AskedInv, Core
  <2> QED BY <2>2, <2>3, <2>6, <2>7, <2>8 DEF AskedInv, Asking, HangsUp, Heard
<1>9. RequestInv'
  <2>1. CASE request' = [address |-> m.from, peer_address |-> NoSocket]
    BY <1>2, <2>1 DEF RequestInv, Peers
  <2>2. CASE request' = request
    BY <2>2 DEF RequestInv
  <2> QED BY <2>1, <2>2 DEF ServeConnect
<1> QED BY <1>5, <1>8, <1>9 DEF Core

LEMMA ServeAcceptKeeps ==
  ASSUME Core, RequestInv, UNCHANGED endVars, NEW m \in BagToSet(net), ServeAccept(m)
  PROVE  Core' /\ RequestInv'
<1>1. m.text = "ACCEPT" /\ m.text \in Commands
  BY DEF ServeAccept, Commands
<1>2. m.from \in SocketsOf(Acceptor) /\ m.from \in Socket /\ m.from[1] = Acceptor
  BY <1>1, CommandIs, SocketsOfAnEnd, Names DEF Core
<1>3. CASE request # NoRequest
  <2>1. /\ request.address \in SocketsOf(Initiator)
        /\ request \in [address : Socket \cup {NoSocket}, peer_address : Socket \cup {NoSocket}]
    BY <1>3 DEF RequestInv
  <2>2. /\ request' = [request EXCEPT !.peer_address = m.from]
        /\ Answer(m, Told(m, "201", request.address))
    BY <1>3 DEF ServeAccept
  <2>3. RequestInv'
    BY <1>2, <2>1, <2>2 DEF RequestInv, Peers
  <2>4. /\ request.address \in SocketsOf(Other(m.from[1]))
        /\ request.address \in Socket \cup {NoSocket} /\ "201" \in Codes
    BY <1>2, <2>1, Names DEF Codes
  <2>5. EndsInv' /\ NetInv' /\ ConnectedHeardPeer' /\ AskedInv'
    BY <1>1, <2>2, <2>4, ServerAnswers
  <2> QED BY <2>3, <2>5 DEF Core
<1>4. CASE request = NoRequest
  <2>1. Answer(m, Told(m, "307", NoSocket)) /\ request' = request
    BY <1>4 DEF ServeAccept, Reply
  <2>2. "307" \in Codes
    BY DEF Codes
  <2>3. EndsInv' /\ NetInv' /\ ConnectedHeardPeer' /\ AskedInv'
    BY <1>1, <2>1, <2>2, ServerAnswers
  <2> QED BY <2>1, <2>3 DEF Core, RequestInv
<1> QED BY <1>3, <1>4

LEMMA ServePingKeeps ==
  ASSUME Core, RequestInv, UNCHANGED endVars, NEW m \in BagToSet(net), ServePing(m)
  PROVE  Core' /\ RequestInv'
<1>1. m.text = "PING" /\ m.text \in Commands
  BY DEF ServePing, Commands
<1>2. m.from \in SocketsOf(Initiator) /\ m.from[1] = Initiator
  BY <1>1, CommandIs, SocketsOfAnEnd, Names DEF Core
<1>3. CASE request.peer_address # NoSocket
  <2>1. request.peer_address \in SocketsOf(Acceptor) /\ request.peer_address \in Socket
    BY <1>3, SocketsOfAnEnd, Names DEF RequestInv, NoRequest, Peers
  <2>2. request' = NoRequest /\ Answer(m, Told(m, "201", request.peer_address))
    BY <1>3 DEF ServePing
  <2>3. RequestInv'
    BY <2>2 DEF RequestInv, NoRequest
  <2>4. request.peer_address \in SocketsOf(Other(m.from[1])) /\ "201" \in Codes
    BY <1>2, <2>1, Names DEF Codes
  <2>5. EndsInv' /\ NetInv' /\ ConnectedHeardPeer' /\ AskedInv'
    BY <1>1, <2>1, <2>2, <2>4, ServerAnswers
  <2> QED BY <2>3, <2>5 DEF Core
<1>4. CASE request.peer_address = NoSocket
  <2>1. PICK text \in {"307", "203"} : Answer(m, Told(m, text, NoSocket))
    BY <1>4 DEF ServePing, Reply
  <2>2. text \in Codes /\ text \notin {"200", "306", "201"}
    BY <2>1 DEF Codes
  <2>3. EndsInv' /\ NetInv' /\ ConnectedHeardPeer' /\ AskedInv'
    BY <1>1, <2>1, <2>2, ServerAnswers
  <2>4. request' = request
    BY <1>4 DEF ServePing
  <2> QED BY <2>3, <2>4 DEF Core, RequestInv
<1> QED BY <1>3, <1>4

\* A HANGUP that comes while the initiator connects is one of an earlier P2P.
LEMMA ServeHangupKeeps ==
  ASSUME Core, RequestInv, UNCHANGED endVars, NEW m \in BagToSet(net), ServeHangup(m)
  PROVE  Core' /\ RequestInv'
<1>1. m.text = "HANGUP" /\ m.text \in Commands /\ m.text # "ACCEPT"
  BY DEF ServeHangup, Commands
<1>2. PICK text \in {"307", "200"} : Answer(m, Told(m, text, NoSocket))
  BY DEF ServeHangup, Reply
<1>3. text \in Codes /\ text # "201"
  BY <1>2 DEF Codes
<1>4. /\ EndsInv' /\ NetInv' /\ ConnectedHeardPeer'
      /\ (text \in {"200", "306"} => m.from # Sock(Initiator)) => AskedInv'
  BY <1>1, <1>2, <1>3, ServerAnswers
<1>5. ASSUME m.from = Sock(Initiator) PROVE AskedInv'
  <2>1. pc[Initiator] \notin Engaged \cup {"connect"}
    BY <1>1, <1>5 DEF Core, AskedInv, HangsUp
  <2>2. pc' = pc
    BY DEF endVars
  <2> QED BY <2>1, <2>2, AskedVoid
<1>6. RequestInv'
  BY DEF ServeHangup, RequestInv, NoRequest
<1> QED BY <1>4, <1>5, <1>6 DEF Core

-----------------------------------------------------------------------------
\* The ends.

LEMMA SockIs ==
  ASSUME EndsInv, NEW e \in Ends, pc[e] \notin {"idle", "between"}
  PROVE  /\ Current(e) \in P2Ps /\ Current(e).sock \in Nat \ {0}
         /\ Current(e).sock <= opened[e] /\ Current(e).peer \in Peers(Other(e))
         /\ Sock(e) = <<e, Current(e).sock>> /\ Sock(e) \in SocketsOf(e)
<1>1. Current(e) \in P2Ps /\ Current(e).sock <= opened[e] /\ Current(e).peer \in Peers(Other(e))
  BY DEF EndsInv, Current
<1>2. Current(e).sock \in Nat \ {0}
  BY <1>1 DEF EndsInv, P2Ps
<1> QED BY <1>1, <1>2 DEF Sock, SocketsOf

\* What an end reads: an answer of the server, or the other end's 200.
LEMMA ReadIs ==
  ASSUME EndsInv, NetInv, NEW e \in Ends, pc[e] \notin {"idle", "between"},
         NEW m \in BagToSet(net), CanRead(e, m)
  PROVE  /\ m.text = "201" => m.address \in SocketsOf(Other(e))
         /\ \/ /\ m.from = Server /\ m.to = Sock(e) /\ m.text \in Codes
               /\ m.text \in {"200", "306"} => e = Initiator
            \/ m.from \in SocketsOf(Other(e)) /\ m.text = "200" /\ Heard(Sock(e))
<1>1. m \in Datagram /\ DatagramInv(m) /\ m.to = Sock(e)
  BY DEF NetInv, NetTypeOK, CanRead, Readable
<1>2. Sock(e) \in Socket /\ Sock(e) # Server /\ Sock(e)[1] = e
  BY SockIs, SocketsOfAnEnd, Names DEF Sock
<1>3. CASE m.from = Server
  BY <1>1, <1>2, <1>3 DEF DatagramInv
<1>4. CASE m.from # Server
  <2>1. /\ m.text = "200" /\ m.from \in Socket /\ m.from[2] <= opened[m.from[1]]
        /\ e = Other(m.from[1]) /\ <<m.from, Sock(e)>> \in sent_to
    BY <1>1, <1>2, <1>4 DEF DatagramInv, Datagram
  <2>2. m.from[1] = Other(e) /\ m.from[2] \in Nat \ {0} /\ m.from \in SocketsOf(Other(e))
    BY <2>1, SocketsOfAnEnd
  <2>3. m.from = <<Other(e), m.from[2]>>
    BY <2>2 DEF SocketsOf
  <2>4. m.from[2] \in 1..opened[Other(e)]
    BY <2>1, <2>2, SocketsOfAnEnd DEF EndsInv
  <2>5. Heard(Sock(e))
    BY <1>2, <2>1, <2>3, <2>4 DEF Heard
  <2> QED BY <2>1, <2>2, <2>5
<1> QED BY <1>3, <1>4

\* An end goes to another place with its P2P as it is, or with this status.
LEMMA GoMoves ==
  ASSUME EndsInv, NEW e \in Ends, pc[e] \notin {"idle", "between"},
         NEW place \in PCs, Goto(e, place), UNCHANGED <<p2p, stream, opened>>
  PROVE  EndMoves(e, Current(e), place)
BY SockIs DEF EndMoves

LEMMA StatusMoves ==
  ASSUME EndsInv, NEW e \in Ends, pc[e] \notin {"idle", "between"},
         NEW place \in PCs, Goto(e, place), UNCHANGED <<stream, opened>>,
         NEW status \in {"Idle", "Awaiting", "Accepted", "Connected", "Error"},
         status = "Connected" => Heard(Sock(e)),
         Set(e, [Current(e) EXCEPT !.status = status])
  PROVE  EndMoves(e, [Current(e) EXCEPT !.status = status], place)
<1> DEFINE p == [Current(e) EXCEPT !.status = status]
<1>1. /\ Current(e) \in P2Ps /\ Current(e).peer \in Peers(Other(e))
  BY SockIs
<1>2. /\ p \in P2Ps /\ p.sock = Current(e).sock /\ p.peer = Current(e).peer
      /\ p.status = status
  BY <1>1 DEF P2Ps
<1> HIDE DEF p
<1>3. Set(e, p)
  BY DEF p
<1>4. EndMoves(e, p, place)
  BY <1>1, <1>2, <1>3 DEF EndMoves
<1> QED BY <1>4 DEF p

LEMMA FailedMoves ==
  ASSUME EndsInv, NEW e \in Ends, pc[e] \notin {"idle", "between"},
         Failed(e), UNCHANGED <<stream, opened>>
  PROVE  \E p, place : EndMoves(e, p, place) /\ place \in {"throttle", "idle", "between"}
<1>1. CASE e = Acceptor /\ stream[e] = "video"
  <2>1. Goto(e, "throttle") /\ Set(e, [Current(e) EXCEPT !.status = "Error"]) /\ "throttle" \in PCs
    BY <1>1 DEF Failed, PCs
  <2>2. EndMoves(e, [Current(e) EXCEPT !.status = "Error"], "throttle")
    BY <2>1, StatusMoves
  <2> QED BY <2>2
<1>2. CASE ~ (e = Acceptor /\ stream[e] = "video")
  <2>1. PICK place \in {"idle", "between"} : Goto(e, place) /\ Set(e, Null)
    BY <1>2 DEF Failed
  <2>2. Null \in P2Ps /\ Null.peer = NoSocket /\ Null.status = "Idle" /\ place \in PCs
    BY <2>1 DEF Null, P2P, P2Ps, PCs
  <2> HIDE DEF Null
  <2>3. EndMoves(e, Null, place)
    BY <2>1, <2>2 DEF EndMoves, Peers
  <2> QED BY <2>1, <2>3
<1> QED BY <1>1, <1>2

\* The steps of an end that bring nothing, and those that send something.
LEMMA SilentKeeps ==
  ASSUME Core, NEW e \in Ends, NEW p, NEW place, EndMoves(e, p, place), Brings({}),
         \/ e = Acceptor
         \/ place \notin Engaged \cup {"connect"}
         \/ pc[e] \in Engaged /\ place \in Engaged
  PROVE  Core'
<1>1. Onward(e, {}, place)
  BY Names DEF Onward
<1> QED BY <1>1, MoveKeeps DEF Core

LEMMA FailedKeeps ==
  ASSUME Core, NEW e \in Ends, pc[e] \notin {"idle", "between"},
         Failed(e), UNCHANGED <<stream, opened>>, Brings({})
  PROVE  Core'
<1>1. PICK p, place : EndMoves(e, p, place) /\ place \in {"throttle", "idle", "between"}
  BY FailedMoves DEF Core
<1>2. place \notin Engaged \cup {"connect"}
  BY <1>1 DEF Engaged
<1> QED BY <1>1, <1>2, SilentKeeps

LEMMA CommandKeeps ==
  ASSUME Core, NEW e \in Ends, NEW p, NEW place, EndMoves(e, p, place),
         pc[e] \notin {"idle", "between"}, NEW command \in Commands,
         e = (IF command = "ACCEPT" THEN Acceptor ELSE Initiator),
         Send(Text(Sock(e), Server, command), 1),
         \/ e = Acceptor
         \/ place \notin Engaged \cup {"connect"}
         \/ pc[e] \in Engaged /\ place \in Engaged /\ command = "PING"
  PROVE  Core'
<1> DEFINE m == Text(Sock(e), Server, command)
<1>1. Brings({m})
  <2>1. NetInv /\ 1 \in Nat \ {0}
    BY DEF Core
  <2> HIDE DEF m
  <2> QED BY <2>1, SendBrings DEF m
<1>2. /\ Sock(e) = <<e, Current(e).sock>> /\ Current(e).sock \in Nat \ {0}
      /\ Current(e).sock <= opened'[e]
  BY SockIs DEF Core, EndMoves
<1>3. Proper(m)
  BY <1>2, CommandProper DEF Core
<1>4. m.from = <<e, Current(e).sock>> /\ m.text = command
  BY <1>2 DEF Text
<1>5. m.from # Server /\ m.from[1] = e
  BY <1>4, Names DEF Server, Initiator, Acceptor
<1> HIDE DEF m
<1>6. Onward(e, {m}, place)
  BY <1>4, <1>5, Names DEF Onward
<1> QED BY <1>1, <1>3, <1>6, MoveKeeps DEF Core

\* A 200 for a socket of the other end.
LEMMA MessageKeeps ==
  ASSUME Core, NEW e \in Ends, NEW p, NEW place, EndMoves(e, p, place),
         pc[e] \notin {"idle", "between"}, NEW to \in SocketsOf(Other(e)),
         Brings({Text(Sock(e), to, "200")}),
         \/ e = Acceptor
         \/ pc[e] \in Engaged /\ place \in Engaged
  PROVE  Core'
<1> DEFINE m == Text(Sock(e), to, "200")
<1>1. /\ Sock(e) = <<e, Current(e).sock>> /\ Current(e).sock \in Nat \ {0}
      /\ Current(e).sock <= opened'[e]
  BY SockIs DEF Core, EndMoves
<1>2. m.from = <<e, Current(e).sock>> /\ m.text = "200" /\ m.to = to
  BY <1>1 DEF Text
<1>3. m.from # Server /\ m.from[1] = e /\ m.to # Server
  BY <1>2, Names, SocketsOfAnEnd DEF Server, Initiator, Acceptor
<1>4. <<m.from, m.to>> \in sent_to'
  <2> HIDE DEF m
  <2> QED BY <1>3 DEF Brings, m
<1>5. Proper(m)
  BY <1>1, <1>2, <1>4, MessageProper
<1> HIDE DEF m
<1>6. Onward(e, {m}, place)
  BY <1>2, <1>3, Names DEF Onward
<1> QED BY <1>5, <1>6, MoveKeeps DEF Core, m

\* The answer to CONNECT: the one there is, or what came from the other end.
LEMMA ConnectPeerKeeps ==
  ASSUME Core, NEW m \in BagToSet(net), ConnectPeer(m)
  PROVE  Core'
<1>1. /\ pc[Initiator] = "connect" /\ pc[Initiator] \notin {"idle", "between"}
      /\ CanRead(Initiator, m) /\ UNCHANGED <<stream, opened>>
  BY DEF ConnectPeer
<1>2. CASE m.text \notin {"200", "306"}
  <2>1. Receive(m) /\ Failed(Initiator)
    BY <1>2 DEF ConnectPeer
  <2>2. Brings({})
    BY <2>1, ReceiveBrings DEF Core
  <2> QED BY <1>1, <2>1, <2>2, FailedKeeps, Names
<1>3. CASE m.text \in {"200", "306"}
  <2> DEFINE r == Text(Sock(Initiator), Server, "PING")
             p == [Current(Initiator) EXCEPT !.status = "Awaiting"]
  <2>1. /\ Answer(m, r) /\ Set(Initiator, p) /\ Goto(Initiator, "ping")
    BY <1>3 DEF ConnectPeer
  <2>2. EndMoves(Initiator, p, "ping")
    <3>1. "ping" \in PCs
      BY DEF PCs
    <3> QED BY <1>1, <2>1, <3>1, StatusMoves, Names DEF Core
  <2>3. /\ Sock(Initiator) = <<Initiator, Current(Initiator).sock>>
        /\ Current(Initiator).sock \in Nat \ {0} /\ Sock(Initiator) \in SocketsOf(Initiator)
        /\ Current(Initiator).sock <= opened'[Initiator]
    BY <1>1, SockIs, Names DEF Core, EndMoves
  <2>4. Proper(r)
    <3>1. "PING" \in Commands
      BY DEF Commands
    <3> QED BY <2>3, <3>1, CommandProper, Names DEF Core
  <2>5. r.from = Sock(Initiator) /\ r.to = Server /\ r.text = "PING"
    BY DEF Text
  <2> HIDE DEF r
  <2>6. Brings({r}) /\ (net[m] = 1 /\ m # r => m \notin BagToSet(net'))
    BY <2>1, AnswerBrings DEF Core
  <2>7. EndsInv' /\ NetInv' /\ ConnectedHeardPeer' /\ Opens
    BY <2>2, <2>4, <2>6, MoveKeeps, Names
  <2>8. pc'[Initiator] = "ping" /\ Sock(Initiator)' = Sock(Initiator)
    <3>1. p.sock = Current(Initiator).sock
      BY <1>1, SockIs, Names DEF Core, P2Ps
    <3> HIDE DEF p
    <3>2. pc'[Initiator] = "ping" /\ p2p'[Initiator][stream[Initiator]] = p
      BY <2>2, MoveIs, Names DEF Core
    <3> QED BY <1>1, <3>1, <3>2 DEF Sock, Current
  <2>9. PICK a : a = Sock(Initiator)
    OBVIOUS
  <2>10. a # Server /\ a[1] = Initiator
    BY <2>3, <2>9, Names DEF Server, Initiator
  <2>11. ~ Asking(r, a) /\ ~ HangsUp(r, a)
    BY <2>5, <2>9, <2>10 DEF Asking, HangsUp
  <2>12. ASSUME NEW k \in BagToSet(net') PROVE k \in BagToSet(net) \/ k = r
    BY <2>6 DEF Brings
  <2>13. \A k \in BagToSet(net') : ~ HangsUp(k, a)
    BY <1>1, <2>9, <2>11, <2>12 DEF Core, AskedInv
  <2>14. \/ \E k \in 1..opened'[Other(Initiator)] : <<<<Other(Initiator), k>>, a>> \in sent_to'
         \/ \A k \in BagToSet(net') : ~ Asking(k, a)
    <3>1. CASE Heard(a)
      BY <2>6, <2>7, <2>9, <2>10, <2>3, <3>1, HeardStays, Names DEF Brings
    <3>2. CASE ~ Heard(a)
      <4>1. m.from = Server /\ m.to = a
        BY <1>1, <2>9, <3>2, ReadIs, Names DEF Core
      <4>2. Asking(m, a) /\ m # r
        BY <1>3, <2>10, <2>5, <2>9, <4>1 DEF Asking
      <4>3. net[m] = 1 /\ \A k \in BagToSet(net) : Asking(k, a) => k = m
        BY <1>1, <2>9, <4>2 DEF Core, AskedInv
      <4> QED BY <2>6, <2>11, <2>12, <4>2, <4>3
    <3> QED BY <3>1, <3>2
  <2>15. AskedInv'
    BY <2>8, <2>9, <2>10, <2>13, <2>14 DEF AskedInv, Asking, HangsUp, Heard
  <2> QED BY <2>7, <2>15 DEF Core
<1> QED BY <1>2, <1>3

\* What the server tells of the other end is a socket of the other end.
LEMMA ToldMoves ==
  ASSUME Core, NEW e \in Ends, pc[e] \notin {"idle", "between"},
         NEW m \in BagToSet(net), CanRead(e, m), m.text = "201",
         NEW place \in PCs, Goto(e, place), UNCHANGED <<stream, opened>>,
         Set(e, [Current(e) EXCEPT !.status = "Accepted", !.peer = m.address,
                                   !.network_type = network])
  PROVE  \E p : EndMoves(e, p, place)
<1> DEFINE p == [Current(e) EXCEPT !.status = "Accepted", !.peer = m.address,
                                   !.network_type = network]
<1>1. Current(e) \in P2Ps
  BY SockIs DEF Core
<1>2. m.address \in SocketsOf(Other(e)) /\ m.address \in Socket
  BY ReadIs, SocketsOfAnEnd DEF Core
<1>3. network \in {"LOCAL", "WEB"}
  BY DatagramsAssumption DEF Core, NetInv, NetTypeOK
<1>4. /\ p \in P2Ps /\ p.sock = Current(e).sock /\ p.peer = m.address
      /\ p.status = "Accepted"
  BY <1>1, <1>2, <1>3 DEF P2Ps
<1> HIDE DEF p
<1>5. Set(e, p)
  BY DEF p
<1>6. EndMoves(e, p, place)
  BY <1>2, <1>4, <1>5 DEF EndMoves, Peers
<1> QED BY <1>6

LEMMA PingPeerKeeps ==
  ASSUME Core, NEW m \in BagToSet(net), PingPeer(m)
  PROVE  Core'
<1>1. /\ pc[Initiator] = "ping" /\ pc[Initiator] \notin {"idle", "between"}
      /\ CanRead(Initiator, m) /\ UNCHANGED <<stream, opened>>
      /\ Goto(Initiator, "pinged") /\ "pinged" \in PCs
      /\ pc[Initiator] \in Engaged /\ "pinged" \in Engaged
  BY DEF PingPeer, PCs, Engaged
<1>2. Brings({})
  BY ReceiveBrings DEF PingPeer, Core
<1>3. \E p : EndMoves(Initiator, p, "pinged")
  <2>1. CASE m.text = "201"
    <3>1. Set(Initiator, [Current(Initiator) EXCEPT !.status = "Accepted", !.peer = m.address,
                                                    !.network_type = network])
      BY <2>1 DEF PingPeer
    <3> QED BY <1>1, <2>1, <3>1, ToldMoves, Names
  <2>2. CASE m.text # "201"
    <3>1. PICK status \in {"Awaiting", "Error"} :
            Set(Initiator, [Current(Initiator) EXCEPT !.status = status])
      BY <2>2 DEF PingPeer
    <3>2. EndMoves(Initiator, [Current(Initiator) EXCEPT !.status = status], "pinged")
      BY <1>1, <3>1, StatusMoves, Names DEF Core
    <3> QED BY <3>2
  <2> QED BY <2>1, <2>2
<1> QED BY <1>1, <1>2, <1>3, SilentKeeps, Names

LEMMA AfterPingKeeps ==
  ASSUME Core, AfterPing
  PROVE  Core'
<1>1. /\ pc[Initiator] = "pinged" /\ pc[Initiator] \notin {"idle", "between"}
      /\ UNCHANGED <<stream, opened>> /\ pc[Initiator] \in Engaged
  BY DEF AfterPing, Engaged
<1>2. CASE Failed(Initiator) /\ UNCHANGED netVars
  BY <1>1, <1>2, NothingBrought, FailedKeeps, Names DEF Core
<1>3. ASSUME NEW command \in {"HANGUP", "PING"}, NEW place \in {"hangup", "give up", "ping"},
             SendServer(command, place), place = "ping" <=> command = "PING"
      PROVE  Core'
  <2>1. Goto(Initiator, place) /\ UNCHANGED p2p /\ Send(Text(Sock(Initiator), Server, command), 1)
    BY <1>3 DEF SendServer
  <2>2. place \in PCs /\ command \in Commands /\ command # "ACCEPT"
    BY <1>3 DEF PCs, Commands
  <2>3. EndMoves(Initiator, Current(Initiator), place)
    BY <1>1, <2>1, <2>2, GoMoves, Names DEF Core
  <2>4. \/ place \notin Engaged \cup {"connect"}
        \/ pc[Initiator] \in Engaged /\ place \in Engaged /\ command = "PING"
    BY <1>1, <1>3 DEF Engaged
  <2> QED BY <1>1, <2>1, <2>2, <2>3, <2>4, CommandKeeps, Names
<1>4. CASE Goto(Initiator, "handshake") /\ UNCHANGED <<netVars, p2p>>
  <2>1. "handshake" \in PCs /\ "handshake" \in Engaged
    BY DEF PCs, Engaged
  <2>2. EndMoves(Initiator, Current(Initiator), "handshake")
    BY <1>1, <1>4, <2>1, GoMoves, Names DEF Core
  <2>3. Brings({})
    BY <1>4, NothingBrought DEF Core
  <2> QED BY <1>1, <2>1, <2>2, <2>3, SilentKeeps, Names
<1>5. \/ Failed(Initiator) /\ UNCHANGED netVars
      \/ SendServer("HANGUP", "hangup") \/ SendServer("HANGUP", "give up")
      \/ SendServer("PING", "ping")
      \/ Goto(Initiator, "handshake") /\ UNCHANGED <<netVars, p2p>>
  BY DEF AfterPing
<1> QED BY <1>2, <1>3, <1>4, <1>5

LEMMA HangupPeerKeeps ==
  ASSUME Core, NEW m \in BagToSet(net), HangupPeer(m)
  PROVE  Core'
<1>1. /\ pc[Initiator] \notin {"idle", "between"} /\ UNCHANGED <<stream, opened>>
  BY DEF HangupPeer
<1>2. Brings({})
  BY ReceiveBrings DEF HangupPeer, Core
<1>3. CASE Failed(Initiator)
  BY <1>1, <1>2, <1>3, FailedKeeps, Names
<1>4. CASE ~ Failed(Initiator)
  <2>1. PICK status \in {"Idle", "Error"} :
          Set(Initiator, [Current(Initiator) EXCEPT !.status = status])
    BY <1>4 DEF HangupPeer
  <2>2. Goto(Initiator, "between") /\ "between" \in PCs /\ "between" \notin Engaged \cup {"connect"}
    BY <1>4 DEF HangupPeer, PCs, Engaged
  <2>3. EndMoves(Initiator, [Current(Initiator) EXCEPT !.status = status], "between")
    BY <1>1, <2>1, <2>2, StatusMoves, Names DEF Core
  <2> QED BY <1>2, <2>2, <2>3, SilentKeeps, Names
<1> QED BY <1>3, <1>4

LEMMA AcceptPeerKeeps ==
  ASSUME Core, NEW m \in BagToSet(net), AcceptPeer(m)
  PROVE  Core'
<1>1. /\ pc[Acceptor] = "accept" /\ pc[Acceptor] \notin {"idle", "between"}
      /\ CanRead(Acceptor, m) /\ UNCHANGED <<stream, opened>>
  BY DEF AcceptPeer
<1>2. Brings({})
  BY ReceiveBrings DEF AcceptPeer, Core
<1>3. CASE m.text = "201"
  <2>1. /\ Goto(Acceptor, "handshake")
        /\ Set(Acceptor, [Current(Acceptor) EXCEPT !.status = "Accepted", !.peer = m.address,
                                                   !.network_type = network])
    BY <1>3 DEF AcceptPeer
  <2>2. "handshake" \in PCs
    BY DEF PCs
  <2>3. \E p : EndMoves(Acceptor, p, "handshake")
    BY <1>1, <1>3, <2>1, <2>2, ToldMoves, Names
  <2> QED BY <1>2, <2>3, SilentKeeps, Names
<1>4. CASE m.text # "201"
  <2>1. Failed(Acceptor)
    BY <1>4 DEF AcceptPeer
  <2> QED BY <1>1, <1>2, <2>1, FailedKeeps, Names
<1> QED BY <1>3, <1>4

LEMMA AcceptAgainKeeps ==
  ASSUME Core, AcceptAgain
  PROVE  Core'
<1>1. /\ pc[Acceptor] = "throttle" /\ pc[Acceptor] \notin {"idle", "between"}
      /\ UNCHANGED <<stream, opened>>
  BY DEF AcceptAgain
<1>2. CASE Set(Acceptor, Null) /\ Goto(Acceptor, "idle") /\ UNCHANGED netVars
  <2>1. Null \in P2Ps /\ Null.peer = NoSocket /\ Null.status = "Idle" /\ "idle" \in PCs
    BY DEF Null, P2P, P2Ps, PCs
  <2>2. EndMoves(Acceptor, Null, "idle")
    <3> HIDE DEF Null
    <3> QED BY <1>1, <1>2, <2>1 DEF EndMoves, Peers
  <2>3. Brings({})
    BY <1>2, NothingBrought DEF Core
  <2> QED BY <2>2, <2>3, SilentKeeps, Names
<1>3. CASE ~ (Set(Acceptor, Null) /\ Goto(Acceptor, "idle") /\ UNCHANGED netVars)
  <2> DEFINE p == [Current(Acceptor) EXCEPT !.status = "Idle", !.peer = NoSocket]
  <2>1. /\ Set(Acceptor, p) /\ Send(Text(Sock(Acceptor), Server, "ACCEPT"), 1)
        /\ Goto(Acceptor, "accept")
    BY <1>3 DEF AcceptAgain
  <2>2. Current(Acceptor) \in P2Ps
    BY <1>1, SockIs, Names DEF Core
  <2>3. /\ p \in P2Ps /\ p.sock = Current(Acceptor).sock /\ p.peer = NoSocket
        /\ p.status = "Idle" /\ "accept" \in PCs /\ "ACCEPT" \in Commands
    BY <2>2 DEF P2Ps, PCs, Commands
  <2> HIDE DEF p
  <2>4. EndMoves(Acceptor, p, "accept")
    BY <1>1, <2>1, <2>3 DEF EndMoves, Peers
  <2> QED BY <1>1, <2>1, <2>3, <2>4, CommandKeeps, Names
<1> QED BY <1>2, <1>3

LEMMA HandshakePeerKeeps ==
  ASSUME Core, NEW e \in Ends, HandshakePeer(e)
  PROVE  Core'
<1>1. /\ pc[e] = "handshake" /\ pc[e] \notin {"idle", "between"} /\ Current(e).peer # NoSocket
      /\ Goto(e, "await 200") /\ UNCHANGED <<p2p, stream, opened>>
      /\ "await 200" \in PCs /\ pc[e] \in Engaged /\ "await 200" \in Engaged
  BY DEF HandshakePeer, ValidToHandshake, PCs, Engaged
<1>2. EndMoves(e, Current(e), "await 200")
  BY <1>1, GoMoves DEF Core
<1>3. Current(e).peer \in SocketsOf(Other(e))
  BY <1>1, SockIs DEF Core, Peers
<1>4. CASE UNCHANGED netVars
  <2>1. Brings({})
    BY <1>4, NothingBrought DEF Core
  <2> QED BY <1>1, <1>2, <2>1, SilentKeeps
<1>5. CASE ~ UNCHANGED netVars
  <2> DEFINE m == Text(Sock(e), Current(e).peer, "200")
  <2>1. PICK n \in Nat \ {0} : Send(m, n)
    <3> DEFINE k == (IF Current(e).network_type = "WEB" THEN 1 ELSE 0)
                      + (IF e = Initiator THEN 1 ELSE 0)
    <3>1. k \in Nat /\ (k > 0 => k \in Nat \ {0})
      OBVIOUS
    <3>2. IF k > 0 THEN Send(m, k) ELSE UNCHANGED netVars
      BY DEF HandshakePeer
    <3> HIDE DEF k, m
    <3> QED BY <1>5, <3>1, <3>2
  <2>2. Brings({m})
    <3> HIDE DEF m
    <3> QED BY <2>1, SendBrings DEF Core
  <2>3. \/ e = Acceptor
        \/ pc[e] \in Engaged /\ "await 200" \in Engaged
    BY <1>1
  <2> QED BY <1>1, <1>2, <1>3, <2>2, <2>3, MessageKeeps
<1> QED BY <1>4, <1>5

LEMMA HandshakeInitiatorKeeps ==
  ASSUME Core, NEW m \in BagToSet(net), HandshakeInitiator(m)
  PROVE  Core'
<1>1. /\ pc[Initiator] = "await 200" /\ pc[Initiator] \notin {"idle", "between"}
      /\ CanRead(Initiator, m) /\ UNCHANGED <<stream, opened>> /\ pc[Initiator] \in Engaged
  BY DEF HandshakeInitiator, Engaged
<1>2. Brings({})
  BY ReceiveBrings DEF HandshakeInitiator, Core
<1>3. CASE m.text # "200"
  <2>1. Failed(Initiator)
    BY <1>3 DEF HandshakeInitiator
  <2> QED BY <1>1, <1>2, <2>1, FailedKeeps, Names
<1>4. CASE m.text = "200"
  <2>1. Heard(Sock(Initiator))
    <3>1. CASE m.from = Server /\ m.to = Sock(Initiator)
      <4>1. Asking(m, Sock(Initiator))
        BY <1>4, <3>1 DEF Asking
      <4> QED BY <1>1, <4>1 DEF Core, AskedInv
    <3>2. CASE ~ (m.from = Server /\ m.to = Sock(Initiator))
      BY <1>1, <3>2, ReadIs, Names DEF Core
    <3> QED BY <3>1, <3>2
  <2>2. /\ Set(Initiator, [Current(Initiator) EXCEPT !.status = "Connected"])
        /\ Goto(Initiator, "between") /\ "between" \in PCs
        /\ "between" \notin Engaged \cup {"connect"}
    BY <1>4 DEF HandshakeInitiator, Connected, PCs, Engaged
  <2>3. EndMoves(Initiator, [Current(Initiator) EXCEPT !.status = "Connected"], "between")
    BY <1>1, <2>1, <2>2, StatusMoves, Names DEF Core
  <2> QED BY <1>2, <2>2, <2>3, SilentKeeps, Names
<1> QED BY <1>3, <1>4

LEMMA HandshakeAcceptorKeeps ==
  ASSUME Core, NEW m \in BagToSet(net), HandshakeAcceptor(m)
  PROVE  Core'
<1>1. /\ pc[Acceptor] = "await 200" /\ pc[Acceptor] \notin {"idle", "between"}
      /\ CanRead(Acceptor, m) /\ UNCHANGED <<stream, opened>>
  BY DEF HandshakeAcceptor
<1>2. CASE m.text # "200"
  <2>1. Failed(Acceptor) /\ Receive(m)
    BY <1>2 DEF HandshakeAcceptor
  <2>2. Brings({})
    BY <2>1, ReceiveBrings DEF Core
  <2> QED BY <1>1, <2>1, <2>2, FailedKeeps, Names
<1>3. CASE m.text = "200"
  <2>1. Heard(Sock(Acceptor)) /\ m.from \in SocketsOf(Other(Acceptor))
    BY <1>1, <1>3, ReadIs, Names DEF Core
  <2>2. /\ Set(Acceptor, [Current(Acceptor) EXCEPT !.status = "Connected"])
        /\ Goto(Acceptor, "between") /\ "between" \in PCs
        /\ Answer(m, Text(Sock(Acceptor), m.from, "200"))
    BY <1>3 DEF HandshakeAcceptor, Connected, PCs
  <2>3. EndMoves(Acceptor, [Current(Acceptor) EXCEPT !.status = "Connected"], "between")
    BY <1>1, <2>1, <2>2, StatusMoves, Names DEF Core
  <2>4. Brings({Text(Sock(Acceptor), m.from, "200")})
    <3> DEFINE r == Text(Sock(Acceptor), m.from, "200")
    <3>1. Answer(m, r)
      BY <2>2
    <3> HIDE DEF r
    <3>2. Brings({r})
      BY <3>1, AnswerBrings DEF Core
    <3> QED BY <3>2 DEF r
  <2> QED BY <1>1, <2>1, <2>3, <2>4, MessageKeeps, Names
<1> QED BY <1>2, <1>3

LEMMA RetryKeeps ==
  ASSUME Core, ReqInv, NEW e \in Ends, Retry(e)
  PROVE  Core'
<1>1. /\ pc[e] = "retry" /\ pc[e] \notin {"idle", "between"} /\ UNCHANGED <<stream, opened>>
      /\ "retry" \in PCs /\ pc[e] \in Engaged
  BY DEF Retry, PCs, Engaged
<1>2. CASE Failed(e) /\ UNCHANGED netVars
  BY <1>1, <1>2, NothingBrought, FailedKeeps DEF Core
<1>3. CASE Respond(e, "200", 1) /\ UNCHANGED <<p2p, pc>>
  <2>1. Goto(e, "retry")
    BY <1>1, <1>3 DEF Goto, Core, EndsInv
  <2>2. EndMoves(e, Current(e), "retry")
    BY <1>1, <1>3, <2>1, GoMoves DEF Core
  <2>3. CASE req[e].valid
    <3> DEFINE m == Text(Sock(e), req[e].address, "200")
    <3>1. Send(m, 1) /\ req[e].address \in SocketsOf(Other(e))
      BY <1>3, <2>3 DEF Respond, ReqInv
    <3>2. Brings({m})
      <4>1. NetInv /\ 1 \in Nat \ {0}
        BY DEF Core
      <4> HIDE DEF m
      <4> QED BY <3>1, <4>1, SendBrings
    <3> QED BY <1>1, <2>2, <3>1, <3>2, MessageKeeps
  <2>4. CASE ~ req[e].valid
    <3>1. Brings({})
      BY <1>3, <2>4, NothingBrought DEF Respond, Core
    <3> QED BY <1>1, <2>2, <3>1, SilentKeeps
  <2> QED BY <2>3, <2>4
<1> QED BY <1>2, <1>3 DEF Retry

LEMMA NextStreamKeeps ==
  ASSUME Core, NEW e \in Ends, NextStream(e)
  PROVE  Core'
<1>1. CASE Goto(e, "idle") /\ UNCHANGED <<netVars, p2p, stream, opened>>
  <2>1. "idle" \in PCs /\ "idle" \notin Engaged \cup {"connect"}
    BY DEF PCs, Engaged
  <2>2. Current(e) \in P2Ps /\ Current(e).peer \in Peers(Other(e))
    BY DEF Core, EndsInv, Current
  <2>3. EndMoves(e, Current(e), "idle")
    BY <1>1, <2>1, <2>2 DEF EndMoves
  <2>4. Brings({})
    BY <1>1, NothingBrought DEF Core
  <2> QED BY <2>1, <2>3, <2>4, SilentKeeps
<1>2. CASE ~ (Goto(e, "idle") /\ UNCHANGED <<netVars, p2p, stream, opened>>)
  <2> DEFINE command == IF e = Initiator THEN "CONNECT" ELSE "ACCEPT"
             place == IF e = Initiator THEN "connect" ELSE "accept"
  <2>1. Construct(e, "video", command) /\ Goto(e, place)
    BY <1>2 DEF NextStream
  <2>2. place \in PCs /\ "video" \in Streams
    BY DEF PCs, Streams
  <2>3. Constructs(e, "video", command, place)
    BY <2>1, <2>2 DEF Constructs
  <2> QED BY <2>2, <2>3, ConstructKeeps
<1> QED BY <1>1, <1>2

LEMMA TimeoutKeeps ==
  ASSUME Core, NEW e \in Ends, Timeout(e)
  PROVE  Core'
<1>1. /\ pc[e] \notin {"idle", "between"} /\ UNCHANGED <<stream, opened>> /\ UNCHANGED netVars
  BY DEF Timeout, Waiting
<1>2. Brings({})
  BY <1>1, NothingBrought DEF Core
<1>3. CASE pc[e] \in {"connect", "give up", "accept"}
  <2>1. Failed(e)
    BY <1>3 DEF Timeout
  <2> QED BY <1>1, <1>2, <2>1, FailedKeeps
<1>4. ASSUME NEW place \in {"pinged", "between"}, Goto(e, place),
             Set(e, [Current(e) EXCEPT !.status = "Error"]),
             place = "pinged" => pc[e] \in Engaged
      PROVE  Core'
  <2>1. place \in PCs /\ (place = "pinged" => place \in Engaged)
        /\ (place = "between" => place \notin Engaged \cup {"connect"})
    BY DEF PCs, Engaged
  <2>2. EndMoves(e, [Current(e) EXCEPT !.status = "Error"], place)
    BY <1>1, <1>4, <2>1, StatusMoves DEF Core
  <2> QED BY <1>2, <1>4, <2>1, <2>2, SilentKeeps
<1>5. CASE pc[e] = "ping"
  BY <1>4, <1>5 DEF Timeout, Engaged
<1>6. CASE pc[e] = "hangup"
  BY <1>4, <1>6 DEF Timeout
<1>7. CASE pc[e] = "await 200"
  <2>1. Goto(e, "retry") /\ UNCHANGED p2p
    BY <1>7 DEF Timeout
  <2>2. "retry" \in PCs /\ "retry" \in Engaged /\ pc[e] \in Engaged
    BY <1>7 DEF PCs, Engaged
  <2>3. EndMoves(e, Current(e), "retry")
    BY <1>1, <2>1, <2>2, GoMoves DEF Core
  <2> QED BY <1>2, <2>2, <2>3, SilentKeeps
<1> QED BY <1>3, <1>5, <1>6, <1>7 DEF Timeout, Waiting

LEMMA UsersKeep ==
  ASSUME Core, Users
  PROVE  Core'
<1>1. CASE Dial
  <2>1. "connect" \in PCs /\ "audio" \in Streams
    BY DEF PCs, Streams
  <2>2. Constructs(Initiator, "audio", "CONNECT", "connect")
    BY <1>1, <2>1 DEF Dial, Constructs
  <2> QED BY <2>1, <2>2, ConstructKeeps, Names
<1>2. CASE AnswerCall
  <2>1. "accept" \in PCs /\ "audio" \in Streams
    BY DEF PCs, Streams
  <2>2. Constructs(Acceptor, "audio", "ACCEPT", "accept")
    BY <1>2, <2>1 DEF AnswerCall, Constructs
  <2> QED BY <2>1, <2>2, ConstructKeeps, Names
<1>3. CASE UserHangup \/ List
  <2>1. UNCHANGED netVars /\ UNCHANGED <<p2p, stream, pc, opened>>
    BY <1>3 DEF UserHangup, List, endVars
  <2>2. Brings({})
    BY <2>1, NothingBrought DEF Core
  <2>3. EndsInv' /\ NetInv' /\ ConnectedHeardPeer' /\ (Quiet({}) => AskedInv')
    BY <2>1, <2>2, StayKeeps
  <2> QED BY <2>3 DEF Quiet, Core
<1> QED BY <1>1, <1>2, <1>3 DEF Users

LEMMA ServerKeeps ==
  ASSUME Core, RequestInv, Serve \/ Expire \/ Network
  PROVE  Core' /\ RequestInv'
<1>1. CASE Serve
  <2>1. UNCHANGED endVars
    BY <1>1 DEF Serve
  <2>2. PICK m \in BagToSet(net) :
          ServeConnect(m) \/ ServeAccept(m) \/ ServePing(m) \/ ServeHangup(m)
    BY <1>1 DEF Serve
  <2> QED BY <2>1, <2>2, ServeConnectKeeps, ServeAcceptKeeps, ServePingKeeps, ServeHangupKeeps
<1>2. CASE Expire \/ Network
  <2>1. UNCHANGED <<p2p, stream, pc, opened>>
    BY <1>2 DEF Expire, Network, endVars
  <2>2. Brings({})
    <3>1. CASE Expire
      BY <3>1, NothingBrought DEF Expire, Core
    <3>2. CASE Network
      BY <3>2, ReceiveBrings DEF Network, Drop, Core
    <3> QED BY <1>2, <3>1, <3>2
  <2>3. EndsInv' /\ NetInv' /\ ConnectedHeardPeer' /\ (Quiet({}) => AskedInv')
    BY <2>1, <2>2, StayKeeps
  <2>4. RequestInv'
    BY <1>2 DEF Expire, Network, RequestInv, NoRequest
  <2> QED BY <2>3, <2>4 DEF Quiet, Core
<1> QED BY <1>1, <1>2

\* Every step is one of an end, one of a user, or one of the server and the network.
LEMMA CoreStep ==
  ASSUME Core, ReqInv, RequestInv, [Next]_vars
  PROVE  Core' /\ RequestInv'
<1>1. ASSUME \/ \E m \in BagToSet(net) :
                  \/ ConnectPeer(m) \/ PingPeer(m) \/ HangupPeer(m) \/ HandshakeInitiator(m)
                  \/ AcceptPeer(m) \/ HandshakeAcceptor(m)
             \/ \E e \in Ends : HandshakePeer(e) \/ Retry(e) \/ NextStream(e) \/ Timeout(e)
             \/ AfterPing \/ AcceptAgain
      PROVE  Core'
  BY <1>1, ConnectPeerKeeps, PingPeerKeeps, HangupPeerKeeps, HandshakeInitiatorKeeps,
     AcceptPeerKeeps, HandshakeAcceptorKeeps, HandshakePeerKeeps, RetryKeeps, NextStreamKeeps,
     TimeoutKeeps, AfterPingKeeps, AcceptAgainKeeps
<1>2. CASE InitiatorStep
  <2>1. Core'
    BY <1>1, <1>2, Names DEF InitiatorStep
  <2>2. UNCHANGED request
    BY <1>2 DEF InitiatorStep, Timeout
  <2> QED BY <2>1, <2>2 DEF RequestInv
<1>3. CASE AcceptorStep
  <2>1. Core'
    BY <1>1, <1>3, Names DEF AcceptorStep
  <2>2. UNCHANGED request
    BY <1>3 DEF AcceptorStep, Timeout
  <2> QED BY <2>1, <2>2 DEF RequestInv
<1>4. CASE Serve \/ Expire \/ Network
  BY <1>4, ServerKeeps
<1>5. CASE Users
  <2>1. UNCHANGED request
    BY <1>5 DEF Users, Dial, AnswerCall, UserHangup, List
  <2> QED BY <1>5, <2>1, UsersKeep DEF RequestInv
<1>6. CASE UNCHANGED vars
  <2>1. UNCHANGED netVars /\ UNCHANGED <<p2p, stream, pc, opened>> /\ UNCHANGED request
    BY <1>6 DEF vars, endVars
  <2>2. Brings({})
    BY <2>1, NothingBrought DEF Core
  <2>3. EndsInv' /\ NetInv' /\ ConnectedHeardPeer' /\ (Quiet({}) => AskedInv')
    BY <2>1, <2>2, StayKeeps
  <2> QED BY <2>1, <2>3 DEF Quiet, Core, RequestInv
<1> QED BY <1>2, <1>3, <1>4, <1>5, <1>6 DEF Next

-----------------------------------------------------------------------------
\* The requests of the handshake, and the counters.

Reqs == [valid : BOOLEAN, address : Socket \cup {NoSocket}]

LEMMA ReqSet ==
  ASSUME ReqInv, NEW e \in Ends, NEW r \in Reqs, req' = [req EXCEPT ![e] = r],
         r.valid => r.address \in SocketsOf(Other(e))
  PROVE  ReqInv'
<1>1. req \in [Ends -> Reqs]
  BY DEF ReqInv, Reqs
<1>2. req' \in [Ends -> Reqs] /\ req'[e] = r /\ \A d \in Ends \ {e} : req'[d] = req[d]
  BY <1>1
<1>3. \A d \in Ends : req'[d].valid => req'[d].address \in SocketsOf(Other(d))
  BY <1>2 DEF ReqInv
<1> QED BY <1>2, <1>3 DEF ReqInv, Reqs

LEMMA ReqStep ==
  ASSUME Core, ReqInv, [Next]_vars
  PROVE  ReqInv'
<1>1. ASSUME UNCHANGED req PROVE ReqInv'
  BY <1>1 DEF ReqInv
<1>2. ASSUME NEW e \in Ends, req' = [req EXCEPT ![e] = NoReq] PROVE ReqInv'
  <2>1. NoReq \in Reqs /\ ~ NoReq.valid
    BY DEF NoReq, Reqs
  <2> HIDE DEF NoReq
  <2> QED BY <1>2, <2>1, ReqSet
<1>3. ASSUME NEW e \in Ends, HandshakePeer(e) PROVE ReqInv'
  <2> DEFINE r == [valid |-> TRUE, address |-> Current(e).peer]
  <2>1. pc[e] \notin {"idle", "between"} /\ req' = [req EXCEPT ![e] = r] /\ Current(e).peer # NoSocket
    BY <1>3 DEF HandshakePeer, ValidToHandshake
  <2>2. Current(e).peer \in SocketsOf(Other(e)) /\ Current(e).peer \in Socket
    BY <2>1, SockIs, SocketsOfAnEnd DEF Core, Peers
  <2>3. r \in Reqs /\ r.address = Current(e).peer
    BY <2>2 DEF Reqs
  <2> HIDE DEF r
  <2> QED BY <2>1, <2>2, <2>3, ReqSet
<1>4. ASSUME NEW e \in Ends, Timeout(e) PROVE ReqInv'
  <2>1. CASE UNCHANGED req
    BY <1>1, <2>1
  <2>2. CASE ~ UNCHANGED req
    <3> DEFINE r == [req[e] EXCEPT !.valid = FALSE]
    <3>1. req' = [req EXCEPT ![e] = r]
      BY <1>4, <2>2 DEF Timeout, Waiting
    <3>2. req[e] \in Reqs
      BY DEF ReqInv, Reqs
    <3>3. r \in Reqs /\ ~ r.valid
      BY <3>2 DEF Reqs
    <3> HIDE DEF r
    <3> QED BY <3>1, <3>3, ReqSet
  <2> QED BY <2>1, <2>2
<1>5. ASSUME NEW e \in Ends, Retry(e) PROVE ReqInv'
  BY <1>1, <1>2, <1>5 DEF Retry
<1>6. ASSUME NEW e \in Ends, NextStream(e) PROVE ReqInv'
  BY <1>1, <1>6 DEF NextStream
<1>7. ASSUME NEW m, \/ ConnectPeer(m) \/ PingPeer(m) \/ HangupPeer(m) \/ AcceptPeer(m)
      PROVE  ReqInv'
  BY <1>1, <1>7 DEF ConnectPeer, PingPeer, HangupPeer, AcceptPeer
<1>8. ASSUME NEW m, HandshakeInitiator(m) \/ HandshakeAcceptor(m) PROVE ReqInv'
  BY <1>2, <1>8, Names DEF HandshakeInitiator, HandshakeAcceptor
<1>9. CASE InitiatorStep
  BY <1>1, <1>3, <1>4, <1>5, <1>6, <1>7, <1>8, <1>9, Names DEF InitiatorStep, AfterPing
<1>10. CASE AcceptorStep
  BY <1>1, <1>3, <1>4, <1>5, <1>6, <1>7, <1>8, <1>10, Names DEF AcceptorStep, AcceptAgain
<1>11. CASE Serve \/ Expire \/ Network \/ UNCHANGED vars
  BY <1>1, <1>11 DEF Serve, Expire, Network, vars, endVars
<1>12. CASE Users
  BY <1>1, <1>12 DEF Users, Dial, AnswerCall, UserHangup, List, endVars
<1> QED BY <1>9, <1>10, <1>11, <1>12 DEF Next

\* What a step does to the counters and the flags.
Counts ==
  /\ \/ UNCHANGED count
     \/ \E e \in Ends : \/ count' = [count EXCEPT ![e] = 0]
                        \/ count' = [count EXCEPT ![e] = @ + 1]
  /\ \/ UNCHANGED trial
     \/ \E e \in Ends : \/ trial' = [trial EXCEPT ![e] = 0]
                        \/ /\ trial[e] < m_MAX_PUNCH_TRIALS
                           /\ trial' = [trial EXCEPT ![e] = @ + 1]
  /\ UNCHANGED calls \/ \E e \in Ends : calls' = [calls EXCEPT ![e] = @ + 1]
  /\ UNCHANGED late \/ (late < MaxLate /\ late' = late + 1)

Flags ==
  /\ m_hangup' \in BOOLEAN \/ UNCHANGED m_hangup
  /\ ringing' \in BOOLEAN \/ UNCHANGED ringing
  /\ called_off' \in BOOLEAN \/ UNCHANGED called_off

LEMMA CountsKept ==
  ASSUME CountsInv, Counts, Flags PROVE CountsInv'
<1>1. count' \in [Ends -> Nat]
  BY DEF CountsInv, Counts
<1>2. calls' \in [Ends -> Nat]
  BY DEF CountsInv, Counts
<1>3. trial' \in [Ends -> 0..m_MAX_PUNCH_TRIALS]
  <2>1. m_MAX_PUNCH_TRIALS \in Nat /\ trial \in [Ends -> 0..m_MAX_PUNCH_TRIALS]
    BY PeerToPeerAssumption DEF CountsInv
  <2> QED BY <2>1 DEF Counts
<1>4. late' \in 0..MaxLate
  BY PeerToPeerAssumption DEF CountsInv, Counts
<1>5. m_hangup' \in BOOLEAN /\ ringing' \in BOOLEAN /\ called_off' \in BOOLEAN
  BY DEF CountsInv, Flags
<1> QED BY <1>1, <1>2, <1>3, <1>4, <1>5 DEF CountsInv

LEMMA EndCounts ==
  ASSUME CountsInv, InitiatorStep \/ AcceptorStep PROVE Counts /\ Flags
<1>1. ASSUME NEW e \in Ends, HandshakePeer(e), UNCHANGED <<ringing, called_off, late>>
      PROVE  Counts /\ Flags
  BY <1>1 DEF HandshakePeer, Counts, Flags
<1>2. ASSUME NEW e \in Ends, Retry(e), UNCHANGED <<ringing, called_off, late>>
      PROVE  Counts /\ Flags
  <2>1. UNCHANGED <<count, calls, late, m_hangup, ringing, called_off>>
    BY <1>2 DEF Retry
  <2>2. \/ trial[e] < m_MAX_PUNCH_TRIALS /\ trial' = [trial EXCEPT ![e] = @ + 1]
        \/ trial' = [trial EXCEPT ![e] = 0]
    BY <1>2 DEF Retry
  <2> QED BY <2>1, <2>2 DEF Counts, Flags
<1>3. ASSUME NEW e \in Ends, NextStream(e), UNCHANGED <<ringing, called_off, late>>
      PROVE  Counts /\ Flags
  <2>1. UNCHANGED <<trial, calls, late, ringing, called_off>>
    BY <1>3 DEF NextStream
  <2>2. UNCHANGED count \/ count' = [count EXCEPT ![e] = 0]
    BY <1>3 DEF NextStream, Construct
  <2>3. m_hangup' \in BOOLEAN \/ UNCHANGED m_hangup
    <3> DEFINE flag == m_hangup /\ e # Initiator
    <3>1. flag \in BOOLEAN
      OBVIOUS
    <3> HIDE DEF flag
    <3>2. m_hangup' = flag \/ UNCHANGED m_hangup
      BY <1>3 DEF NextStream, flag
    <3> QED BY <3>1, <3>2
  <2> QED BY <2>1, <2>2, <2>3 DEF Counts, Flags
<1>4. ASSUME NEW e \in Ends, Timeout(e)
      PROVE  Counts /\ Flags
  <2>1. UNCHANGED <<count, trial, calls, m_hangup, ringing, called_off>>
    BY <1>4 DEF Timeout
  <2>2. UNCHANGED late \/ (late < MaxLate /\ late' = late + 1)
    BY <1>4 DEF Timeout, TooLate, CountLate
  <2> QED BY <2>1, <2>2 DEF Counts, Flags
<1>5. ASSUME NEW m, \/ ConnectPeer(m) \/ PingPeer(m) \/ HangupPeer(m) \/ AcceptPeer(m)
                    \/ HandshakeInitiator(m) \/ HandshakeAcceptor(m),
             UNCHANGED <<ringing, called_off, late>>
      PROVE  Counts /\ Flags
  <2>1. UNCHANGED <<count, trial, calls, m_hangup>>
    BY <1>5 DEF ConnectPeer, PingPeer, HangupPeer, AcceptPeer, HandshakeInitiator, HandshakeAcceptor
  <2> QED BY <1>5, <2>1 DEF Counts, Flags
<1>6. ASSUME AfterPing, UNCHANGED ringing PROVE Counts /\ Flags
  <2>1. UNCHANGED <<trial, calls, m_hangup>>
    BY <1>6 DEF AfterPing
  <2>2. UNCHANGED count \/ count' = [count EXCEPT ![Initiator] = @ + 1]
    BY <1>6 DEF AfterPing
  <2>3. UNCHANGED late \/ (late < MaxLate /\ late' = late + 1)
    BY <1>6 DEF AfterPing, CountLate
  <2>4. called_off' = TRUE \/ UNCHANGED called_off
    BY <1>6 DEF AfterPing
  <2> QED BY <1>6, <2>1, <2>2, <2>3, <2>4, Names DEF Counts, Flags
<1>7. ASSUME AcceptAgain, UNCHANGED <<ringing, called_off>> PROVE Counts /\ Flags
  <2>1. UNCHANGED <<trial, calls, m_hangup>>
    BY <1>7 DEF AcceptAgain
  <2>2. UNCHANGED count \/ count' = [count EXCEPT ![Acceptor] = @ + 1]
    BY <1>7 DEF AcceptAgain
  <2>3. UNCHANGED late \/ (late < MaxLate /\ late' = late + 1)
    BY <1>7 DEF AcceptAgain, CountLate
  <2> QED BY <1>7, <2>1, <2>2, <2>3, Names DEF Counts, Flags
<1>8. CASE InitiatorStep
  BY <1>1, <1>2, <1>3, <1>4, <1>5, <1>6, <1>8, Names DEF InitiatorStep
<1>9. CASE AcceptorStep
  BY <1>1, <1>2, <1>3, <1>4, <1>5, <1>7, <1>9, Names DEF AcceptorStep
<1> QED BY <1>8, <1>9

LEMMA CountsStep ==
  ASSUME CountsInv, [Next]_vars PROVE CountsInv'
<1>1. CASE InitiatorStep \/ AcceptorStep
  BY <1>1, EndCounts, CountsKept
<1>2. CASE Serve \/ Network \/ UNCHANGED vars
  BY <1>2 DEF Serve, Network, vars, endVars, CountsInv
<1>3. CASE Expire
  <2>1. UNCHANGED <<count, trial, calls, m_hangup, ringing, called_off>>
    BY <1>3 DEF Expire, endVars
  <2>2. UNCHANGED late \/ (late < MaxLate /\ late' = late + 1)
    BY <1>3 DEF Expire, TooLate, CountLate
  <2> QED BY <2>1, <2>2, CountsKept DEF Counts, Flags
<1>4. CASE Dial
  <2>1. UNCHANGED <<trial, late, ringing, called_off>> /\ m_hangup' = FALSE
    BY <1>4 DEF Dial
  <2>2. /\ count' = [count EXCEPT ![Initiator] = 0]
        /\ calls' = [calls EXCEPT ![Initiator] = @ + 1]
    BY <1>4 DEF Dial, Construct
  <2> QED BY <2>1, <2>2, CountsKept, Names DEF Counts, Flags
<1>5. CASE AnswerCall
  <2>1. UNCHANGED <<trial, late, m_hangup, called_off>> /\ ringing' = FALSE
    BY <1>5 DEF AnswerCall
  <2>2. /\ count' = [count EXCEPT ![Acceptor] = 0]
        /\ calls' = [calls EXCEPT ![Acceptor] = @ + 1]
    BY <1>5 DEF AnswerCall, Construct
  <2> QED BY <2>1, <2>2, CountsKept, Names DEF Counts, Flags
<1>6. CASE UserHangup
  <2>1. /\ UNCHANGED <<count, trial, calls, late, ringing>>
        /\ m_hangup' = TRUE /\ called_off' = TRUE
    BY <1>6 DEF UserHangup
  <2> QED BY <2>1, CountsKept DEF Counts, Flags
<1>7. CASE List
  <2> DEFINE flag == request # NoRequest
  <2>1. flag \in BOOLEAN
    OBVIOUS
  <2> HIDE DEF flag
  <2>2. UNCHANGED <<count, trial, calls, late, m_hangup, called_off>> /\ ringing' = flag
    BY <1>7 DEF List, endVars, flag
  <2> QED BY <2>1, <2>2, CountsKept DEF Counts, Flags
<1> QED BY <1>1, <1>2, <1>3, <1>4, <1>5, <1>6, <1>7 DEF Next, Users

-----------------------------------------------------------------------------
\* The theorems.

LEMMA InitInv == Init => IInv
<1> SUFFICES ASSUME Init PROVE IInv
  OBVIOUS
<1>1. /\ p2p = [e \in Ends |-> [s \in Streams |-> Null]] /\ pc = [e \in Ends |-> "idle"]
      /\ Null \in P2Ps /\ Null.sock = 0 /\ Null.peer = NoSocket /\ Null.status = "Idle"
  BY DEF Init, Null, P2P, P2Ps
<1>2. EndsInv
  <2>1. \A e \in Ends, s \in Streams : p2p[e][s] = Null
    BY <1>1
  <2> HIDE DEF Null
  <2> QED BY <1>1, <2>1 DEF Init, EndsInv, PCs, Streams, Peers
<1>3. ReqInv
  BY DEF Init, ReqInv, NoReq
<1>4. RequestInv
  BY DEF Init, RequestInv, NoRequest
<1>5. CountsInv
  <2>1. 0 \in 0..m_MAX_PUNCH_TRIALS /\ 0 \in 0..MaxLate
    BY PeerToPeerAssumption
  <2>2. /\ count = [e \in Ends |-> 0] /\ trial = [e \in Ends |-> 0]
        /\ calls = [e \in Ends |-> 0] /\ late = 0
        /\ m_hangup = FALSE /\ ringing = FALSE /\ called_off = FALSE
    BY DEF Init
  <2> QED BY <2>1, <2>2 DEF CountsInv
<1>6. NetInv
  BY DEF Init, NetInv, NetInit, NetTypeOK, EmptyBag, SetToBag, IsABag, BagToSet
<1>7. AskedInv
  BY <1>1, Names DEF AskedInv, Engaged
<1>8. ConnectedHeardPeer
  BY <1>1 DEF ConnectedHeardPeer
<1> QED BY <1>2, <1>3, <1>4, <1>5, <1>6, <1>7, <1>8 DEF IInv

LEMMA StepInv == IInv /\ [Next]_vars => IInv'
<1> SUFFICES ASSUME IInv, [Next]_vars PROVE IInv'
  OBVIOUS
<1>1. Core /\ ReqInv /\ RequestInv /\ CountsInv
  BY DEF IInv, Core
<1>2. Core' /\ RequestInv'
  BY <1>1, CoreStep
<1>3. ReqInv' /\ CountsInv'
  BY <1>1, ReqStep, CountsStep
<1> QED BY <1>2, <1>3 DEF IInv, Core

\* Types of the whole system: in particular an address the server tells, a
\* peer an end shakes hands with and a request of the handshake are sockets.
THEOREM TypeCorrect == Spec => []TypeOK
<1>1. IInv => TypeOK
  BY DEF IInv, EndsInv, ReqInv, RequestInv, CountsInv, NetInv, TypeOK
<1> QED BY <1>1, InitInv, StepInv, PTL DEF Spec

\* An end that is Connected has heard from the other one (handshake_initiator
\* and handshake_acceptor, which do not look at the sender).
THEOREM ConnectedIsHeard == Spec => []ConnectedHeardPeer
<1>1. IInv => ConnectedHeardPeer
  BY DEF IInv
<1> QED BY <1>1, InitInv, StepInv, PTL DEF Spec

-----------------------------------------------------------------------------
(***************************************************************************)
(* FirstCallPaired.  In a first call in which nothing was late, the        *)
(* initiator's sockets are 1 and 2, for audio and video, and so are those  *)
(* of the acceptor with which it shakes hands.  N sockets have been opened *)
(* by the initiator, K by the acceptor.                                    *)
(***************************************************************************)

N == opened[Initiator]
K == opened[Acceptor]
Ini(n) == <<Initiator, n>>
Acc(k) == <<Acceptor, k>>

\* The initiator has shaken hands.
Sent(k) == <<Ini(k), Acc(k)>> \in sent_to

\* Where an end is says what its P2P is; this holds in every call.
PlaceInv(e) ==
  /\ pc[e] \notin {"idle", "between"} => Current(e).sock = opened[e]
  /\ pc[e] \in {"handshake", "await 200", "retry"} => Current(e).status = "Accepted"
  /\ pc[e] = "retry" => ~ req[e].valid
  /\ \A s \in Streams :
       p2p[e][s].status \in {"Accepted", "Connected"} =>
         p2p[e][s].peer # NoSocket /\ p2p[e][s].network_type = network
  /\ pc[e] = "await 200" => network = "LOCAL" \/ <<Sock(e), Current(e).peer>> \in sent_to

InitiatorPlaceInv ==
  /\ pc[Initiator] \notin {"accept", "throttle"}
  /\ pc[Initiator] = "pinged" => Current(Initiator).status \in {"Awaiting", "Accepted", "Error"}
  /\ pc[Initiator] = "hangup" => m_hangup
  /\ pc[Initiator] = "between" /\ stream[Initiator] = "audio" /\ ~ m_hangup =>
       Current(Initiator).status = "Connected"
  /\ calls[Initiator] = 0 => N = 0

AcceptorPlaceInv ==
  /\ pc[Acceptor] \notin {"connect", "ping", "pinged", "hangup", "give up"}
  /\ pc[Acceptor] = "throttle" => stream[Acceptor] = "video"
  /\ pc[Acceptor] = "between" =>
       Current(Acceptor).status = "Connected" /\ Current(Acceptor).sock = K

PlacesInv == (\A e \in Ends : PlaceInv(e)) /\ InitiatorPlaceInv /\ AcceptorPlaceInv

\* Nobody knows the initiator's socket n.
Unknown(n) ==
  /\ \A s \in Streams : p2p[Acceptor][s].peer # Ini(n)
  /\ \A m \in BagToSet(net) : m.address # Ini(n) /\ m.to # Ini(n)
  /\ \A p \in sent_to : p[1] # Ini(n) /\ p[2] # Ini(n)
  /\ request.address # Ini(n)

Before ==
  N = 0 =>
    /\ pc[Initiator] = "idle" /\ pc[Acceptor] = "idle" /\ K = 0
    /\ BagToSet(net) = {} /\ request = NoRequest /\ ~ ringing /\ sent_to = {}
    /\ \A e \in Ends, s \in Streams : p2p[e][s] = Null

\* The sockets of the initiator, and with whom it shakes hands.
Numbers ==
  /\ N \in 0..2 /\ stream[Initiator] = (IF N = 2 THEN "video" ELSE "audio")
  /\ p2p[Initiator]["audio"].sock \in {0, 1} /\ p2p[Initiator]["video"].sock \in {0, 2}
  /\ N < 2 => p2p[Initiator]["video"] = Null
  /\ p2p[Initiator]["audio"].peer \in {NoSocket, Acc(1)}
  /\ p2p[Initiator]["video"].peer \in {NoSocket, Acc(2)}
  /\ \A p \in sent_to : p[1][1] = Initiator => \E k \in {1, 2} : k <= N /\ p = <<Ini(k), Acc(k)>>
  /\ N = 2 \/ Sent(2) => Sent(1)

\* The sockets of the acceptor, and what it is told.
AcceptorNumbers ==
  /\ p2p[Acceptor]["video"].sock # 1
  /\ p2p[Acceptor]["audio"].sock = 1 => p2p[Acceptor]["audio"].peer \in {NoSocket, Ini(1)}
  /\ p2p[Acceptor]["video"].sock = 2 =>
       Sent(1) /\ p2p[Acceptor]["video"].peer \in {NoSocket, Ini(2)}
  /\ Sent(1) => p2p[Acceptor]["audio"].sock # 2
  /\ \A k \in {1, 2} : Sent(k) => k <= K
  /\ K = 0 => pc[Acceptor] = "idle"
  /\ \A m \in BagToSet(net) : m.from = Server /\ m.text = "201" =>
       /\ m.to = Acc(1) => m.address = Ini(1)
       /\ m.to = Acc(2) /\ p2p[Acceptor]["video"].sock = 2 => m.address = Ini(2)

\* What socket a and the server have to say to each other.
Exchange(m, a) == (m.from = a /\ m.to = Server) \/ (m.from = Server /\ m.to = a)
Is(m, text)    == m.to = Server /\ m.text = text
Pings(m, a)    == \/ m.from = a /\ Is(m, "PING")
                  \/ m.from = Server /\ m.to = a /\ m.text \in {"201", "203", "307"}

\* One ACCEPT or answer, while the acceptor waits for it.
AcceptorAsks ==
  /\ \A m \in BagToSet(net) : \A k \in 1..K : Exchange(m, Acc(k)) =>
       /\ pc[Acceptor] = "accept" /\ k = K /\ net[m] = 1
       /\ \A j \in BagToSet(net) : Exchange(j, Acc(K)) => j = m
  /\ pc[Acceptor] = "accept" => \E m \in BagToSet(net) : Exchange(m, Acc(K))

\* The initiator may still come to be connected; it is before the 201.
Alive ==
  \/ pc[Initiator] \in {"connect", "ping"}
  \/ /\ pc[Initiator] \in {"pinged", "handshake", "await 200", "retry", "between"}
     /\ Current(Initiator).status \in {"Awaiting", "Accepted", "Connected"}
Trying ==
  \/ pc[Initiator] \in {"connect", "ping"}
  \/ pc[Initiator] = "pinged" /\ Current(Initiator).status = "Awaiting"

ConnectInv ==
  \A m \in BagToSet(net) : Is(m, "CONNECT") =>
    /\ pc[Initiator] = "connect" /\ m.from = Ini(N) /\ net[m] = 1
    /\ request = NoRequest /\ Unknown(N)
    /\ N = 1 => ~ ringing /\ K = 0

InitiatorAsks ==
  /\ \A m \in BagToSet(net) : Is(m, "PING") => m.from = Ini(N)
  /\ pc[Initiator] \in {"connect", "ping"} => \E m \in BagToSet(net) : Exchange(m, Ini(N))
  /\ pc[Initiator] = "ping" =>
       \A m \in BagToSet(net) : Pings(m, Ini(N)) =>
         net[m] = 1 /\ \A j \in BagToSet(net) : Pings(j, Ini(N)) => j = m
  /\ Alive /\ pc[Initiator] # "ping" => \A m \in BagToSet(net) : ~ Pings(m, Ini(N))
  /\ Alive => \A m \in BagToSet(net) : ~ Is(m, "HANGUP")

NoConnect == \A m \in BagToSet(net) : ~ Is(m, "CONNECT")
Answers(m) == m.from = Server /\ m.to = Ini(N) /\ m.text = "201"
Answered  == \E m \in BagToSet(net) : Answers(m)

\* The request is of the initiator's last socket, and goes with the 201.
RequestIs ==
  /\ request # NoRequest => request.address = Ini(N)
  /\ Trying => \/ ~ NoConnect
               \/ request # NoRequest /\ request.peer_address \in {NoSocket, Acc(N)} /\ ~ Answered
               \/ request = NoRequest /\ pc[Initiator] = "ping" /\ Answered
  /\ Alive => \A m \in BagToSet(net) : Answers(m) => m.address = Acc(N)
  /\ Alive /\ ~ Trying => request = NoRequest
  /\ N # 0 /\ Sent(N) => request = NoRequest /\ NoConnect

\* The initiator has been told of the acceptor, or will be.
Named ==
  \/ request.peer_address # NoSocket
  \/ Answered
  \/ Current(Initiator).status \in {"Accepted", "Connected"}

\* The acceptor hears the initiator.
Heeds(k) == pc[Acceptor] = "await 200" /\ \E m \in BagToSet(net) : m.from = Ini(k) /\ m.to = Acc(k)
Follows ==
  \A k \in {1, 2} : Sent(k) /\ K = k =>
    \/ Heeds(k)
    \/ pc[Acceptor] = "between"
    \/ k = 2 /\ pc[Acceptor] = "idle"

\* Before they shake hands, the acceptor is at the same stream, or comes to it,
\* and it does not go away.
Meets ==
  Alive /\ N # 0 /\ ~ Sent(N) =>
    /\ pc[Initiator] \in {"connect", "ping", "pinged", "handshake"}
    /\ K = N \/ K = N - 1
    /\ K = N =>
         /\ stream[Acceptor] = (IF N = 2 THEN "video" ELSE "audio")
         /\ pc[Acceptor] \in {"accept", "handshake", "await 200"} \/ (N = 2 /\ pc[Acceptor] = "throttle")
         /\ N = 1 => \A m \in BagToSet(net) : m.from = Server /\ m.to = Acc(1) => m.text = "201"
    /\ Named => /\ K = N /\ pc[Acceptor] # "throttle"
                /\ \A m \in BagToSet(net) : Exchange(m, Acc(N)) => m.text = "201"
    /\ pc[Initiator] = "handshake" => pc[Acceptor] = "await 200"

\* When the initiator's audio is connected the acceptor goes on to video.
GoesOn ==
  Alive /\ N = 1 /\ Sent(1) =>
    K <= 2 /\ (K = 2 => /\ pc[Acceptor] # "idle" /\ stream[Acceptor] = "video"
                        /\ p2p[Acceptor]["video"].sock = 2)

\* What holds until the end of the first call, as long as nothing is late.
First ==
  /\ Before /\ Numbers /\ AcceptorNumbers /\ AcceptorAsks /\ ConnectInv
  /\ InitiatorAsks /\ RequestIs /\ Follows /\ Meets /\ GoesOn
  /\ N = 1 => Unknown(2)

\* Nothing was late, and the first call is not followed by another.
Timely == late = 0 /\ calls[Initiator] <= 1

\* With IInv, the inductive invariant behind FirstCallPaired.
FirstInv == PlacesInv /\ (Timely => First)

-----------------------------------------------------------------------------
\* What a step does to the network: gone has been taken from it, and new put into
\* it.
Carries(gone, new) ==
  /\ BagToSet(net') \subseteq BagToSet(net) \cup new
  /\ BagToSet(net) \ gone \subseteq BagToSet(net') /\ new \subseteq BagToSet(net')
  /\ \A m \in BagToSet(net) \ (gone \cup new) : net'[m] = net[m]
  /\ \A m \in gone \ new : net[m] = 1 => m \notin BagToSet(net')
  /\ \A m \in new \ BagToSet(net) : Server \in {m.from, m.to} => net'[m] = 1
  /\ sent_to' = sent_to \cup {<<m.from, m.to>> : m \in {j \in new : Server \notin {j.from, j.to}}}
  /\ network' = network

LEMMA NothingCarried ==
  ASSUME UNCHANGED netVars PROVE Carries({}, {})
BY DEF netVars, Carries

LEMMA SendCarries ==
  ASSUME NetInv, NEW m, NEW n \in Nat \ {0}, Send(m, n), n = 1 \/ Server \notin {m.from, m.to}
  PROVE  Carries({}, {m})
<1>1. IsABag(net)
  BY DEF NetInv, NetTypeOK
<1>2. /\ DOMAIN net' = DOMAIN net \cup {m}
      /\ \A y \in DOMAIN net \ {m} : net'[y] = net[y]
      /\ m \notin DOMAIN net => net'[m] = n
  BY <1>1, SendBag
<1>3. sent_to' = sent_to \cup {<<j.from, j.to>> : j \in {i \in {m} : Server \notin {i.from, i.to}}}
      /\ network' = network
  BY DEF Send, Remember
<1> QED BY <1>2, <1>3 DEF Carries, BagToSet

LEMMA RemovedBag ==
  ASSUME NEW B, IsABag(B), NEW x \in DOMAIN B
  PROVE  LET R == BagRemove(B, x)
         IN  /\ IsABag(R) /\ DOMAIN R \subseteq DOMAIN B /\ DOMAIN B \ {x} \subseteq DOMAIN R
             /\ \A y \in DOMAIN B \ {x} : R[y] = B[y]
             /\ B[x] = 1 => x \notin DOMAIN R
BY DEF IsABag, BagRemove

LEMMA ReceiveCarries ==
  ASSUME NetInv, NEW m \in BagToSet(net), Receive(m)
  PROVE  Carries({m}, {})
<1> DEFINE R == BagRemove(net, m)
<1>1. IsABag(net) /\ m \in DOMAIN net
  BY DEF NetInv, NetTypeOK, BagToSet
<1>2. /\ DOMAIN R \subseteq DOMAIN net /\ DOMAIN net \ {m} \subseteq DOMAIN R
      /\ \A y \in DOMAIN net \ {m} : R[y] = net[y]
      /\ net[m] = 1 => m \notin DOMAIN R
  BY <1>1, RemovedBag
<1>3. net' = R /\ sent_to' = sent_to /\ network' = network
  BY DEF Receive
<1> HIDE DEF R
<1> QED BY <1>2, <1>3 DEF Carries, BagToSet

LEMMA AnswerCarries ==
  ASSUME NetInv, NEW m \in BagToSet(net), NEW reply, m # reply, Answer(m, reply)
  PROVE  Carries({m}, {reply})
<1> DEFINE R == BagRemove(net, m)
<1>1. IsABag(net) /\ m \in DOMAIN net
  BY DEF NetInv, NetTypeOK, BagToSet
<1>2. /\ IsABag(R) /\ DOMAIN R \subseteq DOMAIN net /\ DOMAIN net \ {m} \subseteq DOMAIN R
      /\ \A y \in DOMAIN net \ {m} : R[y] = net[y]
      /\ net[m] = 1 => m \notin DOMAIN R
  BY <1>1, RemovedBag
<1>3. /\ net' = BagAdd(R, reply)
      /\ sent_to' = sent_to \cup (IF Server \in {reply.from, reply.to} THEN {} ELSE {<<reply.from, reply.to>>})
      /\ network' = network
  BY DEF Answer, Remember
<1> HIDE DEF R
<1>4. /\ DOMAIN net' = DOMAIN R \cup {reply}
      /\ \A y \in DOMAIN R \ {reply} : net'[y] = R[y]
      /\ reply \notin DOMAIN R => net'[reply] = 1
  BY <1>2, <1>3, BagAdded
<1>5. sent_to' = sent_to \cup {<<j.from, j.to>> : j \in {i \in {reply} : Server \notin {i.from, i.to}}}
  BY <1>3
<1> QED BY <1>2, <1>3, <1>4, <1>5 DEF Carries, BagToSet

-----------------------------------------------------------------------------
\* Facts about the datagrams there are.

Context == IInv /\ PlacesInv /\ First /\ N # 0

LEMMA Places ==
  ASSUME EndsInv, PlacesInv
  PROVE  /\ N \in Nat /\ K \in Nat
         /\ \A s \in Streams : p2p[Initiator][s] \in P2Ps /\ p2p[Acceptor][s] \in P2Ps
         /\ \A s \in Streams : p2p[Initiator][s].sock <= N /\ p2p[Acceptor][s].sock <= K
         /\ pc[Initiator] \notin {"idle", "between"} =>
              /\ Sock(Initiator) = Ini(N) /\ Current(Initiator).sock = N /\ N # 0
         /\ pc[Acceptor] # "idle" =>
              /\ Sock(Acceptor) = Acc(K) /\ Current(Acceptor).sock = K
         /\ pc[Acceptor] \notin {"idle", "between"} => K # 0
<1> USE Names
<1>1. /\ N \in Nat /\ K \in Nat
      /\ \A s \in Streams : p2p[Initiator][s] \in P2Ps /\ p2p[Acceptor][s] \in P2Ps
      /\ \A s \in Streams : p2p[Initiator][s].sock <= N /\ p2p[Acceptor][s].sock <= K
  BY DEF EndsInv, N, K
<1>2. \A e \in Ends : pc[e] \notin {"idle", "between"} =>
        Current(e).sock = opened[e] /\ Current(e).sock # 0
  BY DEF EndsInv, PlacesInv, PlaceInv
<1>3. pc[Acceptor] = "between" => Current(Acceptor).sock = K
  BY DEF PlacesInv, AcceptorPlaceInv
<1> QED BY <1>1, <1>2, <1>3 DEF Sock, Ini, Acc, N, K

LEMMA SocketNames ==
  /\ \A i, j : /\ Ini(i) # Acc(j) /\ Acc(i) # Ini(j) /\ Ini(i) # Server /\ Acc(i) # Server
               /\ Ini(i) # NoSocket /\ Acc(i) # NoSocket
               /\ (Ini(i) = Ini(j) => i = j) /\ (Acc(i) = Acc(j) => i = j)
  /\ \A i : Ini(i)[1] = Initiator /\ Acc(i)[1] = Acceptor
  /\ Initiator # Acceptor /\ Server # NoSocket
  /\ Server[1] # Initiator /\ Server[1] # Acceptor
BY DEF Ini, Acc, Server, NoSocket, Initiator, Acceptor

LEMMA InItsRange == ASSUME NEW k \in Nat, k # 0 PROVE k \in Nat \ {0} /\ k \in 1..k
OBVIOUS

\* What a datagram is, by its two sides.
Kinds(m) ==
  /\ m.to = Server =>
       \/ \E j \in 1..N : m.from = Ini(j) /\ m.text \in {"CONNECT", "PING", "HANGUP"}
       \/ \E j \in 1..K : m.from = Acc(j) /\ m.text = "ACCEPT"
  /\ m.from = Server =>
       \/ \E j \in 1..N : m.to = Ini(j) /\ m.text \in Codes
       \/ \E j \in 1..K : m.to = Acc(j) /\ m.text \in {"201", "203", "307"}
  /\ m.from # Server /\ m.to # Server =>
       /\ m.text = "200" /\ <<m.from, m.to>> \in sent_to
       /\ \/ \E j \in 1..N : m.from = Ini(j) /\ m.to[1] = Acceptor
          \/ \E j \in 1..K : m.from = Acc(j) /\ m.to[1] = Initiator
  /\ ~ (m.from = Server /\ m.to = Server)

LEMMA Kind ==
  ASSUME EndsInv, NEW m \in Datagram, DatagramInv(m)
  PROVE  Kinds(m)
<1> USE Names
<1>1. ASSUME NEW a \in Socket, a[2] <= opened[a[1]]
      PROVE  \/ a[1] = Initiator /\ \E j \in 1..N : a = Ini(j)
             \/ a[1] = Acceptor /\ \E j \in 1..K : a = Acc(j)
  <2>1. a \in Ends \X (Nat \ {0}) /\ a = <<a[1], a[2]>> /\ a[1] \in Ends /\ a[2] \in Nat \ {0}
    BY <1>1 DEF Socket
  <2>2. opened[a[1]] \in Nat /\ a[2] \in 1..opened[a[1]]
    BY <1>1, <2>1 DEF EndsInv
  <2>3. a[1] = Initiator \/ a[1] = Acceptor
    BY <2>1
  <2> QED BY <2>1, <2>2, <2>3 DEF Ini, Acc, N, K
<1>2. m.from \in Socket \cup {Server} /\ m.to \in Socket \cup {Server} /\ m.text \in Commands \cup Codes
  BY DEF Datagram
<1>4. CASE m.from # Server /\ m.to = Server
  <2>1. /\ m.text \in Commands /\ m.from \in Socket /\ m.from[2] <= opened[m.from[1]]
        /\ m.from[1] = (IF m.text = "ACCEPT" THEN Acceptor ELSE Initiator)
    BY <1>2, <1>4 DEF DatagramInv
  <2>2. CASE m.text = "ACCEPT"
    BY <1>1, <1>4, <2>1, <2>2 DEF Kinds
  <2>3. CASE m.text # "ACCEPT"
    BY <1>1, <1>4, <2>1, <2>3 DEF Kinds, Commands
  <2> QED BY <2>2, <2>3
<1>5. CASE m.from # Server /\ m.to # Server
  <2>1. /\ m.text = "200" /\ m.from \in Socket /\ m.from[2] <= opened[m.from[1]]
        /\ m.to[1] = Other(m.from[1]) /\ <<m.from, m.to>> \in sent_to
    BY <1>2, <1>5 DEF DatagramInv
  <2> QED BY <1>1, <1>5, <2>1 DEF Kinds
<1>6. CASE m.from = Server
  <2>1. /\ m.to # Server /\ m.text \in Codes /\ m.to \in Socket /\ m.to[2] <= opened[m.to[1]]
        /\ m.text \in {"200", "306"} => m.to[1] = Initiator
    BY <1>2, <1>6 DEF DatagramInv
  <2>2. m.to[1] = Acceptor => m.text \in {"201", "203", "307"}
    BY <2>1 DEF Codes
  <2> QED BY <1>1, <1>6, <2>1, <2>2 DEF Kinds
<1> QED BY <1>4, <1>5, <1>6

LEMMA AllKinds ==
  ASSUME EndsInv, NetInv PROVE \A m \in BagToSet(net) : Kinds(m)
BY Kind DEF NetInv, NetTypeOK

\* What the acceptor reads.
LEMMA AcceptorReads ==
  ASSUME Context, pc[Acceptor] \in {"accept", "await 200"}, NEW m \in BagToSet(net), CanRead(Acceptor, m)
  PROVE  /\ m.to = Acc(K)
         /\ pc[Acceptor] = "accept" =>
              /\ m.from = Server /\ net[m] = 1 /\ m.text \in {"201", "203", "307"}
              /\ \A j \in BagToSet(net) : Exchange(j, Acc(K)) => j = m
         /\ pc[Acceptor] = "await 200" =>
              m.text = "200" /\ K \in {1, 2} /\ m.from = Ini(K) /\ Sent(K)
<1>1. m.to = Acc(K) /\ K \in Nat \ {0} /\ K \in 1..K /\ Kinds(m)
  <2>1. m.to = Sock(Acceptor)
    BY DEF CanRead, Readable
  <2>2. Sock(Acceptor) = Acc(K) /\ K \in Nat /\ K # 0
    BY Places DEF Context, IInv
  <2>3. Kinds(m)
    BY AllKinds DEF Context, IInv
  <2>4. K \in Nat \ {0} /\ K \in 1..K
    BY <2>2, InItsRange
  <2> QED BY <2>1, <2>2, <2>3, <2>4
<1> USE SocketNames
<1>2. CASE m.from = Server
  <2>1. Exchange(m, Acc(K))
    BY <1>1, <1>2 DEF Exchange
  <2>2. /\ pc[Acceptor] = "accept" /\ net[m] = 1
        /\ \A j \in BagToSet(net) : Exchange(j, Acc(K)) => j = m
    BY <1>1, <2>1 DEF Context, First, AcceptorAsks
  <2> QED BY <1>1, <1>2, <2>2 DEF Kinds
<1>3. CASE m.from # Server
  <2>1. m.text = "200" /\ <<m.from, m.to>> \in sent_to /\ \E j \in 1..N : m.from = Ini(j)
    BY <1>1, <1>3 DEF Kinds
  <2>2. PICK k \in {1, 2} : m.from = Ini(k) /\ m.to = Acc(k)
    <3> DEFINE p == <<m.from, m.to>>
    <3>1. p \in sent_to /\ p[1] = m.from /\ p[2] = m.to /\ p[1][1] = Initiator
      BY <2>1
    <3> HIDE DEF p
    <3>2. PICK k \in {1, 2} : k <= N /\ p = <<Ini(k), Acc(k)>>
      BY <3>1 DEF Context, First, Numbers
    <3>3. p[1] = Ini(k) /\ p[2] = Acc(k)
      BY <3>2
    <3> QED BY <3>1, <3>3
  <2>3. k = K /\ m.from = Ini(K) /\ Sent(K)
    BY <1>1, <2>1, <2>2 DEF Sent
  <2>4. pc[Acceptor] # "accept"
    BY <2>2, <2>3 DEF Context, First, Follows, Heeds
  <2> QED BY <1>1, <2>1, <2>2, <2>3, <2>4
<1> QED BY <1>2, <1>3

LEMMA InitiatorReads ==
  ASSUME Context, pc[Initiator] \notin {"idle", "between"}, NEW m \in BagToSet(net), CanRead(Initiator, m)
  PROVE  /\ m.to = Ini(N)
         /\ \/ m.from = Server /\ m.text \in Codes
            \/ m.from # Server /\ m.text = "200"
<1>1. m.to = Ini(N) /\ Kinds(m)
  <2>1. m.to = Sock(Initiator)
    BY DEF CanRead, Readable
  <2> QED BY <2>1, Places, AllKinds DEF Context, IInv
<1> QED BY <1>1, SocketNames DEF Kinds

-----------------------------------------------------------------------------
\* What stays as it is when the initiator has nothing to do with a step.

Talks(m, e) == (m.from = Server /\ m.to[1] = e) \/ (m.to = Server /\ m.from[1] = e)
TalkStays(e) ==
  \A m : Talks(m, e) =>
    (m \in BagToSet(net') <=> m \in BagToSet(net)) /\ (m \in BagToSet(net) => net'[m] = net[m])

EndStays(e) ==
  pc'[e] = pc[e] /\ p2p'[e] = p2p[e] /\ stream'[e] = stream[e] /\ opened'[e] = opened[e]

SentStays == \A p : p[1][1] = Initiator => (p \in sent_to' <=> p \in sent_to)

LEMMA TalkKept ==
  ASSUME NEW e \in Ends, NEW gone, NEW new, Carries(gone, new), gone \subseteq BagToSet(net),
         \A m \in gone \cup new : ~ Talks(m, e)
  PROVE  TalkStays(e)
BY DEF Carries, TalkStays

LEMMA SentKept ==
  ASSUME NEW gone, NEW new, Carries(gone, new),
         \A m \in new : Server \in {m.from, m.to} \/ m.from[1] # Initiator
  PROVE  SentStays
<1>1. ASSUME NEW p, p[1][1] = Initiator, p \in sent_to' PROVE p \in sent_to
  <2>1. ASSUME NEW m \in new, Server \notin {m.from, m.to}, p = <<m.from, m.to>>
        PROVE  FALSE
    BY <1>1, <2>1
  <2> QED BY <1>1, <2>1 DEF Carries
<1> QED BY <1>1 DEF SentStays, Carries

LEMMA InitiatorEndKept ==
  ASSUME EndStays(Initiator), SentStays
  PROVE  /\ N' = N /\ \A k : (Sent(k)' <=> Sent(k))
         /\ (Alive' <=> Alive) /\ (Trying' <=> Trying)
         /\ Numbers => Numbers'
<1>1. N' = N
  BY DEF EndStays, N
<1>2. ASSUME NEW k PROVE (Sent(k)' <=> Sent(k))
  <2>1. <<Ini(k), Acc(k)>>[1][1] = Initiator
    BY SocketNames
  <2>2. Ini(k)' = Ini(k) /\ Acc(k)' = Acc(k)
    BY DEF Ini, Acc
  <2> QED BY <2>1, <2>2 DEF Sent, SentStays
<1>3. (Alive' <=> Alive) /\ (Trying' <=> Trying)
  BY DEF EndStays, Alive, Trying, Current
<1>4. Numbers => Numbers'
  <2> SUFFICES ASSUME Numbers PROVE Numbers'
    OBVIOUS
  <2>1. ASSUME NEW p \in sent_to', p[1][1] = Initiator
        PROVE  \E k \in {1, 2} : k <= N /\ p = <<Ini(k), Acc(k)>>
    BY <2>1 DEF SentStays, Numbers
  <2> QED BY <1>1, <1>2, <2>1 DEF Numbers, EndStays, Ini, Acc
<1> QED BY <1>1, <1>2, <1>3, <1>4

LEMMA InitiatorKept ==
  ASSUME EndStays(Initiator), SentStays, TalkStays(Initiator)
  PROVE  /\ N' = N /\ \A k : (Sent(k)' <=> Sent(k))
         /\ (Alive' <=> Alive) /\ (Trying' <=> Trying)
         /\ (Answered' <=> Answered)
         /\ Numbers => Numbers'
<1>1. /\ N' = N /\ \A k : (Sent(k)' <=> Sent(k))
      /\ (Alive' <=> Alive) /\ (Trying' <=> Trying)
      /\ Numbers => Numbers'
  BY InitiatorEndKept
<1>2. Answered' <=> Answered
  <2>1. \A m : Answers(m) => Talks(m, Initiator)
    BY SocketNames DEF Answers, Talks
  <2>2. \A m : Answers(m)' <=> Answers(m)
    BY <1>1 DEF Answers, Ini
  <2> QED BY <2>1, <2>2 DEF Answered, TalkStays
<1> QED BY <1>1, <1>2

\* What is between the initiator and the server.
LEMMA InitiatorTalkKept ==
  ASSUME Context, NetInv', EndsInv', EndStays(Initiator), SentStays, TalkStays(Initiator)
  PROVE  /\ InitiatorAsks' /\ (NoConnect => NoConnect')
         /\ \A m \in BagToSet(net') : Is(m, "CONNECT") => m \in BagToSet(net) /\ net'[m] = net[m]
         /\ request' = request => RequestIs'
<1> USE SocketNames
<1>1. /\ N' = N /\ \A k : (Sent(k)' <=> Sent(k))
      /\ (Alive' <=> Alive) /\ (Trying' <=> Trying)
      /\ (Answered' <=> Answered)
  BY InitiatorKept
<1>2. \A m \in BagToSet(net') : Kinds(m)'
  <2>1. ASSUME NEW m \in BagToSet(net') PROVE m \in Datagram /\ DatagramInv(m)'
    BY <2>1 DEF NetInv, NetTypeOK
  <2>2. ASSUME NEW m \in Datagram, EndsInv', DatagramInv(m)' PROVE Kinds(m)'
    BY <2>2, Kind, PTL
  <2> QED BY <2>1, <2>2
<1>3. ASSUME NEW m \in BagToSet(net'), Is(m, "CONNECT") \/ Is(m, "PING") \/ Is(m, "HANGUP")
      PROVE  m \in BagToSet(net) /\ net'[m] = net[m]
  <2>1. Talks(m, Initiator)
    <3>1. Kinds(m)' /\ m.to = Server /\ m.text # "ACCEPT"
      BY <1>2, <1>3 DEF Is
    <3>2. m.from[1] = Initiator
      BY <3>1 DEF Kinds, Ini, Acc
    <3> QED BY <3>1, <3>2 DEF Talks
  <2> QED BY <2>1 DEF TalkStays
<1>4. \A m : Exchange(m, Ini(N)) \/ Pings(m, Ini(N)) \/ Answers(m) => Talks(m, Initiator)
  BY DEF Exchange, Pings, Talks, Is, Answers
<1>5. pc'[Initiator] = pc[Initiator]
  BY DEF EndStays
<1>6. InitiatorAsks'
  <2>1. InitiatorAsks
    BY DEF Context, First
  <2>2. ASSUME NEW m \in BagToSet(net'), Is(m, "PING") PROVE m.from = Ini(N)
    BY <1>3, <2>1, <2>2 DEF InitiatorAsks
  <2>3. ASSUME pc[Initiator] \in {"connect", "ping"}
        PROVE  \E m \in BagToSet(net') : Exchange(m, Ini(N))
    BY <1>4, <2>1, <2>3 DEF InitiatorAsks, TalkStays
  <2>4. ASSUME pc[Initiator] = "ping", NEW m \in BagToSet(net'), Pings(m, Ini(N))
        PROVE  net'[m] = 1 /\ \A j \in BagToSet(net') : Pings(j, Ini(N)) => j = m
    BY <1>4, <2>1, <2>4 DEF InitiatorAsks, TalkStays
  <2>5. ASSUME Alive, pc[Initiator] # "ping", NEW m \in BagToSet(net') PROVE ~ Pings(m, Ini(N))
    BY <1>4, <2>1, <2>5 DEF InitiatorAsks, TalkStays
  <2>6. ASSUME Alive, NEW m \in BagToSet(net') PROVE ~ Is(m, "HANGUP")
    BY <1>3, <2>1, <2>6 DEF InitiatorAsks
  <2>7. \A m : /\ (Is(m, "PING")' <=> Is(m, "PING")) /\ (Is(m, "HANGUP")' <=> Is(m, "HANGUP"))
               /\ (Exchange(m, Ini(N))' <=> Exchange(m, Ini(N)))
               /\ (Pings(m, Ini(N))' <=> Pings(m, Ini(N)))
               /\ Ini(N)' = Ini(N)
    BY <1>1 DEF Is, Exchange, Pings, Ini
  <2> QED BY <1>1, <1>5, <2>2, <2>3, <2>4, <2>5, <2>6, <2>7 DEF InitiatorAsks
<1>7. NoConnect => NoConnect'
  BY <1>3 DEF NoConnect, Is
<1>8. ASSUME request' = request PROVE RequestIs'
  <2>1. RequestIs
    BY DEF Context, First
  <2>2. ~ NoConnect => ~ NoConnect'
    <3>1. SUFFICES ASSUME NEW m \in BagToSet(net), Is(m, "CONNECT") PROVE ~ NoConnect'
      BY DEF NoConnect
    <3>2. Kinds(m) /\ m.to = Server /\ m.text # "ACCEPT"
      BY <3>1, AllKinds DEF Is, Context, IInv
    <3>3. Talks(m, Initiator)
      BY <3>2 DEF Kinds, Talks
    <3>4. m \in BagToSet(net')
      BY <3>1, <3>3 DEF TalkStays
    <3> QED BY <3>1, <3>4 DEF NoConnect, Is
  <2>3. ASSUME NEW m \in BagToSet(net'), Answers(m) PROVE m \in BagToSet(net)
    BY <1>4, <2>3 DEF TalkStays
  <2>4. \A m : Answers(m)' <=> Answers(m)
    BY <1>1 DEF Answers, Ini
  <2>5. Sent(N)' <=> Sent(N)
    BY <1>1 DEF Sent, Ini, Acc
  <2>6. Ini(N)' = Ini(N) /\ Acc(N)' = Acc(N)
    BY <1>1 DEF Ini, Acc
  <2>7. request' # NoRequest => request'.address = Ini(N)
    BY <1>8, <2>1 DEF RequestIs
  <2>8. Trying => \/ ~ NoConnect'
                  \/ request' # NoRequest /\ request'.peer_address \in {NoSocket, Acc(N)} /\ ~ Answered
                  \/ request' = NoRequest /\ pc[Initiator] = "ping" /\ Answered
    BY <1>8, <2>1, <2>2 DEF RequestIs
  <2>9. /\ Alive => \A m \in BagToSet(net') : Answers(m) => m.address = Acc(N)
        /\ Alive /\ ~ Trying => request' = NoRequest
        /\ N # 0 /\ Sent(N) => request' = NoRequest /\ NoConnect'
    BY <1>7, <1>8, <2>1, <2>3 DEF RequestIs
  <2> QED BY <1>1, <1>5, <2>4, <2>5, <2>6, <2>7, <2>8, <2>9 DEF RequestIs
<1> QED BY <1>3, <1>6, <1>7, <1>8

-----------------------------------------------------------------------------
\* What stays as it is when the acceptor has nothing to do with a step.

LEMMA AcceptorKept ==
  ASSUME AcceptorAsks, AcceptorNumbers, EndStays(Acceptor), TalkStays(Acceptor)
  PROVE  /\ K' = K /\ AcceptorAsks'
         /\ SentStays => AcceptorNumbers'
<1> USE SocketNames
<1>1. K' = K /\ pc'[Acceptor] = pc[Acceptor] /\ p2p'[Acceptor] = p2p[Acceptor]
  BY DEF EndStays, K
<1>2. \A m, k : Exchange(m, Acc(k)) => Talks(m, Acceptor)
  BY DEF Exchange, Talks
<1>3. AcceptorAsks'
  <2>1. ASSUME NEW m \in BagToSet(net'), NEW k \in 1..K, Exchange(m, Acc(k))
        PROVE  /\ pc[Acceptor] = "accept" /\ k = K /\ net'[m] = 1
               /\ \A j \in BagToSet(net') : Exchange(j, Acc(K)) => j = m
    <3>1. m \in BagToSet(net) /\ net'[m] = net[m]
      BY <1>2, <2>1 DEF TalkStays
    <3>2. /\ pc[Acceptor] = "accept" /\ k = K /\ net[m] = 1
          /\ \A j \in BagToSet(net) : Exchange(j, Acc(K)) => j = m
      BY <2>1, <3>1 DEF AcceptorAsks
    <3> QED BY <1>2, <3>1, <3>2 DEF TalkStays
  <2>2. ASSUME pc[Acceptor] = "accept" PROVE \E m \in BagToSet(net') : Exchange(m, Acc(K))
    <3>1. PICK m \in BagToSet(net) : Exchange(m, Acc(K))
      BY <2>2 DEF AcceptorAsks
    <3> QED BY <1>2, <3>1 DEF TalkStays
  <2> QED BY <1>1, <2>1, <2>2 DEF AcceptorAsks, Exchange, Acc
<1>4. ASSUME SentStays PROVE AcceptorNumbers'
  <2>1. \A k : Sent(k)' <=> Sent(k)
    <3> TAKE k
    <3>1. <<Ini(k), Acc(k)>>[1][1] = Initiator
      OBVIOUS
    <3>2. Ini(k)' = Ini(k) /\ Acc(k)' = Acc(k)
      BY DEF Ini, Acc
    <3> QED BY <1>4, <3>1, <3>2 DEF Sent, SentStays
  <2>2. ASSUME NEW m \in BagToSet(net'), m.from = Server, m.text = "201"
        PROVE  /\ m.to = Acc(1) => m.address = Ini(1)
               /\ m.to = Acc(2) /\ p2p[Acceptor]["video"].sock = 2 => m.address = Ini(2)
    <3>1. ASSUME m.to = Acc(1) \/ m.to = Acc(2) PROVE m \in BagToSet(net)
      BY <2>2, <3>1 DEF Talks, TalkStays
    <3> QED BY <2>2, <3>1 DEF AcceptorNumbers
  <2> QED BY <1>1, <2>1, <2>2 DEF AcceptorNumbers, Ini, Acc
<1> QED BY <1>1, <1>3, <1>4

\* The message that the acceptor heeds gets through to it.
LEMMA HeededPasses ==
  ASSUME Context, NEW k \in {1, 2}, Sent(k), K = k, pc[Acceptor] = "await 200",
         NEW m \in BagToSet(net), m.from = Ini(k), m.to = Acc(k)
  PROVE  CanRead(Acceptor, m)
<1>1. /\ Sock(Acceptor) = Acc(k) /\ Current(Acceptor).sock = k
      /\ stream[Acceptor] \in Streams
  BY Places, Names DEF Context, IInv, EndsInv
<1>2. Current(Acceptor).status = "Accepted" /\ Current(Acceptor).peer # NoSocket
  <2>1. Current(Acceptor).status = "Accepted" /\ PlaceInv(Acceptor)
    BY Names DEF Context, PlacesInv, PlaceInv
  <2> QED BY <1>1, <2>1 DEF PlaceInv, Current
<1>3. Current(Acceptor).peer = Ini(k)
  <2>1. AcceptorNumbers /\ Numbers
    BY DEF Context, First
  <2>2. Sent(1)
    BY <2>1 DEF Numbers
  <2>3. CASE stream[Acceptor] = "audio"
    <3>1. k = 1
      BY <1>1, <2>1, <2>2, <2>3 DEF AcceptorNumbers, Current
    <3> QED BY <1>1, <1>2, <2>1, <2>3, <3>1 DEF AcceptorNumbers, Current
  <2>4. CASE stream[Acceptor] = "video"
    <3>1. k = 2
      BY <1>1, <2>1, <2>4 DEF AcceptorNumbers, Current
    <3> QED BY <1>1, <1>2, <2>1, <2>4, <3>1 DEF AcceptorNumbers, Current
  <2> QED BY <1>1, <2>3, <2>4 DEF Streams
<1>4. network = "LOCAL" \/ <<Acc(k), Ini(k)>> \in sent_to
  <2>1. PlaceInv(Acceptor)
    BY Names DEF Context, PlacesInv
  <2> QED BY <1>1, <1>3, <2>1 DEF PlaceInv
<1> QED BY <1>1, <1>4 DEF CanRead, Readable, Passes

\* The acceptor still hears the initiator.
LEMMA FollowsKept ==
  ASSUME Follows, K' = K, pc'[Acceptor] = pc[Acceptor], SentStays,
         NEW gone, NEW new, Carries(gone, new),
         \A m \in gone : \A k \in {1, 2} :
           m.from = Ini(k) /\ m.to = Acc(k) => ~ (Sent(k) /\ K = k /\ pc[Acceptor] = "await 200")
  PROVE  Follows'
<1>1. \A k : Sent(k)' <=> Sent(k)
  <2> TAKE k
  <2>1. <<Ini(k), Acc(k)>>[1][1] = Initiator
    BY SocketNames
  <2>2. Ini(k)' = Ini(k) /\ Acc(k)' = Acc(k)
    BY DEF Ini, Acc
  <2> QED BY <2>1, <2>2 DEF Sent, SentStays
<1>2. ASSUME NEW k \in {1, 2}, Sent(k), K = k, Heeds(k) PROVE Heeds(k)'
  <2>1. PICK m \in BagToSet(net) : m.from = Ini(k) /\ m.to = Acc(k)
    BY <1>2 DEF Heeds
  <2>2. pc[Acceptor] = "await 200"
    BY <1>2 DEF Heeds
  <2>3. m \in BagToSet(net')
    BY <1>2, <2>1, <2>2 DEF Carries
  <2> QED BY <2>1, <2>2, <2>3 DEF Heeds, Ini, Acc
<1> QED BY <1>1, <1>2 DEF Follows

\* Nobody comes to know a socket of the initiator.
LEMMA UnknownKept ==
  ASSUME NEW n, Unknown(n), NEW gone, NEW new, Carries(gone, new),
         \A m \in new : m.address # Ini(n) /\ m.to # Ini(n) /\ (m.to # Server => m.from # Ini(n)),
         \A s \in Streams : p2p'[Acceptor][s].peer # Ini(n), request'.address # Ini(n)
  PROVE  Unknown(n)'
<1>1. \A m \in BagToSet(net') : m.address # Ini(n) /\ m.to # Ini(n)
  BY DEF Unknown, Carries
<1>2. ASSUME NEW p \in sent_to' PROVE p[1] # Ini(n) /\ p[2] # Ini(n)
  <2>1. CASE p \in sent_to
    BY <2>1 DEF Unknown
  <2>2. ASSUME NEW m \in new, Server \notin {m.from, m.to}, p = <<m.from, m.to>>
        PROVE  p[1] # Ini(n) /\ p[2] # Ini(n)
    BY <2>2
  <2> QED BY <1>2, <2>1, <2>2 DEF Carries
<1> QED BY <1>1, <1>2 DEF Unknown, Ini

-----------------------------------------------------------------------------
\* Where the ends are, after a step.

\* Only end e does something, to the P2P it is setting up, and goes to another place.
Alters(e, p, place) ==
  /\ EndStays(Other(e)) /\ stream'[e] = stream[e] /\ opened'[e] = opened[e]
  /\ pc'[e] = place /\ p2p'[e][stream[e]] = p
  /\ \A s \in Streams \ {stream[e]} : p2p'[e][s] = p2p[e][s]

LEMMA SetAlters ==
  ASSUME EndsInv, NEW e \in Ends, NEW p, NEW place, Goto(e, place), UNCHANGED <<stream, opened>>,
         Set(e, p) \/ (UNCHANGED p2p /\ p = Current(e))
  PROVE  Alters(e, p, place)
<1>1. /\ stream[e] \in Streams /\ p2p \in [Ends -> [Streams -> P2Ps]] /\ pc \in [Ends -> PCs]
      /\ Other(e) \in Ends /\ Other(e) # e
  BY SocketsOfAnEnd DEF EndsInv
<1>2. pc'[e] = place /\ pc'[Other(e)] = pc[Other(e)]
  BY <1>1 DEF Goto
<1> HIDE DEF P2Ps
<1>3. CASE Set(e, p)
  <2> DEFINE row == [p2p[e] EXCEPT ![stream[e]] = p]
  <2>1. p2p' = [p2p EXCEPT ![e] = row]
    BY <1>3 DEF Set
  <2>2. row[stream[e]] = p /\ \A s \in Streams \ {stream[e]} : row[s] = p2p[e][s]
    BY <1>1
  <2> HIDE DEF row
  <2> QED BY <1>1, <1>2, <2>1, <2>2 DEF Alters, EndStays
<1>4. CASE UNCHANGED p2p /\ p = Current(e)
  BY <1>1, <1>2, <1>4 DEF Current, Alters, EndStays
<1> QED BY <1>3, <1>4

\* A failed end, and its P2P.
FailedTo(e, p, place) ==
  \/ e = Acceptor /\ stream[e] = "video" /\ place = "throttle" /\ p = [Current(e) EXCEPT !.status = "Error"]
  \/ e = Acceptor /\ stream[e] = "audio" /\ place = "idle" /\ p = Null
  \/ e = Initiator /\ place = (IF stream[e] = "audio" THEN "idle" ELSE "between") /\ p = Null

LEMMA FailedAlters ==
  ASSUME EndsInv, NEW e \in Ends, Failed(e), UNCHANGED <<stream, opened>>
  PROVE  \E p, place : Alters(e, p, place) /\ FailedTo(e, p, place)
<1>1. stream[e] \in Streams /\ (e = Initiator \/ e = Acceptor) /\ Initiator # Acceptor
  BY Names DEF EndsInv
<1>2. CASE e = Acceptor /\ stream[e] = "video"
  <2>1. Goto(e, "throttle") /\ Set(e, [Current(e) EXCEPT !.status = "Error"])
    BY <1>2 DEF Failed
  <2>2. Alters(e, [Current(e) EXCEPT !.status = "Error"], "throttle")
    BY <2>1, SetAlters
  <2> QED BY <1>2, <2>2 DEF FailedTo
<1>3. CASE ~ (e = Acceptor /\ stream[e] = "video")
  <2>1. Goto(e, IF stream[e] = "audio" THEN "idle" ELSE "between") /\ Set(e, Null)
    BY <1>3 DEF Failed
  <2>2. Alters(e, Null, IF stream[e] = "audio" THEN "idle" ELSE "between")
    BY <2>1, SetAlters
  <2> QED BY <1>1, <1>3, <2>2 DEF FailedTo, Streams
<1> QED BY <1>2, <1>3

Fits(e, p, place) ==
  /\ place \notin {"idle", "between"} => p.sock = opened[e]
  /\ place \in {"handshake", "await 200", "retry"} => p.status = "Accepted"
  /\ place = "retry" => ~ req'[e].valid
  /\ p.status \in {"Accepted", "Connected"} => p.peer # NoSocket /\ p.network_type = network
  /\ place = "await 200" => network = "LOCAL" \/ <<<<e, p.sock>>, p.peer>> \in sent_to'
  /\ e = Initiator =>
       /\ place \notin {"accept", "throttle"}
       /\ place = "pinged" => p.status \in {"Awaiting", "Accepted", "Error"}
       /\ place = "hangup" => m_hangup'
       /\ place = "between" /\ stream[e] = "audio" /\ ~ m_hangup' => p.status = "Connected"
  /\ e = Acceptor =>
       /\ place \notin {"connect", "ping", "pinged", "hangup", "give up"}
       /\ place = "throttle" => stream[e] = "video"
       /\ place = "between" => p.status = "Connected" /\ p.sock = K
       /\ m_hangup' = m_hangup

LEMMA PlaceStays ==
  ASSUME NEW d \in Ends, PlaceInv(d), EndStays(d), req'[d] = req[d],
         network' = network, sent_to \subseteq sent_to'
  PROVE  PlaceInv(d)'
BY DEF PlaceInv, EndStays, Current, Sock

LEMMA InitiatorPlaces ==
  ASSUME pc'[Initiator] \notin {"accept", "throttle"},
         pc'[Initiator] = "pinged" => Current(Initiator)'.status \in {"Awaiting", "Accepted", "Error"},
         pc'[Initiator] = "hangup" => m_hangup',
         pc'[Initiator] = "between" /\ stream'[Initiator] = "audio" /\ ~ m_hangup' =>
           Current(Initiator)'.status = "Connected",
         calls'[Initiator] = 0 => N' = 0
  PROVE  InitiatorPlaceInv'
BY DEF InitiatorPlaceInv

LEMMA InitiatorPlaceStays ==
  ASSUME InitiatorPlaceInv, EndStays(Initiator), m_hangup' = m_hangup, calls'[Initiator] = calls[Initiator]
  PROVE  InitiatorPlaceInv'
BY DEF InitiatorPlaceInv, EndStays, Current, N

LEMMA PlacesMove ==
  ASSUME EndsInv, PlacesInv, NEW e \in Ends, NEW p, NEW place, Alters(e, p, place),
         req'[Other(e)] = req[Other(e)], network' = network, sent_to \subseteq sent_to',
         calls'[Initiator] = calls[Initiator], Fits(e, p, place)
  PROVE  PlacesInv'
<1>1. /\ stream'[e] = stream[e] /\ stream[e] \in Streams /\ opened'[e] = opened[e]
      /\ pc'[e] = place /\ p2p'[e][stream[e]] = p
      /\ \A s \in Streams \ {stream[e]} : p2p'[e][s] = p2p[e][s]
  BY DEF Alters, EndsInv
<1>2. PlaceInv(e)'
  <2>1. PlaceInv(e)
    BY DEF PlacesInv
  <2>2. ASSUME NEW s \in Streams, p2p'[e][s].status \in {"Accepted", "Connected"}
        PROVE  p2p'[e][s].peer # NoSocket /\ p2p'[e][s].network_type = network
    BY <1>1, <2>1, <2>2 DEF PlaceInv, Fits
  <2> QED BY <1>1, <2>2 DEF PlaceInv, Fits, Current, Sock
<1>3. PlaceInv(Other(e))'
  BY PlaceStays, SocketsOfAnEnd DEF PlacesInv, Alters
<1>4. CASE e = Initiator
  <2>1. EndStays(Acceptor)
    BY <1>4, Names DEF Alters
  <2>2. InitiatorPlaceInv'
    <3>1. /\ place \notin {"accept", "throttle"}
          /\ place = "pinged" => p.status \in {"Awaiting", "Accepted", "Error"}
          /\ place = "hangup" => m_hangup'
          /\ place = "between" /\ stream[Initiator] = "audio" /\ ~ m_hangup' => p.status = "Connected"
      BY <1>4 DEF Fits
    <3>2. /\ pc'[Initiator] = place /\ Current(Initiator)' = p
          /\ stream'[Initiator] = stream[Initiator] /\ opened'[Initiator] = opened[Initiator]
      BY <1>1, <1>4 DEF Current
    <3>3. calls[Initiator] = 0 => opened[Initiator] = 0
      BY DEF PlacesInv, InitiatorPlaceInv, N
    <3>4. N' = opened'[Initiator] /\ calls'[Initiator] = calls[Initiator]
      BY DEF N
    <3>5. pc'[Initiator] = "hangup" => m_hangup'
      BY <3>1, <3>2
    <3>6. pc'[Initiator] = "between" /\ stream'[Initiator] = "audio" /\ ~ m_hangup' =>
            Current(Initiator)'.status = "Connected"
      BY <3>1, <3>2
    <3>7. calls'[Initiator] = 0 => N' = 0
      BY <3>2, <3>3, <3>4
    <3>8. pc'[Initiator] \notin {"accept", "throttle"}
      BY <3>1, <3>2
    <3>9. pc'[Initiator] = "pinged" => Current(Initiator)'.status \in {"Awaiting", "Accepted", "Error"}
      BY <3>1, <3>2
    <3> QED BY <3>5, <3>6, <3>7, <3>8, <3>9, InitiatorPlaces
  <2>3. AcceptorPlaceInv'
    BY <2>1 DEF PlacesInv, AcceptorPlaceInv, EndStays, Current, K
  <2> QED BY <1>2, <1>3, <1>4, <2>2, <2>3, Names DEF PlacesInv
<1>5. CASE e = Acceptor
  <2>1. EndStays(Initiator)
    BY <1>5, Names DEF Alters
  <2>2. AcceptorPlaceInv'
    BY <1>1, <1>5 DEF PlacesInv, AcceptorPlaceInv, Fits, Current, K
  <2>3. InitiatorPlaceInv'
    <3>1. m_hangup' = m_hangup
      BY <1>5 DEF Fits
    <3>2. InitiatorPlaceInv
      BY DEF PlacesInv
    <3> QED BY <2>1, <3>1, <3>2, InitiatorPlaceStays
  <2> QED BY <1>2, <1>3, <1>5, <2>2, <2>3, Names DEF PlacesInv
<1> QED BY <1>4, <1>5, Names

\* Nobody fails to fit.
LEMMA FailedFits ==
  ASSUME EndsInv, PlacesInv, NEW e \in Ends, pc[e] \notin {"idle", "between"},
         NEW p, NEW place, FailedTo(e, p, place), m_hangup' = m_hangup
  PROVE  Fits(e, p, place)
<1>1. Current(e) \in P2Ps /\ Current(e).sock = opened[e]
  BY SockIs DEF PlacesInv, PlaceInv
<1>2. stream[e] \in Streams /\ "audio" # "video"
  BY DEF EndsInv
<1>3. CASE place = "throttle"
  <2>1. p = [Current(e) EXCEPT !.status = "Error"] /\ e = Acceptor /\ stream[e] = "video"
    BY <1>3 DEF FailedTo
  <2>2. p.sock = opened[e] /\ p.status = "Error"
    BY <1>1, <2>1 DEF P2Ps
  <2> QED BY <1>3, <2>1, <2>2, Names DEF Fits
<1>4. CASE place # "throttle"
  <2>1. /\ p = Null /\ place \in {"idle", "between"}
        /\ e = Initiator /\ stream[e] = "audio" => place = "idle"
        /\ e = Acceptor => place = "idle"
    BY <1>4, Names DEF FailedTo
  <2>2. p.status = "Idle"
    BY <2>1 DEF Null, P2P
  <2> QED BY <2>1, <2>2 DEF Fits
<1> QED BY <1>3, <1>4

LEMMA FailedPlaces ==
  ASSUME EndsInv, PlacesInv, NEW e \in Ends, pc[e] \notin {"idle", "between"},
         Failed(e), UNCHANGED <<stream, opened>>, m_hangup' = m_hangup,
         req'[Other(e)] = req[Other(e)], network' = network, sent_to \subseteq sent_to',
         calls'[Initiator] = calls[Initiator]
  PROVE  PlacesInv'
<1>1. PICK p, place : Alters(e, p, place) /\ FailedTo(e, p, place)
  BY FailedAlters
<1> QED BY <1>1, FailedFits, PlacesMove

\* Nothing but the status of the P2P of e changes, and where e is.
LEMMA StatusPlaces ==
  ASSUME EndsInv, PlacesInv, NEW e \in Ends, pc[e] \notin {"idle", "between"}, NEW place,
         Goto(e, place), UNCHANGED <<stream, opened>>,
         NEW p \in P2Ps, Set(e, p) \/ (UNCHANGED p2p /\ p = Current(e)), p.sock = Current(e).sock,
         req'[Other(e)] = req[Other(e)], network' = network, sent_to \subseteq sent_to',
         calls'[Initiator] = calls[Initiator],
         p.sock = opened[e] => Fits(e, p, place)
  PROVE  PlacesInv'
<1>1. Alters(e, p, place)
  BY SetAlters
<1>2. p.sock = opened[e]
  BY DEF PlacesInv, PlaceInv
<1> QED BY <1>1, <1>2, PlacesMove

LEMMA ReceiveNet ==
  ASSUME NEW m, Receive(m) PROVE network' = network /\ sent_to \subseteq sent_to'
BY DEF Receive

LEMMA AnswerNet ==
  ASSUME NEW m, NEW r, Answer(m, r) PROVE network' = network /\ sent_to \subseteq sent_to'
BY DEF Answer, Remember

LEMMA SendNet ==
  ASSUME NEW m, NEW n, Send(m, n)
  PROVE  /\ network' = network /\ sent_to \subseteq sent_to'
         /\ Server \notin {m.from, m.to} => <<m.from, m.to>> \in sent_to'
BY DEF Send, Remember

LEMMA ConnectPeerPlaces ==
  ASSUME IInv, PlacesInv, NEW m \in BagToSet(net), ConnectPeer(m)
  PROVE  PlacesInv'
<1> USE Names
<1>1. /\ pc[Initiator] = "connect" /\ UNCHANGED <<stream, opened, req, calls, m_hangup>> /\ EndsInv
  BY DEF ConnectPeer, IInv
<1>2. CASE m.text \in {"200", "306"}
  <2> DEFINE p == [Current(Initiator) EXCEPT !.status = "Awaiting"]
  <2>1. /\ Answer(m, Text(Sock(Initiator), Server, "PING"))
        /\ Goto(Initiator, "ping") /\ Set(Initiator, p)
    BY <1>2 DEF ConnectPeer
  <2>2. Current(Initiator) \in P2Ps
    BY <1>1, SockIs
  <2>3. p \in P2Ps /\ p.sock = Current(Initiator).sock /\ p.status = "Awaiting"
    BY <2>2 DEF P2Ps
  <2> HIDE DEF p
  <2>4. p.sock = opened[Initiator] => Fits(Initiator, p, "ping")
    BY <2>3 DEF Fits
  <2>5. network' = network /\ sent_to \subseteq sent_to'
    BY <2>1, AnswerNet
  <2> QED BY <1>1, <2>1, <2>3, <2>4, <2>5, StatusPlaces
<1>3. CASE m.text \notin {"200", "306"}
  <2>1. Receive(m) /\ Failed(Initiator)
    BY <1>3 DEF ConnectPeer
  <2> QED BY <1>1, <2>1, ReceiveNet, FailedPlaces
<1> QED BY <1>2, <1>3

LEMMA PingPeerPlaces ==
  ASSUME IInv, PlacesInv, NEW m \in BagToSet(net), PingPeer(m)
  PROVE  PlacesInv'
<1> USE Names
<1>1. /\ pc[Initiator] = "ping" /\ UNCHANGED <<stream, opened, req, calls, m_hangup>>
      /\ EndsInv /\ NetInv /\ Goto(Initiator, "pinged") /\ CanRead(Initiator, m)
      /\ network' = network /\ sent_to \subseteq sent_to'
  BY ReceiveNet DEF PingPeer, IInv
<1>2. Current(Initiator) \in P2Ps
  BY <1>1, SockIs
<1>3. CASE m.text = "201"
  <2> DEFINE p == [Current(Initiator) EXCEPT !.status = "Accepted", !.peer = m.address, !.network_type = network]
  <2>1. Set(Initiator, p)
    BY <1>3 DEF PingPeer
  <2>2. m.address \in Socket /\ m.address # NoSocket
    BY <1>1, <1>3, ReadIs, SocketsOfAnEnd
  <2>3. network \in {"LOCAL", "WEB"}
    BY DatagramsAssumption DEF IInv, NetInv, NetTypeOK
  <2>4. /\ p \in P2Ps /\ p.sock = Current(Initiator).sock /\ p.status = "Accepted"
        /\ p.peer = m.address /\ p.network_type = network
    BY <1>2, <2>2, <2>3 DEF P2Ps
  <2> HIDE DEF p
  <2>5. p.sock = opened[Initiator] => Fits(Initiator, p, "pinged")
    BY <2>2, <2>4 DEF Fits
  <2> QED BY <1>1, <2>1, <2>4, <2>5, StatusPlaces
<1>4. CASE m.text # "201"
  <2>1. PICK status \in {"Awaiting", "Error"} :
          Set(Initiator, [Current(Initiator) EXCEPT !.status = status])
    BY <1>4 DEF PingPeer
  <2> DEFINE p == [Current(Initiator) EXCEPT !.status = status]
  <2>2. p \in P2Ps /\ p.sock = Current(Initiator).sock /\ p.status = status
    BY <1>2 DEF P2Ps
  <2>3. Set(Initiator, p)
    BY <2>1
  <2> HIDE DEF p
  <2>4. p.sock = opened[Initiator] => Fits(Initiator, p, "pinged")
    BY <2>2 DEF Fits
  <2> QED BY <1>1, <2>2, <2>3, <2>4, StatusPlaces
<1> QED BY <1>3, <1>4

LEMMA AfterPingPlaces ==
  ASSUME IInv, PlacesInv, AfterPing
  PROVE  PlacesInv'
<1> USE Names
<1>1. /\ pc[Initiator] = "pinged" /\ UNCHANGED <<stream, opened, req, calls>> /\ m_hangup' = m_hangup
      /\ EndsInv
  BY DEF AfterPing, IInv
<1>2. Current(Initiator) \in P2Ps
  BY <1>1, SockIs
<1>3. CASE Failed(Initiator) /\ UNCHANGED netVars
  BY <1>1, <1>3, FailedPlaces DEF netVars
<1>4. ASSUME NEW place \in {"hangup", "give up", "ping", "handshake"}, Goto(Initiator, place), UNCHANGED p2p,
             network' = network, sent_to \subseteq sent_to',
             place = "handshake" => Current(Initiator).status = "Accepted",
             place = "hangup" => m_hangup'
      PROVE  PlacesInv'
  <2> DEFINE p == Current(Initiator)
  <2>1. p.status \in {"Accepted", "Connected"} => p.peer # NoSocket /\ p.network_type = network
    BY <1>1 DEF PlacesInv, PlaceInv, Current, EndsInv
  <2>2. p.sock = opened[Initiator] => Fits(Initiator, p, place)
    BY <1>4, <2>1 DEF Fits
  <2> HIDE DEF p
  <2> QED BY <1>1, <1>2, <1>4, <2>2, StatusPlaces DEF p
<1>5. ASSUME NEW command, NEW place \in {"hangup", "give up", "ping"}, SendServer(command, place),
             place = "hangup" => m_hangup'
      PROVE  PlacesInv'
  <2>1. Goto(Initiator, place) /\ UNCHANGED p2p /\ network' = network /\ sent_to \subseteq sent_to'
    BY <1>5, SendNet DEF SendServer
  <2> QED BY <1>4, <1>5, <2>1
<1>6. CASE /\ Goto(Initiator, "handshake") /\ UNCHANGED <<netVars, p2p>>
           /\ Current(Initiator).status = "Accepted"
  BY <1>4, <1>6 DEF netVars
<1>7. CASE m_hangup /\ SendServer("HANGUP", "hangup")
  <2>1. m_hangup'
    BY <1>1, <1>7
  <2> QED BY <1>5, <1>7, <2>1
<1>8. CASE SendServer("HANGUP", "give up") \/ SendServer("PING", "ping")
  BY <1>5, <1>8
<1>9. \/ Failed(Initiator) /\ UNCHANGED netVars
      \/ m_hangup /\ SendServer("HANGUP", "hangup")
      \/ SendServer("HANGUP", "give up") \/ SendServer("PING", "ping")
      \/ /\ Goto(Initiator, "handshake") /\ UNCHANGED <<netVars, p2p>>
         /\ Current(Initiator).status = "Accepted"
  BY DEF AfterPing
<1> QED BY <1>3, <1>6, <1>7, <1>8, <1>9

LEMMA HangupPeerPlaces ==
  ASSUME IInv, PlacesInv, NEW m \in BagToSet(net), HangupPeer(m)
  PROVE  PlacesInv'
<1> USE Names
<1>1. /\ pc[Initiator] \in {"hangup", "give up"} /\ UNCHANGED <<stream, opened, req, calls>>
      /\ m_hangup' = m_hangup /\ EndsInv
      /\ network' = network /\ sent_to \subseteq sent_to'
  BY ReceiveNet DEF HangupPeer, IInv
<1>2. Current(Initiator) \in P2Ps
  BY <1>1, SockIs
<1>3. CASE pc[Initiator] = "give up"
  BY <1>1, <1>3, FailedPlaces DEF HangupPeer
<1>4. CASE pc[Initiator] # "give up"
  <2>1. PICK status \in {"Idle", "Error"} :
          Set(Initiator, [Current(Initiator) EXCEPT !.status = status])
    BY <1>4 DEF HangupPeer
  <2> DEFINE p == [Current(Initiator) EXCEPT !.status = status]
  <2>2. p \in P2Ps /\ p.sock = Current(Initiator).sock /\ p.status = status
    BY <1>2 DEF P2Ps
  <2>3. Set(Initiator, p) /\ Goto(Initiator, "between")
    BY <1>4, <2>1 DEF HangupPeer
  <2> HIDE DEF p
  <2>4. m_hangup
    BY <1>1, <1>4 DEF PlacesInv, InitiatorPlaceInv
  <2>5. m_hangup'
    BY <1>1, <2>4
  <2>6. p.sock = opened[Initiator] => Fits(Initiator, p, "between")
    BY <2>2, <2>5 DEF Fits
  <2> QED BY <1>1, <2>2, <2>3, <2>6, StatusPlaces
<1> QED BY <1>3, <1>4

LEMMA AcceptPeerPlaces ==
  ASSUME IInv, PlacesInv, NEW m \in BagToSet(net), AcceptPeer(m)
  PROVE  PlacesInv'
<1> USE Names
<1>1. /\ pc[Acceptor] = "accept" /\ UNCHANGED <<stream, opened, req, calls>> /\ m_hangup' = m_hangup
      /\ EndsInv /\ NetInv /\ CanRead(Acceptor, m)
      /\ network' = network /\ sent_to \subseteq sent_to'
  BY ReceiveNet DEF AcceptPeer, IInv
<1>2. CASE m.text = "201"
  <2> DEFINE p == [Current(Acceptor) EXCEPT !.status = "Accepted", !.peer = m.address, !.network_type = network]
  <2>1. Set(Acceptor, p) /\ Goto(Acceptor, "handshake")
    BY <1>2 DEF AcceptPeer
  <2>2. m.address \in Socket /\ m.address # NoSocket
    BY <1>1, <1>2, ReadIs, SocketsOfAnEnd
  <2>3. network \in {"LOCAL", "WEB"}
    BY DatagramsAssumption DEF IInv, NetInv, NetTypeOK
  <2>4. Current(Acceptor) \in P2Ps
    BY <1>1, SockIs
  <2>5. /\ p \in P2Ps /\ p.sock = Current(Acceptor).sock /\ p.status = "Accepted"
        /\ p.peer = m.address /\ p.network_type = network
    BY <2>2, <2>3, <2>4 DEF P2Ps
  <2> HIDE DEF p
  <2>6. p.sock = opened[Acceptor] => Fits(Acceptor, p, "handshake")
    BY <1>1, <2>2, <2>5 DEF Fits
  <2> QED BY <1>1, <2>1, <2>5, <2>6, StatusPlaces
<1>3. CASE m.text # "201"
  BY <1>1, <1>3, FailedPlaces DEF AcceptPeer
<1> QED BY <1>2, <1>3

LEMMA AcceptAgainPlaces ==
  ASSUME IInv, PlacesInv, AcceptAgain
  PROVE  PlacesInv'
<1> USE Names
<1>1. /\ pc[Acceptor] = "throttle" /\ UNCHANGED <<stream, opened, req, calls>> /\ m_hangup' = m_hangup
      /\ EndsInv
  BY DEF AcceptAgain, IInv
<1>2. ASSUME Set(Acceptor, [Current(Acceptor) EXCEPT !.status = "Idle", !.peer = NoSocket]),
             Send(Text(Sock(Acceptor), Server, "ACCEPT"), 1), Goto(Acceptor, "accept")
      PROVE  PlacesInv'
  <2> DEFINE p == [Current(Acceptor) EXCEPT !.status = "Idle", !.peer = NoSocket]
  <2>1. Current(Acceptor) \in P2Ps
    BY <1>1, SockIs
  <2>2. p \in P2Ps /\ p.sock = Current(Acceptor).sock /\ p.status = "Idle" /\ Set(Acceptor, p)
    BY <1>2, <2>1 DEF P2Ps
  <2> HIDE DEF p
  <2>3. p.sock = opened[Acceptor] => Fits(Acceptor, p, "accept")
    BY <1>1, <2>2 DEF Fits
  <2> QED BY <1>1, <1>2, <2>2, <2>3, SendNet, StatusPlaces
<1>3. ASSUME Set(Acceptor, Null), Goto(Acceptor, "idle"), UNCHANGED netVars
      PROVE  PlacesInv'
  <2>1. Alters(Acceptor, Null, "idle")
    BY <1>1, <1>3, SetAlters
  <2>2. Null.status = "Idle"
    BY DEF Null, P2P
  <2>3. Fits(Acceptor, Null, "idle")
    BY <1>1, <2>2 DEF Fits
  <2> QED BY <1>1, <1>3, <2>1, <2>3, PlacesMove DEF netVars
<1> QED BY <1>2, <1>3 DEF AcceptAgain

\* The same place and P2P, but other variables.
LEMMA HandshakePeerPlaces ==
  ASSUME IInv, PlacesInv, NEW e \in Ends, HandshakePeer(e)
  PROVE  PlacesInv'
<1>1. /\ pc[e] = "handshake" /\ UNCHANGED <<p2p, stream, opened, calls>> /\ m_hangup' = m_hangup
      /\ Goto(e, "await 200") /\ EndsInv
  BY DEF HandshakePeer, IInv
<1>2. req'[Other(e)] = req[Other(e)]
  BY SocketsOfAnEnd DEF HandshakePeer, IInv, ReqInv
<1>3. /\ Current(e) \in P2Ps /\ Current(e).status = "Accepted" /\ Current(e).peer # NoSocket
      /\ Current(e).peer \in Peers(Other(e)) /\ Sock(e) \in SocketsOf(e) /\ Sock(e) = <<e, Current(e).sock>>
  BY <1>1, SockIs DEF HandshakePeer, ValidToHandshake
<1>4. Current(e).network_type = network
  BY <1>1, <1>3 DEF PlacesInv, PlaceInv, Current, EndsInv
<1>5. /\ network' = network /\ sent_to \subseteq sent_to'
      /\ network = "LOCAL" \/ <<Sock(e), Current(e).peer>> \in sent_to'
  <2> DEFINE m == Text(Sock(e), Current(e).peer, "200")
  <2>1. m.from = Sock(e) /\ m.to = Current(e).peer
    BY DEF Text
  <2>2. Server \notin {m.from, m.to}
    BY <1>3, <2>1, SocketsOfAnEnd, Names DEF Peers
  <2>3. network \in {"LOCAL", "WEB"}
    BY DatagramsAssumption DEF IInv, NetInv, NetTypeOK
  <2> DEFINE n == (IF network = "WEB" THEN 1 ELSE 0) + (IF e = Initiator THEN 1 ELSE 0)
  <2>4. IF n > 0 THEN Send(m, n) ELSE UNCHANGED netVars
    BY <1>4 DEF HandshakePeer
  <2>5. network = "WEB" => n > 0
    OBVIOUS
  <2> HIDE DEF m, n
  <2> QED BY <2>1, <2>2, <2>3, <2>4, <2>5, SendNet DEF netVars
<1> DEFINE p == Current(e)
<1>6. p.sock = opened[e] => Fits(e, p, "await 200")
  BY <1>1, <1>3, <1>4, <1>5 DEF Fits
<1>7. p \in P2Ps /\ UNCHANGED p2p /\ p = Current(e)
  BY <1>1, <1>3
<1> HIDE DEF p
<1> QED BY <1>1, <1>2, <1>5, <1>6, <1>7, StatusPlaces

LEMMA HandshakeInitiatorPlaces ==
  ASSUME IInv, PlacesInv, NEW m \in BagToSet(net), HandshakeInitiator(m)
  PROVE  PlacesInv'
<1> USE Names
<1>1. /\ pc[Initiator] = "await 200" /\ UNCHANGED <<stream, opened, calls>> /\ m_hangup' = m_hangup
      /\ EndsInv /\ req'[Acceptor] = req[Acceptor]
      /\ network' = network /\ sent_to \subseteq sent_to'
  BY ReceiveNet DEF HandshakeInitiator, IInv, ReqInv
<1>2. CASE m.text = "200"
  <2> DEFINE p == Connected(Initiator)
  <2>1. Set(Initiator, p) /\ Goto(Initiator, "between")
    BY <1>2 DEF HandshakeInitiator
  <2>2. Current(Initiator) \in P2Ps
    BY <1>1, SockIs
  <2>3. /\ p \in P2Ps /\ p.sock = Current(Initiator).sock /\ p.status = "Connected"
        /\ p.peer = Current(Initiator).peer /\ p.network_type = Current(Initiator).network_type
    BY <2>2 DEF P2Ps, Connected
  <2> HIDE DEF p
  <2>4. p.peer # NoSocket /\ p.network_type = network
    <3>1. stream[Initiator] \in Streams /\ PlaceInv(Initiator)
      BY <1>1 DEF PlacesInv, EndsInv
    <3>2. Current(Initiator).status = "Accepted"
      BY <1>1, <3>1 DEF PlaceInv
    <3>3. Current(Initiator).peer # NoSocket /\ Current(Initiator).network_type = network
      BY <3>1, <3>2 DEF PlaceInv, Current
    <3> QED BY <2>3, <3>3
  <2>5. p.sock = opened[Initiator] => Fits(Initiator, p, "between")
    BY <1>1, <2>3, <2>4 DEF Fits
  <2> QED BY <1>1, <2>1, <2>3, <2>5, StatusPlaces
<1>3. CASE m.text # "200"
  BY <1>1, <1>3, FailedPlaces DEF HandshakeInitiator
<1> QED BY <1>2, <1>3

LEMMA HandshakeAcceptorPlaces ==
  ASSUME IInv, PlacesInv, NEW m \in BagToSet(net), HandshakeAcceptor(m)
  PROVE  PlacesInv'
<1> USE Names
<1>1. /\ pc[Acceptor] = "await 200" /\ UNCHANGED <<stream, opened, calls>> /\ m_hangup' = m_hangup
      /\ EndsInv /\ req'[Initiator] = req[Initiator]
      /\ network' = network /\ sent_to \subseteq sent_to'
  BY ReceiveNet, AnswerNet DEF HandshakeAcceptor, IInv, ReqInv
<1>2. CASE m.text = "200"
  <2> DEFINE p == Connected(Acceptor)
  <2>1. Set(Acceptor, p) /\ Goto(Acceptor, "between")
    BY <1>2 DEF HandshakeAcceptor
  <2>2. Current(Acceptor) \in P2Ps
    BY <1>1, SockIs
  <2>3. /\ p \in P2Ps /\ p.sock = Current(Acceptor).sock /\ p.status = "Connected"
        /\ p.peer = Current(Acceptor).peer /\ p.network_type = Current(Acceptor).network_type
    BY <2>2 DEF P2Ps, Connected
  <2> HIDE DEF p
  <2>4. p.peer # NoSocket /\ p.network_type = network
    <3>1. stream[Acceptor] \in Streams /\ PlaceInv(Acceptor)
      BY <1>1 DEF PlacesInv, EndsInv
    <3>2. Current(Acceptor).status = "Accepted"
      BY <1>1, <3>1 DEF PlaceInv
    <3>3. Current(Acceptor).peer # NoSocket /\ Current(Acceptor).network_type = network
      BY <3>1, <3>2 DEF PlaceInv, Current
    <3> QED BY <2>3, <3>3
  <2>5. p.sock = opened[Acceptor] => Fits(Acceptor, p, "between")
    BY <1>1, <2>3, <2>4 DEF Fits, K
  <2> QED BY <1>1, <2>1, <2>3, <2>5, StatusPlaces
<1>3. CASE m.text # "200"
  BY <1>1, <1>3, FailedPlaces DEF HandshakeAcceptor
<1> QED BY <1>2, <1>3

\* No P2P is another, and the request may change.
LEMMA IdlePlaces ==
  ASSUME EndsInv, PlacesInv, UNCHANGED <<p2p, stream, pc, opened, calls>>,
         m_hangup' = m_hangup \/ m_hangup', \A e \in Ends : pc[e] = "retry" => ~ req'[e].valid,
         network' = network, sent_to \subseteq sent_to'
  PROVE  PlacesInv'
<1>1. ASSUME NEW e \in Ends PROVE PlaceInv(e)'
  BY DEF PlacesInv, PlaceInv, Current, Sock
<1>2. AcceptorPlaceInv'
  BY DEF PlacesInv, AcceptorPlaceInv, Current, K
<1>3. InitiatorPlaceInv'
  <2>1. InitiatorPlaceInv
    BY DEF PlacesInv
  <2>2. CASE m_hangup' = m_hangup
    BY <2>1, <2>2, InitiatorPlaceStays, Names DEF EndStays
  <2>3. CASE m_hangup'
    BY <2>1, <2>3, InitiatorPlaces DEF InitiatorPlaceInv, Current, N
  <2> QED BY <2>2, <2>3
<1> QED BY <1>1, <1>2, <1>3 DEF PlacesInv

LEMMA RetryPlaces ==
  ASSUME IInv, PlacesInv, NEW e \in Ends, Retry(e)
  PROVE  PlacesInv'
<1>1. /\ pc[e] = "retry" /\ UNCHANGED <<stream, opened, calls>> /\ m_hangup' = m_hangup
      /\ EndsInv /\ ~ req[e].valid
  BY DEF Retry, IInv, PlacesInv, PlaceInv
<1>2. CASE Respond(e, "200", 1) /\ UNCHANGED <<p2p, pc, req>>
  <2>1. UNCHANGED netVars
    BY <1>1, <1>2 DEF Respond
  <2>2. \A d \in Ends : pc[d] = "retry" => ~ req'[d].valid
    BY <1>2 DEF PlacesInv, PlaceInv
  <2> QED BY <1>1, <1>2, <2>1, <2>2, IdlePlaces DEF netVars
<1>3. CASE req' = [req EXCEPT ![e] = NoReq] /\ Failed(e) /\ UNCHANGED netVars
  <2>1. req'[Other(e)] = req[Other(e)]
    BY <1>3, SocketsOfAnEnd DEF IInv, ReqInv
  <2> QED BY <1>1, <1>3, <2>1, FailedPlaces DEF netVars
<1> QED BY <1>2, <1>3 DEF Retry

\* A new P2P for stream s: for video the one for audio stays.
LEMMA Begins ==
  ASSUME EndsInv, NEW e \in Ends, NEW s \in Streams, NEW command, NEW place,
         Construct(e, s, command), Goto(e, place), place \in PCs
  PROVE  /\ pc'[e] = place /\ stream'[e] = s /\ opened'[e] = opened[e] + 1
         /\ opened[e] + 1 \in Nat \ {0} /\ p2p'[e][s] = P2P(opened[e] + 1)
         /\ s = "audio" => p2p'[e]["video"] = Null
         /\ s = "video" => p2p'[e]["audio"] = p2p[e]["audio"]
         /\ EndStays(Other(e))
         /\ Send(Text(<<e, opened[e] + 1>>, Server, command), 1)
<1>1. Constructs(e, s, command, place)
  BY DEF Constructs
<1>2. /\ pc'[e] = place /\ stream'[e] = s /\ opened'[e] = opened[e] + 1
      /\ p2p'[e][s] = P2P(opened[e] + 1)
      /\ EndStays(Other(e))
  BY <1>1, ConstructIs, SocketsOfAnEnd DEF EndStays
<1> DEFINE n == opened[e] + 1
           row == IF s = "audio" THEN [audio |-> P2P(n), video |-> Null]
                  ELSE [p2p[e] EXCEPT !.video = P2P(n)]
<1>3. p2p' = [p2p EXCEPT ![e] = row]
  BY DEF Construct
<1>4. p2p'[e] = row
  <2> HIDE DEF row
  <2> QED BY <1>3 DEF EndsInv
<1>5. s = "audio" => p2p'[e]["video"] = Null
  BY <1>4
<1>6. s = "video" => p2p'[e]["audio"] = p2p[e]["audio"]
  <2>1. p2p[e] \in [Streams -> P2Ps]
    BY DEF EndsInv
  <2>2. s = "video" => p2p'[e] = [p2p[e] EXCEPT !["video"] = P2P(n)]
    BY <1>4
  <2> QED BY <2>1, <2>2 DEF Streams
<1>7. opened[e] + 1 \in Nat \ {0}
  BY DEF EndsInv
<1> QED BY <1>2, <1>5, <1>6, <1>7 DEF Construct

LEMMA ConstructPlaces ==
  ASSUME EndsInv, PlacesInv, NEW e \in Ends, NEW s \in Streams,
         NEW place \in {"connect", "accept"}, NEW command,
         Construct(e, s, command), Goto(e, place),
         req'[Other(e)] = req[Other(e)],
         e = Initiator => place = "connect" /\ calls'[Initiator] # 0,
         e = Acceptor => place = "accept" /\ m_hangup' = m_hangup /\ calls'[Initiator] = calls[Initiator]
  PROVE  PlacesInv'
<1>1. place \in PCs
  BY DEF PCs
<1>2. /\ pc'[e] = place /\ stream'[e] = s /\ opened'[e] = opened[e] + 1
      /\ p2p'[e][s] = P2P(opened[e] + 1)
      /\ s = "audio" => p2p'[e]["video"] = Null
      /\ s = "video" => p2p'[e]["audio"] = p2p[e]["audio"]
      /\ EndStays(Other(e))
      /\ Send(Text(<<e, opened[e] + 1>>, Server, command), 1)
  BY <1>1, Begins
<1>3. network' = network /\ sent_to \subseteq sent_to'
  BY <1>2, SendNet
<1>4. /\ Current(e)' = P2P(opened[e] + 1)
      /\ P2P(opened[e] + 1).sock = opened[e] + 1 /\ P2P(opened[e] + 1).status = "Idle"
      /\ Null.status = "Idle"
  BY <1>2 DEF Current, P2P, Null
<1>5. PlaceInv(e)'
  <2>1. ASSUME NEW t \in Streams, p2p'[e][t].status \in {"Accepted", "Connected"}
        PROVE  p2p'[e][t].peer # NoSocket /\ p2p'[e][t].network_type = network'
    <3>1. t = "audio" /\ p2p'[e][t] = p2p[e][t]
      BY <1>2, <1>4, <2>1 DEF Streams
    <3> QED BY <1>3, <2>1, <3>1 DEF PlacesInv, PlaceInv, Streams
  <2> QED BY <1>2, <1>4, <2>1 DEF PlaceInv
<1>6. PlaceInv(Other(e))'
  BY <1>2, <1>3, PlaceStays, SocketsOfAnEnd DEF PlacesInv
<1>7. CASE e = Initiator
  <2>1. AcceptorPlaceInv'
    BY <1>2, <1>7, Names DEF PlacesInv, AcceptorPlaceInv, EndStays, Current, K
  <2>2. InitiatorPlaceInv'
    <3>1. pc'[Initiator] = "connect" /\ calls'[Initiator] # 0
      BY <1>2, <1>7
    <3> QED BY <3>1, InitiatorPlaces
  <2> QED BY <1>5, <1>6, <1>7, <2>1, <2>2, Names DEF PlacesInv
<1>8. CASE e = Acceptor
  <2>1. AcceptorPlaceInv'
    BY <1>2, <1>8 DEF AcceptorPlaceInv
  <2>2. InitiatorPlaceInv'
    <3>1. EndStays(Initiator)
      BY <1>2, <1>8, Names
    <3>2. InitiatorPlaceInv /\ m_hangup' = m_hangup /\ calls'[Initiator] = calls[Initiator]
      BY <1>8 DEF PlacesInv
    <3> QED BY <3>1, <3>2, InitiatorPlaceStays
  <2> QED BY <1>5, <1>6, <1>8, <2>1, <2>2, Names DEF PlacesInv
<1> QED BY <1>7, <1>8, Names

\* Who is connected has a socket.
LEMMA ConnectedSocket ==
  ASSUME IInv, NEW e \in Ends, NEW s \in Streams, p2p[e][s].status = "Connected"
  PROVE  /\ p2p[e][s].sock \in 1..opened[e]
         /\ \E n \in 1..opened[Other(e)] : <<<<Other(e), n>>, <<e, p2p[e][s].sock>>>> \in sent_to
<1>1. PICK n \in 1..opened[Other(e)] : <<<<Other(e), n>>, <<e, p2p[e][s].sock>>>> \in sent_to
  BY DEF IInv, ConnectedHeardPeer
<1>2. p2p[e][s].sock \in Nat \ {0}
  BY <1>1 DEF IInv, NetInv, NetTypeOK, Socket
<1>3. p2p[e][s].sock <= opened[e] /\ opened[e] \in Nat
  BY DEF IInv, EndsInv
<1>4. p2p[e][s].sock \in 1..opened[e]
  BY <1>2, <1>3
<1> QED BY <1>1, <1>4

LEMMA NextStreamPlaces ==
  ASSUME IInv, PlacesInv, NEW e \in Ends, NextStream(e)
  PROVE  PlacesInv'
<1>1. pc[e] = "between" /\ UNCHANGED <<req, trial, calls>> /\ EndsInv
  BY DEF NextStream, IInv
<1>2. CASE (e = Initiator /\ m_hangup) \/ stream[e] = "video"
  <2>1. /\ Goto(e, "idle") /\ UNCHANGED <<netVars, p2p, stream, opened>>
        /\ m_hangup' = (m_hangup /\ e # Initiator)
    BY <1>2 DEF NextStream
  <2> DEFINE p == Current(e)
  <2>2. Alters(e, p, "idle")
    BY <1>1, <2>1, SetAlters
  <2>3. p.status \in {"Accepted", "Connected"} => p.peer # NoSocket /\ p.network_type = network
    BY <1>1 DEF PlacesInv, PlaceInv, Current, EndsInv
  <2>4. e = Acceptor => m_hangup' = m_hangup
    <3>1. m_hangup \in BOOLEAN
      BY DEF IInv, CountsInv
    <3> QED BY <2>1, <3>1, Names
  <2> HIDE DEF p
  <2>5. Fits(e, p, "idle")
    BY <2>3, <2>4 DEF Fits
  <2> QED BY <1>1, <2>1, <2>2, <2>5, PlacesMove DEF netVars
<1>3. CASE ~ ((e = Initiator /\ m_hangup) \/ stream[e] = "video")
  <2>1. /\ Construct(e, "video", IF e = Initiator THEN "CONNECT" ELSE "ACCEPT")
        /\ Goto(e, IF e = Initiator THEN "connect" ELSE "accept")
    BY <1>3 DEF NextStream
  <2>2. m_hangup' = m_hangup
    BY <1>3 DEF NextStream
  <2>3. stream[e] = "audio"
    BY <1>1, <1>3 DEF EndsInv, Streams
  <2>4. e = Initiator => calls[Initiator] # 0
    <3> SUFFICES ASSUME e = Initiator PROVE calls[Initiator] # 0
      OBVIOUS
    <3>1. ~ m_hangup
      BY <1>3
    <3>2. InitiatorPlaceInv
      BY DEF PlacesInv
    <3>3. pc[Initiator] = "between" /\ stream[Initiator] = "audio"
      BY <1>1, <2>3
    <3>4. Current(Initiator).status = "Connected"
      BY <3>1, <3>2, <3>3 DEF InitiatorPlaceInv
    <3>5. 1..opened[Initiator] # {}
      BY <3>3, <3>4, ConnectedSocket, Names DEF Current, Streams
    <3> QED BY <3>2, <3>5 DEF InitiatorPlaceInv, N
  <2>5. "video" \in Streams /\ (IF e = Initiator THEN "connect" ELSE "accept") \in {"connect", "accept"}
    BY DEF Streams
  <2> QED BY <1>1, <2>1, <2>2, <2>4, <2>5, ConstructPlaces, Names
<1> QED BY <1>2, <1>3

LEMMA TimeoutPlaces ==
  ASSUME IInv, PlacesInv, NEW e \in Ends, Timeout(e)
  PROVE  PlacesInv'
<1>1. /\ pc[e] \in Waiting /\ UNCHANGED <<netVars, stream, opened, calls>> /\ m_hangup' = m_hangup
      /\ EndsInv /\ pc[e] \notin {"idle", "between"} /\ Other(e) \in Ends /\ Other(e) # e
  BY SocketsOfAnEnd DEF Timeout, IInv, Waiting
<1>2. Current(e) \in P2Ps
  BY <1>1, SockIs
<1>3. CASE pc[e] \in {"connect", "give up", "accept"}
  BY <1>1, <1>3, FailedPlaces DEF Timeout, netVars
<1>4. ASSUME NEW place \in {"pinged", "between"}, Goto(e, place), req' = req,
             Set(e, [Current(e) EXCEPT !.status = "Error"]),
             e = Initiator, place = "between" => m_hangup
      PROVE  PlacesInv'
  <2> DEFINE p == [Current(e) EXCEPT !.status = "Error"]
  <2>1. p \in P2Ps /\ p.sock = Current(e).sock /\ p.status = "Error"
    BY <1>2 DEF P2Ps
  <2>2. Set(e, p)
    BY <1>4
  <2> HIDE DEF p
  <2>3. place = "between" => m_hangup'
    BY <1>1, <1>4
  <2>4. p.sock = opened[e] => Fits(e, p, place)
    BY <1>4, <2>1, <2>3, Names DEF Fits
  <2> QED BY <1>1, <1>4, <2>1, <2>2, <2>4, StatusPlaces DEF netVars
<1>5. e = Initiator \/ pc[e] \notin {"ping", "hangup"}
  BY <1>1, Names DEF PlacesInv, AcceptorPlaceInv
<1>6. CASE pc[e] = "ping"
  <2>1. Set(e, [Current(e) EXCEPT !.status = "Error"]) /\ Goto(e, "pinged") /\ req' = req
    BY <1>6 DEF Timeout
  <2> QED BY <1>4, <1>5, <1>6, <2>1
<1>7. CASE pc[e] = "hangup"
  <2>1. Set(e, [Current(e) EXCEPT !.status = "Error"]) /\ Goto(e, "between") /\ req' = req
    BY <1>7 DEF Timeout
  <2>2. InitiatorPlaceInv /\ e = Initiator
    BY <1>5, <1>7 DEF PlacesInv
  <2>3. m_hangup
    BY <1>7, <2>2 DEF InitiatorPlaceInv
  <2> QED BY <1>4, <2>1, <2>2, <2>3
<1>8. CASE pc[e] = "await 200"
  <2>1. req' = [req EXCEPT ![e].valid = FALSE] /\ Goto(e, "retry") /\ UNCHANGED p2p
    BY <1>8 DEF Timeout
  <2>2. req'[Other(e)] = req[Other(e)] /\ ~ req'[e].valid
    BY <1>1, <2>1 DEF IInv, ReqInv
  <2> DEFINE p == Current(e)
  <2>3. p.status = "Accepted"
    BY <1>8 DEF PlacesInv, PlaceInv
  <2>4. p.peer # NoSocket /\ p.network_type = network
    BY <1>1, <2>3 DEF PlacesInv, PlaceInv, Current, EndsInv
  <2>5. p.sock = opened[e] => Fits(e, p, "retry")
    BY <1>1, <2>2, <2>3, <2>4 DEF Fits
  <2>6. p \in P2Ps /\ UNCHANGED p2p /\ p = Current(e)
    BY <1>2, <2>1
  <2> HIDE DEF p
  <2> QED BY <1>1, <2>1, <2>2, <2>5, <2>6, StatusPlaces DEF netVars
<1> QED BY <1>1, <1>3, <1>6, <1>7, <1>8 DEF Waiting

LEMMA UsersPlaces ==
  ASSUME IInv, PlacesInv, Users
  PROVE  PlacesInv'
<1> USE Names
<1>1. EndsInv /\ calls \in [Ends -> Nat] /\ "audio" \in Streams
  BY DEF IInv, CountsInv, Streams
<1>2. CASE Dial
  <2>1. /\ Construct(Initiator, "audio", "CONNECT") /\ Goto(Initiator, "connect")
        /\ req' = req /\ calls'[Initiator] # 0
    BY <1>1, <1>2 DEF Dial
  <2> QED BY <1>1, <2>1, ConstructPlaces
<1>3. CASE AnswerCall
  <2>1. /\ Construct(Acceptor, "audio", "ACCEPT") /\ Goto(Acceptor, "accept")
        /\ req' = req /\ m_hangup' = m_hangup /\ calls'[Initiator] = calls[Initiator]
    BY <1>1, <1>3 DEF AnswerCall
  <2> QED BY <1>1, <2>1, ConstructPlaces
<1>4. CASE UserHangup
  <2>1. UNCHANGED <<p2p, stream, pc, opened, calls>> /\ req' = req /\ UNCHANGED netVars /\ m_hangup'
    BY <1>4 DEF UserHangup
  <2>2. \A e \in Ends : pc[e] = "retry" => ~ req'[e].valid
    BY <2>1 DEF PlacesInv, PlaceInv
  <2> QED BY <1>1, <2>1, <2>2, IdlePlaces DEF netVars
<1>5. CASE List
  <2>1. UNCHANGED <<p2p, stream, pc, opened, calls>> /\ req' = req /\ UNCHANGED netVars /\ m_hangup' = m_hangup
    BY <1>5 DEF List, endVars
  <2>2. \A e \in Ends : pc[e] = "retry" => ~ req'[e].valid
    BY <2>1 DEF PlacesInv, PlaceInv
  <2> QED BY <1>1, <2>1, <2>2, IdlePlaces DEF netVars
<1> QED BY <1>2, <1>3, <1>4, <1>5 DEF Users

LEMMA OthersPlaces ==
  ASSUME IInv, PlacesInv, Serve \/ Expire \/ Network \/ UNCHANGED vars
  PROVE  PlacesInv'
<1>1. UNCHANGED <<p2p, stream, pc, opened, calls>> /\ req' = req /\ m_hangup' = m_hangup
  BY DEF Serve, Expire, Network, vars, endVars
<1>2. \A e \in Ends : pc[e] = "retry" => ~ req'[e].valid
  BY <1>1 DEF PlacesInv, PlaceInv
<1>3. network' = network /\ sent_to \subseteq sent_to'
  <2>1. CASE Serve
    BY <2>1, AnswerNet DEF Serve, ServeConnect, ServeAccept, ServePing, ServeHangup, Reply
  <2>2. CASE Network
    BY <2>2, ReceiveNet DEF Network, Drop
  <2>3. CASE Expire \/ UNCHANGED vars
    BY <2>3 DEF Expire, vars, netVars
  <2> QED BY <2>1, <2>2, <2>3
<1> QED BY <1>1, <1>2, <1>3, IdlePlaces DEF IInv

LEMMA PlacesStep ==
  ASSUME IInv, PlacesInv, [Next]_vars
  PROVE  PlacesInv'
<1>1. ASSUME \/ \E m \in BagToSet(net) :
                  \/ ConnectPeer(m) \/ PingPeer(m) \/ HangupPeer(m) \/ HandshakeInitiator(m)
                  \/ AcceptPeer(m) \/ HandshakeAcceptor(m)
             \/ \E e \in Ends : HandshakePeer(e) \/ Retry(e) \/ NextStream(e) \/ Timeout(e)
             \/ AfterPing \/ AcceptAgain
      PROVE  PlacesInv'
  BY <1>1, ConnectPeerPlaces, PingPeerPlaces, HangupPeerPlaces, HandshakeInitiatorPlaces,
     AcceptPeerPlaces, HandshakeAcceptorPlaces, HandshakePeerPlaces, RetryPlaces, NextStreamPlaces,
     TimeoutPlaces, AfterPingPlaces, AcceptAgainPlaces
<1>2. CASE InitiatorStep
  BY <1>1, <1>2, Names DEF InitiatorStep
<1>3. CASE AcceptorStep
  BY <1>1, <1>3, Names DEF AcceptorStep
<1>4. CASE Serve \/ Expire \/ Network \/ UNCHANGED vars
  BY <1>4, OthersPlaces
<1> QED BY <1>2, <1>3, <1>4, UsersPlaces DEF Next

-----------------------------------------------------------------------------
\* The steps of the acceptor.

\* The initiator has nothing to do with a step.
Apart(gone, new) ==
  /\ EndStays(Initiator) /\ request' = request
  /\ gone \subseteq BagToSet(net) /\ Carries(gone, new)
  /\ \A m \in gone \cup new : ~ Talks(m, Initiator)
  /\ \A m \in new : Server \in {m.from, m.to} \/ m.from[1] # Initiator
  /\ ~ ringing /\ K = 0 => K' = 0
  /\ ~ ringing /\ request = NoRequest => ~ ringing'
  /\ \A n : Unknown(n) => Unknown(n)'

LEMMA ApartKeeps ==
  ASSUME Context, IInv', NEW gone, NEW new, Apart(gone, new)
  PROVE  /\ N' = N /\ (\A k : (Sent(k)' <=> Sent(k))) /\ (Alive' <=> Alive) /\ (Named' <=> Named)
         /\ pc'[Initiator] = pc[Initiator]
         /\ Before' /\ Numbers' /\ InitiatorAsks' /\ RequestIs' /\ ConnectInv'
         /\ N' = 1 => Unknown(2)'
<1>1. SentStays /\ TalkStays(Initiator) /\ EndStays(Initiator)
  BY TalkKept, SentKept, Names DEF Apart
<1>2. /\ N' = N /\ \A k : (Sent(k)' <=> Sent(k))
      /\ (Alive' <=> Alive) /\ (Answered' <=> Answered)
      /\ Numbers'
  BY <1>1, InitiatorKept DEF Context, First
<1>3. /\ InitiatorAsks' /\ RequestIs'
      /\ \A m \in BagToSet(net') : Is(m, "CONNECT") => m \in BagToSet(net) /\ net'[m] = net[m]
  <2>1. NetInv' /\ EndsInv' /\ request' = request
    BY DEF IInv, Apart
  <2> QED BY <1>1, <2>1, InitiatorTalkKept
<1>4. Named' <=> Named
  BY <1>1, <1>2 DEF Named, Apart, EndStays, Current
<1>5. ConnectInv'
  <2>1. ASSUME NEW m \in BagToSet(net'), Is(m, "CONNECT")
        PROVE  /\ pc'[Initiator] = "connect" /\ m.from = Ini(N) /\ net'[m] = 1
               /\ request' = NoRequest /\ Unknown(N)'
               /\ N = 1 => ~ ringing' /\ K' = 0
    <3>1. m \in BagToSet(net) /\ net'[m] = net[m]
      BY <1>3, <2>1
    <3>2. /\ pc[Initiator] = "connect" /\ m.from = Ini(N) /\ net[m] = 1
          /\ request = NoRequest /\ Unknown(N)
          /\ N = 1 => ~ ringing /\ K = 0
      BY <2>1, <3>1 DEF Context, First, ConnectInv
    <3>3. Unknown(N)'
      <4>1. PICK n : n = N
        OBVIOUS
      <4>2. Unknown(n)'
        BY <3>2, <4>1 DEF Apart
      <4>3. n = N'
        BY <1>2, <4>1
      <4> QED BY <4>2, <4>3 DEF Unknown, Ini
    <3>4. N = 1 => ~ ringing' /\ K' = 0
      BY <3>2 DEF Apart
    <3> QED BY <1>1, <3>1, <3>2, <3>3, <3>4 DEF Apart, EndStays
  <2>2. Ini(N)' = Ini(N)
    BY <1>2 DEF Ini
  <2> QED BY <1>2, <2>1, <2>2 DEF ConnectInv, Is
<1>6. N' = 1 => Unknown(2)'
  BY <1>2 DEF Apart, Context, First
<1>7. Before'
  BY <1>2 DEF Before, Context
<1>8. pc'[Initiator] = pc[Initiator]
  BY <1>1 DEF EndStays
<1> QED BY <1>2, <1>3, <1>4, <1>5, <1>6, <1>7, <1>8

LEMMA AcceptorGoes ==
  ASSUME Context, IInv', NEW gone, NEW new, Apart(gone, new), AcceptorNumbers', AcceptorAsks',
         \A k \in {1, 2} : Sent(k) /\ K' = k =>
           Heeds(k)' \/ pc'[Acceptor] = "between" \/ (k = 2 /\ pc'[Acceptor] = "idle"),
         Alive /\ ~ Sent(N) =>
           /\ K' = N \/ K' = N - 1
           /\ K' = N =>
                /\ stream'[Acceptor] = (IF N = 2 THEN "video" ELSE "audio")
                /\ pc'[Acceptor] \in {"accept", "handshake", "await 200"} \/ (N = 2 /\ pc'[Acceptor] = "throttle")
                /\ N = 1 => \A m \in BagToSet(net') : m.from = Server /\ m.to = Acc(1) => m.text = "201"
           /\ Named => /\ K' = N /\ pc'[Acceptor] # "throttle"
                       /\ \A m \in BagToSet(net') : Exchange(m, Acc(N)) => m.text = "201"
           /\ pc[Initiator] = "handshake" => pc'[Acceptor] = "await 200",
         Alive /\ N = 1 /\ Sent(1) =>
           K' <= 2 /\ (K' = 2 => /\ pc'[Acceptor] # "idle" /\ stream'[Acceptor] = "video"
                                 /\ p2p'[Acceptor]["video"].sock = 2)
  PROVE  First'
<1>1. /\ N' = N /\ (\A k : (Sent(k)' <=> Sent(k))) /\ (Alive' <=> Alive) /\ (Named' <=> Named)
      /\ pc'[Initiator] = pc[Initiator]
      /\ Before' /\ Numbers' /\ InitiatorAsks' /\ RequestIs' /\ ConnectInv'
      /\ N' = 1 => Unknown(2)'
  BY ApartKeeps
<1>2. Follows'
  BY <1>1 DEF Follows
<1>3. Sent(N)' <=> Sent(N)
  BY <1>1 DEF Sent, Ini, Acc
<1>4. Meets'
  <2>1. N # 0 /\ Meets
    BY DEF Context, First
  <2>2. Alive /\ ~ Sent(N) => pc[Initiator] \in {"connect", "ping", "pinged", "handshake"}
    BY <2>1 DEF Meets
  <2> QED BY <1>1, <1>3, <2>2 DEF Meets, Exchange, Acc
<1>5. GoesOn'
  BY <1>1 DEF GoesOn
<1>6. (N = 1 => Unknown(2))'
  BY <1>1
<1> QED BY <1>1, <1>2, <1>4, <1>5, <1>6 DEF First

LEMMA SendOnce ==
  ASSUME NetInv, NEW m, Send(m, 1) PROVE Carries({}, {m})
<1>1. 1 \in Nat \ {0}
  OBVIOUS
<1> QED BY <1>1, SendCarries

LEMMA AcceptorApart ==
  ASSUME NEW gone, NEW new, EndStays(Initiator), request' = request,
         gone \subseteq BagToSet(net), Carries(gone, new),
         \A m \in gone : \E k : m.to = Acc(k), \A m \in new : \E k : m.from = Acc(k),
         ~ ringing /\ K = 0 => K' = 0, ~ ringing /\ request = NoRequest => ~ ringing',
         \A n : Unknown(n) => /\ \A m \in new : m.address # Ini(n) /\ m.to # Ini(n)
                              /\ \A s \in Streams : p2p'[Acceptor][s].peer # Ini(n)
  PROVE  Apart(gone, new)
<1> USE SocketNames
<1>1. \A m \in gone \cup new : ~ Talks(m, Initiator)
  BY DEF Talks
<1>2. \A m \in new : Server \in {m.from, m.to} \/ m.from[1] # Initiator
  OBVIOUS
<1>3. ASSUME NEW n, Unknown(n) PROVE Unknown(n)'
  <2>1. request'.address # Ini(n)
    BY <1>3 DEF Unknown
  <2>2. \A m \in new : m.address # Ini(n) /\ m.to # Ini(n) /\ (m.to # Server => m.from # Ini(n))
    BY <1>3
  <2>3. \A s \in Streams : p2p'[Acceptor][s].peer # Ini(n)
    BY <1>3
  <2> QED BY <1>3, <2>1, <2>2, <2>3, UnknownKept
<1> QED BY <1>1, <1>2, <1>3 DEF Apart

\* The acceptor's P2P becomes p.
LEMMA AcceptorNumbersMove ==
  ASSUME Context, IInv', NEW p, NEW place, Alters(Acceptor, p, place), NEW gone, NEW new, Apart(gone, new),
         p.sock \in {Current(Acceptor).sock, 0},
         stream[Acceptor] = "audio" /\ p.sock = 1 => p.peer \in {NoSocket, Ini(1)},
         stream[Acceptor] = "video" /\ p.sock = 2 => p.peer \in {NoSocket, Ini(2)},
         K # 0, \A m \in new : m.from # Server
  PROVE  AcceptorNumbers' /\ K' = K
<1>1. /\ K' = K /\ stream[Acceptor] \in Streams
      /\ p2p'[Acceptor][stream[Acceptor]] = p
      /\ \A s \in Streams \ {stream[Acceptor]} : p2p'[Acceptor][s] = p2p[Acceptor][s]
  BY Names DEF Alters, K, Context, IInv, EndsInv
<1>2. AcceptorNumbers
  BY DEF Context, First
<1>3. \A k : (Sent(k)' <=> Sent(k))
  BY ApartKeeps
<1>4. \A m \in BagToSet(net') : m.from = Server => m \in BagToSet(net)
  BY DEF Apart, Carries
<1>5. /\ p2p'[Acceptor]["video"].sock # 1
      /\ p2p'[Acceptor]["audio"].sock = 1 => p2p'[Acceptor]["audio"].peer \in {NoSocket, Ini(1)}
      /\ p2p'[Acceptor]["video"].sock = 2 =>
           Sent(1) /\ p2p'[Acceptor]["video"].peer \in {NoSocket, Ini(2)}
           /\ p2p[Acceptor]["video"].sock = 2
      /\ Sent(1) => p2p'[Acceptor]["audio"].sock # 2
  <2>1. CASE stream[Acceptor] = "audio"
    BY <1>1, <1>2, <2>1 DEF AcceptorNumbers, Current, Streams
  <2>2. CASE stream[Acceptor] = "video"
    BY <1>1, <1>2, <2>2 DEF AcceptorNumbers, Current, Streams
  <2> QED BY <1>1, <2>1, <2>2 DEF Streams
<1>6. \A k \in {1, 2} : Sent(k) => k <= K
  BY <1>2 DEF AcceptorNumbers
<1>7. ASSUME NEW m \in BagToSet(net'), m.from = Server, m.text = "201"
      PROVE  /\ m.to = Acc(1) => m.address = Ini(1)
             /\ m.to = Acc(2) /\ p2p'[Acceptor]["video"].sock = 2 => m.address = Ini(2)
  BY <1>2, <1>4, <1>5, <1>7 DEF AcceptorNumbers
<1> QED BY <1>1, <1>3, <1>5, <1>6, <1>7 DEF AcceptorNumbers, Ini, Acc

\* The acceptor has no question to the server, or one that is new.
LEMMA AsksNothing ==
  ASSUME pc'[Acceptor] # "accept", K' = K,
         \A m \in BagToSet(net') : \A k \in 1..K : ~ Exchange(m, Acc(k))
  PROVE  AcceptorAsks'
BY DEF AcceptorAsks, Exchange, Acc

LEMMA AsksAnew ==
  ASSUME K' \in Nat \ {0}, NEW gone, NEW new, Carries(gone, new), new = {Text(Acc(K'), Server, "ACCEPT")},
         pc'[Acceptor] = "accept",
         \A m \in BagToSet(net) : \A k \in 1..K' : ~ Exchange(m, Acc(k))
  PROVE  AcceptorAsks'
<1> USE SocketNames
<1>1. PICK a : a = Text(Acc(K'), Server, "ACCEPT")
  OBVIOUS
<1>2. a.from = Acc(K') /\ a.to = Server /\ new = {a}
  BY <1>1 DEF Text
<1>3. ASSUME NEW m \in BagToSet(net'), NEW k \in 1..K', Exchange(m, Acc(k)) PROVE m = a /\ k = K'
  <2>1. m \in BagToSet(net) \/ m = a
    BY <1>2 DEF Carries
  <2>2. m = a
    BY <1>3, <2>1
  <2> QED BY <1>2, <1>3, <2>2 DEF Exchange
<1>4. a \in BagToSet(net') /\ Exchange(a, Acc(K')) /\ K' \in 1..K'
  BY <1>2, InItsRange DEF Carries, Exchange
<1>5. net'[a] = 1
  <2>1. a \notin BagToSet(net)
    BY <1>4 DEF Exchange
  <2> QED BY <1>2, <2>1 DEF Carries
<1> QED BY <1>3, <1>4, <1>5 DEF AcceptorAsks, Exchange, Acc

\* An idle acceptor comes before the initiator's first handshake, or after the last.
LEMMA IdleAcceptor ==
  ASSUME Context, pc[Acceptor] = "idle"
  PROVE  /\ K = 1 => ~ Sent(1)
         /\ Alive /\ ~ Sent(N) => K = N - 1 /\ N = 1 /\ ~ Named /\ pc[Initiator] # "handshake"
         /\ Alive /\ N = 1 => ~ Sent(1) \/ K # 2
         /\ \A m \in BagToSet(net) : \A k \in 1..K : ~ Exchange(m, Acc(k))
<1>1. /\ Follows /\ Meets /\ GoesOn /\ AcceptorAsks /\ Numbers /\ N \in {1, 2}
  BY DEF Context, First, Numbers
<1>2. K = 1 => ~ Sent(1)
  BY <1>1 DEF Follows, Heeds
<1>3. ASSUME Alive, ~ Sent(N) PROVE K = N - 1 /\ N = 1 /\ ~ Named /\ pc[Initiator] # "handshake"
  <2>1. K = N - 1 /\ ~ Named /\ pc[Initiator] # "handshake"
    BY <1>1, <1>3 DEF Meets
  <2>2. N = 2 => Sent(1) /\ K = 1
    BY <1>1, <2>1 DEF Numbers
  <2> QED BY <1>1, <1>2, <2>1, <2>2
<1>4. Alive /\ N = 1 => ~ Sent(1) \/ K # 2
  BY <1>1 DEF GoesOn
<1>5. \A m \in BagToSet(net) : \A k \in 1..K : ~ Exchange(m, Acc(k))
  BY <1>1 DEF AcceptorAsks
<1> QED BY <1>2, <1>3, <1>4, <1>5

\* Nobody has anything to say to a socket that is not open yet.
LEMMA NotYet ==
  ASSUME EndsInv, NetInv, NEW m \in BagToSet(net), NEW k \in Nat, k > K
  PROVE  ~ Exchange(m, Acc(k))
<1> USE SocketNames
<1>1. Kinds(m)
  BY AllKinds
<1>2. K \in Nat /\ k \notin 1..K
  BY DEF EndsInv, K, Ends, Acceptor
<1> QED BY <1>1, <1>2 DEF Kinds, Exchange

LEMMA AnswerCallFirst ==
  ASSUME Context, IInv', AnswerCall
  PROVE  First'
<1> USE SocketNames
<1>1. /\ pc[Acceptor] = "idle" /\ ringing /\ ringing' = FALSE /\ request' = request
      /\ Construct(Acceptor, "audio", "ACCEPT") /\ Goto(Acceptor, "accept")
      /\ EndsInv /\ NetInv
  BY DEF AnswerCall, Context, IInv
<1>2. /\ pc'[Acceptor] = "accept" /\ stream'[Acceptor] = "audio" /\ K' = K + 1 /\ K' \in Nat \ {0}
      /\ p2p'[Acceptor]["audio"] = P2P(K') /\ p2p'[Acceptor]["video"] = Null
      /\ EndStays(Initiator) /\ Send(Text(Acc(K'), Server, "ACCEPT"), 1)
  <2>1. "accept" \in PCs /\ "audio" \in Streams
    BY DEF PCs, Streams
  <2>2. /\ pc'[Acceptor] = "accept" /\ stream'[Acceptor] = "audio"
        /\ opened'[Acceptor] = opened[Acceptor] + 1 /\ opened[Acceptor] + 1 \in Nat \ {0}
        /\ p2p'[Acceptor]["audio"] = P2P(opened[Acceptor] + 1) /\ p2p'[Acceptor]["video"] = Null
        /\ EndStays(Initiator)
        /\ Send(Text(<<Acceptor, opened[Acceptor] + 1>>, Server, "ACCEPT"), 1)
    BY <1>1, <2>1, Begins, Names
  <2> QED BY <2>2 DEF K, Acc
<1> DEFINE a == Text(Acc(K'), Server, "ACCEPT")
<1>3. a.from = Acc(K') /\ a.to = Server /\ a.address = NoSocket
  BY DEF Text
<1>4. Carries({}, {a})
  <2>1. Send(a, 1)
    BY <1>2
  <2> HIDE DEF a
  <2> QED BY <1>1, <2>1, SendOnce
<1>5. \A m \in BagToSet(net) : \A k \in 1..K' : ~ Exchange(m, Acc(k))
  <2>1. ASSUME NEW m \in BagToSet(net), NEW k \in 1..K' PROVE ~ Exchange(m, Acc(k))
    <3>1. k \in 1..K \/ (k \in Nat /\ k > K)
      BY <1>2, Places DEF Context, IInv
    <3> QED BY <1>1, <2>1, <3>1, IdleAcceptor, NotYet
  <2> QED BY <2>1
<1>6. AcceptorAsks'
  BY <1>2, <1>4, <1>5, AsksAnew
<1> HIDE DEF a
<1>7. Null.peer = NoSocket /\ Null.sock = 0 /\ P2P(K').sock = K' /\ P2P(K').peer = NoSocket
  BY DEF Null, P2P
<1>8. Apart({}, {a})
  <2>1. \A s \in Streams : p2p'[Acceptor][s].peer = NoSocket
    BY <1>2, <1>7 DEF Streams
  <2>2. ASSUME NEW n PROVE /\ \A m \in {a} : m.address # Ini(n) /\ m.to # Ini(n)
                           /\ \A s \in Streams : p2p'[Acceptor][s].peer # Ini(n)
    BY <1>3, <2>1
  <2>3. ~ ringing' /\ (~ ringing /\ K = 0 => K' = 0)
    BY <1>1
  <2> QED BY <1>1, <1>2, <1>3, <1>4, <2>2, <2>3, AcceptorApart
<1>9. AcceptorNumbers /\ K \in Nat
  BY Places DEF Context, First, IInv
<1>10. AcceptorNumbers'
  <2>1. \A k : (Sent(k)' <=> Sent(k))
    BY <1>8, ApartKeeps
  <2>2. Sent(1) => K' # 2
    BY <1>1, <1>2, <1>9, IdleAcceptor
  <2>3. \A k \in {1, 2} : Sent(k) => k <= K'
    BY <1>2, <1>9 DEF AcceptorNumbers
  <2>4. ASSUME NEW m \in BagToSet(net'), m.from = Server, m.to = Acc(1), m.text = "201"
        PROVE  m.address = Ini(1)
    <3>1. m \in BagToSet(net)
      BY <1>3, <1>4, <2>4 DEF Carries
    <3> QED BY <1>9, <2>4, <3>1 DEF AcceptorNumbers
  <2> QED BY <1>2, <1>7, <2>1, <2>2, <2>3, <2>4 DEF AcceptorNumbers, Ini, Acc
<1>11. \A k \in {1, 2} : ~ (Sent(k) /\ K' = k)
  BY <1>2, <1>9 DEF AcceptorNumbers
<1>12. ASSUME Alive, ~ Sent(N)
       PROVE  /\ K' = N /\ N = 1 /\ ~ Named /\ pc[Initiator] # "handshake"
              /\ \A m \in BagToSet(net') : ~ (m.from = Server /\ m.to = Acc(1))
  <2>1. K = 0 /\ N = 1 /\ ~ Named /\ pc[Initiator] # "handshake"
    BY <1>1, <1>12, IdleAcceptor
  <2>2. ASSUME NEW m \in BagToSet(net'), m.from = Server, m.to = Acc(1) PROVE FALSE
    <3>1. m \in BagToSet(net)
      BY <1>3, <1>4, <2>2 DEF Carries
    <3> QED BY <1>2, <1>5, <2>1, <2>2, <3>1 DEF Exchange
  <2> QED BY <1>2, <2>1, <2>2
<1>13. Alive /\ N = 1 /\ Sent(1) => FALSE
  <2>1. Alive /\ N = 1 /\ Sent(1) => K >= 1 /\ K <= 2
    BY <1>9 DEF AcceptorNumbers, Context, First, GoesOn
  <2> QED BY <1>1, <1>9, <2>1, IdleAcceptor
<1> QED BY <1>2, <1>6, <1>8, <1>10, <1>11, <1>12, <1>13, AcceptorGoes

\* An acceptor that asks, or has not shaken hands, has not been sent a 200.
LEMMA Unheard ==
  ASSUME Context, pc[Acceptor] \notin {"await 200", "between", "idle"}
  PROVE  /\ \A k \in {1, 2} : ~ (Sent(k) /\ K = k)
         /\ Alive /\ ~ Sent(N) => pc[Initiator] # "handshake"
BY DEF Context, First, Follows, Heeds, Meets

\* What Meets and GoesOn say of an acceptor that goes on in the same stream.
LEMMA SameStream ==
  ASSUME Context, NEW p, NEW place, Alters(Acceptor, p, place), p.sock = Current(Acceptor).sock,
         pc[Acceptor] # "idle", place # "idle", Alive, N = 1, Sent(1)
  PROVE  K' <= 2 /\ (K' = 2 => /\ pc'[Acceptor] # "idle" /\ stream'[Acceptor] = "video"
                               /\ p2p'[Acceptor]["video"].sock = 2)
<1>1. /\ K' = K /\ stream'[Acceptor] = stream[Acceptor] /\ pc'[Acceptor] = place
      /\ p2p'[Acceptor][stream[Acceptor]] = p
  BY DEF Alters, K
<1>2. K <= 2 /\ (K = 2 => stream[Acceptor] = "video" /\ p2p[Acceptor]["video"].sock = 2)
  BY DEF Context, First, GoesOn
<1> QED BY <1>1, <1>2 DEF Current

LEMMA AcceptorFails ==
  ASSUME Context, IInv', pc[Acceptor] \in {"accept", "retry"},
         Failed(Acceptor), UNCHANGED <<stream, opened>>, request' = request, ringing' = ringing,
         NEW gone, gone \subseteq BagToSet(net), Carries(gone, {}), \A m \in gone : \E k : m.to = Acc(k),
         \A m \in BagToSet(net') : \A k \in 1..K : ~ Exchange(m, Acc(k)),
         Alive /\ ~ Sent(N) /\ K = N => N = 2 /\ ~ Named
  PROVE  First'
<1> USE SocketNames
<1>1. EndsInv /\ K # 0 /\ K \in Nat /\ stream[Acceptor] \in Streams /\ N \in Nat
  BY Places, Names DEF Context, IInv, EndsInv
<1>2. PICK p, place : Alters(Acceptor, p, place) /\ FailedTo(Acceptor, p, place)
  BY <1>1, FailedAlters, Names
<1>3. \/ /\ stream[Acceptor] = "video" /\ place = "throttle" /\ p.sock = Current(Acceptor).sock
         /\ p.peer = Current(Acceptor).peer
      \/ stream[Acceptor] = "audio" /\ place = "idle" /\ p.sock = 0 /\ p.peer = NoSocket
  <2>1. Current(Acceptor) \in P2Ps
    BY <1>1, Names DEF EndsInv, Current
  <2> QED BY <1>2, <2>1, Names DEF FailedTo, Null, P2P, P2Ps
<1>4. K' = K /\ pc'[Acceptor] = place /\ stream'[Acceptor] = stream[Acceptor] /\ EndStays(Initiator)
  BY <1>2, Names DEF Alters, K
<1>5. Apart(gone, {})
  <2>1. ASSUME NEW n, Unknown(n) PROVE \A s \in Streams : p2p'[Acceptor][s].peer # Ini(n)
    <3>1. p.peer # Ini(n)
      BY <1>1, <1>3, <2>1 DEF Unknown, Current
    <3> QED BY <1>2, <2>1, <3>1 DEF Alters, Unknown
  <2> QED BY <1>1, <1>4, <2>1, AcceptorApart
<1>6. AcceptorNumbers'
  <2>1. /\ stream[Acceptor] = "audio" /\ p.sock = 1 => p.peer \in {NoSocket, Ini(1)}
        /\ stream[Acceptor] = "video" /\ p.sock = 2 => p.peer \in {NoSocket, Ini(2)}
    BY <1>3 DEF Context, First, AcceptorNumbers, Current
  <2>2. p.sock \in {Current(Acceptor).sock, 0}
    BY <1>3
  <2> QED BY <1>1, <1>2, <1>5, <2>1, <2>2, AcceptorNumbersMove
<1>7. AcceptorAsks'
  BY <1>3, <1>4, AsksNothing
<1>8. \A k \in {1, 2} : ~ (Sent(k) /\ K' = k)
  BY <1>4, Unheard
<1>9. ASSUME Alive, ~ Sent(N)
      PROVE  /\ K' = N \/ K' = N - 1
             /\ K' = N => N = 2 /\ stream'[Acceptor] = "video" /\ pc'[Acceptor] = "throttle"
             /\ ~ Named /\ pc[Initiator] # "handshake"
  <2>1. Meets
    BY DEF Context, First
  <2>2. pc[Initiator] # "handshake"
    BY <1>9, Unheard
  <2>3. /\ K = N \/ K = N - 1
        /\ K = N => stream[Acceptor] = (IF N = 2 THEN "video" ELSE "audio")
        /\ Named => K = N
    BY <1>1, <1>9, <2>1 DEF Meets, Context
  <2> QED BY <1>3, <1>4, <1>9, <2>2, <2>3
<1>10. Alive /\ N = 1 /\ Sent(1) =>
           K' <= 2 /\ (K' = 2 => /\ pc'[Acceptor] # "idle" /\ stream'[Acceptor] = "video"
                                 /\ p2p'[Acceptor]["video"].sock = 2)
  <2>1. CASE place = "throttle"
    BY <1>2, <1>3, <2>1, SameStream
  <2>2. CASE place # "throttle"
    BY <1>3, <1>4, <2>2 DEF Context, First, GoesOn
  <2> QED BY <2>1, <2>2
<1>11. \A k \in {1, 2} : Sent(k) /\ K' = k =>
           Heeds(k)' \/ pc'[Acceptor] = "between" \/ (k = 2 /\ pc'[Acceptor] = "idle")
  BY <1>8
<1>12. ASSUME Alive, ~ Sent(N)
       PROVE  /\ K' = N \/ K' = N - 1
              /\ K' = N =>
                   /\ stream'[Acceptor] = (IF N = 2 THEN "video" ELSE "audio")
                   /\ pc'[Acceptor] \in {"accept", "handshake", "await 200"} \/ (N = 2 /\ pc'[Acceptor] = "throttle")
                   /\ N = 1 => \A m \in BagToSet(net') : m.from = Server /\ m.to = Acc(1) => m.text = "201"
              /\ Named => /\ K' = N /\ pc'[Acceptor] # "throttle"
                          /\ \A m \in BagToSet(net') : Exchange(m, Acc(N)) => m.text = "201"
              /\ pc[Initiator] = "handshake" => pc'[Acceptor] = "await 200"
  <2>1. /\ K' = N => N = 2 /\ N # 1 /\ stream'[Acceptor] = "video" /\ pc'[Acceptor] = "throttle"
        /\ ~ Named /\ pc[Initiator] # "handshake" /\ (K' = N \/ K' = N - 1)
    BY <1>9, <1>12
  <2> QED BY <2>1
<1> QED BY <1>5, <1>6, <1>7, <1>10, <1>11, <1>12, AcceptorGoes

LEMMA AcceptPeerFirst ==
  ASSUME Context, IInv', NEW m \in BagToSet(net), AcceptPeer(m), request' = request, ringing' = ringing
  PROVE  First'
<1> USE SocketNames
<1>1. /\ pc[Acceptor] = "accept" /\ CanRead(Acceptor, m) /\ Receive(m) /\ UNCHANGED <<stream, opened>>
      /\ EndsInv /\ NetInv /\ stream[Acceptor] \in Streams
  BY Names DEF AcceptPeer, Context, IInv, EndsInv
<1>2. /\ m.to = Acc(K) /\ m.from = Server /\ net[m] = 1 /\ m.text \in {"201", "203", "307"}
      /\ \A j \in BagToSet(net) : Exchange(j, Acc(K)) => j = m
      /\ Current(Acceptor).sock = K /\ K # 0 /\ K \in Nat /\ N \in Nat
  BY <1>1, AcceptorReads, Places DEF Context, IInv
<1>3. Carries({m}, {}) /\ {m} \subseteq BagToSet(net)
  BY <1>1, ReceiveCarries
<1>4. ASSUME NEW j \in BagToSet(net'), NEW k \in 1..K, Exchange(j, Acc(k)) PROVE FALSE
  <2>1. j \in BagToSet(net) /\ j # m
    BY <1>2, <1>3 DEF Carries
  <2>2. k = K
    BY <1>4, <2>1 DEF Context, First, AcceptorAsks
  <2> QED BY <1>2, <1>4, <2>1, <2>2
<1>5. Exchange(m, Acc(K))
  BY <1>2 DEF Exchange
<1>6. CASE m.text = "201"
  <2> DEFINE p == [Current(Acceptor) EXCEPT !.status = "Accepted", !.peer = m.address, !.network_type = network]
  <2>1. Set(Acceptor, p) /\ Goto(Acceptor, "handshake")
    BY <1>6 DEF AcceptPeer
  <2>2. p.sock = Current(Acceptor).sock /\ p.peer = m.address
    BY <1>1, SockIs, Names DEF P2Ps
  <2> HIDE DEF p
  <2>3. Alters(Acceptor, p, "handshake")
    BY <1>1, <2>1, SetAlters, Names
  <2>4. /\ K' = K /\ pc'[Acceptor] = "handshake" /\ stream'[Acceptor] = stream[Acceptor] /\ EndStays(Initiator)
    BY <2>3, Names DEF Alters, K
  <2>5. Apart({m}, {})
    <3>1. ASSUME NEW n, Unknown(n) PROVE \A s \in Streams : p2p'[Acceptor][s].peer # Ini(n)
      <4>1. p.peer # Ini(n)
        BY <2>2, <3>1 DEF Unknown
      <4> QED BY <2>3, <3>1, <4>1 DEF Alters, Unknown
    <3> QED BY <1>2, <1>3, <2>4, <3>1, AcceptorApart
  <2>6. AcceptorNumbers'
    <3>1. /\ stream[Acceptor] = "audio" /\ p.sock = 1 => p.peer \in {NoSocket, Ini(1)}
          /\ stream[Acceptor] = "video" /\ p.sock = 2 => p.peer \in {NoSocket, Ini(2)}
      BY <1>2, <1>6, <2>2 DEF Context, First, AcceptorNumbers, Current
    <3> QED BY <1>2, <2>2, <2>3, <2>5, <3>1, AcceptorNumbersMove
  <2>7. AcceptorAsks'
    BY <1>4, <2>4, AsksNothing
  <2>8. \A k \in {1, 2} : ~ (Sent(k) /\ K' = k)
    BY <1>1, <2>4, Unheard
  <2>9. ASSUME Alive, ~ Sent(N)
        PROVE  /\ K' = N \/ K' = N - 1
               /\ K' = N => /\ stream'[Acceptor] = (IF N = 2 THEN "video" ELSE "audio")
                            /\ N = 1 => \A j \in BagToSet(net') : j.from = Server /\ j.to = Acc(1) => j.text = "201"
               /\ Named => /\ K' = N
                           /\ \A j \in BagToSet(net') : Exchange(j, Acc(N)) => j.text = "201"
               /\ pc[Initiator] # "handshake"
    <3>1. Meets
      BY DEF Context, First
    <3>2. pc[Initiator] # "handshake"
      BY <1>1, <2>9, Unheard
    <3>3. \A j \in BagToSet(net') : j \in BagToSet(net)
      BY <1>3 DEF Carries
    <3>4. /\ K = N \/ K = N - 1
          /\ K = N => /\ stream[Acceptor] = (IF N = 2 THEN "video" ELSE "audio")
                      /\ N = 1 => \A j \in BagToSet(net) : j.from = Server /\ j.to = Acc(1) => j.text = "201"
          /\ Named => /\ K = N
                      /\ \A j \in BagToSet(net) : Exchange(j, Acc(N)) => j.text = "201"
      BY <2>9, <3>1 DEF Meets, Context
    <3> QED BY <2>4, <3>2, <3>3, <3>4
  <2>10. Alive /\ N = 1 /\ Sent(1) =>
           K' <= 2 /\ (K' = 2 => /\ pc'[Acceptor] # "idle" /\ stream'[Acceptor] = "video"
                                 /\ p2p'[Acceptor]["video"].sock = 2)
    BY <1>1, <2>2, <2>3, SameStream
  <2> QED BY <2>4, <2>5, <2>6, <2>7, <2>8, <2>9, <2>10, AcceptorGoes
<1>7. CASE m.text # "201"
  <2>1. Failed(Acceptor)
    BY <1>7 DEF AcceptPeer
  <2>2. Alive /\ ~ Sent(N) /\ K = N => N = 2 /\ ~ Named
    <3>1. Meets /\ N \in {1, 2}
      BY DEF Context, First, Numbers
    <3> QED BY <1>2, <1>5, <1>7, <3>1 DEF Meets
  <2> QED BY <1>1, <1>2, <1>3, <1>4, <2>1, <2>2, AcceptorFails
<1> QED BY <1>6, <1>7

\* A step on the acceptor's way to the handshake.
LEMMA AcceptorMoves ==
  ASSUME Context, IInv', NEW p, NEW place, Alters(Acceptor, p, place), NEW gone, NEW new, Apart(gone, new),
         p.sock = Current(Acceptor).sock, p.peer \in {Current(Acceptor).peer, NoSocket},
         \A m \in new : m.from # Server, AcceptorAsks',
         pc[Acceptor] \notin {"await 200", "between", "idle"}, place \in {"accept", "handshake", "await 200"},
         Alive /\ ~ Sent(N) =>
           /\ K = N => pc[Acceptor] \in {"accept", "handshake", "throttle"}
           /\ Named => \A m \in BagToSet(net') : Exchange(m, Acc(N)) => m \in BagToSet(net)
  PROVE  First'
<1>1. K # 0 /\ K \in Nat /\ EndsInv
  BY Places DEF Context, IInv
<1>2. K' = K /\ pc'[Acceptor] = place /\ stream'[Acceptor] = stream[Acceptor]
  BY DEF Alters, K
<1>3. AcceptorNumbers'
  <2>1. /\ stream[Acceptor] = "audio" /\ p.sock = 1 => p.peer \in {NoSocket, Ini(1)}
        /\ stream[Acceptor] = "video" /\ p.sock = 2 => p.peer \in {NoSocket, Ini(2)}
    BY DEF Context, First, AcceptorNumbers, Current
  <2> QED BY <1>1, <2>1, AcceptorNumbersMove
<1>4. \A k \in {1, 2} : ~ (Sent(k) /\ K' = k)
  BY <1>2, Unheard
<1>5. ASSUME Alive, ~ Sent(N)
      PROVE  /\ K' = N \/ K' = N - 1
             /\ K' = N => /\ stream'[Acceptor] = (IF N = 2 THEN "video" ELSE "audio")
                          /\ N = 1 => \A j \in BagToSet(net') : j.from = Server /\ j.to = Acc(1) => j.text = "201"
             /\ Named => /\ K' = N
                         /\ \A j \in BagToSet(net') : Exchange(j, Acc(N)) => j.text = "201"
             /\ pc[Initiator] # "handshake"
  <2>1. Meets
    BY DEF Context, First
  <2>2. pc[Initiator] # "handshake"
    BY <1>5, Unheard
  <2>3. \A j \in BagToSet(net') : j.from = Server => j \in BagToSet(net)
    BY DEF Apart, Carries
  <2>4. /\ K = N \/ K = N - 1
        /\ K = N => /\ stream[Acceptor] = (IF N = 2 THEN "video" ELSE "audio")
                    /\ N = 1 => \A j \in BagToSet(net) : j.from = Server /\ j.to = Acc(1) => j.text = "201"
        /\ Named => /\ K = N
                    /\ \A j \in BagToSet(net) : Exchange(j, Acc(N)) => j.text = "201"
    BY <1>5, <2>1 DEF Meets, Context
  <2> QED BY <1>2, <1>5, <2>2, <2>3, <2>4
<1>6. Alive /\ N = 1 /\ Sent(1) =>
        K' <= 2 /\ (K' = 2 => /\ pc'[Acceptor] # "idle" /\ stream'[Acceptor] = "video"
                              /\ p2p'[Acceptor]["video"].sock = 2)
  BY SameStream
<1> QED BY <1>2, <1>3, <1>4, <1>5, <1>6, AcceptorGoes

\* Nothing happens but that the acceptor asks whether it rings.
LEMMA NothingDone ==
  ASSUME Context, IInv', UNCHANGED <<netVars, p2p, stream, pc, opened, request>>,
         ~ ringing /\ request = NoRequest => ~ ringing'
  PROVE  First'
<1>1. /\ EndStays(Initiator) /\ EndStays(Acceptor) /\ Carries({}, {}) /\ {} \subseteq BagToSet(net)
      /\ K' = K /\ N' = N /\ net' = net /\ request' = request
  BY NothingCarried DEF EndStays, K, N, netVars
<1>2. Apart({}, {})
  <2>1. ASSUME NEW n, Unknown(n) PROVE \A s \in Streams : p2p'[Acceptor][s].peer # Ini(n)
    BY <2>1 DEF Unknown
  <2> QED BY <1>1, <2>1, AcceptorApart
<1>3. TalkStays(Acceptor) /\ SentStays
  BY <1>1, TalkKept, SentKept, Names
<1>4. AcceptorNumbers' /\ AcceptorAsks'
  BY <1>1, <1>3, AcceptorKept DEF Context, First
<1>5. Follows'
  <2>1. Follows /\ pc'[Acceptor] = pc[Acceptor]
    BY <1>1 DEF Context, First, EndStays
  <2>2. PICK none : none = {}
    OBVIOUS
  <2>3. Carries(none, none)
    BY <1>1, <2>2
  <2>4. \A m \in none : \A k \in {1, 2} :
          m.from = Ini(k) /\ m.to = Acc(k) => ~ (Sent(k) /\ K = k /\ pc[Acceptor] = "await 200")
    BY <2>2
  <2> QED BY <1>1, <1>3, <2>1, <2>3, <2>4, FollowsKept
<1>6. /\ N' = N /\ (\A k : (Sent(k)' <=> Sent(k))) /\ (Alive' <=> Alive) /\ (Named' <=> Named)
      /\ Before' /\ Numbers' /\ InitiatorAsks' /\ RequestIs' /\ ConnectInv'
      /\ N' = 1 => Unknown(2)'
  BY <1>2, ApartKeeps
<1>7. (Sent(N)' <=> Sent(N)) /\ Meets /\ GoesOn
  BY <1>6 DEF Sent, Ini, Acc, Context, First
<1>8. Meets'
  BY <1>1, <1>6, <1>7 DEF Meets, EndStays, Exchange, Acc
<1>9. GoesOn'
  BY <1>1, <1>6, <1>7 DEF GoesOn, EndStays
<1>10. (N = 1 => Unknown(2))'
  BY <1>6
<1> QED BY <1>4, <1>5, <1>6, <1>8, <1>9, <1>10 DEF First

LEMMA AcceptAgainFirst ==
  ASSUME Context, IInv', MaxLate > 0, late = 0, late' = 0,
         AcceptAgain, request' = request, ringing' = ringing
  PROVE  First'
<1> USE SocketNames
<1>1. /\ pc[Acceptor] = "throttle" /\ UNCHANGED <<stream, opened>>
      /\ EndsInv /\ NetInv /\ K # 0 /\ K \in Nat /\ Sock(Acceptor) = Acc(K) /\ stream[Acceptor] \in Streams
      /\ AcceptorAsks /\ Meets /\ N \in {1, 2}
  BY Places, Names DEF AcceptAgain, Context, IInv, EndsInv, First, Numbers
<1>2. stream[Acceptor] = "video"
  BY <1>1 DEF Context, PlacesInv, AcceptorPlaceInv
<1>3. \A m \in BagToSet(net) : \A k \in 1..K : ~ Exchange(m, Acc(k))
  BY <1>1 DEF AcceptorAsks
<1>4. ASSUME Set(Acceptor, [Current(Acceptor) EXCEPT !.status = "Idle", !.peer = NoSocket]),
             Send(Text(Sock(Acceptor), Server, "ACCEPT"), 1), Goto(Acceptor, "accept")
      PROVE  First'
  <2> DEFINE p == [Current(Acceptor) EXCEPT !.status = "Idle", !.peer = NoSocket]
             a == Text(Acc(K), Server, "ACCEPT")
  <2>1. p.sock = Current(Acceptor).sock /\ p.peer = NoSocket /\ Set(Acceptor, p)
    BY <1>1, <1>4, SockIs, Names DEF P2Ps
  <2>2. a.from = Acc(K) /\ a.to = Server /\ a.address = NoSocket /\ Send(a, 1)
    BY <1>1, <1>4 DEF Text
  <2> HIDE DEF p, a
  <2>3. Alters(Acceptor, p, "accept")
    BY <1>1, <1>4, <2>1, SetAlters, Names
  <2>4. K' = K /\ pc'[Acceptor] = "accept" /\ EndStays(Initiator)
    BY <2>3, Names DEF Alters, K
  <2>5. Carries({}, {a})
    BY <1>1, <2>2, SendOnce
  <2>6. AcceptorAsks'
    BY <1>1, <1>3, <2>4, <2>5, AsksAnew DEF a
  <2>7. Apart({}, {a})
    <3>1. ASSUME NEW n, Unknown(n) PROVE \A s \in Streams : p2p'[Acceptor][s].peer # Ini(n)
      BY <2>1, <2>3, <3>1 DEF Alters, Unknown
    <3> QED BY <2>2, <2>4, <2>5, <3>1, AcceptorApart
  <2>8. Alive /\ ~ Sent(N) => ~ Named
    BY <1>1 DEF Meets, Context
  <2>9. \A m \in {a} : m.from # Server
    BY <2>2
  <2>10. Alive /\ ~ Sent(N) =>
           /\ K = N => pc[Acceptor] \in {"accept", "handshake", "throttle"}
           /\ Named => \A m \in BagToSet(net') : Exchange(m, Acc(N)) => m \in BagToSet(net)
    BY <1>1, <2>8
  <2>11. pc[Acceptor] \notin {"await 200", "between", "idle"}
    BY <1>1
  <2>12. PICK none, new : none = {} /\ new = {a}
    OBVIOUS
  <2>13. Apart(none, new) /\ \A m \in new : m.from # Server
    BY <2>7, <2>9, <2>12
  <2> QED BY <2>1, <2>3, <2>6, <2>10, <2>11, <2>13, AcceptorMoves
<1>5. ASSUME Set(Acceptor, Null), Goto(Acceptor, "idle"), UNCHANGED netVars, CountLate(pc[Initiator] # "idle")
      PROVE  First'
  <2>1. pc[Initiator] = "idle"
    BY <1>5, PeerToPeerAssumption DEF CountLate
  <2>2. ~ Alive
    BY <2>1 DEF Alive
  <2>3. Null.sock = 0 /\ Null.peer = NoSocket
    BY DEF Null, P2P
  <2>4. Alters(Acceptor, Null, "idle")
    BY <1>1, <1>5, SetAlters, Names
  <2>5. K' = K /\ pc'[Acceptor] = "idle" /\ EndStays(Initiator)
    BY <2>4, Names DEF Alters, K
  <2>6. Carries({}, {}) /\ {} \subseteq BagToSet(net)
    BY <1>5, NothingCarried
  <2>7. Apart({}, {})
    <3>1. ASSUME NEW n, Unknown(n) PROVE \A s \in Streams : p2p'[Acceptor][s].peer # Ini(n)
      BY <2>3, <2>4, <3>1 DEF Alters, Unknown
    <3> QED BY <2>5, <2>6, <3>1, AcceptorApart
  <2>8. AcceptorNumbers'
    BY <1>1, <2>3, <2>4, <2>7, AcceptorNumbersMove
  <2>9. AcceptorAsks'
    BY <1>3, <1>5, <2>5, AsksNothing DEF netVars
  <2>10. \A k \in {1, 2} : ~ (Sent(k) /\ K' = k)
    BY <1>1, <2>5, Unheard
  <2> QED BY <2>2, <2>7, <2>8, <2>9, <2>10, AcceptorGoes
<1> QED BY <1>4, <1>5 DEF AcceptAgain

LEMMA HandshakeAsAcceptor ==
  ASSUME Context, IInv', HandshakePeer(Acceptor), request' = request, ringing' = ringing
  PROVE  First'
<1> USE SocketNames
<1>1. /\ pc[Acceptor] = "handshake" /\ UNCHANGED <<p2p, stream, opened>> /\ Goto(Acceptor, "await 200")
      /\ EndsInv /\ NetInv /\ K # 0 /\ K \in Nat /\ Sock(Acceptor) = Acc(K) /\ stream[Acceptor] \in Streams
      /\ AcceptorAsks /\ Current(Acceptor).peer # NoSocket /\ Current(Acceptor).peer \in Peers(Initiator)
  BY Places, SockIs, Names DEF HandshakePeer, ValidToHandshake, Context, IInv, EndsInv, First
<1> DEFINE a == Text(Acc(K), Current(Acceptor).peer, "200")
           n == (IF Current(Acceptor).network_type = "WEB" THEN 1 ELSE 0)
                  + (IF Acceptor = Initiator THEN 1 ELSE 0)
<1>2. /\ a.from = Acc(K) /\ a.to = Current(Acceptor).peer /\ a.address = NoSocket
      /\ a.to # Server /\ Server \notin {a.from, a.to}
  <2>1. Current(Acceptor).peer # Server
    <3>1. Current(Acceptor).peer \in Socket \cup {NoSocket}
      BY <1>1, SocketsOfAnEnd, Names
    <3> QED BY <3>1, Names
  <2>2. a.from = Acc(K) /\ a.to = Current(Acceptor).peer /\ a.address = NoSocket
    BY DEF Text
  <2>3. Acc(K) # Server
    OBVIOUS
  <2> HIDE DEF a
  <2> QED BY <2>1, <2>2, <2>3
<1>3. /\ IF n > 0 THEN Send(a, n) ELSE UNCHANGED netVars
      /\ n \in {0, 1}
  <2>1. n \in {0, 1}
    BY SocketNames
  <2>2. IF n > 0 THEN Send(Text(Sock(Acceptor), Current(Acceptor).peer, "200"), n) ELSE UNCHANGED netVars
    BY DEF HandshakePeer
  <2> QED BY <1>1, <2>1, <2>2
<1> HIDE DEF a, n
<1>4. PICK none, new : none = {} /\ Carries(none, new) /\ new \subseteq {a}
  <2>1. CASE n = 1
    <3>1. Send(a, 1)
      BY <1>3, <2>1
    <3>2. Carries({}, {a})
      BY <1>1, <3>1, SendOnce
    <3> QED BY <3>2
  <2>2. CASE n = 0
    <3>1. Carries({}, {})
      BY <1>3, <2>2, NothingCarried
    <3> QED BY <3>1
  <2> QED BY <1>3, <2>1, <2>2
<1>5. PICK p : p = Current(Acceptor)
  OBVIOUS
<1>6. Alters(Acceptor, p, "await 200")
  BY <1>1, <1>5, SetAlters, Names
<1>7. K' = K /\ pc'[Acceptor] = "await 200" /\ EndStays(Initiator)
  BY <1>6, Names DEF Alters, K
<1>8. ASSUME NEW m \in BagToSet(net'), NEW k, Exchange(m, Acc(k)) PROVE m \in BagToSet(net)
  BY <1>2, <1>4, <1>8 DEF Exchange, Carries
<1>9. \A m \in BagToSet(net) : \A k \in 1..K : ~ Exchange(m, Acc(k))
  BY <1>1 DEF AcceptorAsks
<1>10. AcceptorAsks'
  BY <1>7, <1>8, <1>9, AsksNothing
<1>11. Apart(none, new)
  <2>1. ASSUME NEW i, Unknown(i) PROVE /\ \A s \in Streams : p2p'[Acceptor][s].peer # Ini(i)
                                       /\ \A m \in new : m.address # Ini(i) /\ m.to # Ini(i)
    <3>1. Current(Acceptor).peer # Ini(i)
      BY <1>1, <2>1 DEF Unknown, Current
    <3> QED BY <1>1, <1>2, <1>4, <2>1, <3>1 DEF Unknown
  <2>2. none \subseteq BagToSet(net) /\ \A m \in none : \E k : m.to = Acc(k)
    BY <1>4
  <2>3. \A m \in new : \E k : m.from = Acc(k)
    BY <1>2, <1>4
  <2>4. (~ ringing /\ K = 0 => K' = 0) /\ (~ ringing /\ request = NoRequest => ~ ringing')
    BY <1>7
  <2>5. Carries(none, new) /\ EndStays(Initiator) /\ request' = request
    BY <1>4, <1>7
  <2> QED BY <2>1, <2>2, <2>3, <2>4, <2>5, AcceptorApart
<1>12. /\ \A m \in new : m.from # Server
       /\ pc[Acceptor] \notin {"await 200", "between", "idle"}
       /\ Alive /\ ~ Sent(N) =>
            /\ K = N => pc[Acceptor] \in {"accept", "handshake", "throttle"}
            /\ Named => \A m \in BagToSet(net') : Exchange(m, Acc(N)) => m \in BagToSet(net)
  BY <1>1, <1>2, <1>4, <1>8
<1> QED BY <1>5, <1>6, <1>10, <1>11, <1>12, AcceptorMoves

LEMMA HandshakeAcceptorFirst ==
  ASSUME Context, IInv', NEW m \in BagToSet(net), HandshakeAcceptor(m), request' = request, ringing' = ringing
  PROVE  First'
<1> USE SocketNames
<1>1. /\ pc[Acceptor] = "await 200" /\ CanRead(Acceptor, m) /\ UNCHANGED <<stream, opened>>
      /\ EndsInv /\ NetInv /\ stream[Acceptor] \in Streams /\ AcceptorAsks /\ Meets /\ Sock(Acceptor) = Acc(K)
      /\ N \in {1, 2} /\ K # 0
  <2>1. pc[Acceptor] = "await 200" /\ CanRead(Acceptor, m) /\ UNCHANGED <<stream, opened>>
    BY DEF HandshakeAcceptor
  <2>2. EndsInv /\ NetInv /\ AcceptorAsks /\ Meets /\ Numbers /\ N # 0 /\ PlacesInv
    BY DEF Context, IInv, First
  <2>3. stream[Acceptor] \in Streams /\ N \in {1, 2}
    BY <2>2, Names DEF EndsInv, Numbers
  <2>4. Sock(Acceptor) = Acc(K) /\ K # 0
    BY <2>1, <2>2, Places
  <2> QED BY <2>1, <2>2, <2>3, <2>4
<1>2. m.text = "200" /\ K \in {1, 2} /\ m.from = Ini(K) /\ Sent(K) /\ m.to = Acc(K)
  BY <1>1, AcceptorReads
<1> DEFINE p == Connected(Acceptor)
           a == Text(Acc(K), Ini(K), "200")
<1>3. Set(Acceptor, p) /\ Goto(Acceptor, "between") /\ Answer(m, a)
  BY <1>1, <1>2 DEF HandshakeAcceptor
<1>4. p.sock = Current(Acceptor).sock /\ p.peer = Current(Acceptor).peer
  BY <1>1, SockIs, Names DEF P2Ps, Connected
<1>5. a.from = Acc(K) /\ a.to = Ini(K) /\ a.address = NoSocket
  BY DEF Text
<1> HIDE DEF p, a
<1>6. PICK gone, new : gone = {m} /\ new = {a} /\ Carries(gone, new) /\ gone \subseteq BagToSet(net)
  <2>1. m # a
    BY <1>2, <1>5
  <2>2. Carries({m}, {a})
    BY <1>1, <1>3, <2>1, AnswerCarries
  <2> QED BY <2>2
<1>7. Alters(Acceptor, p, "between")
  BY <1>1, <1>3, SetAlters, Names
<1>8. /\ K' = K /\ pc'[Acceptor] = "between" /\ stream'[Acceptor] = stream[Acceptor] /\ EndStays(Initiator)
  BY <1>7, Names DEF Alters, K
<1>9. Apart(gone, new)
  <2>1. ASSUME NEW i, Unknown(i) PROVE /\ \A s \in Streams : p2p'[Acceptor][s].peer # Ini(i)
                                       /\ \A j \in new : j.address # Ini(i) /\ j.to # Ini(i)
    <3>1. Current(Acceptor).peer # Ini(i)
      BY <1>1, <2>1 DEF Unknown, Current
    <3>2. Ini(K) # Ini(i)
      <4>1. <<Ini(K), Acc(K)>>[1] # Ini(i)
        BY <1>2, <2>1 DEF Unknown, Sent
      <4> QED BY <4>1
    <3>3. \A s \in Streams : p2p'[Acceptor][s].peer # Ini(i)
      BY <1>4, <1>7, <2>1, <3>1 DEF Alters, Unknown
    <3> QED BY <1>5, <1>6, <3>2, <3>3
  <2> QED BY <1>2, <1>5, <1>6, <1>8, <2>1, AcceptorApart
<1>10. AcceptorNumbers'
  <2>1. /\ stream[Acceptor] = "audio" /\ p.sock = 1 => p.peer \in {NoSocket, Ini(1)}
        /\ stream[Acceptor] = "video" /\ p.sock = 2 => p.peer \in {NoSocket, Ini(2)}
    BY <1>4 DEF Context, First, AcceptorNumbers, Current
  <2>2. \A j \in new : j.from # Server
    BY <1>5, <1>6
  <2> QED BY <1>1, <1>4, <1>7, <1>9, <2>1, <2>2, AcceptorNumbersMove
<1>11. AcceptorAsks'
  <2>1. ASSUME NEW j \in BagToSet(net'), NEW k, Exchange(j, Acc(k)) PROVE j \in BagToSet(net)
    BY <1>5, <1>6, <2>1 DEF Exchange, Carries
  <2>2. \A j \in BagToSet(net) : \A k \in 1..K : ~ Exchange(j, Acc(k))
    BY <1>1 DEF AcceptorAsks
  <2> QED BY <1>8, <2>1, <2>2, AsksNothing
<1>12. ASSUME Alive, ~ Sent(N)
       PROVE  K' = N - 1 /\ K' # N /\ ~ Named /\ pc[Initiator] # "handshake"
  <2>1. (K = N \/ K = N - 1) /\ (Named => K = N)
    <3>1. N # 0
      BY DEF Context
    <3> QED BY <1>1, <1>12, <3>1, Zenon DEF Meets
  <2>3. K # N
    <3>1. Sent(K)
      BY <1>2
    <3>2. K = N => Sent(N)
      BY <3>1 DEF Sent
    <3> QED BY <1>12, <3>2
  <2>2. pc[Initiator] = "handshake" => Named
    BY Names DEF Context, PlacesInv, PlaceInv, Named
  <2> QED BY <1>8, <2>1, <2>2, <2>3
<1>13. Alive /\ N = 1 /\ Sent(1) =>
         K' <= 2 /\ (K' = 2 => /\ pc'[Acceptor] # "idle" /\ stream'[Acceptor] = "video"
                               /\ p2p'[Acceptor]["video"].sock = 2)
  BY <1>1, <1>4, <1>7, SameStream
<1> QED BY <1>8, <1>9, <1>10, <1>11, <1>12, <1>13, AcceptorGoes

LEMMA RetryOfAcceptor ==
  ASSUME Context, IInv', Retry(Acceptor), request' = request, ringing' = ringing
  PROVE  First'
<1>1. /\ pc[Acceptor] = "retry" /\ UNCHANGED <<stream, opened>> /\ ~ req[Acceptor].valid
      /\ AcceptorAsks /\ Meets
  BY Names DEF Retry, Context, PlacesInv, PlaceInv, First
<1>2. CASE Respond(Acceptor, "200", 1) /\ UNCHANGED <<p2p, pc, req>>
  <2>1. UNCHANGED netVars
    BY <1>1, <1>2 DEF Respond
  <2> QED BY <1>1, <1>2, <2>1, NothingDone
<1>3. CASE Failed(Acceptor) /\ UNCHANGED netVars
  <2>1. PICK none : none = {}
    OBVIOUS
  <2>2. Carries(none, {}) /\ none \subseteq BagToSet(net) /\ \A m \in none : \E k : m.to = Acc(k)
    BY <1>3, <2>1, NothingCarried
  <2>3. \A m \in BagToSet(net') : \A k \in 1..K : ~ Exchange(m, Acc(k))
    BY <1>1, <1>3 DEF AcceptorAsks, netVars
  <2>4. Alive /\ ~ Sent(N) => K # N
    BY <1>1 DEF Meets, Context
  <2> QED BY <1>1, <1>3, <2>2, <2>3, <2>4, AcceptorFails
<1> QED BY <1>2, <1>3 DEF Retry

\* The acceptor's connected P2P has shaken hands with the socket of its number.
LEMMA AcceptorConnected ==
  ASSUME Context, NEW s \in Streams, p2p[Acceptor][s].status = "Connected"
  PROVE  \E k \in {1, 2} : k <= N /\ Sent(k) /\ p2p[Acceptor][s].sock = k
<1> USE SocketNames
<1> DEFINE sock == p2p[Acceptor][s].sock
<1>1. PICK n \in 1..N : <<Ini(n), Acc(sock)>> \in sent_to
  <2>1. \E n \in 1..opened[Other(Acceptor)] : <<<<Other(Acceptor), n>>, <<Acceptor, sock>>>> \in sent_to
    BY ConnectedSocket, Names DEF Context
  <2> QED BY <2>1, Names DEF N, Ini, Acc
<1> HIDE DEF sock
<1> DEFINE pair == <<Ini(n), Acc(sock)>>
<1>2. pair[1] = Ini(n) /\ pair[2] = Acc(sock) /\ pair \in sent_to
  BY <1>1
<1> HIDE DEF pair
<1>3. PICK k \in {1, 2} : k <= N /\ pair = <<Ini(k), Acc(k)>>
  BY <1>2 DEF Context, First, Numbers
<1>4. Acc(sock) = Acc(k) /\ Sent(k)
  BY <1>2, <1>3 DEF Sent
<1>5. sock = k
  BY <1>4
<1> QED BY <1>3, <1>4, <1>5 DEF sock

\* The acceptor that is connected for video has done.
LEMMA AcceptorDone ==
  ASSUME Context, IInv', NextStream(Acceptor), stream[Acceptor] = "video",
         request' = request, ringing' = ringing
  PROVE  First'
<1> USE SocketNames
<1>1. /\ pc[Acceptor] = "between" /\ Goto(Acceptor, "idle") /\ UNCHANGED <<netVars, p2p, stream, opened>>
      /\ EndsInv /\ NetInv /\ PlacesInv
  BY DEF NextStream, Context, IInv
<1>2. PICK p : p = Current(Acceptor)
  OBVIOUS
<1>3. Alters(Acceptor, p, "idle")
  BY <1>1, <1>2, SetAlters, Names
<1>4. /\ K' = K /\ pc'[Acceptor] = "idle" /\ stream'[Acceptor] = stream[Acceptor] /\ EndStays(Initiator)
      /\ p2p' = p2p /\ net' = net
  BY <1>1, <1>3, Names DEF Alters, K, netVars
<1>5. Current(Acceptor).status = "Connected" /\ Current(Acceptor).sock = K /\ Current(Acceptor) = p2p[Acceptor]["video"]
  BY <1>1 DEF PlacesInv, AcceptorPlaceInv, Current
<1>6. PICK k0 \in {1, 2} : k0 <= N /\ Sent(k0) /\ K = k0
  BY <1>5, AcceptorConnected DEF Streams
<1>7. K = 2 /\ Sent(2) /\ N \in {2}
  <2>1. K # 1
    BY <1>5 DEF Context, First, AcceptorNumbers
  <2>2. N \in 0..2
    BY DEF Context, First, Numbers
  <2> QED BY <1>6, <2>1, <2>2
<1>8. PICK none, new : none = {} /\ new = {} /\ Carries(none, new)
  BY <1>1, NothingCarried
<1>9. Apart(none, new)
  <2>1. ASSUME NEW n, Unknown(n) PROVE /\ \A m \in new : m.address # Ini(n) /\ m.to # Ini(n)
                                       /\ \A s \in Streams : p2p'[Acceptor][s].peer # Ini(n)
    BY <1>4, <1>8, <2>1 DEF Unknown
  <2>2. none \subseteq BagToSet(net) /\ (\A m \in none : \E k : m.to = Acc(k)) /\ (\A m \in new : \E k : m.from = Acc(k))
    BY <1>8
  <2>3. (~ ringing /\ K = 0 => K' = 0) /\ (~ ringing /\ request = NoRequest => ~ ringing')
    BY <1>4
  <2> QED BY <1>4, <1>8, <2>1, <2>2, <2>3, AcceptorApart
<1>10. AcceptorNumbers'
  <2>1. /\ stream[Acceptor] = "audio" /\ p.sock = 1 => p.peer \in {NoSocket, Ini(1)}
        /\ stream[Acceptor] = "video" /\ p.sock = 2 => p.peer \in {NoSocket, Ini(2)}
    BY <1>2 DEF Context, First, AcceptorNumbers, Current
  <2>2. K # 0 /\ p.sock \in {Current(Acceptor).sock, 0} /\ \A m \in new : m.from # Server
    BY <1>2, <1>7, <1>8
  <2> QED BY <1>3, <1>9, <2>1, <2>2, AcceptorNumbersMove
<1>11. AcceptorAsks'
  <2>1. \A m \in BagToSet(net') : \A k \in 1..K : ~ Exchange(m, Acc(k))
    BY <1>1, <1>4 DEF Context, First, AcceptorAsks
  <2> QED BY <1>4, <2>1, AsksNothing
<1>12. ~ (Alive /\ ~ Sent(N))
  BY <1>7
<1>13. ~ (Alive /\ N = 1 /\ Sent(1))
  BY <1>7
<1>14. \A k \in {1, 2} : Sent(k) /\ K' = k =>
           Heeds(k)' \/ pc'[Acceptor] = "between" \/ (k = 2 /\ pc'[Acceptor] = "idle")
  BY <1>4, <1>7
<1> QED BY <1>9, <1>10, <1>11, <1>12, <1>13, <1>14, AcceptorGoes

\* The acceptor goes on to video.
LEMMA AcceptorGoesOn ==
  ASSUME Context, IInv', NextStream(Acceptor), stream[Acceptor] # "video",
         request' = request, ringing' = ringing
  PROVE  First'
<1> USE SocketNames
<1>1. /\ pc[Acceptor] = "between" /\ Construct(Acceptor, "video", "ACCEPT") /\ Goto(Acceptor, "accept")
      /\ EndsInv /\ NetInv /\ PlacesInv /\ AcceptorNumbers /\ Numbers /\ AcceptorAsks /\ Meets
  BY Names DEF NextStream, Context, IInv, First
<1>2. stream[Acceptor] = "audio"
  BY <1>1, Names DEF EndsInv, Streams
<1>3. /\ pc'[Acceptor] = "accept" /\ stream'[Acceptor] = "video" /\ K' = K + 1 /\ K' \in Nat \ {0}
      /\ p2p'[Acceptor]["video"] = P2P(K') /\ p2p'[Acceptor]["audio"] = p2p[Acceptor]["audio"]
      /\ EndStays(Initiator) /\ Send(Text(Acc(K'), Server, "ACCEPT"), 1)
  <2>1. "accept" \in PCs /\ "video" \in Streams
    BY DEF PCs, Streams
  <2>2. /\ pc'[Acceptor] = "accept" /\ stream'[Acceptor] = "video"
        /\ opened'[Acceptor] = opened[Acceptor] + 1 /\ opened[Acceptor] + 1 \in Nat \ {0}
        /\ p2p'[Acceptor]["video"] = P2P(opened[Acceptor] + 1) /\ p2p'[Acceptor]["audio"] = p2p[Acceptor]["audio"]
        /\ EndStays(Initiator)
        /\ Send(Text(<<Acceptor, opened[Acceptor] + 1>>, Server, "ACCEPT"), 1)
    BY <1>1, <2>1, Begins, Names
  <2> QED BY <2>2 DEF K, Acc
<1>4. K = 1 /\ Sent(1) /\ K' = 2 /\ p2p[Acceptor]["audio"].sock = 1
  <2>1. Current(Acceptor).status = "Connected" /\ Current(Acceptor).sock = K /\ Current(Acceptor) = p2p[Acceptor]["audio"]
    BY <1>1, <1>2 DEF PlacesInv, AcceptorPlaceInv, Current
  <2>2. PICK k0 \in {1, 2} : k0 <= N /\ Sent(k0) /\ K = k0
    BY <2>1, AcceptorConnected DEF Streams
  <2>3. K # 2
    <3>1. Sent(1) => K # 2
      BY <1>1, <2>1 DEF AcceptorNumbers
    <3>2. Sent(2) => Sent(1)
      BY <1>1 DEF Numbers
    <3> QED BY <2>2, <3>1, <3>2
  <2> QED BY <1>3, <2>1, <2>2, <2>3
<1> DEFINE a == Text(Acc(K'), Server, "ACCEPT")
<1>5. a.from = Acc(K') /\ a.to = Server /\ a.address = NoSocket
  BY DEF Text
<1>6. PICK none, new : none = {} /\ new = {a} /\ Carries(none, new)
  <2>1. Send(a, 1)
    BY <1>3
  <2> HIDE DEF a
  <2> QED BY <1>1, <2>1, SendOnce
<1>7. \A m \in BagToSet(net) : \A k \in 1..K' : ~ Exchange(m, Acc(k))
  <2>1. ASSUME NEW m \in BagToSet(net), NEW k \in 1..K' PROVE ~ Exchange(m, Acc(k))
    <3>1. k \in 1..K \/ (k \in Nat /\ k > K)
      BY <1>4
    <3>2. k \in 1..K => ~ Exchange(m, Acc(k))
      BY <1>1 DEF AcceptorAsks
    <3> QED BY <1>1, <2>1, <3>1, <3>2, NotYet
  <2> QED BY <2>1
<1>8. AcceptorAsks'
  BY <1>3, <1>6, <1>7, AsksAnew
<1> HIDE DEF a
<1>9. P2P(K').sock = K' /\ P2P(K').peer = NoSocket
  BY DEF P2P
<1>10. Apart(none, new)
  <2>1. ASSUME NEW n, Unknown(n) PROVE /\ \A m \in new : m.address # Ini(n) /\ m.to # Ini(n)
                                       /\ \A s \in Streams : p2p'[Acceptor][s].peer # Ini(n)
    <3>1. p2p'[Acceptor]["video"].peer # Ini(n) /\ p2p'[Acceptor]["audio"].peer # Ini(n)
      BY <1>3, <1>9, <2>1 DEF Unknown, Streams
    <3> QED BY <1>5, <1>6, <3>1 DEF Streams
  <2>2. none \subseteq BagToSet(net) /\ (\A m \in none : \E k : m.to = Acc(k)) /\ (\A m \in new : \E k : m.from = Acc(k))
    BY <1>5, <1>6
  <2>3. ~ ringing /\ K = 0 => K' = 0
    BY <1>4
  <2>4. ~ ringing /\ request = NoRequest => ~ ringing'
    OBVIOUS
  <2> QED BY <1>3, <1>6, <2>1, <2>2, <2>3, <2>4, AcceptorApart
<1>11. AcceptorNumbers'
  <2>1. \A k : (Sent(k)' <=> Sent(k))
    BY <1>10, ApartKeeps
  <2>2. \A k \in {1, 2} : Sent(k) => k <= K'
    BY <1>4
  <2>3. ASSUME NEW m \in BagToSet(net'), m.from = Server, m.text = "201"
        PROVE  (m.to = Acc(1) => m.address = Ini(1)) /\ m.to # Acc(2)
    <3>1. m \in BagToSet(net)
      BY <1>5, <1>6, <2>3 DEF Carries
    <3>2. m.to # Acc(2)
      BY <1>4, <1>7, <2>3, <3>1 DEF Exchange
    <3> QED BY <1>1, <2>3, <3>1, <3>2 DEF AcceptorNumbers
  <2>4. p2p'[Acceptor]["audio"].sock = 1 => p2p'[Acceptor]["audio"].peer \in {NoSocket, Ini(1)}
    BY <1>1, <1>3 DEF AcceptorNumbers
  <2> QED BY <1>3, <1>4, <1>9, <2>1, <2>2, <2>3, <2>4 DEF AcceptorNumbers, Ini, Acc
<1>12. ~ Sent(2)
  BY <1>1, <1>4 DEF AcceptorNumbers
<1>13. ASSUME Alive, ~ Sent(N)
       PROVE  K' = N /\ N = 2 /\ ~ Named /\ pc[Initiator] # "handshake"
  <2>1. N = 2
    BY <1>1, <1>4, <1>13 DEF Context, Numbers
  <2>2. Named => K = N
    BY <1>1, <1>13, <2>1 DEF Meets
  <2>3. pc[Initiator] = "handshake" => pc[Acceptor] = "await 200"
    BY <1>1, <1>13, <2>1 DEF Meets
  <2> QED BY <1>1, <1>4, <2>1, <2>2, <2>3
<1>14. \A k \in {1, 2} : ~ (Sent(k) /\ K' = k)
  BY <1>4, <1>12
<1>15. K' <= 2 /\ (K' = 2 => /\ pc'[Acceptor] # "idle" /\ stream'[Acceptor] = "video"
                             /\ p2p'[Acceptor]["video"].sock = 2)
  BY <1>3, <1>4, <1>9
<1> QED BY <1>3, <1>8, <1>10, <1>11, <1>13, <1>14, <1>15, AcceptorGoes

LEMMA NextStreamOfAcceptor ==
  ASSUME Context, IInv', NextStream(Acceptor), request' = request, ringing' = ringing
  PROVE  First'
BY AcceptorDone, AcceptorGoesOn

\* What times out when nothing is late has nothing on its way.
LEMMA NotTooLate ==
  ASSUME MaxLate > 0, late = 0, late' = 0, NEW untimely, TooLate(untimely)
  PROVE  ~ untimely
BY PeerToPeerAssumption DEF TooLate, CountLate, PeerToPeerAssumption

\* A question to the server, or the answer, is on its way.
LEMMA AskingIsNotStuck ==
  ASSUME NEW e \in Ends, pc[e] \in Waiting, NEW m \in BagToSet(net), Exchange(m, Sock(e))
  PROVE  ~ Stuck
<1>1. CASE m.to = Server
  BY <1>1 DEF Stuck
<1>2. CASE m.from = Server /\ m.to = Sock(e)
  BY <1>2 DEF Stuck, CanRead, Readable, Passes
<1> QED BY <1>1, <1>2 DEF Exchange

LEMMA TimeoutOfAcceptor ==
  ASSUME Context, IInv', MaxLate > 0, late = 0, late' = 0, Timeout(Acceptor)
  PROVE  First'
<1> USE SocketNames
<1>1. /\ pc[Acceptor] \in Waiting /\ Stuck /\ UNCHANGED <<netVars, stream, opened, request>> /\ ringing' = ringing
      /\ EndsInv /\ NetInv /\ PlacesInv /\ stream[Acceptor] \in Streams /\ net' = net
  <2>1. TooLate(~ Stuck) /\ pc[Acceptor] \in Waiting
    BY DEF Timeout
  <2>2. Stuck
    BY <2>1, NotTooLate
  <2>3. UNCHANGED <<netVars, stream, opened, request>> /\ ringing' = ringing
    BY DEF Timeout
  <2> QED BY <2>1, <2>2, <2>3, Names DEF Context, IInv, EndsInv, netVars
<1>2. /\ Sock(Acceptor) = Acc(K) /\ K # 0 /\ Current(Acceptor).sock = K
      /\ Before /\ Numbers /\ AcceptorNumbers /\ AcceptorAsks /\ InitiatorAsks /\ Follows /\ Meets
  <2>1. pc[Acceptor] \notin {"idle", "between"}
    BY <1>1 DEF Waiting
  <2> QED BY <1>1, <2>1, Places DEF Context, First
<1>3. pc[Acceptor] = "await 200"
  <2>1. pc[Acceptor] # "accept"
    <3>1. pc[Acceptor] = "accept" => \E m \in BagToSet(net) : Exchange(m, Sock(Acceptor))
      BY <1>2 DEF AcceptorAsks
    <3> QED BY <1>1, <3>1, AskingIsNotStuck, Names
  <2> QED BY <1>1, <2>1 DEF Waiting, PlacesInv, AcceptorPlaceInv
<1>4. Goto(Acceptor, "retry") /\ UNCHANGED p2p
  BY <1>3 DEF Timeout
<1>5. PICK p : p = Current(Acceptor)
  OBVIOUS
<1>6. Alters(Acceptor, p, "retry")
  BY <1>1, <1>4, <1>5, SetAlters, Names
<1>7. /\ K' = K /\ pc'[Acceptor] = "retry" /\ stream'[Acceptor] = stream[Acceptor] /\ EndStays(Initiator)
      /\ p2p' = p2p /\ net' = net
  BY <1>1, <1>4, <1>6, Names DEF Alters, K
<1>8. PICK none, new : none = {} /\ new = {} /\ Carries(none, new)
  BY <1>1, NothingCarried
<1>9. Apart(none, new)
  <2>1. ASSUME NEW n, Unknown(n) PROVE /\ \A m \in new : m.address # Ini(n) /\ m.to # Ini(n)
                                       /\ \A s \in Streams : p2p'[Acceptor][s].peer # Ini(n)
    BY <1>7, <1>8, <2>1 DEF Unknown
  <2>2. none \subseteq BagToSet(net) /\ (\A m \in none : \E k : m.to = Acc(k)) /\ (\A m \in new : \E k : m.from = Acc(k))
    BY <1>8
  <2>3. ~ ringing /\ K = 0 => K' = 0
    BY <1>7
  <2>4. ~ ringing /\ request = NoRequest => ~ ringing'
    BY <1>1
  <2>5. request' = request
    BY <1>1
  <2> QED BY <1>7, <1>8, <2>1, <2>2, <2>3, <2>4, <2>5, AcceptorApart
<1>10. AcceptorNumbers'
  <2>1. /\ stream[Acceptor] = "audio" /\ p.sock = 1 => p.peer \in {NoSocket, Ini(1)}
        /\ stream[Acceptor] = "video" /\ p.sock = 2 => p.peer \in {NoSocket, Ini(2)}
    BY <1>2, <1>5 DEF AcceptorNumbers, Current
  <2>2. K # 0 /\ p.sock \in {Current(Acceptor).sock, 0} /\ \A m \in new : m.from # Server
    BY <1>2, <1>5, <1>8
  <2> QED BY <1>6, <1>9, <2>1, <2>2, AcceptorNumbersMove
<1>11. AcceptorAsks'
  <2>1. \A m \in BagToSet(net') : \A k \in 1..K : ~ Exchange(m, Acc(k))
    BY <1>2, <1>3, <1>7 DEF AcceptorAsks
  <2> QED BY <1>7, <2>1, AsksNothing
<1>12. \A k \in {1, 2} : ~ (Sent(k) /\ K' = k)
  <2>1. ASSUME NEW k \in {1, 2}, Sent(k), K = k PROVE FALSE
    <3>1. PICK m \in BagToSet(net) : m.from = Ini(k) /\ m.to = Acc(k)
      BY <1>2, <1>3, <2>1 DEF Follows, Heeds
    <3>2. CanRead(Acceptor, m)
      BY <1>3, <2>1, <3>1, HeededPasses
    <3> QED BY <1>1, <3>1, <3>2, Names DEF Stuck
  <2> QED BY <1>7, <2>1
<1>13. ~ (Alive /\ ~ Sent(N))
  <2> SUFFICES ASSUME Alive, ~ Sent(N) PROVE FALSE
    OBVIOUS
  <2>1. pc[Initiator] \in {"connect", "ping", "pinged", "handshake"}
    BY <1>2 DEF Context, Meets
  <2>2. pc[Initiator] \in {"connect", "ping"}
    BY <1>1, <2>1, Names DEF Stuck, Waiting
  <2>3. Sock(Initiator) = Ini(N)
    BY <1>1, <2>2, Places
  <2>4. PICK m \in BagToSet(net) : Exchange(m, Sock(Initiator))
    BY <1>2, <2>2, <2>3 DEF InitiatorAsks
  <2>5. pc[Initiator] \in Waiting
    BY <2>2 DEF Waiting
  <2> QED BY <1>1, <2>4, <2>5, AskingIsNotStuck, Names
<1>14. Alive /\ N = 1 /\ Sent(1) =>
         K' <= 2 /\ (K' = 2 => /\ pc'[Acceptor] # "idle" /\ stream'[Acceptor] = "video"
                               /\ p2p'[Acceptor]["video"].sock = 2)
  BY <1>3, <1>5, <1>6, SameStream
<1> QED BY <1>9, <1>10, <1>11, <1>12, <1>13, <1>14, AcceptorGoes

LEMMA AcceptorStepFirst ==
  ASSUME Context, IInv', MaxLate > 0, late = 0, late' = 0, AcceptorStep
  PROVE  First'
<1>1. CASE /\ \/ \E m \in BagToSet(net) : AcceptPeer(m) \/ HandshakeAcceptor(m)
              \/ HandshakePeer(Acceptor) \/ Retry(Acceptor) \/ NextStream(Acceptor)
           /\ UNCHANGED <<request, ringing, called_off, late>>
  <2>1. request' = request /\ ringing' = ringing
    BY <1>1
  <2>2. CASE \E m \in BagToSet(net) : AcceptPeer(m) \/ HandshakeAcceptor(m)
    BY <2>1, <2>2, AcceptPeerFirst, HandshakeAcceptorFirst
  <2>3. CASE HandshakePeer(Acceptor) \/ Retry(Acceptor) \/ NextStream(Acceptor)
    BY <2>1, <2>3, HandshakeAsAcceptor, RetryOfAcceptor, NextStreamOfAcceptor
  <2> QED BY <1>1, <2>2, <2>3
<1>2. CASE AcceptAgain /\ UNCHANGED <<request, ringing, called_off>>
  BY <1>2, AcceptAgainFirst
<1>3. CASE Timeout(Acceptor)
  BY <1>3, TimeoutOfAcceptor
<1> QED BY <1>1, <1>2, <1>3 DEF AcceptorStep

(***************************************************************************)
(* The steps of the initiator.                                             *)
(***************************************************************************)

\* Its P2P is not constructed, and does not send to the acceptor.
Solo(gone, new) ==
  /\ EndStays(Acceptor) /\ N' = N /\ request' = request /\ NoConnect
  /\ gone \subseteq BagToSet(net) /\ Carries(gone, new)
  /\ \A m \in gone : m.to = Ini(N)
  /\ \A m \in new : m.from = Ini(N) /\ m.to = Server /\ m.address = NoSocket /\ m.text \in {"PING", "HANGUP"}

LEMMA SoloKeeps ==
  ASSUME Context, IInv', NEW gone, NEW new, Solo(gone, new)
  PROVE  /\ K' = K /\ (\A k : (Sent(k)' <=> Sent(k)))
         /\ Before' /\ AcceptorNumbers' /\ AcceptorAsks' /\ ConnectInv' /\ NoConnect' /\ Follows'
         /\ N' = 1 => Unknown(2)'
         /\ \A m \in BagToSet(net') : m.from = Server => m \in BagToSet(net)
         /\ \A m \in BagToSet(net') : \A k : Exchange(m, Acc(k)) => m \in BagToSet(net)
<1> USE SocketNames
<1>1. /\ EndStays(Acceptor) /\ N' = N /\ request' = request /\ NoConnect /\ Carries(gone, new) /\ gone \subseteq BagToSet(net)
      /\ \A m \in new : m.from = Ini(N) /\ m.to = Server /\ m.address = NoSocket /\ m.text \in {"PING", "HANGUP"}
      /\ \A m \in gone : m.to = Ini(N)
  BY DEF Solo
<1>2. TalkStays(Acceptor)
  <2>1. ASSUME NEW m \in gone \cup new PROVE ~ Talks(m, Acceptor)
    BY <1>1, <2>1 DEF Talks
  <2> QED BY <1>1, <2>1, TalkKept, Names
<1>3. SentStays
  <2>1. \A m \in new : Server \in {m.from, m.to}
    BY <1>1
  <2> QED BY <1>1, <2>1, SentKept
<1>4. \A k : (Sent(k)' <=> Sent(k))
  <2>1. ASSUME NEW k PROVE Sent(k)' <=> Sent(k)
    <3>1. <<Ini(k), Acc(k)>>[1][1] = Initiator
      OBVIOUS
    <3> QED BY <1>3, <3>1 DEF SentStays, Sent, Ini, Acc
  <2> QED BY <2>1
<1>5. K' = K /\ AcceptorAsks' /\ AcceptorNumbers'
  BY <1>1, <1>2, <1>3, AcceptorKept DEF Context, First
<1>6. ASSUME NEW m \in BagToSet(net') PROVE m \in BagToSet(net) \/ m \in new
  BY <1>1 DEF Carries
<1>7. NoConnect'
  BY <1>1, <1>6 DEF NoConnect, Is
<1>8. ConnectInv' /\ Before'
  BY <1>1, <1>7 DEF ConnectInv, NoConnect, Before, Context
<1>9. Follows'
  <2>1. \A m \in gone : \A k \in {1, 2} :
           m.from = Ini(k) /\ m.to = Acc(k) => ~ (Sent(k) /\ K = k /\ pc[Acceptor] = "await 200")
    BY <1>1
  <2>2. pc'[Acceptor] = pc[Acceptor]
    BY <1>1 DEF EndStays
  <2> QED BY <1>1, <1>3, <1>5, <2>1, <2>2, FollowsKept DEF Context, First
<1>10. N' = 1 => Unknown(2)'
  <2> SUFFICES ASSUME N = 1 PROVE Unknown(2)'
    BY <1>1
  <2>1. Unknown(2)
    BY DEF Context, First
  <2>2. \A m \in new : m.address # Ini(2) /\ m.to # Ini(2) /\ (m.to # Server => m.from # Ini(2))
    BY <1>1
  <2>3. (\A s \in Streams : p2p'[Acceptor][s].peer # Ini(2)) /\ request'.address # Ini(2)
    BY <1>1, <2>1 DEF EndStays, Unknown
  <2> QED BY <1>1, <2>1, <2>2, <2>3, UnknownKept
<1>11. ASSUME NEW m \in BagToSet(net') PROVE m.from = Server => m \in BagToSet(net)
  BY <1>1, <1>6
<1>12. ASSUME NEW m \in BagToSet(net'), NEW k, Exchange(m, Acc(k)) PROVE m \in BagToSet(net)
  BY <1>1, <1>6, <1>12 DEF Exchange
<1> QED BY <1>4, <1>5, <1>7, <1>8, <1>9, <1>10, <1>11, <1>12

LEMMA InitiatorGoes ==
  ASSUME Context, IInv', NEW gone, NEW new, Solo(gone, new), Numbers', InitiatorAsks', RequestIs',
         Alive' => Alive,
         Alive' /\ ~ Sent(N) =>
           /\ pc'[Initiator] \in {"connect", "ping", "pinged", "handshake"}
           /\ Named' => Named
           /\ pc'[Initiator] = "handshake" => pc[Acceptor] = "await 200"
  PROVE  First'
<1>1. /\ K' = K /\ (\A k : (Sent(k)' <=> Sent(k)))
      /\ Before' /\ AcceptorNumbers' /\ AcceptorAsks' /\ ConnectInv' /\ Follows' /\ (N' = 1 => Unknown(2)')
  BY SoloKeeps
<1>2. /\ N' = N /\ pc'[Acceptor] = pc[Acceptor] /\ stream'[Acceptor] = stream[Acceptor] /\ p2p'[Acceptor] = p2p[Acceptor]
  BY DEF Solo, EndStays
<1>3. Meets'
  <2> SUFFICES ASSUME Alive', ~ Sent(N)
               PROVE  /\ pc'[Initiator] \in {"connect", "ping", "pinged", "handshake"}
                      /\ K = N \/ K = N - 1
                      /\ K = N =>
                           /\ stream[Acceptor] = (IF N = 2 THEN "video" ELSE "audio")
                           /\ pc[Acceptor] \in {"accept", "handshake", "await 200"} \/ (N = 2 /\ pc[Acceptor] = "throttle")
                           /\ N = 1 => \A m \in BagToSet(net') : m.from = Server /\ m.to = Acc(1) => m.text = "201"
                      /\ Named' => /\ K = N /\ pc[Acceptor] # "throttle"
                                   /\ \A m \in BagToSet(net') : Exchange(m, Acc(N)) => m.text = "201"
                      /\ pc'[Initiator] = "handshake" => pc[Acceptor] = "await 200"
    BY <1>1, <1>2 DEF Meets, Acc, Exchange
  <2>1. /\ \A m \in BagToSet(net') : m.from = Server => m \in BagToSet(net)
        /\ \A m \in BagToSet(net') : \A k : Exchange(m, Acc(k)) => m \in BagToSet(net)
    BY SoloKeeps
  <2>2. Meets /\ N # 0
    BY DEF Context, First
  <2>3. /\ K = N \/ K = N - 1
        /\ K = N =>
             /\ stream[Acceptor] = (IF N = 2 THEN "video" ELSE "audio")
             /\ pc[Acceptor] \in {"accept", "handshake", "await 200"} \/ (N = 2 /\ pc[Acceptor] = "throttle")
             /\ N = 1 => \A m \in BagToSet(net) : m.from = Server /\ m.to = Acc(1) => m.text = "201"
        /\ Named => /\ K = N /\ pc[Acceptor] # "throttle"
                    /\ \A m \in BagToSet(net) : Exchange(m, Acc(N)) => m.text = "201"
    BY <2>2 DEF Meets
  <2>4. K = N /\ N = 1 => \A m \in BagToSet(net') : m.from = Server /\ m.to = Acc(1) => m.text = "201"
    BY <2>1, <2>3
  <2>5. Named => \A m \in BagToSet(net') : Exchange(m, Acc(N)) => m.text = "201"
    BY <2>1, <2>3
  <2> QED BY <2>3, <2>4, <2>5
<1>4. GoesOn'
  <2>1. Alive' /\ N' = 1 /\ Sent(1)' => Alive /\ N = 1 /\ Sent(1)
    BY <1>1, <1>2
  <2> QED BY <1>1, <1>2, <2>1 DEF GoesOn, Context, First
<1> QED BY <1>1, <1>3, <1>4 DEF First

LEMMA InitiatorNumbersMove ==
  ASSUME Context, NEW p, NEW place, Alters(Initiator, p, place), NEW gone, NEW new, Solo(gone, new),
         p.sock \in {Current(Initiator).sock, 0}, p.peer \in {Current(Initiator).peer, NoSocket, Acc(N)},
         IInv'
  PROVE  Numbers'
<1> USE SocketNames
<1>1. /\ N' = N /\ pc'[Initiator] = place /\ stream'[Initiator] = stream[Initiator]
      /\ p2p'[Initiator][stream[Initiator]] = p
      /\ \A s \in Streams \ {stream[Initiator]} : p2p'[Initiator][s] = p2p[Initiator][s]
  BY DEF Alters, Solo
<1>2. SentStays
  <2>1. Carries(gone, new) /\ \A m \in new : Server \in {m.from, m.to}
    BY DEF Solo
  <2> QED BY <2>1, SentKept
<1>3. \A k : (Sent(k)' <=> Sent(k))
  BY SoloKeeps
<1>4. Numbers /\ N # 0
  BY DEF Context, First
<1>5. \A q \in sent_to' : q[1][1] = Initiator => \E k \in {1, 2} : k <= N /\ q = <<Ini(k), Acc(k)>>
  BY <1>2, <1>4 DEF SentStays, Numbers
<1>6. N' = 2 \/ Sent(2)' => Sent(1)'
  BY <1>1, <1>3, <1>4 DEF Numbers
<1>7. N \in {1, 2} /\ stream[Initiator] = (IF N = 2 THEN "video" ELSE "audio")
  BY <1>4 DEF Numbers
<1>8. CASE N = 1
  <2>1. /\ p2p'[Initiator]["audio"] = p /\ p2p'[Initiator]["video"] = p2p[Initiator]["video"]
        /\ Current(Initiator) = p2p[Initiator]["audio"]
    BY <1>1, <1>7, <1>8 DEF Streams, Current
  <2> QED BY <1>1, <1>4, <1>5, <1>6, <1>7, <1>8, <2>1 DEF Numbers, Ini, Acc, Sent
<1>9. CASE N = 2
  <2>1. /\ p2p'[Initiator]["video"] = p /\ p2p'[Initiator]["audio"] = p2p[Initiator]["audio"]
        /\ Current(Initiator) = p2p[Initiator]["video"]
    BY <1>1, <1>7, <1>9 DEF Streams, Current
  <2> QED BY <1>1, <1>4, <1>5, <1>6, <1>7, <1>9, <2>1 DEF Numbers, Ini, Acc, Sent
<1> QED BY <1>7, <1>8, <1>9

\* It gives up this P2P.
LEMMA InitiatorStops ==
  ASSUME Context, IInv', NEW gone, NEW new, Solo(gone, new), NEW p, NEW place, Alters(Initiator, p, place),
         p.sock \in {Current(Initiator).sock, 0}, p.peer \in {Current(Initiator).peer, NoSocket},
         \/ place \in {"hangup", "give up", "idle"}
         \/ place \in {"between", "pinged"} /\ p.status \notin {"Awaiting", "Accepted", "Connected"}
  PROVE  First'
<1>1. Numbers'
  BY InitiatorNumbersMove
<1>2. /\ pc'[Initiator] = place /\ Current(Initiator)' = p /\ N' = N
  BY DEF Alters, Current, Solo
<1>3. ~ Alive' /\ ~ Trying' /\ pc'[Initiator] \notin {"connect", "ping"}
  BY <1>2 DEF Alive, Trying
<1>4. /\ (\A k : (Sent(k)' <=> Sent(k))) /\ NoConnect' /\ request' = request
  BY SoloKeeps DEF Solo
<1>5. RequestIs /\ InitiatorAsks
  BY DEF Context, First
<1>6. RequestIs'
  <2>1. request' # NoRequest => request'.address = Ini(N')
    BY <1>2, <1>4, <1>5 DEF RequestIs
  <2>2. N' # 0 /\ Sent(N)' => request' = NoRequest /\ NoConnect'
    <3>1. Sent(N)' => Sent(N)
      BY <1>2, <1>4 DEF Sent
    <3> QED BY <1>2, <1>4, <1>5, <3>1 DEF RequestIs
  <2> QED BY <1>3, <2>1, <2>2 DEF RequestIs, Ini
<1>7. InitiatorAsks'
  <2>1. \A m \in BagToSet(net') : Is(m, "PING") => m.from = Ini(N)
    BY <1>5 DEF Solo, Carries, InitiatorAsks
  <2> QED BY <1>2, <1>3, <2>1 DEF InitiatorAsks, Ini, Is
<1> QED BY <1>1, <1>3, <1>6, <1>7, InitiatorGoes

\* A CONNECT that has been answered, or is none, is not on its way.
LEMMA NoConnectOnTheWay ==
  ASSUME Context, pc[Initiator] # "connect" \/ \E m \in BagToSet(net) : m.to = Ini(N)
  PROVE  NoConnect
BY DEF Context, First, ConnectInv, NoConnect, Unknown

LEMMA SoloStill ==
  ASSUME Context, EndStays(Acceptor), N' = N, request' = request, pc[Initiator] # "connect", UNCHANGED netVars
  PROVE  \E gone, new : Solo(gone, new) /\ gone = {} /\ new = {}
<1>1. PICK gone, new : gone = {} /\ new = {} /\ Carries(gone, new)
  BY NothingCarried
<1>2. Solo(gone, new)
  BY <1>1, NoConnectOnTheWay DEF Solo
<1> QED BY <1>1, <1>2

LEMMA SoloReads ==
  ASSUME Context, EndStays(Acceptor), N' = N, request' = request,
         NEW m \in BagToSet(net), m.to = Ini(N), Receive(m)
  PROVE  \E gone, new : Solo(gone, new) /\ gone = {m} /\ new = {}
<1>1. NetInv
  BY DEF Context, IInv
<1>2. Carries({m}, {})
  BY <1>1, ReceiveCarries
<1>3. PICK gone, new : gone = {m} /\ new = {} /\ Carries(gone, new)
  BY <1>2
<1>4. NoConnect
  BY NoConnectOnTheWay
<1>5. Solo(gone, new)
  BY <1>3, <1>4 DEF Solo
<1> QED BY <1>3, <1>5

LEMMA SoloSends ==
  ASSUME Context, EndStays(Acceptor), N' = N, request' = request, pc[Initiator] # "connect",
         NEW command \in {"PING", "HANGUP"}, Send(Text(Ini(N), Server, command), 1)
  PROVE  \E gone, new : Solo(gone, new) /\ gone = {} /\ new = {Text(Ini(N), Server, command)}
<1> DEFINE a == Text(Ini(N), Server, command)
<1>1. NetInv /\ Send(a, 1)
  BY DEF Context, IInv
<1>2. a.from = Ini(N) /\ a.to = Server /\ a.address = NoSocket /\ a.text \in {"PING", "HANGUP"}
  BY DEF Text
<1> HIDE DEF a
<1>3. Carries({}, {a})
  BY <1>1, SendOnce
<1>4. PICK gone, new : gone = {} /\ new = {a} /\ Carries(gone, new)
  BY <1>3
<1>5. Solo(gone, new)
  BY <1>2, <1>4, NoConnectOnTheWay DEF Solo
<1> QED BY <1>4, <1>5 DEF a

LEMMA SoloAnswers ==
  ASSUME Context, EndStays(Acceptor), N' = N, request' = request, NEW m \in BagToSet(net), m.to = Ini(N),
         Answer(m, Text(Ini(N), Server, "PING"))
  PROVE  \E gone, new : Solo(gone, new) /\ gone = {m} /\ new = {Text(Ini(N), Server, "PING")}
<1> USE SocketNames
<1> DEFINE a == Text(Ini(N), Server, "PING")
<1>1. NetInv /\ Answer(m, a)
  BY DEF Context, IInv
<1>2. a.from = Ini(N) /\ a.to = Server /\ a.address = NoSocket /\ a.text \in {"PING", "HANGUP"}
  BY DEF Text
<1> HIDE DEF a
<1>3. Carries({m}, {a})
  <2>1. m # a
    BY <1>2
  <2> QED BY <1>1, <2>1, AnswerCarries
<1>4. PICK gone, new : gone = {m} /\ new = {a} /\ Carries(gone, new)
  BY <1>3
<1>5. NoConnect
  BY NoConnectOnTheWay
<1>6. Solo(gone, new)
  BY <1>2, <1>4, <1>5 DEF Solo
<1> QED BY <1>4, <1>6 DEF a

LEMMA InitiatorFails ==
  ASSUME Context, IInv', NEW gone, NEW new, Solo(gone, new), Failed(Initiator), UNCHANGED <<stream, opened>>
  PROVE  First'
<1>1. EndsInv
  BY DEF Context, IInv
<1>2. PICK p, place : Alters(Initiator, p, place) /\ FailedTo(Initiator, p, place)
  BY <1>1, FailedAlters, Names
<1>3. p = Null /\ place \in {"idle", "between"}
  BY <1>2, Names DEF FailedTo
<1>4. p.sock = 0 /\ p.peer = NoSocket /\ p.status = "Idle"
  BY <1>3 DEF Null, P2P
<1> QED BY <1>2, <1>3, <1>4, InitiatorStops

LEMMA InitiatorPings ==
  ASSUME Context, IInv', NEW gone, NEW new, Solo(gone, new), new = {Text(Ini(N), Server, "PING")},
         NEW p, Alters(Initiator, p, "ping"), p.status = "Awaiting", p.sock = Current(Initiator).sock,
         p.peer = Current(Initiator).peer, Trying, pc[Initiator] # "ping"
  PROVE  First'
<1> USE SocketNames
<1> DEFINE a == Text(Ini(N), Server, "PING")
<1>1. a.from = Ini(N) /\ a.to = Server /\ a.text = "PING" /\ new = {a}
  BY DEF Text
<1> HIDE DEF a
<1>2. /\ pc'[Initiator] = "ping" /\ Current(Initiator)' = p /\ N' = N /\ request' = request
      /\ NoConnect /\ Carries(gone, new)
  BY DEF Alters, Current, Solo
<1>3. /\ (\A k : (Sent(k)' <=> Sent(k))) /\ NoConnect'
  BY SoloKeeps
<1>4. RequestIs /\ InitiatorAsks
  BY DEF Context, First
<1>5. Alive
  BY DEF Alive, Trying
<1>6. \A m \in BagToSet(net) : ~ Pings(m, Ini(N)) /\ ~ Is(m, "HANGUP")
  BY <1>4, <1>5 DEF InitiatorAsks
<1>7. \A m \in BagToSet(net') : m \in BagToSet(net) \/ m = a
  BY <1>1, <1>2 DEF Carries
<1>8. a \in BagToSet(net') /\ net'[a] = 1 /\ Exchange(a, Ini(N))
  <2>1. a \notin BagToSet(net)
    BY <1>1, <1>6 DEF Pings, Is
  <2> QED BY <1>1, <1>2, <2>1 DEF Carries, Exchange
<1>9. InitiatorAsks'
  <2>1. \A m \in BagToSet(net') : Is(m, "PING") => m.from = Ini(N)
    BY <1>1, <1>4, <1>7 DEF InitiatorAsks
  <2>2. \A m \in BagToSet(net') : Pings(m, Ini(N)) => m = a
    BY <1>6, <1>7
  <2>3. \A m \in BagToSet(net') : Pings(m, Ini(N)) =>
         net'[m] = 1 /\ \A j \in BagToSet(net') : Pings(j, Ini(N)) => j = m
    BY <1>8, <2>2
  <2>4. \A m \in BagToSet(net') : ~ Is(m, "HANGUP")
    BY <1>1, <1>6, <1>7 DEF Is
  <2> QED BY <1>2, <1>8, <2>1, <2>3, <2>4 DEF InitiatorAsks, Exchange, Pings, Is, Ini
<1>10. ~ Answered /\ request # NoRequest /\ request.peer_address \in {NoSocket, Acc(N)}
  BY <1>2, <1>4 DEF RequestIs
<1>11. \A m \in BagToSet(net') : ~ (m.from = Server /\ m.to = Ini(N) /\ m.text = "201")
  BY <1>1, <1>7, <1>10 DEF Answered, Answers
<1>12. ~ Answered' /\ (\A m \in BagToSet(net') : ~ Answers(m)')
  BY <1>2, <1>11 DEF Answered, Answers, Ini
<1>13. RequestIs'
  <2>1. request'.address = Ini(N')
    BY <1>2, <1>4, <1>10 DEF RequestIs
  <2>2. Trying'
    BY <1>2 DEF Trying
  <2>3. ~ Sent(N)'
    <3>1. ~ Sent(N)
      BY <1>4, <1>10 DEF RequestIs, Context
    <3> QED BY <1>2, <1>3, <3>1 DEF Sent
  <2>4. request' # NoRequest /\ request'.peer_address \in {NoSocket, Acc(N')}
    BY <1>2, <1>10
  <2> QED BY <1>12, <2>1, <2>2, <2>3, <2>4 DEF RequestIs, Ini, Acc
<1>14. Numbers'
  <2>1. p.sock \in {Current(Initiator).sock, 0} /\ p.peer \in {Current(Initiator).peer, NoSocket, Acc(N)}
    OBVIOUS
  <2> QED BY <2>1, InitiatorNumbersMove
<1>15. Named' => Named
  BY <1>2, <1>12 DEF Named
<1> QED BY <1>2, <1>5, <1>9, <1>13, <1>14, <1>15, InitiatorGoes

LEMMA ConnectPeerFirst ==
  ASSUME Context, IInv', NEW m \in BagToSet(net), ConnectPeer(m), request' = request
  PROVE  First'
<1> USE SocketNames
<1>1. /\ pc[Initiator] = "connect" /\ CanRead(Initiator, m) /\ UNCHANGED <<stream, opened>>
      /\ EndsInv /\ PlacesInv /\ InitiatorAsks
  BY DEF ConnectPeer, Context, IInv, First
<1>2. /\ m.to = Ini(N) /\ Sock(Initiator) = Ini(N) /\ Current(Initiator) \in P2Ps
      /\ \/ m.from = Server /\ m.text \in Codes
         \/ m.from # Server /\ m.text = "200"
  BY <1>1, InitiatorReads, Places, SockIs, Names
<1>3. Alive /\ Trying
  BY <1>1 DEF Alive, Trying
<1>4. m.text \in {"200", "306"}
  BY <1>1, <1>2, <1>3 DEF InitiatorAsks, Pings, Codes
<1> DEFINE p == [Current(Initiator) EXCEPT !.status = "Awaiting"]
<1>5. Answer(m, Text(Ini(N), Server, "PING")) /\ Set(Initiator, p) /\ Goto(Initiator, "ping")
  BY <1>2, <1>4 DEF ConnectPeer
<1>6. p.status = "Awaiting" /\ p.sock = Current(Initiator).sock /\ p.peer = Current(Initiator).peer
  BY <1>2 DEF P2Ps
<1> HIDE DEF p
<1>7. Alters(Initiator, p, "ping")
  BY <1>1, <1>5, SetAlters, Names
<1>8. EndStays(Acceptor) /\ N' = N
  BY <1>1, <1>7, Names DEF Alters, N
<1>9. PICK gone, new : Solo(gone, new) /\ gone = {m} /\ new = {Text(Ini(N), Server, "PING")}
  BY <1>2, <1>5, <1>8, SoloAnswers
<1> QED BY <1>1, <1>3, <1>6, <1>7, <1>9, InitiatorPings

\* It comes nearer to being connected, and sends nothing.
LEMMA InitiatorOn ==
  ASSUME Context, IInv', NEW gone, NEW new, Solo(gone, new), new = {}, NEW p, NEW place, Alters(Initiator, p, place),
         p.sock \in {Current(Initiator).sock, 0}, p.peer \in {Current(Initiator).peer, NoSocket, Acc(N)},
         Alive, p.status \in {"Awaiting", "Accepted", "Connected"},
         place \in {"pinged", "handshake", "await 200", "retry", "between"},
         \A m \in BagToSet(net') : ~ Pings(m, Ini(N)),
         place = "pinged" /\ p.status = "Awaiting" =>
           request # NoRequest /\ request.peer_address \in {NoSocket, Acc(N)},
         ~ (place = "pinged" /\ p.status = "Awaiting") => request = NoRequest,
         ~ Sent(N) => /\ place \in {"pinged", "handshake"} /\ (Named' => Named)
                      /\ place = "handshake" => pc[Acceptor] = "await 200"
  PROVE  First'
<1>1. /\ pc'[Initiator] = place /\ Current(Initiator)' = p /\ N' = N /\ request' = request
  BY DEF Alters, Current, Solo
<1>2. /\ (\A k : (Sent(k)' <=> Sent(k))) /\ NoConnect'
  BY SoloKeeps
<1>3. RequestIs /\ InitiatorAsks
  BY DEF Context, First
<1>4. \A m \in BagToSet(net') : m \in BagToSet(net)
  BY DEF Solo, Carries
<1>5. Numbers'
  BY InitiatorNumbersMove
<1>6. InitiatorAsks'
  <2>1. \A m \in BagToSet(net') : (Is(m, "PING") => m.from = Ini(N)) /\ ~ Is(m, "HANGUP")
    BY <1>3, <1>4 DEF InitiatorAsks
  <2>2. pc'[Initiator] \notin {"connect", "ping"}
    BY <1>1
  <2> QED BY <1>1, <2>1, <2>2 DEF InitiatorAsks, Pings, Is, Ini
<1>7. \A m \in BagToSet(net') : ~ (m.from = Server /\ m.to = Ini(N) /\ m.text = "201")
  BY DEF Pings
<1>8. ~ Answered' /\ (\A m \in BagToSet(net') : ~ Answers(m)')
  BY <1>1, <1>7 DEF Answered, Answers, Ini
<1>9. Trying' <=> (place = "pinged" /\ p.status = "Awaiting")
  BY <1>1 DEF Trying
<1>10. RequestIs'
  <2>1. request' # NoRequest => request'.address = Ini(N')
    BY <1>1, <1>3 DEF RequestIs
  <2>2. Sent(N)' => Sent(N)
    BY <1>1, <1>2 DEF Sent
  <2>3. Sent(N)' => request' = NoRequest /\ NoConnect'
    BY <1>1, <1>2, <1>3, <2>2 DEF RequestIs, Context
  <2>4. Trying' => request' # NoRequest /\ request'.peer_address \in {NoSocket, Acc(N')}
    BY <1>1, <1>9
  <2>5. ~ Trying' => request' = NoRequest
    BY <1>1, <1>9
  <2> QED BY <1>8, <2>1, <2>3, <2>4, <2>5 DEF RequestIs, Ini, Acc
<1> QED BY <1>1, <1>5, <1>6, <1>10, InitiatorGoes

LEMMA PingPeerFirst ==
  ASSUME Context, IInv', NEW m \in BagToSet(net), PingPeer(m), request' = request
  PROVE  First'
<1> USE SocketNames
<1>1. /\ pc[Initiator] = "ping" /\ CanRead(Initiator, m) /\ Receive(m) /\ UNCHANGED <<stream, opened>>
      /\ Goto(Initiator, "pinged") /\ EndsInv /\ PlacesInv /\ InitiatorAsks /\ RequestIs
  BY DEF PingPeer, Context, IInv, First
<1>2. /\ m.to = Ini(N) /\ Current(Initiator) \in P2Ps
      /\ \/ m.from = Server /\ m.text \in Codes
         \/ m.from # Server /\ m.text = "200"
  BY <1>1, InitiatorReads, SockIs, Names
<1>3. Alive /\ Trying
  BY <1>1 DEF Alive, Trying
<1>4. EndStays(Acceptor) /\ N' = N
  BY <1>1, Names DEF PingPeer, EndStays, N, Set, Goto, EndsInv
<1>5. PICK gone, new : Solo(gone, new) /\ gone = {m} /\ new = {}
  BY <1>1, <1>2, <1>4, SoloReads
<1>6. NoConnect /\ Carries(gone, new)
  BY <1>5 DEF Solo
<1>7. ASSUME m.text \in {"201", "203"}
      PROVE  (\A j \in BagToSet(net') : ~ Pings(j, Ini(N))) /\ (m.text = "201" => Answers(m))
             /\ (\A j \in BagToSet(net) : Answers(j) => j = m)
  <2>1. Pings(m, Ini(N)) /\ m.from = Server
    BY <1>2, <1>7 DEF Pings
  <2>2. net[m] = 1 /\ \A j \in BagToSet(net) : Pings(j, Ini(N)) => j = m
    BY <1>1, <2>1 DEF InitiatorAsks
  <2>3. \A j \in BagToSet(net') : j \in BagToSet(net) /\ j # m
    BY <1>5, <1>6, <2>2 DEF Carries
  <2>4. \A j \in BagToSet(net) : Answers(j) => Pings(j, Ini(N))
    BY DEF Answers, Pings
  <2> QED BY <1>2, <2>1, <2>2, <2>3, <2>4 DEF Answers
<1>8. CASE m.text = "201"
  <2> DEFINE p == [Current(Initiator) EXCEPT !.status = "Accepted", !.peer = m.address, !.network_type = network]
  <2>1. Set(Initiator, p)
    BY <1>8 DEF PingPeer
  <2>2. p.status = "Accepted" /\ p.sock = Current(Initiator).sock /\ p.peer = m.address
    BY <1>2 DEF P2Ps
  <2> HIDE DEF p
  <2>3. Alters(Initiator, p, "pinged")
    BY <1>1, <2>1, SetAlters, Names
  <2>4. Answers(m) /\ \A j \in BagToSet(net') : ~ Pings(j, Ini(N))
    BY <1>7, <1>8
  <2>5. Answered /\ Named
    BY <2>4 DEF Answered, Named
  <2>6. m.address = Acc(N)
    BY <1>1, <1>3, <2>4 DEF RequestIs
  <2>7. request = NoRequest
    BY <1>1, <1>3, <1>6, <2>5 DEF RequestIs
  <2>8. ~ Sent(N) => ("pinged" \in {"pinged", "handshake"} /\ (Named' => Named)
                      /\ ("pinged" = "handshake" => pc[Acceptor] = "await 200"))
    BY <2>5
  <2>9. p.status \in {"Awaiting", "Accepted", "Connected"} /\ p.status # "Awaiting"
    BY <2>2
  <2> QED BY <1>3, <1>5, <2>2, <2>3, <2>4, <2>6, <2>7, <2>8, <2>9, InitiatorOn
<1>9. CASE m.text = "203"
  <2> DEFINE p == [Current(Initiator) EXCEPT !.status = "Awaiting"]
  <2>1. Set(Initiator, p)
    BY <1>9 DEF PingPeer
  <2>2. p.status = "Awaiting" /\ p.sock = Current(Initiator).sock /\ p.peer = Current(Initiator).peer
    BY <1>2 DEF P2Ps
  <2> HIDE DEF p
  <2>3. Alters(Initiator, p, "pinged")
    BY <1>1, <2>1, SetAlters, Names
  <2>4. (\A j \in BagToSet(net') : ~ Pings(j, Ini(N))) /\ \A j \in BagToSet(net) : Answers(j) => j = m
    BY <1>7, <1>9
  <2>5. ~ Answered
    BY <1>9, <2>4 DEF Answered, Answers
  <2>6. request # NoRequest /\ request.peer_address \in {NoSocket, Acc(N)}
    BY <1>1, <1>3, <1>6, <2>5 DEF RequestIs
  <2>7. Named' => Named
    <3>1. Current(Initiator)' = p /\ request' = request
      BY <2>3 DEF Alters, Current
    <3>2. \A j \in BagToSet(net') : ~ (j.from = Server /\ j.to = Ini(N) /\ j.text = "201")
      BY <2>4 DEF Pings
    <3>3. ~ Answered'
      BY <1>4, <3>2 DEF Answered, Answers, Ini
    <3> QED BY <2>2, <3>1, <3>3 DEF Named
  <2>8. ~ Sent(N) => ("pinged" \in {"pinged", "handshake"} /\ (Named' => Named)
                      /\ ("pinged" = "handshake" => pc[Acceptor] = "await 200"))
    BY <2>7
  <2> QED BY <1>3, <1>5, <2>2, <2>3, <2>4, <2>6, <2>8, InitiatorOn
<1>10. CASE m.text \notin {"201", "203"}
  <2> DEFINE p == [Current(Initiator) EXCEPT !.status = "Error"]
  <2>1. Set(Initiator, p)
    BY <1>10 DEF PingPeer
  <2>2. p.status = "Error" /\ p.sock = Current(Initiator).sock /\ p.peer = Current(Initiator).peer
    BY <1>2 DEF P2Ps
  <2> HIDE DEF p
  <2>3. Alters(Initiator, p, "pinged")
    BY <1>1, <2>1, SetAlters, Names
  <2> QED BY <1>5, <2>2, <2>3, InitiatorStops
<1> QED BY <1>8, <1>9, <1>10

LEMMA InitiatorAlters ==
  ASSUME NEW p, NEW place, Alters(Initiator, p, place)
  PROVE  EndStays(Acceptor) /\ N' = N
BY Names DEF Alters, N

LEMMA FailedIsSolo ==
  ASSUME Context, Failed(Initiator), UNCHANGED <<stream, opened>>
  PROVE  EndStays(Acceptor) /\ N' = N
BY FailedAlters, InitiatorAlters, Names DEF Context, IInv

\* HANGUP, whatever for.
LEMMA InitiatorHangsUp ==
  ASSUME Context, IInv', pc[Initiator] = "pinged", NEW place \in {"hangup", "give up"},
         SendServer("HANGUP", place), UNCHANGED <<stream, opened>>, request' = request
  PROVE  First'
<1>1. EndsInv /\ PlacesInv /\ Goto(Initiator, place) /\ UNCHANGED p2p
  BY DEF Context, IInv, SendServer
<1>2. PICK p : p = Current(Initiator)
  OBVIOUS
<1>3. Alters(Initiator, p, place)
  BY <1>1, <1>2, SetAlters, Names
<1>4. Sock(Initiator) = Ini(N)
  BY <1>1, Places
<1>5. Send(Text(Ini(N), Server, "HANGUP"), 1)
  BY <1>4 DEF SendServer
<1>6. EndStays(Acceptor) /\ N' = N
  BY <1>3, InitiatorAlters
<1>7. PICK gone, new : Solo(gone, new) /\ gone = {} /\ new = {Text(Ini(N), Server, "HANGUP")}
  BY <1>5, <1>6, SoloSends
<1> QED BY <1>2, <1>3, <1>7, InitiatorStops

LEMMA AfterPingFirst ==
  ASSUME Context, IInv', MaxLate > 0, late = 0, late' = 0, AfterPing, request' = request
  PROVE  First'
<1>1. /\ pc[Initiator] = "pinged" /\ UNCHANGED <<stream, opened>> /\ EndsInv /\ PlacesInv
      /\ Sock(Initiator) = Ini(N) /\ InitiatorAsks /\ RequestIs /\ Meets
      /\ Current(Initiator).status \in {"Awaiting", "Accepted", "Error"}
  <2>1. pc[Initiator] = "pinged" /\ UNCHANGED <<stream, opened>>
    BY DEF AfterPing
  <2>2. EndsInv /\ PlacesInv /\ InitiatorAsks /\ RequestIs /\ Meets
    BY DEF Context, IInv, First
  <2>3. Sock(Initiator) = Ini(N)
    BY <2>1, <2>2, Places
  <2> QED BY <2>1, <2>2, <2>3 DEF PlacesInv, InitiatorPlaceInv
<1>2. CASE Current(Initiator).status = "Error" /\ Failed(Initiator) /\ UNCHANGED netVars
  <2>1. EndStays(Acceptor) /\ N' = N
    BY <1>1, <1>2, FailedIsSolo
  <2>2. PICK gone, new : Solo(gone, new) /\ gone = {} /\ new = {}
    BY <1>1, <1>2, <2>1, SoloStill
  <2> QED BY <1>1, <1>2, <2>2, InitiatorFails
<1>3. CASE SendServer("HANGUP", "hangup") \/ SendServer("HANGUP", "give up")
  BY <1>1, <1>3, InitiatorHangsUp
<1>4. CASE /\ Current(Initiator).status = "Accepted" /\ Goto(Initiator, "handshake") /\ CountLate(~ AcceptorIsReady)
           /\ UNCHANGED <<netVars, p2p>>
  <2>1. AcceptorIsReady
    BY <1>4, PeerToPeerAssumption DEF CountLate, PeerToPeerAssumption
  <2>2. PICK p : p = Current(Initiator)
    OBVIOUS
  <2>3. Alters(Initiator, p, "handshake")
    BY <1>1, <1>4, <2>2, SetAlters, Names
  <2>4. EndStays(Acceptor) /\ N' = N
    BY <2>3, InitiatorAlters
  <2>5. PICK gone, new : Solo(gone, new) /\ gone = {} /\ new = {}
    BY <1>1, <1>4, <2>4, SoloStill
  <2>6. Alive /\ ~ Trying /\ Named
    BY <1>1, <1>4 DEF Alive, Trying, Named
  <2>7. \A m \in BagToSet(net') : ~ Pings(m, Ini(N))
    <3>1. net' = net
      BY <1>4 DEF netVars
    <3> QED BY <1>1, <2>6, <3>1 DEF InitiatorAsks
  <2>8. request = NoRequest
    BY <1>1, <2>6 DEF RequestIs
  <2>9. ~ Sent(N) => pc[Acceptor] = "await 200"
    <3>1. ASSUME ~ Sent(N) PROVE K = N /\ pc[Acceptor] # "throttle"
      BY <1>1, <2>6, <3>1 DEF Meets, Context
    <3>2. ASSUME ~ Sent(N)
          PROVE  K = N => pc[Acceptor] \in {"accept", "handshake", "await 200"} \/ (N = 2 /\ pc[Acceptor] = "throttle")
      BY <1>1, <2>6, <3>2 DEF Meets, Context
    <3> QED BY <2>1, <3>1, <3>2 DEF AcceptorIsReady
  <2>10. ~ Sent(N) => ("handshake" \in {"pinged", "handshake"} /\ (Named' => Named)
                       /\ ("handshake" = "handshake" => pc[Acceptor] = "await 200"))
    BY <2>6, <2>9
  <2>11. p.status = "Accepted" /\ p.sock = Current(Initiator).sock /\ p.peer = Current(Initiator).peer
    BY <1>4, <2>2
  <2> QED BY <2>3, <2>5, <2>6, <2>7, <2>8, <2>10, <2>11, InitiatorOn
<1>5. CASE Current(Initiator).status # "Error" /\ Current(Initiator).status # "Accepted" /\ SendServer("PING", "ping")
  <2>1. Current(Initiator).status = "Awaiting" /\ Goto(Initiator, "ping") /\ UNCHANGED p2p
    BY <1>1, <1>5 DEF SendServer
  <2>2. PICK p : p = Current(Initiator)
    OBVIOUS
  <2>3. Alters(Initiator, p, "ping")
    BY <1>1, <2>1, <2>2, SetAlters, Names
  <2>4. EndStays(Acceptor) /\ N' = N
    BY <2>3, InitiatorAlters
  <2>5. Send(Text(Ini(N), Server, "PING"), 1)
    BY <1>1, <1>5 DEF SendServer
  <2>6. PICK gone, new : Solo(gone, new) /\ gone = {} /\ new = {Text(Ini(N), Server, "PING")}
    BY <1>1, <2>4, <2>5, SoloSends
  <2>7. Trying
    BY <1>1, <2>1 DEF Trying
  <2> QED BY <1>1, <2>1, <2>2, <2>3, <2>6, <2>7, InitiatorPings
<1> QED BY <1>2, <1>3, <1>4, <1>5 DEF AfterPing

LEMMA HangupPeerFirst ==
  ASSUME Context, IInv', NEW m \in BagToSet(net), HangupPeer(m), request' = request
  PROVE  First'
<1>1. /\ pc[Initiator] \in {"hangup", "give up"} /\ CanRead(Initiator, m) /\ Receive(m) /\ UNCHANGED <<stream, opened>>
      /\ EndsInv
  BY DEF HangupPeer, Context, IInv
<1>2. m.to = Ini(N) /\ Current(Initiator) \in P2Ps
  BY <1>1, InitiatorReads, SockIs, Names
<1>3. CASE pc[Initiator] = "give up"
  <2>1. Failed(Initiator)
    BY <1>3 DEF HangupPeer
  <2>2. EndStays(Acceptor) /\ N' = N
    BY <1>1, <2>1, FailedIsSolo
  <2>3. PICK gone, new : Solo(gone, new) /\ gone = {m} /\ new = {}
    BY <1>1, <1>2, <2>2, SoloReads
  <2> QED BY <1>1, <2>1, <2>3, InitiatorFails
<1>4. CASE pc[Initiator] # "give up"
  <2> DEFINE p == [Current(Initiator) EXCEPT !.status = IF m.text = "200" THEN "Idle" ELSE "Error"]
  <2>1. Set(Initiator, p) /\ Goto(Initiator, "between")
    BY <1>4 DEF HangupPeer
  <2>2. p.status \in {"Idle", "Error"} /\ p.sock = Current(Initiator).sock /\ p.peer = Current(Initiator).peer
    BY <1>2 DEF P2Ps
  <2> HIDE DEF p
  <2>3. Alters(Initiator, p, "between")
    BY <1>1, <2>1, SetAlters, Names
  <2>4. EndStays(Acceptor) /\ N' = N
    BY <2>3, InitiatorAlters
  <2>5. PICK gone, new : Solo(gone, new) /\ gone = {m} /\ new = {}
    BY <1>1, <1>2, <2>4, SoloReads
  <2> QED BY <2>2, <2>3, <2>5, InitiatorStops
<1> QED BY <1>3, <1>4

\* The initiator has said 200 and waits for the answer, or has given up waiting.
LEMMA HasSent ==
  ASSUME Context, pc[Initiator] \in {"await 200", "retry"}
  PROVE  /\ Alive /\ ~ Trying /\ Sent(N) /\ request = NoRequest /\ Current(Initiator).status = "Accepted"
         /\ \A m \in BagToSet(net) : ~ Pings(m, Ini(N))
<1>1. Current(Initiator).status = "Accepted"
  BY Names DEF Context, PlacesInv, PlaceInv
<1>2. Alive /\ ~ Trying
  BY <1>1 DEF Alive, Trying
<1>3. Sent(N)
  BY <1>2 DEF Context, First, Meets
<1> QED BY <1>1, <1>2, <1>3 DEF Context, First, RequestIs, InitiatorAsks

LEMMA HandshakeInitiatorFirst ==
  ASSUME Context, IInv', NEW m \in BagToSet(net), HandshakeInitiator(m), request' = request
  PROVE  First'
<1>1. /\ pc[Initiator] = "await 200" /\ CanRead(Initiator, m) /\ Receive(m) /\ UNCHANGED <<stream, opened>>
      /\ EndsInv
  BY DEF HandshakeInitiator, Context, IInv
<1>2. m.to = Ini(N) /\ Current(Initiator) \in P2Ps
  BY <1>1, InitiatorReads, SockIs, Names
<1>3. CASE m.text # "200"
  <2>1. Failed(Initiator)
    BY <1>3 DEF HandshakeInitiator
  <2>2. EndStays(Acceptor) /\ N' = N
    BY <1>1, <2>1, FailedIsSolo
  <2>3. PICK gone, new : Solo(gone, new) /\ gone = {m} /\ new = {}
    BY <1>1, <1>2, <2>2, SoloReads
  <2> QED BY <1>1, <2>1, <2>3, InitiatorFails
<1>4. CASE m.text = "200"
  <2> DEFINE p == Connected(Initiator)
  <2>1. Set(Initiator, p) /\ Goto(Initiator, "between")
    BY <1>4 DEF HandshakeInitiator
  <2>2. p.status = "Connected" /\ p.sock = Current(Initiator).sock /\ p.peer = Current(Initiator).peer
    BY <1>2 DEF P2Ps, Connected
  <2> HIDE DEF p
  <2>3. Alters(Initiator, p, "between")
    BY <1>1, <2>1, SetAlters, Names
  <2>4. EndStays(Acceptor) /\ N' = N
    BY <2>3, InitiatorAlters
  <2>5. PICK gone, new : Solo(gone, new) /\ gone = {m} /\ new = {}
    BY <1>1, <1>2, <2>4, SoloReads
  <2>6. Alive /\ Sent(N) /\ request = NoRequest /\ \A j \in BagToSet(net') : ~ Pings(j, Ini(N))
    BY <1>1, <2>5, HasSent DEF Solo, Carries
  <2> QED BY <2>2, <2>3, <2>5, <2>6, InitiatorOn
<1> QED BY <1>3, <1>4

LEMMA RetryOfInitiator ==
  ASSUME Context, IInv', Retry(Initiator), request' = request, ringing' = ringing
  PROVE  First'
<1>1. /\ pc[Initiator] = "retry" /\ UNCHANGED <<stream, opened>> /\ ~ req[Initiator].valid
  BY Names DEF Retry, Context, PlacesInv, PlaceInv
<1>2. CASE Respond(Initiator, "200", 1) /\ UNCHANGED <<p2p, pc, req>>
  <2>1. UNCHANGED netVars
    BY <1>1, <1>2 DEF Respond
  <2> QED BY <1>1, <1>2, <2>1, NothingDone
<1>3. CASE Failed(Initiator) /\ UNCHANGED netVars
  <2>1. EndStays(Acceptor) /\ N' = N
    BY <1>1, <1>3, FailedIsSolo
  <2>2. PICK gone, new : Solo(gone, new) /\ gone = {} /\ new = {}
    BY <1>1, <1>3, <2>1, SoloStill
  <2> QED BY <1>1, <1>3, <2>2, InitiatorFails
<1> QED BY <1>2, <1>3 DEF Retry

LEMMA TimeoutOfInitiator ==
  ASSUME Context, IInv', MaxLate > 0, late = 0, late' = 0, Timeout(Initiator)
  PROVE  First'
<1>1. /\ pc[Initiator] \in Waiting /\ Stuck /\ UNCHANGED <<netVars, stream, opened>> /\ request' = request
      /\ EndsInv /\ PlacesInv /\ Current(Initiator) \in P2Ps
  <2>1. TooLate(~ Stuck) /\ pc[Initiator] \in Waiting
    BY DEF Timeout
  <2>2. Stuck
    BY <2>1, NotTooLate
  <2>3. UNCHANGED <<netVars, stream, opened>> /\ request' = request
    BY DEF Timeout
  <2>4. EndsInv /\ PlacesInv
    BY DEF Context, IInv
  <2>5. Current(Initiator) \in P2Ps
    <3>1. EndsInv /\ pc[Initiator] \notin {"idle", "between"}
      BY <2>1, <2>4 DEF Waiting
    <3> QED BY <3>1, SockIs, Names
  <2> QED BY <2>1, <2>2, <2>3, <2>4, <2>5
<1>2. pc[Initiator] \notin {"connect", "ping"}
  <2> SUFFICES ASSUME pc[Initiator] \in {"connect", "ping"} PROVE FALSE
    OBVIOUS
  <2>1. Sock(Initiator) = Ini(N)
    BY <1>1, Places
  <2>2. PICK m \in BagToSet(net) : Exchange(m, Sock(Initiator))
    BY <2>1 DEF Context, First, InitiatorAsks
  <2> QED BY <1>1, <2>2, AskingIsNotStuck, Names
<1>3. pc[Initiator] \in {"hangup", "give up", "await 200"}
  <2>1. pc[Initiator] # "accept"
    BY <1>1 DEF PlacesInv, InitiatorPlaceInv
  <2>2. pc[Initiator] \in Waiting
    BY <1>1
  <2> QED BY <1>2, <2>1, <2>2 DEF Waiting
<1>4. CASE pc[Initiator] = "give up"
  <2>1. Failed(Initiator)
    BY <1>4 DEF Timeout
  <2>2. EndStays(Acceptor) /\ N' = N
    BY <1>1, <2>1, FailedIsSolo
  <2>3. PICK gone, new : Solo(gone, new) /\ gone = {} /\ new = {}
    BY <1>1, <1>4, <2>2, SoloStill
  <2> QED BY <1>1, <2>1, <2>3, InitiatorFails
<1>5. CASE pc[Initiator] = "hangup"
  <2> DEFINE p == [Current(Initiator) EXCEPT !.status = "Error"]
  <2>1. Set(Initiator, p) /\ Goto(Initiator, "between")
    BY <1>5 DEF Timeout
  <2>2. p.status = "Error" /\ p.sock = Current(Initiator).sock /\ p.peer = Current(Initiator).peer
    BY <1>1 DEF P2Ps
  <2> HIDE DEF p
  <2>3. Alters(Initiator, p, "between")
    BY <1>1, <2>1, SetAlters, Names
  <2>4. EndStays(Acceptor) /\ N' = N
    BY <2>3, InitiatorAlters
  <2>5. PICK gone, new : Solo(gone, new) /\ gone = {} /\ new = {}
    BY <1>1, <1>5, <2>4, SoloStill
  <2> QED BY <2>2, <2>3, <2>5, InitiatorStops
<1>6. CASE pc[Initiator] = "await 200"
  <2>1. Goto(Initiator, "retry") /\ UNCHANGED p2p
    BY <1>6 DEF Timeout
  <2>2. PICK p : p = Current(Initiator)
    OBVIOUS
  <2>3. Alters(Initiator, p, "retry")
    BY <1>1, <2>1, <2>2, SetAlters, Names
  <2>4. EndStays(Acceptor) /\ N' = N
    BY <2>3, InitiatorAlters
  <2>5. PICK gone, new : Solo(gone, new) /\ gone = {} /\ new = {}
    BY <1>1, <1>6, <2>4, SoloStill
  <2>6. /\ Alive /\ Sent(N) /\ request = NoRequest /\ Current(Initiator).status = "Accepted"
        /\ \A j \in BagToSet(net') : ~ Pings(j, Ini(N))
    BY <1>6, <2>5, HasSent DEF Solo, Carries
  <2> QED BY <2>2, <2>3, <2>5, <2>6, InitiatorOn
<1> QED BY <1>3, <1>4, <1>5, <1>6

\* The initiator shakes hands with the acceptor's socket of the same number.
LEMMA HandshakeAsInitiator ==
  ASSUME Context, IInv', HandshakePeer(Initiator), request' = request
  PROVE  First'
<1> USE SocketNames
<1>1. /\ pc[Initiator] = "handshake" /\ UNCHANGED <<p2p, stream, opened>> /\ Goto(Initiator, "await 200")
      /\ ValidToHandshake(Initiator)
  BY DEF HandshakePeer
<1>2. /\ EndsInv /\ NetInv /\ PlacesInv /\ Numbers /\ AcceptorNumbers /\ AcceptorAsks /\ ConnectInv
      /\ InitiatorAsks /\ RequestIs /\ Follows /\ Meets /\ GoesOn /\ N # 0 /\ N \in {1, 2}
  BY DEF Context, IInv, First, Numbers
<1>3. Current(Initiator).peer = Acc(N) /\ Current(Initiator).status = "Accepted" /\ Sock(Initiator) = Ini(N)
  <2>1. Current(Initiator).peer \in {NoSocket, Acc(N)}
    BY <1>2 DEF Numbers, Current
  <2> QED BY <1>1, <1>2, <2>1, Places DEF ValidToHandshake
<1> DEFINE a == Text(Ini(N), Acc(N), "200")
           n == (IF Current(Initiator).network_type = "WEB" THEN 1 ELSE 0)
                  + (IF Initiator = Initiator THEN 1 ELSE 0)
<1>4. a.from = Ini(N) /\ a.to = Acc(N) /\ a.address = NoSocket /\ a.text = "200" /\ Server \notin {a.from, a.to}
  BY DEF Text
<1>5. Send(a, n) /\ n \in Nat \ {0}
  <2>1. n \in Nat \ {0} /\ n > 0
    OBVIOUS
  <2>2. IF n > 0 THEN Send(Text(Sock(Initiator), Current(Initiator).peer, "200"), n) ELSE UNCHANGED netVars
    BY DEF HandshakePeer
  <2> HIDE DEF n
  <2> QED BY <1>3, <2>1, <2>2
<1> HIDE DEF a, n
<1>6. PICK gone, new : gone = {} /\ new = {a} /\ Carries(gone, new)
  <2>1. Carries({}, {a})
    BY <1>2, <1>4, <1>5, SendCarries
  <2> QED BY <2>1
<1>7. Alive /\ ~ Trying /\ Named
  BY <1>1, <1>3 DEF Alive, Trying, Named
<1>8. /\ N' = N /\ K' = K /\ p2p' = p2p /\ stream' = stream /\ opened' = opened /\ pc'[Initiator] = "await 200"
      /\ pc'[Acceptor] = pc[Acceptor] /\ EndStays(Acceptor)
  BY <1>1, <1>2, Names DEF N, K, Goto, EndsInv, EndStays
<1>9. sent_to' = sent_to \cup {<<Ini(N), Acc(N)>>}
  <2>1. {<<m.from, m.to>> : m \in {j \in new : Server \notin {j.from, j.to}}} = {<<Ini(N), Acc(N)>>}
    BY <1>4, <1>6
  <2> QED BY <1>6, <2>1 DEF Carries
<1>10. \A k : (Sent(k)' <=> (Sent(k) \/ k = N))
  <2>1. ASSUME NEW k PROVE Sent(k)' <=> (Sent(k) \/ k = N)
    <3>1. <<Ini(k), Acc(k)>> = <<Ini(N), Acc(N)>> <=> k = N
      <4>1. <<Ini(k), Acc(k)>> = <<Ini(N), Acc(N)>> => Ini(k) = Ini(N)
        OBVIOUS
      <4> QED BY <4>1
    <3>2. Sent(k)' <=> <<Ini(k), Acc(k)>> \in sent_to'
      BY DEF Sent, Ini, Acc
    <3> QED BY <1>9, <3>1, <3>2 DEF Sent
  <2> QED BY <2>1
<1>11. \A m \in BagToSet(net') : m \in BagToSet(net) \/ m = a
  BY <1>6 DEF Carries
<1>12. TalkStays(Acceptor)
  <2>1. \A m \in gone \cup new : ~ Talks(m, Acceptor)
    BY <1>4, <1>6 DEF Talks
  <2> QED BY <1>6, <2>1, TalkKept, Names
<1>13. AcceptorAsks'
  BY <1>2, <1>8, <1>12, AcceptorKept
<1>14. ASSUME ~ Sent(N) PROVE K = N /\ pc[Acceptor] = "await 200"
  BY <1>1, <1>2, <1>7, <1>14 DEF Meets
<1>15. Numbers'
  <2>1. \A q \in sent_to' : q[1][1] = Initiator => \E k \in {1, 2} : k <= N /\ q = <<Ini(k), Acc(k)>>
    BY <1>2, <1>9 DEF Numbers
  <2>2. N = 2 \/ Sent(2)' => Sent(1)'
    <3>1. N = 2 \/ Sent(2) => Sent(1)
      BY <1>2 DEF Numbers
    <3>2. Sent(2)' => Sent(2) \/ N = 2
      BY <1>10
    <3> QED BY <1>10, <3>1, <3>2
  <2> QED BY <1>2, <1>8, <2>1, <2>2 DEF Numbers, Ini, Acc, Sent
<1>16. AcceptorNumbers'
  <2>1. Sent(1)' => p2p[Acceptor]["audio"].sock # 2
    <3>1. Sent(1) => p2p[Acceptor]["audio"].sock # 2
      BY <1>2 DEF AcceptorNumbers
    <3>2. ASSUME ~ Sent(1), N = 1 PROVE p2p[Acceptor]["audio"].sock # 2
      <4>1. K = 1
        BY <1>14, <3>2
      <4>2. p2p[Acceptor]["audio"].sock <= K
        BY <1>2, Places DEF Streams
      <4> QED BY <4>1, <4>2
    <3> QED BY <1>10, <3>1, <3>2
  <2>2. ASSUME NEW k \in {1, 2}, Sent(k)' PROVE k <= K
    <3>1. CASE Sent(k)
      BY <1>2, <3>1 DEF AcceptorNumbers
    <3>2. CASE ~ Sent(k)
      <4>1. k = N
        BY <1>10, <2>2, <3>2
      <4>2. K = N
        BY <1>14, <3>2, <4>1
      <4> QED BY <4>1, <4>2
    <3> QED BY <3>1, <3>2
  <2>3. Sent(1) => Sent(1)'
    BY <1>10
  <2>4. \A m \in BagToSet(net') : m.from = Server => m \in BagToSet(net)
    BY <1>4, <1>11
  <2>5. \A k \in {1, 2} : Sent(k)' => k <= K
    BY <2>2
  <2> QED BY <1>2, <1>8, <2>1, <2>3, <2>4, <2>5 DEF AcceptorNumbers, Ini, Acc
<1>17. NoConnect /\ NoConnect'
  <2>1. NoConnect
    BY <1>1, NoConnectOnTheWay
  <2> QED BY <1>4, <1>11, <2>1 DEF NoConnect, Is
<1>18. \A m \in BagToSet(net) : ~ Pings(m, Ini(N)) /\ ~ Is(m, "HANGUP")
  BY <1>1, <1>2, <1>7 DEF InitiatorAsks
<1>19. \A m \in BagToSet(net') : ~ Pings(m, Ini(N)) /\ ~ Is(m, "HANGUP") /\ (Is(m, "PING") => m.from = Ini(N))
  BY <1>2, <1>4, <1>11, <1>18 DEF InitiatorAsks, Pings, Is
<1>20. InitiatorAsks'
  BY <1>8, <1>19 DEF InitiatorAsks, Pings, Is, Ini
<1>21. RequestIs'
  <2>1. request' = NoRequest
    BY <1>2, <1>7 DEF RequestIs
  <2>2. ~ Trying'
    BY <1>8 DEF Trying
  <2>3. \A m \in BagToSet(net') : ~ (m.from = Server /\ m.to = Ini(N) /\ m.text = "201")
    BY <1>19 DEF Pings
  <2>4. \A m \in BagToSet(net') : ~ Answers(m)'
    BY <1>8, <2>3 DEF Answers, Ini
  <2> QED BY <1>17, <2>1, <2>2, <2>4 DEF RequestIs
<1>22. Follows'
  <2>1. ASSUME NEW k \in {1, 2}, Sent(k)', K = k
        PROVE  Heeds(k)' \/ pc[Acceptor] = "between" \/ (k = 2 /\ pc[Acceptor] = "idle")
    <3>1. CASE Sent(k)
      <4>1. Heeds(k) \/ pc[Acceptor] = "between" \/ (k = 2 /\ pc[Acceptor] = "idle")
        BY <1>2, <2>1, <3>1 DEF Follows
      <4>2. \A m \in BagToSet(net) : m \in BagToSet(net')
        BY <1>6 DEF Carries
      <4>3. Heeds(k) => Heeds(k)'
        BY <1>8, <4>2 DEF Heeds, Ini, Acc
      <4> QED BY <4>1, <4>3
    <3>2. CASE ~ Sent(k)
      <4>1. k = N
        BY <1>10, <2>1, <3>2
      <4>2. pc'[Acceptor] = "await 200"
        BY <1>8, <1>14, <3>2, <4>1
      <4>3. a \in BagToSet(net')
        BY <1>6 DEF Carries
      <4> QED BY <1>4, <4>1, <4>2, <4>3 DEF Heeds, Ini, Acc
    <3> QED BY <3>1, <3>2
  <2> QED BY <1>8, <2>1 DEF Follows
<1>23. Meets'
  <2>1. Sent(N)'
    BY <1>8, <1>9 DEF Sent, Ini, Acc
  <2> QED BY <2>1 DEF Meets
<1>24. GoesOn'
  <2>1. ASSUME N = 1
        PROVE  K <= 2 /\ (K = 2 => /\ pc[Acceptor] # "idle" /\ stream[Acceptor] = "video"
                                   /\ p2p[Acceptor]["video"].sock = 2)
    <3>1. CASE Sent(1)
      BY <1>2, <1>7, <2>1, <3>1 DEF GoesOn
    <3>2. CASE ~ Sent(1)
      <4>1. K = 1
        BY <1>14, <2>1, <3>2
      <4> QED BY <4>1
    <3> QED BY <3>1, <3>2
  <2> QED BY <1>8, <2>1 DEF GoesOn
<1>25. N' = 1 => Unknown(2)'
  <2> SUFFICES ASSUME N = 1 PROVE Unknown(2)'
    BY <1>8
  <2>1. Unknown(2)
    BY DEF Context, First
  <2>2. \A m \in new : m.address # Ini(2) /\ m.to # Ini(2) /\ (m.to # Server => m.from # Ini(2))
    BY <1>4, <1>6
  <2>3. (\A s \in Streams : p2p'[Acceptor][s].peer # Ini(2)) /\ request'.address # Ini(2)
    BY <1>8, <2>1 DEF Unknown
  <2> QED BY <1>6, <2>1, <2>2, <2>3, UnknownKept
<1>26. Before' /\ ConnectInv'
  BY <1>2, <1>8, <1>17 DEF Before, ConnectInv, NoConnect
<1> QED BY <1>13, <1>15, <1>16, <1>20, <1>21, <1>22, <1>23, <1>24, <1>25, <1>26 DEF First

\* The initiator has done, or was called off.
LEMMA InitiatorDone ==
  ASSUME Context, IInv', pc[Initiator] = "between", Goto(Initiator, "idle"),
         UNCHANGED <<netVars, p2p, stream, opened>>, request' = request
  PROVE  First'
<1>1. EndsInv
  BY DEF Context, IInv
<1>2. PICK p : p = Current(Initiator)
  OBVIOUS
<1>3. Alters(Initiator, p, "idle")
  BY <1>1, <1>2, SetAlters, Names
<1>4. EndStays(Acceptor) /\ N' = N
  BY <1>3, InitiatorAlters
<1>5. PICK gone, new : Solo(gone, new) /\ gone = {} /\ new = {}
  BY <1>4, SoloStill
<1> QED BY <1>2, <1>3, <1>5, InitiatorStops

\* The initiator whose audio is connected, and what the acceptor does meanwhile.
LEMMA AudioIsConnected ==
  ASSUME Context, pc[Initiator] = "between", ~ m_hangup, stream[Initiator] # "video"
  PROVE  /\ N = 1 /\ Alive /\ ~ Trying /\ Sent(1) /\ ~ Sent(2) /\ Unknown(2) /\ request = NoRequest
         /\ K \in {1, 2}
         /\ K = 2 => /\ stream[Acceptor] = "video"
                     /\ pc[Acceptor] \in {"accept", "handshake", "await 200", "throttle"}
<1> USE SocketNames
<1>1. /\ EndsInv /\ PlacesInv /\ Numbers /\ AcceptorNumbers /\ RequestIs /\ Meets /\ GoesOn /\ N \in {1, 2} /\ K \in Nat
  BY Places DEF Context, IInv, First, Numbers
<1>2. N = 1 /\ stream[Initiator] = "audio"
  <2>1. stream[Initiator] = (IF N = 2 THEN "video" ELSE "audio")
    BY <1>1 DEF Numbers
  <2> QED BY <1>1, <2>1
<1>3. Current(Initiator).status = "Connected"
  BY <1>1, <1>2 DEF PlacesInv, InitiatorPlaceInv
<1>4. Alive /\ ~ Trying
  BY <1>3 DEF Alive, Trying
<1>5. Sent(1)
  BY <1>1, <1>2, <1>4 DEF Meets
<1>6. Unknown(2)
  BY <1>2 DEF Context, First
<1>7. ~ Sent(2)
  <2>1. <<Ini(2), Acc(2)>>[1] = Ini(2)
    OBVIOUS
  <2> QED BY <1>6, <2>1 DEF Unknown, Sent
<1>8. request = NoRequest
  BY <1>1, <1>4 DEF RequestIs
<1>9. 1 <= K /\ K <= 2
  BY <1>1, <1>2, <1>4, <1>5 DEF AcceptorNumbers, GoesOn
<1>10. ASSUME K = 2
       PROVE  /\ stream[Acceptor] = "video"
              /\ pc[Acceptor] \in {"accept", "handshake", "await 200", "throttle"}
  <2>1. pc[Acceptor] # "idle" /\ stream[Acceptor] = "video" /\ p2p[Acceptor]["video"].sock = 2
    BY <1>1, <1>2, <1>4, <1>5, <1>10 DEF GoesOn
  <2>2. Current(Acceptor) = p2p[Acceptor]["video"]
    BY <2>1 DEF Current
  <2>3. pc[Acceptor] # "between"
    <3>1. pc[Acceptor] = "between" => Current(Acceptor).status = "Connected"
      BY <1>1 DEF PlacesInv, AcceptorPlaceInv
    <3>2. p2p[Acceptor]["video"].status = "Connected" => Sent(2)
      BY <2>1, AcceptorConnected DEF Streams
    <3> QED BY <1>7, <2>2, <3>1, <3>2
  <2>4. pc[Acceptor] # "retry"
    <3> SUFFICES ASSUME pc[Acceptor] = "retry" PROVE FALSE
      OBVIOUS
    <3>1. Current(Acceptor).status = "Accepted"
      BY <1>1, Names DEF PlacesInv, PlaceInv
    <3>2. p2p[Acceptor]["video"].peer # NoSocket
      BY <1>1, <2>2, <3>1, Names DEF PlacesInv, PlaceInv, Streams
    <3>3. p2p[Acceptor]["video"].peer \in {NoSocket, Ini(2)}
      BY <1>1, <2>1 DEF AcceptorNumbers
    <3> QED BY <1>6, <3>2, <3>3 DEF Unknown, Streams
  <2>5. pc[Acceptor] \in PCs /\ pc[Acceptor] \notin {"connect", "ping", "pinged", "hangup", "give up"}
    BY <1>1, Names DEF EndsInv, PlacesInv, AcceptorPlaceInv
  <2> QED BY <2>1, <2>3, <2>4, <2>5 DEF PCs
<1>11. K \in {1, 2}
  BY <1>1, <1>9
<1> QED BY <1>2, <1>4, <1>5, <1>6, <1>7, <1>8, <1>10, <1>11

\* The initiator goes on to video.
LEMMA InitiatorGoesOn ==
  ASSUME Context, IInv', pc[Initiator] = "between", ~ m_hangup, stream[Initiator] # "video",
         Construct(Initiator, "video", "CONNECT"), Goto(Initiator, "connect"), request' = request
  PROVE  First'
<1> USE SocketNames
<1>1. /\ EndsInv /\ NetInv /\ Numbers /\ AcceptorNumbers /\ AcceptorAsks /\ InitiatorAsks /\ Follows
  BY DEF Context, IInv, First
<1>2. /\ N = 1 /\ Alive /\ ~ Trying /\ Sent(1) /\ ~ Sent(2) /\ Unknown(2) /\ request = NoRequest
      /\ K \in {1, 2}
      /\ K = 2 => /\ stream[Acceptor] = "video"
                  /\ pc[Acceptor] \in {"accept", "handshake", "await 200", "throttle"}
  BY AudioIsConnected
<1>3. /\ pc'[Initiator] = "connect" /\ stream'[Initiator] = "video" /\ N' = 2
      /\ p2p'[Initiator]["video"] = P2P(2) /\ p2p'[Initiator]["audio"] = p2p[Initiator]["audio"]
      /\ EndStays(Acceptor) /\ Send(Text(Ini(2), Server, "CONNECT"), 1)
  <2>1. "connect" \in PCs /\ "video" \in Streams
    BY DEF PCs, Streams
  <2>2. /\ pc'[Initiator] = "connect" /\ stream'[Initiator] = "video"
        /\ opened'[Initiator] = opened[Initiator] + 1
        /\ p2p'[Initiator]["video"] = P2P(opened[Initiator] + 1) /\ p2p'[Initiator]["audio"] = p2p[Initiator]["audio"]
        /\ EndStays(Acceptor)
        /\ Send(Text(<<Initiator, opened[Initiator] + 1>>, Server, "CONNECT"), 1)
    BY <1>1, <2>1, Begins, Names
  <2>3. opened[Initiator] + 1 = 2
    <3>1. N = 1
      BY <1>2
    <3> QED BY <3>1 DEF N
  <2> QED BY <2>2, <2>3 DEF N, Ini
<1> DEFINE a == Text(Ini(2), Server, "CONNECT")
<1>4. a.from = Ini(2) /\ a.to = Server /\ a.address = NoSocket /\ a.text = "CONNECT"
  BY DEF Text
<1> HIDE DEF a
<1>5. PICK gone, new : gone = {} /\ new = {a} /\ Carries(gone, new)
  <2>1. Send(a, 1)
    BY <1>3 DEF a
  <2>2. Carries({}, {a})
    BY <1>1, <2>1, SendOnce
  <2> QED BY <2>2
<1>6. \A m \in BagToSet(net') : m \in BagToSet(net) \/ m = a
  BY <1>5 DEF Carries
<1>7. TalkStays(Acceptor)
  <2>1. \A m \in gone \cup new : ~ Talks(m, Acceptor)
    BY <1>4, <1>5 DEF Talks
  <2> QED BY <1>5, <2>1, TalkKept, Names
<1>8. SentStays
  <2>1. \A m \in new : Server \in {m.from, m.to}
    BY <1>4, <1>5
  <2> QED BY <1>5, <2>1, SentKept
<1>9. \A k : (Sent(k)' <=> Sent(k))
  <2>1. ASSUME NEW k PROVE Sent(k)' <=> Sent(k)
    <3>1. <<Ini(k), Acc(k)>>[1][1] = Initiator
      OBVIOUS
    <3> QED BY <1>8, <3>1 DEF SentStays, Sent, Ini, Acc
  <2> QED BY <2>1
<1>10. K' = K /\ AcceptorAsks' /\ AcceptorNumbers'
  BY <1>1, <1>3, <1>7, <1>8, AcceptorKept
<1>11. P2P(2).sock = 2 /\ P2P(2).peer = NoSocket /\ P2P(2).status = "Idle"
  BY DEF P2P
<1>12. Numbers'
  <2>1. \A q \in sent_to' : q[1][1] = Initiator => \E k \in {1, 2} : k <= 2 /\ q = <<Ini(k), Acc(k)>>
    BY <1>1, <1>8 DEF SentStays, Numbers
  <2>2. /\ p2p'[Initiator]["audio"].sock \in {0, 1}
        /\ p2p'[Initiator]["audio"].peer \in {NoSocket, Acc(1)}
        /\ p2p'[Initiator]["video"].sock = 2 /\ p2p'[Initiator]["video"].peer = NoSocket
    BY <1>1, <1>3, <1>11 DEF Numbers
  <2>3. Sent(1)'
    BY <1>2, <1>9
  <2> QED BY <1>3, <2>1, <2>2, <2>3 DEF Numbers, Ini, Acc, Sent
<1>13. \A m \in BagToSet(net) : ~ Is(m, "CONNECT") /\ ~ Is(m, "PING") /\ ~ Is(m, "HANGUP")
  <2>1. NoConnect
    BY NoConnectOnTheWay
  <2> QED BY <1>1, <1>2, <2>1 DEF NoConnect, InitiatorAsks, Pings, Is
<1>14. Unknown(2)'
  <2>1. \A m \in new : m.address # Ini(2) /\ m.to # Ini(2) /\ (m.to # Server => m.from # Ini(2))
    BY <1>4, <1>5
  <2>2. (\A s \in Streams : p2p'[Acceptor][s].peer # Ini(2)) /\ request'.address # Ini(2)
    BY <1>2, <1>3 DEF EndStays, Unknown
  <2> QED BY <1>2, <1>5, <2>1, <2>2, UnknownKept
<1>15. a \in BagToSet(net') /\ net'[a] = 1
  <2>1. a \notin BagToSet(net)
    BY <1>4, <1>13 DEF Is
  <2> QED BY <1>4, <1>5, <2>1 DEF Carries
<1>16. ConnectInv'
  <2>1. \A m \in BagToSet(net') : Is(m, "CONNECT") => m = a
    BY <1>6, <1>13
  <2> QED BY <1>2, <1>3, <1>4, <1>14, <1>15, <2>1 DEF ConnectInv, Unknown, Ini, Is
<1>17. \A m \in BagToSet(net') : ~ Is(m, "PING") /\ ~ Is(m, "HANGUP") /\ m.to # Ini(2)
  BY <1>2, <1>4, <1>6, <1>13 DEF Is, Unknown
<1>18. InitiatorAsks'
  <2>1. \A m \in BagToSet(net') : ~ Pings(m, Ini(2))
    BY <1>17 DEF Pings
  <2>2. Exchange(a, Ini(2))
    BY <1>4 DEF Exchange
  <2> QED BY <1>3, <1>15, <1>17, <2>1, <2>2 DEF InitiatorAsks, Pings, Is, Ini, Exchange
<1>19. ~ Answered' /\ (\A m \in BagToSet(net') : ~ Answers(m)')
  BY <1>3, <1>17 DEF Answered, Answers, Ini
<1>20. RequestIs'
  <2>1. ~ NoConnect'
    BY <1>4, <1>15 DEF NoConnect, Is
  <2>2. Trying' /\ request' = NoRequest
    BY <1>2, <1>3 DEF Trying
  <2>3. ~ Sent(N)'
    BY <1>2, <1>3, <1>9 DEF Sent
  <2> QED BY <1>19, <2>1, <2>2, <2>3 DEF RequestIs
<1>21. Follows'
  <2>1. \A m \in gone : \A k \in {1, 2} :
           m.from = Ini(k) /\ m.to = Acc(k) => ~ (Sent(k) /\ K = k /\ pc[Acceptor] = "await 200")
    BY <1>5
  <2>2. pc'[Acceptor] = pc[Acceptor]
    BY <1>3 DEF EndStays
  <2> QED BY <1>1, <1>5, <1>8, <1>10, <2>1, <2>2, FollowsKept
<1>22. ~ Named'
  <2>1. Current(Initiator)' = P2P(2)
    BY <1>3 DEF Current
  <2>2. request'.peer_address = NoSocket
    BY <1>2 DEF NoRequest
  <2> QED BY <1>11, <1>19, <2>1, <2>2 DEF Named
<1>23. Meets'
  <2>1. pc'[Acceptor] = pc[Acceptor] /\ stream'[Acceptor] = stream[Acceptor]
    BY <1>3 DEF EndStays
  <2>2. /\ K = 2 \/ K = 1
        /\ K = 2 => /\ stream[Acceptor] = "video"
                    /\ pc[Acceptor] \in {"accept", "handshake", "await 200"} \/ (2 = 2 /\ pc[Acceptor] = "throttle")
    BY <1>2
  <2>3. pc'[Initiator] = "connect" /\ N' = 2 /\ K' = K
    BY <1>3, <1>10
  <2>4. pc'[Initiator] \in {"connect", "ping", "pinged", "handshake"} /\ pc'[Initiator] # "handshake"
    BY <2>3
  <2>5. (K' = N' \/ K' = N' - 1) /\ N' # 1
    <3>1. K = 2 \/ K = 1
      BY <1>2
    <3>2. K' = 2 \/ K' = 1
      BY <2>3, <3>1
    <3>3. K' = N' \/ K' = N' - 1
      BY <2>3, <3>2
    <3> QED BY <2>3, <3>3
  <2>6. K' = N' =>
          /\ stream'[Acceptor] = (IF N' = 2 THEN "video" ELSE "audio")
          /\ pc'[Acceptor] \in {"accept", "handshake", "await 200"} \/ (N' = 2 /\ pc'[Acceptor] = "throttle")
    BY <2>1, <2>2, <2>3
  <2> QED BY <1>22, <2>4, <2>5, <2>6, Zenon DEF Meets
<1>24. Before' /\ GoesOn' /\ ~ (N' = 1)
  BY <1>3 DEF Before, GoesOn
<1> QED BY <1>10, <1>12, <1>16, <1>18, <1>20, <1>21, <1>23, <1>24 DEF First

LEMMA NextStreamOfInitiator ==
  ASSUME Context, IInv', NextStream(Initiator), request' = request
  PROVE  First'
<1>1. CASE m_hangup \/ stream[Initiator] = "video"
  BY <1>1, InitiatorDone DEF NextStream
<1>2. CASE ~ m_hangup /\ stream[Initiator] # "video"
  <2>1. pc[Initiator] = "between" /\ Construct(Initiator, "video", "CONNECT") /\ Goto(Initiator, "connect")
    BY <1>2 DEF NextStream
  <2> QED BY <1>2, <2>1, InitiatorGoesOn
<1> QED BY <1>1, <1>2

LEMMA InitiatorStepFirst ==
  ASSUME Context, IInv', MaxLate > 0, late = 0, late' = 0, InitiatorStep
  PROVE  First'
<1>1. CASE /\ \/ \E m \in BagToSet(net) :
                     \/ ConnectPeer(m) \/ PingPeer(m) \/ HangupPeer(m)
                     \/ HandshakeInitiator(m)
              \/ HandshakePeer(Initiator) \/ Retry(Initiator)
              \/ NextStream(Initiator)
           /\ UNCHANGED <<request, ringing, called_off, late>>
  <2>1. request' = request /\ ringing' = ringing
    BY <1>1
  <2>2. CASE \E m \in BagToSet(net) : ConnectPeer(m) \/ PingPeer(m) \/ HangupPeer(m) \/ HandshakeInitiator(m)
    BY <2>1, <2>2, ConnectPeerFirst, PingPeerFirst, HangupPeerFirst, HandshakeInitiatorFirst
  <2>3. CASE HandshakePeer(Initiator) \/ Retry(Initiator) \/ NextStream(Initiator)
    BY <2>1, <2>3, HandshakeAsInitiator, RetryOfInitiator, NextStreamOfInitiator
  <2> QED BY <1>1, <2>2, <2>3
<1>2. CASE AfterPing /\ UNCHANGED <<request, ringing>>
  BY <1>2, AfterPingFirst
<1>3. CASE Timeout(Initiator)
  BY <1>3, TimeoutOfInitiator
<1> QED BY <1>1, <1>2, <1>3 DEF InitiatorStep

(***************************************************************************)
(* The steps of the server and of the network.                             *)
(***************************************************************************)

\* What an ACCEPT says before it is served.
LEMMA MeetsServed ==
  ASSUME Context, EndStays(Initiator), EndStays(Acceptor), N' = N, K' = K, \A k : (Sent(k)' <=> Sent(k)),
         Alive /\ ~ Sent(N) =>
           /\ Named' => Named \/ (K = N /\ pc[Acceptor] # "throttle")
           /\ Named' /\ ~ Named => \A m \in BagToSet(net') : Exchange(m, Acc(N)) => m.text = "201"
           /\ K = N => \A m \in BagToSet(net') : Exchange(m, Acc(N)) => m \in BagToSet(net) \/ m.text = "201"
  PROVE  Meets' /\ GoesOn'
<1>1. /\ pc'[Acceptor] = pc[Acceptor] /\ stream'[Acceptor] = stream[Acceptor] /\ p2p'[Acceptor] = p2p[Acceptor]
      /\ pc'[Initiator] = pc[Initiator]
  BY DEF EndStays
<1>2. Alive' <=> Alive
  BY DEF EndStays, Alive, Current
<1>3. Sent(N)' <=> Sent(N)
  BY DEF Sent, Ini, Acc
<1>4. Meets'
  <2> SUFFICES ASSUME Alive, ~ Sent(N)
               PROVE  /\ pc[Initiator] \in {"connect", "ping", "pinged", "handshake"}
                      /\ K = N \/ K = N - 1
                      /\ K = N =>
                           /\ stream[Acceptor] = (IF N = 2 THEN "video" ELSE "audio")
                           /\ pc[Acceptor] \in {"accept", "handshake", "await 200"} \/ (N = 2 /\ pc[Acceptor] = "throttle")
                           /\ N = 1 => \A m \in BagToSet(net') : m.from = Server /\ m.to = Acc(1) => m.text = "201"
                      /\ Named' => /\ K = N /\ pc[Acceptor] # "throttle"
                                   /\ \A m \in BagToSet(net') : Exchange(m, Acc(N)) => m.text = "201"
                      /\ pc[Initiator] = "handshake" => pc[Acceptor] = "await 200"
    BY <1>1, <1>2, <1>3 DEF Meets, Acc, Exchange
  <2>1. Meets /\ N # 0
    BY DEF Context, First
  <2>2. /\ pc[Initiator] \in {"connect", "ping", "pinged", "handshake"}
        /\ K = N \/ K = N - 1
        /\ K = N =>
             /\ stream[Acceptor] = (IF N = 2 THEN "video" ELSE "audio")
             /\ pc[Acceptor] \in {"accept", "handshake", "await 200"} \/ (N = 2 /\ pc[Acceptor] = "throttle")
             /\ N = 1 => \A m \in BagToSet(net) : m.from = Server /\ m.to = Acc(1) => m.text = "201"
        /\ Named => /\ K = N /\ pc[Acceptor] # "throttle"
                    /\ \A m \in BagToSet(net) : Exchange(m, Acc(N)) => m.text = "201"
        /\ pc[Initiator] = "handshake" => pc[Acceptor] = "await 200"
    BY <2>1 DEF Meets
  <2>3. K = N /\ N = 1 => \A m \in BagToSet(net') : m.from = Server /\ m.to = Acc(1) => m.text = "201"
    <3> SUFFICES ASSUME K = N, N = 1, NEW m \in BagToSet(net'), m.from = Server, m.to = Acc(1) PROVE m.text = "201"
      OBVIOUS
    <3>1. Exchange(m, Acc(N))
      BY DEF Exchange
    <3> QED BY <2>2, <3>1
  <2>4. ASSUME Named' PROVE K = N /\ pc[Acceptor] # "throttle"
    BY <2>2, <2>4
  <2>5. ASSUME Named', NEW m \in BagToSet(net'), Exchange(m, Acc(N)) PROVE m.text = "201"
    <3>1. CASE Named
      BY <2>2, <2>4, <2>5, <3>1
    <3>2. CASE ~ Named
      BY <2>5, <3>2
    <3> QED BY <3>1, <3>2
  <2> QED BY <2>2, <2>3, <2>4, <2>5
<1>5. GoesOn'
  <2>1. Alive' /\ N' = 1 /\ Sent(1)' => Alive /\ N = 1 /\ Sent(1)
    BY <1>2
  <2> QED BY <1>1, <2>1 DEF GoesOn, Context, First
<1> QED BY <1>4, <1>5

\* The server answers the initiator, or forgets its request.
LEMMA InitiatorServed ==
  ASSUME Context, IInv', EndStays(Initiator), EndStays(Acceptor),
         NEW gone, NEW new, gone \subseteq BagToSet(net), Carries(gone, new),
         \A m \in gone : m.to = Server /\ \E j : m.from = Ini(j),
         \A m \in new : m.from = Server /\ \E j \in 1..N : m.to = Ini(j),
         \A m \in new : m.address # Ini(2), request'.address \in {NoSocket, Ini(N)},
         NoConnect', InitiatorAsks', RequestIs',
         Alive /\ ~ Sent(N) /\ Named' => Named
  PROVE  First'
<1> USE SocketNames
<1>1. TalkStays(Acceptor)
  <2>1. \A m \in gone \cup new : ~ Talks(m, Acceptor)
    BY DEF Talks
  <2> QED BY <2>1, TalkKept, Names
<1>2. SentStays
  <2>1. \A m \in new : Server \in {m.from, m.to}
    OBVIOUS
  <2> QED BY <2>1, SentKept
<1>3. /\ N' = N /\ (\A k : (Sent(k)' <=> Sent(k))) /\ Numbers'
  BY <1>2, InitiatorEndKept DEF Context, First
<1>4. K' = K /\ AcceptorAsks' /\ AcceptorNumbers'
  BY <1>1, <1>2, AcceptorKept DEF Context, First
<1>5. Follows'
  <2>1. \A m \in gone : \A k \in {1, 2} :
           m.from = Ini(k) /\ m.to = Acc(k) => ~ (Sent(k) /\ K = k /\ pc[Acceptor] = "await 200")
    OBVIOUS
  <2>2. pc'[Acceptor] = pc[Acceptor] /\ Follows
    BY DEF EndStays, Context, First
  <2> QED BY <1>2, <1>4, <2>1, <2>2, FollowsKept
<1>6. Meets' /\ GoesOn'
  <2>1. \A m \in BagToSet(net') : Exchange(m, Acc(N)) => m \in BagToSet(net)
    BY DEF Carries, Exchange
  <2>2. Alive /\ ~ Sent(N) =>
           /\ Named' => Named \/ (K = N /\ pc[Acceptor] # "throttle")
           /\ Named' /\ ~ Named => \A m \in BagToSet(net') : Exchange(m, Acc(N)) => m.text = "201"
           /\ K = N => \A m \in BagToSet(net') : Exchange(m, Acc(N)) => m \in BagToSet(net) \/ m.text = "201"
    BY <2>1
  <2> QED BY <1>3, <1>4, <2>2, MeetsServed
<1>7. N' = 1 => Unknown(2)'
  <2> SUFFICES ASSUME N = 1 PROVE Unknown(2)'
    BY <1>3
  <2>1. Unknown(2)
    BY DEF Context, First
  <2>2. \A m \in new : m.to # Ini(2)
    <3> SUFFICES ASSUME NEW m \in new PROVE m.to # Ini(2)
      OBVIOUS
    <3>1. PICK j \in 1..N : m.to = Ini(j)
      OBVIOUS
    <3>2. j # 2
      OBVIOUS
    <3> QED BY <3>1, <3>2
  <2>3. \A m \in new : m.address # Ini(2) /\ m.to # Ini(2) /\ (m.to # Server => m.from # Ini(2))
    BY <2>2
  <2>4. (\A s \in Streams : p2p'[Acceptor][s].peer # Ini(2)) /\ request'.address # Ini(2)
    BY <2>1 DEF EndStays, Unknown
  <2> QED BY <2>1, <2>3, <2>4, UnknownKept
<1>8. Before' /\ ConnectInv'
  BY <1>3 DEF Before, ConnectInv, NoConnect, Context
<1> QED BY <1>3, <1>4, <1>5, <1>6, <1>7, <1>8 DEF First

\* Whose command it is.
LEMMA CommandOf ==
  ASSUME Context, NEW m \in BagToSet(net), m.text \in Commands
  PROVE  /\ m.to = Server
         /\ m.text # "ACCEPT" => \E j \in 1..N : m.from = Ini(j)
         /\ m.text = "ACCEPT" => \E j \in 1..K : m.from = Acc(j)
<1>1. Kinds(m)
  BY AllKinds DEF Context, IInv
<1>2. m.from # Server
  BY <1>1 DEF Kinds, Commands, Codes
<1>3. m.to = Server
  BY <1>1, <1>2 DEF Kinds, Commands
<1> QED BY <1>1, <1>3 DEF Kinds

\* The server's answer to a command.
LEMMA Answering ==
  ASSUME Context, NEW m \in BagToSet(net), m.text \in Commands, NEW a, a.from = Server, Answer(m, a)
  PROVE  \E gone, new : gone = {m} /\ new = {a} /\ Carries(gone, new) /\ gone \subseteq BagToSet(net)
<1>1. m.to = Server /\ m.from # Server /\ NetInv
  BY CommandOf, SocketNames DEF Context, IInv
<1>2. Carries({m}, {a})
  <2>1. m # a
    BY <1>1
  <2> QED BY <1>1, <2>1, AnswerCarries
<1>3. PICK gone, new : gone = {m} /\ new = {a} /\ Carries(gone, new)
  BY <1>2
<1>4. gone \subseteq BagToSet(net)
  BY <1>3
<1> QED BY <1>3, <1>4

LEMMA ServeConnectFirst ==
  ASSUME Context, IInv', NEW m \in BagToSet(net), ServeConnect(m), UNCHANGED endVars
  PROVE  First'
<1> USE SocketNames
<1>1. /\ m.text = "CONNECT" /\ m.text \in Commands /\ EndStays(Initiator) /\ EndStays(Acceptor) /\ N' = N
      /\ EndsInv /\ PlacesInv /\ AskedInv /\ ConnectInv /\ InitiatorAsks /\ RequestIs
  BY DEF ServeConnect, endVars, EndStays, N, Commands, Context, IInv, First
<1>2. m.to = Server /\ (\E j \in 1..N : m.from = Ini(j)) /\ Is(m, "CONNECT")
  BY <1>1, CommandOf DEF Is
<1>3. /\ pc[Initiator] = "connect" /\ m.from = Ini(N) /\ net[m] = 1 /\ request = NoRequest
  BY <1>1, <1>2 DEF ConnectInv
<1> DEFINE a == Told(m, "200", NoSocket)
<1>4. /\ request' = [address |-> Ini(N), peer_address |-> NoSocket] /\ Answer(m, a)
      /\ a.from = Server /\ a.to = Ini(N) /\ a.text = "200" /\ a.address = NoSocket
  BY <1>3 DEF ServeConnect, Reply, Told
<1> HIDE DEF a
<1>5. PICK gone, new : gone = {m} /\ new = {a} /\ Carries(gone, new) /\ gone \subseteq BagToSet(net)
  BY <1>1, <1>4, Answering
<1>6. ASSUME NEW j \in BagToSet(net), Is(j, "CONNECT") PROVE j = m
  <2>1. Sock(Initiator) = Ini(N)
    BY <1>1, <1>3, Places
  <2>2. j.from = Ini(N)
    BY <1>1, <1>6 DEF ConnectInv
  <2>3. Asking(j, Ini(N)) /\ Asking(m, Ini(N))
    BY <1>2, <1>3, <1>6, <2>2 DEF Asking, Is
  <2> QED BY <1>1, <1>3, <2>1, <2>3 DEF AskedInv
<1>7. \A j \in BagToSet(net') : (j \in BagToSet(net) /\ j # m) \/ j = a
  <2>1. m # a
    BY <1>2, <1>4, <1>5
  <2> QED BY <1>3, <1>4, <1>5, <2>1 DEF Carries
<1>8. NoConnect'
  BY <1>4, <1>5, <1>6, <1>7 DEF NoConnect, Is
<1>9. Alive /\ Trying
  BY <1>3 DEF Alive, Trying
<1>10. \A j \in BagToSet(net) : ~ Pings(j, Ini(N)) /\ ~ Is(j, "HANGUP") /\ (Is(j, "PING") => j.from = Ini(N))
  BY <1>1, <1>3, <1>9 DEF InitiatorAsks
<1>11. \A j \in BagToSet(net') : ~ Pings(j, Ini(N)) /\ ~ Is(j, "HANGUP") /\ (Is(j, "PING") => j.from = Ini(N))
  BY <1>4, <1>5, <1>7, <1>10 DEF Pings, Is
<1>12. InitiatorAsks'
  <2>1. pc'[Initiator] = "connect"
    BY <1>1, <1>3 DEF EndStays
  <2>2. a \in BagToSet(net') /\ Exchange(a, Ini(N))
    BY <1>4, <1>5 DEF Carries, Exchange
  <2> QED BY <1>1, <1>11, <2>1, <2>2 DEF InitiatorAsks, Pings, Is, Ini, Exchange
<1>13. \A j \in BagToSet(net') : ~ (j.from = Server /\ j.to = Ini(N) /\ j.text = "201")
  BY <1>11 DEF Pings
<1>14. ~ Answered' /\ (\A j \in BagToSet(net') : ~ Answers(j)')
  BY <1>1, <1>13 DEF Answered, Answers, Ini
<1>15. request' # NoRequest /\ request'.address = Ini(N) /\ request'.peer_address = NoSocket
  BY <1>4 DEF NoRequest
<1>16. RequestIs'
  <2>1. Trying'
    BY <1>1, <1>3 DEF EndStays, Trying
  <2>2. ~ Sent(N)'
    <3>1. ~ Sent(N)
      BY <1>1, <1>2 DEF RequestIs, NoConnect, Context
    <3>2. sent_to' = sent_to
      BY <1>4, <1>5 DEF Carries
    <3> QED BY <1>1, <3>1, <3>2 DEF Sent, Ini, Acc
  <2> QED BY <1>1, <1>14, <1>15, <2>1, <2>2 DEF RequestIs, Ini
<1>17. Named' => Named
  BY <1>1, <1>14, <1>15 DEF Named, EndStays, Current
<1>18. /\ \A j \in gone : j.to = Server /\ \E i : j.from = Ini(i)
       /\ \A j \in new : j.from = Server /\ \E i \in 1..N : j.to = Ini(i)
       /\ \A j \in new : j.address # Ini(2)
  <2>1. N \in 1..N
    BY <1>1, Places DEF Context
  <2> QED BY <1>2, <1>4, <1>5, <2>1
<1> QED BY <1>1, <1>4, <1>5, <1>8, <1>12, <1>15, <1>16, <1>17, <1>18, InitiatorServed

\* What the server does of the initiator's requests when the initiator is down.
LEMMA ServedTooLate ==
  ASSUME Context, IInv', ~ Alive, EndStays(Initiator), EndStays(Acceptor), request' = NoRequest,
         NEW gone, NEW new, gone \subseteq BagToSet(net), Carries(gone, new),
         \A m \in gone : m.to = Server /\ \E j : m.from = Ini(j),
         \A m \in new : m.from = Server /\ (\E j \in 1..N : m.to = Ini(j)) /\ m.address = NoSocket
  PROVE  First'
<1> USE SocketNames
<1>1. ConnectInv /\ InitiatorAsks /\ RequestIs /\ N' = N
  BY DEF Context, First, EndStays, N
<1>2. NoConnect
  <2>1. pc[Initiator] # "connect"
    BY DEF Alive
  <2> QED BY <2>1, NoConnectOnTheWay
<1>3. NoConnect'
  BY <1>2 DEF NoConnect, Is, Carries
<1>4. ~ Alive' /\ ~ Trying' /\ pc'[Initiator] \notin {"connect", "ping"}
  BY DEF EndStays, Alive, Trying, Current
<1>5. InitiatorAsks'
  <2>1. \A m \in BagToSet(net') : Is(m, "PING") => m.from = Ini(N)
    BY <1>1 DEF Carries, InitiatorAsks, Is
  <2> QED BY <1>1, <1>4, <2>1 DEF InitiatorAsks, Is, Ini
<1>6. RequestIs'
  BY <1>3, <1>4 DEF RequestIs
<1>7. \A m \in new : m.from = Server /\ \E j \in 1..N : m.to = Ini(j)
  OBVIOUS
<1>8. (\A m \in new : m.address # Ini(2)) /\ request'.address \in {NoSocket, Ini(N)}
  BY DEF NoRequest
<1> QED BY <1>3, <1>5, <1>6, <1>7, <1>8, InitiatorServed

LEMMA ServeHangupFirst ==
  ASSUME Context, IInv', NEW m \in BagToSet(net), ServeHangup(m), UNCHANGED endVars
  PROVE  First'
<1> USE SocketNames
<1>1. /\ m.text = "HANGUP" /\ m.text \in Commands /\ EndStays(Initiator) /\ EndStays(Acceptor)
      /\ request' = NoRequest /\ InitiatorAsks
  BY DEF ServeHangup, endVars, EndStays, Commands, Context, First
<1>2. m.to = Server /\ (\E j \in 1..N : m.from = Ini(j)) /\ Is(m, "HANGUP")
  BY <1>1, CommandOf DEF Is
<1>3. ~ Alive
  BY <1>1, <1>2 DEF InitiatorAsks
<1> DEFINE a == Told(m, IF request = NoRequest THEN "307" ELSE "200", NoSocket)
<1>4. Answer(m, a) /\ a.from = Server /\ a.to = m.from /\ a.address = NoSocket
  BY DEF ServeHangup, Reply, Told
<1> HIDE DEF a
<1>5. PICK gone, new : gone = {m} /\ new = {a} /\ Carries(gone, new) /\ gone \subseteq BagToSet(net)
  BY <1>1, <1>4, Answering
<1>6. /\ \A j \in gone : j.to = Server /\ \E i : j.from = Ini(i)
      /\ \A j \in new : j.from = Server /\ (\E i \in 1..N : j.to = Ini(i)) /\ j.address = NoSocket
  BY <1>2, <1>4, <1>5
<1> QED BY <1>1, <1>3, <1>5, <1>6, ServedTooLate

LEMMA ExpireFirst ==
  ASSUME Context, IInv', MaxLate > 0, late = 0, late' = 0, Expire
  PROVE  First'
<1>1. /\ request # NoRequest /\ request' = NoRequest /\ UNCHANGED netVars /\ EndStays(Initiator) /\ EndStays(Acceptor)
      /\ RequestIs
  BY DEF Expire, endVars, EndStays, Context, First
<1>2. ~ Pinging
  BY NotTooLate DEF Expire
<1>3. ~ Alive
  <2>1. ~ Trying
    BY <1>2 DEF Pinging, Trying
  <2> QED BY <1>1, <2>1 DEF RequestIs
<1>4. PICK gone, new : gone = {} /\ new = {} /\ Carries(gone, new)
  BY <1>1, NothingCarried
<1>5. /\ gone \subseteq BagToSet(net) /\ \A j \in gone : j.to = Server /\ \E i : j.from = Ini(i)
      /\ \A j \in new : j.from = Server /\ (\E i \in 1..N : j.to = Ini(i)) /\ j.address = NoSocket
  BY <1>4
<1> QED BY <1>1, <1>3, <1>4, <1>5, ServedTooLate

LEMMA ServePingFirst ==
  ASSUME Context, IInv', NEW m \in BagToSet(net), ServePing(m), UNCHANGED endVars
  PROVE  First'
<1> USE SocketNames
<1>1. /\ m.text = "PING" /\ m.text \in Commands /\ EndStays(Initiator) /\ EndStays(Acceptor) /\ N' = N
      /\ pc'[Initiator] = pc[Initiator]
      /\ EndsInv /\ PlacesInv /\ RequestInv /\ ConnectInv /\ InitiatorAsks /\ RequestIs
  BY DEF ServePing, endVars, EndStays, N, Commands, Context, IInv, First
<1>2. m.to = Server /\ m.from = Ini(N) /\ Is(m, "PING") /\ Pings(m, Ini(N)) /\ N \in 1..N
  <2>1. m.to = Server
    BY <1>1, CommandOf
  <2>2. Is(m, "PING")
    BY <1>1, <2>1 DEF Is
  <2>3. m.from = Ini(N)
    BY <1>1, <2>2 DEF InitiatorAsks
  <2>4. N \in 1..N
    BY <1>1, Places DEF Context
  <2> QED BY <2>1, <2>2, <2>3, <2>4 DEF Pings
<1>3. ASSUME Alive
      PROVE  pc[Initiator] = "ping" /\ net[m] = 1 /\ \A j \in BagToSet(net) : Pings(j, Ini(N)) => j = m
  BY <1>1, <1>2, <1>3 DEF InitiatorAsks
<1>4. NoConnect
  <2>1. pc[Initiator] # "connect"
    BY <1>3 DEF Alive
  <2> QED BY <2>1, NoConnectOnTheWay
<1>5. PICK a, text, address : /\ Answer(m, a) /\ a.from = Server /\ a.to = Ini(N) /\ a.text = text /\ a.address = address
                              /\ \/ /\ request.peer_address # NoSocket /\ request' = NoRequest
                                    /\ text = "201" /\ address = request.peer_address
                                 \/ /\ request.peer_address = NoSocket /\ request' = request
                                    /\ text \in {"203", "307"} /\ address = NoSocket
  <2>1. CASE request.peer_address # NoSocket
    <3> DEFINE a == Told(m, "201", request.peer_address)
    <3>1. Answer(m, a) /\ request' = NoRequest
      BY <2>1 DEF ServePing
    <3>2. a.from = Server /\ a.to = Ini(N) /\ a.text = "201" /\ a.address = request.peer_address
      BY <1>2 DEF Told
    <3> HIDE DEF a
    <3> QED BY <2>1, <3>1, <3>2
  <2>2. CASE request.peer_address = NoSocket
    <3> DEFINE a == Told(m, IF request = NoRequest THEN "307" ELSE "203", NoSocket)
    <3>1. Answer(m, a) /\ request' = request
      BY <2>2 DEF ServePing, Reply
    <3>2. a.from = Server /\ a.to = Ini(N) /\ a.text \in {"203", "307"} /\ a.address = NoSocket
      BY <1>2 DEF Told
    <3> HIDE DEF a
    <3> QED BY <2>2, <3>1, <3>2
  <2> QED BY <2>1, <2>2
<1>6. PICK gone, new : gone = {m} /\ new = {a} /\ Carries(gone, new) /\ gone \subseteq BagToSet(net)
  BY <1>1, <1>5, Answering
<1>7. \A j \in BagToSet(net') : j \in BagToSet(net) \/ j = a
  BY <1>6 DEF Carries
<1>8. NoConnect'
  BY <1>4, <1>5, <1>7 DEF NoConnect, Is
<1>9. Pings(a, Ini(N)) /\ Exchange(a, Ini(N)) /\ a \in BagToSet(net')
  BY <1>5, <1>6 DEF Pings, Exchange, Carries
<1>10. ASSUME Alive PROVE net'[a] = 1 /\ \A j \in BagToSet(net') : Pings(j, Ini(N)) => j = a
  <2>1. a # m
    BY <1>2, <1>5
  <2>2. a \notin BagToSet(net)
    BY <1>3, <1>9, <1>10, <2>1
  <2>3. net'[a] = 1
    BY <1>5, <1>6, <2>2 DEF Carries
  <2>4. m \notin BagToSet(net')
    BY <1>3, <1>6, <1>10, <2>1 DEF Carries
  <2> QED BY <1>3, <1>7, <1>10, <2>3, <2>4
<1>11. Alive' <=> Alive
  BY <1>1 DEF EndStays, Alive, Current
<1>12. Trying' <=> Trying
  BY <1>1 DEF EndStays, Trying, Current
<1>13. Trying => Alive
  BY DEF Trying, Alive
<1>14. InitiatorAsks'
  <2>1. \A j \in BagToSet(net') : Is(j, "PING") => j.from = Ini(N)
    BY <1>1, <1>5, <1>7 DEF InitiatorAsks, Is
  <2>2. pc[Initiator] = "ping" => \A j \in BagToSet(net') : Pings(j, Ini(N)) =>
         net'[j] = 1 /\ \A i \in BagToSet(net') : Pings(i, Ini(N)) => i = j
    BY <1>10 DEF Alive
  <2>3. ~ (Alive' /\ pc'[Initiator] # "ping")
    BY <1>1, <1>3, <1>11
  <2>4. Alive' => \A j \in BagToSet(net') : ~ Is(j, "HANGUP")
    <3>1. Alive => \A j \in BagToSet(net) : ~ Is(j, "HANGUP")
      BY <1>1 DEF InitiatorAsks
    <3> QED BY <1>5, <1>7, <1>11, <3>1 DEF Is
  <2> QED BY <1>1, <1>9, <2>1, <2>2, <2>3, <2>4 DEF InitiatorAsks, Pings, Is, Ini, Exchange
<1>15. sent_to' = sent_to
  BY <1>5, <1>6 DEF Carries
<1>16. CASE request.peer_address # NoSocket
  <2>1. request' = NoRequest /\ a.text = "201" /\ a.address = request.peer_address
    BY <1>5, <1>16
  <2>2. ASSUME Alive PROVE a.address = Acc(N)
    <3>1. Trying
      BY <1>3, <2>2 DEF Trying
    <3>2. request # NoRequest
      BY <1>16 DEF NoRequest
    <3> QED BY <1>1, <1>4, <1>16, <2>1, <3>1, <3>2 DEF RequestIs
  <2>3. ASSUME Alive, NEW j \in BagToSet(net'), j.from = Server, j.to = Ini(N), j.text = "201" PROVE j.address = Acc(N)
    <3>1. j = a
      BY <1>10, <2>3 DEF Pings
    <3> QED BY <2>2, <2>3, <3>1
  <2>4. RequestIs'
    <3>1. Trying' => pc'[Initiator] = "ping"
      BY <1>1, <1>3, <1>12, <1>13
    <3>2. Answers(a)'
      BY <1>1, <1>5, <2>1 DEF Answers, Ini
    <3>3. Answered'
      BY <1>9, <3>2 DEF Answered
    <3>4. Alive' => \A j \in BagToSet(net') : Answers(j)' => j.address = Acc(N)
      BY <1>1, <1>11, <2>3 DEF Answers, Ini
    <3> QED BY <1>1, <1>8, <2>1, <3>1, <3>3, <3>4 DEF RequestIs, Acc
  <2>5. Named
    BY <1>16 DEF Named
  <2>6. request'.address \in {NoSocket, Ini(N)}
    BY <2>1 DEF NoRequest
  <2>7. a.address # Ini(2)
    <3>1. request.peer_address \in Peers(Acceptor)
      BY <1>1, <1>16 DEF RequestInv, NoRequest
    <3>2. Ini(2) \notin Peers(Acceptor)
      BY Names DEF Peers, SocketsOf, Ini
    <3> QED BY <2>1, <3>1, <3>2
  <2>8. /\ \A j \in gone : j.to = Server /\ \E i : j.from = Ini(i)
        /\ \A j \in new : j.from = Server /\ \E i \in 1..N : j.to = Ini(i)
        /\ \A j \in new : j.address # Ini(2)
    BY <1>2, <1>5, <1>6, <2>7
  <2> QED BY <1>1, <1>6, <1>8, <1>14, <2>4, <2>5, <2>6, <2>8, InitiatorServed
<1>17. CASE request.peer_address = NoSocket
  <2>1. request' = request /\ a.text \in {"203", "307"} /\ a.address = NoSocket
    BY <1>5, <1>17
  <2>2. \A j \in BagToSet(net') : j.text = "201" => j \in BagToSet(net)
    BY <1>7, <2>1
  <2>3. Answered' => Answered
    BY <1>1, <2>2 DEF Answered, Answers, Ini
  <2>4. RequestIs'
    <3>1. request' # NoRequest => request'.address = Ini(N')
      BY <1>1, <2>1 DEF RequestIs
    <3>2. ASSUME Trying'
          PROVE  request' # NoRequest /\ request'.peer_address \in {NoSocket, Acc(N')} /\ ~ Answered'
      <4>1. Alive /\ Trying
        BY <1>12, <1>13, <3>2
      <4>2. ~ Answered
        <5> SUFFICES ASSUME Answered PROVE FALSE
          OBVIOUS
        <5>1. PICK j \in BagToSet(net) : Answers(j)
          BY DEF Answered
        <5>2. Pings(j, Ini(N)) /\ j # m
          BY <1>2, <5>1 DEF Answers, Pings
        <5> QED BY <1>3, <4>1, <5>2
      <4>3. request # NoRequest /\ request.peer_address \in {NoSocket, Acc(N)}
        BY <1>1, <1>4, <4>1, <4>2 DEF RequestIs
      <4> QED BY <1>1, <2>1, <2>3, <4>2, <4>3
    <3>3. Alive' => \A j \in BagToSet(net') : Answers(j)' => j.address = Acc(N)
      <4>1. Alive => \A j \in BagToSet(net) : Answers(j) => j.address = Acc(N)
        BY <1>1 DEF RequestIs
      <4> QED BY <1>1, <1>11, <2>2, <4>1 DEF Answers, Ini
    <3>4. Alive' /\ ~ Trying' => request' = NoRequest
      BY <1>1, <1>11, <1>12, <2>1 DEF RequestIs
    <3>5. Sent(N)' => request' = NoRequest /\ NoConnect'
      <4>1. Sent(N)' => Sent(N)
        BY <1>1, <1>15 DEF Sent, Ini, Acc
      <4> QED BY <1>1, <1>8, <2>1, <4>1 DEF RequestIs, Context
    <3> QED BY <1>1, <3>1, <3>2, <3>3, <3>4, <3>5 DEF RequestIs, Ini, Acc
  <2>5. Named' => Named
    BY <1>1, <2>1, <2>3 DEF Named, EndStays, Current
  <2>6. request'.address \in {NoSocket, Ini(N)}
    <3>1. request # NoRequest => request.address = Ini(N)
      BY <1>1 DEF RequestIs
    <3> QED BY <2>1, <3>1 DEF NoRequest
  <2>7. /\ \A j \in gone : j.to = Server /\ \E i : j.from = Ini(i)
        /\ \A j \in new : j.from = Server /\ \E i \in 1..N : j.to = Ini(i)
        /\ \A j \in new : j.address # Ini(2)
    BY <1>2, <1>5, <1>6, <2>1
  <2> QED BY <1>1, <1>6, <1>8, <1>14, <2>4, <2>5, <2>6, <2>7, InitiatorServed
<1> QED BY <1>16, <1>17

\* The ACCEPT that the server serves.
LEMMA AcceptIs ==
  ASSUME Context, NEW m \in BagToSet(net), m.text = "ACCEPT"
  PROVE  /\ pc[Acceptor] = "accept" /\ m.from = Acc(K) /\ m.to = Server /\ net[m] = 1 /\ K # 0 /\ K \in Nat
         /\ Exchange(m, Acc(K))
         /\ \A j \in BagToSet(net) : \A k \in 1..K : Exchange(j, Acc(k)) => j = m
         /\ K = 1 => N = 1
<1> USE SocketNames
<1>1. AcceptorAsks /\ Numbers /\ EndsInv /\ PlacesInv /\ K \in Nat /\ N \in {1, 2}
  BY Places DEF Context, IInv, First, Numbers
<1>2. m.to = Server /\ \E k \in 1..K : m.from = Acc(k)
  <2>1. m.text \in Commands
    BY DEF Commands
  <2> QED BY <2>1, CommandOf
<1>3. PICK k \in 1..K : m.from = Acc(k)
  BY <1>2
<1>4. Exchange(m, Acc(k))
  BY <1>2, <1>3 DEF Exchange
<1>5. /\ pc[Acceptor] = "accept" /\ k = K /\ net[m] = 1
      /\ \A j \in BagToSet(net) : Exchange(j, Acc(K)) => j = m
  BY <1>1, <1>4 DEF AcceptorAsks
<1>6. ASSUME NEW j \in BagToSet(net), NEW i \in 1..K, Exchange(j, Acc(i)) PROVE j = m
  <2>1. i = K
    BY <1>1, <1>6 DEF AcceptorAsks
  <2> QED BY <1>5, <1>6, <2>1
<1>7. K = 1 => N = 1
  <2> SUFFICES ASSUME K = 1, N = 2 PROVE FALSE
    BY <1>1
  <2>1. Sent(1)
    BY <1>1 DEF Numbers
  <2> QED BY <1>5, <2>1, Unheard
<1> QED BY <1>1, <1>2, <1>3, <1>4, <1>5, <1>6, <1>7

\* The answer takes the place of the ACCEPT.
LEMMA AcceptAnswered ==
  ASSUME Context, NEW m \in BagToSet(net), m.text = "ACCEPT", NEW a, a.from = Server, a.to = Acc(K),
         NEW gone, NEW new, gone = {m}, new = {a}, Carries(gone, new), pc'[Acceptor] = pc[Acceptor], K' = K
  PROVE  /\ AcceptorAsks'
         /\ \A j \in BagToSet(net') : \A k \in 1..K : Exchange(j, Acc(k)) => j = a
<1> USE SocketNames
<1>1. /\ pc[Acceptor] = "accept" /\ m.from = Acc(K) /\ m.to = Server /\ net[m] = 1 /\ K # 0 /\ K \in Nat
      /\ \A j \in BagToSet(net) : \A k \in 1..K : Exchange(j, Acc(k)) => j = m
  BY AcceptIs
<1>2. K \in 1..K /\ m # a /\ Exchange(a, Acc(K))
  BY <1>1 DEF Exchange
<1>3. a \notin BagToSet(net)
  BY <1>1, <1>2
<1>4. a \in BagToSet(net') /\ net'[a] = 1
  BY <1>3 DEF Carries
<1>5. m \notin BagToSet(net')
  BY <1>1, <1>2 DEF Carries
<1>6. ASSUME NEW j \in BagToSet(net'), NEW k \in 1..K, Exchange(j, Acc(k)) PROVE j = a /\ k = K
  <2>1. j \in BagToSet(net) \/ j = a
    BY DEF Carries
  <2>2. j = a
    BY <1>1, <1>5, <1>6, <2>1
  <2>3. Acc(k) = Acc(K)
    BY <1>6, <2>2 DEF Exchange
  <2> QED BY <2>2, <2>3
<1>7. AcceptorAsks'
  <2>1. \A j \in BagToSet(net') : \A k \in 1..K : Exchange(j, Acc(k)) =>
          /\ pc'[Acceptor] = "accept" /\ k = K /\ net'[j] = 1
          /\ \A i \in BagToSet(net') : Exchange(i, Acc(K)) => i = j
    BY <1>1, <1>2, <1>4, <1>6
  <2>2. \E j \in BagToSet(net') : Exchange(j, Acc(K))
    BY <1>2, <1>4
  <2> QED BY <2>1, <2>2 DEF AcceptorAsks, Exchange, Acc
<1> QED BY <1>6, <1>7

\* The acceptor is told of the initiator, and the initiator will be of it.
LEMMA AcceptGranted ==
  ASSUME Context, IInv', NEW m \in BagToSet(net), m.text = "ACCEPT", UNCHANGED endVars,
         request # NoRequest, request' = [request EXCEPT !.peer_address = m.from],
         Answer(m, Told(m, "201", request.address))
  PROVE  First'
<1> USE SocketNames
<1>1. /\ EndStays(Initiator) /\ EndStays(Acceptor) /\ N' = N /\ K' = K /\ m.text \in Commands
      /\ EndsInv /\ NetInv /\ EndsInv' /\ NetInv' /\ RequestInv /\ AcceptorNumbers /\ Numbers /\ ConnectInv /\ RequestIs
      /\ N \in {1, 2}
  BY DEF endVars, EndStays, N, K, Commands, Context, IInv, First, Numbers
<1>2. /\ pc[Acceptor] = "accept" /\ m.from = Acc(K) /\ m.to = Server /\ K # 0 /\ K \in Nat
      /\ Exchange(m, Acc(K)) /\ (K = 1 => N = 1)
  BY AcceptIs
<1> DEFINE a == Told(m, "201", request.address)
<1>3. Answer(m, a) /\ a.from = Server /\ a.to = Acc(K) /\ a.text = "201" /\ a.address = Ini(N)
  BY <1>1, <1>2 DEF Told, RequestIs
<1> HIDE DEF a
<1>4. PICK gone, new : gone = {m} /\ new = {a} /\ Carries(gone, new) /\ gone \subseteq BagToSet(net)
  BY <1>1, <1>3, Answering
<1>5. pc'[Acceptor] = pc[Acceptor] /\ p2p'[Acceptor] = p2p[Acceptor]
  BY <1>1 DEF EndStays
<1>6. /\ AcceptorAsks'
      /\ \A j \in BagToSet(net') : \A k \in 1..K : Exchange(j, Acc(k)) => j = a
  BY <1>1, <1>3, <1>4, <1>5, AcceptAnswered
<1>7. TalkStays(Initiator)
  <2>1. \A j \in gone \cup new : ~ Talks(j, Initiator)
    BY <1>2, <1>3, <1>4 DEF Talks
  <2> QED BY <1>4, <2>1, TalkKept, Names
<1>8. SentStays
  <2>1. \A j \in new : Server \in {j.from, j.to}
    BY <1>3, <1>4
  <2> QED BY <1>4, <2>1, SentKept
<1>9. /\ (\A k : (Sent(k)' <=> Sent(k))) /\ (Alive' <=> Alive) /\ (Trying' <=> Trying) /\ (Answered' <=> Answered)
      /\ Numbers'
  BY <1>1, <1>7, <1>8, InitiatorKept
<1>10. NoConnect
  BY <1>1 DEF ConnectInv, NoConnect
<1>11. InitiatorAsks' /\ NoConnect'
  BY <1>1, <1>7, <1>8, <1>10, InitiatorTalkKept
<1>12. request.address = Ini(N) /\ ~ Sent(N) /\ (Alive => Trying /\ request.peer_address \in {NoSocket, Acc(N)} /\ ~ Answered)
  BY <1>1, <1>10 DEF RequestIs, Context
<1>13. request'.address = Ini(N) /\ request'.peer_address = Acc(K) /\ request' # NoRequest
  <2>1. request \in [address : Socket \cup {NoSocket}, peer_address : Socket \cup {NoSocket}]
    BY <1>1 DEF RequestInv
  <2>2. request'.address = Ini(N) /\ request'.peer_address = Acc(K)
    BY <1>2, <1>12, <2>1
  <2> QED BY <2>2 DEF NoRequest
<1>14. Alive => K = N
  <2> SUFFICES ASSUME Alive PROVE K = N
    OBVIOUS
  <2>1. K = N \/ K = N - 1
    BY <1>12 DEF Context, First, Meets
  <2> QED BY <1>1, <1>2, <2>1
<1>15. AcceptorNumbers'
  <2>1. K = 2 /\ p2p[Acceptor]["video"].sock = 2 => N = 2
    <3>1. p2p[Acceptor]["video"].sock = 2 => Sent(1)
      BY <1>1 DEF AcceptorNumbers
    <3>2. N = 1 => ~ Sent(1)
      BY <1>12
    <3> QED BY <1>1, <3>1, <3>2
  <2>2. ASSUME NEW j \in BagToSet(net'), j.from = Server, j.text = "201"
        PROVE  /\ j.to = Acc(1) => j.address = Ini(1)
               /\ j.to = Acc(2) /\ p2p[Acceptor]["video"].sock = 2 => j.address = Ini(2)
    <3>1. CASE j = a
      <4>1. j.to = Acc(1) => K = 1
        BY <1>3, <3>1
      <4>2. j.to = Acc(2) => K = 2
        BY <1>3, <3>1
      <4> QED BY <1>2, <1>3, <2>1, <3>1, <4>1, <4>2
    <3>2. CASE j # a
      <4>1. j \in BagToSet(net)
        BY <1>4, <3>2 DEF Carries
      <4> QED BY <1>1, <2>2, <4>1 DEF AcceptorNumbers
    <3> QED BY <3>1, <3>2
  <2>3. /\ p2p[Acceptor]["video"].sock # 1
        /\ p2p[Acceptor]["audio"].sock = 1 => p2p[Acceptor]["audio"].peer \in {NoSocket, Ini(1)}
        /\ p2p[Acceptor]["video"].sock = 2 => Sent(1) /\ p2p[Acceptor]["video"].peer \in {NoSocket, Ini(2)}
        /\ Sent(1) => p2p[Acceptor]["audio"].sock # 2
        /\ \A k \in {1, 2} : Sent(k) => k <= K
    BY <1>1 DEF AcceptorNumbers
  <2> QED BY <1>1, <1>2, <1>5, <1>9, <2>2, <2>3 DEF AcceptorNumbers, Ini, Acc
<1>16. RequestIs'
  <2>1. Trying' => request'.peer_address \in {NoSocket, Acc(N)} /\ ~ Answered'
    <3>1. Trying => Alive
      BY DEF Trying, Alive
    <3>2. Trying' => K = N /\ ~ Answered
      BY <1>9, <1>12, <1>14, <3>1
    <3> QED BY <1>9, <1>13, <3>2
  <2>2. Alive' => \A j \in BagToSet(net') : ~ Answers(j)'
    <3>1. Alive' => ~ Answered'
      BY <1>9, <1>12
    <3> QED BY <3>1 DEF Answered
  <2>3. ~ (Alive' /\ ~ Trying')
    BY <1>9, <1>12
  <2>4. ~ Sent(N)'
    BY <1>1, <1>9, <1>12 DEF Sent
  <2> QED BY <1>1, <1>13, <2>1, <2>2, <2>3, <2>4 DEF RequestIs, Ini, Acc
<1>17. ConnectInv' /\ Before'
  BY <1>1, <1>11 DEF ConnectInv, NoConnect, Before, Context
<1>18. Follows'
  <2>1. \A j \in gone : \A k \in {1, 2} :
           j.from = Ini(k) /\ j.to = Acc(k) => ~ (Sent(k) /\ K = k /\ pc[Acceptor] = "await 200")
    BY <1>2, <1>4
  <2>2. Follows
    BY DEF Context, First
  <2> QED BY <1>1, <1>4, <1>5, <1>8, <2>1, <2>2, FollowsKept
<1>19. Meets' /\ GoesOn'
  <2>1. \A j \in BagToSet(net') : Exchange(j, Acc(K)) => j.text = "201"
    <3>1. K \in 1..K
      BY <1>2
    <3> QED BY <1>3, <1>6, <3>1
  <2>2. Alive /\ ~ Sent(N) =>
           /\ Named' => Named \/ (K = N /\ pc[Acceptor] # "throttle")
           /\ Named' /\ ~ Named => \A j \in BagToSet(net') : Exchange(j, Acc(N)) => j.text = "201"
           /\ K = N => \A j \in BagToSet(net') : Exchange(j, Acc(N)) => j \in BagToSet(net) \/ j.text = "201"
    <3> SUFFICES ASSUME Alive PROVE /\ K = N /\ pc[Acceptor] # "throttle"
                                    /\ \A j \in BagToSet(net') : Exchange(j, Acc(N)) => j.text = "201"
      OBVIOUS
    <3>1. K = N /\ pc[Acceptor] # "throttle"
      BY <1>2, <1>14
    <3> QED BY <2>1, <3>1
  <2> QED BY <1>1, <1>9, <2>2, MeetsServed
<1>20. N' = 1 => Unknown(2)'
  <2> SUFFICES ASSUME N = 1 PROVE Unknown(2)'
    BY <1>1
  <2>1. Unknown(2)
    BY DEF Context, First
  <2>2. \A j \in new : j.address # Ini(2) /\ j.to # Ini(2) /\ (j.to # Server => j.from # Ini(2))
    BY <1>3, <1>4
  <2>3. (\A s \in Streams : p2p'[Acceptor][s].peer # Ini(2)) /\ request'.address # Ini(2)
    BY <1>5, <1>13, <2>1 DEF Unknown
  <2> QED BY <1>4, <2>1, <2>2, <2>3, UnknownKept
<1> QED BY <1>6, <1>9, <1>11, <1>15, <1>16, <1>17, <1>18, <1>19, <1>20 DEF First

\* There is nobody to accept.
LEMMA AcceptRefused ==
  ASSUME Context, IInv', NEW m \in BagToSet(net), m.text = "ACCEPT", UNCHANGED <<endVars, ringing>>,
         request = NoRequest, request' = request, Reply(m, "307")
  PROVE  First'
<1> USE SocketNames
<1>1. /\ EndStays(Initiator) /\ EndStays(Acceptor) /\ N' = N /\ K' = K /\ m.text \in Commands /\ ringing' = ringing
      /\ pc'[Acceptor] = pc[Acceptor] /\ p2p'[Acceptor] = p2p[Acceptor] /\ stream'[Acceptor] = stream[Acceptor]
      /\ AcceptorNumbers /\ ConnectInv /\ RequestIs /\ Meets /\ GoesOn /\ N # 0 /\ PlacesInv
  BY DEF endVars, EndStays, N, K, Commands, Context, IInv, First
<1>2. /\ pc[Acceptor] = "accept" /\ m.from = Acc(K) /\ m.to = Server /\ K # 0 /\ K \in Nat
      /\ Exchange(m, Acc(K))
  BY AcceptIs
<1> DEFINE a == Told(m, "307", NoSocket)
<1>3. Answer(m, a) /\ a.from = Server /\ a.to = Acc(K) /\ a.text = "307" /\ a.address = NoSocket
  BY <1>2 DEF Told, Reply
<1> HIDE DEF a
<1>4. PICK gone, new : gone = {m} /\ new = {a} /\ Carries(gone, new) /\ gone \subseteq BagToSet(net)
  BY <1>1, <1>3, Answering
<1>5. AcceptorAsks'
  BY <1>1, <1>3, <1>4, AcceptAnswered
<1>6. Apart(gone, new)
  <2>1. \A j \in gone \cup new : ~ Talks(j, Initiator)
    BY <1>2, <1>3, <1>4 DEF Talks
  <2>2. \A j \in new : Server \in {j.from, j.to} \/ j.from[1] # Initiator
    BY <1>3, <1>4
  <2>3. ASSUME NEW n, Unknown(n) PROVE Unknown(n)'
    <3>1. \A j \in new : j.address # Ini(n) /\ j.to # Ini(n) /\ (j.to # Server => j.from # Ini(n))
      BY <1>3, <1>4
    <3>2. (\A s \in Streams : p2p'[Acceptor][s].peer # Ini(n)) /\ request'.address # Ini(n)
      BY <1>1, <2>3 DEF Unknown
    <3> QED BY <1>4, <2>3, <3>1, <3>2, UnknownKept
  <2>4. ~ ringing /\ K = 0 => K' = 0
    BY <1>1
  <2>5. ~ ringing /\ request = NoRequest => ~ ringing'
    BY <1>1
  <2> QED BY <1>1, <1>4, <2>1, <2>2, <2>3, <2>4, <2>5 DEF Apart
<1>7. \A k : (Sent(k)' <=> Sent(k))
  BY <1>6, ApartKeeps
<1>8. AcceptorNumbers'
  <2>1. ASSUME NEW j \in BagToSet(net'), j.from = Server, j.text = "201" PROVE j \in BagToSet(net)
    BY <1>3, <1>4, <2>1 DEF Carries
  <2>2. /\ p2p[Acceptor]["video"].sock # 1
        /\ p2p[Acceptor]["audio"].sock = 1 => p2p[Acceptor]["audio"].peer \in {NoSocket, Ini(1)}
        /\ p2p[Acceptor]["video"].sock = 2 => Sent(1) /\ p2p[Acceptor]["video"].peer \in {NoSocket, Ini(2)}
        /\ Sent(1) => p2p[Acceptor]["audio"].sock # 2
        /\ \A k \in {1, 2} : Sent(k) => k <= K
    BY <1>1 DEF AcceptorNumbers
  <2>3. ASSUME NEW j \in BagToSet(net'), j.from = Server, j.text = "201"
        PROVE  /\ j.to = Acc(1) => j.address = Ini(1)
               /\ j.to = Acc(2) /\ p2p[Acceptor]["video"].sock = 2 => j.address = Ini(2)
    BY <1>1, <2>1, <2>3 DEF AcceptorNumbers
  <2> QED BY <1>1, <1>2, <1>7, <2>2, <2>3 DEF AcceptorNumbers, Ini, Acc
<1>9. \A k \in {1, 2} : ~ (Sent(k) /\ K' = k)
  BY <1>1, <1>2, Unheard
<1>10. ASSUME Alive, ~ Sent(N)
       PROVE  ~ Named /\ ~ (K = N /\ N = 1) /\ pc[Initiator] # "handshake"
  <2>1. ~ Named
    <3> SUFFICES ASSUME Named PROVE FALSE
      OBVIOUS
    <3>1. K = N /\ \A j \in BagToSet(net) : Exchange(j, Acc(N)) => j.text = "201"
      BY <1>1, <1>10 DEF Meets
    <3> QED BY <1>2, <3>1
  <2>2. pc[Initiator] # "handshake"
    BY <1>1, <1>2, <1>10 DEF Meets
  <2>3. Trying
    <3>1. pc[Initiator] \in {"connect", "ping", "pinged", "handshake"}
      BY <1>1, <1>10 DEF Meets
    <3>2. Current(Initiator).status \notin {"Accepted", "Connected"}
      BY <2>1 DEF Named
    <3> QED BY <1>10, <2>2, <3>1, <3>2 DEF Trying, Alive
  <2>4. ~ NoConnect
    <3>1. ~ Answered
      BY <2>1 DEF Named
    <3> QED BY <1>1, <2>3, <3>1 DEF RequestIs
  <2>5. N # 1
    BY <1>1, <1>2, <2>4 DEF ConnectInv, NoConnect
  <2> QED BY <2>1, <2>2, <2>5
<1>11. ASSUME Alive, ~ Sent(N)
       PROVE  /\ K' = N \/ K' = N - 1
              /\ K' = N => /\ stream'[Acceptor] = (IF N = 2 THEN "video" ELSE "audio")
                           /\ N # 1
  <2>1. /\ K = N \/ K = N - 1
        /\ K = N => stream[Acceptor] = (IF N = 2 THEN "video" ELSE "audio")
    BY <1>1, <1>11 DEF Meets
  <2>2. K = N => N # 1
    BY <1>10, <1>11
  <2> QED BY <1>1, <2>1, <2>2
<1>12. Alive /\ N = 1 /\ Sent(1) =>
         K' <= 2 /\ (K' = 2 => /\ pc'[Acceptor] # "idle" /\ stream'[Acceptor] = "video"
                               /\ p2p'[Acceptor]["video"].sock = 2)
  BY <1>1 DEF GoesOn
<1>13. pc'[Acceptor] = "accept"
  BY <1>1, <1>2
<1> QED BY <1>5, <1>6, <1>8, <1>9, <1>10, <1>11, <1>12, <1>13, AcceptorGoes

LEMMA DropFirst ==
  ASSUME Context, IInv', NEW m \in BagToSet(net), Drop(m), UNCHANGED <<endVars, request, ringing>>
  PROVE  First'
<1> USE SocketNames
<1>1. /\ m.to # Server /\ m.from # Server /\ ~ Passes(m) /\ Receive(m) /\ NetInv
      /\ EndStays(Initiator) /\ EndStays(Acceptor) /\ N' = N /\ K' = K /\ request' = request /\ ringing' = ringing
      /\ pc'[Acceptor] = pc[Acceptor] /\ p2p'[Acceptor] = p2p[Acceptor] /\ stream'[Acceptor] = stream[Acceptor]
      /\ AcceptorNumbers /\ AcceptorAsks /\ Follows /\ Meets /\ GoesOn /\ N # 0
  BY DEF Drop, Passes, endVars, EndStays, N, K, Context, IInv, First
<1>2. PICK gone, new : gone = {m} /\ new = {} /\ Carries(gone, new) /\ gone \subseteq BagToSet(net)
  <2>1. Carries({m}, {})
    BY <1>1, ReceiveCarries
  <2>2. {m} \subseteq BagToSet(net)
    OBVIOUS
  <2> QED BY <2>1, <2>2
<1>3. Apart(gone, new)
  <2>1. \A j \in gone \cup new : ~ Talks(j, Initiator)
    BY <1>1, <1>2 DEF Talks
  <2>2. \A j \in new : Server \in {j.from, j.to} \/ j.from[1] # Initiator
    BY <1>2
  <2>3. ASSUME NEW n, Unknown(n) PROVE Unknown(n)'
    <3>1. \A j \in new : j.address # Ini(n) /\ j.to # Ini(n) /\ (j.to # Server => j.from # Ini(n))
      BY <1>2
    <3>2. (\A s \in Streams : p2p'[Acceptor][s].peer # Ini(n)) /\ request'.address # Ini(n)
      BY <1>1, <2>3 DEF Unknown
    <3> QED BY <1>2, <2>3, <3>1, <3>2, UnknownKept
  <2>4. ~ ringing /\ K = 0 => K' = 0
    BY <1>1
  <2>5. ~ ringing /\ request = NoRequest => ~ ringing'
    BY <1>1
  <2> QED BY <1>1, <1>2, <2>1, <2>2, <2>3, <2>4, <2>5 DEF Apart
<1>4. SentStays
  <2>1. \A j \in new : Server \in {j.from, j.to}
    BY <1>2
  <2> QED BY <1>2, <2>1, SentKept
<1>5. AcceptorNumbers' /\ AcceptorAsks'
  <2>1. TalkStays(Acceptor)
    <3>1. \A j \in gone \cup new : ~ Talks(j, Acceptor)
      BY <1>1, <1>2 DEF Talks
    <3> QED BY <1>2, <3>1, TalkKept, Names
  <2> QED BY <1>1, <1>4, <2>1, AcceptorKept
<1>6. Follows'
  <2>1. ASSUME NEW k \in {1, 2}, m.from = Ini(k), m.to = Acc(k), Sent(k), K = k, pc[Acceptor] = "await 200" PROVE FALSE
    BY <1>1, <2>1, HeededPasses DEF CanRead, Readable
  <2>2. \A j \in gone : \A k \in {1, 2} :
           j.from = Ini(k) /\ j.to = Acc(k) => ~ (Sent(k) /\ K = k /\ pc[Acceptor] = "await 200")
    BY <1>2, <2>1
  <2> QED BY <1>1, <1>2, <1>4, <2>2, FollowsKept
<1>7. \A k \in {1, 2} : Sent(k) /\ K' = k =>
         Heeds(k)' \/ pc'[Acceptor] = "between" \/ (k = 2 /\ pc'[Acceptor] = "idle")
  <2>1. \A k : (Sent(k)' <=> Sent(k))
    BY <1>3, ApartKeeps
  <2> QED BY <1>6, <2>1 DEF Follows
<1>8. \A j \in BagToSet(net') : j \in BagToSet(net)
  BY <1>2 DEF Carries
<1>9. ASSUME Alive, ~ Sent(N)
      PROVE  /\ K' = N \/ K' = N - 1
             /\ K' = N =>
                  /\ stream'[Acceptor] = (IF N = 2 THEN "video" ELSE "audio")
                  /\ pc'[Acceptor] \in {"accept", "handshake", "await 200"} \/ (N = 2 /\ pc'[Acceptor] = "throttle")
                  /\ N = 1 => \A j \in BagToSet(net') : j.from = Server /\ j.to = Acc(1) => j.text = "201"
             /\ Named => /\ K' = N /\ pc'[Acceptor] # "throttle"
                         /\ \A j \in BagToSet(net') : Exchange(j, Acc(N)) => j.text = "201"
             /\ pc[Initiator] = "handshake" => pc'[Acceptor] = "await 200"
  <2>1. /\ K = N \/ K = N - 1
        /\ K = N =>
             /\ stream[Acceptor] = (IF N = 2 THEN "video" ELSE "audio")
             /\ pc[Acceptor] \in {"accept", "handshake", "await 200"} \/ (N = 2 /\ pc[Acceptor] = "throttle")
             /\ N = 1 => \A j \in BagToSet(net) : j.from = Server /\ j.to = Acc(1) => j.text = "201"
        /\ Named => /\ K = N /\ pc[Acceptor] # "throttle"
                    /\ \A j \in BagToSet(net) : Exchange(j, Acc(N)) => j.text = "201"
        /\ pc[Initiator] = "handshake" => pc[Acceptor] = "await 200"
    BY <1>1, <1>9 DEF Meets
  <2> QED BY <1>1, <1>8, <2>1
<1>10. Alive /\ N = 1 /\ Sent(1) =>
         K' <= 2 /\ (K' = 2 => /\ pc'[Acceptor] # "idle" /\ stream'[Acceptor] = "video"
                               /\ p2p'[Acceptor]["video"].sock = 2)
  BY <1>1 DEF GoesOn
<1> QED BY <1>3, <1>5, <1>7, <1>9, <1>10, AcceptorGoes

LEMMA ServeFirst ==
  ASSUME Context, IInv', Serve
  PROVE  First'
<1>1. /\ UNCHANGED <<endVars, ringing>>
      /\ \E m \in BagToSet(net) : ServeConnect(m) \/ ServeAccept(m) \/ ServePing(m) \/ ServeHangup(m)
  BY DEF Serve
<1>2. ASSUME NEW m \in BagToSet(net), ServeAccept(m) PROVE First'
  <2>1. m.text = "ACCEPT"
    BY <1>2 DEF ServeAccept
  <2>2. CASE /\ request # NoRequest /\ request' = [request EXCEPT !.peer_address = m.from]
             /\ Answer(m, Told(m, "201", request.address))
    BY <1>1, <2>1, <2>2, AcceptGranted
  <2>3. CASE request = NoRequest /\ Reply(m, "307") /\ UNCHANGED request
    BY <1>1, <2>1, <2>3, AcceptRefused
  <2> QED BY <1>2, <2>2, <2>3 DEF ServeAccept
<1> QED BY <1>1, <1>2, ServeConnectFirst, ServePingFirst, ServeHangupFirst

\* The counts only grow.
LEMMA CountsGrow ==
  ASSUME IInv, [Next]_vars
  PROVE  /\ calls[Initiator] \in Nat /\ late \in Nat /\ late' >= late
         /\ calls'[Initiator] \in {calls[Initiator], calls[Initiator] + 1}
         /\ Dial => calls'[Initiator] = calls[Initiator] + 1
<1>1. calls \in [Ends -> Nat] /\ late \in Nat /\ Initiator \in Ends
  BY Names, PeerToPeerAssumption DEF IInv, CountsInv
<1>2. UNCHANGED calls \/ \E e \in Ends : calls' = [calls EXCEPT ![e] = @ + 1]
  <2>1. CASE InitiatorStep \/ AcceptorStep
    BY <2>1, EndCounts DEF IInv, Counts
  <2>2. CASE Dial \/ AnswerCall
    BY <2>2, Names DEF Dial, AnswerCall
  <2>3. CASE Serve \/ Expire \/ Network \/ UserHangup \/ List \/ UNCHANGED vars
    BY <2>3 DEF Serve, Expire, Network, UserHangup, List, vars, endVars
  <2> QED BY <2>1, <2>2, <2>3 DEF Next, Users
<1>3. late' = late \/ late' = late + 1
  <2>1. CASE InitiatorStep \/ AcceptorStep
    BY <2>1, EndCounts DEF IInv, Counts
  <2>2. CASE Expire
    BY <2>2 DEF Expire, TooLate, CountLate
  <2>3. CASE Serve \/ Network \/ Users \/ UNCHANGED vars
    BY <2>3 DEF Serve, Network, Users, Dial, AnswerCall, UserHangup, List, vars
  <2> QED BY <2>1, <2>2, <2>3 DEF Next
<1>4. Dial => calls'[Initiator] = calls[Initiator] + 1
  BY <1>1 DEF Dial
<1>5. calls'[Initiator] \in {calls[Initiator], calls[Initiator] + 1}
  BY <1>1, <1>2
<1>6. late' >= late
  BY <1>1, <1>3
<1> QED BY <1>1, <1>4, <1>5, <1>6

LEMMA FirstStep ==
  ASSUME Context, IInv', MaxLate > 0, late = 0, late' = 0, calls'[Initiator] <= 1, [Next]_vars
  PROVE  First'
<1>1. CASE InitiatorStep
  BY <1>1, InitiatorStepFirst
<1>2. CASE AcceptorStep
  BY <1>2, AcceptorStepFirst
<1>3. CASE Serve
  BY <1>3, ServeFirst
<1>4. CASE Expire
  BY <1>4, ExpireFirst
<1>5. CASE Network
  BY <1>5, DropFirst DEF Network
<1>6. CASE Dial
  <2>1. calls[Initiator] \in Nat /\ calls'[Initiator] = calls[Initiator] + 1
    BY <1>6, CountsGrow DEF Context
  <2>2. calls[Initiator] = 0
    BY <2>1
  <2>3. N = 0
    BY <2>2 DEF Context, PlacesInv, InitiatorPlaceInv
  <2> QED BY <2>3 DEF Context
<1>7. CASE AnswerCall
  BY <1>7, AnswerCallFirst
<1>8. CASE UserHangup
  <2>1. UNCHANGED <<netVars, p2p, stream, pc, opened, request, ringing>>
    BY <1>8 DEF UserHangup
  <2> QED BY <2>1, NothingDone
<1>9. CASE List
  <2>1. UNCHANGED <<netVars, p2p, stream, pc, opened, request>>
    BY <1>9 DEF List, endVars
  <2>2. request = NoRequest => ~ ringing'
    BY <1>9 DEF List
  <2> QED BY <2>1, <2>2, NothingDone
<1>10. CASE UNCHANGED vars
  <2>1. UNCHANGED <<netVars, p2p, stream, pc, opened, request, ringing>>
    BY <1>10 DEF vars, endVars
  <2> QED BY <2>1, NothingDone
<1> QED BY <1>1, <1>2, <1>3, <1>4, <1>5, <1>6, <1>7, <1>8, <1>9, <1>10 DEF Next, Users

-----------------------------------------------------------------------------
\* Before the first call.
Blank ==
  /\ N = 0 /\ K = 0 /\ pc[Initiator] = "idle" /\ pc[Acceptor] = "idle"
  /\ BagToSet(net) = {} /\ request = NoRequest /\ ~ ringing /\ sent_to = {}
  /\ \A e \in Ends, s \in Streams : p2p[e][s] = Null
  /\ stream[Initiator] = "audio"

LEMMA BlankIsFirst == Blank => First
<1> SUFFICES ASSUME Blank PROVE First
  OBVIOUS
<1>1. /\ N = 0 /\ K = 0 /\ pc[Initiator] = "idle" /\ pc[Acceptor] = "idle"
      /\ BagToSet(net) = {} /\ request = NoRequest /\ ~ ringing /\ sent_to = {}
      /\ stream[Initiator] = "audio" /\ "audio" \in Streams /\ "video" \in Streams
  BY DEF Blank, Streams
<1>2. \A e \in Ends, s \in Streams : p2p[e][s] = Null
  BY DEF Blank
<1>3. /\ p2p[Initiator]["audio"] = Null /\ p2p[Initiator]["video"] = Null
      /\ p2p[Acceptor]["audio"] = Null /\ p2p[Acceptor]["video"] = Null
  BY <1>1, <1>2, Names
<1>4. Null.sock = 0 /\ Null.peer = NoSocket /\ NoRequest.address = NoSocket
  BY DEF Null, P2P, NoRequest
<1>5. \A k : ~ Sent(k)
  BY <1>1 DEF Sent
<1>6. ~ Alive /\ ~ Trying
  BY <1>1 DEF Alive, Trying
<1> HIDE DEF Null, NoRequest
<1>7. Before
  BY <1>1, <1>2 DEF Before
<1>8. Numbers
  BY <1>1, <1>3, <1>4, <1>5 DEF Numbers
<1>9. AcceptorNumbers
  BY <1>1, <1>3, <1>4, <1>5 DEF AcceptorNumbers
<1>10. AcceptorAsks /\ ConnectInv
  BY <1>1 DEF AcceptorAsks, ConnectInv
<1>11. InitiatorAsks
  BY <1>1, <1>6 DEF InitiatorAsks
<1>12. RequestIs
  BY <1>1, <1>6 DEF RequestIs
<1>13. Follows /\ Meets /\ GoesOn
  BY <1>1, <1>5 DEF Follows, Meets, GoesOn
<1> QED BY <1>1, <1>7, <1>8, <1>9, <1>10, <1>11, <1>12, <1>13 DEF First

LEMMA FirstIsBlank ==
  ASSUME First, N = 0 PROVE Blank
BY DEF First, Before, Numbers, Blank

LEMMA DialFirst ==
  ASSUME IInv, Blank, Dial PROVE First'
<1> USE Names
<1>1. /\ EndsInv /\ NetInv /\ "connect" \in PCs /\ "audio" \in Streams /\ "video" \in Streams
  BY DEF IInv, PCs, Streams
<1>2. /\ N = 0 /\ K = 0 /\ pc[Acceptor] = "idle"
      /\ BagToSet(net) = {} /\ request = NoRequest /\ ~ ringing /\ sent_to = {}
      /\ \A s \in Streams : p2p[Acceptor][s] = Null
  BY DEF Blank
<1>3. /\ Construct(Initiator, "audio", "CONNECT") /\ Goto(Initiator, "connect")
      /\ request' = request /\ ringing' = ringing
  BY DEF Dial
<1>4. /\ pc'[Initiator] = "connect" /\ stream'[Initiator] = "audio" /\ opened'[Initiator] = opened[Initiator] + 1
      /\ p2p'[Initiator]["audio"] = P2P(opened[Initiator] + 1)
      /\ p2p'[Initiator]["video"] = Null
      /\ EndStays(Acceptor)
      /\ Send(Text(<<Initiator, opened[Initiator] + 1>>, Server, "CONNECT"), 1)
  BY <1>1, <1>3, Begins
<1>5. /\ N' = 1 /\ K' = 0 /\ pc'[Acceptor] = "idle"
      /\ request' = NoRequest /\ ~ ringing'
      /\ p2p'[Initiator]["audio"] = P2P(1)
      /\ \A s \in Streams : p2p'[Acceptor][s] = Null
      /\ Send(Text(Ini(1), Server, "CONNECT"), 1)
  BY <1>2, <1>3, <1>4 DEF N, K, EndStays, Ini
<1> DEFINE a == Text(Ini(1), Server, "CONNECT")
<1>6. /\ a.from = Ini(1) /\ a.to = Server /\ a.text = "CONNECT" /\ a.address = NoSocket
      /\ Send(a, 1) /\ 1 \in Nat \ {0}
  BY <1>5 DEF Text
<1> HIDE DEF a
<1>7. Carries({}, {a})
  BY <1>1, <1>6, SendCarries
<1>8. PICK new : new = {a} /\ Carries({}, new)
  BY <1>7
<1>9. BagToSet(net') = {a} /\ net'[a] = 1 /\ sent_to' = {}
  BY <1>2, <1>6, <1>8 DEF Carries
<1>10. /\ P2P(1).sock = 1 /\ P2P(1).status = "Idle" /\ P2P(1).peer = NoSocket
       /\ Null.sock = 0 /\ Null.peer = NoSocket /\ NoRequest.address = NoSocket
       /\ NoRequest.peer_address = NoSocket
  BY DEF Null, P2P, NoRequest
<1>11. \A k : (~ Sent(k))'
  BY <1>9 DEF Sent, Ini, Acc
<1>12. \A m \in BagToSet(net') : m = a
  BY <1>9
<1> HIDE DEF Null, NoRequest, P2P
<1>13. Before' /\ Numbers'
  <2>1. Before'
    BY <1>5 DEF Before
  <2>2. /\ N' \in 0..2 /\ stream'[Initiator] = (IF N' = 2 THEN "video" ELSE "audio")
        /\ p2p'[Initiator]["audio"].sock \in {0, 1} /\ p2p'[Initiator]["video"].sock \in {0, 2}
        /\ N' < 2 => p2p'[Initiator]["video"] = Null
        /\ p2p'[Initiator]["audio"].peer \in {NoSocket, Acc(1)}
        /\ p2p'[Initiator]["video"].peer \in {NoSocket, Acc(2)}
    BY <1>4, <1>5, <1>10
  <2>3. (N = 2 \/ Sent(2) => Sent(1))'
    BY <1>5, <1>11
  <2> QED BY <1>9, <2>1, <2>2, <2>3 DEF Numbers, Acc
<1>14. AcceptorNumbers'
  <2>1. \A s \in Streams : p2p'[Acceptor][s].sock = 0 /\ p2p'[Acceptor][s].peer = NoSocket
    BY <1>5, <1>10
  <2>2. p2p'[Acceptor]["video"].sock # 1 /\ p2p'[Acceptor]["audio"].sock # 1 /\ p2p'[Acceptor]["video"].sock # 2
    BY <1>1, <2>1
  <2>3. \A m \in BagToSet(net') : m.text # "201"
    BY <1>6, <1>12
  <2> QED BY <1>5, <1>11, <2>2, <2>3 DEF AcceptorNumbers
<1>15. AcceptorAsks' /\ GoesOn'
  BY <1>5, <1>11 DEF AcceptorAsks, GoesOn
<1>16. Unknown(1)' /\ Unknown(2)'
  <2>1. \A n : Ini(n) # NoSocket /\ Ini(n) # Server
    BY SocketNames
  <2>2. ASSUME NEW n PROVE Unknown(n)'
    <3>1. \A m \in BagToSet(net') : m.address # Ini(n) /\ m.to # Ini(n)
      BY <1>6, <1>12, <2>1
    <3> QED BY <1>5, <1>9, <1>10, <2>1, <3>1 DEF Unknown, Ini
  <2> QED BY <2>2
<1>17. ConnectInv'
  <2>1. Unknown(N)'
    BY <1>5, <1>16 DEF Unknown, Ini
  <2> QED BY <1>4, <1>5, <1>6, <1>9, <1>12, <2>1 DEF ConnectInv, Is, Ini
<1>18. InitiatorAsks'
  <2>1. Exchange(a, Ini(N))'
    BY <1>5, <1>6 DEF Exchange, Ini
  <2>2. \A m \in BagToSet(net') : ~ Pings(m, Ini(N))'
    BY <1>6, <1>12, SocketNames DEF Pings, Is, Ini
  <2>3. \A m \in BagToSet(net') : (~ Is(m, "PING")) /\ ~ Is(m, "HANGUP")
    BY <1>6, <1>12 DEF Is
  <2> QED BY <1>4, <1>9, <2>1, <2>2, <2>3 DEF InitiatorAsks
<1>19. RequestIs'
  <2>1. ~ NoConnect'
    BY <1>6, <1>9 DEF NoConnect, Is
  <2>2. \A m \in BagToSet(net') : ~ Answers(m)'
    BY <1>6, <1>12 DEF Answers
  <2> QED BY <1>5, <1>11, <2>1, <2>2 DEF RequestIs
<1>20. Follows'
  BY <1>11 DEF Follows
<1>21. Meets'
  <2>1. Current(Initiator)' = P2P(1)
    BY <1>4, <1>5 DEF Current
  <2>2. ~ Answered' /\ ~ Named'
    BY <1>5, <1>6, <1>10, <1>12, <2>1 DEF Answered, Answers, Named
  <2>3. K' = N' - 1 /\ K' # N'
    BY <1>5
  <2> QED BY <1>4, <2>2, <2>3 DEF Meets
<1> QED BY <1>13, <1>14, <1>15, <1>16, <1>17, <1>18, <1>19, <1>20, <1>21 DEF First

LEMMA BlankStep ==
  ASSUME IInv, Blank, [Next]_vars
  PROVE  First'
<1> USE Names
<1>1. /\ N = 0 /\ pc[Initiator] = "idle" /\ pc[Acceptor] = "idle"
      /\ BagToSet(net) = {} /\ request = NoRequest /\ ~ ringing
  BY DEF Blank
<1>2. ~ InitiatorStep
  BY <1>1 DEF InitiatorStep, HandshakePeer, Retry, NextStream, AfterPing, Timeout, Waiting
<1>3. ~ AcceptorStep
  BY <1>1 DEF AcceptorStep, HandshakePeer, Retry, NextStream, AcceptAgain, Timeout, Waiting
<1>4. ~ Serve /\ ~ Expire /\ ~ Network /\ ~ AnswerCall /\ ~ UserHangup
  BY <1>1 DEF Serve, Expire, Network, AnswerCall, UserHangup
<1>5. CASE List \/ UNCHANGED vars
  <2>1. UNCHANGED <<netVars, p2p, stream, pc, opened, request>>
    BY <1>5 DEF List, vars, endVars
  <2>2. ~ ringing'
    <3>1. CASE List
      BY <1>1, <3>1, Zenon DEF List
    <3>2. CASE UNCHANGED vars
      <4>1. ringing' = ringing
        BY <3>2 DEF vars
      <4> QED BY <1>1, <4>1, Zenon
    <3> QED BY <1>5, <3>1, <3>2
  <2>3. Blank'
    <3>1. /\ N' = N /\ K' = K /\ pc' = pc /\ p2p' = p2p /\ stream' = stream
          /\ BagToSet(net') = BagToSet(net) /\ request' = request /\ sent_to' = sent_to /\ ~ ringing'
      BY <2>1, <2>2 DEF netVars, N, K
    <3> QED BY <3>1 DEF Blank
  <2> QED BY <2>3, BlankIsFirst, PTL
<1> QED BY <1>2, <1>3, <1>4, <1>5, DialFirst DEF Next, Users

-----------------------------------------------------------------------------
\* The first call.

LEMMA InitPlaces == ASSUME Init PROVE PlacesInv
<1>1. /\ pc = [e \in Ends |-> "idle"] /\ p2p = [e \in Ends |-> [s \in Streams |-> Null]]
      /\ opened = [e \in Ends |-> 0] /\ Null.status = "Idle"
  BY DEF Init, Null, P2P
<1>2. /\ \A e \in Ends : pc[e] = "idle" /\ \A s \in Streams : p2p[e][s].status = "Idle"
      /\ N = 0
  BY <1>1, Names DEF N
<1>3. \A e \in Ends : PlaceInv(e)
  BY <1>2 DEF PlaceInv
<1> QED BY <1>2, <1>3, Names DEF PlacesInv, InitiatorPlaceInv, AcceptorPlaceInv

LEMMA InitBlank == ASSUME Init PROVE Blank
<1>1. /\ pc = [e \in Ends |-> "idle"] /\ p2p = [e \in Ends |-> [s \in Streams |-> Null]]
      /\ opened = [e \in Ends |-> 0] /\ stream = [e \in Ends |-> "audio"]
      /\ request = NoRequest
  BY DEF Init
<1>2. ~ ringing
  BY DEF Init
<1>3. BagToSet(net) = {} /\ sent_to = {}
  BY DEF Init, NetInit, EmptyBag, SetToBag, BagToSet
<1>4. \A e \in Ends, s \in Streams : p2p[e][s] = Null
  BY <1>1
<1> HIDE DEF Null
<1> QED BY <1>1, <1>2, <1>3, <1>4, Names DEF Blank, N, K

LEMMA InitFirst == Init => FirstInv
BY InitPlaces, InitBlank, BlankIsFirst DEF FirstInv

\* It was timely before a step after which it is.
LEMMA TimelyBefore ==
  ASSUME IInv, [Next]_vars, Timely'
  PROVE  Timely /\ late = 0 /\ late' = 0 /\ calls'[Initiator] <= 1
<1>1. late' = 0 /\ calls'[Initiator] <= 1
  BY DEF Timely
<1>2. /\ calls[Initiator] \in Nat /\ late \in Nat /\ late' >= late
      /\ calls'[Initiator] \in {calls[Initiator], calls[Initiator] + 1}
  BY CountsGrow
<1> QED BY <1>1, <1>2 DEF Timely

LEMMA FirstInvStep ==
  MaxLate > 0 /\ IInv /\ FirstInv /\ [Next]_vars => FirstInv'
<1> SUFFICES ASSUME MaxLate > 0, IInv, FirstInv, [Next]_vars PROVE FirstInv'
  OBVIOUS
<1>1. IInv' /\ PlacesInv /\ PlacesInv'
  BY StepInv, PlacesStep DEF FirstInv
<1>2. ASSUME Timely' PROVE First'
  <2>1. Timely /\ late = 0 /\ late' = 0 /\ calls'[Initiator] <= 1
    BY <1>2, TimelyBefore
  <2>2. First
    BY <2>1 DEF FirstInv
  <2>3. CASE N # 0
    <3>1. Context
      BY <1>1, <2>2, <2>3 DEF Context
    <3> QED BY <1>1, <2>1, <3>1, FirstStep
  <2>4. CASE N = 0
    BY <2>2, <2>4, FirstIsBlank, BlankStep
  <2> QED BY <2>3, <2>4
<1> QED BY <1>1, <1>2 DEF FirstInv

\* With both ends connected for a stream, the initiator's socket for it has
\* shaken hands with the acceptor's of the same number.
LEMMA FirstPairs ==
  ASSUME IInv, PlacesInv, First, NEW s \in Streams,
         \A e \in Ends : p2p[e][s].status = "Connected"
  PROVE  \A e \in Ends : p2p[e][s].peer = <<Other(e), p2p[Other(e)][s].sock>>
<1> USE Names
<1> DEFINE i == p2p[Initiator][s].sock
           j == p2p[Acceptor][s].sock
           k == IF s = "audio" THEN 1 ELSE 2
<1>1. /\ Numbers /\ AcceptorNumbers
      /\ s = "audio" \/ s = "video"
  BY DEF First, Streams
<1>2. /\ p2p[Initiator][s].status = "Connected" /\ p2p[Acceptor][s].status = "Connected"
  OBVIOUS
<1>3. /\ p2p[Initiator][s].peer # NoSocket /\ p2p[Acceptor][s].peer # NoSocket
  BY <1>2 DEF PlacesInv, PlaceInv
<1>4. i \in 1..N /\ j \in 1..K
  BY <1>2, ConnectedSocket DEF N, K
<1>5. N \in 0..2 /\ K \in Nat
  BY <1>1 DEF Numbers, IInv, EndsInv, K
<1>6. i = k /\ p2p[Initiator][s].peer = Acc(k)
  BY <1>1, <1>3, <1>4, <1>5 DEF Numbers
<1>7. PICK n \in 1..N : <<Ini(n), Acc(j)>> \in sent_to
  BY <1>2, ConnectedSocket DEF Ini, Acc, N
<1>8. j \in {1, 2} /\ Sent(j)
  <2>1. \E h \in {1, 2} : h <= N /\ <<Ini(n), Acc(j)>> = <<Ini(h), Acc(h)>>
    BY <1>1, <1>7 DEF Numbers, Ini
  <2> QED BY <1>7, <2>1 DEF Sent, Ini, Acc
<1>9. j = k
  <2>1. s = "audio" => j # 2
    BY <1>1, <1>8 DEF Numbers, AcceptorNumbers
  <2>2. s = "video" => j # 1
    BY <1>1 DEF AcceptorNumbers
  <2> QED BY <1>1, <1>8, <2>1, <2>2
<1>10. p2p[Acceptor][s].peer = Ini(k)
  BY <1>1, <1>3, <1>9 DEF AcceptorNumbers
<1> HIDE DEF k, i, j
<1>11. /\ p2p[Initiator][s].peer = <<Acceptor, j>> /\ p2p[Acceptor][s].peer = <<Initiator, i>>
  BY <1>6, <1>9, <1>10 DEF Ini, Acc
<1> QED BY <1>11 DEF i, j

LEMMA FirstInvPairs == IInv /\ FirstInv => FirstCallPaired
<1> SUFFICES ASSUME IInv, FirstInv, calls[Initiator] = 1, late = 0
             PROVE  PairedByStream
  BY DEF FirstCallPaired, PairedWhenTimely
<1>1. PlacesInv /\ First
  BY DEF FirstInv, Timely
<1> QED BY <1>1, FirstPairs DEF PairedByStream

\* In the first call, when nothing has come too late, two ends that are
\* connected for a stream are connected to each other, whatever is lost: they
\* try their streams one at a time and each end counts its own
\* (Call::connect and Call::accept), and the server tells an acceptor of the
\* request there is (AwaitingUsers).
THEOREM FirstCallIsPaired ==
  ASSUME MaxLate > 0
  PROVE  Spec => []FirstCallPaired
<1>1. IInv /\ FirstInv /\ [Next]_vars => (IInv /\ FirstInv)'
  BY StepInv, FirstInvStep
<1>2. Init => IInv /\ FirstInv
  BY InitInv, InitFirst
<1> QED BY <1>1, <1>2, FirstInvPairs, PTL DEF Spec

=============================================================================
