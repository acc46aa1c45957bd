---------------------------- MODULE PeerToPeer ----------------------------
(***************************************************************************)
(* The set-up of a call between an initiator and an acceptor: the class    *)
(* P2P (src/src/client/peer_to_peer.cpp) as Call::connect, Call::accept,   *)
(* udp_connect and udp_accept drive it (src/src/client/user/call.cpp), and *)
(* the server's request of this one initiator behind it.                   *)
(*                                                                         *)
(* Either end sets up a P2P for audio, then one for video, each with a     *)
(* socket of its own.  The initiator sends CONNECT and PINGs until the     *)
(* server answers with the acceptor's address; the acceptor sends ACCEPT   *)
(* and is told the initiator's; then the two shake hands with one 200 OK   *)
(* each way.  The initiator's call runs on a thread of its own, so a       *)
(* hang-up may come at any point; the acceptor blocks its job thread.      *)
(*                                                                         *)
(* The server's handlers are those of CallControllers, cut down to one     *)
(* caller and one callee.                                                  *)
(***************************************************************************)
EXTENDS Datagrams

CONSTANTS m_PING_TIMEOUT,      \* pings of the initiator, less two
          m_ACCEPT_TIMEOUT,    \* retries of ACCEPT for video, less one
          m_MAX_PUNCH_TRIALS,  \* turns of the loop in P2P::retry
          MaxCalls,            \* bound: calls the initiator places, by network
          MaxAnswers,          \* bound: calls the acceptor answers
          MaxLate              \* bound: timeouts and expiries that come
                               \* although what they wait for was under way

ASSUME PeerToPeerAssumption ==
  /\ m_PING_TIMEOUT \in Nat
  /\ m_ACCEPT_TIMEOUT \in Nat
  /\ m_MAX_PUNCH_TRIALS \in Nat
  /\ MaxCalls \in [Networks -> Nat]
  /\ MaxAnswers \in Nat
  /\ MaxLate \in Nat

VARIABLES p2p,       \* p2p[e]: m_audio_p2p and m_video_p2p
          stream,    \* which of the two e is setting up
          pc,        \* where e is
          req,       \* e's t_req in the handshake
          count,     \* count in udp_connect and in Call::accept
          trial,     \* nb_trials in P2P::retry
          m_hangup,  \* the initiator's flag
          request,   \* the server's request of the initiator
          ringing,   \* what the acceptor's last LIST said
          opened,    \* P2Ps constructed by e, which numbers the sockets
          calls,     \* calls placed and answered, by end
          called_off,\* history: the initiator hung up or gave up
          late       \* history: things that came too late, for MaxLate

endVars == <<p2p, stream, pc, req, count, trial, m_hangup, opened, calls>>
vars == <<netVars, endVars, request, ringing, called_off, late>>

Initiator == "initiator"
Acceptor  == "acceptor"
Streams   == {"audio", "video"}

P2Ps == [sock : Nat,
         status : {"Idle", "Awaiting", "Accepted", "Connected", "Error"},
         peer : Socket \cup {NoSocket},
         network_type : {"LOCAL", "WEB", "Unselected"}]

\* A constructed P2P; a null pointer has no socket.
P2P(n) == [sock |-> n, status |-> "Idle", peer |-> NoSocket,
           network_type |-> "Unselected"]
Null == P2P(0)

NoRequest == [address |-> NoSocket, peer_address |-> NoSocket]

PCs == {"idle", "connect", "ping", "pinged", "hangup", "give up",
        "accept", "throttle", "handshake", "await 200", "retry", "between"}

TypeOK ==
  /\ NetTypeOK
  /\ p2p \in [Ends -> [Streams -> P2Ps]]
  /\ stream \in [Ends -> Streams]
  /\ pc \in [Ends -> PCs]
  /\ req \in [Ends -> [valid : BOOLEAN, address : Socket \cup {NoSocket}]]
  /\ count \in [Ends -> Nat]
  /\ trial \in [Ends -> 0..m_MAX_PUNCH_TRIALS]
  /\ m_hangup \in BOOLEAN
  /\ request \in [address : Socket \cup {NoSocket},
                  peer_address : Socket \cup {NoSocket}]
  /\ ringing \in BOOLEAN
  /\ opened \in [Ends -> Nat]
  /\ calls \in [Ends -> Nat]
  /\ called_off \in BOOLEAN
  /\ late \in 0..MaxLate

NoReq == [valid |-> FALSE, address |-> NoSocket]

Init ==
  /\ NetInit
  /\ p2p = [e \in Ends |-> [s \in Streams |-> Null]]
  /\ stream = [e \in Ends |-> "audio"]
  /\ pc = [e \in Ends |-> "idle"]
  /\ req = [e \in Ends |-> NoReq]
  /\ count = [e \in Ends |-> 0]
  /\ trial = [e \in Ends |-> 0]
  /\ m_hangup = FALSE
  /\ request = NoRequest
  /\ ringing = FALSE
  /\ opened = [e \in Ends |-> 0]
  /\ calls = [e \in Ends |-> 0]
  /\ called_off = FALSE
  /\ late = 0

-----------------------------------------------------------------------------
\* Whether something came too late, or not.
CountLate(untimely) ==
  late' = IF untimely /\ late < MaxLate THEN late + 1 ELSE late

TooLate(untimely) ==
  /\ untimely => late < MaxLate
  /\ CountLate(untimely)

-----------------------------------------------------------------------------
(***************************************************************************)
(* The server.                                                             *)
(***************************************************************************)

Told(m, text, address) ==
  [from |-> Server, to |-> m.from, text |-> text, address |-> address]

Reply(m, text) == Answer(m, Told(m, text, NoSocket))

\* CallControllers::connect: 306 when there is a request already, which
\* then keeps the address it has.
ServeConnect(m) ==
  /\ m.text = "CONNECT"
  /\ \/ /\ request = NoRequest
        /\ request' = [address |-> m.from, peer_address |-> NoSocket]
        /\ Reply(m, "200")
     \/ /\ request # NoRequest
        /\ Reply(m, "306")
        /\ UNCHANGED request

\* Mutant: the server's address goes into the request.
ServeAccept_wrong_end(m) ==
  /\ m.text = "ACCEPT"
  /\ request # NoRequest
  /\ request' = [request EXCEPT !.peer_address = m.to]
  /\ Answer(m, Told(m, "201", request.address))

\* CallControllers::accept: the acceptor's address goes into the request, the
\* initiator's into the answer.
ServeAccept(m) ==
  /\ m.text = "ACCEPT"
  /\ \/ /\ request # NoRequest
        /\ request' = [request EXCEPT !.peer_address = m.from]
        /\ Answer(m, Told(m, "201", request.address))
     \/ /\ request = NoRequest
        /\ Reply(m, "307")
        /\ UNCHANGED request

\* Mutant: the request stays after the answer that completes it.
ServePing_keep(m) ==
  /\ m.text = "PING"
  /\ IF request.peer_address # NoSocket
     THEN Answer(m, Told(m, "201", request.peer_address))
     ELSE Reply(m, IF request = NoRequest THEN "307" ELSE "203")
  /\ UNCHANGED request

\* CallControllers::ping: the request goes with the answer that completes it.
ServePing(m) ==
  /\ m.text = "PING"
  /\ \/ /\ request.peer_address # NoSocket
        /\ request' = NoRequest
        /\ Answer(m, Told(m, "201", request.peer_address))
     \/ /\ request.peer_address = NoSocket
        /\ Reply(m, IF request = NoRequest THEN "307" ELSE "203")
        /\ UNCHANGED request

\* CallControllers::hangup.
ServeHangup(m) ==
  /\ m.text = "HANGUP"
  /\ request' = NoRequest
  /\ Reply(m, IF request = NoRequest THEN "307" ELSE "200")

Serve ==
  /\ \E m \in BagToSet(net) :
       \/ ServeConnect(m) \/ ServeAccept(m) \/ ServePing(m) \/ ServeHangup(m)
  /\ UNCHANGED <<endVars, ringing, called_off, late>>

\* The states in which the initiator PINGs, or is about to.
Pinging == pc[Initiator] \in {"connect", "ping", "pinged"}

\* AwaitingUsers::timeout_loop: the request expires; too early when the
\* initiator is pinging.
Expire ==
  /\ request # NoRequest
  /\ request' = NoRequest
  /\ TooLate(Pinging)
  /\ UNCHANGED <<netVars, endVars, ringing, called_off>>

-----------------------------------------------------------------------------
(***************************************************************************)
(* P2P and Call.  Each step ends where the thread waits for a datagram,    *)
(* sleeps, or reads what another thread may write.                         *)
(***************************************************************************)

Current(e) == p2p[e][stream[e]]

Sock(e) == <<e, Current(e).sock>>

Set(e, p) == p2p' = [p2p EXCEPT ![e][stream[e]] = p]

Goto(e, place) == pc' = [pc EXCEPT ![e] = place]

CanRead(e, m) == Readable(Sock(e), m)

\* A new P2P for stream s, and the command that is the first thing it sends.
Construct(e, s, command) ==
  LET n == opened[e] + 1
  IN  /\ opened' = [opened EXCEPT ![e] = n]
      /\ stream' = [stream EXCEPT ![e] = s]
      /\ p2p' = [p2p EXCEPT ![e] = IF s = "audio"
                                   THEN [audio |-> P2P(n), video |-> Null]
                                   ELSE [@ EXCEPT !.video = P2P(n)]]
      /\ count' = [count EXCEPT ![e] = 0]
      /\ Send(Text(<<e, n>>, Server, command), 1)

\* udp_connect or udp_accept returns false.  Without audio there is no call;
\* without video the acceptor tries again and the initiator does without.
Failed(e) ==
  IF e = Acceptor /\ stream[e] = "video"
  THEN /\ Goto(e, "throttle")
       /\ Set(e, [Current(e) EXCEPT !.status = "Error"])
  ELSE /\ Goto(e, IF stream[e] = "audio" THEN "idle" ELSE "between")
       /\ Set(e, Null)

\* What UDPConn::respond does with a Request that is no longer valid: nothing.
Respond(e, text, n) ==
  IF req[e].valid THEN Send(Text(Sock(e), req[e].address, text), n)
                  ELSE UNCHANGED netVars

-----------------------------------------------------------------------------
\* Call::connect.
Dial ==
  /\ pc[Initiator] = "idle"
  /\ calls[Initiator] < MaxCalls[network]
  /\ calls' = [calls EXCEPT ![Initiator] = @ + 1]
  /\ m_hangup' = FALSE
  /\ Construct(Initiator, "audio", "CONNECT")
  /\ Goto(Initiator, "connect")
  /\ UNCHANGED <<req, trial, request, ringing, called_off, late>>

\* connect_peer, in which 306 is taken for a request that awaits, like 200,
\* and the first PING.
ConnectPeer(m) ==
  /\ pc[Initiator] = "connect"
  /\ CanRead(Initiator, m)
  /\ IF m.text \in {"200", "306"}
     THEN /\ Answer(m, Text(Sock(Initiator), Server, "PING"))
          /\ Set(Initiator, [Current(Initiator) EXCEPT !.status = "Awaiting"])
          /\ Goto(Initiator, "ping")
     ELSE Receive(m) /\ Failed(Initiator)
  /\ UNCHANGED <<stream, req, count, trial, m_hangup, opened, calls>>

\* ping_peer reads the answer.
PingPeer(m) ==
  /\ pc[Initiator] = "ping"
  /\ CanRead(Initiator, m)
  /\ Receive(m)
  /\ Goto(Initiator, "pinged")
  /\ Set(Initiator,
         CASE m.text = "201" -> [Current(Initiator) EXCEPT
                                   !.status = "Accepted",
                                   !.peer = m.address,
                                   !.network_type = network]
           [] m.text = "203" -> [Current(Initiator) EXCEPT
                                   !.status = "Awaiting"]
           [] OTHER -> [Current(Initiator) EXCEPT !.status = "Error"])
  /\ UNCHANGED <<stream, req, count, trial, m_hangup, opened, calls>>

SendServer(command, place) ==
  /\ Send(Text(Sock(Initiator), Server, command), 1)
  /\ Goto(Initiator, place)
  /\ UNCHANGED p2p

\* An acceptor that has been told of the initiator has punched its hole by
\* the end of the initiator's sleep.
AcceptorIsReady == pc[Acceptor] \notin {"accept", "handshake"}

\* The tests of udp_connect after the sleep that follows a PING, in their
\* order: an Error, a hang-up, too many PINGs, and the loop's condition.
AfterPing ==
  /\ pc[Initiator] = "pinged"
  /\ LET status == Current(Initiator).status
     IN  \/ /\ status = "Error"
            /\ Failed(Initiator)
            /\ UNCHANGED <<netVars, count, called_off, late>>
         \/ /\ status # "Error"
            /\ m_hangup
            /\ SendServer("HANGUP", "hangup")
            /\ UNCHANGED <<count, called_off, late>>
         \/ /\ status # "Error"
            /\ ~ m_hangup
            /\ count[Initiator] > m_PING_TIMEOUT
            /\ SendServer("HANGUP", "give up")
            /\ called_off' = TRUE
            /\ UNCHANGED <<count, late>>
         \/ /\ status # "Error"
            /\ ~ m_hangup
            /\ count[Initiator] <= m_PING_TIMEOUT
            /\ count' = [count EXCEPT ![Initiator] = @ + 1]
            /\ IF status = "Accepted"
               THEN /\ Goto(Initiator, "handshake")
                    /\ CountLate(~ AcceptorIsReady)
                    /\ UNCHANGED <<netVars, p2p>>
               ELSE SendServer("PING", "ping") /\ UNCHANGED late
            /\ UNCHANGED called_off
  /\ UNCHANGED <<stream, req, trial, m_hangup, opened, calls>>

\* hangup_peer; udp_connect then returns true after a hang-up and false after
\* giving up.
HangupPeer(m) ==
  /\ pc[Initiator] \in {"hangup", "give up"}
  /\ CanRead(Initiator, m)
  /\ Receive(m)
  /\ IF pc[Initiator] = "give up" THEN Failed(Initiator)
     ELSE /\ Set(Initiator, [Current(Initiator) EXCEPT !.status =
                               IF m.text = "200" THEN "Idle" ELSE "Error"])
          /\ Goto(Initiator, "between")
  /\ UNCHANGED <<stream, req, count, trial, m_hangup, opened, calls>>

\* Call::accept.  The ring is gone when the user has answered.
AnswerCall ==
  /\ pc[Acceptor] = "idle"
  /\ ringing
  /\ calls[Acceptor] < MaxAnswers
  /\ calls' = [calls EXCEPT ![Acceptor] = @ + 1]
  /\ ringing' = FALSE
  /\ Construct(Acceptor, "audio", "ACCEPT")
  /\ Goto(Acceptor, "accept")
  /\ UNCHANGED <<req, trial, m_hangup, request, called_off, late>>

\* accept_peer reads the answer.
AcceptPeer(m) ==
  /\ pc[Acceptor] = "accept"
  /\ CanRead(Acceptor, m)
  /\ Receive(m)
  /\ IF m.text = "201"
     THEN /\ Set(Acceptor, [Current(Acceptor) EXCEPT !.status = "Accepted",
                                                     !.peer = m.address,
                                                     !.network_type = network])
          /\ Goto(Acceptor, "handshake")
     ELSE Failed(Acceptor)
  /\ UNCHANGED <<stream, req, count, trial, m_hangup, opened, calls>>

\* The loop of Call::accept: reset and another ACCEPT on the same socket, or
\* no video.
AcceptAgain ==
  /\ pc[Acceptor] = "throttle"
  /\ \/ /\ count[Acceptor] <= m_ACCEPT_TIMEOUT
        /\ count' = [count EXCEPT ![Acceptor] = @ + 1]
        /\ Set(Acceptor, [Current(Acceptor) EXCEPT !.status = "Idle",
                                                   !.peer = NoSocket])
        /\ Send(Text(Sock(Acceptor), Server, "ACCEPT"), 1)
        /\ Goto(Acceptor, "accept")
        /\ UNCHANGED late
     \/ /\ count[Acceptor] > m_ACCEPT_TIMEOUT
        /\ Set(Acceptor, Null)
        /\ Goto(Acceptor, "idle")
        /\ CountLate(pc[Initiator] # "idle")
        /\ UNCHANGED <<netVars, count>>
  /\ UNCHANGED <<stream, req, trial, m_hangup, opened, calls>>

-----------------------------------------------------------------------------
\* invalid_to_handshake.
ValidToHandshake(e) ==
  /\ Current(e).status = "Accepted"
  /\ Current(e).peer # NoSocket
  /\ Current(e).network_type # "Unselected"

\* Mutant: nobody punches a hole.
HandshakePeer_no_punch(e) ==
  /\ pc[e] = "handshake"
  /\ ValidToHandshake(e)
  /\ req' = [req EXCEPT ![e] = [valid |-> TRUE, address |-> Current(e).peer]]
  /\ IF e = Initiator THEN Send(Text(Sock(e), Current(e).peer, "200"), 1)
                      ELSE UNCHANGED netVars
  /\ Goto(e, "await 200")
  /\ UNCHANGED <<p2p, stream, count, trial, m_hangup, opened, calls>>

\* handshake_peer up to its first receive: the initiator sends 200 OK, and
\* either end punches a hole with another one when the peer is in the Web.
HandshakePeer(e) ==
  LET punches == IF Current(e).network_type = "WEB" THEN 1 ELSE 0
      n == punches + (IF e = Initiator THEN 1 ELSE 0)
  IN  /\ pc[e] = "handshake"
      /\ ValidToHandshake(e)
      /\ req' = [req EXCEPT ![e] = [valid |-> TRUE,
                                    address |-> Current(e).peer]]
      /\ IF n > 0 THEN Send(Text(Sock(e), Current(e).peer, "200"), n)
                  ELSE UNCHANGED netVars
      /\ Goto(e, "await 200")
      /\ UNCHANGED <<p2p, stream, count, trial, m_hangup, opened, calls>>

Connected(e) == [Current(e) EXCEPT !.status = "Connected"]

\* The receive of handshake_initiator, and its test.
HandshakeInitiator(m) ==
  /\ pc[Initiator] = "await 200"
  /\ CanRead(Initiator, m)
  /\ Receive(m)
  /\ req' = [req EXCEPT ![Initiator] = NoReq]
  /\ IF m.text = "200"
     THEN Set(Initiator, Connected(Initiator)) /\ Goto(Initiator, "between")
     ELSE Failed(Initiator)
  /\ UNCHANGED <<stream, count, trial, m_hangup, opened, calls>>

\* Mutant: whatever comes is taken for the peer's 200 OK.
HandshakeAcceptor_untested(m) ==
  /\ pc[Acceptor] = "await 200"
  /\ CanRead(Acceptor, m)
  /\ req' = [req EXCEPT ![Acceptor] = NoReq]
  /\ Answer(m, Text(Sock(Acceptor), m.from, "200"))
  /\ Set(Acceptor, Connected(Acceptor))
  /\ Goto(Acceptor, "between")
  /\ UNCHANGED <<stream, count, trial, m_hangup, opened, calls>>

\* The receive of handshake_acceptor, its test, and the answer to whoever
\* sent the message.
HandshakeAcceptor(m) ==
  /\ pc[Acceptor] = "await 200"
  /\ CanRead(Acceptor, m)
  /\ req' = [req EXCEPT ![Acceptor] = NoReq]
  /\ IF m.text = "200"
     THEN /\ Answer(m, Text(Sock(Acceptor), m.from, "200"))
          /\ Set(Acceptor, Connected(Acceptor))
          /\ Goto(Acceptor, "between")
     ELSE /\ Receive(m)
          /\ Failed(Acceptor)
  /\ UNCHANGED <<stream, count, trial, m_hangup, opened, calls>>

\* Mutant: nb_trials is not counted.
Retry_uncounted(e) ==
  /\ pc[e] = "retry"
  /\ \/ trial[e] < m_MAX_PUNCH_TRIALS /\ Respond(e, "200", 1)
        /\ UNCHANGED <<p2p, pc, req>>
     \/ trial[e] = m_MAX_PUNCH_TRIALS /\ Failed(e)
        /\ UNCHANGED <<netVars, req>>
  /\ UNCHANGED <<stream, count, trial, m_hangup, opened, calls>>

\* A turn of the loop in retry, or its end.  The receive that timed out has
\* left the request invalid, so that hole_punch sends nothing and the next
\* receive returns at once.
Retry(e) ==
  /\ pc[e] = "retry"
  /\ \/ /\ trial[e] < m_MAX_PUNCH_TRIALS
        /\ trial' = [trial EXCEPT ![e] = @ + 1]
        /\ Respond(e, "200", 1)
        /\ UNCHANGED <<p2p, pc, req>>
     \/ /\ trial[e] = m_MAX_PUNCH_TRIALS
        /\ trial' = [trial EXCEPT ![e] = 0]
        /\ req' = [req EXCEPT ![e] = NoReq]
        /\ Failed(e)
        /\ UNCHANGED netVars
  /\ UNCHANGED <<stream, count, m_hangup, opened, calls>>

\* One P2P is done.  The initiator looks whether the user has hung up; the
\* acceptor does not.  After audio comes video, after video the streams start.
NextStream(e) ==
  /\ pc[e] = "between"
  /\ IF (e = Initiator /\ m_hangup) \/ stream[e] = "video"
     THEN /\ Goto(e, "idle")
          /\ m_hangup' = (m_hangup /\ e # Initiator)
          /\ UNCHANGED <<netVars, p2p, stream, count, opened>>
     ELSE /\ Construct(e, "video",
                       IF e = Initiator THEN "CONNECT" ELSE "ACCEPT")
          /\ Goto(e, IF e = Initiator THEN "connect" ELSE "accept")
          /\ UNCHANGED m_hangup
  /\ UNCHANGED <<req, trial, calls>>

\* The initiator's user hangs up during the set-up: Call::hangup.
UserHangup ==
  /\ pc[Initiator] # "idle"
  /\ m_hangup' = TRUE
  /\ called_off' = TRUE
  /\ UNCHANGED <<netVars, p2p, stream, pc, req, count, trial, opened, calls,
                 request, ringing, late>>

\* The acceptor's LIST, which its job thread sends when it is not in accept.
List ==
  /\ pc[Acceptor] = "idle"
  /\ ringing' = (request # NoRequest)
  /\ UNCHANGED <<netVars, endVars, request, called_off, late>>

Waiting == {"connect", "ping", "hangup", "give up", "accept", "await 200"}

\* Nothing but a timeout can happen.
Stuck ==
  /\ \A e \in Ends : pc[e] \in Waiting \cup {"idle"}
  /\ \A m \in BagToSet(net) :
       m.to # Server /\ \A e \in Ends : pc[e] \in Waiting => ~ CanRead(e, m)

\* A receive returns after m_RECEIVE_TIMEOUT seconds.  A command without an
\* answer counts as failed; the handshake goes to retry.
Timeout(e) ==
  /\ pc[e] \in Waiting
  /\ TooLate(~ Stuck)
  /\ CASE pc[e] \in {"connect", "give up", "accept"} ->
            Failed(e) /\ UNCHANGED req
       [] pc[e] = "ping" ->
            /\ Set(e, [Current(e) EXCEPT !.status = "Error"])
            /\ Goto(e, "pinged")
            /\ UNCHANGED req
       [] pc[e] = "hangup" ->
            /\ Set(e, [Current(e) EXCEPT !.status = "Error"])
            /\ Goto(e, "between")
            /\ UNCHANGED req
       [] pc[e] = "await 200" ->
            /\ req' = [req EXCEPT ![e].valid = FALSE]
            /\ Goto(e, "retry")
            /\ UNCHANGED p2p
  /\ UNCHANGED <<netVars, stream, count, trial, m_hangup, opened, calls,
                 request, ringing, called_off>>

-----------------------------------------------------------------------------
InitiatorStep ==
  \/ /\ \/ \E m \in BagToSet(net) :
               \/ ConnectPeer(m) \/ PingPeer(m) \/ HangupPeer(m)
               \/ HandshakeInitiator(m)
        \/ HandshakePeer(Initiator) \/ Retry(Initiator)
        \/ NextStream(Initiator)
     /\ UNCHANGED <<request, ringing, called_off, late>>
  \/ AfterPing /\ UNCHANGED <<request, ringing>>
  \/ Timeout(Initiator)

AcceptorStep ==
  \/ /\ \/ \E m \in BagToSet(net) : AcceptPeer(m) \/ HandshakeAcceptor(m)
        \/ HandshakePeer(Acceptor) \/ Retry(Acceptor) \/ NextStream(Acceptor)
     /\ UNCHANGED <<request, ringing, called_off, late>>
  \/ AcceptAgain /\ UNCHANGED <<request, ringing, called_off>>
  \/ Timeout(Acceptor)

Network ==
  /\ \E m \in BagToSet(net) : Drop(m)
  /\ UNCHANGED <<endVars, request, ringing, called_off, late>>

Users == Dial \/ AnswerCall \/ UserHangup \/ List

Next == InitiatorStep \/ AcceptorStep \/ Serve \/ Expire \/ Network \/ Users

Spec == Init /\ [][Next]_vars

\* Threads that set up a call come to their next step, if only because a
\* receive times out, and the server answers.  Nothing is assumed of users.
FairSpec ==
  /\ Spec
  /\ WF_vars(InitiatorStep)
  /\ WF_vars(AcceptorStep)
  /\ WF_vars(Serve)

-----------------------------------------------------------------------------
(***************************************************************************)
(* Properties.                                                             *)
(***************************************************************************)

\* receive does not look at the sender, and the server's answers come to the
\* same socket: whatever is lost or late, an end is Connected only when a
\* socket of the other end has sent to this very P2P's socket.
ConnectedHeardPeer ==
  \A e \in Ends, s \in Streams :
    p2p[e][s].status = "Connected" =>
      \E n \in 1..opened[Other(e)] :
        <<<<Other(e), n>>, <<e, p2p[e][s].sock>>>> \in sent_to

\* "Peer to peer connections. One per data stream": two P2Ps that are both
\* Connected for one stream are connected to each other.
PairedByStream ==
  \A s \in Streams :
    (\A e \in Ends : p2p[e][s].status = "Connected") =>
      \A e \in Ends : p2p[e][s].peer = <<Other(e), p2p[Other(e)][s].sock>>

PairedWhenTimely == late = 0 => PairedByStream

\* The same for the first call, when nothing of an earlier one is left.
FirstCallPaired == calls[Initiator] = 1 => PairedWhenTimely

\* Every set-up comes to its end, whatever is lost: no thread stays in
\* Call::connect or in Call::accept, which would block the job thread.
SetUpEnds == \A e \in Ends : pc[e] # "idle" ~> pc[e] = "idle"

\* When the acceptor has been told the initiator's address, nothing is lost
\* or late and the initiator does not call off, both ends connect: first for
\* audio, then for video.
Paired(s) == \A e \in Ends : p2p[e][s].status = "Connected"

AnsweredCallConnects ==
  [](late = 0) =>
    /\ (p2p[Acceptor].audio.status = "Accepted"
          ~> Paired("audio") \/ called_off)
    /\ (Paired("audio") ~> Paired("video") \/ called_off)

\* "acceptor will get trying to connect until it gets a response" and "Sending
\* punch message again": a turn of the loop in retry sends a message.
RetrySends == [][\A e \in Ends : trial'[e] > trial[e] => net' # net]_vars
=============================================================================
