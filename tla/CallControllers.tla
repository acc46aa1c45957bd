-------------------------- MODULE CallControllers --------------------------
(***************************************************************************)
(* The call commands of the server (src/src/server/call_controllers.cpp):  *)
(* CONNECT, ACCEPT, PING, HANGUP and REJECT.  They arrive as datagrams and *)
(* are served one at a time by the UDP thread, while the timeout worker of *)
(* AwaitingUsers runs beside it.  A handler other than PING touches the    *)
(* table in one place and is one step.  PING copies the request, walks     *)
(* m_timeouts, and decides from the copy, so it is split at each of them.  *)
(* The code a handler answers with is its last parameter; the address that *)
(* goes with a 201 is recorded in told.                                    *)
(*                                                                         *)
(* Logins and exits happen on the TCP thread (module Sessions); here they   *)
(* only decide whether a token is good.                                    *)
(***************************************************************************)
EXTENDS AwaitingUsers

CONSTANT MaxRequests   \* bound: the CONNECTs of each user that get a 200

ASSUME MaxRequestsAssumption == MaxRequests \in [Users -> Nat]

VARIABLES tokens,   \* the users whose token is in user_tokens
          upc,      \* "idle", or "ping" while the UDP thread is inside PING
          pinger,   \* ping: the user
          copy,     \* ping: the AwaitingUser copied out of the map
          pit,      \* ping: the slot update_timeout_status is at
          pend,     \* ping: the end of that loop, read when it started
          told,     \* told[command][v][u]: the address type the command last
                    \* gave to v together with u's address
          fresh,    \* history: users whose CONNECT or PING was served since
                    \* the last walk of the worker, without meeting it
          requests  \* history: CONNECTs accepted per user, for MaxRequests

pingVars    == <<upc, pinger, copy, pit, pend>>
historyVars == <<told, fresh, requests>>
vars == <<tableVars, workerVars, tokens, pingVars, historyVars>>

Types == {"none", "LOCAL", "WEB"}
Commands == {"ACCEPT", "PING"}

TypeOK ==
  /\ TableTypeOK
  /\ WorkerTypeOK
  /\ tokens \in SUBSET Users
  /\ upc \in {"idle", "ping"}
  /\ pinger \in Users \cup {NoUser}
  /\ copy \in Request \cup {NoRequest}
  /\ pit \in Nat
  /\ pend \in Nat
  /\ told \in [Commands -> [Users -> [Users -> Types]]]
  /\ fresh \in SUBSET Users
  /\ requests \in [Users -> Nat]

Init ==
  /\ TableInit
  /\ tokens = Users
  /\ upc = "idle"
  /\ pinger = NoUser
  /\ copy = NoRequest
  /\ pit = 0
  /\ pend = 0
  /\ told = [c \in Commands |-> [v \in Users |-> [u \in Users |-> "none"]]]
  /\ fresh = {}
  /\ requests = [u \in Users |-> 0]

-----------------------------------------------------------------------------
\* Answers that change nothing.  Router::is_loggedin turns a bad token into
\* 202; a token that an EXIT on the TCP thread removes after that test makes
\* the controller answer 301.  An argument that is no number is 500 and a
\* missing one, or a missing local address, is 501.
Refused(u, code) ==
  /\ upc = "idle"
  /\ code \in (IF u \in tokens THEN {500, 501} ELSE {202, 301})
  /\ UNCHANGED vars

\* What the router and validate_user_and_argument let through.
Served(u) == upc = "idle" /\ u \in tokens

\* fresh after a CONNECT of u, or after the start of a PING of u.
Refresh(u) == IF wpc = "sleep" THEN fresh \cup {u} ELSE fresh

\* CONNECT <contact> <local ip>: 200, or 306 when a request is there already.
Connect(u, contact, host, code) ==
  /\ Served(u)
  /\ \/ /\ code = 200
        /\ requests[u] < MaxRequests[u]
        /\ insert(u, AwaitingUser(u, contact, host))
        /\ requests' = [requests EXCEPT ![u] = @ + 1]
        /\ fresh' = Refresh(u)
        /\ UNCHANGED <<wpc, it, end, told>>
     \/ /\ code = 306
        /\ exists(u)
        /\ UNCHANGED <<tableVars, workerVars, historyVars>>
  /\ UNCHANGED <<tokens, pingVars>>

\* Mutant: the answer is computed before the acceptor's address is stored.
Accept_answer_first(v, contact, host, code) ==
  /\ Served(v)
  /\ \/ /\ code = 201
        /\ exists(contact)
        /\ awaiting' = [awaiting EXCEPT
                          ![contact] = set_peer(@, v, host)]
        /\ told' = [told EXCEPT
                      !["ACCEPT"][v][contact] = address_type(awaiting[contact])]
     \/ /\ code = 307
        /\ ~ exists(contact)
        /\ UNCHANGED <<awaiting, told>>
  /\ UNCHANGED <<slots, cap, size, workerVars, tokens, pingVars,
                 fresh, requests>>

\* ACCEPT <contact> <local ip>: 201 and the address of the caller, computed
\* after the acceptor's own address has been put into the request; 307 when
\* there is no request.
Accept(v, contact, host, code) ==
  /\ Served(v)
  /\ \/ /\ code = 201
        /\ exists(contact)
        /\ LET r == set_peer(awaiting[contact], v, host)
           IN  /\ awaiting' = [awaiting EXCEPT ![contact] = r]
               /\ told' = [told EXCEPT !["ACCEPT"][v][contact] = address_type(r)]
     \/ /\ code = 307
        /\ ~ exists(contact)
        /\ UNCHANGED <<awaiting, told>>
  /\ UNCHANGED <<slots, cap, size, workerVars, tokens, pingVars,
                 fresh, requests>>

\* destroy and its answer, 200 or 307.
DestroyAndAnswer(id, code) ==
  /\ \/ code = 200 /\ exists(id) /\ destroy(id)
     \/ code = 307 /\ ~ exists(id) /\ UNCHANGED awaiting
  /\ UNCHANGED <<slots, cap, size, workerVars, tokens, pingVars, historyVars>>

\* HANGUP: the caller withdraws its own request.
Hangup(u, code) == Served(u) /\ DestroyAndAnswer(u, code)

\* REJECT <contact>: the callee removes the contact's request.
Reject(v, contact, code) == Served(v) /\ DestroyAndAnswer(contact, code)

\* PING of a user that has no request: get throws, 307.
PingNothing(u) ==
  /\ Served(u)
  /\ ~ exists(u)
  /\ UNCHANGED vars

\* PING, first part: the copy of the request and the start of the loop over
\* m_timeouts.
PingGet(u) ==
  /\ Served(u)
  /\ exists(u)
  /\ upc' = "ping"
  /\ pinger' = u
  /\ copy' = awaiting[u]
  /\ pit' = 1
  /\ pend' = size
  /\ fresh' = Refresh(u)
  /\ UNCHANGED <<tableVars, workerVars, tokens, told, requests>>

\* Mutant: PING leaves the timeouts alone.
PingSlot_no_update ==
  /\ upc = "ping"
  /\ pit <= pend
  /\ pit' = pit + 1
  /\ UNCHANGED <<tableVars, workerVars, tokens, upc, pinger, copy, pend,
                 historyVars>>

\* update_timeout_status(user, Pinged), one pair at a time: the worker erases
\* from the vector while this loop walks it.
PingSlot ==
  /\ upc = "ping"
  /\ pit <= pend
  /\ slots' = IF slots[pit].id = pinger
              THEN [slots EXCEPT ![pit].status = "Pinged"]
              ELSE slots
  /\ pit' = pit + 1
  /\ UNCHANGED <<awaiting, cap, size, workerVars, tokens, upc, pinger, copy,
                 pend, historyVars>>

\* PING, last part: 203 while the copy has no peer address; otherwise 201 and
\* the address of the peer, and the request is removed if it is still there.
PingAnswer(code) ==
  /\ upc = "ping"
  /\ pit > pend
  /\ \/ /\ code = 203
        /\ copy.peer = NoUser
        /\ UNCHANGED <<awaiting, told>>
     \/ /\ code = 201
        /\ copy.peer # NoUser
        /\ told' = [told EXCEPT !["PING"][pinger][copy.peer] = address_type(copy)]
        /\ destroy(pinger)
  /\ upc' = "idle"
  /\ pinger' = NoUser
  /\ copy' = NoRequest
  /\ pit' = 0
  /\ pend' = 0
  /\ UNCHANGED <<slots, cap, size, workerVars, tokens, fresh, requests>>

\* LOGIN and EXIT, as far as the call commands see them.
Login(u) ==
  /\ u \notin tokens
  /\ tokens' = tokens \cup {u}
  /\ UNCHANGED <<tableVars, workerVars, pingVars, historyVars>>

Exit(u) ==
  /\ u \in tokens
  /\ tokens' = tokens \ {u}
  /\ UNCHANGED <<tableVars, workerVars, pingVars, historyVars>>

\* A step of the timeout worker.  A PING that a walk starts in the middle of
\* does not count as served before it.
TimeoutWorker ==
  /\ Worker
  /\ fresh' = IF wpc = "sleep" THEN fresh \ {pinger}
              ELSE IF wpc' = "sleep" THEN {}
              ELSE fresh
  /\ UNCHANGED <<tokens, pingVars, told, requests>>

\* The UDP thread: one request of some client, or the rest of a PING.
PingStep == PingSlot \/ \E code \in {201, 203} : PingAnswer(code)

Udp ==
  \/ \E u \in Users, code \in {202, 301, 500, 501} : Refused(u, code)
  \/ \E u, c \in Users, h \in Hosts, code \in {200, 306} :
       u # c /\ Connect(u, c, h, code)
  \/ \E v, c \in Users, h \in Hosts, code \in {201, 307} :
       v # c /\ Accept(v, c, h, code)
  \/ \E u \in Users, code \in {200, 307} : Hangup(u, code)
  \/ \E v, c \in Users, code \in {200, 307} : v # c /\ Reject(v, c, code)
  \/ \E u \in Users : PingNothing(u) \/ PingGet(u)
  \/ PingStep

Tcp == \E u \in Users : Login(u) \/ Exit(u)

Next == Udp \/ Tcp \/ TimeoutWorker

Spec == Init /\ [][Next]_vars

\* Both server threads keep running: the worker wakes every two seconds and
\* its walk never blocks, and a PING that is under way comes to its answer.
\* Nothing is assumed of the clients.
FairSpec == Spec /\ WF_vars(TimeoutWorker) /\ WF_vars(PingStep)

-----------------------------------------------------------------------------
(***************************************************************************)
(* Properties.                                                             *)
(***************************************************************************)

\* timeout_loop erases once per visit and the vector may shrink under it; it
\* never erases from an empty vector, whatever CONNECTs append meanwhile.
EraseInBounds == wpc = "erase" => size > 0

\* The two loops over m_timeouts (the worker's, and the one inside PING) use
\* an end that was read before the other thread erased.  As long as the block
\* has not been replaced, the slot they are at is inside the allocated block.
WalksStayInBlock ==
  /\ wpc \in {"visit", "destroy", "update"} /\ it <= end /\ ~ dangling
       => it \in 1..cap
  /\ upc = "ping" /\ pit <= pend => pit \in 1..cap

\* The strengthening that makes the two inductive: a walk has no more visits
\* left than the vector has pairs, and the ends that the loops read earlier
\* do not exceed the block, which only grows.
WalkInv ==
  /\ wpc # "sleep" => it >= 1 /\ end - it + 1 <= size
  /\ wpc \in {"destroy", "erase", "update"} => it <= end
  /\ wpc # "sleep" /\ ~ dangling => end <= cap
  /\ upc = "ping" => pit >= 1 /\ pend <= cap

\* The address type that PING gives to a caller is the type that ACCEPT gave
\* to that peer: the two ends of a call both use local or both use public
\* addresses, across hang-ups, second requests from another network, and a
\* call in the other direction.
EndsAgreeOnNetwork ==
  [][\A u, v \in Users :
       PingAnswer(201) /\ pinger = u /\ copy.peer = v
         => told'["PING"][u][v] = told["ACCEPT"][v][u]]_vars

\* "ping user so it doesn't get deleted by timeout functionality": a request
\* whose CONNECT or PING was served after the last walk of the worker is not
\* destroyed by the next walk, as long as that walk's memory is not freed.
PingedSurvives ==
  [][\A u \in fresh :
       WorkerDestroy /\ ~ dangling => (exists(u) => exists(u)')]_vars

\* "checks call requests go adrift/detached": the request of a caller who has
\* left for good is removed by the timeout worker.
AbandonedRequestExpires ==
  \A u \in Users : <>[](u \notin tokens) => <>[](~ exists(u))

\* The same for behaviours in which no walk ever runs over freed memory.
AbandonedRequestExpiresInPlace ==
  [](~ dangling) => AbandonedRequestExpires

=============================================================================
