----------------------- MODULE CallControllersProofs -----------------------
(***************************************************************************)
(* Proofs about CallControllers, for any number of users, hosts and        *)
(* requests: type correctness, the bounds of the two unlocked loops over   *)
(* m_timeouts, the kind of address both ends of a call are told, and the   *)
(* survival of a request that is pinged.                                   *)
(***************************************************************************)
EXTENDS CallControllers, TLAPS

IInv == TypeOK /\ WalkInv

\* The constructors build requests, and an address has one of the two types.
LEMMA RequestType ==
  ASSUME NEW u \in Users, NEW c, NEW h \in Hosts
  PROVE  AwaitingUser(u, c, h) \in Request
BY DEF AwaitingUser, Request

LEMMA SetPeerType ==
  ASSUME NEW r \in Request, NEW v \in Users, NEW h \in Hosts
  PROVE  set_peer(r, v, h) \in Request
BY DEF set_peer, Request

LEMMA AddressType ==
  ASSUME NEW r PROVE address_type(r) \in Types
BY DEF address_type, Types

\* What told holds, and one more answer in it.
Answers == [Commands -> [Users -> [Users -> Types]]]
Tell(f, c, v, u, type) == [f EXCEPT ![c][v][u] = type]

LEMMA ToldType ==
  ASSUME NEW f \in Answers, NEW c, NEW v, NEW u, NEW type \in Types
  PROVE  Tell(f, c, v, u, type) \in Answers
<1> USE DEF Answers, Tell
<1> DEFINE row(d) == [f[d] EXCEPT ![v][u] = type]
<1>1. ASSUME NEW d \in Commands PROVE row(d) \in [Users -> [Users -> Types]]
  <2>1. f[d] \in [Users -> [Users -> Types]]
    OBVIOUS
  <2>2. \A w \in Users : [f[d][w] EXCEPT ![u] = type] \in [Users -> Types]
    BY <2>1
  <2> QED BY <2>1, <2>2
<1>2. [f EXCEPT ![c][v][u] = type] = [f EXCEPT ![c] = row(c)]
  OBVIOUS
<1> DEFINE new(d) == IF d = c THEN row(d) ELSE f[d]
<1>3. [f EXCEPT ![c] = row(c)] = [d \in Commands |-> new(d)]
  OBVIOUS
<1>4. \A d \in Commands : new(d) \in [Users -> [Users -> Types]]
  BY <1>1
<1> HIDE DEF row, new
<1>5. [d \in Commands |-> new(d)] \in Answers
  BY <1>4
<1> QED BY <1>2, <1>3, <1>5

\* A user that exists has a proper request.
LEMMA ExistingRequest ==
  ASSUME TypeOK, NEW u, exists(u)
  PROVE  u \in Users /\ awaiting[u] \in Request
BY DEF TypeOK, TableTypeOK, exists

\* An append keeps the block well formed and either leaves it where it is or
\* makes a running walk dangle.
LEMMA AppendStep ==
  ASSUME TypeOK, NEW u \in Users, emplace_back(u)
  PROVE  /\ cap' \in Nat /\ cap <= cap'
         /\ size' = size + 1 /\ size' \in 0..cap'
         /\ slots' \in [1..cap' -> Entry]
         /\ dangling' \in BOOLEAN
         /\ \/ cap' = cap /\ dangling' = dangling
            \/ dangling' = (wpc # "sleep")
<1>1. [id |-> u, status |-> "Created"] \in Entry /\ Blank \in Entry
  BY DEF Entry, Blank, Status
<1>2. CASE size < cap
  <2>1. UNCHANGED <<cap, dangling>>
    BY <1>2 DEF emplace_back, TypeOK, TableTypeOK
  <2>2. slots' = [slots EXCEPT ![size + 1] = [id |-> u, status |-> "Created"]]
    BY <1>2 DEF emplace_back, TypeOK, TableTypeOK
  <2> QED
    BY <1>1, <1>2, <2>1, <2>2 DEF emplace_back, TypeOK, TableTypeOK,
                                  WorkerTypeOK
<1>3. CASE size = cap
  <2>1. cap' = Grown /\ dangling' = (wpc # "sleep") /\ size' = size + 1
    BY <1>3 DEF emplace_back, TypeOK, TableTypeOK
  <2>2. slots' = [i \in 1..Grown |-> IF i <= size THEN slots[i]
                                     ELSE IF i = size + 1
                                     THEN [id |-> u, status |-> "Created"]
                                     ELSE Blank]
    BY <1>3 DEF emplace_back, TypeOK, TableTypeOK
  <2>3. Grown \in Nat /\ Grown >= cap + 1
    BY DEF Grown, TypeOK, TableTypeOK
  <2>4. slots' \in [1..Grown -> Entry]
    BY <1>1, <1>3, <2>2, <2>3 DEF TypeOK, TableTypeOK
  <2> QED
    BY <1>3, <2>1, <2>3, <2>4 DEF TypeOK, TableTypeOK
<1> QED
  BY <1>2, <1>3 DEF TypeOK, TableTypeOK

\* An erase of a non-empty vector, and an update, keep the block well formed.
LEMMA EraseStep ==
  ASSUME TypeOK, size > 0, erase_first
  PROVE  /\ cap' = cap /\ size' = size - 1 /\ size' \in 0..cap'
         /\ slots' \in [1..cap' -> Entry]
<1>1. \A i \in 1..cap : (IF i < size THEN slots[i + 1] ELSE slots[i]) \in Entry
  BY DEF TypeOK, TableTypeOK
<1> QED
  BY <1>1 DEF erase_first, TypeOK, TableTypeOK

LEMMA UpdateStep ==
  ASSUME TypeOK, NEW id, NEW s \in Status, update_timeout_status(id, s)
  PROVE  /\ cap' = cap /\ size' = size
         /\ slots' \in [1..cap' -> Entry]
<1>1. \A e \in Entry : [e EXCEPT !.status = s] \in Entry
  BY DEF Entry
<1>2. \A i \in 1..cap : slots[i] \in Entry
  BY DEF TypeOK, TableTypeOK
<1> QED
  BY <1>1, <1>2 DEF update_timeout_status, TypeOK, TableTypeOK

\* Removing a request is type correct whoever does it.
LEMMA DestroyStep ==
  ASSUME TypeOK, NEW id, destroy(id)
  PROVE  awaiting' \in [Users -> Request \cup {NoRequest}]
BY DEF destroy, TypeOK, TableTypeOK

-----------------------------------------------------------------------------
LEMMA InitIInv == Init => IInv
<1> SUFFICES ASSUME Init PROVE IInv
  OBVIOUS
<1>1. TableTypeOK /\ WorkerTypeOK
  <2>1. slots \in [1..cap -> Entry]
    <3>1. slots = [i \in 1..0 |-> Blank] /\ cap = 0
      BY DEF Init, TableInit
    <3>2. Blank \in Entry
      BY DEF Blank, Entry, Status
    <3> QED BY <3>1, <3>2
  <2>2. awaiting \in [Users -> Request \cup {NoRequest}]
    BY DEF Init, TableInit
  <2>3. TableTypeOK
    BY <2>1, <2>2 DEF Init, TableInit, TableTypeOK
  <2>4. it = 0 /\ end = 0 /\ wpc = "sleep" /\ dangling = FALSE
    BY DEF Init, TableInit
  <2> QED
    BY <2>3, <2>4 DEF WorkerTypeOK
<1>2. TypeOK
  BY <1>1, MaxRequestsAssumption DEF Init, TypeOK, Types
<1>3. WalkInv
  BY DEF Init, TableInit, WalkInv
<1> QED BY <1>2, <1>3 DEF IInv

\* The worker.  A walk begins with as many visits as there are pairs; a visit
\* that erases uses one of each; no other step of it changes either.
LEMMA WorkerIInv == IInv /\ TimeoutWorker => IInv'
<1> SUFFICES ASSUME IInv, TimeoutWorker PROVE IInv'
  OBVIOUS
<1> USE DEF IInv
<1>1. UNCHANGED <<tokens, pingVars, told, requests>>
      /\ fresh' \in SUBSET Users
  BY DEF TimeoutWorker, TypeOK
<1>2. CASE WorkerWake
  <2>1. TableTypeOK' /\ WorkerTypeOK'
    <3>1. UNCHANGED tableVars /\ it' = 1 /\ end' = size /\ wpc' = "visit"
          /\ dangling' = FALSE
      BY <1>2 DEF WorkerWake
    <3>2. size \in Nat
      BY DEF TypeOK, TableTypeOK
    <3> QED
      BY <3>1, <3>2 DEF TypeOK, TableTypeOK, WorkerTypeOK, tableVars
  <2>3. TypeOK'
    BY <1>1, <2>1 DEF TypeOK, pingVars
  <2>2. WalkInv'
    BY <1>1, <1>2 DEF WorkerWake, TypeOK, TableTypeOK, WalkInv, tableVars,
                      pingVars
  <2> QED BY <2>2, <2>3
<1>3. CASE WorkerVisit
  <2>1. wpc' \in {"destroy", "update"}
        /\ UNCHANGED <<tableVars, it, end, dangling>> /\ wpc = "visit"
        /\ it <= end
    BY <1>3 DEF WorkerVisit
  <2>2. TypeOK'
    BY <1>1, <2>1 DEF TypeOK, TableTypeOK, WorkerTypeOK, tableVars, pingVars
  <2>3. WalkInv'
    BY <1>1, <2>1 DEF WalkInv, tableVars, pingVars
  <2> QED BY <2>2, <2>3
<1>4. CASE WorkerDestroy
  <2>1. /\ UNCHANGED <<slots, cap, size, it, end, dangling>>
        /\ wpc = "destroy" /\ wpc' = "erase"
    BY <1>4 DEF WorkerDestroy
  <2>2. awaiting' \in [Users -> Request \cup {NoRequest}]
    <3>1. PICK id \in SeenId :
            IF exists(id) THEN destroy(id) ELSE UNCHANGED awaiting
      BY <1>4 DEF WorkerDestroy
    <3> QED BY <3>1, DestroyStep DEF TypeOK, TableTypeOK
  <2>3. TypeOK'
    BY <1>1, <2>1, <2>2 DEF TypeOK, TableTypeOK, WorkerTypeOK, pingVars
  <2>4. WalkInv'
    BY <1>1, <2>1 DEF WalkInv, pingVars
  <2> QED BY <2>3, <2>4
<1>5. CASE WorkerErase
  <2>1. /\ wpc = "erase" /\ wpc' = "visit" /\ it' = it + 1 /\ erase_first
        /\ UNCHANGED <<awaiting, end, dangling>>
    BY <1>5 DEF WorkerErase
  <2>2. size > 0
    BY <2>1 DEF WalkInv, TypeOK, TableTypeOK, WorkerTypeOK
  <2>3. /\ cap' = cap /\ size' = size - 1 /\ size' \in 0..cap'
        /\ slots' \in [1..cap' -> Entry]
    BY <2>1, <2>2, EraseStep
  <2>4. TypeOK'
    BY <1>1, <2>1, <2>3 DEF TypeOK, TableTypeOK, WorkerTypeOK, pingVars
  <2>5. WalkInv'
    BY <1>1, <2>1, <2>3 DEF WalkInv, TypeOK, TableTypeOK, WorkerTypeOK,
                            pingVars
  <2> QED BY <2>4, <2>5
<1>6. CASE WorkerUpdate
  <2>1. /\ wpc = "update" /\ wpc' = "visit" /\ it' = it + 1
        /\ UNCHANGED <<awaiting, end, dangling>>
    BY <1>6 DEF WorkerUpdate
  <2>2. cap' = cap /\ size' = size /\ slots' \in [1..cap' -> Entry]
    <3>1. PICK id \in SeenId : update_timeout_status(id, "Detached")
      BY <1>6 DEF WorkerUpdate
    <3>2. "Detached" \in Status
      BY DEF Status
    <3> QED BY <3>1, <3>2, UpdateStep
  <2>3. TypeOK'
    BY <1>1, <2>1, <2>2 DEF TypeOK, TableTypeOK, WorkerTypeOK, pingVars
  <2>4. WalkInv'
    BY <1>1, <2>1, <2>2 DEF WalkInv, TypeOK, TableTypeOK, WorkerTypeOK,
                            pingVars
  <2> QED BY <2>3, <2>4
<1>7. CASE WorkerSleep
  <2>1. TypeOK'
    BY <1>1, <1>7 DEF WorkerSleep, TypeOK, TableTypeOK, WorkerTypeOK,
                      tableVars, pingVars
  <2>2. WalkInv'
    BY <1>1, <1>7 DEF WorkerSleep, WalkInv, tableVars, pingVars
  <2> QED BY <2>1, <2>2
<1> QED
  BY <1>2, <1>3, <1>4, <1>5, <1>6, <1>7 DEF TimeoutWorker, Worker

\* A CONNECT appends a pair: a walk then has a pair to spare, and if the block
\* had to be replaced it dangles.
LEMMA ConnectIInv ==
  ASSUME IInv, NEW u \in Users, NEW c \in Users, NEW h \in Hosts, NEW code,
         Connect(u, c, h, code)
  PROVE  IInv'
<1> USE DEF IInv
<1>1. UNCHANGED <<tokens, pingVars>> /\ upc = "idle"
  BY DEF Connect, Served
<1>2. CASE code = 200 /\ insert(u, AwaitingUser(u, c, h))
           /\ requests' = [requests EXCEPT ![u] = @ + 1]
           /\ fresh' = Refresh(u) /\ UNCHANGED <<wpc, it, end, told>>
  <2>1. /\ cap' \in Nat /\ cap <= cap'
        /\ size' = size + 1 /\ size' \in 0..cap'
        /\ slots' \in [1..cap' -> Entry]
        /\ dangling' \in BOOLEAN
        /\ \/ cap' = cap /\ dangling' = dangling
           \/ dangling' = (wpc # "sleep")
    BY <1>2, AppendStep DEF insert
  <2>2. awaiting' \in [Users -> Request \cup {NoRequest}]
    BY <1>2, RequestType DEF insert, TypeOK, TableTypeOK
  <2>3. TableTypeOK' /\ WorkerTypeOK'
    BY <1>2, <2>1, <2>2 DEF TypeOK, TableTypeOK, WorkerTypeOK
  <2>4. fresh' \in SUBSET Users
    BY <1>2 DEF Refresh, TypeOK
  <2>5. requests' \in [Users -> Nat]
    BY <1>2 DEF TypeOK
  <2>6. TypeOK'
    BY <1>1, <1>2, <2>3, <2>4, <2>5 DEF TypeOK, pingVars
  <2>7. WalkInv'
    BY <1>1, <1>2, <2>1 DEF WalkInv, TypeOK, TableTypeOK, WorkerTypeOK,
                            pingVars
  <2> QED BY <2>6, <2>7
<1>3. CASE UNCHANGED <<tableVars, workerVars, historyVars>>
  BY <1>1, <1>3 DEF TypeOK, TableTypeOK, WorkerTypeOK, WalkInv, tableVars,
                    workerVars, pingVars, historyVars
<1> QED
  BY <1>2, <1>3 DEF Connect

LEMMA AcceptIInv ==
  ASSUME IInv, NEW v \in Users, NEW c \in Users, NEW h \in Hosts, NEW code,
         Accept(v, c, h, code)
  PROVE  IInv'
<1> USE DEF IInv
<1>1. UNCHANGED <<slots, cap, size, workerVars, tokens, pingVars,
                  fresh, requests>>
  BY DEF Accept
<1>2. awaiting' \in [Users -> Request \cup {NoRequest}]
      /\ told' \in [Commands -> [Users -> [Users -> Types]]]
  <2>1. CASE code = 201 /\ exists(c)
    <3> DEFINE r == set_peer(awaiting[c], v, h)
    <3>1. r \in Request /\ address_type(r) \in Types
      BY <2>1, ExistingRequest, SetPeerType, AddressType
    <3>2. awaiting' = [awaiting EXCEPT ![c] = r]
          /\ told' = Tell(told, "ACCEPT", v, c, address_type(r))
      BY <2>1, Zenon DEF Accept, Tell
    <3> HIDE DEF r
    <3>3. awaiting' \in [Users -> Request \cup {NoRequest}]
      BY <3>1, <3>2 DEF TypeOK, TableTypeOK
    <3>4. told' \in [Commands -> [Users -> [Users -> Types]]]
      BY <3>1, <3>2, ToldType DEF TypeOK, Answers
    <3> QED BY <3>3, <3>4
  <2>2. CASE UNCHANGED <<awaiting, told>>
    BY <2>2 DEF TypeOK, TableTypeOK
  <2> QED BY <2>1, <2>2 DEF Accept
<1>3. TypeOK'
  BY <1>1, <1>2 DEF TypeOK, TableTypeOK, WorkerTypeOK, workerVars, pingVars
<1>4. WalkInv'
  BY <1>1 DEF WalkInv, workerVars, pingVars
<1> QED BY <1>3, <1>4

LEMMA DestroyIInv ==
  ASSUME IInv, NEW id, NEW code, DestroyAndAnswer(id, code)
  PROVE  IInv'
<1> USE DEF IInv
<1>1. UNCHANGED <<slots, cap, size, workerVars, tokens, pingVars, historyVars>>
  BY DEF DestroyAndAnswer
<1>2. awaiting' \in [Users -> Request \cup {NoRequest}]
  <2>1. CASE destroy(id)
    BY <2>1, DestroyStep
  <2>2. CASE UNCHANGED awaiting
    BY <2>2 DEF TypeOK, TableTypeOK
  <2> QED BY <2>1, <2>2 DEF DestroyAndAnswer
<1>3. TypeOK'
  BY <1>1, <1>2 DEF TypeOK, TableTypeOK, WorkerTypeOK, workerVars, pingVars,
                    historyVars
<1>4. WalkInv'
  BY <1>1 DEF WalkInv, workerVars, pingVars
<1> QED BY <1>3, <1>4

\* PING reads its end from the vector and writes only slots up to that end.
LEMMA PingIInv ==
  ASSUME IInv, (\E u \in Users : PingGet(u)) \/ PingStep
  PROVE  IInv'
<1> USE DEF IInv
<1>1. CASE \E u \in Users : PingGet(u)
  <2>1. PICK u \in Users : PingGet(u)
    BY <1>1
  <2>2. awaiting[u] \in Request
    BY <2>1, ExistingRequest DEF PingGet
  <2>3. fresh' \in SUBSET Users
    BY <2>1 DEF PingGet, Refresh, TypeOK
  <2>4. TypeOK'
    BY <2>1, <2>2, <2>3 DEF PingGet, TypeOK, TableTypeOK, WorkerTypeOK,
                            tableVars, workerVars
  <2>5. WalkInv'
    BY <2>1 DEF PingGet, WalkInv, TypeOK, TableTypeOK, tableVars, workerVars
  <2> QED BY <2>4, <2>5
<1>2. CASE PingSlot
  <2>1. slots' \in [1..cap -> Entry]
    <3>1. pit \in 1..cap
      BY <1>2 DEF PingSlot, WalkInv, TypeOK, TableTypeOK
    <3>2. [slots[pit] EXCEPT !.status = "Pinged"] \in Entry
      <4>1. slots[pit] \in Entry
        BY <3>1 DEF TypeOK, TableTypeOK
      <4> QED BY <4>1 DEF Entry, Status
    <3>3. slots' = slots
          \/ slots' = [slots EXCEPT
                         ![pit] = [slots[pit] EXCEPT !.status = "Pinged"]]
      BY <1>2, <3>1 DEF PingSlot, TypeOK, TableTypeOK
    <3> QED BY <3>1, <3>2, <3>3 DEF TypeOK, TableTypeOK
  <2>2. TypeOK'
    BY <1>2, <2>1 DEF PingSlot, TypeOK, TableTypeOK, WorkerTypeOK, workerVars,
                      historyVars
  <2>3. WalkInv'
    BY <1>2 DEF PingSlot, WalkInv, TypeOK, workerVars
  <2> QED BY <2>2, <2>3
<1>3. CASE \E code \in {201, 203} : PingAnswer(code)
  <2>1. PICK code \in {201, 203} : PingAnswer(code)
    BY <1>3
  <2>2. awaiting' \in [Users -> Request \cup {NoRequest}]
    BY <2>1, DestroyStep DEF PingAnswer, TypeOK, TableTypeOK
  <2>3. told' \in [Commands -> [Users -> [Users -> Types]]]
    <3> DEFINE answer == Tell(told, "PING", pinger, copy.peer, address_type(copy))
    <3>1. told' = told \/ told' = answer
      BY <2>1 DEF PingAnswer, Tell
    <3>2. told \in Answers
      BY DEF TypeOK, Answers
    <3>3. answer \in Answers
      BY <3>2, AddressType, ToldType
    <3> HIDE DEF answer
    <3> QED BY <3>1, <3>2, <3>3 DEF Answers
  <2>4. TypeOK'
    BY <2>1, <2>2, <2>3 DEF PingAnswer, TypeOK, TableTypeOK, WorkerTypeOK,
                            workerVars
  <2>5. WalkInv'
    BY <2>1 DEF PingAnswer, WalkInv, workerVars
  <2> QED BY <2>4, <2>5
<1> QED BY <1>1, <1>2, <1>3 DEF PingStep

LEMMA StepIInv == IInv /\ [Next]_vars => IInv'
<1> SUFFICES ASSUME IInv, [Next]_vars PROVE IInv'
  OBVIOUS
<1>1. CASE UNCHANGED vars
  BY <1>1 DEF IInv, TypeOK, TableTypeOK, WorkerTypeOK, WalkInv, vars,
              tableVars, workerVars, pingVars, historyVars
<1>2. CASE \E u \in Users, code \in {202, 301, 500, 501} : Refused(u, code)
  BY <1>1, <1>2 DEF Refused
<1>3. CASE \E u, c \in Users, h \in Hosts, code \in {200, 306} :
             u # c /\ Connect(u, c, h, code)
  BY <1>3, ConnectIInv
<1>4. CASE \E v, c \in Users, h \in Hosts, code \in {201, 307} :
             v # c /\ Accept(v, c, h, code)
  BY <1>4, AcceptIInv
<1>5. CASE \E u \in Users, code \in {200, 307} : Hangup(u, code)
  BY <1>5, DestroyIInv DEF Hangup
<1>6. CASE \E v, c \in Users, code \in {200, 307} :
             v # c /\ Reject(v, c, code)
  BY <1>6, DestroyIInv DEF Reject
<1>7. CASE \E u \in Users : PingNothing(u)
  BY <1>1, <1>7 DEF PingNothing
<1>8. CASE (\E u \in Users : PingGet(u)) \/ PingStep
  BY <1>8, PingIInv
<1>9. CASE Tcp
  BY <1>9 DEF Tcp, Login, Exit, IInv, TypeOK, TableTypeOK, WorkerTypeOK,
              WalkInv, tableVars, workerVars, pingVars, historyVars
<1>10. CASE TimeoutWorker
  BY <1>10, WorkerIInv
<1> QED
  BY <1>1, <1>2, <1>3, <1>4, <1>5, <1>6, <1>7, <1>8, <1>9, <1>10
     DEF Next, Udp

-----------------------------------------------------------------------------
\* Every reachable state is type correct: requests, block, walks and answers.
THEOREM TypeCorrect == Spec => []TypeOK
<1>1. IInv => TypeOK
  BY DEF IInv
<1> QED
  BY InitIInv, StepIInv, <1>1, PTL DEF Spec

\* The timeout worker never erases from an empty m_timeouts.
THEOREM WorkerErasesInBounds == Spec => []EraseInBounds
<1>1. IInv => EraseInBounds
  BY DEF IInv, WalkInv, EraseInBounds, TypeOK, TableTypeOK, WorkerTypeOK
<1> QED
  BY InitIInv, StepIInv, <1>1, PTL DEF Spec

\* Neither unlocked loop over m_timeouts leaves the block it was started on.
THEOREM WalksAreInBlock == Spec => []WalksStayInBlock
<1>1. IInv => WalksStayInBlock
  BY DEF IInv, WalkInv, WalksStayInBlock, TypeOK, TableTypeOK, WorkerTypeOK
<1> QED
  BY InitIInv, StepIInv, <1>1, PTL DEF Spec

-----------------------------------------------------------------------------
(***************************************************************************)
(* The kind of address both ends are told.  The address type ACCEPT gave   *)
(* is that of the request it wrote, which nobody else changes before it is *)
(* destroyed, and PING answers from a copy of it.                          *)
(***************************************************************************)
Agree ==
  /\ \A u, v \in Users :
       awaiting[u].peer = v => told["ACCEPT"][v][u] = address_type(awaiting[u])
  /\ \A v \in Users :
       upc = "ping" /\ copy.peer = v => told["ACCEPT"][v][pinger] = address_type(copy)

\* What a step may do to the requests without disturbing Agree: remove some.
LEMMA AgreeIfFewer ==
  ASSUME Agree, told'["ACCEPT"] = told["ACCEPT"],
         \A u \in Users : awaiting'[u] = awaiting[u] \/ awaiting'[u].peer = NoUser,
         UNCHANGED <<upc, pinger, copy>> \/ upc' = "idle"
  PROVE  Agree'
<1>1. \A u, v \in Users :
        awaiting'[u].peer = v => told'["ACCEPT"][v][u] = address_type(awaiting'[u])
  BY NoUserAssumption DEF Agree
<1>2. ASSUME NEW v \in Users, upc' = "ping", copy'.peer = v
      PROVE  told'["ACCEPT"][v][pinger'] = address_type(copy')
  BY <1>2 DEF Agree
<1> QED BY <1>1, <1>2 DEF Agree, address_type, has_same_address

\* destroy, and the constructor of a request, leave no peer.
LEMMA NoPeer ==
  ASSUME TypeOK, NEW id, destroy(id)
  PROVE  \A u \in Users : awaiting'[u] = awaiting[u] \/ awaiting'[u].peer = NoUser
BY DEF destroy, NoRequest, TypeOK, TableTypeOK

LEMMA AgreeStep == IInv /\ Agree /\ [Next]_vars => Agree'
<1> SUFFICES ASSUME IInv, Agree, [Next]_vars PROVE Agree'
  OBVIOUS
<1>0. TypeOK
  BY DEF IInv
<1>1. ASSUME UNCHANGED <<awaiting, told, upc, pinger, copy>> PROVE Agree'
  BY <1>1, AgreeIfFewer
<1>2. ASSUME NEW u \in Users, NEW c \in Users, NEW h \in Hosts, NEW code,
             Connect(u, c, h, code)
      PROVE  Agree'
  <2>1. UNCHANGED <<upc, pinger, copy, told>>
    BY <1>2 DEF Connect, pingVars, historyVars
  <2>2. \/ awaiting' = awaiting
        \/ awaiting' = [awaiting EXCEPT ![u] = AwaitingUser(u, c, h)]
    BY <1>2 DEF Connect, insert, tableVars
  <2>3. \A w \in Users : awaiting'[w] = awaiting[w] \/ awaiting'[w].peer = NoUser
    BY <1>0, <2>2 DEF AwaitingUser, TypeOK, TableTypeOK
  <2> QED BY <2>1, <2>3, AgreeIfFewer
<1>3. ASSUME NEW v \in Users, NEW c \in Users, NEW h \in Hosts, NEW code,
             Accept(v, c, h, code)
      PROVE  Agree'
  <2>1. upc' = "idle"
    BY <1>3 DEF Accept, Served, pingVars
  <2>2. CASE UNCHANGED <<awaiting, told>>
    BY <2>1, <2>2, AgreeIfFewer
  <2>3. CASE exists(c) /\ code = 201
    <3> DEFINE r == set_peer(awaiting[c], v, h)
    <3>1. /\ awaiting' = [awaiting EXCEPT ![c] = r]
          /\ told' = [told EXCEPT !["ACCEPT"][v][c] = address_type(r)]
      BY <2>3, <1>3, Zenon DEF Accept
    <3>2. r.peer = v
      BY <1>0, <2>3, ExistingRequest DEF set_peer, Request
    <3> HIDE DEF r
    <3>3. awaiting'[c] = r /\ \A u \in Users : u # c => awaiting'[u] = awaiting[u]
      BY <1>0, <3>1 DEF TypeOK, TableTypeOK
    <3>4. /\ told'["ACCEPT"][v][c] = address_type(r)
          /\ \A u, w \in Users : u # c => told'["ACCEPT"][w][u] = told["ACCEPT"][w][u]
      BY <1>0, <3>1 DEF TypeOK, Commands
    <3>5. ASSUME NEW u \in Users, NEW w \in Users, awaiting'[u].peer = w
          PROVE  told'["ACCEPT"][w][u] = address_type(awaiting'[u])
      <4>1. CASE u = c
        BY <3>2, <3>3, <3>4, <3>5, <4>1
      <4>2. CASE u # c
        BY <3>3, <3>4, <3>5, <4>2 DEF Agree
      <4> QED BY <4>1, <4>2
    <3> QED BY <2>1, <3>5 DEF Agree, address_type, has_same_address
  <2> QED BY <1>3, <2>2, <2>3 DEF Accept
<1>4. ASSUME NEW id, NEW code, DestroyAndAnswer(id, code) PROVE Agree'
  <2>1. UNCHANGED <<upc, pinger, copy, told>>
    BY <1>4 DEF DestroyAndAnswer, pingVars, historyVars
  <2>2. \A w \in Users : awaiting'[w] = awaiting[w] \/ awaiting'[w].peer = NoUser
    <3>1. awaiting' = awaiting \/ destroy(id)
      BY <1>4 DEF DestroyAndAnswer
    <3> QED BY <1>0, <3>1, NoPeer
  <2> QED BY <2>1, <2>2, AgreeIfFewer
<1>5. ASSUME NEW u \in Users, PingGet(u) PROVE Agree'
  <2>1. /\ u \in Users /\ UNCHANGED <<awaiting, told>>
        /\ upc' = "ping" /\ pinger' = u /\ copy' = awaiting[u]
    BY <1>5 DEF PingGet, tableVars
  <2> QED BY <2>1 DEF Agree, address_type, has_same_address
<1>6. ASSUME NEW code, PingAnswer(code) PROVE Agree'
  <2>1. upc' = "idle"
    BY <1>6 DEF PingAnswer
  <2>2. told'["ACCEPT"] = told["ACCEPT"]
    BY <1>0, <1>6 DEF PingAnswer, TypeOK, Commands
  <2>3. \A w \in Users : awaiting'[w] = awaiting[w] \/ awaiting'[w].peer = NoUser
    <3>1. awaiting' = awaiting \/ destroy(pinger)
      BY <1>6 DEF PingAnswer
    <3> QED BY <1>0, <3>1, NoPeer
  <2> QED BY <2>1, <2>2, <2>3, AgreeIfFewer
<1>7. CASE TimeoutWorker
  <2>1. UNCHANGED <<upc, pinger, copy, told>>
    BY <1>7 DEF TimeoutWorker, pingVars
  <2>2. \A w \in Users : awaiting'[w] = awaiting[w] \/ awaiting'[w].peer = NoUser
    <3>1. awaiting' = awaiting \/ \E id \in SeenId : destroy(id)
      BY <1>7 DEF TimeoutWorker, Worker, WorkerWake, WorkerVisit, WorkerDestroy,
                  WorkerErase, WorkerUpdate, WorkerSleep, tableVars
    <3> QED BY <1>0, <3>1, NoPeer
  <2> QED BY <2>1, <2>2, AgreeIfFewer
<1>8. CASE UNCHANGED vars
  BY <1>1, <1>8 DEF vars, tableVars, pingVars, historyVars
<1>9. CASE Udp
  <2>1. ASSUME NEW u \in Users, NEW code, Refused(u, code) \/ PingNothing(u)
        PROVE  Agree'
    BY <1>8, <2>1 DEF Refused, PingNothing
  <2>2. CASE PingSlot
    BY <1>1, <2>2 DEF PingSlot, historyVars
  <2> QED BY <1>2, <1>3, <1>4, <1>5, <1>6, <1>9, <2>1, <2>2
          DEF Udp, Hangup, Reject, PingStep
<1>10. CASE Tcp
  BY <1>1, <1>10 DEF Tcp, Login, Exit, tableVars, pingVars, historyVars
<1> QED BY <1>7, <1>8, <1>9, <1>10 DEF Next

\* Whatever the two users do, and in both directions at once: PING tells the
\* caller the kind of address that ACCEPT told the one who accepted.
THEOREM EndsAgree == Spec => EndsAgreeOnNetwork
<1>1. Init => Agree
  BY NoUserAssumption DEF Init, TableInit, Agree, NoRequest
<1>2. ASSUME IInv, Agree, Next
      PROVE  \A u, v \in Users :
               PingAnswer(201) /\ pinger = u /\ copy.peer = v
                 => told'["PING"][u][v] = told["ACCEPT"][v][u]
  <2> SUFFICES ASSUME NEW u \in Users, NEW v \in Users,
                      PingAnswer(201), pinger = u, copy.peer = v
               PROVE  told'["PING"][u][v] = told["ACCEPT"][v][u]
    OBVIOUS
  <2>1. /\ upc = "ping"
        /\ told' = [told EXCEPT !["PING"][u][v] = address_type(copy)]
    BY NoUserAssumption DEF PingAnswer
  <2>2. told \in [Commands -> [Users -> [Users -> Types]]]
    BY <1>2 DEF IInv, TypeOK
  <2>3. told'["PING"][u][v] = address_type(copy)
    BY <2>1, <2>2 DEF Commands
  <2> QED BY <1>2, <2>1, <2>3 DEF Agree
<1>3. IInv /\ Agree /\ [Next]_vars
        => [\A u, v \in Users :
              PingAnswer(201) /\ pinger = u /\ copy.peer = v
                => told'["PING"][u][v] = told["ACCEPT"][v][u]]_vars
  BY <1>2
<1> QED
  BY <1>1, <1>3, InitIInv, StepIInv, AgreeStep, PTL DEF Spec, EndsAgreeOnNetwork

-----------------------------------------------------------------------------
(***************************************************************************)
(* The survival of a request that is pinged.  A user who has called once   *)
(* has one live pair in m_timeouts.  While the worker sleeps, no live pair *)
(* of a user served since the last walk is Detached, except those that a   *)
(* PING under way has still to reach; during a walk, no pair the walk has  *)
(* still to visit is, also when erases move the pairs down the block and   *)
(* leave copies of the last one behind.                                    *)
(***************************************************************************)
Once(u) == u \in fresh /\ requests[u] <= 1

Alive(u, i) == slots[i].id = u => slots[i].status # "Detached"

OnePair ==
  \A u \in Users :
    /\ requests[u] = 0 => /\ u \notin fresh /\ awaiting[u] = NoRequest
                          /\ \A i \in 1..size : slots[i].id # u
    /\ requests[u] <= 1 => \A i, j \in 1..size : slots[i].id = u /\ slots[j].id = u => i = j

Pinging(u) == upc = "ping" /\ pinger = u

AsleepInv ==
  wpc = "sleep" =>
    \A u \in Users : Once(u) =>
      /\ ~ Pinging(u) => \A i \in 1..size : Alive(u, i)
      /\ Pinging(u) => pend = size /\ \A i \in 1..size : i < pit => Alive(u, i)

Ahead(i) == i >= it /\ (i <= end \/ i <= size)

WalkingInv ==
  wpc # "sleep" /\ ~ dangling =>
    \A u \in Users : Once(u) =>
      /\ \A i \in 1..cap : Ahead(i) => Alive(u, i)
      /\ wpc = "destroy" => slots[it].id # u

FreshInv == OnePair /\ AsleepInv /\ WalkingInv

\* The block and the two loops, as far as these proofs need them.
LEMMA Block ==
  ASSUME IInv
  PROVE  /\ cap \in Nat /\ size \in 0..cap /\ it \in Nat /\ end \in Nat
         /\ pit \in Nat /\ pend \in Nat
         /\ slots \in [1..cap -> Entry] /\ requests \in [Users -> Nat]
         /\ fresh \subseteq Users /\ awaiting \in [Users -> Request \cup {NoRequest}]
         /\ dangling \in BOOLEAN
         /\ wpc \in {"sleep", "visit", "destroy", "erase", "update"}
         /\ wpc # "sleep" => it >= 1 /\ end - it + 1 <= size
         /\ wpc \in {"destroy", "erase", "update"} => it <= end
         /\ wpc # "sleep" /\ ~ dangling => end <= cap
         /\ upc = "ping" => pit >= 1 /\ pend <= cap
BY DEF IInv, TypeOK, TableTypeOK, WorkerTypeOK, WalkInv

\* A step that at most removes requests.
LEMMA FreshIfFewer ==
  ASSUME IInv, FreshInv,
         UNCHANGED <<slots, cap, size, workerVars, upc, pinger, pit, pend, fresh, requests>>,
         \A u \in Users : awaiting'[u] = awaiting[u] \/ awaiting'[u] = NoRequest
                            \/ awaiting[u] # NoRequest
  PROVE  FreshInv'
<1>1. OnePair'
  BY DEF FreshInv, OnePair
<1>2. AsleepInv'
  BY DEF FreshInv, AsleepInv, Once, Alive, Pinging, workerVars
<1>3. WalkingInv'
  BY DEF FreshInv, WalkingInv, Once, Alive, Ahead, workerVars
<1> QED BY <1>1, <1>2, <1>3 DEF FreshInv

\* A CONNECT appends one pair, of a user who has not called before or whose
\* second call this is, and a walk under way does not know the user as fresh.
LEMMA AppendSlots ==
  ASSUME IInv, NEW u \in Users, emplace_back(u)
  PROVE  /\ size' = size + 1
         /\ slots'[size + 1].id = u /\ slots'[size + 1].status = "Created"
         /\ \A i \in 1..size : slots'[i] = slots[i]
         /\ \/ wpc # "sleep" => dangling'
            \/ /\ cap' = cap /\ dangling' = dangling
               /\ \A i \in 1..cap : i # size + 1 => slots'[i] = slots[i]
<1>1. cap \in Nat /\ size \in 0..cap /\ slots \in [1..cap -> Entry]
  BY Block
<1>2. CASE size < cap
  <2>1. /\ size' = size + 1 /\ UNCHANGED <<cap, dangling>>
        /\ slots' = [slots EXCEPT ![size + 1] = [id |-> u, status |-> "Created"]]
    BY <1>1, <1>2 DEF emplace_back
  <2> QED BY <1>1, <1>2, <2>1
<1>3. CASE size = cap
  <2>1. /\ size' = size + 1 /\ dangling' = (wpc # "sleep")
        /\ slots' = [i \in 1..Grown |-> IF i <= size THEN slots[i]
                                        ELSE IF i = size + 1
                                        THEN [id |-> u, status |-> "Created"]
                                        ELSE Blank]
    BY <1>1, <1>3 DEF emplace_back
  <2>2. Grown \in Nat /\ Grown >= cap + 1
    BY <1>1 DEF Grown
  <2>3. wpc # "sleep" => dangling'
    BY <2>1, Zenon
  <2>4. /\ slots'[size + 1].id = u /\ slots'[size + 1].status = "Created"
        /\ \A i \in 1..size : slots'[i] = slots[i]
    BY <1>1, <1>3, <2>1, <2>2
  <2> QED BY <2>1, <2>3, <2>4
<1> QED BY <1>1, <1>2, <1>3

LEMMA ConnectFresh ==
  ASSUME IInv, FreshInv, NEW u \in Users, NEW c \in Users, NEW h \in Hosts, NEW code,
         Connect(u, c, h, code)
  PROVE  FreshInv'
<1>1. upc = "idle" /\ UNCHANGED <<upc, pinger, copy, pit, pend>>
  BY DEF Connect, Served, pingVars
<1>2. CASE UNCHANGED <<tableVars, workerVars, historyVars>>
  BY <1>1, <1>2, FreshIfFewer DEF tableVars, historyVars
<1>3. CASE /\ insert(u, AwaitingUser(u, c, h))
           /\ requests' = [requests EXCEPT ![u] = @ + 1]
           /\ fresh' = Refresh(u) /\ UNCHANGED <<wpc, it, end, told>>
  <2>1. /\ size' = size + 1
        /\ slots'[size + 1].id = u /\ slots'[size + 1].status = "Created"
        /\ \A i \in 1..size : slots'[i] = slots[i]
        /\ \/ wpc # "sleep" => dangling'
           \/ /\ cap' = cap /\ dangling' = dangling
              /\ \A i \in 1..cap : i # size + 1 => slots'[i] = slots[i]
    BY <1>3, AppendSlots DEF insert
  <2>2. /\ cap \in Nat /\ size \in 0..cap /\ it \in Nat /\ end \in Nat
        /\ requests \in [Users -> Nat] /\ fresh \subseteq Users
        /\ wpc # "sleep" => it >= 1
        /\ wpc = "destroy" /\ ~ dangling => it <= cap
    BY Block
  <2>3. /\ requests'[u] = requests[u] + 1
        /\ \A w \in Users : w # u => requests'[w] = requests[w]
        /\ \A w \in Users : w # u => (w \in fresh' <=> w \in fresh)
        /\ wpc # "sleep" => fresh' = fresh
    BY <1>3, <2>2 DEF Refresh
  <2>4. \A w \in Users : w # u => awaiting'[w] = awaiting[w]
    BY <1>3, Block DEF insert
  <2>5. /\ requests'[u] >= 1
        /\ requests'[u] <= 1 => /\ u \notin fresh
                                /\ \A i \in 1..size : slots[i].id # u
    BY <2>2, <2>3 DEF FreshInv, OnePair
  <2>6. \A w \in Users : w # u => (Once(w)' <=> Once(w))
    BY <2>3 DEF Once
  <2>7. OnePair'
    BY <2>1, <2>2, <2>3, <2>4, <2>5 DEF FreshInv, OnePair
  <2>8. AsleepInv'
    <3> SUFFICES ASSUME wpc' = "sleep", NEW w \in Users, Once(w)'
                 PROVE  \A i \in 1..size' : Alive(w, i)'
      BY <1>1 DEF AsleepInv, Pinging
    <3>1. CASE w = u
      BY <2>1, <2>2, <2>5, <3>1 DEF Once, Alive
    <3>2. CASE w # u
      <4>1. \A i \in 1..size : Alive(w, i)
        BY <1>1, <1>3, <2>6, <3>2 DEF FreshInv, AsleepInv, Pinging
      <4> QED BY <2>1, <2>2, <3>2, <4>1 DEF Alive
    <3> QED BY <3>1, <3>2
  <2>9. WalkingInv'
    <3> SUFFICES ASSUME wpc' # "sleep", ~ dangling', NEW w \in Users, Once(w)'
                 PROVE  /\ \A i \in 1..cap' : Ahead(i)' => Alive(w, i)'
                        /\ wpc' = "destroy" => slots'[it'].id # w
      BY DEF WalkingInv
    <3>1. /\ cap' = cap /\ ~ dangling /\ wpc # "sleep" /\ wpc' = wpc
          /\ it' = it /\ end' = end
          /\ \A i \in 1..cap : i # size + 1 => slots'[i] = slots[i]
      BY <1>3, <2>1
    <3>2. w # u
      BY <2>3, <2>5, <3>1 DEF Once
    <3>3. /\ \A i \in 1..cap : Ahead(i) => Alive(w, i)
          /\ wpc = "destroy" => slots[it].id # w
      BY <2>6, <3>1, <3>2 DEF FreshInv, WalkingInv
    <3>4. ASSUME NEW i \in 1..cap, Ahead(i)' PROVE Alive(w, i)'
      <4>1. CASE i = size + 1
        BY <2>1, <3>2, <4>1 DEF Alive
      <4>2. CASE i # size + 1
        <5>1. Ahead(i)
          BY <2>1, <2>2, <3>1, <3>4, <4>2 DEF Ahead
        <5> QED BY <3>1, <3>3, <4>2, <5>1 DEF Alive
      <4> QED BY <4>1, <4>2
    <3>5. wpc = "destroy" => slots'[it].id # w
      BY <2>1, <2>2, <3>1, <3>2, <3>3
    <3> QED BY <3>1, <3>4, <3>5
  <2> QED BY <2>7, <2>8, <2>9 DEF FreshInv
<1> QED BY <1>2, <1>3 DEF Connect

\* PING: the user is fresh while its pairs below pit are Pinged already.
LEMMA PingFresh ==
  ASSUME IInv, FreshInv, (\E u \in Users : PingGet(u)) \/ PingStep
  PROVE  FreshInv'
<1>0. /\ cap \in Nat /\ size \in 0..cap /\ it \in Nat /\ end \in Nat
      /\ pit \in Nat /\ pend \in Nat /\ requests \in [Users -> Nat]
      /\ slots \in [1..cap -> Entry] /\ fresh \subseteq Users
      /\ wpc = "destroy" => it >= 1 /\ it <= end
      /\ wpc # "sleep" /\ ~ dangling => end <= cap
  BY Block
<1>1. ASSUME NEW u \in Users, PingGet(u) PROVE FreshInv'
  <2>1. /\ upc = "idle" /\ awaiting[u] # NoRequest
        /\ upc' = "ping" /\ pinger' = u /\ pit' = 1 /\ pend' = size
        /\ fresh' = Refresh(u)
        /\ UNCHANGED <<awaiting, slots, cap, size, wpc, it, end, dangling, requests>>
    BY <1>1 DEF PingGet, Served, exists, tableVars, workerVars
  <2>2. \A w \in Users : w # u => (w \in fresh' <=> w \in fresh)
    BY <2>1 DEF Refresh
  <2>3. wpc # "sleep" => fresh' = fresh
    BY <2>1 DEF Refresh
  <2>4. OnePair'
    BY <2>1, <2>2 DEF FreshInv, OnePair
  <2>5. AsleepInv'
    <3> SUFFICES ASSUME wpc' = "sleep", NEW w \in Users, Once(w)'
                 PROVE  /\ ~ Pinging(w)' => \A i \in 1..size' : Alive(w, i)'
                        /\ Pinging(w)' => /\ pend' = size'
                                          /\ \A i \in 1..size' : i < pit' => Alive(w, i)'
      BY DEF AsleepInv
    <3>1. CASE w = u
      BY <1>0, <2>1, <3>1 DEF Pinging
    <3>2. CASE w # u
      <4>1. Once(w) /\ ~ Pinging(w)
        BY <2>1, <2>2, <3>2 DEF Once, Pinging
      <4>2. \A i \in 1..size : Alive(w, i)
        BY <2>1, <4>1 DEF FreshInv, AsleepInv
      <4> QED BY <2>1, <3>2, <4>2 DEF Alive, Pinging
    <3> QED BY <3>1, <3>2
  <2>6. WalkingInv'
    BY <2>1, <2>3 DEF FreshInv, WalkingInv, Once, Alive, Ahead
  <2> QED BY <2>4, <2>5, <2>6 DEF FreshInv
<1>2. CASE PingSlot
  <2>1. /\ upc = "ping" /\ pit <= pend /\ pit' = pit + 1
        /\ UNCHANGED <<awaiting, cap, size, wpc, it, end, dangling, upc, pinger,
                       pend, fresh, requests>>
    BY <1>2 DEF PingSlot, workerVars, historyVars
  <2>2. pit \in 1..cap
    BY <2>1, Block
  <2>3. \A i \in 1..cap :
          /\ slots'[i].id = slots[i].id
          /\ slots'[i].status = slots[i].status \/ slots'[i].status = "Pinged"
          /\ i = pit /\ slots[i].id = pinger => slots'[i].status = "Pinged"
    BY <1>0, <1>2, <2>2 DEF PingSlot, Entry
  <2>4. \A w \in Users, i \in 1..cap : Alive(w, i) => Alive(w, i)'
    BY <2>3 DEF Alive
  <2>5. OnePair'
    <3>1. \A i \in 1..size : slots'[i].id = slots[i].id
      BY <1>0, <2>3
    <3> QED BY <2>1, <3>1 DEF FreshInv, OnePair
  <2>6. AsleepInv'
    <3> SUFFICES ASSUME wpc' = "sleep", NEW w \in Users, Once(w)'
                 PROVE  /\ ~ Pinging(w)' => \A i \in 1..size' : Alive(w, i)'
                        /\ Pinging(w)' => /\ pend' = size'
                                          /\ \A i \in 1..size' : i < pit' => Alive(w, i)'
      BY DEF AsleepInv
    <3>1. Once(w) /\ wpc = "sleep" /\ (Pinging(w)' <=> Pinging(w))
      BY <2>1 DEF Once, Pinging
    <3>2. CASE ~ Pinging(w)
      BY <1>0, <2>1, <2>4, <3>1, <3>2 DEF FreshInv, AsleepInv
    <3>3. CASE Pinging(w)
      <4>1. pend = size /\ \A i \in 1..size : i < pit => Alive(w, i)
        BY <3>1, <3>3 DEF FreshInv, AsleepInv
      <4>2. ASSUME NEW i \in 1..size, i < pit + 1 PROVE Alive(w, i)'
        <5>1. CASE i = pit
          BY <1>0, <2>3, <3>3, <5>1 DEF Alive, Pinging
        <5>2. CASE i # pit
          BY <1>0, <2>4, <4>1, <4>2, <5>2
        <5> QED BY <5>1, <5>2
      <4> QED BY <2>1, <3>1, <3>3, <4>1, <4>2
    <3> QED BY <3>2, <3>3
  <2>7. WalkingInv'
    <3>1. wpc = "destroy" /\ ~ dangling => slots'[it].id = slots[it].id
      BY <1>0, <2>3
    <3>2. \A w \in Users : Once(w)' <=> Once(w)
      BY <2>1 DEF Once
    <3>3. \A i : Ahead(i)' <=> Ahead(i)
      BY <2>1 DEF Ahead
    <3> QED BY <2>1, <2>4, <3>1, <3>2, <3>3 DEF FreshInv, WalkingInv
  <2> QED BY <2>5, <2>6, <2>7 DEF FreshInv
<1>3. ASSUME NEW code, PingAnswer(code) PROVE FreshInv'
  <2>1. /\ upc = "ping" /\ pit > pend /\ upc' = "idle"
        /\ UNCHANGED <<slots, cap, size, wpc, it, end, dangling, fresh, requests>>
    BY <1>3 DEF PingAnswer, workerVars
  <2>2. \A u \in Users : awaiting'[u] = awaiting[u] \/ awaiting'[u] = NoRequest
    BY <1>3, Block DEF PingAnswer, destroy
  <2>3. OnePair'
    BY <2>1, <2>2 DEF FreshInv, OnePair
  <2>4. AsleepInv'
    <3> SUFFICES ASSUME wpc' = "sleep", NEW w \in Users, Once(w)'
                 PROVE  \A i \in 1..size' : Alive(w, i)'
      BY <2>1 DEF AsleepInv, Pinging
    <3>1. Once(w) /\ wpc = "sleep"
      BY <2>1 DEF Once
    <3>2. \A i \in 1..size : Alive(w, i)
      BY <1>0, <2>1, <3>1 DEF FreshInv, AsleepInv
    <3> QED BY <2>1, <3>2 DEF Alive
  <2>5. WalkingInv'
    BY <2>1 DEF FreshInv, WalkingInv, Once, Alive, Ahead
  <2> QED BY <2>3, <2>4, <2>5 DEF FreshInv
<1> QED BY <1>1, <1>2, <1>3 DEF PingStep

\* The timeout worker.
LEMMA WorkerFresh ==
  ASSUME IInv, FreshInv, TimeoutWorker
  PROVE  FreshInv'
<1>0. /\ cap \in Nat /\ size \in 0..cap /\ it \in Nat /\ end \in Nat
      /\ requests \in [Users -> Nat] /\ dangling \in BOOLEAN
      /\ slots \in [1..cap -> Entry] /\ fresh \subseteq Users
      /\ wpc # "sleep" => it >= 1 /\ end - it + 1 <= size
      /\ wpc \in {"destroy", "erase", "update"} => it <= end
      /\ wpc # "sleep" /\ ~ dangling => end <= cap
  BY Block
<1>1. /\ UNCHANGED <<upc, pinger, pit, pend, requests>>
      /\ wpc # "sleep" /\ wpc' # "sleep" => fresh' = fresh
      /\ wpc # "sleep" /\ wpc' = "sleep" => fresh' = {}
      /\ wpc = "sleep" => fresh' = fresh \ {pinger}
  BY DEF TimeoutWorker, pingVars
<1>2. fresh' \subseteq fresh
  BY <1>1, Block DEF Worker, TimeoutWorker
<1>3. ASSUME UNCHANGED <<slots, size, requests>>, awaiting' = awaiting \/ \E id : destroy(id)
      PROVE  OnePair'
  <2>1. \A u \in Users : awaiting'[u] = awaiting[u] \/ awaiting'[u] = NoRequest
    BY <1>3, Block DEF destroy
  <2> QED BY <1>2, <1>3, <2>1 DEF FreshInv, OnePair
<1>4. ASSUME wpc' = "sleep" PROVE WalkingInv'
  BY <1>4 DEF WalkingInv
<1>5. ASSUME wpc' # "sleep" PROVE AsleepInv'
  BY <1>5 DEF AsleepInv
<1>6. CASE WorkerWake
  <2>1. /\ wpc = "sleep" /\ wpc' = "visit" /\ it' = 1 /\ end' = size
        /\ UNCHANGED <<awaiting, slots, cap, size>>
    BY <1>6 DEF WorkerWake, tableVars
  <2>2. WalkingInv'
    <3> SUFFICES ASSUME NEW w \in Users, Once(w)', NEW i \in 1..cap', Ahead(i)'
                 PROVE  Alive(w, i)'
      BY <2>1 DEF WalkingInv
    <3>1. i \in 1..size
      BY <1>0, <2>1 DEF Ahead
    <3>2. Once(w) /\ ~ Pinging(w)
      BY <1>1, <2>1 DEF Once, Pinging
    <3> QED BY <2>1, <3>1, <3>2 DEF FreshInv, AsleepInv, Alive
  <2> QED BY <1>1, <1>3, <1>5, <2>1, <2>2 DEF FreshInv
<1>7. CASE WorkerVisit
  <2>1. /\ wpc = "visit" /\ it <= end
        /\ UNCHANGED <<awaiting, slots, cap, size, it, end, dangling>>
        /\ wpc' \in {"destroy", "update"}
        /\ wpc' = "destroy" /\ ~ dangling => slots[it].status = "Detached"
    BY <1>7 DEF WorkerVisit, SeenStatus, tableVars
  <2>2. \A w \in Users : Once(w)' <=> Once(w)
    BY <1>1, <2>1 DEF Once
  <2>3. ASSUME ~ dangling, NEW w \in Users, Once(w)
        PROVE  /\ \A i \in 1..cap : Ahead(i) => Alive(w, i)
               /\ wpc' = "destroy" => slots[it].id # w
    <3>1. \A i \in 1..cap : Ahead(i) => Alive(w, i)
      BY <2>1, <2>3 DEF FreshInv, WalkingInv
    <3>2. it \in 1..cap /\ Ahead(it)
      BY <1>0, <2>1, <2>3 DEF Ahead
    <3> QED BY <2>1, <2>3, <3>1, <3>2 DEF Alive
  <2>4. WalkingInv'
    BY <2>1, <2>2, <2>3 DEF WalkingInv, Ahead, Alive
  <2> QED BY <1>1, <1>3, <1>5, <2>1, <2>4 DEF FreshInv
<1>8. CASE WorkerDestroy
  <2>1. /\ wpc = "destroy" /\ wpc' = "erase"
        /\ UNCHANGED <<slots, cap, size, it, end, dangling>>
        /\ awaiting' = awaiting \/ \E id : destroy(id)
    BY <1>8 DEF WorkerDestroy
  <2>2. WalkingInv'
    BY <1>1, <2>1 DEF FreshInv, WalkingInv, Once, Ahead, Alive
  <2> QED BY <1>1, <1>3, <1>5, <2>1, <2>2 DEF FreshInv
<1>9. CASE WorkerErase
  <2>1. /\ wpc = "erase" /\ wpc' = "visit" /\ it' = it + 1 /\ size' = size - 1
        /\ UNCHANGED <<awaiting, cap, end, dangling>>
        /\ slots' = [i \in 1..cap |-> IF i < size THEN slots[i + 1] ELSE slots[i]]
    BY <1>9 DEF WorkerErase, erase_first
  <2>2. \A w \in Users : Once(w)' <=> Once(w)
    BY <1>1, <2>1 DEF Once
  <2>3. OnePair'
    <3>1. \A i \in 1..(size - 1) : slots'[i] = slots[i + 1]
      BY <1>0, <2>1
    <3>2. ASSUME NEW u \in Users, requests[u] <= 1, NEW i \in 1..(size - 1),
                 NEW j \in 1..(size - 1), slots'[i].id = u, slots'[j].id = u
          PROVE  i = j
      <4>1. /\ slots[i + 1].id = u /\ slots[j + 1].id = u
            /\ i + 1 \in 1..size /\ j + 1 \in 1..size
        BY <1>0, <3>1, <3>2
      <4>2. i + 1 = j + 1
        BY <3>2, <4>1 DEF FreshInv, OnePair
      <4> QED BY <1>0, <4>2
    <3>3. ASSUME NEW u \in Users, requests[u] = 0, NEW i \in 1..(size - 1)
          PROVE  slots'[i].id # u
      <4>1. i + 1 \in 1..size
        BY <1>0
      <4> QED BY <3>1, <3>3, <4>1 DEF FreshInv, OnePair
    <3>4. \A u \in Users : requests[u] = 0 => u \notin fresh' /\ awaiting'[u] = NoRequest
      BY <1>2, <2>1 DEF FreshInv, OnePair
    <3>5. requests' = requests /\ size' = size - 1
      BY <1>1, <2>1
    <3>6. ASSUME NEW u \in Users, requests'[u] = 0
          PROVE  /\ u \notin fresh' /\ awaiting'[u] = NoRequest
                 /\ \A i \in 1..size' : slots'[i].id # u
      BY <3>3, <3>4, <3>5, <3>6
    <3>7. ASSUME NEW u \in Users, requests'[u] <= 1
          PROVE  \A i, j \in 1..size' : slots'[i].id = u /\ slots'[j].id = u => i = j
      BY <3>2, <3>5, <3>7
    <3> QED BY <3>6, <3>7 DEF OnePair
  <2>4. WalkingInv'
    <3> SUFFICES ASSUME ~ dangling, NEW w \in Users, Once(w), NEW i \in 1..cap, Ahead(i)'
                 PROVE  Alive(w, i)'
      BY <2>1, <2>2 DEF WalkingInv
    <3>1. \A j \in 1..cap : Ahead(j) => Alive(w, j)
      BY <2>1 DEF FreshInv, WalkingInv
    <3>2. CASE i < size
      <4>1. i + 1 \in 1..cap /\ Ahead(i + 1)
        BY <1>0, <2>1, <3>2 DEF Ahead
      <4>2. slots'[i] = slots[i + 1]
        BY <2>1, <3>2
      <4> QED BY <3>1, <4>1, <4>2 DEF Alive
    <3>3. CASE ~ (i < size)
      <4>1. Ahead(i)
        BY <1>0, <2>1, <3>3 DEF Ahead
      <4>2. slots'[i] = slots[i]
        BY <2>1, <3>3
      <4> QED BY <3>1, <4>1, <4>2 DEF Alive
    <3> QED BY <3>2, <3>3
  <2> QED BY <1>5, <2>1, <2>3, <2>4 DEF FreshInv
<1>10. CASE WorkerUpdate
  <2>1. PICK id \in SeenId : update_timeout_status(id, "Detached")
    BY <1>10 DEF WorkerUpdate
  <2>2. /\ wpc = "update" /\ wpc' = "visit" /\ it' = it + 1
        /\ UNCHANGED <<awaiting, cap, size, end, dangling>>
    BY <1>10, <2>1 DEF WorkerUpdate, update_timeout_status
  <2>3. \A i \in 1..cap :
          /\ slots'[i].id = slots[i].id
          /\ ~ (i <= size /\ slots[i].id = id) => slots'[i] = slots[i]
    BY <1>0, <2>1 DEF update_timeout_status, Entry
  <2>4. \A w \in Users : Once(w)' <=> Once(w)
    BY <1>1, <2>2 DEF Once
  <2>5. OnePair'
    <3>1. \A i \in 1..size : slots'[i].id = slots[i].id
      BY <1>0, <2>3
    <3> QED BY <1>1, <1>2, <2>2, <3>1 DEF FreshInv, OnePair
  <2>6. WalkingInv'
    <3> SUFFICES ASSUME ~ dangling, NEW w \in Users, Once(w), NEW i \in 1..cap, Ahead(i)'
                 PROVE  Alive(w, i)'
      BY <2>2, <2>4 DEF WalkingInv
    <3>1. i > it /\ Ahead(i) /\ Alive(w, i)
      <4>1. i > it /\ Ahead(i)
        BY <1>0, <2>2 DEF Ahead
      <4> QED BY <2>2, <4>1 DEF FreshInv, WalkingInv
    <3>2. id = slots[it].id
      BY DEF SeenId
    <3>3. ~ (i <= size /\ slots[i].id = w /\ id = w)
      <4> SUFFICES ASSUME i <= size, slots[i].id = w, slots[it].id = w PROVE FALSE
        BY <3>2
      <4>1. it \in 1..size /\ i \in 1..size
        BY <1>0, <2>2, <3>1
      <4>2. it = i
        BY <4>1 DEF FreshInv, OnePair, Once
      <4> QED BY <1>0, <3>1, <4>2
    <3> QED BY <2>3, <3>1, <3>3 DEF Alive
  <2> QED BY <1>5, <2>2, <2>5, <2>6 DEF FreshInv
<1>11. CASE WorkerSleep
  <2>1. /\ wpc = "visit" /\ wpc' = "sleep" /\ UNCHANGED <<awaiting, slots, cap, size>>
    BY <1>11 DEF WorkerSleep, tableVars
  <2>2. AsleepInv'
    BY <1>1, <2>1 DEF AsleepInv, Once
  <2> QED BY <1>1, <1>3, <1>4, <2>1, <2>2 DEF FreshInv
<1> QED
  BY <1>6, <1>7, <1>8, <1>9, <1>10, <1>11 DEF TimeoutWorker, Worker

LEMMA FreshStep == IInv /\ FreshInv /\ [Next]_vars => FreshInv'
<1> SUFFICES ASSUME IInv, FreshInv, [Next]_vars PROVE FreshInv'
  OBVIOUS
<1>1. CASE UNCHANGED vars
  BY <1>1, FreshIfFewer DEF vars, tableVars, pingVars, historyVars
<1>2. ASSUME NEW v \in Users, NEW c \in Users, NEW h \in Hosts, NEW code,
             Accept(v, c, h, code)
      PROVE  FreshInv'
  <2>1. UNCHANGED <<slots, cap, size, workerVars, upc, pinger, pit, pend, fresh, requests>>
    BY <1>2 DEF Accept, pingVars
  <2>2. \A u \in Users : awaiting'[u] = awaiting[u] \/ awaiting[u] # NoRequest
    BY <1>2, Block DEF Accept, exists
  <2> QED BY <2>1, <2>2, FreshIfFewer
<1>3. ASSUME NEW id, NEW code, DestroyAndAnswer(id, code) PROVE FreshInv'
  <2>1. UNCHANGED <<slots, cap, size, workerVars, upc, pinger, pit, pend, fresh, requests>>
    BY <1>3 DEF DestroyAndAnswer, pingVars, historyVars
  <2>2. \A u \in Users : awaiting'[u] = awaiting[u] \/ awaiting'[u] = NoRequest
    <3>1. awaiting' = awaiting \/ destroy(id)
      BY <1>3 DEF DestroyAndAnswer
    <3> QED BY <3>1, Block DEF destroy
  <2> QED BY <2>1, <2>2, FreshIfFewer
<1>4. CASE Udp
  <2>1. ASSUME NEW u \in Users, NEW code, Refused(u, code) \/ PingNothing(u)
        PROVE  FreshInv'
    BY <1>1, <2>1 DEF Refused, PingNothing
  <2> QED BY <1>2, <1>3, <1>4, <2>1, ConnectFresh, PingFresh DEF Udp, Hangup, Reject
<1>5. CASE Tcp
  BY <1>5, FreshIfFewer DEF Tcp, Login, Exit, tableVars, pingVars, historyVars
<1>6. CASE TimeoutWorker
  BY <1>6, WorkerFresh
<1> QED BY <1>1, <1>4, <1>5, <1>6 DEF Next

LEMMA InitFresh == Init => FreshInv
<1> SUFFICES ASSUME Init PROVE FreshInv
  OBVIOUS
<1>1. /\ size = 0 /\ fresh = {} /\ requests = [u \in Users |-> 0] /\ wpc = "sleep"
      /\ awaiting = [u \in Users |-> NoRequest]
  BY DEF Init, TableInit
<1> QED BY <1>1 DEF FreshInv, OnePair, AsleepInv, WalkingInv, Once

\* What a walk over its own memory destroys.
FirstSurvives ==
  \A u \in fresh :
    WorkerDestroy /\ ~ dangling /\ requests[u] <= 1 => (exists(u) => exists(u)')

LEMMA FirstSurvivesHere == IInv /\ FreshInv => FirstSurvives
<1> SUFFICES ASSUME IInv, FreshInv, NEW u \in fresh, WorkerDestroy, ~ dangling,
                    requests[u] <= 1, exists(u)
             PROVE  exists(u)'
  BY DEF FirstSurvives
<1>1. u \in Users /\ Once(u)
  BY Block DEF Once
<1>2. wpc = "destroy"
  BY DEF WorkerDestroy
<1>3. slots[it].id # u
  BY <1>1, <1>2 DEF FreshInv, WalkingInv
<1>4. awaiting' = awaiting \/ destroy(slots[it].id)
  BY DEF WorkerDestroy, SeenId
<1>5. awaiting'[u] = awaiting[u]
  BY <1>1, <1>3, <1>4, Block DEF destroy
<1> QED BY <1>1, <1>5 DEF exists

\* PingedSurvives for the first request of every user, whatever the other users
\* do and however often they call: CONNECT or PING keeps it through the next walk.
FirstRequestSurvives ==
  [][\A u \in fresh :
       WorkerDestroy /\ ~ dangling /\ requests[u] <= 1 => (exists(u) => exists(u)')]_vars

THEOREM FirstRequestIsKept == Spec => FirstRequestSurvives
<1>1. IInv /\ FreshInv /\ [Next]_vars => [FirstSurvives]_vars
  BY FirstSurvivesHere
<1>2. IInv /\ FreshInv /\ [Next]_vars =>
        [\A u \in fresh :
           WorkerDestroy /\ ~ dangling /\ requests[u] <= 1
             => (exists(u) => exists(u)')]_vars
  BY <1>1 DEF FirstSurvives
<1> QED
  BY <1>2, InitIInv, StepIInv, InitFresh, FreshStep, PTL DEF Spec, FirstRequestSurvives

\* Where nobody calls twice, a request that is pinged survives.  The assumption
\* is needed: destroy leaves the timeout of a first request behind.
THEOREM PingedIsKept ==
  ASSUME \A u \in Users : MaxRequests[u] <= 1
  PROVE  Spec => PingedSurvives
<1> DEFINE Few == \A u \in Users : requests[u] <= 1
           Survives == \A u \in fresh :
                         WorkerDestroy /\ ~ dangling => (exists(u) => exists(u)')
<1>1. Init => Few
  <2> SUFFICES ASSUME Init PROVE Few
    OBVIOUS
  <2>1. requests = [u \in Users |-> 0]
    BY Zenon DEF Init
  <2>2. \A u \in Users : requests[u] = 0
    BY <2>1
  <2> QED BY <2>2, 0 <= 1
<1>2. IInv /\ Few /\ [Next]_vars => Few'
  <2> SUFFICES ASSUME IInv, Few, [Next]_vars PROVE Few'
    OBVIOUS
  <2>1. requests \in [Users -> Nat] /\ \A u \in Users : MaxRequests[u] \in Nat
    BY Block, MaxRequestsAssumption
  <2>2. CASE \E u, c \in Users, h \in Hosts, code \in {200, 306} : Connect(u, c, h, code)
    <3>1. PICK u \in Users : \/ requests' = requests
                             \/ /\ requests[u] < MaxRequests[u]
                                /\ requests' = [requests EXCEPT ![u] = @ + 1]
      BY <2>2 DEF Connect, historyVars
    <3> QED BY <2>1, <3>1
  <2>3. CASE requests' = requests
    BY <2>3
  <2>4. \/ \E u, c \in Users, h \in Hosts, code \in {200, 306} : Connect(u, c, h, code)
        \/ requests' = requests
    <3>1. CASE UNCHANGED vars \/ TimeoutWorker \/ Tcp
      BY <3>1 DEF vars, historyVars, TimeoutWorker, Tcp, Login, Exit
    <3>2. ASSUME NEW u, NEW code, Refused(u, code) \/ PingNothing(u) \/ PingGet(u)
          PROVE  requests' = requests
      BY <3>2 DEF Refused, PingNothing, PingGet, vars, historyVars
    <3>3. ASSUME NEW v, NEW c, NEW h, NEW code,
                 Accept(v, c, h, code) \/ Hangup(v, code) \/ Reject(v, c, code)
          PROVE  requests' = requests
      BY <3>3 DEF Accept, Hangup, Reject, DestroyAndAnswer, historyVars
    <3>4. PingStep => requests' = requests
      BY DEF PingStep, PingSlot, PingAnswer, historyVars
    <3>5. Udp => \/ \E u, c \in Users, h \in Hosts, code \in {200, 306} : Connect(u, c, h, code)
                 \/ requests' = requests
      BY <3>2, <3>3, <3>4 DEF Udp
    <3> QED BY <3>1, <3>5 DEF Next
  <2> QED BY <2>2, <2>3, <2>4
<1>3. IInv /\ Few /\ FreshInv /\ [Next]_vars => [Survives]_vars
  <2> SUFFICES ASSUME IInv, Few, FreshInv PROVE Survives
    OBVIOUS
  <2> QED BY FirstSurvivesHere, Block DEF FirstSurvives
<1>4. PingedSurvives <=> [][Survives]_vars
  BY DEF PingedSurvives
<1> HIDE DEF Few, Survives
<1> QED
  BY <1>1, <1>2, <1>3, <1>4, InitIInv, StepIInv, InitFresh, FreshStep, PTL DEF Spec
=============================================================================
