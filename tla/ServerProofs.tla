---------------------------- MODULE ServerProofs ----------------------------
(***************************************************************************)
(* Proofs about the server's TCP thread, for any number of clients.        *)
(*                                                                         *)
(* Sessions: when no two clients share a public address and every user has *)
(* a client of its own, nobody's session is ended by somebody else's       *)
(* connection, for any number of users, tokens and restarts, and whichever *)
(* transactions throw.                                                     *)
(*                                                                         *)
(* ConnectionPoll: the poll is compact whenever the main loop reads it,    *)
(* and it implements Connections, for any number of slots and descriptors. *)
(***************************************************************************)
EXTENDS Sessions, ConnectionPoll, Sequences, TLAPS

-----------------------------------------------------------------------------
(* Sessions.                                                               *)

\* Every client behind an address of its own.
HostsApart == \A c, d \in Clients : HostOf[c] = HostOf[d] => c = d

\* No two clients know the password of the same user.
PasswordsApart ==
  \A c, d \in Clients : LoginAs[c] \cap LoginAs[d] # {} => c = d

IInv == TypeOK /\ SessionInv

LEMMA TokenUserType ==
  ASSUME TypeOK, NEW t
  PROVE  TokenUser(t) \in Users \cup {NoUser}
BY DEF TypeOK, TokenUser

LEMMA InitInv == Init => IInv
<1> SUFFICES ASSUME Init PROVE IInv
  OBVIOUS
<1> USE SetsAssumption, BoundsAssumption DEF Init
<1>1. registered \in SUBSET Users
  OBVIOUS
<1>2. TypeOK
  <2>1. online \in [Users -> BOOLEAN] /\ address \in [Users -> Hosts \cup {NoHost}]
    OBVIOUS
  <2>2. owner \in [Tokens -> Users \cup {NoUser}] /\ via \in [Tokens -> Clients]
    OBVIOUS
  <2>3. /\ conn \in [Clients -> {"closed", "open", "broken"}]
        /\ held \in [Clients -> Tokens \cup {NoToken}]
    OBVIOUS
  <2>4. issued \in 0..MaxLogins /\ restarts \in Nat
    OBVIOUS
  <2> QED BY <1>1, <2>1, <2>2, <2>3, <2>4 DEF TypeOK
<1>3. SessionInv
  BY DEF SessionInv, LoginInv
<1> QED BY <1>2, <1>3 DEF IInv

\* Steps that change neither the tables nor what the TCP thread works on.
LEMMA QuietStep ==
  ASSUME IInv, UNCHANGED <<registered, online, address, owner, client, user,
                           token, issued, via>>,
         \/ tpc' = tpc
         \/ tpc' \notin {"search", "add_token", "update", "create", "logoff",
                         "remove_tokens"}
  PROVE  SessionInv'
BY DEF IInv, SessionInv, LoginInv, TokenUser

LEMMA StepType == ASSUME TypeOK, LoginInv, [Next]_vars PROVE TypeOK'
<1> USE SetsAssumption, BoundsAssumption
<1>1. CASE UNCHANGED vars
  BY <1>1 DEF vars, dbVars, tcpVars, udpVars, countVars, m_pgVars, TypeOK
<1>2. ASSUME NEW c \in Clients, Connect(c) \/ Break(c) PROVE TypeOK'
  BY <1>2 DEF Connect, Break, dbVars, tcpVars, udpVars, countVars, m_pgVars, TypeOK
<1>3. ASSUME NEW c \in Clients, NEW u \in LoginAs[c],
             ReceiveLogin(c, u) \/ ReceiveCreate(c, u) PROVE TypeOK'
  <2>1. u \in Users
    OBVIOUS
  <2> QED BY <1>3, <2>1 DEF ReceiveLogin, ReceiveCreate, Receive, dbVars,
             udpVars, countVars, m_pgVars, TypeOK, TcpOps, NoToken
<1>4. ASSUME NEW c \in Clients, ReceiveCommand(c) \/ ReceiveFailure(c)
      PROVE TypeOK'
  BY <1>4 DEF ReceiveCommand, ReceiveFailure, Receive, dbVars, udpVars,
     countVars, m_pgVars, TypeOK, TcpOps, NoToken
<1>5. ASSUME NEW c \in Clients, NEW t \in {NoToken, held[c]}, ReceiveExit(c, t)
      PROVE TypeOK'
  BY <1>5 DEF ReceiveExit, Receive, dbVars, udpVars, countVars, m_pgVars, TypeOK,
     TcpOps, NoToken
<1>6. ASSUME TcpBegin \/ LoginRefuse \/ LoginSearch \/ TcpAdmit \/ TcpLookup
      PROVE TypeOK'
  BY <1>6 DEF TcpBegin, LoginRefuse, LoginSearch, TcpAdmit, TcpLookup, Begin,
     Query, dbVars, tcpVars, udpVars, countVars, TypeOK, TcpOps
<1>7. ASSUME AddToken PROVE TypeOK'
  <2>1. issued + 1 \in Tokens /\ user \in Users \cup {NoUser}
    BY <1>7 DEF AddToken, TypeOK, Tokens
  <2>2. issued' \in 0..MaxLogins
    BY <1>7 DEF AddToken, TypeOK
  <2>3. owner' \in [Tokens -> Users \cup {NoUser}]
    BY <1>7, <2>1 DEF AddToken, TypeOK
  <2>4. granted' \in Tokens \cup {NoToken} /\ via' \in [Tokens -> Clients]
    BY <1>7, <2>1 DEF AddToken, TypeOK
  <2>5. transaction' \in {"none", "tcp", "udp"} /\ calm' \in BOOLEAN
    BY <1>7 DEF AddToken, Query, TypeOK
  <2> QED BY <1>7, <2>2, <2>3, <2>4, <2>5 DEF AddToken, udpVars, TypeOK, TcpOps
<1>8. ASSUME UpdateUser \/ CreateUser PROVE TypeOK'
  <2>1. HostOf[client] \in Hosts
    BY DEF TypeOK, Hosts
  <2>2. CASE UpdateUser
    BY <2>1, <2>2 DEF UpdateUser, Query, udpVars, countVars, TypeOK, TcpOps
  <2>3. CASE CreateUser
    <3>1. LoginAs[client] \subseteq Users /\ user \in LoginAs[client]
      BY <2>3 DEF CreateUser, LoginInv, TypeOK
    <3>2. registered' \in SUBSET Users
      <4>1. registered' = registered \cup {user} \/ registered' = registered
        BY <2>3 DEF CreateUser
      <4> QED BY <3>1, <4>1 DEF TypeOK
    <3> QED
      BY <2>1, <2>3, <3>2 DEF CreateUser, Query, udpVars, countVars, TypeOK,
         TcpOps
  <2> QED BY <1>8, <2>2, <2>3
<1>9. ASSUME TcpRefuse PROVE TypeOK'
  BY <1>9 DEF TcpRefuse, Query, dbVars, udpVars, countVars, TypeOK, TcpOps
<1>10. ASSUME ExitToken PROVE TypeOK'
  BY <1>10, TokenUserType DEF ExitToken, Query, dbVars, udpVars, countVars,
     TypeOK, TcpOps
<1>11. ASSUME ExitAddress PROVE TypeOK'
  <2>1. user' \in Users \cup {NoUser}
    BY <1>11 DEF ExitAddress, TypeOK
  <2>2. m_exit' \in BOOLEAN /\ conn' \in [Clients -> {"closed", "open", "broken"}]
    BY <1>11 DEF ExitAddress, ExitDone, TypeOK
  <2>3. tpc' \in {"idle", "respond", "logoff"}
    BY <1>11 DEF ExitAddress, ExitDone
  <2> QED BY <1>11, <2>1, <2>2, <2>3 DEF ExitAddress, ExitDone, Query, dbVars, udpVars, countVars,
     TypeOK, TcpOps
<1>12. ASSUME Logoff \/ RemoveTokens PROVE TypeOK'
  <2>1. CASE Logoff
    BY <2>1 DEF Logoff, Query, udpVars, countVars, TypeOK, TcpOps
  <2>2. CASE RemoveTokens
    <3>1. owner' \in [Tokens -> Users \cup {NoUser}]
      BY <2>2 DEF RemoveTokens, TypeOK
    <3>2. m_exit' \in BOOLEAN
            /\ conn' \in [Clients -> {"closed", "open", "broken"}]
      BY <2>2 DEF RemoveTokens, ExitDone, TypeOK
    <3>3. tpc' \in {"idle", "respond"}
      BY <2>2 DEF RemoveTokens, ExitDone
    <3> QED BY <2>2, <3>1, <3>2, <3>3 DEF RemoveTokens, Query, udpVars,
               countVars, TypeOK, TcpOps
  <2> QED BY <1>12, <2>1, <2>2
<1>13. ASSUME Respond \/ RespondFails PROVE TypeOK'
  BY <1>13 DEF Respond, RespondFails, dbVars, udpVars, countVars, m_pgVars, TypeOK,
     TcpOps
<1>14. ASSUME Udp PROVE TypeOK'
  <2>1. ASSUME NEW c \in UdpClients, UdpReceive(c) PROVE TypeOK'
    <3>1. c \in Clients
      OBVIOUS
    <3> QED BY <2>1, <3>1 DEF UdpReceive, dbVars, tcpVars, countVars, m_pgVars, TypeOK
  <2>2. ASSUME UdpBegin \/ UdpRefuse \/ UdpAdmit PROVE TypeOK'
    BY <2>2 DEF UdpBegin, UdpRefuse, UdpAdmit, Begin, Query, dbVars,
       tcpVars, udpVars, countVars, TypeOK
  <2> QED BY <1>14, <2>1, <2>2 DEF Udp
<1>15. ASSUME Restart PROVE TypeOK'
  <2>1. restarts' \in Nat
    BY <1>15 DEF Restart, TypeOK
  <2>2. conn' \in [Clients -> {"closed", "open", "broken"}]
    BY <1>15 DEF Restart
  <2> QED BY <1>15, <2>1, <2>2 DEF Restart, dbVars, TypeOK
<1> QED BY <1>1, <1>2, <1>3, <1>4, <1>5, <1>6, <1>7, <1>8, <1>9, <1>10, <1>11,
           <1>12, <1>13, <1>14, <1>15 DEF Next, Tcp

\* LOGIN and CREATE keep the user they name until they have written it.
LEMMA StepLogin == ASSUME TypeOK, LoginInv, [Next]_vars PROVE LoginInv'
<1> USE SetsAssumption, BoundsAssumption
<1>1. CASE UNCHANGED <<tpc, user, client>>
  BY <1>1 DEF LoginInv
<1>2. CASE tpc' \notin {"search", "add_token", "update", "create"}
  BY <1>2 DEF LoginInv
<1>3. ASSUME NEW c \in Clients, NEW u \in LoginAs[c],
             ReceiveLogin(c, u) \/ ReceiveCreate(c, u) PROVE LoginInv'
  BY <1>3 DEF ReceiveLogin, ReceiveCreate, Receive, LoginInv
<1>4. CASE LoginSearch \/ AddToken
  BY <1>4 DEF LoginSearch, AddToken, LoginInv
<1>5. ASSUME NEW c \in Clients, Connect(c) \/ Break(c)
      PROVE UNCHANGED <<tpc, user, client>>
  BY <1>5 DEF Connect, Break, tcpVars
<1>6. CASE TcpBegin \/ Udp \/ UNCHANGED vars
  BY <1>6, <1>1 DEF TcpBegin, Udp, UdpReceive, UdpBegin, UdpRefuse, UdpAdmit,
     tcpVars, vars
<1>7. ASSUME NEW c \in Clients, \/ ReceiveCommand(c) \/ ReceiveFailure(c)
                               \/ \E t \in {NoToken, held[c]} : ReceiveExit(c, t)
      PROVE  LoginInv'
  BY <1>7, <1>2 DEF ReceiveCommand, ReceiveFailure, ReceiveExit, Receive
<1>8. CASE \/ LoginRefuse \/ UpdateUser \/ CreateUser
           \/ TcpRefuse \/ TcpAdmit \/ TcpLookup \/ ExitToken
  BY <1>8, <1>2 DEF LoginRefuse, UpdateUser, CreateUser, TcpRefuse, TcpAdmit,
     TcpLookup, ExitToken
<1>9. CASE ExitAddress \/ Logoff \/ RemoveTokens
  BY <1>9, <1>2 DEF ExitAddress, Logoff, RemoveTokens, ExitDone
<1>10. CASE Respond \/ RespondFails \/ Restart
  BY <1>10, <1>2 DEF Respond, RespondFails, Restart
<1> QED BY <1>1, <1>3, <1>4, <1>5, <1>6, <1>7, <1>8, <1>9, <1>10 DEF Next, Tcp

\* Type correctness, for every set of users, clients and addresses.
THEOREM TypeCorrect == Spec => []TypeOK
<1>1. Init => TypeOK /\ LoginInv
  BY InitInv DEF IInv, SessionInv
<1>2. TypeOK /\ LoginInv /\ [Next]_vars => (TypeOK /\ LoginInv)'
  BY StepType, StepLogin
<1> QED BY <1>1, <1>2, PTL DEF Spec

-----------------------------------------------------------------------------
\* The invariant is inductive when addresses are not shared.
LEMMA StepInv ==
  ASSUME HostsApart, IInv, [Next]_vars
  PROVE  SessionInv'
<1> USE SetsAssumption, BoundsAssumption DEF LoginInv
<1>1. CASE UNCHANGED vars
  BY <1>1, QuietStep DEF vars, dbVars, tcpVars, countVars
<1>2. ASSUME NEW c \in Clients, Connect(c) \/ Break(c) PROVE SessionInv'
  BY <1>2, QuietStep DEF Connect, Break, dbVars, tcpVars, countVars
<1>3. ASSUME NEW c \in Clients, NEW u \in LoginAs[c],
             ReceiveLogin(c, u) \/ ReceiveCreate(c, u) PROVE SessionInv'
  BY <1>3 DEF ReceiveLogin, ReceiveCreate, Receive, dbVars, countVars, IInv,
     SessionInv
<1>4. ASSUME NEW c \in Clients, ReceiveCommand(c) \/ ReceiveFailure(c)
      PROVE SessionInv'
  BY <1>4 DEF ReceiveCommand, ReceiveFailure, Receive, dbVars, countVars,
     IInv, SessionInv
<1>5. ASSUME NEW c \in Clients, NEW t \in {NoToken, held[c]}, ReceiveExit(c, t)
      PROVE SessionInv'
  BY <1>5 DEF ReceiveExit, Receive, dbVars, countVars, IInv, SessionInv
<1>6. ASSUME TcpBegin \/ LoginRefuse \/ TcpAdmit \/ TcpLookup
      PROVE SessionInv'
  BY <1>6, QuietStep DEF TcpBegin, LoginRefuse, TcpAdmit, TcpLookup, dbVars,
     tcpVars, countVars
<1>7. ASSUME LoginSearch PROVE SessionInv'
  BY <1>7 DEF LoginSearch, dbVars, countVars, IInv, SessionInv
<1>8. ASSUME AddToken PROVE SessionInv'
  <2>1. user \in LoginAs[client] /\ issued + 1 \in Tokens
    BY <1>8 DEF AddToken, IInv, SessionInv, TypeOK, Tokens
  <2>2. \A t \in Tokens : owner'[t] # NoUser => owner'[t] \in LoginAs[via'[t]]
    <3> SUFFICES ASSUME NEW t \in Tokens, owner'[t] # NoUser
                 PROVE  owner'[t] \in LoginAs[via'[t]]
      OBVIOUS
    <3>1. CASE t = issued + 1
      <4>1. via'[t] = client
        BY <1>8, <3>1 DEF AddToken, IInv, TypeOK
      <4>2. CASE owner' = [owner EXCEPT ![issued + 1] = user]
        BY <2>1, <3>1, <4>1, <4>2 DEF IInv, TypeOK
      <4>3. CASE owner' = owner
        BY <1>8, <2>1, <3>1, <4>1, <4>3 DEF AddToken, Query, IInv, SessionInv,
           TypeOK
      <4> QED BY <1>8, <4>2, <4>3 DEF AddToken
    <3>2. CASE t # issued + 1
      BY <1>8, <3>2 DEF AddToken, IInv, SessionInv, TypeOK
    <3> QED BY <3>1, <3>2
  <2>3. \A t \in Tokens : t > issued' => owner'[t] = NoUser
    BY <1>8, <2>1 DEF AddToken, IInv, SessionInv, TypeOK, Tokens
  <2> QED BY <1>8, <2>1, <2>2, <2>3 DEF AddToken, IInv, SessionInv
<1>9. ASSUME UpdateUser \/ CreateUser PROVE SessionInv'
  <2>1. user \in LoginAs[client] /\ client \in Clients
    BY <1>9 DEF UpdateUser, CreateUser, IInv, SessionInv, TypeOK
  <2>2. \/ UNCHANGED address
        \/ address' = [address EXCEPT ![user] = HostOf[client]]
    BY <1>9 DEF UpdateUser, CreateUser
  <2>3. \A u \in Users : address'[u] # NoHost =>
          \E c \in Clients : u \in LoginAs[c] /\ address'[u] = HostOf[c]
    BY <2>1, <2>2 DEF IInv, SessionInv, TypeOK
  <2> QED BY <1>9, <2>3 DEF UpdateUser, CreateUser, countVars, IInv, SessionInv
<1>10. ASSUME TcpRefuse PROVE SessionInv'
  BY <1>10 DEF TcpRefuse, dbVars, countVars, IInv, SessionInv
<1>11. ASSUME ExitToken PROVE SessionInv'
  <2>1. user' # NoUser => user' = TokenUser(token) /\ user' \in Users
    BY <1>11, TokenUserType DEF ExitToken, IInv
  <2> QED BY <1>11, <2>1 DEF ExitToken, dbVars, countVars, IInv, SessionInv,
             TokenUser
<1>12. ASSUME ExitAddress PROVE SessionInv'
  <2>1. CASE tpc' = "logoff"
    <3>1. PICK u \in registered : IsAddressUser(u, HostOf[client]) /\ user' = u
      BY <1>12, <2>1 DEF ExitAddress, ExitDone
    <3>2. u \in Users /\ address[u] = HostOf[client] /\ client \in Clients
      BY <3>1 DEF IsAddressUser, IInv, TypeOK
    <3>3. PICK c \in Clients : u \in LoginAs[c] /\ HostOf[client] = HostOf[c]
      BY <3>2 DEF IInv, SessionInv
    <3>4. user' \in Users /\ user' \in LoginAs[client]
      BY <3>1, <3>2, <3>3 DEF HostsApart
    <3> QED
      BY <1>12, <2>1, <3>4 DEF ExitAddress, dbVars, countVars, IInv, SessionInv
  <2>2. CASE tpc' # "logoff"
    <3>1. tpc' \in {"idle", "respond"}
      BY <1>12, <2>2 DEF ExitAddress, ExitDone
    <3> QED
      BY <1>12, <3>1 DEF ExitAddress, dbVars, countVars, IInv, SessionInv
  <2> QED BY <2>1, <2>2
<1>13. ASSUME Logoff PROVE SessionInv'
  <2>1. \A u \in Users : address'[u] # NoHost => address'[u] = address[u]
    BY <1>13 DEF Logoff, IInv, TypeOK
  <2> QED BY <1>13, <2>1 DEF Logoff, countVars, IInv, SessionInv, TokenUser
<1>14. ASSUME RemoveTokens PROVE SessionInv'
  <2>1. \A t \in Tokens : owner'[t] # NoUser => owner'[t] = owner[t]
    BY <1>14 DEF RemoveTokens, IInv, TypeOK
  <2>2. tpc' \in {"idle", "respond"}
    BY <1>14 DEF RemoveTokens, ExitDone
  <2> QED BY <1>14, <2>1, <2>2 DEF RemoveTokens, countVars, IInv, SessionInv
<1>15. ASSUME Respond \/ RespondFails PROVE SessionInv'
  BY <1>15, QuietStep DEF Respond, RespondFails, dbVars, countVars
<1>16. ASSUME Udp PROVE SessionInv'
  BY <1>16, QuietStep DEF Udp, UdpReceive, UdpBegin, UdpRefuse, UdpAdmit, dbVars, tcpVars, countVars
<1>17. ASSUME Restart PROVE SessionInv'
  BY <1>17 DEF Restart, dbVars, IInv, SessionInv
<1> QED BY <1>1, <1>2, <1>3, <1>4, <1>5, <1>6, <1>7, <1>8, <1>9, <1>10, <1>11,
           <1>12, <1>13, <1>14, <1>15, <1>16, <1>17 DEF Next, Tcp

-----------------------------------------------------------------------------
\* Only remove_user_token takes tokens away, and it takes those of the user
\* that exit works on.
LEMMA EndingStep ==
  ASSUME IInv, [Next]_vars, NEW u \in Users, LoggedIn(u), ~ LoggedIn(u)'
  PROVE  tpc = "remove_tokens" /\ user = u
<1>1. PICK t \in Tokens : owner[t] = u /\ owner'[t] # u
  BY DEF LoggedIn, TokensOf
<1>2. u # NoUser
  BY SetsAssumption
<1>3. CASE AddToken
  <2>1. t = issued + 1
    BY <1>1, <1>3 DEF AddToken, IInv, TypeOK
  <2>2. owner[t] = NoUser
    BY <2>1 DEF IInv, SessionInv, TypeOK, Tokens
  <2> QED BY <1>1, <1>2, <2>2
<1>4. CASE RemoveTokens
  BY <1>1, <1>4 DEF RemoveTokens
<1>5. CASE ~ AddToken /\ ~ RemoveTokens
  <2>1. UNCHANGED owner
    BY <1>5 DEF Next, Tcp, Connect, Break, ReceiveLogin, ReceiveCreate,
       ReceiveCommand, ReceiveExit, ReceiveFailure, Receive, TcpBegin,
       LoginRefuse, LoginSearch, UpdateUser, CreateUser, TcpRefuse, TcpAdmit,
       TcpLookup, ExitToken, ExitAddress, Logoff, Respond, RespondFails, Udp,
       UdpReceive, UdpBegin, UdpRefuse, UdpAdmit, Restart, vars,
       dbVars
  <2> QED BY <1>1, <2>1
<1> QED BY <1>3, <1>4, <1>5

LEMMA Inductive == ASSUME HostsApart PROVE Spec => []IInv
<1>1. IInv /\ [Next]_vars => IInv'
  BY StepType, StepInv DEF IInv, SessionInv
<1> QED BY InitInv, <1>1, PTL DEF Spec

\* A user's session is ended only by a connection the user logged in over, or
\* by an EXIT with the user's token (UserControllers::exit), as long as every
\* client has its own public address and its own users.
THEOREM SessionsAreApart ==
  ASSUME HostsApart, PasswordsApart PROVE Spec => SessionEndsWithItsOwner
<1>1. ASSUME IInv, [Next]_vars, NEW u \in Users, LoggedIn(u), ~ LoggedIn(u)'
      PROVE  token \in TokensOf(u) \/ \E t \in TokensOf(u) : via[t] = client
  <2>1. tpc = "remove_tokens" /\ user = u
    BY <1>1, EndingStep
  <2>2. u = TokenUser(token) \/ u \in LoginAs[client]
    BY <1>1, <2>1 DEF IInv, SessionInv
  <2>3. PICK t \in Tokens : owner[t] = u
    BY <1>1 DEF LoggedIn, TokensOf
  <2>4. u \in LoginAs[via[t]] /\ via[t] \in Clients /\ client \in Clients
    BY <1>1, <2>3, SetsAssumption DEF IInv, SessionInv, TypeOK
  <2>5. CASE u = TokenUser(token)
    BY <2>5, SetsAssumption DEF TokenUser, TokensOf
  <2>6. CASE u \in LoginAs[client]
    BY <2>3, <2>4, <2>6 DEF PasswordsApart, TokensOf
  <2> QED BY <2>2, <2>5, <2>6
<1>2. IInv /\ [Next]_vars =>
        [\A u \in Users : LoggedIn(u) /\ ~ LoggedIn(u)'
           => token \in TokensOf(u) \/ \E t \in TokensOf(u) : via[t] = client]_vars
  BY <1>1
<1> QED BY Inductive, <1>2, PTL DEF Spec, SessionEndsWithItsOwner

-----------------------------------------------------------------------------
(***************************************************************************)
(* What holds while no transaction has thrown and the server has not been  *)
(* restarted.  Then a client's tokens are its user's, and the row of a     *)
(* user who is logged in has the address the user's client sends from, so  *)
(* that exit finds the user with or without a token.                       *)
(***************************************************************************)

\* A client logs in as one user only.
OneUserEach ==
  \A c \in Clients : \A u, v \in LoginAs[c] : u = v

\* The token the handler reads, the one it answers with and those the clients
\* hold were issued over the client's own connection.
TokensInv ==
  /\ \A c \in Clients : held[c] # NoToken =>
       held[c] <= issued /\ via[held[c]] = c
  /\ tpc # "idle" =>
       /\ token # NoToken => token <= issued /\ via[token] = client
       /\ granted # NoToken => granted <= issued /\ via[granted] = client

\* LOGIN: the connection is still there, the user has a row, and has the token
\* once it is written.
LoginCalmInv ==
  /\ tpc \in {"search", "add_token", "update"} => conn[client] # "closed"
  /\ tpc \in {"add_token", "update"} => user \in registered
  /\ tpc = "update" => LoggedIn(user)

\* The rows of the users who are logged in.  update_user comes after
\* add_user_token and logoff before remove_user_token: between the two the row
\* is not up to date.
RowsInv ==
  /\ \A t \in Tokens : owner[t] # NoUser =>
       /\ owner[t] \in registered
       /\ \/ address[owner[t]] = HostOf[via[t]]
          \/ tpc \in {"update", "remove_tokens"} /\ owner[t] = user
  /\ \A u \in Users : \/ online[u] <=> LoggedIn(u)
                      \/ tpc \in {"update", "remove_tokens"} /\ u = user
  /\ tpc = "remove_tokens" => ~ online[user]

\* The connections of the users who are logged in, and what exit has done by
\* the time it answers.
ConnInv ==
  /\ \A t \in Tokens : owner[t] # NoUser => conn[via[t]] # "closed"
  /\ tpc = "respond" /\ m_exit =>
       \A t \in Tokens : owner[t] # NoUser => via[t] # client
  /\ tpc \in {"search", "add_token", "update", "create", "validate", "lookup"}
       => ~ m_exit

CalmInv == calm => TokensInv /\ LoginCalmInv /\ RowsInv /\ ConnInv

\* A thread that finds the other's transaction open, and a restart, end the
\* calm; nothing brings it back.
LEMMA StillCalm ==
  ASSUME [Next]_vars, calm'
  PROVE  calm
<1>1. \A thread, ok : Query(thread, ok) => calm
  BY DEF Query
<1>2. CASE \E c \in Clients : Connect(c) \/ Break(c)
  BY <1>2 DEF Connect, Break, m_pgVars
<1>3. CASE \E c \in Clients :
             \/ \E u \in LoginAs[c] : ReceiveLogin(c, u) \/ ReceiveCreate(c, u)
             \/ ReceiveCommand(c) \/ ReceiveFailure(c)
             \/ \E t \in {NoToken, held[c]} : ReceiveExit(c, t)
  BY <1>3 DEF ReceiveLogin, ReceiveCreate, ReceiveCommand, ReceiveExit,
              ReceiveFailure, Receive, m_pgVars
<1>4. CASE TcpBegin \/ Respond \/ RespondFails \/ UNCHANGED vars
  BY <1>4 DEF TcpBegin, Begin, Respond, RespondFails, m_pgVars, vars
<1>5. CASE \/ LoginRefuse \/ LoginSearch \/ AddToken \/ UpdateUser
           \/ CreateUser \/ TcpRefuse \/ TcpAdmit \/ TcpLookup
  BY <1>1, <1>5 DEF LoginRefuse, LoginSearch, AddToken, UpdateUser, CreateUser,
                    TcpRefuse, TcpAdmit, TcpLookup
<1>6. CASE ExitToken \/ ExitAddress \/ Logoff \/ RemoveTokens
  BY <1>1, <1>6 DEF ExitToken, ExitAddress, Logoff, RemoveTokens
<1>7. CASE Udp
  BY <1>1, <1>7 DEF Udp, UdpReceive, UdpBegin, UdpRefuse, UdpAdmit, Begin,
                    m_pgVars
<1>8. CASE Restart
  BY <1>8 DEF Restart
<1> QED BY <1>2, <1>3, <1>4, <1>5, <1>6, <1>7, <1>8 DEF Next, Tcp

LEMMA TokensStep ==
  ASSUME TypeOK, TokensInv, [Next]_vars, ~ Restart
  PROVE  TokensInv'
<1>0. /\ issued \in Nat /\ client \in Clients
      /\ held \in [Clients -> Tokens \cup {NoToken}]
      /\ conn \in [Clients -> {"closed", "open", "broken"}]
      /\ token \in Tokens \cup {NoToken} /\ granted \in Tokens \cup {NoToken}
      /\ via \in [Tokens -> Clients]
  BY BoundsAssumption DEF TypeOK
<1>1. CASE AddToken
  <2>1. /\ issued' = issued + 1 /\ via' = [via EXCEPT ![issued + 1] = client]
        /\ granted' \in {issued + 1, NoToken} /\ tpc # "idle"
        /\ issued + 1 \in Tokens
        /\ UNCHANGED <<held, token, client>>
    BY <1>1, <1>0, BoundsAssumption DEF AddToken, TypeOK, Tokens
  <2>2. \A t \in Tokens : t <= issued => t <= issued' /\ via'[t] = via[t]
    BY <1>0, <2>1 DEF Tokens
  <2>3. issued + 1 <= issued' /\ via'[issued + 1] = client
    BY <1>0, <2>1
  <2> QED BY <1>0, <2>1, <2>2, <2>3 DEF TokensInv
<1>2. ASSUME NEW c \in Clients, Connect(c) \/ Break(c) PROVE TokensInv'
  BY <1>2, <1>0 DEF Connect, Break, tcpVars, countVars, TokensInv
<1>3. ASSUME NEW c \in Clients, NEW u \in LoginAs[c],
             ReceiveLogin(c, u) \/ ReceiveCreate(c, u)
      PROVE  TokensInv'
  BY <1>3, <1>0 DEF ReceiveLogin, ReceiveCreate, Receive, countVars, TokensInv
<1>4. ASSUME NEW c \in Clients,
             \/ ReceiveCommand(c) \/ ReceiveFailure(c)
             \/ \E t \in {NoToken, held[c]} : ReceiveExit(c, t)
      PROVE  TokensInv'
  BY <1>4, <1>0 DEF ReceiveCommand, ReceiveFailure, ReceiveExit, Receive,
                    countVars, TokensInv
<1>5. CASE \/ TcpBegin \/ LoginRefuse \/ LoginSearch \/ UpdateUser \/ CreateUser
           \/ TcpRefuse \/ TcpAdmit \/ TcpLookup
  <2>1. /\ UNCHANGED <<held, client, issued, via>> /\ tpc # "idle"
        /\ token' \in {token, NoToken} /\ granted' \in {granted, NoToken}
    BY <1>5 DEF TcpBegin, LoginRefuse, LoginSearch, UpdateUser, CreateUser,
                TcpRefuse, TcpAdmit, TcpLookup, TcpOps, tcpVars, countVars
  <2> QED BY <2>1, <1>0 DEF TokensInv
<1>6. CASE ExitToken \/ ExitAddress \/ Logoff \/ RemoveTokens
  <2>1. /\ UNCHANGED <<held, client, issued, via, token, granted>>
        /\ tpc # "idle"
    BY <1>6 DEF ExitToken, ExitAddress, Logoff, RemoveTokens, countVars
  <2> QED BY <2>1 DEF TokensInv
<1>7. CASE Respond \/ RespondFails
  BY <1>7, <1>0 DEF Respond, RespondFails, countVars, TokensInv
<1>8. CASE Udp \/ UNCHANGED vars
  <2>1. UNCHANGED <<held, tpc, client, issued, via, token, granted>>
    BY <1>8 DEF Udp, UdpReceive, UdpBegin, UdpRefuse, UdpAdmit, tcpVars,
                countVars, vars
  <2> QED BY <2>1 DEF TokensInv
<1> QED BY <1>1, <1>2, <1>3, <1>4, <1>5, <1>6, <1>7, <1>8 DEF Next, Tcp

\* A token that is good was issued over a connection of the one client of its
\* owner, who is the one user of that client.
LEMMA OwnTokens ==
  ASSUME TypeOK, SessionInv, PasswordsApart, OneUserEach,
         NEW c \in Clients, NEW u \in LoginAs[c],
         NEW t \in Tokens, owner[t] # NoUser
  PROVE  via[t] = c <=> owner[t] = u
<1>1. via[t] \in Clients /\ owner[t] \in LoginAs[via[t]]
  BY DEF TypeOK, SessionInv
<1> QED BY <1>1 DEF PasswordsApart, OneUserEach

\* exit logs off the user of the client it serves.
LEMMA ExitsOwnUser ==
  ASSUME TypeOK, SessionInv, TokensInv, tpc \in {"logoff", "remove_tokens"}
  PROVE  user \in LoginAs[client]
<1>1. user \in Users /\ user # NoUser
  BY SetsAssumption DEF TypeOK
<1>2. CASE user = TokenUser(token)
  <2>1. token \in Tokens /\ owner[token] = user
    BY <1>1, <1>2 DEF TokenUser
  <2>2. token # NoToken
    BY <2>1 DEF Tokens, NoToken
  <2>3. via[token] = client
    BY <2>2 DEF TokensInv
  <2> QED BY <1>1, <2>1, <2>3 DEF SessionInv
<1> QED BY <1>2 DEF SessionInv

\* exit without a token finds the user of a client that has a token.
LEMMA AddressFindsUser ==
  ASSUME TypeOK, SessionInv, RowsInv, HostsApart, PasswordsApart, OneUserEach,
         tpc = "exit_address",
         NEW t \in Tokens, owner[t] # NoUser, via[t] = client
  PROVE  ~ IsAddressUser(NoUser, HostOf[client])
<1>1. /\ client \in Clients /\ owner[t] \in registered /\ owner[t] \in Users
      /\ address[owner[t]] = HostOf[client] /\ owner[t] \in LoginAs[client]
  BY DEF TypeOK, SessionInv, RowsInv
<1>2. ASSUME NEW v \in registered, address[v] = HostOf[client]
      PROVE  v = owner[t]
  <2>1. v \in Users /\ address[v] # NoHost
    BY <1>1, <1>2, SetsAssumption DEF TypeOK
  <2>2. PICK c \in Clients : v \in LoginAs[c] /\ address[v] = HostOf[c]
    BY <2>1 DEF SessionInv
  <2>3. c = client
    BY <1>1, <1>2, <2>2 DEF HostsApart
  <2> QED BY <1>1, <2>2, <2>3 DEF OneUserEach
<1>3. \E w \in registered : \A v \in registered :
        address[v] = HostOf[client] <=> v = w
  BY <1>1, <1>2
<1>4. NoUser \notin registered
  BY SetsAssumption DEF TypeOK
<1> QED BY <1>3, <1>4 DEF IsAddressUser

LEMMA LoginCalmStep ==
  ASSUME TypeOK, LoginCalmInv, [Next]_vars, calm'
  PROVE  LoginCalmInv'
<1>q. \A thread : ~ Query(thread, FALSE)
  BY DEF Query
<1>1. CASE tpc' \notin {"search", "add_token", "update"}
  BY <1>1 DEF LoginCalmInv
<1>2. ASSUME NEW c \in Clients, Break(c) PROVE LoginCalmInv'
  BY <1>2 DEF Break, dbVars, tcpVars, LoginCalmInv, TypeOK, LoggedIn, TokensOf
<1>3. ASSUME NEW c \in Clients, NEW u \in LoginAs[c], ReceiveLogin(c, u)
      PROVE  LoginCalmInv'
  BY <1>3 DEF ReceiveLogin, Receive, LoginCalmInv
<1>4. CASE LoginSearch
  BY <1>4 DEF LoginSearch, dbVars, LoginCalmInv
<1>5. CASE AddToken
  <2>1. /\ owner' = [owner EXCEPT ![issued + 1] = user]
        /\ issued + 1 \in Tokens
        /\ tpc = "add_token" /\ tpc' = "update"
        /\ UNCHANGED <<conn, client, user, registered>>
    <3>1. PICK ok \in BOOLEAN :
            /\ Query("tcp", ok)
            /\ owner' = IF ok THEN [owner EXCEPT ![issued + 1] = user] ELSE owner
      BY <1>5 DEF AddToken
    <3>2. ok = TRUE
      BY <1>q, <3>1
    <3>3. issued + 1 \in Tokens
      BY <1>5, BoundsAssumption DEF AddToken, TypeOK, Tokens
    <3> QED BY <1>5, <3>1, <3>2, <3>3 DEF AddToken
  <2>2. owner'[issued + 1] = user
    BY <2>1 DEF TypeOK
  <2> QED BY <2>1, <2>2 DEF LoginCalmInv, LoggedIn, TokensOf
<1>6. CASE TcpBegin \/ Udp \/ UNCHANGED vars
  <2>1. UNCHANGED <<registered, owner, conn, tpc, client, user>>
    BY <1>6 DEF TcpBegin, Udp, UdpReceive, UdpBegin, UdpRefuse, UdpAdmit,
                dbVars, tcpVars, vars
  <2> QED BY <2>1 DEF LoginCalmInv, LoggedIn, TokensOf
<1>7. ASSUME NEW c \in Clients, Connect(c) PROVE LoginCalmInv'
  BY <1>7, <1>1 DEF Connect, tcpVars
<1>8. ASSUME NEW c \in Clients,
             \/ \E u \in LoginAs[c] : ReceiveCreate(c, u)
             \/ ReceiveCommand(c) \/ ReceiveFailure(c)
             \/ \E t \in {NoToken, held[c]} : ReceiveExit(c, t)
      PROVE  LoginCalmInv'
  BY <1>8, <1>1 DEF ReceiveCreate, ReceiveCommand, ReceiveFailure, ReceiveExit,
                    Receive
<1>9. CASE \/ LoginRefuse \/ UpdateUser \/ CreateUser \/ TcpRefuse \/ TcpAdmit
           \/ TcpLookup
  BY <1>9, <1>1 DEF LoginRefuse, UpdateUser, CreateUser, TcpRefuse, TcpAdmit,
                    TcpLookup
<1>10. CASE ExitToken \/ ExitAddress \/ Logoff \/ RemoveTokens
  BY <1>10, <1>1 DEF ExitToken, ExitAddress, Logoff, RemoveTokens, ExitDone
<1>11. CASE Respond \/ RespondFails \/ Restart
  BY <1>11, <1>1 DEF Respond, RespondFails, Restart
<1> QED BY <1>2, <1>3, <1>4, <1>5, <1>6, <1>7, <1>8, <1>9, <1>10, <1>11
           DEF Next, Tcp

LEMMA RowsStep ==
  ASSUME PasswordsApart, OneUserEach, TypeOK, SessionInv,
         TokensInv, LoginCalmInv, RowsInv, [Next]_vars, calm'
  PROVE  RowsInv'
<1>q. \A thread : ~ Query(thread, FALSE)
  BY DEF Query
<1>t. /\ registered \subseteq Users /\ client \in Clients /\ NoUser \notin Users
      /\ online \in [Users -> BOOLEAN]
      /\ address \in [Users -> Hosts \cup {NoHost}]
      /\ owner \in [Tokens -> Users \cup {NoUser}]
      /\ via \in [Tokens -> Clients]
      /\ \A t \in Tokens : owner[t] # NoUser => owner[t] \in Users
  BY SetsAssumption DEF TypeOK
<1>1. CASE \/ UNCHANGED <<registered, online, address, owner, via, tpc, user>>
           \/ /\ UNCHANGED <<registered, online, address, owner, via>>
              /\ tpc \notin {"update", "remove_tokens"}
              /\ tpc' # "remove_tokens"
  BY <1>1, <1>t DEF RowsInv, LoggedIn, TokensOf
<1>2. CASE AddToken
  <2>1. /\ owner' = [owner EXCEPT ![issued + 1] = user]
        /\ via' = [via EXCEPT ![issued + 1] = client]
        /\ issued + 1 \in Tokens
        /\ tpc = "add_token" /\ tpc' = "update"
        /\ UNCHANGED <<user, registered, online, address>>
    <3>1. PICK ok \in BOOLEAN :
            /\ Query("tcp", ok)
            /\ owner' = IF ok THEN [owner EXCEPT ![issued + 1] = user] ELSE owner
      BY <1>2 DEF AddToken
    <3>2. ok = TRUE
      BY <1>q, <3>1
    <3>3. issued + 1 \in Tokens
      BY <1>2, BoundsAssumption DEF AddToken, TypeOK, Tokens
    <3> QED BY <1>2, <3>1, <3>2, <3>3 DEF AddToken
  <2>2. user \in registered /\ owner[issued + 1] = NoUser
    BY <2>1 DEF LoginCalmInv, SessionInv, TypeOK, Tokens
  <2>3. ASSUME NEW t \in Tokens, t # issued + 1
        PROVE  owner'[t] = owner[t] /\ via'[t] = via[t]
    BY <2>1, <2>3, <1>t
  <2>4. owner'[issued + 1] = user
    BY <2>1, <1>t
  <2>5. ASSUME NEW t \in Tokens, owner'[t] # NoUser
        PROVE  /\ owner'[t] \in registered'
               /\ \/ address'[owner'[t]] = HostOf[via'[t]]
                  \/ tpc' \in {"update", "remove_tokens"} /\ owner'[t] = user'
    <3>1. CASE t = issued + 1
      BY <2>1, <2>2, <2>4, <3>1
    <3>2. CASE t # issued + 1
      BY <2>1, <2>3, <2>5, <3>2 DEF RowsInv
    <3> QED BY <3>1, <3>2
  <2>6. ASSUME NEW u \in Users, u # user
        PROVE  /\ online'[u] = online[u]
               /\ LoggedIn(u)' <=> LoggedIn(u)
    <3>1. \A t \in Tokens : owner'[t] = u <=> owner[t] = u
      BY <1>t, <2>2, <2>3, <2>4, <2>6
    <3> QED BY <2>1, <3>1 DEF LoggedIn, TokensOf
  <2> QED BY <2>1, <2>5, <2>6 DEF RowsInv
<1>3. CASE UpdateUser
  <2>1. /\ online' = [online EXCEPT ![user] = TRUE]
        /\ address' = [address EXCEPT ![user] = HostOf[client]]
        /\ tpc = "update" /\ tpc' = "respond"
        /\ UNCHANGED <<registered, owner, via>>
    BY <1>3, <1>q DEF UpdateUser, countVars
  <2>2. user \in Users /\ user \in LoginAs[client] /\ LoggedIn(user)
    BY <2>1, <1>t DEF SessionInv, LoginInv, LoginCalmInv
  <2>3. ASSUME NEW t \in Tokens, owner'[t] # NoUser
        PROVE  /\ owner'[t] \in registered'
               /\ address'[owner'[t]] = HostOf[via'[t]]
    <3>1. CASE owner[t] = user
      <4>1. via[t] = client
        BY <2>1, <2>2, <2>3, <3>1, <1>t, OwnTokens
      <4> QED BY <2>1, <2>2, <2>3, <3>1, <4>1, <1>t DEF RowsInv
    <3>2. CASE owner[t] # user
      BY <2>1, <2>3, <3>2, <1>t DEF RowsInv
    <3> QED BY <3>1, <3>2
  <2>4. ASSUME NEW u \in Users PROVE online'[u] <=> LoggedIn(u)'
    <3>0. LoggedIn(u)' <=> LoggedIn(u)
      BY <2>1 DEF LoggedIn, TokensOf
    <3>1. CASE u = user
      <4>1. online'[u] = TRUE
        BY <2>1, <3>1, <1>t
      <4> QED BY <2>2, <3>0, <3>1, <4>1
    <3>2. CASE u # user
      <4>1. online'[u] = online[u]
        BY <2>1, <3>2, <1>t
      <4>2. online[u] <=> LoggedIn(u)
        BY <3>2 DEF RowsInv
      <4> QED BY <3>0, <4>1, <4>2
    <3> QED BY <3>1, <3>2
  <2> QED BY <2>1, <2>3, <2>4 DEF RowsInv
<1>4. CASE CreateUser
  <2>1. tpc = "create" /\ tpc' = "respond" /\ UNCHANGED <<online, owner, via>>
    BY <1>4 DEF CreateUser, countVars
  <2>2. \/ UNCHANGED <<registered, address>>
        \/ /\ user \notin registered
           /\ registered' = registered \cup {user}
           /\ address' = [address EXCEPT ![user] = HostOf[client]]
    BY <1>4 DEF CreateUser
  <2>3. ASSUME NEW t \in Tokens, owner'[t] # NoUser
        PROVE  /\ owner'[t] \in registered'
               /\ address'[owner'[t]] = HostOf[via'[t]]
    <3>1. owner[t] \in registered /\ address[owner[t]] = HostOf[via[t]]
      BY <2>1, <2>3 DEF RowsInv
    <3> QED BY <2>1, <2>2, <3>1, <1>t
  <2>4. ASSUME NEW u \in Users PROVE online'[u] <=> LoggedIn(u)'
    BY <2>1 DEF LoggedIn, TokensOf, RowsInv
  <2> QED BY <2>1, <2>3, <2>4 DEF RowsInv
<1>5. CASE Logoff
  <2>1. /\ online' = [online EXCEPT ![user] = FALSE]
        /\ address' = [address EXCEPT ![user] = NoHost]
        /\ tpc = "logoff" /\ tpc' = "remove_tokens"
        /\ UNCHANGED <<registered, owner, via, user>>
    BY <1>5, <1>q DEF Logoff, countVars
  <2>2. user \in Users /\ online'[user] = FALSE
    BY <2>1, <1>t DEF TypeOK
  <2>3. ASSUME NEW t \in Tokens, owner'[t] # NoUser
        PROVE  /\ owner'[t] \in registered'
               /\ address'[owner'[t]] = HostOf[via'[t]] \/ owner'[t] = user'
    BY <2>1, <2>3, <1>t DEF RowsInv
  <2>4. ASSUME NEW u \in Users, u # user PROVE online'[u] <=> LoggedIn(u)'
    <3>1. online'[u] = online[u]
      BY <2>1, <2>4, <1>t
    <3>2. online[u] <=> LoggedIn(u)
      BY <2>1 DEF RowsInv
    <3> QED BY <2>1, <3>1, <3>2 DEF LoggedIn, TokensOf
  <2> QED BY <2>1, <2>2, <2>3, <2>4 DEF RowsInv
<1>6. CASE RemoveTokens
  <2>1. /\ owner' = [t \in Tokens |-> IF owner[t] = user THEN NoUser
                                                         ELSE owner[t]]
        /\ tpc = "remove_tokens" /\ tpc' \in {"idle", "respond"}
        /\ UNCHANGED <<registered, online, address, via, user>>
    BY <1>6, <1>q DEF RemoveTokens, ExitDone, countVars
  <2>2. ASSUME NEW t \in Tokens, owner'[t] # NoUser
        PROVE  owner'[t] = owner[t] /\ owner[t] # user
    BY <2>1, <2>2
  <2>3. ASSUME NEW u \in Users PROVE online'[u] <=> LoggedIn(u)'
    <3>1. CASE u = user
      <4>1. ~ LoggedIn(u)'
        BY <2>2, <3>1, <1>t DEF LoggedIn, TokensOf
      <4> QED BY <2>1, <3>1, <4>1 DEF RowsInv
    <3>2. CASE u # user
      <4>1. \A t \in Tokens : owner'[t] = u <=> owner[t] = u
        BY <2>1, <3>2, <1>t
      <4> QED BY <2>1, <3>2, <4>1 DEF RowsInv, LoggedIn, TokensOf
    <3> QED BY <3>1, <3>2
  <2> QED BY <2>1, <2>2, <2>3 DEF RowsInv
<1>7. CASE \/ TcpBegin \/ Udp \/ UNCHANGED vars
           \/ \E c \in Clients : Connect(c) \/ Break(c)
  BY <1>7, <1>1 DEF TcpBegin, Udp, UdpReceive, UdpBegin, UdpRefuse, UdpAdmit,
                    Connect, Break, dbVars, tcpVars, countVars, vars
<1>8. CASE \E c \in Clients :
             \/ \E u \in LoginAs[c] : ReceiveLogin(c, u) \/ ReceiveCreate(c, u)
             \/ ReceiveCommand(c) \/ ReceiveFailure(c)
             \/ \E t \in {NoToken, held[c]} : ReceiveExit(c, t)
  BY <1>8, <1>1 DEF ReceiveLogin, ReceiveCreate, ReceiveCommand, ReceiveExit,
                    ReceiveFailure, Receive, dbVars, countVars
<1>9. CASE \/ LoginRefuse \/ LoginSearch \/ TcpRefuse \/ TcpAdmit \/ TcpLookup
           \/ ExitToken \/ ExitAddress \/ Respond \/ RespondFails
  BY <1>9, <1>1 DEF LoginRefuse, LoginSearch, TcpRefuse, TcpAdmit, TcpLookup,
                    ExitToken, ExitAddress, ExitDone, Respond, RespondFails,
                    dbVars, countVars
<1>10. CASE Restart
  BY <1>10 DEF Restart
<1> QED BY <1>2, <1>3, <1>4, <1>5, <1>6, <1>7, <1>8, <1>9, <1>10 DEF Next, Tcp

LEMMA ConnStep ==
  ASSUME HostsApart, PasswordsApart, OneUserEach, TypeOK, SessionInv,
         TokensInv, LoginCalmInv, RowsInv, ConnInv, [Next]_vars, calm'
  PROVE  ConnInv'
<1>q. \A thread : ~ Query(thread, FALSE)
  BY DEF Query
<1>t. /\ client \in Clients /\ NoUser \notin Users
      /\ owner \in [Tokens -> Users \cup {NoUser}]
      /\ via \in [Tokens -> Clients]
      /\ conn \in [Clients -> {"closed", "open", "broken"}]
  BY SetsAssumption DEF TypeOK
\* Where exit ends, the client has no token left.
<1>d. ASSUME ExitDone, UNCHANGED <<via, failed, client>>,
             \A t \in Tokens : owner'[t] # NoUser =>
               owner'[t] = owner[t] /\ via[t] # client
      PROVE  ConnInv'
  <2>1. ASSUME NEW t \in Tokens, owner'[t] # NoUser
        PROVE  conn'[via'[t]] # "closed"
    BY <1>d, <2>1, <1>t DEF ExitDone, ConnInv
  <2>2. tpc' \in {"idle", "respond"}
    BY <1>d DEF ExitDone
  <2> QED BY <1>d, <2>1, <2>2 DEF ConnInv
<1>1. CASE /\ UNCHANGED <<owner, via, client, m_exit>>
           /\ \A c \in Clients : conn'[c] = "closed" => conn[c] = "closed"
           /\ \/ tpc' = tpc
              \/ tpc' = "respond" /\ ~ m_exit
              \/ /\ tpc' # "respond"
                 /\ tpc' \in {"search", "add_token", "update", "create",
                              "validate", "lookup"} => ~ m_exit
  BY <1>1, <1>t DEF ConnInv
<1>2. CASE AddToken
  <2>1. /\ owner' = [owner EXCEPT ![issued + 1] = user]
        /\ via' = [via EXCEPT ![issued + 1] = client]
        /\ tpc = "add_token" /\ tpc' = "update"
        /\ UNCHANGED <<conn, client, m_exit>>
    <3>1. PICK ok \in BOOLEAN :
            /\ Query("tcp", ok)
            /\ owner' = IF ok THEN [owner EXCEPT ![issued + 1] = user] ELSE owner
      BY <1>2 DEF AddToken
    <3>2. ok = TRUE
      BY <1>q, <3>1
    <3> QED BY <1>2, <3>1, <3>2 DEF AddToken
  <2>2. ASSUME NEW t \in Tokens, owner'[t] # NoUser
        PROVE  conn'[via'[t]] # "closed"
    <3>1. CASE t = issued + 1
      BY <2>1, <3>1, <1>t DEF LoginCalmInv
    <3>2. CASE t # issued + 1
      BY <2>1, <2>2, <3>2, <1>t DEF ConnInv
    <3> QED BY <3>1, <3>2
  <2> QED BY <2>1, <2>2 DEF ConnInv
<1>3. CASE ExitAddress
  <2>1. CASE \E u \in registered : user' = u /\ tpc' = "logoff"
                                    /\ UNCHANGED <<conn, m_exit>>
    BY <1>3, <2>1, <1>1 DEF ExitAddress, dbVars, countVars
  <2>2. CASE /\ \E ok \in BOOLEAN :
                  Query("tcp", ok) /\ (ok => IsAddressUser(NoUser, HostOf[client]))
             /\ ExitDone
    <3>1. IsAddressUser(NoUser, HostOf[client])
      BY <2>2, <1>q
    <3>2. UNCHANGED <<owner, via, failed, client>> /\ tpc = "exit_address"
      BY <1>3 DEF ExitAddress, dbVars, countVars
    <3>3. \A t \in Tokens : owner[t] # NoUser => via[t] # client
      BY <3>1, <3>2, AddressFindsUser
    <3> QED BY <2>2, <3>2, <3>3, <1>d
  <2> QED BY <1>3, <2>1, <2>2 DEF ExitAddress
<1>4. CASE RemoveTokens
  <2>1. /\ owner' = [t \in Tokens |-> IF owner[t] = user THEN NoUser
                                                         ELSE owner[t]]
        /\ tpc = "remove_tokens" /\ ExitDone
        /\ UNCHANGED <<via, failed, client>>
    BY <1>4, <1>q DEF RemoveTokens, countVars
  <2>2. user \in LoginAs[client]
    BY <2>1, ExitsOwnUser
  <2>3. ASSUME NEW t \in Tokens, owner'[t] # NoUser
        PROVE  owner'[t] = owner[t] /\ via[t] # client
    BY <2>1, <2>2, <2>3, <1>t, OwnTokens
  <2> QED BY <2>1, <2>3, <1>d
<1>5. CASE Respond
  <2>1. /\ tpc = "respond" /\ tpc' = "idle"
        /\ UNCHANGED <<owner, via>>
        /\ conn' = IF m_exit THEN [conn EXCEPT ![client] = "closed"] ELSE conn
    BY <1>5 DEF Respond, dbVars, countVars
  <2>2. ASSUME NEW t \in Tokens, owner[t] # NoUser PROVE conn'[via[t]] # "closed"
    BY <2>1, <2>2, <1>t DEF ConnInv
  <2> QED BY <2>1, <2>2 DEF ConnInv
<1>6. CASE RespondFails
  <2>1. /\ tpc = "respond" /\ tpc' = "exit_token"
        /\ UNCHANGED <<owner, via>>
        /\ conn' = IF m_exit THEN [conn EXCEPT ![client] = "closed"] ELSE conn
    BY <1>6 DEF RespondFails, dbVars, countVars
  <2>2. ASSUME NEW t \in Tokens, owner[t] # NoUser PROVE conn'[via[t]] # "closed"
    BY <2>1, <2>2, <1>t DEF ConnInv
  <2> QED BY <2>1, <2>2 DEF ConnInv
<1>7. CASE \/ TcpBegin \/ Udp \/ UNCHANGED vars
  BY <1>7, <1>1 DEF TcpBegin, Udp, UdpReceive, UdpBegin, UdpRefuse, UdpAdmit,
                    dbVars, tcpVars, countVars, vars
<1>8. ASSUME NEW c \in Clients, Connect(c) \/ Break(c) PROVE ConnInv'
  <2>1. \A d \in Clients : conn'[d] = "closed" => conn[d] = "closed"
    BY <1>8, <1>t DEF Connect, Break
  <2> QED BY <1>8, <2>1, <1>1 DEF Connect, Break, dbVars, tcpVars, countVars
<1>9. CASE \E c \in Clients :
             \/ \E u \in LoginAs[c] : ReceiveLogin(c, u) \/ ReceiveCreate(c, u)
             \/ ReceiveCommand(c) \/ ReceiveFailure(c)
             \/ \E t \in {NoToken, held[c]} : ReceiveExit(c, t)
  <2>1. /\ UNCHANGED <<owner, via, conn>> /\ m_exit' = FALSE
        /\ tpc' \in {"search", "create", "validate", "exit_token"}
    BY <1>9 DEF ReceiveLogin, ReceiveCreate, ReceiveCommand, ReceiveExit,
                ReceiveFailure, Receive, dbVars, countVars
  <2> QED BY <2>1 DEF ConnInv
<1>10. CASE \/ LoginRefuse \/ LoginSearch \/ UpdateUser \/ CreateUser
            \/ TcpRefuse \/ TcpAdmit \/ TcpLookup
  <2>1. /\ UNCHANGED <<owner, via, conn, client, m_exit>>
        /\ tpc \in {"search", "add_token", "update", "create", "validate",
                    "lookup"}
    BY <1>10 DEF LoginRefuse, LoginSearch, UpdateUser, CreateUser, TcpRefuse,
                 TcpAdmit, TcpLookup, dbVars, countVars
  <2> QED BY <2>1 DEF ConnInv
<1>11. CASE ExitToken \/ Logoff
  BY <1>11, <1>1 DEF ExitToken, Logoff, dbVars, countVars
<1>12. CASE Restart
  BY <1>12 DEF Restart
<1> QED BY <1>2, <1>3, <1>4, <1>5, <1>6, <1>7, <1>8, <1>9, <1>10, <1>11, <1>12
           DEF Next, Tcp

LEMMA CalmInductive ==
  ASSUME HostsApart, PasswordsApart, OneUserEach
  PROVE  Spec => [](IInv /\ CalmInv)
<1>1. Init => CalmInv
  <2> SUFFICES ASSUME Init PROVE CalmInv
    OBVIOUS
  <2>1. TokensInv
    BY DEF Init, TokensInv
  <2>2. LoginCalmInv /\ ConnInv
    BY DEF Init, LoginCalmInv, ConnInv
  <2>3. RowsInv
    BY SetsAssumption DEF Init, RowsInv, LoggedIn, TokensOf
  <2> QED BY <2>1, <2>2, <2>3 DEF CalmInv
<1>2. IInv /\ CalmInv /\ [Next]_vars => CalmInv'
  <2> SUFFICES ASSUME IInv, CalmInv, [Next]_vars, calm'
               PROVE  (TokensInv /\ LoginCalmInv /\ RowsInv /\ ConnInv)'
    BY DEF CalmInv
  <2>1. /\ TypeOK /\ SessionInv
        /\ TokensInv /\ LoginCalmInv /\ RowsInv /\ ConnInv
    BY StillCalm DEF IInv, CalmInv
  <2>2. ~ Restart
    BY DEF Restart
  <2> QED BY <2>1, <2>2, TokensStep, LoginCalmStep, RowsStep, ConnStep
<1> QED BY Inductive, <1>1, <1>2, PTL DEF Spec

\* Once the server has closed the connection a token was issued over, the token
\* is no longer good (UserControllers::exit, with or without the token), for any
\* number of clients that have an address and a user of their own each.
THEOREM NoGhosts ==
  ASSUME HostsApart, PasswordsApart, OneUserEach
  PROVE  Spec => []NoGhostSession
<1>1. CalmInv => NoGhostSession
  BY DEF CalmInv, ConnInv, NoGhostSession
<1> QED BY CalmInductive, <1>1, PTL

\* Between two requests the column online says who has a token, under the same
\* assumptions.
THEOREM OnlineMeansLoggedIn ==
  ASSUME HostsApart, PasswordsApart, OneUserEach
  PROVE  Spec => []OnlineIsLoggedIn
<1>1. CalmInv => OnlineIsLoggedIn
  BY DEF CalmInv, RowsInv, OnlineIsLoggedIn
<1> QED BY CalmInductive, <1>1, PTL

-----------------------------------------------------------------------------
(* ConnectionPoll.                                                         *)

PollIInv == PollTypeOK /\ PollIsCompact /\ PollInv

LEMMA PollInitInv == PollInit => PollIInv
BY MaxAssumption, NoFdAssumption
   DEF PollInit, PollIInv, PollTypeOK, PollIsCompact, PollInv, Slots

\* The invariant is inductive.
LEMMA PollStepInv == PollIInv /\ [PollNext]_loopVars => PollIInv'
<1> SUFFICES ASSUME PollIInv, [PollNext]_loopVars PROVE PollIInv'
  OBVIOUS
<1> USE MaxAssumption, NoFdAssumption
<1>1. ASSUME NEW f \in Fds, Send(f) \/ SendRest(f) PROVE PollIInv'
  <2>1. /\ UNCHANGED <<pollVars, open, lpc, pos, sock>>
        /\ readable' \in SUBSET open /\ whole' \in SUBSET readable'
    BY <1>1 DEF Send, SendRest, PollIInv, PollTypeOK
  <2>2. PollTypeOK'
    BY <2>1 DEF PollIInv, PollTypeOK, pollVars, Slots
  <2>3. PollIsCompact' /\ PollInv'
    BY <2>1 DEF PollIInv, PollIsCompact, PollInv, pollVars, Slots, InPoll, HoleAt
  <2> QED BY <2>2, <2>3 DEF PollIInv
<1>2. ASSUME NEW f \in Fds, AcceptConnection(f) PROVE PollIInv'
  <2>1. CASE m_poll_index >= m_max
    BY <1>2, <2>1 DEF AcceptConnection, sockets, add_socket, PollIInv, PollTypeOK,
       PollIsCompact, PollInv, pollVars, sockets, Slots
  <2>2. CASE m_poll_index < m_max
    <3>1. /\ m_poll_index \in Slots
          /\ m_poll' = [m_poll EXCEPT ![m_poll_index] = f]
          /\ m_poll_index' = m_poll_index + 1
      BY <1>2, <2>2 DEF AcceptConnection, sockets, add_socket, PollIInv, PollTypeOK, Slots
    <3>2. PollTypeOK'
      BY <1>2, <3>1 DEF AcceptConnection, sockets, PollIInv, PollTypeOK, Slots
    <3>3. PollIsCompact'
      BY <1>2, <3>1 DEF AcceptConnection, sockets, PollIInv, PollTypeOK, PollIsCompact,
         PollInv, Slots
    <3>4. PollInv'
      BY <1>2, <3>1 DEF AcceptConnection, sockets, PollIInv, PollTypeOK, PollInv, Slots
    <3> QED BY <3>2, <3>3, <3>4 DEF PollIInv
  <2> QED BY <2>1, <2>2 DEF PollIInv, PollTypeOK
<1>3. ASSUME NothingToAccept \/ NothingToReceive \/ Select PROVE PollIInv'
  <2>1. PollTypeOK'
    BY <1>3 DEF NothingToAccept, NothingToReceive, Select, PollIInv, PollTypeOK,
       pollVars, sockets, Slots
  <2>2. PollIsCompact'
    BY <1>3 DEF NothingToAccept, NothingToReceive, Select, PollIInv, PollTypeOK,
       PollIsCompact, PollInv, pollVars, sockets, Slots
  <2>3. PollInv'
    BY <1>3 DEF NothingToAccept, NothingToReceive, Select, PollIInv, PollTypeOK,
       PollInv, pollVars, sockets, Slots, InPoll
  <2> QED BY <2>1, <2>2, <2>3 DEF PollIInv
<1>4. ASSUME read_header \/ Serve PROVE PollIInv'
  BY <1>4 DEF read_header, Serve, PollIInv, PollTypeOK, PollIsCompact, PollInv,
              pollVars, sockets, Slots, InPoll
<1>5. ASSUME RemoveSocket PROVE PollIInv'
  <2>1. PICK h \in Slots : m_poll[h] = sock
    BY <1>5 DEF RemoveSocket, sockets, PollIInv, PollInv, InPoll
  <2>2. /\ sock \in Fds
        /\ h < m_poll_index
        /\ \A i \in Slots : m_poll[i] = sock <=> i = h
        /\ \A i \in Slots : m_poll'[i] = IF i = h THEN NoFd ELSE m_poll[i]
    BY <1>5, <2>1 DEF RemoveSocket, sockets, PollIInv, PollTypeOK, PollIsCompact, PollInv, Slots
  <2>3. PollTypeOK'
    BY <1>5 DEF RemoveSocket, sockets, PollIInv, PollTypeOK, Slots
  <2>4. PollIsCompact'
    BY <1>5, <2>2, <2>3 DEF RemoveSocket, sockets, PollIInv, PollTypeOK, PollIsCompact, Slots
  <2>5. HoleAt(h)' /\ h >= pos'
    BY <1>5, <2>1, <2>2 DEF RemoveSocket, sockets, PollIInv, PollTypeOK, PollInv, HoleAt, Slots
  <2>6. PollInv'
    BY <1>5, <2>5 DEF RemoveSocket, sockets, PollIInv, PollTypeOK, PollInv, Slots
  <2> QED BY <2>3, <2>4, <2>6 DEF PollIInv
<1>6. ASSUME reposition_poll PROVE PollIInv'
  <2>1. PICK h \in Slots : HoleAt(h) /\ (h >= pos \/ h = m_poll_index - 1)
    BY <1>6 DEF reposition_poll, sockets, PollIInv, PollInv
  <2>2. pos < m_max /\ pos \in Slots
    BY <1>6 DEF reposition_poll, sockets, PollIInv, PollInv, PollTypeOK, Slots
  <2>3. CASE pos < m_max - 1 /\ pos = h /\ h + 1 < m_poll_index
    <3>1. /\ m_poll' = [m_poll EXCEPT ![h] = m_poll[h + 1], ![h + 1] = NoFd]
          /\ h + 1 \in Slots
          /\ lpc' = "reposition" /\ pos' = h + 1
      BY <1>6, <2>1, <2>3 DEF reposition_poll, sockets, HoleAt, Slots, PollIInv, PollTypeOK
    <3>2. PollTypeOK'
      BY <1>6, <2>2, <3>1 DEF reposition_poll, sockets, PollIInv, PollTypeOK, Slots
    <3>3. PollIsCompact'
      BY <1>6, <3>1 DEF reposition_poll, sockets, PollIInv, PollTypeOK, PollIsCompact, Slots
    <3>4. HoleAt(h + 1)'
      BY <1>6, <2>1, <2>3, <3>1
         DEF reposition_poll, sockets, HoleAt, PollIInv, PollTypeOK, Slots
    <3>5. PollInv'
      BY <1>6, <2>3, <3>1, <3>4 DEF reposition_poll, sockets, PollIInv, PollTypeOK, PollInv, Slots
    <3> QED BY <3>2, <3>3, <3>5 DEF PollIInv
  <2>4. CASE pos < m_max - 1 /\ ~ (pos = h /\ h + 1 < m_poll_index)
    <3>1. UNCHANGED pollVars /\ lpc' = "reposition" /\ pos' = pos + 1
      BY <1>6, <2>1, <2>2, <2>4 DEF reposition_poll, sockets, HoleAt, Slots, PollIInv, PollTypeOK,
         pollVars, sockets
    <3>2. h >= pos' \/ h = m_poll_index - 1
      BY <2>1, <2>4, <3>1 DEF HoleAt, Slots, PollIInv, PollTypeOK
    <3>3. PollTypeOK' /\ PollIsCompact'
      BY <1>6, <2>2, <2>4, <3>1
         DEF reposition_poll, sockets, PollIInv, PollTypeOK,
            PollIsCompact, Slots, pollVars
    <3>4. HoleAt(h)'
      BY <2>1, <3>1 DEF HoleAt, pollVars, sockets
    <3>5. pos' < m_max
      BY <2>2, <2>4, <3>1 DEF Slots
    <3>6. PollInv'
      BY <2>1, <3>1, <3>2, <3>4, <3>5 DEF PollInv, pollVars, sockets
    <3> QED BY <3>3, <3>6 DEF PollIInv
  <2>5. CASE ~ (pos < m_max - 1)
    <3>1. h = m_poll_index - 1
      BY <2>1, <2>2, <2>5 DEF HoleAt, Slots, PollIInv, PollTypeOK
    <3> QED
      BY <1>6, <2>1, <2>5, <3>1 DEF reposition_poll, sockets, PollIInv, PollTypeOK,
         PollIsCompact, PollInv, HoleAt, Slots
  <2> QED BY <2>3, <2>4, <2>5
<1>7. ASSUME CountPollIndex PROVE PollIInv'
  <2>1. PICK n \in 1..m_max : IsFirstHole(n) /\ m_poll_index' = n
    BY <1>7 DEF CountPollIndex
  <2>2. HoleAt(m_poll_index - 1)
    BY <1>7 DEF CountPollIndex, sockets, PollIInv, PollInv
  <2>3. n = m_poll_index - 1
    BY <2>1, <2>2 DEF HoleAt, IsFirstHole, PollIInv, PollTypeOK, Slots
  <2> QED
    BY <1>7, <2>1, <2>2, <2>3 DEF CountPollIndex, sockets, PollIInv, PollTypeOK,
       PollIsCompact, PollInv, HoleAt, Slots
<1>8. CASE UNCHANGED loopVars
  BY <1>8 DEF loopVars, pollVars, sockets, PollIInv, PollTypeOK, PollIsCompact, PollInv, HoleAt,
              InPoll, Slots
<1> QED BY <1>1, <1>2, <1>3, <1>4, <1>5, <1>6, <1>7, <1>8 DEF PollNext, Loop

LEMMA PollInductive == PollSpec => []PollIInv
BY PollInitInv, PollStepInv, PTL DEF PollSpec

\* Whenever the loop reads the poll, its live slots are a compact prefix of
\* distinct, open sockets (reposition_poll, count_poll_index), whatever the
\* number of slots.
THEOREM PollStaysCompact == PollSpec => []PollIsCompact
<1>1. PollIInv => PollIsCompact
  BY DEF PollIInv
<1> QED BY PollInductive, <1>1, PTL

-----------------------------------------------------------------------------
\* The hole that Conns leaves out is the one the invariant speaks of.
LEMMA TheHole ==
  ASSUME PollIInv, NEW h \in Slots, HoleAt(h)
  PROVE  Hole = h
BY MaxAssumption DEF PollIInv, PollTypeOK, HoleAt, Hole, Slots

LEMMA HoleExists ==
  ASSUME PollIInv, lpc \in {"reposition", "count"}
  PROVE  \E h \in Slots : HoleAt(h) /\ Hole = h
<1>1. \E h \in Slots : HoleAt(h)
  <2>1. CASE lpc = "reposition"
    BY <2>1 DEF PollIInv, PollInv
  <2>2. CASE lpc = "count"
    <3>1. HoleAt(m_poll_index - 1)
      BY <2>2 DEF PollIInv, PollInv
    <3>2. m_poll_index - 1 \in Slots
      BY <3>1, MaxAssumption DEF HoleAt, PollIInv, PollTypeOK, Slots
    <3> QED BY <3>1, <3>2
  <2> QED BY <2>1, <2>2
<1> QED BY <1>1, TheHole

LEMMA InitRefines == PollInit => C!ConnectionsInit
BY DEF PollInit, C!ConnectionsInit, Conns

\* A turn of the loop is a step or a stutter of Connections: accepting joins
\* when there is room, clearing the slot leaves, the rest stutters.
LEMMA StepRefines ==
  PollIInv /\ PollIInv' /\ [PollNext]_loopVars => [C!ConnectionsNext]_Conns
<1> SUFFICES ASSUME PollIInv, PollIInv', [PollNext]_loopVars
             PROVE  C!ConnectionsNext \/ UNCHANGED Conns
  OBVIOUS
<1> USE MaxAssumption, NoFdAssumption
<1>1. ASSUME UNCHANGED pollVars,
             lpc \notin {"reposition", "count"},
             lpc' \notin {"reposition", "count"}
      PROVE  UNCHANGED Conns
  BY <1>1 DEF pollVars, sockets, Conns
<1>2. ASSUME NEW f \in Fds, AcceptConnection(f) PROVE
             C!ConnectionsNext \/ UNCHANGED Conns
  <2>1. lpc = "accept" /\ lpc' = "select"
    BY <1>2 DEF AcceptConnection
  <2>2. CASE m_poll_index >= m_max
    BY <1>1, <1>2, <2>1, <2>2 DEF AcceptConnection, sockets, add_socket
  <2>3. CASE m_poll_index < m_max
    <3>1. /\ m_poll_index \in Slots
          /\ m_poll' = [m_poll EXCEPT ![m_poll_index] = f]
          /\ m_poll_index' = m_poll_index + 1
          /\ f \notin open
      BY <1>2, <2>3 DEF AcceptConnection, sockets, add_socket, PollIInv, PollTypeOK, Slots
    <3>2. Conns = [i \in 1..(m_poll_index - 1) |-> m_poll[i]]
      BY <2>1 DEF Conns
    <3>3. Conns' = [i \in 1..m_poll_index |-> m_poll'[i]]
      BY <2>1, <3>1 DEF Conns, PollIInv, PollTypeOK
    <3>4. Conns \in Seq(Fds) /\ Len(Conns) = m_poll_index - 1
      <4>1. \A i \in 1..(m_poll_index - 1) : m_poll[i] \in Fds
        BY <2>1 DEF PollIInv, PollTypeOK, PollInv, Slots
      <4>2. m_poll_index - 1 \in Nat
        BY DEF PollIInv, PollTypeOK
      <4> QED BY <3>2, <4>1, <4>2
    <3>5. Conns' = Append(Conns, f)
      BY <3>1, <3>2, <3>3, <3>4 DEF PollIInv, PollTypeOK, Slots
    <3>6. \A i \in 1..Len(Conns) : Conns[i] # f
      BY <2>1, <3>1, <3>2, <3>4
         DEF PollIInv, PollTypeOK, PollIsCompact, PollInv, Slots
    <3>7. Len(Conns) < m_max - 1
      BY <2>3, <3>4 DEF PollIInv, PollTypeOK
    <3> QED BY <3>5, <3>6, <3>7 DEF C!ConnectionsNext, C!Join
  <2> QED BY <2>2, <2>3 DEF PollIInv, PollTypeOK
<1>3. ASSUME RemoveSocket PROVE C!ConnectionsNext
  <2>1. PICK h \in Slots : m_poll[h] = sock
    BY <1>3 DEF RemoveSocket, sockets, PollIInv, PollInv, InPoll
  <2>2. /\ sock \in Fds
        /\ h \in 1..(m_poll_index - 1)
        /\ \A i \in Slots : m_poll[i] = sock <=> i = h
        /\ m_poll' = [i \in Slots |-> IF i = h THEN NoFd ELSE m_poll[i]]
        /\ m_poll_index' = m_poll_index
        /\ lpc = "remove" /\ lpc' = "reposition"
    BY <1>3, <2>1 DEF RemoveSocket, sockets, PollIInv, PollTypeOK, PollIsCompact, PollInv, Slots
  <2>3. HoleAt(h)'
    BY <2>2 DEF PollIInv, PollTypeOK, PollInv, HoleAt, Slots
  <2>4. Hole' = h
    BY <2>2, <2>3 DEF PollIInv, PollTypeOK, HoleAt, Hole, Slots
  <2>5. Conns = [i \in 1..(m_poll_index - 1) |-> m_poll[i]]
    BY <2>2 DEF Conns
  <2>6. Conns' = [i \in 1..(m_poll_index - 2) |->
                    m_poll'[IF i < h THEN i ELSE i + 1]]
    BY <2>2, <2>4 DEF Conns
  <2>7. Len(Conns) = m_poll_index - 1
    BY <2>5 DEF PollIInv, PollTypeOK
  <2>8. \A i \in 1..(m_poll_index - 2) :
          m_poll'[IF i < h THEN i ELSE i + 1]
            = Conns[IF i < h THEN i ELSE i + 1]
    BY <2>2, <2>5 DEF PollIInv, PollTypeOK, Slots
  <2>9. Conns' = [i \in 1..(Len(Conns) - 1) |->
                    Conns[IF i < h THEN i ELSE i + 1]]
    BY <2>6, <2>7, <2>8 DEF PollIInv, PollTypeOK
  <2> QED BY <2>2, <2>7, <2>9 DEF C!ConnectionsNext, C!Leave
<1>4. ASSUME reposition_poll PROVE UNCHANGED Conns
  <2>1. PICK h \in Slots : HoleAt(h) /\ Hole = h
    BY <1>4, HoleExists DEF reposition_poll
  <2>2. m_poll_index' = m_poll_index /\ lpc = "reposition"
    BY <1>4 DEF reposition_poll
  <2>3. lpc' \in {"reposition", "count"}
    BY <1>4 DEF reposition_poll
  <2>4. PICK g \in Slots : HoleAt(g)' /\ Hole' = g
    <3>1. \E g \in Slots : HoleAt(g)'
      <4>1. CASE lpc' = "reposition"
        BY <4>1 DEF PollIInv, PollInv
      <4>2. CASE lpc' = "count"
        BY <1>4, <2>1, <2>2, <4>2 DEF reposition_poll, sockets, HoleAt
      <4> QED BY <2>3, <4>1, <4>2
    <3>2. PICK g \in Slots : HoleAt(g)'
      BY <3>1
    <3>3. Hole' = g
      BY <2>2, <3>2 DEF PollIInv, PollTypeOK, HoleAt, Hole, Slots
    <3> QED BY <3>2, <3>3
  <2>5. \A i \in 1..(m_poll_index - 2) :
          m_poll'[IF i < g THEN i ELSE i + 1]
            = m_poll[IF i < h THEN i ELSE i + 1]
    BY <1>4, <2>1, <2>2, <2>4
       DEF reposition_poll, sockets, HoleAt, PollIInv, PollTypeOK, PollInv, Slots
  <2> QED BY <2>1, <2>2, <2>3, <2>4, <2>5 DEF Conns
<1>5. ASSUME CountPollIndex PROVE UNCHANGED Conns
  <2>1. PICK n \in 1..m_max : IsFirstHole(n) /\ m_poll_index' = n
    BY <1>5 DEF CountPollIndex
  <2>2. HoleAt(m_poll_index - 1) /\ lpc = "count" /\ lpc' = "accept"
    BY <1>5 DEF CountPollIndex, sockets, PollIInv, PollInv
  <2>3. n = m_poll_index - 1
    BY <2>1, <2>2 DEF HoleAt, IsFirstHole, PollIInv, PollTypeOK, Slots
  <2>4. Hole = m_poll_index - 1
    BY <2>2, TheHole DEF HoleAt, PollIInv, PollTypeOK, Slots
  <2>5. Conns' = [i \in 1..(m_poll_index - 2) |-> m_poll[i]]
    BY <1>5, <2>1, <2>2, <2>3 DEF CountPollIndex, sockets, Conns, PollIInv, PollTypeOK
  <2>6. Conns = [i \in 1..(m_poll_index - 2) |-> m_poll[i]]
    BY <2>2, <2>4 DEF Conns, PollIInv, PollTypeOK
  <2> QED BY <2>5, <2>6
<1>6. ASSUME NEW f \in Fds, Send(f) \/ SendRest(f) PROVE UNCHANGED Conns
  BY <1>6 DEF Send, SendRest, pollVars, sockets, Conns, Hole
<1>7. ASSUME NothingToAccept \/ NothingToReceive \/ Select \/ read_header \/ Serve
      PROVE  UNCHANGED Conns
  <2>1. /\ UNCHANGED pollVars
        /\ lpc \notin {"reposition", "count"} /\ lpc' \notin {"reposition", "count"}
    BY <1>7 DEF NothingToAccept, NothingToReceive, Select, read_header, Serve
  <2> QED BY <1>1, <2>1
<1>8. CASE UNCHANGED loopVars
  BY <1>8 DEF loopVars, pollVars, Conns, Hole
<1> QED BY <1>2, <1>3, <1>4, <1>5, <1>6, <1>7, <1>8 DEF PollNext, Loop

\* The poll, with its single pass over the slots, implements the list of
\* clients that the main loop serves, for any number of slots.
THEOREM PollImplementsConnections == PollSpec => ImplementsConnections
<1>1. PollIInv /\ PollIInv' /\ [PollNext]_loopVars => [C!ConnectionsNext]_Conns
  BY StepRefines
<1> QED
  BY InitRefines, PollInductive, <1>1, PTL
     DEF PollSpec, ImplementsConnections, C!ConnectionsSpec
=============================================================================
