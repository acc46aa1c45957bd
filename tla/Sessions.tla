------------------------------ MODULE Sessions ------------------------------
(***************************************************************************)
(* Who is logged in (src/src/server/user_controllers.cpp, router.cpp,      *)
(* server.cpp, postgres.cpp).                                              *)
(*                                                                         *)
(* The TCP thread serves one request at a time: LOGIN, CREATE, EXIT, any   *)
(* command that needs a token, and the forced exit of a client whose       *)
(* connection failed.  The UDP thread checks the token of the call         *)
(* commands.  A handler is a series of database transactions, each with    *)
(* its own error path.  Both threads use the one connection of the static  *)
(* UserControllers::m_pg without a lock, and a connection carries one      *)
(* transaction at a time: opening a second one throws, the Postgres method *)
(* catches, and its caller sees an empty User or false.  (The chat and the  *)
(* call controllers have connections of their own, that one thread uses.)  *)
(*                                                                         *)
(* The database outlives the server; connections and threads do not.       *)
(***************************************************************************)
EXTENDS Integers

CONSTANTS Users,        \* rows the users table may have
          Registered,   \* those of them it starts with
          Clients,      \* client programs, one TCP connection each
          HostOf,       \* the IP address each of them sends from
          LoginAs,      \* the users each of them knows the password of
          UdpClients,   \* the clients that send call commands
          NoUser,       \* an empty User
          NoHost,       \* NULL
          MaxLogins,    \* bound: LOGINs that get as far as a token
          MaxRestarts   \* bound: restarts of the server

ASSUME SetsAssumption ==
  /\ NoUser \notin Users
  /\ Registered \subseteq Users
  /\ UdpClients \subseteq Clients
  /\ LoginAs \in [Clients -> SUBSET Users]
  /\ \A c \in Clients : HostOf[c] # NoHost
ASSUME BoundsAssumption == MaxLogins \in Nat /\ MaxRestarts \in Nat

Tokens == 1..MaxLogins
NoToken == 0
Hosts == {HostOf[c] : c \in Clients}

VARIABLES registered,  \* the users table: its rows,
          online,      \* and their columns online
          address,     \* and address
          owner,       \* the tokens table: token -> user, NoUser if no row
          transaction, \* the thread that has a transaction open on m_conn
          calm,        \* history: no transaction has thrown, no restart
          conn,        \* the TCP connection of each client
          held,        \* the token each client got last
          tpc,         \* what the TCP thread does next
          client,      \* tcp: whose request it is
          user,        \* tcp: the User the handler works on
          token,       \* tcp: Request::m_token
          granted,     \* tcp: the token LOGIN answers with
          m_exit,      \* tcp: Request::m_exit
          failed,      \* tcp: inside disconnect_client_on_failure
          upc,         \* what the UDP thread does next
          utoken,      \* udp: the token of the datagram
          issued,      \* tokens generated, for MaxLogins
          restarts,    \* for MaxRestarts
          via          \* history: the client each token was issued to

dbVars  == <<registered, online, address, owner>>
m_pgVars == <<transaction, calm>>
tcpVars == <<tpc, client, user, token, granted, m_exit, failed>>
udpVars == <<upc, utoken>>
countVars == <<issued, restarts, via>>
vars == <<dbVars, m_pgVars, conn, held, tcpVars, udpVars, countVars>>

TcpOps == {"search", "add_token", "update", "create", "validate", "lookup",
           "exit_token", "exit_address", "logoff", "remove_tokens"}

TypeOK ==
  /\ registered \in SUBSET Users
  /\ online \in [Users -> BOOLEAN]
  /\ address \in [Users -> Hosts \cup {NoHost}]
  /\ owner \in [Tokens -> Users \cup {NoUser}]
  /\ transaction \in {"none", "tcp", "udp"}
  /\ calm \in BOOLEAN
  /\ conn \in [Clients -> {"closed", "open", "broken"}]
  /\ held \in [Clients -> Tokens \cup {NoToken}]
  /\ tpc \in TcpOps \cup {"idle", "respond"}
  /\ client \in Clients
  /\ user \in Users \cup {NoUser}
  /\ tpc \in {"logoff", "remove_tokens"} => user \in Users
  /\ token \in Tokens \cup {NoToken}
  /\ granted \in Tokens \cup {NoToken}
  /\ m_exit \in BOOLEAN
  /\ failed \in BOOLEAN
  /\ upc \in {"idle", "validate"}
  /\ utoken \in Tokens \cup {NoToken}
  /\ issued \in 0..MaxLogins
  /\ restarts \in Nat
  /\ via \in [Tokens -> Clients]

Init ==
  /\ registered = Registered
  /\ online = [u \in Users |-> FALSE]
  /\ address = [u \in Users |-> NoHost]
  /\ owner = [t \in Tokens |-> NoUser]
  /\ transaction = "none"
  /\ calm = TRUE
  /\ conn = [c \in Clients |-> "closed"]
  /\ held = [c \in Clients |-> NoToken]
  /\ tpc = "idle"
  /\ client \in Clients
  /\ user = NoUser
  /\ token = NoToken
  /\ granted = NoToken
  /\ m_exit = FALSE
  /\ failed = FALSE
  /\ upc = "idle"
  /\ utoken = NoToken
  /\ issued = 0
  /\ restarts = 0
  /\ via = [t \in Tokens |-> client]

-----------------------------------------------------------------------------
(***************************************************************************)
(* The database connection.                                                *)
(***************************************************************************)

\* pqxx::work transaction(m_conn), when no transaction is open.
Begin(thread) ==
  /\ transaction = "none"
  /\ transaction' = thread
  /\ UNCHANGED calm

\* The rest of a Postgres method: its own transaction is committed, or it
\* threw because the other thread's was open.
Query(thread, ok) ==
  IF ok THEN transaction = thread /\ transaction' = "none" /\ UNCHANGED calm
        ELSE /\ transaction \notin {"none", thread}
             /\ calm' = FALSE
             /\ UNCHANGED transaction

\* search_user_by_token.
TokenUser(t) == IF t \in Tokens THEN owner[t] ELSE NoUser

\* search_user_by(address): exec1 wants exactly one row.
IsAddressUser(u, host) ==
  IF \E w \in registered : \A v \in registered : address[v] = host <=> v = w
  THEN u \in registered /\ address[u] = host
  ELSE u = NoUser

-----------------------------------------------------------------------------
(***************************************************************************)
(* Clients and their connections.                                          *)
(***************************************************************************)

\* accept_connection; a client that starts has no token.
Connect(c) ==
  /\ tpc = "idle"
  /\ conn[c] = "closed"
  /\ conn' = [conn EXCEPT ![c] = "open"]
  /\ held' = [held EXCEPT ![c] = NoToken]
  /\ UNCHANGED <<dbVars, m_pgVars, tcpVars, udpVars, countVars>>

\* The client or the network drops the connection.
Break(c) ==
  /\ conn[c] = "open"
  /\ conn' = [conn EXCEPT ![c] = "broken"]
  /\ UNCHANGED <<dbVars, m_pgVars, held, tcpVars, udpVars, countVars>>

\* The loop receives a request of c, or finds its connection broken, and the
\* router calls the handler, whose first query is op.  m_token is set from
\* here: the router stores it before any controller reads it.
Receive(c, op, u, t, failure) ==
  /\ tpc = "idle"
  /\ tpc' = op
  /\ client' = c
  /\ user' = u
  /\ token' = t
  /\ granted' = NoToken
  /\ m_exit' = FALSE
  /\ failed' = failure
  /\ UNCHANGED <<dbVars, m_pgVars, conn, held, udpVars, countVars>>

ReceiveLogin(c, u) == /\ conn[c] = "open" /\ issued < MaxLogins
                      /\ Receive(c, "search", u, NoToken, FALSE)
ReceiveCreate(c, u) == /\ conn[c] = "open"
                       /\ Receive(c, "create", u, NoToken, FALSE)
ReceiveCommand(c) == /\ conn[c] = "open"
                     /\ Receive(c, "validate", NoUser, held[c], FALSE)
ReceiveExit(c, t) == /\ conn[c] = "open"
                     /\ Receive(c, "exit_token", NoUser, t, FALSE)
ReceiveFailure(c) == /\ conn[c] = "broken"
                     /\ Receive(c, "exit_token", NoUser, NoToken, TRUE)

-----------------------------------------------------------------------------
(***************************************************************************)
(* The TCP thread.                                                         *)
(***************************************************************************)
TcpBegin ==
  /\ tpc \in TcpOps
  /\ Begin("tcp")
  /\ UNCHANGED <<dbVars, conn, held, tcpVars, udpVars, countVars>>

\* LOGIN: no such user, a wrong password, or the query threw.
LoginRefuse ==
  /\ tpc = "search"
  /\ \E ok \in BOOLEAN : Query("tcp", ok)
  /\ tpc' = "respond"
  /\ UNCHANGED <<dbVars, conn, held, client, user, token, granted, m_exit,
                 failed, udpVars, countVars>>

LoginSearch ==
  /\ tpc = "search"
  /\ Query("tcp", TRUE)
  /\ user \in registered
  /\ tpc' = "add_token"
  /\ UNCHANGED <<dbVars, conn, held, client, user, token, granted, m_exit,
                 failed, udpVars, countVars>>

\* login_user: generate and add_user_token.
AddToken ==
  /\ tpc = "add_token"
  /\ issued < MaxLogins
  /\ issued' = issued + 1
  /\ via' = [via EXCEPT ![issued + 1] = client]
  /\ \E ok \in BOOLEAN :
       /\ Query("tcp", ok)
       /\ owner' = IF ok THEN [owner EXCEPT ![issued + 1] = user] ELSE owner
       /\ granted' = IF ok THEN issued + 1 ELSE NoToken
  /\ tpc' = "update"
  /\ UNCHANGED <<registered, online, address, conn, held, client, user, token,
                 m_exit, failed, udpVars, restarts>>

\* login_user: update_user is called whatever add_user_token returned; the
\* token is the answer when both went well.
UpdateUser ==
  /\ tpc = "update"
  /\ \/ /\ Query("tcp", TRUE)
        /\ online' = [online EXCEPT ![user] = TRUE]
        /\ address' = [address EXCEPT ![user] = HostOf[client]]
        /\ UNCHANGED granted
     \/ /\ Query("tcp", FALSE)
        /\ granted' = NoToken
        /\ UNCHANGED <<online, address>>
  /\ tpc' = "respond"
  /\ UNCHANGED <<registered, owner, conn, held, client, user, token, m_exit,
                 failed, udpVars, countVars>>

\* CREATE: the row carries the address, and is not online.
CreateUser ==
  /\ tpc = "create"
  /\ \/ /\ Query("tcp", TRUE)
        /\ user \notin registered
        /\ registered' = registered \cup {user}
        /\ address' = [address EXCEPT ![user] = HostOf[client]]
     \/ /\ \E ok \in BOOLEAN : Query("tcp", ok) /\ (ok => user \in registered)
        /\ UNCHANGED <<registered, address>>
  /\ tpc' = "respond"
  /\ UNCHANGED <<online, owner, conn, held, client, user, token, granted,
                 m_exit, failed, udpVars, countVars>>

\* A user command with a token: is_valid_token, and the controller's search.
\* A refused token never reaches m_token.
TcpRefuse ==
  /\ tpc = "validate"
  /\ \E ok \in BOOLEAN : Query("tcp", ok) /\ (ok => TokenUser(token) = NoUser)
  /\ tpc' = "respond"
  /\ token' = NoToken
  /\ UNCHANGED <<dbVars, conn, held, client, user, granted, m_exit, failed,
                 udpVars, countVars>>

TcpAdmit ==
  /\ tpc = "validate"
  /\ Query("tcp", TRUE)
  /\ TokenUser(token) # NoUser
  /\ tpc' = "lookup"
  /\ UNCHANGED <<dbVars, conn, held, client, user, token, granted, m_exit,
                 failed, udpVars, countVars>>

TcpLookup ==
  /\ tpc = "lookup"
  /\ \E ok \in BOOLEAN : Query("tcp", ok)
  /\ tpc' = "respond"
  /\ UNCHANGED <<dbVars, conn, held, client, user, token, granted, m_exit,
                 failed, udpVars, countVars>>

\* Mutant: the empty user is not recognised.
ExitToken_unguarded ==
  /\ tpc = "exit_token"
  /\ \E ok \in BOOLEAN :
       /\ Query("tcp", ok)
       /\ user' = IF ok THEN TokenUser(token) ELSE NoUser
  /\ tpc' = "logoff"
  /\ UNCHANGED <<dbVars, conn, held, client, token, granted, m_exit, failed,
                 udpVars, countVars>>

\* exit: the user of the token.
ExitToken ==
  /\ tpc = "exit_token"
  /\ \E ok \in BOOLEAN :
       /\ Query("tcp", ok)
       /\ user' = IF ok THEN TokenUser(token) ELSE NoUser
  /\ tpc' = IF user' = NoUser THEN "exit_address" ELSE "logoff"
  /\ UNCHANGED <<dbVars, conn, held, client, token, granted, m_exit, failed,
                 udpVars, countVars>>

\* Where exit ends: the router's call answers, and the forced one disconnects
\* the client.
ExitDone ==
  IF failed
  THEN /\ tpc' = "idle"
       /\ conn' = [conn EXCEPT ![client] = "closed"]
       /\ UNCHANGED m_exit
  ELSE /\ tpc' = "respond"
       /\ m_exit' = TRUE
       /\ UNCHANGED conn

\* Mutant: any user with that address will do.
ExitAddress_any ==
  /\ tpc = "exit_address"
  /\ \/ \E u \in registered :
          /\ Query("tcp", TRUE)
          /\ online[u]
          /\ user' = u
          /\ tpc' = "logoff"
          /\ UNCHANGED <<conn, m_exit>>
     \/ /\ \E ok \in BOOLEAN :
             Query("tcp", ok) /\ (ok => \A u \in registered : ~ online[u])
        /\ UNCHANGED user
        /\ ExitDone
  /\ UNCHANGED <<dbVars, held, client, token, granted, failed, udpVars,
                 countVars>>

\* exit: "if no token is passed in look for users IP address".
ExitAddress ==
  /\ tpc = "exit_address"
  /\ \/ \E u \in registered :
          /\ Query("tcp", TRUE)
          /\ IsAddressUser(u, HostOf[client])
          /\ user' = u
          /\ tpc' = "logoff"
          /\ UNCHANGED <<conn, m_exit>>
     \/ /\ \E ok \in BOOLEAN :
             Query("tcp", ok) /\ (ok => IsAddressUser(NoUser, HostOf[client]))
        /\ UNCHANGED user
        /\ ExitDone
  /\ UNCHANGED <<dbVars, held, client, token, granted, failed, udpVars,
                 countVars>>

\* Mutant: the row stays online.
Logoff_stay_online ==
  /\ tpc = "logoff"
  /\ \/ /\ Query("tcp", TRUE)
        /\ address' = [address EXCEPT ![user] = NoHost]
     \/ Query("tcp", FALSE) /\ UNCHANGED address
  /\ tpc' = "remove_tokens"
  /\ UNCHANGED <<registered, online, owner, conn, held, client, user, token,
                 granted, m_exit, failed, udpVars, countVars>>

\* logoff; its result is not looked at.
Logoff ==
  /\ tpc = "logoff"
  /\ \/ /\ Query("tcp", TRUE)
        /\ online' = [online EXCEPT ![user] = FALSE]
        /\ address' = [address EXCEPT ![user] = NoHost]
     \/ Query("tcp", FALSE) /\ UNCHANGED <<online, address>>
  /\ tpc' = "remove_tokens"
  /\ UNCHANGED <<registered, owner, conn, held, client, user, token, granted,
                 m_exit, failed, udpVars, countVars>>

\* Mutant: only the token that was sent is deleted.
RemoveTokens_one ==
  /\ tpc = "remove_tokens"
  /\ \/ /\ Query("tcp", TRUE)
        /\ owner' = [t \in Tokens |-> IF t = token THEN NoUser ELSE owner[t]]
     \/ Query("tcp", FALSE) /\ UNCHANGED owner
  /\ ExitDone
  /\ UNCHANGED <<registered, online, address, held, client, user, token,
                 granted, failed, udpVars, countVars>>

\* remove_user_token: every token of the user; its result is not looked at.
RemoveTokens ==
  /\ tpc = "remove_tokens"
  /\ \/ /\ Query("tcp", TRUE)
        /\ owner' = [t \in Tokens |-> IF owner[t] = user THEN NoUser
                                                         ELSE owner[t]]
     \/ Query("tcp", FALSE) /\ UNCHANGED owner
  /\ ExitDone
  /\ UNCHANGED <<registered, online, address, held, client, user, token,
                 granted, failed, udpVars, countVars>>

\* respond, and disconnect_client_on_request.
Respond ==
  /\ tpc = "respond"
  /\ tpc' = "idle"
  /\ conn' = IF m_exit THEN [conn EXCEPT ![client] = "closed"] ELSE conn
  /\ held' = IF granted # NoToken /\ conn[client] = "open"
             THEN [held EXCEPT ![client] = granted] ELSE held
  /\ UNCHANGED <<dbVars, m_pgVars, client, user, token, granted, m_exit,
                 failed, udpVars, countVars>>

\* respond fails on a broken connection: disconnect_client_on_failure calls
\* exit with the request as it is, its token included.
RespondFails ==
  /\ tpc = "respond"
  /\ conn[client] = "broken"
  /\ conn' = IF m_exit THEN [conn EXCEPT ![client] = "closed"] ELSE conn
  /\ tpc' = "exit_token"
  /\ failed' = TRUE
  /\ UNCHANGED <<dbVars, m_pgVars, held, client, user, token, granted,
                 m_exit, udpVars, countVars>>

Tcp ==
  \/ \E c \in Clients :
       \/ Connect(c)
       \/ \E u \in LoginAs[c] : ReceiveLogin(c, u) \/ ReceiveCreate(c, u)
       \/ ReceiveCommand(c)
       \/ \E t \in {NoToken, held[c]} : ReceiveExit(c, t)
       \/ ReceiveFailure(c)
  \/ TcpBegin
  \/ LoginRefuse \/ LoginSearch \/ AddToken \/ UpdateUser \/ CreateUser
  \/ TcpRefuse \/ TcpAdmit \/ TcpLookup
  \/ ExitToken \/ ExitAddress \/ Logoff \/ RemoveTokens
  \/ Respond \/ RespondFails

-----------------------------------------------------------------------------
(***************************************************************************)
(* The UDP thread, as far as tokens go: the rest is CallControllers.       *)
(***************************************************************************)
UdpReceive(c) ==
  /\ upc = "idle"
  /\ held[c] # NoToken
  /\ upc' = "validate"
  /\ utoken' = held[c]
  /\ UNCHANGED <<dbVars, m_pgVars, conn, held, tcpVars, countVars>>

UdpBegin ==
  /\ upc = "validate"
  /\ Begin("udp")
  /\ UNCHANGED <<dbVars, conn, held, tcpVars, udpVars, countVars>>

\* is_valid_token: 202.
UdpRefuse ==
  /\ upc = "validate"
  /\ \E ok \in BOOLEAN : Query("udp", ok) /\ (ok => TokenUser(utoken) = NoUser)
  /\ upc' = "idle"
  /\ UNCHANGED <<dbVars, conn, held, tcpVars, utoken, countVars>>

\* The command goes to its controller, which works on its own connection.
UdpAdmit ==
  /\ upc = "validate"
  /\ Query("udp", TRUE)
  /\ TokenUser(utoken) # NoUser
  /\ upc' = "idle"
  /\ UNCHANGED <<dbVars, conn, held, tcpVars, utoken, countVars>>

Udp == \/ \E c \in UdpClients : UdpReceive(c)
       \/ UdpBegin \/ UdpRefuse \/ UdpAdmit

-----------------------------------------------------------------------------
\* The server dies and is started again: an open transaction is rolled back,
\* the connections are gone, the tables stay as they are.
Restart ==
  /\ restarts < MaxRestarts
  /\ restarts' = restarts + 1
  /\ transaction' = "none"
  /\ calm' = FALSE
  /\ conn' = [c \in Clients |-> "closed"]
  /\ tpc' = "idle"
  /\ user' = NoUser
  /\ token' = NoToken
  /\ granted' = NoToken
  /\ m_exit' = FALSE
  /\ failed' = FALSE
  /\ upc' = "idle"
  /\ utoken' = NoToken
  /\ UNCHANGED <<dbVars, held, client, issued, via>>

Next == Tcp \/ Udp \/ Restart \/ \E c \in Clients : Break(c)

Spec == Init /\ [][Next]_vars

-----------------------------------------------------------------------------
(***************************************************************************)
(* Properties.                                                             *)
(***************************************************************************)
TokensOf(u) == {t \in Tokens : owner[t] = u}
LoggedIn(u) == TokensOf(u) # {}

\* "The user remains logged in [until] EXIT is called or the connection is
\* broken": a user stops being logged in only while the server is serving a
\* connection that user logged in over, or an EXIT that carries a token of
\* the user, whoever else exits or is cut off.
SessionEndsWithItsOwner ==
  [][\A u \in Users :
       LoggedIn(u) /\ ~ LoggedIn(u)'
         => token \in TokensOf(u) \/ \E t \in TokensOf(u) : via[t] = client]_vars

\* The other half: once the server has closed the connection a token was
\* issued over, the token is no longer good, until a transaction of exit
\* throws or the server dies.
NoGhostSession ==
  calm /\ tpc = "idle" =>
    \A t \in Tokens : owner[t] # NoUser => conn[via[t]] # "closed"

\* "Checks if a user is currently online and logged in": between requests of
\* the TCP thread, the column online, which AVAILABLE reads, says whether the
\* user has a token, through every path of LOGIN and EXIT on which no
\* transaction throws.
OnlineIsLoggedIn ==
  calm /\ tpc = "idle" => \A u \in Users : online[u] <=> LoggedIn(u)

\* The user that LOGIN or CREATE is at work on is one whose password the client
\* knows: what makes TypeOK inductive.
LoginInv == tpc \in {"search", "add_token", "update", "create"} =>
              user \in LoginAs[client]

\* The strengthening of SessionEndsWithItsOwner: what the tables say of a user
\* comes from a client that knows the user's password, and so does the user
\* that exit is about to log off.
SessionInv ==
  /\ \A t \in Tokens : t > issued => owner[t] = NoUser
  /\ \A t \in Tokens : owner[t] # NoUser => owner[t] \in LoginAs[via[t]]
  /\ \A u \in Users : address[u] # NoHost =>
       \E c \in Clients : u \in LoginAs[c] /\ address[u] = HostOf[c]
  /\ LoginInv
  /\ tpc \in {"logoff", "remove_tokens"} =>
       user = TokenUser(token) \/ user \in LoginAs[client]
=============================================================================
