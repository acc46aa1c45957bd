--------------------------- MODULE ConnectionPoll ---------------------------
(***************************************************************************)
(* The server's TCP thread and its poll of client sockets                  *)
(* (src/src/shared/connection/connection_poll.cpp, passive_conn.cpp, and   *)
(* Server::main_loop).                                                     *)
(*                                                                         *)
(* Each turn of the loop accepts at most one connection, looks for the     *)
(* first socket with something to read, serves it, and removes it from the *)
(* poll when it asked to leave or its connection failed.  Clients connect, *)
(* send and go away between any two steps.  A message is read in two       *)
(* halves, and the accepted sockets have no timeout: while the second half *)
(* is on its way the loop waits, for good if it never comes.  Slot 0 of    *)
(* m_poll is always the listening socket and is left out; the loops start  *)
(* at slot 1.                                                              *)
(***************************************************************************)
EXTENDS Integers

CONSTANTS Fds,       \* descriptors the kernel hands out for connections
          NoFd,      \* -1
          m_max      \* MAX_CONNECTIONS, the listening socket included

ASSUME NoFdAssumption == NoFd \notin Fds
ASSUME MaxAssumption == m_max \in Nat /\ m_max >= 2

VARIABLES m_poll,        \* m_poll[i].fd
          m_poll_index,  \* the next slot to fill
          open,          \* accepted sockets that are not closed
          readable,      \* those with a message, or an end of stream, to read
          whole,         \* those of them that have all of it
          lpc,           \* where the loop is
          pos,           \* the i of the for loop it is in
          sock           \* Request::m_socket

pollVars == <<m_poll, m_poll_index>>
sockets  == <<open, readable, whole>>
loopVars == <<pollVars, sockets, lpc, pos, sock>>

Slots == 1..(m_max - 1)

PollTypeOK ==
  /\ m_poll \in [Slots -> Fds \cup {NoFd}]
  /\ m_poll_index \in 1..m_max
  /\ open \in SUBSET Fds
  /\ readable \in SUBSET open
  /\ whole \in SUBSET readable
  /\ lpc \in {"accept", "select", "serve", "body", "remove", "reposition", "count"}
  /\ pos \in 1..m_max
  /\ sock \in Fds \cup {NoFd}

PollInit ==
  /\ m_poll = [i \in Slots |-> NoFd]
  /\ m_poll_index = 1
  /\ open = {}
  /\ readable = {} /\ whole = {}
  /\ lpc = "accept"
  /\ pos = 1
  /\ sock = NoFd

-----------------------------------------------------------------------------
\* A client sends a request, of which all or only the beginning arrives, or
\* closes its end.
Send(f) ==
  /\ f \in open \ readable
  /\ readable' = readable \cup {f}
  /\ whole' \in {whole, whole \cup {f}}
  /\ UNCHANGED <<pollVars, open, lpc, pos, sock>>

\* The rest of the message arrives, or the connection is found to be broken.
SendRest(f) ==
  /\ f \in readable \ whole
  /\ whole' = whole \cup {f}
  /\ UNCHANGED <<pollVars, open, readable, lpc, pos, sock>>

\* add_socket: false, and nothing done, when the poll is full.
add_socket(f) ==
  IF m_poll_index >= m_max
  THEN UNCHANGED pollVars
  ELSE /\ m_poll' = [m_poll EXCEPT ![m_poll_index] = f]
       /\ m_poll_index' = m_poll_index + 1

\* accept_connection, with a client waiting: the kernel picks a descriptor
\* that is not in use.  What add_socket returned is not looked at.
AcceptConnection(f) ==
  /\ lpc = "accept"
  /\ f \notin open
  /\ open' = open \cup {f}
  /\ add_socket(f)
  /\ lpc' = "select"
  /\ pos' = 1
  /\ UNCHANGED <<readable, whole, sock>>

\* accept_awaits timed out, or accept failed.
NothingToAccept ==
  /\ lpc = "accept"
  /\ lpc' = "select"
  /\ pos' = 1
  /\ UNCHANGED <<pollVars, sockets, sock>>

\* Mutant: the loop leaves the last slot out, as the one of reposition_poll does.
Select_but_last ==
  /\ lpc = "select"
  /\ pos \in Slots
  /\ IF m_poll[pos] \in readable /\ pos < m_max - 1
     THEN lpc' = "serve" /\ sock' = m_poll[pos] /\ UNCHANGED pos
     ELSE pos' = pos + 1 /\ UNCHANGED <<lpc, sock>>
  /\ UNCHANGED <<pollVars, sockets>>

\* One turn of select_socket_with_events: the first slot that is readable
\* when the loop comes to it is served.
Select ==
  /\ lpc = "select"
  /\ pos \in Slots
  /\ IF m_poll[pos] \in readable
     THEN lpc' = "serve" /\ sock' = m_poll[pos] /\ UNCHANGED pos
     ELSE pos' = pos + 1 /\ UNCHANGED <<lpc, sock>>
  /\ UNCHANGED <<pollVars, sockets>>

\* Nothing to receive: the request is invalid and has no socket.
NothingToReceive ==
  /\ lpc = "select"
  /\ pos \notin Slots
  /\ lpc' = "accept"
  /\ UNCHANGED <<pollVars, sockets, pos, sock>>

\* TextIO::read_header: what is not ten bytes long, the end of the stream
\* included, or is a negative length makes the request invalid, and its client
\* is disconnected.
read_header ==
  /\ lpc = "serve"
  /\ \/ /\ lpc' = "body"
        /\ UNCHANGED sockets
     \/ /\ lpc' = "remove"
        /\ readable' = readable \ {sock} /\ whole' = whole \ {sock}
        /\ UNCHANGED open
  /\ UNCHANGED <<pollVars, pos, sock>>

\* recv with MSG_WAITALL: it returns when all of the message is there or the
\* connection has ended.  Then route and respond; the client stays, or it has
\* sent EXIT or the exchange failed and it is disconnected.
Serve ==
  /\ lpc = "body" /\ sock \in whole
  /\ readable' = readable \ {sock} /\ whole' = whole \ {sock}
  /\ lpc' \in {"accept", "remove"}
  /\ UNCHANGED <<pollVars, open, pos, sock>>

\* remove_socket, first loop: the socket is closed and its slot cleared.  The
\* second close in disconnect_client comes before any other descriptor is
\* opened by this thread, and does nothing.
RemoveSocket ==
  /\ lpc = "remove"
  /\ open' = open \ {sock}
  /\ readable' = readable \ {sock} /\ whole' = whole \ {sock}
  /\ m_poll' = [i \in Slots |-> IF m_poll[i] = sock THEN NoFd ELSE m_poll[i]]
  /\ lpc' = "reposition"
  /\ pos' = 1
  /\ UNCHANGED <<m_poll_index, sock>>

\* Mutant: the loop gives up at the first slot that is in use.
reposition_poll_break ==
  /\ lpc = "reposition"
  /\ IF pos < m_max - 1 /\ m_poll[pos] = NoFd
     THEN /\ m_poll' = [m_poll EXCEPT ![pos] = m_poll[pos + 1],
                                      ![pos + 1] = NoFd]
          /\ pos' = pos + 1
          /\ UNCHANGED lpc
     ELSE lpc' = "count" /\ UNCHANGED <<m_poll, pos>>
  /\ UNCHANGED <<m_poll_index, sockets, sock>>

\* Mutant: the last socket is moved into the hole.
reposition_poll_last ==
  /\ lpc = "reposition"
  /\ IF m_poll[pos] = NoFd \/ pos = m_max - 1
     THEN /\ m_poll' = [i \in Slots |-> IF i = m_poll_index - 1 THEN NoFd
                                        ELSE IF i = pos /\ i < m_poll_index
                                             THEN m_poll[m_poll_index - 1]
                                             ELSE m_poll[i]]
          /\ lpc' = "count"
          /\ UNCHANGED pos
     ELSE pos' = pos + 1 /\ UNCHANGED <<lpc, m_poll>>
  /\ UNCHANGED <<m_poll_index, sockets, sock>>

\* One turn of reposition_poll: a hole moves one slot up.
reposition_poll ==
  /\ lpc = "reposition"
  /\ IF pos < m_max - 1
     THEN /\ m_poll' = IF m_poll[pos] = NoFd /\ m_poll[pos + 1] # NoFd
                       THEN [m_poll EXCEPT ![pos] = m_poll[pos + 1],
                                           ![pos + 1] = NoFd]
                       ELSE m_poll
          /\ pos' = pos + 1
          /\ UNCHANGED lpc
     ELSE lpc' = "count" /\ UNCHANGED <<m_poll, pos>>
  /\ UNCHANGED <<m_poll_index, sockets, sock>>

\* count_poll_index: the first slot from 1 on that is not in use.
IsFirstHole(n) ==
  /\ n \in 1..m_max
  /\ \A i \in 1..(n - 1) : m_poll[i] # NoFd
  /\ n \in Slots => m_poll[n] = NoFd

CountPollIndex ==
  /\ lpc = "count"
  /\ \E n \in 1..m_max : IsFirstHole(n) /\ m_poll_index' = n
  /\ lpc' = "accept"
  /\ UNCHANGED <<m_poll, sockets, pos, sock>>

Loop == \/ \E f \in Fds : AcceptConnection(f)
        \/ NothingToAccept \/ Select \/ NothingToReceive \/ read_header
        \/ Serve \/ RemoveSocket \/ reposition_poll \/ CountPollIndex

PollNext == Loop \/ \E f \in Fds : Send(f) \/ SendRest(f)

PollSpec == PollInit /\ [][PollNext]_loopVars

\* The loop goes on while it can: poll has a timeout, and only Serve can wait
\* for good.  Clients owe the server nothing, not even the rest of a message.
FairPollSpec == PollSpec /\ WF_loopVars(Loop)

-----------------------------------------------------------------------------
(***************************************************************************)
(* Properties.                                                             *)
(***************************************************************************)

InPoll(f) == \E i \in Slots : m_poll[i] = f

\* Every slot below m_poll_index holds a socket of its own that is open and
\* every other slot is free, whenever the loop reads the poll: a single pass
\* of reposition_poll is enough, and no slot keeps a closed descriptor, which
\* the kernel would hand to the next client.
PollIsCompact ==
  /\ \A i \in Slots : m_poll[i] # NoFd => m_poll[i] \in open
  /\ \A i, j \in Slots : m_poll[i] = m_poll[j] /\ m_poll[i] # NoFd => i = j
  /\ lpc \in {"accept", "select", "serve", "body"} =>
       \A i \in Slots : m_poll[i] # NoFd <=> i < m_poll_index

\* The poll implements Connections.  A client leaves when its slot is cleared;
\* moving the hole up and counting again change nothing for the others.
Hole == CHOOSE i \in Slots : m_poll[i] = NoFd /\ i < m_poll_index

Conns ==
  IF lpc \in {"reposition", "count"}
  THEN [i \in 1..(m_poll_index - 2) |-> m_poll[IF i < Hole THEN i ELSE i + 1]]
  ELSE [i \in 1..(m_poll_index - 1) |-> m_poll[i]]

C == INSTANCE Connections WITH conns <- Conns, Room <- m_max - 1

ImplementsConnections == C!ConnectionsSpec

\* A polled client that has something to be read is served, or disconnected,
\* with two exceptions that the code makes possible: the loop waits for good for
\* the rest of somebody's message, or it serves clients of lower slots again and
\* again and starts each time from the first slot.
Waiting  == lpc = "body" /\ sock \notin whole
Ahead(f) == lpc = "serve" /\ \E i, j \in Slots : i < j /\ m_poll[i] = sock /\ m_poll[j] = f

PolledIsServed ==
  \A f \in Fds :
    <>[](f \in readable /\ InPoll(f)) => <>[]Waiting \/ []<>Ahead(f)

\* The strengthening that makes PollIsCompact inductive: while a client is
\* removed there is exactly one hole below m_poll_index, at or above the slot
\* the pass has reached unless it is already the last one.
HoleAt(h) ==
  /\ h \in 1..(m_poll_index - 1)
  /\ \A i \in Slots : m_poll[i] = NoFd <=> (i = h \/ i >= m_poll_index)

PollInv ==
  /\ lpc \in {"serve", "body", "remove"} => InPoll(sock) /\ sock \in open
  /\ lpc \in {"accept", "select", "serve", "body", "remove"} =>
       \A i \in Slots : m_poll[i] # NoFd <=> i < m_poll_index
  /\ lpc = "reposition" =>
       /\ pos < m_max
       /\ \E h \in Slots : HoleAt(h) /\ (h >= pos \/ h = m_poll_index - 1)
  /\ lpc = "count" => HoleAt(m_poll_index - 1)
=============================================================================
