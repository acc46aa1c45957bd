------------------------------- MODULE Chats -------------------------------
(***************************************************************************)
(* The chat messages of the users, from the message box of one to the chat *)
(* box of another (src/src/client/gui/central_gui.cpp and central_jobs.cpp, *)
(* client.cpp, user/chat.cpp, src/src/server/chat_controller.cpp,          *)
(* postgres.cpp).                                                          *)
(*                                                                         *)
(* A client loads all its chats when it has shown its contacts, and from   *)
(* then on asks once a second for those not yet delivered.  What it loads  *)
(* it marks as delivered, one job for each.  Loading, showing and marking  *)
(* are steps of two threads with queues between them, and the client may   *)
(* end between any two of them.                                            *)
(***************************************************************************)
EXTENDS Integers, FiniteSets, Functions, Jobs, ChatWire

CONSTANTS Users, NoOne,
          Writers,     \* bound: the users who send messages
          MaxSent,     \* bound: messages, altogether
          MaxLogins,   \* bound: clients started, altogether
          MaxWaiting,  \* bound: jobs waiting when the timer adds one
          MaxFaults    \* bound: statements the database fails to execute

ASSUME ChatUsersAssumption ==
  IsFiniteSet(Users) /\ NoOne \notin Users /\ Writers \subseteq Users
ASSUME ChatBoundsAssumption ==
  MaxSent \in Nat /\ MaxLogins \in Nat /\ MaxWaiting \in Nat /\ MaxFaults \in Nat

VARIABLES chats,          \* server: the table of this name
          contacts,       \* the contacts of each user, by the list box
          phase,          \* of each client: "off", "loading", "ready"
          m_jobQ, m_resQ, \* JobBus
          m_contact_list, \* CentralGui: the contacts it knows a number of
          m_contact_chat, \* CentralGui: the lines of the chat with each
          sent, logins, faults, \* the counters of the bounds
          received,       \* history: <<user, chat>>, loaded by a client of hers
          late,           \* history: asked again before the last answer was handled
          unrecorded      \* history: chats whose row, or mark, was not written

server  == <<chats, contacts>>
bus     == <<m_jobQ, m_resQ>>
gui     == <<m_contact_list, m_contact_chat>>
bounds  == <<sent, logins, faults>>
history == <<received, late, unrecorded>>
vars    == <<server, phase, bus, gui, bounds, history>>

\* The text of the n-th message.
Message(n) == <<Delim, Mark(n), Delim>>
Texts == {Message(n) : n \in 1..MaxSent}

\* A row of the table; its id is its place in it.
Chat == [id : 1..MaxSent, sender : Users, recipient : Users, created_at : Nat,
         delivered : BOOLEAN, text : Texts \cup {<<>>}]

Job == [m_command : {"CHAT", "PENDING", "DELIVERED", "SEND"},
        m_intValue : Users \cup {NoOne}, m_argument : 0..MaxSent,
        m_valid : BOOLEAN, m_chats : Seq(Chat)]
NewJob(command, contact, argument) ==
  [m_command |-> command, m_intValue |-> contact, m_argument |-> argument,
   m_valid |-> FALSE, m_chats |-> <<>>]

TypeOK ==
  /\ chats \in Seq(Chat) /\ \A i \in DOMAIN chats : chats[i].id = i
  /\ contacts \in [Users -> SUBSET Users]
  /\ phase \in [Users -> {"off", "loading", "ready"}]
  /\ m_jobQ \in [Users -> Seq(Job)] /\ m_resQ \in [Users -> Seq(Job)]
  /\ m_contact_list \in [Users -> SUBSET Users]
  /\ m_contact_chat \in [Users -> [Users -> Seq(Texts)]]
  /\ sent \in 0..MaxSent /\ logins \in 0..MaxLogins /\ faults \in 0..MaxFaults
  /\ received \subseteq Users \X (1..MaxSent)
  /\ late \in [Users -> BOOLEAN] /\ unrecorded \subseteq 1..MaxSent

NoLines == [c \in Users |-> <<>>]

Init ==
  /\ chats = <<>> /\ contacts \in {C \in [Users -> SUBSET Users] : \A u \in Users : u \notin C[u]}
  /\ phase = [u \in Users |-> "off"]
  /\ m_jobQ = [u \in Users |-> <<>>] /\ m_resQ = [u \in Users |-> <<>>]
  /\ m_contact_list = [u \in Users |-> {}]
  /\ m_contact_chat = [u \in Users |-> NoLines]
  /\ sent = 0 /\ logins = 0 /\ faults = 0
  /\ received = {}
  /\ late = [u \in Users |-> FALSE] /\ unrecorded = {}

----------------------------------------------------------------------------
(* The server.  The result of an INSERT or UPDATE is not looked at.         *)

\* created_at has hundredths of a second: two rows may have the same.
Stamps == IF chats = <<>> THEN {0}
          ELSE LET last == chats[Len(chats)].created_at IN {last, last + 1}

Executes(ok) == faults' = faults + (IF ok THEN 0 ELSE 1) /\ faults' <= MaxFaults

add_user_chat(sender, recipient, text) ==
  \E stamp \in Stamps :
    chats' = Append(chats, [id |-> Len(chats) + 1, sender |-> sender,
               recipient |-> recipient, created_at |-> stamp,
               delivered |-> FALSE, text |-> text])

\* ChatControllers::send, whose answer is 200 either way.
send(sender, recipient, n) ==
  \/ Executes(TRUE) /\ add_user_chat(sender, recipient, Message(n)) /\ UNCHANGED unrecorded
  \/ Executes(FALSE) /\ UNCHANGED chats /\ unrecorded' = unrecorded \cup {n}

\* Mutant: without an argument, PENDING asks for the chats of nobody.
list_chats_of_nobody(user, t_pending) ==
  {i \in DOMAIN chats : ~ t_pending /\ user \in {chats[i].sender, chats[i].recipient}}

\* Mutant: PENDING does not ask for "delivered = FALSE".
list_all_chats(user, t_pending) ==
  {i \in DOMAIN chats : chats[i].recipient = user \/ (~ t_pending /\ chats[i].sender = user)}

\* list_user_chats without a sender: the WHERE clause.
list_user_chats(user, t_pending) ==
  {i \in DOMAIN chats :
     \/ chats[i].recipient = user /\ (t_pending => ~ chats[i].delivered)
     \/ ~ t_pending /\ chats[i].sender = user}

\* The rows of S in any order.
Listings(S) == Bijection(1..Cardinality(S), {chats[i] : i \in S})

\* Mutant: ORDER BY created_at DESC.
LatestFirst(S) ==
  {s \in Listings(S) : \A i, j \in DOMAIN s : i < j => s[i].created_at >= s[j].created_at}

\* ORDER BY created_at ASC.
ByTime(S) ==
  {s \in Listings(S) : \A i, j \in DOMAIN s : i < j => s[i].created_at <= s[j].created_at}

\* ChatControllers: the answers to PENDING and to CHAT.
get_chats(user, t_pending) ==
  {build_response(s) : s \in ByTime(list_user_chats(user, t_pending))}
pending(user) == get_chats(user, TRUE)
chat(user)    == get_chats(user, FALSE)

\* Chat: what the client reads in them.
get_pending(user) == {parse_chat(response) : response \in pending(user)}
get_all(user)     == {parse_chat(response) : response \in chat(user)}

search_user_chat_by(id) == id \in DOMAIN chats
set_user_chat_to_delivered(ids) ==
  chats' = [i \in DOMAIN chats |-> IF i \in ids
              THEN [chats[i] EXCEPT !.delivered = TRUE] ELSE chats[i]]
\* Mutant: WHERE recipient_id = instead of WHERE id =.
delivered_to_recipient(ids) ==
  /\ Executes(TRUE)
  /\ chats' = IF ids \subseteq DOMAIN chats
              THEN [i \in DOMAIN chats |->
                      IF \E j \in ids : chats[j].recipient = chats[i].recipient
                      THEN [chats[i] EXCEPT !.delivered = TRUE] ELSE chats[i]]
              ELSE chats
  /\ UNCHANGED unrecorded

\* ChatControllers::delivered: all of the ids must exist, then each row that is
\* not marked is.  It does not ask whose chats they are.
delivered(ids) ==
  \/ /\ Executes(TRUE)
     /\ IF \A id \in ids : search_user_chat_by(id)
        THEN set_user_chat_to_delivered(ids) ELSE chats' = chats
     /\ UNCHANGED unrecorded
  \/ /\ Executes(FALSE)
     /\ UNCHANGED chats
     /\ unrecorded' = unrecorded \cup {n \in 1..MaxSent :
          \E i \in ids \cap DOMAIN chats : chats[i].text = Message(n)}

----------------------------------------------------------------------------
(* The job thread of u: one exchange with the server for a job.             *)

Taken(u, response) ==
  /\ m_jobQ' = [m_jobQ EXCEPT ![u] = Tail(@)]
  /\ m_resQ' = [m_resQ EXCEPT ![u] = Answered(@, response)]

chat_send(u) ==
  /\ Next_is(m_jobQ[u], "SEND")
  /\ LET job == Head(m_jobQ[u]) IN
     /\ send(u, job.m_intValue, job.m_argument)
     /\ Taken(u, [job EXCEPT !.m_valid = TRUE])

chat_get_pending(u) ==
  /\ Next_is(m_jobQ[u], "PENDING")
  /\ \E answer \in get_pending(u) :
       Taken(u, [Head(m_jobQ[u]) EXCEPT !.m_chats = answer, !.m_valid = answer # <<>>,
                   !.m_command = IF answer # <<>> THEN @ ELSE Discard])
  /\ UNCHANGED <<chats, faults, unrecorded>>

chat_get_all(u) ==
  /\ Next_is(m_jobQ[u], "CHAT")
  /\ \E answer \in get_all(u) :
       Taken(u, [Head(m_jobQ[u]) EXCEPT !.m_chats = answer, !.m_valid = TRUE])
  /\ UNCHANGED <<chats, faults, unrecorded>>

\* The response to DELIVERED has no handler; nothing is kept of it here.
chat_deliver(u) ==
  /\ Next_is(m_jobQ[u], "DELIVERED")
  /\ delivered({Head(m_jobQ[u]).m_argument})
  /\ m_jobQ' = [m_jobQ EXCEPT ![u] = Tail(@)] /\ UNCHANGED m_resQ

JobThread(u) ==
  /\ chat_send(u) \/ chat_get_pending(u) \/ chat_get_all(u) \/ chat_deliver(u)
  /\ UNCHANGED <<contacts, phase, gui, sent, logins, received, late>>

----------------------------------------------------------------------------
(* The interface of u.                                                      *)

Response(u, command) ==
  Next_is(m_resQ[u], command) /\ m_resQ' = [m_resQ EXCEPT ![u] = Tail(@)]

\* With whom the chat is, for u.
Peer(u, c) == IF c.sender = u THEN c.recipient ELSE c.sender

\* Each chat is appended to the lines of its peer, and a job is created for each
\* that is not delivered, whoever sent it.  After k turns of the loop:
Loading(u, list) ==
  LET loop[k \in 0..Len(list)] ==
        IF k = 0 THEN [lines |-> m_contact_chat[u], jobs |-> m_jobQ[u]]
        ELSE [lines |-> [loop[k - 1].lines EXCEPT ![Peer(u, list[k])] =
                           Append(@, list[k].text)],
              jobs  |-> IF list[k].delivered THEN loop[k - 1].jobs
                        ELSE create(loop[k - 1].jobs,
                               <<NewJob("DELIVERED", NoOne, list[k].id)>>)]
  IN  loop

\* To look up the name of a sender who is not a contact enters an empty one.
load_chat(u, list) ==
  LET end == Loading(u, list)[Len(list)]
  IN  /\ m_contact_chat' = [m_contact_chat EXCEPT ![u] = end.lines]
      /\ m_jobQ' = [m_jobQ EXCEPT ![u] = end.jobs]
      /\ m_contact_list' = [m_contact_list EXCEPT ![u] =
           @ \cup ({list[i].sender : i \in DOMAIN list} \ {u})]
      /\ received' = received \cup {<<u, list[i].id>> : i \in DOMAIN list}

job_load_chat(u) ==
  /\ Response(u, "CHAT")
  /\ load_chat(u, Head(m_resQ[u]).m_chats)
  /\ phase' = [phase EXCEPT ![u] = "ready"]

\* Without any contact the pending chats are dropped.
job_load_pending(u) ==
  /\ Response(u, "PENDING")
  /\ IF m_contact_list[u] = {}
     THEN UNCHANGED <<m_jobQ, gui, received>>
     ELSE load_chat(u, Head(m_resQ[u]).m_chats)
  /\ UNCHANGED phase

\* The contact is still selected.
job_send_msg(u) ==
  /\ Response(u, "SEND")
  /\ LET job == Head(m_resQ[u]) IN
     m_contact_chat' = [m_contact_chat EXCEPT ![u][job.m_intValue] =
                          Append(@, Message(job.m_argument))]
  /\ UNCHANGED <<m_jobQ, m_contact_list, phase, received>>

Interface(u) ==
  /\ job_load_chat(u) \/ job_load_pending(u) \/ job_send_msg(u)
  /\ UNCHANGED <<server, bounds, late, unrecorded>>

send_msg(u) ==
  /\ u \in Writers /\ phase[u] # "off" /\ sent < MaxSent
  /\ sent' = sent + 1
  /\ \E c \in contacts[u] :
       m_jobQ' = [m_jobQ EXCEPT ![u] = create(@, <<NewJob("SEND", c, sent')>>)]
  /\ UNCHANGED <<server, phase, m_resQ, gui, logins, faults, history>>

\* Every second.
repeated_tasks(u) ==
  /\ phase[u] = "ready" /\ Len(m_jobQ[u]) + Len(m_resQ[u]) < MaxWaiting
  /\ m_jobQ' = [m_jobQ EXCEPT ![u] = create(@, <<NewJob("PENDING", NoOne, 0)>>)]
  /\ late' = [late EXCEPT ![u] = @ \/ Pending(m_jobQ[u], "PENDING")
                                   \/ Pending(m_resQ[u], "PENDING")]
  /\ UNCHANGED <<server, phase, m_resQ, gui, bounds, received, unrecorded>>

\* A client is started and its user logs in; its contacts have been displayed
\* for the first time (module Contacts), which creates CHAT.
log_in(u) ==
  /\ phase[u] = "off" /\ logins < MaxLogins
  /\ logins' = logins + 1
  /\ phase' = [phase EXCEPT ![u] = "loading"]
  /\ m_jobQ' = [m_jobQ EXCEPT ![u] = <<NewJob("CHAT", NoOne, 0)>>]
  /\ m_contact_list' = [m_contact_list EXCEPT ![u] = contacts[u]]
  /\ UNCHANGED <<server, m_resQ, m_contact_chat, sent, faults, history>>

\* JobBus::set_exit: the queues go with the program.
exit(u) ==
  /\ phase[u] # "off"
  /\ phase' = [phase EXCEPT ![u] = "off"]
  /\ m_jobQ' = [m_jobQ EXCEPT ![u] = <<>>] /\ m_resQ' = [m_resQ EXCEPT ![u] = <<>>]
  /\ m_contact_list' = [m_contact_list EXCEPT ![u] = {}]
  /\ m_contact_chat' = [m_contact_chat EXCEPT ![u] = NoLines]
  /\ late' = [late EXCEPT ![u] = FALSE]
  /\ UNCHANGED <<server, bounds, received, unrecorded>>

Next ==
  \E u \in Users : \/ JobThread(u) \/ Interface(u) \/ send_msg(u)
                   \/ repeated_tasks(u) \/ log_in(u) \/ exit(u)

Spec == Init /\ [][Next]_vars
\* JobThread(u), for the fairness: whatever the job at the head, it is taken.
TakesJob(u) == m_jobQ[u] # <<>> /\ m_jobQ' = [m_jobQ EXCEPT ![u] = Tail(@)]
\* The two threads of a client run and its timer goes off.
FairSpec ==
  /\ Spec
  /\ \A u \in Users : WF_<<m_jobQ>>(TakesJob(u)) /\ WF_vars(Interface(u)) /\ WF_vars(repeated_tasks(u))

----------------------------------------------------------------------------
(* Properties.                                                              *)

ShownTo(u) == UNION {{m_contact_chat[u][c][i] : i \in DOMAIN m_contact_chat[u][c]} : c \in Users}
At(u, c, n) == {i \in DOMAIN m_contact_chat[u][c] : m_contact_chat[u][c][i] = Message(n)}
RowOf(n) == CHOOSE i \in DOMAIN chats : chats[i].text = Message(n)
Stored(n) == \E i \in DOMAIN chats : chats[i].text = Message(n)

(* A client shows a message once, whether it was loaded at the start, came  *)
(* with an answer to PENDING, or is the user's own, unless it asked for the *)
(* pending ones again before it had handled the last answer, or the server  *)
(* could not mark the message.  (central_gui.cpp:149, job_bus.cpp:117.)     *)
ShownOnce ==
  \A u, c \in Users, n \in 1..MaxSent :
    ~ late[u] /\ n \notin unrecorded => Cardinality(At(u, c, n)) <= 1

(* The messages of one user to another stand in the order in which they were *)
(* sent, but for those the clock of the database does not tell apart, as    *)
(* long as no answer came late.  (postgres.cpp:76, setup_postgres.sql:73.)  *)
ShownInOrder ==
  \A u, c \in Users, m, n \in 1..MaxSent :
    /\ ~ late[u] /\ m < n /\ {m, n} \cap unrecorded = {} /\ Stored(m) /\ Stored(n)
    /\ chats[RowOf(m)].sender = chats[RowOf(n)].sender
    /\ chats[RowOf(m)].created_at # chats[RowOf(n)].created_at
    => \A i \in At(u, c, m), j \in At(u, c, n) : i < j

(* A chat is marked as delivered only after a client of its recipient, or   *)
(* one that its sender started later, has loaded it: when a client ends     *)
(* between loading and marking, nothing is lost.  (central_gui.cpp:182.)    *)
DeliveredWasLoaded ==
  \A i \in DOMAIN chats : chats[i].delivered =>
    <<chats[i].recipient, i>> \in received \/ <<chats[i].sender, i>> \in received

(* A chat that waits for a user whose client is ready, and knows anybody, is *)
(* shown there, unless the client is closed first or a client that its      *)
(* sender has started marks the chat as delivered.  (central_jobs.cpp:125,  *)
(* client.cpp:201.)                                                         *)
ChatArrives ==
  \A i \in 1..MaxSent :
    (/\ i \in DOMAIN chats /\ ~ chats[i].delivered
     /\ phase[chats[i].recipient] = "ready" /\ m_contact_list[chats[i].recipient] # {})
    ~> /\ i \in DOMAIN chats
       /\ \/ phase[chats[i].recipient] = "off"
          \/ chats[i].text \in ShownTo(chats[i].recipient)
          \/ <<chats[i].sender, i>> \in received
=============================================================================
