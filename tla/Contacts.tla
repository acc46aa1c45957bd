------------------------------ MODULE Contacts ------------------------------
(***************************************************************************)
(* What one client knows and shows of its contacts                         *)
(* (src/src/client/user/contacts.cpp, gui/central_jobs.cpp,                *)
(* gui/central_gui.cpp, client.cpp, user/accounts.cpp, and behind them     *)
(* src/src/server/user_controllers.cpp and postgres.cpp).                  *)
(*                                                                         *)
(* Once a second the client asks the server for its LIST.  The job thread  *)
(* compares the answer with the last one and tells the interface the first *)
(* difference it meets: DISP_CONTACTS when a contact came, went, or is     *)
(* online or no longer so, AWAITING when one began or ceased to call.  The *)
(* interface keeps a copy of the list and a ring for each caller.  All the *)
(* copies are refreshed by jobs that are under way while others, and the   *)
(* user, go on.                                                            *)
(***************************************************************************)
EXTENDS Integers, FiniteSets, Jobs

CONSTANTS Others,      \* the registered users but the client's own
          Me,          \* the client's own user
          Unknown,     \* a name nobody has
          Callees,     \* whom the others call
          NoOne,
          MaxChanges,  \* bound: what the others do, altogether
          MaxClicks,   \* bound: jobs the user asks for, altogether
          MaxWaiting   \* bound: jobs waiting when the timer adds one

ASSUME UsersAssumption ==
  /\ IsFiniteSet(Others)
  /\ Me \notin Others /\ Unknown \notin Others \cup {Me}
  /\ NoOne \notin Others \cup {Me, Unknown}
  /\ Callees \subseteq Others \cup {Me}
ASSUME BoundsAssumption ==
  MaxChanges \in Nat /\ MaxClicks \in Nat /\ MaxWaiting \in Nat

VARIABLES contacts,          \* server: the rows of this user in contacts,
          online,            \* the column online of the others,
          callee,            \* and whom they have a CONNECT for
          linked,            \* m_server_req.m_valid
          m_jobQ, m_resQ,    \* JobBus
          m_logged_in,       \* Accounts: the token is there
          m_online_contacts, \* Contacts: the last answer to LIST
          m_callers,         \* Call
          displayed,         \* the list box: who is in it, and their icon
          m_contact_list,    \* CentralGui: what it has been told of whom
          callers_table,     \* the rings
          first_display, ready_signal,
          crashed,           \* the interface has dereferenced a null pointer
          overlooked,        \* history: differences nobody was told of
          changes, clicks    \* the counters of the bounds

server == <<contacts, online, callee>>
bus    == <<m_jobQ, m_resQ>>
client == <<m_logged_in, m_online_contacts, m_callers, overlooked>>
gui    == <<displayed, m_contact_list, callers_table, first_display,
            ready_signal, crashed>>
vars   == <<server, linked, bus, client, gui, changes, clicks>>

Details == [online : BOOLEAN, awaiting : BOOLEAN]
ContactLists == UNION {[S -> Details] : S \in SUBSET Others}
OnlineLists == UNION {[S -> BOOLEAN] : S \in SUBSET Others}
Empty == <<>>

Commands == {"LIST", "SEARCH", "ADD", "REMOVE", "DISP_CONTACTS", "LOGIN",
             "AWAITING", "CHAT"}
Job == [m_command : Commands, m_intValue : Others \cup {Me, Unknown, NoOne},
        m_boolValue : BOOLEAN, m_valid : BOOLEAN, m_contact_list : ContactLists]
\* A job as its creator makes it; m_intValue stands for the contact it is
\* about, whether by number or by name.
NewJob(command, contact) ==
  [m_command |-> command, m_intValue |-> contact, m_boolValue |-> FALSE,
   m_valid |-> FALSE, m_contact_list |-> Empty]

TypeOK ==
  /\ contacts \subseteq Others /\ online \in [Others -> BOOLEAN]
  /\ callee \in [Others -> Callees \cup {NoOne}]
  /\ linked \in BOOLEAN /\ m_jobQ \in Seq(Job) /\ m_resQ \in Seq(Job)
  /\ m_logged_in \in BOOLEAN /\ m_online_contacts \in ContactLists
  /\ m_callers \subseteq Others
  /\ displayed \in OnlineLists /\ m_contact_list \in OnlineLists
  /\ callers_table \subseteq Others
  /\ first_display \in BOOLEAN /\ ready_signal \in BOOLEAN /\ crashed \in BOOLEAN
  /\ overlooked \in [list : BOOLEAN, calls : BOOLEAN]
  /\ changes \in 0..MaxChanges /\ clicks \in 0..MaxClicks

Init ==
  /\ contacts \in SUBSET Others /\ online \in [Others -> BOOLEAN]
  /\ callee = [c \in Others |-> NoOne]
  /\ linked = TRUE /\ m_jobQ = <<>> /\ m_resQ = <<>>
  /\ m_logged_in = FALSE /\ m_online_contacts = Empty /\ m_callers = {}
  /\ displayed = Empty /\ m_contact_list = Empty /\ callers_table = {}
  /\ first_display = TRUE /\ ready_signal = FALSE /\ crashed = FALSE
  /\ overlooked = [list |-> FALSE, calls |-> FALSE]
  /\ changes = 0 /\ clicks = 0

----------------------------------------------------------------------------
(* The others, and the connection.  The table of call requests says that a  *)
(* user awaits somebody, not whom.                                          *)

ComeOrGo(c) ==
  /\ online' = [online EXCEPT ![c] = ~ @]
  /\ UNCHANGED <<contacts, callee>>

CallSomebody(c) ==
  /\ online[c] /\ callee[c] = NoOne
  /\ \E u \in Callees \ {c} : callee' = [callee EXCEPT ![c] = u]
  /\ UNCHANGED <<contacts, online>>

StopCalling(c) ==
  /\ callee[c] # NoOne
  /\ callee' = [callee EXCEPT ![c] = NoOne]
  /\ UNCHANGED <<contacts, online>>

OthersAct ==
  /\ changes < MaxChanges
  /\ changes' = changes + 1
  /\ \E c \in Others : ComeOrGo(c) \/ CallSomebody(c) \/ StopCalling(c)
  /\ UNCHANGED <<linked, bus, client, gui, clicks>>

\* An exchange that fails leaves m_server_req invalid, and nothing makes it
\* valid again: every later exchange fails at once.
BreakOff ==
  /\ changes < MaxChanges /\ linked
  /\ changes' = changes + 1
  /\ linked' = FALSE
  /\ UNCHANGED <<server, bus, client, gui, clicks>>

----------------------------------------------------------------------------
(* The job thread: one exchange with the server, and what the client makes  *)
(* of the answer.                                                          *)

call_awaits(c) == callee[c] # NoOne

\* The rows behind LIST: the contacts of the user, and whether they are online,
\* aggregated to columns of one row that are split again.
list_contacts_query == [c \in contacts |-> online[c]]
result_to_users(row) == {[ID |-> c, online |-> row[c]] : c \in DOMAIN row}
list_user_contacts == result_to_users(list_contacts_query)

\* What LIST answers of each contact.
list_contacts(users) ==
  {[ID |-> u.ID, online |-> u.online, awaiting |-> call_awaits(u.ID)] : u \in users}
list_reply == list_contacts(list_user_contacts)

\* An answer that is an error names no contact.
NoContacts == {}

\* Contacts reads an answer into the table of details.
pair_contact_details(users) ==
  [c \in {u.ID : u \in users} |->
     LET u == CHOOSE u \in users : u.ID = c
     IN  [online |-> u.online, awaiting |-> u.awaiting]]

Known == Others \cup {Me}

search_user_by(name)   == name \in Known
user_contact_exists(c) == c \in contacts
add_user_contact(c)    == contacts' = contacts \cup {c}
remove_user_contact(c) == contacts' = contacts \ {c}

\* Mutant: the server lets a user add itself.
add_anyone(c) == search_user_by(c) /\ ~ user_contact_exists(c)

\* The server's conditions for SEARCH, ADD and REMOVE.
search(name) == search_user_by(name)
add(c) == c # Me /\ ~ user_contact_exists(c) /\ search_user_by(c)
remove(c) == search_user_by(c)

Display == NewJob("DISP_CONTACTS", NoOne)
Await(c, awaiting) == [NewJob("AWAITING", c) EXCEPT !.m_boolValue = awaiting]

Differing(old, new) == {c \in DOMAIN new : c \notin DOMAIN old \/ old[c] # new[c]}

\* Mutant: a contact that came online is not shown until another comes or goes.
ReportNewOnly(old, new, c) ==
  IF c \notin DOMAIN old THEN Display ELSE Await(c, new[c].awaiting)

\* What one difference is reported as.
Report(old, new, c) ==
  IF c \notin DOMAIN old \/ old[c].online # new[c].online
  THEN Display ELSE Await(c, new[c].awaiting)

\* The jobs update_contacts may create: the loop over the new list, in the
\* order of a hash table, returns at the first difference.
FirstReport(old, new) ==
  LET D == Differing(old, new)
  IN  IF D = {} THEN {<<>>} ELSE {<<Report(old, new, c)>> : c \in D}

\* Mutant: an empty list is only reported when the last one was not.
ReportsUnlessEmpty(old, new) ==
  IF Cardinality(DOMAIN old) # Cardinality(DOMAIN new)
  THEN {<<Display>>} ELSE FirstReport(old, new)

Reports(old, new) ==
  IF Cardinality(DOMAIN old) # Cardinality(DOMAIN new) \/ new = Empty
  THEN {<<Display>>} ELSE FirstReport(old, new)

Shown(list) == [c \in DOMAIN list |-> list[c].online]
Calling(list) == {c \in DOMAIN list : list[c].awaiting}
Changed(A, B) == (A \ B) \cup (B \ A)

\* The call of c is all that changed.
OnlyTheCall(old, new, c) ==
  DOMAIN old = DOMAIN new /\ Differing(old, new) = {c} /\ old[c].online = new[c].online

\* What the interface will not be told of, because another change came with it
\* and was reported.  The next DISP_CONTACTS shows the whole list; nothing
\* repeats an AWAITING.
Overlooked(old, new, report) ==
  [list |-> /\ report # <<Display>>
            /\ \/ overlooked.list
               \/ Shown(old) # Shown(new) /\ Cardinality(Differing(old, new)) > 1,
   calls |-> \/ overlooked.calls
             \/ \E c \in Changed(Calling(old), Calling(new)) :
                  ~ OnlyTheCall(old, new, c) /\ report # <<Await(c, c \in Calling(new))>>]

\* update_contacts, called by the handler of the job at the head of the queue.
update_contacts(response) ==
  LET answer == pair_contact_details(response)
  IN  /\ \E report \in Reports(m_online_contacts, answer) :
           /\ m_jobQ' = create(Tail(m_jobQ), report)
           /\ overlooked' = Overlooked(m_online_contacts, answer, report)
      /\ m_online_contacts' = answer

\* Contacts::list.
Contacts_list ==
  \/ linked /\ update_contacts(list_reply)
  \/ ~ linked /\ m_jobQ' = Tail(m_jobQ) /\ UNCHANGED <<m_online_contacts, overlooked>>

contact_list ==
  /\ Next_is(m_jobQ, "LIST")
  /\ Contacts_list
  /\ UNCHANGED <<server, m_resQ, m_logged_in, m_callers>>

\* The handlers that only answer: the job goes back with m_valid.
Answer(valid) ==
  /\ m_jobQ' = Tail(m_jobQ)
  /\ m_resQ' = Answered(m_resQ, [Head(m_jobQ) EXCEPT !.m_valid = valid])
  /\ UNCHANGED <<m_online_contacts, overlooked>>

Contacts_search(name) == Answer(linked /\ search(name))

contact_search ==
  /\ Next_is(m_jobQ, "SEARCH")
  /\ Contacts_search(Head(m_jobQ).m_intValue)
  /\ UNCHANGED <<server, m_logged_in, m_callers>>

\* ADD and REMOVE go on with a LIST of their own.  Its argument is what the
\* request holds by then, the answer "200 OK" to the command; the server takes
\* it for a token, answers 202, and the client parses a list without contacts.
Relist ==
  /\ update_contacts(NoContacts)
  /\ m_resQ' = Answered(m_resQ, [Head(m_jobQ) EXCEPT !.m_valid = TRUE])

add_user(c) ==
  \/ linked /\ add(c) /\ add_user_contact(c) /\ Relist
  \/ ~ (linked /\ add(c)) /\ contacts' = contacts /\ Answer(FALSE)

contact_add_user ==
  /\ Next_is(m_jobQ, "ADD")
  /\ add_user(Head(m_jobQ).m_intValue)
  /\ UNCHANGED <<online, callee, m_logged_in, m_callers>>

remove_user(c) ==
  \/ linked /\ remove(c) /\ remove_user_contact(c) /\ Relist
  \/ ~ (linked /\ remove(c)) /\ contacts' = contacts /\ Answer(FALSE)

contact_remove_user ==
  /\ Next_is(m_jobQ, "REMOVE")
  /\ remove_user(Head(m_jobQ).m_intValue)
  /\ UNCHANGED <<online, callee, m_logged_in, m_callers>>

display_contacts == m_online_contacts

contact_get_contacts ==
  /\ Next_is(m_jobQ, "DISP_CONTACTS")
  /\ m_jobQ' = Tail(m_jobQ)
  /\ m_resQ' = Answered(m_resQ, [Head(m_jobQ) EXCEPT
                 !.m_contact_list = display_contacts,
                 !.m_valid = display_contacts # Empty])
  /\ UNCHANGED <<server, client>>

user_login ==
  /\ Next_is(m_jobQ, "LOGIN")
  /\ \E password_right \in BOOLEAN :
       /\ m_logged_in' = (m_logged_in \/ (linked /\ password_right))
       /\ Answer(linked /\ password_right)
  /\ UNCHANGED <<server, m_callers>>

\* CHAT answers m_valid whatever came; the chats are in module Chats.
chat_get_all ==
  /\ Next_is(m_jobQ, "CHAT")
  /\ Answer(TRUE)
  /\ UNCHANGED <<server, m_logged_in, m_callers>>

\* Call::awaiting: a caller is entered once, whoever reports it.
call_awaiting ==
  /\ Next_is(m_jobQ, "AWAITING")
  /\ LET job == Head(m_jobQ) IN
     /\ m_callers' = IF job.m_boolValue THEN m_callers \cup {job.m_intValue}
                     ELSE m_callers \ {job.m_intValue}
     /\ Answer(~ job.m_boolValue \/ job.m_intValue \notin m_callers)
  /\ UNCHANGED <<server, m_logged_in>>

JobThread ==
  /\ ~ crashed
  /\ \/ contact_list \/ contact_search \/ contact_add_user
     \/ contact_remove_user \/ contact_get_contacts \/ user_login
     \/ chat_get_all \/ call_awaiting
  /\ UNCHANGED <<linked, gui, changes, clicks>>

----------------------------------------------------------------------------
(* The interface: one response per signal, the timer and the user.          *)

\* Program::handle_response with the response of this command.
Response(command) == Next_is(m_resQ, command) /\ m_resQ' = Tail(m_resQ)

\* CentralGui::init, for the jobs that matter here.
init == m_jobQ' = create(m_jobQ, <<NewJob("LIST", NoOne)>>)

job_login ==
  /\ Response("LOGIN")
  /\ IF Head(m_resQ).m_valid THEN init ELSE m_jobQ' = m_jobQ
  /\ UNCHANGED gui

\* A new model for the list box; m_contact_list only grows.
job_disp_contact ==
  /\ Response("DISP_CONTACTS")
  /\ LET list == Shown(Head(m_resQ).m_contact_list) IN
     /\ displayed' = list
     /\ m_contact_list' = [c \in DOMAIN list \cup DOMAIN m_contact_list |->
          IF c \in DOMAIN list THEN list[c] ELSE m_contact_list[c]]
  /\ m_jobQ' = IF first_display THEN create(m_jobQ, <<NewJob("CHAT", NoOne)>>) ELSE m_jobQ
  /\ first_display' = FALSE
  /\ UNCHANGED <<callers_table, ready_signal, crashed>>

job_load_chat ==
  /\ Response("CHAT")
  /\ ready_signal' = TRUE
  /\ UNCHANGED <<m_jobQ, displayed, m_contact_list, callers_table, first_display, crashed>>

\* A box tells the user, and the chat group is hidden.
job_add_user    == Response("ADD") /\ UNCHANGED <<m_jobQ, gui>>
job_remove_user == Response("REMOVE") /\ UNCHANGED <<m_jobQ, gui>>

job_search ==
  /\ Response("SEARCH")
  /\ \/ m_jobQ' = m_jobQ
     \/ /\ Head(m_resQ).m_valid
        /\ m_jobQ' = create(m_jobQ, <<NewJob("ADD", Head(m_resQ).m_intValue)>>)
  /\ UNCHANGED gui

\* Mutant: the ring is deleted and stays in the table.
job_awaiting_keeps_ring ==
  /\ Response("AWAITING")
  /\ LET c == Head(m_resQ).m_intValue IN
     IF Head(m_resQ).m_boolValue
     THEN callers_table' = callers_table \cup {c} /\ UNCHANGED crashed
     ELSE callers_table' = callers_table /\ crashed' = (c \notin callers_table)
  /\ UNCHANGED <<m_jobQ, displayed, m_contact_list, first_display, ready_signal>>

\* The end of a call hides and deletes the ring, which must be there.
job_awaiting ==
  /\ Response("AWAITING")
  /\ LET c == Head(m_resQ).m_intValue IN
     IF Head(m_resQ).m_boolValue
     THEN callers_table' = callers_table \cup {c} /\ UNCHANGED crashed
     ELSE callers_table' = callers_table \ {c} /\ crashed' = (c \notin callers_table)
  /\ UNCHANGED <<m_jobQ, displayed, m_contact_list, first_display, ready_signal>>

Interface ==
  /\ ~ crashed
  /\ \/ job_login \/ job_disp_contact \/ job_load_chat \/ job_add_user
     \/ job_remove_user \/ job_search \/ job_awaiting
  /\ UNCHANGED <<server, linked, client, changes, clicks>>

\* Every second, once the chats are loaded.  Bound: not while a LIST or too many
\* jobs wait.
repeated_tasks ==
  /\ ~ crashed /\ ready_signal
  /\ ~ Pending(m_jobQ, "LIST") /\ Len(m_jobQ) + Len(m_resQ) < MaxWaiting
  /\ m_jobQ' = create(m_jobQ, <<NewJob("LIST", NoOne)>>)
  /\ UNCHANGED <<server, linked, m_resQ, client, gui, changes, clicks>>

login ==
  /\ ~ crashed /\ ~ m_logged_in
  /\ m_jobQ = <<>> /\ m_resQ = <<>>
  /\ m_jobQ' = create(m_jobQ, <<NewJob("LOGIN", NoOne)>>)
  /\ UNCHANGED <<server, linked, m_resQ, client, gui, changes, clicks>>

Ask(command, contact) ==
  /\ clicks < MaxClicks
  /\ clicks' = clicks + 1
  /\ m_jobQ' = create(m_jobQ, <<NewJob(command, contact)>>)
  /\ UNCHANGED <<server, linked, m_resQ, client, gui, changes>>

\* The names typed into the search and add boxes, and the contact selected.
User ==
  /\ ~ crashed /\ ready_signal
  /\ \/ \E c \in Others \cup {Me, Unknown} : Ask("SEARCH", c) \/ Ask("ADD", c)
     \/ \E c \in DOMAIN m_contact_list : Ask("REMOVE", c)

Next == OthersAct \/ BreakOff \/ JobThread \/ Interface \/ repeated_tasks \/ login \/ User

Spec == Init /\ [][Next]_vars
\* The job thread loops, the signals of its responses are delivered, and the
\* timer goes off.
FairSpec == Spec /\ WF_vars(JobThread) /\ WF_vars(Interface) /\ WF_vars(repeated_tasks)

----------------------------------------------------------------------------
(* Properties.  Reported says that nothing of a kind is on its way.         *)

Reported(command) == ~ Pending(m_jobQ, command) /\ ~ Pending(m_resQ, command)

(* The list box shows the last answer to LIST, contact by contact, as soon  *)
(* as no DISP_CONTACTS is on its way, unless an AWAITING was reported in    *)
(* place of a change that the box should show.  (central_jobs.cpp:25,       *)
(* contacts.cpp:189.)                                                       *)
BoxShowsLastList ==
  Reported("DISP_CONTACTS") /\ ~ overlooked.list =>
    displayed = Shown(m_online_contacts)

(* As long as nobody's call began or ended together with another change, or *)
(* while the list was empty after an ADD or a REMOVE, the rings are those   *)
(* of the contacts that are calling, and the interface never hides a ring   *)
(* it does not have.  (central_jobs.cpp:171, call.cpp:185.)                 *)
RingsFollowCalls ==
  ~ overlooked.calls =>
    /\ ~ crashed
    /\ Reported("AWAITING") => callers_table = Calling(m_online_contacts)

(* A client that has logged in becomes ready, and its timer starts, whether *)
(* or not its user has contacts or chats.  (contacts.cpp:202, client.cpp:228,*)
(* central_jobs.cpp:47.)                                                    *)
LoginGetsReady == m_logged_in ~> (ready_signal \/ ~ linked)

(* A ring is shown for a call to this client's user.  (user_awaiting.cpp:18,*)
(* user_controllers.cpp:221.)                                               *)
RingIsForMe ==
  \A c \in callers_table : c \in m_callers => callee[c] \in {Me, NoOne}
=============================================================================
