# A TLA+ verification project for Skype

This directory models the server and the client of the repository (a Qt/C++17
video-calling program: `src/src/server`, `src/src/client`, `src/src/shared`) in
TLA+. Small instances are model-checked with TLC, and the properties that matter
most are proved for every value of the constants with TLAPS. Paths below are
relative to the directory that holds `src/`, as in `PROJECT.json`.

`PROJECT.json` lists the components, the runs, the code lines each definition
models, for each property a plausible bug that breaks it, the hazards of the
code, the disagreements found between the code and what it says of itself, and
the theorems.

## 1. The system

Two programs. The **server** has a TCP thread (`Server::main_loop`), a UDP
thread (`Server::udp_worker`), a timeout worker for call requests, and a
PostgreSQL database. The **client** has the Qt event thread, one job thread
(`JobBus::handle`), one thread per call being set up, and up to four threads per
call for sending and receiving audio and video, plus the sound card's two
callbacks. Clients talk to the server in text over one TCP connection
(accounts, contacts, chats) and datagrams (call commands), and to each other in
datagrams (handshake, then media).

### Inventory

| Part | State | Operations | Modelled by |
|---|---|---|---|
| Call requests, `AwaitingUsers` | `m_awaiting_users` (caller → request), `m_timeouts` (vector of id, status) | insert, get, ping, destroy, and the worker's `timeout_loop` | `AwaitingUsers` |
| Call commands, `CallControllers` | static `m_awaiting_users`, own database connection | CONNECT, ACCEPT, PING, HANGUP, REJECT | `CallControllers` |
| Sessions, `UserControllers`, `Router`, `Postgres` | tables `users`, `tokens`, `contacts`; static `m_pg`; `Request::m_token`, `m_exit` | LOGIN, CREATE, EXIT, token check, forced exit; LIST, SEARCH, ADD, REMOVE, AVAILABLE | `Sessions`; the contact commands in `Contacts` |
| TCP connections, `ConnectionPoll`, `PassiveConn` | `m_poll`, `m_poll_index` | accept, select, remove, reposition, count | `ConnectionPoll`, `Connections` |
| Server loop, `Server` | none of its own | accept, receive, route, respond, disconnect | in the three modules above |
| Audio queue, `LockFreeAudioQueue` | `m_head`, `m_tail`, linked nodes | push, pop | `LockFreeAudioQueue`, `Fifo` |
| Playback, `Playback`, `AudioPlayback`, `VideoPlayback`, `AudioDevice` | `m_status`, `m_done_received`, the queue, the device | start, load, stop, buffer, the output callback | `AudioPlayback` (who uses the queue), `Streams` (what is read and loaded) |
| Streams, `AVStream` | `m_status`, the input queue | start, stream, stop, Done | `Streams` |
| Peer-to-peer, `P2P`, `UDPConn` | `m_status`, `m_type`, `m_peer_address`, `m_network_type` | connect, accept, ping, reject, hangup, handshake, retry | `PeerToPeer`, `Datagrams` (REJECT left out) |
| Job queues, `JobBus`, `Job`, `ThreadSafeQueue` | `m_jobQ`, `m_resQ`, the job object | create, handle, get_response, the one-second timer | `Jobs`, and in the three modules that extend it |
| Call control, `Call`, `Client` | `m_hangup`, `m_connected`, `m_current`, `m_callers`, the two `P2P`s | connect (own thread), accept, reject, hangup, awaiting | `CallClient` (one client), `PeerToPeer` (the set-up on the network), `Contacts` (awaiting) |
| Contacts (client), `Contacts` | `m_online_contacts` | list, search, add, remove, display, update_contacts | `Contacts` |
| User interface, `CentralGui`, `RingGui`, `CallGui`, `ContactGui`, `WelcomeGui`, `Program` | list box, `m_contact_list`, `m_contact_chat`, `callers_table`, `m_on_call`, the boxes | one handler per response, the clicks | `Contacts`, `Chats`, `CallClient` |
| Chat, `ChatControllers`, `Chat`, `UserChat` | table `chats`; the client's lines | SEND, PENDING, CHAT, DELIVERED | `Chats`, `ChatWire` |
| Media framing, `StreamIO` | none | header, packet sizes, send, receive | `StreamIO`, inside `Streams` |
| Text framing, `TextIO` | none | a length header and a message over TCP | its receive in `ConnectionPoll` |
| Most protocol data, configuration, codecs, devices, widgets, test programs | — | — | not modelled, see section 8 |

### How the parts interact

* The TCP thread accepts at most one client per turn, receives from the first
  readable socket, routes the request to a controller, answers, and disconnects
  the client that asked to exit or whose exchange failed. The controllers call
  `Postgres`, one transaction per method, an exception turned into an empty
  result.
* The UDP thread does the same for datagrams. Only the call commands arrive
  that way. `Router` validates their tokens through `UserControllers::m_pg`,
  the database connection the TCP thread is using.
* The timeout worker and the UDP thread share `AwaitingUsers` (map and vector,
  with a mutex around single assignments); LIST on the TCP thread reads it.
* A caller CONNECTs, then PINGs about once a second until the callee has
  ACCEPTed; each end then has the other's address and they shake hands
  directly. The callee learns of the call from the LIST its client sends every
  second.
* In the client everything passes through two queues: the interface, the timer
  and other threads create jobs, the job thread runs the handler of each (an
  exchange with the server, mostly) in one job object it uses over and over,
  and the interface handles the responses one by one.
* A hang-up travels as a datagram of type Done to the peer's playback thread,
  which turns it into a HANGUP job of that client.

### What is hard here, and what correctness means

* **Call requests**: a vector walked by one thread, with an end that was read
  once, while another appends, and erased from inside the walk. Correct: no
  access outside the vector, a request that is pinged stays, an abandoned one
  goes, timeouts do not pile up, and both ends of a call choose the same kind
  of address.
* **Sessions**: handlers of several transactions, any of which may throw because
  the two threads share a connection; clients identified by IP address when
  they break off; tables that outlive the server. Correct: a session ends only
  through its owner, none outlives its connection, and the column `online`
  agrees with the tokens.
* **The poll**: removal while descriptors are reused, and its limit; a loop that
  starts at the first slot each time and reads without a timeout. Correct: a
  bounded list of connections in order of arrival, and nobody in it unserved but
  by these two.
* **The audio queue**: stores in an order a lock-free reader depends on, freed
  nodes reused. Correct: a FIFO queue, no use after free, no leak.
* **Call set-up**: two ends, a server and a NAT; datagrams that are late or
  lost; one socket on which the server's answers and the peer's messages both
  come and nobody looks at the sender; retries; a hang-up that may come at any
  point. Correct: every set-up ends, an end is connected only to somebody who
  has spoken to it, audio to audio and video to video, and a call that was
  answered connects when nothing is late.
* **Calls in a client**: a call thread beside the job thread, two flags, a job
  object read by reference, a window and a box the user closes when she likes.
  An answered call holds the job thread until its first package has come.
  Correct: a call that is hung up stays down, a failed one gives the client
  back, both legs go to the same peer.
* **Contacts**: three copies of the list, and one difference at a time told to
  the interface. Correct: the box and the rings catch up with the last LIST.
* **Chats**: loading, showing and marking are steps of two threads and the
  server, repeated every second, and a client may be closed between any two.
  Correct: every chat is shown, once, in order.
* **Streams**: two senders and two readers over UDP, which loses datagrams and
  lets them overtake, and none of which says what it belongs to; a queue that is
  drained while the microphone fills it, Done. Correct: what is played is what
  was sent, once, or noise that something caused; one end stops the other.

`PROJECT.json` "hazards" lists each of these at the line where it bites, with
the properties that cover it, what they leave out, or the reason why none does.

## 2. Modules

| Module | Kind |
|---|---|
| `AwaitingUsers` | the table of call requests, the vector down to its memory block, and the worker step by step; has no specification of its own |
| `CallControllers` | extends it with the UDP thread's handlers; the composed system, its specification and properties |
| `MCCallControllers` | how many calls each user places, symmetry |
| `CallControllersProofs` | theorems |
| `Fifo` | abstract: what the audio queue promises |
| `LockFreeAudioQueue` | the queue, one step per load, store and node access |
| `LockFreeAudioQueueProofs` | theorems |
| `AudioPlayback` | extends the queue with the threads that call it |
| `Connections` | abstract: what the poll promises |
| `ConnectionPoll` | the poll and the main loop around it; `PollSpec` |
| `Sessions` | logins, exits and tokens over both server threads and the database |
| `MCSessions` | two clients with public addresses of their own |
| `ServerProofs` | theorems about the poll and the sessions |
| `Datagrams` | the bag of datagrams between sockets, and the NATs |
| `PeerToPeer` | extends it with two clients that set up a call, and the server's request behind them |
| `MCPeerToPeer` | in which networks a second call follows |
| `PeerToPeerProofs` | theorems |
| `Jobs` | the two queues of the client, as operators; extended by the next three |
| `Contacts` | one client's contact list, from the tables of the server to the list box and the rings |
| `ContactsProofs` | theorems |
| `ChatWire` | how a list of chats is written and read, as operators |
| `Chats` | extends it with the table of chats and the clients of all users |
| `ChatsProofs` | theorems about the wire and the chats |
| `CallClient` | calls within one client: call threads, job thread, windows |
| `CallClientProofs` | theorems |
| `StreamIO` | how a frame is cut into datagrams and put together, as operators |
| `Streams` | extends it with the senders and readers of the two ends of a call |
| `StreamsProofs` | theorems, and lemmas about `StreamIO` |

Definitions keep the source's names (`insert`, `destroy`, `erase` →
`erase_first`, `reposition_poll`, `m_poll_index`, `old_head`, …). An operator
whose name is another definition's name plus a suffix and whose comment says
*Mutant* is a bug somebody could plausibly write there; no specification uses
it. Each property is shown to be broken by one of them, so none holds by
accident of the model.

### AwaitingUsers and CallControllers

`awaiting` is `m_awaiting_users`. `m_timeouts` is its memory block
`slots[1..cap]`, of which `slots[1..size]` are live: `erase_first` shifts the
live pairs down and leaves the old last pair in its slot, which the worker's
walk, whose end was read before, still visits; `emplace_back` at full capacity
moves to a block twice the size and leaves a running walk in freed memory
(`dangling`), where the references it holds may read anything. The erase is of
`m_timeouts.begin() + index` with an `index` that nothing advances.

`wpc` is the worker's place in `timeout_loop`: wake, test, destroy, erase,
update, sleep. A handler that touches the table in one place is one step with
the code it answers as a parameter. PING is three: the copy of the request and
the start of `update_timeout_status`, one step per pair of that loop (the mutex
is held per assignment only), and the answer from the copy.

`Refused` and `PingNothing` answer and change nothing; they are stuttering
steps, kept because they are the handlers' early returns. Login and exit only
decide whether a token is good here. `told[command][v][u]` is the kind of address
that the last 201 to `command`, PING or ACCEPT, gave user `v` of user `u`; it and
`fresh` are history variables, `requests` is the counter of a bound.

### LockFreeAudioQueue, Fifo and AudioPlayback

A queue over a heap `Nodes`, in which a freed address may be handed out again,
so that a consumer that compares a stale head with a reused one is within the
model. A push takes effect at the store to `m_tail`, a pop at the store to
`m_head`; with those linearization points the queue implements `Fifo` for any
number of pushes, provided one thread pops. `AudioPlayback` says who pops in
the program: the sound card's callback, and `stop` on the network thread and on
the job thread.

### ConnectionPoll and Connections

Slot 0, the listening socket, is left out. Each turn of the two `for` loops
(`select_socket_with_events`, `reposition_poll`) is a step, so clients connect
and send in between; `count_poll_index` only reads what this thread owns and is
one step. The kernel hands out any descriptor that is not open.

A message is read in two halves. `readable` are the sockets whose message has
begun, which is what `poll` reports; `whole` those of which all has come.
`read_header` reads the first ten bytes or finds them wanting; `Serve` is `recv`
with `MSG_WAITALL`, which returns when the rest is there or the connection has
ended. The accepted sockets have no timeout, so the loop stays in `"body"` for
as long as `SendRest` does not happen, and nobody owes it. Whether the client
then stays, exits or fails is a choice.

The poll implements `Connections`, where a client leaves at the moment
`remove_socket` clears its slot and the repair of the hole is invisible.

### Sessions

A `Postgres` method is one transaction: `Begin` opens it on the shared
connection when none is open, `Query(thread, TRUE)` commits its effect, and
`Query(thread, FALSE)` is the exception thrown to the thread that came second,
after which the handler goes on with an empty user or `false` exactly as the
code does. LOGIN is search, `add_token`, `update_user` (called whatever
`add_token` returned); EXIT is the search by token, the search by address when
that found nobody, `logoff`, `remove_user_token`. `Respond` and `RespondFails`
are the end of the loop's turn with `disconnect_client_on_request` and
`disconnect_client_on_failure`, the second of which calls EXIT again with the
token the request still carries. `Restart` loses connections and the open
transaction and keeps the tables. `calm` is a history variable: no transaction
has thrown and the server has not restarted. It qualifies the two properties that say
what the handlers achieve when nothing fails under them.

### Datagrams and PeerToPeer

`net` is the bag of datagrams sent and not yet read; a receive takes any that
is addressed to its socket and passes the NAT, whoever sent it, as `recvfrom`
does. Datagrams overtake each other. One that is lost is one that nobody reads
in time, so there is no action that loses one: `Timeout` ends a receive whether
or not something is on its way. An end behind a NAT (`Filtered`) gets nothing
from a socket of the other end to which its own has not sent; in one network
(`LOCAL`) and from the server everything passes.

Each end has a `P2P` for audio and one for video (`p2p`), constructed one after
the other with sockets of their own, and a place in `Call::connect` and
`udp_connect`, or in `Call::accept` and `udp_accept` (`pc`). A step of an end
runs from where the thread has read a datagram, or slept, to where it waits
again. The server is `ServeConnect`, `ServeAccept`, `ServePing`, `ServeHangup`,
the handlers of `CallControllers` for one caller and one callee (the request's
own life, with several users, is what that module is for), and `Expire`, the
worker that removes a request. `List` is what the callee's client learns from
LIST once a second and what lets its user answer.

Three details decide much of the behaviour. `Failed` keeps the acceptor's video
`P2P` for another ACCEPT on the same socket, and drops every other. 306, the
answer to a CONNECT when there is a request already, counts as a request that
awaits. And a receive that timed out leaves the handshake's request invalid,
after which `UDPConn` neither sends nor receives with it: `Retry` counts its
turns and does nothing else (`Respond`).

`late` counts what came too late up to `MaxLate`: a receive that timed out
although something else could still happen (`~ Stuck`), a request that expired
although its initiator was pinging, an initiator whose sleep after the 201 was
over before the acceptor had read its own 201 and begun to listen, an acceptor
that stopped repeating ACCEPT too early. With `late = 0` the system is as fast
as the code's sleeps suppose; `called_off` records that the initiator hung up or
gave up.

### Jobs and Contacts

`m_jobQ` and `m_resQ` are sequences of jobs. A handler of the job thread is one
step: it takes the job at the head, exchanges with the server, and appends what
`JobBus::handle` would push (`Answered`); a handler of the interface takes one
response. The server's side of an exchange is inside the step (`list_reply`,
`search`, `add`, `remove`), because a client has one connection and the job
thread waits for the answer; `BreakOff` is an exchange that fails, after which
`m_server_req` stays invalid and every later one fails at once.

`Reports` is the heart of it: what `update_contacts` tells the interface of the
difference between two lists, which is a single job, for whichever contact
differs first in the order of a hash table. `overlooked` is a history variable
that records what was not told because of that. `Relist` is the LIST behind ADD
and REMOVE, sent with "200 OK" where its token should be.

`callers_table[c]` for a contact without a ring is a null pointer that is then
dereferenced; `crashed` records it and stops the client.

### ChatWire and Chats

A string is a sequence of tokens (a number, the fields of a chat, a mark, the
delimiter), its size their number. Texts contain the delimiter, so a reader that
split in the wrong place would not get them back. `Chats` sends every list of
chats through `build_response` and `parse_chat`.

A chat has a row (`id` is its place, `created_at` the clock, which need not
advance between two rows). A client is `off`, `loading` or `ready`; `exit` drops
its queues and lines at any point, `log_in` starts another. `ByTime` returns
every order of equal stamps, as the database may. A statement may fail
(`Executes`), which the handlers do not notice. `late` says that the client
created a PENDING while an earlier one, or its answer, was still in the queues,
and `unrecorded` which messages the database failed to write or mark; the
properties say what holds without the one or the other.

### CallClient

`thread` is the place of every call in `Call::connect` or `Call::accept`.
CONNECT only starts the thread; ACCEPT runs in the job thread, which takes no
other job until it is through (`Free`). What the network makes of a set-up is a
choice here, and `PeerToPeer` shows that it ends. `job_intValue` is the job
object that the call thread reads through its reference. `job_video_failed` is
two steps, the box and the user who closes it (`close_box`), since the rest of
the handler runs only then.

The streams are started one after the other, each followed by `buffer`, which
waits for a first package: in the thread of a placed call, or in the job thread
for an answered one. `buffer` returns with a package or after a timeout, or it
is `Held`: the first datagram was shorter than a header, a last "200 OK" of the
handshake, and `receive_header` then waits for one that is not, whatever the
timeout. `header_comes` is the peer that streams after all, which it need not.

`overlap`, `late_hangup`, `stale` and `reused` are history variables for what
the code leaves open: a call begun while another is set up or streams, a HANGUP
handled after the last look at `m_hangup`, the end of one call shown during the
next, the job object reused during a set-up. The properties except them, each
only where it must; all four are reached in the run.

### StreamIO and Streams

`StreamIO` has the arithmetic of `make_packet_info`, the bytes of the header,
and the datagrams of a frame, whose content is the number of the frame and the
place of the chunk; the receiver does not look at either. `Streams` runs it
between two ends: the sender's thread, the microphone's callback, the thread
that starts the streams and buffers a first package, the reader's thread, and
the job thread that stops them all. A call carries sound or picture; only the
sound's reader creates a HANGUP.

`net` is, for each end, the set of the datagrams on their way to it. `Take` is
`recvfrom`: any of them may come, and one that comes before others that were sent
earlier overtakes them (`overtaken`). `Lose` loses one, `Send` leaves out what
`sendto` refuses, and `TimedOut` is a receive that ends with something on its
way (`late`). `faults` counts all three against their bound.

`read_package` waits for a header (`ReadHeader`; `ReadShort` drops what is too
short to be one and goes on without a timeout), then for as many datagrams as it
announced (`ReadData`), whatever they are. A chunk in a header's place is read as
a header (`HeaderRead`): it means nothing unless its first byte happens to be one
of the four letters, which `misread` counts. Then it is a frame of any number of
chunks (`Garbage`), a Done nobody sent, or a type that makes the playback
`Invalid`. A chunk that does not come in time (`Nothing`) makes the request
invalid, so that the frame is not loaded.

`silent` are the ends whose one request for all pictures has become invalid: one
`sendto` that fails silences the picture for good, while Done, a request of its
own, is still sent. `unheard` is a history variable: the ends whose Done was
lost, refused, read as a chunk, or came while the other end was still buffering.

## 3. Runs

Twelve runs, one per question. Ten must pass:

| Run | Question and instance | What it shows |
|---|---|---|
| `CallTable` | Two users, one call each, against the worker; 87 500 states up to symmetry | The worker never erases from an empty vector, neither loop over `m_timeouts` leaves an un-replaced block, and a request that has just been served survives the next walk when no user calls twice. |
| `CallSoleCaller` | One caller who calls twice, two networks; 77 700 states | Both ends of a call are told the same kind of address. With one caller the erase of the *first* pair is harmless: an abandoned request expires. |
| `AudioQueue` | One consumer, four nodes, two packages; 78 000 states | FIFO order and content, no use after free, no leak. |
| `PollTable` | Four descriptors for three slots, any number of messages, whole or cut short; 119 000 states | Compactness, implementation of `Connections`. A polled client that has sent something is served, unless the loop waits for good for the rest of somebody's message or keeps serving lower slots: both happen, and nothing else does. |
| `SessionApart` | Two clients with addresses of their own, two logins, a restart, the UDP thread; 348 000 states | Only its owner ends a session; as long as nothing throws and the server lives, no session outlives its connection and `online` agrees with the tokens. |
| `CallSetUp` | An initiator and an acceptor, audio and video, in one network (where the initiator calls twice) and in two behind NATs; one thing may be late or lost; 106 000 states | Every set-up ends on both sides. An end that is Connected has been sent something by the other end on that very socket. When nothing is late, the first call pairs audio with audio and video with video, and an answered call that is not called off connects, first audio, then video. |
| `Contacts` | One client, two others who come, go and call, three changes, one search, add or remove; 259 000 states | Except for what `update_contacts` overlooks, the list box shows the last LIST once nothing is on its way and the rings are those of the contacts that call; a login gets the client ready, with contacts or without. |
| `Chats` | Two users, three client starts, two messages, one failed statement; 138 000 states | A waiting chat is shown, once and in order unless a PENDING is created before the last is handled, and nothing is marked as delivered that was not loaded. |
| `CallClient` | One client, two calls placed or answered, one HANGUP beside those the code creates, one other job; 502 000 states | A call hung up in its set-up does not start; streams run only on call; both legs of a call go to one peer until the job object is reused; a failed call brings the client off the call, and so does a HANGUP, unless the job thread waits for good in the buffering of an answered call. |
| `Streams` | Two ends, three packages of sound or one picture one way, one datagram lost, refused, late or overtaking, one chunk that looks like a header, one hang-up; 478 000 states | Every frame size adds up. What is loaded was sent, once, in order while nothing overtakes, or is noise: one for a loss or a misread chunk and two for an overtaking at most. While all comes in time and in order, a loss costs two frames at most. When an end stops and its Done is read as Done, the other stops, unless garbage has made its playback invalid. |

Two must find a violation, of one property each that a comment or document of
the repository states; `PROJECT.json` "findings" quotes the line.

| Run | What the code does instead |
|---|---|
| `AudioFlush` | `stop` pops the queue while the callback is popping it. |
| `ContactsRing` | LIST says of a contact that it is calling and not whom: a client rings for a call between two others, and may answer it. |

### Bounds

| Bound | Where | Why it is enough |
|---|---|---|
| `MaxRequests` | CONNECTs answered 200, per user | The vector reaches two pairs, which is where the erase of the wrong pair, the stale end and the reallocation (capacity 1 → 2) happen. A third pair adds longer walks of the same kind; the proofs of `EraseInBounds` and `WalksStayInBlock` cover every length. |
| `Nodes` | heap of the queue | Four nodes hold the dummy, two packages and one address free for reuse, more than a push and a pop under way together need. |
| `m_max`, `Fds` | poll size, descriptors | Three slots give a first, a middle and a last hole; a fourth descriptor competes for them. Proved for every size. |
| `MaxLogins` | tokens generated | One login per client, or two of one client, so that a user may hold two tokens. |
| `MaxCalls`, `MaxAnswers` | calls the initiator places (per network) and the acceptor answers | The second call is where an earlier one's leftovers matter: its request (306), its datagrams, the acceptor still at it. It is explored in one network; the NATs matter to the first call as well as to any other. |
| `MaxLate` | things that come too late or not at all | One: either end's receive, the expiry or the sleep, each at every point, and the property of the timely case is checked on the behaviours where it stays 0. |
| `m_PING_TIMEOUT`, `m_ACCEPT_TIMEOUT`, `m_MAX_PUNCH_TRIALS` | the code's limits, 10, 40 and 20, scaled down | Two pings, one repetition of ACCEPT and one turn of `retry` reach both outcomes of each test. |
| `MaxChanges`, `MaxClicks`, `MaxWaiting` of `Contacts` | what the others do, jobs the user asks for, jobs waiting when the timer goes off | Three changes are two differences within one LIST and one in the next, which is how something is overlooked and what comes after; two waiting jobs let responses and jobs of two LISTs overlap. |
| `Others`, `Callees` | other users | Two, so that one change can hide another. |
| `MaxSent`, `Writers`, `MaxLogins`, `MaxWaiting`, `MaxFaults` of `Chats` | messages, who writes them, client starts, waiting jobs, failed statements | Two messages have an order; three starts are both users' and one again after a client was closed; a second PENDING in the queue is the one that repeats an answer. |
| `MaxCalls`, `MaxHangups`, `MaxTicks` of `CallClient` | calls, HANGUPs of users and peers, other jobs | The second call meets what the first left; a HANGUP meets each of them at every place, beside those that giving up and closing a box create; one other job is enough to reuse the job object. |
| `Sizes`, `AudioSize`, `VideoSize` | sizes of frames | Around the threshold of one package, the growth of the number of chunks and the limit of `receive_data`; one size that fits in a chunk, one of ten chunks. |
| `MaxPackages`, `MaxPictures`, `MaxHangups`, `Talkers` of `Streams` | packages recorded, pictures taken, hang-ups, who sends frames | After a fault the reader may take one frame's chunks for another's; the third package is the one that must be read again. A picture is eleven datagrams with its header, ten chunks and no remainder, and Done follows it. The other direction carries Done only, and runs the same code. |
| `MaxFaults`, `MaxMisread`, `Garbage` of `Streams` | losses, overtakings and late datagrams; chunks that look like a header, and the numbers of chunks they announce | One fault of any kind, at every datagram, and one misread chunk beside it; nothing, or more than is there, announced. `FramesPlayedAsSent` is for any number of each. |
| `MaxRestarts` | restarts | One: after it the tables hold users and tokens without connections, and another restart adds nothing to that. |

`CHECK_DEADLOCK` is off in the five runs of `Contacts`, `Chats`, `CallClient` and
`Streams`, where a behaviour may come to rest: the bounds stop users and timers,
a client may have crashed or been closed, and the streams of a call end. That
nothing stops too early there is what their liveness properties say. It is on in
the others: those loops poll with a timeout and the handlers have an answer to
everything.

### Fairness

* `CallControllers`: weak fairness of the worker, which wakes every two seconds
  and does not block, and of the rest of a PING that has begun, a loop on a
  thread that does not wait for anything. Nothing is assumed of clients:
  `AbandonedRequestExpires` is conditional on their leaving.
* `ConnectionPoll`: weak fairness of the main loop, whose `poll` calls have a
  timeout. Only `Serve` may wait, and `SendRest` has no fairness: clients owe the
  server nothing, not even the rest of a message.
* `PeerToPeer`: weak fairness of the two threads that set up a call, whose
  receives time out after `m_RECEIVE_TIMEOUT` seconds and whose sleeps end, and
  of the server's UDP thread. Nothing is assumed of users, of the worker or of
  the network.
* `Contacts`, `Chats`: weak fairness of the job thread, which loops without
  waiting for anything but the server's answer, of the interface, to which the
  signal of every response is delivered, and of the timer. In `Chats` it is
  stated of the head of the job queue (`TakesJob`): whatever job is there, it is
  taken, which is what the loop does, and leaves the choice of orders to the
  step. Nothing is assumed of users, who may never log in or be gone at once.
* `CallClient`: the same, and of each call thread, whose receives and sleeps end
  (`SetUpEnds` of `PeerToPeer`). None is assumed of `header_comes`: a thread that is
  held in `buffer` may be so for good, the job thread as well as a call's, and
  `HangUpEnds` says so. The interface's fairness includes that the user closes a
  box that is shown; nothing else is assumed of her.
* `Streams`: weak fairness of the threads that send and that read, while they can
  go on, and of the one that starts the streams together with the job thread,
  which at the end that answered are one. What is not lost arrives. The
  microphone, the users and the network's faults owe nothing. That the sender
  empties its queue although the microphone, which `stop` never closes, keeps
  filling it rests on the bound `MaxPackages`; the code does not ensure it.
* `LockFreeAudioQueue`, `Sessions` and `AudioPlayback` have safety properties
  only.

## 4. Proofs

Every safety property that a run checks is a theorem for every value of the
constants, under the assumptions the table names, but for one part of
`PlayedAsSent` (`FoundAgain`).

| Module | Theorem | States | Assumptions |
|---|---|---|---|
| `CallControllersProofs` | `TypeCorrect` | `Spec => []TypeOK` | those on the constants |
| | `WorkerErasesInBounds` | `Spec => []EraseInBounds` | 〃 |
| | `WalksAreInBlock` | `Spec => []WalksStayInBlock` | 〃 |
| | `EndsAgree` | `Spec => EndsAgreeOnNetwork` | 〃 |
| | `FirstRequestIsKept` | `Spec => FirstRequestSurvives` | 〃 |
| | `PingedIsKept` | `Spec => PingedSurvives` | `MaxRequests[u] <= 1` |
| `LockFreeAudioQueueProofs` | `NoUseAfterFree` | `Spec => []NodesAlive` | `OneConsumer` |
| | `NothingLeaks` | `Spec => []NoLeak` | `OneConsumer` |
| | `RefinesFifo` | `Spec => ImplementsFifo` | `OneConsumer` |
| `ServerProofs` | `PollStaysCompact` | `PollSpec => []PollIsCompact` | those on the constants |
| | `PollImplementsConnections` | `PollSpec => ImplementsConnections` | 〃 |
| | `TypeCorrect` | `Spec => []TypeOK` | 〃 |
| | `SessionsAreApart` | `Spec => SessionEndsWithItsOwner` | `HostsApart`, `PasswordsApart` |
| | `NoGhosts` | `Spec => []NoGhostSession` | these and `OneUserEach` |
| | `OnlineMeansLoggedIn` | `Spec => []OnlineIsLoggedIn` | these and `OneUserEach` |
| `PeerToPeerProofs` | `TypeCorrect` | `Spec => []TypeOK` | those on the constants |
| | `ConnectedIsHeard` | `Spec => []ConnectedHeardPeer` | 〃 |
| | `FirstCallIsPaired` | `Spec => []FirstCallPaired` | `MaxLate > 0` |
| `CallClientProofs` | `TypeCorrect` | `Spec => []TypeOK` | those on the constants |
| | `LegsStayTogether` | `Spec => []LegsHaveOnePeer` | 〃 |
| | `HungUpStaysDown` | `Spec => []HungUpCallStaysDown` | 〃 |
| | `OnCallWhileStreaming` | `Spec => []StreamsOnCall` | 〃 |
| `ContactsProofs` | `TypeCorrect` | `Spec => []TypeOK` | 〃 |
| | `BoxIsUpToDate` | `Spec => []BoxShowsLastList` | 〃 |
| | `RingsAreOfCallers` | `Spec => []RingsFollowCalls` | 〃 |
| `ChatsProofs` | `WireIsFaithful` | `parse_chat(build_response(s)) = s` for every list of chats `s` | none |
| | `ChatsTyped` | `Spec => []TypeOK` | those on the constants |
| | `LoadedBeforeMarked` | `Spec => []DeliveredWasLoaded` | 〃 |
| | `NothingShownTwice` | `Spec => []ShownOnce` | 〃 |
| | `ShownAsSent` | `Spec => []ShownInOrder` | 〃 |
| `StreamsProofs` | `TypeCorrect` | `Spec => []TypeOK` | 〃 |
| | `EveryFrameAddsUp` | `Spec => []FramesAddUp` | 〃 |
| | `FramesPlayedAsSent` | `Spec => []`(`LoadedWereSent`, `LoadedOnce`, `LoadedInOrder` and `NoiseIsCaused` of both ends) | 〃 |

Each rests on an inductive invariant `IInv` that the corresponding run was first
made to check. What each adds, and why it has to:

**Call requests.** `EraseInBounds` is not inductive: nothing in it says how many
more visits the walk has. `WalkInv` does: during a walk `end - it + 1 <= size`.
The worker reads `end = size`, each visit erases at most one pair and advances
`it`, and the UDP thread only appends, so the worker cannot erase from an empty
vector although it never looks at the size again. The other half, that an end
read earlier does not exceed the capacity of the block, holds because the block
only grows; it is what keeps PING's loop inside the block while the worker
erases. `dangling` is the one way out, and the properties say so.

`EndsAgreeOnNetwork` speaks of two answers, one to ACCEPT and a later one to
PING, between which the request may be copied, destroyed and placed again.
`Agree` closes the gap: as long as a request, or the copy PING works on, names a
peer, the answer that peer's ACCEPT got is the one the request's two hosts give.

`FirstRequestSurvives` is the sharper form of `PingedSurvives`: it is about the
first request of any user, whatever the others do. `FreshInv` needs three facts.
A user who has placed one request has at most one pair in the vector (`OnePair`).
While the worker sleeps that pair is not `Detached`, or PING's loop, which will
overwrite its status, has not passed it yet (`AsleepInv`). While the worker walks,
no slot ahead of it, live or not, is a `Detached` pair of that user, since an
erase copies pairs towards the front only (`WalkingInv`). It cannot say more:
`destroy` leaves the pair of a request that is gone, and the second request of a
user shares the vector with it, so `PingedIsKept` assumes one request each.

**Audio queue.** `QueueInv` ties the linked nodes to `chain`, the ghost list of
nodes from head to tail: consecutive in `next`, without repetition, allocated,
all but the dummy holding a package (`ChainInv`); a push holds a node outside it
and has filled and linked the dummy as far as its place says (`PushInv`); a pop
holds the head, and after its store a node that nobody reaches any more
(`PopInv`). `OneConsumer` (`Consumers` has at most one element) is the header
file's own assumption; without it `PopInv` fails at once, and `AudioFlush`
shows that the program violates it. The refinement proof maps each store to
`m_tail` to an enqueue and each store to `m_head` to a dequeue, and every other
step to a stutter. For `NoLeak` the same invariant is enough once it is read node
by node: a node is allocated exactly when somebody holds it (`Held`), and each
step changes who holds one node.

**Poll.** `PollInv` describes the poll inside `remove_socket`: exactly one hole
below `m_poll_index` (`HoleAt`), not yet passed by the loop unless it is already
last. That a single pass of `reposition_poll` suffices rests on one slot holding
the descriptor, the second conjunct of `PollIsCompact`. The refinement proof
uses the same hole to define which clients are connected while it is moved.

**Sessions.** `LoginInv` (the user LOGIN and CREATE work on is one whose
password the client knows) makes the type invariant inductive. `SessionInv` adds
where the tables' contents come from: a token was issued over a connection of a
client that knows the password, an address belongs to such a client, and so does
the user EXIT is about to log off. `HostsApart` (no two clients share an
address) and `PasswordsApart` (no two clients know the same user's password) are
exactly what turns "somebody at that address" into "the owner". No assumption is
made on transactions: they may throw at any point and the server may restart.

`NoGhostSession` and `OnlineIsLoggedIn` hold until something throws, so
`CalmInv` describes the calm part: the tokens a client holds and sends are of its
own connection (`TokensInv`), the address in a logged-in user's row is that of
the connection its token came from, except between the two writes of LOGIN and
of EXIT (`RowsInv`), and that connection is still there (`ConnInv`). A connection
that breaks off is then found by its address, which is why `HostsApart` is
needed here as well. `OneUserEach` (a client knows one user's password) keeps a
second LOGIN over the same connection from leaving the first user behind.

**Call set-up.** That an end is `Connected` follows from a 200 it read while it
awaited one, and the server's answers to CONNECT and HANGUP are 200 too. For the
acceptor none is under way (`DatagramInv`: only an initiator asks what is answered
so). For the initiator `AskedInv` counts: until the answer to its CONNECT is read
there is one such datagram, the command or the answer, once; past it there is none,
or else what was read in its place came from the other end, which is all that
`ConnectedHeardPeer` asks (`Heard`); and it has sent no HANGUP on this socket while
it goes on. That a new P2P starts clean rests on the numbers of the sockets, none
of which any datagram names before it is opened. Late, lost and reordered
datagrams, an earlier call's leftovers and the server's expiry are all within it.
`EndsInv`, `ReqInv` and `RequestInv` carry the addresses: what the server tells an
end is a socket of the other one.

`FirstCallPaired` needs to know all that two ends and the server do until the end
of a call in which nothing is late. The result is in the numbers of the sockets:
the initiator's are 1 for audio and 2 for video, and it shakes hands only with the
acceptor's of the same number (`Numbers`); the acceptor's P2P for one stream never
has the other stream's number once there has been a handshake (`AcceptorNumbers`).
What could break it is an acceptor that goes out of step: it repeats `ACCEPT` for
video on the socket it has, or goes idle and is asked again, while a request says
neither which stream nor which call it is for. `First` shows that it keeps step:

* `AcceptorAsks`, `InitiatorAsks` and `ConnectInv`: each end has one command or
  answer under way while it waits for one, and a `CONNECT` is the first anybody
  hears of its socket (`Unknown`).
* `RequestIs`: the request is of the initiator's last socket, and is gone as soon
  as it has been answered with 201.
* `Meets`: as long as the initiator may still be connected (`Alive`) and has not
  shaken hands, the acceptor is at the same stream or has yet to come to it, and once
  the initiator has been told of it (`Named`) it stays until the 200 arrives.
* `Follows` and `GoesOn`: an acceptor that was sent a 200 is connected by it and
  goes on to video, where it stays as long as the initiator is there to ask.

Nothing late is what makes an acceptor stay: a receive times out only in a state that
is `Stuck`, and the proof finds in each state in which somebody waits the datagram
that still moves (`AskingIsNotStuck`). A datagram may be lost at any time; a lost
one ends the attempt and does not bring it out of step. `PlacesInv`, which holds in every
call, ties an end's place in the code to the state of its P2P. Before the first
call there is nothing (`Blank`), and with the second the claim is over.
`MaxLate > 0` is a bound of the model: with `MaxLate = 0` nothing could be counted
as late, and a late handshake would be taken for a timely one.

**Calls in a client.** A call that is hung up must find its thread, which may not
have begun. `BeginningInv` and `OrderInv` say that a call which exists and has
not begun waits in the job queue, once, with its peer, and before every HANGUP
for it, because the queue is first in, first out. From there `HangupInv`: the
flag of a call that was hung up lives until its thread looks at it, unless two
calls overlap. `StreamsOnCall` needs the converse from the interface's side
(`DownInv`): whenever it is off the call, or is about to hear of a HANGUP, no
call has streams or will get them (`Down`). `LegsInv` ties both legs to the job
object until that is reused.

**Contacts.** The list box and the rings are behind by two queues. `BoxInv`: the
box shows the last list, or the last DISP_CONTACTS among the responses carries
it, or another is among the jobs. `RingInv` is the same for rings, which are
changes rather than states: the responses, taken in order, lead from the rings
there are to some set, and the jobs from there to the callers of the last list
(`Leads`), each change fitting the rings it meets (`Fits`). This is why the
interface never hides a ring it does not have. Both hold until a difference is
overlooked. That following the jobs from two equal sets leads to equal sets is
an induction over the positions of a queue (`Stepping`).

**Chats.** The wire comes first. The loops of `build_response` and
`load_chat` are recursive functions of the position they have reached (`Built`,
`Loading`); that such a function exists, and what it holds at each position, is
proved from the least position at which it would not (`Divides` says what the
reader has after a whole number of chats). So a list of chats of any length is
read back as it was written although every text begins and ends with the
delimiter, and from there on an answer is the list the server made.

`DeliveredWasLoaded` needs `Table` (an id is a place in the table, a mark is that
of a party who has loaded the chat) and `Marks` (so is every DELIVERED job).
`ShownOnce` and `ShownInOrder` hold until a PENDING is created while another is
under way (`late`), and are about the boxes only. The invariant is about
everything that a box may come to show. `Rows`: the rows of a sender are in the
order of her writing, and the clock does not go back; `Waiting`: a message in the
job queue is not in the table yet and comes after those of its sender that are.
`Answers` and `Box`: what an answer or a box holds stands for a row of that user.
`Phased`: CHAT is answered once, into empty boxes. Then, unless something was
late: there is one PENDING at a time (`OneAtATime`); a row is shown or is under
way in one response, not both (`Once`); what the client has got is marked, or its
DELIVERED job stands before the next PENDING (`Settled`); and of two messages of
one sender the first is shown, or is on its way, before the second (`InOrder`).
`Settled` is what makes the rest inductive: PENDING lists the rows that are not
marked, which are then rows the client does not have; and a message that was
just written is shown nowhere, since no earlier message has its number.

**Streams.** `EveryFrameAddsUp` is for all sizes `receive_data` accepts, of which
the run checks eight. A frame at or above the threshold is cut into m chunks
of p bytes and leaves r < m bytes over; r is less than p too, because p is at least
100 for ten chunks and above 112, the largest m, for the larger frames. So
dividing the size by p gives m back (`Quotient`, `LargeFrame`), and the eight
bytes of a number below 2^31 read back as that number (`PushToHeader`,
`HeaderIsRead`). For the type invariant, `Counts` counts the frame that an end may
still send without a package (`EmptyFrame`), which is what keeps the number of
frames within its bound.

`FramesPlayedAsSent` is about numbers that no datagram carries, over a network
that keeps no order: the reader finds the next frame only by whether a datagram
has the size and the first letter of a header. `EndInv` describes one end: what
is on its way (each datagram once, `Carries`), what `read_package` has taken
(`ReadState`), what was loaded. That no frame is loaded twice rests on its first
chunk, which is taken once: no first chunk of a loaded frame is on the network or
being read (`Fresh`). That frames come in order while nothing overtakes is the
same with an order (`Ordered`).

The noise is counted before it is heard. A header on the network is `Torn` when a
chunk of its frame is missing there: reading it will end in noise, or is cut
short. What is being read is `Fine` when it is the beginning of a frame whose
rest comes next, and `Doomed` otherwise. What was loaded as noise, the torn
headers and a doomed reading together (`Owed`) never exceed `Blame`, the losses,
the misread chunks and twice the overtakings. The step that matters is a chunk
that is taken out of its place: it tears the header of its own frame, and dooms
the frame it comes into, and that is all. A header taken as a chunk dooms the
reading and takes itself, torn or not, off the network. It holds for frames of
every size, any number of frames, faults and misread chunks, and whatever the
garbage announces.

### Only model-checked

* Liveness (`AbandonedRequestExpires`, `PolledIsServed`, `SetUpEnds`,
  `AnsweredCallConnects`, `LoginGetsReady`, `ChatArrives`, `HangUpEnds`,
  `PlacedCallLeaves`, `DoneEndsPeer`): progress under fairness is outside the
  prover's reach.
* `FoundAgain`, the part of `PlayedAsSent` that says what a loss costs while all
  else comes in time and in order: two frames at most.

The type invariants of the queue and of the poll are conjuncts of what is proved
there. The induction theorems of the library cannot be instantiated; where a proof
goes along a queue, a list or a stream it takes the least position at which the
claim would fail.

## 5. Abstractions

* `WorkerUpdate` changes every pair of a user in one step; the append of another
  user between two turns of that inner loop is not interleaved.
* The map `m_awaiting_users` is read and written by two threads without a
  common lock in places (`get`, `exists`, `insert` against `destroy`). Its
  insertions and removals are atomic in the model: the data race inside
  `unordered_map` is not.
* What two threads do to one libpq connection beyond the exception for a second
  open transaction is not modelled.
* A password check succeeds or fails by choice of the client: `LoginAs` is what
  a client can log in as, and `LoginRefuse` every way a LOGIN is refused.
* `Sessions` takes the poll's capacity as unlimited, and a request as read at once;
  `ConnectionPoll` reads it in two halves and takes what it asks as opaque.
* `AudioPlayback` has one call at a time and leaves out `buffer`, which loads
  from the call's thread before the device is opened, and video, whose frames
  do not pass through the queue. `Streams` has both and leaves out the output
  queue.
* `PeerToPeer` has one caller and one callee, whose tokens are good. The
  initiator calls again only after the thread of its last call has ended (the
  overlap of two such threads is in `CallClient`), the acceptor does not reject, and a datagram is not duplicated. The IP address of a peer is
  taken from the server's answer as the socket it came from; the choice between
  its local and its public form is `network`.
* An exchange with the server is one step of `Contacts` and `Chats`: a handler
  that makes two queries is not interleaved with another client's between them.
  The sessions behind the exchanges are good (`Sessions`).
* The jobs that a module does not name (`GETUSER`, `GETID`, `SETUSER`, `SETPASS`,
  the settings' ones) change nothing it has a variable for; in `CallClient` one
  command, `PENDING`, stands for all that do not concern a call.
* `Contacts` has one client in full; the others are their columns in the tables.
  `Call::remove_caller` at a hang-up, which only lets the same caller ring
  again, is left out, and so are windows other than the list box and the rings.
* In `Chats` a message shown is its text; date, sender's name and notification
  are left out. Contacts do not change while the clients run.
* In `CallClient` a set-up succeeds or fails by choice. `m_connected` is read
  for nothing and left out. After an overlap two threads use one `P2P`, which is
  undefined behaviour: the model goes on as if each had its own, and the
  properties except what follows.
* In `CallClient` only what holds a thread is modelled of `buffer`; what it loads is
  in `Streams`.
* In `Streams` a datagram is lost when its turn to arrive has come, which no reader
  can tell from earlier, and none is delivered twice. `sendto` refuses at most one
  datagram of a frame. Of a chunk that looks like a header the letter and the number
  of chunks are modelled, not the sizes it tells: with any of them what is put
  together is noise. Two identical contents count as different.
  After a timeout of its header the request is invalid and the rest of
  `read_package`'s hundred tries do nothing, so one is enough; how often it tries
  again after garbage is a choice. What is left in the input queue for the next
  call, and the second, stale HANGUP that an end creates when it reads the Done of
  the peer it has itself hung up on, are outside: a call in `Streams` is one call
  (`stale` in `CallClient` is what that HANGUP does to the next).
* The atomics are sequentially consistent, as written (default memory order).

## 6. Findings

The two violations are listed in section 3 and quoted in `PROJECT.json`. Both
come from something that is not said: the queue does not know its consumers, a
call request not whom it is for.

The modules also state properties that the code does not keep and that no run
checks, because the counterexample is understood and the run's place is taken by
a property that holds. To see one, add its name to a configuration:

| Property | What the code does instead |
|---|---|
| `CallControllers!PingedSurvives` with a user who calls twice (`CallTwice`) | `destroy` leaves the request's timeout behind; the new request is lost to the old timeout, although it is pinged. |
| `CallControllers!AbandonedRequestExpiresInPlace` with two callers | The first pair goes instead of the detached one, and a request whose caller has left stays for ever. |
| `Sessions!SessionEndsWithItsOwner` with one address for both clients | A client that never logged in and breaks off ends another client's session. |
| `PeerToPeer!PairedWhenTimely` with a second call | The callee's video connection of the first call answers the second call's audio. |
| `PeerToPeer!RetrySends` | The retries of the handshake send nothing: the receive that failed has made the request invalid. |
| `CallClient!LegsHaveOnePeer` without `\ reused` | The timer's next job changes the peer of the second leg. |
| `ConnectionPoll!PolledIsServed` without `<>[]Waiting` | A client that sends a header and no message holds the TCP thread, and everybody else, for good. |
| `CallClient!HangUpEnds` without `<>[]JobThreadHeld` | The initiator leaves between the handshake and its first package; the answering client waits for it in the job thread, and its user's HANGUP is never handled. |
| `Streams!DoneEndsPeer` without `e \in unheard` | A Done that is lost or taken for a chunk leaves the other end streaming. |

## 7. Running

    tlc -workers 2 -config CallTable.cfg MCCallControllers
    tlapm ServerProofs.tla

A run's module and configuration are in `PROJECT.json` "runs"; none takes more
than two and a half minutes. The proofs need an SMT solver, Zenon and LS4; the
longest, `ChatsProofs` and `PeerToPeerProofs`, take about ten minutes each.

## 8. Not modelled, and why

* **Text framing** (`TextIO`, `ActiveConn`, `Connection`) of the client, and the
  server's responses: a length header over TCP; the models only see that an
  exchange succeeds or fails. What the server receives is in `ConnectionPoll`.
* **Protocol data** (`Request`, `Reply`, `ServerCommand`, `User`, `Data`): values
  and conversions; the models use the codes and the fields. Chats and stream
  types, whose conversions can go wrong, are in `ChatWire` and `StreamIO`.
* **Codecs and devices** (`AudioConverter`, `Webcam`, SDL, ffmpeg): numeric and
  external.
* **Widgets**: settings, sounds, notifications and layout. The handlers that
  keep state are in `Contacts`, `Chats` and `CallClient`.
* **Registration, program start, configuration, logging, local address**: no
  state that the protocols depend on once the program runs.
* **AVAILABLE, REJECT of `P2P`, PEER_HANGUP, AUDIO_FAILED**: no client sends the
  first, the second is an exchange whose result nobody uses, the last two never
  reach the interface.
* **Test clients**: not part of the system.

## 9. Plan

Done, in order: `AwaitingUsers` and `CallControllers`; the audio queue;
the poll; the sessions; `Datagrams` and `PeerToPeer`; `Contacts`; `ChatWire` and
`Chats`; `CallClient`; `StreamIO` and `Streams`.

Done as well: the theorems of section 4.

Abstract specifications worth adding: a call as two ends that agree
(`PeerToPeer`, `CallClient` and `Streams` implement it), a contact list as the
last answer of the server.
