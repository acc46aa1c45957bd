----------------------------- MODULE CallClient -----------------------------
(***************************************************************************)
(* Calls within one client: the windows, the job thread and the call       *)
(* threads (src/src/client/user/call.cpp, client.cpp, gui/central_gui.cpp, *)
(* gui/central_jobs.cpp, gui/ring_gui.cpp, gui/call_gui.cpp).              *)
(*                                                                         *)
(* CONNECT starts a thread of its own, which pings the peer and then       *)
(* starts the streams; ACCEPT does the same in the job thread, which takes *)
(* no other job meanwhile.  HANGUP leaves a flag for the threads and stops *)
(* the streams.  Whoever starts the streams first waits for a package of   *)
(* the peer's, and that wait need not end.  What a P2P makes of the network is in module PeerToPeer;  *)
(* here a set-up succeeds or fails.  What the streams do is in module      *)
(* Streams; here they run or not.                                          *)
(***************************************************************************)
EXTENDS Integers, FiniteSets, Jobs

CONSTANTS Peers, NoPeer,
          MaxCalls,    \* bound: calls placed and answered, altogether
          MaxHangups,  \* bound: HANGUPs from the user and from peers, altogether
          MaxTicks     \* bound: jobs of the timer

ASSUME PeersAssumption == NoPeer \notin Peers
ASSUME CallBoundsAssumption == MaxCalls \in Nat /\ MaxHangups \in Nat /\ MaxTicks \in Nat

Calls == 1..MaxCalls
NoCall == 0

VARIABLES m_jobQ, m_resQ, \* JobBus
          job_intValue,   \* whom the job object of JobBus::handle is about
          reused,         \* history: placed calls in set-up when it was reused
          m_hangup,       \* Call
          thread,         \* where each call is
          valid_video,    \* of each call
          audio, video,   \* the call whose streams run
          m_on_call, window, \* CentralGui, and whether its m_call is shown
          boxes,          \* the calls of whose failure a message box tells
          placed, hangups, ticks, \* the counters of the bounds
          asked, dialled, \* history: whom a call is for, and whom its legs went to
          placed_calls,   \* history: the calls made by CONNECT
          hung_up,        \* history: calls in set-up when a HANGUP was handled
          late_hangup,    \* history: those that had looked at the flag for the last time
          overlap,        \* history: a call began before the last one was over
          stale           \* history: the end of one call was shown during the next

bus     == <<m_jobQ, m_resQ>>
object  == <<job_intValue, reused>>
gui     == <<m_on_call, window, boxes>>
streams == <<audio, video>>
legs    == <<thread, valid_video, dialled>>
bounds  == <<placed, hangups, ticks, asked, placed_calls>>
history == <<hung_up, late_hangup, overlap, stale>>
vars    == <<bus, object, m_hangup, legs, streams, gui, bounds, history>>

Job == [m_command : {"CONNECT", "ACCEPT", "REJECT", "HANGUP", "PENDING",
                     "VIDEO_STREAM", "VIDEO_FAILED"},
        m_intValue : Peers \cup {NoPeer}, call : Calls \cup {NoCall}]
NewJob(command, peer, call) ==
  [m_command |-> command, m_intValue |-> peer, call |-> call]
\* The peer is not named; call is the call that the creator means, which no job
\* of the program tells.
Notice(command, call) == NewJob(command, NoPeer, call)

\* A call that was placed: dialling, pinging, between the tests of m_hangup.
Placing   == {"begin", "audio", "look", "begin_video", "video", "look_again"}
\* A call that is being answered, in the job thread.
Answering == {"accept_audio", "accept_video"}
\* Streams and playbacks are started; held after a datagram that is too short.
Held      == {"held", "held_video"}
Starting  == {"start", "buffer", "start_video", "buffer_video"} \cup Held
Threads   == Placing \cup Answering \cup Starting \cup {"none", "over"}
InSetUp(c) == thread[c] \notin {"none", "over"}

\* The job thread answers one call at a time.
TypeOK ==
  /\ m_jobQ \in Seq(Job) /\ m_resQ \in Seq(Job)
  /\ job_intValue \in Peers \cup {NoPeer} /\ reused \subseteq placed_calls /\ m_hangup \in BOOLEAN
  /\ thread \in [Calls -> Threads] /\ valid_video \in [Calls -> BOOLEAN]
  /\ audio \in Calls \cup {NoCall} /\ video \in Calls \cup {NoCall}
  /\ m_on_call \in BOOLEAN /\ window \in BOOLEAN /\ boxes \subseteq Calls
  /\ placed \in 0..MaxCalls /\ hangups \in 0..MaxHangups /\ ticks \in 0..MaxTicks
  /\ asked \in [Calls -> Peers \cup {NoPeer}]
  /\ dialled \in [Calls -> SUBSET (Peers \cup {NoPeer})]
  /\ placed_calls \subseteq Calls /\ hung_up \subseteq Calls
  /\ late_hangup \subseteq hung_up
  /\ overlap \in BOOLEAN /\ stale \in BOOLEAN
  /\ Cardinality({c \in Calls \ placed_calls : InSetUp(c)}) <= 1

Init ==
  /\ m_jobQ = <<>> /\ m_resQ = <<>> /\ job_intValue = NoPeer /\ reused = {} /\ m_hangup = FALSE
  /\ thread = [c \in Calls |-> "none"] /\ valid_video = [c \in Calls |-> FALSE]
  /\ audio = NoCall /\ video = NoCall
  /\ m_on_call = FALSE /\ window = FALSE /\ boxes = {}
  /\ placed = 0 /\ hangups = 0 /\ ticks = 0
  /\ asked = [c \in Calls |-> NoPeer] /\ dialled = [c \in Calls |-> {}]
  /\ placed_calls = {} /\ hung_up = {} /\ late_hangup = {} /\ overlap = FALSE /\ stale = FALSE

Underway == {c \in Calls : InSetUp(c)} \cup ({audio, video} \ {NoCall})

Goto(c, pc) == thread' = [thread EXCEPT ![c] = pc]
Respond(command, c) == m_resQ' = Answered(m_resQ, Notice(command, c))

----------------------------------------------------------------------------
(* The call thread of Call::connect.  It reads the job through a reference  *)
(* to the object in which JobBus::handle keeps the job it has taken last.   *)

\* A P2P object, and its CONNECT for the peer that the job names by now.
Dial(c, pinging, refused) ==
  /\ dialled' = [dialled EXCEPT ![c] = @ \cup {job_intValue}]
  /\ Goto(c, pinging) \/ Goto(c, refused)

\* The end of a thread whose audio failed.
FailCall(c) ==
  /\ Respond("VIDEO_FAILED", c)
  /\ Goto(c, "over")

dial_audio(c) ==
  /\ thread[c] = "begin"
  /\ dialled' = [dialled EXCEPT ![c] = @ \cup {job_intValue}]
  /\ \/ Goto(c, "audio") /\ UNCHANGED m_resQ
     \/ FailCall(c)
  /\ UNCHANGED <<m_jobQ, m_hangup, valid_video, streams>>

\* udp_connect, its loop of pings: each round ends with tests of the status,
\* of m_hangup and of the number of trials.
ping_audio(c) ==
  /\ thread[c] = "audio"
  /\ \/ /\ Goto(c, "look") /\ UNCHANGED bus \* accepted, or hung up
     \/ FailCall(c) /\ UNCHANGED m_jobQ            \* an error
     \/ /\ ~ m_hangup                              \* giving up
        /\ m_jobQ' = create(m_jobQ, <<Notice("HANGUP", c)>>)
        /\ FailCall(c)
  /\ UNCHANGED <<m_hangup, valid_video, dialled, streams>>

\* The two tests of m_hangup after the legs.
LookAtHangup(c, next) ==
  /\ Goto(c, IF m_hangup THEN "over" ELSE next)
  /\ m_hangup' = FALSE
  /\ UNCHANGED <<bus, valid_video, dialled, streams>>

look(c) == thread[c] = "look" /\ LookAtHangup(c, "begin_video")

dial_video(c) ==
  /\ thread[c] = "begin_video"
  /\ Dial(c, "video", "look_again")
  /\ UNCHANGED <<bus, m_hangup, valid_video, streams>>

ping_video(c) ==
  /\ thread[c] = "video"
  /\ \/ valid_video' = [valid_video EXCEPT ![c] = TRUE] /\ UNCHANGED m_jobQ
     \/ UNCHANGED <<m_jobQ, valid_video>>
     \/ /\ ~ m_hangup
        /\ m_jobQ' = create(m_jobQ, <<Notice("HANGUP", c)>>) /\ UNCHANGED valid_video
  /\ Goto(c, "look_again")
  /\ UNCHANGED <<m_resQ, m_hangup, dialled, streams>>

\* Mutant: the second test of m_hangup is left out.
look_only_once(c) ==
  /\ thread[c] = "look_again" /\ Goto(c, "start")
  /\ UNCHANGED <<bus, m_hangup, valid_video, dialled, streams>>

look_again(c) == thread[c] = "look_again" /\ LookAtHangup(c, "start")

\* audio_stream, by either thread: the microphone and the sender run.
start_audio(c) ==
  /\ thread[c] = "start"
  /\ audio' = c /\ Goto(c, "buffer")
  /\ UNCHANGED <<bus, m_hangup, valid_video, dialled, video>>

\* audio_playback, when buffer has returned; also after a hang-up.
play_audio(c) ==
  /\ audio' = c /\ Goto(c, "start_video")
  /\ UNCHANGED <<bus, m_hangup, valid_video, dialled, video>>

\* Without video a call that was placed says so; for one that was answered
\* Client::call_accept writes DISCARD over it.
start_video(c) ==
  /\ thread[c] = "start_video"
  /\ IF valid_video[c]
     THEN video' = c /\ Goto(c, "buffer_video") /\ UNCHANGED m_resQ
     ELSE /\ Goto(c, "over") /\ UNCHANGED video
          /\ IF c \in placed_calls THEN Respond("VIDEO_FAILED", c) ELSE UNCHANGED m_resQ
  /\ UNCHANGED <<m_jobQ, m_hangup, valid_video, dialled, audio>>

play_video(c) ==
  /\ video' = c /\ Respond("VIDEO_STREAM", c) /\ Goto(c, "over")
  /\ UNCHANGED <<m_jobQ, m_hangup, valid_video, dialled, audio>>

\* Playback::buffer, for both: read_package returns with a package, or gives up
\* when nothing comes in time.  The first datagram may be shorter than a header,
\* a last text of the handshake; receive_header then waits for one that is not.
buffer(c) ==
  \/ /\ thread[c] \in {"buffer", "buffer_video"}
     /\ Goto(c, IF thread[c] = "buffer" THEN "held" ELSE "held_video")
     /\ UNCHANGED <<bus, m_hangup, valid_video, dialled, streams>>
  \/ thread[c] = "buffer" /\ play_audio(c)
  \/ thread[c] = "buffer_video" /\ play_video(c)

\* The peer streams after all.
header_comes(c) ==
  /\ \/ thread[c] = "held" /\ play_audio(c)
     \/ thread[c] = "held_video" /\ play_video(c)
  /\ UNCHANGED <<object, gui, bounds, history>>

Starts(c) == start_audio(c) \/ start_video(c) \/ buffer(c)

CallThread(c) ==
  /\ \/ dial_audio(c) \/ ping_audio(c) \/ look(c)
     \/ dial_video(c) \/ ping_video(c) \/ look_again(c)
     \/ c \in placed_calls /\ Starts(c)
  /\ UNCHANGED <<object, gui, bounds, history>>

----------------------------------------------------------------------------
(* The job thread.                                                          *)

\* Mutant: a call is answered in a thread of its own.
FreeAlways == TRUE

\* JobBus::handle is free to take a job: no call is being answered.
Free == \A c \in Calls \ placed_calls : ~ InSetUp(c)

Takes(command) ==
  /\ Free /\ Next_is(m_jobQ, command)
  /\ m_jobQ' = Tail(m_jobQ)
  /\ job_intValue' = Head(m_jobQ).m_intValue
  /\ reused' = reused \cup {c \in placed_calls : InSetUp(c)}

\* A new call resets the flag and drops the P2P of another.
Begin(c, pc) ==
  /\ m_hangup' = FALSE /\ Goto(c, pc)
  /\ overlap' = (overlap \/ Underway # {})

connect ==
  /\ Takes("CONNECT")
  /\ Begin(Head(m_jobQ).call, "begin")
  /\ UNCHANGED <<m_resQ, valid_video, dialled, streams, hung_up, late_hangup, stale>>

accept ==
  /\ Takes("ACCEPT")
  /\ Begin(Head(m_jobQ).call, "accept_audio")
  /\ dialled' = [dialled EXCEPT ![Head(m_jobQ).call] = {Head(m_jobQ).m_intValue}]
  /\ UNCHANGED <<m_resQ, valid_video, streams, hung_up, late_hangup, stale>>

\* With audio it goes on; without, AUDIO_FAILED is overwritten by DISCARD.
accept_audio(c) ==
  /\ thread[c] = "accept_audio"
  /\ Goto(c, "accept_video") \/ Goto(c, "over")
  /\ UNCHANGED <<valid_video, m_resQ, dialled, streams>>

\* It is tried again until it succeeds or the trials are used up.
accept_video(c) ==
  /\ thread[c] = "accept_video" /\ Goto(c, "start")
  /\ dialled' = [dialled EXCEPT ![c] = @ \cup {job_intValue}]
  /\ \E valid \in BOOLEAN : valid_video' = [valid_video EXCEPT ![c] = valid]
  /\ UNCHANGED <<m_resQ, streams>>

accepting(c) ==
  /\ c \notin placed_calls
  /\ \/ (accept_audio(c) \/ accept_video(c)) /\ UNCHANGED <<m_jobQ, m_hangup>>
     \/ Starts(c)
  /\ UNCHANGED <<object, history>>

\* Only the peer is told.
reject ==
  /\ Takes("REJECT")
  /\ UNCHANGED <<m_resQ, m_hangup, legs, streams, history>>

\* Mutant: the audio is left to the hang-up of the peer.
hangup_video ==
  /\ Takes("HANGUP")
  /\ m_hangup' = TRUE
  /\ video' = NoCall /\ UNCHANGED audio
  /\ m_resQ' = Answered(m_resQ, Head(m_jobQ))
  /\ hung_up' = hung_up \cup {c \in Calls : InSetUp(c)}
  /\ late_hangup' = late_hangup \cup {c \in Calls : thread[c] \in Starting}
  /\ UNCHANGED <<legs, overlap, stale>>

hangup ==
  /\ Takes("HANGUP")
  /\ m_hangup' = TRUE
  /\ audio' = NoCall /\ video' = NoCall
  /\ m_resQ' = Answered(m_resQ, Head(m_jobQ))
  /\ hung_up' = hung_up \cup {c \in Calls : InSetUp(c)}
  /\ late_hangup' = late_hangup \cup {c \in Calls : thread[c] \in Starting}
  /\ UNCHANGED <<legs, overlap, stale>>

\* PENDING stands for the jobs of the other modules; none of them concerns a
\* call, but each of them is taken into the job object.
other_job ==
  /\ Takes("PENDING")
  /\ UNCHANGED <<m_resQ, m_hangup, legs, streams, history>>

JobThread ==
  /\ connect \/ accept \/ reject \/ hangup \/ other_job \/ \E c \in Calls : accepting(c)
  /\ UNCHANGED <<gui, bounds>>

----------------------------------------------------------------------------
(* The interface.                                                           *)

Response(command) == Next_is(m_resQ, command) /\ m_resQ' = Tail(m_resQ)

\* Mutant: the window is hidden, but the client stays on call.
job_hangup_window_only ==
  /\ Response("HANGUP")
  /\ window' = FALSE /\ UNCHANGED <<m_on_call, boxes, stale>>

job_hangup ==
  /\ Response("HANGUP")
  /\ m_on_call' = FALSE /\ window' = FALSE /\ UNCHANGED boxes
  /\ stale' = (stale \/ Head(m_resQ).call # placed)

\* A box that waits for the user; only then HANGUP.
job_video_failed ==
  /\ Response("VIDEO_FAILED")
  /\ boxes' = boxes \cup {Head(m_resQ).call} /\ UNCHANGED <<m_on_call, window, m_jobQ>>

job_video_stream ==
  /\ Response("VIDEO_STREAM")
  /\ UNCHANGED <<gui, m_jobQ>>

\* Mutant: the window is closed and nothing hung up.
close_box_only(c) ==
  /\ c \in boxes /\ boxes' = boxes \ {c}
  /\ window' = FALSE
  /\ UNCHANGED <<m_on_call, bus>>

\* The user closes the box of job_video_failed, which goes on.
close_box(c) ==
  /\ c \in boxes /\ boxes' = boxes \ {c}
  /\ m_jobQ' = create(m_jobQ, <<Notice("HANGUP", c)>>)
  /\ window' = FALSE
  /\ UNCHANGED <<m_on_call, m_resQ>>

Interface ==
  /\ \/ job_hangup /\ UNCHANGED m_jobQ
     \/ /\ job_video_stream \/ job_video_failed \/ \E c \in Calls : close_box(c)
        /\ UNCHANGED stale
  /\ UNCHANGED <<object, m_hangup, legs, streams, bounds, hung_up, late_hangup, overlap>>

NewCall(p) ==
  /\ placed < MaxCalls /\ placed' = placed + 1
  /\ asked' = [asked EXCEPT ![placed + 1] = p]

on_call_clicked(p) ==
  /\ ~ m_on_call /\ NewCall(p)
  /\ m_on_call' = TRUE /\ window' = TRUE
  /\ m_jobQ' = create(m_jobQ, <<NewJob("CONNECT", p, placed')>>)
  /\ placed_calls' = placed_calls \cup {placed'}
  /\ UNCHANGED <<boxes, hangups, ticks>>

\* The job is created before started_call looks whether there is a call.
on_answer_clicked(p) ==
  /\ NewCall(p)
  /\ m_jobQ' = create(m_jobQ, <<NewJob("ACCEPT", p, placed')>>)
  /\ m_on_call' = TRUE
  /\ window' = IF m_on_call THEN window ELSE TRUE
  /\ UNCHANGED <<boxes, placed_calls, hangups, ticks>>

on_ignore_clicked(p) ==
  /\ ticks < MaxTicks /\ ticks' = ticks + 1
  /\ m_jobQ' = create(m_jobQ, <<NewJob("REJECT", p, NoCall)>>)
  /\ UNCHANGED <<gui, placed, placed_calls, hangups, asked>>

\* on_hangup_clicked and reject, while the window is shown.
on_hangup_clicked ==
  /\ window /\ hangups < MaxHangups /\ hangups' = hangups + 1
  /\ m_jobQ' = create(m_jobQ, <<Notice("HANGUP", placed)>>)
  /\ window' = FALSE
  /\ UNCHANGED <<m_on_call, boxes, placed, placed_calls, ticks, asked>>

\* hangup_callback of the audio playback, when the peer is done.
hangup_callback ==
  /\ audio # NoCall /\ hangups < MaxHangups /\ hangups' = hangups + 1
  /\ m_jobQ' = create(m_jobQ, <<Notice("HANGUP", audio)>>)
  /\ UNCHANGED <<gui, placed, placed_calls, ticks, asked>>

repeated_tasks ==
  /\ ticks < MaxTicks /\ ticks' = ticks + 1
  /\ m_jobQ' = create(m_jobQ, <<Notice("PENDING", NoCall)>>)
  /\ UNCHANGED <<gui, placed, placed_calls, hangups, asked>>

Environment ==
  /\ \/ \E p \in Peers : on_call_clicked(p) \/ on_answer_clicked(p) \/ on_ignore_clicked(p)
     \/ on_hangup_clicked \/ hangup_callback \/ repeated_tasks
  /\ UNCHANGED <<m_resQ, object, m_hangup, legs, streams, history>>

Next == (\E c \in Calls : CallThread(c) \/ header_comes(c)) \/ JobThread \/ Interface \/ Environment

Spec == Init /\ [][Next]_vars
\* The threads run, a set-up comes to an end (module PeerToPeer), and a user
\* closes a box that is shown.  No header need ever come.
FairSpec ==
  /\ Spec
  /\ \A c \in Calls : WF_vars(CallThread(c))
  /\ WF_vars(JobThread) /\ WF_vars(Interface)

----------------------------------------------------------------------------
(* Properties.  Overlaps, in which one call runs on the P2P of another, are *)
(* excepted, and so are the calls hung up after their last look.            *)

(* A call that is hung up while it is being set up never starts its streams, *)
(* wherever in its set-up the HANGUP meets it.  (call.cpp:46, call.cpp:57.) *)
HungUpCallStaysDown ==
  ~ overlap => \A c \in hung_up \ late_hangup : c \notin {audio, video}

(* While the streams of a call run, the client counts as on call, so that   *)
(* its user cannot place another.  (central_jobs.cpp:163, call.cpp:207.)    *)
StreamsOnCall ==
  ~ overlap /\ ~ stale /\ late_hangup = {} /\ {audio, video} # {NoCall} => m_on_call

(* A HANGUP, whoever created it, takes the client off the call, unless the  *)
(* job thread waits for good for the peer of a call that it has answered.   *)
(* (call.cpp:207, BUGS.txt:16; the wait: call.cpp:144, stream_io.cpp:155.)  *)
JobThreadHeld == \E c \in Calls \ placed_calls : thread[c] \in Held

HangUpEnds ==
  (Pending(m_jobQ, "HANGUP") ~> ~ m_on_call) \/ <>[]JobThreadHeld

(* A call that is placed has its streams started, or its client leaves it,  *)
(* however the set-up fails, unless another begins.  (call.cpp:36, 62;       *)
(* central_jobs.cpp:219.)                                                   *)
PlacedCallLeaves ==
  \A c \in Calls : (c \in placed_calls /\ InSetUp(c)) ~>
                     (audio = c \/ ~ m_on_call \/ placed # c \/ overlap)

(* Both legs of a call go to the peer that it is for.  An answered call     *)
(* holds the job thread, so nothing changes the job it reads.  The thread of *)
(* a placed call reads it through a reference, and its legs are its own     *)
(* only until the job thread takes another job.  (call.cpp:26, 34, 51, 108.) *)
LegsHaveOnePeer == \A c \in Calls \ reused : dialled[c] \subseteq {asked[c]}
=============================================================================
