------------------------------ MODULE Streams ------------------------------
(***************************************************************************)
(* The sound, or the picture, of one call in both directions: AVStream at  *)
(* one end, Playback at the other (src/src/client/av/av_stream.cpp,        *)
(* playback.cpp, audio_playback.cpp, video_playback.cpp), StreamIO between *)
(* them, and the HANGUP jobs by which the end of one stops the other       *)
(* (src/src/client/user/call.cpp).                                         *)
(*                                                                         *)
(* Each end runs a thread that sends, a thread that reads, the thread that *)
(* started both, and the job thread; at the end that answered the call the *)
(* last two are one.  net holds what is on its way to each end.  It is     *)
(* UDP: a datagram may be lost, and may overtake those sent before it.     *)
(* None is delivered twice.                                                *)
(***************************************************************************)
EXTENDS Integers, Sequences, FiniteSets, StreamIO

CONSTANTS AudioSize, VideoSize, \* bytes of an encoded frame
          Sizes,                \* sizes for which the framing is checked
          Talkers,              \* bound: the ends that send frames before Done
          Garbage,              \* numbers of chunks that garbage may announce
          MaxPackages,          \* bound: packages of sound recorded
          MaxPictures,          \* bound: pictures taken
          MaxFaults,            \* bound: losses, overtakings and late datagrams
          MaxMisread,           \* bound: chunks that look like a header
          MaxHangups            \* bound: hang-ups by a user

ASSUME StreamsAssumption ==
  /\ AudioSize \in 1..(MaxAllocation - 1) /\ VideoSize \in 1..(MaxAllocation - 1)
  /\ Sizes \subseteq 0..(MaxAllocation - 1)
  /\ Talkers \subseteq {"initiator", "acceptor"} /\ Garbage \subseteq Nat
  /\ MaxPackages \in Nat /\ MaxPictures \in Nat /\ MaxFaults \in Nat
  /\ MaxMisread \in Nat /\ MaxHangups \in Nat

Ends == {"initiator", "acceptor"}
Other(e) == CHOOSE d \in Ends : d # e

VARIABLES m_stream_type, \* what this call's streams carry
          m_status,      \* AVStream
          m_input_queue, \* packages recorded and not sent (Audio)
          sender,        \* the thread of stream_audio or stream_video
          silent,        \* ends whose one request for all pictures is invalid
          starter,       \* where Call's audio_stream and audio_playback are
          playback,      \* Playback: m_status
          m_done_received,
          read,          \* where read_package is
          reader,        \* the thread of spawn_network_read_thread
          jobs,          \* HANGUPs in the job queue
          net,           \* the datagrams on their way to each end
          sent,          \* frames sent by each end
          loaded,        \* history: the frames loaded by each end
          lost,          \* counters: datagrams lost, or refused by sendto,
          overtaken,     \* those that overtook another,
          misread,       \* chunks that looked like a header,
          late,          \* timeouts while a datagram was on its way,
          hangups,       \* and hang-ups by a user
          unheard        \* history: ends whose Done ended no playback

stream == <<m_stream_type, m_status, m_input_queue, sender, silent, sent>>
play   == <<playback, m_done_received, read, reader, loaded>>
wire   == <<net, lost, overtaken, unheard>>
vars   == <<stream, play, wire, starter, jobs, misread, late, hangups>>

faults == lost + overtaken + late

FrameSize == IF m_stream_type = "Audio" THEN AudioSize ELSE VideoSize
MaxFrames == IF m_stream_type = "Audio" THEN MaxPackages ELSE MaxPictures

\* read_package: not running, waiting for a header, looking for one after a
\* datagram that was too short, or waiting for chunks.  Nothing stands for a
\* chunk that recvfrom waited for in vain.
Nothing    == Info("?", 0, 0, 0)
NotReading == [at |-> "none", info |-> Nothing, got |-> <<>>]
Reading(at) == [NotReading EXCEPT !.at = at]

\* Only one thread of an end reads: the one that starts, then the reader.
TypeOK ==
  /\ m_stream_type \in {"Audio", "Video"}
  /\ m_status \in [Ends -> {"Started", "Stopped"}]
  /\ m_input_queue \in [Ends -> 0..MaxFrames] /\ silent \subseteq Ends
  /\ sender \in [Ends -> {"none", "test", "send", "drain", "over"}]
  /\ starter \in [Ends -> {"stream", "buffer", "over"}]
  /\ playback \in [Ends -> {"Started", "Stopped", "Invalid"}]
  /\ m_done_received \in [Ends -> BOOLEAN] /\ unheard \subseteq Ends
  /\ \A e \in Ends : /\ read[e].at \in {"none", "header", "resync", "data"}
                     /\ Len(read[e].got) <= Expected(read[e].info)
                     /\ read[e].at = "data" <=> Len(read[e].got) < Expected(read[e].info)
  /\ reader \in [Ends -> {"none", "test", "over"}]
  /\ jobs \in [Ends -> Nat] /\ sent \in [Ends -> 0..(MaxFrames + 2)]
  /\ \A e \in Ends : \A i \in DOMAIN loaded[e] : loaded[e][i] \in Corrupt..(MaxFrames + 3)
  /\ lost \in Nat /\ overtaken \in Nat /\ late \in Nat /\ misread \in 0..MaxMisread
  /\ hangups \in 0..MaxHangups
  /\ \A e \in Ends : reader[e] # "none" => starter[e] = "over"

Init ==
  /\ m_stream_type \in {"Audio", "Video"}
  /\ m_status = [e \in Ends |-> "Stopped"]
  /\ m_input_queue = [e \in Ends |-> 0]
  /\ sender = [e \in Ends |-> "none"] /\ silent = {}
  /\ starter = [e \in Ends |-> "stream"]
  /\ playback = [e \in Ends |-> "Stopped"]
  /\ m_done_received = [e \in Ends |-> FALSE]
  /\ read = [e \in Ends |-> NotReading]
  /\ reader = [e \in Ends |-> "none"]
  /\ jobs = [e \in Ends |-> 0]
  /\ net = [e \in Ends |-> {}]
  /\ sent = [e \in Ends |-> 0]
  /\ loaded = [e \in Ends |-> <<>>]
  /\ lost = 0 /\ overtaken = 0 /\ misread = 0 /\ late = 0 /\ hangups = 0 /\ unheard = {}

-----------------------------------------------------------------------------
\* The call's thread, or the job thread of the end that answered.

\* audio_stream: start opens the microphone, stream spawns the sender.
StartStream(e) ==
  /\ starter[e] = "stream"
  /\ m_status' = [m_status EXCEPT ![e] = "Started"]
  /\ sender' = [sender EXCEPT ![e] = "test"]
  /\ starter' = [starter EXCEPT ![e] = "buffer"]
  /\ read' = [read EXCEPT ![e] = Reading("header")]
  /\ UNCHANGED <<m_stream_type, m_input_queue, silent, sent, playback, m_done_received,
                 reader, loaded, jobs, wire, misread, late, hangups>>

\* audio_playback once buffer has read one package, or has given up: start does
\* nothing if the package was of the wrong type.
StartPlayback(e) ==
  /\ starter[e] = "buffer" /\ read[e].at = "none"
  /\ \/ /\ playback[e] = "Stopped"
        /\ playback' = [playback EXCEPT ![e] = "Started"]
        /\ m_done_received' = [m_done_received EXCEPT ![e] = FALSE]
        /\ reader' = [reader EXCEPT ![e] = "test"]
     \/ /\ playback[e] = "Invalid"
        /\ UNCHANGED <<playback, m_done_received, reader>>
  /\ starter' = [starter EXCEPT ![e] = "over"]
  /\ UNCHANGED <<stream, read, loaded, jobs, wire, misread, late, hangups>>

-----------------------------------------------------------------------------
\* The sender, and the microphone's callback.

Recorded == sent["initiator"] + sent["acceptor"]
              + m_input_queue["initiator"] + m_input_queue["acceptor"]

\* audio_input_callback.  start opens the device; stop sets the status first and
\* tests it then, and so never closes the device again.
Record(e) ==
  /\ m_stream_type = "Audio" /\ sender[e] # "none" /\ e \in Talkers
  /\ Recorded < MaxFrames
  /\ m_input_queue' = [m_input_queue EXCEPT ![e] = @ + 1]
  /\ UNCHANGED <<m_stream_type, m_status, sender, silent, sent, play, starter, jobs,
                 wire, misread, late, hangups>>

\* The test of the sender's loop.  At the bound it waits until the end.
SenderTest(e) ==
  /\ sender[e] = "test"
  /\ \/ /\ m_status[e] = "Started"
        /\ e \in Talkers /\ (Recorded < MaxFrames \/ m_input_queue[e] > 0)
        /\ sender' = [sender EXCEPT ![e] = "send"]
     \/ /\ m_status[e] = "Stopped"
        /\ sender' = [sender EXCEPT ![e] = "drain"]
  /\ UNCHANGED <<m_stream_type, m_status, m_input_queue, silent, sent, play, starter,
                 jobs, wire, misread, late, hangups>>

\* What one send_package puts on the wire: all of it, all but a chunk that
\* sendto refuses, or nothing, when it refuses the header.  The request is then
\* invalid, and stream_video has no other: respond does nothing with it.
Send(e, type, size) ==
  LET datagrams == respond(type, sent[e] + 1, size)
      Put(some) == net' = [net EXCEPT ![Other(e)] = @ \cup some]
  IN IF e \in silent /\ type = "Video"
     THEN UNCHANGED <<net, lost, silent>>
     ELSE \/ /\ Put(datagrams)
             /\ UNCHANGED <<lost, silent>>
          \/ /\ faults < MaxFaults
             /\ \/ \E d \in datagrams : ~ IsHeader(d) /\ Put(datagrams \ {d})
                \/ UNCHANGED net
             /\ lost' = lost + 1
             /\ silent' = IF type = "Video" THEN silent \cup {e} ELSE silent

\* Mutant: the loop after the stop does not test the queue.
drained_never(e) == FALSE

drained(e) == m_input_queue[e] = 0

\* send_audio: encode takes a package, or waits for one in vain and makes an
\* empty frame.  stream_video: capture_one and send_package.
SendFrame(e) ==
  /\ sender[e] \in {"send", "drain"}
  /\ sender[e] = "drain" => ~ drained(e)
  /\ \/ /\ m_input_queue[e] > 0
        /\ Send(e, m_stream_type, FrameSize)
        /\ m_input_queue' = [m_input_queue EXCEPT ![e] = @ - 1]
     \/ /\ m_input_queue[e] = 0
        /\ Send(e, m_stream_type, IF m_stream_type = "Audio" THEN 0 ELSE FrameSize)
        /\ UNCHANGED m_input_queue
  /\ sent' = IF net' = net THEN sent ELSE [sent EXCEPT ![e] = @ + 1]
  /\ sender' = [sender EXCEPT ![e] = IF @ = "send" THEN "test" ELSE @]
  /\ UNCHANGED <<m_stream_type, m_status, play, starter, jobs, overtaken, unheard,
                 misread, late, hangups>>

\* Mutant: the thread ends without Done.
send_done_not(e) == UNCHANGED <<net, lost, silent, unheard>>

\* Done is a request of its own, and numbered like a frame.
send_done(e) ==
  /\ Send(e, "Done", 0)
  /\ unheard' = IF net' = net THEN unheard \cup {e} ELSE unheard

\* The queue is empty: Done, and the thread is over.
SenderDone(e) ==
  /\ sender[e] = "drain" /\ drained(e)
  /\ send_done(e)
  /\ sender' = [sender EXCEPT ![e] = "over"]
  /\ UNCHANGED <<m_stream_type, m_status, m_input_queue, sent, play, starter, jobs,
                 overtaken, misread, late, hangups>>

-----------------------------------------------------------------------------
\* The network.

TellsDone(d) == IsHeader(d) /\ char_to_type(read_header(d.header).data_type) = "Done"

Early(e, d) == \E c \in net[e] : Before(c, d)

\* A datagram is lost when its turn has come: no one can tell if it was before.
Lose(e) ==
  /\ faults < MaxFaults
  /\ \E d \in net[e] :
       /\ ~ Early(e, d)
       /\ net' = [net EXCEPT ![e] = @ \ {d}]
       /\ unheard' = IF TellsDone(d) THEN unheard \cup {Other(e)} ELSE unheard
  /\ lost' = lost + 1
  /\ UNCHANGED <<stream, play, starter, jobs, overtaken, misread, late, hangups>>

\* recvfrom returns d of net[e], which overtakes what was sent before it and is not there.
Take(e, d) ==
  /\ Early(e, d) => faults < MaxFaults
  /\ overtaken' = IF Early(e, d) THEN overtaken + 1 ELSE overtaken
  /\ net' = [net EXCEPT ![e] = @ \ {d}]

\* recvfrom has waited m_RECEIVE_TIMEOUT: nothing comes, or it comes too late.
TimedOut(e) ==
  /\ net[e] # {} => faults < MaxFaults
  /\ late' = IF net[e] = {} THEN late ELSE late + 1
  /\ UNCHANGED wire

-----------------------------------------------------------------------------
\* read_package, called by the starter and by the reader.

\* A datagram that is not 25 bytes long is dropped; the loop that looks for the
\* next one does not end at a timeout.
ReadShort(e) ==
  /\ read[e].at \in {"header", "resync"}
  /\ \E d \in net[e] : d.size < m_HEADER_SIZE /\ Take(e, d)
  /\ read' = [read EXCEPT ![e] = Reading("resync")]
  /\ UNCHANGED <<stream, playback, m_done_received, reader, loaded, starter, jobs,
                 lost, unheard, misread, late, hangups>>

\* load: valid_data_type tests what the header said.
load(e, info, got) ==
  IF char_to_type(info.data_type) = m_stream_type
  THEN /\ loaded' = [loaded EXCEPT ![e] = Append(@, Assembled(info, got))]
       /\ UNCHANGED playback
  ELSE /\ playback' = [playback EXCEPT ![e] = "Invalid"]
       /\ UNCHANGED loaded

\* stop, which does nothing before start and after load was given a wrong type.
stop(e) ==
  playback' = [playback EXCEPT ![e] = IF @ = "Started" THEN "Stopped" ELSE @]

ReadHeader(e) ==
  /\ read[e].at \in {"header", "resync"}
  /\ \E d \in net[e] :
       /\ d.size >= m_HEADER_SIZE /\ Take(e, d) /\ UNCHANGED lost
       /\ \E info \in HeaderRead(d, Garbage) :
            LET type == char_to_type(info.data_type)
            IN /\ misread' = IF IsHeader(d) \/ type = "Empty" THEN misread ELSE misread + 1
               /\ misread' <= MaxMisread
               /\ unheard' = IF IsHeader(d) /\ type = "Done" /\ starter[e] = "buffer"
                             THEN unheard \cup {Other(e)} ELSE unheard
               /\ \/ /\ type = "Empty"   \* garbage: tries again, m_MAX_TRIES times
                     /\ \E at \in {"header", "none"} : read' = [read EXCEPT ![e] = Reading(at)]
                     /\ UNCHANGED <<playback, m_done_received, loaded>>
                  \/ /\ type = "Done"
                     /\ stop(e)
                     /\ m_done_received' = [m_done_received EXCEPT ![e] = TRUE]
                     /\ read' = [read EXCEPT ![e] = NotReading]
                     /\ UNCHANGED loaded
                  \/ /\ type \notin {"Empty", "Done"} /\ Expected(info) > 0
                     /\ read' = [read EXCEPT ![e] = [Reading("data") EXCEPT !.info = info]]
                     /\ UNCHANGED <<playback, m_done_received, loaded>>
                  \/ /\ type \notin {"Empty", "Done"} /\ Expected(info) = 0
                     /\ load(e, info, <<>>)
                     /\ read' = [read EXCEPT ![e] = NotReading]
                     /\ UNCHANGED m_done_received
  /\ UNCHANGED <<stream, reader, starter, jobs, late, hangups>>

\* The first wait for a header times out: the request is no longer valid, no
\* other try reads anything, and read_package gives up.
ReadNothing(e) ==
  /\ read[e].at = "header" /\ TimedOut(e)
  /\ read' = [read EXCEPT ![e] = NotReading]
  /\ UNCHANGED <<stream, playback, m_done_received, reader, loaded, starter, jobs,
                 misread, hangups>>

\* receive_data goes on with chunk d.  It waits for all of them, also after a
\* timeout, which makes the request invalid: then nothing is loaded.
Received(e, d) ==
  LET info == read[e].info
      got  == Append(read[e].got, d)
  IN IF Len(got) < Expected(info)
     THEN /\ read' = [read EXCEPT ![e].got = got]
          /\ UNCHANGED <<playback, loaded>>
     ELSE /\ read' = [read EXCEPT ![e] = NotReading]
          /\ IF \E i \in DOMAIN got : got[i] = Nothing
             THEN UNCHANGED <<playback, loaded>> ELSE load(e, info, got)

\* Whatever comes is the next chunk, Done as well.
ReadData(e) ==
  /\ read[e].at = "data"
  /\ \E d \in net[e] :
       /\ Take(e, d) /\ Received(e, d)
       /\ unheard' = IF TellsDone(d) THEN unheard \cup {Other(e)} ELSE unheard
  /\ UNCHANGED <<stream, m_done_received, reader, starter, jobs, lost, misread, late,
                 hangups>>

ReadNoData(e) ==
  /\ read[e].at = "data" /\ TimedOut(e) /\ Received(e, Nothing)
  /\ UNCHANGED <<stream, m_done_received, reader, starter, jobs, misread, hangups>>

\* The reader's loop, and the callback when it ends.  Only the sound's hangs up.
ReaderLoop(e) ==
  /\ reader[e] = "test" /\ read[e].at = "none"
  /\ \/ /\ playback[e] = "Started"
        /\ read' = [read EXCEPT ![e] = Reading("header")]
        /\ UNCHANGED <<reader, jobs>>
     \/ /\ playback[e] # "Started"
        /\ reader' = [reader EXCEPT ![e] = "over"]
        /\ jobs' = IF m_done_received[e] /\ m_stream_type = "Audio"
                   THEN [jobs EXCEPT ![e] = @ + 1] ELSE jobs
        /\ UNCHANGED read
  /\ UNCHANGED <<stream, playback, m_done_received, loaded, starter, wire, misread,
                 late, hangups>>

-----------------------------------------------------------------------------
\* Hanging up.

\* The user's HANGUP is a job as well.
UserHangsUp(e) ==
  /\ starter[e] # "stream" /\ hangups < MaxHangups
  /\ jobs' = [jobs EXCEPT ![e] = @ + 1]
  /\ hangups' = hangups + 1
  /\ UNCHANGED <<stream, play, starter, wire, misread, late>>

\* Call::hangup.  The end that answered starts its streams in the job thread.
hangup(e) ==
  /\ jobs[e] > 0
  /\ e = "acceptor" => starter[e] = "over"
  /\ jobs' = [jobs EXCEPT ![e] = @ - 1]
  /\ m_status' = [m_status EXCEPT ![e] = "Stopped"]
  /\ stop(e)
  /\ UNCHANGED <<m_stream_type, m_input_queue, sender, silent, sent, m_done_received,
                 read, reader, loaded, starter, wire, misread, late, hangups>>

-----------------------------------------------------------------------------
Starts(e) == StartStream(e) \/ StartPlayback(e)
Sends(e) == SenderTest(e) \/ SendFrame(e) \/ SenderDone(e)
Reads(e) == ReadShort(e) \/ ReadHeader(e) \/ ReadNothing(e) \/ ReadData(e)
              \/ ReadNoData(e) \/ ReaderLoop(e)

Next ==
  \E e \in Ends : Starts(e) \/ Sends(e) \/ Reads(e) \/ Record(e) \/ Lose(e) \/ hangup(e)
                    \/ UserHangsUp(e)

Spec == Init /\ [][Next]_vars

\* Every thread goes on while it can, and what is not lost arrives; of the one
\* that starts the call and the job thread, which the end that answered has in
\* one, either may.  Users, the microphone and losses need not.
FairSpec ==
  /\ Spec
  /\ \A e \in Ends : /\ WF_vars(Starts(e) \/ hangup(e))
                     /\ WF_vars(Sends(e)) /\ WF_vars(Reads(e))

-----------------------------------------------------------------------------
(* make_packet_info, make_header, read_header and the loops of send_data   *)
(* and receive_data: for every size the chunks and the remainder are all   *)
(* of the frame, none is too big for a datagram, the receiver reads the    *)
(* tuple that was sent and waits for as many datagrams as there are.       *)
FramesAddUp ==
  \A s \in Sizes :
    LET info == make_packet_info(m_stream_type, s)
    IN /\ info.nb_packets * info.packet_size + info.rem_size = s
       /\ info.packet_size <= m_MAX_PACKET_SIZE
       /\ read_header(make_header(info)) = info
       /\ Expected(info) = Len(send_data(1, info))

(* A frame that is loaded is one that was sent, the empty one of Done      *)
(* among them, or noise.  None is loaded twice, and they are loaded in the *)
(* order of sending while no datagram overtakes.  A datagram that is lost  *)
(* makes one frame noise at most, one that overtakes two, its own and the  *)
(* one it comes into, and a chunk that looks like a header one.  While all *)
(* come in time and in order, what is lost costs two frames each: the      *)
(* framing finds the next header again.                                    *)
Intact(e) == {i \in DOMAIN loaded[e] : loaded[e][i] # Corrupt}
Noise(e)  == {i \in DOMAIN loaded[e] : loaded[e][i] = Corrupt}

LoadedWereSent(e) ==
  \A i \in Intact(e) :
    loaded[e][i] <= sent[Other(e)] + IF sender[Other(e)] = "over" THEN 1 ELSE 0

LoadedOnce(e) == \A i, j \in Intact(e) : loaded[e][i] = loaded[e][j] => i = j

LoadedInOrder(e) ==
  overtaken = 0 => \A i, j \in Intact(e) : i < j => loaded[e][i] < loaded[e][j]

NoiseIsCaused(e) == Cardinality(Noise(e)) <= lost + 2 * overtaken + misread

FoundAgain(e) ==
  overtaken = 0 /\ misread = 0 /\ late = 0 /\ net[e] = {} /\ read[e].at # "data" =>
    sent[Other(e)] <= Cardinality(Intact(e)) + 2 * lost

PlayedAsSent ==
  \A e \in Ends : /\ LoadedWereSent(e) /\ LoadedOnce(e) /\ LoadedInOrder(e)
                  /\ NoiseIsCaused(e) /\ FoundAgain(e)

(* "sends a Data::Done package to peer": when the thread that sends has    *)
(* ended, the other end stops playing, and with the sound's Done stops its *)
(* own stream as well.  Not so if Done was lost, came while the other end  *)
(* was buffering or was taken for a chunk, because a datagram is missing   *)
(* or Done overtook one; nor if a chunk looked like a header of a type     *)
(* that makes the playback invalid.                                        *)
Quiet(e) == playback[e] = "Stopped" /\ reader[e] = "over"

DoneEndsPeer ==
  <>[](\A e \in Ends :
         sender[e] = "over" =>
           \/ e \in unheard \/ playback[Other(e)] = "Invalid"
           \/ /\ Quiet(Other(e))
              /\ m_stream_type = "Audio" => m_status[Other(e)] = "Stopped")
=============================================================================
