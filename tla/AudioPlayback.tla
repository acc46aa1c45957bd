--------------------------- MODULE AudioPlayback ---------------------------
(***************************************************************************)
(* AudioPlayback (src/src/client/av/audio_playback.cpp, playback.cpp): who *)
(* calls push and pop of its LockFreeAudioQueue.                           *)
(*                                                                         *)
(* The network thread loads packages into the queue while the status is    *)
(* Started, and calls stop when the peer's Done arrives.  The sound card's *)
(* callback pops while the output device is open.  A hang-up on the job    *)
(* thread calls stop too.  stop flushes the queue by popping it before it  *)
(* closes the device, so three threads are consumers.                      *)
(***************************************************************************)
EXTENDS LockFreeAudioQueue

CONSTANTS Callback, Network, HangupJob   \* the three Consumers

VARIABLES m_status,  \* "Started" or "Stopped"
          opened,    \* the output device runs its callback
          reading,   \* the network thread is inside read_package
          spc        \* where each stopper is in stop

playbackVars == <<m_status, opened, reading, spc>>
playVars == <<vars, playbackVars>>

Stoppers == {Network, HangupJob}

PlayInit ==
  /\ Init
  /\ m_status = "Stopped"
  /\ opened = FALSE
  /\ reading = FALSE
  /\ spc = [t \in Stoppers |-> "idle"]

\* AudioPlayback::start: opens the device and spawns the network thread.  The
\* model is of one call at a time: it does not start the next one before the
\* threads of the last are done.
Start ==
  /\ m_status = "Stopped"
  /\ \A t \in Stoppers : spc[t] = "idle"
  /\ ~ reading
  /\ opened' = TRUE
  /\ m_status' = "Started"
  /\ UNCHANGED <<vars, reading, spc>>

\* The test of the network thread's loop, and the wait for a package.
ReadPackage ==
  /\ m_status = "Started"
  /\ ~ reading
  /\ reading' = TRUE
  /\ UNCHANGED <<vars, m_status, opened, spc>>

\* load: the package is pushed, also when stop has begun in the meantime.
Load ==
  /\ reading
  /\ spc[Network] = "idle"
  /\ Push
  /\ reading' = (ppc' # "idle")
  /\ UNCHANGED <<m_status, opened, spc>>

\* stop does something only while the status is Started.
Stop(t) ==
  /\ spc[t] = "idle"
  /\ m_status = "Started"
  /\ t = Network => reading /\ ppc = "idle"
  /\ spc' = [spc EXCEPT ![t] = "flush"]
  /\ UNCHANGED <<vars, m_status, opened, reading>>

\* while (!m_audio_queue->empty()) m_audio_queue->pop();
FlushTest(t) ==
  /\ spc[t] = "flush"
  /\ m_head # m_tail
  /\ spc' = [spc EXCEPT ![t] = "pop"]
  /\ UNCHANGED <<vars, m_status, opened, reading>>

FlushPop(t) ==
  /\ spc[t] = "pop"
  /\ Pop(t)
  /\ spc' = [spc EXCEPT ![t] = IF cpc'[t] = "idle" THEN "flush" ELSE "pop"]
  /\ UNCHANGED <<m_status, opened, reading>>

\* The queue is empty: the device is paused, which waits for its callback.
FlushDone(t) ==
  /\ spc[t] = "flush"
  /\ m_head = m_tail
  /\ cpc[Callback] = "idle"
  /\ opened' = FALSE
  /\ m_status' = "Stopped"
  /\ spc' = [spc EXCEPT ![t] = "idle"]
  /\ reading' = IF t = Network THEN FALSE ELSE reading
  /\ UNCHANGED vars

\* audio_output_callback: one pop per period of the sound card.
OutputCallback ==
  /\ opened \/ cpc[Callback] # "idle"
  /\ Pop(Callback)
  /\ UNCHANGED playbackVars

PlayNext ==
  \/ Start \/ ReadPackage \/ Load \/ OutputCallback
  \/ \E t \in Stoppers : Stop(t) \/ FlushTest(t) \/ FlushPop(t) \/ FlushDone(t)

PlaySpec == PlayInit /\ [][PlayNext]_playVars

\* "This lock free queue assumes that there is a single consumer": two threads
\* are never inside pop together.
SingleConsumer ==
  \A c, d \in Consumers : cpc[c] # "idle" /\ cpc[d] # "idle" => c = d
=============================================================================
