-------------------------------- MODULE Jobs --------------------------------
(***************************************************************************)
(* The two queues between the user interface and the job thread            *)
(* (src/src/client/job/job_bus.cpp, src/include/client/job,                *)
(* src/include/shared/thread_safe_queue.hpp).  The interface, the timer    *)
(* and other threads create jobs; the job thread takes them in order, runs *)
(* the handler of their command in the job itself and pushes what the      *)
(* handler made of it for the interface.  A handler says with DISCARD that *)
(* there is nothing to tell.                                               *)
(***************************************************************************)
EXTENDS Sequences

Discard == "DISCARD"

\* A job under way, in a queue or as a response.
Pending(queue, command) ==
  \E i \in DOMAIN queue : queue[i].m_command = command

\* The next job is one of this command.
Next_is(queue, command) == queue # <<>> /\ Head(queue).m_command = command

\* JobBus::create, for several jobs created by one handler.
create(queue, jobs) == queue \o jobs

\* What handle() pushes when a handler has returned.  AWAITING jobs have a test
\* of their own before this one, which pushes the valid ones and continues; the
\* others come here and are pushed as well.
Answered(queue, job) ==
  IF job.m_command = Discard THEN queue ELSE Append(queue, job)
=============================================================================
