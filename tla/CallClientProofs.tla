-------------------------- MODULE CallClientProofs --------------------------
(***************************************************************************)
(* Proofs about CallClient: its type invariant and its three safety        *)
(* invariants, for any number of calls, hang-ups, peers and other jobs.    *)
(***************************************************************************)
EXTENDS CallClient, FiniteSetTheorems, SequenceTheorems, TLAPS

\* CONNECT and ACCEPT, the jobs that begin a call.
Begins(job) == job.m_command \in {"CONNECT", "ACCEPT"}

\* A call exists once it has been placed or answered; only then is it anywhere.
CallsInv ==
  /\ placed_calls \subseteq 1..placed /\ boxes \subseteq 1..placed
  /\ audio <= placed /\ video <= placed
  /\ \A c \in Calls : /\ c > placed => thread[c] = "none"
                      /\ thread[c] = "none" => dialled[c] = {}
                      /\ thread[c] \in Answering => c \notin placed_calls

\* The job thread answers one call at a time.
OneAnswering ==
  \A c, d \in Calls \ placed_calls : InSetUp(c) /\ InSetUp(d) => c = d

\* A job that begins a call is the only one for it, and names its peer.
BeginningInv ==
  /\ \A i \in 1..Len(m_jobQ) : Begins(m_jobQ[i]) =>
       LET c == m_jobQ[i].call
       IN /\ c \in Calls /\ thread[c] = "none"
          /\ asked[c] = m_jobQ[i].m_intValue
          /\ c \in placed_calls <=> m_jobQ[i].m_command = "CONNECT"
  /\ \A i, j \in 1..Len(m_jobQ) :
       Begins(m_jobQ[i]) /\ Begins(m_jobQ[j]) /\ m_jobQ[i].call = m_jobQ[j].call => i = j

\* A call that has not begun waits in the queue, before every HANGUP for it.
OrderInv ==
  /\ \A i \in 1..Len(m_jobQ) : m_jobQ[i].call <= placed
  /\ \A c \in 1..placed : thread[c] = "none" =>
       \E i \in 1..Len(m_jobQ) : Begins(m_jobQ[i]) /\ m_jobQ[i].call = c
  /\ \A i, j \in 1..Len(m_jobQ) :
       i < j /\ m_jobQ[i].m_command = "HANGUP" /\ Begins(m_jobQ[j])
         => m_jobQ[i].call < m_jobQ[j].call

\* What is told to the interface is about calls that exist.
ResponsesInv ==
  \A i \in 1..Len(m_resQ) :
    /\ m_resQ[i].call <= placed
    /\ m_resQ[i].m_command = "VIDEO_FAILED" => m_resQ[i].call \in Calls

\* The job object still tells whom a call in set-up is for, unless it was reused.
LegsInv ==
  \A c \in Calls \ reused : /\ dialled[c] \subseteq {asked[c]}
                            /\ InSetUp(c) => job_intValue = asked[c]

\* Without an overlap one call at a time is in set-up or has its streams.
OneUnderway == ~ overlap => \A c, d \in Underway : c = d

\* The flag lives until the call that was hung up has looked at it.
HangupInv ==
  ~ overlap => \A c \in hung_up \ late_hangup :
                 /\ c \notin {audio, video}
                 /\ thread[c] = "over" \/ (thread[c] \in Placing /\ m_hangup)

\* No call has streams or will get them.
Down ==
  /\ audio = NoCall /\ video = NoCall
  /\ \A c \in 1..placed : thread[c] = "over" \/ (thread[c] \in Placing /\ m_hangup)

\* That is so from the HANGUP on of which the interface hears, and whenever it
\* is off the call.
DownInv ==
  ~ overlap /\ late_hangup = {} =>
    /\ (\E i \in 1..Len(m_resQ) : /\ m_resQ[i].m_command = "HANGUP"
                                  /\ m_resQ[i].call = placed) => Down
    /\ stale \/ m_on_call \/ Down

IInv ==
  /\ TypeOK /\ CallsInv /\ OneAnswering /\ BeginningInv /\ OrderInv /\ ResponsesInv
  /\ LegsInv /\ OneUnderway /\ HangupInv /\ DownInv

-----------------------------------------------------------------------------
\* What JobBus::create, taking a job and Answered do to a queue.
LEMMA CreateProperties ==
  ASSUME NEW S, NEW q \in Seq(S), NEW j \in S
  PROVE  /\ create(q, <<j>>) \in Seq(S) /\ Len(create(q, <<j>>)) = Len(q) + 1
         /\ \A i \in 1..Len(q) : create(q, <<j>>)[i] = q[i]
         /\ create(q, <<j>>)[Len(q) + 1] = j
<1>1. create(q, <<j>>) = Append(q, j)
  BY AppendIsConcat DEF create
<1>2. /\ Append(q, j) \in Seq(S) /\ Len(Append(q, j)) = Len(q) + 1
      /\ \A i \in 1..Len(q) : Append(q, j)[i] = q[i]
      /\ Append(q, j)[Len(q) + 1] = j
  BY AppendProperties
<1> HIDE DEF create
<1> QED BY <1>1, <1>2

LEMMA TakeProperties ==
  ASSUME NEW S, NEW q \in Seq(S), q # <<>>
  PROVE  /\ Tail(q) \in Seq(S) /\ Len(Tail(q)) = Len(q) - 1 /\ Len(q) \in Nat \ {0}
         /\ \A i \in 1..(Len(q) - 1) : Tail(q)[i] = q[i + 1]
         /\ Head(q) = q[1] /\ Head(q) \in S
BY HeadTailProperties, EmptySeq, LenProperties

LEMMA AnsweredProperties ==
  ASSUME NEW S, NEW q \in Seq(S), NEW j \in S, j.m_command # Discard
  PROVE  /\ Answered(q, j) \in Seq(S) /\ Len(Answered(q, j)) = Len(q) + 1
         /\ \A i \in 1..Len(q) : Answered(q, j)[i] = q[i]
         /\ Answered(q, j)[Len(q) + 1] = j
BY AppendProperties DEF Answered

\* A set whose members are equal has at most one.
LEMMA AtMostOne ==
  ASSUME NEW S, \A c, d \in S : c = d
  PROVE  Cardinality(S) <= 1
<1>1. CASE S = {}
  BY <1>1, FS_EmptySet
<1>2. CASE S # {}
  <2>1. PICK c : c \in S
    BY <1>2
  <2>2. S = {c}
    BY <2>1
  <2>3. Cardinality({c}) = 1
    BY FS_Singleton
  <2> QED BY <2>2, <2>3
<1> QED BY <1>1, <1>2

LEMMA InitInv == Init => IInv
<1> SUFFICES ASSUME Init PROVE IInv
  OBVIOUS
<1> USE PeersAssumption, CallBoundsAssumption DEF Init, Calls, NoCall
<1>1. \A c \in Calls : ~ InSetUp(c)
  BY DEF InSetUp
<1>2. OneAnswering
  BY <1>1 DEF OneAnswering
<1>3. TypeOK
  <2>1. m_jobQ \in Seq(Job) /\ m_resQ \in Seq(Job)
    BY EmptySeq
  <2>2. /\ thread \in [Calls -> Threads] /\ valid_video \in [Calls -> BOOLEAN]
        /\ asked \in [Calls -> Peers \cup {NoPeer}]
        /\ dialled \in [Calls -> SUBSET (Peers \cup {NoPeer})]
    BY DEF Threads
  <2>3. Cardinality({c \in Calls \ placed_calls : InSetUp(c)}) <= 1
    BY <1>2, AtMostOne DEF OneAnswering
  <2>4. placed \in 0..MaxCalls /\ hangups \in 0..MaxHangups /\ ticks \in 0..MaxTicks
    OBVIOUS
  <2> QED BY <2>1, <2>2, <2>3, <2>4 DEF TypeOK
<1>4. Len(m_jobQ) = 0 /\ Len(m_resQ) = 0
  BY EmptySeq
<1>5. BeginningInv /\ OrderInv /\ ResponsesInv
  BY <1>4 DEF BeginningInv, OrderInv, ResponsesInv
<1>6. CallsInv /\ LegsInv
  BY <1>1 DEF CallsInv, LegsInv, Answering
<1>7. OneUnderway /\ HangupInv /\ DownInv
  BY <1>1, <1>4 DEF OneUnderway, Underway, HangupInv, DownInv, Down
<1> QED BY <1>2, <1>3, <1>5, <1>6, <1>7 DEF IInv

-----------------------------------------------------------------------------
(* Lemmas about the queues, whoever works on them.                          *)

\* A job that begins no call changes nothing that the queue says of the calls.
LEMMA QueueGrows ==
  ASSUME IInv, NEW j \in Job, ~ Begins(j), j.call <= placed,
         m_jobQ' = m_jobQ \/ m_jobQ' = create(m_jobQ, <<j>>),
         UNCHANGED <<placed, placed_calls, asked>>,
         \A c \in Calls : thread'[c] = "none" <=> thread[c] = "none"
  PROVE  m_jobQ' \in Seq(Job) /\ BeginningInv' /\ OrderInv'
<1>1. /\ m_jobQ \in Seq(Job) /\ Len(m_jobQ) \in Nat /\ placed \in 0..MaxCalls
      /\ BeginningInv /\ OrderInv
  BY LenProperties DEF IInv, TypeOK
<1>2. 1..placed \subseteq Calls
  BY <1>1, CallBoundsAssumption DEF Calls
<1>3. CASE m_jobQ' = m_jobQ
  BY <1>1, <1>2, <1>3 DEF BeginningInv, OrderInv
<1>4. CASE m_jobQ' = create(m_jobQ, <<j>>)
  <2>1. /\ m_jobQ' \in Seq(Job) /\ Len(m_jobQ') = Len(m_jobQ) + 1
        /\ \A i \in 1..Len(m_jobQ) : m_jobQ'[i] = m_jobQ[i]
        /\ m_jobQ'[Len(m_jobQ) + 1] = j
    <3>1. /\ create(m_jobQ, <<j>>) \in Seq(Job) /\ Len(create(m_jobQ, <<j>>)) = Len(m_jobQ) + 1
          /\ \A i \in 1..Len(m_jobQ) : create(m_jobQ, <<j>>)[i] = m_jobQ[i]
          /\ create(m_jobQ, <<j>>)[Len(m_jobQ) + 1] = j
      BY <1>1, CreateProperties
    <3> QED BY <1>4, <3>1
  <2>2. \A i \in 1..Len(m_jobQ') : \/ i \in 1..Len(m_jobQ) /\ m_jobQ'[i] = m_jobQ[i]
                                   \/ ~ Begins(m_jobQ'[i]) /\ m_jobQ'[i] = j /\ i = Len(m_jobQ) + 1
    BY <1>1, <2>1
  <2>3. BeginningInv'
    BY <1>1, <2>2 DEF BeginningInv
  <2>4. OrderInv'
    <3>1. \A i \in 1..Len(m_jobQ') : m_jobQ'[i].call <= placed'
      BY <1>1, <2>2 DEF OrderInv
    <3>2. \A c \in 1..placed : thread'[c] = "none" =>
            \E i \in 1..Len(m_jobQ') : Begins(m_jobQ'[i]) /\ m_jobQ'[i].call = c
      BY <1>1, <1>2, <2>1 DEF OrderInv
    <3>3. \A i, k \in 1..Len(m_jobQ') :
            i < k /\ m_jobQ'[i].m_command = "HANGUP" /\ Begins(m_jobQ'[k])
              => m_jobQ'[i].call < m_jobQ'[k].call
      BY <1>1, <2>2 DEF OrderInv
    <3> QED BY <3>1, <3>2, <3>3 DEF OrderInv
  <2> QED BY <2>1, <2>3, <2>4
<1> QED BY <1>3, <1>4

\* Taking a job that begins no call, or beginning the call of one that does.
LEMMA QueueTaken ==
  ASSUME IInv, NEW command, Takes(command), UNCHANGED <<placed, placed_calls, asked>>,
         \/ /\ command \notin {"CONNECT", "ACCEPT"}
            /\ UNCHANGED thread
         \/ /\ command \in {"CONNECT", "ACCEPT"}
            /\ \E pc \in Threads \ {"none"} : Goto(Head(m_jobQ).call, pc)
  PROVE  m_jobQ' \in Seq(Job) /\ BeginningInv' /\ OrderInv'
<1>1. /\ m_jobQ \in Seq(Job) /\ m_jobQ # <<>> /\ placed \in 0..MaxCalls
      /\ thread \in [Calls -> Threads] /\ BeginningInv /\ OrderInv
  BY DEF IInv, TypeOK, Takes, Next_is
<1>2. /\ m_jobQ' \in Seq(Job) /\ Len(m_jobQ') = Len(m_jobQ) - 1 /\ Len(m_jobQ) \in Nat \ {0}
      /\ \A i \in 1..Len(m_jobQ') : m_jobQ'[i] = m_jobQ[i + 1]
      /\ Head(m_jobQ) = m_jobQ[1] /\ m_jobQ[1].m_command = command
  BY <1>1, TakeProperties DEF Takes, Next_is
<1>3. \A i \in 1..Len(m_jobQ') : /\ i + 1 \in 1..Len(m_jobQ) /\ i + 1 # 1
                                 /\ m_jobQ'[i] = m_jobQ[i + 1]
  BY <1>2
<1>4. 1 \in 1..Len(m_jobQ) /\ 1..placed \subseteq Calls
  BY <1>1, <1>2, CallBoundsAssumption DEF Calls
<1>5. \A c \in Calls : thread'[c] = "none" <=>
                         thread[c] = "none" /\ ~ (Begins(m_jobQ[1]) /\ m_jobQ[1].call = c)
  <2>1. CASE command \notin {"CONNECT", "ACCEPT"}
    BY <1>2, <2>1 DEF Begins
  <2>2. CASE command \in {"CONNECT", "ACCEPT"}
    <3>1. Begins(m_jobQ[1]) /\ m_jobQ[1].call \in Calls
      BY <1>1, <1>2, <1>4, <2>2 DEF BeginningInv, Begins
    <3> QED BY <1>1, <1>2, <2>2, <3>1 DEF Goto
  <2> QED BY <2>1, <2>2
<1>6. BeginningInv'
  <2>1. \A i \in 1..Len(m_jobQ') : Begins(m_jobQ'[i]) =>
          m_jobQ'[i].call \in Calls /\ ~ (Begins(m_jobQ[1]) /\ m_jobQ[1].call = m_jobQ'[i].call)
    BY <1>1, <1>3, <1>4 DEF BeginningInv
  <2>2. ASSUME NEW i \in 1..Len(m_jobQ'), NEW k \in 1..Len(m_jobQ'),
               Begins(m_jobQ'[i]), Begins(m_jobQ'[k]), m_jobQ'[i].call = m_jobQ'[k].call
        PROVE  i = k
    <3>1. i + 1 = k + 1
      BY <1>1, <1>3, <2>2 DEF BeginningInv
    <3> QED BY <3>1
  <2> QED BY <1>1, <1>3, <1>5, <2>1, <2>2 DEF BeginningInv
<1>7. OrderInv'
  <2>1. ASSUME NEW c \in 1..placed, thread'[c] = "none"
        PROVE  \E i \in 1..Len(m_jobQ') : Begins(m_jobQ'[i]) /\ m_jobQ'[i].call = c
    <3>1. thread[c] = "none" /\ ~ (Begins(m_jobQ[1]) /\ m_jobQ[1].call = c)
      BY <1>4, <1>5, <2>1
    <3>2. PICK i \in 1..Len(m_jobQ) : Begins(m_jobQ[i]) /\ m_jobQ[i].call = c
      BY <1>1, <3>1 DEF OrderInv
    <3>3. i - 1 \in 1..Len(m_jobQ') /\ (i - 1) + 1 = i
      BY <1>2, <3>1, <3>2
    <3>4. m_jobQ'[i - 1] = m_jobQ[i]
      BY <1>3, <3>3
    <3> QED BY <3>2, <3>3, <3>4
  <2>2. \A i \in 1..Len(m_jobQ') : m_jobQ'[i].call <= placed'
    BY <1>1, <1>3 DEF OrderInv
  <2>3. ASSUME NEW i \in 1..Len(m_jobQ'), NEW k \in 1..Len(m_jobQ'), i < k,
               m_jobQ'[i].m_command = "HANGUP", Begins(m_jobQ'[k])
        PROVE  m_jobQ'[i].call < m_jobQ'[k].call
    <3>1. i + 1 < k + 1
      BY <2>3
    <3> QED BY <1>1, <1>3, <2>3, <3>1 DEF OrderInv
  <2> QED BY <2>1, <2>2, <2>3 DEF OrderInv
<1> QED BY <1>2, <1>6, <1>7

\* A response about a call that exists.
LEMMA ResponsesGrow ==
  ASSUME IInv, NEW j \in Job, j.call <= placed, j.m_command = "VIDEO_FAILED" => j.call \in Calls,
         m_resQ' = Answered(m_resQ, j), placed' = placed
  PROVE  /\ m_resQ' \in Seq(Job) /\ ResponsesInv' /\ Len(m_resQ) \in Nat
         /\ \A i \in 1..Len(m_resQ') : \/ i \in 1..Len(m_resQ) /\ m_resQ'[i] = m_resQ[i]
                                       \/ m_resQ'[i] = j
<1>1. j.m_command # Discard
  BY DEF Job, Discard
<1>2. m_resQ \in Seq(Job) /\ Len(m_resQ) \in Nat /\ ResponsesInv /\ placed \in 0..MaxCalls
  BY LenProperties DEF IInv, TypeOK
<1>3. /\ m_resQ' \in Seq(Job) /\ Len(m_resQ') = Len(m_resQ) + 1
      /\ \A i \in 1..Len(m_resQ) : m_resQ'[i] = m_resQ[i]
      /\ m_resQ'[Len(m_resQ) + 1] = j
  BY <1>1, <1>2, AnsweredProperties
<1>4. \A i \in 1..Len(m_resQ') : \/ i \in 1..Len(m_resQ) /\ m_resQ'[i] = m_resQ[i]
                                 \/ m_resQ'[i] = j
  BY <1>2, <1>3
<1>5. ResponsesInv'
  BY <1>2, <1>4 DEF ResponsesInv
<1> QED BY <1>2, <1>3, <1>4, <1>5

-----------------------------------------------------------------------------
(* A call in set-up goes on.                                                *)

\* What the steps of a set-up have in common, in whichever thread it runs.
Advance(c, pc) ==
  /\ InSetUp(c) /\ pc # "none" /\ Goto(c, pc)
  /\ pc \in Answering => thread[c] \in Answering
  /\ \/ m_hangup' = m_hangup
     \/ m_hangup' = FALSE /\ thread[c] \in Placing /\ pc \notin Answering
  /\ m_hangup /\ thread[c] \in Placing => pc = "over" \/ (pc \in Placing /\ m_hangup')
  /\ m_jobQ' = m_jobQ \/ m_jobQ' = create(m_jobQ, <<Notice("HANGUP", c)>>)
  /\ \/ m_resQ' = m_resQ
     \/ \E command \in {"VIDEO_FAILED", "VIDEO_STREAM"} : Respond(command, c)
  /\ valid_video' \in [Calls -> BOOLEAN]
  /\ \/ dialled' = dialled
     \/ dialled' = [dialled EXCEPT ![c] = @ \cup {job_intValue}]
  /\ audio' \in {audio, c} /\ video' \in {video, c}
  /\ thread[c] \in Starting \/ UNCHANGED streams
  /\ UNCHANGED <<object, gui, bounds, history>>

LEMMA AdvanceInv ==
  ASSUME IInv, NEW c \in Calls, NEW pc \in Threads, Advance(c, pc)
  PROVE  IInv'
<1>1. /\ InSetUp(c) /\ pc # "none" /\ thread' = [thread EXCEPT ![c] = pc]
      /\ pc \in Answering => thread[c] \in Answering
      /\ audio' \in {audio, c} /\ video' \in {video, c}
      /\ thread[c] \in Starting \/ (audio' = audio /\ video' = video)
      /\ valid_video' \in [Calls -> BOOLEAN]
      /\ m_jobQ' = m_jobQ \/ m_jobQ' = create(m_jobQ, <<Notice("HANGUP", c)>>)
  BY DEF Advance, Goto, streams
<1>2. /\ UNCHANGED <<job_intValue, reused, m_on_call, window, boxes>>
      /\ UNCHANGED <<placed, hangups, ticks, asked, placed_calls>>
      /\ UNCHANGED <<hung_up, late_hangup, overlap, stale>>
  BY DEF Advance, object, gui, bounds, history
<1>3. /\ thread \in [Calls -> Threads] /\ dialled \in [Calls -> SUBSET (Peers \cup {NoPeer})]
      /\ placed \in 0..MaxCalls /\ job_intValue \in Peers \cup {NoPeer}
      /\ audio \in Calls \cup {NoCall} /\ video \in Calls \cup {NoCall}
      /\ m_hangup \in BOOLEAN
      /\ CallsInv /\ OneAnswering /\ LegsInv /\ OneUnderway /\ HangupInv /\ DownInv
      /\ ResponsesInv /\ m_resQ \in Seq(Job)
  BY DEF IInv, TypeOK
<1>4. c \in 1..placed
  BY <1>1, <1>3, CallBoundsAssumption DEF CallsInv, InSetUp, Calls
<1>5. \A d \in Calls : /\ thread'[d] = IF d = c THEN pc ELSE thread[d]
                       /\ thread'[d] = "none" <=> thread[d] = "none"
                       /\ InSetUp(d)' => InSetUp(d)
  BY <1>1, <1>3 DEF InSetUp
<1>6. m_jobQ' \in Seq(Job) /\ BeginningInv' /\ OrderInv'
  <2>1. Notice("HANGUP", c) \in Job /\ ~ Begins(Notice("HANGUP", c)) /\ Notice("HANGUP", c).call <= placed
    BY <1>4 DEF Notice, NewJob, Job, Begins
  <2> QED BY <1>1, <1>2, <1>5, <2>1, QueueGrows
<1>7. /\ m_resQ' \in Seq(Job) /\ ResponsesInv'
      /\ \A i \in 1..Len(m_resQ') : \/ i \in 1..Len(m_resQ) /\ m_resQ'[i] = m_resQ[i]
                                    \/ m_resQ'[i].m_command # "HANGUP"
  <2>1. CASE m_resQ' = m_resQ
    BY <1>2, <1>3, <2>1 DEF ResponsesInv
  <2>2. ASSUME NEW command \in {"VIDEO_FAILED", "VIDEO_STREAM"}, Respond(command, c)
        PROVE  /\ m_resQ' \in Seq(Job) /\ ResponsesInv'
               /\ \A i \in 1..Len(m_resQ') : \/ i \in 1..Len(m_resQ) /\ m_resQ'[i] = m_resQ[i]
                                             \/ m_resQ'[i].m_command # "HANGUP"
    <3>1. /\ Notice(command, c) \in Job /\ Notice(command, c).call = c
          /\ Notice(command, c).m_command # "HANGUP"
      BY DEF Notice, NewJob, Job
    <3>2. m_resQ' = Answered(m_resQ, Notice(command, c)) /\ c <= placed
      BY <1>4, <2>2 DEF Respond
    <3> QED BY <1>2, <3>1, <3>2, ResponsesGrow
  <2> QED BY <2>1, <2>2 DEF Advance
<1>8. OneAnswering'
  BY <1>2, <1>3, <1>5 DEF OneAnswering
<1>9. dialled' \in [Calls -> SUBSET (Peers \cup {NoPeer})]
  BY <1>3 DEF Advance
<1>10. m_hangup' \in BOOLEAN
  BY <1>3 DEF Advance
<1>11. TypeOK'
  <2>1. thread' \in [Calls -> Threads]
    BY <1>1, <1>3
  <2>2. Cardinality({d \in Calls \ placed_calls : InSetUp(d)})' <= 1
    BY <1>8, AtMostOne DEF OneAnswering
  <2>3. audio' \in Calls \cup {NoCall} /\ video' \in Calls \cup {NoCall}
    BY <1>1, <1>3
  <2> QED BY <1>1, <1>2, <1>6, <1>7, <1>9, <1>10, <2>1, <2>2, <2>3 DEF IInv, TypeOK
<1>12. CallsInv'
  <2>1. \A d \in Calls : thread'[d] = "none" => dialled'[d] = {}
    BY <1>1, <1>3, <1>5 DEF CallsInv, InSetUp, Advance
  <2>2. \A d \in Calls : thread'[d] \in Answering => d \notin placed_calls
    BY <1>1, <1>3, <1>5 DEF CallsInv
  <2> QED BY <1>1, <1>2, <1>3, <1>4, <1>5, <2>1, <2>2 DEF CallsInv
<1>13. LegsInv'
  <2>1. c \notin reused => job_intValue = asked[c]
    BY <1>1, <1>3 DEF LegsInv
  <2>2. \A d \in Calls \ reused : dialled'[d] \subseteq {asked[d]}
    BY <1>3, <2>1 DEF LegsInv, Advance
  <2> QED BY <1>2, <1>3, <1>5, <2>2 DEF LegsInv
<1>14. Underway' \subseteq Underway /\ c \in Underway
  BY <1>1, <1>5 DEF Underway
<1>15. OneUnderway'
  BY <1>2, <1>3, <1>14 DEF OneUnderway
<1>16. ASSUME ~ overlap, NEW d \in Calls, d # c
       PROVE  ~ InSetUp(d) /\ audio # d /\ video # d
  BY <1>1, <1>3, <1>14, <1>16 DEF OneUnderway, Underway, NoCall, Calls
<1>17. HangupInv'
  BY <1>1, <1>2, <1>3, <1>5, <1>16 DEF HangupInv, Advance, InSetUp, Placing, Starting, Held, TypeOK, IInv
<1>18. DownInv'
  <2>1. ASSUME ~ overlap, Down PROVE Down'
    <3>1. thread[c] \in Placing /\ m_hangup
      BY <1>1, <1>4, <2>1 DEF Down, InSetUp
    <3>2. audio' = NoCall /\ video' = NoCall
      BY <1>1, <2>1, <3>1 DEF Down, Placing, Starting, Held
    <3>3. ASSUME NEW d \in 1..placed
          PROVE  thread'[d] = "over" \/ (thread'[d] \in Placing /\ m_hangup')
      <4>1. CASE d = c
        BY <1>5, <3>1, <4>1 DEF Advance
      <4>2. CASE d # c
        <5>1. d \in Calls
          BY <1>3, CallBoundsAssumption DEF Calls
        <5>2. thread[d] = "over"
          BY <1>16, <2>1, <4>2, <5>1 DEF Down, InSetUp, Placing
        <5> QED BY <1>5, <4>2, <5>1, <5>2
      <4> QED BY <4>1, <4>2
    <3> QED BY <1>2, <3>2, <3>3 DEF Down
  <2> QED BY <1>2, <1>3, <1>7, <2>1 DEF DownInv
<1> QED BY <1>6, <1>7, <1>8, <1>11, <1>12, <1>13, <1>15, <1>17, <1>18 DEF IInv

\* The streams and playbacks are started, one after the other.
StartingPlaces == {"buffer", "held", "start_video", "buffer_video", "held_video", "over"}

LEMMA StartsAdvance ==
  ASSUME IInv, NEW c \in Calls, UNCHANGED <<object, gui, bounds, history>>,
         Starts(c) \/ header_comes(c)
  PROVE  \E pc \in StartingPlaces : pc \in Threads /\ Advance(c, pc)
<1> USE DEF Advance, Goto, InSetUp, Placing, Answering, Starting, Held, streams, bus
<1>1. valid_video \in [Calls -> BOOLEAN]
  BY DEF IInv, TypeOK
<1>2. StartingPlaces \subseteq Threads
  BY DEF StartingPlaces, Threads
<1>3. ASSUME start_audio(c) PROVE Advance(c, "buffer")
  BY <1>1, <1>3 DEF start_audio
<1>4. ASSUME start_video(c) PROVE Advance(c, "buffer_video") \/ Advance(c, "over")
  BY <1>1, <1>4 DEF start_video
<1>5. ASSUME thread[c] \in {"buffer", "held"}, play_audio(c) PROVE Advance(c, "start_video")
  BY <1>1, <1>5 DEF play_audio
<1>6. ASSUME thread[c] \in {"buffer_video", "held_video"}, play_video(c) PROVE Advance(c, "over")
  BY <1>1, <1>6 DEF play_video
<1>7. ASSUME buffer(c), thread[c] \in {"buffer", "buffer_video"},
             thread' = [thread EXCEPT ![c] = IF thread[c] = "buffer" THEN "held" ELSE "held_video"],
             UNCHANGED <<bus, m_hangup, valid_video, dialled, streams>>
      PROVE  Advance(c, "held") \/ Advance(c, "held_video")
  BY <1>1, <1>7
<1> HIDE DEF Advance, Goto, InSetUp, Placing, Answering, Starting, Held, streams, bus
<1>8. CASE start_audio(c)
  BY <1>2, <1>3, <1>8 DEF StartingPlaces
<1>9. CASE start_video(c)
  BY <1>2, <1>4, <1>9 DEF StartingPlaces
<1>10. CASE buffer(c)
  BY <1>2, <1>5, <1>6, <1>7, <1>10 DEF StartingPlaces, buffer, Goto
<1>11. CASE header_comes(c)
  BY <1>2, <1>5, <1>6, <1>11 DEF StartingPlaces, header_comes
<1> QED BY <1>8, <1>9, <1>10, <1>11 DEF Starts

LEMMA CallThreadStep ==
  ASSUME IInv, NEW c \in Calls, CallThread(c)
  PROVE  IInv'
<1> USE DEF Advance, Goto, InSetUp, Placing, Answering, Starting, Held, streams, bus
<1>1. /\ valid_video \in [Calls -> BOOLEAN]
      /\ m_hangup \in BOOLEAN
  BY DEF IInv, TypeOK
<1>2. UNCHANGED <<object, gui, bounds, history>>
  BY DEF CallThread
<1>3. ASSUME dial_audio(c) PROVE Advance(c, "audio") \/ Advance(c, "over")
  <2>1. CASE Goto(c, "audio") /\ UNCHANGED m_resQ
    BY <1>1, <1>2, <1>3, <2>1 DEF dial_audio
  <2>2. CASE FailCall(c)
    BY <1>1, <1>2, <1>3, <2>2 DEF dial_audio, FailCall
  <2> QED BY <1>3, <2>1, <2>2 DEF dial_audio
<1>4. ASSUME ping_audio(c) PROVE Advance(c, "look") \/ Advance(c, "over")
  <2>1. CASE Goto(c, "look") /\ UNCHANGED bus
    BY <1>1, <1>2, <1>4, <2>1 DEF ping_audio
  <2>2. CASE FailCall(c)
    BY <1>1, <1>2, <1>4, <2>2 DEF ping_audio, FailCall
  <2> QED BY <1>4, <2>1, <2>2 DEF ping_audio
<1>5. ASSUME look(c) PROVE Advance(c, "begin_video") \/ Advance(c, "over")
  BY <1>1, <1>2, <1>5 DEF look, LookAtHangup
<1>6. ASSUME dial_video(c) PROVE Advance(c, "video") \/ Advance(c, "look_again")
  BY <1>1, <1>2, <1>6 DEF dial_video, Dial
<1>7. ASSUME ping_video(c) PROVE Advance(c, "look_again")
  <2>1. valid_video' \in [Calls -> BOOLEAN]
    BY <1>1, <1>7 DEF ping_video
  <2> QED BY <1>1, <1>2, <1>7, <2>1 DEF ping_video
<1>8. ASSUME look_again(c) PROVE Advance(c, "start") \/ Advance(c, "over")
  BY <1>1, <1>2, <1>8 DEF look_again, LookAtHangup
<1>9. {"over", "audio", "look", "begin_video", "video", "look_again", "start"} \subseteq Threads
  BY DEF Threads
<1>10. CASE Starts(c)
  BY <1>2, <1>10, StartsAdvance, AdvanceInv
<1> HIDE DEF Advance, Goto, InSetUp, Placing, Answering, Starting, Held, streams, bus
<1> QED BY <1>3, <1>4, <1>5, <1>6, <1>7, <1>8, <1>9, <1>10, AdvanceInv DEF CallThread

\* The end that answers goes through the same in the job thread.
LEMMA AcceptingStep ==
  ASSUME IInv, NEW c \in Calls, accepting(c), UNCHANGED <<gui, bounds>>
  PROVE  IInv'
<1> USE DEF Advance, Goto, InSetUp, Placing, Answering, Starting, Held, streams, bus
<1>1. /\ valid_video \in [Calls -> BOOLEAN]
  BY DEF IInv, TypeOK
<1>2. UNCHANGED <<object, gui, bounds, history>>
  BY DEF accepting
<1>3. ASSUME accept_audio(c), UNCHANGED <<m_jobQ, m_hangup>>
      PROVE  Advance(c, "accept_video") \/ Advance(c, "over")
  BY <1>1, <1>2, <1>3 DEF accept_audio
<1>4. ASSUME accept_video(c), UNCHANGED <<m_jobQ, m_hangup>> PROVE Advance(c, "start")
  <2>1. valid_video' \in [Calls -> BOOLEAN]
    BY <1>1, <1>4 DEF accept_video
  <2> QED BY <1>1, <1>2, <1>4, <2>1 DEF accept_video
<1>5. CASE Starts(c)
  BY <1>2, <1>5, StartsAdvance, AdvanceInv
<1>6. {"over", "accept_video", "start"} \subseteq Threads
  BY DEF Threads
<1> HIDE DEF Advance, Goto, InSetUp, Placing, Answering, Starting, Held, streams, bus
<1> QED BY <1>3, <1>4, <1>5, <1>6, AdvanceInv DEF accepting

\* The wait for the peer's first package ends, in either thread.
LEMMA HeaderComesStep ==
  ASSUME IInv, NEW c \in Calls, header_comes(c)
  PROVE  IInv'
<1>1. UNCHANGED <<object, gui, bounds, history>>
  BY DEF header_comes
<1> QED BY <1>1, StartsAdvance, AdvanceInv

-----------------------------------------------------------------------------
(* The job thread takes a job: then it answers no call, and every call in   *)
(* set-up has lost the job object.                                          *)
LEMMA TakesFacts ==
  ASSUME IInv, NEW command, Takes(command)
  PROVE  /\ m_jobQ \in Seq(Job) /\ Len(m_jobQ) \in Nat \ {0}
         /\ Head(m_jobQ) = m_jobQ[1] /\ Head(m_jobQ) \in Job
         /\ Head(m_jobQ).m_command = command /\ Head(m_jobQ).call <= placed
         /\ job_intValue' = Head(m_jobQ).m_intValue /\ job_intValue' \in Peers \cup {NoPeer}
         /\ reused' \subseteq placed_calls
         /\ \A c \in Calls \ reused' : c \notin reused /\ ~ InSetUp(c)
         /\ \A c \in Calls \ placed_calls : ~ InSetUp(c)
<1>1. m_jobQ \in Seq(Job) /\ m_jobQ # <<>> /\ reused \subseteq placed_calls /\ OrderInv
  BY DEF IInv, TypeOK, Takes, Next_is
<1>2. /\ Len(m_jobQ) \in Nat \ {0} /\ Head(m_jobQ) = m_jobQ[1] /\ Head(m_jobQ) \in Job
  BY <1>1, TakeProperties
<1>3. Head(m_jobQ).call <= placed
  BY <1>1, <1>2 DEF OrderInv
<1> QED BY <1>1, <1>2, <1>3 DEF Takes, Free, Next_is, Job

\* A call begins.
BeginStep(command, c, pc) ==
  /\ Takes(command) /\ c = Head(m_jobQ).call /\ Begin(c, pc)
  /\ \/ command = "CONNECT" /\ pc = "begin" /\ dialled' = dialled
     \/ /\ command = "ACCEPT" /\ pc = "accept_audio"
        /\ dialled' = [dialled EXCEPT ![c] = {Head(m_jobQ).m_intValue}]
  /\ UNCHANGED <<m_resQ, valid_video, streams, hung_up, late_hangup, stale, gui, bounds>>

LEMMA BeginStepInv ==
  ASSUME IInv, NEW command, NEW c, NEW pc, BeginStep(command, c, pc)
  PROVE  IInv'
<1>1. /\ UNCHANGED <<m_resQ, valid_video, audio, video, hung_up, late_hangup, stale>>
      /\ UNCHANGED <<m_on_call, window, boxes, placed, hangups, ticks, asked, placed_calls>>
      /\ Takes(command) /\ command \in {"CONNECT", "ACCEPT"} /\ c = Head(m_jobQ).call
      /\ m_hangup' = FALSE /\ thread' = [thread EXCEPT ![c] = pc]
      /\ overlap' = (overlap \/ Underway # {})
      /\ pc \in {"begin", "accept_audio"}
  BY DEF BeginStep, Begin, Goto, streams, gui, bounds
<1>2. /\ thread \in [Calls -> Threads] /\ dialled \in [Calls -> SUBSET (Peers \cup {NoPeer})]
      /\ placed \in 0..MaxCalls /\ overlap \in BOOLEAN
      /\ audio \in Calls \cup {NoCall} /\ video \in Calls \cup {NoCall}
      /\ asked \in [Calls -> Peers \cup {NoPeer}]
      /\ CallsInv /\ LegsInv /\ HangupInv /\ DownInv /\ BeginningInv /\ ResponsesInv
  BY DEF IInv, TypeOK
<1>3. /\ c \in 1..placed /\ c \in Calls /\ thread[c] = "none"
      /\ asked[c] = Head(m_jobQ).m_intValue
      /\ c \in placed_calls <=> command = "CONNECT"
  <2>1. /\ Begins(m_jobQ[1]) /\ c = m_jobQ[1].call /\ c <= placed /\ 1 \in 1..Len(m_jobQ)
        /\ m_jobQ[1] = Head(m_jobQ) /\ m_jobQ[1].m_command = command
    BY <1>1, TakesFacts DEF Begins
  <2>2. c \in Calls /\ thread[c] = "none" /\ asked[c] = m_jobQ[1].m_intValue
    BY <1>2, <2>1 DEF BeginningInv
  <2> QED BY <1>1, <1>2, <2>1, <2>2, CallBoundsAssumption DEF Calls, BeginningInv
<1>4. \A d \in Calls : /\ thread'[d] = IF d = c THEN pc ELSE thread[d]
                       /\ InSetUp(d)' => d = c \/ InSetUp(d)
  BY <1>2 DEF InSetUp, BeginStep, Begin, Goto
<1>5. m_jobQ' \in Seq(Job) /\ BeginningInv' /\ OrderInv'
  <2>1. pc \in Threads \ {"none"}
    BY <1>1 DEF Threads, Placing, Answering
  <2> QED BY <1>1, <2>1, QueueTaken DEF Goto
<1>6. OneAnswering'
  BY <1>1, <1>4, TakesFacts DEF OneAnswering
<1>7. TypeOK'
  <2>1. thread' \in [Calls -> Threads]
    BY <1>1, <1>2 DEF Threads, Placing, Answering
  <2>2. Cardinality({d \in Calls \ placed_calls : InSetUp(d)})' <= 1
    BY <1>6, AtMostOne DEF OneAnswering
  <2>3. dialled' \in [Calls -> SUBSET (Peers \cup {NoPeer})]
    BY <1>2, <1>3 DEF BeginStep
  <2>4. job_intValue' \in Peers \cup {NoPeer} /\ reused' \subseteq placed_calls
    BY <1>1, TakesFacts
  <2> QED BY <1>1, <1>5, <2>1, <2>2, <2>3, <2>4 DEF IInv, TypeOK
<1>8. CallsInv'
  <2>1. \A d \in Calls : d > placed => d # c
    BY <1>2, <1>3
  <2>2. \A d \in Calls : thread'[d] = "none" => dialled'[d] = {}
    BY <1>1, <1>2, <1>3, <1>4 DEF CallsInv, BeginStep
  <2>3. \A d \in Calls : thread'[d] \in Answering => d \notin placed_calls
    BY <1>2, <1>3, <1>4 DEF CallsInv, BeginStep, Answering
  <2> QED BY <1>1, <1>2, <1>4, <2>1, <2>2, <2>3 DEF CallsInv
<1>9. LegsInv'
  <2>1. dialled'[c] \subseteq {asked[c]} /\ job_intValue' = asked[c]
    BY <1>1, <1>2, <1>3, TakesFacts DEF BeginStep, CallsInv
  <2>2. \A d \in Calls \ reused' : d # c => dialled'[d] = dialled[d]
    BY <1>2 DEF BeginStep
  <2> QED BY <1>1, <1>2, <1>4, <2>1, <2>2, TakesFacts DEF LegsInv
<1>10. OneUnderway'
  <2>1. Underway' \subseteq Underway \cup {c}
    BY <1>1, <1>4 DEF Underway
  <2> QED BY <1>1, <1>2, <2>1 DEF OneUnderway
<1>11. HangupInv'
  <2>1. ASSUME ~ overlap', NEW d \in hung_up \ late_hangup
        PROVE  d \notin {audio, video} /\ thread'[d] = "over"
    <3>1. d \in Calls
      BY DEF IInv, TypeOK
    <3>2. ~ overlap /\ d \notin Underway
      BY <1>1, <1>2, <2>1
    <3>3. d \notin {audio, video} /\ (thread[d] = "over" \/ thread[d] \in Placing)
      BY <1>2, <3>2 DEF HangupInv
    <3>4. thread[d] = "over"
      BY <3>1, <3>2, <3>3 DEF Underway, InSetUp, Placing
    <3> QED BY <1>3, <1>4, <3>1, <3>3, <3>4
  <2> QED BY <1>1, <2>1 DEF HangupInv
<1>12. DownInv'
  <2>1. ~ Down
    BY <1>3 DEF Down, Placing
  <2> QED BY <1>1, <1>2, <2>1 DEF DownInv
<1>13. ResponsesInv'
  BY <1>1, <1>2 DEF ResponsesInv
<1> QED BY <1>5, <1>6, <1>7, <1>8, <1>9, <1>10, <1>11, <1>12, <1>13 DEF IInv

\* A job that leaves the calls alone, but for the HANGUP.
LEMMA TakeInv ==
  ASSUME IInv, NEW command, Takes(command), command \notin {"CONNECT", "ACCEPT"},
         UNCHANGED <<legs, gui, bounds, overlap>>, m_hangup' \in BOOLEAN,
         m_resQ' \in Seq(Job), ResponsesInv', DownInv', HangupInv', late_hangup' \subseteq hung_up',
         hung_up' \subseteq Calls, audio' \in {audio, NoCall}, video' \in {video, NoCall},
         stale' = stale
  PROVE  IInv'
<1>1. UNCHANGED <<thread, valid_video, dialled, m_on_call, window, boxes, placed,
                  hangups, ticks, asked, placed_calls>>
  BY DEF legs, gui, bounds
<1>2. m_jobQ' \in Seq(Job) /\ BeginningInv' /\ OrderInv'
  BY <1>1, QueueTaken
<1>3. OneAnswering'
  BY <1>1 DEF IInv, OneAnswering, InSetUp
<1>4. TypeOK'
  <2>1. Cardinality({d \in Calls \ placed_calls : InSetUp(d)})' <= 1
    BY <1>3, AtMostOne DEF OneAnswering
  <2>2. job_intValue' \in Peers \cup {NoPeer} /\ reused' \subseteq placed_calls
    BY TakesFacts
  <2>3. audio' \in Calls \cup {NoCall} /\ video' \in Calls \cup {NoCall}
    BY DEF IInv, TypeOK
  <2> QED BY <1>1, <1>2, <2>1, <2>2, <2>3 DEF IInv, TypeOK
<1>5. CallsInv'
  <2>1. audio' <= placed /\ video' <= placed
    BY DEF IInv, TypeOK, CallsInv, NoCall
  <2> QED BY <1>1, <2>1 DEF IInv, CallsInv
<1>6. LegsInv'
  <2>1. \A c \in Calls \ reused' : ~ InSetUp(c)' /\ c \notin reused
    BY <1>1, TakesFacts DEF InSetUp
  <2> QED BY <1>1, <2>1 DEF IInv, LegsInv
<1>7. OneUnderway'
  <2>1. Underway' \subseteq Underway
    BY <1>1 DEF Underway, InSetUp
  <2> QED BY <2>1 DEF IInv, OneUnderway
<1> QED BY <1>2, <1>3, <1>4, <1>5, <1>6, <1>7 DEF IInv

LEMMA HangupStep ==
  ASSUME IInv, hangup, UNCHANGED <<gui, bounds>>
  PROVE  IInv'
<1>1. Takes("HANGUP")
  BY DEF hangup
<1>2. /\ m_hangup' = TRUE /\ audio' = NoCall /\ video' = NoCall
      /\ m_resQ' = Answered(m_resQ, Head(m_jobQ))
      /\ hung_up' = hung_up \cup {c \in Calls : InSetUp(c)}
      /\ late_hangup' = late_hangup \cup {c \in Calls : thread[c] \in Starting}
      /\ UNCHANGED <<legs, overlap, stale>>
      /\ UNCHANGED <<thread, placed, placed_calls, m_on_call>>
  BY DEF hangup, legs, bounds, gui
<1>3. /\ m_resQ' \in Seq(Job) /\ ResponsesInv' /\ Len(m_resQ) \in Nat
      /\ \A i \in 1..Len(m_resQ') : \/ i \in 1..Len(m_resQ) /\ m_resQ'[i] = m_resQ[i]
                                    \/ m_resQ'[i] = Head(m_jobQ)
  BY <1>1, <1>2, TakesFacts, ResponsesGrow
<1>4. /\ thread \in [Calls -> Threads] /\ placed \in 0..MaxCalls /\ late_hangup \subseteq hung_up
      /\ hung_up \subseteq Calls
      /\ CallsInv /\ HangupInv /\ DownInv /\ OrderInv
  BY DEF IInv, TypeOK
<1>5. \A c \in Calls : InSetUp(c) => thread[c] \in Placing \cup Starting
  BY <1>1, <1>4, TakesFacts DEF InSetUp, Threads, CallsInv
<1>6. late_hangup' \subseteq hung_up' /\ hung_up' \subseteq Calls
  BY <1>2, <1>4 DEF InSetUp, Starting, Held
<1>7. HangupInv'
  <2> SUFFICES ASSUME ~ overlap, NEW c \in hung_up' \ late_hangup'
               PROVE  NoCall # c /\ (thread[c] = "over" \/ thread[c] \in Placing)
    BY <1>2 DEF HangupInv
  <2>1. c \in Calls /\ NoCall # c
    BY <1>6 DEF Calls, NoCall
  <2>2. CASE InSetUp(c)
    BY <1>2, <1>5, <2>1, <2>2
  <2>3. CASE ~ InSetUp(c)
    <3>1. c \in hung_up /\ c \notin late_hangup
      BY <1>2, <2>3
    <3> QED BY <1>4, <2>1, <3>1 DEF HangupInv
  <2> QED BY <2>1, <2>2, <2>3
<1>8. DownInv'
  <2>1. ASSUME late_hangup' = {}, Head(m_jobQ).call = placed PROVE Down'
    <3> SUFFICES ASSUME NEW c \in 1..placed
                 PROVE  thread[c] = "over" \/ thread[c] \in Placing
      BY <1>2 DEF Down
    <3>1. c \in Calls
      BY <1>4, CallBoundsAssumption DEF Calls
    <3>2. thread[c] # "none"
      <4> SUFFICES ASSUME thread[c] = "none" PROVE FALSE
        OBVIOUS
      <4>1. PICK i \in 1..Len(m_jobQ) : Begins(m_jobQ[i]) /\ m_jobQ[i].call = c
        BY <1>4 DEF OrderInv
      <4>2. 1 \in 1..Len(m_jobQ) /\ m_jobQ[1].m_command = "HANGUP" /\ m_jobQ[1].call = placed
        BY <1>1, <2>1, TakesFacts
      <4>3. 1 < i
        BY <4>1, <4>2 DEF Begins
      <4>4. placed < c
        BY <1>4, <4>1, <4>2, <4>3 DEF OrderInv
      <4> QED BY <1>4, <4>4
    <3>3. thread[c] \notin Starting
      BY <1>2, <2>1, <3>1
    <3> QED BY <1>5, <3>1, <3>2, <3>3 DEF InSetUp
  <2>2. Down => Down'
    BY <1>2, <1>4 DEF Down
  <2> QED BY <1>2, <1>3, <1>4, <2>1, <2>2 DEF DownInv
<1> QED BY <1>1, <1>2, <1>3, <1>6, <1>7, <1>8, TakeInv

LEMMA JobThreadStep == ASSUME IInv, JobThread PROVE IInv'
<1>1. UNCHANGED <<gui, bounds>>
  BY DEF JobThread
<1>2. CASE connect
  <2>1. BeginStep("CONNECT", Head(m_jobQ).call, "begin")
    BY <1>1, <1>2 DEF connect, BeginStep, IInv, TypeOK
  <2> QED BY <2>1, BeginStepInv
<1>3. CASE accept
  <2>1. Head(m_jobQ).call \in Calls \cup {NoCall}
    BY <1>3, TakesFacts DEF accept, Job
  <2>2. BeginStep("ACCEPT", Head(m_jobQ).call, "accept_audio")
    BY <1>1, <1>3, <2>1 DEF accept, BeginStep
  <2> QED BY <2>2, BeginStepInv
<1>4. CASE reject \/ other_job
  <2>1. PICK command \in {"REJECT", "PENDING"} : Takes(command)
    BY <1>4 DEF reject, other_job
  <2>2. UNCHANGED <<m_resQ, m_hangup, legs, streams, history>>
    BY <1>4 DEF reject, other_job
  <2>3. UNCHANGED <<thread, audio, video, hung_up, late_hangup, overlap, stale, placed, m_on_call>>
    BY <1>1, <2>2 DEF legs, streams, history, bounds, gui
  <2>4. m_resQ' \in Seq(Job) /\ ResponsesInv' /\ m_hangup' \in BOOLEAN
    BY <2>2, <2>3 DEF IInv, TypeOK, ResponsesInv
  <2>5. DownInv' /\ HangupInv'
    BY <2>2, <2>3 DEF IInv, DownInv, Down, HangupInv
  <2>6. late_hangup' \subseteq hung_up' /\ hung_up' \subseteq Calls
    BY <2>3 DEF IInv, TypeOK
  <2> QED BY <1>1, <2>1, <2>2, <2>3, <2>4, <2>5, <2>6, TakeInv
<1>5. CASE hangup
  BY <1>1, <1>5, HangupStep
<1>6. CASE \E c \in Calls : accepting(c)
  BY <1>1, <1>6, AcceptingStep
<1> QED BY <1>2, <1>3, <1>4, <1>5, <1>6 DEF JobThread

-----------------------------------------------------------------------------
(* The interface, which takes responses, and those who create jobs.         *)

\* Taking a response leaves the others.
LEMMA ResponseTaken ==
  ASSUME IInv, NEW command, Response(command), placed' = placed
  PROVE  /\ m_resQ' \in Seq(Job) /\ ResponsesInv' /\ Len(m_resQ) \in Nat \ {0}
         /\ \A i \in 1..Len(m_resQ') : i + 1 \in 1..Len(m_resQ) /\ m_resQ'[i] = m_resQ[i + 1]
         /\ Head(m_resQ) = m_resQ[1] /\ m_resQ[1].m_command = command
         /\ command = "VIDEO_FAILED" => m_resQ[1].call \in 1..placed
<1>1. m_resQ \in Seq(Job) /\ m_resQ # <<>> /\ ResponsesInv /\ placed \in 0..MaxCalls
  BY DEF IInv, TypeOK, Response, Next_is
<1>2. /\ m_resQ' \in Seq(Job) /\ Len(m_resQ') = Len(m_resQ) - 1 /\ Len(m_resQ) \in Nat \ {0}
      /\ \A i \in 1..Len(m_resQ') : m_resQ'[i] = m_resQ[i + 1]
      /\ Head(m_resQ) = m_resQ[1] /\ m_resQ[1].m_command = command
  BY <1>1, TakeProperties DEF Response, Next_is
<1>3. \A i \in 1..Len(m_resQ') : i + 1 \in 1..Len(m_resQ) /\ m_resQ'[i] = m_resQ[i + 1]
  BY <1>2
<1>4. ResponsesInv'
  BY <1>1, <1>3 DEF ResponsesInv
<1>5. command = "VIDEO_FAILED" => m_resQ[1].call \in 1..placed
  BY <1>1, <1>2 DEF ResponsesInv, Calls
<1> QED BY <1>2, <1>3, <1>4, <1>5

\* Steps after which the calls are where they were and none is new.
LEMMA QuietInv ==
  ASSUME IInv, NEW j \in Job, ~ Begins(j), j.call <= placed,
         m_jobQ' = m_jobQ \/ m_jobQ' = create(m_jobQ, <<j>>),
         UNCHANGED <<object, m_hangup, legs, streams, placed, placed_calls, asked>>,
         UNCHANGED <<hung_up, late_hangup, overlap>>,
         m_resQ' \in Seq(Job), ResponsesInv', DownInv',
         m_on_call' \in BOOLEAN, window' \in BOOLEAN, stale' \in BOOLEAN,
         boxes' \subseteq 1..placed, hangups' \in 0..MaxHangups, ticks' \in 0..MaxTicks
  PROVE  IInv'
<1>1. UNCHANGED <<job_intValue, reused, thread, valid_video, dialled, audio, video>>
  BY DEF legs, object, streams
<1>2. m_jobQ' \in Seq(Job) /\ BeginningInv' /\ OrderInv'
  BY <1>1, QueueGrows
<1>3. OneAnswering'
  BY <1>1 DEF IInv, OneAnswering, InSetUp
<1>4. TypeOK'
  <2>1. Cardinality({d \in Calls \ placed_calls : InSetUp(d)})' <= 1
    BY <1>3, AtMostOne DEF OneAnswering
  <2>2. boxes' \subseteq Calls
    BY CallBoundsAssumption DEF IInv, TypeOK, Calls
  <2> QED BY <1>1, <1>2, <2>1, <2>2 DEF IInv, TypeOK
<1>5. CallsInv' /\ LegsInv'
  BY <1>1 DEF IInv, CallsInv, LegsInv, InSetUp
<1>6. OneUnderway' /\ HangupInv'
  BY <1>1 DEF IInv, OneUnderway, Underway, InSetUp, HangupInv
<1> QED BY <1>2, <1>3, <1>4, <1>5, <1>6 DEF IInv

LEMMA InterfaceStep == ASSUME IInv, Interface PROVE IInv'
<1>1. /\ UNCHANGED <<object, m_hangup, legs, streams, hung_up, late_hangup, overlap>>
      /\ UNCHANGED <<placed, placed_calls, asked, hangups, ticks>>
      /\ UNCHANGED <<thread, audio, video>>
  BY DEF Interface, bounds, legs, streams
<1>2. /\ hangups' \in 0..MaxHangups /\ ticks' \in 0..MaxTicks
      /\ m_resQ \in Seq(Job) /\ ResponsesInv /\ DownInv /\ boxes \subseteq 1..placed
      /\ m_on_call \in BOOLEAN /\ window \in BOOLEAN /\ stale \in BOOLEAN
      /\ placed \in 0..MaxCalls
  BY <1>1 DEF IInv, TypeOK, CallsInv
<1>3. Down' <=> Down
  BY <1>1 DEF Down
<1>4. Notice("HANGUP", NoCall) \in Job /\ ~ Begins(Notice("HANGUP", NoCall))
        /\ Notice("HANGUP", NoCall).call <= placed
  BY <1>2 DEF Notice, NewJob, Job, Begins, NoCall
<1>5. CASE job_hangup /\ UNCHANGED m_jobQ
  <2>1. /\ Response("HANGUP") /\ m_on_call' = FALSE /\ window' = FALSE /\ UNCHANGED boxes
        /\ stale' = (stale \/ Head(m_resQ).call # placed)
    BY <1>5 DEF job_hangup
  <2>2. DownInv'
    <3>1. /\ \A i \in 1..Len(m_resQ') : i + 1 \in 1..Len(m_resQ) /\ m_resQ'[i] = m_resQ[i + 1]
          /\ 1 \in 1..Len(m_resQ) /\ Head(m_resQ) = m_resQ[1] /\ m_resQ[1].m_command = "HANGUP"
      BY <1>1, <2>1, ResponseTaken
    <3>2. ~ overlap /\ late_hangup = {} => stale' \/ Down
      BY <1>2, <2>1, <3>1 DEF DownInv
    <3> QED BY <1>1, <1>2, <1>3, <3>1, <3>2 DEF DownInv
  <2> QED BY <1>1, <1>2, <1>4, <1>5, <2>1, <2>2, ResponseTaken, QuietInv
<1>6. ASSUME NEW command \in {"VIDEO_STREAM", "VIDEO_FAILED"}, Response(command), UNCHANGED m_on_call,
             UNCHANGED stale
      PROVE  m_resQ' \in Seq(Job) /\ ResponsesInv' /\ DownInv'
  <2>1. /\ m_resQ' \in Seq(Job) /\ ResponsesInv'
        /\ \A i \in 1..Len(m_resQ') : i + 1 \in 1..Len(m_resQ) /\ m_resQ'[i] = m_resQ[i + 1]
    BY <1>1, <1>6, ResponseTaken
  <2> QED BY <1>1, <1>2, <1>3, <1>6, <2>1 DEF DownInv
<1>7. CASE job_video_stream /\ UNCHANGED stale
  BY <1>1, <1>2, <1>4, <1>6, <1>7, QuietInv DEF job_video_stream, gui
<1>8. CASE job_video_failed /\ UNCHANGED stale
  <2>1. boxes' \subseteq 1..placed
    BY <1>1, <1>2, <1>8, ResponseTaken DEF job_video_failed
  <2> QED BY <1>1, <1>2, <1>4, <1>6, <1>8, <2>1, QuietInv DEF job_video_failed
<1>9. CASE UNCHANGED stale /\ \E c \in Calls : close_box(c)
  <2>1. PICK c \in Calls : close_box(c)
    BY <1>9
  <2>2. Notice("HANGUP", c) \in Job /\ ~ Begins(Notice("HANGUP", c)) /\ Notice("HANGUP", c).call <= placed
    BY <1>2, <2>1 DEF close_box, Notice, NewJob, Job, Begins
  <2>3. /\ boxes' \subseteq 1..placed /\ m_on_call' = m_on_call /\ m_resQ' = m_resQ
        /\ m_jobQ' = create(m_jobQ, <<Notice("HANGUP", c)>>) /\ window' = FALSE
    BY <1>2, <2>1 DEF close_box
  <2>4. m_resQ' \in Seq(Job) /\ ResponsesInv' /\ DownInv'
    BY <1>1, <1>2, <1>3, <1>9, <2>3 DEF ResponsesInv, DownInv
  <2> QED BY <1>1, <1>2, <1>9, <2>2, <2>3, <2>4, QuietInv
<1> QED BY <1>5, <1>7, <1>8, <1>9 DEF Interface

\* A call that the user places or answers waits for the job thread.
LEMMA NewCallInv ==
  ASSUME IInv, NEW p \in Peers, NEW command \in {"CONNECT", "ACCEPT"}, NewCall(p),
         m_jobQ' = create(m_jobQ, <<NewJob(command, p, placed')>>),
         placed_calls' = IF command = "CONNECT" THEN placed_calls \cup {placed'} ELSE placed_calls,
         m_on_call' = TRUE, window' \in BOOLEAN, boxes' = boxes, hangups' = hangups, ticks' = ticks,
         UNCHANGED <<m_resQ, object, m_hangup, legs, streams, history>>
  PROVE  IInv'
<1> DEFINE new == placed + 1
           j == NewJob(command, p, new)
<1>1. /\ UNCHANGED <<job_intValue, reused, m_hangup, thread, valid_video, dialled>>
      /\ UNCHANGED <<audio, video, hung_up, late_hangup, overlap, stale, m_resQ>>
  BY DEF legs, object, streams, history
<1>2. /\ thread \in [Calls -> Threads] /\ placed \in 0..MaxCalls
      /\ asked \in [Calls -> Peers \cup {NoPeer}] /\ placed_calls \subseteq 1..placed
      /\ boxes \subseteq 1..placed /\ audio <= placed /\ video <= placed
      /\ audio \in Calls \cup {NoCall} /\ video \in Calls \cup {NoCall}
      /\ m_jobQ \in Seq(Job) /\ Len(m_jobQ) \in Nat
      /\ m_resQ \in Seq(Job) /\ reused \subseteq placed_calls
      /\ CallsInv /\ OneAnswering /\ LegsInv /\ BeginningInv /\ OrderInv /\ ResponsesInv /\ DownInv
  BY LenProperties DEF IInv, TypeOK, CallsInv
<1>3. /\ placed < MaxCalls /\ placed' = new /\ asked' = [asked EXCEPT ![new] = p]
      /\ new \in Calls /\ new \in 1..MaxCalls /\ Calls = 1..MaxCalls
  BY <1>2, CallBoundsAssumption DEF NewCall, Calls
<1>4. thread[new] = "none" /\ dialled[new] = {} /\ ~ InSetUp(new) /\ new \notin placed_calls
  BY <1>2, <1>3 DEF CallsInv, InSetUp
<1>5. /\ m_jobQ' \in Seq(Job) /\ Len(m_jobQ') = Len(m_jobQ) + 1
      /\ \A i \in 1..Len(m_jobQ) : m_jobQ'[i] = m_jobQ[i]
      /\ m_jobQ'[Len(m_jobQ) + 1] = j
      /\ Begins(j) /\ j.call = new /\ j.m_command = command /\ j.m_intValue = p
  <2>1. j \in Job /\ Begins(j) /\ j.call = new /\ j.m_command = command /\ j.m_intValue = p
    BY <1>3 DEF NewJob, Job, Begins
  <2>2. m_jobQ' = create(m_jobQ, <<j>>)
    BY <1>3
  <2> HIDE DEF j
  <2>3. /\ create(m_jobQ, <<j>>) \in Seq(Job) /\ Len(create(m_jobQ, <<j>>)) = Len(m_jobQ) + 1
        /\ \A i \in 1..Len(m_jobQ) : create(m_jobQ, <<j>>)[i] = m_jobQ[i]
        /\ create(m_jobQ, <<j>>)[Len(m_jobQ) + 1] = j
    <3>1. m_jobQ \in Seq(Job) /\ j \in Job
      BY <1>2, <2>1
    <3> QED BY <3>1, CreateProperties
  <2> QED BY <2>1, <2>2, <2>3
<1> HIDE DEF j
<1>6. /\ Len(m_jobQ') = Len(m_jobQ) + 1
      /\ \A i \in 1..Len(m_jobQ') : \/ i \in 1..Len(m_jobQ) /\ m_jobQ'[i] = m_jobQ[i]
                                    \/ /\ i = Len(m_jobQ) + 1
                                       /\ Begins(m_jobQ'[i]) /\ m_jobQ'[i].call = new
                                       /\ m_jobQ'[i].m_command = command /\ m_jobQ'[i].m_intValue = p
  <2>1. \A i \in 1..(Len(m_jobQ) + 1) : i \in 1..Len(m_jobQ) \/ i = Len(m_jobQ) + 1
    BY <1>2
  <2> QED BY <1>5, <2>1
<1>7. \A i \in 1..Len(m_jobQ) : m_jobQ[i].call \in Int /\ m_jobQ[i].call <= placed
  <2>1. \A i \in 1..Len(m_jobQ) : m_jobQ[i] \in Job
    BY <1>2, ElementOfSeq
  <2> QED BY <1>2, <1>3, <2>1 DEF OrderInv, Job, NoCall
<1>8. BeginningInv'
  <2>1. ASSUME NEW i \in 1..Len(m_jobQ'), Begins(m_jobQ'[i])
        PROVE  LET c == m_jobQ'[i].call
               IN /\ c \in Calls /\ thread[c] = "none"
                  /\ asked'[c] = m_jobQ'[i].m_intValue
                  /\ c \in placed_calls' <=> m_jobQ'[i].m_command = "CONNECT"
    <3>1. CASE i = Len(m_jobQ) + 1
      BY <1>2, <1>3, <1>4, <1>5, <3>1
    <3>2. CASE i \in 1..Len(m_jobQ)
      <4>1. m_jobQ'[i] = m_jobQ[i] /\ m_jobQ[i].call # new
        BY <1>2, <1>5, <1>7, <3>2
      <4>2. /\ m_jobQ[i].call \in Calls /\ thread[m_jobQ[i].call] = "none"
            /\ asked[m_jobQ[i].call] = m_jobQ[i].m_intValue
            /\ m_jobQ[i].call \in placed_calls <=> m_jobQ[i].m_command = "CONNECT"
        BY <1>2, <2>1, <3>2, <4>1 DEF BeginningInv
      <4>3. asked'[m_jobQ[i].call] = asked[m_jobQ[i].call]
        BY <1>2, <1>3, <4>1, <4>2
      <4>4. m_jobQ[i].call \in placed_calls' <=> m_jobQ[i].call \in placed_calls
        BY <1>3, <4>1
      <4> QED BY <4>1, <4>2, <4>3, <4>4
    <3> QED BY <1>6, <3>1, <3>2
  <2>2. ASSUME NEW i \in 1..Len(m_jobQ'), NEW k \in 1..Len(m_jobQ'),
               Begins(m_jobQ'[i]), Begins(m_jobQ'[k]), m_jobQ'[i].call = m_jobQ'[k].call
        PROVE  i = k
    <3>1. CASE i \in 1..Len(m_jobQ) /\ k \in 1..Len(m_jobQ)
      BY <1>2, <1>5, <2>2, <3>1 DEF BeginningInv
    <3>2. CASE ~ (i \in 1..Len(m_jobQ) /\ k \in 1..Len(m_jobQ))
      <4>1. \A n \in 1..Len(m_jobQ') : n \in 1..Len(m_jobQ) => m_jobQ'[n].call # new
        <5>1. \A n \in 1..Len(m_jobQ) : m_jobQ[n].call # new
          BY <1>2, <1>7
        <5> HIDE DEF new
        <5> QED BY <1>5, <5>1
      <4>2. i \notin 1..Len(m_jobQ) /\ k \notin 1..Len(m_jobQ)
        BY <1>6, <2>2, <3>2, <4>1
      <4> QED BY <1>6, <4>2
    <3> QED BY <3>1, <3>2
  <2> QED BY <1>1, <2>1, <2>2 DEF BeginningInv
<1>9. OrderInv'
  <2>1. \A i \in 1..Len(m_jobQ') : m_jobQ'[i].call <= placed'
    <3>1. \A i \in 1..Len(m_jobQ) : m_jobQ[i].call <= new
      BY <1>2, <1>7
    <3>2. new <= placed'
      BY <1>2, <1>3
    <3> QED BY <1>3, <1>6, <3>1, <3>2
  <2>2. ASSUME NEW c \in 1..placed', thread[c] = "none"
        PROVE  \E i \in 1..Len(m_jobQ') : Begins(m_jobQ'[i]) /\ m_jobQ'[i].call = c
    <3>1. CASE c = new
      BY <1>2, <1>5, <3>1
    <3>2. CASE c \in 1..placed
      <4>1. PICK i \in 1..Len(m_jobQ) : Begins(m_jobQ[i]) /\ m_jobQ[i].call = c
        BY <1>2, <2>2, <3>2 DEF OrderInv
      <4>2. i \in 1..Len(m_jobQ') /\ m_jobQ'[i] = m_jobQ[i]
        BY <1>2, <1>5
      <4> QED BY <4>1, <4>2
    <3>3. c = new \/ c \in 1..placed
      BY <1>2, <1>3
    <3> QED BY <3>1, <3>2, <3>3
  <2>3. ASSUME NEW i \in 1..Len(m_jobQ'), NEW k \in 1..Len(m_jobQ'), i < k,
               m_jobQ'[i].m_command = "HANGUP", Begins(m_jobQ'[k])
        PROVE  m_jobQ'[i].call < m_jobQ'[k].call
    <3>1. i \in 1..Len(m_jobQ) /\ m_jobQ'[i] = m_jobQ[i]
      BY <1>2, <1>6, <2>3
    <3>2. CASE k \in 1..Len(m_jobQ)
      BY <1>2, <1>5, <2>3, <3>1, <3>2 DEF OrderInv
    <3>3. CASE k \notin 1..Len(m_jobQ)
      BY <1>2, <1>6, <1>7, <3>1, <3>3
    <3> QED BY <3>2, <3>3
  <2> QED BY <1>1, <2>1, <2>2, <2>3 DEF OrderInv
<1>10. OneAnswering'
  BY <1>1, <1>2, <1>4 DEF OneAnswering, InSetUp
<1>11. TypeOK'
  <2>1. Cardinality({d \in Calls \ placed_calls : InSetUp(d)})' <= 1
    BY <1>10, AtMostOne DEF OneAnswering
  <2>2. asked' \in [Calls -> Peers \cup {NoPeer}] /\ placed' \in 0..MaxCalls
    BY <1>2, <1>3
  <2>3. placed_calls' \subseteq Calls /\ reused' \subseteq placed_calls' /\ boxes' \subseteq Calls
    <3>1. new \in Calls /\ placed_calls \subseteq Calls /\ boxes \subseteq Calls
      BY <1>2, <1>3, CallBoundsAssumption
    <3>2. placed_calls' \subseteq placed_calls \cup {new} /\ placed_calls \subseteq placed_calls'
      BY <1>3
    <3> HIDE DEF new
    <3> QED BY <1>1, <1>2, <3>1, <3>2
  <2> QED BY <1>1, <1>2, <1>5, <2>1, <2>2, <2>3 DEF IInv, TypeOK
<1>12. CallsInv'
  BY <1>1, <1>2, <1>3, <1>4 DEF CallsInv, Answering, Calls
<1>13. ResponsesInv'
  <2>1. \A i \in 1..Len(m_resQ) : m_resQ[i] \in Job
    BY <1>2, ElementOfSeq
  <2> QED BY <1>1, <1>2, <1>3, <2>1 DEF ResponsesInv, Job, NoCall
<1>14. LegsInv'
  <2>1. \A d \in Calls : d # new => asked'[d] = asked[d]
    BY <1>2, <1>3
  <2> QED BY <1>1, <1>2, <1>4, <2>1 DEF LegsInv, InSetUp
<1>15. OneUnderway' /\ HangupInv'
  BY <1>1 DEF IInv, OneUnderway, Underway, InSetUp, HangupInv
<1>16. DownInv'
  <2>1. \A i \in 1..Len(m_resQ) : m_resQ[i].call # placed'
    <3>1. \A i \in 1..Len(m_resQ) : m_resQ[i] \in Job
      BY <1>2, ElementOfSeq
    <3> QED BY <1>2, <1>3, <3>1 DEF ResponsesInv, Job, NoCall
  <2> QED BY <1>1, <2>1 DEF DownInv
<1> QED BY <1>8, <1>9, <1>10, <1>11, <1>12, <1>13, <1>14, <1>15, <1>16 DEF IInv

LEMMA EnvironmentStep == ASSUME IInv, Environment PROVE IInv'
<1>1. UNCHANGED <<m_resQ, object, m_hangup, legs, streams, history>>
  BY DEF Environment
<1>2. /\ window \in BOOLEAN /\ m_on_call \in BOOLEAN /\ m_resQ \in Seq(Job)
      /\ hangups \in 0..MaxHangups /\ ticks \in 0..MaxTicks /\ placed \in 0..MaxCalls
      /\ boxes \subseteq 1..placed /\ audio \in Calls \cup {NoCall} /\ audio <= placed
      /\ ResponsesInv /\ DownInv
  BY DEF IInv, TypeOK, CallsInv
<1>3. ASSUME NEW p \in Peers, on_call_clicked(p) PROVE IInv'
  BY <1>1, <1>3, NewCallInv DEF on_call_clicked
<1>4. ASSUME NEW p \in Peers, on_answer_clicked(p) PROVE IInv'
  <2>1. window' \in BOOLEAN
    BY <1>2, <1>4 DEF on_answer_clicked
  <2> QED BY <1>1, <1>4, <2>1, NewCallInv DEF on_answer_clicked
<1>5. ASSUME NEW j \in Job, ~ Begins(j), j.call <= placed, m_jobQ' = create(m_jobQ, <<j>>),
             UNCHANGED <<m_on_call, boxes, placed, placed_calls, asked>>, window' \in BOOLEAN,
             hangups' \in 0..MaxHangups, ticks' \in 0..MaxTicks
      PROVE  IInv'
  <2>1. UNCHANGED <<thread, audio, video, late_hangup, hung_up, overlap, stale>>
    BY <1>1 DEF legs, streams, history
  <2>2. DownInv' /\ ResponsesInv' /\ m_resQ' \in Seq(Job)
    BY <1>1, <1>2, <1>5, <2>1 DEF DownInv, Down, ResponsesInv
  <2>3. boxes' \subseteq 1..placed /\ m_on_call' \in BOOLEAN /\ stale' \in BOOLEAN
    BY <1>2, <1>5, <2>1 DEF IInv, TypeOK
  <2> QED BY <1>1, <1>5, <2>1, <2>2, <2>3, QuietInv
<1>6. ASSUME NEW p \in Peers, on_ignore_clicked(p) PROVE IInv'
  <2>1. /\ NewJob("REJECT", p, NoCall) \in Job /\ ~ Begins(NewJob("REJECT", p, NoCall))
        /\ NewJob("REJECT", p, NoCall).call <= placed
    BY <1>2 DEF NewJob, Job, Begins, NoCall
  <2> QED BY <1>2, <1>5, <1>6, <2>1, CallBoundsAssumption DEF on_ignore_clicked, gui
<1>7. ASSUME NEW c \in {placed, audio}
      PROVE  Notice("HANGUP", c) \in Job /\ ~ Begins(Notice("HANGUP", c)) /\ Notice("HANGUP", c).call <= placed
  BY <1>2 DEF Notice, NewJob, Job, Begins, NoCall, Calls
<1>8. CASE on_hangup_clicked
  <2>1. /\ Notice("HANGUP", placed) \in Job /\ ~ Begins(Notice("HANGUP", placed))
        /\ Notice("HANGUP", placed).call <= placed
    BY <1>7
  <2>2. hangups < MaxHangups /\ hangups' = hangups + 1 /\ ticks' = ticks /\ window' \in BOOLEAN
    BY <1>8, Zenon DEF on_hangup_clicked
  <2>3. hangups' \in 0..MaxHangups /\ ticks' \in 0..MaxTicks
    BY <1>2, <2>2, CallBoundsAssumption
  <2> QED BY <1>5, <1>8, <2>1, <2>2, <2>3 DEF on_hangup_clicked
<1>9. CASE hangup_callback
  BY <1>2, <1>5, <1>7, <1>9, CallBoundsAssumption DEF hangup_callback, gui
<1>10. CASE repeated_tasks
  <2>1. /\ Notice("PENDING", NoCall) \in Job /\ ~ Begins(Notice("PENDING", NoCall))
        /\ Notice("PENDING", NoCall).call <= placed
    BY <1>2 DEF Notice, NewJob, Job, Begins, NoCall
  <2> QED BY <1>2, <1>5, <1>10, <2>1, CallBoundsAssumption DEF repeated_tasks, gui
<1> QED BY <1>3, <1>4, <1>6, <1>8, <1>9, <1>10 DEF Environment

-----------------------------------------------------------------------------
LEMMA Inductive == Spec => []IInv
<1>1. IInv /\ [Next]_vars => IInv'
  <2> SUFFICES ASSUME IInv, [Next]_vars PROVE IInv'
    OBVIOUS
  <2>1. CASE UNCHANGED vars
    <3>1. /\ UNCHANGED <<m_jobQ, m_resQ, job_intValue, reused, m_hangup, thread>>
          /\ UNCHANGED <<valid_video, audio, video, m_on_call, window, boxes, placed, hangups>>
          /\ UNCHANGED <<ticks, asked, dialled, placed_calls, hung_up, late_hangup, overlap, stale>>
      BY <2>1 DEF vars, bus, object, legs, streams, gui, bounds, history
    <3>2. TypeOK'
      <4>1. {c \in Calls \ placed_calls : InSetUp(c)}' = {c \in Calls \ placed_calls : InSetUp(c)}
        BY <3>1 DEF InSetUp
      <4> QED BY <3>1, <4>1 DEF IInv, TypeOK
    <3>3. CallsInv' /\ BeginningInv'
      BY <3>1 DEF IInv, CallsInv, BeginningInv
    <3>4. OneAnswering'
      BY <3>1 DEF IInv, OneAnswering, InSetUp
    <3>5. OrderInv' /\ ResponsesInv'
      BY <3>1 DEF IInv, OrderInv, ResponsesInv
    <3>6. LegsInv'
      BY <3>1 DEF IInv, LegsInv, InSetUp
    <3>7. OneUnderway'
      BY <3>1 DEF IInv, OneUnderway, Underway, InSetUp
    <3>8. HangupInv'
      BY <3>1 DEF IInv, HangupInv
    <3>9. DownInv'
      BY <3>1 DEF IInv, DownInv, Down
    <3> QED BY <3>2, <3>3, <3>4, <3>5, <3>6, <3>7, <3>8, <3>9 DEF IInv
  <2>2. CASE \E c \in Calls : CallThread(c) \/ header_comes(c)
    <3>1. ASSUME NEW c \in Calls, CallThread(c) PROVE IInv'
      BY <3>1, CallThreadStep
    <3>2. ASSUME NEW c \in Calls, header_comes(c) PROVE IInv'
      BY <3>2, HeaderComesStep
    <3> QED BY <2>2, <3>1, <3>2
  <2>3. CASE JobThread \/ Interface \/ Environment
    BY <2>3, JobThreadStep, InterfaceStep, EnvironmentStep
  <2> QED BY <2>1, <2>2, <2>3 DEF Next
<1> QED BY InitInv, <1>1, PTL DEF Spec

\* Type correctness; its last conjunct says that the job thread, which takes no
\* job while it answers a call, answers one at a time.
THEOREM TypeCorrect == Spec => []TypeOK
<1>1. IInv => TypeOK
  BY DEF IInv
<1> QED BY <1>1, Inductive, PTL

\* Both legs of a call go to the peer that the call is for, as long as the job
\* thread has not taken another job while the call was set up (call.cpp).
THEOREM LegsStayTogether == Spec => []LegsHaveOnePeer
<1>1. IInv => LegsHaveOnePeer
  BY DEF IInv, LegsInv, LegsHaveOnePeer
<1> QED BY <1>1, Inductive, PTL

\* A call that is hung up in its set-up gets no streams, wherever the HANGUP met
\* it before its last look at m_hangup (call.cpp).
THEOREM HungUpStaysDown == Spec => []HungUpCallStaysDown
<1>1. IInv => HungUpCallStaysDown
  BY DEF IInv, HangupInv, HungUpCallStaysDown
<1> QED BY <1>1, Inductive, PTL

\* The client is not off the call while streams run (central_jobs.cpp, call.cpp).
THEOREM OnCallWhileStreaming == Spec => []StreamsOnCall
<1>1. IInv => StreamsOnCall
  BY DEF IInv, DownInv, Down, StreamsOnCall
<1> QED BY <1>1, Inductive, PTL
=============================================================================
