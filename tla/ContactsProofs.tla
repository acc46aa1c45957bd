--------------------------- MODULE ContactsProofs ---------------------------
(***************************************************************************)
(* Proofs about Contacts: its type invariant, what the list box shows and  *)
(* which rings there are, for any number of users, changes and jobs.       *)
(***************************************************************************)
EXTENDS Contacts, FiniteSetTheorems, SequenceTheorems, WellFoundedInduction, TLAPS

\* An AWAITING job is about one of the other users.
Settled == {job \in Job : job.m_command = "AWAITING" => job.m_intValue \in Others}
QueuesInv == m_jobQ \in Seq(Settled) /\ m_resQ \in Seq(Settled)

\* The last DISP_CONTACTS of a queue of responses shows this list.
ShowsAtLast(queue, list) ==
  \E i \in 1..Len(queue) :
    /\ queue[i].m_command = "DISP_CONTACTS"
    /\ Shown(queue[i].m_contact_list) = Shown(list)
    /\ \A k \in 1..Len(queue) : k > i => queue[k].m_command # "DISP_CONTACTS"

\* The box shows the last list, or it will: another DISP_CONTACTS is to be run,
\* or the last one that was run carries that list.
BoxInv ==
  ~ overlooked.list =>
    \/ Pending(m_jobQ, "DISP_CONTACTS")
    \/ ShowsAtLast(m_resQ, m_online_contacts)
    \/ Reported("DISP_CONTACTS") /\ displayed = Shown(m_online_contacts)

\* The rings once a job has been dealt with, and whether it can be.
Rung(rings, job) ==
  IF job.m_command # "AWAITING" THEN rings
  ELSE IF job.m_boolValue THEN rings \cup {job.m_intValue}
  ELSE rings \ {job.m_intValue}
Fits(rings, job) ==
  job.m_command = "AWAITING" => (job.m_boolValue <=> job.m_intValue \notin rings)

\* The jobs of a queue make one set of rings of another: on[i] rings after i jobs.
Steps(queue, on) ==
  /\ on \in [0..Len(queue) -> SUBSET Others]
  /\ \A i \in 1..Len(queue) : Fits(on[i-1], queue[i]) /\ on[i] = Rung(on[i-1], queue[i])
Leads(queue, from, to) ==
  \E on : Steps(queue, on) /\ on[0] = from /\ on[Len(queue)] = to

\* The jobs under way make of the rings there are those of the contacts that
\* call: first the responses, then what the job thread has not looked at.
RingInv ==
  ~ overlooked.calls =>
    /\ ~ crashed
    /\ \E rings \in SUBSET Others :
         /\ Leads(m_resQ, callers_table, rings)
         /\ Leads(m_jobQ, rings, Calling(m_online_contacts))

IInv == TypeOK /\ QueuesInv /\ BoxInv /\ RingInv

-----------------------------------------------------------------------------
\* What taking and creating a job do to a queue.

LEMMA Taken ==
  ASSUME NEW S, NEW q \in Seq(S), q # <<>>
  PROVE  /\ Tail(q) \in Seq(S) /\ Head(q) \in S /\ Head(q) = q[1]
         /\ Len(q) \in Nat \ {0} /\ Len(Tail(q)) = Len(q) - 1
         /\ \A i \in 1..Len(Tail(q)) : Tail(q)[i] = q[i+1]
OBVIOUS

LEMMA Added ==
  ASSUME NEW S, NEW q \in Seq(S), NEW x \in S
  PROVE  /\ Append(q, x) \in Seq(S) /\ Len(Append(q, x)) = Len(q) + 1
         /\ \A i \in 1..Len(q) : Append(q, x)[i] = q[i]
         /\ Append(q, x)[Len(q) + 1] = x /\ Len(q) \in Nat
OBVIOUS

LEMMA Created ==
  ASSUME NEW S, NEW q \in Seq(S)
  PROVE  /\ create(q, <<>>) = q
         /\ \A x \in S : create(q, <<x>>) = Append(q, x)
BY ConcatEmptySeq, AppendIsConcat DEF create

LEMMA PendingAt ==
  ASSUME NEW S, NEW q \in Seq(S), NEW command
  PROVE  Pending(q, command) <=> \E i \in 1..Len(q) : q[i].m_command = command
BY DEF Pending

LEMMA PendingAdded ==
  ASSUME NEW S, NEW q \in Seq(S), NEW x \in S, NEW command
  PROVE  Pending(Append(q, x), command) <=> Pending(q, command) \/ x.m_command = command
<1> DEFINE r == Append(q, x)
<1>1. /\ r \in Seq(S) /\ Len(r) = Len(q) + 1 /\ Len(q) \in Nat /\ r[Len(q) + 1] = x
      /\ \A i \in 1..Len(q) : r[i] = q[i]
  BY Added
<1>2. Pending(r, command) <=> \E i \in 1..Len(r) : r[i].m_command = command
  BY <1>1, PendingAt
<1> HIDE DEF r
<1>3. ASSUME NEW i \in 1..Len(r), r[i].m_command = command
      PROVE  x.m_command = command \/ \E k \in 1..Len(q) : q[k].m_command = command
  <2>1. i \in 1..Len(q) \/ i = Len(q) + 1
    BY <1>1
  <2> QED BY <1>1, <1>3, <2>1
<1>4. ASSUME NEW i \in 1..Len(q), q[i].m_command = command PROVE Pending(r, command)
  <2>1. i \in 1..Len(r)
    BY <1>1
  <2> QED BY <1>1, <1>2, <1>4, <2>1
<1>5. x.m_command = command => Pending(r, command)
  <2>1. Len(q) + 1 \in 1..Len(r)
    BY <1>1
  <2> QED BY <1>1, <1>2, <2>1
<1>6. Pending(q, command) <=> \E i \in 1..Len(q) : q[i].m_command = command
  BY PendingAt
<1> QED BY <1>2, <1>3, <1>4, <1>5, <1>6 DEF r

LEMMA PendingTaken ==
  ASSUME NEW S, NEW q \in Seq(S), q # <<>>, NEW command
  PROVE  Pending(q, command) <=> Head(q).m_command = command \/ Pending(Tail(q), command)
<1> DEFINE r == Tail(q)
<1>1. /\ r \in Seq(S) /\ Len(q) \in Nat \ {0} /\ Len(r) = Len(q) - 1
      /\ Head(q) = q[1] /\ \A i \in 1..Len(r) : r[i] = q[i+1]
  BY Taken
<1>2. Pending(r, command) <=> \E i \in 1..Len(r) : r[i].m_command = command
  BY <1>1, PendingAt
<1>3. Pending(q, command) <=> \E i \in 1..Len(q) : q[i].m_command = command
  BY PendingAt
<1> HIDE DEF r
<1>4. ASSUME NEW i \in 1..Len(q), q[i].m_command = command
      PROVE  Head(q).m_command = command \/ Pending(r, command)
  <2>1. i = 1 \/ (i - 1 \in 1..Len(r) /\ r[i-1] = q[i])
    BY <1>1
  <2> QED BY <1>1, <1>2, <1>4, <2>1
<1>5. Head(q).m_command = command => Pending(q, command)
  <2>1. 1 \in 1..Len(q)
    BY <1>1
  <2> QED BY <1>1, <1>3, <2>1
<1>6. ASSUME NEW i \in 1..Len(r), r[i].m_command = command PROVE Pending(q, command)
  <2>1. i + 1 \in 1..Len(q) /\ r[i] = q[i+1]
    BY <1>1
  <2> QED BY <1>3, <1>6, <2>1
<1> QED BY <1>2, <1>3, <1>4, <1>5, <1>6 DEF r

-----------------------------------------------------------------------------
\* What they do to the last DISP_CONTACTS of a queue.

LEMMA AtLastAdded ==
  ASSUME NEW S, NEW q \in Seq(S), NEW x \in S, NEW list,
         \/ x.m_command # "DISP_CONTACTS" /\ ShowsAtLast(q, list)
         \/ x.m_command = "DISP_CONTACTS" /\ x.m_contact_list = list
  PROVE  ShowsAtLast(Append(q, x), list)
<1> DEFINE r == Append(q, x)
<1>1. /\ Len(r) = Len(q) + 1 /\ Len(q) \in Nat /\ r[Len(q) + 1] = x
      /\ \A i \in 1..Len(q) : r[i] = q[i]
  BY Added
<1> HIDE DEF r
<1>2. CASE x.m_command # "DISP_CONTACTS" /\ ShowsAtLast(q, list)
  <2>1. PICK i \in 1..Len(q) :
          /\ q[i].m_command = "DISP_CONTACTS"
          /\ Shown(q[i].m_contact_list) = Shown(list)
          /\ \A k \in 1..Len(q) : k > i => q[k].m_command # "DISP_CONTACTS"
    BY <1>2 DEF ShowsAtLast
  <2>2. i \in 1..Len(r) /\ r[i] = q[i]
    BY <1>1
  <2>3. ASSUME NEW k \in 1..Len(r), k > i PROVE r[k].m_command # "DISP_CONTACTS"
    <3>1. k \in 1..Len(q) \/ k = Len(q) + 1
      BY <1>1
    <3> QED BY <1>1, <1>2, <2>1, <2>3, <3>1
  <2> QED BY <2>1, <2>2, <2>3 DEF ShowsAtLast, r
<1>3. CASE x.m_command = "DISP_CONTACTS" /\ x.m_contact_list = list
  <2>1. Len(q) + 1 \in 1..Len(r) /\ \A k \in 1..Len(r) : ~ (k > Len(q) + 1)
    BY <1>1
  <2> QED BY <1>1, <1>3, <2>1 DEF ShowsAtLast, r
<1> QED BY <1>2, <1>3

\* A response that is taken was the last one, or the last one is still there.
LEMMA AtLastTaken ==
  ASSUME NEW S, NEW q \in Seq(S), q # <<>>, NEW list, ShowsAtLast(q, list)
  PROVE  \/ ShowsAtLast(Tail(q), list)
         \/ /\ Head(q).m_command = "DISP_CONTACTS"
            /\ Shown(Head(q).m_contact_list) = Shown(list)
            /\ ~ Pending(Tail(q), "DISP_CONTACTS")
<1>1. PICK i \in 1..Len(q) :
        /\ q[i].m_command = "DISP_CONTACTS"
        /\ Shown(q[i].m_contact_list) = Shown(list)
        /\ \A k \in 1..Len(q) : k > i => q[k].m_command # "DISP_CONTACTS"
  BY DEF ShowsAtLast
<1>2. CASE i = 1
  <2>1. ASSUME NEW k \in 1..Len(Tail(q)) PROVE Tail(q)[k].m_command # "DISP_CONTACTS"
    <3>1. k + 1 \in 1..Len(q) /\ k + 1 > 1 /\ Tail(q)[k] = q[k+1]
      BY Taken
    <3> QED BY <1>1, <1>2, <3>1
  <2>2. Tail(q) \in Seq(S) /\ Head(q) = q[1]
    BY Taken
  <2>3. ~ Pending(Tail(q), "DISP_CONTACTS")
    BY <2>1, <2>2, PendingAt
  <2> QED BY <1>1, <1>2, <2>2, <2>3
<1>3. CASE i # 1
  <2>1. i - 1 \in 1..Len(Tail(q)) /\ Tail(q)[i-1] = q[i]
    BY <1>3, Taken
  <2>2. ASSUME NEW k \in 1..Len(Tail(q)), k > i - 1
        PROVE  Tail(q)[k].m_command # "DISP_CONTACTS"
    <3>1. k + 1 \in 1..Len(q) /\ k + 1 > i /\ Tail(q)[k] = q[k+1]
      BY <2>2, Taken
    <3> QED BY <1>1, <3>1
  <2> QED BY <1>1, <2>1, <2>2 DEF ShowsAtLast
<1> QED BY <1>2, <1>3

-----------------------------------------------------------------------------
\* What they do to the rings that a queue leads to.

\* A set of numbers that holds 0 and with each of its members below n the next
\* one holds n.
LEMMA Stepping ==
  ASSUME NEW n \in Nat, NEW S, 0 \in S,
         \A i \in 0..(n-1) : i \in S => i + 1 \in S
  PROVE  n \in S
<1> SUFFICES ASSUME n \notin S PROVE FALSE
  OBVIOUS
<1> DEFINE T == (0..n) \ S
<1> DEFINE Less == {p \in Nat \X Nat : p[1] < p[2]}
<1>1. IsWellFoundedOn(Less, Nat)
  BY NatLessThanWellFounded DEF OpToRel
<1>2. T \subseteq Nat /\ T # {}
  OBVIOUS
<1> HIDE DEF T, Less
<1>3. PICK m \in T : \A y \in T : <<y, m>> \notin Less
  BY <1>1, <1>2, WFMin
<1>4. m # 0 /\ m \in 0..n /\ m \notin S /\ m - 1 \in 0..(n-1)
  BY <1>3 DEF T
<1>5. m - 1 \in S
  <2>1. <<m - 1, m>> \in Less
    BY <1>4 DEF Less
  <2>2. m - 1 \notin T
    BY <1>3, <2>1
  <2>3. m - 1 \in 0..n
    BY <1>4
  <2> QED BY <2>2, <2>3 DEF T
<1> QED BY <1>4, <1>5

\* Jobs about other matters leave the rings as they are.
LEMMA LeadsNowhere ==
  ASSUME NEW q \in Seq(Settled), ~ Pending(q, "AWAITING"), NEW from, NEW to,
         Leads(q, from, to)
  PROVE  from = to
<1>1. PICK on : Steps(q, on) /\ on[0] = from /\ on[Len(q)] = to
  BY DEF Leads
<1>2. \A i \in 1..Len(q) : q[i].m_command # "AWAITING"
  BY PendingAt
<1>3. Len(q) \in Nat
  OBVIOUS
<1> DEFINE S == {i \in 0..Len(q) : on[i] = from}
<1>4. ASSUME NEW i \in 0..(Len(q)-1), i \in S PROVE i + 1 \in S
  <2>1. i + 1 \in 1..Len(q) /\ (i + 1) - 1 = i
    BY <1>3
  <2>2. on[i+1] = on[i]
    BY <1>1, <1>2, <2>1 DEF Steps, Rung
  <2> QED BY <1>3, <1>4, <2>1, <2>2
<1>5. 0 \in S
  BY <1>1, <1>3
<1> HIDE DEF S
<1>6. Len(q) \in S
  BY <1>3, <1>4, <1>5, Stepping
<1> QED BY <1>1, <1>6 DEF S

LEMMA LeadsNothing ==
  ASSUME NEW rings \in SUBSET Others
  PROVE  Leads(<<>>, rings, rings)
<1> DEFINE on == [i \in 0..0 |-> rings]
<1>1. Steps(<<>>, on) /\ on[0] = rings
  BY DEF Steps
<1> QED BY <1>1 DEF Leads

LEMMA LeadsAdded ==
  ASSUME NEW q \in Seq(Settled), NEW x \in Settled, NEW from, NEW to,
         Leads(q, from, to), Fits(to, x)
  PROVE  Leads(Append(q, x), from, Rung(to, x))
<1>1. PICK on : Steps(q, on) /\ on[0] = from /\ on[Len(q)] = to
  BY DEF Leads
<1> DEFINE r == Append(q, x)
           on2 == [i \in 0..(Len(q) + 1) |-> IF i <= Len(q) THEN on[i] ELSE Rung(to, x)]
<1>2. /\ Len(r) = Len(q) + 1 /\ Len(q) \in Nat /\ r[Len(q) + 1] = x
      /\ \A i \in 1..Len(q) : r[i] = q[i]
  BY Added
<1>3. to \in SUBSET Others
  BY <1>1, <1>2 DEF Steps
<1>4. Rung(to, x) \in SUBSET Others
  BY <1>3 DEF Rung, Settled
<1>5. /\ \A i \in 0..Len(q) : on2[i] = on[i]
      /\ on2[Len(q) + 1] = Rung(to, x)
  BY <1>2
<1>6. on2 \in [0..Len(r) -> SUBSET Others]
  BY <1>1, <1>2, <1>4 DEF Steps
<1> HIDE DEF r, on2
<1>7. ASSUME NEW i \in 1..Len(r)
      PROVE  Fits(on2[i-1], r[i]) /\ on2[i] = Rung(on2[i-1], r[i])
  <2>1. CASE i \in 1..Len(q)
    <3>1. i \in 0..Len(q) /\ i - 1 \in 0..Len(q) /\ r[i] = q[i]
      BY <1>2, <2>1
    <3>2. Fits(on[i-1], q[i]) /\ on[i] = Rung(on[i-1], q[i])
      BY <1>1, <2>1 DEF Steps
    <3> QED BY <1>5, <3>1, <3>2
  <2>2. CASE i = Len(q) + 1
    <3>1. i - 1 = Len(q) /\ Len(q) \in 0..Len(q)
      BY <1>2, <2>2
    <3> QED BY <1>1, <1>2, <1>5, <2>2, <3>1
  <2> QED BY <1>2, <2>1, <2>2
<1>8. Steps(r, on2)
  BY <1>6, <1>7 DEF Steps
<1>9. on2[0] = from /\ on2[Len(r)] = Rung(to, x)
  BY <1>1, <1>2, <1>5
<1> QED BY <1>8, <1>9 DEF Leads, r

LEMMA LeadsTaken ==
  ASSUME NEW q \in Seq(Settled), q # <<>>, NEW from, NEW to, Leads(q, from, to)
  PROVE  /\ Fits(from, Head(q)) /\ Rung(from, Head(q)) \in SUBSET Others
         /\ Leads(Tail(q), Rung(from, Head(q)), to)
<1>1. PICK on : Steps(q, on) /\ on[0] = from /\ on[Len(q)] = to
  BY DEF Leads
<1> DEFINE r == Tail(q)
           on2 == [i \in 0..(Len(q) - 1) |-> on[i+1]]
<1>2. /\ Len(q) \in Nat \ {0} /\ Len(r) = Len(q) - 1
      /\ Head(q) = q[1] /\ \A i \in 1..Len(r) : r[i] = q[i+1]
  BY Taken
<1>3. \A i \in 0..Len(r) : on2[i] = on[i+1] /\ i + 1 \in 0..Len(q)
  BY <1>2
<1>4. on2 \in [0..Len(r) -> SUBSET Others]
  BY <1>1, <1>2 DEF Steps
<1> HIDE DEF r, on2
<1>5. Fits(from, Head(q)) /\ on[1] = Rung(from, Head(q)) /\ on[1] \in SUBSET Others
  <2>1. 1 \in 1..Len(q) /\ 1 - 1 = 0 /\ 1 \in 0..Len(q)
    BY <1>2
  <2> QED BY <1>1, <1>2, <2>1 DEF Steps
<1>6. ASSUME NEW i \in 1..Len(r)
      PROVE  Fits(on2[i-1], r[i]) /\ on2[i] = Rung(on2[i-1], r[i])
  <2>1. i \in 0..Len(r) /\ i - 1 \in 0..Len(r) /\ (i - 1) + 1 = i /\ i + 1 \in 1..Len(q)
        /\ (i + 1) - 1 = i
    BY <1>2
  <2>2. Fits(on[i], q[i+1]) /\ on[i+1] = Rung(on[i], q[i+1])
    BY <1>1, <2>1 DEF Steps
  <2>3. on2[i-1] = on[i] /\ on2[i] = on[i+1] /\ r[i] = q[i+1]
    BY <1>2, <1>3, <2>1
  <2> QED BY <2>2, <2>3
<1>7. Steps(r, on2)
  BY <1>4, <1>6 DEF Steps
<1>8. on2[0] = on[1] /\ on2[Len(r)] = to
  <2>1. 0 \in 0..Len(r) /\ Len(r) \in 0..Len(r) /\ 0 + 1 = 1 /\ Len(r) + 1 = Len(q)
    BY <1>2
  <2> QED BY <1>1, <1>3, <2>1
<1> QED BY <1>5, <1>7, <1>8 DEF Leads, r

-----------------------------------------------------------------------------
\* What a step may do to the queues and to what the two properties speak of.

Types == TypeOK /\ QueuesInv
Matters(job) == job.m_command \in {"DISP_CONTACTS", "AWAITING"}
AddsOther(queue, new) ==
  new = queue \/ \E job \in Settled : ~ Matters(job) /\ new = Append(queue, job)

\* A job about other matters is created.
Creates ==
  /\ AddsOther(m_jobQ, m_jobQ')
  /\ UNCHANGED <<m_resQ, m_online_contacts, overlooked, displayed, callers_table, crashed>>

\* A job has been run and goes back.
Answers ==
  /\ m_jobQ # <<>> /\ m_jobQ' = Tail(m_jobQ)
  /\ \E job \in Settled :
       /\ m_resQ' = Append(m_resQ, job)
       /\ job.m_command = Head(m_jobQ).m_command
       /\ job.m_intValue = Head(m_jobQ).m_intValue
       /\ job.m_boolValue = Head(m_jobQ).m_boolValue
       /\ job.m_command = "DISP_CONTACTS" => job.m_contact_list = m_online_contacts
  /\ UNCHANGED <<m_online_contacts, overlooked, displayed, callers_table, crashed>>

\* A LIST failed.
Drops ==
  /\ m_jobQ # <<>> /\ ~ Matters(Head(m_jobQ)) /\ m_jobQ' = Tail(m_jobQ)
  /\ UNCHANGED <<m_resQ, m_online_contacts, overlooked, displayed, callers_table, crashed>>

\* A list has been read.
Updates ==
  /\ m_jobQ # <<>> /\ ~ Matters(Head(m_jobQ))
  /\ m_online_contacts' \in ContactLists
  /\ \E report \in Reports(m_online_contacts, m_online_contacts') :
       /\ m_jobQ' = create(Tail(m_jobQ), report)
       /\ overlooked' = Overlooked(m_online_contacts, m_online_contacts', report)
  /\ AddsOther(m_resQ, m_resQ')
  /\ UNCHANGED <<displayed, callers_table, crashed>>

\* The interface deals with a response.
Responds ==
  /\ m_resQ # <<>> /\ m_resQ' = Tail(m_resQ)
  /\ AddsOther(m_jobQ, m_jobQ')
  /\ displayed' = IF Head(m_resQ).m_command = "DISP_CONTACTS"
                  THEN Shown(Head(m_resQ).m_contact_list) ELSE displayed
  /\ callers_table' = Rung(callers_table, Head(m_resQ))
  /\ crashed' => crashed \/ ~ Fits(callers_table, Head(m_resQ))
  /\ UNCHANGED <<m_online_contacts, overlooked>>

LEMMA EmptyList == Empty \in ContactLists
<1>1. Empty \in [{} -> Details]
  BY DEF Empty
<1> QED BY <1>1 DEF ContactLists

LEMMA NewJobSettled ==
  ASSUME NEW command \in Commands \ {"DISP_CONTACTS", "AWAITING"},
         NEW c \in Others \cup {Me, Unknown, NoOne}
  PROVE  NewJob(command, c) \in Settled /\ ~ Matters(NewJob(command, c))
BY EmptyList DEF NewJob, Settled, Job, Matters

LEMMA NewJobAdded ==
  ASSUME NEW q \in Seq(Settled), NEW command \in Commands \ {"DISP_CONTACTS", "AWAITING"},
         NEW c \in Others \cup {Me, Unknown, NoOne}
  PROVE  AddsOther(q, create(q, <<NewJob(command, c)>>))
<1>1. NewJob(command, c) \in Settled /\ ~ Matters(NewJob(command, c))
  BY NewJobSettled
<1>2. create(q, <<NewJob(command, c)>>) = Append(q, NewJob(command, c))
  BY <1>1, Created
<1> QED BY <1>1, <1>2 DEF AddsOther

LEMMA AnsweredAdds ==
  ASSUME NEW q, NEW job \in Settled
  PROVE  Answered(q, job) = Append(q, job)
BY DEF Answered, Settled, Job, Commands, Discard

\* The table of details that an answer of the server becomes.
LEMMA DetailsTyped ==
  ASSUME NEW S \in SUBSET Others, NEW users,
         \A u \in users : u.ID \in S /\ u.online \in BOOLEAN /\ u.awaiting \in BOOLEAN
  PROVE  pair_contact_details(users) \in ContactLists
<1> DEFINE D == {u.ID : u \in users}
           pick(c) == CHOOSE u \in users : u.ID = c
           row(c) == [online |-> pick(c).online, awaiting |-> pick(c).awaiting]
<1>1. ASSUME NEW c \in D PROVE row(c) \in Details
  <2>1. pick(c) \in users
    BY <1>1
  <2> HIDE DEF pick
  <2> QED BY <2>1 DEF Details
<1>2. pair_contact_details(users) = [c \in D |-> row(c)]
  BY DEF pair_contact_details
<1>3. D \in SUBSET Others
  OBVIOUS
<1> HIDE DEF D, row
<1>4. [c \in D |-> row(c)] \in [D -> Details]
  BY <1>1
<1> QED BY <1>2, <1>3, <1>4 DEF ContactLists

LEMMA ListTyped ==
  ASSUME Types
  PROVE  /\ pair_contact_details(list_reply) \in ContactLists
         /\ pair_contact_details(NoContacts) \in ContactLists
<1>1. ASSUME NEW u \in list_reply
      PROVE  u.ID \in Others /\ u.online \in BOOLEAN /\ u.awaiting \in BOOLEAN
  <2>1. PICK v \in list_user_contacts :
          u = [ID |-> v.ID, online |-> v.online, awaiting |-> call_awaits(v.ID)]
    BY DEF list_reply, list_contacts
  <2>2. PICK c \in contacts : v = [ID |-> c, online |-> online[c]]
    BY DEF list_user_contacts, result_to_users, list_contacts_query
  <2>3. c \in Others /\ online[c] \in BOOLEAN
    BY <2>2 DEF Types, TypeOK
  <2>4. call_awaits(v.ID) \in BOOLEAN
    BY DEF call_awaits
  <2> QED BY <2>1, <2>2, <2>3, <2>4
<1>2. \A u \in NoContacts : u.ID \in Others /\ u.online \in BOOLEAN /\ u.awaiting \in BOOLEAN
  BY DEF NoContacts
<1> QED BY <1>1, <1>2, DetailsTyped

\* The handlers of the job thread.

LEMMA AnswerShape ==
  ASSUME Types, m_jobQ # <<>>, Head(m_jobQ).m_command # "DISP_CONTACTS",
         NEW valid \in BOOLEAN, Answer(valid), UNCHANGED gui
  PROVE  Answers
<1> DEFINE job == [Head(m_jobQ) EXCEPT !.m_valid = valid]
<1>1. Head(m_jobQ) \in Settled
  BY Taken DEF Types, QueuesInv
<1>2. /\ job \in Settled
      /\ job.m_command = Head(m_jobQ).m_command
      /\ job.m_intValue = Head(m_jobQ).m_intValue
      /\ job.m_boolValue = Head(m_jobQ).m_boolValue
  BY <1>1 DEF Settled, Job
<1>3. m_resQ' = Append(m_resQ, job)
  BY <1>2, AnsweredAdds DEF Answer
<1> QED BY <1>2, <1>3 DEF Answers, Answer, gui

LEMMA RelistShape ==
  ASSUME Types, m_jobQ # <<>>, ~ Matters(Head(m_jobQ)), Relist, UNCHANGED gui
  PROVE  Updates
<1> DEFINE job == [Head(m_jobQ) EXCEPT !.m_valid = TRUE]
<1>1. Head(m_jobQ) \in Settled
  BY Taken DEF Types, QueuesInv
<1>2. job \in Settled /\ ~ Matters(job)
  BY <1>1 DEF Settled, Job, Matters
<1>3. m_resQ' = Append(m_resQ, job)
  BY <1>2, AnsweredAdds DEF Relist
<1>4. AddsOther(m_resQ, m_resQ')
  BY <1>2, <1>3 DEF AddsOther
<1>5. m_online_contacts' = pair_contact_details(NoContacts)
  BY DEF Relist, update_contacts
<1>6. m_online_contacts' \in ContactLists
  BY <1>5, ListTyped
<1> QED BY <1>4, <1>5, <1>6 DEF Updates, Relist, update_contacts, gui

LEMMA JobThreadShape ==
  ASSUME Types, JobThread
  PROVE  Answers \/ Drops \/ Updates
<1>1. UNCHANGED gui
  BY DEF JobThread
<1>2. CASE contact_list
  <2>1. m_jobQ # <<>> /\ ~ Matters(Head(m_jobQ)) /\ UNCHANGED m_resQ
    BY <1>2 DEF contact_list, Next_is, Matters
  <2>2. CASE update_contacts(list_reply)
    <3>1. m_online_contacts' = pair_contact_details(list_reply)
      BY <2>2 DEF update_contacts
    <3>2. m_online_contacts' \in ContactLists
      BY <3>1, ListTyped
    <3> QED BY <1>1, <2>1, <2>2, <3>1, <3>2 DEF Updates, update_contacts, gui, AddsOther
  <2>3. CASE m_jobQ' = Tail(m_jobQ) /\ UNCHANGED <<m_online_contacts, overlooked>>
    BY <1>1, <2>1, <2>3 DEF Drops, gui
  <2> QED BY <1>2, <2>2, <2>3 DEF contact_list, Contacts_list
<1>3. CASE contact_search
  <2> DEFINE valid == linked /\ search(Head(m_jobQ).m_intValue)
  <2>1. valid \in BOOLEAN /\ Answer(valid)
    BY <1>3 DEF contact_search, Contacts_search
  <2>2. m_jobQ # <<>> /\ Head(m_jobQ).m_command # "DISP_CONTACTS"
    BY <1>3 DEF contact_search, Next_is
  <2> QED BY <1>1, <2>1, <2>2, AnswerShape
<1>4. CASE contact_add_user
  <2>1. /\ m_jobQ # <<>> /\ ~ Matters(Head(m_jobQ))
        /\ Head(m_jobQ).m_command # "DISP_CONTACTS"
    BY <1>4 DEF contact_add_user, Next_is, Matters
  <2>2. Relist \/ Answer(FALSE)
    BY <1>4 DEF contact_add_user, add_user
  <2> QED BY <1>1, <2>1, <2>2, AnswerShape, RelistShape
<1>5. CASE contact_remove_user
  <2>1. /\ m_jobQ # <<>> /\ ~ Matters(Head(m_jobQ))
        /\ Head(m_jobQ).m_command # "DISP_CONTACTS"
    BY <1>5 DEF contact_remove_user, Next_is, Matters
  <2>2. Relist \/ Answer(FALSE)
    BY <1>5 DEF contact_remove_user, remove_user
  <2> QED BY <1>1, <2>1, <2>2, AnswerShape, RelistShape
<1>6. CASE contact_get_contacts
  <2> DEFINE job == [Head(m_jobQ) EXCEPT !.m_contact_list = display_contacts,
                                         !.m_valid = display_contacts # Empty]
  <2>1. /\ m_jobQ # <<>> /\ m_jobQ' = Tail(m_jobQ) /\ m_resQ' = Answered(m_resQ, job)
        /\ UNCHANGED <<m_online_contacts, overlooked>>
    BY <1>6 DEF contact_get_contacts, Next_is, client
  <2>2. Head(m_jobQ) \in Settled /\ display_contacts \in ContactLists
    BY <2>1, Taken DEF Types, TypeOK, QueuesInv, display_contacts
  <2>3. /\ job \in Settled
        /\ job.m_command = Head(m_jobQ).m_command
        /\ job.m_intValue = Head(m_jobQ).m_intValue
        /\ job.m_boolValue = Head(m_jobQ).m_boolValue
        /\ job.m_contact_list = m_online_contacts
    BY <2>2 DEF Settled, Job, display_contacts
  <2>4. m_resQ' = Append(m_resQ, job)
    BY <2>1, <2>3, AnsweredAdds
  <2> HIDE DEF job
  <2> QED BY <1>1, <2>1, <2>3, <2>4 DEF Answers, gui
<1>7. CASE user_login
  <2>1. PICK password_right \in BOOLEAN : Answer(linked /\ password_right)
    BY <1>7 DEF user_login
  <2>2. (linked /\ password_right) \in BOOLEAN
    OBVIOUS
  <2>3. m_jobQ # <<>> /\ Head(m_jobQ).m_command # "DISP_CONTACTS"
    BY <1>7 DEF user_login, Next_is
  <2> QED BY <1>1, <2>1, <2>2, <2>3, AnswerShape
<1>8. CASE chat_get_all
  <2>1. m_jobQ # <<>> /\ Head(m_jobQ).m_command # "DISP_CONTACTS" /\ Answer(TRUE)
    BY <1>8 DEF chat_get_all, Next_is
  <2> QED BY <1>1, <2>1, AnswerShape
<1>9. CASE call_awaiting
  <2> DEFINE valid == ~ Head(m_jobQ).m_boolValue \/ Head(m_jobQ).m_intValue \notin m_callers
  <2>1. valid \in BOOLEAN /\ Answer(valid)
    BY <1>9 DEF call_awaiting
  <2>2. m_jobQ # <<>> /\ Head(m_jobQ).m_command # "DISP_CONTACTS"
    BY <1>9 DEF call_awaiting, Next_is
  <2> QED BY <1>1, <2>1, <2>2, AnswerShape
<1> QED BY <1>2, <1>3, <1>4, <1>5, <1>6, <1>7, <1>8, <1>9 DEF JobThread

\* The interface, the timer and the user.

LEMMA InitAdds ==
  ASSUME Types, init PROVE AddsOther(m_jobQ, m_jobQ')
BY NewJobAdded DEF init, Types, QueuesInv, Commands

LEMMA OtherResponse ==
  ASSUME NEW command, Response(command), UNCHANGED <<m_online_contacts, overlooked>>,
         command \notin {"DISP_CONTACTS", "AWAITING"},
         AddsOther(m_jobQ, m_jobQ'), UNCHANGED gui
  PROVE  Responds
<1>1. m_resQ # <<>> /\ m_resQ' = Tail(m_resQ) /\ Head(m_resQ).m_command = command
  BY DEF Response, Next_is
<1>2. Rung(callers_table, Head(m_resQ)) = callers_table
  BY <1>1 DEF Rung
<1> QED BY <1>1, <1>2 DEF Responds, gui

LEMMA InterfaceShape ==
  ASSUME Types, Interface
  PROVE  Responds
<1>1. UNCHANGED <<m_online_contacts, overlooked>> /\ m_jobQ \in Seq(Settled)
  BY DEF Interface, client, Types, QueuesInv
<1>2. CASE job_login
  <2>1. AddsOther(m_jobQ, m_jobQ')
    BY <1>2, InitAdds DEF job_login, AddsOther
  <2> QED BY <1>1, <1>2, <2>1, OtherResponse DEF job_login
<1>3. CASE job_disp_contact
  <2>1. AddsOther(m_jobQ, m_jobQ')
    <3>1. m_jobQ' = m_jobQ \/ m_jobQ' = create(m_jobQ, <<NewJob("CHAT", NoOne)>>)
      BY <1>3 DEF job_disp_contact
    <3> QED BY <1>1, <3>1, NewJobAdded DEF AddsOther, Commands
  <2>2. m_resQ # <<>> /\ m_resQ' = Tail(m_resQ) /\ Head(m_resQ).m_command = "DISP_CONTACTS"
    BY <1>3 DEF job_disp_contact, Response, Next_is
  <2>3. Rung(callers_table, Head(m_resQ)) = callers_table
    BY <2>2 DEF Rung
  <2>4. /\ displayed' = Shown(Head(m_resQ).m_contact_list)
        /\ UNCHANGED <<callers_table, crashed>>
    BY <1>3 DEF job_disp_contact
  <2> QED BY <1>1, <2>1, <2>2, <2>3, <2>4 DEF Responds
<1>4. CASE job_load_chat
  <2>1. m_resQ # <<>> /\ m_resQ' = Tail(m_resQ) /\ Head(m_resQ).m_command = "CHAT"
    BY <1>4 DEF job_load_chat, Response, Next_is
  <2>2. Rung(callers_table, Head(m_resQ)) = callers_table
    BY <2>1 DEF Rung
  <2>3. UNCHANGED <<m_jobQ, displayed, callers_table, crashed>>
    BY <1>4 DEF job_load_chat
  <2> QED BY <1>1, <2>1, <2>2, <2>3 DEF Responds, AddsOther
<1>5. CASE job_add_user
  BY <1>1, <1>5, OtherResponse DEF job_add_user, AddsOther
<1>6. CASE job_remove_user
  BY <1>1, <1>6, OtherResponse DEF job_remove_user, AddsOther
<1>7. CASE job_search
  <2>1. AddsOther(m_jobQ, m_jobQ')
    <3>1. CASE m_jobQ' = m_jobQ
      BY <3>1 DEF AddsOther
    <3>2. CASE m_jobQ' = create(m_jobQ, <<NewJob("ADD", Head(m_resQ).m_intValue)>>)
      <4>1. m_resQ # <<>> /\ m_resQ \in Seq(Settled)
        BY <1>7 DEF job_search, Response, Next_is, Types, QueuesInv
      <4>2. Head(m_resQ) \in Settled
        BY <4>1, Taken
      <4>3. Head(m_resQ).m_intValue \in Others \cup {Me, Unknown, NoOne}
        BY <4>2 DEF Settled, Job
      <4> QED BY <1>1, <3>2, <4>3, NewJobAdded DEF Commands
    <3> QED BY <1>7, <3>1, <3>2 DEF job_search
  <2> QED BY <1>1, <1>7, <2>1, OtherResponse DEF job_search
<1>8. CASE job_awaiting
  <2> DEFINE c == Head(m_resQ).m_intValue
  <2>1. m_resQ # <<>> /\ m_resQ' = Tail(m_resQ) /\ Head(m_resQ).m_command = "AWAITING"
    BY <1>8 DEF job_awaiting, Response, Next_is
  <2>2. UNCHANGED <<m_jobQ, displayed>>
    BY <1>8 DEF job_awaiting
  <2>3. \/ /\ Head(m_resQ).m_boolValue /\ UNCHANGED crashed
           /\ callers_table' = callers_table \cup {c}
        \/ /\ ~ Head(m_resQ).m_boolValue /\ crashed' = (c \notin callers_table)
           /\ callers_table' = callers_table \ {c}
    BY <1>8 DEF job_awaiting
  <2>4. callers_table' = Rung(callers_table, Head(m_resQ))
    BY <2>1, <2>3 DEF Rung
  <2>5. crashed' => crashed \/ ~ Fits(callers_table, Head(m_resQ))
    BY <2>1, <2>3 DEF Fits
  <2> QED BY <1>1, <2>1, <2>2, <2>4, <2>5 DEF Responds, AddsOther
<1> QED BY <1>2, <1>3, <1>4, <1>5, <1>6, <1>7, <1>8 DEF Interface

LEMMA Shapes ==
  ASSUME Types, [Next]_vars
  PROVE  Creates \/ Answers \/ Drops \/ Updates \/ Responds
<1>0. m_jobQ \in Seq(Settled)
  BY DEF Types, QueuesInv
<1>1. CASE OthersAct \/ BreakOff \/ UNCHANGED vars
  BY <1>1 DEF OthersAct, BreakOff, vars, bus, client, gui, Creates, AddsOther
<1>2. CASE repeated_tasks
  BY <1>0, <1>2, NewJobAdded DEF repeated_tasks, client, gui, Creates, Commands
<1>3. CASE login
  BY <1>0, <1>3, NewJobAdded DEF login, client, gui, Creates, Commands
<1>4. CASE User
  <2>1. ASSUME NEW command \in {"SEARCH", "ADD", "REMOVE"},
               NEW c \in Others \cup {Me, Unknown}, Ask(command, c)
        PROVE  Creates
    BY <1>0, <2>1, NewJobAdded DEF Ask, client, gui, Creates, Commands
  <2>2. DOMAIN m_contact_list \subseteq Others
    BY DEF Types, TypeOK, OnlineLists
  <2> QED BY <1>4, <2>1, <2>2 DEF User
<1> QED BY <1>1, <1>2, <1>3, <1>4, JobThreadShape, InterfaceShape DEF Next

-----------------------------------------------------------------------------
\* What a list is shown as, and what a new one is reported as.

LEMMA ContactListIs ==
  ASSUME NEW list \in ContactLists
  PROVE  /\ DOMAIN list \subseteq Others /\ IsFiniteSet(DOMAIN list)
         /\ \A c \in DOMAIN list : list[c] \in Details
         /\ list = [c \in DOMAIN list |-> list[c]]
BY UsersAssumption, FS_Subset DEF ContactLists

LEMMA ShownTyped ==
  ASSUME NEW list \in ContactLists
  PROVE  Shown(list) \in OnlineLists /\ Calling(list) \in SUBSET Others
<1>1. \A c \in DOMAIN list : list[c].online \in BOOLEAN
  BY ContactListIs DEF Details
<1>2. Shown(list) \in [DOMAIN list -> BOOLEAN]
  BY <1>1 DEF Shown
<1>3. DOMAIN list \subseteq Others
  BY ContactListIs
<1> QED BY <1>2, <1>3 DEF OnlineLists, Calling

LEMMA DisplaySettled ==
  Display \in Settled /\ Display.m_command = "DISP_CONTACTS"
BY EmptyList DEF Display, NewJob, Settled, Job, Commands

LEMMA AwaitSettled ==
  ASSUME NEW c \in Others, NEW flag \in BOOLEAN
  PROVE  /\ Await(c, flag) \in Settled /\ Await(c, flag).m_command = "AWAITING"
         /\ Await(c, flag).m_intValue = c /\ Await(c, flag).m_boolValue = flag
BY EmptyList DEF Await, NewJob, Settled, Job, Commands

LEMMA DisplayIsNoAwait ==
  ASSUME NEW c \in Others, NEW flag \in BOOLEAN
  PROVE  <<Await(c, flag)>> # <<Display>>
<1>1. Await(c, flag) # Display
  BY DisplaySettled, AwaitSettled
<1> HIDE DEF Await, Display
<1> QED BY <1>1

\* What there is to report when no contact came or went.
LEMMA ReportCases ==
  ASSUME NEW old \in ContactLists, NEW new \in ContactLists,
         NEW report \in Reports(old, new)
  PROVE  \/ report = <<Display>>
         \/ report = <<>> /\ old = new
         \/ /\ DOMAIN new \subseteq DOMAIN old => DOMAIN new = DOMAIN old
            /\ \E c \in DOMAIN new : /\ c \in Differing(old, new) /\ c \in DOMAIN old
                                     /\ old[c].online = new[c].online
                                     /\ report = <<Await(c, new[c].awaiting)>>
<1>1. CASE Cardinality(DOMAIN old) # Cardinality(DOMAIN new) \/ new = Empty
  BY <1>1 DEF Reports
<1>2. CASE Cardinality(DOMAIN old) = Cardinality(DOMAIN new) /\ new # Empty
  <2>1. report \in FirstReport(old, new)
    BY <1>2 DEF Reports
  <2>2. DOMAIN new \subseteq DOMAIN old => DOMAIN new = DOMAIN old
    BY <1>2, ContactListIs, FS_Subset
  <2>3. CASE Differing(old, new) = {}
    <3>1. DOMAIN new \subseteq DOMAIN old /\ \A c \in DOMAIN new : old[c] = new[c]
      BY <2>3 DEF Differing
    <3>2. old = new
      BY <2>2, <3>1, ContactListIs
    <3> QED BY <2>1, <2>3, <3>2 DEF FirstReport
  <2>4. CASE Differing(old, new) # {}
    <3>1. PICK c \in Differing(old, new) : report = <<Report(old, new, c)>>
      BY <2>1, <2>4 DEF FirstReport
    <3>2. c \in DOMAIN new
      BY <3>1 DEF Differing
    <3>3. CASE c \notin DOMAIN old \/ old[c].online # new[c].online
      BY <3>1, <3>3 DEF Report
    <3>4. CASE c \in DOMAIN old /\ old[c].online = new[c].online
      BY <2>2, <3>1, <3>2, <3>4 DEF Report
    <3> QED BY <3>3, <3>4
  <2> QED BY <2>3, <2>4
<1> QED BY <1>1, <1>2

LEMMA ReportSettled ==
  ASSUME NEW old \in ContactLists, NEW new \in ContactLists,
         NEW report \in Reports(old, new)
  PROVE  report = <<>> \/ \E job \in Settled : report = <<job>>
<1>1. ASSUME NEW c \in DOMAIN new PROVE Await(c, new[c].awaiting) \in Settled
  <2>1. c \in Others /\ new[c].awaiting \in BOOLEAN
    BY ContactListIs DEF Details
  <2> QED BY <2>1, AwaitSettled
<1> QED BY <1>1, ReportCases, DisplaySettled

\* A report that is no DISP_CONTACTS and overlooks nothing the box should show:
\* the box shows the new list already.
LEMMA NothingToShow ==
  ASSUME NEW old \in ContactLists, NEW new \in ContactLists,
         NEW report \in Reports(old, new), report # <<Display>>,
         ~ Overlooked(old, new, report).list
  PROVE  ~ overlooked.list /\ Shown(old) = Shown(new)
<1>1. /\ ~ overlooked.list
      /\ Shown(old) = Shown(new) \/ ~ (Cardinality(Differing(old, new)) > 1)
  BY DEF Overlooked
<1>2. ASSUME Shown(old) # Shown(new) PROVE FALSE
  <2>1. ~ (Cardinality(Differing(old, new)) > 1)
    BY <1>1, <1>2
  <2>2. /\ DOMAIN new \subseteq DOMAIN old => DOMAIN new = DOMAIN old
        /\ \E c \in DOMAIN new : /\ c \in Differing(old, new) /\ c \in DOMAIN old
                                 /\ old[c].online = new[c].online
    BY <1>2, ReportCases
  <2>3. PICK c \in DOMAIN new : /\ c \in Differing(old, new) /\ c \in DOMAIN old
                                /\ old[c].online = new[c].online
    BY <2>2
  <2>4. ASSUME NEW d \in Differing(old, new) PROVE d = c
    <3>1. IsFiniteSet(Differing(old, new))
      BY ContactListIs, FS_Subset DEF Differing
    <3>2. IsFiniteSet({c, d}) /\ {c, d} \in SUBSET Differing(old, new)
      BY <2>3, <2>4, <3>1, FS_Subset
    <3>3. /\ Cardinality({c, d}) <= Cardinality(Differing(old, new))
          /\ Cardinality({c, d}) \in Nat /\ Cardinality(Differing(old, new)) \in Nat
      BY <3>1, <3>2, FS_Subset, FS_CardinalityType
    <3>4. c # d => Cardinality({c, d}) = 2
      <4>1. IsFiniteSet({c}) /\ Cardinality({c}) = 1
        BY FS_Singleton
      <4>2. d # c => Cardinality({c} \cup {d}) = Cardinality({c}) + 1
        BY <4>1, FS_AddElement
      <4>3. {c} \cup {d} = {c, d}
        OBVIOUS
      <4> QED BY <4>1, <4>2, <4>3
    <3> QED BY <2>1, <3>3, <3>4
  <2>5. ASSUME NEW d \in DOMAIN new PROVE d \in DOMAIN old /\ old[d].online = new[d].online
    BY <2>3, <2>4, <2>5 DEF Differing
  <2>6. DOMAIN new = DOMAIN old
    BY <2>2, <2>5
  <2> QED BY <1>2, <2>5, <2>6 DEF Shown
<1> QED BY <1>1, <1>2

\* A report that overlooks no call leads from the calls there were to those
\* there are.
LEMMA ReportLeads ==
  ASSUME NEW old \in ContactLists, NEW new \in ContactLists,
         NEW report \in Reports(old, new), ~ Overlooked(old, new, report).calls
  PROVE  /\ ~ overlooked.calls
         /\ \/ report \in {<<>>, <<Display>>} /\ Calling(old) = Calling(new)
            \/ \E c \in Others, flag \in BOOLEAN :
                 /\ report = <<Await(c, flag)>>
                 /\ Fits(Calling(old), Await(c, flag))
                 /\ Calling(new) = Rung(Calling(old), Await(c, flag))
<1>1. /\ ~ overlooked.calls
      /\ \A c \in Changed(Calling(old), Calling(new)) :
           OnlyTheCall(old, new, c) \/ report = <<Await(c, c \in Calling(new))>>
  BY DEF Overlooked
<1>2. ASSUME NEW c \in Changed(Calling(old), Calling(new)) PROVE c \in Others
  BY <1>2, ShownTyped DEF Changed
<1>3. CASE report = <<>> /\ old = new
  BY <1>1, <1>3
<1>4. CASE report = <<Display>>
  <2>1. ASSUME NEW c \in Changed(Calling(old), Calling(new)) PROVE FALSE
    <3>1. report # <<Await(c, c \in Calling(new))>>
      <4> DEFINE flag == c \in Calling(new)
      <4>1. flag \in BOOLEAN
        OBVIOUS
      <4> HIDE DEF flag
      <4>2. report # <<Await(c, flag)>>
        BY <1>2, <1>4, <2>1, <4>1, DisplayIsNoAwait
      <4> QED BY <4>2 DEF flag
    <3>2. OnlyTheCall(old, new, c)
      BY <1>1, <3>1
    <3>3. /\ DOMAIN old = DOMAIN new /\ Differing(old, new) = {c} /\ c \in DOMAIN new
          /\ old[c].online = new[c].online
      BY <3>2 DEF OnlyTheCall, Differing
    <3>4. new # Empty
      BY <3>3 DEF Empty
    <3>5. report = <<Await(c, new[c].awaiting)>>
      BY <3>3, <3>4 DEF Reports, FirstReport, Report
    <3>6. new[c].awaiting \in BOOLEAN
      BY <3>3, ContactListIs DEF Details
    <3> QED BY <1>2, <1>4, <3>5, <3>6, DisplayIsNoAwait
  <2>2. Calling(old) = Calling(new)
    BY <2>1 DEF Changed
  <2> QED BY <1>1, <1>4, <2>2
<1>5. ASSUME NEW c \in DOMAIN new, c \in Differing(old, new), c \in DOMAIN old,
             old[c].online = new[c].online, report = <<Await(c, new[c].awaiting)>>
      PROVE  \E d \in Others, flag \in BOOLEAN :
               /\ report = <<Await(d, flag)>>
               /\ Fits(Calling(old), Await(d, flag))
               /\ Calling(new) = Rung(Calling(old), Await(d, flag))
  <2> DEFINE flag == new[c].awaiting
  <2>1. c \in Others /\ flag \in BOOLEAN /\ old[c] \in Details /\ new[c] \in Details
    BY <1>5, ContactListIs DEF Details
  <2>2. old[c].awaiting # flag
    BY <1>5, <2>1 DEF Differing, Details
  <2>3. (flag <=> c \in Calling(new)) /\ (flag <=> c \notin Calling(old))
    BY <1>5, <2>1, <2>2 DEF Calling, Details
  <2>4. ASSUME NEW d \in Changed(Calling(old), Calling(new)) PROVE d = c
    <3>1. CASE OnlyTheCall(old, new, d)
      BY <1>5, <3>1 DEF OnlyTheCall
    <3>2. CASE report = <<Await(d, d \in Calling(new))>>
      <4> DEFINE calls == d \in Calling(new)
      <4>1. calls \in BOOLEAN /\ d \in Others
        BY <1>2, <2>4
      <4>2. Await(d, calls) = Await(c, flag)
        BY <1>5, <3>2
      <4> HIDE DEF calls, flag
      <4> QED BY <2>1, <4>1, <4>2, AwaitSettled
    <3> QED BY <1>1, <3>1, <3>2
  <2>5. Calling(new) = IF flag THEN Calling(old) \cup {c} ELSE Calling(old) \ {c}
    BY <2>3, <2>4 DEF Changed
  <2> HIDE DEF flag
  <2>6. Fits(Calling(old), Await(c, flag)) /\ Calling(new) = Rung(Calling(old), Await(c, flag))
    BY <2>1, <2>3, <2>5, AwaitSettled DEF Fits, Rung
  <2> QED BY <1>5, <2>1, <2>6 DEF flag
<1> QED BY <1>1, <1>3, <1>4, <1>5, ReportCases

-----------------------------------------------------------------------------
\* The type invariant.

LEMMA AddsOtherTyped ==
  ASSUME NEW q \in Seq(Settled), NEW new, AddsOther(q, new)
  PROVE  new \in Seq(Settled)
BY Added DEF AddsOther

LEMMA QueuesTyped ==
  ASSUME Types, [Next]_vars
  PROVE  m_jobQ' \in Seq(Settled) /\ m_resQ' \in Seq(Settled)
<1>0. m_jobQ \in Seq(Settled) /\ m_resQ \in Seq(Settled) /\ m_online_contacts \in ContactLists
  BY DEF Types, QueuesInv, TypeOK
<1>1. CASE Creates
  BY <1>0, <1>1, AddsOtherTyped DEF Creates
<1>2. CASE Answers
  BY <1>0, <1>2, Taken, Added DEF Answers
<1>3. CASE Drops
  BY <1>0, <1>3, Taken DEF Drops
<1>4. CASE Updates
  <2>1. PICK report \in Reports(m_online_contacts, m_online_contacts') :
          m_jobQ' = create(Tail(m_jobQ), report)
    BY <1>4 DEF Updates
  <2>2. report = <<>> \/ \E job \in Settled : report = <<job>>
    BY <1>0, <1>4, ReportSettled DEF Updates
  <2>3. Tail(m_jobQ) \in Seq(Settled)
    BY <1>0, <1>4, Taken DEF Updates
  <2>4. m_jobQ' \in Seq(Settled)
    BY <2>1, <2>2, <2>3, Created, Added
  <2> QED BY <1>0, <1>4, <2>4, AddsOtherTyped DEF Updates
<1>5. CASE Responds
  BY <1>0, <1>5, Taken, AddsOtherTyped DEF Responds
<1> QED BY <1>1, <1>2, <1>3, <1>4, <1>5, Shapes

LEMMA RungTyped ==
  ASSUME NEW rings \in SUBSET Others, NEW job \in Settled
  PROVE  Rung(rings, job) \in SUBSET Others
BY DEF Rung, Settled

LEMMA ListsTyped ==
  ASSUME Types, [Next]_vars
  PROVE  /\ m_online_contacts' \in ContactLists /\ displayed' \in OnlineLists
         /\ callers_table' \subseteq Others
         /\ overlooked' \in [list : BOOLEAN, calls : BOOLEAN]
<1>0. /\ m_resQ \in Seq(Settled) /\ m_online_contacts \in ContactLists
      /\ displayed \in OnlineLists /\ callers_table \in SUBSET Others
      /\ overlooked \in [list : BOOLEAN, calls : BOOLEAN]
  BY DEF Types, QueuesInv, TypeOK
<1>1. CASE Creates \/ Answers \/ Drops
  BY <1>0, <1>1 DEF Creates, Answers, Drops
<1>2. CASE Updates
  <2>1. PICK report : overlooked' = Overlooked(m_online_contacts, m_online_contacts', report)
    BY <1>2 DEF Updates
  <2>2. overlooked' \in [list : BOOLEAN, calls : BOOLEAN]
    BY <2>1, Zenon DEF Overlooked
  <2> QED BY <1>0, <1>2, <2>2 DEF Updates
<1>3. CASE Responds
  <2>1. Head(m_resQ) \in Settled
    BY <1>0, <1>3, Taken DEF Responds
  <2>2. Shown(Head(m_resQ).m_contact_list) \in OnlineLists
    BY <2>1, ShownTyped DEF Settled, Job
  <2>3. callers_table' \in SUBSET Others
    BY <1>0, <1>3, <2>1, RungTyped DEF Responds
  <2> QED BY <1>0, <1>3, <2>2, <2>3 DEF Responds
<1> QED BY <1>1, <1>2, <1>3, Shapes

\* The server, and what else there is of the client.
LEMMA ServerTyped ==
  ASSUME Types, [Next]_vars
  PROVE  /\ contacts' \subseteq Others /\ online' \in [Others -> BOOLEAN]
         /\ callee' \in [Others -> Callees \cup {NoOne}] /\ linked' \in BOOLEAN
<1>0. /\ contacts \subseteq Others /\ online \in [Others -> BOOLEAN]
      /\ callee \in [Others -> Callees \cup {NoOne}] /\ linked \in BOOLEAN
  BY DEF Types, TypeOK
<1>1. CASE UNCHANGED <<server, linked>>
  BY <1>0, <1>1 DEF server
<1>2. CASE OthersAct
  <2>1. PICK c \in Others : ComeOrGo(c) \/ CallSomebody(c) \/ StopCalling(c)
    BY <1>2 DEF OthersAct
  <2>2. linked' = linked
    BY <1>2 DEF OthersAct
  <2>3. CASE ComeOrGo(c)
    BY <1>0, <2>2, <2>3 DEF ComeOrGo
  <2>4. CASE CallSomebody(c)
    <3>1. PICK u \in Callees \ {c} : callee' = [callee EXCEPT ![c] = u]
      BY <2>4 DEF CallSomebody
    <3>2. UNCHANGED <<contacts, online>>
      BY <2>4 DEF CallSomebody
    <3> QED BY <1>0, <2>2, <3>1, <3>2
  <2>5. CASE StopCalling(c)
    BY <1>0, <2>2, <2>5 DEF StopCalling
  <2> QED BY <2>1, <2>3, <2>4, <2>5
<1>3. CASE BreakOff
  BY <1>0, <1>3 DEF BreakOff, server
<1>4. CASE JobThread
  <2>1. linked' = linked
    BY <1>4 DEF JobThread
  <2>2. CASE contact_add_user
    <3>1. UNCHANGED <<online, callee>> /\ add_user(Head(m_jobQ).m_intValue)
      BY <2>2 DEF contact_add_user
    <3> DEFINE c == Head(m_jobQ).m_intValue
    <3>2. contacts' = contacts \/ (add(c) /\ contacts' = contacts \cup {c})
      BY <3>1 DEF add_user, add_user_contact
    <3>3. add(c) => c \in Others
      BY DEF add, search_user_by, Known
    <3> QED BY <1>0, <2>1, <3>1, <3>2, <3>3
  <2>3. CASE contact_remove_user
    <3> DEFINE c == Head(m_jobQ).m_intValue
    <3>1. UNCHANGED <<online, callee>> /\ remove_user(c)
      BY <2>3 DEF contact_remove_user
    <3>2. contacts' = contacts \/ contacts' = contacts \ {c}
      BY <3>1 DEF remove_user, remove_user_contact
    <3> QED BY <1>0, <2>1, <3>1, <3>2
  <2> QED BY <1>1, <1>4, <2>1, <2>2, <2>3
          DEF JobThread, contact_list, contact_search, contact_get_contacts,
              user_login, chat_get_all, call_awaiting
<1> QED BY <1>1, <1>2, <1>3, <1>4
        DEF Next, vars, Interface, repeated_tasks, login, User, Ask

LEMMA ClientTyped ==
  ASSUME Types, [Next]_vars
  PROVE  /\ m_logged_in' \in BOOLEAN /\ m_callers' \subseteq Others
         /\ changes' \in 0..MaxChanges /\ clicks' \in 0..MaxClicks
<1>0. /\ m_logged_in \in BOOLEAN /\ m_callers \subseteq Others /\ linked \in BOOLEAN
      /\ changes \in 0..MaxChanges /\ clicks \in 0..MaxClicks
      /\ MaxChanges \in Nat /\ MaxClicks \in Nat
  BY BoundsAssumption DEF Types, TypeOK
<1>1. CASE OthersAct \/ BreakOff
  BY <1>0, <1>1 DEF OthersAct, BreakOff, client
<1>2. CASE JobThread
  <2>1. UNCHANGED <<changes, clicks>>
    BY <1>2 DEF JobThread
  <2>2. CASE user_login
    <3>1. PICK password_right \in BOOLEAN :
            m_logged_in' = (m_logged_in \/ (linked /\ password_right))
      BY <2>2 DEF user_login
    <3>2. m_logged_in' \in BOOLEAN
      BY <3>1, Zenon
    <3> QED BY <1>0, <2>1, <2>2, <3>2 DEF user_login
  <2>3. CASE call_awaiting
    <3> DEFINE job == Head(m_jobQ)
    <3>1. m_jobQ # <<>> /\ m_jobQ \in Seq(Settled) /\ job.m_command = "AWAITING"
      BY <2>3 DEF call_awaiting, Next_is, Types, QueuesInv
    <3>2. job \in Settled
      BY <3>1, Taken
    <3>3. job.m_intValue \in Others
      BY <3>1, <3>2 DEF Settled
    <3>4. \/ m_callers' = m_callers \cup {job.m_intValue}
          \/ m_callers' = m_callers \ {job.m_intValue}
      BY <2>3 DEF call_awaiting
    <3> HIDE DEF job
    <3> QED BY <1>0, <2>1, <2>3, <3>3, <3>4 DEF call_awaiting
  <2> QED BY <1>0, <1>2, <2>1, <2>2, <2>3
          DEF JobThread, contact_list, contact_search, contact_add_user,
              contact_remove_user, contact_get_contacts, chat_get_all, client
<1>3. CASE User
  <2>1. clicks < MaxClicks /\ clicks' = clicks + 1 /\ UNCHANGED <<client, changes>>
    BY <1>3 DEF User, Ask
  <2> QED BY <1>0, <2>1 DEF client
<1>4. CASE UNCHANGED <<client, changes, clicks>>
  BY <1>0, <1>4 DEF client
<1> QED BY <1>1, <1>2, <1>3, <1>4 DEF Next, vars, Interface, repeated_tasks, login

LEMMA GuiTyped ==
  ASSUME Types, [Next]_vars
  PROVE  /\ m_contact_list' \in OnlineLists
         /\ first_display' \in BOOLEAN /\ ready_signal' \in BOOLEAN /\ crashed' \in BOOLEAN
<1>0. /\ m_contact_list \in OnlineLists
      /\ first_display \in BOOLEAN /\ ready_signal \in BOOLEAN /\ crashed \in BOOLEAN
  BY DEF Types, TypeOK
<1>1. CASE UNCHANGED gui
  BY <1>0, <1>1 DEF gui
<1>2. CASE job_disp_contact
  <2> DEFINE list == Shown(Head(m_resQ).m_contact_list)
             value(c) == IF c \in DOMAIN list THEN list[c] ELSE m_contact_list[c]
             D == DOMAIN list \cup DOMAIN m_contact_list
  <2>1. m_resQ # <<>> /\ m_resQ \in Seq(Settled)
    BY <1>2 DEF job_disp_contact, Response, Next_is, Types, QueuesInv
  <2>2. Head(m_resQ) \in Settled
    BY <2>1, Taken
  <2>3. list \in OnlineLists
    BY <2>2, ShownTyped DEF Settled, Job
  <2>4. m_contact_list' = [c \in D |-> value(c)]
    BY <1>2 DEF job_disp_contact
  <2>5. UNCHANGED <<ready_signal, crashed>> /\ first_display' = FALSE
    BY <1>2 DEF job_disp_contact
  <2> HIDE DEF list
  <2>6. D \in SUBSET Others /\ \A c \in D : value(c) \in BOOLEAN
    BY <1>0, <2>3 DEF OnlineLists
  <2> HIDE DEF D, value
  <2>7. m_contact_list' \in [D -> BOOLEAN]
    BY <2>4, <2>6
  <2> QED BY <1>0, <2>5, <2>6, <2>7 DEF OnlineLists
<1>3. CASE job_load_chat
  BY <1>0, <1>3 DEF job_load_chat
<1>4. CASE job_awaiting
  <2>1. UNCHANGED <<m_contact_list, first_display, ready_signal>>
    BY <1>4 DEF job_awaiting
  <2>2. crashed' = crashed \/ crashed' = (Head(m_resQ).m_intValue \notin callers_table)
    BY <1>4 DEF job_awaiting
  <2>3. crashed' \in BOOLEAN
    BY <1>0, <2>2, Zenon
  <2> QED BY <1>0, <2>1, <2>3
<1> QED BY <1>1, <1>2, <1>3, <1>4
        DEF Next, vars, OthersAct, BreakOff, JobThread, Interface, repeated_tasks, login,
            User, Ask, job_login, job_add_user, job_remove_user, job_search

LEMMA SettledSeq ==
  ASSUME NEW q \in Seq(Settled) PROVE q \in Seq(Job)
<1>1. Settled \subseteq Job
  BY DEF Settled
<1> HIDE DEF Settled, Job
<1> QED BY <1>1

LEMMA TypesStep ==
  ASSUME Types, [Next]_vars PROVE Types'
<1>1. m_jobQ' \in Seq(Settled) /\ m_resQ' \in Seq(Settled)
  BY QueuesTyped
<1>2. m_jobQ' \in Seq(Job) /\ m_resQ' \in Seq(Job)
  BY <1>1, SettledSeq
<1> QED BY <1>1, <1>2, ListsTyped, ServerTyped, ClientTyped, GuiTyped
        DEF Types, TypeOK, QueuesInv

-----------------------------------------------------------------------------
\* What the box shows.

\* Other jobs do not matter to what is pending.
LEMMA PendingOther ==
  ASSUME NEW q \in Seq(Settled), NEW new, AddsOther(q, new),
         NEW command \in {"DISP_CONTACTS", "AWAITING"}
  PROVE  Pending(new, command) <=> Pending(q, command)
<1>1. CASE new = q
  BY <1>1
<1>2. CASE new # q
  <2>1. PICK job \in Settled : ~ Matters(job) /\ new = Append(q, job)
    BY <1>2 DEF AddsOther
  <2>2. job.m_command # command
    BY <2>1 DEF Matters
  <2> QED BY <2>1, <2>2, PendingAdded
<1> QED BY <1>1, <1>2

LEMMA AtLastOther ==
  ASSUME NEW q \in Seq(Settled), NEW new, AddsOther(q, new), NEW list, ShowsAtLast(q, list)
  PROVE  ShowsAtLast(new, list)
BY AtLastAdded DEF AddsOther, Matters

\* The invariant of the box with the variables it is about as parameters.
BoxAt(jobs, results, list, box) ==
  \/ Pending(jobs, "DISP_CONTACTS")
  \/ ShowsAtLast(results, list)
  \/ /\ ~ Pending(jobs, "DISP_CONTACTS") /\ ~ Pending(results, "DISP_CONTACTS")
     /\ box = Shown(list)

LEMMA BoxStep ==
  ASSUME Types, BoxInv, [Next]_vars
  PROVE  BoxInv'
<1> DEFINE D == "DISP_CONTACTS"
           Old == BoxAt(m_jobQ, m_resQ, m_online_contacts, displayed)
           New == BoxAt(m_jobQ', m_resQ', m_online_contacts', displayed')
<1>0. /\ m_jobQ \in Seq(Settled) /\ m_resQ \in Seq(Settled)
      /\ m_online_contacts \in ContactLists
  BY DEF Types, QueuesInv, TypeOK
<1>1. /\ BoxInv <=> (~ overlooked.list => Old)
      /\ BoxInv' <=> (~ overlooked'.list => New)
  BY DEF BoxInv, BoxAt, Reported
<1> SUFFICES ASSUME ~ overlooked'.list PROVE New
  BY <1>1
<1>2. CASE Creates
  <2>1. Old /\ UNCHANGED <<m_resQ, m_online_contacts, displayed>>
    BY <1>1, <1>2 DEF Creates
  <2>2. Pending(m_jobQ', D) <=> Pending(m_jobQ, D)
    BY <1>0, <1>2, PendingOther DEF Creates
  <2> QED BY <2>1, <2>2 DEF BoxAt
<1>3. CASE Answers
  <2>1. Old /\ UNCHANGED <<m_online_contacts, displayed>>
    BY <1>1, <1>3 DEF Answers
  <2>2. PICK job \in Settled :
          /\ m_resQ' = Append(m_resQ, job)
          /\ job.m_command = Head(m_jobQ).m_command
          /\ job.m_command = D => job.m_contact_list = m_online_contacts
    BY <1>3 DEF Answers
  <2>3. Pending(m_jobQ, D) <=> Head(m_jobQ).m_command = D \/ Pending(m_jobQ', D)
    BY <1>0, <1>3, PendingTaken DEF Answers
  <2>4. CASE job.m_command = D
    BY <1>0, <2>1, <2>2, <2>4, AtLastAdded DEF BoxAt
  <2>5. CASE job.m_command # D
    <3>1. Pending(m_resQ', D) <=> Pending(m_resQ, D)
      BY <1>0, <2>2, <2>5, PendingAdded
    <3>2. ShowsAtLast(m_resQ, m_online_contacts) => ShowsAtLast(m_resQ', m_online_contacts)
      BY <1>0, <2>2, <2>5, AtLastAdded
    <3> QED BY <2>1, <2>2, <2>3, <2>5, <3>1, <3>2 DEF BoxAt
  <2> QED BY <2>4, <2>5
<1>4. CASE Drops
  <2>1. Old /\ UNCHANGED <<m_resQ, m_online_contacts, displayed>>
    BY <1>1, <1>4 DEF Drops
  <2>2. Pending(m_jobQ', D) <=> Pending(m_jobQ, D)
    BY <1>0, <1>4, PendingTaken DEF Drops, Matters
  <2> QED BY <2>1, <2>2 DEF BoxAt
<1>5. CASE Updates
  <2>1. PICK report \in Reports(m_online_contacts, m_online_contacts') :
          /\ m_jobQ' = create(Tail(m_jobQ), report)
          /\ overlooked' = Overlooked(m_online_contacts, m_online_contacts', report)
    BY <1>5 DEF Updates
  <2>2. Tail(m_jobQ) \in Seq(Settled) /\ m_online_contacts' \in ContactLists
    BY <1>0, <1>5, Taken DEF Updates
  <2>3. Pending(Tail(m_jobQ), D) <=> Pending(m_jobQ, D)
    BY <1>0, <1>5, PendingTaken DEF Updates, Matters
  <2>4. CASE report = <<Display>>
    <3>1. m_jobQ' = Append(Tail(m_jobQ), Display)
      BY <2>1, <2>2, <2>4, Created, DisplaySettled
    <3>2. Pending(m_jobQ', D)
      BY <2>2, <3>1, PendingAdded, DisplaySettled
    <3> QED BY <3>2 DEF BoxAt
  <2>5. CASE report # <<Display>>
    <3>1. ~ overlooked.list /\ Shown(m_online_contacts) = Shown(m_online_contacts')
      BY <1>0, <2>1, <2>2, <2>5, NothingToShow
    <3>2. Old /\ displayed' = displayed
      BY <1>1, <1>5, <3>1 DEF Updates
    <3>3. Pending(m_jobQ', D) <=> Pending(Tail(m_jobQ), D)
      <4>1. report = <<>> \/ \E c \in Others, flag \in BOOLEAN : report = <<Await(c, flag)>>
        <5>1. ASSUME NEW c \in DOMAIN m_online_contacts'
              PROVE  c \in Others /\ m_online_contacts'[c].awaiting \in BOOLEAN
          BY <2>2, ContactListIs DEF Details
        <5> QED BY <1>0, <2>1, <2>2, <2>5, <5>1, ReportCases
      <4>2. CASE report = <<>>
        BY <2>1, <2>2, <4>2, Created
      <4>3. ASSUME NEW c \in Others, NEW flag \in BOOLEAN, report = <<Await(c, flag)>>
            PROVE  Pending(m_jobQ', D) <=> Pending(Tail(m_jobQ), D)
        <5>1. Await(c, flag) \in Settled /\ Await(c, flag).m_command # D
          BY AwaitSettled
        <5>2. m_jobQ' = Append(Tail(m_jobQ), Await(c, flag))
          BY <2>1, <2>2, <4>3, <5>1, Created
        <5> QED BY <2>2, <5>1, <5>2, PendingAdded
      <4> QED BY <4>1, <4>2, <4>3
    <3>4. Pending(m_resQ', D) <=> Pending(m_resQ, D)
      BY <1>0, <1>5, PendingOther DEF Updates
    <3>5. ShowsAtLast(m_resQ, m_online_contacts) => ShowsAtLast(m_resQ', m_online_contacts)
      BY <1>0, <1>5, AtLastOther DEF Updates
    <3>6. ShowsAtLast(m_resQ', m_online_contacts) <=> ShowsAtLast(m_resQ', m_online_contacts')
      BY <3>1 DEF ShowsAtLast
    <3> QED BY <2>3, <3>1, <3>2, <3>3, <3>4, <3>5, <3>6 DEF BoxAt
  <2> QED BY <2>4, <2>5
<1>6. CASE Responds
  <2>1. Old /\ UNCHANGED m_online_contacts
    BY <1>1, <1>6 DEF Responds
  <2>2. Pending(m_jobQ', D) <=> Pending(m_jobQ, D)
    BY <1>0, <1>6, PendingOther DEF Responds
  <2>3. /\ m_resQ' = Tail(m_resQ) /\ m_resQ # <<>>
        /\ Pending(m_resQ, D) <=> Head(m_resQ).m_command = D \/ Pending(Tail(m_resQ), D)
    BY <1>0, <1>6, PendingTaken DEF Responds
  <2>4. CASE ShowsAtLast(m_resQ, m_online_contacts)
    <3>1. \/ ShowsAtLast(m_resQ', m_online_contacts)
          \/ /\ Head(m_resQ).m_command = D
             /\ Shown(Head(m_resQ).m_contact_list) = Shown(m_online_contacts)
             /\ ~ Pending(m_resQ', D)
      BY <1>0, <2>3, <2>4, AtLastTaken
    <3> QED BY <1>6, <2>1, <3>1 DEF BoxAt, Responds
  <2>5. CASE ~ Pending(m_resQ, D) /\ displayed = Shown(m_online_contacts)
    <3>1. displayed' = displayed /\ ~ Pending(m_resQ', D)
      BY <1>6, <2>3, <2>5 DEF Responds
    <3> QED BY <2>1, <2>5, <3>1 DEF BoxAt
  <2> QED BY <2>1, <2>2, <2>4, <2>5 DEF BoxAt
<1> QED BY <1>2, <1>3, <1>4, <1>5, <1>6, Shapes

-----------------------------------------------------------------------------
\* The rings.

LEMMA LeadsOther ==
  ASSUME NEW q \in Seq(Settled), NEW new, AddsOther(q, new), NEW from, NEW to,
         Leads(q, from, to)
  PROVE  Leads(new, from, to)
<1>1. ASSUME NEW job \in Settled, ~ Matters(job)
      PROVE  Fits(to, job) /\ Rung(to, job) = to
  BY <1>1 DEF Fits, Rung, Matters
<1> QED BY <1>1, LeadsAdded DEF AddsOther

\* The invariant of the rings with the variables it is about as parameters.
RingsAt(jobs, results, list, rings) ==
  \E between \in SUBSET Others :
    Leads(results, rings, between) /\ Leads(jobs, between, Calling(list))

LEMMA RingStep ==
  ASSUME Types, RingInv, [Next]_vars
  PROVE  RingInv'
<1> DEFINE Old == ~ crashed /\ RingsAt(m_jobQ, m_resQ, m_online_contacts, callers_table)
           New == ~ crashed' /\ RingsAt(m_jobQ', m_resQ', m_online_contacts', callers_table')
<1>0. /\ m_jobQ \in Seq(Settled) /\ m_resQ \in Seq(Settled)
      /\ m_online_contacts \in ContactLists /\ callers_table \in SUBSET Others
  BY DEF Types, QueuesInv, TypeOK
<1>1. /\ RingInv <=> (~ overlooked.calls => Old)
      /\ RingInv' <=> (~ overlooked'.calls => New)
  BY DEF RingInv, RingsAt
<1> SUFFICES ASSUME ~ overlooked'.calls PROVE New
  BY <1>1
<1>2. CASE Creates
  <2>1. Old /\ UNCHANGED <<m_resQ, m_online_contacts, callers_table, crashed>>
    BY <1>1, <1>2 DEF Creates
  <2>2. PICK between \in SUBSET Others :
          /\ Leads(m_resQ, callers_table, between)
          /\ Leads(m_jobQ, between, Calling(m_online_contacts))
    BY <2>1 DEF RingsAt
  <2>3. Leads(m_jobQ', between, Calling(m_online_contacts))
    BY <1>0, <1>2, <2>2, LeadsOther DEF Creates
  <2> QED BY <2>1, <2>2, <2>3 DEF RingsAt
<1>3. CASE Answers
  <2>1. Old /\ UNCHANGED <<m_online_contacts, callers_table, crashed>>
    BY <1>1, <1>3 DEF Answers
  <2>2. PICK between \in SUBSET Others :
          /\ Leads(m_resQ, callers_table, between)
          /\ Leads(m_jobQ, between, Calling(m_online_contacts))
    BY <2>1 DEF RingsAt
  <2>3. PICK job \in Settled :
          /\ m_resQ' = Append(m_resQ, job)
          /\ job.m_command = Head(m_jobQ).m_command
          /\ job.m_intValue = Head(m_jobQ).m_intValue
          /\ job.m_boolValue = Head(m_jobQ).m_boolValue
    BY <1>3 DEF Answers
  <2>4. /\ Fits(between, Head(m_jobQ)) /\ Rung(between, Head(m_jobQ)) \in SUBSET Others
        /\ Leads(Tail(m_jobQ), Rung(between, Head(m_jobQ)), Calling(m_online_contacts))
    BY <1>0, <1>3, <2>2, LeadsTaken DEF Answers
  <2>5. /\ Fits(between, job) <=> Fits(between, Head(m_jobQ))
        /\ Rung(between, job) = Rung(between, Head(m_jobQ))
    BY <2>3 DEF Fits, Rung
  <2>6. Leads(m_resQ', callers_table, Rung(between, job))
    BY <1>0, <2>2, <2>3, <2>4, <2>5, LeadsAdded
  <2>7. m_jobQ' = Tail(m_jobQ)
    BY <1>3 DEF Answers
  <2> QED BY <2>1, <2>4, <2>5, <2>6, <2>7 DEF RingsAt
<1>4. ASSUME m_jobQ # <<>>, ~ Matters(Head(m_jobQ)), NEW from, NEW to, Leads(m_jobQ, from, to)
      PROVE  Leads(Tail(m_jobQ), from, to)
  <2>1. Rung(from, Head(m_jobQ)) = from
    BY <1>4 DEF Rung, Matters
  <2> QED BY <1>0, <1>4, <2>1, LeadsTaken
<1>5. CASE Drops
  <2>1. Old /\ UNCHANGED <<m_resQ, m_online_contacts, callers_table, crashed>>
    BY <1>1, <1>5 DEF Drops
  <2>2. PICK between \in SUBSET Others :
          /\ Leads(m_resQ, callers_table, between)
          /\ Leads(m_jobQ, between, Calling(m_online_contacts))
    BY <2>1 DEF RingsAt
  <2>3. Leads(m_jobQ', between, Calling(m_online_contacts))
    BY <1>4, <1>5, <2>2 DEF Drops
  <2> QED BY <2>1, <2>2, <2>3 DEF RingsAt
<1>6. CASE Updates
  <2> DEFINE old == Calling(m_online_contacts)
             new == Calling(m_online_contacts')
  <2>1. PICK report \in Reports(m_online_contacts, m_online_contacts') :
          /\ m_jobQ' = create(Tail(m_jobQ), report)
          /\ overlooked' = Overlooked(m_online_contacts, m_online_contacts', report)
    BY <1>6 DEF Updates
  <2>2. Tail(m_jobQ) \in Seq(Settled) /\ m_online_contacts' \in ContactLists
    BY <1>0, <1>6, Taken DEF Updates
  <2>3. /\ ~ overlooked.calls
        /\ \/ report \in {<<>>, <<Display>>} /\ old = new
           \/ \E c \in Others, flag \in BOOLEAN :
                /\ report = <<Await(c, flag)>>
                /\ Fits(old, Await(c, flag)) /\ new = Rung(old, Await(c, flag))
    BY <1>0, <2>1, <2>2, ReportLeads
  <2>4. Old /\ UNCHANGED <<callers_table, crashed>>
    BY <1>1, <1>6, <2>3 DEF Updates
  <2>5. PICK between \in SUBSET Others :
          Leads(m_resQ, callers_table, between) /\ Leads(m_jobQ, between, old)
    BY <2>4 DEF RingsAt
  <2>6. Leads(Tail(m_jobQ), between, old)
    BY <1>4, <1>6, <2>5 DEF Updates
  <2>7. Leads(m_resQ', callers_table, between)
    BY <1>0, <1>6, <2>5, LeadsOther DEF Updates
  <2> HIDE DEF old, new
  <2>8. Leads(m_jobQ', between, new)
    <3>1. CASE report = <<>> /\ old = new
      BY <2>1, <2>2, <2>6, <3>1, Created
    <3>2. CASE report = <<Display>> /\ old = new
      <4>1. m_jobQ' = Append(Tail(m_jobQ), Display)
        BY <2>1, <2>2, <3>2, Created, DisplaySettled
      <4>2. Fits(old, Display) /\ Rung(old, Display) = old
        BY DisplaySettled DEF Fits, Rung
      <4> QED BY <2>2, <2>6, <3>2, <4>1, <4>2, LeadsAdded, DisplaySettled
    <3>3. ASSUME NEW c \in Others, NEW flag \in BOOLEAN, report = <<Await(c, flag)>>,
                 Fits(old, Await(c, flag)), new = Rung(old, Await(c, flag))
          PROVE  Leads(m_jobQ', between, new)
      <4>1. Await(c, flag) \in Settled
        BY AwaitSettled
      <4>2. m_jobQ' = Append(Tail(m_jobQ), Await(c, flag))
        BY <2>1, <2>2, <3>3, <4>1, Created
      <4> QED BY <2>2, <2>6, <3>3, <4>1, <4>2, LeadsAdded
    <3> QED BY <2>3, <3>1, <3>2, <3>3
  <2> QED BY <2>4, <2>5, <2>7, <2>8 DEF RingsAt, new
<1>7. CASE Responds
  <2>1. Old /\ UNCHANGED m_online_contacts
    BY <1>1, <1>7 DEF Responds
  <2>2. PICK between \in SUBSET Others :
          /\ Leads(m_resQ, callers_table, between)
          /\ Leads(m_jobQ, between, Calling(m_online_contacts))
    BY <2>1 DEF RingsAt
  <2>3. /\ Fits(callers_table, Head(m_resQ))
        /\ Leads(Tail(m_resQ), Rung(callers_table, Head(m_resQ)), between)
    BY <1>0, <1>7, <2>2, LeadsTaken DEF Responds
  <2>4. Leads(m_jobQ', between, Calling(m_online_contacts))
    BY <1>0, <1>7, <2>2, LeadsOther DEF Responds
  <2>5. /\ ~ crashed' /\ m_resQ' = Tail(m_resQ)
        /\ callers_table' = Rung(callers_table, Head(m_resQ))
    BY <1>7, <2>1, <2>3 DEF Responds
  <2> QED BY <2>1, <2>2, <2>3, <2>4, <2>5 DEF RingsAt
<1> QED BY <1>2, <1>3, <1>5, <1>6, <1>7, Shapes

-----------------------------------------------------------------------------
\* The invariant.

LEMMA InitInv == Init => IInv
<1> SUFFICES ASSUME Init PROVE IInv
  OBVIOUS
<1>1. Empty \in ContactLists /\ Empty = <<>>
  BY EmptyList DEF Empty
<1>2. Empty \in OnlineLists
  <2>1. Empty \in [{} -> BOOLEAN]
    BY DEF Empty
  <2> QED BY <2>1 DEF OnlineLists
<1>3. TypeOK
  <2>1. /\ contacts \subseteq Others /\ online \in [Others -> BOOLEAN]
        /\ callee \in [Others -> Callees \cup {NoOne}] /\ linked \in BOOLEAN
    BY DEF Init
  <2>0. m_jobQ \in Seq(Job) /\ m_resQ \in Seq(Job)
    BY SettledSeq, EmptySeq DEF Init
  <2>2. /\ m_logged_in \in BOOLEAN /\ m_online_contacts \in ContactLists
        /\ m_callers \subseteq Others
    BY <1>1 DEF Init
  <2>3. /\ displayed \in OnlineLists /\ m_contact_list \in OnlineLists
        /\ callers_table \subseteq Others
        /\ first_display \in BOOLEAN /\ ready_signal \in BOOLEAN /\ crashed \in BOOLEAN
        /\ overlooked \in [list : BOOLEAN, calls : BOOLEAN]
    BY <1>2 DEF Init
  <2>4. changes \in 0..MaxChanges /\ clicks \in 0..MaxClicks
    BY BoundsAssumption DEF Init
  <2> QED BY <2>0, <2>1, <2>2, <2>3, <2>4 DEF TypeOK
<1>4. QueuesInv
  BY DEF Init, QueuesInv
<1>5. BoxInv
  <2>1. ~ Pending(<<>>, "DISP_CONTACTS")
    BY DEF Pending
  <2>2. Shown(Empty) = Empty
    BY <1>1 DEF Shown
  <2> QED BY <2>1, <2>2 DEF Init, BoxInv, Reported
<1>6. RingInv
  <2>1. Calling(Empty) = {}
    BY DEF Calling, Empty
  <2>2. Leads(<<>>, {}, {})
    BY LeadsNothing
  <2>3. ~ crashed /\ m_resQ = <<>> /\ m_jobQ = <<>> /\ callers_table = {}
        /\ Calling(m_online_contacts) = {}
    BY <2>1 DEF Init
  <2> QED BY <2>2, <2>3 DEF RingInv
<1> QED BY <1>3, <1>4, <1>5, <1>6 DEF IInv

LEMMA StepInv == IInv /\ [Next]_vars => IInv'
BY TypesStep, BoxStep, RingStep DEF IInv, Types

LEMMA Invariance == Spec => []IInv
BY InitInv, StepInv, PTL DEF Spec

\* Every variable of the client and of the server's tables keeps its type, and
\* only jobs of the other users' calls ring (contacts.cpp, central_jobs.cpp).
THEOREM TypeCorrect == Spec => []TypeOK
<1>1. IInv => TypeOK
  BY DEF IInv
<1> QED BY <1>1, Invariance, PTL

\* Whatever the others, the connection, the user and the timer do between two
\* steps of the job thread: once no DISP_CONTACTS is under way, the box shows the
\* last list, unless an AWAITING was reported in its place (contacts.cpp:189).
THEOREM BoxIsUpToDate == Spec => []BoxShowsLastList
<1>1. IInv => BoxShowsLastList
  <2>1. ASSUME IInv, ShowsAtLast(m_resQ, m_online_contacts)
        PROVE  Pending(m_resQ, "DISP_CONTACTS")
    BY <2>1, PendingAt DEF IInv, QueuesInv, ShowsAtLast
  <2> QED BY <2>1 DEF IInv, BoxInv, BoxShowsLastList, Reported
<1> QED BY <1>1, Invariance, PTL

\* No call's end is ever told before its beginning, nor twice: the interface has
\* the ring it hides, and once all is told the rings are those of the contacts
\* that call, unless a call changed together with something else (central_jobs.cpp:171).
THEOREM RingsAreOfCallers == Spec => []RingsFollowCalls
<1>1. IInv => RingsFollowCalls
  <2> SUFFICES ASSUME IInv, ~ overlooked.calls
               PROVE  /\ ~ crashed
                      /\ Reported("AWAITING") => callers_table = Calling(m_online_contacts)
    BY DEF RingsFollowCalls
  <2>1. PICK between \in SUBSET Others :
          /\ Leads(m_resQ, callers_table, between)
          /\ Leads(m_jobQ, between, Calling(m_online_contacts))
    BY DEF IInv, RingInv
  <2>2. m_jobQ \in Seq(Settled) /\ m_resQ \in Seq(Settled)
    BY DEF IInv, QueuesInv
  <2>3. Reported("AWAITING") => callers_table = Calling(m_online_contacts)
    BY <2>1, <2>2, LeadsNowhere DEF Reported
  <2> QED BY <2>3 DEF IInv, RingInv
<1> QED BY <1>1, Invariance, PTL
=============================================================================
