-------------------------------- MODULE Fifo --------------------------------
(***************************************************************************)
(* What the audio queue promises: packages come out in the order they went *)
(* in, each of them once, and a pop comes back empty-handed only when the  *)
(* queue is empty.                                                         *)
(***************************************************************************)
EXTENDS Sequences

CONSTANTS Packages,   \* audio packages
          Consumers,  \* the threads that pop
          NoPackage   \* the empty shared_ptr

VARIABLES queue,      \* the packages in the queue
          got         \* what each consumer's last pop returned

fifoVars == <<queue, got>>

FifoInit ==
  /\ queue = <<>>
  /\ got = [c \in Consumers |-> NoPackage]

Enqueue(p) ==
  /\ queue' = Append(queue, p)
  /\ UNCHANGED got

Dequeue(c) ==
  /\ queue # <<>>
  /\ queue' = Tail(queue)
  /\ got' = [got EXCEPT ![c] = Head(queue)]

FindEmpty(c) ==
  /\ queue = <<>>
  /\ got' = [got EXCEPT ![c] = NoPackage]
  /\ UNCHANGED queue

FifoNext ==
  \/ \E p \in Packages : Enqueue(p)
  \/ \E c \in Consumers : Dequeue(c) \/ FindEmpty(c)

FifoSpec == FifoInit /\ [][FifoNext]_fifoVars
=============================================================================
