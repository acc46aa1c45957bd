---------------------- MODULE LockFreeAudioQueueProofs ----------------------
(***************************************************************************)
(* Proofs about LockFreeAudioQueue.  The header says that the queue        *)
(* "assumes that there is a single consumer": OneConsumer is that          *)
(* assumption, and under it, for any number of nodes and packages, no      *)
(* freed node is touched and the queue implements Fifo.                    *)
(***************************************************************************)
EXTENDS LockFreeAudioQueue, SequenceTheorems, TLAPS

OneConsumer == \A c, d \in Consumers : c = d

IInv == TypeOK /\ QueueInv

-----------------------------------------------------------------------------
LEMMA InitIInv == Init => IInv
<1> SUFFICES ASSUME Init PROVE IInv
  OBVIOUS
<1>1. PICK n \in Nodes :
        /\ package = [m \in Nodes |-> NoPackage]
        /\ next = [m \in Nodes |-> NoNode]
        /\ live = {n} /\ m_head = n /\ m_tail = n
        /\ ppc = "idle" /\ new_node = NoNode /\ new_data = NoPackage
        /\ cpc = [c \in Consumers |-> "idle"]
        /\ old_head = [c \in Consumers |-> NoNode]
        /\ result = [c \in Consumers |-> NoPackage]
        /\ chain = <<n>>
  BY DEF Init
<1>2. chain \in Seq(Nodes) /\ Len(chain) = 1 /\ chain[1] = n
  BY <1>1
<1>3. TypeOK
  BY <1>1, <1>2 DEF TypeOK
<1>4. ChainInv
  BY <1>1, <1>2 DEF ChainInv
<1>5. PushInv /\ PopInv
  BY <1>1 DEF PushInv, PopInv
<1> QED BY <1>3, <1>4, <1>5 DEF IInv, QueueInv

\* The steps of push.  A node that is allocated is in nobody's hands; the
\* dummy is written only while no consumer has passed it.
LEMMA PushIInv ==
  ASSUME IInv, Push
  PROVE  IInv'
<1> USE DEF IInv, QueueInv
<1>c. /\ chain \in Seq(Nodes) /\ Len(chain) \in Nat /\ Len(chain) >= 1
      /\ \A i \in 1..Len(chain) : chain[i] \in Nodes
  BY DEF ChainInv
<1>1. CASE \E p \in Packages : PushNew(p)
  <2>1. PICK p \in Packages, n \in Nodes \ live :
          /\ ppc = "idle"
          /\ live' = live \cup {n} /\ new_node' = n
          /\ package' = [package EXCEPT ![n] = NoPackage]
          /\ next' = [next EXCEPT ![n] = NoNode]
          /\ new_data' = p /\ ppc' = "swap"
          /\ UNCHANGED <<m_head, m_tail, consumerVars, chain>>
    BY <1>1 DEF PushNew
  <2>2. TypeOK'
    BY <2>1 DEF TypeOK, consumerVars
  <2>3. \A i \in 1..Len(chain) : chain[i] # n
    BY <2>1 DEF ChainInv
  <2>4. ChainInv'
    BY <1>c, <2>1, <2>3 DEF ChainInv, TypeOK
  <2>5. PushInv'
    BY <2>1, <2>3 DEF PushInv
  <2>6. PopInv'
    BY <2>1 DEF PopInv, TypeOK, consumerVars
  <2> QED BY <2>2, <2>4, <2>5, <2>6
<1>2. CASE PushSwap
  <2>1. /\ ppc = "swap" /\ ppc' = "link"
        /\ package' = [package EXCEPT ![m_tail] = new_data]
        /\ UNCHANGED <<next, live, m_head, m_tail, new_node, new_data,
                       consumerVars, chain>>
    BY <1>2 DEF PushSwap
  <2>2. TypeOK'
    BY <2>1 DEF TypeOK, consumerVars
  <2>3. ChainInv'
    BY <1>c, <2>1 DEF ChainInv, PushInv, TypeOK
  <2>4. PushInv'
    BY <2>1 DEF PushInv, TypeOK
  <2>5. PopInv'
    BY <1>c, <2>1 DEF PopInv, PushInv, ChainInv, TypeOK, consumerVars
  <2> QED BY <2>2, <2>3, <2>4, <2>5
<1>3. CASE PushLink
  <2>1. /\ ppc = "link" /\ ppc' = "publish"
        /\ next' = [next EXCEPT ![m_tail] = new_node]
        /\ UNCHANGED <<package, live, m_head, m_tail, new_node, new_data,
                       consumerVars, chain>>
    BY <1>3 DEF PushLink
  <2>2. TypeOK'
    BY <2>1 DEF TypeOK, consumerVars
  <2>3. ChainInv'
    BY <1>c, <2>1 DEF ChainInv, TypeOK
  <2>4. PushInv'
    BY <2>1 DEF PushInv, TypeOK
  <2>5. PopInv'
    BY <2>1 DEF PopInv, consumerVars
  <2> QED BY <2>2, <2>3, <2>4, <2>5
<1>4. CASE PushPublish
  <2>1. /\ ppc = "publish" /\ ppc' = "idle"
        /\ m_tail' = new_node /\ chain' = Append(chain, new_node)
        /\ new_node' = NoNode /\ new_data' = NoPackage
        /\ UNCHANGED <<package, next, live, m_head, consumerVars>>
    BY <1>4 DEF PushPublish
  <2>2. /\ new_node \in Nodes /\ new_node \in live /\ new_data \in Packages
        /\ \A i \in 1..Len(chain) : chain[i] # new_node
        /\ package[m_tail] = new_data /\ next[m_tail] = new_node
    BY <2>1 DEF PushInv, TypeOK
  <2>3. /\ chain' \in Seq(Nodes) /\ Len(chain') = Len(chain) + 1
        /\ chain'[Len(chain) + 1] = new_node
        /\ \A i \in 1..Len(chain) : chain'[i] = chain[i]
    BY <1>c, <2>1, <2>2
  <2>4. TypeOK'
    BY <2>1, <2>2, <2>3 DEF TypeOK, consumerVars
  <2>5. ChainInv'
    <3>1. \A i, j \in 1..Len(chain') : chain'[i] = chain'[j] => i = j
      BY <1>c, <2>2, <2>3 DEF ChainInv
    <3>2. \A i \in 1..Len(chain') : chain'[i] \in live'
      BY <1>c, <2>1, <2>2, <2>3 DEF ChainInv
    <3>3. \A i \in 1..(Len(chain') - 1) : /\ next'[chain'[i]] = chain'[i + 1]
                                          /\ package'[chain'[i]] \in Packages
      <4> SUFFICES ASSUME NEW i \in 1..Len(chain)
                   PROVE  /\ next[chain[i]] = chain'[i + 1]
                          /\ package[chain[i]] \in Packages
        BY <1>c, <2>1, <2>3
      <4>1. CASE i = Len(chain)
        BY <4>1, <2>2, <2>3 DEF ChainInv
      <4>2. CASE i < Len(chain)
        BY <4>2, <1>c, <2>3 DEF ChainInv
      <4> QED BY <1>c, <4>1, <4>2
    <3> QED
      BY <1>c, <2>1, <2>3, <3>1, <3>2, <3>3 DEF ChainInv
  <2>6. PushInv'
    BY <2>1 DEF PushInv
  <2>7. PopInv'
    BY <1>c, <2>1, <2>2, <2>3 DEF PopInv, consumerVars
  <2> QED BY <2>4, <2>5, <2>6, <2>7
<1> QED BY <1>1, <1>2, <1>3, <1>4 DEF Push

\* The steps of pop.  The only consumer moves the head on by one node, which
\* it then holds alone until it frees it.
LEMMA PopIInv ==
  ASSUME OneConsumer, IInv, NEW c \in Consumers, Pop(c)
  PROVE  IInv'
<1> USE DEF IInv, QueueInv
<1>a. /\ chain \in Seq(Nodes) /\ Len(chain) \in Nat /\ Len(chain) >= 1
      /\ \A i \in 1..Len(chain) : chain[i] \in Nodes
  BY DEF ChainInv
<1>b. \A d \in Consumers : d = c
  BY DEF OneConsumer
<1>1. CASE PopLoad(c)
  <2>1. TypeOK'
    BY <1>1 DEF PopLoad, TypeOK, producerVars
  <2>2. ChainInv' /\ PushInv'
    BY <1>1 DEF PopLoad, ChainInv, PushInv, producerVars
  <2>3. PopInv'
    BY <1>1, <1>b DEF PopLoad, PopInv, TypeOK, producerVars
  <2> QED BY <2>1, <2>2, <2>3
<1>2. CASE PopTest(c)
  <2>0. cpc' \in [Consumers -> {"idle", "test", "advance", "take", "delete"}]
        /\ old_head' \in [Consumers -> Nodes \cup {NoNode}]
        /\ result' \in [Consumers -> Packages \cup {NoPackage}]
    BY <1>2 DEF PopTest, TypeOK
  <2>1. TypeOK'
    BY <1>2, <2>0 DEF PopTest, TypeOK, producerVars
  <2>2. ChainInv' /\ PushInv'
    BY <1>2 DEF PopTest, ChainInv, PushInv, producerVars
  <2>3. PopInv'
    <3>1. CASE old_head[c] = m_tail
      BY <1>2, <1>b, <3>1 DEF PopTest, PopInv, TypeOK, producerVars
    <3>2. CASE old_head[c] # m_tail
      <4>1. Len(chain) >= 2
        BY <1>2, <1>a, <3>2 DEF PopTest, PopInv, ChainInv
      <4> QED
        BY <1>2, <1>b, <3>2, <4>1 DEF PopTest, PopInv, TypeOK, producerVars
    <3> QED BY <3>1, <3>2
  <2> QED BY <2>1, <2>2, <2>3
<1>3. CASE PopAdvance(c)
  <2>1. /\ cpc[c] = "advance" /\ cpc' = [cpc EXCEPT ![c] = "take"]
        /\ m_head' = next[old_head[c]]
        /\ UNCHANGED <<package, next, live, m_tail, producerVars, old_head,
                       result>>
    BY <1>3 DEF PopAdvance
  <2>2. Len(chain) >= 2 /\ old_head[c] = chain[1]
    BY <2>1 DEF PopInv, ChainInv
  <2>3. /\ chain' \in Seq(Nodes) /\ Len(chain') = Len(chain) - 1
        /\ \A i \in 1..Len(chain') : chain'[i] = chain[i + 1]
    <3>1. chain' = Tail(chain)
      BY <1>3, <1>a, <2>2 DEF PopAdvance
    <3> QED BY <1>a, <2>2, <3>1
  <2>4. m_head' = chain[2]
    BY <1>a, <2>1, <2>2 DEF ChainInv
  <2>5. TypeOK'
    BY <1>a, <2>1, <2>2, <2>3, <2>4 DEF TypeOK, producerVars
  <2>6. ChainInv'
    <3>1. m_head' = chain'[1] /\ m_tail' = chain'[Len(chain')]
      BY <1>a, <2>1, <2>2, <2>3, <2>4 DEF ChainInv
    <3>2. \A i, j \in 1..Len(chain') : chain'[i] = chain'[j] => i = j
      <4> SUFFICES ASSUME NEW i \in 1..Len(chain'), NEW j \in 1..Len(chain'),
                          chain'[i] = chain'[j]
                   PROVE  i = j
        OBVIOUS
      <4>1. i + 1 \in 1..Len(chain) /\ j + 1 \in 1..Len(chain)
            /\ chain[i + 1] = chain[j + 1]
        BY <1>a, <2>3
      <4> QED BY <4>1 DEF ChainInv
    <3>3. \A i \in 1..Len(chain') : chain'[i] \in live'
      BY <1>a, <2>1, <2>3 DEF ChainInv
    <3>4. \A i \in 1..(Len(chain') - 1) : /\ next'[chain'[i]] = chain'[i + 1]
                                          /\ package'[chain'[i]] \in Packages
      BY <1>a, <2>1, <2>3 DEF ChainInv
    <3> QED
      BY <1>a, <2>2, <2>3, <3>1, <3>2, <3>3, <3>4 DEF ChainInv
  <2>7. PushInv'
    BY <1>a, <2>1, <2>2, <2>3 DEF PushInv, producerVars
  <2>8. PopInv'
    <3>1. /\ old_head[c] \in live
          /\ \A i \in 1..Len(chain') : chain'[i] # old_head[c]
          /\ ppc # "idle" => old_head[c] # new_node
          /\ package[old_head[c]] \in Packages
      BY <1>a, <2>2, <2>3 DEF ChainInv, PushInv
    <3> QED
      BY <1>b, <2>1, <3>1 DEF PopInv, TypeOK, producerVars
  <2> QED BY <2>5, <2>6, <2>7, <2>8
<1>4. CASE PopTake(c)
  <2>0. /\ cpc[c] = "take" /\ cpc' = [cpc EXCEPT ![c] = "delete"]
        /\ result' = [result EXCEPT ![c] = package[old_head[c]]]
        /\ UNCHANGED <<package, next, live, m_head, m_tail, producerVars,
                       old_head, chain>>
    BY <1>4 DEF PopTake
  <2>1. TypeOK'
    BY <2>0 DEF TypeOK, PopInv, producerVars
  <2>2. ChainInv' /\ PushInv'
    BY <2>0 DEF ChainInv, PushInv, producerVars
  <2>3. PopInv'
    BY <2>0, <1>b DEF PopInv, TypeOK, producerVars
  <2> QED BY <2>1, <2>2, <2>3
<1>5. CASE PopDelete(c)
  <2>0. /\ cpc[c] = "delete" /\ cpc' = [cpc EXCEPT ![c] = "idle"]
        /\ live' = live \ {old_head[c]}
        /\ old_head' = [old_head EXCEPT ![c] = NoNode]
        /\ UNCHANGED <<package, next, m_head, m_tail, producerVars, result,
                       chain>>
    BY <1>5 DEF PopDelete
  <2>1. TypeOK'
    BY <2>0 DEF TypeOK, producerVars
  <2>2. ChainInv'
    BY <2>0 DEF ChainInv, PopInv
  <2>3. PushInv'
    BY <2>0 DEF PushInv, PopInv, producerVars
  <2>4. PopInv'
    BY <2>0, <1>b DEF PopInv, TypeOK, producerVars
  <2> QED BY <2>1, <2>2, <2>3, <2>4
<1> QED BY <1>1, <1>2, <1>3, <1>4, <1>5 DEF Pop

LEMMA StepIInv ==
  ASSUME OneConsumer
  PROVE  IInv /\ [Next]_vars => IInv'
<1> SUFFICES ASSUME IInv, [Next]_vars PROVE IInv'
  OBVIOUS
<1>1. CASE UNCHANGED vars
  BY <1>1 DEF IInv, QueueInv, TypeOK, ChainInv, PushInv, PopInv, vars,
              producerVars, consumerVars
<1> QED BY <1>1, PushIInv, PopIInv DEF Next

-----------------------------------------------------------------------------
\* With one consumer no thread touches a freed node, and m_head is never null.
THEOREM NoUseAfterFree ==
  ASSUME OneConsumer PROVE Spec => []NodesAlive
<1>1. IInv => NodesAlive
  <2> SUFFICES ASSUME IInv PROVE NodesAlive
    OBVIOUS
  <2>1. {m_head, m_tail} \subseteq live
    BY DEF IInv, QueueInv, ChainInv
  <2>2. ASSUME NEW c \in Consumers,
               cpc[c] \in {"advance", "take", "delete"}
        PROVE  old_head[c] \in live
    BY <2>1, <2>2 DEF IInv, QueueInv, PopInv
  <2> QED BY <2>1, <2>2 DEF NodesAlive
<1> QED BY InitIInv, StepIInv, <1>1, PTL DEF Spec

-----------------------------------------------------------------------------
(***************************************************************************)
(* Nothing leaks.  NoLeak is inductive together with IInv: each step moves *)
(* at most one node between the heap, the list, the push and the pop.      *)
(***************************************************************************)

\* NoLeak said of a node: who holds what is allocated.
Held(n) ==
  \/ \E i \in 1..Len(chain) : chain[i] = n
  \/ ppc # "idle" /\ n = new_node
  \/ \E c \in Consumers : cpc[c] \in {"take", "delete"} /\ n = old_head[c]

LEMMA NoLeakHeld == NoLeak <=> \A n : n \in live <=> Held(n)
BY DEF NoLeak, Held

LEMMA PushHeld ==
  ASSUME IInv, NoLeak, Push
  PROVE  \A n : n \in live' <=> Held(n)'
<1>a. /\ chain \in Seq(Nodes) /\ Len(chain) \in Nat /\ Len(chain) >= 1
      /\ \A n : n \in live <=> Held(n)
  BY NoLeakHeld DEF IInv, QueueInv, ChainInv
<1>1. CASE \E p \in Packages : PushNew(p)
  <2>1. /\ ppc = "idle" /\ ppc' = "swap" /\ live' = live \cup {new_node'}
        /\ UNCHANGED <<cpc, old_head, chain>>
    BY <1>1 DEF PushNew, consumerVars
  <2> QED BY <1>a, <2>1 DEF Held
<1>2. CASE PushSwap \/ PushLink
  BY <1>a, <1>2 DEF PushSwap, PushLink, Held, consumerVars
<1>3. CASE PushPublish
  <2>1. /\ ppc = "publish" /\ ppc' = "idle" /\ chain' = Append(chain, new_node)
        /\ UNCHANGED <<live, cpc, old_head>>
    BY <1>3 DEF PushPublish, consumerVars
  <2>2. new_node \in Nodes
    BY <2>1 DEF IInv, QueueInv, TypeOK, PushInv
  <2>3. \A n : (\E i \in 1..Len(chain') : chain'[i] = n)
                 <=> (\E i \in 1..Len(chain) : chain[i] = n) \/ n = new_node
    <3>1. /\ Len(chain') = Len(chain) + 1
          /\ chain'[Len(chain) + 1] = new_node
          /\ \A i \in 1..Len(chain) : chain'[i] = chain[i]
      BY <1>a, <2>1, <2>2
    <3>2. 1..Len(chain') = 1..Len(chain) \cup {Len(chain) + 1}
      BY <1>a, <3>1
    <3> QED BY <3>1, <3>2
  <2> QED BY <1>a, <2>1, <2>3 DEF Held
<1> QED BY <1>1, <1>2, <1>3 DEF Push

LEMMA PopHeld ==
  ASSUME OneConsumer, IInv, NoLeak, NEW c \in Consumers, Pop(c)
  PROVE  \A n : n \in live' <=> Held(n)'
<1>a. /\ chain \in Seq(Nodes) /\ Len(chain) \in Nat /\ Len(chain) >= 1
      /\ \A n : n \in live <=> Held(n)
      /\ cpc \in [Consumers -> {"idle", "test", "advance", "take", "delete"}]
      /\ old_head \in [Consumers -> Nodes \cup {NoNode}]
  BY NoLeakHeld DEF IInv, QueueInv, ChainInv, TypeOK
<1>b. Consumers = {c}
  BY DEF OneConsumer
<1>h. \A n : Held(n) <=> \/ \E i \in 1..Len(chain) : chain[i] = n
                         \/ ppc # "idle" /\ n = new_node
                         \/ cpc[c] \in {"take", "delete"} /\ n = old_head[c]
  BY <1>b DEF Held
<1>p. \A n : Held(n)' <=>
        \/ \E i \in 1..Len(chain') : chain'[i] = n
        \/ ppc' # "idle" /\ n = new_node'
        \/ cpc'[c] \in {"take", "delete"} /\ n = old_head'[c]
  BY <1>b DEF Held
<1>1. CASE PopLoad(c) \/ PopTest(c) \/ PopTake(c)
  <2>1. /\ UNCHANGED <<live, chain, ppc, new_node>>
        /\ \/ cpc[c] \in {"idle", "test"} /\ cpc'[c] \in {"idle", "test", "advance"}
           \/ cpc[c] = "take" /\ cpc'[c] = "delete" /\ old_head' = old_head
    BY <1>a, <1>1 DEF PopLoad, PopTest, PopTake, producerVars
  <2> QED BY <1>a, <1>h, <1>p, <2>1
<1>2. CASE PopAdvance(c)
  <2>1. /\ cpc[c] = "advance" /\ cpc'[c] = "take"
        /\ UNCHANGED <<live, ppc, new_node, old_head>>
    BY <1>a, <1>2 DEF PopAdvance, producerVars
  <2>2. Len(chain) >= 2 /\ old_head[c] = chain[1]
    BY <2>1 DEF IInv, QueueInv, PopInv, ChainInv
  <2>3. chain' = Tail(chain)
    BY <1>2, <1>a, <2>2 DEF PopAdvance
  <2>4. \A n : (\E i \in 1..Len(chain) : chain[i] = n)
                 <=> (\E i \in 1..Len(chain') : chain'[i] = n) \/ n = chain[1]
    <3>1. /\ Len(chain') = Len(chain) - 1
          /\ \A i \in 1..Len(chain') : chain'[i] = chain[i + 1]
      BY <1>a, <2>2, <2>3
    <3>2. ASSUME NEW n, NEW i \in 1..Len(chain), chain[i] = n, i # 1
          PROVE  \E j \in 1..Len(chain') : chain'[j] = n
      <4>1. i - 1 \in 1..Len(chain') /\ (i - 1) + 1 = i
        BY <1>a, <3>1, <3>2
      <4>2. chain'[i - 1] = n
        BY <3>1, <3>2, <4>1
      <4> QED BY <4>1, <4>2
    <3>3. ASSUME NEW n, NEW j \in 1..Len(chain'), chain'[j] = n
          PROVE  \E i \in 1..Len(chain) : chain[i] = n
      <4>1. j + 1 \in 1..Len(chain) /\ chain[j + 1] = n
        BY <1>a, <3>1, <3>3
      <4> QED BY <4>1
    <3>4. 1 \in 1..Len(chain)
      BY <1>a
    <3> QED BY <3>2, <3>3, <3>4
  <2> QED BY <1>a, <1>h, <1>p, <2>1, <2>2, <2>4
<1>3. CASE PopDelete(c)
  <2>1. /\ cpc[c] = "delete" /\ cpc'[c] = "idle"
        /\ live' = live \ {old_head[c]}
        /\ UNCHANGED <<chain, ppc, new_node>>
    BY <1>a, <1>3 DEF PopDelete, producerVars
  <2>2. /\ \A i \in 1..Len(chain) : chain[i] # old_head[c]
        /\ ppc # "idle" => old_head[c] # new_node
    BY <2>1 DEF IInv, QueueInv, PopInv
  <2> QED BY <1>a, <1>h, <1>p, <2>1, <2>2
<1> QED BY <1>1, <1>2, <1>3 DEF Pop

\* With one consumer every node that is allocated is in the list, or is the
\* one the push has not published, or the one the pop is about to free.
THEOREM NothingLeaks ==
  ASSUME OneConsumer PROVE Spec => []NoLeak
<1>1. Init => NoLeak
  <2> SUFFICES ASSUME Init PROVE NoLeak
    OBVIOUS
  <2>1. PICK n \in Nodes : /\ live = {n} /\ ppc = "idle" /\ chain = <<n>>
                           /\ cpc = [c \in Consumers |-> "idle"]
    BY DEF Init
  <2>2. \A m : m \in live <=> Held(m)
    BY <2>1 DEF Held
  <2> QED BY <2>2, NoLeakHeld
<1>2. IInv /\ NoLeak /\ [Next]_vars => NoLeak'
  <2> SUFFICES ASSUME IInv, NoLeak, [Next]_vars PROVE NoLeak'
    OBVIOUS
  <2>1. CASE UNCHANGED vars
    BY <2>1 DEF NoLeak, vars, producerVars, consumerVars
  <2>2. CASE Next
    <3>1. \A n : n \in live' <=> Held(n)'
      BY <2>2, PushHeld, PopHeld DEF Next
    <3> QED BY <3>1 DEF NoLeak, Held
  <2> QED BY <2>1, <2>2
<1> QED BY InitIInv, StepIInv, <1>1, <1>2, PTL DEF Spec

-----------------------------------------------------------------------------
(***************************************************************************)
(* Refinement.  Queued and Popped are the mapping; a push maps to Enqueue  *)
(* at its last store, a pop to Dequeue at its store to m_head or, when it  *)
(* finds the queue empty, to FindEmpty; everything else maps to a stutter. *)
(***************************************************************************)

QueuedOK ==
  /\ Queued \in Seq(Packages) /\ Len(Queued) = Len(chain) - 1
  /\ \A i \in 1..(Len(chain) - 1) : Queued[i] = package[chain[i]]

LEMMA QueuedType == IInv => QueuedOK
<1> SUFFICES ASSUME IInv PROVE QueuedOK
  OBVIOUS
<1>1. Len(chain) - 1 \in Nat
  BY DEF IInv, QueueInv, ChainInv
<1>2. \A i \in 1..(Len(chain) - 1) : package[chain[i]] \in Packages
  BY DEF IInv, QueueInv, ChainInv
<1>3. Queued \in [1..(Len(chain) - 1) -> Packages]
  BY <1>1, <1>2 DEF Queued
<1>4. Queued \in Seq(Packages)
  BY <1>1, <1>3
<1>5. DOMAIN Queued = 1..Len(Queued) /\ Len(Queued) \in Nat
  BY <1>4
<1>6. Len(Queued) = Len(chain) - 1
  BY <1>1, <1>3, <1>5
<1> QED BY <1>4, <1>6 DEF Queued, QueuedOK

\* Two queues are the same when they have the same packages in order.
LEMMA SameQueue ==
  ASSUME NEW s \in Seq(Packages), NEW t \in Seq(Packages), Len(s) = Len(t),
         \A i \in 1..Len(s) : s[i] = t[i]
  PROVE  s = t
BY SeqEqual

LEMMA InitRefines == Init => F!FifoInit
<1> SUFFICES ASSUME Init PROVE F!FifoInit
  OBVIOUS
<1>1. IInv /\ Len(chain) = 1
  BY InitIInv DEF Init
<1>2. Queued = <<>>
  BY <1>1, QueuedType DEF QueuedOK
<1>3. Popped = [c \in Consumers |-> NoPackage]
  BY DEF Init, Popped
<1> QED BY <1>2, <1>3 DEF F!FifoInit

LEMMA PushRefines ==
  ASSUME IInv, IInv', Push
  PROVE  [F!FifoNext]_<<Queued, Popped>>
<1>a. /\ chain \in Seq(Nodes) /\ Len(chain) \in Nat /\ Len(chain) >= 1
      /\ \A i \in 1..Len(chain) : chain[i] \in Nodes
  BY DEF IInv, QueueInv, ChainInv
<1>b. /\ Queued \in Seq(Packages) /\ Len(Queued) = Len(chain) - 1
      /\ \A i \in 1..(Len(chain) - 1) : Queued[i] = package[chain[i]]
  BY QueuedType DEF QueuedOK
<1>c. /\ Queued' \in Seq(Packages) /\ Len(Queued') = Len(chain') - 1
      /\ \A i \in 1..(Len(chain') - 1) : Queued'[i] = package'[chain'[i]]
  <2>1. QueuedOK'
    BY QueuedType, PTL
  <2> QED BY <2>1 DEF QueuedOK
<1>1. CASE ~ PushPublish
  <2>1. chain' = chain /\ UNCHANGED consumerVars
    BY <1>1 DEF Push, PushNew, PushSwap, PushLink
  <2>2. \A i \in 1..(Len(chain) - 1) : package'[chain[i]] = package[chain[i]]
    <3>1. ASSUME NEW p \in Packages, PushNew(p)
          PROVE  \A i \in 1..(Len(chain) - 1) :
                   package'[chain[i]] = package[chain[i]]
      <4>1. PICK n \in Nodes \ live : package' = [package EXCEPT ![n] = NoPackage]
        BY <3>1 DEF PushNew
      <4> QED BY <1>a, <4>1 DEF IInv, QueueInv, ChainInv, TypeOK
    <3>2. CASE PushSwap
      BY <1>a, <3>2 DEF PushSwap, IInv, QueueInv, ChainInv, TypeOK
    <3>3. CASE PushLink
      BY <3>3 DEF PushLink
    <3> QED BY <1>1, <3>1, <3>2, <3>3 DEF Push
  <2>3. Queued' = Queued
    BY <1>a, <1>b, <1>c, <2>1, <2>2, SameQueue
  <2>4. Popped' = Popped
    <3>1. ASSUME NEW c \in Consumers, cpc[c] = "take"
          PROVE  package'[old_head[c]] = package[old_head[c]]
      <4>0. /\ old_head[c] \in live
            /\ \A i \in 1..Len(chain) : chain[i] # old_head[c]
        BY <3>1 DEF IInv, QueueInv, PopInv
      <4>1. ASSUME NEW p \in Packages, PushNew(p)
            PROVE  package'[old_head[c]] = package[old_head[c]]
        <5>1. PICK n \in Nodes \ live :
                package' = [package EXCEPT ![n] = NoPackage]
          BY <4>1 DEF PushNew
        <5> QED BY <4>0, <5>1 DEF IInv, TypeOK
      <4>2. CASE PushSwap
        BY <1>a, <4>0, <4>2 DEF PushSwap, IInv, QueueInv, ChainInv, TypeOK
      <4>3. CASE PushLink
        BY <4>3 DEF PushLink
      <4> QED BY <1>1, <4>1, <4>2, <4>3 DEF Push
    <3> QED BY <2>1, <3>1 DEF Popped, consumerVars
  <2> QED BY <2>3, <2>4
<1>2. CASE PushPublish
  <2>1. /\ ppc = "publish" /\ chain' = Append(chain, new_node)
        /\ UNCHANGED <<package, consumerVars>>
    BY <1>2 DEF PushPublish
  <2>2. new_node \in Nodes /\ new_data \in Packages
        /\ package[chain[Len(chain)]] = new_data
    BY <2>1 DEF IInv, QueueInv, PushInv, ChainInv, TypeOK
  <2>3. /\ Len(chain') = Len(chain) + 1
        /\ \A i \in 1..Len(chain) : chain'[i] = chain[i]
    BY <1>a, <2>1, <2>2
  <2>4. Queued' = Append(Queued, new_data)
    <3>1. /\ Append(Queued, new_data) \in Seq(Packages)
          /\ Len(Append(Queued, new_data)) = Len(chain)
          /\ \A i \in 1..(Len(chain) - 1) :
               Append(Queued, new_data)[i] = Queued[i]
          /\ Append(Queued, new_data)[Len(chain)] = new_data
      BY <1>a, <1>b, <2>2
    <3>2. Len(Queued') = Len(chain)
      BY <1>a, <1>c, <2>3
    <3>3. ASSUME NEW i \in 1..Len(chain)
          PROVE  Queued'[i] = Append(Queued, new_data)[i]
      <4>1. Queued'[i] = package[chain[i]]
        BY <1>a, <1>c, <2>1, <2>3
      <4>2. CASE i = Len(chain)
        BY <2>2, <3>1, <4>1, <4>2
      <4>3. CASE i # Len(chain)
        BY <1>a, <1>b, <3>1, <4>1, <4>3
      <4> QED BY <4>2, <4>3
    <3> QED BY <1>c, <3>1, <3>2, <3>3, SameQueue
  <2>5. Popped' = Popped
    BY <2>1 DEF Popped, consumerVars
  <2>6. F!Enqueue(new_data)
    BY <2>4, <2>5 DEF F!Enqueue
  <2> QED BY <2>2, <2>6 DEF F!FifoNext
<1> QED BY <1>1, <1>2

LEMMA PopRefines ==
  ASSUME OneConsumer, IInv, IInv', NEW c \in Consumers, Pop(c)
  PROVE  [F!FifoNext]_<<Queued, Popped>>
<1>a. /\ chain \in Seq(Nodes) /\ Len(chain) \in Nat /\ Len(chain) >= 1
      /\ \A i \in 1..Len(chain) : chain[i] \in Nodes
  BY DEF IInv, QueueInv, ChainInv
<1>b. /\ Queued \in Seq(Packages) /\ Len(Queued) = Len(chain) - 1
      /\ \A i \in 1..(Len(chain) - 1) : Queued[i] = package[chain[i]]
  BY QueuedType DEF QueuedOK
<1>c. /\ Queued' \in Seq(Packages) /\ Len(Queued') = Len(chain') - 1
      /\ \A i \in 1..(Len(chain') - 1) : Queued'[i] = package'[chain'[i]]
  <2>1. QueuedOK'
    BY QueuedType, PTL
  <2> QED BY <2>1 DEF QueuedOK
<1>d. cpc \in [Consumers -> {"idle", "test", "advance", "take", "delete"}]
      /\ old_head \in [Consumers -> Nodes \cup {NoNode}]
      /\ result \in [Consumers -> Packages \cup {NoPackage}]
  BY DEF IInv, TypeOK
<1>1. CASE PopLoad(c) \/ PopDelete(c)
  <2>1. Queued' = Queued
    BY <1>1 DEF PopLoad, PopDelete, Queued
  <2>2. Popped' = Popped
    BY <1>1, <1>d DEF PopLoad, PopDelete, Popped
  <2> QED BY <2>1, <2>2
<1>2. CASE PopTest(c)
  <2>1. Queued' = Queued
    BY <1>2 DEF PopTest, Queued
  <2>2. CASE old_head[c] = m_tail
    <3>1. chain[1] = chain[Len(chain)]
      BY <1>2, <2>2 DEF PopTest, IInv, QueueInv, PopInv, ChainInv
    <3>2. Len(chain) = 1
      <4>1. 1 \in 1..Len(chain) /\ Len(chain) \in 1..Len(chain)
        BY <1>a
      <4> QED BY <3>1, <4>1 DEF IInv, QueueInv, ChainInv
    <3>3. Queued = <<>>
      BY <1>b, <3>2
    <3>4. Popped' = [Popped EXCEPT ![c] = NoPackage]
      BY <1>2, <1>d, <2>2 DEF PopTest, Popped
    <3>5. F!FindEmpty(c)
      BY <2>1, <3>3, <3>4 DEF F!FindEmpty
    <3> QED BY <3>5 DEF F!FifoNext
  <2>3. CASE old_head[c] # m_tail
    <3>1. Popped' = Popped
      BY <1>2, <1>d, <2>3 DEF PopTest, Popped
    <3> QED BY <2>1, <3>1
  <2> QED BY <2>2, <2>3
<1>3. CASE PopAdvance(c)
  <2>1. /\ cpc[c] = "advance" /\ cpc' = [cpc EXCEPT ![c] = "take"]
        /\ UNCHANGED <<package, old_head, result>>
    BY <1>3 DEF PopAdvance
  <2>2. Len(chain) >= 2 /\ old_head[c] = chain[1]
    BY <2>1 DEF IInv, QueueInv, PopInv, ChainInv
  <2>3. /\ Len(chain') = Len(chain) - 1
        /\ \A i \in 1..Len(chain') : chain'[i] = chain[i + 1]
    <3>1. chain' = Tail(chain)
      BY <1>3, <1>a, <2>2 DEF PopAdvance
    <3> QED BY <1>a, <2>2, <3>1
  <2>4. Queued # <<>> /\ Head(Queued) = package[old_head[c]]
    BY <1>a, <1>b, <2>2
  <2>5. Queued' = Tail(Queued)
    <3>1. /\ Tail(Queued) \in Seq(Packages)
          /\ Len(Tail(Queued)) = Len(chain) - 2
          /\ \A i \in 1..(Len(chain) - 2) : Tail(Queued)[i] = Queued[i + 1]
      BY <1>a, <1>b, <2>2
    <3>2. Len(Queued') = Len(chain) - 2
      BY <1>a, <1>c, <2>3
    <3>3. ASSUME NEW i \in 1..(Len(chain) - 2)
          PROVE  Queued'[i] = Tail(Queued)[i]
      <4>1. Queued'[i] = package[chain[i + 1]]
        <5>1. i \in 1..(Len(chain') - 1) /\ i \in 1..Len(chain')
          BY <1>a, <2>3
        <5> QED BY <1>c, <2>1, <2>3, <5>1
      <4>2. Queued[i + 1] = package[chain[i + 1]]
        BY <1>a, <1>b
      <4> QED BY <3>1, <4>1, <4>2
    <3> QED BY <1>c, <3>1, <3>2, <3>3, SameQueue
  <2>6. Popped' = [Popped EXCEPT ![c] = Head(Queued)]
    BY <1>d, <2>1, <2>4 DEF Popped
  <2>7. F!Dequeue(c)
    BY <2>4, <2>5, <2>6 DEF F!Dequeue
  <2> QED BY <2>7 DEF F!FifoNext
<1>4. CASE PopTake(c)
  <2>1. Queued' = Queued
    BY <1>4 DEF PopTake, Queued
  <2>2. Popped' = Popped
    BY <1>4, <1>d DEF PopTake, Popped
  <2> QED BY <2>1, <2>2
<1> QED BY <1>1, <1>2, <1>3, <1>4 DEF Pop

\* With one consumer the queue delivers every package once and in the order
\* of the pushes, and a pop that returns nothing found it empty.
THEOREM RefinesFifo ==
  ASSUME OneConsumer PROVE Spec => ImplementsFifo
<1>1. IInv /\ IInv' /\ [Next]_vars => [F!FifoNext]_<<Queued, Popped>>
  <2> SUFFICES ASSUME IInv, IInv', [Next]_vars
               PROVE  [F!FifoNext]_<<Queued, Popped>>
    OBVIOUS
  <2>1. CASE UNCHANGED vars
    BY <2>1 DEF vars, consumerVars, Queued, Popped
  <2> QED BY <2>1, PushRefines, PopRefines DEF Next
<1> QED
  BY InitIInv, StepIInv, InitRefines, <1>1, PTL
     DEF Spec, ImplementsFifo, F!FifoSpec, F!fifoVars
=============================================================================
