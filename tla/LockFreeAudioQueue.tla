------------------------- MODULE LockFreeAudioQueue -------------------------
(***************************************************************************)
(* The linked list that carries audio packages from the thread that reads  *)
(* the network to the sound card's callback                                *)
(* (src/src/client/av/lock_free_audio_queue.cpp).                          *)
(*                                                                         *)
(* m_head and m_tail are atomics, the nodes are plain memory.  The node at *)
(* m_tail is a dummy that the next push fills; the queue is empty when     *)
(* m_head equals m_tail.  Every load, store and access of a node is a step *)
(* of its thread.  Nodes is the heap the nodes are allocated from: a freed *)
(* node may be handed out by the next push.                                *)
(***************************************************************************)
EXTENDS Naturals, Sequences

CONSTANTS Nodes,      \* addresses a Node can have; bounds the queue's length
          Packages,   \* audio packages
          Consumers,  \* the threads that pop
          NoNode,     \* nullptr
          NoPackage   \* the empty shared_ptr

ASSUME NodesAssumption == NoNode \notin Nodes /\ Nodes # {}
ASSUME PackagesAssumption == NoPackage \notin Packages

VARIABLES package,  \* Node::m_audio_package
          next,     \* Node::m_next
          live,     \* the nodes that are allocated
          m_head,
          m_tail,
          ppc,      \* where the producer is in push
          new_node, \* push: the node it allocated
          new_data, \* push: the package it was given
          cpc,      \* where each consumer is in pop
          old_head, \* pop: the head it loaded
          result,   \* what the last pop returned
          chain     \* history: the nodes from m_head to m_tail, in order

producerVars == <<ppc, new_node, new_data>>
consumerVars == <<cpc, old_head, result>>
vars == <<package, next, live, m_head, m_tail, producerVars, consumerVars,
          chain>>

TypeOK ==
  /\ package \in [Nodes -> Packages \cup {NoPackage}]
  /\ next \in [Nodes -> Nodes \cup {NoNode}]
  /\ live \in SUBSET Nodes
  /\ m_head \in Nodes \cup {NoNode}
  /\ m_tail \in Nodes
  /\ ppc \in {"idle", "swap", "link", "publish"}
  /\ new_node \in Nodes \cup {NoNode}
  /\ new_data \in Packages \cup {NoPackage}
  /\ cpc \in [Consumers -> {"idle", "test", "advance", "take", "delete"}]
  /\ old_head \in [Consumers -> Nodes \cup {NoNode}]
  /\ result \in [Consumers -> Packages \cup {NoPackage}]
  /\ chain \in Seq(Nodes)

Init ==
  \E n \in Nodes :
    /\ package = [m \in Nodes |-> NoPackage]
    /\ next = [m \in Nodes |-> NoNode]
    /\ live = {n}
    /\ m_head = n
    /\ m_tail = n
    /\ ppc = "idle"
    /\ new_node = NoNode
    /\ new_data = NoPackage
    /\ cpc = [c \in Consumers |-> "idle"]
    /\ old_head = [c \in Consumers |-> NoNode]
    /\ result = [c \in Consumers |-> NoPackage]
    /\ chain = <<n>>

-----------------------------------------------------------------------------
(***************************************************************************)
(* push.  One thread pushes, so m_tail does not change between its load    *)
(* and the stores that follow.                                             *)
(***************************************************************************)

\* make_shared, new Node and the load of m_tail.
PushNew(p) ==
  /\ ppc = "idle"
  /\ \E n \in Nodes \ live :
       /\ live' = live \cup {n}
       /\ new_node' = n
       /\ package' = [package EXCEPT ![n] = NoPackage]
       /\ next' = [next EXCEPT ![n] = NoNode]
  /\ new_data' = p
  /\ ppc' = "swap"
  /\ UNCHANGED <<m_head, m_tail, consumerVars, chain>>

\* Mutant: the package goes into the new dummy instead of the old one.
PushSwap_new_node ==
  /\ ppc = "swap"
  /\ package' = [package EXCEPT ![new_node] = new_data]
  /\ ppc' = "link"
  /\ UNCHANGED <<next, live, m_head, m_tail, new_node, new_data, consumerVars,
                 chain>>

\* old_tail->m_audio_package.swap(new_data).
PushSwap ==
  /\ ppc = "swap"
  /\ package' = [package EXCEPT ![m_tail] = new_data]
  /\ ppc' = "link"
  /\ UNCHANGED <<next, live, m_head, m_tail, new_node, new_data, consumerVars,
                 chain>>

\* Mutant: the old dummy is not linked to the new one.
PushLink_unlinked ==
  /\ ppc = "link"
  /\ ppc' = "publish"
  /\ UNCHANGED <<package, next, live, m_head, m_tail, new_node, new_data,
                 consumerVars, chain>>

\* old_tail->m_next = new_node.
PushLink ==
  /\ ppc = "link"
  /\ next' = [next EXCEPT ![m_tail] = new_node]
  /\ ppc' = "publish"
  /\ UNCHANGED <<package, live, m_head, m_tail, new_node, new_data,
                 consumerVars, chain>>

\* m_tail.store(new_node): from here on the package can be popped.
PushPublish ==
  /\ ppc = "publish"
  /\ m_tail' = new_node
  /\ chain' = Append(chain, new_node)
  /\ ppc' = "idle"
  /\ new_node' = NoNode
  /\ new_data' = NoPackage
  /\ UNCHANGED <<package, next, live, m_head, consumerVars>>

Push == (\E p \in Packages : PushNew(p)) \/ PushSwap \/ PushLink \/ PushPublish

-----------------------------------------------------------------------------
(***************************************************************************)
(* pop and pop_head.                                                       *)
(***************************************************************************)

\* Node *const old_head = m_head.load().
PopLoad(c) ==
  /\ cpc[c] = "idle"
  /\ old_head' = [old_head EXCEPT ![c] = m_head]
  /\ cpc' = [cpc EXCEPT ![c] = "test"]
  /\ UNCHANGED <<package, next, live, m_head, m_tail, producerVars, result,
                 chain>>

\* old_head == m_tail.load(): empty, and pop returns {}.
PopTest(c) ==
  /\ cpc[c] = "test"
  /\ \/ /\ old_head[c] = m_tail
        /\ cpc' = [cpc EXCEPT ![c] = "idle"]
        /\ old_head' = [old_head EXCEPT ![c] = NoNode]
        /\ result' = [result EXCEPT ![c] = NoPackage]
     \/ /\ old_head[c] # m_tail
        /\ cpc' = [cpc EXCEPT ![c] = "advance"]
        /\ UNCHANGED <<old_head, result>>
  /\ UNCHANGED <<package, next, live, m_head, m_tail, producerVars, chain>>

\* m_head.store(old_head->m_next).
PopAdvance(c) ==
  /\ cpc[c] = "advance"
  /\ m_head' = next[old_head[c]]
  /\ chain' = IF Len(chain) > 1 THEN Tail(chain) ELSE chain
  /\ cpc' = [cpc EXCEPT ![c] = "take"]
  /\ UNCHANGED <<package, next, live, m_tail, producerVars, old_head, result>>

\* The copy of old_head->m_audio_package.
PopTake(c) ==
  /\ cpc[c] = "take"
  /\ result' = [result EXCEPT ![c] = package[old_head[c]]]
  /\ cpc' = [cpc EXCEPT ![c] = "delete"]
  /\ UNCHANGED <<package, next, live, m_head, m_tail, producerVars, old_head,
                 chain>>

\* Mutant: the node is not freed.
PopDelete_keep(c) ==
  /\ cpc[c] = "delete"
  /\ cpc' = [cpc EXCEPT ![c] = "idle"]
  /\ old_head' = [old_head EXCEPT ![c] = NoNode]
  /\ UNCHANGED <<package, next, live, m_head, m_tail, producerVars, result,
                 chain>>

\* delete old_head.
PopDelete(c) ==
  /\ cpc[c] = "delete"
  /\ live' = live \ {old_head[c]}
  /\ cpc' = [cpc EXCEPT ![c] = "idle"]
  /\ old_head' = [old_head EXCEPT ![c] = NoNode]
  /\ UNCHANGED <<package, next, m_head, m_tail, producerVars, result, chain>>

Pop(c) == \/ PopLoad(c) \/ PopTest(c) \/ PopAdvance(c)
          \/ PopTake(c) \/ PopDelete(c)

Next == Push \/ \E c \in Consumers : Pop(c)

Spec == Init /\ [][Next]_vars

-----------------------------------------------------------------------------
(***************************************************************************)
(* Properties.                                                             *)
(***************************************************************************)

\* No thread touches freed memory: the two ends, the dummy a push writes to
\* and the node a pop is at are allocated, and m_head never becomes null.
NodesAlive ==
  /\ {m_head, m_tail} \subseteq live
  /\ \A c \in Consumers :
       cpc[c] \in {"advance", "take", "delete"} => old_head[c] \in live

\* No node leaks: what is allocated is in the list, is about to be appended
\* to it, or is about to be deleted by a consumer.
NoLeak ==
  live = {chain[i] : i \in 1..Len(chain)}
           \cup {n \in {new_node} : ppc # "idle"}
           \cup {old_head[c] : c \in {d \in Consumers :
                                        cpc[d] \in {"take", "delete"}}}

\* The queue implements Fifo.  A push takes effect at the store to m_tail, a
\* pop at the store to m_head, when the package it will return is fixed.
Queued == [i \in 1..(Len(chain) - 1) |-> package[chain[i]]]
Popped == [c \in Consumers |-> IF cpc[c] = "take" THEN package[old_head[c]]
                                                  ELSE result[c]]

F == INSTANCE Fifo WITH queue <- Queued, got <- Popped

ImplementsFifo == F!FifoSpec

\* The strengthening of NodesAlive for one consumer: chain is the linked list
\* from m_head to m_tail, without repetition; a push under way has filled the
\* dummy and linked it as far as ppc says; a pop under way holds the head, and
\* from its store on a node that nobody else reaches.
ChainInv ==
  /\ chain \in Seq(Nodes) /\ Len(chain) >= 1
  /\ m_head = chain[1] /\ m_tail = chain[Len(chain)]
  /\ \A i, j \in 1..Len(chain) : chain[i] = chain[j] => i = j
  /\ \A i \in 1..Len(chain) : chain[i] \in live
  /\ \A i \in 1..(Len(chain) - 1) : /\ next[chain[i]] = chain[i + 1]
                                    /\ package[chain[i]] \in Packages

PushInv ==
  /\ ppc # "idle" => /\ new_node \in live /\ new_data \in Packages
                     /\ \A i \in 1..Len(chain) : chain[i] # new_node
  /\ ppc \in {"link", "publish"} => package[m_tail] = new_data
  /\ ppc = "publish" => next[m_tail] = new_node

PopInv ==
  \A c \in Consumers :
    /\ cpc[c] \in {"test", "advance"} => old_head[c] = m_head
    /\ cpc[c] = "advance" => Len(chain) >= 2
    /\ cpc[c] \in {"take", "delete"} =>
         /\ old_head[c] \in live
         /\ \A i \in 1..Len(chain) : chain[i] # old_head[c]
         /\ ppc # "idle" => old_head[c] # new_node
         /\ package[old_head[c]] \in Packages

QueueInv == ChainInv /\ PushInv /\ PopInv
=============================================================================
