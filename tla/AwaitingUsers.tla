--------------------------- MODULE AwaitingUsers ---------------------------
(***************************************************************************)
(* The server's table of call requests (src/src/shared/user_awaiting.cpp). *)
(*                                                                         *)
(* AwaitingUsers keeps a map from a caller's id to its request, and beside *)
(* it a std::vector m_timeouts of <<id, status>> pairs which a detached    *)
(* worker thread walks every two seconds: a pair it finds Detached kills   *)
(* the request, any other pair is turned into Detached and the caller's    *)
(* next PING is expected to turn it back into Pinged.                      *)
(*                                                                         *)
(* The worker walks the vector with a range-for whose end is read once,    *)
(* erases from the vector inside that loop, and shares it without a lock   *)
(* with the UDP thread that appends to it.  What the loop reads therefore  *)
(* depends on the vector's memory, which is why the vector is modelled as  *)
(* its allocated block: slots[1..cap], of which slots[1..size] are live.   *)
(* An erase shifts the live pairs down and leaves the old last pair in the *)
(* slot that is no longer live; an append that outgrows the block moves    *)
(* the pairs to a new one and leaves a running walk in freed memory        *)
(* (dangling), where it may read anything.                                 *)
(***************************************************************************)
EXTENDS Integers

CONSTANTS Users,    \* the ids of the registered users
          Hosts,    \* the public IP addresses a client may send from
          NoUser    \* no user's id: an empty address, or a garbage id

ASSUME NoUserAssumption == NoUser \notin Users

VARIABLES awaiting, \* m_awaiting_users: caller -> request or NoRequest
          slots,    \* the memory block of m_timeouts
          cap,      \* m_timeouts.capacity()
          size,     \* m_timeouts.size()
          wpc,      \* where the timeout worker is in timeout_loop
          it,       \* the slot the range-for is at
          end,      \* the end of the range-for, read when the walk started
          dangling  \* the block the walk runs over has been freed

tableVars  == <<awaiting, slots, cap, size>>
workerVars == <<wpc, it, end, dangling>>

Status == {"Created", "Pinged", "Detached"}

\* peer_id is what the constructor stores; host is the IP of m_address; peer
\* and peer_host are who accepted and from which IP (m_peer_address).
Request == [peer_id : Users, host : Hosts,
            peer : Users \cup {NoUser}, peer_host : Hosts \cup {NoUser}]

NoRequest == [peer_id |-> NoUser, host |-> NoUser,
              peer |-> NoUser, peer_host |-> NoUser]

Entry == [id : Users \cup {NoUser}, status : Status]

\* A slot that was allocated and never written.
Blank == [id |-> NoUser, status |-> "Created"]

TableTypeOK ==
  /\ awaiting \in [Users -> Request \cup {NoRequest}]
  /\ cap \in Nat
  /\ size \in 0..cap
  /\ slots \in [1..cap -> Entry]

WorkerTypeOK ==
  /\ wpc \in {"sleep", "visit", "destroy", "erase", "update"}
  /\ it \in Nat
  /\ end \in Nat
  /\ dangling \in BOOLEAN

-----------------------------------------------------------------------------
\* AwaitingUser: the request that CONNECT builds.  The constructor that takes
\* a local address initialises m_peer_id with user_id.
AwaitingUser(user_id, peer_id, host) ==
  [peer_id |-> user_id, host |-> host, peer |-> NoUser, peer_host |-> NoUser]

\* has_same_address: both ends sent from the same public IP.
has_same_address(r) == r.peer_host = r.host

address_type(r) == IF has_same_address(r) THEN "LOCAL" ELSE "WEB"

\* set_peer_address and set_peer_local_address, as ACCEPT calls them.
set_peer(r, peer, host) == [r EXCEPT !.peer = peer, !.peer_host = host]

exists(id) == id \in Users /\ awaiting[id] # NoRequest

-----------------------------------------------------------------------------
\* std::vector: growth doubles the block, starting from one slot.
Grown == IF cap = 0 THEN 1 ELSE 2 * cap

\* Mutant: an append that trusts the capacity.
emplace_back_unchecked(id) ==
  /\ size' = size + 1
  /\ slots' = [slots EXCEPT ![size + 1] = [id |-> id, status |-> "Created"]]
  /\ UNCHANGED <<cap, dangling>>

\* m_timeouts.emplace_back(id, Created).
emplace_back(id) ==
  LET pair == [id |-> id, status |-> "Created"]
  IN  /\ size' = size + 1
      /\ \/ /\ size < cap
            /\ slots' = [slots EXCEPT ![size + 1] = pair]
            /\ UNCHANGED <<cap, dangling>>
         \/ /\ size = cap
            /\ cap' = Grown
            /\ slots' = [i \in 1..Grown |-> IF i <= size THEN slots[i]
                                            ELSE IF i = size + 1 THEN pair
                                            ELSE Blank]
            /\ dangling' = (wpc # "sleep")

\* m_timeouts.erase(m_timeouts.begin() + index): index is never advanced, so
\* it is the first pair that goes, whichever pair the walk is looking at.
erase_first ==
  /\ size' = size - 1
  /\ slots' = [i \in 1..cap |-> IF i < size THEN slots[i + 1] ELSE slots[i]]
  /\ UNCHANGED cap

\* update_timeout_status: every live pair of the user gets the new status.
update_timeout_status(id, status) ==
  /\ slots' = [i \in 1..cap |-> IF i <= size /\ slots[i].id = id
                                THEN [slots[i] EXCEPT !.status = status]
                                ELSE slots[i]]
  /\ UNCHANGED <<size, cap>>

\* insert, for a caller that has no request: the request and its timeout.
insert(id, request) ==
  /\ ~ exists(id)
  /\ awaiting' = [awaiting EXCEPT ![id] = request]
  /\ emplace_back(id)

\* destroy removes the request only: the pairs in m_timeouts stay.
destroy(id) == awaiting' = [awaiting EXCEPT ![id] = NoRequest]

-----------------------------------------------------------------------------
(***************************************************************************)
(* timeout_loop, one step per thing another thread can get in between.     *)
(***************************************************************************)

\* What the references user_id and timeout_status of the walk denote.
SeenStatus == IF dangling THEN Status ELSE {slots[it].status}
SeenId     == IF dangling THEN Users \cup {NoUser} ELSE {slots[it].id}

\* Mutant: a walk over one pair too many.
WorkerWake_past_end ==
  /\ wpc = "sleep"
  /\ size > 0
  /\ wpc' = "visit"
  /\ it' = 1
  /\ end' = size + 1
  /\ dangling' = FALSE
  /\ UNCHANGED tableVars

\* The worker wakes up and starts to walk a vector that is not empty.
WorkerWake ==
  /\ wpc = "sleep"
  /\ size > 0
  /\ wpc' = "visit"
  /\ it' = 1
  /\ end' = size
  /\ dangling' = FALSE
  /\ UNCHANGED tableVars

\* The test timeout_status == Detached.
WorkerVisit ==
  /\ wpc = "visit"
  /\ it <= end
  /\ \E status \in SeenStatus :
       wpc' = IF status = "Detached" THEN "destroy" ELSE "update"
  /\ UNCHANGED <<tableVars, it, end, dangling>>

\* destroy(user_id), which holds m_mutex; nothing when no request is there.
WorkerDestroy ==
  /\ wpc = "destroy"
  /\ wpc' = "erase"
  /\ \E id \in SeenId :
       IF exists(id) THEN destroy(id) ELSE UNCHANGED awaiting
  /\ UNCHANGED <<slots, cap, size, it, end, dangling>>

\* Mutant: the walk looks at the same slot again after an erase.
WorkerErase_stay ==
  /\ wpc = "erase"
  /\ erase_first
  /\ wpc' = "visit"
  /\ UNCHANGED <<awaiting, it, end, dangling>>

\* m_timeouts.erase(m_timeouts.begin() + index) and the next iteration.
WorkerErase ==
  /\ wpc = "erase"
  /\ erase_first
  /\ wpc' = "visit"
  /\ it' = it + 1
  /\ UNCHANGED <<awaiting, end, dangling>>

\* Mutant: the walk leaves the status of a request alone.
WorkerUpdate_keep ==
  /\ wpc = "update"
  /\ wpc' = "visit"
  /\ it' = it + 1
  /\ UNCHANGED <<tableVars, end, dangling>>

\* update_timeout_status(user_id, Detached) and the next iteration.
WorkerUpdate ==
  /\ wpc = "update"
  /\ \E id \in SeenId : update_timeout_status(id, "Detached")
  /\ wpc' = "visit"
  /\ it' = it + 1
  /\ UNCHANGED <<awaiting, end, dangling>>

\* The walk is over; the worker sleeps.
WorkerSleep ==
  /\ wpc = "visit"
  /\ it > end
  /\ wpc' = "sleep"
  /\ it' = 0
  /\ end' = 0
  /\ dangling' = FALSE
  /\ UNCHANGED tableVars

Worker == \/ WorkerWake \/ WorkerVisit \/ WorkerDestroy
          \/ WorkerErase \/ WorkerUpdate \/ WorkerSleep

TableInit ==
  /\ awaiting = [u \in Users |-> NoRequest]
  /\ slots = [i \in 1..0 |-> Blank]
  /\ cap = 0
  /\ size = 0
  /\ wpc = "sleep"
  /\ it = 0
  /\ end = 0
  /\ dangling = FALSE
=============================================================================
