----------------------------- MODULE OutputQueue -----------------------------
(***************************************************************************)
(* One canister output queue over the rounds of its subnet                 *)
(*   rs/replicated_state/src/canister_state/queues/queue.rs                *)
(*                                                                         *)
(* Every round starts by timing out requests at the batch time             *)
(* (messaging/src/state_machine.rs); until the next round the canister     *)
(* pushes requests and responses and routing pops messages.  Checkpoints   *)
(* reload the queue from its serialized form.                              *)
(***************************************************************************)
EXTENDS QueueOps

CONSTANTS
  REQUEST_LIFETIME, \* a request times out this long after it was pushed
  MaxTime,          \* bound on the batch time
  MaxIndex          \* bound on the absolute index of queue items

ASSUME OutputQueueAssumption ==
  /\ REQUEST_LIFETIME \in Nat \ {0}
  /\ MaxTime \in Nat
  /\ MaxIndex \in Nat

VARIABLES
  q,   \* the OutputQueue
  now  \* batch time of the current round

vars == <<q, now>>

\* due is not in the code: it records the deadline a request was pushed with,
\* which the code only keeps per range.
Request(due) == [kind |-> "Request", due |-> due]
Response == [kind |-> "Response"]

Messages == [kind : {"Request"}, due : Nat] \cup [kind : {"Response"}]

ASSUME NoneAssumption == None \notin Messages

QueueType ==
  [queue : Seq(Messages \cup {None}),
   num_slots_reserved : Nat,
   begin : Nat,
   deadline_range_ends : Seq([deadline : Nat, end : Nat]),
   timeout_index : Nat,
   num_messages : Nat]

Init ==
  /\ q = NewOutputQueue
  /\ now = 0

(***************************************************************************)
(* The canister executes.                                                  *)
(***************************************************************************)
PushOutputRequest ==
  /\ QueueEnd(q) < MaxIndex
  /\ CheckHasSlot(q)
  /\ q' = PushRequest(q, Request(now + REQUEST_LIFETIME), now + REQUEST_LIFETIME)
  /\ UNCHANGED now

\* An incoming request reserves the slot of its response.
Reserve ==
  /\ CheckHasSlot(q)
  /\ q' = ReserveSlot(q)
  /\ UNCHANGED now

\* Fault: pushes a response without a reservation.
PushOutputResponse_Unreserved ==
  /\ QueueEnd(q) < MaxIndex
  /\ q' = PushResponse(q, Response)
  /\ UNCHANGED now

PushOutputResponse ==
  /\ QueueEnd(q) < MaxIndex
  /\ HasReservedSlot(q)
  /\ q' = PushResponse(q, Response)
  /\ UNCHANGED now

(***************************************************************************)
(* Message routing takes the message at the front.                         *)
(***************************************************************************)
Pop ==
  /\ q.queue # <<>>
  /\ q' = PopOutputQueue(q)
  /\ UNCHANGED now

(***************************************************************************)
(* A round begins: batch times never decrease.                             *)
(***************************************************************************)
StartRound ==
  \E time \in now .. MaxTime :
    /\ now' = time
    /\ q' = TimeOutRequests(q, time)

\* The replica restarts (or syncs) from a checkpoint: the queue is decoded,
\* which fails unless the size check and the invariants hold.
Restart ==
  /\ CheckSize(q)
  /\ TestInvariants(Reload(q))
  /\ q' = Reload(q)
  /\ UNCHANGED now

Next ==
  \/ PushOutputRequest
  \/ Reserve
  \/ PushOutputResponse
  \/ Pop
  \/ StartRound
  \/ Restart

Spec == Init /\ [][Next]_vars

-----------------------------------------------------------------------------

\* The fields of the queue have their types, tombstones being items, and
\* batch time is a natural number.
TypeOK ==
  /\ now \in Nat
  /\ q \in QueueType

\* What check_invariants() asserts after every mutation, and what decoding
\* insists on: message at the front, deadline ranges sorted and inside the
\* queue, nothing left to time out before timeout_index, num_messages exact.
\* Together with the capacity check it is why decoding a checkpoint succeeds.
QueueInvariants == TestInvariants(q) /\ CheckSize(q)

DeadlinesMatch(queue) ==
  LET r == queue.deadline_range_ends
  IN  \A k \in Indices(queue) :
        LET item == Item(queue, k)
        IN  IsRequest(item) =>
              /\ \E j \in 1 .. Len(r) : k < r[j].end /\ r[j].deadline <= item.due
              /\ \A j \in 1 .. Len(r) : k < r[j].end => item.due <= r[j].deadline

\* The ranges say of every queued request when it is due: the first range that
\* ends after it has its deadline, although a push may only move the end of the
\* last range, and popping and timing out discard ranges.
RangesMatchDeadlines == DeadlinesMatch(q)

\* The deadline ranges may summarize many requests, but no request outlives
\* its own deadline: once a round has timed out requests at `now`, every
\* request still queued is due strictly later.
NoOverdueRequest ==
  \A k \in Indices(q) : IsRequest(Item(q, k)) => Item(q, k).due > now

\* Timing out drops exactly the requests that are due: later requests and all
\* responses keep their absolute index, and so their order; Pop removes the
\* front message alone.
DropsOnlyDueRequests ==
  [][\A k \in Live(q) :
       \/ k \in Live(q') /\ Item(q', k) = Item(q, k)
       \/ IsRequest(Item(q, k)) /\ Item(q, k).due <= now'
       \/ k = q.begin /\ Pop]_vars
=============================================================================
