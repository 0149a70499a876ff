---------------------------- MODULE CanisterQueues ----------------------------
(***************************************************************************)
(* The message queues of one canister                                      *)
(*   rs/replicated_state/src/canister_state/queues.rs                      *)
(*                                                                         *)
(* A pair of an input and an output queue per peer, created on demand and  *)
(* garbage collected when both are empty; two schedules that serve senders *)
(* round robin (local and remote ones); an ingress queue; running          *)
(* statistics.  A request pushed into one queue of a pair reserves, in the *)
(* other one, the slot of its response.                                    *)
(*                                                                         *)
(* The structure is the record cq.  The other variables are what surrounds *)
(* it: the canister's own unfinished calls, the calls it has sent out, the *)
(* subnet's loopback stream and the set of canisters hosted by the subnet. *)
(***************************************************************************)
EXTENDS QueueOps, FiniteSetsExt, SequencesExt

CONSTANTS
  Own,                      \* the canister that has these queues
  Peers,                    \* ids of other canisters and of subnets
  Locals,                   \* the peers that the subnet hosts initially
  OwnSubnet,                \* the id of the subnet itself, it too can be a peer
  IC_00,                    \* the management canister's id
  Callees,                  \* whom the canister calls
  Payloads,                 \* [bytes, cycles] of the messages
  Unstable,                 \* whether the canister may be uninstalled, stopped and started
  MAX_RESPONSE_COUNT_BYTES, \* what a reserved slot accounts for
  REJECT_BYTES,             \* size of a reject response
  EMPTY_QUEUE_BYTES,        \* size of an empty input queue
  REQUEST_LIFETIME,
  MaxTime,                  \* bound on batch time
  MaxIndex,                 \* bound on the absolute indices of output queues
  MaxIngress                \* bound on the ingress messages in the queue

ASSUME CanisterQueuesAssumption ==
  /\ Own \notin Peers
  /\ Locals \subseteq Peers
  /\ OwnSubnet \notin Locals \cup {Own}
  /\ IC_00 \notin Locals \cup {Own, OwnSubnet}
  /\ Callees \subseteq (Peers \cup {Own}) \ {IC_00}
  /\ Payloads \subseteq [bytes : Nat, cycles : Nat]
  /\ Unstable \in BOOLEAN
  /\ {MAX_RESPONSE_COUNT_BYTES, REJECT_BYTES, EMPTY_QUEUE_BYTES} \subseteq Nat
  /\ REQUEST_LIFETIME \in Nat \ {0}
  /\ {MaxTime, MaxIndex, MaxIngress} \subseteq Nat

VARIABLES
  cq,       \* CanisterQueues
  now,      \* batch time
  locals,   \* peers in canister_states
  owed,     \* requests of each peer the canister has popped, not yet answered
  awaiting, \* requests to each peer that left the output queue, with no response let in
  loopback, \* the canister's messages to itself that are in the subnet's stream
  forgotten, \* peers called before the canister was uninstalled and stopped
  dropped   \* of awaiting, the requests whose response came and was refused

vars == <<cq, now, locals, owed, awaiting, loopback, forgotten, dropped>>

Canisters == Peers \cup {Own}

MessageType == [kind : {"Request", "Response"}, payload : [bytes : Nat, cycles : Nat]]

ASSUME TombstoneAssumption == None \notin MessageType

Request(p) == [kind |-> "Request", payload |-> p]
Response(p) == [kind |-> "Response", payload |-> p]

\* Requests may be larger than the slot reserved for their response.
ResponsePayloads == {p \in Payloads : p.bytes <= MAX_RESPONSE_COUNT_BYTES}

\* Fault: the payment is lost.
RejectOf_NoRefund(request) == Response([bytes |-> REJECT_BYTES, cycles |-> 0])

\* A reject response refunds the payment of the request.
RejectOf(request) ==
  Response([bytes |-> REJECT_BYTES, cycles |-> request.payload.cycles])

(***************************************************************************)
(* Statistics: deltas of one message, and computation from scratch.        *)
(***************************************************************************)
Plus(a, b) == [f \in DOMAIN a |-> a[f] + b[f]]
Minus(a, b) == [f \in DOMAIN a |-> a[f] - b[f]]

Bytes(msg) == msg.payload.bytes
Cycles(msg) == msg.payload.cycles

OversizedBytes(msg) ==
  IF IsRequest(msg) /\ Bytes(msg) > MAX_RESPONSE_COUNT_BYTES
    THEN Bytes(msg) - MAX_RESPONSE_COUNT_BYTES
    ELSE 0

InputQueuesStatsDelta(op, msg) ==
  [message_count  |-> 1,
   response_count |-> IF IsResponse(msg) THEN 1 ELSE 0,
   reserved_slots |-> IF op = "Push" /\ IsResponse(msg) THEN -1 ELSE 0,
   size_bytes     |-> Bytes(msg),
   cycles         |-> Cycles(msg)]

OutputQueuesStatsDelta(msg) == [message_count |-> 1, cycles |-> Cycles(msg)]

\* Fault: popping a request gives its reservation back.
MemoryUsageStatsDelta_PopReleases(op, msg) ==
  [responses_size_bytes |-> IF IsResponse(msg) THEN Bytes(msg) ELSE 0,
   reserved_slots       |-> IF IsRequest(msg) THEN 1 ELSE IF op = "Push" THEN -1 ELSE 0,
   oversized_bytes      |-> OversizedBytes(msg)]

MemoryUsageStatsDelta(op, msg) ==
  [responses_size_bytes |-> IF IsResponse(msg) THEN Bytes(msg) ELSE 0,
   reserved_slots       |-> CASE op = "Pop" -> 0
                              [] op = "Push" /\ IsRequest(msg) -> 1
                              [] op = "Push" /\ IsResponse(msg) -> -1,
   oversized_bytes      |-> OversizedBytes(msg)]

\* Sum of stat over the messages of a queue, tombstones not counted.
StatSum(stat(_), queue) ==
  SumFunction([i \in DOMAIN queue |-> IF queue[i] = None THEN 0 ELSE stat(queue[i])])

CalculateInputQueuesStats(queues) ==
  LET Sum(f(_)) == SumFunction([id \in DOMAIN queues |-> f(queues[id].inq)])
  IN  [message_count  |-> Sum(LAMBDA q : Len(q.queue)),
       response_count |-> Sum(LAMBDA q : StatSum(LAMBDA m : IF IsResponse(m) THEN 1 ELSE 0,
                                                 q.queue)),
       reserved_slots |-> Sum(LAMBDA q : q.num_slots_reserved),
       size_bytes     |-> Sum(LAMBDA q : EMPTY_QUEUE_BYTES + StatSum(Bytes, q.queue)),
       cycles         |-> Sum(LAMBDA q : StatSum(Cycles, q.queue))]

CalculateOutputQueuesStats(queues) ==
  LET Sum(f(_)) == SumFunction([id \in DOMAIN queues |-> f(queues[id].outq)])
  IN  [message_count |-> Sum(LAMBDA q : q.num_messages),
       cycles        |-> Sum(LAMBDA q : StatSum(Cycles, q.queue))]

CalculateMemoryUsageStats(queues) ==
  LET Sum(f(_)) == SumFunction([id \in DOMAIN queues |-> f(queues[id].inq) + f(queues[id].outq)])
  IN  [responses_size_bytes |-> Sum(LAMBDA q : StatSum(LAMBDA m : IF IsResponse(m) THEN Bytes(m)
                                                                                  ELSE 0,
                                                       q.queue)),
       reserved_slots       |-> Sum(LAMBDA q : q.num_slots_reserved),
       oversized_bytes      |-> Sum(LAMBDA q : StatSum(OversizedBytes, q.queue))]

EmptyCanisterQueues ==
  [queues       |-> <<>>,
   local        |-> <<>>,
   remote       |-> <<>>,
   ingress      |-> 0,
   next         |-> "LocalSubnet",
   input_stats  |-> CalculateInputQueuesStats(<<>>),
   output_stats |-> CalculateOutputQueuesStats(<<>>),
   memory_stats |-> CalculateMemoryUsageStats(<<>>)]

(***************************************************************************)
(* Input.                                                                  *)
(***************************************************************************)
GetOrInsertQueues(c, id) ==
  IF id \in DOMAIN c.queues THEN c
  ELSE [c EXCEPT !.queues = [y \in DOMAIN c.queues \cup {id} |->
                               IF y = id THEN [inq |-> NewInputQueue, outq |-> NewOutputQueue]
                               ELSE c.queues[y]],
                 !.input_stats.size_bytes = @ + EMPTY_QUEUE_BYTES]

\* Fault: always schedules the sender.
Schedule_Always(c, id, type) ==
  IF type = "LocalSubnet" THEN [c EXCEPT !.local = Append(@, id)]
  ELSE [c EXCEPT !.remote = Append(@, id)]

\* A sender whose queue has just received its first message is scheduled.
Schedule(c, id, type) ==
  IF Len(c.queues[id].inq.queue) # 1 THEN c
  ELSE IF type = "LocalSubnet" THEN [c EXCEPT !.local = Append(@, id)]
  ELSE [c EXCEPT !.remote = Append(@, id)]

\* Fault: reserves the output slot before it knows that the input queue has one.
PushInput_ReserveFirst(c, id, msg, type) ==
  LET c1 == IF IsRequest(msg) THEN GetOrInsertQueues(c, id) ELSE c
      c2 == IF IsRequest(msg) /\ CheckHasSlot(c1.queues[id].outq)
              THEN [c1 EXCEPT !.queues[id].outq = ReserveSlot(@)] ELSE c1
      ok == /\ id \in DOMAIN c1.queues
            /\ CanPushInput(c1.queues[id].inq, msg)
            /\ IsRequest(msg) => CheckHasSlot(c1.queues[id].outq)
  IN  [ok |-> ok,
       cq |-> IF ~ok THEN c2
              ELSE Schedule(
                     [c2 EXCEPT
                       !.queues[id].inq = PushInputQueue(@, msg),
                       !.input_stats = Plus(@, InputQueuesStatsDelta("Push", msg)),
                       !.memory_stats = Plus(@, MemoryUsageStatsDelta("Push", msg))],
                     id, type)]

\* The result of push_input: whether it succeeded, and the queues after it (a
\* failed push may leave a new, empty pair of queues behind).
PushInput(c, id, msg, type) ==
  LET c1 == IF IsRequest(msg) THEN GetOrInsertQueues(c, id) ELSE c
      ok == /\ id \in DOMAIN c1.queues
            /\ CanPushInput(c1.queues[id].inq, msg)
            /\ IsRequest(msg) => CheckHasSlot(c1.queues[id].outq)
  IN  [ok |-> ok,
       cq |-> IF ~ok THEN c1
              ELSE Schedule(
                     [c1 EXCEPT
                       !.queues[id] =
                          [inq  |-> PushInputQueue(@.inq, msg),
                           outq |-> IF IsRequest(msg) THEN ReserveSlot(@.outq) ELSE @.outq],
                       !.input_stats = Plus(@, InputQueuesStatsDelta("Push", msg)),
                       !.memory_stats = Plus(@, MemoryUsageStatsDelta("Push", msg))],
                     id, type)]

After(source) ==
  CASE source = "LocalSubnet" -> "Ingress"
    [] source = "Ingress" -> "RemoteSubnet"
    [] source = "RemoteSubnet" -> "LocalSubnet"

HasInput(c, source) ==
  CASE source = "LocalSubnet" -> c.local # <<>>
    [] source = "Ingress" -> c.ingress > 0
    [] source = "RemoteSubnet" -> c.remote # <<>>

\* The first of the three sources, starting at c.next, that has a message.
NextSource(c) ==
  LET s1 == c.next
      s2 == After(s1)
  IN  IF HasInput(c, s1) THEN s1 ELSE IF HasInput(c, s2) THEN s2 ELSE After(s2)

\* Fault: the sender served keeps its place.
PopSchedule_Front(c, schedule) ==
  IF Len(c.queues[Head(schedule)].inq.queue) > 1 THEN schedule ELSE Tail(schedule)

\* pop_canister_input on one of the schedules: the sender served moves to the
\* back if it has more messages.
PopSchedule(c, schedule) ==
  LET sender == Head(schedule)
  IN  Tail(schedule) \o (IF Len(c.queues[sender].inq.queue) > 1 THEN <<sender>> ELSE <<>>)

SenderServed(c, source) == IF source = "LocalSubnet" THEN Head(c.local) ELSE Head(c.remote)

PopCanisterInput(c, source) ==
  LET sender == SenderServed(c, source)
      msg    == Head(c.queues[sender].inq.queue)
  IN  [c EXCEPT
        !.local = IF source = "LocalSubnet" THEN PopSchedule(c, @) ELSE @,
        !.remote = IF source = "RemoteSubnet" THEN PopSchedule(c, @) ELSE @,
        !.queues[sender].inq = PopInputQueue(@),
        !.input_stats = Minus(@, InputQueuesStatsDelta("Pop", msg)),
        !.memory_stats = Minus(@, MemoryUsageStatsDelta("Pop", msg))]

\* Fault: keeps taking from the source that had a message.
PopInput_Sticky(c) ==
  LET source == NextSource(c)
      c1     == IF source = "Ingress" THEN [c EXCEPT !.ingress = @ - 1]
                ELSE PopCanisterInput(c, source)
  IN  [c1 EXCEPT !.next = source]

\* pop_input, when there is a message.
PopInput(c) ==
  LET source == NextSource(c)
      c1     == IF source = "Ingress" THEN [c EXCEPT !.ingress = @ - 1]
                ELSE PopCanisterInput(c, source)
  IN  [c1 EXCEPT !.next = After(source)]

(***************************************************************************)
(* Skipping.  The queues of the subnet itself (ReplicatedState::           *)
(* subnet_queues) have this same structure; drain_subnet_queues passes     *)
(* over messages that have to wait for a long execution, until the loop    *)
(* detector says that it has been everywhere.                              *)
(***************************************************************************)
NewLoopDetector == [local |-> 0, remote |-> 0, ingress |-> FALSE]

\* peek_input turns to a source that has a message; it sees the head of that source.
PeekInput(c) == [c EXCEPT !.next = NextSource(c)]

Peeked(c) == IF c.next = "Ingress" THEN c.next ELSE SenderServed(c, c.next)

SkipSchedule(c, schedule) ==
  LET sender == Head(schedule)
  IN  Tail(schedule) \o (IF c.queues[sender].inq.queue # <<>> THEN <<sender>> ELSE <<>>)

\* skip_input after a peek that found a message.
SkipInput(c) ==
  [c EXCEPT !.local = IF c.next = "LocalSubnet" THEN SkipSchedule(c, @) ELSE @,
            !.remote = IF c.next = "RemoteSubnet" THEN SkipSchedule(c, @) ELSE @,
            !.next = After(@)]

CountSkip(detector, source) ==
  CASE source = "LocalSubnet" -> [detector EXCEPT !.local = @ + 1]
    [] source = "RemoteSubnet" -> [detector EXCEPT !.remote = @ + 1]
    [] source = "Ingress" -> [detector EXCEPT !.ingress = TRUE]

\* Fault: one skip from each source is enough.
DetectedLoop_OncePerSource(c, detector) ==
  /\ detector.local >= 1 \/ c.local = <<>>
  /\ detector.remote >= 1 \/ c.remote = <<>>
  /\ detector.ingress \/ c.ingress = 0

DetectedLoop(c, detector) ==
  /\ detector.local >= Len(c.local)
  /\ detector.remote >= Len(c.remote)
  /\ detector.ingress \/ c.ingress = 0

\* One turn of the inner loop of drain_subnet_queues, on a message that must wait.
SkipBlocked(tour) ==
  LET peek     == PeekInput(tour.cq)
      skip     == SkipInput(peek)
      detector == CountSkip(tour.detector, peek.next)
  IN  [cq       |-> skip,
       detector |-> detector,
       seen     |-> tour.seen \cup {Peeked(peek)},
       done     |-> DetectedLoop(skip, detector)]

\* The inner loop over queues whose messages all have to wait, for at most
\* limit turns.
SkipAll(c, limit) ==
  LET start == [cq |-> c, detector |-> NewLoopDetector, seen |-> {},
                done |-> c.local = <<>> /\ c.remote = <<>> /\ c.ingress = 0]
      after[i \in 0 .. limit] ==
        IF i = 0 THEN start
        ELSE IF after[i - 1].done THEN after[i - 1] ELSE SkipBlocked(after[i - 1])
  IN  after[limit]

(***************************************************************************)
(* Output.                                                                 *)
(***************************************************************************)
PushOutputRequest(c, id, msg, time) ==
  LET c1   == GetOrInsertQueues(c, id)
      pair == c1.queues[id]
      ok   == CheckHasSlot(pair.outq) /\ CheckHasSlot(pair.inq)
  IN  [ok |-> ok,
       cq |-> IF ~ok THEN c1
              ELSE [c1 EXCEPT
                     !.queues[id] = [inq  |-> ReserveSlot(@.inq),
                                     outq |-> PushRequest(@.outq, msg, time + REQUEST_LIFETIME)],
                     !.input_stats.reserved_slots = @ + 1,
                     !.output_stats = Plus(@, OutputQueuesStatsDelta(msg)),
                     !.memory_stats = Plus(@, MemoryUsageStatsDelta("Push", msg))]]

\* A call to the management canister that cannot be routed is answered on the
\* spot.
RejectIc00OutputRequest(c, request) ==
  LET c1 == GetOrInsertQueues(c, IC_00)
      c2 == [c1 EXCEPT !.queues[IC_00].inq = ReserveSlot(@),
                       !.input_stats.reserved_slots = @ + 1,
                       !.memory_stats.reserved_slots = @ + 1]
  IN  IF CheckHasSlot(c1.queues[IC_00].inq)
        THEN PushInput(c2, IC_00, RejectOf(request), "LocalSubnet").cq
        ELSE c1

PushOutputResponse(c, id, msg) ==
  [c EXCEPT !.queues[id].outq = PushResponse(@, msg),
            !.output_stats = Plus(@, OutputQueuesStatsDelta(msg)),
            !.memory_stats = Plus(@, MemoryUsageStatsDelta("Push", msg))]

PeekOutput(c, id) == c.queues[id].outq.queue[1]

PopOutput(c, id) ==
  LET msg == PeekOutput(c, id)
  IN  [c EXCEPT !.queues[id].outq = PopOutputQueue(@),
                !.output_stats = Minus(@, OutputQueuesStatsDelta(msg)),
                !.memory_stats = Minus(@, MemoryUsageStatsDelta("Pop", msg))]

HasOutput(c, id) == id \in DOMAIN c.queues /\ c.queues[id].outq.num_messages > 0

(***************************************************************************)
(* Timing out, garbage collection, serialization.                          *)
(***************************************************************************)

\* Fault: does not account for the dropped request.
TimeOutOne_KeepRequestStats(c, id, request, local) ==
  LET response == RejectOf(request)
      c1 == [c EXCEPT !.queues[id].inq = PushInputQueue(@, response),
                      !.output_stats = Minus(@, OutputQueuesStatsDelta(request)),
                      !.input_stats = Plus(@, InputQueuesStatsDelta("Push", response)),
                      !.memory_stats = Plus(@, MemoryUsageStatsDelta("Push", response))]
  IN  Schedule(c1, id, IF id \in local THEN "LocalSubnet" ELSE "RemoteSubnet")

\* One request of the output queue to id has timed out: its reject response
\* goes into the matching input queue.
TimeOutOne(c, id, request, local) ==
  LET response == RejectOf(request)
      c1 == [c EXCEPT !.output_stats = Minus(@, OutputQueuesStatsDelta(request)),
                      !.memory_stats = Minus(@, MemoryUsageStatsDelta("Pop", request))]
      c2 == [c1 EXCEPT !.queues[id].inq = PushInputQueue(@, response),
                       !.input_stats = Plus(@, InputQueuesStatsDelta("Push", response)),
                       !.memory_stats = Plus(@, MemoryUsageStatsDelta("Push", response))]
  IN  Schedule(c2, id, IF id \in local THEN "LocalSubnet" ELSE "RemoteSubnet")

\* All requests of the output queue to id that expire, in queue order.
TimeOutQueue(c, id, time, local) ==
  LET outq == c.queues[id].outq
      gone == TimedOut(outq, time)
      after[i \in 0 .. Len(outq.queue)] ==
        IF i = 0 THEN [c EXCEPT !.queues[id].outq = TimeOutRequests(@, time)]
        ELSE IF outq.begin + i - 1 \in gone
          THEN TimeOutOne(after[i - 1], id, outq.queue[i], local)
          ELSE after[i - 1]
  IN  after[Len(outq.queue)]

\* The queue pairs are visited one after the other.
TimeOutAllRequests(c, time, local) ==
  LET ids == SetToSeq(DOMAIN c.queues)
      after[i \in 0 .. Len(ids)] ==
        IF i = 0 THEN c ELSE TimeOutQueue(after[i - 1], ids[i], time, local)
  IN  after[Len(ids)]

HasExpired(c, time) == \E id \in DOMAIN c.queues : HasExpiredDeadlines(c.queues[id].outq, time)

\* Fault: collects every pair without messages, reserved slots or not.
GarbageCollect_IgnoreReservations(c) ==
  LET kept == {id \in DOMAIN c.queues : \/ c.queues[id].inq.queue # <<>>
                                        \/ c.queues[id].outq.queue # <<>>}
  IN  [c EXCEPT !.queues = [id \in kept |-> c.queues[id]],
                !.input_stats.size_bytes =
                   @ - EMPTY_QUEUE_BYTES * Cardinality(DOMAIN c.queues \ kept)]

\* Fault: forgets the position of the round robin.
GarbageCollect_KeepNext(c) ==
  LET kept == {id \in DOMAIN c.queues : \/ HasUsedSlots(c.queues[id].inq)
                                        \/ HasUsedSlots(c.queues[id].outq)}
      gone == DOMAIN c.queues \ kept
  IN  [c EXCEPT !.queues = [id \in kept |-> c.queues[id]],
                !.input_stats.size_bytes = @ - EMPTY_QUEUE_BYTES * Cardinality(gone)]

\* Pairs without messages and reservations go; with nothing left, the round
\* robin starts anew.
GarbageCollect(c) ==
  LET kept == {id \in DOMAIN c.queues : \/ HasUsedSlots(c.queues[id].inq)
                                        \/ HasUsedSlots(c.queues[id].outq)}
      gone == DOMAIN c.queues \ kept
  IN  [c EXCEPT !.queues = [id \in kept |-> c.queues[id]],
                !.input_stats.size_bytes = @ - EMPTY_QUEUE_BYTES * Cardinality(gone),
                !.next = IF kept = {} /\ c.ingress = 0 THEN "LocalSubnet" ELSE @]

\* What decoding the serialized queues yields: counts are computed anew.
ReloadQueues(c) ==
  LET queues == [id \in DOMAIN c.queues |-> [c.queues[id] EXCEPT !.outq = Reload(@)]]
  IN  [c EXCEPT !.queues = queues,
                !.input_stats = CalculateInputQueuesStats(queues),
                !.output_stats = CalculateOutputQueuesStats(queues),
                !.memory_stats = CalculateMemoryUsageStats(queues)]

(***************************************************************************)
(* The canister in its subnet.                                             *)
(***************************************************************************)
Init ==
  /\ cq = EmptyCanisterQueues
  /\ now = 0
  /\ locals = Locals
  /\ owed = [id \in Canisters |-> 0]
  /\ awaiting = [id \in Canisters |-> 0]
  /\ loopback = <<>>
  /\ forgotten = {}
  /\ dropped = [id \in Canisters |-> 0]

\* Subnets answer calls, they make none.
Subnets == {OwnSubnet, IC_00} \cap Peers

\* How ReplicatedState::push_input classifies a sender.
InputQueueType(id) ==
  IF id \in locals \cup {Own, OwnSubnet} THEN "LocalSubnet" ELSE "RemoteSubnet"

ReceiveIngress ==
  /\ cq.ingress < MaxIngress
  /\ cq' = [cq EXCEPT !.ingress = @ + 1]
  /\ UNCHANGED <<now, locals, owed, awaiting, loopback, forgotten, dropped>>

\* The scheduler removes expired ingress messages before it executes any.
FilterIngress ==
  \E kept \in 0 .. cq.ingress :
    /\ cq' = [cq EXCEPT !.ingress = kept]
    /\ UNCHANGED <<now, locals, owed, awaiting, loopback, forgotten, dropped>>

\* A peer's request is inducted, if there is room; its reject otherwise is the
\* peer's affair.
ReceiveRequest ==
  \E id \in locals \cup (Peers \ (Locals \cup Subnets)), p \in Payloads :
    /\ cq' = PushInput(cq, id, Request(p), InputQueueType(id)).cq
    /\ UNCHANGED <<now, locals, owed, awaiting, loopback, forgotten, dropped>>

\* SystemState::push_input refuses a response whose callback the canister no longer
\* has.  It is dropped, and the slot that was reserved for it stays reserved.
Refuse(id) ==
  /\ id \in forgotten
  /\ dropped' = [dropped EXCEPT ![id] = @ + 1]
  /\ UNCHANGED <<cq, awaiting>>

\* The one response to a request that left the output queue.  (Whether the response to
\* a forgotten call meets the callback of another one depends on callback ids, which
\* CanisterLifecycle and XNet have; here it may be let in or not.)
ReceiveResponse ==
  \E id \in Peers, p \in ResponsePayloads :
    /\ dropped[id] < awaiting[id]
    /\ \/ /\ cq' = PushInput(cq, id, Response(p), InputQueueType(id)).cq
          /\ awaiting' = [awaiting EXCEPT ![id] = @ - 1]
          /\ UNCHANGED dropped
       \/ Refuse(id)
    /\ UNCHANGED <<now, locals, owed, loopback, forgotten>>

\* The first message of the loopback stream.  A request that finds no slot, or
\* no memory, is turned into a reject response in the same stream.
InductLoopback ==
  /\ loopback # <<>>
  /\ LET msg == Head(loopback)
         r   == PushInput(cq, Own, msg, "LocalSubnet")
     IN  \/ /\ r.ok
            /\ cq' = r.cq
            /\ loopback' = Tail(loopback)
            /\ awaiting' = [awaiting EXCEPT ![Own] = @ - (IF IsResponse(msg) THEN 1 ELSE 0)]
            /\ UNCHANGED dropped
         \/ /\ IsRequest(msg)
            /\ cq' = IF r.ok THEN cq ELSE r.cq
            /\ loopback' = Append(Tail(loopback), RejectOf(msg))
            /\ UNCHANGED <<awaiting, dropped>>
         \/ /\ IsResponse(msg)
            /\ Refuse(Own)
            /\ loopback' = Tail(loopback)
  /\ UNCHANGED <<now, locals, owed, forgotten>>

\* The scheduler executes the next input message.
Execute ==
  /\ \E source \in {"LocalSubnet", "Ingress", "RemoteSubnet"} : HasInput(cq, source)
  /\ cq' = PopInput(cq)
  /\ LET source == NextSource(cq)
         sender == SenderServed(cq, source)
     IN  owed' = IF source # "Ingress" /\ IsRequest(Head(cq.queues[sender].inq.queue))
                   THEN [owed EXCEPT ![sender] = @ + 1] ELSE owed
  /\ UNCHANGED <<now, locals, awaiting, loopback, forgotten, dropped>>

HasIndex(id) == id \in DOMAIN cq.queues => QueueEnd(cq.queues[id].outq) < MaxIndex

\* The canister calls another one; the call fails if there is no slot.
SendRequest ==
  \E id \in Callees, p \in Payloads :
    /\ HasIndex(id)
    /\ cq' = PushOutputRequest(cq, id, Request(p), now).cq
    /\ UNCHANGED <<now, locals, owed, awaiting, loopback, forgotten, dropped>>

\* The canister calls the management canister, and no subnet can serve the call.
CallUnroutable ==
  \E p \in Payloads :
    /\ IC_00 \in Peers
    /\ cq' = RejectIc00OutputRequest(cq, Request(p))
    /\ UNCHANGED <<now, locals, owed, awaiting, loopback, forgotten, dropped>>

\* The canister answers one of the requests it has popped.
SendResponse ==
  \E id \in Canisters, p \in ResponsePayloads :
    /\ owed[id] > 0
    /\ HasIndex(id)
    /\ cq' = PushOutputResponse(cq, id, Response(p))
    /\ owed' = [owed EXCEPT ![id] = @ - 1]
    /\ UNCHANGED <<now, locals, awaiting, loopback, forgotten, dropped>>

\* A message leaves: to a stream, or straight into the queue of a local peer.
RouteOutput ==
  \E id \in Canisters :
    /\ HasOutput(cq, id)
    /\ cq' = PopOutput(cq, id)
    /\ awaiting' = [awaiting EXCEPT
                      ![id] = @ + (IF IsRequest(PeekOutput(cq, id)) THEN 1 ELSE 0)]
    /\ loopback' = IF id = Own THEN Append(loopback, PeekOutput(cq, id)) ELSE loopback
    /\ UNCHANGED <<now, locals, owed, forgotten, dropped>>

\* A message of the canister to itself moves from its output to its input
\* queue, if there is a slot.  No callback is looked for on this way.
InductMessageToSelf ==
  /\ HasOutput(cq, Own)
  /\ LET msg == PeekOutput(cq, Own)
         r   == PushInput(cq, Own, msg, "LocalSubnet")
     IN  /\ r.ok
         /\ cq' = PopOutput(r.cq, Own)
         /\ awaiting' = [awaiting EXCEPT ![Own] = @ + (IF IsRequest(msg) THEN 1 ELSE -1)]
  /\ UNCHANGED <<now, locals, owed, loopback, forgotten, dropped>>

\* A round begins by timing out requests.
StartRound ==
  \E time \in (now + 1) .. MaxTime :
    /\ now' = time
    /\ cq' = IF HasExpired(cq, time)
               THEN TimeOutAllRequests(cq, time, locals \cup {Own}) ELSE cq
    /\ UNCHANGED <<locals, owed, awaiting, loopback, forgotten, dropped>>

\* Before a checkpoint, empty queue pairs are collected.
CollectGarbage ==
  /\ cq' = GarbageCollect(cq)
  /\ UNCHANGED <<now, locals, owed, awaiting, loopback, forgotten, dropped>>

Restart ==
  /\ cq' = ReloadQueues(cq)
  /\ UNCHANGED <<now, locals, owed, awaiting, loopback, forgotten, dropped>>

RequestsIn(queue) == Cardinality({i \in DOMAIN queue : IsRequest(queue[i])})
ResponsesIn(queue) == Cardinality({i \in DOMAIN queue : IsResponse(queue[i])})

\* The canister, uninstalled, has stopped and is started again: with its open calls
\* answered and their call contexts deleted it waits for no response, and all its
\* callbacks are gone.
StopUninstalled ==
  /\ Unstable
  /\ \A id \in Canisters : owed[id] = 0
  /\ forgotten' = forgotten \cup
       {id \in DOMAIN cq.queues : \/ dropped[id] < awaiting[id]
                                 \/ RequestsIn(cq.queues[id].outq.queue) > 0}
  /\ UNCHANGED <<cq, now, locals, owed, awaiting, loopback, dropped>>

\* A local peer is deleted.  That it is stopped and its own queues are empty does not
\* keep messages for it out of these.
DeleteCanister ==
  \E id \in locals :
    /\ locals' = locals \ {id}
    /\ UNCHANGED <<cq, now, owed, awaiting, loopback, forgotten, dropped>>

Next ==
  \/ ReceiveIngress
  \/ FilterIngress
  \/ ReceiveRequest
  \/ ReceiveResponse
  \/ InductLoopback
  \/ Execute
  \/ SendRequest
  \/ CallUnroutable
  \/ SendResponse
  \/ RouteOutput
  \/ InductMessageToSelf
  \/ StartRound
  \/ CollectGarbage
  \/ Restart
  \/ StopUninstalled
  \/ DeleteCanister

Spec == Init /\ [][Next]_vars

\* The scheduler gives every canister with input its turn.
FairSpec == Spec /\ WF_vars(Execute)

-----------------------------------------------------------------------------

InputQueueOk(q) ==
  /\ q.queue \in Seq(MessageType)
  /\ q.num_slots_reserved \in Nat

OutputQueueOk(q) ==
  /\ q.queue \in Seq(MessageType \cup {None})
  /\ {q.num_slots_reserved, q.begin, q.timeout_index, q.num_messages} \subseteq Nat
  /\ q.deadline_range_ends \in Seq([deadline : Nat, end : Nat])

\* The types of the queues and of what surrounds them; no unsigned counter has
\* been decremented below zero, which would wrap around or panic.
TypeOK ==
  /\ DOMAIN cq.queues \subseteq Canisters
  /\ \A id \in DOMAIN cq.queues : /\ InputQueueOk(cq.queues[id].inq)
                                  /\ OutputQueueOk(cq.queues[id].outq)
  /\ cq.local \in Seq(Canisters)
  /\ cq.remote \in Seq(Canisters)
  /\ cq.ingress \in 0 .. MaxIngress
  /\ cq.next \in {"LocalSubnet", "Ingress", "RemoteSubnet"}
  /\ cq.input_stats \in [DOMAIN cq.input_stats -> Nat]
  /\ cq.output_stats \in [DOMAIN cq.output_stats -> Nat]
  /\ cq.memory_stats \in [DOMAIN cq.memory_stats -> Nat]
  /\ now \in 0 .. MaxTime
  /\ locals \subseteq Locals
  /\ owed \in [Canisters -> Nat]
  /\ awaiting \in [Canisters -> Nat]
  /\ loopback \in Seq(MessageType)
  /\ forgotten \subseteq Canisters
  /\ dropped \in [Canisters -> Nat]

\* stats_ok: the running statistics, maintained by deltas in a dozen places
\* (time-outs, self-induction and garbage collection among them), equal the
\* ones computed from the queues, so nothing changes when a replica reloads.
StatsOk ==
  /\ cq.input_stats = CalculateInputQueuesStats(cq.queues)
  /\ cq.output_stats = CalculateOutputQueuesStats(cq.queues)
  /\ cq.memory_stats = CalculateMemoryUsageStats(cq.queues)

Pending(id) == id \in DOMAIN cq.queues /\ cq.queues[id].inq.queue # <<>>

\* A sender is in the schedules exactly once if its input queue has a message,
\* and not at all otherwise (the comment of schedules_ok).  pop_canister_input
\* unwraps on the strength of it; a sender that is missing would never be
\* served.
ScheduledOnce ==
  LET schedules == cq.local \o cq.remote
  IN  /\ IsInjective(schedules)
      /\ Range(schedules) = {id \in Canisters : Pending(id)}

PairOf(id) ==
  IF id \in DOMAIN cq.queues THEN cq.queues[id]
  ELSE [inq |-> NewInputQueue, outq |-> NewOutputQueue]

\* Reserved slots are exactly the responses still to come: per peer, one in the
\* output queue for each request queued or being executed, one in the input
\* queue for each request queued or sent.  So a response always finds its slot
\* (push_output_response and time_out_requests would panic without), across
\* time-outs, garbage collection and self-calls.  A slot leaks for every response that
\* was refused, and for nothing else.
CallsBalance ==
  /\ \A id \in Canisters :
       LET pair == PairOf(id)
       IN  /\ pair.outq.num_slots_reserved = RequestsIn(pair.inq.queue) + owed[id]
           /\ pair.inq.num_slots_reserved = RequestsIn(pair.outq.queue) + awaiting[id]
  /\ LET own == PairOf(Own)
     IN  awaiting[Own] = RequestsIn(own.inq.queue) + owed[Own]
                         + ResponsesIn(own.outq.queue) + Len(loopback) + dropped[Own]

\* Every queue passes the checks made when a checkpoint is decoded.
QueuesDecodable ==
  \A id \in DOMAIN cq.queues : /\ CheckSize(cq.queues[id].inq)
                               /\ CheckSize(cq.queues[id].outq)
                               /\ TestInvariants(cq.queues[id].outq)

\* Garbage collection that leaves no message and no pair leaves the default
\* CanisterQueues, as garbage_collect asserts: nothing of the past (a schedule,
\* a statistic, the position of the round robin) survives in the state.
CollectsToDefault ==
  LET c == GarbageCollect(cq)
  IN  DOMAIN c.queues = {} /\ c.ingress = 0 => c = EmptyCanisterQueues

Before(schedule, s, t) ==
  \E i, j \in DOMAIN schedule : i < j /\ schedule[i] = s /\ schedule[j] = t

\* Senders of a schedule take turns: a sender keeps its place ahead of another
\* one until it is served, whatever is pushed, timed out or collected in
\* between, and then it has to let that other one go first.
ServedInTurn ==
  [][\A f \in {"local", "remote"} : \A s, t \in Range(cq[f]) :
       Before(cq[f], s, t) =>
         \/ Before(cq'[f], s, t) /\ cq'.queues[s].inq # PopInputQueue(cq.queues[s].inq)
         \/ ~Before(cq'[f], s, t) /\ cq'.queues[s].inq = PopInputQueue(cq.queues[s].inq)]_vars

\* drain_subnet_queues gives up on blocked messages only when it has looked at the
\* head of every queue, however the three sources differ in length, and it does
\* give up, after at most one tour for each sender of the longest schedule: the
\* loop detector neither hides a message that could be executed nor lets a round
\* hang.  Skipping loses no message and no sender.
SkipsEverySender ==
  LET tours == Max({Len(cq.local), Len(cq.remote), 1})
      tour  == SkipAll(cq, 3 * tours)
  IN  /\ tour.done
      /\ tour.seen = Range(cq.local) \cup Range(cq.remote)
                       \cup (IF cq.ingress > 0 THEN {"Ingress"} ELSE {})
      /\ Len(tour.cq.local) = Len(cq.local) /\ Range(tour.cq.local) = Range(cq.local)
      /\ Len(tour.cq.remote) = Len(cq.remote) /\ Range(tour.cq.remote) = Range(cq.remote)
      /\ tour.cq.queues = cq.queues

\* Neither timing requests out nor a message's way from the canister to itself
\* creates or destroys cycles.
CyclesConserved ==
  [][StartRound \/ InductMessageToSelf =>
       cq'.input_stats.cycles + cq'.output_stats.cycles
         = cq.input_stats.cycles + cq.output_stats.cycles]_vars

\* No sender starves: the round robin over ingress, local and remote senders
\* reaches every sender that has messages, whatever else keeps arriving.
InputServed ==
  \A id \in Canisters :
    []<>Pending(id) =>
      []<><<Pending(id) /\ cq'.queues[id].inq = PopInputQueue(cq.queues[id].inq)>>_vars

\* schedules_ok, with the classification of senders it uses.
SchedulesOk(c, local) ==
  LET senders == {id \in DOMAIN c.queues : c.queues[id].inq.queue # <<>>}
  IN  /\ Range(c.local) = senders \cap local
      /\ Len(c.local) = Cardinality(senders \cap local)
      /\ Range(c.remote) = senders \ local
      /\ Len(c.remote) = Cardinality(senders \ local)

\* The debug assertion at the end of CanisterQueues::time_out_requests.
TimeOutAssertion ==
  [][StartRound /\ HasExpired(cq, now') => SchedulesOk(cq', locals \cup {Own})]_vars
=============================================================================
