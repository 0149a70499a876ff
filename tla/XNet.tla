-------------------------------- MODULE XNet --------------------------------
(***************************************************************************)
(* Messages between canisters on several subnets                           *)
(*   rs/messaging/src/routing/stream_handler.rs, stream_builder.rs         *)
(*   rs/xnet/payload_builder/src/lib.rs                                    *)
(*                                                                         *)
(* Every subnet routes the messages of its canisters into a stream per     *)
(* destination subnet.  Its certified streams are pulled by the others     *)
(* into slice pools; block makers put slices into blocks, validated        *)
(* against a certified state and the payloads since; executing a block     *)
(* inducts the messages, produces signals for them, and garbage collects   *)
(* what the slice's signals acknowledge.                                   *)
(*                                                                         *)
(* One canister may be migrated from one subnet to another while messages  *)
(* are under way.                                                          *)
(***************************************************************************)
EXTENDS StreamOps, FiniteSets, FiniteSetsExt

CONSTANTS
  Subnets,
  Nodes,        \* the nodes of each subnet that make blocks
  System,       \* the system subnets
  NNS,          \* the NNS subnet
  Canisters,
  Home,         \* the subnet of each canister in the initial routing table
  Calls,        \* numbers of the calls, in the order in which they are made
  Caller,       \* the canister that makes each call
  Callee,       \* the canister that is called
  Mover,        \* the canister that migrates, or None
  Target,       \* the subnet it migrates to
  Unstable,     \* canisters that may be uninstalled and stopped at any time
  None,
  MAX_STREAM_MESSAGES,
  SYSTEM_SUBNET_STREAM_MSG_LIMIT,
  MaxPayloads,  \* bound on the blocks past the certified height
  MaxIndex      \* bound on stream indices

ASSUME XNetAssumption ==
  /\ IsFiniteSet(Subnets)
  /\ System \subseteq Subnets
  /\ Home \in [Canisters -> Subnets]
  /\ Calls \subseteq Nat
  /\ Caller \in [Calls -> Canisters]
  /\ Callee \in [Calls -> Canisters]
  /\ None \notin Subnets \cup Canisters
  /\ Mover \in Canisters \cup {None}
  /\ Unstable \subseteq Canisters
  /\ Mover # None => Target \in Subnets \ {Home[Mover]}
  /\ {MAX_STREAM_MESSAGES, SYSTEM_SUBNET_STREAM_MSG_LIMIT, MaxPayloads, MaxIndex} \subseteq Nat

VARIABLES
  streams,    \* streams[s][r]: the stream to r in the latest state of s
  certified,  \* the same in the latest certified state of s
  payloads,   \* the payloads of the blocks after that state
  executed,   \* how many of these are executed
  pool,       \* pool[s][n][r]: the stream of r to s, as last pulled by node n of s
  registry,   \* the version of the routing table s uses, 0 or 1
  at,         \* the subnet that has the canister's state, None in transit
  call,       \* state of each call at its caller
  callback,   \* the callback id of each call
  next_callback_id, \* that of the next call of each canister
  work,       \* state of each call at its callee
  lost        \* messages dropped, each one a critical error

ids == <<callback, next_callback_id>>
vars == <<streams, certified, payloads, executed, pool, registry, at, call, ids, work, lost>>

Request(k) == [kind |-> "Request", call |-> k]
Response(k) == [kind |-> "Response", call |-> k]

Sender(msg) == IF msg.kind = "Request" THEN Caller[msg.call] ELSE Callee[msg.call]
Receiver(msg) == IF msg.kind = "Request" THEN Callee[msg.call] ELSE Caller[msg.call]

\* An open call has its callback.  An orphaned one has lost it and waits for a response
\* that is not for anyone; when that has come it is gone.
CallStates == {"idle", "open", "done", "orphaned", "gone"}

Pending(state) == state \in {"open", "orphaned"}

(***************************************************************************)
(* Routing.  The path of the migration is known to all subnets before the  *)
(* routing table changes anywhere.                                         *)
(***************************************************************************)
Route(s, c) == IF c = Mover /\ registry[s] = 1 THEN Target ELSE Home[c]

OnPath(c, s, r) == c = Mover /\ {s, r} \subseteq {Home[c], Target}

\* Fault: messages under way when the sender moved are not accepted.
ShouldAcceptMessageFrom_TableOnly(s, msg, r) == Route(s, Sender(msg)) = r

ShouldAcceptMessageFrom(s, msg, r) ==
  LET expected == Route(s, Sender(msg))
  IN  expected = r \/ OnPath(Sender(msg), r, expected)

ShouldRerouteMessageTo(s, msg, host) == OnPath(Receiver(msg), s, host)

(***************************************************************************)
(* StreamHandler, on a record of what it changes:                          *)
(* [streams, call, work, lost].  full are the calls whose request finds no *)
(* room or no memory at the callee.                                        *)
(***************************************************************************)

\* validate_response: the calls whose callback the response to call k meets.
Matching(x, k) ==
  {j \in Calls : /\ x.call[j] = "open" /\ callback[j] = callback[k]
                 /\ Caller[j] = Caller[k] /\ Callee[j] = Callee[k]}

\* Induction into the canister's queue.  A canister that is stopped has no callbacks.
CanPushInput(s, x, msg, full) ==
  /\ at[Receiver(msg)] = s
  /\ IF msg.kind = "Request" THEN msg.call \notin full ELSE Matching(x, msg.call) # {}

\* A response is executed at once, which takes the callback it meets: that of its own
\* call, or of a later one with the same id.
PushInput(x, msg) ==
  IF msg.kind = "Request" THEN [x EXCEPT !.work[msg.call] = "held"]
  ELSE LET met == CHOOSE j \in Matching(x, msg.call) : TRUE
       IN  IF met = msg.call THEN [x EXCEPT !.call[met] = "done"]
           ELSE [x EXCEPT !.call[met] = "orphaned", !.call[msg.call] = "gone"]

\* push_input refuses a response: nobody waits for it any more.
DropResponse(x, msg) ==
  [x EXCEPT !.lost = @ \cup {msg},
            !.call[msg.call] = IF @ = "orphaned" THEN "gone" ELSE @]

\* Fault: a request for a canister that has moved is passed on to its new host.
InductMessage_ForwardRequest(s, r, full, x, msg) ==
  LET host == Route(s, Receiver(msg))
      y == IF host = s
             THEN IF CanPushInput(s, x, msg, full) THEN PushInput(x, msg)
                  ELSE IF msg.kind = "Request"
                    THEN [x EXCEPT !.streams[r] = StreamPush(@, Response(msg.call))]
                    ELSE DropResponse(x, msg)
           ELSE [x EXCEPT !.streams[host] = StreamPush(@, msg)]
  IN  [y EXCEPT !.streams[r] = IncrementSignalsEnd(@)]

\* Fault: rejects requests the way responses are rejected.
InductMessage_RejectRequest(s, r, full, x, msg) ==
  LET host == Route(s, Receiver(msg))
      y == IF host = s
             THEN IF CanPushInput(s, x, msg, full) THEN PushInput(x, msg)
                  ELSE IF msg.kind = "Request"
                    THEN [x EXCEPT !.streams[r] = StreamPush(@, Response(msg.call))]
                    ELSE DropResponse(x, msg)
           ELSE [x EXCEPT !.streams[r] = PushRejectSignal(@, x.streams[r].signals_end)]
  IN  [y EXCEPT !.streams[r] = IncrementSignalsEnd(@)]

\* induct_message: the message at the index signals_end of the stream from r.
InductMessage(s, r, full, x, msg) ==
  LET host   == Route(s, Receiver(msg))
      index  == x.streams[r].signals_end
      drop   == [x EXCEPT !.lost = @ \cup {msg}]
      refuse == [x EXCEPT !.streams[r] = StreamPush(@, Response(msg.call))]
      reject == [x EXCEPT !.streams[r] = PushRejectSignal(@, index)]
      y == IF ~ShouldAcceptMessageFrom(s, msg, r) THEN drop
           ELSE IF host = s
             THEN IF CanPushInput(s, x, msg, full) THEN PushInput(x, msg)
                  ELSE IF msg.kind = "Request" THEN refuse ELSE DropResponse(x, msg)
           ELSE IF ShouldRerouteMessageTo(s, msg, host)
             THEN IF msg.kind = "Request" THEN refuse ELSE reject
           ELSE drop
  IN  [y EXCEPT !.streams[r] = IncrementSignalsEnd(@)]

InductMessages(s, r, full, x, messages) ==
  LET after[i \in 0 .. Len(messages)] ==
        IF i = 0 THEN x ELSE InductMessage(s, r, full, after[i - 1], messages[i])
  IN  after[Len(messages)]

\* Responses go where the routing table says now, requests are dropped.
RerouteRejectedMessage(s, x, msg) ==
  IF msg.kind = "Request" THEN [x EXCEPT !.lost = @ \cup {msg}]
  ELSE [x EXCEPT !.streams[Route(s, Receiver(msg))] = StreamPush(@, msg)]

RerouteRejectedMessages(s, x, rejected) ==
  LET after[i \in 0 .. Len(rejected)] ==
        IF i = 0 THEN x ELSE RerouteRejectedMessage(s, after[i - 1], rejected[i])
  IN  after[Len(rejected)]

\* All messages of the loopback stream are inducted and discarded.
InductLoopbackStream(s, full, x) ==
  LET y    == InductMessages(s, s, full, x, x.streams[s].messages)
      loop == y.streams[s]
      z    == [y EXCEPT !.streams[s] =
                 DiscardSignalsBefore(DiscardMessagesBefore(@, loop.signals_end),
                                      loop.signals_end)]
  IN  IF x.streams[s].messages = <<>> THEN x
      ELSE RerouteRejectedMessages(
             s, z, RejectedMessages(loop, loop.signals_end, loop.reject_signals))

\* Messages acknowledged by the slice go, and signals the remote subnet has seen.
GarbageCollectLocalState(s, r, x, slice) ==
  LET st == x.streams[r]
      y  == [x EXCEPT !.streams[r] =
               DiscardSignalsBefore(DiscardMessagesBefore(@, slice.signals_end), slice.begin)]
  IN  RerouteRejectedMessages(
        s, y, RejectedMessages(st, slice.signals_end, slice.reject_signals))

Sources(payload) == {r \in DOMAIN payload : payload[r] # None}

\* The subnets are visited one after the other, in the order of their ids.
GarbageCollectStreams(s, payload, x) ==
  LET sources == SetToSeq(Sources(payload))
      after[i \in 0 .. Len(sources)] ==
        IF i = 0 THEN x
        ELSE GarbageCollectLocalState(s, sources[i], after[i - 1], payload[sources[i]])
  IN  after[Len(sources)]

InductStreamSlices(s, payload, full, x) ==
  LET sources == SetToSeq(Sources(payload))
      after[i \in 0 .. Len(sources)] ==
        IF i = 0 THEN x
        ELSE InductMessages(s, sources[i], full, after[i - 1], payload[sources[i]].messages)
  IN  after[Len(sources)]

ProcessStreamSlices(s, payload, full, x) ==
  InductStreamSlices(s, payload, full,
                     GarbageCollectStreams(s, payload, InductLoopbackStream(s, full, x)))

(***************************************************************************)
(* XNetPayloadBuilder.                                                     *)
(***************************************************************************)

\* The next message and signal expected from r: after the latest slice of r
\* among the payloads, or else what the certified state says.
ExpectedMessageIndex(s, r) ==
  LET ends == {i \in DOMAIN payloads[s] :
                 payloads[s][i][r] # None /\ payloads[s][i][r].messages # <<>>}
  IN  IF ends = {} THEN certified[s][r].signals_end
      ELSE SliceMessagesEnd(payloads[s][Max(ends)][r])

\* Fault: the signal after the one that is expected.
ExpectedSignalIndex_OffByOne(s, r) ==
  LET slices == {i \in DOMAIN payloads[s] : payloads[s][i][r] # None}
  IN  IF slices = {} THEN certified[s][r].begin
      ELSE payloads[s][Max(slices)][r].signals_end + 1

ExpectedSignalIndex(s, r) ==
  LET slices == {i \in DOMAIN payloads[s] : payloads[s][i][r] # None}
  IN  IF slices = {} THEN certified[s][r].begin
      ELSE payloads[s][Max(slices)][r].signals_end

\* validate_signals refuses older reject signals.  Its MAX_STREAM_MESSAGES is four
\* times the one of stream_builder.rs.
MaxSignalAge == 4 * MAX_STREAM_MESSAGES

\* Fault: signals need not be newer than the ones already in a block.
ValidateSignals_NotMonotonic(s, r, slice) ==
  /\ slice.signals_end <= MessagesEnd(certified[s][r])
  /\ \A i \in slice.reject_signals : slice.signals_end - i <= MaxSignalAge
  /\ ValidSignals(slice.signals_end, slice.reject_signals)

ValidateSignals(s, r, slice) ==
  /\ ExpectedSignalIndex(s, r) <= slice.signals_end
  /\ slice.signals_end <= MessagesEnd(certified[s][r])
  /\ \A i \in slice.reject_signals : slice.signals_end - i <= MaxSignalAge
  /\ ValidSignals(slice.signals_end, slice.reject_signals)

\* Fault: every system subnet has the limit, for every other subnet.
MsgLimit_AllSystem(s, r) ==
  IF s \notin System THEN MaxIndex
  ELSE Max({0, SYSTEM_SUBNET_STREAM_MSG_LIMIT - Len(certified[s][r].messages)})

\* get_msg_limit: the NNS, and system subnets for application subnets, accept
\* the fewer messages the more they have waiting in the reverse stream.  No
\* limit is MaxIndex, which no stream is longer than.
MsgLimit(s, r) ==
  IF s \notin System \/ (s # NNS /\ r \in System) THEN MaxIndex
  ELSE Max({0, SYSTEM_SUBNET_STREAM_MSG_LIMIT - Len(certified[s][r].messages)})

ValidateSlice(s, r, slice) ==
  LET expected == ExpectedMessageIndex(s, r)
  IN  /\ slice.begin <= slice.end
      /\ slice.begin <= expected /\ expected <= slice.end
      /\ ~(slice.messages = <<>> /\ slice.signals_end = ExpectedSignalIndex(s, r))
      /\ slice.messages # <<>> =>
           /\ slice.begin <= slice.messages_begin
           /\ SliceMessagesEnd(slice) <= slice.end
           /\ slice.messages_begin = expected
           /\ Len(slice.messages) <= MsgLimit(s, r)
      /\ ValidateSignals(s, r, slice)

\* What take_slice can return: the pooled messages from the expected index on,
\* cut off at any length (byte_limit), if the pooled slice is not past it.
TakenSlices(s, n, r) ==
  LET st   == pool[s][n][r]
      from == ExpectedMessageIndex(s, r)
  IN  IF from < st.begin THEN {}
      ELSE {Slice(st, from, len) :
              len \in 0 .. Min({MsgLimit(s, r), Max({0, MessagesEnd(st) - from})})}

(***************************************************************************)
(* StreamBuilder.                                                          *)
(***************************************************************************)
IsAtLimit(s, dst) ==
  LET len == Len(streams[s][dst].messages)
  IN  \/ len >= MAX_STREAM_MESSAGES
      \/ s # dst /\ dst \in System /\ len >= 2 * SYSTEM_SUBNET_STREAM_MSG_LIMIT

\* The message goes from a canister at s into the stream to its receiver.  Every
\* canister has a route here, and no payload is oversized.
RouteMessage(s, msg) ==
  LET dst == Route(s, Receiver(msg))
  IN  /\ ~IsAtLimit(s, dst)
      /\ MessagesEnd(streams[s][dst]) < MaxIndex
      /\ streams' = [streams EXCEPT ![s][dst] = StreamPush(@, msg)]
-----------------------------------------------------------------------------

Init ==
  /\ streams = [s \in Subnets |-> [r \in Subnets |-> EmptyStream]]
  /\ certified = streams
  /\ pool = [s \in Subnets |-> [n \in Nodes |-> streams[s]]]
  /\ payloads = [s \in Subnets |-> <<>>]
  /\ executed = [s \in Subnets |-> 0]
  /\ registry = [s \in Subnets |-> 0]
  /\ at = Home
  /\ call = [k \in Calls |-> "idle"]
  /\ callback = [k \in Calls |-> 0]
  /\ next_callback_id = [c \in Canisters |-> 0]
  /\ work = [k \in Calls |-> "none"]
  /\ lost = {}

\* A canister makes its next call.
SendRequest(k) ==
  /\ call[k] = "idle"
  /\ \A j \in Calls : j < k /\ Caller[j] = Caller[k] => call[j] # "idle"
  /\ at[Caller[k]] # None
  /\ RouteMessage(at[Caller[k]], Request(k))
  /\ call' = [call EXCEPT ![k] = "open"]
  /\ next_callback_id' = [next_callback_id EXCEPT ![Caller[k]] = @ + 1]
  /\ callback' = [callback EXCEPT ![k] = next_callback_id'[Caller[k]]]
  /\ UNCHANGED <<certified, payloads, executed, pool, registry, at, work, lost>>

\* A canister answers a call it has received.
SendResponse(k) ==
  /\ work[k] = "held"
  /\ at[Callee[k]] # None
  /\ RouteMessage(at[Callee[k]], Response(k))
  /\ work' = [work EXCEPT ![k] = "answered"]
  /\ UNCHANGED <<certified, payloads, executed, pool, registry, at, call, ids, lost>>

\* The canister is uninstalled, which deletes its call contexts, so that it may stop
\* without waiting for responses; its callbacks are gone, and ids start again.
StopUninstalled(c) ==
  /\ c \in Unstable
  /\ at[c] # None
  /\ call' = [k \in Calls |-> IF Caller[k] = c /\ call[k] = "open" THEN "orphaned"
                              ELSE call[k]]
  /\ next_callback_id' = [next_callback_id EXCEPT ![c] = 0]
  /\ UNCHANGED <<streams, certified, payloads, executed, pool, registry, at, callback, work,
                 lost>>

\* Node n of subnet s pulls the certified stream of r.  (In pieces, by byte limits:
\* TakenSlices cuts it anywhere.)
RefillPool(s, n, r) ==
  /\ pool' = [pool EXCEPT ![s][n][r] = certified[r][s]]
  /\ UNCHANGED <<streams, certified, payloads, executed, registry, at, call, ids, work, lost>>

Others(s) == Subnets \ {s}

\* A block with this payload is finalized: its slices have been validated.
MakeBlock(s, payload) ==
  /\ Len(payloads[s]) < MaxPayloads
  /\ \A r \in Sources(payload) : ValidateSlice(s, r, payload[r])
  /\ payloads' = [payloads EXCEPT ![s] = Append(@, payload)]
  /\ UNCHANGED <<streams, certified, executed, pool, registry, at, call, ids, work, lost>>

\* A node makes a block with slices from its pool.
Propose(s, n) ==
  \E payload \in [Others(s) -> {None} \cup UNION {TakenSlices(s, n, r) : r \in Others(s)}] :
    /\ \A r \in Sources(payload) : payload[r] \in TakenSlices(s, n, r)
    /\ MakeBlock(s, payload)

\* The next block is executed.
ProcessBatch(s) ==
  /\ executed[s] < Len(payloads[s])
  /\ \E full \in SUBSET Calls :
       LET x == [streams |-> streams[s], call |-> call, work |-> work, lost |-> lost]
           y == ProcessStreamSlices(s, payloads[s][executed[s] + 1], full, x)
       IN  /\ \A r \in Subnets : MessagesEnd(y.streams[r]) <= MaxIndex
           /\ streams' = [streams EXCEPT ![s] = y.streams]
           /\ call' = y.call
           /\ work' = y.work
           /\ lost' = y.lost
  /\ executed' = [executed EXCEPT ![s] = @ + 1]
  /\ UNCHANGED <<certified, payloads, pool, registry, at, ids>>

\* The latest state of s is certified.
Certify(s) ==
  /\ certified' = [certified EXCEPT ![s] = streams[s]]
  /\ payloads' = [payloads EXCEPT ![s] = SubSeq(@, executed[s] + 1, Len(@))]
  /\ executed' = [executed EXCEPT ![s] = 0]
  /\ UNCHANGED <<streams, pool, registry, at, call, ids, work, lost>>

\* Subnet s starts to use the new routing table at a round's start.  That the
\* canister's state leaves its old home with that subnet's switch, and is on the
\* target subnet when this one switches, is up to the operators who move it.
UpdateRegistry(s) ==
  /\ Mover # None
  /\ registry[s] = 0
  /\ s = Target => registry[Home[Mover]] = 1
  /\ registry' = [registry EXCEPT ![s] = 1]
  /\ at' = [at EXCEPT ![Mover] = IF s = Home[Mover] THEN None
                                 ELSE IF s = Target THEN Target ELSE @]
  /\ UNCHANGED <<streams, certified, payloads, executed, pool, call, ids, work, lost>>

Next ==
  \/ \E k \in Calls : SendRequest(k) \/ SendResponse(k)
  \/ \E c \in Canisters : StopUninstalled(c)
  \/ \E s \in Subnets : \/ \E n \in Nodes, r \in Others(s) : RefillPool(s, n, r)
                        \/ \E n \in Nodes : Propose(s, n)
                        \/ ProcessBatch(s)
                        \/ Certify(s)
                        \/ UpdateRegistry(s)

Spec == Init /\ [][Next]_vars

\* The longest slice of r that the pool of n has and the limits allow, if it is
\* of any use.
BestSlice(s, n, r) ==
  LET valid == {slice \in TakenSlices(s, n, r) : ValidateSlice(s, r, slice)}
  IN  IF valid = {} THEN None
      ELSE CHOOSE slice \in valid : \A other \in valid :
             Len(other.messages) <= Len(slice.messages)

\* What get_xnet_payload builds when there is no shortage of space.
ProposeBest(s, n) == MakeBlock(s, [r \in Others(s) |-> BestSlice(s, n, r)])

\* Blocks are made, executed and certified, pools are refilled; canisters answer.
\* Block makers rotate, so every honest node's turn comes again and again, but
\* other blocks may come in between.
FairSpec ==
  /\ Spec
  /\ \A s \in Subnets : /\ WF_executed(ProcessBatch(s))
                        /\ WF_<<certified, payloads, executed>>(Certify(s))
                        /\ WF_registry(UpdateRegistry(s))
                        /\ \A n \in Nodes : /\ SF_payloads(ProposeBest(s, n))
                                            /\ \A r \in Others(s) : WF_pool(RefillPool(s, n, r))
  /\ \A k \in Calls : SF_work(SendResponse(k))

-----------------------------------------------------------------------------

MessageType == [kind : {"Request", "Response"}, call : Calls]

StreamOk(st) ==
  /\ st.begin \in 0 .. MaxIndex
  /\ st.messages \in Seq(MessageType)
  /\ st.signals_end \in 0 .. MaxIndex
  /\ st.reject_signals \subseteq 0 .. (MaxIndex - 1)
  /\ ValidSignals(st.signals_end, st.reject_signals)

\* Types and bounds; no reject signal beyond the end of the signals, no more blocks
\* executed than there are.
TypeOK ==
  /\ \A s, r \in Subnets : StreamOk(streams[s][r]) /\ StreamOk(certified[s][r])
  /\ \A s \in Subnets : executed[s] \in 0 .. Len(payloads[s])
  /\ registry \in [Subnets -> 0 .. 1]
  /\ at \in [Canisters -> Subnets \cup {None}]
  /\ call \in [Calls -> CallStates]
  /\ callback \in [Calls -> Nat] /\ next_callback_id \in [Canisters -> Nat]
  /\ work \in [Calls -> {"none", "held", "answered"}]
  /\ lost \subseteq MessageType

\* The assertions that stream_handler.rs makes about a slice before it touches
\* the streams, for the next block: its signals are for messages the stream still
\* has, its messages start where our signals end, and its header covers them.
\* A failure would stop every node of the subnet at the same block.
SliceApplicable(s, r, slice) ==
  LET st == streams[s][r]
  IN  /\ ValidSignals(slice.signals_end, slice.reject_signals)
      /\ ValidSignalsForMessages(slice.signals_end, st.begin, MessagesEnd(st))
      /\ ValidSignals(st.signals_end, st.reject_signals)
      /\ ValidSignalsForMessages(st.signals_end, slice.begin,
                                 IF slice.messages = <<>> THEN slice.end
                                 ELSE SliceMessagesEnd(slice))
      /\ slice.messages # <<>> => slice.messages_begin = st.signals_end

\* Whatever was validated against an old certified state and the payloads since
\* applies to the state it meets when it is executed.
BlocksApplicable ==
  \A s \in Subnets :
    executed[s] < Len(payloads[s]) =>
      LET payload == payloads[s][executed[s] + 1]
      IN  \A r \in Sources(payload) : SliceApplicable(s, r, payload[r])

\* The assertion of validate_signals: the next signal expected is for a message
\* of the certified stream, or the one after.
ExpectedSignalsInStream ==
  \A s \in Subnets : \A r \in Others(s) :
    ValidSignalsForMessages(ExpectedSignalIndex(s, r), certified[s][r].begin,
                            MessagesEnd(certified[s][r]))

\* Places where a message is on its way: in a stream, and not signalled yet or
\* rejected.
InFlight(msg) ==
  {p \in Subnets \X Subnets \X (0 .. MaxIndex) :
     LET st   == streams[p[1]][p[2]]
         back == streams[p[2]][p[1]]
     IN  /\ p[3] \in StreamIndices(st)
         /\ MessageAt(st, p[3]) = msg
         /\ p[3] >= back.signals_end \/ p[3] \in back.reject_signals}

\* Every call that waits for its response is in exactly one place, as a request under
\* way, with its callee, or as a response under way; other calls are nowhere.  So
\* nothing is duplicated by a stale slice and no call loses its response on the way,
\* in particular none that is rejected, rerouted or answered while its caller migrates,
\* or after its caller has forgotten it.
CallsConserved ==
  \A k \in Calls :
    Cardinality(InFlight(Request(k))) + Cardinality(InFlight(Response(k)))
      + (IF work[k] = "held" THEN 1 ELSE 0)
    = IF Pending(call[k]) THEN 1 ELSE 0

\* Of the drops that the code logs as critical errors only one can happen: a canister
\* that was uninstalled has stopped with calls outstanding, and is sent their responses,
\* or those of later calls whose callback such a response has taken.  Requests, and
\* responses that somebody waits for, are never dropped.
OnlyOrphansLost == \A msg \in lost : msg.kind = "Response" /\ call[msg.call] = "gone"

\* "Responses should always be inducted successfully", says the code where it drops one.
ResponsesInducted == \A msg \in lost : msg.kind # "Response"

\* Requests from one canister to another arrive in the order of sending, even if
\* the callee migrates: one that is overtaken (its stream still leads to the old
\* host) is never received, only refused.
RequestsInOrder ==
  [][\A j, k \in Calls :
       /\ j < k /\ Caller[j] = Caller[k] /\ Callee[j] = Callee[k]
       /\ work[j] = "none" /\ work[k] # "none"
       => work'[j] = "none"]_vars

\* The response to every call comes, also when the caller migrates in between: full streams
\* and the message limits of system subnets never stall two subnets on each other,
\* and a response that is rejected and rerouted arrives in the end.
CallsAnswered == []<>(\A k \in Calls : ~Pending(call[k]))
=============================================================================
