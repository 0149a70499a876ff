# Messages, canisters and consensus of the Internet Computer replica

TLA+ models of the path a message takes between two canisters: the queues of a
canister, the streams between subnets, the blocks that carry slices of those streams,
the agreement of a subnet's replicas on these blocks, and the calls of a canister while it
is executed, stopped and uninstalled. Everything is translated from the Rust sources under `rs/`; `PROJECT.json`
maps each definition to the lines it models.

## 1. Inventory

| component | state | operations | what makes it hard |
|---|---|---|---|
| Output queue (`replicated_state/.../queues/queue.rs`) | items and tombstones, reserved slots, absolute begin index, compressed deadline ranges, timeout index, message count | push request/response, reserve, pop, time out, encode/decode | two indices that advance in different operations; one deadline per range of requests; decoding refuses a queue whose invariants fail |
| Canister queues (`replicated_state/.../queues.rs`, `system_state.rs`) | a pair of queues per peer, two input schedules, ingress, round-robin position, three statistics | push/pop input and output, induct to self, time out, reject, garbage collect, decode | a request in one queue reserves in the other; both ends of a self-call share a pair; statistics kept by deltas |
| Streams (`metadata_state.rs`, `types/src/xnet.rs`) | messages from an index on, `signals_end`, reject signals | push, discard, signal, slice | indices of two streams in opposite directions refer to each other |
| Stream handler (`messaging/.../stream_handler.rs`) | works on the streams and canisters of one subnet | induct the loopback stream, garbage collect, reroute, induct slices | asserts instead of errors: a wrong slice stops every node of the subnet at once |
| Stream builder (`messaging/.../stream_builder.rs`) | streams | route output queues into streams | limits, backpressure |
| XNet payload builder and slice pool (`xnet/payload_builder`) | pooled certified slices | expected indices, build, validate, refill | validation against a state that is older than the one the block meets |
| Demux and state machine (`messaging/src/state_machine.rs`, `demux.rs`) | – | a round: time out, induct, execute, route | order of the phases |
| Routing table and canister migrations (`registry/routing_table`) | ranges, migration paths | route, lookup | subnets use different versions at the same time |
| Call contexts and status (`call_context_manager.rs`, `system_state.rs`) | contexts with origin, cycles and flags; callbacks; stop requests | open, answer, delete; register, unregister; start, stop | uninstalled contexts whose callbacks stay; ids that start again |
| Execution environment (`execution_environment/src`) | long executions, paused or aborted | execute requests, responses, system tasks; stop, start, uninstall, install, delete | state validated in one round and used in another; code that goes away in between |
| Scheduler (`scheduler.rs`) | compute allocation, round limits | rounds, drain subnet queues, charge, abort | long executions, blocked messages, fairness |
| Consensus (`consensus/src/consensus`) | per replica: validated proposals, notarizations, finalizations, beacons, catch-up packages, its own shares | make, validate, notarize, finalize and deliver blocks; catch up | equivocating replicas, quorums, replicas at different heights, restart |
| DKG, threshold ECDSA, certification | artifact pools | dealings, transcripts, certify | Byzantine nodes, quorums, timeouts |
| P2P, transport, artifact pools | download lists, peers | adverts, requests, chunks, retries | lost and late messages |
| State manager, state sync | states by height, certifications, checkpoints | commit, certify, remove, sync | crash between steps |
| Ingress manager and history | ingress pool, statuses | validate, select, update status | de-duplication, expiry |
| Registry, governance, ledgers, Bitcoin, HTTP endpoints, orchestrator, cryptography | application data or I/O | | outside the core message path |

How they interact. Consensus delivers one batch per height to the state machine. It
times out requests, hands the batch's stream slices to the stream handler (which inducts
messages into canister queues and updates streams), runs the scheduler (which pops input
queues and pushes output queues), and calls the stream builder (which pops output queues
into streams). The state manager certifies the result; other subnets pull the certified
streams into their slice pools, from which block makers build payloads.

What makes the path correct: a response that is let in finds the slot reserved for it, and a slot
leaks only with a response that is refused; a sender with messages is scheduled exactly once and served in turn; a request
leaves its queue either to a stream or by a time-out when, and only when, it is due; a
queue can always be decoded again; every call gets exactly one response, across stale
pools, repeated signals and a migration, and none is dropped that anybody waits for; no validated block violates an assertion; all
replicas execute the same blocks in the same order, and none is left behind; every request
to a canister is answered and its cycles are returned once, every response finds its
callback unless the canister was uninstalled and stopped, every request to stop is answered if
the canister winds down.

## 2. Modules

| module | models |
|---|---|
| `QueueOps` | `queue.rs` as operators on records: `QueueWithReservation`, `InputQueue`, `OutputQueue` |
| `OutputQueue` | one output queue over rounds, time and restarts |
| `OutputQueueProofs` | theorems about `OutputQueue` |
| `CanisterQueues` | the record `cq` is `CanisterQueues`; around it the canister's open calls (`owed`, `awaiting`), those it has forgotten and the responses refused (`forgotten`, `dropped`), its messages in the loopback stream, the hosted canisters and time |
| `MCCanisterQueues` | message sizes and payments for TLC |
| `QueueOpsProofs` | lemmas about sums and about the operators of `QueueOps` |
| `CanisterQueuesProofs` | theorems about `CanisterQueues` |
| `StreamOps` | `Stream`, `StreamIndexedQueue`, `StreamSlice` and the handler's assertions as operators |
| `XNet` | subnets with streams, certified states, payloads, slice pools, routing tables; calls between canisters; the migration of one canister |
| `MCXNet` | who calls whom, for TLC |
| `AgreedLog` | what consensus promises: one log of blocks that only grows, of which every replica has executed a prefix |
| `Consensus` | the pools of the honest replicas of a subnet and the subcomponents of `ConsensusImpl` |
| `MCConsensus` | small trees of blocks, committees |
| `ConsensusProofs` | agreement: theorems about shares and quorums; what an honest replica's pool always contains; the finalized chain, and that `Consensus` implements `AgreedLog` |
| `CanisterLifecycle` | call contexts, status and executions of one canister over rounds |
| `CanisterLifecycleProofs` | theorems about `CanisterLifecycle` |
| `XNetProofs` | theorems about `XNet`: slices and streams fit together |
| `XNetCallsProofs` | theorems about `XNet`: calls between canisters are conserved, requests are received in order |
| `NaturalSets` | induction over numbers, for the proof modules |

`CanisterQueues` builds on the operators of `QueueOps` that the theorems are about;
`XNet` builds on `StreamOps`; `Consensus` implements `AgreedLog`, the one sequence of
payloads that `XNet` takes for granted.

### OutputQueue

The variable `q` has the fields of the Rust struct; `now` is the batch time. Each request
carries the ghost field `due`, the deadline it was pushed with, which the code keeps only
per range. Loops of the code (skipping tombstones, consumed and expired ranges) are the
longest prefixes they stop at. `Restart` decodes the queue, guarded by what decoding
insists on.

### CanisterQueues

| action | code |
|---|---|
| `ReceiveIngress`, `FilterIngress` | `push_ingress`; expiry of ingress messages in the scheduler |
| `ReceiveRequest`, `ReceiveResponse` | `SystemState::push_input` → `CanisterQueues::push_input` |
| `InductLoopback` | the loopback stream's head is inducted, or refused with a response |
| `Execute` | `pop_input` |
| `SendRequest`, `SendResponse` | `push_output_request`, `push_output_response` |
| `CallUnroutable` | `reject_ic00_output_request` |
| `RouteOutput` | the output iterator of the stream builder or of same-subnet induction pops |
| `InductMessageToSelf` | `induct_message_to_self` |
| `StartRound` | `ReplicatedState::time_out_requests` |
| `CollectGarbage`, `Restart` | before, and after, a checkpoint |
| `StopUninstalled` | the canister is uninstalled, stops with calls outstanding, and is started |
| `DeleteCanister` | a stopped local peer is deleted |

Messages are a kind, a size and a payment: what statistics, reservations and schedules
depend on. A call that fails for lack of a slot still leaves a new, empty queue pair
behind, as in the code. `owed` and `awaiting` stand for the callers' and the canister's
call contexts: one response per request. After `StopUninstalled` the callbacks of earlier calls are
gone, so that `ReceiveResponse` and `InductLoopback` may have the response refused (`Refuse`):
`SystemState::push_input` returns an error, the stream handler drops the response, and the slot
reserved for it is never released.

`PeekInput`, `SkipInput`, `DetectedLoop` and the loop `SkipAll` are what
`drain_subnet_queues` does to the queues of the subnet, which have the same structure; they
are operators, evaluated on every reachable set of queues.

### XNet

| action | code |
|---|---|
| `SendRequest(k)`, `SendResponse(k)` | the stream builder's loop moves a message into a stream |
| `RefillPool(s, n, r)` | node `n` of `s` pulls the certified stream of `r` |
| `Propose(s, n)` | `get_xnet_payload` on the node's pool, `validate_xnet_payload`, finalization |
| `ProcessBatch(s)` | `process_stream_slices`: loopback, garbage collection, induction |
| `StopUninstalled(c)` | canister `c` is uninstalled, stops with calls outstanding, and is started |
| `Certify(s)` | a certification of the latest state is delivered to the state manager |
| `UpdateRegistry(s)` | the subnet switches to the new routing table |

`payloads[s]` are the payloads after the certified state, of which `executed[s]` are
executed: what `expected_indices_for_stream` looks at. `call` and `work` are a call's
state at its caller and callee, `lost` collects messages the code drops with a critical
error. `callback` is the callback id a call was sent with. A response is let in if some open call
of its receiver has that id and the same callee (`Matching`, which is `validate_response`), and it
takes that call's callback, whichever call it answers. A call without its callback is *orphaned*
until its response has come, then *gone*.

### Consensus

A call of `on_state_change` runs subcomponents until one has something to change, so each
subcomponent is an action on the validated section of one replica's pool.

| action | code |
|---|---|
| `MakeBlock` | `BlockMaker::on_state_change` |
| `Notarize` | `Notary::on_state_change` |
| `MakeBeaconShare` | `RandomBeaconMaker::on_state_change` |
| `Finalize` | `Finalizer::on_state_change`: `deliver_batches`, then `pick_block_to_finality_sign` for every round in question |
| `MakeCupShare`, `StateSync` | `CatchUpPackageMaker` |
| `AggregateNotarizations` | `ShareAggregator`, current round |
| `AddBeacon`, `AddFinalization`, `AddCup` | aggregated here, or received and validated |
| `ValidateNotarization` | `validate_notarizations` |
| `ValidateBlock`, `ValidateNotarizedBlock` | the two ways through `validate_blocks`: on its own, unless a better rank is known, and together with its notarization |
| `Restart` | the pool is on disk, the state goes back to a checkpoint |

`Blocks` is a tree of all blocks that could be made; a block stands for its hash. Faulty
replicas have no state: what they could have signed counts as signed, what they could have
proposed is available to anybody at any time (`faulty` is the set of those who help). An
honest replica's shares are never taken back, so a share that is late is one that has not
been used yet. `AfterBeaconMaker` is what is left of the fixed order of the subcomponents:
block maker and validator run only when the beacon maker had nothing to do.

Refinement: `Log == INSTANCE AgreedLog` maps the log to the chain of the highest block
finalized anywhere (`Chain[Tip]`) and the executed prefix of a replica to the blocks
behind its state. The property `ExecutesOneLog` is `Log!Spec`.

### CanisterLifecycle

| action | code |
|---|---|
| `InductRequest`, `InductResponse` | `SystemState::push_input`, `ValidSetRule`, `StreamHandlerImpl::induct_message` |
| `ExecuteInput`, `ContinueLong` | `execute_canister`: the next message, or the long execution; to its end or paused |
| `ExecuteSystemTask` | heartbeat and global timer |
| `StopCanister`, `StartCanister`, `UninstallCode`, `InstallCode`, `DeleteCanister` | messages to the management canister, which wait while the canister has a long execution |
| `InnerRound`, `FinishRound` | the two phases of a round; at its end stopping, charging (and uninstalling when the canister cannot pay), aborting |

A paused execution changes nothing until it is resumed, when the code validates again and
replays; so it is one step, taken in a later round on whatever the canister has become. A
response carries the callback id, which may be reused, and the number of the call, which is
not: `stray` are calls whose response went elsewhere. `answers` and `settled` count the
responses and cycles every request got.

## 3. Runs

| run | bounds | what it shows |
|---|---|---|
| `output_queue` | capacity 4, lifetime 2, times to 5, indices to 7 | the queue keeps the invariants it is decoded with; ranges tell the exact deadline of each request; nothing overdue stays, nothing else is dropped |
| `canister_queues_self` | capacity 3, two payloads (one larger than a response slot, one with cycles), two rounds, the canister may forget its calls | self-calls: statistics equal their definition, reservations equal the responses to come and those refused, cycles are conserved, queues stay decodable |
| `canister_queues_peers` | a local, a remote and the management canister as peers, capacity 2, one round, the canister may forget its calls | schedules, reservations and collection; a slot leaks for each refused response and for nothing else; senders of a schedule are served in turn and none starves; the loop detector looks everywhere and stops |
| `canister_queues_assertion` | subnet and management canister as peers | the first finding of section 6 |
| `xnet_pools` | one call, two block makers, blocks up to 3 ahead of the certified state, caller migrates | validated blocks are applicable, the assertion of `validate_signals` holds |
| `xnet_move_callee` | two calls, callee migrates, the caller may forget its calls at any time | calls conserved, requests in order; only responses that nobody waits for are dropped |
| `xnet_move_caller` | two calls, two system subnets, all limits 1, caller migrates | rejected responses are rerouted once; every call is answered |
| `xnet_refused` | one call, the caller may forget it | the second finding of section 6 |
| `consensus_fork` | four replicas, one faulty and equivocating; two rounds, a fork in the first that is decided by the second, one batch executed | no round is finalized twice, finality shares bind; `get_finalized_block` and its short cut; all replicas execute the same block of the fork |
| `consensus_live` | the same subnet, one round, only equivocating blocks | rounds complete |
| `consensus_catch_up` | two replicas, three rounds, a catch-up package for the second | pools complete, beacon shares in time and a beacon for every round, one log, nobody left behind |
| `canister_lifecycle` | an ingress message, a request with a cycle, two calls, two contexts between two starts, two stop requests | requests settled, contexts consistent, responses find their call, stops answered where the canister winds down |

Why the bounds are enough for the interesting cases. Capacity 2 makes queues full, 3 and 4
allow a tombstone between live items; indices run past the capacity so that a queue
wraps its first items; several deadline ranges need lifetime 2 and times to 5. Blocks 3
past the certified state (`xnet_pools`) are needed for a block to be validated while two others are
pending; two pools per subnet for old signals after newer ones. Two calls are the least
that can be reordered. Four replicas are the least that tolerate a fault, and two blocks of
one faulty maker the least that splits the honest replicas (of equal rank, so that a replica may
sign them in either order; blocks of different ranks are in the theorems); two rounds
are needed to finalize a fork through its child, three for a catch-up package with a block
above it (`consensus_catch_up` has no faulty replica: with two replicas every committee is one
replica, so that a replica can fall behind and still find everything signed). In
`canister_lifecycle` two calls allow an execution with two callbacks and a response that makes
a call; two stop requests one that joins another; two peers instead of one were
checked as well (342 852 states). Every property has a mutant of the code (definitions `X_Fault`
next to `X`) that violates it under the same bounds.

The named bounds `MaxTime`, `MaxIndex`, `MaxIngress`, `MaxPayloads`, `MaxBatches`,
`MaxContexts`, `MaxCalls` and `MaxParallel` are guards of the
actions that would exceed them. `FirstBeacon` is 0 or 1: with 1 the beacon of height 1, which
needs no block, is there from the start, which leaves the beacons out of a one-round run. In `xnet_move_callee` `MaxIndex` stops
nothing: a larger value gives the same states. In `xnet_pools` and `xnet_move_caller` it cuts off an unbounded
exchange: until the callee's subnet learns of the migration, a response goes to the caller's
old home, is rejected by signal, and is sent there again; indices to 3 and 4 allow it more than
once.

The passing runs check deadlock, except those of `Consensus`: there the tree of blocks is
finite, and when all of it is executed the modelled part of the system stops.

### Fairness

* `CanisterQueues`: weak fairness of `Execute`. The scheduler gives every canister with
  input its turn. Nothing is assumed about arrivals.
* `XNet`: weak fairness of `ProcessBatch`, `Certify` and `RefillPool` (finalized blocks
  are executed, states certified, pools refilled by a periodic task); strong fairness of
  `ProposeBest` per node: block makers rotate, so each node's block is chosen again and
  again, but others come in between; strong fairness of `SendResponse`: a stream that is
  again and again below its limit takes a waiting message eventually, as the output
  iterator goes round robin over canisters. `ProposeBest` takes the longest valid slice;
  `Propose` (any slices) has no fairness. Weak fairness of `UpdateRegistry`: the registry has
  a new routing table from the start, and every subnet reads it in the end, so in a run with a
  migration it begins and is completed. Nothing is assumed about when.
* `Consensus`: weak fairness, per honest replica, of what it can do without the help of a
  faulty one (`PoolStep`): the round robin calls every subcomponent again, rank delays pass,
  and gossip delivers what honest replicas have validated; `consensus_catch_up` also assumes
  it of `Finalize` and `StateSync` (message routing takes batches, the random tape is made,
  peers serve the state). Nothing is assumed about faulty replicas or restarts.
* `CanisterLifecycle`: rounds go on; every call of the canister is answered (which is
  `CallsAnswered` on the other side); strong fairness for the execution of its responses and
  the end of a long execution, because the scheduler comes back to every canister, and
  executions are aborted only to be begun again and have an instruction limit. Nothing is
  assumed about requests, starts, stops or uninstalling. `StopsAnswered` has a premise,
  `WindsDown`: from some time on a stopping canister makes no more calls. It cannot be left out.
  A canister stops when its contexts are gone, its callbacks run while it is stopping, and neither
  `response.rs` nor the call context manager keeps them from making new calls, so that a stop
  request may be unanswered for ever. That is up to the canister's code. `MaxCalls` bounds the
  calls ever made, so in the run all behaviours wind down; callback ids are not reused within
  one manager, so the bound cannot be replaced by one on the calls that are open. What the run
  shows is that nothing else, in particular no long execution, restart of the canister, deletion
  of code or late response, keeps a stop request waiting.

## 4. Proofs

`OutputQueueProofs` proves, for every capacity, lifetime and bound:

* `TypeCorrect` – types; no counter is decremented below zero;
* `InvariantsHold` – what `test_invariants` and the size check ask for, so `pop` meets no
  tombstone and decoding never fails;
* `RangesAreExact` – the first range that ends after a request has its deadline;
* `NothingOverdue` – after a round's start no queued request is due;
* `OnlyDueRequestsDropped` – an action property: an item leaves by `Pop` from the front or
  as a due request, everything else keeps its absolute index.

The assumptions are those of the modules: capacity, lifetime and bounds are natural
numbers (the lifetime positive), and the tombstone is not a message.

The inductive invariant `Inv` joins the four state properties with `TimeoutIndexInQueue`
(the timeout index does not pass the end) and `DeadlinesBounded` (no deadline is later than
`now` plus the lifetime). `QueueInvariants` alone is not inductive: discarding ranges by
`begin` and `timeout_index` keeps "no request before the timeout index" only if ranges tell
deadlines exactly, and a push may merge into the last range only if that one is not later.
`Pop` and `StartRound` both end with `advance_to_next_message`; a first group of lemmas
(`AdvanceKeepsItems`, `AdvanceRanges`, `AdvanceLive`, `AdvanceRestoresInvariants`) shows that
on a queue that satisfies the weaker `Advanceable` it restores the invariants and moves no
message. Then there is one lemma per action, and `NextInv` joins them.

`ConsensusProofs` proves, for every subnet size, tree of blocks, assignment of ranks,
certified heights and committees and set of summary heights:

* `TypeCorrect` – types;
* `FinalityShareBinding` – `FinalityShareBinds`;
* `Agreement` – `FinalizationExcludesForks`.

The assumptions: the tree is well formed and the context of a block names a state below it and not
below that of its parent; committees have the size `get_committee_size`
gives, and at most `get_faults_tolerated` of their members are faulty. That the two make
quorums intersect in an honest replica is proved (`Thresholds`, `QuorumsMeet`), not assumed.

The inductive invariant `Inv` joins the three properties' state with `MaximaExist` (the
notarized and the finalized height exist, since the tree may be infinite), `SharesBelow` (an
honest replica has shares for heights up to its notarized height plus one only, and finality
shares up to the notarized height) and `AggregatesSigned` (what is notarized or finalized
anywhere has a quorum of signatures). `FinalizationExcludesForks` alone says nothing about shares
not yet aggregated; `FinalityShareBinds` needs `SharesBelow`, because the notary does not look
at finality shares: it is safe only because the notarized height never falls below a height
that was finality-signed, also by a catch-up package or a restart. Lemmas state what the
readers of the pool return (`NotarizedHeightMax`, `FinalizedHeightMax`, `FinalizedBlockType`)
and that the notarized height grows (`NotarizedHeightGrows`); then there is one lemma per
action.

On this rest the theorems about the pools,

* `PoolsComplete` – `PoolComplete`: what the readers of a pool unwrap is there;
* `BeaconSharesInTime` – `BeaconShareFirst`.

Every action only adds to one replica's pool. `PoolEffect` says what it may add (a proposal
whose parent is notarized and whose beacon share is not due, a notarization of a proposal, a
finalization of a notarized block, a higher catch-up package), and `StepEffects` that each
action of `Next` has only such effects, so that the properties are proved once and not per
action. The inductive invariant `PoolInv` is the earlier `Inv` with the two properties and
`ProposalsAfterShare`: a member of the beacon committee who has a proposal has signed, or has, the
beacon of its height, though the proposal is not notarized yet. That is why `BeaconShareFirst` survives a notarization.

and, about the log,

* `FinalizedAnswers` – `FinalizedBlocksOnChain`: what `get_finalized_block` answers between the
  catch-up package and the finalized tip is the ancestor of the tip;
* `OneLogExecuted` – `Spec => Log!Spec`: `Consensus` implements `AgreedLog`.

`LogInv` adds to `PoolInv` that the parent of a proposal is notarized by some honest replica
(`ParentsNotarized`), that catch-up packages, also those only signed for, hold a block of the
finalized chain and the state after it (`CupsOnChain`), and that every state is one of the chain
(`StatesOnChain`). From these and `Agreement` follows `OneChain`: of two blocks that are finalized
or ancestors of finalized ones, the lower is an ancestor of the higher. So the log maps to the
chain of the highest one, which only grows (`ChainGrows`, `ChainPrefix`), and every action maps
to a step of `AgreedLog` or leaves the log and all executed prefixes as they are (`StepOfLog`). The assumption `Byzantine # Nodes` says that there is an honest replica; without
one there is no pool, and no tip to map the log to.

`CanisterLifecycleProofs` proves, for any number of requests, calls, contexts, stops and peers,
`TypesCorrect`, `EveryRequestSettled` (`RequestsSettled`), `ContextsStayConsistent`
(`ContextsConsistent`) and `ResponsesReachTheirCall` (`ResponsesFindTheirCall`). The inductive
invariant joins types with `Control` (what goes with the status of the canister), `Linked`
(contexts and callbacks refer to each other; a context that has responded holds no cycles),
`Resumable` (a paused execution can go on), `Settled` (where each request and its cycle is, with
the open contexts counted as sets) and, as long as there are no orphans, `CallsAwaited` (each
call not answered, and each response not executed, is awaited by its callback and is in one place
only). The properties are not inductive one by one: a context may be deleted only because it has
answered, and whether an answer finds its context depends on an execution that may be aborted and
repeated on a canister that was stopped or uninstalled since. An execution is described once, by
what it moves from the open contexts of a request to its answers and settled cycles (`Books`),
for all kinds of messages. `NamesAssumption` says that names are distinct: the origin of a system
task is no request, and no task is different from every task; in the code these are variants of
an enumeration and an `Option`.

`XNetProofs` proves, for any number of subnets, nodes, calls, pending blocks and messages and for
any migration, `StreamTypes` (`TypeOK`), `SlicesApply` (`BlocksApplicable`) and
`ExpectedSignalsFit` (`ExpectedSignalsInStream`). `BlocksApplicable` relates a slice to a
state it was not validated against, so it is far from inductive. The invariant has a chain of
marks for each pair of subnets (`Chained`): the message and the signal expected after each of the
payloads since the certified state. They begin with the indices of the certified stream, each
payload leads from one mark to the next, signals never pass the end of the certified stream, and
the latest stream is at the mark of the last block executed. `Certify` drops marks, `Propose` adds
one (`ExpectedIndices`: the last mark is what `expected_indices_for_stream` computes from the
latest slice), and `ProcessBatch` goes on to the next. For the last the *effect* lemmas follow
the stream handler loop by loop and show that executing a payload sets the beginning of each
stream to the signals of its slice, raises `signals_end` by the number of its messages and removes
nothing else, whatever is refused, rejected, rerouted or dropped on the way. The assumptions are
those of the module: finitely many subnets, limits and bounds that are natural numbers, and a
migration, if there is one, of a known canister to another subnet.

`XNetCallsProofs` proves, under the same assumptions, `CallsStayConserved` (`CallsConserved`)
and `OnlyOrphansAreLost` (`OnlyOrphansLost`). The indices of `Inv` are not enough for them: a slice also has
to bring the right messages. `CallInv` adds

* `AtHosts` – the routing tables of the subnets that a migration concerns agree with the place of
  the migrating canister;
* `AllOrderly` – for each pair of subnets, what a stream no longer has is signalled, what is
  signalled was in the stream, its messages are between possible hosts of sender and receiver, and
  only responses are rejected;
* `AllInOnePlace` – a call whose response is still to come has one message under way, or is with
  its callee, also when its caller has forgotten it; and only responses to calls that are gone have
  been dropped;
* `View` for each certified stream, pooled stream and slice of a pending payload – it is an
  earlier version of the stream it comes from: the stream has only grown at its end and lost
  messages at its beginning, and what both have is at the same index.

With `View` a block of any age does no harm: by `Inv` the messages of its slices begin at the next
signal, so they are those in the stream now, and its signals are ones that the other subnet really
gave. A call is not in one place all the time while a block is executed: the stream
handler takes rejected messages out of a stream before it reroutes them. `Sound` says the same of
the states in between, with the messages in hand, and there is one lemma for each operator of the
stream handler.

It also proves `RequestsStayInOrder` (`RequestsInOrder`), where no canister that calls migrates
(`CallersStay`); the callee may. The hypothesis is needed: the requests of a caller that migrates
leave from two subnets, and nothing orders the two streams (section 5). `OrderInv` adds to
`CallInv`

* `CallsOpened` – calls are made in their order, and only calls that were made are received;
* `Redirected` – a request is in a stream to the new host only if the sending subnet uses the new
  routing table, so that later ones go there as well;
* `Queued` – of two requests that are not signalled yet the earlier one has the lower index in the
  same stream, or leads to the old host and the later one to the new;
* `NoneAhead` – an earlier request that is still under way when a later one has been received leads
  to the old host, and the new one has the canister.

What a block does to requests is part of `Sound` (`InTurn`): none is added or moved, and one that
the callee has got was in a stream to this subnet, is now signalled, and the callee is here. The
last makes an overtaken request one that the old host can only refuse.

Induction is needed for the recursive `Ancestor`, for the loops of the stream handler and for
ranges of marks. `NaturalSets` has it with the predicate as a set of numbers
(`NatSetInduction`), with which the provers can cope, and the greatest element of a finite set.
For the same reason the loop `SkipAll` in `CanisterQueues` and the loops in `XNet` are recursive
functions, `Ascending` is a choice with the order as its condition, and `Cycles` in
`CanisterLifecycle` is the cardinality of a set and not a sum.

`CanisterQueuesProofs` proves, for any set of peers and payloads, finite or not, any capacity and
all sizes and limits:

* `TypeCorrect` – `TypeOK`;
* `StatisticsExact` – `StatsOk`: the statistics kept step by step equal those computed from scratch;
* `SlotsBalance` – `CallsBalance`: reserved slots are the responses still to come and those that
  were refused;
* `CheckpointsDecodable` – `QueuesDecodable`;
* `SchedulesExact` – `ScheduledOnce`;
* `CollectionComplete` – `CollectsToDefault`;
* `CyclesAreConserved` – `CyclesConserved`, an action property;
* `SendersTakeTurns` – `ServedInTurn`, an action property;
* `EverySenderSkipped` – `SkipsEverySender`.

`QueueOpsProofs` has what these need of the operators: sums over finite sets (the community
modules define them by a recursive function over subsets, so the lemmas first show that it exists
and that the order of summation does not matter), sums over the items of a queue, and what every
operation of `queue.rs` does to the items, slots, ranges and decoding checks of a queue.

The statistics and the slot equations depend only on the *contents* of the queue pairs: the items
and the reserved slots. A measure (`Measures`) weighs these; each counter is a measure added up
over the pairs, so that one lemma says how all counters change when one pair changes. `CqOk` joins
the shape of queues and schedules with statistics equal to their measures, and there is one lemma
per operation. Two operations pass through states in which the properties do not hold, and these
needed more:

* A time-out takes a request out of the output queue, then pushes the reject into the input queue.
  The statistics still account for the requests that come later in the same queue, or in the
  queues of other peers, though they have already been replaced by tombstones. `TimingOut` and
  `Expired` state this along the items of a queue, and then along the pairs, by induction. The
  reject finds its slot because the request held one, which is `CallsBalance`, so that the two
  have to be shown together.
* `InductMessageToSelf` and the loopback stream take a message from the own output queue and push
  it into the own input queue. `Balanced` states `CallsBalance` with the message in between.

`Inv` is `CqOk`, `AllBalanced` for the whole state with the messages in the loopback stream, and
the types of the rest; it is inductive. `ServedInTurn` follows from what each operation does to the schedules
(`Keeps`: none but appending, `Served`: the head goes to the end or leaves). `MessageType` and
`TombstoneAssumption` say that a tombstone is not a message (`None` of an `Option`); the other
assumptions are that sizes, limits and bounds are natural numbers, the lifetime positive, and
that the canister itself, the hosted peers, the subnet and the management canister have different
ids.

For `SkipsEverySender` the loop is followed turn by turn from any `cq` that satisfies `CqOk`
(`Touring`): after `n` skips of a schedule its first `n` senders have been looked at and the others
are still in front (`Rotated`, `Toured`); and the round robin comes to each source that has a
message every third turn (`OnTime`), so that after three turns for each sender of the longer
schedule the detector must have counted all of them. A skipped sender goes to the end rather than
leave the schedule because every scheduled sender has a message, which is `ScheduledOnce`.

Only model-checked: the liveness properties (fairness is beyond the prover). `RequestsInOrder`
of `XNet` is neither proved nor claimed for a migrating caller.

## 5. Abstractions

* A receiving canister's status, memory and queue limits are one nondeterministic refusal
  of requests in `XNet` (`full`); `CanisterQueues` has the queue limits themselves. Responses are
  refused when their callback is gone. In the code a canister that has stopped refuses them until
  it is started, and then as long as the id has not been given to a new call; in `XNet` and
  `CanisterQueues` stopping and starting are one step, because both refusals have the same effect.
  `XNet` gives a response to the canister's code as soon as it is inducted, so that the callback
  is taken then; `CanisterLifecycle` has the two steps. `CanisterQueues` has no callback ids: a
  response from a peer to which calls were forgotten is let in or refused.
* Deleting a canister removes it with its own queues; `CanisterQueues` has a peer deleted, and in
  `CanisterLifecycle` the canister itself. `XNet` deletes none: its messages would be refused as
  those of a forgotten call are.
* Same-subnet induction of messages is `RouteOutput` and `InductMessageToSelf` in
  `CanisterQueues`; in `XNet` canisters of a subnet would use the loopback stream.
* Byte limits cut slices anywhere (`TakenSlices`) and streams are limited by message counts.
  The pool holds the whole certified stream it pulled last. Oversized payloads and receivers
  without a route are left out of `XNet`; the reject response they produce is one of
  `ReceiveResponse`.
* Blocks are validated against the latest certified state of the subnet.
* Reject signals need certification version 9 or later; older versions stop the replica
  instead (`fatal!`).
* `MAX_STREAM_MESSAGES` is the one of `stream_builder.rs` (50 000); `validate_signals` has
  its own, four times as large (`MaxSignalAge`).
* Maps that the code iterates in key order (`BTreeMap`) are gone through in some order; the results
  do not depend on it except for the order of messages of different senders.
* The migration of a canister's state between subnets is done by operators. The model
  assumes that the migration path is known to all subnets before the routing table changes
  and stays known, and that the state is at the target when the target switches. The canister
  may move with open calls. That requests stay in order is claimed for a migrating callee
  only: when a caller moves, its new requests travel in another stream, and the procedure has
  to wait for the old one to drain.

* `Consensus`: payloads and time are left out, and of validation contexts all but the certified
  height; whether a delay has passed, a payload could be built, a state is certified already or a
  registry version is there is a choice. Shares are not sent one
  by one: an aggregate may be added as soon as enough replicas have signed, at any later
  time. Purging is left out: no reader looks below the catch-up package, which the model's
  readers respect. The random tape may hold up delivery at any time. Halting on upgrade or
  by the registry is not modelled. Committees are constants: in the code those
  that notarize follow from the beacon, those that hold the keys for beacons and catch-up packages
  (`lowCommittee`, `highCommittee`) from the DKG transcripts of a summary block. In the runs all
  replicas hold these keys; the theorems are for any two sets. A state sync is one step.
* `CanisterLifecycle`: queues have no order and no limits (see `CanisterQueues`); what the
  code of the canister does is any result, calls and acceptance of cycles that the system API
  permits. Its own balance, refunds for its own calls and the instructions it pays for are left
  out, and with them failures to pay for one execution. Callbacks record their respondent, as all
  that this version registers do; `validate_response` lets any response in for a callback of an
  older version that does not. Ingress expiry, replicated queries,
  upgrades and installing in slices are not modelled.

## 6. Findings, and two observations

`time_out_requests` ends with `debug_assert!(self.schedules_ok(..))` (`queues.rs:1039`).
`schedules_ok` counts a sender as local only if it is the canister itself or hosted by the
subnet. `reject_ic00_output_request` schedules the management canister as local, and
`ReplicatedState::push_input` does so for the subnet's own id; a deleted peer stays in
the local schedule as well. So the assertion can fail in a debug build, though each sender is
in the schedules exactly once, which is what its comment asks for and what release builds
rely on (`ScheduledOnce`). Run `canister_queues_assertion` gives the steps: a request, an
unroutable management call, a round that times the request out.

Where `induct_message` drops a response that could not be pushed, a comment says "Critical error,
responses should always be inducted successfully" (`stream_handler.rs:634`). But
`canister_ready_to_stop` lets an uninstalled canister stop although its calls are outstanding, and
`Stopped` has no call context manager, so that `push_input` refuses their responses. Run
`xnet_refused` gives the steps: a request is sent and inducted, the caller is uninstalled and
stopped, the response comes back and is dropped. What remains true, and is proved, is
`OnlyOrphansLost`: no other message is ever dropped. The slot that the caller reserved for the
response is never released (`CallsBalance` counts it in `awaiting` and `dropped`), so that a
canister that does this again and again with one peer ends with a full queue to that peer.

An observation from `CanisterLifecycle`. If such a canister is started again before the response
comes, its manager is a new one whose ids begin again, so that a late response may be taken for
that of a new call with the same callback id and the same respondent. `ResponsesFindTheirCall`
states that this is the only way for a response to go astray: it holds as long as the canister did
not stop with calls outstanding (`orphans`); without that premise TLC finds the case in about 14
steps. In `XNet` the call whose callback is taken is orphaned in turn, and its own response is the
one that is dropped. An aborted response may also run on, and be dropped by, a canister that has
stopped in the meantime.

An observation from `Consensus`. The comment at `consensus.rs:395` says of the order in which
`on_state_change` calls the subcomponents other than the finalizer that "it should not affect
liveness or correctness". It does affect liveness: a replica signs the beacon of the next height
only as long as its notarized height is that of the latest beacon (`random_beacon_maker.rs`), so
that a validator or block maker that came before the beacon maker could take the notarized height
past the beacon on every replica, and no share for that beacon would ever be made. The order in
the code excludes it, `BeaconShareFirst` is proved and `BeaconsKeepUp` holds in
`consensus_catch_up`; with the order given up (`AfterBeaconMaker_Anytime`) both fail. It is not
a finding about what the code does: the program keeps the order that the comment says it could
change.

## 7. Not modelled, and the plan

Built in the order of importance for messages: queue → canister queues → streams and blocks →
agreement on blocks → calls of a canister. Next, in this order:

1. The slice pool (append, prefixes, garbage collection) as a module of its own.
2. State manager: which states are kept, certified and removed; certification.
3. Upgrades: how a subnet halts at a summary block. Removal of migrated canisters.
4. Ingress history; distributed key generation at the level of dealings.

Two hazards are listed without a property: the limit of 200 000 on the age of signals (out of
reach of small streams), and the removal of stopped canisters that have left the routing table.

Left out for good: cryptography and encodings (data without control state), network and file
I/O, and the applications on the platform (governance, ledgers, Bitcoin).
