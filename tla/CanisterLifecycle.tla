--------------------------- MODULE CanisterLifecycle ---------------------------
(***************************************************************************)
(* The calls of one canister while it is stopped, started, uninstalled and *)
(* deleted: call contexts and callbacks (call_context_manager.rs), the     *)
(* canister's status (system_state.rs, canister_manager.rs), the execution *)
(* of requests, responses and system tasks, also over several rounds       *)
(* (update.rs, response.rs, system_task.rs), and the parts of a round that *)
(* touch them (scheduler.rs, util.rs).                                     *)
(*                                                                         *)
(* Queues keep no order here, see CanisterQueues; output queues are always *)
(* drained.  What the canister's code does is a choice of a result, of the *)
(* calls it makes and of the cycles it accepts.                            *)
(***************************************************************************)
EXTENDS Integers, FiniteSets, Functions

CONSTANTS
  Ingress,      \* ingress messages that users send to the canister
  Requests,     \* requests that other canisters send to it, with one cycle each
  Peers,        \* canisters it calls
  Stops,        \* requests to stop it
  None,
  MaxContexts,  \* bound: call contexts opened between two starts
  MaxCalls,     \* bound: calls it makes; with it every canister winds down
  MaxParallel   \* bound: calls made by one execution

ASSUME BoundsAssumption == {MaxContexts, MaxCalls, MaxParallel} \subseteq Nat

Origins == Ingress \cup Requests

SystemTask == "SystemTask"

Messages == [kind : {"Request"}, from : Origins]
              \cup [kind : {"Response"}, callback : 1 .. MaxCalls, respondent : Peers,
                    call : 1 .. MaxCalls]

ASSUME NamesAssumption ==
  /\ SystemTask \notin Origins
  /\ None \notin [message : Messages, paused : BOOLEAN]

VARIABLES
  status,                \* "Running", "Stopping", "Stopped"; "Deleted"
  call_contexts,         \* call context id -> origin, available cycles, flags
  callbacks,             \* callback id -> context, respondent, number of the call
  next_call_context_id,
  next_callback_id,
  stop_contexts,         \* stop requests to answer when the canister has stopped
  installed,             \* there is an execution state
  task,                  \* the message of a long execution, paused or aborted
  input,                 \* messages in the input queues
  calls,                 \* calls that were made and have no response yet
  phase,                 \* "subnet" messages, then "canister" messages
  sent,                  \* history: requests sent so far
  asked,                 \* history: stop requests received
  replied,               \* history: stop requests answered
  made,                  \* history: how many calls were made
  answers,               \* history: responses to every request
  settled,               \* history: cycles of a request accepted or refunded
  orphans,               \* history: calls of uninstalled code that the canister forgot
  stray                  \* history: calls whose response did not reach its callback

manager == <<call_contexts, callbacks, next_call_context_id, next_callback_id>>
requests == <<sent, answers, settled>>
history == <<asked, replied, made, orphans, stray>>
vars == <<status, manager, stop_contexts, installed, task, input, calls, phase,
          requests, history>>

Request(i) == [kind |-> "Request", from |-> i]
Response(m) == [kind |-> "Response", callback |-> m.callback,
                respondent |-> m.respondent, call |-> m.call]

Payment(i) == IF i \in Requests THEN 1 ELSE 0

\* A context holds the one cycle of its request, or none.
Cycles(cs, ids) == Cardinality({id \in ids : cs[id].available = 1})

\* f, with the entries that only g has.
Extended(f, g) ==
  [x \in DOMAIN f \cup DOMAIN g |-> IF x \in DOMAIN f THEN f[x] ELSE g[x]]

CallContext(origin, cycles) ==
  [origin |-> origin, available |-> cycles, responded |-> FALSE, deleted |-> FALSE]

Init ==
  /\ status = "Running"
  /\ call_contexts = <<>> /\ callbacks = <<>>
  /\ next_call_context_id = 0 /\ next_callback_id = 0
  /\ stop_contexts = {}
  /\ installed = TRUE
  /\ task = None
  /\ input = {} /\ calls = {}
  /\ phase = "subnet"
  /\ sent = {} /\ asked = {} /\ replied = {} /\ made = 0
  /\ answers = [i \in Origins |-> 0]
  /\ settled = [i \in Origins |-> 0]
  /\ orphans = {} /\ stray = {}

-----------------------------------------------------------------------------
(* Responses to the canister's callers *)

\* Responds to every context of cs (a set of contexts), with its cycles left over;
\* nobody waits for a system task.
AnswerAll(cs) ==
  LET of(i) == {id \in DOMAIN cs : cs[id].origin = i}
  IN  /\ answers' = [i \in Origins |-> answers[i] + Cardinality(of(i))]
      /\ settled' = [i \in Origins |-> settled[i] + Cycles(cs, of(i))]

\* A request is answered with an error before it got a context, and refunded.
Refuse(i) ==
  /\ answers' = [answers EXCEPT ![i] = @ + 1]
  /\ settled' = [settled EXCEPT ![i] = @ + Payment(i)]

-----------------------------------------------------------------------------
(* CallContextManager *)

\* outstanding_calls
HasOutstandingCalls(cbs, id) == \E c \in DOMAIN cbs : cbs[c].context = id

\* Fault: it need not wait either once it has responded to everybody.
ReadyToStop_Responded ==
  \A id \in DOMAIN call_contexts : call_contexts[id].responded

\* canister_ready_to_stop: an uninstalled canister need not wait for responses.
ReadyToStop ==
  /\ \A id \in DOMAIN call_contexts : call_contexts[id].deleted
  /\ \A c \in DOMAIN callbacks : callbacks[c].context \in DOMAIN call_contexts

\* validate_response, for a canister with a call context manager.  (Callbacks registered
\* by versions that did not record a respondent, which accept any, are left out.)
ValidateResponse(m) ==
  /\ m.callback \in DOMAIN callbacks
  /\ callbacks[m.callback].respondent = m.respondent

\* on_canister_result: whether the context responds now ...
Responds(ctx, result, outstanding) ==
  ~ctx.responded /\ (result = "response" \/ ~outstanding)

\* ... and what is left of it: it goes when no call is outstanding, otherwise one
\* that responds is marked (mark_responded takes its cycles).
ContextsAfter(ctxs, cbs, id, result) ==
  IF ~HasOutstandingCalls(cbs, id) THEN Restrict(ctxs, DOMAIN ctxs \ {id})
  ELSE IF Responds(ctxs[id], result, TRUE)
       THEN [ctxs EXCEPT ![id].responded = TRUE, ![id].available = 0]
       ELSE ctxs

-----------------------------------------------------------------------------
(* Execution *)

Results == {"nothing", "response", "error"}

\* What the code of context id may do.  The system API lets it respond only once;
\* a trap undoes everything.  The number of its calls is bounded by the model only.
Code(ctx, results) ==
  {run \in [result : results, calls : 0 .. MaxParallel, accept : 0 .. ctx.available,
            to : Peers] :
     /\ run.result = "response" => ~ctx.responded
     /\ run.result = "error" => run.calls = 0 /\ run.accept = 0
     /\ made + run.calls <= MaxCalls}

\* The code of context id runs to its end, with one of the results, among the
\* contexts ctxs and the callbacks cbs: its calls are registered and sent, its result is handed to
\* on_canister_result and what that says is sent to the caller.
Finish(ctxs, cbs, id, results) ==
  \E run \in Code(ctxs[id], results) :
    LET made_now == [c \in next_callback_id + 1 .. next_callback_id + run.calls |->
                       [context |-> id, respondent |-> run.to,
                        call |-> made + (c - next_callback_id)]]
        after == Extended(cbs, made_now)
        ctx   == [ctxs[id] EXCEPT !.available = @ - run.accept]
    IN  /\ callbacks' = after
        /\ next_callback_id' = next_callback_id + run.calls
        /\ calls' = calls \cup {[callback |-> c, respondent |-> run.to,
                                 call |-> made_now[c].call] : c \in DOMAIN made_now}
        /\ made' = made + run.calls
        /\ call_contexts' = ContextsAfter([ctxs EXCEPT ![id] = ctx], after, id, run.result)
        /\ LET answering == Responds(ctx, run.result, HasOutstandingCalls(after, id))
               mine(i)   == ctx.origin = i
           IN  /\ answers' = [i \in Origins |->
                                answers[i] + (IF mine(i) /\ answering THEN 1 ELSE 0)]
               /\ settled' = [i \in Origins |->
                                settled[i] + (IF mine(i) THEN run.accept ELSE 0)
                                  + (IF mine(i) /\ answering THEN ctx.available ELSE 0)]

\* validate_message: of a canister that is to execute a request or a system task.
Executable == status = "Running" /\ installed

\* new_call_context with the origin, and the code runs in it.
RunInNewContext(origin, cycles, results) ==
  LET id == next_call_context_id + 1
  IN  /\ id <= MaxContexts
      /\ next_call_context_id' = id
      /\ Finish(Extended(call_contexts, [x \in {id} |-> CallContext(origin, cycles)]),
                callbacks, id, results)

\* execute_update, from its start or resumed: the state is that of before the
\* execution, so it validates once more.
ExecuteRequest(i) ==
  \/ /\ ~Executable
     /\ Refuse(i)
     /\ UNCHANGED <<manager, calls, made>>
  \/ /\ Executable
     /\ RunInNewContext(i, Payment(i), Results)

\* get_call_context_and_callback
Found(m) == /\ status \in {"Running", "Stopping"}
            /\ m.callback \in DOMAIN callbacks
            /\ callbacks[m.callback].context \in DOMAIN call_contexts

ContextOf(m) == callbacks[m.callback].context

WithoutCallback(m) == Restrict(callbacks, DOMAIN callbacks \ {m.callback})

\* The context was deleted: nothing is executed and nobody answered.
FinishDeleted(m) ==
  /\ callbacks' = WithoutCallback(m)
  /\ call_contexts' = ContextsAfter(call_contexts, WithoutCallback(m), ContextOf(m), "nothing")
  /\ UNCHANGED <<next_callback_id, calls, made, answers, settled>>

\* execute_response with the validation of ResponseHelper; a trap runs the clean-up
\* callback, which makes no calls.
ExecuteResponse(m) ==
  /\ \/ /\ ~Found(m)
        /\ UNCHANGED <<manager, calls, made, answers, settled>>
     \/ /\ Found(m)
        /\ call_contexts[ContextOf(m)].deleted
        /\ FinishDeleted(m)
        /\ UNCHANGED next_call_context_id
     \/ /\ Found(m)
        /\ ~call_contexts[ContextOf(m)].deleted
        /\ Finish(call_contexts, WithoutCallback(m), ContextOf(m), Results)
        /\ UNCHANGED next_call_context_id
  /\ stray' = IF Found(m) /\ callbacks[m.callback].call = m.call THEN stray
              ELSE stray \cup {m.call}

\* An execution runs to its end.
Complete(m) ==
  \/ /\ m.kind = "Request"
     /\ ExecuteRequest(m.from)
     /\ UNCHANGED stray
  \/ /\ m.kind = "Response"
     /\ ExecuteResponse(m)

\* The code of the message gets to run, so that its slice can come to an end.
Runs(m) ==
  \/ m.kind = "Request" /\ Executable /\ next_call_context_id < MaxContexts
  \/ m.kind = "Response" /\ Found(m) /\ ~call_contexts[ContextOf(m)].deleted

\* The execution is paused at the end of its slice, and nothing of it is kept.
Pause(m) ==
  /\ Runs(m)
  /\ task' = [message |-> m, paused |-> TRUE]
  /\ UNCHANGED <<manager, calls, made, answers, settled, stray>>

ExecuteMessage(m) == (Complete(m) /\ task' = None) \/ Pause(m)

\* The next message of a canister without a long execution.
ExecuteInput(m) ==
  /\ phase = "canister"
  /\ task = None
  /\ input' = input \ {m}
  /\ ExecuteMessage(m)
  /\ UNCHANGED <<status, stop_contexts, installed, phase, sent, asked, replied, orphans>>

\* A long execution is resumed, or begun again if it was aborted.
ContinueLong ==
  /\ phase = "canister"
  /\ task # None
  /\ ExecuteMessage(task.message)
  /\ UNCHANGED <<status, stop_contexts, installed, input, phase, sent, asked, replied,
                 orphans>>

\* execute_system_task: a heartbeat or the global timer, never sliced.  The
\* system API lets it make calls, not respond.
ExecuteSystemTask ==
  /\ phase = "canister"
  /\ task = None
  /\ Executable
  /\ RunInNewContext(SystemTask, 0, Results \ {"response"})
  /\ UNCHANGED <<status, stop_contexts, installed, task, input, phase, sent, asked,
                 replied, orphans, stray>>

-----------------------------------------------------------------------------
(* Induction *)

\* push_input of a request, or of an ingress message by the valid set rule.
InductRequest(i) ==
  /\ i \notin sent
  /\ sent' = sent \cup {i}
  /\ \/ /\ status = "Running"
        /\ input' = input \cup {Request(i)}
        /\ UNCHANGED <<answers, settled>>
     \/ /\ status # "Running"
        /\ Refuse(i)
        /\ UNCHANGED input
  /\ UNCHANGED <<status, manager, stop_contexts, installed, task, calls, phase, history>>

\* push_input of a response, whenever the peer sends it; the stream handler drops
\* one that is refused.
InductResponse(m) ==
  /\ calls' = calls \ {m}
  /\ \/ /\ status \in {"Running", "Stopping"} /\ ValidateResponse(m)
        /\ input' = input \cup {Response(m)}
        /\ UNCHANGED stray
     \/ /\ ~(status \in {"Running", "Stopping"} /\ ValidateResponse(m))
        /\ stray' = stray \cup {m.call}
        /\ UNCHANGED input
  /\ UNCHANGED <<status, manager, stop_contexts, installed, task, phase, requests,
                 asked, replied, made, orphans>>

-----------------------------------------------------------------------------
(* Messages to the management canister *)

\* can_execute_msg: they wait for the end of a long execution, also if aborted.
CanExecuteSubnetMsg == phase = "subnet" /\ status # "Deleted" /\ task = None

\* Fault: the earlier stop requests are forgotten.
StopCanister_Replace(s) ==
  /\ CanExecuteSubnetMsg
  /\ s \notin asked
  /\ asked' = asked \cup {s}
  /\ status' = IF status = "Stopped" THEN status ELSE "Stopping"
  /\ stop_contexts' = IF status = "Stopped" THEN {} ELSE {s}
  /\ replied' = IF status = "Stopped" THEN replied \cup {s} ELSE replied
  /\ UNCHANGED <<manager, installed, task, input, calls, phase, requests, made,
                 orphans, stray>>

\* stop_canister: of a canister that is stopped already it is answered at once.
StopCanister(s) ==
  /\ CanExecuteSubnetMsg
  /\ s \notin asked
  /\ asked' = asked \cup {s}
  /\ \/ /\ status = "Stopped"
        /\ replied' = replied \cup {s}
        /\ UNCHANGED <<status, stop_contexts>>
     \/ /\ status \in {"Running", "Stopping"}
        /\ status' = "Stopping"
        /\ stop_contexts' = stop_contexts \cup {s}
        /\ UNCHANGED replied
  /\ UNCHANGED <<manager, installed, task, input, calls, phase, requests, made,
                 orphans, stray>>

\* Fault: the stop requests are rejected but stay.
StartCanister_KeepStops ==
  /\ CanExecuteSubnetMsg
  /\ status' = "Running"
  /\ replied' = replied \cup stop_contexts
  /\ UNCHANGED <<manager, stop_contexts, installed, task, input, calls, phase, requests,
                 asked, made, orphans, stray>>

\* start_canister and reject_stop_requests.
StartCanister ==
  /\ CanExecuteSubnetMsg
  /\ status' = "Running"
  /\ stop_contexts' = {}
  /\ replied' = replied \cup stop_contexts
  /\ UNCHANGED <<manager, installed, task, input, calls, phase, requests, asked, made,
                 orphans, stray>>

Unresponded == Restrict(call_contexts,
                        {id \in DOMAIN call_contexts : ~call_contexts[id].responded})

\* Fault: deleted contexts are not marked as responded.
Uninstall_NotMarked ==
  /\ installed' = FALSE
  /\ call_contexts' = [id \in DOMAIN call_contexts |->
                         [call_contexts[id] EXCEPT !.deleted = TRUE]]
  /\ AnswerAll(Unresponded)

\* uninstall_canister and process_responses: every open context is deleted and
\* answered; the callbacks stay until their responses come.
Uninstall ==
  /\ installed' = FALSE
  /\ call_contexts' = [id \in DOMAIN call_contexts |->
                         [call_contexts[id] EXCEPT !.deleted = TRUE, !.responded = TRUE,
                            !.available = 0]]
  /\ AnswerAll(Unresponded)

UninstallCode ==
  /\ CanExecuteSubnetMsg
  /\ Uninstall
  /\ UNCHANGED <<status, callbacks, next_call_context_id, next_callback_id, stop_contexts,
                 task, input, calls, phase, sent, history>>

\* install_code into a canister without code.
InstallCode ==
  /\ CanExecuteSubnetMsg
  /\ ~installed
  /\ installed' = TRUE
  /\ UNCHANGED <<status, manager, stop_contexts, task, input, calls, phase, requests,
                 history>>

\* delete_canister
DeleteCanister ==
  /\ CanExecuteSubnetMsg
  /\ status = "Stopped"
  /\ input = {}
  /\ status' = "Deleted"
  /\ UNCHANGED <<manager, stop_contexts, installed, task, input, calls, phase, requests,
                 history>>

-----------------------------------------------------------------------------
(* Rounds *)

\* The subnet messages of the round have been executed.
InnerRound ==
  /\ phase = "subnet"
  /\ phase' = "canister"
  /\ UNCHANGED <<status, manager, stop_contexts, installed, task, input, calls, requests,
                 history>>

Paused == task # None /\ task.paused

\* Fault: a paused execution does not keep the canister from being charged.
MayBeCharged_Always == TRUE

\* A canister with a paused execution is not charged, one with an aborted one is.
MayBeCharged == ~Paused

Stopping == status = "Stopping" /\ ReadyToStop

OfDeleted == {c \in DOMAIN callbacks : call_contexts[callbacks[c].context].deleted}

\* process_stopping_canisters: the manager goes with the status that holds it (what
\* is left is the default one that start_canister creates).  The charge that
\* follows can still take the code.
ProcessStopping ==
  /\ Stopping
  /\ status' = "Stopped"
  /\ stop_contexts' = {}
  /\ replied' = replied \cup stop_contexts
  /\ call_contexts' = <<>> /\ callbacks' = <<>>
  /\ next_call_context_id' = 0 /\ next_callback_id' = 0
  /\ installed' \in IF MayBeCharged THEN {installed, FALSE} ELSE {installed}
  /\ orphans' = orphans \cup {callbacks[c].call : c \in OfDeleted}
  /\ UNCHANGED <<answers, settled>>

\* charge_canisters_for_resource_allocation_and_usage finds that it cannot pay.
RunOutOfCycles ==
  /\ ~Stopping
  /\ MayBeCharged
  /\ Uninstall
  /\ UNCHANGED <<status, callbacks, next_call_context_id, next_callback_id, stop_contexts,
                 replied, orphans>>

\* The end of a round: a canister that has just stopped has no contexts left to
\* uninstall.  Paused executions are aborted before a checkpoint, and when there
\* are too many of them.
FinishRound ==
  /\ phase = "canister"
  /\ phase' = "subnet"
  /\ \/ ProcessStopping
     \/ RunOutOfCycles
     \/ /\ ~Stopping
        /\ UNCHANGED <<status, manager, stop_contexts, installed, answers, settled, replied,
                       orphans>>
  /\ \/ task' = task
     \/ task # None /\ task' = [task EXCEPT !.paused = FALSE]
  /\ UNCHANGED <<input, calls, sent, asked, made, stray>>

-----------------------------------------------------------------------------

Next ==
  \/ \E i \in Origins : InductRequest(i)
  \/ \E m \in calls : InductResponse(m)
  \/ \E s \in Stops : StopCanister(s)
  \/ StartCanister
  \/ UninstallCode
  \/ InstallCode
  \/ DeleteCanister
  \/ InnerRound
  \/ \E m \in input : ExecuteInput(m)
  \/ ContinueLong
  \/ ExecuteSystemTask
  \/ FinishRound

Spec == Init /\ [][Next]_vars

\* Rounds go on, peers answer every call, and the scheduler comes back to the
\* canister: its messages are executed, and a long execution has a limit of
\* instructions, so it comes to an end.
FairSpec ==
  /\ Spec
  /\ WF_vars(InnerRound) /\ WF_vars(FinishRound)
  /\ \A k \in 1 .. MaxCalls : WF_vars(\E m \in calls : m.call = k /\ InductResponse(m))
  /\ SF_vars(\E m \in input : m.kind = "Response" /\ ExecuteInput(m) /\ task' = None)
  /\ SF_vars(ContinueLong /\ task' = None)

-----------------------------------------------------------------------------

\* Types, and the fields of a status: only a stopping canister has stop requests
\* to answer, one that is neither running nor stopping has no contexts.
TypeOK ==
  /\ status \in {"Running", "Stopping", "Stopped", "Deleted"}
  /\ DOMAIN call_contexts \subseteq 1 .. next_call_context_id
  /\ \A id \in DOMAIN call_contexts :
       call_contexts[id] \in [origin : Origins \cup {SystemTask}, available : {0, 1},
                              responded : BOOLEAN, deleted : BOOLEAN]
  /\ DOMAIN callbacks \subseteq 1 .. next_callback_id
  /\ next_call_context_id \in 0 .. MaxContexts /\ next_callback_id \in 0 .. MaxCalls
  /\ stop_contexts \subseteq asked \ replied
  /\ stop_contexts # {} <=> status = "Stopping"
  /\ status \in {"Stopped", "Deleted"} => call_contexts = <<>> /\ callbacks = <<>>
  /\ task = None \/ task \in [message : Messages, paused : BOOLEAN]
  /\ input \subseteq Messages

InQueue(i) == Request(i) \in input
InTask(i) == task # None /\ task.message = Request(i)
OpenFor(i) == {id \in DOMAIN Unresponded : call_contexts[id].origin = i}

\* Every request sent to the canister is answered exactly once: it is in the queue,
\* in a long execution or in a context that has not responded, or else it has had
\* its one answer, whatever happened to the canister in between.  A second answer
\* would find no reserved slot and panic the replica.  Its cycle is with it, or was
\* accepted or refunded once.
RequestsSettled ==
  \A i \in Origins :
    LET waiting == (IF InQueue(i) THEN 1 ELSE 0) + (IF InTask(i) THEN 1 ELSE 0)
    IN  /\ answers[i] + waiting + Cardinality(OpenFor(i)) = IF i \in sent THEN 1 ELSE 0
        /\ settled[i] + waiting * Payment(i) + Cycles(call_contexts, OpenFor(i))
           = IF i \in sent THEN Payment(i) ELSE 0

\* What the code relies on without a way out: a deleted context has responded, one
\* that is not deleted has code to run (both [EXC-BUG] in ResponseHelper::validate);
\* a context waits for some callback and a callback for its context; and what was
\* validated when an execution was paused is still so when it is resumed (the
\* expect()s of ResponseHelper::resume would panic every replica).
ContextsConsistent ==
  /\ \A id \in DOMAIN call_contexts :
       /\ call_contexts[id].deleted => call_contexts[id].responded
       /\ call_contexts[id].deleted \/ installed
       /\ HasOutstandingCalls(callbacks, id)
  /\ \A c \in DOMAIN callbacks : callbacks[c].context \in DOMAIN call_contexts
  /\ Paused => Runs(task.message)

\* "Responses should always be inducted successfully" (stream_handler.rs), find
\* their callback and are given to the call they answer, as long as the canister
\* did not stop with calls outstanding.  The code lets it do that only after it
\* was uninstalled; then a late response is refused, or taken for that of a new call
\* with the same callback id.
ResponsesFindTheirCall == orphans = {} => stray = {}

\* The callbacks of a stopping canister sooner or later make no more calls.  Nothing in
\* response.rs or in the manager forbids them to, so this is up to the canister's code.
WindsDown == <>[][status = "Stopping" => made' = made]_vars

\* Every request to stop the canister is answered, though its contexts, old and
\* new code, long executions and uninstalling stand in between: the replica owes
\* that to a canister that winds down, and to no other.
StopsAnswered == WindsDown => \A s \in Stops : s \in asked ~> s \in replied
=============================================================================
