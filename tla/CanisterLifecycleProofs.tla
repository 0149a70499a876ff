------------------------ MODULE CanisterLifecycleProofs ------------------------
(***************************************************************************)
(* The invariants of CanisterLifecycle, for any requests, peers and stops, *)
(* and any number of contexts and calls.                                   *)
(*                                                                         *)
(* The argument: an execution touches one context and the callbacks that   *)
(* name it, and what it takes from the open contexts of a request it adds  *)
(* to the request's answers and settled cycles (Finished).  That keeps     *)
(* RequestsSettled once a context that has responded holds no cycles and   *)
(* every callback has its context (Linked).  As long as no orphans are     *)
(* left behind, every call is awaited by the callback it was made with,    *)
(* and is only once among the calls under way, the inputs and the long     *)
(* execution (CallsAwaited), so that executing one response takes the      *)
(* callback of no other.                                                   *)
(***************************************************************************)
EXTENDS CanisterLifecycle, FiniteSetTheorems, TLAPS

-----------------------------------------------------------------------------
(* Counting. *)

Bit(p) == IF p THEN 1 ELSE 0

LEMMA CountWithout ==
  ASSUME NEW S, NEW x, IsFiniteSet(S)
  PROVE  Cardinality(S) \in Nat /\ Cardinality(S) = Cardinality(S \ {x}) + Bit(x \in S)
<1>1. Cardinality(S) \in Nat
  BY FS_CardinalityType
<1>2. CASE x \in S
  BY <1>1, <1>2, FS_RemoveElement DEF Bit
<1>3. CASE x \notin S
  <2>1. S \ {x} = S
    BY <1>3
  <2>2. Cardinality(S \ {x}) = Cardinality(S)
    BY <2>1, Zenon
  <2>3. Bit(x \in S) = 0
    BY <1>3 DEF Bit
  <2> QED BY <1>1, <2>2, <2>3
<1> QED BY <1>2, <1>3

\* Two sets that differ at most in x.
LEMMA CountChange ==
  ASSUME NEW S, NEW T, NEW x, IsFiniteSet(S), IsFiniteSet(T), S \ {x} = T \ {x}
  PROVE  /\ Cardinality(S) \in Nat /\ Cardinality(T) \in Nat
         /\ Cardinality(T) + Bit(x \in S) = Cardinality(S) + Bit(x \in T)
<1>1. Cardinality(S) \in Nat /\ Cardinality(T) \in Nat
  BY FS_CardinalityType
<1>2. Cardinality(S) = Cardinality(S \ {x}) + Bit(x \in S)
  BY CountWithout
<1>3. Cardinality(T) = Cardinality(T \ {x}) + Bit(x \in T)
  BY CountWithout
<1>4. IsFiniteSet(S \ {x}) /\ Cardinality(S \ {x}) \in Nat
  BY FS_Subset, FS_CardinalityType
<1>5. Bit(x \in S) \in Nat /\ Bit(x \in T) \in Nat
  BY DEF Bit
<1> DEFINE r == Cardinality(S \ {x})
           p == Bit(x \in S)
           q == Bit(x \in T)
<1>6. Cardinality(S) = r + p /\ Cardinality(T) = r + q
  BY <1>2, <1>3
<1> HIDE DEF r, p, q
<1>7. Cardinality(T) + p = Cardinality(S) + q
  BY <1>1, <1>4, <1>5, <1>6 DEF r, p, q
<1> QED BY <1>1, <1>7 DEF p, q

-----------------------------------------------------------------------------
(* Contexts, callbacks and calls. *)

CallContexts == [origin : Origins \cup {SystemTask}, available : {0, 1},
                 responded : BOOLEAN, deleted : BOOLEAN]

Callbacks == [context : Nat, respondent : Peers, call : 1 .. MaxCalls]

Calls == [callback : 1 .. MaxCalls, respondent : Peers, call : 1 .. MaxCalls]

\* The callback that m names was registered for the call that m answers.
Awaited(m) ==
  /\ m.callback \in DOMAIN callbacks
  /\ callbacks[m.callback].respondent = m.respondent
  /\ callbacks[m.callback].call = m.call

IsResponse(m) == m.kind = "Response"

-----------------------------------------------------------------------------
(* The books of a request: its open contexts, and those with its cycle. *)

Open(cs, i) == {id \in DOMAIN cs : ~cs[id].responded /\ cs[id].origin = i}

Rich(cs, i) == {id \in Open(cs, i) : cs[id].available = 1}

LEMMA OpenSets ==
  \A i : /\ OpenFor(i) = Open(call_contexts, i)
         /\ Cycles(call_contexts, OpenFor(i)) = Cardinality(Rich(call_contexts, i))
BY DEF OpenFor, Open, Unresponded, Restrict, Rich, Cycles

LEMMA OpenFinite ==
  ASSUME NEW cs, NEW k \in Nat, DOMAIN cs \subseteq 1 .. k, NEW i
  PROVE  IsFiniteSet(Open(cs, i)) /\ IsFiniteSet(Rich(cs, i))
<1>1. IsFiniteSet(1 .. k)
  BY FS_Interval
<1>2. Open(cs, i) \subseteq 1 .. k /\ Rich(cs, i) \subseteq 1 .. k
  BY DEF Open, Rich
<1> QED BY <1>1, <1>2, FS_Subset

\* One context of the books is changed, added or removed.
LEMMA OpenChange ==
  ASSUME NEW cs, NEW ds, NEW k \in Nat, NEW x, NEW i,
         DOMAIN cs \subseteq 1 .. k, DOMAIN ds \subseteq 1 .. k,
         \A j \in (DOMAIN cs \cup DOMAIN ds) \ {x} :
            j \in DOMAIN cs /\ j \in DOMAIN ds /\ cs[j] = ds[j]
  PROVE  /\ Cardinality(Open(cs, i)) \in Nat /\ Cardinality(Open(ds, i)) \in Nat
         /\ Cardinality(Rich(cs, i)) \in Nat /\ Cardinality(Rich(ds, i)) \in Nat
         /\ Cardinality(Open(ds, i)) + Bit(x \in Open(cs, i))
              = Cardinality(Open(cs, i)) + Bit(x \in Open(ds, i))
         /\ Cardinality(Rich(ds, i)) + Bit(x \in Rich(cs, i))
              = Cardinality(Rich(cs, i)) + Bit(x \in Rich(ds, i))
<1>1. Open(cs, i) \ {x} = Open(ds, i) \ {x}
  BY DEF Open
<1>2. Rich(cs, i) \ {x} = Rich(ds, i) \ {x}
  BY DEF Open, Rich
<1>3. /\ IsFiniteSet(Open(cs, i)) /\ IsFiniteSet(Open(ds, i))
      /\ IsFiniteSet(Rich(cs, i)) /\ IsFiniteSet(Rich(ds, i))
  BY OpenFinite
<1> QED BY <1>1, <1>2, <1>3, CountChange

-----------------------------------------------------------------------------
(* Contexts with a field changed. *)

LEMMA ContextSpends ==
  ASSUME NEW r \in CallContexts, NEW v \in {0, 1}, NEW s, s = [r EXCEPT !.available = v]
  PROVE  /\ s \in CallContexts /\ s.origin = r.origin /\ s.available = v
         /\ s.responded = r.responded /\ s.deleted = r.deleted
BY DEF CallContexts

LEMMA ContextResponds ==
  ASSUME NEW r \in CallContexts, NEW s, s = [r EXCEPT !.responded = TRUE, !.available = 0]
  PROVE  /\ s \in CallContexts /\ s.origin = r.origin /\ s.available = 0
         /\ s.responded = TRUE /\ s.deleted = r.deleted
<1>1. PICK q : q = [r EXCEPT !.responded = TRUE]
  OBVIOUS
<1>2. /\ q \in CallContexts /\ q.origin = r.origin /\ q.available = r.available
      /\ q.responded = TRUE /\ q.deleted = r.deleted
  BY <1>1 DEF CallContexts
<1>3. s = [q EXCEPT !.available = 0]
  BY <1>1
<1> QED BY <1>2, <1>3, ContextSpends

LEMMA ContextDeleted ==
  ASSUME NEW r \in CallContexts, NEW s,
         s = [r EXCEPT !.deleted = TRUE, !.responded = TRUE, !.available = 0]
  PROVE  s \in CallContexts /\ s.available = 0 /\ s.responded = TRUE /\ s.deleted = TRUE
<1>1. PICK q : q = [r EXCEPT !.deleted = TRUE]
  OBVIOUS
<1>2. q \in CallContexts /\ q.deleted = TRUE
  BY <1>1 DEF CallContexts
<1>3. s = [q EXCEPT !.responded = TRUE, !.available = 0]
  BY <1>1
<1> QED BY <1>2, <1>3, ContextResponds

-----------------------------------------------------------------------------
(* An execution runs to its end. *)

\* What Finish does to the contexts ctxs and the callbacks cbs it starts from.
Finished(ctxs, cbs, id) ==
  /\ call_contexts' \in [DOMAIN call_contexts' -> CallContexts]
  /\ DOMAIN call_contexts' \subseteq DOMAIN ctxs
  /\ \A j \in DOMAIN ctxs \ {id} : j \in DOMAIN call_contexts' /\ call_contexts'[j] = ctxs[j]
  /\ id \in DOMAIN call_contexts' <=> HasOutstandingCalls(callbacks', id)
  /\ id \in DOMAIN call_contexts' =>
       /\ call_contexts'[id].deleted = ctxs[id].deleted
       /\ call_contexts'[id].responded => call_contexts'[id].available = 0
  /\ callbacks' \in [DOMAIN callbacks' -> Callbacks]
  /\ DOMAIN cbs \subseteq DOMAIN callbacks'
  /\ DOMAIN callbacks' \subseteq 1 .. next_callback_id'
  /\ \A c \in DOMAIN cbs : callbacks'[c] = cbs[c]
  /\ \A c \in DOMAIN callbacks' \ DOMAIN cbs : callbacks'[c].context = id
  /\ next_callback_id' \in Nat /\ next_callback_id' <= made' /\ made' \in 0 .. MaxCalls
  /\ calls' \subseteq Calls /\ calls \subseteq calls'
  /\ \A m \in calls' \ calls : m.callback > next_callback_id /\ Awaited(m)'
  /\ answers' \in [Origins -> Nat] /\ settled' \in [Origins -> Nat]
  /\ \A i \in Origins :
       /\ answers'[i] + Bit(id \in Open(call_contexts', i))
            = answers[i] + Bit(id \in Open(ctxs, i))
       /\ settled'[i] + Bit(id \in Rich(call_contexts', i))
            = settled[i] + Bit(id \in Rich(ctxs, i))

LEMMA FinishEffect ==
  ASSUME NEW ctxs, NEW cbs, NEW id \in Nat, NEW results \in SUBSET Results,
         Finish(ctxs, cbs, id, results),
         ctxs \in [DOMAIN ctxs -> CallContexts], id \in DOMAIN ctxs,
         ctxs[id].responded => ctxs[id].available = 0,
         cbs \in [DOMAIN cbs -> Callbacks], DOMAIN cbs \subseteq 1 .. next_callback_id,
         made \in 0 .. MaxCalls, next_callback_id \in 0 .. MaxCalls, next_callback_id <= made,
         calls \subseteq Calls, answers \in [Origins -> Nat], settled \in [Origins -> Nat]
  PROVE  Finished(ctxs, cbs, id)
<1>0. MaxCalls \in Nat /\ MaxParallel \in Nat
  BY BoundsAssumption
<1>1. PICK run \in Code(ctxs[id], results) :
        LET made_now == [c \in next_callback_id + 1 .. next_callback_id + run.calls |->
                           [context |-> id, respondent |-> run.to,
                            call |-> made + (c - next_callback_id)]]
            after == Extended(cbs, made_now)
            ctx   == [ctxs[id] EXCEPT !.available = @ - run.accept]
        IN  /\ callbacks' = after
            /\ next_callback_id' = next_callback_id + run.calls
            /\ calls' = calls \cup {[callback |-> c, respondent |-> run.to,
                                     call |-> made_now[c].call] : c \in DOMAIN made_now}
            /\ made' = made + run.calls
            /\ call_contexts' = ContextsAfter([ctxs EXCEPT ![id] = ctx], after, id, run.result)
            /\ LET answering == Responds(ctx, run.result, HasOutstandingCalls(after, id))
                   mine(i)   == ctx.origin = i
               IN  /\ answers' = [i \in Origins |->
                                    answers[i] + (IF mine(i) /\ answering THEN 1 ELSE 0)]
                   /\ settled' = [i \in Origins |->
                                    settled[i] + (IF mine(i) THEN run.accept ELSE 0)
                                      + (IF mine(i) /\ answering THEN ctx.available ELSE 0)]
  BY DEF Finish
<1> DEFINE k == run.calls
           new == next_callback_id + 1 .. next_callback_id + k
           made_now == [c \in new |-> [context |-> id, respondent |-> run.to,
                                       call |-> made + (c - next_callback_id)]]
           old == ctxs[id]
           ctx == [old EXCEPT !.available = @ - run.accept]
           some == HasOutstandingCalls(callbacks', id)
           answering == Responds(ctx, run.result, some)
           done == [ctx EXCEPT !.responded = TRUE, !.available = 0]
<1>2. /\ k \in Nat /\ run.accept \in 0 .. old.available /\ run.to \in Peers
      /\ made + k <= MaxCalls
      /\ run.result = "response" => ~old.responded
  BY <1>0 DEF Code
<1>3. old \in CallContexts
  OBVIOUS
<1>4. /\ ctx \in CallContexts /\ ctx.origin = old.origin /\ ctx.responded = old.responded
      /\ ctx.deleted = old.deleted /\ ctx.available = old.available - run.accept
      /\ ctx.responded => ctx.available = 0
  <2>1. old.available \in {0, 1} /\ (old.responded => old.available = 0)
    BY <1>3 DEF CallContexts
  <2>2. old.available - run.accept \in {0, 1}
    BY <1>2, <2>1
  <2> DEFINE v == old.available - run.accept
  <2>3. ctx = [old EXCEPT !.available = v]
    OBVIOUS
  <2> HIDE DEF ctx, v, old
  <2>4. /\ ctx \in CallContexts /\ ctx.origin = old.origin /\ ctx.responded = old.responded
        /\ ctx.deleted = old.deleted /\ ctx.available = v
    BY <1>3, <2>2, <2>3, ContextSpends DEF v
  <2> QED BY <1>2, <2>1, <2>4 DEF v
<1>5. /\ callbacks' = Extended(cbs, made_now)
      /\ next_callback_id' = next_callback_id + k
      /\ calls' = calls \cup {[callback |-> c, respondent |-> run.to,
                               call |-> made_now[c].call] : c \in new}
      /\ made' = made + k
  BY <1>1
<1>6. call_contexts' = ContextsAfter([ctxs EXCEPT ![id] = ctx], callbacks', id, run.result)
  BY <1>1
<1>7. /\ answers' = [i \in Origins |->
                       answers[i] + (IF old.origin = i /\ answering THEN 1 ELSE 0)]
      /\ settled' = [i \in Origins |->
                       settled[i] + (IF old.origin = i THEN run.accept ELSE 0)
                         + (IF old.origin = i /\ answering THEN ctx.available ELSE 0)]
  BY <1>1, <1>4
<1>8. /\ \A c \in new : c \in Nat /\ c \in 1 .. MaxCalls /\ c > next_callback_id
                        /\ c <= next_callback_id + k
                        /\ made + (c - next_callback_id) \in 1 .. MaxCalls
  BY <1>0, <1>2
<1> HIDE DEF k, new, ctx, old, some, answering, done
<1>9. /\ callbacks' \in [DOMAIN callbacks' -> Callbacks]
      /\ DOMAIN callbacks' = DOMAIN cbs \cup new
      /\ \A c \in DOMAIN cbs : callbacks'[c] = cbs[c]
      /\ \A c \in new : callbacks'[c] = made_now[c]
  <2>1. DOMAIN made_now = new
    OBVIOUS
  <2>2. \A c \in new : c \notin DOMAIN cbs
    BY <1>8
  <2>3. \A c \in new : made_now[c] \in Callbacks
    BY <1>2, <1>8 DEF Callbacks
  <2> HIDE DEF made_now
  <2> QED BY <1>5, <2>1, <2>2, <2>3 DEF Extended
<1>10. /\ next_callback_id' \in Nat /\ next_callback_id' <= made' /\ made' \in 0 .. MaxCalls
       /\ DOMAIN callbacks' \subseteq 1 .. next_callback_id'
  BY <1>0, <1>2, <1>5, <1>8, <1>9 DEF k
<1>11. \A c \in DOMAIN callbacks' \ DOMAIN cbs : callbacks'[c].context = id
  BY <1>9
<1>12. /\ calls' \subseteq Calls /\ calls \subseteq calls'
       /\ \A m \in calls' \ calls : m.callback > next_callback_id /\ Awaited(m)'
  <2>1. \A m \in calls' : m \in calls \/ \E c \in new :
           m = [callback |-> c, respondent |-> run.to, call |-> made + (c - next_callback_id)]
    BY <1>5
  <2>2. ASSUME NEW m, NEW c \in new,
               m = [callback |-> c, respondent |-> run.to,
                    call |-> made + (c - next_callback_id)]
        PROVE  m \in Calls /\ m.callback > next_callback_id /\ Awaited(m)'
    <3>1. m.callback = c /\ m.respondent = run.to /\ m.call = made + (c - next_callback_id)
      BY <2>2
    <3>2. m \in Calls
      BY <1>2, <1>8, <2>2 DEF Calls
    <3>3. c \in DOMAIN callbacks' /\ callbacks'[c].respondent = run.to
          /\ callbacks'[c].call = made + (c - next_callback_id)
      BY <1>9
    <3> QED BY <1>8, <3>1, <3>2, <3>3 DEF Awaited
  <2>3. calls \subseteq calls'
    BY <1>5
  <2> QED BY <2>1, <2>2, <2>3
<1>13. \/ /\ ~some
          /\ call_contexts' = [j \in DOMAIN ctxs \ {id} |-> ctxs[j]]
       \/ /\ some /\ answering
          /\ call_contexts' = [ctxs EXCEPT ![id] = done]
       \/ /\ some /\ ~answering
          /\ call_contexts' = [ctxs EXCEPT ![id] = ctx]
  <2>1. [ctxs EXCEPT ![id] = ctx][id] = ctx /\ DOMAIN [ctxs EXCEPT ![id] = ctx] = DOMAIN ctxs
    OBVIOUS
  <2>2. CASE ~some
    BY <1>6, <2>1, <2>2 DEF ContextsAfter, some, Restrict
  <2>3. CASE some /\ answering
    <3>1. Responds(ctx, run.result, TRUE)
      BY <2>3 DEF answering, Responds
    <3> DEFINE with == [ctxs EXCEPT ![id] = ctx]
    <3>2. call_contexts' = [with EXCEPT ![id].responded = TRUE, ![id].available = 0]
      BY <1>6, <2>1, <2>3, <3>1 DEF ContextsAfter, some
    <3>3. [with EXCEPT ![id].responded = TRUE, ![id].available = 0] = [ctxs EXCEPT ![id] = done]
      BY <1>4 DEF done
    <3> QED BY <2>3, <3>2, <3>3
  <2>4. CASE some /\ ~answering
    <3>1. ~Responds(ctx, run.result, TRUE)
      BY <2>4 DEF answering, Responds
    <3> QED BY <1>6, <2>1, <2>4, <3>1 DEF ContextsAfter, some
  <2> QED BY <2>2, <2>3, <2>4
<1>14. /\ done \in CallContexts /\ done.origin = old.origin /\ done.available = 0
       /\ done.responded = TRUE /\ done.deleted = old.deleted
  BY <1>4, ContextResponds DEF done
<1>15. /\ call_contexts' \in [DOMAIN call_contexts' -> CallContexts]
       /\ DOMAIN call_contexts' \subseteq DOMAIN ctxs
       /\ \A j \in DOMAIN ctxs \ {id} : j \in DOMAIN call_contexts' /\ call_contexts'[j] = ctxs[j]
       /\ id \in DOMAIN call_contexts' <=> some
       /\ id \in DOMAIN call_contexts' =>
            /\ call_contexts'[id].deleted = old.deleted
            /\ call_contexts'[id].responded => call_contexts'[id].available = 0
  BY <1>4, <1>13, <1>14
<1>16. answers' \in [Origins -> Nat] /\ settled' \in [Origins -> Nat]
  BY <1>2, <1>3, <1>4, <1>7 DEF CallContexts
<1>17. ASSUME NEW i \in Origins
       PROVE  /\ answers'[i] + Bit(id \in Open(call_contexts', i))
                   = answers[i] + Bit(id \in Open(ctxs, i))
              /\ settled'[i] + Bit(id \in Rich(call_contexts', i))
                   = settled[i] + Bit(id \in Rich(ctxs, i))
  <2>0. old = ctxs[id] /\ old.available \in {0, 1} /\ old.responded \in BOOLEAN
    BY <1>3 DEF old, CallContexts
  <2> DEFINE a == answers[i]
             s == settled[i]
  <2>00. a \in Nat /\ s \in Nat
    OBVIOUS
  <2>1. CASE old.origin # i
    <3>1. /\ id \notin Open(ctxs, i) /\ id \notin Rich(ctxs, i)
          /\ id \notin Open(call_contexts', i) /\ id \notin Rich(call_contexts', i)
      BY <1>4, <1>13, <1>14, <2>0, <2>1 DEF Open, Rich
    <3>2. answers'[i] = a /\ settled'[i] = s
      BY <1>7, <2>00, <2>1
    <3> QED BY <2>00, <3>1, <3>2 DEF Bit
  <2>2. CASE old.origin = i /\ old.responded
    <3>1. ~answering /\ run.accept = 0
      BY <1>2, <1>4, <2>0, <2>2 DEF answering, Responds, old
    <3>2. /\ id \notin Open(ctxs, i) /\ id \notin Rich(ctxs, i)
          /\ id \notin Open(call_contexts', i) /\ id \notin Rich(call_contexts', i)
      BY <1>4, <1>13, <2>0, <2>2, <3>1 DEF Open, Rich
    <3>3. answers'[i] = a /\ settled'[i] = s
      BY <1>7, <2>00, <2>2, <3>1
    <3> QED BY <2>00, <3>2, <3>3 DEF Bit
  <2>3. CASE old.origin = i /\ ~old.responded /\ answering
    <3>1. /\ id \in Open(ctxs, i) /\ (id \in Rich(ctxs, i) <=> old.available = 1)
          /\ id \notin Open(call_contexts', i) /\ id \notin Rich(call_contexts', i)
      BY <1>13, <1>14, <2>0, <2>3 DEF Open, Rich
    <3>2. answers'[i] = a + 1 /\ settled'[i] = s + old.available
      BY <1>2, <1>4, <1>7, <2>0, <2>00, <2>3
    <3> QED BY <2>0, <2>00, <3>1, <3>2 DEF Bit
  <2>4. CASE old.origin = i /\ ~old.responded /\ ~answering
    <3>1. some
      BY <1>4, <2>4 DEF answering, Responds
    <3>2. /\ id \in Open(ctxs, i) /\ (id \in Rich(ctxs, i) <=> old.available = 1)
          /\ id \in Open(call_contexts', i) /\ (id \in Rich(call_contexts', i) <=> ctx.available = 1)
      BY <1>4, <1>13, <2>0, <2>4, <3>1 DEF Open, Rich
    <3>3. answers'[i] = a /\ settled'[i] = s + run.accept
      BY <1>2, <1>7, <2>0, <2>00, <2>4
    <3>4. ctx.available \in {0, 1} /\ ctx.available + run.accept = old.available /\ run.accept \in Nat
      BY <1>2, <1>4, <2>0 DEF CallContexts
    <3> QED BY <2>0, <2>00, <3>2, <3>3, <3>4 DEF Bit
  <2> QED BY <2>0, <2>1, <2>2, <2>3, <2>4
<1>18. DOMAIN cbs \subseteq DOMAIN callbacks'
  BY <1>9
<1> QED BY <1>9, <1>10, <1>11, <1>12, <1>15, <1>16, <1>17, <1>18 DEF Finished, some, old

-----------------------------------------------------------------------------
(* The steps of an execution. *)

ManagerTypes ==
  /\ call_contexts \in [DOMAIN call_contexts -> CallContexts]
  /\ DOMAIN call_contexts \subseteq 1 .. next_call_context_id
  /\ callbacks \in [DOMAIN callbacks -> Callbacks]
  /\ DOMAIN callbacks \subseteq 1 .. next_callback_id
  /\ next_call_context_id \in 0 .. MaxContexts /\ next_callback_id \in 0 .. MaxCalls
  /\ made \in 0 .. MaxCalls /\ next_callback_id <= made
  /\ calls \subseteq Calls
  /\ answers \in [Origins -> Nat] /\ settled \in [Origins -> Nat]

\* Contexts and callbacks refer to each other, and contexts have what they need.
Linked ==
  /\ \A id \in DOMAIN call_contexts :
       /\ call_contexts[id].deleted => call_contexts[id].responded
       /\ call_contexts[id].deleted \/ installed
       /\ call_contexts[id].responded => call_contexts[id].available = 0
       /\ HasOutstandingCalls(callbacks, id)
  /\ \A c \in DOMAIN callbacks : callbacks[c].context \in DOMAIN call_contexts

\* The callbacks that are not used up stay, and new calls have new callbacks.
Kept(used) ==
  /\ \A c \in DOMAIN callbacks \ used : c \in DOMAIN callbacks' /\ callbacks'[c] = callbacks[c]
  /\ calls \subseteq calls'
  /\ \A m \in calls' \ calls : m.callback \notin DOMAIN callbacks /\ Awaited(m)'

\* What the open contexts of a request lose, its books gain; the request o is new
\* to them.
Books(o) ==
  \A i \in Origins :
    /\ answers'[i] + Cardinality(Open(call_contexts', i))
         = answers[i] + Cardinality(Open(call_contexts, i)) + Bit(i = o)
    /\ settled'[i] + Cardinality(Rich(call_contexts', i))
         = settled[i] + Cardinality(Rich(call_contexts, i)) + (IF i = o THEN Payment(i) ELSE 0)

Executed(o, used) == ManagerTypes' /\ Linked' /\ Kept(used) /\ Books(o)

LEMMA PaymentType == \A i : Payment(i) \in {0, 1}
BY DEF Payment

LEMMA Balance ==
  \A a, b, p, q, bp, bq, x \in Nat :
     b + bq = a + (bp + x) /\ q + bp = p + bq => b + q = a + p + x
OBVIOUS

LEMMA FinishedExecuted ==
  ASSUME ManagerTypes, Linked, installed' = installed,
         NEW ctxs, NEW cbs, NEW id, NEW o, Finished(ctxs, cbs, id),
         next_call_context_id' \in 0 .. MaxContexts,
         DOMAIN ctxs \subseteq 1 .. next_call_context_id', id \in DOMAIN ctxs,
         id \in DOMAIN call_contexts' =>
           /\ call_contexts'[id].deleted => call_contexts'[id].responded
           /\ call_contexts'[id].deleted \/ installed,
         DOMAIN call_contexts \subseteq DOMAIN ctxs,
         \A j \in DOMAIN ctxs \ {id} : j \in DOMAIN call_contexts /\ ctxs[j] = call_contexts[j],
         \A c \in DOMAIN cbs : c \in DOMAIN callbacks /\ cbs[c] = callbacks[c],
         \A c \in DOMAIN callbacks \ DOMAIN cbs : callbacks[c].context = id,
         \A i \in Origins :
           /\ Bit(id \in Open(ctxs, i)) = Bit(id \in Open(call_contexts, i)) + Bit(i = o)
           /\ Bit(id \in Rich(ctxs, i)) = Bit(id \in Rich(call_contexts, i))
                                            + (IF i = o THEN Payment(i) ELSE 0)
  PROVE  Executed(o, DOMAIN callbacks \ DOMAIN cbs)
<1>0. MaxContexts \in Nat /\ MaxCalls \in Nat
  BY BoundsAssumption
<1>1. ManagerTypes'
  <2>1. next_callback_id' \in 0 .. MaxCalls
    BY <1>0 DEF Finished
  <2>2. DOMAIN call_contexts' \subseteq 1 .. next_call_context_id'
    BY DEF Finished
  <2> QED BY <2>1, <2>2 DEF Finished, ManagerTypes
<1>2. Linked'
  <2>1. ASSUME NEW j \in DOMAIN call_contexts'
        PROVE  /\ call_contexts'[j].deleted => call_contexts'[j].responded
               /\ call_contexts'[j].deleted \/ installed'
               /\ call_contexts'[j].responded => call_contexts'[j].available = 0
               /\ HasOutstandingCalls(callbacks', j)
    <3>1. CASE j = id
      BY <3>1 DEF Finished
    <3>2. CASE j # id
      <4>1. j \in DOMAIN call_contexts /\ call_contexts'[j] = call_contexts[j]
        BY <3>2 DEF Finished
      <4>2. PICK c \in DOMAIN callbacks : callbacks[c].context = j
        BY <4>1 DEF Linked, HasOutstandingCalls
      <4>3. c \in DOMAIN cbs
        BY <3>2, <4>2
      <4>4. c \in DOMAIN callbacks' /\ callbacks'[c] = callbacks[c]
        BY <4>3 DEF Finished
      <4>5. HasOutstandingCalls(callbacks', j)
        BY <4>2, <4>4 DEF HasOutstandingCalls
      <4> QED BY <4>1, <4>5 DEF Linked
    <3> QED BY <3>1, <3>2
  <2>2. ASSUME NEW c \in DOMAIN callbacks'
        PROVE  callbacks'[c].context \in DOMAIN call_contexts'
    <3>1. CASE callbacks'[c].context = id
      BY <3>1 DEF Finished, HasOutstandingCalls
    <3>2. CASE callbacks'[c].context # id
      <4>1. c \in DOMAIN cbs /\ callbacks'[c] = cbs[c]
        BY <3>2 DEF Finished
      <4>2. callbacks'[c].context \in DOMAIN call_contexts
        BY <4>1 DEF Linked
      <4> QED BY <3>2, <4>2 DEF Finished
    <3> QED BY <3>1, <3>2
  <2> QED BY <2>1, <2>2 DEF Linked
<1>3. Kept(DOMAIN callbacks \ DOMAIN cbs)
  <2>1. ASSUME NEW c \in DOMAIN callbacks \ (DOMAIN callbacks \ DOMAIN cbs)
        PROVE  c \in DOMAIN callbacks' /\ callbacks'[c] = callbacks[c]
    BY DEF Finished
  <2>2. ASSUME NEW m \in calls' \ calls
        PROVE  m.callback \notin DOMAIN callbacks /\ Awaited(m)'
    BY DEF Finished, ManagerTypes
  <2> QED BY <2>1, <2>2 DEF Kept, Finished
<1>4. ASSUME NEW i \in Origins
      PROVE  /\ answers'[i] + Cardinality(Open(call_contexts', i))
                  = answers[i] + Cardinality(Open(call_contexts, i)) + Bit(i = o)
             /\ settled'[i] + Cardinality(Rich(call_contexts', i))
                  = settled[i] + Cardinality(Rich(call_contexts, i))
                      + (IF i = o THEN Payment(i) ELSE 0)
  <2>1. \A j \in (DOMAIN call_contexts \cup DOMAIN call_contexts') \ {id} :
           /\ j \in DOMAIN call_contexts /\ j \in DOMAIN call_contexts'
           /\ call_contexts[j] = call_contexts'[j]
    BY DEF Finished
  <2>2. /\ next_call_context_id' \in Nat
        /\ DOMAIN call_contexts \subseteq 1 .. next_call_context_id'
        /\ DOMAIN call_contexts' \subseteq 1 .. next_call_context_id'
    BY <1>0 DEF Finished
  <2> DEFINE p == Cardinality(Open(call_contexts, i))
             q == Cardinality(Open(call_contexts', i))
             r == Cardinality(Rich(call_contexts, i))
             s == Cardinality(Rich(call_contexts', i))
             bp == Bit(id \in Open(call_contexts, i))
             bq == Bit(id \in Open(call_contexts', i))
             br == Bit(id \in Rich(call_contexts, i))
             bs == Bit(id \in Rich(call_contexts', i))
             x == Bit(i = o)
             y == IF i = o THEN Payment(i) ELSE 0
  <2>3. /\ p \in Nat /\ q \in Nat /\ r \in Nat /\ s \in Nat
        /\ q + bp = p + bq /\ s + br = r + bs
    BY <2>1, <2>2, OpenChange
  <2>4. bp \in Nat /\ bq \in Nat /\ br \in Nat /\ bs \in Nat /\ x \in Nat /\ y \in Nat
    BY PaymentType DEF Bit
  <2>5. answers'[i] + bq = answers[i] + Bit(id \in Open(ctxs, i))
        /\ settled'[i] + bs = settled[i] + Bit(id \in Rich(ctxs, i))
    BY DEF Finished
  <2>6. Bit(id \in Open(ctxs, i)) = bp + x /\ Bit(id \in Rich(ctxs, i)) = br + y
    OBVIOUS
  <2>7. answers[i] \in Nat /\ settled[i] \in Nat /\ answers'[i] \in Nat /\ settled'[i] \in Nat
    BY DEF ManagerTypes, Finished
  <2> HIDE DEF p, q, r, s, bp, bq, br, bs, x, y
  <2>8. answers'[i] + q = answers[i] + p + x
    BY <2>3, <2>4, <2>5, <2>6, <2>7, Balance
  <2>9. settled'[i] + s = settled[i] + r + y
    BY <2>3, <2>4, <2>5, <2>6, <2>7, Balance
  <2> QED BY <2>8, <2>9 DEF p, q, r, s, x, y
<1> QED BY <1>1, <1>2, <1>3, <1>4 DEF Executed, Books

LEMMA NewContextExecuted ==
  ASSUME ManagerTypes, Linked, installed = TRUE, installed' = installed,
         NEW o \in Origins \cup {SystemTask}, NEW cycles,
         cycles = IF o \in Origins THEN Payment(o) ELSE 0,
         NEW results \in SUBSET Results, RunInNewContext(o, cycles, results)
  PROVE  Executed(o, {})
<1> DEFINE id == next_call_context_id + 1
           ctx == CallContext(o, cycles)
           ctxs == Extended(call_contexts, [x \in {id} |-> ctx])
<1>0. MaxContexts \in Nat /\ next_call_context_id \in Nat
  BY BoundsAssumption DEF ManagerTypes
<1>1. /\ id \in Nat /\ id <= MaxContexts /\ next_call_context_id' = id
      /\ Finish(ctxs, callbacks, id, results)
  BY <1>0 DEF RunInNewContext
<1>2. cycles \in {0, 1}
  BY PaymentType
<1>3. /\ ctx \in CallContexts /\ ctx.origin = o /\ ctx.available = cycles
      /\ ctx.responded = FALSE /\ ctx.deleted = FALSE
  BY <1>2 DEF CallContext, CallContexts
<1>4. id \notin DOMAIN call_contexts
  BY <1>0 DEF ManagerTypes
<1> HIDE DEF ctx, id
<1>5. /\ DOMAIN ctxs = DOMAIN call_contexts \cup {id}
      /\ ctxs[id] = ctx
      /\ \A j \in DOMAIN call_contexts : ctxs[j] = call_contexts[j]
  BY <1>4 DEF Extended
<1>6. ctxs \in [DOMAIN ctxs -> CallContexts]
  <2>1. ctxs = [x \in DOMAIN ctxs |-> ctxs[x]]
    BY DEF Extended
  <2>2. \A x \in DOMAIN ctxs : ctxs[x] \in CallContexts
    BY <1>3, <1>5 DEF ManagerTypes
  <2> HIDE DEF ctxs
  <2> QED BY <2>1, <2>2
<1>7. DOMAIN ctxs \subseteq 1 .. id
  BY <1>0, <1>1, <1>5 DEF ManagerTypes, id
<1> HIDE DEF ctxs
<1>8. Finished(ctxs, callbacks, id)
  BY <1>1, <1>3, <1>5, <1>6, FinishEffect DEF ManagerTypes
<1>9. ASSUME NEW i \in Origins
      PROVE  /\ Bit(id \in Open(ctxs, i)) = Bit(id \in Open(call_contexts, i)) + Bit(i = o)
             /\ Bit(id \in Rich(ctxs, i)) = Bit(id \in Rich(call_contexts, i))
                                              + (IF i = o THEN Payment(i) ELSE 0)
  <2>1. id \notin Open(call_contexts, i) /\ id \notin Rich(call_contexts, i)
    BY <1>4 DEF Open, Rich
  <2>2. CASE i = o
    <3>1. id \in Open(ctxs, i) /\ (id \in Rich(ctxs, i) <=> cycles = 1)
      BY <1>3, <1>5, <2>2 DEF Open, Rich
    <3>2. cycles = Payment(i)
      BY <2>2
    <3> QED BY <1>2, <2>1, <2>2, <3>1, <3>2 DEF Bit
  <2>3. CASE i # o
    <3>1. id \notin Open(ctxs, i) /\ id \notin Rich(ctxs, i)
      BY <1>3, <1>5, <2>3 DEF Open, Rich
    <3> QED BY <2>1, <2>3, <3>1 DEF Bit
  <2> QED BY <2>2, <2>3
<1>10. id \in 0 .. MaxContexts
  BY <1>0, <1>1
<1>13. id \in DOMAIN call_contexts' => ~call_contexts'[id].deleted
  BY <1>3, <1>5, <1>8 DEF Finished
<1>11. Executed(o, DOMAIN callbacks \ DOMAIN callbacks)
  BY <1>1, <1>3, <1>4, <1>5, <1>7, <1>8, <1>9, <1>10, <1>13, FinishedExecuted
<1>12. DOMAIN callbacks \ DOMAIN callbacks = {}
  OBVIOUS
<1> QED BY <1>11, <1>12

\* The callbacks without that of m.
LEMMA CallbackUsed ==
  ASSUME ManagerTypes, NEW m, m.callback \in DOMAIN callbacks
  PROVE  /\ WithoutCallback(m) \in [DOMAIN callbacks \ {m.callback} -> Callbacks]
         /\ DOMAIN WithoutCallback(m) = DOMAIN callbacks \ {m.callback}
         /\ \A c \in DOMAIN WithoutCallback(m) : WithoutCallback(m)[c] = callbacks[c]
         /\ DOMAIN callbacks \ DOMAIN WithoutCallback(m) = {m.callback}
BY DEF ManagerTypes, WithoutCallback, Restrict

LEMMA ResponseExecuted ==
  ASSUME ManagerTypes, Linked, UNCHANGED <<installed, next_call_context_id>>,
         installed \in BOOLEAN, NEW m, Found(m), ~call_contexts[ContextOf(m)].deleted,
         Finish(call_contexts, WithoutCallback(m), ContextOf(m), Results)
  PROVE  Executed(SystemTask, {m.callback})
<1> DEFINE id == ContextOf(m)
           cbs == WithoutCallback(m)
<1>0. MaxContexts \in Nat /\ next_call_context_id \in Nat
  BY BoundsAssumption DEF ManagerTypes
<1>1. m.callback \in DOMAIN callbacks /\ id \in DOMAIN call_contexts /\ id = callbacks[m.callback].context
  BY DEF Found, ContextOf
<1>2. id \in Nat /\ (call_contexts[id].responded => call_contexts[id].available = 0)
  BY <1>0, <1>1 DEF ManagerTypes, Linked
<1>3. /\ cbs \in [DOMAIN cbs -> Callbacks]
      /\ DOMAIN cbs = DOMAIN callbacks \ {m.callback}
      /\ \A c \in DOMAIN cbs : c \in DOMAIN callbacks /\ cbs[c] = callbacks[c]
      /\ DOMAIN callbacks \ DOMAIN cbs = {m.callback}
  BY <1>1, CallbackUsed
<1>4. installed = TRUE
  BY <1>1 DEF Linked
<1>5. ~call_contexts[id].deleted /\ Finish(call_contexts, cbs, id, Results)
  OBVIOUS
<1> HIDE DEF id, cbs
<1>6. Finished(call_contexts, cbs, id)
  BY <1>1, <1>2, <1>3, <1>5, FinishEffect DEF ManagerTypes, Linked
<1>7. ASSUME NEW i \in Origins
      PROVE  /\ Bit(id \in Open(call_contexts, i))
                  = Bit(id \in Open(call_contexts, i)) + Bit(i = SystemTask)
             /\ Bit(id \in Rich(call_contexts, i))
                  = Bit(id \in Rich(call_contexts, i))
                      + (IF i = SystemTask THEN Payment(i) ELSE 0)
  BY NamesAssumption DEF Bit
<1>8. \A c \in DOMAIN callbacks \ DOMAIN cbs : callbacks[c].context = id
  BY <1>1, <1>3
<1>9. /\ next_call_context_id' \in 0 .. MaxContexts
      /\ DOMAIN call_contexts \subseteq 1 .. next_call_context_id'
  BY DEF ManagerTypes
<1>10. id \in DOMAIN call_contexts' => ~call_contexts'[id].deleted
  BY <1>5, <1>6 DEF Finished
<1>11. Executed(SystemTask, DOMAIN callbacks \ DOMAIN cbs)
  BY <1>1, <1>3, <1>4, <1>6, <1>7, <1>8, <1>9, <1>10, FinishedExecuted
<1> QED BY <1>3, <1>11

\* A response to a deleted context.
LEMMA DeletedExecuted ==
  ASSUME ManagerTypes, Linked, UNCHANGED <<installed, next_call_context_id>>,
         NEW m, Found(m), call_contexts[ContextOf(m)].deleted, FinishDeleted(m)
  PROVE  Executed(SystemTask, {m.callback})
<1> DEFINE id == ContextOf(m)
           cbs == WithoutCallback(m)
<1>1. m.callback \in DOMAIN callbacks /\ id \in DOMAIN call_contexts /\ id = callbacks[m.callback].context
  BY DEF Found, ContextOf
<1>2. call_contexts[id].deleted /\ call_contexts[id].responded
  BY <1>1 DEF Linked
<1>3. /\ cbs \in [DOMAIN cbs -> Callbacks]
      /\ DOMAIN cbs = DOMAIN callbacks \ {m.callback}
      /\ \A c \in DOMAIN cbs : c \in DOMAIN callbacks /\ cbs[c] = callbacks[c]
      /\ DOMAIN callbacks \ DOMAIN cbs = {m.callback}
  BY <1>1, CallbackUsed
<1>4. /\ callbacks' = cbs
      /\ call_contexts' = ContextsAfter(call_contexts, cbs, id, "nothing")
      /\ UNCHANGED <<next_callback_id, calls, made, answers, settled>>
  BY DEF FinishDeleted
<1> HIDE DEF id, cbs
<1>5. IF HasOutstandingCalls(callbacks', id) THEN call_contexts' = call_contexts
      ELSE call_contexts' = [j \in DOMAIN call_contexts \ {id} |-> call_contexts[j]]
  BY <1>2, <1>4 DEF ContextsAfter, Responds, Restrict
<1>6. /\ call_contexts' \in [DOMAIN call_contexts' -> CallContexts]
      /\ DOMAIN call_contexts' \subseteq DOMAIN call_contexts
      /\ \A j \in DOMAIN call_contexts \ {id} :
            j \in DOMAIN call_contexts' /\ call_contexts'[j] = call_contexts[j]
      /\ id \in DOMAIN call_contexts' <=> HasOutstandingCalls(callbacks', id)
      /\ id \in DOMAIN call_contexts' => call_contexts'[id] = call_contexts[id]
  BY <1>1, <1>5 DEF ManagerTypes
<1>7. ASSUME NEW i \in Origins
      PROVE  /\ id \notin Open(call_contexts, i) /\ id \notin Rich(call_contexts, i)
             /\ id \notin Open(call_contexts', i) /\ id \notin Rich(call_contexts', i)
             /\ i # SystemTask
  <2>1. i # SystemTask
    BY NamesAssumption
  <2>2. id \in DOMAIN call_contexts' => call_contexts'[id].responded
    BY <1>2, <1>6
  <2> QED BY <1>2, <2>1, <2>2 DEF Open, Rich
<1>8. Finished(call_contexts, cbs, id)
  <2>1. /\ id \in DOMAIN call_contexts' =>
             /\ call_contexts'[id].deleted = call_contexts[id].deleted
             /\ call_contexts'[id].responded => call_contexts'[id].available = 0
    BY <1>1, <1>6 DEF Linked
  <2>2. /\ callbacks' \in [DOMAIN callbacks' -> Callbacks]
        /\ DOMAIN cbs \subseteq DOMAIN callbacks'
        /\ DOMAIN callbacks' \subseteq 1 .. next_callback_id'
        /\ \A c \in DOMAIN cbs : callbacks'[c] = cbs[c]
        /\ \A c \in DOMAIN callbacks' \ DOMAIN cbs : callbacks'[c].context = id
    BY <1>3, <1>4 DEF ManagerTypes
  <2>3. /\ next_callback_id' \in Nat /\ next_callback_id' <= made' /\ made' \in 0 .. MaxCalls
        /\ calls' \subseteq Calls /\ calls \subseteq calls'
        /\ \A c \in calls' \ calls : c.callback > next_callback_id /\ Awaited(c)'
        /\ answers' \in [Origins -> Nat] /\ settled' \in [Origins -> Nat]
    BY <1>4 DEF ManagerTypes
  <2>4. \A i \in Origins :
          /\ answers'[i] + Bit(id \in Open(call_contexts', i))
               = answers[i] + Bit(id \in Open(call_contexts, i))
          /\ settled'[i] + Bit(id \in Rich(call_contexts', i))
               = settled[i] + Bit(id \in Rich(call_contexts, i))
    BY <1>4, <1>7 DEF Bit
  <2> QED BY <1>6, <2>1, <2>2, <2>3, <2>4 DEF Finished
<1>9. \A i \in Origins :
        /\ Bit(id \in Open(call_contexts, i))
             = Bit(id \in Open(call_contexts, i)) + Bit(i = SystemTask)
        /\ Bit(id \in Rich(call_contexts, i))
             = Bit(id \in Rich(call_contexts, i)) + (IF i = SystemTask THEN Payment(i) ELSE 0)
  BY <1>7 DEF Bit
<1>10. \A c \in DOMAIN callbacks \ DOMAIN cbs : callbacks[c].context = id
  BY <1>1, <1>3
<1>11. /\ next_call_context_id' \in 0 .. MaxContexts
       /\ DOMAIN call_contexts \subseteq 1 .. next_call_context_id'
  BY DEF ManagerTypes
<1>12. id \in DOMAIN call_contexts' => call_contexts'[id].deleted /\ call_contexts'[id].responded
  BY <1>2, <1>6
<1>13. Executed(SystemTask, DOMAIN callbacks \ DOMAIN cbs)
  BY <1>1, <1>3, <1>8, <1>9, <1>10, <1>11, <1>12, FinishedExecuted
<1> QED BY <1>3, <1>13

\* The request o is new to the books, or none is, and the manager stays.
LEMMA AnswersExecuted ==
  ASSUME ManagerTypes, Linked, installed' = installed, UNCHANGED <<manager, calls, made>>, NEW o,
         \/ o \in Origins /\ Refuse(o)
         \/ o \notin Origins /\ UNCHANGED <<answers, settled>>
  PROVE  Executed(o, {})
<1>1. /\ answers' \in [Origins -> Nat] /\ settled' \in [Origins -> Nat]
      /\ \A i \in Origins :
           /\ answers'[i] = answers[i] + Bit(i = o)
           /\ settled'[i] = settled[i] + (IF i = o THEN Payment(i) ELSE 0)
  <2>1. \A i \in Origins : answers[i] \in Nat /\ settled[i] \in Nat
    BY DEF ManagerTypes
  <2> QED BY <2>1, PaymentType DEF Refuse, Bit, ManagerTypes
<1>2. ManagerTypes' /\ Linked'
  BY <1>1 DEF ManagerTypes, Linked, manager, HasOutstandingCalls
<1>3. Kept({})
  BY DEF Kept, manager
<1>4. ASSUME NEW i \in Origins
      PROVE  /\ answers'[i] + Cardinality(Open(call_contexts', i))
                  = answers[i] + Cardinality(Open(call_contexts, i)) + Bit(i = o)
             /\ settled'[i] + Cardinality(Rich(call_contexts', i))
                  = settled[i] + Cardinality(Rich(call_contexts, i))
                      + (IF i = o THEN Payment(i) ELSE 0)
  <2> DEFINE p == Cardinality(Open(call_contexts, i))
             q == Cardinality(Rich(call_contexts, i))
             x == Bit(i = o)
             y == IF i = o THEN Payment(i) ELSE 0
  <2>1. next_call_context_id \in Nat
    BY BoundsAssumption DEF ManagerTypes
  <2>2. p \in Nat /\ q \in Nat
    BY <2>1, OpenFinite, FS_CardinalityType DEF ManagerTypes
  <2>3. x \in Nat /\ y \in Nat
    BY PaymentType DEF Bit
  <2>4. answers[i] \in Nat /\ settled[i] \in Nat /\ answers'[i] = answers[i] + x /\ settled'[i] = settled[i] + y
    BY <1>1 DEF ManagerTypes
  <2>5. call_contexts' = call_contexts
    BY DEF manager
  <2> HIDE DEF p, q, x, y
  <2>6. answers'[i] + p = answers[i] + p + x /\ settled'[i] + q = settled[i] + q + y
    BY <2>2, <2>3, <2>4
  <2> QED BY <2>5, <2>6 DEF p, q, x, y
<1> QED BY <1>2, <1>3, <1>4 DEF Executed, Books

OriginOf(m) == IF IsResponse(m) THEN SystemTask ELSE m.from

UsedBy(m) == IF IsResponse(m) THEN {m.callback} ELSE {}

LEMMA CompleteExecuted ==
  ASSUME ManagerTypes, Linked, installed \in BOOLEAN, installed' = installed,
         NEW m \in Messages, Complete(m)
  PROVE  Executed(OriginOf(m), UsedBy(m)) \/ Executed(OriginOf(m), {})
<1>1. CASE m.kind = "Request" /\ ExecuteRequest(m.from)
  <2>1. OriginOf(m) = m.from /\ m.from \in Origins
    BY <1>1 DEF OriginOf, IsResponse, Messages
  <2>2. CASE ~Executable /\ Refuse(m.from) /\ UNCHANGED <<manager, calls, made>>
    BY <2>1, <2>2, AnswersExecuted
  <2>3. CASE Executable /\ RunInNewContext(m.from, Payment(m.from), Results)
    BY <2>1, <2>3, NewContextExecuted DEF Executable
  <2> QED BY <1>1, <2>2, <2>3 DEF ExecuteRequest
<1>2. CASE m.kind = "Response" /\ ExecuteResponse(m)
  <2>1. OriginOf(m) = SystemTask /\ UsedBy(m) = {m.callback}
    BY <1>2 DEF OriginOf, UsedBy, IsResponse
  <2>2. CASE UNCHANGED <<manager, calls, made, answers, settled>>
    BY <2>1, <2>2, AnswersExecuted, NamesAssumption
  <2>3. CASE /\ Found(m) /\ call_contexts[ContextOf(m)].deleted /\ FinishDeleted(m)
             /\ UNCHANGED next_call_context_id
    BY <2>1, <2>3, DeletedExecuted
  <2>4. CASE /\ Found(m) /\ ~call_contexts[ContextOf(m)].deleted
             /\ Finish(call_contexts, WithoutCallback(m), ContextOf(m), Results)
             /\ UNCHANGED next_call_context_id
    BY <2>1, <2>4, ResponseExecuted
  <2> QED BY <1>2, <2>2, <2>3, <2>4 DEF ExecuteResponse
<1> QED BY <1>1, <1>2 DEF Complete

-----------------------------------------------------------------------------
(* The invariant. *)

\* What the status, the stop requests, the task and the inputs may be.
Control ==
  /\ status \in {"Running", "Stopping", "Stopped", "Deleted"}
  /\ stop_contexts \subseteq asked \ replied
  /\ stop_contexts # {} <=> status = "Stopping"
  /\ status \in {"Stopped", "Deleted"} => call_contexts = <<>> /\ callbacks = <<>>
  /\ task = None \/ task \in [message : Messages, paused : BOOLEAN]
  /\ input \subseteq Messages
  /\ installed \in BOOLEAN
  /\ replied \subseteq asked

\* A paused execution can be resumed.
Resumable == Paused => Runs(task.message)

Waiting(i) == Bit(InQueue(i)) + Bit(InTask(i))

\* The cycles of n requests like i.
Paid(i, n) == IF i \in Requests THEN n ELSE 0

\* RequestsSettled, with the open contexts as sets.
Settled ==
  \A i \in Origins :
    /\ answers[i] + Waiting(i) + Cardinality(Open(call_contexts, i)) = Bit(i \in sent)
    /\ settled[i] + Paid(i, Waiting(i)) + Cardinality(Rich(call_contexts, i))
         = Paid(i, Bit(i \in sent))

Resumes(m) == task # None /\ task.message = m

\* The responses that wait for their execution or for its end.
Underway == {m \in Messages : IsResponse(m) /\ (m \in input \/ Resumes(m))}

\* Calls and responses are awaited, and in one place only.
CallsAwaited ==
  /\ \A m \in calls : Awaited(m) /\ Response(m) \notin Underway
  /\ \A m \in Underway : Awaited(m) /\ ~(m \in input /\ Resumes(m))

Inv ==
  /\ ManagerTypes
  /\ Control
  /\ Linked
  /\ Resumable
  /\ Settled
  /\ orphans = {} => stray = {} /\ CallsAwaited

LEMMA InvTypes == Inv => TypeOK
BY DEF Inv, ManagerTypes, Control, TypeOK, CallContexts

LEMMA InvConsistent == Inv => ContextsConsistent
BY DEF Inv, Linked, Resumable, ContextsConsistent

LEMMA InvResponses == Inv => ResponsesFindTheirCall
BY DEF Inv, ResponsesFindTheirCall

LEMMA InvSettled == Inv => RequestsSettled
<1> SUFFICES ASSUME Inv, NEW i \in Origins
             PROVE  LET waiting == (IF InQueue(i) THEN 1 ELSE 0) + (IF InTask(i) THEN 1 ELSE 0)
                    IN  /\ answers[i] + waiting + Cardinality(OpenFor(i))
                             = IF i \in sent THEN 1 ELSE 0
                        /\ settled[i] + waiting * Payment(i) + Cycles(call_contexts, OpenFor(i))
                             = IF i \in sent THEN Payment(i) ELSE 0
  BY DEF RequestsSettled
<1>1. /\ answers[i] + Waiting(i) + Cardinality(OpenFor(i)) = Bit(i \in sent)
      /\ settled[i] + Paid(i, Waiting(i)) + Cycles(call_contexts, OpenFor(i))
           = Paid(i, Bit(i \in sent))
  BY OpenSets DEF Inv, Settled
<1>2. Waiting(i) = (IF InQueue(i) THEN 1 ELSE 0) + (IF InTask(i) THEN 1 ELSE 0)
  BY DEF Waiting, Bit
<1>3. Waiting(i) \in Nat
  BY DEF Waiting, Bit
<1>4. Waiting(i) * Payment(i) = Paid(i, Waiting(i))
  BY <1>3 DEF Payment, Paid
<1>5. Paid(i, Bit(i \in sent)) = IF i \in sent THEN Payment(i) ELSE 0
  BY DEF Paid, Payment, Bit
<1>6. Bit(i \in sent) = IF i \in sent THEN 1 ELSE 0
  BY DEF Bit
<1> QED BY <1>1, <1>2, <1>4, <1>5, <1>6

LEMMA InitInv == Init => Inv
<1> SUFFICES ASSUME Init PROVE Inv
  OBVIOUS
<1>1. MaxContexts \in Nat /\ MaxCalls \in Nat
  BY BoundsAssumption
<1>2. ManagerTypes
  BY <1>1 DEF Init, ManagerTypes
<1>3. Control /\ Linked /\ Resumable
  BY DEF Init, Control, Linked, Resumable, Paused
<1>4. ASSUME NEW i \in Origins
      PROVE  /\ answers[i] + Waiting(i) + Cardinality(Open(call_contexts, i)) = Bit(i \in sent)
             /\ settled[i] + Paid(i, Waiting(i)) + Cardinality(Rich(call_contexts, i))
                  = Paid(i, Bit(i \in sent))
  <2>1. Open(call_contexts, i) = {} /\ Rich(call_contexts, i) = {}
    BY DEF Init, Open, Rich
  <2>2. Cardinality({}) = 0
    BY FS_EmptySet
  <2>3. Waiting(i) = 0
    BY DEF Init, Waiting, InQueue, InTask, Bit
  <2>4. answers[i] = 0 /\ settled[i] = 0 /\ i \notin sent
    BY DEF Init
  <2> QED BY <2>1, <2>2, <2>3, <2>4 DEF Bit, Paid
<1>5. stray = {} /\ CallsAwaited
  BY DEF Init, CallsAwaited, Underway, Resumes
<1> QED BY <1>2, <1>3, <1>4, <1>5 DEF Inv, Settled

-----------------------------------------------------------------------------
(* What steps keep. *)

\* Requests leave the queue or the task for the books.
LEMMA SettledKept ==
  ASSUME ManagerTypes, ManagerTypes', Settled, NEW o, Books(o), sent' = sent,
         \A i \in Origins : Waiting(i) = Waiting(i)' + Bit(i = o)
  PROVE  Settled'
<1> SUFFICES ASSUME NEW i \in Origins
             PROVE  /\ answers'[i] + Waiting(i)' + Cardinality(Open(call_contexts', i))
                         = Bit(i \in sent)
                    /\ settled'[i] + Paid(i, Waiting(i)') + Cardinality(Rich(call_contexts', i))
                         = Paid(i, Bit(i \in sent))
  BY DEF Settled
<1> DEFINE w == Waiting(i)
           v == Waiting(i)'
           x == Bit(i = o)
           p == Cardinality(Open(call_contexts, i))
           q == Cardinality(Open(call_contexts', i))
           r == Cardinality(Rich(call_contexts, i))
           s == Cardinality(Rich(call_contexts', i))
           t == Bit(i \in sent)
<1>1. w \in Nat /\ v \in Nat /\ x \in Nat /\ t \in Nat
  BY DEF Waiting, Bit
<1>2. next_call_context_id \in Nat /\ next_call_context_id' \in Nat
  BY BoundsAssumption DEF ManagerTypes
<1>3. p \in Nat /\ q \in Nat /\ r \in Nat /\ s \in Nat
  BY <1>2, OpenFinite, FS_CardinalityType DEF ManagerTypes
<1>4. answers[i] \in Nat /\ settled[i] \in Nat /\ answers'[i] \in Nat /\ settled'[i] \in Nat
  BY DEF ManagerTypes
<1>5. /\ answers'[i] + q = answers[i] + p + x
      /\ settled'[i] + s = settled[i] + r + (IF i = o THEN Payment(i) ELSE 0)
  BY DEF Books
<1>6. (IF i = o THEN Payment(i) ELSE 0) = Paid(i, x)
  BY DEF Payment, Paid, Bit
<1>7. answers[i] + w + p = t /\ settled[i] + Paid(i, w) + r = Paid(i, t)
  BY DEF Settled
<1>8. w = v + x
  OBVIOUS
<1> HIDE DEF w, v, x, p, q, r, s, t
<1>9. answers'[i] + v + q = t
  BY <1>1, <1>3, <1>4, <1>5, <1>7, <1>8
<1>10. settled'[i] + Paid(i, v) + s = Paid(i, t)
  <2>1. Paid(i, w) = Paid(i, v) + Paid(i, x) /\ Paid(i, v) \in Nat /\ Paid(i, x) \in Nat
        /\ Paid(i, t) \in Nat
    BY <1>1, <1>8 DEF Paid
  <2> DEFINE pv == Paid(i, v)
             px == Paid(i, x)
             pt == Paid(i, t)
  <2>2. settled'[i] + s = settled[i] + r + px
    BY <1>5, <1>6
  <2>3. settled[i] + (pv + px) + r = pt
    BY <1>7, <2>1
  <2> HIDE DEF pv, px, pt
  <2>4. settled'[i] + pv + s = pt
    BY <1>3, <1>4, <2>1, <2>2, <2>3 DEF pv, px, pt
  <2> QED BY <2>4 DEF pv, pt
<1> QED BY <1>9, <1>10 DEF v, q, s, t

\* At most one response is taken, together with its callback.
LEMMA AwaitedKept ==
  ASSUME ManagerTypes, CallsAwaited, NEW m, NEW used, Kept(used), Underway' \subseteq Underway,
         used = {} \/ (used = {m.callback} /\ m \in Underway /\ m \notin Underway'),
         \A x \in Underway' : ~(x \in input' /\ Resumes(x)')
  PROVE  CallsAwaited'
<1>0. \A x \in Underway : x \in [kind : {"Response"}, callback : 1 .. MaxCalls,
                                respondent : Peers, call : 1 .. MaxCalls]
  BY DEF Underway, Messages, IsResponse
<1>1. ASSUME NEW x, Awaited(x), x.callback \notin used
      PROVE  Awaited(x)'
  BY <1>1 DEF Awaited, Kept
<1>2. ASSUME NEW x \in Underway' PROVE Awaited(x)'
  <2>1. Awaited(x)
    BY DEF CallsAwaited
  <2>2. CASE x.callback \in used
    <3>1. m \in Underway /\ x \in Underway /\ x # m /\ x.callback = m.callback /\ Awaited(m)
      BY <2>2 DEF CallsAwaited
    <3>2. x.respondent = m.respondent /\ x.call = m.call
      BY <2>1, <3>1 DEF Awaited
    <3>3. x = m
      BY <1>0, <3>1, <3>2
    <3> QED BY <3>1, <3>3
  <2> QED BY <1>1, <2>1, <2>2
<1>3. ASSUME NEW c \in calls' PROVE Awaited(c)' /\ Response(c) \notin Underway'
  <2>1. CASE c \in calls
    <3>1. Awaited(c) /\ Response(c) \notin Underway
      BY <2>1 DEF CallsAwaited
    <3>2. CASE c.callback \in used
      <4>1. m \in Underway /\ c.callback = m.callback /\ Awaited(m)
        BY <3>2 DEF CallsAwaited
      <4>2. c.respondent = m.respondent /\ c.call = m.call
        BY <3>1, <4>1 DEF Awaited
      <4>3. Response(c) = m
        BY <1>0, <4>1, <4>2 DEF Response
      <4> QED BY <3>1, <4>1, <4>3
    <3> QED BY <1>1, <3>1, <3>2
  <2>2. CASE c \notin calls
    <3>1. c.callback \notin DOMAIN callbacks /\ Awaited(c)'
      BY <2>2 DEF Kept
    <3>2. Response(c) \in Underway => Awaited(Response(c))
      BY DEF CallsAwaited
    <3>3. Response(c).callback = c.callback
      BY DEF Response
    <3> QED BY <3>1, <3>2, <3>3 DEF Awaited
  <2> QED BY <2>1, <2>2
<1> QED BY <1>2, <1>3 DEF CallsAwaited

-----------------------------------------------------------------------------
(* Messages are executed. *)

\* The next message of the queues, or that of the long execution.
Takes(m) ==
  \/ task = None /\ m \in input /\ input' = input \ {m}
  \/ task # None /\ task.message = m /\ input' = input

LEMMA TakesMessage ==
  ASSUME Control, NEW m, Takes(m)
  PROVE  m \in Messages
BY DEF Control, Takes

LEMMA RequestOfOrigin ==
  ASSUME NEW m \in Messages, NEW i \in Origins
  PROVE  Request(i) = m <=> i = OriginOf(m)
<1>1. CASE IsResponse(m)
  BY <1>1, NamesAssumption DEF IsResponse, OriginOf, Request
<1>2. CASE ~IsResponse(m)
  <2>1. m \in [kind : {"Request"}, from : Origins]
    BY <1>2 DEF Messages, IsResponse
  <2> QED BY <1>2, <2>1 DEF OriginOf, Request
<1> QED BY <1>1, <1>2

LEMMA WaitingTaken ==
  ASSUME Control, NEW m \in Messages, Takes(m), task' = None, NEW i \in Origins
  PROVE  Waiting(i) = Waiting(i)' + Bit(i = OriginOf(m))
<1>1. Request(i) = m <=> i = OriginOf(m)
  BY RequestOfOrigin
<1>2. ~InTask(i)'
  BY DEF InTask
<1>3. CASE task = None /\ m \in input /\ input' = input \ {m}
  BY <1>1, <1>2, <1>3 DEF Waiting, InQueue, InTask, Bit
<1>4. CASE task # None /\ task.message = m /\ input' = input
  BY <1>1, <1>2, <1>4 DEF Waiting, InQueue, InTask, Bit
<1> QED BY <1>3, <1>4 DEF Takes

LEMMA PausedTask ==
  ASSUME NEW m \in Messages, NEW t, t = [message |-> m, paused |-> TRUE]
  PROVE  t # None /\ t \in [message : Messages, paused : BOOLEAN] /\ t.message = m
<1>1. t \in [message : Messages, paused : BOOLEAN] /\ t.message = m
  OBVIOUS
<1> QED BY <1>1, NamesAssumption, Zenon

LEMMA WaitingPaused ==
  ASSUME NEW m \in Messages, Takes(m), task' = [message |-> m, paused |-> TRUE],
         NEW i \in Origins
  PROVE  Waiting(i) = Waiting(i)'
<1>1. task' # None /\ task'.message = m
  BY PausedTask
<1>2. InTask(i)' <=> m = Request(i)
  BY <1>1 DEF InTask, Request
<1>3. CASE task = None /\ m \in input /\ input' = input \ {m}
  <2>1. InQueue(i)' <=> InQueue(i) /\ m # Request(i)
    BY <1>3 DEF InQueue, Request
  <2> QED BY <1>2, <1>3, <2>1 DEF Waiting, InTask, InQueue, Bit
<1>4. CASE task # None /\ task.message = m /\ input' = input
  <2>1. InQueue(i)' <=> InQueue(i)
    BY <1>4 DEF InQueue, Request
  <2>2. InTask(i) <=> m = Request(i)
    BY <1>4 DEF InTask
  <2> QED BY <1>2, <2>1, <2>2 DEF Waiting, Bit
<1> QED BY <1>3, <1>4 DEF Takes

\* An awaited response finds its callback and its context.
LEMMA AwaitedFound ==
  ASSUME Control, Linked, NEW m, Awaited(m)
  PROVE  /\ status \in {"Running", "Stopping"} /\ ValidateResponse(m)
         /\ Found(m) /\ callbacks[m.callback].call = m.call
<1>1. m.callback \in DOMAIN callbacks
  BY DEF Awaited
<1>2. callbacks # <<>>
  BY <1>1
<1>3. status \in {"Running", "Stopping"}
  BY <1>2 DEF Control
<1>4. callbacks[m.callback].context \in DOMAIN call_contexts
  BY <1>1 DEF Linked
<1> QED BY <1>1, <1>3, <1>4 DEF Awaited, ValidateResponse, Found

LEMMA CompleteInv ==
  ASSUME Inv, NEW m, Takes(m), Complete(m), task' = None,
         UNCHANGED <<status, stop_contexts, installed, sent, asked, replied, orphans>>
  PROVE  Inv'
<1>1. m \in Messages
  BY TakesMessage DEF Inv
<1>2. PICK used : (used = UsedBy(m) \/ used = {}) /\ Executed(OriginOf(m), used)
  BY <1>1, CompleteExecuted DEF Inv, Control
<1>3. ManagerTypes' /\ Linked' /\ Kept(used) /\ Books(OriginOf(m))
  BY <1>2 DEF Executed
<1>4. Resumable'
  BY DEF Resumable, Paused
<1>5. Settled'
  BY <1>1, <1>3, WaitingTaken, SettledKept DEF Inv
<1>6. Control'
  <2>1. input' \subseteq input
    BY DEF Takes
  <2>2. status \in {"Stopped", "Deleted"} => UNCHANGED <<call_contexts, callbacks>>
    BY DEF Complete, ExecuteRequest, Executable, ExecuteResponse, Found, manager
  <2> QED BY <2>1, <2>2 DEF Inv, Control
<1>7. ASSUME orphans = {} PROVE stray' = {} /\ CallsAwaited'
  <2>1. stray = {} /\ CallsAwaited
    BY <1>7 DEF Inv
  <2>2. CASE IsResponse(m)
    <3>1. m \in Underway /\ ~(m \in input /\ Resumes(m))
      <4>1. m \in Underway
        BY <1>1, <2>2 DEF Underway, Takes, Resumes
      <4> QED BY <2>1, <4>1 DEF CallsAwaited
    <3>2. Awaited(m)
      BY <2>1, <3>1 DEF CallsAwaited
    <3>3. stray' = {}
      <4>1. m.kind = "Response"
        BY <2>2 DEF IsResponse
      <4>2. Found(m) /\ callbacks[m.callback].call = m.call
        BY <3>2, AwaitedFound DEF Inv
      <4> QED BY <2>1, <4>1, <4>2 DEF Complete, ExecuteResponse
    <3>4. Underway' \subseteq Underway /\ m \notin Underway'
      BY <3>1 DEF Underway, Takes, Resumes
    <3>5. \A x \in Underway' : ~(x \in input' /\ Resumes(x)')
      BY DEF Resumes
    <3>6. UsedBy(m) = {m.callback}
      BY <2>2 DEF UsedBy
    <3>7. CallsAwaited'
      BY <1>2, <1>3, <2>1, <3>1, <3>4, <3>5, <3>6, AwaitedKept DEF Inv
    <3> QED BY <3>3, <3>7
  <2>3. CASE ~IsResponse(m)
    <3>1. stray' = {}
      BY <2>1, <2>3 DEF IsResponse, Complete
    <3>2. Underway' \subseteq Underway
      BY DEF Underway, Takes, Resumes
    <3>3. \A x \in Underway' : ~(x \in input' /\ Resumes(x)')
      BY DEF Resumes
    <3>4. used = {}
      BY <1>2, <2>3 DEF UsedBy
    <3>5. CallsAwaited'
      BY <1>3, <2>1, <3>2, <3>3, <3>4, AwaitedKept DEF Inv
    <3> QED BY <3>1, <3>5
  <2> QED BY <2>2, <2>3
<1> QED BY <1>3, <1>4, <1>5, <1>6, <1>7 DEF Inv

LEMMA PauseInv ==
  ASSUME Inv, NEW m, Takes(m), Pause(m),
         UNCHANGED <<status, stop_contexts, installed, sent, asked, replied, orphans>>
  PROVE  Inv'
<1>1. m \in Messages
  BY TakesMessage DEF Inv
<1>2. /\ Runs(m) /\ task' = [message |-> m, paused |-> TRUE]
      /\ UNCHANGED <<manager, calls, made, answers, settled, stray>>
  BY DEF Pause
<1>3. Executed(SystemTask, {})
  BY <1>2, AnswersExecuted, NamesAssumption DEF Inv
<1>4. ManagerTypes' /\ Linked' /\ Kept({}) /\ Books(SystemTask)
  BY <1>3 DEF Executed
<1>5. task' # None /\ task' \in [message : Messages, paused : BOOLEAN] /\ task'.message = m
  BY <1>1, <1>2, PausedTask
<1>6. Resumable'
  <2>1. Runs(m)'
    BY <1>2 DEF Runs, Executable, Found, ContextOf, manager
  <2>2. Runs(task.message)'
    BY <1>5, <2>1 DEF Runs, Found, ContextOf
  <2> QED BY <2>2 DEF Resumable
<1>7. Settled'
  <2>1. \A i \in Origins : Waiting(i) = Waiting(i)' + Bit(i = SystemTask)
    <3> SUFFICES ASSUME NEW i \in Origins PROVE Waiting(i) = Waiting(i)' + Bit(i = SystemTask)
      OBVIOUS
    <3>1. Waiting(i) = Waiting(i)' /\ Waiting(i) \in Nat
      BY <1>1, <1>2, WaitingPaused DEF Waiting, Bit
    <3>2. Bit(i = SystemTask) = 0
      BY NamesAssumption DEF Bit
    <3> QED BY <3>1, <3>2
  <2> QED BY <1>4, <2>1, SettledKept DEF Inv
<1>8. Control'
  <2>1. input' \subseteq input
    BY DEF Takes
  <2> QED BY <1>2, <1>5, <2>1 DEF Inv, Control, manager
<1>9. ASSUME orphans = {} PROVE stray' = {} /\ CallsAwaited'
  <2>1. stray = {} /\ CallsAwaited
    BY <1>9 DEF Inv
  <2>2. Underway' \subseteq Underway
    BY <1>1, <1>5 DEF Underway, Takes, Resumes
  <2>3. ASSUME NEW x \in Underway' PROVE ~(x \in input' /\ Resumes(x)')
    <3>1. CASE x = m
      <4>1. x \in Underway
        BY <2>2
      <4> QED BY <2>1, <3>1, <4>1 DEF Takes, CallsAwaited, Resumes
    <3>2. CASE x # m
      BY <1>5, <3>2 DEF Resumes
    <3> QED BY <3>1, <3>2
  <2>4. CallsAwaited'
    BY <1>4, <2>1, <2>2, <2>3, AwaitedKept DEF Inv
  <2> QED BY <1>2, <2>1, <2>4
<1> QED BY <1>4, <1>6, <1>7, <1>8, <1>9 DEF Inv

LEMMA ExecuteInputInv ==
  ASSUME Inv, NEW m \in input, ExecuteInput(m)
  PROVE  Inv'
<1>1. /\ Takes(m) /\ ExecuteMessage(m)
      /\ UNCHANGED <<status, stop_contexts, installed, sent, asked, replied, orphans>>
  BY DEF ExecuteInput, Takes
<1> QED BY <1>1, CompleteInv, PauseInv DEF ExecuteMessage

LEMMA ContinueLongInv ==
  ASSUME Inv, ContinueLong
  PROVE  Inv'
<1>0. PICK m : m = task.message
  OBVIOUS
<1>1. /\ Takes(m) /\ ExecuteMessage(m)
      /\ UNCHANGED <<status, stop_contexts, installed, sent, asked, replied, orphans>>
  <2>1. task # None /\ input' = input /\ ExecuteMessage(task.message)
    BY DEF ContinueLong
  <2>2. Takes(m)
    BY <1>0, <2>1 DEF Takes
  <2>3. ExecuteMessage(m)
    BY <1>0, <2>1
  <2> QED BY <2>2, <2>3 DEF ContinueLong
<1> QED BY <1>1, CompleteInv, PauseInv DEF ExecuteMessage

LEMMA ExecuteSystemTaskInv ==
  ASSUME Inv, ExecuteSystemTask
  PROVE  Inv'
<1>1. /\ task = None /\ Executable /\ RunInNewContext(SystemTask, 0, Results \ {"response"})
      /\ UNCHANGED <<status, stop_contexts, installed, task, input, sent, asked, replied,
                     orphans, stray>>
  BY DEF ExecuteSystemTask
<1>2. Executed(SystemTask, {})
  <2>1. 0 = IF SystemTask \in Origins THEN Payment(SystemTask) ELSE 0
    BY NamesAssumption
  <2>2. Results \ {"response"} \in SUBSET Results /\ SystemTask \in Origins \cup {SystemTask}
    OBVIOUS
  <2> QED BY <1>1, <2>1, <2>2, NewContextExecuted DEF Inv, Executable
<1>3. ManagerTypes' /\ Linked' /\ Kept({}) /\ Books(SystemTask)
  BY <1>2 DEF Executed
<1>4. Control' /\ Resumable'
  BY <1>1 DEF Inv, Control, Executable, Resumable, Paused
<1>5. Settled'
  <2>1. \A i \in Origins : Waiting(i) = Waiting(i)' + Bit(i = SystemTask)
    BY <1>1, NamesAssumption DEF Waiting, InQueue, InTask, Bit
  <2> QED BY <1>1, <1>3, <2>1, SettledKept DEF Inv
<1>6. ASSUME orphans = {} PROVE stray' = {} /\ CallsAwaited'
  <2>1. stray = {} /\ CallsAwaited
    BY <1>6 DEF Inv
  <2>2. Underway' \subseteq Underway /\ \A x \in Underway' : ~(x \in input' /\ Resumes(x)')
    BY <1>1 DEF Underway, Resumes
  <2>3. CallsAwaited'
    BY <1>3, <2>1, <2>2, AwaitedKept DEF Inv
  <2> QED BY <1>1, <2>1, <2>3
<1> QED BY <1>1, <1>3, <1>4, <1>5, <1>6 DEF Inv

-----------------------------------------------------------------------------
(* Messages arrive. *)

LEMMA InductRequestInv ==
  ASSUME Inv, NEW i \in Origins, InductRequest(i)
  PROVE  Inv'
<1>1. /\ i \notin sent /\ sent' = sent \cup {i}
      /\ UNCHANGED <<status, manager, stop_contexts, installed, task, calls, asked, replied,
                     made, orphans, stray>>
      /\ \/ input' = input \cup {Request(i)} /\ UNCHANGED <<answers, settled>>
         \/ input' = input /\ Refuse(i)
  BY DEF InductRequest, history
<1>2. Request(i) \in Messages
  BY DEF Request, Messages
<1>3. answers' \in [Origins -> Nat] /\ settled' \in [Origins -> Nat]
  <2>1. CASE UNCHANGED <<answers, settled>>
    BY <2>1 DEF Inv, ManagerTypes
  <2>2. CASE Refuse(i)
    BY <2>2, PaymentType DEF Inv, ManagerTypes, Refuse
  <2> QED BY <1>1, <2>1, <2>2
<1>4. ManagerTypes' /\ Linked'
  BY <1>1, <1>3 DEF Inv, ManagerTypes, Linked, HasOutstandingCalls, manager
<1>5. Control' /\ Resumable'
  BY <1>1, <1>2 DEF Inv, Control, Resumable, Paused, Runs, Executable, Found, ContextOf, manager
<1>6. ASSUME NEW j \in Origins
      PROVE  /\ answers'[j] + Waiting(j)' + Cardinality(Open(call_contexts', j))
                  = Bit(j \in sent')
             /\ settled'[j] + Paid(j, Waiting(j)') + Cardinality(Rich(call_contexts', j))
                  = Paid(j, Bit(j \in sent'))
  <2> DEFINE p == Cardinality(Open(call_contexts, j))
             r == Cardinality(Rich(call_contexts, j))
             w == Waiting(j)
             v == Waiting(j)'
  <2>0. call_contexts' = call_contexts
    BY <1>1 DEF manager
  <2>1. next_call_context_id \in Nat
    BY BoundsAssumption DEF Inv, ManagerTypes
  <2>2. p \in Nat /\ r \in Nat
    BY <2>1, OpenFinite, FS_CardinalityType DEF Inv, ManagerTypes
  <2>3. answers[j] \in Nat /\ settled[j] \in Nat /\ w \in Nat /\ v \in Nat
    BY DEF Inv, ManagerTypes, Waiting, Bit
  <2>4. answers[j] + w + p = Bit(j \in sent) /\ settled[j] + Paid(j, w) + r = Paid(j, Bit(j \in sent))
    BY DEF Inv, Settled
  <2>5. CASE j # i
    <3>1. v = w
      BY <1>1, <2>5 DEF Waiting, InQueue, InTask, Request
    <3>2. answers'[j] = answers[j] /\ settled'[j] = settled[j] /\ (j \in sent' <=> j \in sent)
      BY <1>1, <2>5 DEF Refuse, Inv, ManagerTypes
    <3>3. Bit(j \in sent') = Bit(j \in sent)
      BY <3>2 DEF Bit
    <3> HIDE DEF w, v
    <3> QED BY <2>0, <2>4, <3>1, <3>2, <3>3 DEF v
  <2>6. CASE j = i
    <3> HIDE DEF p, r, w, v
    <3>1. answers[j] = 0 /\ w = 0 /\ p = 0
      BY <1>1, <2>2, <2>3, <2>4, <2>6 DEF Bit
    <3>2. settled[j] = 0 /\ r = 0
      BY <1>1, <2>2, <2>3, <2>4, <2>6, <3>1 DEF Bit, Paid
    <3>3. j \in sent'
      BY <1>1, <2>6
    <3>4. ~InQueue(j) /\ ~InTask(j)
      BY <3>1 DEF w, Waiting, Bit
    <3>5. InTask(j)' <=> InTask(j)
      BY <1>1 DEF InTask, Request
    <3>6. CASE input' = input \cup {Request(i)} /\ UNCHANGED <<answers, settled>>
      <4>1. v = 1
        BY <2>6, <3>4, <3>5, <3>6 DEF v, Waiting, InQueue, Bit
      <4>2. answers'[j] = 0 /\ settled'[j] = 0
        BY <3>1, <3>2, <3>6
      <4>3. answers'[j] + v + p = 1 /\ settled'[j] + Paid(j, v) + r = Paid(j, 1)
        BY <3>1, <3>2, <4>1, <4>2 DEF Paid
      <4> QED BY <2>0, <3>3, <4>3 DEF p, r, v, Bit
    <3>7. CASE input' = input /\ Refuse(i)
      <4>1. v = 0
        BY <3>4, <3>5, <3>7 DEF v, Waiting, InQueue, Bit, Request
      <4>2. answers'[j] = 1 /\ settled'[j] = Payment(j)
        BY <2>6, <3>1, <3>2, <3>7, PaymentType DEF Refuse, Inv, ManagerTypes
      <4>3. Payment(j) = Paid(j, 1) /\ Paid(j, 0) = 0 /\ Paid(j, 1) \in Nat
        BY DEF Paid, Payment
      <4>4. answers'[j] + v + p = 1 /\ settled'[j] + Paid(j, v) + r = Paid(j, 1)
        BY <3>1, <3>2, <4>1, <4>2, <4>3
      <4> QED BY <2>0, <3>3, <4>4 DEF p, r, v, Bit
    <3> QED BY <1>1, <3>6, <3>7
  <2> QED BY <2>5, <2>6
<1>7. ASSUME orphans = {} PROVE stray' = {} /\ CallsAwaited'
  <2>1. stray = {} /\ CallsAwaited
    BY <1>7 DEF Inv
  <2>2. ~IsResponse(Request(i))
    BY DEF IsResponse, Request
  <2>3. Underway' = Underway
    BY <1>1, <2>2 DEF Underway, Resumes
  <2>4. \A x \in Underway : x \in input' <=> x \in input
    BY <1>1, <2>2 DEF Underway
  <2>5. \A x : (Resumes(x)' <=> Resumes(x)) /\ (Awaited(x)' <=> Awaited(x))
    BY <1>1 DEF Resumes, Awaited, manager
  <2>6. CallsAwaited'
    BY <1>1, <2>1, <2>3, <2>4, <2>5 DEF CallsAwaited
  <2> QED BY <1>1, <2>1, <2>6
<1> QED BY <1>1, <1>4, <1>5, <1>6, <1>7 DEF Inv, Settled

LEMMA InductResponseInv ==
  ASSUME Inv, NEW m \in calls, InductResponse(m)
  PROVE  Inv'
<1> DEFINE accepted == status \in {"Running", "Stopping"} /\ ValidateResponse(m)
<1>1. /\ calls' = calls \ {m}
      /\ UNCHANGED <<status, manager, stop_contexts, installed, task, sent, answers, settled,
                     asked, replied, made, orphans>>
      /\ \/ accepted /\ input' = input \cup {Response(m)} /\ stray' = stray
         \/ ~accepted /\ input' = input
  BY DEF InductResponse, requests
<1>2. m \in Calls /\ Response(m) \in Messages /\ IsResponse(Response(m))
  BY DEF Inv, ManagerTypes, Calls, Response, Messages, IsResponse
<1>3. ManagerTypes' /\ Linked'
  BY <1>1 DEF Inv, ManagerTypes, Linked, HasOutstandingCalls, manager
<1>4. Control' /\ Resumable'
  BY <1>1, <1>2 DEF Inv, Control, Resumable, Paused, Runs, Executable, Found, ContextOf, manager
<1>5. Settled'
  <2>1. \A i : Request(i) # Response(m)
    BY DEF Request, Response
  <2>2. \A i \in Origins : Waiting(i)' = Waiting(i)
    BY <1>1, <2>1 DEF Waiting, InQueue, InTask, Request
  <2> QED BY <1>1, <2>2 DEF Inv, Settled, manager
<1>6. ASSUME orphans = {} PROVE stray' = {} /\ CallsAwaited'
  <2>1. stray = {} /\ CallsAwaited
    BY <1>6 DEF Inv
  <2>2. Awaited(m) /\ Response(m) \notin Underway
    BY <2>1 DEF CallsAwaited
  <2>3. accepted
    BY <2>2, AwaitedFound DEF Inv
  <2>4. input' = input \cup {Response(m)} /\ stray' = {}
    BY <1>1, <2>1, <2>3
  <2>5. Underway' = Underway \cup {Response(m)}
    BY <1>1, <1>2, <2>4 DEF Underway, Resumes
  <2>6. \A x : (Resumes(x)' <=> Resumes(x)) /\ (Awaited(x)' <=> Awaited(x))
    BY <1>1 DEF Resumes, Awaited, manager
  <2>7. ASSUME NEW c \in calls' PROVE Awaited(c)' /\ Response(c) \notin Underway'
    <3>1. c \in calls /\ c # m /\ c \in Calls
      BY <1>1 DEF Inv, ManagerTypes
    <3>2. Response(c) # Response(m)
      <4>1. ASSUME Response(c) = Response(m) PROVE c = m
        <5>1. /\ Response(c).callback = c.callback /\ Response(c).respondent = c.respondent
              /\ Response(c).call = c.call /\ Response(m).callback = m.callback
              /\ Response(m).respondent = m.respondent /\ Response(m).call = m.call
          BY DEF Response
        <5>2. c.callback = m.callback /\ c.respondent = m.respondent /\ c.call = m.call
          BY <4>1, <5>1
        <5> QED BY <1>2, <3>1, <5>2 DEF Calls
      <4> QED BY <3>1, <4>1
    <3> QED BY <2>1, <2>5, <2>6, <3>1, <3>2 DEF CallsAwaited
  <2>8. ASSUME NEW x \in Underway' PROVE Awaited(x)' /\ ~(x \in input' /\ Resumes(x)')
    <3>1. CASE x = Response(m)
      <4>1. ~Resumes(x)
        BY <1>2, <2>2, <3>1 DEF Underway
      <4>2. Awaited(x)
        BY <2>2, <3>1 DEF Awaited, Response
      <4> QED BY <2>6, <4>1, <4>2
    <3>2. CASE x # Response(m)
      BY <2>1, <2>4, <2>5, <2>6, <3>2 DEF CallsAwaited
    <3> QED BY <3>1, <3>2
  <2> QED BY <2>4, <2>7, <2>8 DEF CallsAwaited
<1> QED BY <1>1, <1>3, <1>4, <1>5, <1>6 DEF Inv

-----------------------------------------------------------------------------
(* Messages to the management canister. *)

\* Steps that leave contexts, calls and messages alone, and do not remove the code.
LEMMA QuietInv ==
  ASSUME Inv, UNCHANGED <<manager, calls, made, requests, input, task, orphans, stray>>,
         Control', Resumable', installed => installed'
  PROVE  Inv'
<1>1. /\ call_contexts' = call_contexts /\ callbacks' = callbacks
      /\ next_call_context_id' = next_call_context_id /\ next_callback_id' = next_callback_id
      /\ sent' = sent /\ answers' = answers /\ settled' = settled
  BY DEF manager, requests
<1>2. ManagerTypes'
  BY <1>1 DEF Inv, ManagerTypes
<1>3. Linked'
  BY <1>1 DEF Inv, Linked, HasOutstandingCalls
<1>4. Settled'
  <2>1. \A i \in Origins : Waiting(i)' = Waiting(i)
    BY DEF Waiting, InQueue, InTask, Request
  <2> QED BY <1>1, <2>1 DEF Inv, Settled
<1>5. orphans' = {} => stray' = {} /\ CallsAwaited'
  <2>1. Underway' = Underway
    BY DEF Underway, Resumes
  <2>2. \A x : (Resumes(x)' <=> Resumes(x)) /\ (Awaited(x)' <=> Awaited(x))
    BY <1>1 DEF Resumes, Awaited
  <2> QED BY <2>1, <2>2 DEF Inv, CallsAwaited
<1> QED BY <1>2, <1>3, <1>4, <1>5 DEF Inv

LEMMA StopCanisterInv ==
  ASSUME Inv, NEW s \in Stops, StopCanister(s)
  PROVE  Inv'
<1>1. UNCHANGED <<manager, calls, made, requests, input, task, orphans, stray, installed>>
  BY DEF StopCanister
<1>2. task = None /\ s \notin asked /\ asked' = asked \cup {s}
  BY DEF StopCanister, CanExecuteSubnetMsg
<1>3. Resumable'
  BY <1>1, <1>2 DEF Resumable, Paused
<1>4. Control'
  <2>1. CASE status = "Stopped" /\ replied' = replied \cup {s} /\ UNCHANGED <<status, stop_contexts>>
    BY <1>1, <1>2, <2>1 DEF Inv, Control, manager
  <2>2. CASE /\ status \in {"Running", "Stopping"} /\ status' = "Stopping"
             /\ stop_contexts' = stop_contexts \cup {s} /\ UNCHANGED replied
    BY <1>1, <1>2, <2>2 DEF Inv, Control, manager
  <2> QED BY <2>1, <2>2 DEF StopCanister
<1> QED BY <1>1, <1>3, <1>4, QuietInv

LEMMA StartCanisterInv ==
  ASSUME Inv, StartCanister
  PROVE  Inv'
<1>1. UNCHANGED <<manager, calls, made, requests, input, task, orphans, stray, installed, asked>>
  BY DEF StartCanister
<1>2. task = None /\ status' = "Running" /\ stop_contexts' = {} /\ replied' = replied \cup stop_contexts
  BY DEF StartCanister, CanExecuteSubnetMsg
<1>3. Resumable' /\ Control'
  BY <1>1, <1>2 DEF Inv, Control, Resumable, Paused, manager
<1> QED BY <1>1, <1>3, QuietInv

LEMMA InstallCodeInv ==
  ASSUME Inv, InstallCode
  PROVE  Inv'
<1>1. UNCHANGED <<manager, calls, requests, input, task, status, stop_contexts, history>>
  BY DEF InstallCode
<1>2. task = None /\ installed' = TRUE
  BY DEF InstallCode, CanExecuteSubnetMsg
<1>3. UNCHANGED <<made, orphans, stray, asked, replied>>
  BY <1>1 DEF history
<1>4. Resumable' /\ Control'
  BY <1>1, <1>2, <1>3 DEF Inv, Control, Resumable, Paused, manager
<1> QED BY <1>1, <1>2, <1>3, <1>4, QuietInv

LEMMA DeleteCanisterInv ==
  ASSUME Inv, DeleteCanister
  PROVE  Inv'
<1>1. UNCHANGED <<manager, calls, requests, input, task, installed, stop_contexts, history>>
  BY DEF DeleteCanister
<1>2. task = None /\ status = "Stopped" /\ status' = "Deleted"
  BY DEF DeleteCanister, CanExecuteSubnetMsg
<1>3. UNCHANGED <<made, orphans, stray, asked, replied>>
  BY <1>1 DEF history
<1>4. Resumable' /\ Control'
  BY <1>1, <1>2, <1>3 DEF Inv, Control, Resumable, Paused, manager
<1> QED BY <1>1, <1>3, <1>4, QuietInv

LEMMA InnerRoundInv ==
  ASSUME Inv, InnerRound
  PROVE  Inv'
<1>1. UNCHANGED <<status, manager, stop_contexts, installed, task, input, calls, requests, history>>
  BY DEF InnerRound
<1>2. UNCHANGED <<made, orphans, stray, asked, replied>>
  BY <1>1 DEF history
<1>3. Control'
  BY <1>1, <1>2 DEF Inv, Control, manager
<1>4. Resumable'
  BY <1>1 DEF Inv, Resumable, Paused, Runs, Executable, Found, ContextOf, manager
<1> QED BY <1>1, <1>2, <1>3, <1>4, QuietInv

\* Every context is deleted, and its cycles go where its answer goes.
LEMMA UninstallExecuted ==
  ASSUME ManagerTypes, Linked, Uninstall,
         UNCHANGED <<callbacks, next_call_context_id, next_callback_id, calls, made>>
  PROVE  Executed(SystemTask, {})
<1>1. call_contexts' = [id \in DOMAIN call_contexts |->
                          [call_contexts[id] EXCEPT !.deleted = TRUE, !.responded = TRUE,
                             !.available = 0]]
  BY DEF Uninstall
<1>2. DOMAIN call_contexts' = DOMAIN call_contexts
  BY <1>1
<1>3. ASSUME NEW id \in DOMAIN call_contexts
      PROVE  /\ call_contexts'[id] \in CallContexts /\ call_contexts'[id].available = 0
             /\ call_contexts'[id].responded = TRUE /\ call_contexts'[id].deleted = TRUE
  <2>1. call_contexts[id] \in CallContexts
    BY DEF ManagerTypes
  <2>2. PICK r, s : r = call_contexts[id] /\ s = call_contexts'[id]
    OBVIOUS
  <2>3. s = [r EXCEPT !.deleted = TRUE, !.responded = TRUE, !.available = 0]
    BY <1>1, <2>2, Zenon
  <2> QED BY <2>1, <2>2, <2>3, ContextDeleted
<1>4. call_contexts' \in [DOMAIN call_contexts' -> CallContexts]
  <2>1. call_contexts' = [id \in DOMAIN call_contexts' |-> call_contexts'[id]]
    <3>1. PICK f : f = [id \in DOMAIN call_contexts |->
                          [call_contexts[id] EXCEPT !.deleted = TRUE, !.responded = TRUE,
                             !.available = 0]]
      OBVIOUS
    <3>2. f = [id \in DOMAIN f |-> f[id]]
      BY <3>1, Zenon
    <3> QED BY <1>1, <3>1, <3>2, Zenon
  <2> QED BY <1>2, <1>3, <2>1
<1>5. ASSUME NEW i \in Origins
      PROVE  /\ answers'[i] = answers[i] + Cardinality(Open(call_contexts, i))
             /\ settled'[i] = settled[i] + Cardinality(Rich(call_contexts, i))
  <2> DEFINE of == {id \in DOMAIN Unresponded : Unresponded[id].origin = i}
  <2>1. of = Open(call_contexts, i)
    BY DEF Unresponded, Restrict, Open
  <2>2. {id \in of : Unresponded[id].available = 1} = Rich(call_contexts, i)
    BY DEF Unresponded, Restrict, Open, Rich
  <2>3. Cycles(Unresponded, of) = Cardinality(Rich(call_contexts, i))
    BY <2>2 DEF Cycles
  <2>4. answers'[i] = answers[i] + Cardinality(of) /\ settled'[i] = settled[i] + Cycles(Unresponded, of)
    BY DEF Uninstall, AnswerAll
  <2> QED BY <2>1, <2>3, <2>4
<1>6. \A i \in Origins : /\ Cardinality(Open(call_contexts, i)) \in Nat
                         /\ Cardinality(Rich(call_contexts, i)) \in Nat
  <2>1. next_call_context_id \in Nat
    BY BoundsAssumption DEF ManagerTypes
  <2> QED BY <2>1, OpenFinite, FS_CardinalityType DEF ManagerTypes
<1>7. answers' \in [Origins -> Nat] /\ settled' \in [Origins -> Nat]
  <2>1. \A i \in Origins : answers'[i] \in Nat /\ settled'[i] \in Nat
    BY <1>5, <1>6 DEF ManagerTypes
  <2>2. /\ answers' = [i \in Origins |-> answers'[i]] /\ settled' = [i \in Origins |-> settled'[i]]
    BY DEF Uninstall, AnswerAll
  <2> QED BY <2>1, <2>2
<1>8. ManagerTypes'
  BY <1>2, <1>4, <1>7 DEF ManagerTypes
<1>9. Linked'
  BY <1>2, <1>3 DEF Linked, HasOutstandingCalls
<1>10. Kept({})
  BY DEF Kept
<1>11. ASSUME NEW i \in Origins
       PROVE  /\ answers'[i] + Cardinality(Open(call_contexts', i))
                   = answers[i] + Cardinality(Open(call_contexts, i)) + Bit(i = SystemTask)
              /\ settled'[i] + Cardinality(Rich(call_contexts', i))
                   = settled[i] + Cardinality(Rich(call_contexts, i))
                       + (IF i = SystemTask THEN Payment(i) ELSE 0)
  <2>1. Open(call_contexts', i) = {} /\ Rich(call_contexts', i) = {}
    BY <1>2, <1>3 DEF Open, Rich
  <2>2. Cardinality(Open(call_contexts', i)) = 0 /\ Cardinality(Rich(call_contexts', i)) = 0
    BY <2>1, FS_EmptySet
  <2>3. Bit(i = SystemTask) = 0 /\ i # SystemTask
    BY NamesAssumption DEF Bit
  <2>4. answers[i] \in Nat /\ settled[i] \in Nat
    BY DEF ManagerTypes
  <2> QED BY <1>5, <1>6, <2>2, <2>3, <2>4
<1> QED BY <1>8, <1>9, <1>10, <1>11 DEF Executed, Books

\* Steps that leave the messages where they are, while contexts and books change.
LEMMA ExecutedInv ==
  ASSUME Inv, Executed(SystemTask, {}), UNCHANGED <<input, sent, orphans, stray>>,
         Control', Resumable',
         \A m : Resumes(m)' <=> Resumes(m)
  PROVE  Inv'
<1>1. ManagerTypes' /\ Linked' /\ Kept({}) /\ Books(SystemTask)
  BY DEF Executed
<1>2. Settled'
  <2>1. \A i \in Origins : InTask(i)' <=> InTask(i)
    BY DEF InTask, Resumes, Request
  <2>2. \A i \in Origins : Waiting(i) = Waiting(i)' + Bit(i = SystemTask)
    BY <2>1, NamesAssumption DEF Waiting, InQueue, Request, Bit
  <2> QED BY <1>1, <2>2, SettledKept DEF Inv
<1>3. ASSUME orphans = {} PROVE CallsAwaited'
  <2>1. CallsAwaited
    BY <1>3 DEF Inv
  <2>2. Underway' = Underway
    BY DEF Underway
  <2>3. \A x \in Underway' : ~(x \in input' /\ Resumes(x)')
    BY <2>1, <2>2 DEF CallsAwaited
  <2> QED BY <1>1, <2>1, <2>2, <2>3, AwaitedKept DEF Inv
<1> QED BY <1>1, <1>2, <1>3 DEF Inv

LEMMA UninstallCodeInv ==
  ASSUME Inv, UninstallCode
  PROVE  Inv'
<1>1. /\ task = None /\ status # "Deleted" /\ Uninstall
      /\ UNCHANGED <<status, callbacks, next_call_context_id, next_callback_id, stop_contexts,
                     task, input, calls, sent, asked, replied, made, orphans, stray>>
  BY DEF UninstallCode, CanExecuteSubnetMsg, history
<1>2. Executed(SystemTask, {})
  BY <1>1, UninstallExecuted DEF Inv
<1>3. status = "Stopped" => call_contexts' = <<>>
  <2>1. status = "Stopped" => DOMAIN call_contexts = {}
    BY DEF Inv, Control
  <2>2. DOMAIN call_contexts' = DOMAIN call_contexts
    BY <1>1 DEF Uninstall
  <2>3. call_contexts' \in [DOMAIN call_contexts' -> CallContexts]
    BY <1>2 DEF Executed, ManagerTypes
  <2> QED BY <2>1, <2>2, <2>3
<1>4. Control' /\ Resumable'
  BY <1>1, <1>3 DEF Inv, Control, Resumable, Paused, Uninstall
<1>5. \A m : Resumes(m)' <=> Resumes(m)
  BY <1>1 DEF Resumes
<1> QED BY <1>1, <1>2, <1>4, <1>5, ExecutedInv

-----------------------------------------------------------------------------
(* Rounds. *)

\* A paused execution is aborted, or not.
AbortedOrNot == task' = task \/ (task # None /\ task' = [task EXCEPT !.paused = FALSE])

LEMMA TaskKept ==
  ASSUME Control, AbortedOrNot
  PROVE  /\ \A m : Resumes(m)' <=> Resumes(m)
         /\ task' = None \/ task' \in [message : Messages, paused : BOOLEAN]
         /\ Paused' => Paused /\ task' = task
<1>1. CASE task' = task
  BY <1>1 DEF Control, Resumes, Paused
<1>2. CASE task # None /\ task' = [task EXCEPT !.paused = FALSE]
  <2>1. task \in [message : Messages, paused : BOOLEAN]
    BY <1>2 DEF Control
  <2>2. PICK s, t : s = task /\ t = task'
    OBVIOUS
  <2>3. s \in [message : Messages, paused : BOOLEAN] /\ t = [s EXCEPT !.paused = FALSE]
    BY <1>2, <2>1, <2>2, Zenon
  <2>4. t \in [message : Messages, paused : BOOLEAN] /\ t.message = s.message /\ t.paused = FALSE
    BY <2>3
  <2>5. t # None
    BY <2>4, NamesAssumption, Zenon
  <2>6. /\ task' \in [message : Messages, paused : BOOLEAN] /\ task' # None
        /\ task'.message = task.message /\ task'.paused = FALSE
    BY <2>2, <2>4, <2>5, Zenon
  <2>7. \A m : Resumes(m)' <=> Resumes(m)
    BY <1>2, <2>6, Zenon DEF Resumes
  <2>8. ~Paused'
    BY <2>6 DEF Paused
  <2> QED BY <2>6, <2>7, <2>8
<1> QED BY <1>1, <1>2 DEF AbortedOrNot

LEMMA ProcessStoppingInv ==
  ASSUME Inv, ProcessStopping, AbortedOrNot,
         UNCHANGED <<input, calls, sent, asked, made, stray>>
  PROVE  Inv'
<1>0. MaxContexts \in Nat /\ MaxCalls \in Nat
  BY BoundsAssumption
<1>1. /\ status = "Stopping" /\ ReadyToStop
      /\ status' = "Stopped" /\ stop_contexts' = {} /\ replied' = replied \cup stop_contexts
      /\ call_contexts' = <<>> /\ callbacks' = <<>>
      /\ next_call_context_id' = 0 /\ next_callback_id' = 0
      /\ installed' \in {installed, FALSE}
      /\ orphans' = orphans \cup {callbacks[c].call : c \in OfDeleted}
      /\ UNCHANGED <<answers, settled>>
  BY DEF ProcessStopping, Stopping
<1>2. /\ \A m : Resumes(m)' <=> Resumes(m)
      /\ task' = None \/ task' \in [message : Messages, paused : BOOLEAN]
      /\ Paused' => Paused /\ task' = task
  BY TaskKept DEF Inv
<1>3. /\ \A id \in DOMAIN call_contexts : call_contexts[id].deleted
      /\ \A c \in DOMAIN callbacks : callbacks[c].context \in DOMAIN call_contexts
  BY <1>1 DEF ReadyToStop
<1>4. ManagerTypes' /\ Linked'
  BY <1>0, <1>1 DEF Inv, ManagerTypes, Linked
<1>5. Control'
  BY <1>1, <1>2 DEF Inv, Control
<1>6. ~Paused
  BY <1>1, <1>3 DEF Inv, Resumable, Runs, Executable, Found, ContextOf
<1>7. Resumable'
  BY <1>2, <1>6 DEF Resumable
<1>8. Settled'
  <2>1. ASSUME NEW i \in Origins
        PROVE  /\ answers'[i] + Cardinality(Open(call_contexts', i))
                    = answers[i] + Cardinality(Open(call_contexts, i)) + Bit(i = SystemTask)
               /\ settled'[i] + Cardinality(Rich(call_contexts', i))
                    = settled[i] + Cardinality(Rich(call_contexts, i))
                        + (IF i = SystemTask THEN Payment(i) ELSE 0)
    <3>1. Open(call_contexts, i) = {} /\ Rich(call_contexts, i) = {}
      BY <1>3 DEF Inv, Linked, Open, Rich
    <3>2. Open(call_contexts', i) = {} /\ Rich(call_contexts', i) = {}
      BY <1>1 DEF Open, Rich
    <3>3. /\ Cardinality(Open(call_contexts, i)) = 0 /\ Cardinality(Rich(call_contexts, i)) = 0
          /\ Cardinality(Open(call_contexts', i)) = 0 /\ Cardinality(Rich(call_contexts', i)) = 0
      BY <3>1, <3>2, FS_EmptySet
    <3>4. Bit(i = SystemTask) = 0 /\ i # SystemTask
      BY NamesAssumption DEF Bit
    <3>5. answers[i] \in Nat /\ settled[i] \in Nat /\ answers'[i] = answers[i] /\ settled'[i] = settled[i]
      BY <1>1 DEF Inv, ManagerTypes
    <3> QED BY <3>3, <3>4, <3>5
  <2>2. \A i \in Origins : InTask(i)' <=> InTask(i)
    BY <1>2 DEF InTask, Resumes, Request
  <2>3. \A i \in Origins : Waiting(i) = Waiting(i)' + Bit(i = SystemTask)
    BY <2>2, NamesAssumption DEF Waiting, InQueue, Request, Bit
  <2>4. Books(SystemTask)
    BY <2>1 DEF Books
  <2> QED BY <1>4, <2>3, <2>4, SettledKept DEF Inv
<1>9. ASSUME orphans' = {} PROVE stray' = {} /\ CallsAwaited'
  <2>1. orphans = {} /\ OfDeleted = {}
    BY <1>1, <1>9
  <2>2. stray = {} /\ CallsAwaited
    BY <2>1 DEF Inv
  <2>3. DOMAIN callbacks = {}
    BY <1>3, <2>1 DEF OfDeleted
  <2>4. calls = {} /\ Underway = {}
    BY <2>2, <2>3 DEF CallsAwaited, Awaited
  <2>5. Underway' = {}
    BY <1>2, <2>4 DEF Underway
  <2> QED BY <2>2, <2>4, <2>5 DEF CallsAwaited
<1> QED BY <1>4, <1>5, <1>7, <1>8, <1>9 DEF Inv

LEMMA RunOutOfCyclesInv ==
  ASSUME Inv, RunOutOfCycles, AbortedOrNot,
         UNCHANGED <<input, calls, sent, asked, made, stray>>
  PROVE  Inv'
<1>1. /\ ~Paused /\ Uninstall
      /\ UNCHANGED <<status, callbacks, next_call_context_id, next_callback_id, stop_contexts,
                     replied, orphans>>
  BY DEF RunOutOfCycles, MayBeCharged
<1>2. Executed(SystemTask, {})
  BY <1>1, UninstallExecuted DEF Inv
<1>3. /\ \A m : Resumes(m)' <=> Resumes(m)
      /\ task' = None \/ task' \in [message : Messages, paused : BOOLEAN]
      /\ Paused' => Paused /\ task' = task
  BY TaskKept DEF Inv
<1>4. status \in {"Stopped", "Deleted"} => call_contexts' = <<>>
  <2>1. status \in {"Stopped", "Deleted"} => DOMAIN call_contexts = {}
    BY DEF Inv, Control
  <2>2. DOMAIN call_contexts' = DOMAIN call_contexts
    BY <1>1 DEF Uninstall
  <2>3. call_contexts' \in [DOMAIN call_contexts' -> CallContexts]
    BY <1>2 DEF Executed, ManagerTypes
  <2> QED BY <2>1, <2>2, <2>3
<1>5. Control'
  BY <1>1, <1>3, <1>4 DEF Inv, Control, Uninstall
<1>6. Resumable'
  BY <1>1, <1>3 DEF Resumable
<1> QED BY <1>1, <1>2, <1>3, <1>5, <1>6, ExecutedInv

LEMMA IdleRoundInv ==
  ASSUME Inv, AbortedOrNot,
         UNCHANGED <<status, manager, stop_contexts, installed, answers, settled, replied,
                     orphans, input, calls, sent, asked, made, stray>>
  PROVE  Inv'
<1>1. Executed(SystemTask, {})
  BY NamesAssumption, AnswersExecuted DEF Inv
<1>2. /\ \A m : Resumes(m)' <=> Resumes(m)
      /\ task' = None \/ task' \in [message : Messages, paused : BOOLEAN]
      /\ Paused' => Paused /\ task' = task
  BY TaskKept DEF Inv
<1>3. Control'
  BY <1>2 DEF Inv, Control, manager
<1>4. Resumable'
  <2>1. Paused' => Paused /\ task' = task /\ Runs(task.message)
    BY <1>2 DEF Inv, Resumable
  <2>2. task' = task => (Runs(task.message)' <=> Runs(task.message))
    BY DEF Runs, Executable, Found, ContextOf, manager
  <2> QED BY <2>1, <2>2 DEF Resumable
<1> QED BY <1>1, <1>2, <1>3, <1>4, ExecutedInv

LEMMA FinishRoundInv ==
  ASSUME Inv, FinishRound
  PROVE  Inv'
<1>1. AbortedOrNot /\ UNCHANGED <<input, calls, sent, asked, made, stray>>
  BY DEF FinishRound, AbortedOrNot
<1>2. \/ ProcessStopping
      \/ RunOutOfCycles
      \/ UNCHANGED <<status, manager, stop_contexts, installed, answers, settled, replied, orphans>>
  BY DEF FinishRound
<1> QED BY <1>1, <1>2, ProcessStoppingInv, RunOutOfCyclesInv, IdleRoundInv

-----------------------------------------------------------------------------
(* The theorems. *)

LEMMA StutterInv == ASSUME Inv, UNCHANGED vars PROVE Inv'
<1>1. /\ UNCHANGED <<manager, calls, requests, input, task, status, installed, stop_contexts,
                     history>>
  BY DEF vars
<1>2. UNCHANGED <<made, orphans, stray, asked, replied>>
  BY <1>1 DEF history
<1>3. Control'
  BY <1>1, <1>2 DEF Inv, Control, manager
<1>4. Resumable'
  BY <1>1 DEF Inv, Resumable, Paused, Runs, Executable, Found, ContextOf, manager
<1> QED BY <1>1, <1>2, <1>3, <1>4, QuietInv

LEMMA NextInv == Inv /\ [Next]_vars => Inv'
<1> SUFFICES ASSUME Inv, [Next]_vars PROVE Inv'
  OBVIOUS
<1>1. CASE \E i \in Origins : InductRequest(i)
  BY <1>1, InductRequestInv
<1>2. CASE \E m \in calls : InductResponse(m)
  BY <1>2, InductResponseInv
<1>3. CASE \E s \in Stops : StopCanister(s)
  BY <1>3, StopCanisterInv
<1>4. CASE StartCanister
  BY <1>4, StartCanisterInv
<1>5. CASE UninstallCode
  BY <1>5, UninstallCodeInv
<1>6. CASE InstallCode
  BY <1>6, InstallCodeInv
<1>7. CASE DeleteCanister
  BY <1>7, DeleteCanisterInv
<1>8. CASE InnerRound
  BY <1>8, InnerRoundInv
<1>9. CASE \E m \in input : ExecuteInput(m)
  BY <1>9, ExecuteInputInv
<1>10. CASE ContinueLong
  BY <1>10, ContinueLongInv
<1>11. CASE ExecuteSystemTask
  BY <1>11, ExecuteSystemTaskInv
<1>12. CASE FinishRound
  BY <1>12, FinishRoundInv
<1>13. CASE UNCHANGED vars
  BY <1>13, StutterInv
<1> QED BY <1>1, <1>2, <1>3, <1>4, <1>5, <1>6, <1>7, <1>8, <1>9, <1>10, <1>11, <1>12, <1>13
        DEF Next

LEMMA InvAlways == Spec => []Inv
BY InitInv, NextInv, PTL DEF Spec

\* The types, and what the status says of stop requests, contexts and callbacks.
THEOREM TypesCorrect == Spec => []TypeOK
BY InvAlways, InvTypes, PTL

\* Every request to the canister is answered exactly once and its cycles are
\* accepted or refunded exactly once, through execution over several rounds,
\* stopping, uninstalling and deleting (on_canister_result, uninstall_canister,
\* process_stopping_canisters).
THEOREM EveryRequestSettled == Spec => []RequestsSettled
BY InvAlways, InvSettled, PTL

\* The [EXC-BUG] branches and the expect()s of ResponseHelper are never reached:
\* contexts and callbacks refer to each other, deleted contexts have responded, and
\* a paused execution finds on resumption what it was validated against.
THEOREM ContextsStayConsistent == Spec => []ContextsConsistent
BY InvAlways, InvConsistent, PTL

\* Unless the canister stopped with calls of uninstalled code outstanding, every
\* response is inducted, finds its callback and answers the call it is for.
THEOREM ResponsesReachTheirCall == Spec => []ResponsesFindTheirCall
BY InvAlways, InvResponses, PTL
================================================================================
