------------------------------ MODULE XNetProofs ------------------------------
(***************************************************************************)
(* Proofs about XNet: every slice in a block applies to the streams it     *)
(* meets, and the assertions of the payload builder and of the stream      *)
(* handler hold, for any number of subnets, nodes, canisters and calls.    *)
(*                                                                         *)
(* A slice is validated against the certified state and the payloads       *)
(* since; it is executed in the latest state.  Chained links the two: for  *)
(* each remote subnet there are marks m[i] and g[i], the next message and  *)
(* the next signal expected after the i-th of these payloads.  m[0], g[0]  *)
(* are those of the certified stream; each payload leads from one mark to  *)
(* the next (Accepted); and the latest stream is at the mark of the last   *)
(* payload executed.  What the payload builder computes from the latest    *)
(* slice in the payloads is the last mark (ExpectedIndices).               *)
(*                                                                         *)
(* That executing a payload moves a stream from mark to mark is what the   *)
(* effect lemmas show, loop by loop: InductMessages, the garbage           *)
(* collection with its rerouted messages, the loopback stream, and the     *)
(* visits to all subnets (ProcessEffect).                                  *)
(***************************************************************************)
EXTENDS XNet, NaturalSets, SequenceTheorems

-----------------------------------------------------------------------------
(* What one subnet works on while it executes a block. *)

StreamRecord ==
  [begin : Nat, messages : Seq(MessageType), signals_end : Nat, reject_signals : SUBSET Nat]

StreamType == {st \in StreamRecord : ValidSignals(st.signals_end, st.reject_signals)}

Working ==
  [streams : [Subnets -> StreamType],
   call    : [Calls -> CallStates],
   work    : [Calls -> {"none", "held", "answered"}],
   lost    : SUBSET MessageType]

\* b is a with messages added at the end.
Longer(a, b) ==
  /\ b.begin = a.begin
  /\ Len(a.messages) <= Len(b.messages)

\* ... and nothing else.
OnlyPushed(a, b) ==
  /\ Longer(a, b)
  /\ b.signals_end = a.signals_end
  /\ b.reject_signals = a.reject_signals

LEMMA StreamFields ==
  ASSUME NEW st \in StreamType
  PROVE  /\ st \in StreamRecord
         /\ st.begin \in Nat /\ st.signals_end \in Nat
         /\ st.messages \in Seq(MessageType) /\ Len(st.messages) \in Nat
         /\ MessagesEnd(st) \in Nat /\ st.begin <= MessagesEnd(st)
         /\ st.reject_signals \subseteq Nat
         /\ \A i \in st.reject_signals : i < st.signals_end
BY DEF StreamType, StreamRecord, ValidSignals, MessagesEnd

LEMMA LongerTransitive ==
  ASSUME NEW a \in StreamType, NEW b \in StreamType, NEW c \in StreamType,
         Longer(a, b), Longer(b, c)
  PROVE  Longer(a, c)
BY StreamFields DEF Longer

LEMMA StreamUpdates ==
  ASSUME NEW b, NEW m, NEW e, NEW j, NEW new, NEW st,
         st = [begin |-> b, messages |-> m, signals_end |-> e, reject_signals |-> j]
  PROVE  /\ [st EXCEPT !.begin = new]
              = [begin |-> new, messages |-> m, signals_end |-> e, reject_signals |-> j]
         /\ [st EXCEPT !.messages = new]
              = [begin |-> b, messages |-> new, signals_end |-> e, reject_signals |-> j]
         /\ [st EXCEPT !.signals_end = new]
              = [begin |-> b, messages |-> m, signals_end |-> new, reject_signals |-> j]
         /\ [st EXCEPT !.reject_signals = new]
              = [begin |-> b, messages |-> m, signals_end |-> e, reject_signals |-> new]
OBVIOUS

LEMMA StreamIs ==
  ASSUME NEW st \in StreamType
  PROVE  st = [begin |-> st.begin, messages |-> st.messages, signals_end |-> st.signals_end,
               reject_signals |-> st.reject_signals]
BY DEF StreamType, StreamRecord

LEMMA StreamPushType ==
  ASSUME NEW st \in StreamType, NEW msg \in MessageType
  PROVE  /\ StreamPush(st, msg) \in StreamType /\ OnlyPushed(st, StreamPush(st, msg))
         /\ MessagesEnd(StreamPush(st, msg)) = MessagesEnd(st) + 1
<1> DEFINE new == StreamPush(st, msg)
<1>1. /\ new = [begin |-> st.begin, messages |-> Append(st.messages, msg),
                signals_end |-> st.signals_end, reject_signals |-> st.reject_signals]
  BY StreamIs, StreamUpdates DEF StreamPush
<1>2. /\ Append(st.messages, msg) \in Seq(MessageType)
      /\ Len(Append(st.messages, msg)) = Len(st.messages) + 1
      /\ Len(st.messages) \in Nat
  BY StreamFields
<1> HIDE DEF new
<1>3. /\ new.begin = st.begin /\ new.messages = Append(st.messages, msg)
      /\ new.signals_end = st.signals_end /\ new.reject_signals = st.reject_signals
  BY <1>1
<1>4. new \in StreamType
  BY <1>1, <1>2, StreamFields DEF StreamType, StreamRecord, ValidSignals
<1>5. MessagesEnd(new) = MessagesEnd(st) + 1
  BY <1>2, <1>3, StreamFields DEF MessagesEnd
<1> QED BY <1>2, <1>3, <1>4, <1>5 DEF OnlyPushed, Longer, new

LEMMA Increased ==
  ASSUME NEW st \in StreamType
  PROVE  /\ IncrementSignalsEnd(st) \in StreamType
         /\ IncrementSignalsEnd(st).signals_end = st.signals_end + 1
         /\ IncrementSignalsEnd(st).reject_signals = st.reject_signals
         /\ IncrementSignalsEnd(st).messages = st.messages
         /\ IncrementSignalsEnd(st).begin = st.begin
         /\ Longer(st, IncrementSignalsEnd(st))
<1>1. IncrementSignalsEnd(st)
        = [begin |-> st.begin, messages |-> st.messages,
           signals_end |-> st.signals_end + 1, reject_signals |-> st.reject_signals]
  BY StreamIs, StreamUpdates DEF IncrementSignalsEnd
<1>2. IncrementSignalsEnd(st) \in StreamType
  BY <1>1, StreamFields DEF StreamType, StreamRecord, ValidSignals
<1> QED BY <1>1, <1>2, StreamFields DEF Longer

LEMMA Rejected ==
  ASSUME NEW st \in StreamType
  PROVE  LET new == IncrementSignalsEnd(PushRejectSignal(st, st.signals_end))
         IN  /\ new \in StreamType
             /\ new.signals_end = st.signals_end + 1
             /\ new.reject_signals = st.reject_signals \cup {st.signals_end}
             /\ new.messages = st.messages
             /\ new.begin = st.begin
             /\ Longer(st, new)
<1> DEFINE mid == PushRejectSignal(st, st.signals_end)
<1>1. mid = [begin |-> st.begin, messages |-> st.messages, signals_end |-> st.signals_end,
             reject_signals |-> st.reject_signals \cup {st.signals_end}]
  BY StreamIs, StreamUpdates DEF PushRejectSignal
<1>2. mid.signals_end = st.signals_end
  BY <1>1
<1> DEFINE new == IncrementSignalsEnd(mid)
<1>3. new = [begin |-> st.begin, messages |-> st.messages, signals_end |-> st.signals_end + 1,
             reject_signals |-> st.reject_signals \cup {st.signals_end}]
  <2> HIDE DEF mid
  <2> QED BY <1>1, <1>2, StreamUpdates DEF IncrementSignalsEnd
<1> HIDE DEF new
<1>4. new \in StreamType
  BY <1>3, StreamFields DEF StreamType, StreamRecord, ValidSignals
<1>5. Longer(st, new)
  BY <1>3, StreamFields DEF Longer
<1> QED BY <1>3, <1>4, <1>5 DEF new

LEMMA DiscardTypes ==
  ASSUME NEW st \in StreamType, NEW i \in Nat, NEW j \in Nat,
         st.begin <= i, i <= MessagesEnd(st)
  PROVE  LET new == DiscardSignalsBefore(DiscardMessagesBefore(st, i), j)
         IN  /\ new \in StreamType
             /\ new.begin = i
             /\ new.signals_end = st.signals_end
             /\ MessagesEnd(new) = MessagesEnd(st)
             /\ new.reject_signals = {k \in st.reject_signals : k >= j}
             /\ new.messages = SubSeq(st.messages, i - st.begin + 1, Len(st.messages))
<1> DEFINE new == DiscardSignalsBefore(DiscardMessagesBefore(st, i), j)
           rest == SubSeq(st.messages, i - st.begin + 1, Len(st.messages))
<1>1. new = [begin |-> i, messages |-> rest, signals_end |-> st.signals_end,
             reject_signals |-> {k \in st.reject_signals : k >= j}]
  <2> DEFINE mid == DiscardMessagesBefore(st, i)
  <2>1. [st EXCEPT !.begin = i]
          = [begin |-> i, messages |-> st.messages, signals_end |-> st.signals_end,
             reject_signals |-> st.reject_signals]
    BY StreamIs, StreamUpdates
  <2>2. mid = [[st EXCEPT !.begin = i] EXCEPT !.messages = rest]
    BY StreamIs DEF DiscardMessagesBefore
  <2>3. mid = [begin |-> i, messages |-> rest, signals_end |-> st.signals_end,
               reject_signals |-> st.reject_signals]
    BY <2>1, <2>2, StreamUpdates
  <2>4. mid.reject_signals = st.reject_signals
    BY <2>3
  <2> HIDE DEF mid
  <2>5. DiscardSignalsBefore(mid, j)
          = [begin |-> i, messages |-> rest, signals_end |-> st.signals_end,
             reject_signals |-> {k \in st.reject_signals : k >= j}]
    <3> DEFINE kept == {k \in mid.reject_signals : k >= j}
    <3>1. DiscardSignalsBefore(mid, j) = [mid EXCEPT !.reject_signals = kept]
      BY DEF DiscardSignalsBefore
    <3>2. kept = {k \in st.reject_signals : k >= j}
      BY <2>4
    <3> HIDE DEF kept, rest
    <3>3. [mid EXCEPT !.reject_signals = kept]
            = [begin |-> i, messages |-> rest, signals_end |-> st.signals_end,
               reject_signals |-> kept]
      BY <2>3, StreamUpdates
    <3> QED BY <3>1, <3>2, <3>3
  <2> QED BY <2>5 DEF mid
<1>2. rest \in Seq(MessageType) /\ Len(rest) = Len(st.messages) - (i - st.begin)
  BY StreamFields, SMTT(20) DEF MessagesEnd
<1> HIDE DEF rest
<1>3. new \in StreamType
  BY <1>1, <1>2, StreamFields DEF StreamType, StreamRecord, ValidSignals
<1>4. MessagesEnd(new) = MessagesEnd(st)
  BY <1>1, <1>2, StreamFields, SMTT(20) DEF MessagesEnd
<1>5. /\ new.begin = i /\ new.signals_end = st.signals_end /\ new.messages = rest
      /\ new.reject_signals = {k \in st.reject_signals : k >= j}
  BY <1>1
<1> HIDE DEF new
<1> QED BY <1>3, <1>4, <1>5, Zenon DEF new, rest

LEMMA Types ==
  /\ \A k \in Calls : Request(k) \in MessageType /\ Response(k) \in MessageType
  /\ \A msg \in MessageType : /\ msg.call \in Calls
                              /\ Sender(msg) \in Canisters
                              /\ Receiver(msg) \in Canisters
BY XNetAssumption DEF MessageType, Request, Response, Sender, Receiver

LEMMA RouteType ==
  \A s, c : c \in Canisters => Route(s, c) \in Subnets
BY XNetAssumption DEF Route

-----------------------------------------------------------------------------
(* Induction of the messages of one slice. *)

\* n messages of the stream from r are signalled.
Inducted(x, y, r, n) ==
  /\ y \in Working
  /\ \A q \in Subnets \ {r} : y.streams[q] = x.streams[q]
  /\ Longer(x.streams[r], y.streams[r])
  /\ y.streams[r].signals_end = x.streams[r].signals_end + n

\* x with other states of the calls.
WithCall(x, cs) == [x EXCEPT !.call = cs]

LEMMA WithCallIs ==
  ASSUME NEW x \in Working, NEW cs \in [Calls -> CallStates]
  PROVE  /\ WithCall(x, cs) \in Working /\ WithCall(x, cs).call = cs
         /\ WithCall(x, cs).streams = x.streams /\ WithCall(x, cs).work = x.work
         /\ WithCall(x, cs).lost = x.lost
BY DEF Working, WithCall

\* A response meets its own callback, or that of another call.
LEMMA ResponsePushed ==
  ASSUME NEW x \in Working, NEW msg \in MessageType, msg.kind # "Request"
  PROVE  LET k   == msg.call
             met == CHOOSE j \in Matching(x, k) : TRUE
         IN  PushInput(x, msg) =
               WithCall(x, IF met = k THEN [x.call EXCEPT ![k] = "done"]
                           ELSE [[x.call EXCEPT ![met] = "orphaned"] EXCEPT ![k] = "gone"])
<1> DEFINE k == msg.call
           met == CHOOSE j \in Matching(x, k) : TRUE
<1>1. PushInput(x, msg) =
        IF met = k THEN [x EXCEPT !.call[met] = "done"]
        ELSE [x EXCEPT !.call[met] = "orphaned", !.call[k] = "gone"]
  BY DEF PushInput
<1> HIDE DEF met, k
<1>2. [x EXCEPT !.call[met] = "done"] = WithCall(x, [x.call EXCEPT ![met] = "done"])
  BY DEF WithCall
<1>3. [x EXCEPT !.call[met] = "orphaned", !.call[k] = "gone"]
        = WithCall(x, [[x.call EXCEPT ![met] = "orphaned"] EXCEPT ![k] = "gone"])
  BY DEF WithCall, Working
<1> QED BY <1>1, <1>2, <1>3 DEF met, k

LEMMA PushInputType ==
  ASSUME NEW x \in Working, NEW msg \in MessageType
  PROVE  /\ PushInput(x, msg) \in Working /\ PushInput(x, msg).streams = x.streams
         /\ PushInput(x, msg).lost = x.lost
<1>1. CASE msg.kind = "Request"
  BY <1>1, Types DEF Working, PushInput
<1>2. CASE msg.kind # "Request"
  <2> DEFINE k == msg.call
             met == CHOOSE j \in Matching(x, k) : TRUE
             cs == IF met = k THEN [x.call EXCEPT ![k] = "done"]
                   ELSE [[x.call EXCEPT ![met] = "orphaned"] EXCEPT ![k] = "gone"]
  <2>1. PushInput(x, msg) = WithCall(x, cs)
    BY <1>2, ResponsePushed
  <2>2. x.call \in [Calls -> CallStates]
    BY DEF Working
  <2> HIDE DEF met, k
  <2>3. cs \in [Calls -> CallStates]
    BY <2>2 DEF CallStates
  <2> QED BY <2>1, <2>3, WithCallIs
<1> QED BY <1>1, <1>2

LEMMA DropResponseType ==
  ASSUME NEW x \in Working, NEW msg \in MessageType
  PROVE  /\ DropResponse(x, msg) \in Working /\ DropResponse(x, msg).streams = x.streams
         /\ DropResponse(x, msg).work = x.work
         /\ DropResponse(x, msg).lost = x.lost \cup {msg}
         /\ DropResponse(x, msg).call =
              [x.call EXCEPT ![msg.call] = IF @ = "orphaned" THEN "gone" ELSE @]
<1>1. msg.call \in Calls
  BY Types
<1>2. x.call \in [Calls -> CallStates] /\ x.lost \cup {msg} \subseteq MessageType
  BY DEF Working
<1>3. [x.call EXCEPT ![msg.call] = IF @ = "orphaned" THEN "gone" ELSE @]
        \in [Calls -> CallStates]
  BY <1>1, <1>2 DEF CallStates
<1> QED BY <1>2, <1>3 DEF DropResponse, Working

LEMMA InductMessageEffect ==
  ASSUME NEW s \in Subnets, NEW r \in Subnets, NEW full, NEW x \in Working,
         NEW msg \in MessageType
  PROVE  Inducted(x, InductMessage(s, r, full, x, msg), r, 1)
<1> DEFINE st == x.streams[r]
           drop == [x EXCEPT !.lost = @ \cup {msg}]
           refuse == [x EXCEPT !.streams[r] = StreamPush(@, Response(msg.call))]
           reject == [x EXCEPT !.streams[r] = PushRejectSignal(@, st.signals_end)]
           Done(y) == [y EXCEPT !.streams[r] = IncrementSignalsEnd(@)]
           Good(y) == /\ y \in Working
                      /\ \A q \in Subnets \ {r} : y.streams[q] = x.streams[q]
                      /\ Longer(st, y.streams[r])
                      /\ y.streams[r].signals_end = st.signals_end + 1
<1>0. st \in StreamType /\ x.streams \in [Subnets -> StreamType]
  BY DEF Working
<1>1. ASSUME NEW y \in Working, NEW new \in StreamType,
             y.streams = x.streams, Longer(st, new), new.signals_end = st.signals_end + 1
      PROVE  Good([y EXCEPT !.streams[r] = new])
  <2> DEFINE z == [y EXCEPT !.streams[r] = new]
  <2>1. z = [y EXCEPT !.streams = [x.streams EXCEPT ![r] = new]]
    BY <1>1 DEF Working
  <2>2. [x.streams EXCEPT ![r] = new] \in [Subnets -> StreamType]
    BY <1>0
  <2>3. z \in Working
    BY <2>1, <2>2 DEF Working
  <2>4. z.streams[r] = new /\ \A q \in Subnets \ {r} : z.streams[q] = x.streams[q]
    BY <1>0, <2>1 DEF Working
  <2> QED BY <1>1, <2>3, <2>4
<1>2. ASSUME NEW y \in Working, y.streams = x.streams
      PROVE  Good(Done(y))
  <2>1. /\ IncrementSignalsEnd(st) \in StreamType
        /\ IncrementSignalsEnd(st).signals_end = st.signals_end + 1
        /\ IncrementSignalsEnd(st).reject_signals = st.reject_signals
        /\ Longer(st, IncrementSignalsEnd(st))
    BY <1>0, Increased
  <2>2. Done(y) = [y EXCEPT !.streams[r] = IncrementSignalsEnd(st)]
    BY <1>2
  <2> HIDE DEF st, Good, Done
  <2> QED BY <1>1, <1>2, <2>1, <2>2
<1>3. ASSUME NEW a
      PROVE  Done([x EXCEPT !.streams[r] = a]) = [x EXCEPT !.streams[r] = IncrementSignalsEnd(a)]
  <2> DEFINE z == [x EXCEPT !.streams[r] = a]
  <2>1. z = [x EXCEPT !.streams = [x.streams EXCEPT ![r] = a]]
    BY DEF Working
  <2>2. z.streams[r] = a /\ z.streams = [x.streams EXCEPT ![r] = a]
    BY <1>0, <2>1 DEF Working
  <2>3. Done(z) = [z EXCEPT !.streams = [z.streams EXCEPT ![r] = IncrementSignalsEnd(a)]]
    <3> HIDE DEF z
    <3> QED BY <2>2
  <2>4. [z.streams EXCEPT ![r] = IncrementSignalsEnd(a)]
          = [x.streams EXCEPT ![r] = IncrementSignalsEnd(a)]
    <3> HIDE DEF z
    <3> QED BY <1>0, <2>2
  <2>5. Done(z) = [x EXCEPT !.streams = [x.streams EXCEPT ![r] = IncrementSignalsEnd(a)]]
    <3> DEFINE f == [x.streams EXCEPT ![r] = IncrementSignalsEnd(a)]
               h == [x.streams EXCEPT ![r] = a]
    <3>1. Done(z) = [z EXCEPT !.streams = f]
      BY <2>3, <2>4
    <3> HIDE DEF f, h, Done
    <3>2. z = [x EXCEPT !.streams = h]
      BY <2>1 DEF h
    <3>3. [[x EXCEPT !.streams = h] EXCEPT !.streams = f] = [x EXCEPT !.streams = f]
      BY DEF Working
    <3> QED BY <3>1, <3>2, <3>3 DEF f
  <2> QED BY <2>5
<1>4. drop \in Working /\ drop.streams = x.streams
  BY DEF Working
<1>5. PushInput(x, msg) \in Working /\ PushInput(x, msg).streams = x.streams
  BY PushInputType
<1>11. DropResponse(x, msg) \in Working /\ DropResponse(x, msg).streams = x.streams
  BY DropResponseType
<1>6. Good(Done(refuse))
  <2> DEFINE a == StreamPush(st, Response(msg.call))
  <2>1. Response(msg.call) \in MessageType
    BY Types
  <2>2. a \in StreamType /\ OnlyPushed(st, a)
    BY <1>0, <2>1, StreamPushType
  <2> HIDE DEF a
  <2>3. /\ IncrementSignalsEnd(a) \in StreamType
        /\ Longer(st, IncrementSignalsEnd(a))
        /\ IncrementSignalsEnd(a).signals_end = st.signals_end + 1
        /\ IncrementSignalsEnd(a).reject_signals = st.reject_signals
    <3> HIDE DEF st
    <3> QED BY <2>2, Increased DEF OnlyPushed, Longer
  <2>4. Done(refuse) = [x EXCEPT !.streams[r] = IncrementSignalsEnd(a)]
    <3>1. refuse = [x EXCEPT !.streams[r] = a]
      BY DEF a
    <3> HIDE DEF refuse, Done
    <3> QED BY <1>3, <3>1
  <2> HIDE DEF Good, Done, st
  <2>5. Good([x EXCEPT !.streams[r] = IncrementSignalsEnd(a)])
    BY <1>1, <2>3
  <2> QED BY <2>4, <2>5
<1>7. Good(Done(reject))
  <2> DEFINE a == PushRejectSignal(st, st.signals_end)
  <2>1. /\ IncrementSignalsEnd(a) \in StreamType
        /\ Longer(st, IncrementSignalsEnd(a))
        /\ IncrementSignalsEnd(a).signals_end = st.signals_end + 1
        /\ IncrementSignalsEnd(a).reject_signals = st.reject_signals \cup {st.signals_end}
    BY <1>0, Rejected
  <2> HIDE DEF a
  <2>4. Done(reject) = [x EXCEPT !.streams[r] = IncrementSignalsEnd(a)]
    <3>1. reject = [x EXCEPT !.streams[r] = a]
      BY DEF a
    <3> HIDE DEF reject, Done
    <3> QED BY <1>3, <3>1
  <2> HIDE DEF Good, Done, st
  <2>5. Good([x EXCEPT !.streams[r] = IncrementSignalsEnd(a)])
    BY <1>1, <2>1
  <2> QED BY <2>4, <2>5
<1>8. \/ InductMessage(s, r, full, x, msg) = Done(drop)
      \/ InductMessage(s, r, full, x, msg) = Done(PushInput(x, msg))
      \/ InductMessage(s, r, full, x, msg) = Done(DropResponse(x, msg))
      \/ InductMessage(s, r, full, x, msg) = Done(refuse)
      \/ InductMessage(s, r, full, x, msg) = Done(reject)
  BY Zenon DEF InductMessage
<1>9. /\ Good(Done(drop)) /\ Good(Done(PushInput(x, msg)))
      /\ Good(Done(DropResponse(x, msg)))
  <2> HIDE DEF drop, Done, Good
  <2> QED BY <1>2, <1>4, <1>5, <1>11
<1>10. Good(InductMessage(s, r, full, x, msg))
  <2> HIDE DEF drop, Done, Good, refuse, reject
  <2> QED BY <1>6, <1>7, <1>8, <1>9
<1> QED BY <1>10 DEF Inducted

-----------------------------------------------------------------------------
(* The loops of the code. *)

\* InductMessages goes through the messages one by one.
LEMMA InductMessagesRun ==
  ASSUME NEW s, NEW r, NEW full, NEW x, NEW messages, Len(messages) \in Nat
  PROVE  \E run : /\ run[0] = x
                  /\ run[Len(messages)] = InductMessages(s, r, full, x, messages)
                  /\ \A i \in 1 .. Len(messages) : run[i] = InductMessage(s, r, full, run[i - 1], messages[i])
<1> DEFINE n == Len(messages)
           Body(f, i) == IF i = 0 THEN x ELSE InductMessage(s, r, full, f[i - 1], messages[i])
           P == {k \in Nat : \E f : \A i \in 0 .. k : f[i] = Body(f, i)}
<1>1. 0 \in P
  <2> DEFINE f == [i \in {0} |-> x]
  <2>1. \A i \in 0 .. 0 : f[i] = Body(f, i)
    OBVIOUS
  <2> QED BY <2>1
<1>2. ASSUME NEW k \in Nat, k \in P PROVE k + 1 \in P
  <2>1. PICK f : \A i \in 0 .. k : f[i] = Body(f, i)
    BY <1>2
  <2> DEFINE g == [i \in 0 .. (k + 1) |-> IF i <= k THEN f[i] ELSE Body(f, k + 1)]
  <2>2. \A i \in 0 .. k : g[i] = f[i]
    OBVIOUS
  <2>3. g[k + 1] = Body(f, k + 1)
    OBVIOUS
  <2> HIDE DEF g
  <2>4. \A i \in 0 .. (k + 1) : Body(g, i) = Body(f, i)
    <3> TAKE i \in 0 .. (k + 1)
    <3>1. CASE i = 0
      BY <3>1
    <3>2. CASE i # 0
      <4>1. i - 1 \in 0 .. k
        BY <3>2
      <4>2. g[i - 1] = f[i - 1]
        BY <2>2, <4>1
      <4> QED BY <4>2
    <3> QED BY <3>1, <3>2
  <2>5. \A i \in 0 .. (k + 1) : g[i] = Body(g, i)
    <3> HIDE DEF Body
    <3> TAKE i \in 0 .. (k + 1)
    <3>1. i \in 0 .. k \/ i = k + 1
      OBVIOUS
    <3> QED BY <2>1, <2>2, <2>3, <2>4, <3>1
  <2> HIDE DEF Body
  <2> QED BY <2>5
<1>3. n \in P
  <2> HIDE DEF P, n
  <2>1. n \in Nat
    BY DEF n
  <2> QED BY <1>1, <1>2, <2>1, NatSetInduction
<1>4. PICK f : \A i \in 0 .. n : f[i] = Body(f, i)
  BY <1>3
<1> DEFINE g == [i \in 0 .. n |-> f[i]]
<1>5. g = [i \in 0 .. n |-> Body(g, i)]
  <2>1. \A i \in 0 .. n : Body(g, i) = Body(f, i)
    <3> TAKE i \in 0 .. n
    <3>1. CASE i = 0
      BY <3>1
    <3>2. CASE i # 0
      <4>1. i - 1 \in 0 .. n
        BY <3>2
      <4>2. g[i - 1] = f[i - 1]
        BY <4>1
      <4> HIDE DEF g
      <4> QED BY <4>2
    <3> QED BY <3>1, <3>2
  <2> HIDE DEF Body
  <2> QED BY <1>4, <2>1
<1> DEFINE after == CHOOSE h : h = [i \in 0 .. n |-> Body(h, i)]
<1>6. after = [i \in 0 .. n |-> Body(after, i)]
  <2> HIDE DEF g, Body
  <2> QED BY <1>5
<1>7. InductMessages(s, r, full, x, messages) = after[n]
  BY DEF InductMessages
<1> HIDE DEF after
<1>8. \A i \in 0 .. n : after[i] = Body(after, i)
  <2> HIDE DEF Body
  <2> QED BY <1>6
<1>9. after[0] = x /\ \A i \in 1 .. n : after[i] = InductMessage(s, r, full, after[i - 1], messages[i])
  <2>1. 0 \in 0 .. n /\ \A i \in 1 .. n : i \in 0 .. n /\ i # 0
    OBVIOUS
  <2> QED BY <1>8, <2>1
<1> HIDE DEF P, Body
<1> QED BY <1>7, <1>9

\* RerouteRejectedMessages, too.
LEMMA RerouteRun ==
  ASSUME NEW s, NEW x, NEW rejected, Len(rejected) \in Nat
  PROVE  \E run : /\ run[0] = x
                  /\ run[Len(rejected)] = RerouteRejectedMessages(s, x, rejected)
                  /\ \A i \in 1 .. Len(rejected) : run[i] = RerouteRejectedMessage(s, run[i - 1], rejected[i])
<1> DEFINE n == Len(rejected)
           Body(f, i) == IF i = 0 THEN x ELSE RerouteRejectedMessage(s, f[i - 1], rejected[i])
           P == {k \in Nat : \E f : \A i \in 0 .. k : f[i] = Body(f, i)}
<1>1. 0 \in P
  <2> DEFINE f == [i \in {0} |-> x]
  <2>1. \A i \in 0 .. 0 : f[i] = Body(f, i)
    OBVIOUS
  <2> QED BY <2>1
<1>2. ASSUME NEW k \in Nat, k \in P PROVE k + 1 \in P
  <2>1. PICK f : \A i \in 0 .. k : f[i] = Body(f, i)
    BY <1>2
  <2> DEFINE g == [i \in 0 .. (k + 1) |-> IF i <= k THEN f[i] ELSE Body(f, k + 1)]
  <2>2. \A i \in 0 .. k : g[i] = f[i]
    OBVIOUS
  <2>3. g[k + 1] = Body(f, k + 1)
    OBVIOUS
  <2> HIDE DEF g
  <2>4. \A i \in 0 .. (k + 1) : Body(g, i) = Body(f, i)
    <3> TAKE i \in 0 .. (k + 1)
    <3>1. CASE i = 0
      BY <3>1
    <3>2. CASE i # 0
      <4>1. i - 1 \in 0 .. k
        BY <3>2
      <4>2. g[i - 1] = f[i - 1]
        BY <2>2, <4>1
      <4> QED BY <4>2
    <3> QED BY <3>1, <3>2
  <2>5. \A i \in 0 .. (k + 1) : g[i] = Body(g, i)
    <3> HIDE DEF Body
    <3> TAKE i \in 0 .. (k + 1)
    <3>1. i \in 0 .. k \/ i = k + 1
      OBVIOUS
    <3> QED BY <2>1, <2>2, <2>3, <2>4, <3>1
  <2> HIDE DEF Body
  <2> QED BY <2>5
<1>3. n \in P
  <2> HIDE DEF P, n
  <2>1. n \in Nat
    BY DEF n
  <2> QED BY <1>1, <1>2, <2>1, NatSetInduction
<1>4. PICK f : \A i \in 0 .. n : f[i] = Body(f, i)
  BY <1>3
<1> DEFINE g == [i \in 0 .. n |-> f[i]]
<1>5. g = [i \in 0 .. n |-> Body(g, i)]
  <2>1. \A i \in 0 .. n : Body(g, i) = Body(f, i)
    <3> TAKE i \in 0 .. n
    <3>1. CASE i = 0
      BY <3>1
    <3>2. CASE i # 0
      <4>1. i - 1 \in 0 .. n
        BY <3>2
      <4>2. g[i - 1] = f[i - 1]
        BY <4>1
      <4> HIDE DEF g
      <4> QED BY <4>2
    <3> QED BY <3>1, <3>2
  <2> HIDE DEF Body
  <2> QED BY <1>4, <2>1
<1> DEFINE after == CHOOSE h : h = [i \in 0 .. n |-> Body(h, i)]
<1>6. after = [i \in 0 .. n |-> Body(after, i)]
  <2> HIDE DEF g, Body
  <2> QED BY <1>5
<1>7. RerouteRejectedMessages(s, x, rejected) = after[n]
  BY DEF RerouteRejectedMessages
<1> HIDE DEF after
<1>8. \A i \in 0 .. n : after[i] = Body(after, i)
  <2> HIDE DEF Body
  <2> QED BY <1>6
<1>9. after[0] = x /\ \A i \in 1 .. n : after[i] = RerouteRejectedMessage(s, after[i - 1], rejected[i])
  <2>1. 0 \in 0 .. n /\ \A i \in 1 .. n : i \in 0 .. n /\ i # 0
    OBVIOUS
  <2> QED BY <1>8, <2>1
<1> HIDE DEF P, Body
<1> QED BY <1>7, <1>9

\* GarbageCollectStreams goes through the subnets one by one ...
LEMMA CollectRun ==
  ASSUME NEW s, NEW payload, NEW x, Len(SetToSeq(Sources(payload))) \in Nat
  PROVE  \E run : /\ run[0] = x
                  /\ run[Len(SetToSeq(Sources(payload)))] = GarbageCollectStreams(s, payload, x)
                  /\ \A i \in 1 .. Len(SetToSeq(Sources(payload))) : run[i] = GarbageCollectLocalState(s, SetToSeq(Sources(payload))[i], run[i - 1],
                                payload[SetToSeq(Sources(payload))[i]])
<1> DEFINE n == Len(SetToSeq(Sources(payload)))
           Body(f, i) == IF i = 0 THEN x ELSE GarbageCollectLocalState(s, SetToSeq(Sources(payload))[i], f[i - 1],
                                payload[SetToSeq(Sources(payload))[i]])
           P == {k \in Nat : \E f : \A i \in 0 .. k : f[i] = Body(f, i)}
<1>1. 0 \in P
  <2> DEFINE f == [i \in {0} |-> x]
  <2>1. \A i \in 0 .. 0 : f[i] = Body(f, i)
    OBVIOUS
  <2> QED BY <2>1
<1>2. ASSUME NEW k \in Nat, k \in P PROVE k + 1 \in P
  <2>1. PICK f : \A i \in 0 .. k : f[i] = Body(f, i)
    BY <1>2
  <2> DEFINE g == [i \in 0 .. (k + 1) |-> IF i <= k THEN f[i] ELSE Body(f, k + 1)]
  <2>2. \A i \in 0 .. k : g[i] = f[i]
    OBVIOUS
  <2>3. g[k + 1] = Body(f, k + 1)
    OBVIOUS
  <2> HIDE DEF g
  <2>4. \A i \in 0 .. (k + 1) : Body(g, i) = Body(f, i)
    <3> TAKE i \in 0 .. (k + 1)
    <3>1. CASE i = 0
      BY <3>1
    <3>2. CASE i # 0
      <4>1. i - 1 \in 0 .. k
        BY <3>2
      <4>2. g[i - 1] = f[i - 1]
        BY <2>2, <4>1
      <4> QED BY <4>2
    <3> QED BY <3>1, <3>2
  <2>5. \A i \in 0 .. (k + 1) : g[i] = Body(g, i)
    <3> HIDE DEF Body
    <3> TAKE i \in 0 .. (k + 1)
    <3>1. i \in 0 .. k \/ i = k + 1
      OBVIOUS
    <3> QED BY <2>1, <2>2, <2>3, <2>4, <3>1
  <2> HIDE DEF Body
  <2> QED BY <2>5
<1>3. n \in P
  <2> HIDE DEF P, n
  <2>1. n \in Nat
    BY DEF n
  <2> QED BY <1>1, <1>2, <2>1, NatSetInduction
<1>4. PICK f : \A i \in 0 .. n : f[i] = Body(f, i)
  BY <1>3
<1> DEFINE g == [i \in 0 .. n |-> f[i]]
<1>5. g = [i \in 0 .. n |-> Body(g, i)]
  <2>1. \A i \in 0 .. n : Body(g, i) = Body(f, i)
    <3> TAKE i \in 0 .. n
    <3>1. CASE i = 0
      BY <3>1
    <3>2. CASE i # 0
      <4>1. i - 1 \in 0 .. n
        BY <3>2
      <4>2. g[i - 1] = f[i - 1]
        BY <4>1
      <4> HIDE DEF g
      <4> QED BY <4>2
    <3> QED BY <3>1, <3>2
  <2> HIDE DEF Body
  <2> QED BY <1>4, <2>1
<1> DEFINE after == CHOOSE h : h = [i \in 0 .. n |-> Body(h, i)]
<1>6. after = [i \in 0 .. n |-> Body(after, i)]
  <2> HIDE DEF g, Body
  <2> QED BY <1>5
<1>7. GarbageCollectStreams(s, payload, x) = after[n]
  BY DEF GarbageCollectStreams
<1> HIDE DEF after
<1>8. \A i \in 0 .. n : after[i] = Body(after, i)
  <2> HIDE DEF Body
  <2> QED BY <1>6
<1>9. after[0] = x /\ \A i \in 1 .. n : after[i] = GarbageCollectLocalState(s, SetToSeq(Sources(payload))[i], after[i - 1],
                                payload[SetToSeq(Sources(payload))[i]])
  <2>1. 0 \in 0 .. n /\ \A i \in 1 .. n : i \in 0 .. n /\ i # 0
    OBVIOUS
  <2> QED BY <1>8, <2>1
<1> HIDE DEF P, Body
<1> QED BY <1>7, <1>9

\* ... and so does InductStreamSlices.
LEMMA SlicesRun ==
  ASSUME NEW s, NEW payload, NEW full, NEW x, Len(SetToSeq(Sources(payload))) \in Nat
  PROVE  \E run : /\ run[0] = x
                  /\ run[Len(SetToSeq(Sources(payload)))] = InductStreamSlices(s, payload, full, x)
                  /\ \A i \in 1 .. Len(SetToSeq(Sources(payload))) : run[i] = InductMessages(s, SetToSeq(Sources(payload))[i], full, run[i - 1],
                      payload[SetToSeq(Sources(payload))[i]].messages)
<1> DEFINE n == Len(SetToSeq(Sources(payload)))
           Body(f, i) == IF i = 0 THEN x ELSE InductMessages(s, SetToSeq(Sources(payload))[i], full, f[i - 1],
                      payload[SetToSeq(Sources(payload))[i]].messages)
           P == {k \in Nat : \E f : \A i \in 0 .. k : f[i] = Body(f, i)}
<1>1. 0 \in P
  <2> DEFINE f == [i \in {0} |-> x]
  <2>1. \A i \in 0 .. 0 : f[i] = Body(f, i)
    OBVIOUS
  <2> QED BY <2>1
<1>2. ASSUME NEW k \in Nat, k \in P PROVE k + 1 \in P
  <2>1. PICK f : \A i \in 0 .. k : f[i] = Body(f, i)
    BY <1>2
  <2> DEFINE g == [i \in 0 .. (k + 1) |-> IF i <= k THEN f[i] ELSE Body(f, k + 1)]
  <2>2. \A i \in 0 .. k : g[i] = f[i]
    OBVIOUS
  <2>3. g[k + 1] = Body(f, k + 1)
    OBVIOUS
  <2> HIDE DEF g
  <2>4. \A i \in 0 .. (k + 1) : Body(g, i) = Body(f, i)
    <3> TAKE i \in 0 .. (k + 1)
    <3>1. CASE i = 0
      BY <3>1
    <3>2. CASE i # 0
      <4>1. i - 1 \in 0 .. k
        BY <3>2
      <4>2. g[i - 1] = f[i - 1]
        BY <2>2, <4>1
      <4> QED BY <4>2
    <3> QED BY <3>1, <3>2
  <2>5. \A i \in 0 .. (k + 1) : g[i] = Body(g, i)
    <3> HIDE DEF Body
    <3> TAKE i \in 0 .. (k + 1)
    <3>1. i \in 0 .. k \/ i = k + 1
      OBVIOUS
    <3> QED BY <2>1, <2>2, <2>3, <2>4, <3>1
  <2> HIDE DEF Body
  <2> QED BY <2>5
<1>3. n \in P
  <2> HIDE DEF P, n
  <2>1. n \in Nat
    BY DEF n
  <2> QED BY <1>1, <1>2, <2>1, NatSetInduction
<1>4. PICK f : \A i \in 0 .. n : f[i] = Body(f, i)
  BY <1>3
<1> DEFINE g == [i \in 0 .. n |-> f[i]]
<1>5. g = [i \in 0 .. n |-> Body(g, i)]
  <2>1. \A i \in 0 .. n : Body(g, i) = Body(f, i)
    <3> TAKE i \in 0 .. n
    <3>1. CASE i = 0
      BY <3>1
    <3>2. CASE i # 0
      <4>1. i - 1 \in 0 .. n
        BY <3>2
      <4>2. g[i - 1] = f[i - 1]
        BY <4>1
      <4> HIDE DEF g
      <4> QED BY <4>2
    <3> QED BY <3>1, <3>2
  <2> HIDE DEF Body
  <2> QED BY <1>4, <2>1
<1> DEFINE after == CHOOSE h : h = [i \in 0 .. n |-> Body(h, i)]
<1>6. after = [i \in 0 .. n |-> Body(after, i)]
  <2> HIDE DEF g, Body
  <2> QED BY <1>5
<1>7. InductStreamSlices(s, payload, full, x) = after[n]
  BY DEF InductStreamSlices
<1> HIDE DEF after
<1>8. \A i \in 0 .. n : after[i] = Body(after, i)
  <2> HIDE DEF Body
  <2> QED BY <1>6
<1>9. after[0] = x /\ \A i \in 1 .. n : after[i] = InductMessages(s, SetToSeq(Sources(payload))[i], full, after[i - 1],
                      payload[SetToSeq(Sources(payload))[i]].messages)
  <2>1. 0 \in 0 .. n /\ \A i \in 1 .. n : i \in 0 .. n /\ i # 0
    OBVIOUS
  <2> QED BY <1>8, <2>1
<1> HIDE DEF P, Body
<1> QED BY <1>7, <1>9

-----------------------------------------------------------------------------
(* What the parts of the handler do to streams. *)

LEMMA InductMessagesEffect ==
  ASSUME NEW s \in Subnets, NEW r \in Subnets, NEW full, NEW x \in Working,
         NEW messages \in Seq(MessageType)
  PROVE  Inducted(x, InductMessages(s, r, full, x, messages), r, Len(messages))
<1> DEFINE n == Len(messages)
<1>0. n \in Nat /\ \A i \in 1 .. n : messages[i] \in MessageType
  OBVIOUS
<1>1. PICK run : /\ run[0] = x
                 /\ run[n] = InductMessages(s, r, full, x, messages)
                 /\ \A i \in 1 .. n : run[i] = InductMessage(s, r, full, run[i - 1], messages[i])
  BY <1>0, InductMessagesRun
<1> DEFINE P == {i \in Nat : i <= n => Inducted(x, run[i], r, i)}
<1>2. \A y \in Working : y.streams[r] \in StreamType
  BY DEF Working
<1>3. 0 \in P
  BY <1>1, <1>2, StreamFields DEF Longer, Inducted
<1>4. ASSUME NEW i \in Nat, i \in P, i + 1 <= n PROVE Inducted(x, run[i + 1], r, i + 1)
  <2>1. Inducted(x, run[i], r, i)
    BY <1>0, <1>4
  <2>2. run[i + 1] = InductMessage(s, r, full, run[i], messages[i + 1])
    <3>1. i + 1 \in 1 .. n /\ (i + 1) - 1 = i
      BY <1>0, <1>4
    <3> QED BY <1>1, <3>1
  <2>3. messages[i + 1] \in MessageType
    BY <1>0, <1>4
  <2> DEFINE a == run[i]
             b == run[i + 1]
             m == messages[i + 1]
  <2>4. Inducted(x, a, r, i) /\ b = InductMessage(s, r, full, a, m) /\ m \in MessageType
    BY <2>1, <2>2, <2>3
  <2> HIDE DEF a, b, m
  <2>5. Inducted(a, b, r, 1)
    <3>1. a \in Working
      BY <2>4 DEF Inducted
    <3> QED BY <2>4, <3>1, InductMessageEffect
  <2>6. Inducted(x, b, r, i + 1)
    <3>1. /\ x.streams[r] \in StreamType /\ a.streams[r] \in StreamType
          /\ b.streams[r] \in StreamType
      BY <1>2, <2>4, <2>5 DEF Inducted
    <3>2. x.streams[r].signals_end \in Nat
      BY <3>1, StreamFields
    <3>3. b.streams[r].signals_end = x.streams[r].signals_end + (i + 1)
      BY <2>4, <2>5, <3>2 DEF Inducted
    <3>4. Longer(x.streams[r], b.streams[r])
      <4>1. Longer(x.streams[r], a.streams[r]) /\ Longer(a.streams[r], b.streams[r])
        BY <2>4, <2>5 DEF Inducted
      <4> QED BY <3>1, <4>1, LongerTransitive
    <3> QED BY <2>4, <2>5, <3>3, <3>4 DEF Inducted
  <2> QED BY <2>6 DEF b
<1>5. n \in P
  <2>1. \A i \in Nat : i \in P => i + 1 \in P
    <3> QED BY <1>4
  <2> HIDE DEF P
  <2> QED BY <1>0, <1>3, <2>1, NatSetInduction
<1> QED BY <1>0, <1>1, <1>5

\* Rerouting only adds to streams.
LEMMA RerouteOneEffect ==
  ASSUME NEW s \in Subnets, NEW x \in Working, NEW msg \in MessageType
  PROVE  LET y == RerouteRejectedMessage(s, x, msg)
         IN  y \in Working /\ \A q \in Subnets : OnlyPushed(x.streams[q], y.streams[q])
<1>0. x.streams \in [Subnets -> StreamType]
  BY DEF Working
<1>1. \A q \in Subnets : OnlyPushed(x.streams[q], x.streams[q])
  <2> TAKE q \in Subnets
  <2>1. x.streams[q] \in StreamType
    BY <1>0
  <2> QED BY <2>1, StreamFields DEF OnlyPushed, Longer
<1>2. CASE msg.kind = "Request"
  <2> DEFINE y == [x EXCEPT !.lost = @ \cup {msg}]
  <2>1. y \in Working /\ y.streams = x.streams
    BY DEF Working
  <2>2. RerouteRejectedMessage(s, x, msg) = y
    BY <1>2 DEF RerouteRejectedMessage
  <2> HIDE DEF y
  <2> QED BY <1>1, <2>1, <2>2
<1>3. CASE msg.kind # "Request"
  <2> DEFINE r == Route(s, Receiver(msg))
             new == StreamPush(x.streams[r], msg)
             y == [x EXCEPT !.streams = [x.streams EXCEPT ![r] = new]]
  <2>1. r \in Subnets
    BY Types, RouteType
  <2>2. RerouteRejectedMessage(s, x, msg) = y
    BY <1>3 DEF RerouteRejectedMessage, Working
  <2> HIDE DEF r
  <2>3. new \in StreamType /\ OnlyPushed(x.streams[r], new)
    BY <1>0, <2>1, StreamPushType
  <2> HIDE DEF new
  <2>4. [x.streams EXCEPT ![r] = new] \in [Subnets -> StreamType]
    BY <1>0, <2>3
  <2>5. y \in Working /\ y.streams = [x.streams EXCEPT ![r] = new]
    BY <2>4 DEF Working
  <2>6. \A q \in Subnets : OnlyPushed(x.streams[q], y.streams[q])
    <3> HIDE DEF y
    <3> TAKE q \in Subnets
    <3>1. CASE q = r
      BY <1>0, <2>3, <2>5, <3>1
    <3>2. CASE q # r
      BY <1>0, <1>1, <2>5, <3>2
    <3> QED BY <3>1, <3>2
  <2> HIDE DEF y
  <2> QED BY <2>2, <2>5, <2>6
<1> QED BY <1>2, <1>3

LEMMA OnlyPushedTransitive ==
  ASSUME NEW a \in StreamType, NEW b \in StreamType, NEW c \in StreamType,
         OnlyPushed(a, b), OnlyPushed(b, c)
  PROVE  OnlyPushed(a, c)
BY StreamFields DEF OnlyPushed, Longer

LEMMA RerouteEffect ==
  ASSUME NEW s \in Subnets, NEW x \in Working, NEW rejected \in Seq(MessageType)
  PROVE  LET y == RerouteRejectedMessages(s, x, rejected)
         IN  y \in Working /\ \A q \in Subnets : OnlyPushed(x.streams[q], y.streams[q])
<1> DEFINE n == Len(rejected)
           Good(y) == y \in Working /\ \A q \in Subnets : OnlyPushed(x.streams[q], y.streams[q])
<1>0. n \in Nat /\ \A i \in 1 .. n : rejected[i] \in MessageType
  OBVIOUS
<1>1. PICK run : /\ run[0] = x
                 /\ run[n] = RerouteRejectedMessages(s, x, rejected)
                 /\ \A i \in 1 .. n : run[i] = RerouteRejectedMessage(s, run[i - 1], rejected[i])
  BY <1>0, RerouteRun
<1> DEFINE P == {i \in Nat : i <= n => Good(run[i])}
<1>2. \A y \in Working : \A q \in Subnets : y.streams[q] \in StreamType
  BY DEF Working
<1>3. 0 \in P
  <2>1. \A q \in Subnets : OnlyPushed(x.streams[q], x.streams[q])
    BY <1>2, StreamFields DEF OnlyPushed, Longer
  <2> QED BY <1>1, <2>1
<1>4. ASSUME NEW i \in Nat, i \in P, i + 1 <= n PROVE Good(run[i + 1])
  <2>1. Good(run[i])
    BY <1>0, <1>4
  <2>2. run[i + 1] = RerouteRejectedMessage(s, run[i], rejected[i + 1])
    <3>1. i + 1 \in 1 .. n /\ (i + 1) - 1 = i
      BY <1>0, <1>4
    <3> QED BY <1>1, <3>1
  <2>3. rejected[i + 1] \in MessageType
    BY <1>0, <1>4
  <2> DEFINE a == run[i]
             b == run[i + 1]
  <2>4. b \in Working /\ \A q \in Subnets : OnlyPushed(a.streams[q], b.streams[q])
    BY <2>1, <2>2, <2>3, RerouteOneEffect
  <2>5. Good(a)
    BY <2>1
  <2> HIDE DEF a, b
  <2>6. Good(b)
    BY <1>2, <2>4, <2>5, OnlyPushedTransitive
  <2> QED BY <2>6 DEF b
<1>5. n \in P
  <2>1. \A i \in Nat : i \in P => i + 1 \in P
    <3> HIDE DEF Good
    <3> QED BY <1>4
  <2> HIDE DEF P
  <2> QED BY <1>0, <1>3, <2>1, NatSetInduction
<1> QED BY <1>0, <1>1, <1>5

-----------------------------------------------------------------------------
(* Rejected messages. *)

LEMMA AscendingOrder ==
  ASSUME NEW S \in SUBSET Nat, IsFiniteSet(S)
  PROVE  /\ Cardinality(S) \in Nat
         /\ Ascending(S) \in [1 .. Cardinality(S) -> S]
         /\ \A i, j \in 1 .. Cardinality(S) : i < j => Ascending(S)[i] < Ascending(S)[j]
<1> DEFINE Up(q, n) == \A i, j \in 1 .. n : i < j => q[i] < q[j]
           Sorted(T, n) == \E q \in [1 .. n -> T] : Up(q, n)
           P == {n \in Nat : \A T \in SUBSET Nat :
                   IsFiniteSet(T) /\ Cardinality(T) = n => Sorted(T, n)}
<1>1. 0 \in P
  <2>1. \A T : <<>> \in [1 .. 0 -> T] /\ Up(<<>>, 0)
    OBVIOUS
  <2>2. \A T : Sorted(T, 0)
    BY <2>1
  <2> HIDE DEF Sorted
  <2> QED BY <2>2
<1>2. ASSUME NEW n \in Nat, n \in P, NEW T \in SUBSET Nat, IsFiniteSet(T), Cardinality(T) = n + 1
      PROVE  Sorted(T, n + 1)
  <2>1. T # {}
    BY <1>2, FS_EmptySet
  <2>2. PICK x \in T : \A y \in T : y <= x
    BY <1>2, <2>1, FiniteMaximum
  <2>3. IsFiniteSet(T \ {x}) /\ Cardinality(T \ {x}) = n
    BY <1>2, FS_RemoveElement
  <2>4. Sorted(T \ {x}, n)
    <3> HIDE DEF Sorted
    <3> QED BY <1>2, <2>3
  <2>5. PICK q \in [1 .. n -> T \ {x}] : Up(q, n)
    BY <2>4
  <2> DEFINE p == [i \in 1 .. (n + 1) |-> IF i <= n THEN q[i] ELSE x]
  <2>6. p \in [1 .. (n + 1) -> T]
    OBVIOUS
  <2>7. Up(p, n + 1)
    <3> SUFFICES ASSUME NEW i \in 1 .. (n + 1), NEW j \in 1 .. (n + 1), i < j
                 PROVE  p[i] < p[j]
      OBVIOUS
    <3>1. i \in 1 .. n /\ p[i] = q[i] /\ q[i] \in T \ {x}
      OBVIOUS
    <3>2. CASE j <= n
      BY <2>5, <3>1, <3>2
    <3>3. CASE j = n + 1
      <4>1. p[j] = x
        BY <3>3
      <4>2. q[i] <= x /\ q[i] # x /\ q[i] \in Nat /\ x \in Nat
        BY <2>2, <3>1
      <4> QED BY <3>1, <4>1, <4>2
    <3> QED BY <3>2, <3>3
  <2> HIDE DEF p, Up
  <2> QED BY <2>6, <2>7
<1>3. Nat \subseteq P
  <2>1. \A n \in Nat : n \in P => n + 1 \in P
    <3> HIDE DEF Sorted
    <3> QED BY <1>2
  <2> HIDE DEF P
  <2> QED BY <1>1, <2>1, NatSetInduction
<1>4. Cardinality(S) \in Nat
  BY FS_CardinalityType
<1>5. Sorted(S, Cardinality(S))
  <2> HIDE DEF Sorted
  <2> QED BY <1>3, <1>4
<1> QED BY <1>4, <1>5 DEF Ascending

LEMMA RejectedMessagesType ==
  ASSUME NEW st \in StreamType, NEW i \in Nat, i <= MessagesEnd(st), NEW signals \in SUBSET Nat
  PROVE  RejectedMessages(st, i, signals) \in Seq(MessageType)
<1> DEFINE S == {k \in signals : st.begin <= k /\ k < i}
<1>1. S \in SUBSET Nat /\ IsFiniteSet(S)
  <2>1. S \in SUBSET Nat /\ \A k \in S : k <= i
    <3>1. \A k \in S : k \in Nat /\ k < i
      BY Zenon
    <3> HIDE DEF S
    <3> QED BY <3>1
  <2> HIDE DEF S
  <2> QED BY <2>1, FS_BoundedSetOfNaturals
<1>2. /\ Cardinality(S) \in Nat
      /\ Ascending(S) \in [1 .. Cardinality(S) -> S]
  <2> HIDE DEF S
  <2> QED BY <1>1, AscendingOrder
<1>3. Len(Ascending(S)) = Cardinality(S)
  <2> HIDE DEF S
  <2> QED BY <1>2
<1>4. \A k \in S : MessageAt(st, k) \in MessageType
  <2> TAKE k \in S
  <2>1. k - st.begin + 1 \in 1 .. Len(st.messages)
    BY StreamFields DEF MessagesEnd
  <2> QED BY <2>1, StreamFields DEF MessageAt
<1>5. RejectedMessages(st, i, signals)
        = [j \in 1 .. Cardinality(S) |-> MessageAt(st, Ascending(S)[j])]
  BY <1>3 DEF RejectedMessages
<1> HIDE DEF S
<1> DEFINE q == [j \in 1 .. Cardinality(S) |-> MessageAt(st, Ascending(S)[j])]
<1>6. q \in [1 .. Cardinality(S) -> MessageType]
  BY <1>2, <1>4
<1> HIDE DEF q
<1>7. q \in Seq(MessageType)
  BY <1>2, <1>6
<1> QED BY <1>5, <1>7 DEF q

-----------------------------------------------------------------------------
(* Garbage collection. *)

SliceType ==
  [begin : Nat, end : Nat, signals_end : Nat, reject_signals : SUBSET Nat,
   messages_begin : Nat, messages : Seq(MessageType)]

\* The stream to r now begins at index i, every stream may have more messages.
Collected(x, y, r, i) ==
  /\ y \in Working
  /\ \A q \in Subnets :
       /\ y.streams[q].begin = IF q = r THEN i ELSE x.streams[q].begin
       /\ y.streams[q].signals_end = x.streams[q].signals_end
       /\ MessagesEnd(x.streams[q]) <= MessagesEnd(y.streams[q])

LEMMA DiscardEffect ==
  ASSUME NEW r \in Subnets, NEW x \in Working, NEW i \in Nat, NEW j \in Nat,
         x.streams[r].begin <= i, i <= MessagesEnd(x.streams[r])
  PROVE  LET y == [x EXCEPT !.streams[r] =
                     DiscardSignalsBefore(DiscardMessagesBefore(@, i), j)]
         IN  /\ Collected(x, y, r, i)
             /\ y.streams[r].reject_signals = {k \in x.streams[r].reject_signals : k >= j}
             /\ \A q \in Subnets \ {r} : y.streams[q] = x.streams[q]
<1>0. x.streams \in [Subnets -> StreamType]
  BY DEF Working
<1> DEFINE st == x.streams[r]
           new == DiscardSignalsBefore(DiscardMessagesBefore(st, i), j)
           y == [x EXCEPT !.streams = [x.streams EXCEPT ![r] = new]]
<1>1. [x EXCEPT !.streams[r] = DiscardSignalsBefore(DiscardMessagesBefore(@, i), j)] = y
  BY DEF Working
<1>2. /\ new \in StreamType
      /\ new.begin = i
      /\ new.signals_end = st.signals_end
      /\ MessagesEnd(new) = MessagesEnd(st)
      /\ new.reject_signals = {k \in st.reject_signals : k >= j}
  BY <1>0, DiscardTypes
<1> HIDE DEF new
<1>3. [x.streams EXCEPT ![r] = new] \in [Subnets -> StreamType]
  BY <1>0, <1>2
<1>4. y \in Working /\ y.streams = [x.streams EXCEPT ![r] = new]
  BY <1>3 DEF Working
<1>5. y.streams[r] = new /\ \A q \in Subnets \ {r} : y.streams[q] = x.streams[q]
  <2> HIDE DEF y
  <2> QED BY <1>0, <1>4
<1> HIDE DEF y
<1>6. \A q \in Subnets : MessagesEnd(x.streams[q]) \in Nat
  BY <1>0, StreamFields
<1>7. Collected(x, y, r, i)
  <2> SUFFICES ASSUME NEW q \in Subnets
               PROVE  /\ y.streams[q].begin = IF q = r THEN i ELSE x.streams[q].begin
                      /\ y.streams[q].signals_end = x.streams[q].signals_end
                      /\ MessagesEnd(x.streams[q]) <= MessagesEnd(y.streams[q])
    BY <1>4 DEF Collected
  <2>1. CASE q = r
    BY <1>2, <1>5, <1>6, <2>1
  <2>2. CASE q # r
    BY <1>5, <1>6, <2>2
  <2> QED BY <2>1, <2>2
<1> QED BY <1>1, <1>2, <1>5, <1>7

LEMMA CollectedThenPushed ==
  ASSUME NEW x \in Working, NEW y, NEW z \in Working, NEW r \in Subnets, NEW i \in Nat,
         Collected(x, y, r, i), \A q \in Subnets : OnlyPushed(y.streams[q], z.streams[q])
  PROVE  Collected(x, z, r, i)
<1> SUFFICES ASSUME NEW q \in Subnets
             PROVE  /\ z.streams[q].begin = IF q = r THEN i ELSE x.streams[q].begin
                    /\ z.streams[q].signals_end = x.streams[q].signals_end
                    /\ MessagesEnd(x.streams[q]) <= MessagesEnd(z.streams[q])
  BY DEF Collected
<1> DEFINE a == x.streams[q]
           b == y.streams[q]
           c == z.streams[q]
<1>1. a \in StreamType /\ b \in StreamType /\ c \in StreamType
  BY DEF Working, Collected
<1>2. /\ b.begin = IF q = r THEN i ELSE a.begin
      /\ b.signals_end = a.signals_end
      /\ MessagesEnd(a) <= MessagesEnd(b)
  BY DEF Collected
<1>3. OnlyPushed(b, c)
  OBVIOUS
<1> HIDE DEF a, b, c
<1>4. MessagesEnd(b) <= MessagesEnd(c)
  BY <1>1, <1>3, StreamFields DEF OnlyPushed, Longer, MessagesEnd
<1>5. MessagesEnd(a) \in Nat /\ MessagesEnd(b) \in Nat /\ MessagesEnd(c) \in Nat
  BY <1>1, StreamFields
<1>6. MessagesEnd(a) <= MessagesEnd(c)
  BY <1>2, <1>4, <1>5
<1>7. c.begin = b.begin /\ c.signals_end = b.signals_end
  BY <1>3 DEF OnlyPushed, Longer
<1> QED BY <1>2, <1>6, <1>7 DEF a, b, c

LEMMA CollectEffect ==
  ASSUME NEW s \in Subnets, NEW r \in Subnets, NEW x \in Working, NEW slice \in SliceType,
         x.streams[r].begin <= slice.signals_end,
         slice.signals_end <= MessagesEnd(x.streams[r])
  PROVE  Collected(x, GarbageCollectLocalState(s, r, x, slice), r, slice.signals_end)
<1> DEFINE i == slice.signals_end
           y == [x EXCEPT !.streams[r] =
                   DiscardSignalsBefore(DiscardMessagesBefore(@, i), slice.begin)]
           rejected == RejectedMessages(x.streams[r], i, slice.reject_signals)
           z == RerouteRejectedMessages(s, y, rejected)
<1>0. i \in Nat /\ slice.begin \in Nat /\ slice.reject_signals \in SUBSET Nat
      /\ x.streams[r] \in StreamType
  BY DEF SliceType, Working
<1>1. GarbageCollectLocalState(s, r, x, slice) = z
  BY DEF GarbageCollectLocalState
<1>2. Collected(x, y, r, i)
  BY <1>0, DiscardEffect
<1>3. y \in Working
  BY <1>2 DEF Collected
<1>4. rejected \in Seq(MessageType)
  BY <1>0, RejectedMessagesType
<1> HIDE DEF y, rejected, i
<1>5. z \in Working /\ \A q \in Subnets : OnlyPushed(y.streams[q], z.streams[q])
  BY <1>3, <1>4, RerouteEffect
<1> HIDE DEF z
<1>6. Collected(x, z, r, i)
  BY <1>0, <1>2, <1>3, <1>5, CollectedThenPushed
<1> QED BY <1>1, <1>6 DEF i

-----------------------------------------------------------------------------
(* A whole block. *)

\* The streams of y begin where b says and have signals up to e; none is shorter
\* than in x.
Moved(x, y, b, e) ==
  /\ y \in Working
  /\ \A q \in Subnets : /\ y.streams[q].begin = b[q]
                        /\ y.streams[q].signals_end = e[q]
                        /\ MessagesEnd(x.streams[q]) <= MessagesEnd(y.streams[q])

Begins(x) == [q \in Subnets |-> x.streams[q].begin]
SignalsEnds(x) == [q \in Subnets |-> x.streams[q].signals_end]

LEMMA WorkingStreams ==
  ASSUME NEW x \in Working, NEW q \in Subnets
  PROVE  /\ x.streams[q] \in StreamType
         /\ x.streams[q].begin \in Nat /\ x.streams[q].signals_end \in Nat
         /\ MessagesEnd(x.streams[q]) \in Nat
BY StreamFields DEF Working

LEMMA MovedNothing ==
  ASSUME NEW x \in Working PROVE Moved(x, x, Begins(x), SignalsEnds(x))
BY WorkingStreams DEF Moved, Begins, SignalsEnds

LEMMA MovedTransitive ==
  ASSUME NEW x \in Working, NEW y, NEW z, NEW b, NEW e, NEW c, NEW f,
         Moved(x, y, b, e), Moved(y, z, c, f)
  PROVE  Moved(x, z, c, f)
<1>1. y \in Working /\ z \in Working
  BY DEF Moved
<1>2. \A q \in Subnets : MessagesEnd(x.streams[q]) <= MessagesEnd(z.streams[q])
  <2> TAKE q \in Subnets
  <2>1. /\ MessagesEnd(x.streams[q]) \in Nat /\ MessagesEnd(y.streams[q]) \in Nat
        /\ MessagesEnd(z.streams[q]) \in Nat
    BY <1>1, WorkingStreams
  <2>2. /\ MessagesEnd(x.streams[q]) <= MessagesEnd(y.streams[q])
        /\ MessagesEnd(y.streams[q]) <= MessagesEnd(z.streams[q])
    BY DEF Moved
  <2> QED BY <2>1, <2>2
<1> QED BY <1>2 DEF Moved

\* The loopback stream is at rest: all its messages are inducted.
LEMMA LoopbackEffect ==
  ASSUME NEW s \in Subnets, NEW full, NEW x \in Working,
         x.streams[s].begin = x.streams[s].signals_end
  PROVE  LET end == MessagesEnd(x.streams[s])
         IN  Moved(x, InductLoopbackStream(s, full, x),
                   [Begins(x) EXCEPT ![s] = end], [SignalsEnds(x) EXCEPT ![s] = end])
<1> DEFINE end == MessagesEnd(x.streams[s])
           b == [Begins(x) EXCEPT ![s] = end]
           e == [SignalsEnds(x) EXCEPT ![s] = end]
           msgs == x.streams[s].messages
<1>0. /\ x.streams[s] \in StreamType /\ msgs \in Seq(MessageType) /\ Len(msgs) \in Nat
      /\ end \in Nat
      /\ x.streams[s].begin \in Nat /\ end = x.streams[s].begin + Len(msgs)
  BY WorkingStreams, StreamFields DEF MessagesEnd
<1>1. /\ b[s] = end /\ e[s] = end
      /\ \A q \in Subnets \ {s} : b[q] = x.streams[q].begin /\ e[q] = x.streams[q].signals_end
  BY DEF Begins, SignalsEnds
<1> HIDE DEF b, e
<1>2. CASE msgs = <<>>
  <2>1. InductLoopbackStream(s, full, x) = x
    BY <1>2 DEF InductLoopbackStream
  <2>2. end = x.streams[s].begin
    BY <1>0, <1>2
  <2>3. Moved(x, x, b, e)
    <3> SUFFICES ASSUME NEW q \in Subnets
                 PROVE  /\ x.streams[q].begin = b[q]
                        /\ x.streams[q].signals_end = e[q]
                        /\ MessagesEnd(x.streams[q]) <= MessagesEnd(x.streams[q])
      BY DEF Moved
    <3>1. MessagesEnd(x.streams[q]) \in Nat
      BY WorkingStreams
    <3> HIDE DEF end
    <3> QED BY <1>1, <2>2, <3>1
  <2> QED BY <2>1, <2>3 DEF b, e
<1>3. CASE msgs # <<>>
  <2> DEFINE y == InductMessages(s, s, full, x, msgs)
             loop == y.streams[s]
             i == loop.signals_end
             z == [y EXCEPT !.streams[s] = DiscardSignalsBefore(DiscardMessagesBefore(@, i), i)]
             rejected == RejectedMessages(loop, i, loop.reject_signals)
             w == RerouteRejectedMessages(s, z, rejected)
  <2>1. InductLoopbackStream(s, full, x) = w
    BY <1>3 DEF InductLoopbackStream
  <2>2. Inducted(x, y, s, Len(msgs))
    BY <1>0, InductMessagesEffect
  <2> HIDE DEF y
  <2>3. y \in Working /\ loop \in StreamType
    BY <2>2, WorkingStreams DEF Inducted
  <2>4. i = end /\ i \in Nat /\ y.streams[s].signals_end = end
    BY <1>0, <2>2 DEF Inducted
  <2>5. loop.begin = x.streams[s].begin /\ end <= MessagesEnd(loop)
    <3>1. loop.begin = x.streams[s].begin /\ Len(msgs) <= Len(loop.messages)
      BY <2>2 DEF Inducted, Longer
    <3>2. Len(loop.messages) \in Nat
      BY <2>3, StreamFields
    <3>3. MessagesEnd(loop) = loop.begin + Len(loop.messages)
      BY DEF MessagesEnd
    <3>4. end = loop.begin + Len(msgs) /\ loop.begin \in Nat
      BY <1>0, <3>1
    <3> HIDE DEF end, msgs, loop
    <3>5. end <= MessagesEnd(loop)
      BY <1>0, <3>1, <3>2, <3>3, <3>4
    <3> QED BY <3>1, <3>5
  <2>6. loop.begin <= i /\ i <= MessagesEnd(loop)
    BY <1>0, <2>4, <2>5
  <2>7. rejected \in Seq(MessageType)
    BY <2>3, <2>4, <2>6, RejectedMessagesType, StreamFields
  <2>8. Collected(y, z, s, i)
    BY <2>3, <2>4, <2>6, DiscardEffect
  <2>9. z \in Working
    BY <2>8 DEF Collected
  <2> HIDE DEF z, rejected
  <2>10. w \in Working /\ \A q \in Subnets : OnlyPushed(z.streams[q], w.streams[q])
    BY <2>7, <2>9, RerouteEffect
  <2> HIDE DEF w, i
  <2>11. Collected(y, w, s, i)
    BY <2>3, <2>4, <2>8, <2>10, CollectedThenPushed
  <2>12. Moved(x, w, b, e)
    <3> SUFFICES ASSUME NEW q \in Subnets
                 PROVE  /\ w.streams[q].begin = b[q]
                        /\ w.streams[q].signals_end = e[q]
                        /\ MessagesEnd(x.streams[q]) <= MessagesEnd(w.streams[q])
      BY <2>10 DEF Moved
    <3>1. /\ w.streams[q].begin = IF q = s THEN i ELSE y.streams[q].begin
          /\ w.streams[q].signals_end = y.streams[q].signals_end
          /\ MessagesEnd(y.streams[q]) <= MessagesEnd(w.streams[q])
      BY <2>11 DEF Collected
    <3>2. CASE q = s
      <4>1. MessagesEnd(loop) \in Nat /\ MessagesEnd(w.streams[s]) \in Nat
        BY <2>3, <2>10, WorkingStreams
      <4>2. end <= MessagesEnd(w.streams[s])
        <5> HIDE DEF end
        <5> QED BY <1>0, <2>5, <3>1, <3>2, <4>1
      <4>3. w.streams[s].begin = end /\ w.streams[s].signals_end = end
        <5> HIDE DEF end
        <5> QED BY <2>4, <3>1, <3>2
      <4>4. /\ w.streams[s].begin = b[s] /\ w.streams[s].signals_end = e[s]
            /\ MessagesEnd(x.streams[s]) <= MessagesEnd(w.streams[s])
        BY <1>1, <4>2, <4>3
      <4> QED BY <3>2, <4>4
    <3>3. CASE q # s
      <4>1. y.streams[q] = x.streams[q]
        BY <2>2, <3>3 DEF Inducted
      <4> QED BY <1>1, <3>1, <3>3, <4>1
    <3> QED BY <3>2, <3>3
  <2> QED BY <2>1, <2>12 DEF b, e
<1> QED BY <1>2, <1>3

\* SetToSeq visits every element once.
LEMMA EachVisitedOnce ==
  ASSUME NEW S, IsFiniteSet(S)
  PROVE  LET q == SetToSeq(S)
         IN  /\ Len(q) \in Nat
             /\ \A i \in 1 .. Len(q) : q[i] \in S
             /\ \A i, j \in 1 .. Len(q) : q[i] = q[j] => i = j
             /\ \A t \in S : \E i \in 1 .. Len(q) : q[i] = t
<1> DEFINE n == Cardinality(S)
           q == SetToSeq(S)
<1>1. n \in Nat /\ ExistsBijection(1 .. n, S)
  BY FS_CardinalityType
<1>2. \E f \in [1 .. n -> S] : IsInjective(f)
  BY <1>1 DEF ExistsBijection, Bijection, Injection
<1>3. q \in [1 .. n -> S] /\ IsInjective(q)
  BY <1>2 DEF SetToSeq
<1> HIDE DEF q
<1>4. Len(q) = n
  BY <1>1, <1>3
<1>5. q \in Surjection(1 .. n, S)
  <2>1. q \in Injection(1 .. n, S)
    BY <1>3 DEF Injection
  <2>2. Cardinality(1 .. n) = n
    <3> HIDE DEF n
    <3> QED BY <1>1, FS_Interval
  <2> QED BY <2>1, <2>2, FS_Injection
<1>6. \A t \in S : \E i \in 1 .. n : q[i] = t
  BY <1>5 DEF Surjection
<1>7. \A i, j \in 1 .. n : q[i] = q[j] => i = j
  BY <1>3 DEF IsInjective
<1> HIDE DEF n
<1> QED BY <1>1, <1>3, <1>4, <1>6, <1>7 DEF q

\* The slices of a payload are fit for the streams of x.
SlicesFit(x, payload) ==
  /\ Sources(payload) \subseteq Subnets
  /\ \A q \in Sources(payload) :
       /\ payload[q] \in SliceType
       /\ x.streams[q].begin <= payload[q].signals_end
       /\ payload[q].signals_end <= MessagesEnd(x.streams[q])

\* Where the streams begin after the collection of V.
BeginsAfter(x, payload, V) ==
  [q \in Subnets |-> IF q \in V THEN payload[q].signals_end ELSE x.streams[q].begin]

SignalsAfter(x, payload, V) ==
  [q \in Subnets |-> x.streams[q].signals_end + IF q \in V THEN Len(payload[q].messages) ELSE 0]

LEMMA CollectStreamsEffect ==
  ASSUME NEW s \in Subnets, NEW x \in Working, NEW payload, SlicesFit(x, payload)
  PROVE  Moved(x, GarbageCollectStreams(s, payload, x),
               BeginsAfter(x, payload, Sources(payload)), SignalsEnds(x))
<1> DEFINE S == Sources(payload)
           src == SetToSeq(S)
           n == Len(src)
           V(i) == {src[j] : j \in 1 .. i}
           Good(y, i) == Moved(x, y, BeginsAfter(x, payload, V(i)), SignalsEnds(x))
<1>0. S \subseteq Subnets /\ IsFiniteSet(S)
  BY XNetAssumption, FS_Subset DEF SlicesFit
<1>1. /\ n \in Nat
      /\ \A i \in 1 .. n : src[i] \in S
      /\ \A i, j \in 1 .. n : src[i] = src[j] => i = j
      /\ \A t \in S : \E i \in 1 .. n : src[i] = t
  BY <1>0, EachVisitedOnce
<1>2. PICK run : /\ run[0] = x
                 /\ run[n] = GarbageCollectStreams(s, payload, x)
                 /\ \A i \in 1 .. n : run[i] = GarbageCollectLocalState(s, src[i], run[i - 1],
                                                                      payload[src[i]])
  BY <1>1, CollectRun
<1> HIDE DEF S, src
<1> DEFINE P == {i \in Nat : i <= n => Good(run[i], i)}
<1>3. 0 \in P
  <2>1. BeginsAfter(x, payload, V(0)) = Begins(x)
    BY DEF BeginsAfter, Begins
  <2> QED BY <1>2, <2>1, MovedNothing
<1>4. ASSUME NEW i \in Nat, i \in P, i + 1 <= n PROVE Good(run[i + 1], i + 1)
  <2> DEFINE a == run[i]
             b == run[i + 1]
             r == src[i + 1]
             slice == payload[r]
             U == V(i)
  <2>1. i \in Nat /\ i + 1 \in 1 .. n /\ (i + 1) - 1 = i
    BY <1>1, <1>4
  <2>2. Good(a, i) /\ b = GarbageCollectLocalState(s, r, a, slice) /\ r \in S
    <3>1. i <= n
      BY <1>1, <1>4
    <3> QED BY <1>1, <1>2, <1>4, <2>1, <3>1
  <2>3. r \notin U
    <3>1. \A j \in 1 .. i : j \in 1 .. n /\ j # i + 1
      BY <1>1, <1>4
    <3> QED BY <1>1, <2>1, <3>1
  <2>4. V(i + 1) = U \cup {r}
    <3>1. 1 .. (i + 1) = (1 .. i) \cup {i + 1}
      BY <1>4
    <3> QED BY <3>1
  <2> HIDE DEF a, b, r, U, V
  <2>5. /\ slice \in SliceType /\ r \in Subnets
        /\ x.streams[r].begin <= slice.signals_end
        /\ slice.signals_end <= MessagesEnd(x.streams[r])
    BY <1>0, <2>2 DEF SlicesFit, S
  <2> HIDE DEF slice
  <2>6. /\ a \in Working
        /\ a.streams[r].begin = x.streams[r].begin
        /\ MessagesEnd(x.streams[r]) <= MessagesEnd(a.streams[r])
    BY <2>2, <2>3, <2>5 DEF Moved, BeginsAfter, U
  <2>7. slice.signals_end <= MessagesEnd(a.streams[r])
    <3>1. slice.signals_end \in Nat
      BY <2>5 DEF SliceType
    <3>2. MessagesEnd(x.streams[r]) \in Nat /\ MessagesEnd(a.streams[r]) \in Nat
      BY <2>5, <2>6, WorkingStreams
    <3> QED BY <2>5, <2>6, <3>1, <3>2
  <2>8. Collected(a, b, r, slice.signals_end)
    BY <2>2, <2>5, <2>6, <2>7, CollectEffect
  <2>9. Moved(a, b, BeginsAfter(x, payload, U \cup {r}), SignalsEnds(x))
    <3> SUFFICES ASSUME NEW q \in Subnets
                 PROVE  /\ b.streams[q].begin = BeginsAfter(x, payload, U \cup {r})[q]
                        /\ b.streams[q].signals_end = SignalsEnds(x)[q]
                        /\ MessagesEnd(a.streams[q]) <= MessagesEnd(b.streams[q])
      BY <2>8 DEF Moved, Collected
    <3>1. /\ b.streams[q].begin = IF q = r THEN slice.signals_end ELSE a.streams[q].begin
          /\ b.streams[q].signals_end = a.streams[q].signals_end
          /\ MessagesEnd(a.streams[q]) <= MessagesEnd(b.streams[q])
      BY <2>8 DEF Collected
    <3>2. /\ a.streams[q].begin = BeginsAfter(x, payload, U)[q]
          /\ a.streams[q].signals_end = SignalsEnds(x)[q]
      BY <2>2 DEF Moved, U
    <3>3. BeginsAfter(x, payload, U \cup {r})[q]
            = IF q = r THEN slice.signals_end ELSE BeginsAfter(x, payload, U)[q]
      BY DEF BeginsAfter, slice
    <3> QED BY <3>1, <3>2, <3>3
  <2>10. Moved(x, b, BeginsAfter(x, payload, U \cup {r}), SignalsEnds(x))
    BY <2>2, <2>9, MovedTransitive
  <2> QED BY <2>4, <2>10 DEF b
<1>5. n \in P
  <2>1. \A i \in Nat : i \in P => i + 1 \in P
    <3> HIDE DEF Good, n
    <3> QED BY <1>4
  <2> HIDE DEF P
  <2> QED BY <1>1, <1>3, <2>1, NatSetInduction
<1>6. V(n) = S
  BY <1>1
<1>7. Good(run[n], n)
  <2> HIDE DEF Good
  <2> QED BY <1>1, <1>5
<1> QED BY <1>2, <1>6, <1>7 DEF S

LEMMA InductSlicesEffect ==
  ASSUME NEW s \in Subnets, NEW full, NEW x \in Working, NEW payload,
         Sources(payload) \subseteq Subnets,
         \A q \in Sources(payload) : payload[q] \in SliceType
  PROVE  Moved(x, InductStreamSlices(s, payload, full, x),
               Begins(x), SignalsAfter(x, payload, Sources(payload)))
<1> DEFINE S == Sources(payload)
           src == SetToSeq(S)
           n == Len(src)
           V(i) == {src[j] : j \in 1 .. i}
           Good(y, i) == Moved(x, y, Begins(x), SignalsAfter(x, payload, V(i)))
<1>0. S \subseteq Subnets /\ IsFiniteSet(S)
  BY XNetAssumption, FS_Subset
<1>1. /\ n \in Nat
      /\ \A i \in 1 .. n : src[i] \in S
      /\ \A i, j \in 1 .. n : src[i] = src[j] => i = j
      /\ \A t \in S : \E i \in 1 .. n : src[i] = t
  BY <1>0, EachVisitedOnce
<1>2. PICK run : /\ run[0] = x
                 /\ run[n] = InductStreamSlices(s, payload, full, x)
                 /\ \A i \in 1 .. n : run[i] = InductMessages(s, src[i], full, run[i - 1],
                                                            payload[src[i]].messages)
  BY <1>1, SlicesRun
<1>20. \A q \in S : payload[q] \in SliceType
  OBVIOUS
<1> HIDE DEF S, src
<1> DEFINE P == {i \in Nat : i <= n => Good(run[i], i)}
<1>3. 0 \in P
  <2>1. SignalsAfter(x, payload, V(0)) = SignalsEnds(x)
    BY WorkingStreams DEF SignalsAfter, SignalsEnds
  <2> QED BY <1>2, <2>1, MovedNothing
<1>4. ASSUME NEW i \in Nat, i \in P, i + 1 <= n PROVE Good(run[i + 1], i + 1)
  <2> DEFINE a == run[i]
             b == run[i + 1]
             r == src[i + 1]
             msgs == payload[r].messages
             U == V(i)
  <2>1. i \in Nat /\ i + 1 \in 1 .. n /\ (i + 1) - 1 = i
    BY <1>1, <1>4
  <2>2. Good(a, i) /\ b = InductMessages(s, r, full, a, msgs) /\ r \in S
    <3>1. i <= n
      BY <1>1, <1>4
    <3> QED BY <1>1, <1>2, <1>4, <2>1, <3>1
  <2>3. r \notin U
    <3>1. \A j \in 1 .. i : j \in 1 .. n /\ j # i + 1
      BY <1>1, <1>4
    <3> QED BY <1>1, <2>1, <3>1
  <2>4. V(i + 1) = U \cup {r}
    <3>1. 1 .. (i + 1) = (1 .. i) \cup {i + 1}
      BY <1>4
    <3> QED BY <3>1
  <2> HIDE DEF a, b, r, U, V
  <2>5. msgs \in Seq(MessageType) /\ Len(msgs) \in Nat /\ r \in Subnets
    BY <1>0, <1>20, <2>2 DEF SliceType
  <2> HIDE DEF msgs
  <2>6. a \in Working
    BY <2>2 DEF Moved
  <2>7. Inducted(a, b, r, Len(msgs))
    BY <2>2, <2>5, <2>6, InductMessagesEffect
  <2>8. Moved(a, b, Begins(x), SignalsAfter(x, payload, U \cup {r}))
    <3>1. b \in Working
      BY <2>7 DEF Inducted
    <3> SUFFICES ASSUME NEW q \in Subnets
                 PROVE  /\ b.streams[q].begin = Begins(x)[q]
                        /\ b.streams[q].signals_end = SignalsAfter(x, payload, U \cup {r})[q]
                        /\ MessagesEnd(a.streams[q]) <= MessagesEnd(b.streams[q])
      BY <3>1 DEF Moved
    <3>2. /\ a.streams[q].begin = Begins(x)[q]
          /\ a.streams[q].signals_end = SignalsAfter(x, payload, U)[q]
      BY <2>2 DEF Moved, U
    <3>3. MessagesEnd(a.streams[q]) \in Nat /\ a.streams[q] \in StreamType
          /\ b.streams[q] \in StreamType /\ x.streams[q].signals_end \in Nat
      BY <2>6, <3>1, WorkingStreams
    <3>4. CASE q = r
      <4>1. b.streams[r].begin = a.streams[r].begin
            /\ Len(a.streams[r].messages) <= Len(b.streams[r].messages)
            /\ b.streams[r].signals_end = a.streams[r].signals_end + Len(msgs)
        BY <2>7 DEF Inducted, Longer
      <4>2. MessagesEnd(a.streams[r]) <= MessagesEnd(b.streams[r])
        <5> DEFINE c == a.streams[r]
                   d == b.streams[r]
        <5>1. /\ c \in StreamType /\ d \in StreamType
              /\ d.begin = c.begin /\ Len(c.messages) <= Len(d.messages)
          BY <3>3, <3>4, <4>1
        <5> HIDE DEF c, d
        <5>2. MessagesEnd(c) <= MessagesEnd(d)
          BY <5>1, StreamFields DEF MessagesEnd
        <5> QED BY <5>2 DEF c, d
      <4>3. a.streams[r].signals_end = x.streams[r].signals_end
        BY <2>3, <2>5, <3>2, <3>3, <3>4 DEF SignalsAfter
      <4>4. SignalsAfter(x, payload, U \cup {r})[r] = x.streams[r].signals_end + Len(msgs)
        BY <2>5 DEF SignalsAfter, msgs
      <4> QED BY <3>2, <3>4, <4>1, <4>2, <4>3, <4>4
    <3>5. CASE q # r
      <4>1. b.streams[q] = a.streams[q]
        BY <2>7, <3>5 DEF Inducted
      <4>2. SignalsAfter(x, payload, U \cup {r})[q] = SignalsAfter(x, payload, U)[q]
        BY <3>5 DEF SignalsAfter
      <4>3. MessagesEnd(a.streams[q]) <= MessagesEnd(b.streams[q])
        BY <3>3, <4>1
      <4> QED BY <3>2, <4>1, <4>2, <4>3
    <3> QED BY <3>4, <3>5
  <2>9. Moved(x, b, Begins(x), SignalsAfter(x, payload, U \cup {r}))
    BY <2>2, <2>8, MovedTransitive
  <2> QED BY <2>4, <2>9 DEF b
<1>5. n \in P
  <2>1. \A i \in Nat : i \in P => i + 1 \in P
    <3> HIDE DEF Good, n
    <3> QED BY <1>4
  <2> HIDE DEF P
  <2> QED BY <1>1, <1>3, <2>1, NatSetInduction
<1>6. V(n) = S
  BY <1>1
<1>7. Good(run[n], n)
  <2> HIDE DEF Good
  <2> QED BY <1>1, <1>5
<1> QED BY <1>2, <1>6, <1>7 DEF S

\* A block is executed.  The loopback stream is emptied; every other stream begins
\* at the signals of its slice, and has a signal for each message of the slice.
LEMMA ProcessEffect ==
  ASSUME NEW s \in Subnets, NEW full, NEW x \in Working, NEW payload,
         SlicesFit(x, payload), s \notin Sources(payload),
         x.streams[s].begin = x.streams[s].signals_end
  PROVE  LET y == ProcessStreamSlices(s, payload, full, x)
             end == MessagesEnd(x.streams[s])
         IN  Moved(x, y, [BeginsAfter(x, payload, Sources(payload)) EXCEPT ![s] = end],
                   [SignalsAfter(x, payload, Sources(payload)) EXCEPT ![s] = end])
<1> DEFINE S == Sources(payload)
           end == MessagesEnd(x.streams[s])
           x1 == InductLoopbackStream(s, full, x)
           x2 == GarbageCollectStreams(s, payload, x1)
           x3 == InductStreamSlices(s, payload, full, x2)
           b1 == [Begins(x) EXCEPT ![s] = end]
           e1 == [SignalsEnds(x) EXCEPT ![s] = end]
           b2 == [BeginsAfter(x, payload, S) EXCEPT ![s] = end]
           e3 == [SignalsAfter(x, payload, S) EXCEPT ![s] = end]
<1>0. S \subseteq Subnets /\ s \notin S /\ \A q \in S : payload[q] \in SliceType
  BY DEF SlicesFit
<1>1. ProcessStreamSlices(s, payload, full, x) = x3
  BY DEF ProcessStreamSlices
<1>2. Moved(x, x1, b1, e1)
  BY LoopbackEffect
<1> HIDE DEF x1
<1>3. x1 \in Working
  BY <1>2 DEF Moved
<1>4. SlicesFit(x1, payload)
  <2> SUFFICES ASSUME NEW q \in S
               PROVE  /\ x1.streams[q].begin <= payload[q].signals_end
                      /\ payload[q].signals_end <= MessagesEnd(x1.streams[q])
    BY <1>0 DEF SlicesFit
  <2>1. q \in Subnets /\ q # s
    BY <1>0
  <2>2. x1.streams[q].begin = x.streams[q].begin
        /\ MessagesEnd(x.streams[q]) <= MessagesEnd(x1.streams[q])
    BY <1>2, <2>1 DEF Moved, Begins
  <2>3. /\ x.streams[q].begin <= payload[q].signals_end
        /\ payload[q].signals_end <= MessagesEnd(x.streams[q])
        /\ payload[q].signals_end \in Nat
    BY <1>0 DEF SlicesFit, SliceType
  <2>4. MessagesEnd(x.streams[q]) \in Nat /\ MessagesEnd(x1.streams[q]) \in Nat
    BY <1>3, <2>1, WorkingStreams
  <2> QED BY <2>2, <2>3, <2>4
<1>5. Moved(x1, x2, BeginsAfter(x1, payload, S), SignalsEnds(x1))
  BY <1>3, <1>4, CollectStreamsEffect
<1> HIDE DEF x2
<1>6. x2 \in Working
  BY <1>5 DEF Moved
<1>7. Moved(x2, x3, Begins(x2), SignalsAfter(x2, payload, S))
  BY <1>0, <1>6, InductSlicesEffect
<1> HIDE DEF x3
<1>8. Begins(x2) = b2
  <2>1. \A q \in Subnets : x1.streams[q].begin = b1[q]
    BY <1>2 DEF Moved
  <2>2. \A q \in Subnets : x2.streams[q].begin = IF q \in S THEN payload[q].signals_end ELSE b1[q]
    BY <1>5, <2>1 DEF Moved, BeginsAfter
  <2> HIDE DEF end, S
  <2>3. \A q \in Subnets : b2[q] = IF q \in S THEN payload[q].signals_end ELSE b1[q]
    BY <1>0 DEF BeginsAfter, Begins
  <2>4. b2 = [q \in Subnets |-> b2[q]]
    BY DEF BeginsAfter
  <2>5. \A q \in Subnets : Begins(x2)[q] = b2[q]
    <3> HIDE DEF b1, b2
    <3> QED BY <2>2, <2>3 DEF Begins
  <2> HIDE DEF b2
  <2> QED BY <2>4, <2>5 DEF Begins
<1>9. SignalsAfter(x2, payload, S) = e3
  <2>1. \A q \in Subnets : x2.streams[q].signals_end = e1[q]
    BY <1>2, <1>5 DEF Moved, SignalsEnds
  <2> DEFINE d == [q \in Subnets |-> IF q \in S THEN Len(payload[q].messages) ELSE 0]
  <2>2. end \in Nat
    BY WorkingStreams
  <2> HIDE DEF end, S
  <2>3. \A q \in Subnets : SignalsAfter(x2, payload, S)[q] = e1[q] + d[q]
    BY <2>1 DEF SignalsAfter
  <2>4. \A q \in Subnets : e3[q] = e1[q] + d[q]
    <3> TAKE q \in Subnets
    <3>1. CASE q = s
      BY <1>0, <2>2, <3>1 DEF SignalsAfter, SignalsEnds
    <3>2. CASE q # s
      BY <3>2 DEF SignalsAfter, SignalsEnds
    <3> QED BY <3>1, <3>2
  <2>5. e3 = [q \in Subnets |-> e3[q]]
    BY DEF SignalsAfter
  <2>6. SignalsAfter(x2, payload, S) = [q \in Subnets |-> SignalsAfter(x2, payload, S)[q]]
    BY DEF SignalsAfter
  <2> HIDE DEF e3, e1, d
  <2> QED BY <2>3, <2>4, <2>5, <2>6
<1>10. Moved(x, x2, b2, SignalsEnds(x1))
  <2>1. Moved(x, x2, BeginsAfter(x1, payload, S), SignalsEnds(x1))
    BY <1>2, <1>5, MovedTransitive
  <2>2. \A q \in Subnets : BeginsAfter(x1, payload, S)[q] = b2[q]
    BY <1>5, <1>8 DEF Moved, Begins
  <2> QED BY <2>1, <2>2 DEF Moved
<1>11. Moved(x, x3, b2, e3)
  BY <1>7, <1>8, <1>9, <1>10, MovedTransitive
<1> QED BY <1>1, <1>11

-----------------------------------------------------------------------------
(* The invariant. *)

\* A slice that was validated when m was the next message and g the next signal
\* expected; m1 and g1 are expected after it.
Accepted(slice, m, g, m1, g1) ==
  IF slice = None THEN m1 = m /\ g1 = g
  ELSE /\ slice \in SliceType
       /\ ValidSignals(slice.signals_end, slice.reject_signals)
       /\ slice.begin <= m /\ m <= slice.end /\ slice.end <= MaxIndex
       /\ g <= slice.signals_end
       /\ g1 = slice.signals_end
       /\ m1 = IF slice.messages = <<>> THEN m ELSE SliceMessagesEnd(slice)
       /\ slice.messages # <<>> => slice.messages_begin = m /\ m1 <= slice.end

\* m and g are what is expected from r after each of the payloads that follow the
\* certified state of s; executing them leads from that state to the latest one.
Chained(s, r, m, g) ==
  LET n == Len(payloads[s])
  IN  /\ m \in [0 .. n -> Nat] /\ g \in [0 .. n -> Nat]
      /\ m[0] = certified[s][r].signals_end
      /\ g[0] = certified[s][r].begin
      /\ \A i \in 1 .. n : Accepted(payloads[s][i][r], m[i - 1], g[i - 1], m[i], g[i])
      /\ \A i, j \in 0 .. n : i <= j => g[i] <= g[j]
      /\ \A i \in 0 .. n : g[i] <= MessagesEnd(certified[s][r])
      /\ streams[s][r].signals_end = m[executed[s]]
      /\ streams[s][r].begin = g[executed[s]]

Payloads(s) == [Others(s) -> {None} \cup SliceType]

TypeInv ==
  /\ streams \in [Subnets -> [Subnets -> StreamType]]
  /\ certified \in [Subnets -> [Subnets -> StreamType]]
  /\ pool \in [Subnets -> [Nodes -> [Subnets -> StreamType]]]
  /\ payloads \in [Subnets -> Seq(UNION {Payloads(s) : s \in Subnets})]
  /\ \A s \in Subnets : payloads[s] \in Seq(Payloads(s))
  /\ executed \in [Subnets -> Nat]
  /\ registry \in [Subnets -> 0 .. 1]
  /\ at \in [Canisters -> Subnets \cup {None}]
  /\ call \in [Calls -> CallStates]
  /\ callback \in [Calls -> Nat]
  /\ next_callback_id \in [Canisters -> Nat]
  /\ work \in [Calls -> {"none", "held", "answered"}]
  /\ lost \subseteq MessageType

Bounded(st) == MessagesEnd(st) <= MaxIndex /\ st.signals_end <= MaxIndex

InBounds ==
  /\ \A s, r \in Subnets : Bounded(streams[s][r]) /\ Bounded(certified[s][r])
  /\ \A s, r \in Subnets : \A n \in Nodes : Bounded(pool[s][n][r])

Inv ==
  /\ TypeInv
  /\ InBounds
  /\ \A s \in Subnets : executed[s] <= Len(payloads[s])
  /\ \A s \in Subnets : streams[s][s].begin = streams[s][s].signals_end
  /\ \A s, r \in Subnets : MessagesEnd(certified[s][r]) <= MessagesEnd(streams[s][r])
  /\ \A s \in Subnets : \A r \in Others(s) : \E m, g : Chained(s, r, m, g)

LEMMA InvTypes == Inv => TypeOK
<1> SUFFICES ASSUME Inv PROVE TypeOK
  OBVIOUS
<1>1. ASSUME NEW st \in StreamType, Bounded(st) PROVE StreamOk(st)
  <2>1. MaxIndex \in Nat
    BY XNetAssumption
  <2>2. st.begin \in 0 .. MaxIndex /\ st.signals_end \in 0 .. MaxIndex
    BY <1>1, <2>1, StreamFields DEF Bounded
  <2>3. st.reject_signals \subseteq 0 .. (MaxIndex - 1)
    <3> SUFFICES ASSUME NEW i \in st.reject_signals PROVE i \in 0 .. (MaxIndex - 1)
      OBVIOUS
    <3>1. i \in Nat /\ i < st.signals_end /\ st.signals_end \in Nat
      BY StreamFields
    <3> QED BY <2>1, <2>2, <3>1
  <2> QED BY <2>2, <2>3, StreamFields DEF StreamOk, ValidSignals
<1>2. \A s, r \in Subnets : StreamOk(streams[s][r]) /\ StreamOk(certified[s][r])
  BY <1>1 DEF Inv, TypeInv, InBounds
<1>3. \A s \in Subnets : executed[s] \in 0 .. Len(payloads[s])
  <2> TAKE s \in Subnets
  <2>1. executed[s] \in Nat /\ Len(payloads[s]) \in Nat /\ executed[s] <= Len(payloads[s])
    BY DEF Inv, TypeInv
  <2> QED BY <2>1
<1> QED BY <1>2, <1>3 DEF Inv, TypeInv, TypeOK

\* What is expected last is what was expected after the last change.
LEMMA LastChange ==
  ASSUME NEW n \in Nat, NEW k \in 0 .. n, NEW m, \A i \in (k + 1) .. n : m[i] = m[i - 1]
  PROVE  m[n] = m[k]
<1> DEFINE P == {j \in Nat : k + j <= n => m[k + j] = m[k]}
<1>1. 0 \in P
  OBVIOUS
<1>2. \A j \in Nat : j \in P => j + 1 \in P
  <2> SUFFICES ASSUME NEW j \in Nat, j \in P, k + (j + 1) <= n PROVE m[k + (j + 1)] = m[k]
    OBVIOUS
  <2>1. m[k + j] = m[k]
    OBVIOUS
  <2>2. k + (j + 1) \in (k + 1) .. n /\ (k + (j + 1)) - 1 = k + j
    OBVIOUS
  <2> QED BY <2>1, <2>2
<1>3. n - k \in P
  <2>1. n - k \in Nat
    OBVIOUS
  <2> HIDE DEF P
  <2> QED BY <1>1, <1>2, <2>1, NatSetInduction
<1>4. k + (n - k) = n /\ k + (n - k) <= n
  OBVIOUS
<1> QED BY <1>3, <1>4

LEMMA GreatestIndex ==
  ASSUME NEW n \in Nat, NEW S \in SUBSET (1 .. n), S # {}
  PROVE  Max(S) \in S /\ \A i \in S : i <= Max(S)
<1>1. S \in SUBSET Nat /\ IsFiniteSet(S)
  <2>1. IsFiniteSet(1 .. n)
    BY FS_Interval
  <2>2. S \in SUBSET Nat
    OBVIOUS
  <2> QED BY <2>1, <2>2, FS_Subset
<1>2. \E k \in S : \A i \in S : i <= k
  BY <1>1, FiniteMaximum
<1>3. \E k \in S : \A i \in S : k >= i
  BY <1>1, <1>2
<1>4. Max(S) \in S /\ \A i \in S : Max(S) >= i
  BY <1>3 DEF Max
<1> QED BY <1>1, <1>4

LEMMA ExpectedIndices ==
  ASSUME TypeInv, NEW s \in Subnets, NEW r \in Others(s), NEW m, NEW g, Chained(s, r, m, g)
  PROVE  /\ ExpectedMessageIndex(s, r) = m[Len(payloads[s])]
         /\ ExpectedSignalIndex(s, r) = g[Len(payloads[s])]
<1> DEFINE P == payloads[s]
           n == Len(P)
           ends == {i \in DOMAIN P : P[i][r] # None /\ P[i][r].messages # <<>>}
           slices == {i \in DOMAIN P : P[i][r] # None}
<1>0. n \in Nat /\ DOMAIN P = 1 .. n
  BY DEF TypeInv
<1>1. /\ m[0] = certified[s][r].signals_end
      /\ g[0] = certified[s][r].begin
      /\ \A i \in 1 .. n : Accepted(P[i][r], m[i - 1], g[i - 1], m[i], g[i])
  BY DEF Chained
<1>2. \A i \in 1 .. n : i \notin ends => m[i] = m[i - 1]
  BY <1>0, <1>1 DEF Accepted
<1>3. \A i \in 1 .. n : i \notin slices => g[i] = g[i - 1]
  BY <1>0, <1>1 DEF Accepted
<1>4. \A i \in ends : m[i] = SliceMessagesEnd(P[i][r])
  BY <1>0, <1>1 DEF Accepted
<1>5. \A i \in slices : g[i] = P[i][r].signals_end
  BY <1>0, <1>1 DEF Accepted
<1>6. ends \in SUBSET (1 .. n) /\ slices \in SUBSET (1 .. n)
  BY <1>0
<1>7. ExpectedMessageIndex(s, r) = IF ends = {} THEN certified[s][r].signals_end
                                   ELSE SliceMessagesEnd(P[Max(ends)][r])
  BY DEF ExpectedMessageIndex
<1>8. ExpectedSignalIndex(s, r) = IF slices = {} THEN certified[s][r].begin
                                  ELSE P[Max(slices)][r].signals_end
  BY DEF ExpectedSignalIndex
<1> HIDE DEF P, n, ends, slices
<1>9. ExpectedMessageIndex(s, r) = m[n]
  <2>1. CASE ends = {}
    <3>1. 0 \in 0 .. n /\ \A i \in (0 + 1) .. n : m[i] = m[i - 1]
      BY <1>0, <1>2, <2>1
    <3>2. m[n] = m[0]
      BY <1>0, <3>1, LastChange
    <3> QED BY <1>1, <1>7, <2>1, <3>2
  <2>2. CASE ends # {}
    <3> DEFINE k == Max(ends)
    <3>1. k \in ends /\ \A i \in ends : i <= k
      BY <1>0, <1>6, <2>2, GreatestIndex
    <3> HIDE DEF k
    <3>2. k \in 0 .. n /\ \A i \in (k + 1) .. n : i \in 1 .. n /\ i \notin ends
      BY <1>0, <1>6, <3>1
    <3>3. m[n] = m[k]
      BY <1>0, <1>2, <3>2, LastChange
    <3> QED BY <1>4, <1>7, <2>2, <3>1, <3>3 DEF k
  <2> QED BY <2>1, <2>2
<1>10. ExpectedSignalIndex(s, r) = g[n]
  <2>1. CASE slices = {}
    <3>1. 0 \in 0 .. n /\ \A i \in (0 + 1) .. n : g[i] = g[i - 1]
      BY <1>0, <1>3, <2>1
    <3>2. g[n] = g[0]
      BY <1>0, <3>1, LastChange
    <3> QED BY <1>1, <1>8, <2>1, <3>2
  <2>2. CASE slices # {}
    <3> DEFINE k == Max(slices)
    <3>1. k \in slices /\ \A i \in slices : i <= k
      BY <1>0, <1>6, <2>2, GreatestIndex
    <3> HIDE DEF k
    <3>2. k \in 0 .. n /\ \A i \in (k + 1) .. n : i \in 1 .. n /\ i \notin slices
      BY <1>0, <1>6, <3>1
    <3>3. g[n] = g[k]
      BY <1>0, <1>3, <3>2, LastChange
    <3> QED BY <1>5, <1>8, <2>2, <3>1, <3>3 DEF k
  <2> QED BY <2>1, <2>2
<1> QED BY <1>9, <1>10 DEF n, P

-----------------------------------------------------------------------------
(* The properties follow from the invariant. *)

LEMMA InvExpected == Inv => ExpectedSignalsInStream
<1> SUFFICES ASSUME Inv, NEW s \in Subnets, NEW r \in Others(s)
             PROVE  ValidSignalsForMessages(ExpectedSignalIndex(s, r), certified[s][r].begin,
                                            MessagesEnd(certified[s][r]))
  BY DEF ExpectedSignalsInStream
<1>1. PICK m, g : Chained(s, r, m, g)
  BY DEF Inv
<1>2. TypeInv
  BY DEF Inv
<1>3. ExpectedSignalIndex(s, r) = g[Len(payloads[s])]
  BY <1>1, <1>2, ExpectedIndices
<1>4. Len(payloads[s]) \in Nat
  BY <1>2 DEF TypeInv
<1>5. 0 \in 0 .. Len(payloads[s]) /\ Len(payloads[s]) \in 0 .. Len(payloads[s])
  BY <1>4
<1>6. /\ g[0] = certified[s][r].begin
      /\ g[0] <= g[Len(payloads[s])]
      /\ g[Len(payloads[s])] <= MessagesEnd(certified[s][r])
  BY <1>1, <1>4, <1>5 DEF Chained
<1> QED BY <1>3, <1>6 DEF ValidSignalsForMessages

\* The next slice, in terms of the stream it meets.
LEMMA NextSlice ==
  ASSUME Inv, NEW s \in Subnets, NEW r \in Others(s), executed[s] < Len(payloads[s]),
         NEW m, NEW g, Chained(s, r, m, g)
  PROVE  LET e == executed[s]
             st == streams[s][r]
         IN  /\ e \in Nat /\ e + 1 \in 1 .. Len(payloads[s])
             /\ Accepted(payloads[s][e + 1][r], st.signals_end, st.begin, m[e + 1], g[e + 1])
             /\ m[e + 1] \in Nat /\ g[e + 1] \in Nat
             /\ g[e + 1] <= MessagesEnd(certified[s][r])
             /\ MessagesEnd(certified[s][r]) <= MessagesEnd(st)
             /\ st \in StreamType /\ certified[s][r] \in StreamType
             /\ g[e + 1] <= MessagesEnd(st)
<1> DEFINE e == executed[s]
           st == streams[s][r]
           n == Len(payloads[s])
<1>0. r \in Subnets
  BY DEF Others
<1>1. e \in Nat /\ n \in Nat /\ e < n
  BY DEF Inv, TypeInv
<1>2. e + 1 \in 1 .. n /\ (e + 1) - 1 = e /\ e + 1 \in 0 .. n
  <2> HIDE DEF e, n
  <2> QED BY <1>1
<1>3. st \in StreamType /\ certified[s][r] \in StreamType
  BY <1>0 DEF Inv, TypeInv
<1>4. /\ Accepted(payloads[s][e + 1][r], m[(e + 1) - 1], g[(e + 1) - 1], m[e + 1], g[e + 1])
      /\ m[e + 1] \in Nat /\ g[e + 1] \in Nat
      /\ g[e + 1] <= MessagesEnd(certified[s][r])
      /\ st.signals_end = m[e] /\ st.begin = g[e]
  BY <1>2 DEF Chained
<1>5. MessagesEnd(certified[s][r]) <= MessagesEnd(st)
  BY <1>0 DEF Inv
<1>6. MessagesEnd(certified[s][r]) \in Nat /\ MessagesEnd(st) \in Nat
  BY <1>3, StreamFields
<1>7. g[e + 1] <= MessagesEnd(st)
  <2> HIDE DEF e, st
  <2> QED BY <1>4, <1>5, <1>6
<1>8. Accepted(payloads[s][e + 1][r], st.signals_end, st.begin, m[e + 1], g[e + 1])
  BY <1>2, <1>4
<1> QED BY <1>1, <1>2, <1>3, <1>4, <1>5, <1>7, <1>8

LEMMA InvApplicable == Inv => BlocksApplicable
<1> SUFFICES ASSUME Inv, NEW s \in Subnets, executed[s] < Len(payloads[s]),
                    NEW r \in Sources(payloads[s][executed[s] + 1])
             PROVE  SliceApplicable(s, r, payloads[s][executed[s] + 1][r])
  BY DEF BlocksApplicable
<1> DEFINE e == executed[s]
           st == streams[s][r]
           slice == payloads[s][e + 1][r]
<1>1. r \in Others(s) /\ slice # None
  <2>1. e + 1 \in 1 .. Len(payloads[s]) /\ payloads[s] \in Seq(Payloads(s))
    BY DEF Inv, TypeInv
  <2>2. payloads[s][e + 1] \in Payloads(s)
    <3> HIDE DEF e
    <3> QED BY <2>1
  <2> QED BY <2>2 DEF Payloads, Sources
<1>2. PICK m, g : Chained(s, r, m, g)
  BY <1>1 DEF Inv
<1> DEFINE m1 == m[e + 1]
           g1 == g[e + 1]
<1>3. /\ Accepted(slice, st.signals_end, st.begin, m1, g1)
      /\ st \in StreamType
      /\ m1 \in Nat /\ g1 \in Nat
      /\ g1 <= MessagesEnd(st)
  BY <1>1, <1>2, NextSlice
<1>4. SliceApplicable(s, r, slice)
        <=> /\ ValidSignals(slice.signals_end, slice.reject_signals)
            /\ ValidSignalsForMessages(slice.signals_end, st.begin, MessagesEnd(st))
            /\ ValidSignals(st.signals_end, st.reject_signals)
            /\ ValidSignalsForMessages(st.signals_end, slice.begin,
                                       IF slice.messages = <<>> THEN slice.end
                                       ELSE SliceMessagesEnd(slice))
            /\ slice.messages # <<>> => slice.messages_begin = st.signals_end
  BY DEF SliceApplicable
<1> HIDE DEF e, st, slice, m1, g1
<1>5. /\ slice \in SliceType
      /\ ValidSignals(slice.signals_end, slice.reject_signals)
      /\ slice.begin <= st.signals_end /\ st.signals_end <= slice.end
      /\ st.begin <= slice.signals_end
      /\ slice.signals_end = g1
      /\ slice.messages # <<>> => slice.messages_begin = st.signals_end
  BY <1>1, <1>3 DEF Accepted
<1>6. slice.messages # <<>> => st.signals_end <= SliceMessagesEnd(slice)
  <2>1. Len(slice.messages) \in Nat /\ slice.messages_begin \in Nat /\ st.signals_end \in Nat
    BY <1>3, <1>5, StreamFields DEF SliceType
  <2> QED BY <1>5, <2>1 DEF SliceMessagesEnd
<1>7. ValidSignals(st.signals_end, st.reject_signals)
  BY <1>3 DEF StreamType
<1>8. SliceApplicable(s, r, slice)
  BY <1>3, <1>4, <1>5, <1>6, <1>7 DEF ValidSignalsForMessages
<1> QED BY <1>8 DEF e, slice

-----------------------------------------------------------------------------
(* Every action keeps the invariant. *)

LEMMA InitInv == Init => Inv
<1> SUFFICES ASSUME Init PROVE Inv
  OBVIOUS
<1>0. MaxIndex \in Nat
  BY XNetAssumption
<1>1. /\ EmptyStream \in StreamType
      /\ EmptyStream.begin = 0 /\ EmptyStream.signals_end = 0 /\ MessagesEnd(EmptyStream) = 0
      /\ Bounded(EmptyStream)
  <2>1. <<>> \in Seq(MessageType) /\ Len(<<>>) = 0
    OBVIOUS
  <2> QED BY <1>0, <2>1
         DEF EmptyStream, StreamType, StreamRecord, ValidSignals, MessagesEnd, Bounded
<1>2. \A s, r \in Subnets : /\ streams[s][r] = EmptyStream /\ certified[s][r] = EmptyStream
                            /\ \A n \in Nodes : pool[s][n][r] = EmptyStream
  BY DEF Init
<1>3. TypeInv
  <2>1. /\ streams \in [Subnets -> [Subnets -> StreamType]]
        /\ certified \in [Subnets -> [Subnets -> StreamType]]
        /\ pool \in [Subnets -> [Nodes -> [Subnets -> StreamType]]]
    BY <1>1 DEF Init
  <2>2. /\ payloads \in [Subnets -> Seq(UNION {Payloads(s) : s \in Subnets})]
        /\ \A s \in Subnets : payloads[s] \in Seq(Payloads(s))
    BY DEF Init
  <2>3. /\ executed \in [Subnets -> Nat] /\ registry \in [Subnets -> 0 .. 1]
        /\ at \in [Canisters -> Subnets \cup {None}]
    BY XNetAssumption DEF Init
  <2>4. /\ call \in [Calls -> CallStates]
        /\ callback \in [Calls -> Nat] /\ next_callback_id \in [Canisters -> Nat]
        /\ work \in [Calls -> {"none", "held", "answered"}]
        /\ lost \subseteq MessageType
    BY DEF Init, CallStates
  <2> QED BY <2>1, <2>2, <2>3, <2>4 DEF TypeInv
<1>4. InBounds
  BY <1>1, <1>2 DEF InBounds
<1>5. \A s \in Subnets : payloads[s] = <<>> /\ executed[s] = 0 /\ Len(payloads[s]) = 0
  BY DEF Init
<1>6. ASSUME NEW s \in Subnets, NEW r \in Others(s) PROVE \E m, g : Chained(s, r, m, g)
  <2> DEFINE m == [i \in 0 .. 0 |-> 0]
  <2>0. r \in Subnets
    BY DEF Others
  <2>1. m \in [0 .. 0 -> Nat] /\ m[0] = 0 /\ \A i, j \in 0 .. 0 : m[i] <= m[j]
    OBVIOUS
  <2> HIDE DEF m
  <2>2. \A i \in 0 .. 0 : i = 0
    OBVIOUS
  <2>3. Chained(s, r, m, m)
    BY <1>1, <1>2, <1>5, <2>0, <2>1, <2>2 DEF Chained
  <2> QED BY <2>3
<1> QED BY <1>1, <1>2, <1>3, <1>4, <1>5, <1>6 DEF Inv

LEMMA ChainKept ==
  ASSUME NEW s \in Subnets, NEW r \in Subnets, NEW m, NEW g, Chained(s, r, m, g),
         payloads'[s] = payloads[s], executed'[s] = executed[s],
         certified'[s][r] = certified[s][r],
         streams'[s][r].begin = streams[s][r].begin,
         streams'[s][r].signals_end = streams[s][r].signals_end
  PROVE  Chained(s, r, m, g)'
BY DEF Chained

\* A message is pushed to one stream.
LEMMA RouteMessageInv ==
  ASSUME Inv, NEW s \in Subnets, NEW msg \in MessageType, RouteMessage(s, msg),
         UNCHANGED <<certified, payloads, executed, pool, registry, at>>,
         call' \in [Calls -> CallStates],
         callback' \in [Calls -> Nat], next_callback_id' \in [Canisters -> Nat],
         work' \in [Calls -> {"none", "held", "answered"}],
         lost' \subseteq MessageType
  PROVE  Inv'
<1> DEFINE dst == Route(s, Receiver(msg))
           st == streams[s][dst]
           new == StreamPush(st, msg)
<1>0. MaxIndex \in Nat /\ dst \in Subnets
  BY XNetAssumption, Types, RouteType
<1>1. st \in StreamType /\ MessagesEnd(st) < MaxIndex
  BY <1>0 DEF Inv, TypeInv, RouteMessage
<1>2. streams' = [streams EXCEPT ![s] = [streams[s] EXCEPT ![dst] = new]]
  BY DEF RouteMessage
<1> HIDE DEF dst
<1>3. /\ new \in StreamType
      /\ new.begin = st.begin /\ new.signals_end = st.signals_end
      /\ MessagesEnd(new) = MessagesEnd(st) + 1
  BY <1>1, StreamPushType DEF OnlyPushed, Longer
<1> HIDE DEF new
<1>4. ASSUME NEW a \in Subnets, NEW b \in Subnets
      PROVE  /\ streams'[a][b] \in StreamType
             /\ streams'[a][b].begin = streams[a][b].begin
             /\ streams'[a][b].signals_end = streams[a][b].signals_end
             /\ MessagesEnd(streams[a][b]) <= MessagesEnd(streams'[a][b])
             /\ MessagesEnd(streams'[a][b]) <= MaxIndex
  <2>1. streams[a][b] \in StreamType /\ MessagesEnd(streams[a][b]) <= MaxIndex
    BY DEF Inv, TypeInv, InBounds, Bounded
  <2>2. MessagesEnd(streams[a][b]) \in Nat
    BY <2>1, StreamFields
  <2>3. CASE a = s /\ b = dst
    <3>1. streams'[a][b] = new
      BY <1>0, <1>2, <2>3 DEF Inv, TypeInv
    <3>2. MessagesEnd(st) \in Nat
      BY <1>1, StreamFields
    <3>3. MessagesEnd(st) <= MessagesEnd(new) /\ MessagesEnd(new) <= MaxIndex
      <4> HIDE DEF st
      <4> QED BY <1>0, <1>1, <1>3, <3>2
    <3> QED BY <1>3, <2>3, <3>1, <3>3
  <2>4. CASE ~(a = s /\ b = dst)
    <3>1. streams'[a][b] = streams[a][b]
      BY <1>0, <1>2, <2>4 DEF Inv, TypeInv
    <3> QED BY <2>1, <2>2, <3>1
  <2> QED BY <2>3, <2>4
<1>5. streams' \in [Subnets -> [Subnets -> StreamType]]
  <2>1. [streams[s] EXCEPT ![dst] = new] \in [Subnets -> StreamType]
    BY <1>3 DEF Inv, TypeInv
  <2> QED BY <1>2, <2>1 DEF Inv, TypeInv
<1>6. TypeInv'
  BY <1>5 DEF Inv, TypeInv
<1>7. InBounds'
  BY <1>4 DEF Inv, InBounds, Bounded
<1>8. \A a \in Subnets : streams'[a][a].begin = streams'[a][a].signals_end
  BY <1>4 DEF Inv
<1>9. \A a, b \in Subnets : MessagesEnd(certified'[a][b]) <= MessagesEnd(streams'[a][b])
  <2> TAKE a, b \in Subnets
  <2>1. certified[a][b] \in StreamType /\ streams[a][b] \in StreamType
    BY DEF Inv, TypeInv
  <2>2. MessagesEnd(certified[a][b]) \in Nat /\ MessagesEnd(streams[a][b]) \in Nat
        /\ MessagesEnd(streams'[a][b]) \in Nat
    BY <1>4, <2>1, StreamFields
  <2>3. MessagesEnd(certified[a][b]) <= MessagesEnd(streams[a][b])
    BY DEF Inv
  <2>4. MessagesEnd(streams[a][b]) <= MessagesEnd(streams'[a][b])
    BY <1>4
  <2>5. certified'[a][b] = certified[a][b]
    OBVIOUS
  <2> QED BY <2>2, <2>3, <2>4, <2>5
<1>10. ASSUME NEW a \in Subnets, NEW b \in Others(a) PROVE \E m, g : Chained(a, b, m, g)'
  <2>1. PICK m, g : Chained(a, b, m, g)
    BY DEF Inv
  <2>2. b \in Subnets
    BY DEF Others
  <2>3. Chained(a, b, m, g)'
    BY <1>4, <2>1, <2>2, ChainKept
  <2> QED BY <2>3
<1> QED BY <1>6, <1>7, <1>8, <1>9, <1>10 DEF Inv, Others

LEMMA SendRequestInv == ASSUME Inv, NEW k \in Calls, SendRequest(k) PROVE Inv'
<1> DEFINE s == at[Caller[k]]
<1>1. s \in Subnets
  BY XNetAssumption DEF Inv, TypeInv, SendRequest
<1>2. RouteMessage(s, Request(k)) /\ Request(k) \in MessageType
  BY Types DEF SendRequest
<1>3. /\ call' \in [Calls -> CallStates]
      /\ work' \in [Calls -> {"none", "held", "answered"}]
      /\ lost' \subseteq MessageType
      /\ UNCHANGED <<certified, payloads, executed, pool, registry, at>>
  BY DEF Inv, TypeInv, SendRequest, CallStates
<1>4. Caller[k] \in Canisters /\ next_callback_id \in [Canisters -> Nat]
      /\ callback \in [Calls -> Nat]
  BY XNetAssumption DEF Inv, TypeInv
<1>5. callback' \in [Calls -> Nat] /\ next_callback_id' \in [Canisters -> Nat]
  BY <1>4 DEF SendRequest
<1> HIDE DEF s
<1> QED BY <1>1, <1>2, <1>3, <1>5, RouteMessageInv

LEMMA SendResponseInv == ASSUME Inv, NEW k \in Calls, SendResponse(k) PROVE Inv'
<1> DEFINE s == at[Callee[k]]
<1>1. s \in Subnets
  BY XNetAssumption DEF Inv, TypeInv, SendResponse
<1>2. RouteMessage(s, Response(k)) /\ Response(k) \in MessageType
  BY Types DEF SendResponse
<1>3. /\ call' \in [Calls -> CallStates]
      /\ work' \in [Calls -> {"none", "held", "answered"}]
      /\ lost' \subseteq MessageType
      /\ callback' \in [Calls -> Nat] /\ next_callback_id' \in [Canisters -> Nat]
      /\ UNCHANGED <<certified, payloads, executed, pool, registry, at>>
  BY DEF Inv, TypeInv, SendResponse, ids
<1> HIDE DEF s
<1> QED BY <1>1, <1>2, <1>3, RouteMessageInv

\* Nothing but the pools, the routing tables or the canisters' hosts changes.
LEMMA StreamsKeptInv ==
  ASSUME Inv, TypeInv', UNCHANGED <<streams, certified, payloads, executed>>,
         \A s, r \in Subnets : \A n \in Nodes : Bounded(pool'[s][n][r])
  PROVE  Inv'
<1>1. InBounds'
  BY DEF Inv, InBounds, Bounded
<1>2. ASSUME NEW s \in Subnets, NEW r \in Others(s) PROVE \E m, g : Chained(s, r, m, g)'
  <2>1. PICK m, g : Chained(s, r, m, g)
    BY DEF Inv
  <2>2. r \in Subnets
    BY DEF Others
  <2>3. Chained(s, r, m, g)'
    BY <2>1, <2>2, ChainKept
  <2> QED BY <2>3
<1>3. /\ \A s \in Subnets : executed'[s] <= Len(payloads'[s])
      /\ \A s \in Subnets : streams'[s][s].begin = streams'[s][s].signals_end
      /\ \A s, r \in Subnets : MessagesEnd(certified'[s][r]) <= MessagesEnd(streams'[s][r])
  BY DEF Inv
<1> QED BY <1>1, <1>2, <1>3 DEF Inv, Others

LEMMA RefillPoolInv ==
  ASSUME Inv, NEW s \in Subnets, NEW n \in Nodes, NEW r \in Others(s), RefillPool(s, n, r)
  PROVE  Inv'
<1> DEFINE new == certified[r][s]
<1>1. r \in Subnets /\ new \in StreamType /\ Bounded(new)
  BY DEF Inv, TypeInv, InBounds, Others
<1>2. pool' = [pool EXCEPT ![s] = [pool[s] EXCEPT ![n] = [pool[s][n] EXCEPT ![r] = new]]]
  BY DEF RefillPool
<1> HIDE DEF new
<1>3. pool \in [Subnets -> [Nodes -> [Subnets -> StreamType]]]
  BY DEF Inv, TypeInv
<1>4. [pool[s][n] EXCEPT ![r] = new] \in [Subnets -> StreamType]
  BY <1>1, <1>3
<1>5. pool' \in [Subnets -> [Nodes -> [Subnets -> StreamType]]]
  BY <1>2, <1>3, <1>4
<1>6. ASSUME NEW a \in Subnets, NEW b \in Subnets, NEW c \in Nodes PROVE Bounded(pool'[a][c][b])
  <2>1. CASE a = s /\ c = n /\ b = r
    <3>1. pool'[a][c][b] = new
      BY <1>1, <1>2, <1>3, <2>1
    <3> QED BY <1>1, <3>1
  <2>2. CASE ~(a = s /\ c = n /\ b = r)
    <3>1. pool'[a][c][b] = pool[a][c][b]
      BY <1>1, <1>2, <1>3, <2>2
    <3> QED BY <3>1 DEF Inv, InBounds
  <2> QED BY <2>1, <2>2
<1>7. TypeInv'
  BY <1>5 DEF Inv, TypeInv, RefillPool, ids
<1> QED BY <1>6, <1>7, StreamsKeptInv DEF RefillPool

LEMMA UpdateRegistryInv == ASSUME Inv, NEW s \in Subnets, UpdateRegistry(s) PROVE Inv'
<1>1. Mover \in Canisters /\ Target \in Subnets
  BY XNetAssumption DEF UpdateRegistry
<1>2. at' \in [Canisters -> Subnets \cup {None}] /\ registry' \in [Subnets -> 0 .. 1]
  BY <1>1 DEF UpdateRegistry, Inv, TypeInv
<1>3. TypeInv'
  BY <1>2 DEF UpdateRegistry, Inv, TypeInv, ids
<1>4. \A a, b \in Subnets : \A n \in Nodes : Bounded(pool'[a][n][b])
  BY DEF UpdateRegistry, Inv, InBounds
<1> QED BY <1>3, <1>4, StreamsKeptInv DEF UpdateRegistry

LEMMA StopUninstalledInv == ASSUME Inv, NEW c \in Canisters, StopUninstalled(c) PROVE Inv'
<1>1. /\ call \in [Calls -> CallStates] /\ next_callback_id \in [Canisters -> Nat]
  BY DEF Inv, TypeInv
<1>2. /\ call' \in [Calls -> CallStates] /\ next_callback_id' \in [Canisters -> Nat]
  BY <1>1 DEF StopUninstalled, CallStates
<1>3. TypeInv'
  BY <1>2 DEF StopUninstalled, Inv, TypeInv
<1>4. \A a, b \in Subnets : \A n \in Nodes : Bounded(pool'[a][n][b])
  BY DEF StopUninstalled, Inv, InBounds
<1> QED BY <1>3, <1>4, StreamsKeptInv DEF StopUninstalled

LEMMA StutterInv == ASSUME Inv, UNCHANGED vars PROVE Inv'
<1>1. TypeInv'
  BY DEF vars, ids, Inv, TypeInv
<1>2. \A a, b \in Subnets : \A n \in Nodes : Bounded(pool'[a][n][b])
  BY DEF vars, Inv, InBounds
<1> QED BY <1>1, <1>2, StreamsKeptInv DEF vars

\* The payloads that were executed are no longer needed, the marks of the others
\* stay.
LEMMA ChainShortened ==
  ASSUME Inv, NEW s \in Subnets, NEW r \in Others(s), Certify(s)
  PROVE  \E m, g : Chained(s, r, m, g)'
<1> DEFINE P == payloads[s]
           n == Len(P)
           e == executed[s]
           k == n - e
           P1 == payloads'[s]
           old == certified[s][r]
           st == streams[s][r]
<1>0. r \in Subnets
  BY DEF Others
<1>1. n \in Nat /\ e \in Nat /\ e <= n /\ P \in Seq(Payloads(s))
  BY DEF Inv, TypeInv
<1>2. P1 = SubSeq(P, e + 1, n)
  BY DEF Certify, Inv, TypeInv
<1>3. streams'[s][r] = st /\ certified'[s][r] = st /\ executed'[s] = 0
  BY <1>0 DEF Certify, Inv, TypeInv
<1>4. PICK m, g : Chained(s, r, m, g)
  BY DEF Inv
<1>5. /\ m \in [0 .. n -> Nat] /\ g \in [0 .. n -> Nat]
      /\ \A i \in 1 .. n : Accepted(P[i][r], m[i - 1], g[i - 1], m[i], g[i])
      /\ \A i, j \in 0 .. n : i <= j => g[i] <= g[j]
      /\ \A i \in 0 .. n : g[i] <= MessagesEnd(old)
      /\ st.signals_end = m[e] /\ st.begin = g[e]
  BY <1>4 DEF Chained
<1>6. MessagesEnd(old) <= MessagesEnd(st) /\ MessagesEnd(old) \in Nat /\ MessagesEnd(st) \in Nat
  BY <1>0, StreamFields DEF Inv, TypeInv
<1>7. PICK m1, g1 : /\ m1 = [i \in 0 .. k |-> m[i + e]]
                    /\ g1 = [i \in 0 .. k |-> g[i + e]]
  OBVIOUS
<1>8. /\ Chained(s, r, m1, g1)'
         <=> /\ m1 \in [0 .. Len(P1) -> Nat] /\ g1 \in [0 .. Len(P1) -> Nat]
             /\ m1[0] = certified'[s][r].signals_end
             /\ g1[0] = certified'[s][r].begin
             /\ \A i \in 1 .. Len(P1) : Accepted(P1[i][r], m1[i - 1], g1[i - 1], m1[i], g1[i])
             /\ \A i, j \in 0 .. Len(P1) : i <= j => g1[i] <= g1[j]
             /\ \A i \in 0 .. Len(P1) : g1[i] <= MessagesEnd(certified'[s][r])
             /\ streams'[s][r].signals_end = m1[executed'[s]]
             /\ streams'[s][r].begin = g1[executed'[s]]
  BY DEF Chained
<1> HIDE DEF P, n, e, P1, old, st
<1>9. k \in Nat /\ Len(P1) = k /\ \A i \in 1 .. k : P1[i] = P[i + e]
  <2>1. Len(P) = n /\ \A i \in 1 .. n : P[i] \in Payloads(s)
    BY <1>1 DEF n
  <2>2. e + 1 \in Int /\ n \in Int /\ \A i \in (e + 1) .. n : i \in 1 .. n
    BY <1>1
  <2>3. /\ Len(SubSeq(P, e + 1, n)) = IF e + 1 <= n THEN n - (e + 1) + 1 ELSE 0
        /\ \A i \in 1 .. (n - (e + 1) + 1) : SubSeq(P, e + 1, n)[i] = P[(e + 1) + i - 1]
    BY <2>1, <2>2, SubSeqProperties
  <2>4. k \in Nat /\ n - (e + 1) + 1 = k /\ (IF e + 1 <= n THEN k ELSE 0) = k
    BY <1>1
  <2>5. Len(P1) = k
    BY <1>2, <2>3, <2>4
  <2>6. \A i \in 1 .. k : P1[i] = P[(e + 1) + i - 1]
    BY <1>2, <2>3, <2>4
  <2>7. \A i \in 1 .. k : (e + 1) + i - 1 = i + e
    BY <1>1
  <2> QED BY <2>4, <2>5, <2>6, <2>7
<1>10. /\ \A i \in 0 .. k : i + e \in 0 .. n
       /\ \A i \in 1 .. k : /\ i + e \in 1 .. n /\ (i + e) - 1 = (i - 1) + e
                             /\ i - 1 \in 0 .. k /\ i \in 0 .. k
       /\ 0 \in 0 .. k /\ 0 + e = e
  BY <1>1, <1>9
<1>11. k = n - e
  OBVIOUS
<1> HIDE DEF k
<1>12. m1 \in [0 .. k -> Nat] /\ g1 \in [0 .. k -> Nat]
  BY <1>5, <1>10, <1>7
<1>13. m1[0] = st.signals_end /\ g1[0] = st.begin
  <2>1. m1[0] = m[0 + e] /\ g1[0] = g[0 + e]
    BY <1>7, <1>10
  <2> QED BY <1>5, <1>10, <2>1
<1>14. \A i \in 1 .. k : Accepted(P1[i][r], m1[i - 1], g1[i - 1], m1[i], g1[i])
  <2> TAKE i \in 1 .. k
  <2>1. Accepted(P[i + e][r], m[(i + e) - 1], g[(i + e) - 1], m[i + e], g[i + e])
    BY <1>5, <1>10
  <2>2. /\ m1[i] = m[i + e] /\ g1[i] = g[i + e]
        /\ m1[i - 1] = m[(i + e) - 1] /\ g1[i - 1] = g[(i + e) - 1]
    BY <1>10, <1>7
  <2> QED BY <1>9, <2>1, <2>2
<1>15. \A i, j \in 0 .. k : i <= j => g1[i] <= g1[j]
  <2> SUFFICES ASSUME NEW i \in 0 .. k, NEW j \in 0 .. k, i <= j PROVE g1[i] <= g1[j]
    OBVIOUS
  <2>1. i + e \in 0 .. n /\ j + e \in 0 .. n /\ i + e <= j + e
    BY <1>1, <1>9, <1>10
  <2> QED BY <1>5, <1>7, <2>1
<1>16. \A i \in 0 .. k : g1[i] <= MessagesEnd(st)
  <2> TAKE i \in 0 .. k
  <2>1. g1[i] = g[i + e] /\ g[i + e] \in Nat /\ g[i + e] <= MessagesEnd(old)
    BY <1>5, <1>10, <1>7
  <2> QED BY <1>6, <2>1
<1>17. Chained(s, r, m1, g1)'
  BY <1>3, <1>8, <1>9, <1>12, <1>13, <1>14, <1>15, <1>16
<1> QED BY <1>17

LEMMA CertifyInv == ASSUME Inv, NEW s \in Subnets, Certify(s) PROVE Inv'
<1> DEFINE P == payloads[s]
           rest == SubSeq(P, executed[s] + 1, Len(P))
<1>1. /\ certified' = [certified EXCEPT ![s] = streams[s]]
      /\ payloads' = [payloads EXCEPT ![s] = rest]
      /\ executed' = [executed EXCEPT ![s] = 0]
      /\ UNCHANGED <<streams, pool, registry, at, call, callback, next_callback_id, work, lost>>
  BY DEF Certify, ids
<1>2. /\ Len(P) \in Nat /\ executed[s] \in Nat /\ executed[s] <= Len(P)
      /\ P \in Seq(Payloads(s)) /\ P \in Seq(UNION {Payloads(a) : a \in Subnets})
  BY DEF Inv, TypeInv
<1>3. rest \in Seq(Payloads(s)) /\ rest \in Seq(UNION {Payloads(a) : a \in Subnets})
      /\ Len(rest) \in Nat
  <2> HIDE DEF P
  <2> QED BY <1>2
<1> HIDE DEF rest
<1>4. TypeInv'
  <2>1. certified' \in [Subnets -> [Subnets -> StreamType]]
    BY <1>1 DEF Inv, TypeInv
  <2>2. payloads' \in [Subnets -> Seq(UNION {Payloads(a) : a \in Subnets})]
    BY <1>1, <1>3 DEF Inv, TypeInv
  <2>3. \A a \in Subnets : payloads'[a] \in Seq(Payloads(a))
    BY <1>1, <1>3 DEF Inv, TypeInv
  <2>4. executed' \in [Subnets -> Nat]
    BY <1>1 DEF Inv, TypeInv
  <2>5. \A a \in Subnets : Payloads(a)' = Payloads(a)
    BY DEF Payloads, Others, SliceType
  <2> QED BY <1>1, <2>1, <2>2, <2>3, <2>4, <2>5 DEF Inv, TypeInv
<1>5. \A a, b \in Subnets : certified'[a][b] = IF a = s THEN streams[s][b] ELSE certified[a][b]
  BY <1>1 DEF Inv, TypeInv
<1>6. InBounds'
  BY <1>1, <1>5 DEF Inv, InBounds, Bounded
<1>7. \A a \in Subnets : executed'[a] <= Len(payloads'[a])
  BY <1>1, <1>3 DEF Inv, TypeInv
<1>8. \A a \in Subnets : streams'[a][a].begin = streams'[a][a].signals_end
  BY <1>1 DEF Inv
<1>9. \A a, b \in Subnets : MessagesEnd(certified'[a][b]) <= MessagesEnd(streams'[a][b])
  <2> TAKE a, b \in Subnets
  <2>1. MessagesEnd(streams[a][b]) \in Nat /\ MessagesEnd(certified[a][b]) <= MessagesEnd(streams[a][b])
    BY StreamFields DEF Inv, TypeInv
  <2> QED BY <1>1, <1>5, <2>1
<1>10. ASSUME NEW a \in Subnets, NEW b \in Others(a) PROVE \E m, g : Chained(a, b, m, g)'
  <2>1. CASE a = s
    BY <2>1, ChainShortened
  <2>2. CASE a # s
    <3>1. b \in Subnets
      BY DEF Others
    <3>2. PICK m, g : Chained(a, b, m, g)
      BY DEF Inv
    <3>3. /\ payloads'[a] = payloads[a] /\ executed'[a] = executed[a]
          /\ certified'[a][b] = certified[a][b] /\ streams' = streams
      BY <1>1, <1>5, <2>2, <3>1 DEF Inv, TypeInv
    <3>4. Chained(a, b, m, g)'
      BY <3>1, <3>2, <3>3, ChainKept
    <3> QED BY <3>4
  <2> QED BY <2>1, <2>2
<1> QED BY <1>4, <1>6, <1>7, <1>8, <1>9, <1>10 DEF Inv, Others

LEMMA MaxOfTwo ==
  ASSUME NEW a \in Int, NEW b \in Int
  PROVE  /\ (Max({a, b}) = a \/ Max({a, b}) = b) /\ Max({a, b}) >= a /\ Max({a, b}) >= b
         /\ (Min({a, b}) = a \/ Min({a, b}) = b) /\ Min({a, b}) <= a /\ Min({a, b}) <= b
<1>1. \E k \in {a, b} : \A i \in {a, b} : k >= i
  OBVIOUS
<1>2. Max({a, b}) \in {a, b} /\ \A i \in {a, b} : Max({a, b}) >= i
  BY <1>1 DEF Max
<1>3. \E k \in {a, b} : \A i \in {a, b} : k <= i
  OBVIOUS
<1>4. Min({a, b}) \in {a, b} /\ \A i \in {a, b} : Min({a, b}) <= i
  BY <1>3 DEF Min
<1> QED BY <1>2, <1>4

\* A slice cut from a stream, at or after its beginning, has messages of the stream.
LEMMA SliceOfStream ==
  ASSUME NEW st \in StreamType, NEW from \in Nat, st.begin <= from,
         NEW len \in Nat, len > 0 => from + len <= MessagesEnd(st)
  PROVE  /\ Slice(st, from, len) \in SliceType
         /\ Slice(st, from, len).end = MessagesEnd(st)
<1> DEFINE msgs == SubSeq(st.messages, from - st.begin + 1, from - st.begin + len)
<1>1. msgs \in Seq(MessageType)
  <2>1. st.begin \in Nat /\ st.messages \in Seq(MessageType) /\ Len(st.messages) \in Nat
    BY StreamFields
  <2> DEFINE i == from - st.begin + 1
             j == from - st.begin + len
  <2>3. CASE len = 0
    <3>1. i \in Int /\ j \in Int /\ j < i
      BY <2>1, <2>3
    <3> HIDE DEF i, j
    <3>2. SubSeq(st.messages, i, j) = <<>>
      BY <3>1, SubSeqEmpty
    <3>3. msgs = <<>> /\ <<>> \in Seq(MessageType)
      BY <3>2 DEF i, j
    <3> HIDE DEF msgs
    <3> QED BY <3>3
  <2>4. CASE len > 0
    <3>1. i \in 1 .. Len(st.messages) /\ j \in 1 .. Len(st.messages) /\ i <= j
      BY <2>1, <2>4 DEF MessagesEnd
    <3> HIDE DEF i, j
    <3>2. SubSeq(st.messages, i, j) \in Seq(MessageType)
      BY <2>1, <3>1
    <3> QED BY <3>2 DEF i, j
  <2> QED BY <2>3, <2>4
<1> HIDE DEF msgs
<1>2. Slice(st, from, len)
        = [begin |-> st.begin, end |-> MessagesEnd(st), signals_end |-> st.signals_end,
           reject_signals |-> st.reject_signals, messages_begin |-> from, messages |-> msgs]
  BY DEF Slice, msgs
<1> QED BY <1>1, <1>2, StreamFields DEF SliceType

\* st is cut from index from on, at or after its beginning; an empty slice may be past
\* its end.
MayTake(st, from, len) ==
  /\ st.begin <= from
  /\ len > 0 => from + len <= MessagesEnd(st)

LEMMA TakenSlice ==
  ASSUME Inv, NEW s \in Subnets, NEW n \in Nodes, NEW r \in Others(s),
         NEW slice \in TakenSlices(s, n, r)
  PROVE  \E from, len \in Nat : /\ slice = Slice(pool[s][n][r], from, len)
                                /\ MayTake(pool[s][n][r], from, len)
<1> DEFINE st == pool[s][n][r]
           from == ExpectedMessageIndex(s, r)
           room == Max({0, MessagesEnd(st) - from})
           limit == MsgLimit(s, r)
<1>0. r \in Subnets
  BY DEF Others
<1>1. MessagesEnd(st) \in Nat /\ st.begin \in Nat
  <2>1. st \in StreamType
    BY <1>0 DEF Inv, TypeInv
  <2> HIDE DEF st
  <2> QED BY <2>1, StreamFields
<1>2. from \in Nat
  <2>1. PICK m, g : Chained(s, r, m, g)
    BY DEF Inv
  <2>2. from = m[Len(payloads[s])]
    BY <2>1, ExpectedIndices DEF Inv
  <2>3. Len(payloads[s]) \in Nat
    BY DEF Inv, TypeInv
  <2>4. Len(payloads[s]) \in 0 .. Len(payloads[s])
    BY <2>3
  <2>5. m[Len(payloads[s])] \in Nat
    BY <2>1, <2>4 DEF Chained
  <2> QED BY <2>2, <2>5
<1>3. limit \in Nat
  <2>1. Len(certified[s][r].messages) \in Nat
    <3>1. certified[s][r] \in StreamType
      BY <1>0 DEF Inv, TypeInv
    <3> QED BY <3>1, StreamFields
  <2>2. SYSTEM_SUBNET_STREAM_MSG_LIMIT \in Nat /\ MaxIndex \in Nat
    BY XNetAssumption
  <2> DEFINE left == SYSTEM_SUBNET_STREAM_MSG_LIMIT - Len(certified[s][r].messages)
  <2>3. left \in Int
    BY <2>1, <2>2
  <2>4. limit = MaxIndex \/ limit = Max({0, left})
    BY DEF MsgLimit
  <2> HIDE DEF left
  <2>5. (Max({0, left}) = 0 \/ Max({0, left}) = left) /\ Max({0, left}) >= 0
    BY <2>3, MaxOfTwo
  <2> HIDE DEF limit
  <2> QED BY <2>2, <2>3, <2>4, <2>5
<1>4. PICK len \in 0 .. Min({limit, room}) : slice = Slice(st, from, len)
  BY DEF TakenSlices
<1>5. st.begin <= from
  <2>1. ~(from < st.begin)
    BY DEF TakenSlices
  <2> HIDE DEF st, from
  <2> QED BY <1>1, <1>2, <2>1
<1> HIDE DEF st, from, limit
<1>6. room \in Nat /\ (room = 0 \/ room = MessagesEnd(st) - from)
  <2> DEFINE d == MessagesEnd(st) - from
  <2>1. d \in Int
    BY <1>1, <1>2
  <2>2. room = Max({0, d})
    OBVIOUS
  <2> HIDE DEF d, room
  <2>3. (Max({0, d}) = 0 \/ Max({0, d}) = d) /\ Max({0, d}) >= 0
    BY <2>1, MaxOfTwo
  <2> QED BY <2>1, <2>2, <2>3 DEF d
<1> HIDE DEF room
<1>7. Min({limit, room}) \in Nat /\ Min({limit, room}) <= room
  <2>1. limit \in Int /\ room \in Int
    BY <1>3, <1>6
  <2>2. (Min({limit, room}) = limit \/ Min({limit, room}) = room) /\ Min({limit, room}) <= room
    BY <2>1, MaxOfTwo
  <2> QED BY <1>3, <1>6, <2>2
<1>8. len \in Nat /\ len <= room
  BY <1>4, <1>6, <1>7
<1>9. len > 0 => from + len <= MessagesEnd(st)
  BY <1>1, <1>2, <1>6, <1>8
<1>10. MayTake(st, from, len)
  BY <1>5, <1>9 DEF MayTake
<1> QED BY <1>2, <1>4, <1>8, <1>10 DEF st

LEMMA TakenSliceType ==
  ASSUME Inv, NEW s \in Subnets, NEW n \in Nodes, NEW r \in Others(s),
         NEW slice \in TakenSlices(s, n, r)
  PROVE  slice \in SliceType /\ slice.end <= MaxIndex
<1> DEFINE st == pool[s][n][r]
<1>1. PICK from \in Nat, len \in Nat : slice = Slice(st, from, len) /\ MayTake(st, from, len)
  BY TakenSlice
<1>2. st \in StreamType /\ MessagesEnd(st) <= MaxIndex
  BY DEF Inv, TypeInv, InBounds, Bounded, Others
<1> HIDE DEF st
<1>3. Slice(st, from, len) \in SliceType /\ Slice(st, from, len).end = MessagesEnd(st)
  BY <1>1, <1>2, SliceOfStream DEF MayTake
<1> QED BY <1>1, <1>2, <1>3

\* A slice that is validated is accepted after the payloads there are.
LEMMA ValidatedSlice ==
  ASSUME Inv, NEW s \in Subnets, NEW r \in Others(s), NEW m, NEW g, Chained(s, r, m, g),
         NEW slice, slice # None => /\ slice \in SliceType /\ slice.end <= MaxIndex
                                    /\ ValidateSlice(s, r, slice)
  PROVE  LET n == Len(payloads[s])
         IN  \E m1, g1 \in Nat : /\ Accepted(slice, m[n], g[n], m1, g1)
                                 /\ g[n] <= g1 /\ g1 <= MessagesEnd(certified[s][r])
<1> DEFINE n == Len(payloads[s])
           end == MessagesEnd(certified[s][r])
<1>1. n \in Nat
  BY DEF Inv, TypeInv
<1>2. n \in 0 .. n
  BY <1>1
<1>3. m[n] \in Nat /\ g[n] \in Nat /\ g[n] <= end
  BY <1>2 DEF Chained
<1>4. ExpectedMessageIndex(s, r) = m[n] /\ ExpectedSignalIndex(s, r) = g[n]
  BY ExpectedIndices DEF Inv
<1>5. CASE slice = None
  <2>1. Accepted(slice, m[n], g[n], m[n], g[n])
    BY <1>5 DEF Accepted
  <2>2. g[n] <= g[n]
    BY <1>3
  <2> QED BY <1>3, <2>1, <2>2
<1>6. CASE slice # None
  <2>1. /\ slice \in SliceType /\ slice.end <= MaxIndex
        /\ slice.begin <= m[n] /\ m[n] <= slice.end
        /\ slice.messages # <<>> => /\ SliceMessagesEnd(slice) <= slice.end
                                    /\ slice.messages_begin = m[n]
        /\ g[n] <= slice.signals_end
        /\ slice.signals_end <= end
        /\ ValidSignals(slice.signals_end, slice.reject_signals)
    BY <1>4, <1>6 DEF ValidateSlice, ValidateSignals
  <2>2. PICK m1 : m1 = IF slice.messages = <<>> THEN m[n] ELSE SliceMessagesEnd(slice)
    OBVIOUS
  <2>3. /\ slice.signals_end \in Nat /\ slice.messages_begin \in Nat
        /\ Len(slice.messages) \in Nat
    BY <2>1 DEF SliceType
  <2>4. m1 \in Nat
    BY <1>3, <2>2, <2>3 DEF SliceMessagesEnd
  <2>5. Accepted(slice, m[n], g[n], m1, slice.signals_end)
    <3> HIDE DEF n
    <3> QED BY <1>6, <2>1, <2>2 DEF Accepted
  <2> QED BY <2>1, <2>3, <2>4, <2>5
<1> QED BY <1>5, <1>6

LEMMA ChainExtended ==
  ASSUME Inv, NEW s \in Subnets, NEW r \in Others(s), NEW payload,
         payload[r] # None => /\ payload[r] \in SliceType /\ payload[r].end <= MaxIndex
                              /\ ValidateSlice(s, r, payload[r]),
         payloads'[s] = Append(payloads[s], payload),
         UNCHANGED <<streams, certified, executed>>
  PROVE  \E m, g : Chained(s, r, m, g)'
<1> DEFINE P == payloads[s]
           n == Len(P)
           P1 == payloads'[s]
           st == streams[s][r]
           old == certified[s][r]
           e == executed[s]
<1>1. n \in Nat /\ e \in Nat /\ e <= n
  BY DEF Inv, TypeInv
<1>2. PICK m, g : Chained(s, r, m, g)
  BY DEF Inv
<1>3. PICK ml, gl \in Nat : /\ Accepted(payload[r], m[n], g[n], ml, gl)
                            /\ g[n] <= gl /\ gl <= MessagesEnd(old)
  BY <1>2, ValidatedSlice
<1>4. /\ m \in [0 .. n -> Nat] /\ g \in [0 .. n -> Nat]
      /\ m[0] = old.signals_end /\ g[0] = old.begin
      /\ \A i \in 1 .. n : Accepted(P[i][r], m[i - 1], g[i - 1], m[i], g[i])
      /\ \A i, j \in 0 .. n : i <= j => g[i] <= g[j]
      /\ \A i \in 0 .. n : g[i] <= MessagesEnd(old)
      /\ st.signals_end = m[e] /\ st.begin = g[e]
  BY <1>2 DEF Chained
<1>5. PICK m1, g1 : /\ m1 = [i \in 0 .. n + 1 |-> IF i = n + 1 THEN ml ELSE m[i]]
                    /\ g1 = [i \in 0 .. n + 1 |-> IF i = n + 1 THEN gl ELSE g[i]]
  OBVIOUS
<1>6. Chained(s, r, m1, g1)'
        <=> /\ m1 \in [0 .. Len(P1) -> Nat] /\ g1 \in [0 .. Len(P1) -> Nat]
            /\ m1[0] = old.signals_end
            /\ g1[0] = old.begin
            /\ \A i \in 1 .. Len(P1) : Accepted(P1[i][r], m1[i - 1], g1[i - 1], m1[i], g1[i])
            /\ \A i, j \in 0 .. Len(P1) : i <= j => g1[i] <= g1[j]
            /\ \A i \in 0 .. Len(P1) : g1[i] <= MessagesEnd(old)
            /\ st.signals_end = m1[e]
            /\ st.begin = g1[e]
  BY DEF Chained
<1>7. P \in Seq(Payloads(s)) /\ P1 = Append(P, payload)
  BY DEF Inv, TypeInv
<1> HIDE DEF P, n, P1, st, old, e
<1>8. Len(P1) = n + 1 /\ P1[n + 1] = payload /\ \A i \in 1 .. n : P1[i] = P[i]
  BY <1>7 DEF n
<1>9. m1[n + 1] = ml /\ g1[n + 1] = gl /\ \A i \in 0 .. n : m1[i] = m[i] /\ g1[i] = g[i]
  BY <1>1, <1>5
<1>10. /\ \A i \in 0 .. n + 1 : i \in 0 .. n \/ i = n + 1
       /\ \A i \in 1 .. n + 1 : i \in 1 .. n \/ i = n + 1
       /\ \A i \in 1 .. n : i - 1 \in 0 .. n /\ i \in 0 .. n
       /\ (n + 1) - 1 = n /\ n \in 0 .. n /\ 0 \in 0 .. n /\ e \in 0 .. n
  BY <1>1
<1>11. m1 \in [0 .. n + 1 -> Nat] /\ g1 \in [0 .. n + 1 -> Nat]
  BY <1>3, <1>4, <1>5, <1>10
<1>12. \A i \in 1 .. n + 1 : Accepted(P1[i][r], m1[i - 1], g1[i - 1], m1[i], g1[i])
  <2> TAKE i \in 1 .. n + 1
  <2>1. CASE i = n + 1
    BY <1>3, <1>8, <1>9, <1>10, <2>1
  <2>2. CASE i \in 1 .. n
    BY <1>4, <1>8, <1>9, <1>10, <2>2
  <2> QED BY <1>10, <2>1, <2>2
<1>13. \A i, j \in 0 .. n + 1 : i <= j => g1[i] <= g1[j]
  <2> SUFFICES ASSUME NEW i \in 0 .. n + 1, NEW j \in 0 .. n + 1, i <= j PROVE g1[i] <= g1[j]
    OBVIOUS
  <2>1. CASE i \in 0 .. n /\ j \in 0 .. n
    BY <1>4, <1>9, <2>1
  <2>2. CASE j = n + 1 /\ i \in 0 .. n
    <3>1. g[i] <= g[n] /\ g[i] \in Nat /\ g[n] \in Nat
      BY <1>1, <1>4, <1>10, <2>2
    <3>2. g1[i] = g[i] /\ g1[j] = gl
      BY <1>9, <2>2
    <3> QED BY <1>3, <3>1, <3>2
  <2>3. CASE i = n + 1 /\ j = n + 1
    BY <1>3, <1>9, <2>3
  <2>4. ~(i = n + 1 /\ j \in 0 .. n)
    BY <1>1
  <2> QED BY <1>10, <2>1, <2>2, <2>3, <2>4
<1>14. \A i \in 0 .. n + 1 : g1[i] <= MessagesEnd(old)
  BY <1>3, <1>4, <1>9, <1>10
<1>15. m1[0] = old.signals_end /\ g1[0] = old.begin /\ st.signals_end = m1[e] /\ st.begin = g1[e]
  BY <1>4, <1>9, <1>10
<1>16. Chained(s, r, m1, g1)'
  BY <1>6, <1>8, <1>11, <1>12, <1>13, <1>14, <1>15
<1> QED BY <1>16

LEMMA ProposeInv == ASSUME Inv, NEW s \in Subnets, NEW n \in Nodes, Propose(s, n) PROVE Inv'
<1>1. PICK payload \in [Others(s) -> {None} \cup UNION {TakenSlices(s, n, r) : r \in Others(s)}] :
        /\ \A r \in Sources(payload) : payload[r] \in TakenSlices(s, n, r)
        /\ MakeBlock(s, payload)
  BY DEF Propose
<1>2. ASSUME NEW r \in Others(s), payload[r] # None
      PROVE  payload[r] \in SliceType /\ payload[r].end <= MaxIndex /\ ValidateSlice(s, r, payload[r])
  <2>1. r \in Sources(payload)
    BY <1>1, <1>2 DEF Sources
  <2>2. payload[r] \in TakenSlices(s, n, r) /\ ValidateSlice(s, r, payload[r])
    BY <1>1, <2>1 DEF MakeBlock
  <2> QED BY <2>2, TakenSliceType
<1>3. payload \in Payloads(s)
  BY <1>1, <1>2 DEF Payloads
<1> DEFINE new == Append(payloads[s], payload)
<1>4. /\ payloads' = [payloads EXCEPT ![s] = new]
      /\ UNCHANGED <<streams, certified, executed, pool, registry, at, call, work, lost>>
      /\ UNCHANGED <<callback, next_callback_id>>
  BY <1>1 DEF MakeBlock, ids
<1>5. /\ new \in Seq(Payloads(s)) /\ new \in Seq(UNION {Payloads(a) : a \in Subnets})
      /\ Len(new) = Len(payloads[s]) + 1 /\ Len(payloads[s]) \in Nat
  BY <1>3 DEF Inv, TypeInv
<1> HIDE DEF new
<1>6. \A a \in Subnets : payloads'[a] = IF a = s THEN new ELSE payloads[a]
  BY <1>4 DEF Inv, TypeInv
<1>7. TypeInv'
  <2>1. payloads' \in [Subnets -> Seq(UNION {Payloads(a) : a \in Subnets})]
    BY <1>4, <1>5 DEF Inv, TypeInv
  <2>2. \A a \in Subnets : payloads'[a] \in Seq(Payloads(a))
    BY <1>5, <1>6 DEF Inv, TypeInv
  <2>3. \A a \in Subnets : Payloads(a)' = Payloads(a)
    BY DEF Payloads, Others, SliceType
  <2> QED BY <1>4, <2>1, <2>2, <2>3 DEF Inv, TypeInv
<1>8. InBounds'
  BY <1>4 DEF Inv, InBounds, Bounded
<1>9. \A a \in Subnets : executed'[a] <= Len(payloads'[a])
  <2> TAKE a \in Subnets
  <2>1. executed[a] \in Nat /\ executed[a] <= Len(payloads[a]) /\ Len(payloads[a]) \in Nat
    BY DEF Inv, TypeInv
  <2> QED BY <1>4, <1>5, <1>6, <2>1
<1>10. /\ \A a \in Subnets : streams'[a][a].begin = streams'[a][a].signals_end
       /\ \A a, b \in Subnets : MessagesEnd(certified'[a][b]) <= MessagesEnd(streams'[a][b])
  BY <1>4 DEF Inv
<1>11. ASSUME NEW a \in Subnets, NEW b \in Others(a) PROVE \E m, g : Chained(a, b, m, g)'
  <2>1. CASE a = s
    <3>1. payloads'[s] = Append(payloads[s], payload)
      BY <1>6 DEF new
    <3>2. b \in Others(s)
      BY <2>1
    <3>3. \E m, g : Chained(s, b, m, g)'
      BY <1>2, <1>4, <3>1, <3>2, ChainExtended
    <3> QED BY <2>1, <3>3
  <2>2. CASE a # s
    <3>1. b \in Subnets
      BY DEF Others
    <3>2. PICK m, g : Chained(a, b, m, g)
      BY DEF Inv
    <3>3. Chained(a, b, m, g)'
      BY <1>4, <1>6, <2>2, <3>1, <3>2, ChainKept
    <3> QED BY <3>3
  <2> QED BY <2>1, <2>2
<1> QED BY <1>7, <1>8, <1>9, <1>10, <1>11 DEF Inv, Others

\* The next payload, taken as a whole, fits the streams it meets.
LEMMA NextPayload ==
  ASSUME Inv, NEW s \in Subnets, executed[s] < Len(payloads[s])
  PROVE  LET payload == payloads[s][executed[s] + 1]
         IN  /\ payload \in Payloads(s)
             /\ Sources(payload) \subseteq Others(s)
             /\ \A r \in Others(s) : r \in Sources(payload) <=> payload[r] # None
             /\ \A r \in Sources(payload) :
                  /\ payload[r] \in SliceType
                  /\ streams[s][r].begin <= payload[r].signals_end
                  /\ payload[r].signals_end <= MessagesEnd(streams[s][r])
<1> DEFINE e == executed[s]
           payload == payloads[s][e + 1]
<1>1. payload \in Payloads(s)
  <2>1. e + 1 \in 1 .. Len(payloads[s]) /\ payloads[s] \in Seq(Payloads(s))
    BY DEF Inv, TypeInv
  <2> HIDE DEF e
  <2> QED BY <2>1
<1>2. /\ Sources(payload) \subseteq Others(s)
      /\ \A r \in Others(s) : r \in Sources(payload) <=> payload[r] # None
  BY <1>1 DEF Payloads, Sources
<1>3. ASSUME NEW r \in Sources(payload)
      PROVE  /\ payload[r] \in SliceType
             /\ streams[s][r].begin <= payload[r].signals_end
             /\ payload[r].signals_end <= MessagesEnd(streams[s][r])
  <2>1. r \in Others(s) /\ payload[r] # None
    BY <1>2
  <2>2. PICK m, g : Chained(s, r, m, g)
    BY <2>1 DEF Inv
  <2>3. /\ Accepted(payload[r], streams[s][r].signals_end, streams[s][r].begin, m[e + 1], g[e + 1])
        /\ g[e + 1] <= MessagesEnd(streams[s][r])
    BY <2>1, <2>2, NextSlice
  <2> HIDE DEF payload, e
  <2> QED BY <2>1, <2>3 DEF Accepted
<1> QED BY <1>1, <1>2, <1>3

\* The marks after the payload are what its execution leaves in the streams.
LEMMA NextMarks ==
  ASSUME Inv, NEW s \in Subnets, NEW r \in Others(s), executed[s] < Len(payloads[s]),
         NEW m, NEW g, Chained(s, r, m, g)
  PROVE  LET e == executed[s]
             st == streams[s][r]
             slice == payloads[s][e + 1][r]
         IN  /\ m[e + 1] = st.signals_end + IF slice # None THEN Len(slice.messages) ELSE 0
             /\ g[e + 1] = IF slice # None THEN slice.signals_end ELSE st.begin
             /\ m[e + 1] <= MaxIndex
<1> DEFINE e == executed[s]
           st == streams[s][r]
           slice == payloads[s][e + 1][r]
           m1 == m[e + 1]
           g1 == g[e + 1]
<1>1. Accepted(slice, st.signals_end, st.begin, m1, g1) /\ st \in StreamType
  BY NextSlice
<1>2. st.signals_end <= MaxIndex
  BY DEF Inv, InBounds, Bounded, Others
<1>3. st.signals_end \in Nat /\ MaxIndex \in Nat
  BY <1>1, StreamFields, XNetAssumption
<1> HIDE DEF e, st, slice, m1, g1
<1>4. CASE slice = None
  BY <1>1, <1>2, <1>3, <1>4 DEF Accepted, e, slice, st, m1, g1
<1>5. CASE slice # None
  <2>1. /\ slice \in SliceType /\ g1 = slice.signals_end
        /\ m1 = IF slice.messages = <<>> THEN st.signals_end ELSE SliceMessagesEnd(slice)
        /\ slice.end <= MaxIndex
        /\ slice.messages # <<>> => slice.messages_begin = st.signals_end /\ m1 <= slice.end
    BY <1>1, <1>5 DEF Accepted
  <2>2. slice.end \in Nat /\ Len(slice.messages) \in Nat /\ slice.messages \in Seq(MessageType)
    BY <2>1 DEF SliceType
  <2>3. slice.messages = <<>> => Len(slice.messages) = 0
    OBVIOUS
  <2>4. m1 = st.signals_end + Len(slice.messages)
    BY <1>3, <2>1, <2>2, <2>3 DEF SliceMessagesEnd
  <2>5. m1 <= MaxIndex
    BY <1>2, <1>3, <2>1, <2>2, <2>4
  <2> QED BY <1>5, <2>1, <2>4, <2>5 DEF e, slice, st, m1, g1
<1> QED BY <1>4, <1>5

\* What a block does to the streams of s.
LEMMA ProcessBatchEffect ==
  ASSUME Inv, NEW s \in Subnets, ProcessBatch(s)
  PROVE  /\ streams' = [streams EXCEPT ![s] = streams'[s]]
         /\ streams'[s] \in [Subnets -> StreamType]
         /\ call' \in [Calls -> CallStates]
         /\ work' \in [Calls -> {"none", "held", "answered"}]
         /\ lost' \subseteq MessageType
         /\ streams'[s][s].begin = streams'[s][s].signals_end
         /\ \A r \in Subnets : /\ MessagesEnd(streams[s][r]) <= MessagesEnd(streams'[s][r])
                               /\ Bounded(streams'[s][r])
         /\ \A r \in Others(s) : \A m, g :
              Chained(s, r, m, g) =>
                /\ streams'[s][r].begin = g[executed[s] + 1]
                /\ streams'[s][r].signals_end = m[executed[s] + 1]
<1> DEFINE payload == payloads[s][executed[s] + 1]
           x == [streams |-> streams[s], call |-> call, work |-> work, lost |-> lost]
           end == MessagesEnd(streams[s][s])
           b == [BeginsAfter(x, payload, Sources(payload)) EXCEPT ![s] = end]
           f == [SignalsAfter(x, payload, Sources(payload)) EXCEPT ![s] = end]
<1>1. executed[s] < Len(payloads[s])
  BY DEF ProcessBatch
<1>2. PICK full \in SUBSET Calls :
        LET y == ProcessStreamSlices(s, payload, full, x)
        IN  /\ \A r \in Subnets : MessagesEnd(y.streams[r]) <= MaxIndex
            /\ streams' = [streams EXCEPT ![s] = y.streams]
            /\ call' = y.call
            /\ work' = y.work
            /\ lost' = y.lost
  BY DEF ProcessBatch
<1> DEFINE y == ProcessStreamSlices(s, payload, full, x)
<1>3. x \in Working /\ x.streams = streams[s]
  BY DEF Working, Inv, TypeInv
<1>4. SlicesFit(x, payload) /\ s \notin Sources(payload)
  BY <1>1, NextPayload DEF SlicesFit, Others
<1>5. x.streams[s].begin = x.streams[s].signals_end
  BY DEF Inv
<1>6. Moved(x, y, b, f)
  <2> HIDE DEF payload, x
  <2> QED BY <1>3, <1>4, <1>5, ProcessEffect
<1>7. /\ y \in Working
      /\ streams' = [streams EXCEPT ![s] = y.streams]
      /\ \A r \in Subnets : MessagesEnd(y.streams[r]) <= MaxIndex
      /\ call' = y.call /\ work' = y.work /\ lost' = y.lost
  BY <1>2, <1>6 DEF Moved
<1> HIDE DEF y
<1>8. /\ y.streams \in [Subnets -> StreamType]
      /\ y.call \in [Calls -> CallStates]
      /\ y.work \in [Calls -> {"none", "held", "answered"}]
      /\ y.lost \subseteq MessageType
  BY <1>7 DEF Working
<1>9. streams'[s] = y.streams
  BY <1>7 DEF Inv, TypeInv
<1>10. \A r \in Subnets : /\ y.streams[r].begin = b[r]
                          /\ y.streams[r].signals_end = f[r]
                          /\ MessagesEnd(streams[s][r]) <= MessagesEnd(y.streams[r])
  BY <1>3, <1>6 DEF Moved
<1>11. b[s] = end /\ f[s] = end
  BY DEF BeginsAfter, SignalsAfter
<1>12. ASSUME NEW r \in Others(s)
       PROVE  /\ b[r] = IF payload[r] # None THEN payload[r].signals_end ELSE streams[s][r].begin
              /\ f[r] = streams[s][r].signals_end
                          + IF payload[r] # None THEN Len(payload[r].messages) ELSE 0
  <2>1. r \in Subnets /\ r # s
    BY DEF Others
  <2>2. r \in Sources(payload) <=> payload[r] # None
    BY <1>1, NextPayload
  <2>3. /\ b[r] = BeginsAfter(x, payload, Sources(payload))[r]
        /\ f[r] = SignalsAfter(x, payload, Sources(payload))[r]
    BY <2>1 DEF BeginsAfter, SignalsAfter
  <2> HIDE DEF b, f, x, payload
  <2> QED BY <1>3, <2>1, <2>2, <2>3 DEF BeginsAfter, SignalsAfter
<1>13. \A r \in Others(s) : \A m, g :
         Chained(s, r, m, g) =>
           /\ b[r] = g[executed[s] + 1] /\ f[r] = m[executed[s] + 1] /\ f[r] <= MaxIndex
  <2> TAKE r \in Others(s)
  <2> TAKE m, g
  <2> HAVE Chained(s, r, m, g)
  <2>1. /\ m[executed[s] + 1] = streams[s][r].signals_end
                                  + IF payload[r] # None THEN Len(payload[r].messages) ELSE 0
        /\ g[executed[s] + 1] = IF payload[r] # None THEN payload[r].signals_end
                                ELSE streams[s][r].begin
        /\ m[executed[s] + 1] <= MaxIndex
    BY <1>1, NextMarks
  <2> HIDE DEF b, f, payload
  <2> QED BY <1>12, <2>1
<1>14. end <= MaxIndex
  BY DEF Inv, InBounds, Bounded
<1>15. \A r \in Subnets : f[r] <= MaxIndex
  <2> TAKE r \in Subnets
  <2>1. CASE r = s
    <3> HIDE DEF end, f
    <3> QED BY <1>11, <1>14, <2>1
  <2>2. CASE r # s
    <3>1. r \in Others(s)
      BY <2>2 DEF Others
    <3>2. PICK m, g : Chained(s, r, m, g)
      BY <3>1 DEF Inv
    <3> HIDE DEF b, f
    <3> QED BY <1>13, <3>1, <3>2
  <2> QED BY <2>1, <2>2
<1> HIDE DEF b, f, x, payload, end
<1>16. \A r \in Subnets : Bounded(y.streams[r])
  BY <1>7, <1>10, <1>15 DEF Bounded
<1>17. \A r \in Others(s) : r \in Subnets
  BY DEF Others
<1>18. \A r \in Others(s) : \A m, g :
         Chained(s, r, m, g) =>
           /\ streams'[s][r].begin = g[executed[s] + 1]
           /\ streams'[s][r].signals_end = m[executed[s] + 1]
  BY <1>9, <1>10, <1>13, <1>17
<1>19. streams' = [streams EXCEPT ![s] = streams'[s]]
  BY <1>7, <1>9
<1>20. /\ \A r \in Subnets : /\ MessagesEnd(streams[s][r]) <= MessagesEnd(streams'[s][r])
                             /\ Bounded(streams'[s][r])
       /\ streams'[s][s].begin = streams'[s][s].signals_end
  BY <1>9, <1>10, <1>11, <1>16
<1> QED BY <1>7, <1>8, <1>9, <1>18, <1>19, <1>20

LEMMA ProcessBatchInv == ASSUME Inv, NEW s \in Subnets, ProcessBatch(s) PROVE Inv'
<1> DEFINE new == streams'[s]
<1>1. /\ streams' = [streams EXCEPT ![s] = new]
      /\ new \in [Subnets -> StreamType]
      /\ call' \in [Calls -> CallStates]
      /\ work' \in [Calls -> {"none", "held", "answered"}]
      /\ lost' \subseteq MessageType
      /\ new[s].begin = new[s].signals_end
      /\ \A r \in Subnets : MessagesEnd(streams[s][r]) <= MessagesEnd(new[r]) /\ Bounded(new[r])
      /\ \A r \in Others(s) : \A m, g :
           Chained(s, r, m, g) =>
             new[r].begin = g[executed[s] + 1] /\ new[r].signals_end = m[executed[s] + 1]
  BY ProcessBatchEffect
<1>2. /\ executed' = [executed EXCEPT ![s] = executed[s] + 1]
      /\ executed[s] < Len(payloads[s])
      /\ UNCHANGED <<certified, payloads, pool, registry, at, callback, next_callback_id>>
  BY DEF ProcessBatch, ids
<1> HIDE DEF new
<1>3. TypeInv'
  <2>1. streams' \in [Subnets -> [Subnets -> StreamType]]
    BY <1>1 DEF Inv, TypeInv
  <2>2. executed' \in [Subnets -> Nat]
    BY <1>2 DEF Inv, TypeInv
  <2> QED BY <1>1, <1>2, <2>1, <2>2 DEF Inv, TypeInv
<1>4. \A a, b \in Subnets : streams'[a][b] = IF a = s THEN new[b] ELSE streams[a][b]
  BY <1>1 DEF Inv, TypeInv
<1>5. InBounds'
  BY <1>1, <1>2, <1>4 DEF Inv, InBounds, Bounded
<1>6. \A a \in Subnets : executed'[a] <= Len(payloads'[a])
  <2> TAKE a \in Subnets
  <2>1. executed[a] \in Nat /\ executed[a] <= Len(payloads[a]) /\ Len(payloads[a]) \in Nat
    BY DEF Inv, TypeInv
  <2>2. executed'[a] = IF a = s THEN executed[a] + 1 ELSE executed[a]
    BY <1>2 DEF Inv, TypeInv
  <2> QED BY <1>2, <2>1, <2>2
<1>7. \A a \in Subnets : streams'[a][a].begin = streams'[a][a].signals_end
  BY <1>1, <1>4 DEF Inv
<1>8. \A a, b \in Subnets : MessagesEnd(certified'[a][b]) <= MessagesEnd(streams'[a][b])
  <2> TAKE a, b \in Subnets
  <2>1. /\ MessagesEnd(certified[a][b]) \in Nat /\ MessagesEnd(streams[a][b]) \in Nat
        /\ MessagesEnd(certified[a][b]) <= MessagesEnd(streams[a][b])
    BY StreamFields DEF Inv, TypeInv
  <2>2. CASE a = s
    <3>1. MessagesEnd(streams[s][b]) <= MessagesEnd(new[b]) /\ MessagesEnd(new[b]) \in Nat
      BY <1>1, StreamFields
    <3>2. streams'[a][b] = new[b] /\ certified' = certified
      BY <1>2, <1>4, <2>2
    <3> QED BY <2>1, <2>2, <3>1, <3>2
  <2>3. CASE a # s
    BY <1>2, <1>4, <2>1, <2>3
  <2> QED BY <2>2, <2>3
<1>9. ASSUME NEW a \in Subnets, NEW b \in Others(a) PROVE \E m, g : Chained(a, b, m, g)'
  <2>1. b \in Subnets
    BY DEF Others
  <2>2. PICK m, g : Chained(a, b, m, g)
    BY DEF Inv
  <2>3. CASE a = s
    <3>1. /\ streams'[a][b].begin = g[executed'[a]]
          /\ streams'[a][b].signals_end = m[executed'[a]]
      <4>1. executed'[a] = executed[s] + 1
        BY <1>2, <2>3 DEF Inv, TypeInv
      <4> QED BY <1>1, <1>4, <2>1, <2>2, <2>3, <4>1
    <3>2. certified' = certified /\ payloads' = payloads
      BY <1>2
    <3>3. Chained(a, b, m, g)'
      BY <2>2, <3>1, <3>2 DEF Chained
    <3> QED BY <3>3
  <2>4. CASE a # s
    <3>1. /\ payloads'[a] = payloads[a] /\ executed'[a] = executed[a]
          /\ certified'[a][b] = certified[a][b] /\ streams'[a][b] = streams[a][b]
      BY <1>2, <1>4, <2>1, <2>4 DEF Inv, TypeInv
    <3>2. Chained(a, b, m, g)'
      BY <2>1, <2>2, <3>1, ChainKept
    <3> QED BY <3>2
  <2> QED BY <2>3, <2>4
<1> QED BY <1>3, <1>5, <1>6, <1>7, <1>8, <1>9 DEF Inv, Others

-----------------------------------------------------------------------------
(* The theorems. *)

LEMMA NextInv == Inv /\ [Next]_vars => Inv'
<1> SUFFICES ASSUME Inv, [Next]_vars PROVE Inv'
  OBVIOUS
<1>1. ASSUME NEW k \in Calls, SendRequest(k) PROVE Inv'
  BY <1>1, SendRequestInv
<1>2. ASSUME NEW k \in Calls, SendResponse(k) PROVE Inv'
  BY <1>2, SendResponseInv
<1>3. ASSUME NEW s \in Subnets, NEW n \in Nodes, NEW r \in Others(s), RefillPool(s, n, r) PROVE Inv'
  BY <1>3, RefillPoolInv
<1>4. ASSUME NEW s \in Subnets, NEW n \in Nodes, Propose(s, n) PROVE Inv'
  BY <1>4, ProposeInv
<1>5. ASSUME NEW s \in Subnets, ProcessBatch(s) PROVE Inv'
  BY <1>5, ProcessBatchInv
<1>6. ASSUME NEW s \in Subnets, Certify(s) PROVE Inv'
  BY <1>6, CertifyInv
<1>7. ASSUME NEW s \in Subnets, UpdateRegistry(s) PROVE Inv'
  BY <1>7, UpdateRegistryInv
<1>8. CASE UNCHANGED vars
  BY <1>8, StutterInv
<1>9. ASSUME NEW c \in Canisters, StopUninstalled(c) PROVE Inv'
  BY <1>9, StopUninstalledInv
<1> QED BY <1>1, <1>2, <1>3, <1>4, <1>5, <1>6, <1>7, <1>8, <1>9 DEF Next

LEMMA InvAlways == Spec => []Inv
BY InitInv, NextInv, PTL DEF Spec

\* stream_handler.rs, stream_builder.rs: streams, certified streams and counters have
\* their types, no index passes its bound, and no subnet has executed more blocks than
\* it has made.
THEOREM StreamTypes == Spec => []TypeOK
BY InvAlways, InvTypes, PTL

\* assert_valid_slice_messages_for_stream, assert_valid_signals and
\* assert_valid_signals_for_messages of stream_handler.rs never fail on a block: what
\* was validated against an old certified state and the payloads since, with slices
\* from pools of any age, applies to the streams it meets, whatever the number of
\* subnets, blocks and messages.
THEOREM SlicesApply == Spec => []BlocksApplicable
BY InvAlways, InvApplicable, PTL

\* The assertion of validate_signals in the payload builder never fails: the next
\* signal expected from a subnet is for a message of the certified stream to it, or
\* for the next one.
THEOREM ExpectedSignalsFit == Spec => []ExpectedSignalsInStream
BY InvAlways, InvExpected, PTL
=============================================================================
