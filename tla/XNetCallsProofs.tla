--------------------------- MODULE XNetCallsProofs ---------------------------
(***************************************************************************)
(* Proofs that calls between subnets are conserved, and requests received  *)
(* in order                                                                *)
(*                                                                         *)
(* CallInv says of every state that                                        *)
(*  - the canisters are where the routing tables of the two subnets        *)
(*    concerned by the migration say (AtHosts);                            *)
(*  - for every pair of subnets, what a stream no longer has is signalled, *)
(*    what is signalled was in the stream, its messages are between        *)
(*    possible hosts of sender and receiver, and only responses are        *)
(*    rejected (AllOrderly);                                               *)
(*  - every call that is pending is in one place (AllInOnePlace), and what  *)
(*    was lost is the response to a call that was orphaned (OrphansOnly);  *)
(*  - certified streams, pools and slices in blocks are old pieces of the  *)
(*    streams they come from: header and messages are the ones of an       *)
(*    earlier version, and a message that the stream still has is at the   *)
(*    same index (View).                                                   *)
(*                                                                         *)
(* The last part makes a block of any age harmless: by the invariant Inv   *)
(* of XNetProofs the messages of its slices start at the next signal, so   *)
(* by View they are the ones in the stream now; the signals it brings are  *)
(* the ones the remote stream has or had, so a message that is collected   *)
(* was inducted or is rejected.                                            *)
(*                                                                         *)
(* A block changes the streams of one subnet in many steps.  Sound says    *)
(* the same of the states in between, where rejected messages are in hand  *)
(* before they are rerouted; one lemma for each operator of the stream     *)
(* handler shows that it preserves Sound.                                  *)
(*                                                                         *)
(* OrderInv, for callers that do not migrate, says that of two requests    *)
(* between the same canisters the earlier one is ahead in the same stream, *)
(* or leads to the old host of the callee and the later one to the new.    *)
(***************************************************************************)
EXTENDS XNetProofs

-----------------------------------------------------------------------------
(* Where the messages of a call are. *)

\* The subnets that may have the state of a canister, now or later.
Hosts(c) == {Home[c]} \cup IF c = Mover THEN {Target} ELSE {}

\* A message may be in the stream from a to b.
Legit(a, b, msg) == a \in Hosts(Sender(msg)) /\ b \in Hosts(Receiver(msg))

Nets == [Subnets -> [Subnets -> StreamType]]

\* F is the stream from a to b, back the one from b to a: what F has lost was
\* signalled, what is signalled was in F, and only responses are rejected.
Orderly(a, b, F, back) ==
  /\ F.begin <= back.signals_end
  /\ back.signals_end <= MessagesEnd(F)
  /\ \A i \in StreamIndices(F) :
       /\ Legit(a, b, MessageAt(F, i))
       /\ i \in back.reject_signals => MessageAt(F, i).kind = "Response"

AllOrderly(net) == \A a, b \in Subnets : Orderly(a, b, net[a][b], net[b][a])

\* The message at index i of F is not signalled yet, or it is rejected.
OnWay(F, back, i) ==
  /\ i \in StreamIndices(F)
  /\ i >= back.signals_end \/ i \in back.reject_signals

At(net, k, a, b, i) ==
  OnWay(net[a][b], net[b][a], i) /\ MessageAt(net[a][b], i).call = k

Places(net, k) ==
  {p \in Subnets \X Subnets \X Nat : At(net, k, p[1], p[2], p[3])}

\* A call that is pending is in one place: on the way (P), in the hands of the stream
\* handler (H), or with its callee.  A call that is not is nowhere.
InOnePlace(pending, held, P, H) ==
  /\ \A p, q \in P : p = q
  /\ \A p, q \in H : p = q
  /\ pending => \/ P # {} /\ H = {} /\ ~held
                \/ P = {} /\ H # {} /\ ~held
                \/ P = {} /\ H = {} /\ held
  /\ ~pending => P = {} /\ H = {} /\ ~held

InHand(hand, k) == {msg \in hand : msg.call = k}

AllInOnePlace(net, cs, ws, hand) ==
  \A k \in Calls :
    InOnePlace(Pending(cs[k]), ws[k] = "held", Places(net, k), InHand(hand, k))

\* What is lost is the response to a call that is gone.
OrphansOnly(cs, dropped) == \A msg \in dropped : msg.kind = "Response" /\ cs[msg.call] = "gone"

-----------------------------------------------------------------------------
(* What the operations on a stream do to its messages. *)

LEMMA PushedMessages ==
  ASSUME NEW st \in StreamType, NEW msg \in MessageType
  PROVE  LET new == StreamPush(st, msg)
         IN  /\ \A i \in StreamIndices(st) : MessageAt(new, i) = MessageAt(st, i)
             /\ MessageAt(new, MessagesEnd(st)) = msg
<1> DEFINE new == StreamPush(st, msg)
           ms == st.messages
<1>1. ms \in Seq(MessageType) /\ Len(ms) \in Nat /\ st.begin \in Nat
  BY StreamFields
<1>2. new.messages = Append(ms, msg) /\ new.begin = st.begin
  BY StreamIs DEF StreamPush
<1> HIDE DEF new
<1>3. ASSUME NEW i \in StreamIndices(st) PROVE MessageAt(new, i) = MessageAt(st, i)
  <2>1. i - st.begin + 1 \in 1 .. Len(ms)
    BY <1>1 DEF StreamIndices, MessagesEnd
  <2> HIDE DEF ms
  <2>2. \A j \in 1 .. Len(ms) : Append(ms, msg)[j] = ms[j]
    BY <1>1
  <2> QED BY <1>2, <2>1, <2>2 DEF MessageAt, ms
<1>4. MessageAt(new, MessagesEnd(st)) = msg
  <2>1. MessagesEnd(st) - st.begin + 1 = Len(ms) + 1
    BY <1>1 DEF MessagesEnd
  <2> HIDE DEF ms
  <2>2. Append(ms, msg)[Len(ms) + 1] = msg
    BY <1>1
  <2> QED BY <1>2, <2>1, <2>2 DEF MessageAt
<1> QED BY <1>3, <1>4 DEF new

LEMMA CutMessages ==
  ASSUME NEW st \in StreamType, NEW i \in Nat, NEW j \in Nat,
         st.begin <= i, i <= MessagesEnd(st)
  PROVE  LET new == DiscardSignalsBefore(DiscardMessagesBefore(st, i), j)
         IN  \A k \in StreamIndices(new) : /\ k \in StreamIndices(st)
                                           /\ MessageAt(new, k) = MessageAt(st, k)
<1> DEFINE new == DiscardSignalsBefore(DiscardMessagesBefore(st, i), j)
           ms == st.messages
           from == i - st.begin + 1
<1>1. ms \in Seq(MessageType) /\ Len(ms) \in Nat /\ st.begin \in Nat
  BY StreamFields
<1>2. /\ new.messages = SubSeq(ms, from, Len(ms))
      /\ new.begin = i /\ MessagesEnd(new) = MessagesEnd(st)
  BY DiscardTypes
<1>3. from \in 1 .. Len(ms) + 1
  BY <1>1 DEF MessagesEnd
<1> HIDE DEF new
<1> SUFFICES ASSUME NEW k \in StreamIndices(new)
             PROVE  k \in StreamIndices(st) /\ MessageAt(new, k) = MessageAt(st, k)
  BY DEF new
<1>4. k \in Int /\ i <= k /\ k < MessagesEnd(st)
  <2>1. k \in i .. (MessagesEnd(st) - 1)
    BY <1>2 DEF StreamIndices
  <2>2. MessagesEnd(st) \in Nat
    BY StreamFields
  <2> QED BY <2>1, <2>2
<1>5. k \in StreamIndices(st)
  BY <1>1, <1>4 DEF StreamIndices, MessagesEnd
<1>6. /\ k - i + 1 \in 1 .. (Len(ms) - from + 1)
      /\ from + (k - i + 1) - 1 = k - st.begin + 1
  <2> DEFINE begin == st.begin
             n == Len(ms)
  <2>1. /\ begin \in Nat /\ n \in Nat /\ k \in Int /\ i <= k /\ k < begin + n /\ begin <= i
        /\ from = i - begin + 1
    BY <1>1, <1>4 DEF MessagesEnd
  <2> HIDE DEF begin, n, from
  <2>2. k - i + 1 \in 1 .. (n - from + 1) /\ from + (k - i + 1) - 1 = k - begin + 1
    BY <2>1
  <2> QED BY <2>2 DEF begin, n
<1> HIDE DEF ms, from
<1>7. \A n \in 1 .. (Len(ms) - from + 1) : SubSeq(ms, from, Len(ms))[n] = ms[from + n - 1]
  BY <1>1, <1>3
<1>8. MessageAt(new, k) = ms[k - st.begin + 1]
  <2>1. MessageAt(new, k) = SubSeq(ms, from, Len(ms))[k - i + 1]
    BY <1>2 DEF MessageAt
  <2>2. SubSeq(ms, from, Len(ms))[k - i + 1] = ms[from + (k - i + 1) - 1]
    BY <1>6, <1>7
  <2> QED BY <1>6, <2>1, <2>2
<1> QED BY <1>5, <1>8 DEF MessageAt, ms

-----------------------------------------------------------------------------
(* What they do to the messages on the way, for the two streams between a and b. *)

LEMMA IndexFacts ==
  ASSUME NEW F \in StreamType
  PROVE  /\ \A i : i \in StreamIndices(F) <=> i \in Nat /\ F.begin <= i /\ i < MessagesEnd(F)
         /\ \A i \in StreamIndices(F) : MessageAt(F, i) \in MessageType
<1>1. /\ F.begin \in Nat /\ Len(F.messages) \in Nat /\ F.messages \in Seq(MessageType)
      /\ MessagesEnd(F) = F.begin + Len(F.messages)
  BY StreamFields DEF MessagesEnd
<1>2. \A i : i \in StreamIndices(F) <=> i \in Nat /\ F.begin <= i /\ i < MessagesEnd(F)
  BY <1>1 DEF StreamIndices
<1>3. ASSUME NEW i \in StreamIndices(F) PROVE MessageAt(F, i) \in MessageType
  <2>1. i - F.begin + 1 \in 1 .. Len(F.messages)
    BY <1>1, <1>2
  <2> QED BY <1>1, <2>1 DEF MessageAt
<1> QED BY <1>2, <1>3

LEMMA PairPushed ==
  ASSUME NEW a, NEW b, NEW F \in StreamType, NEW F2 \in StreamType,
         NEW back \in StreamType, NEW back2 \in StreamType, NEW d \in {0, 1},
         Orderly(a, b, F, back),
         F2.begin = F.begin, MessagesEnd(F2) = MessagesEnd(F) + d,
         \A i \in StreamIndices(F) : MessageAt(F2, i) = MessageAt(F, i),
         d = 1 => Legit(a, b, MessageAt(F2, MessagesEnd(F))),
         back2.signals_end = back.signals_end, back2.reject_signals = back.reject_signals
  PROVE  /\ Orderly(a, b, F2, back2)
         /\ \A i \in Nat : OnWay(F2, back2, i) <=> OnWay(F, back, i) \/ (d = 1 /\ i = MessagesEnd(F))
<1>1. /\ MessagesEnd(F) \in Nat /\ F.begin \in Nat /\ F.begin <= MessagesEnd(F)
      /\ back.signals_end \in Nat /\ \A i \in back.reject_signals : i < back.signals_end
  BY StreamFields
<1>2. \A i : i \in StreamIndices(F2) <=> i \in StreamIndices(F) \/ (d = 1 /\ i = MessagesEnd(F))
  BY <1>1, IndexFacts
<1>3. /\ F.begin <= back.signals_end /\ back.signals_end <= MessagesEnd(F)
      /\ \A i \in StreamIndices(F) :
           /\ Legit(a, b, MessageAt(F, i))
           /\ i \in back.reject_signals => MessageAt(F, i).kind = "Response"
  BY DEF Orderly
<1>4. F2.begin <= back2.signals_end /\ back2.signals_end <= MessagesEnd(F2)
  BY <1>1, <1>3
<1>5. MessagesEnd(F) \notin back.reject_signals /\ MessagesEnd(F) >= back.signals_end
  BY <1>1, <1>3
<1>6. Orderly(a, b, F2, back2)
  BY <1>2, <1>3, <1>4, <1>5 DEF Orderly
<1>7. \A i \in Nat : OnWay(F2, back2, i) <=> OnWay(F, back, i) \/ (d = 1 /\ i = MessagesEnd(F))
  BY <1>2, <1>5 DEF OnWay
<1> QED BY <1>6, <1>7

\* back2 has the signal for the next message of F as well, if d = 1; that message is in
\* rejected, or else in gone.
OneMoreSignal(F, F2, back, back2, d, rejected, gone) ==
  /\ F2.begin = F.begin /\ F2.messages = F.messages
  /\ back2.signals_end = back.signals_end + d
  /\ back2.reject_signals = back.reject_signals \cup rejected
  /\ d = 0 => rejected = {} /\ gone = {}
  /\ d = 1 => /\ back.signals_end < MessagesEnd(F)
              /\ \/ rejected = {back.signals_end} /\ gone = {}
                 \/ rejected = {} /\ gone = {back.signals_end}
  /\ \A i \in rejected : MessageAt(F, i).kind = "Response"

OnWayLess(F, back, F2, back2, gone) ==
  \A i \in Nat : OnWay(F2, back2, i) <=> OnWay(F, back, i) /\ i \notin gone

LEMMA PairSignalled ==
  ASSUME NEW a, NEW b, NEW F \in StreamType, NEW F2 \in StreamType,
         NEW back \in StreamType, NEW back2 \in StreamType, NEW d \in {0, 1},
         NEW rejected, NEW gone,
         Orderly(a, b, F, back), OneMoreSignal(F, F2, back, back2, d, rejected, gone)
  PROVE  /\ Orderly(a, b, F2, back2)
         /\ OnWayLess(F, back, F2, back2, gone)
<1>0. /\ F2.begin = F.begin /\ F2.messages = F.messages
      /\ back2.signals_end = back.signals_end + d
      /\ back2.reject_signals = back.reject_signals \cup rejected
      /\ d = 0 => rejected = {} /\ gone = {}
      /\ d = 1 => /\ back.signals_end < MessagesEnd(F)
                  /\ \/ rejected = {back.signals_end} /\ gone = {}
                     \/ rejected = {} /\ gone = {back.signals_end}
      /\ \A i \in rejected : MessageAt(F, i).kind = "Response"
  BY DEF OneMoreSignal
<1>1. /\ MessagesEnd(F) \in Nat /\ F.begin \in Nat
      /\ back.signals_end \in Nat /\ \A i \in back.reject_signals : i < back.signals_end
  BY StreamFields
<1>2. /\ MessagesEnd(F2) = MessagesEnd(F) /\ StreamIndices(F2) = StreamIndices(F)
      /\ \A i : MessageAt(F2, i) = MessageAt(F, i)
  BY <1>0 DEF MessagesEnd, StreamIndices, MessageAt
<1>3. /\ F.begin <= back.signals_end /\ back.signals_end <= MessagesEnd(F)
      /\ \A i \in StreamIndices(F) :
           /\ Legit(a, b, MessageAt(F, i))
           /\ i \in back.reject_signals => MessageAt(F, i).kind = "Response"
  BY DEF Orderly
<1>4. F2.begin <= back2.signals_end /\ back2.signals_end <= MessagesEnd(F2)
  BY <1>0, <1>1, <1>2, <1>3
<1>5. Orderly(a, b, F2, back2)
  BY <1>0, <1>2, <1>3, <1>4 DEF Orderly
<1>6. ASSUME NEW i \in Nat
      PROVE  OnWay(F2, back2, i) <=> OnWay(F, back, i) /\ i \notin gone
  <2>1. CASE d = 0
    BY <1>0, <1>1, <1>2, <2>1 DEF OnWay
  <2>2. CASE d = 1 /\ rejected = {back.signals_end} /\ gone = {}
    <3>1. i >= back.signals_end + 1 \/ i = back.signals_end <=> i >= back.signals_end
      BY <1>1
    <3> QED BY <1>0, <1>2, <2>2, <3>1 DEF OnWay
  <2>3. CASE d = 1 /\ rejected = {} /\ gone = {back.signals_end}
    <3>1. i >= back.signals_end + 1 <=> i >= back.signals_end /\ i # back.signals_end
      BY <1>1
    <3>2. back.signals_end \notin back.reject_signals
      BY <1>1
    <3> QED BY <1>0, <1>2, <2>3, <3>1, <3>2 DEF OnWay
  <2> QED BY <1>0, <2>1, <2>2, <2>3
<1> QED BY <1>5, <1>6 DEF OnWayLess

LEMMA PairCut ==
  ASSUME NEW a, NEW b, NEW F \in StreamType, NEW F2 \in StreamType,
         NEW back \in StreamType, NEW back2 \in StreamType,
         Orderly(a, b, F, back),
         F.begin <= F2.begin, MessagesEnd(F2) = MessagesEnd(F),
         \A i \in StreamIndices(F2) : MessageAt(F2, i) = MessageAt(F, i),
         back2.signals_end = back.signals_end, F2.begin <= back.signals_end,
         \A i \in Nat : F2.begin <= i => (i \in back2.reject_signals <=> i \in back.reject_signals)
  PROVE  /\ Orderly(a, b, F2, back2)
         /\ \A i \in Nat : OnWay(F2, back2, i) <=> OnWay(F, back, i) /\ F2.begin <= i
<1>1. /\ MessagesEnd(F) \in Nat /\ F.begin \in Nat /\ F2.begin \in Nat
      /\ back.signals_end \in Nat
  BY StreamFields
<1>2. \A i : i \in StreamIndices(F2) <=> i \in StreamIndices(F) /\ F2.begin <= i
  BY <1>1, IndexFacts
<1>3. /\ back.signals_end <= MessagesEnd(F)
      /\ \A i \in StreamIndices(F) :
           /\ i \in Nat
           /\ Legit(a, b, MessageAt(F, i))
           /\ i \in back.reject_signals => MessageAt(F, i).kind = "Response"
  BY IndexFacts DEF Orderly
<1>4. Orderly(a, b, F2, back2)
  BY <1>2, <1>3 DEF Orderly
<1>5. \A i \in Nat : OnWay(F2, back2, i) <=> OnWay(F, back, i) /\ F2.begin <= i
  BY <1>2 DEF OnWay
<1> QED BY <1>4, <1>5

-----------------------------------------------------------------------------
(* The same for all streams. *)

Put(net, s, r, new) == [net EXCEPT ![s] = [net[s] EXCEPT ![r] = new]]

LEMMA PutAt ==
  ASSUME NEW net \in Nets, NEW s \in Subnets, NEW r \in Subnets, NEW new \in StreamType
  PROVE  /\ Put(net, s, r, new) \in Nets
         /\ \A a, b \in Subnets :
              Put(net, s, r, new)[a][b] = IF a = s /\ b = r THEN new ELSE net[a][b]
<1>1. net \in [Subnets -> [Subnets -> StreamType]] /\ net[s] \in [Subnets -> StreamType]
  BY DEF Nets
<1>2. [net[s] EXCEPT ![r] = new] \in [Subnets -> StreamType]
  BY <1>1
<1>3. \A b \in Subnets : [net[s] EXCEPT ![r] = new][b] = IF b = r THEN new ELSE net[s][b]
  BY <1>1
<1> DEFINE row == [net[s] EXCEPT ![r] = new]
<1> HIDE DEF row
<1>4. Put(net, s, r, new) = [net EXCEPT ![s] = row]
  BY DEF Put, row
<1>5. [net EXCEPT ![s] = row] \in Nets
  BY <1>1, <1>2 DEF Nets, row
<1>6. \A a, b \in Subnets : [net EXCEPT ![s] = row][a][b] = IF a = s THEN row[b] ELSE net[a][b]
  BY <1>1
<1> QED BY <1>3, <1>4, <1>5, <1>6 DEF row

LEMMA PlacesAre ==
  ASSUME NEW net, NEW k
  PROVE  \A p : p \in Places(net, k)
                  <=> \E a, b \in Subnets, i \in Nat : p = <<a, b, i>> /\ At(net, k, a, b, i)
<1> TAKE p
<1>1. ASSUME p \in Places(net, k)
      PROVE  \E a, b \in Subnets, i \in Nat : p = <<a, b, i>> /\ At(net, k, a, b, i)
  <2>1. p \in Subnets \X Subnets \X Nat /\ At(net, k, p[1], p[2], p[3])
    BY <1>1 DEF Places
  <2>2. p = <<p[1], p[2], p[3]>> /\ p[1] \in Subnets /\ p[2] \in Subnets /\ p[3] \in Nat
    BY <2>1
  <2> QED BY <2>1, <2>2
<1>2. ASSUME NEW a \in Subnets, NEW b \in Subnets, NEW i \in Nat, p = <<a, b, i>>,
             At(net, k, a, b, i)
      PROVE  p \in Places(net, k)
  <2>1. p \in Subnets \X Subnets \X Nat /\ p[1] = a /\ p[2] = b /\ p[3] = i
    BY <1>2
  <2> QED BY <1>2, <2>1 DEF Places
<1> QED BY <1>1, <1>2

LEMMA NetPushed ==
  ASSUME NEW net \in Nets, AllOrderly(net), NEW s \in Subnets, NEW r \in Subnets,
         NEW msg \in MessageType, Legit(s, r, msg)
  PROVE  LET new == Put(net, s, r, StreamPush(net[s][r], msg))
         IN  /\ new \in Nets /\ AllOrderly(new)
             /\ \A k : Places(new, k)
                         = Places(net, k)
                             \cup IF msg.call = k THEN {<<s, r, MessagesEnd(net[s][r])>>} ELSE {}
<1> DEFINE st == net[s][r]
           st2 == StreamPush(st, msg)
           new == Put(net, s, r, st2)
           end == MessagesEnd(st)
<1>1. \A a, b \in Subnets : net[a][b] \in StreamType
  BY DEF Nets
<1>2. /\ st2 \in StreamType /\ st2.begin = st.begin /\ st2.signals_end = st.signals_end
      /\ st2.reject_signals = st.reject_signals
      /\ MessagesEnd(st2) = end + 1 /\ end \in Nat
      /\ \A i \in StreamIndices(st) : MessageAt(st2, i) = MessageAt(st, i)
      /\ MessageAt(st2, end) = msg
  BY <1>1, StreamPushType, PushedMessages, StreamFields DEF OnlyPushed, Longer
<1>3. /\ new \in Nets
      /\ \A a, b \in Subnets : new[a][b] = IF a = s /\ b = r THEN st2 ELSE net[a][b]
  BY <1>2, PutAt
<1> HIDE DEF new, st2
<1>4. ASSUME NEW a \in Subnets, NEW b \in Subnets
      PROVE  /\ Orderly(a, b, new[a][b], new[b][a])
             /\ \A i \in Nat : OnWay(new[a][b], new[b][a], i)
                                 <=> \/ OnWay(net[a][b], net[b][a], i)
                                     \/ a = s /\ b = r /\ i = end
             /\ \A i \in StreamIndices(net[a][b]) : MessageAt(new[a][b], i) = MessageAt(net[a][b], i)
  <2> DEFINE F == net[a][b]
             F2 == new[a][b]
             back == net[b][a]
             back2 == new[b][a]
             d == IF a = s /\ b = r THEN 1 ELSE 0
  <2>1. F \in StreamType /\ F2 \in StreamType /\ back \in StreamType /\ back2 \in StreamType
    BY <1>1, <1>2, <1>3
  <2>2. MessagesEnd(F) \in Nat
    BY <2>1, StreamFields
  <2>3. /\ F2.begin = F.begin /\ MessagesEnd(F2) = MessagesEnd(F) + d
        /\ \A i \in StreamIndices(F) : MessageAt(F2, i) = MessageAt(F, i)
        /\ d = 1 => MessageAt(F2, MessagesEnd(F)) = msg /\ MessagesEnd(F) = end
        /\ d \in {0, 1} /\ (d = 1 <=> a = s /\ b = r)
    <3>1. CASE a = s /\ b = r
      <4>1. F2 = st2 /\ F = st
        BY <1>3, <3>1
      <4> HIDE DEF F, F2, st
      <4> QED BY <1>2, <3>1, <4>1
    <3>2. CASE ~(a = s /\ b = r)
      <4>1. F2 = F
        BY <1>3, <3>2
      <4> HIDE DEF F, F2
      <4> QED BY <2>2, <3>2, <4>1
    <3> QED BY <3>1, <3>2
  <2>4. back2.signals_end = back.signals_end /\ back2.reject_signals = back.reject_signals
    BY <1>2, <1>3
  <2>5. Orderly(a, b, F, back)
    BY DEF AllOrderly
  <2>6. d = 1 => Legit(a, b, MessageAt(F2, MessagesEnd(F)))
    <3> HIDE DEF F, F2, d
    <3> QED BY <2>3
  <2> HIDE DEF F, F2, back, back2, d
  <2>7. /\ Orderly(a, b, F2, back2)
        /\ \A i \in Nat : OnWay(F2, back2, i) <=> OnWay(F, back, i) \/ (d = 1 /\ i = MessagesEnd(F))
    BY <2>1, <2>3, <2>4, <2>5, <2>6, PairPushed
  <2>8. \A i \in Nat : OnWay(F2, back2, i) <=> OnWay(F, back, i) \/ (a = s /\ b = r /\ i = end)
    BY <2>3, <2>7
  <2> QED BY <2>3, <2>7, <2>8 DEF F, F2, back, back2
<1>5. AllOrderly(new)
  BY <1>4 DEF AllOrderly
<1>6. ASSUME NEW k, NEW a \in Subnets, NEW b \in Subnets, NEW i \in Nat
      PROVE  At(new, k, a, b, i)
               <=> At(net, k, a, b, i) \/ (msg.call = k /\ a = s /\ b = r /\ i = end)
  <2>1. OnWay(net[a][b], net[b][a], i) => i \in StreamIndices(net[a][b])
    BY DEF OnWay
  <2>2. CASE a = s /\ b = r /\ i = end
    <3>1. MessageAt(new[a][b], i) = msg
      BY <1>2, <1>3, <2>2
    <3>2. ~OnWay(net[a][b], net[b][a], i)
      <4>1. end \notin StreamIndices(st)
        BY <1>1, <1>2, IndexFacts
      <4> QED BY <2>1, <2>2, <4>1
    <3> QED BY <1>4, <2>2, <3>1, <3>2 DEF At
  <2>3. CASE ~(a = s /\ b = r /\ i = end)
    BY <1>4, <2>1, <2>3 DEF At
  <2> QED BY <2>2, <2>3
<1>7. ASSUME NEW k
      PROVE  Places(new, k) = Places(net, k) \cup IF msg.call = k THEN {<<s, r, end>>} ELSE {}
  <2> HIDE DEF end
  <2>1. ASSUME NEW p \in Places(new, k)
        PROVE  p \in Places(net, k) \/ (msg.call = k /\ p = <<s, r, end>>)
    BY <1>6, <2>1, PlacesAre
  <2>2. Places(net, k) \subseteq Places(new, k)
    BY <1>6, PlacesAre
  <2>3. msg.call = k => <<s, r, end>> \in Places(new, k)
    BY <1>2, <1>6, PlacesAre
  <2> QED BY <2>1, <2>2, <2>3
<1> QED BY <1>3, <1>5, <1>7 DEF new, st2

\* The message at index signals_end is signalled: accepted, or rejected.
Signalled(st, rejects) ==
  IF rejects THEN IncrementSignalsEnd(PushRejectSignal(st, st.signals_end))
  ELSE IncrementSignalsEnd(st)

LEMMA SignalledFields ==
  ASSUME NEW st \in StreamType, NEW rejects \in BOOLEAN
  PROVE  LET st2 == Signalled(st, rejects)
         IN  /\ st2 \in StreamType /\ st2.begin = st.begin /\ st2.messages = st.messages
             /\ st2.signals_end = st.signals_end + 1
             /\ st2.reject_signals = st.reject_signals
                                       \cup IF rejects THEN {st.signals_end} ELSE {}
<1>1. CASE rejects
  BY <1>1, Rejected DEF Signalled
<1>2. CASE ~rejects
  BY <1>2, Increased DEF Signalled
<1> QED BY <1>1, <1>2

LEMMA NetSignalled ==
  ASSUME NEW net \in Nets, AllOrderly(net), NEW s \in Subnets, NEW r \in Subnets,
         NEW rejects \in BOOLEAN,
         net[s][r].signals_end < MessagesEnd(net[r][s]),
         rejects => MessageAt(net[r][s], net[s][r].signals_end).kind = "Response"
  PROVE  LET new == Put(net, s, r, Signalled(net[s][r], rejects))
         IN  /\ new \in Nets /\ AllOrderly(new)
             /\ \A k : Places(new, k)
                         = Places(net, k)
                             \ IF rejects THEN {} ELSE {<<r, s, net[s][r].signals_end>>}
<1> DEFINE st == net[s][r]
           st2 == Signalled(st, rejects)
           new == Put(net, s, r, st2)
           e == st.signals_end
           rejected == IF rejects THEN {e} ELSE {}
           gone == IF rejects THEN {} ELSE {e}
<1>1. \A a, b \in Subnets : net[a][b] \in StreamType
  BY DEF Nets
<1>2. /\ st2 \in StreamType /\ st2.begin = st.begin /\ st2.messages = st.messages
      /\ st2.signals_end = e + 1 /\ e \in Nat
      /\ st2.reject_signals = st.reject_signals \cup rejected
  BY <1>1, SignalledFields, StreamFields
<1>3. /\ new \in Nets
      /\ \A a, b \in Subnets : new[a][b] = IF a = s /\ b = r THEN st2 ELSE net[a][b]
  BY <1>2, PutAt
<1>4. /\ \/ rejected = {e} /\ gone = {}
         \/ rejected = {} /\ gone = {e}
      /\ \A i \in rejected : MessageAt(net[r][s], i).kind = "Response"
      /\ e < MessagesEnd(net[r][s])
  OBVIOUS
<1> HIDE DEF new, st2, rejected, gone
<1>5. ASSUME NEW a \in Subnets, NEW b \in Subnets
      PROVE  /\ Orderly(a, b, new[a][b], new[b][a])
             /\ \A i \in Nat : OnWay(new[a][b], new[b][a], i)
                                 <=> /\ OnWay(net[a][b], net[b][a], i)
                                     /\ ~(b = s /\ a = r /\ i \in gone)
             /\ \A i : MessageAt(new[a][b], i) = MessageAt(net[a][b], i)
  <2> DEFINE F == net[a][b]
             F2 == new[a][b]
             back == net[b][a]
             back2 == new[b][a]
  <2>1. F \in StreamType /\ F2 \in StreamType /\ back \in StreamType /\ back2 \in StreamType
    BY <1>1, <1>2, <1>3
  <2>2. back.signals_end \in Nat /\ Orderly(a, b, F, back)
    BY <2>1, StreamFields DEF AllOrderly
  <2>3. F2.begin = F.begin /\ F2.messages = F.messages
    BY <1>2, <1>3
  <2>4. CASE b = s /\ a = r
    <3>1. back2 = st2 /\ back = st /\ F = net[r][s] /\ back.signals_end = e
      BY <1>3, <2>4
    <3> HIDE DEF F, F2, back, back2, e, st
    <3>2. OneMoreSignal(F, F2, back, back2, 1, rejected, gone)
      BY <1>2, <1>4, <2>3, <3>1 DEF OneMoreSignal
    <3>3. Orderly(a, b, F2, back2) /\ OnWayLess(F, back, F2, back2, gone)
      BY <2>1, <2>2, <3>2, PairSignalled
    <3>4. \A i : MessageAt(F2, i) = MessageAt(F, i)
      BY <2>3 DEF MessageAt
    <3> QED BY <2>4, <3>3, <3>4 DEF F, F2, back, back2, OnWayLess
  <2>5. CASE ~(b = s /\ a = r)
    <3>1. back2 = back
      BY <1>3, <2>5
    <3> HIDE DEF F, F2, back, back2, e, st
    <3>2. OneMoreSignal(F, F2, back, back2, 0, {}, {})
      BY <2>2, <2>3, <3>1 DEF OneMoreSignal
    <3>3. Orderly(a, b, F2, back2) /\ OnWayLess(F, back, F2, back2, {})
      BY <2>1, <2>2, <3>2, PairSignalled
    <3>4. \A i : MessageAt(F2, i) = MessageAt(F, i)
      BY <2>3 DEF MessageAt
    <3> QED BY <2>5, <3>3, <3>4 DEF F, F2, back, back2, OnWayLess
  <2> QED BY <2>4, <2>5
<1>6. AllOrderly(new)
  BY <1>5 DEF AllOrderly
<1>7. \A k : \A a, b \in Subnets, i \in Nat :
        At(new, k, a, b, i) <=> At(net, k, a, b, i) /\ ~(b = s /\ a = r /\ i \in gone)
  BY <1>5 DEF At
<1>8. ASSUME NEW k
      PROVE  Places(new, k) = Places(net, k) \ IF rejects THEN {} ELSE {<<r, s, e>>}
  <2> HIDE DEF e
  <2>1. \A i : i \in gone <=> ~rejects /\ i = e
    BY DEF gone
  <2>2. ASSUME NEW p \in Places(new, k)
        PROVE  p \in Places(net, k) /\ (rejects \/ p # <<r, s, e>>)
    BY <1>2, <1>7, <2>1, <2>2, PlacesAre
  <2>3. ASSUME NEW p \in Places(net, k), rejects \/ p # <<r, s, e>>
        PROVE  p \in Places(new, k)
    BY <1>7, <2>1, <2>3, PlacesAre
  <2> QED BY <2>2, <2>3
<1> QED BY <1>3, <1>6, <1>8 DEF new, st2

Cut(st, i, j) == DiscardSignalsBefore(DiscardMessagesBefore(st, i), j)

\* Messages before index i may go, as they are signalled; signals before j, as the
\* messages they are for are gone, too.
MayCut(net, s, r, i, j) ==
  /\ i \in Nat /\ j \in Nat
  /\ net[s][r].begin <= i /\ i <= net[r][s].signals_end
  /\ IF r = s THEN j <= i ELSE j <= net[r][s].begin

PlacesBefore(s, r, i) == {<<s, r, n>> : n \in {n \in Nat : n < i}}

LEMMA NetCut ==
  ASSUME NEW net \in Nets, AllOrderly(net), NEW s \in Subnets, NEW r \in Subnets,
         NEW i, NEW j, MayCut(net, s, r, i, j)
  PROVE  LET new == Put(net, s, r, Cut(net[s][r], i, j))
         IN  /\ new \in Nets /\ AllOrderly(new)
             /\ \A k : Places(new, k) = Places(net, k) \ PlacesBefore(s, r, i)
<1> USE DEF PlacesBefore
<1>0. /\ i \in Nat /\ j \in Nat
      /\ net[s][r].begin <= i /\ i <= net[r][s].signals_end
      /\ IF r = s THEN j <= i ELSE j <= net[r][s].begin
  BY DEF MayCut
<1> USE <1>0
<1> DEFINE st == net[s][r]
           st2 == Cut(st, i, j)
           new == Put(net, s, r, st2)
<1>1. \A a, b \in Subnets : net[a][b] \in StreamType /\ net[a][b].begin \in Nat
  BY StreamFields DEF Nets
<1>2. i <= MessagesEnd(st)
  <2>1. net[r][s].signals_end <= MessagesEnd(st)
    BY DEF AllOrderly, Orderly
  <2>2. net[r][s].signals_end \in Nat /\ MessagesEnd(st) \in Nat
    BY <1>1, StreamFields
  <2> QED BY <2>1, <2>2
<1>3. /\ st2 \in StreamType /\ st2.begin = i /\ st2.signals_end = st.signals_end
      /\ MessagesEnd(st2) = MessagesEnd(st)
      /\ st2.reject_signals = {n \in st.reject_signals : n >= j}
      /\ \A n \in StreamIndices(st2) : MessageAt(st2, n) = MessageAt(st, n)
  <2>1. st \in StreamType /\ st.begin <= i
    BY <1>1
  <2> HIDE DEF st
  <2>2. /\ st2 \in StreamType /\ st2.begin = i /\ st2.signals_end = st.signals_end
        /\ MessagesEnd(st2) = MessagesEnd(st)
        /\ st2.reject_signals = {n \in st.reject_signals : n >= j}
    BY <1>2, <2>1, DiscardTypes DEF Cut
  <2>3. \A n \in StreamIndices(st2) : MessageAt(st2, n) = MessageAt(st, n)
    BY <1>2, <2>1, CutMessages DEF Cut
  <2> QED BY <2>2, <2>3
<1>4. /\ new \in Nets
      /\ \A a, b \in Subnets : new[a][b] = IF a = s /\ b = r THEN st2 ELSE net[a][b]
  BY <1>3, PutAt
<1> HIDE DEF new, st2
<1>5. ASSUME NEW a \in Subnets, NEW b \in Subnets
      PROVE  /\ Orderly(a, b, new[a][b], new[b][a])
             /\ \A n \in Nat : OnWay(new[a][b], new[b][a], n)
                                 <=> /\ OnWay(net[a][b], net[b][a], n)
                                     /\ ~(a = s /\ b = r /\ n < i)
             /\ \A n \in Nat : OnWay(new[a][b], new[b][a], n)
                                 => MessageAt(new[a][b], n) = MessageAt(net[a][b], n)
  <2> DEFINE F == net[a][b]
             F2 == new[a][b]
             back == net[b][a]
             back2 == new[b][a]
  <2>1. F \in StreamType /\ F2 \in StreamType /\ back \in StreamType /\ back2 \in StreamType
    BY <1>1, <1>3, <1>4
  <2>2. Orderly(a, b, F, back)
    BY DEF AllOrderly
  <2>3. /\ F.begin \in Nat /\ back.signals_end \in Nat /\ F.begin <= back.signals_end
        /\ \A n \in StreamIndices(F) : n \in Nat /\ F.begin <= n
    BY <2>1, <2>2, StreamFields, IndexFacts DEF Orderly
  <2>4. /\ F.begin <= F2.begin /\ MessagesEnd(F2) = MessagesEnd(F)
        /\ F2.begin <= back.signals_end
        /\ \A n \in StreamIndices(F2) : MessageAt(F2, n) = MessageAt(F, n)
        /\ F2.begin = IF a = s /\ b = r THEN i ELSE F.begin
    <3>1. CASE a = s /\ b = r
      <4>1. F2 = st2 /\ F = st /\ back = net[r][s]
        BY <1>4, <3>1
      <4> HIDE DEF F, F2, back
      <4> QED BY <1>3, <3>1, <4>1
    <3>2. CASE ~(a = s /\ b = r)
      <4>1. F2 = F
        BY <1>4, <3>2
      <4> HIDE DEF F, F2, back
      <4> QED BY <2>3, <3>2, <4>1
    <3> QED BY <3>1, <3>2
  <2>5. /\ back2.signals_end = back.signals_end
        /\ \A n \in Nat : F2.begin <= n => (n \in back2.reject_signals <=> n \in back.reject_signals)
    <3>1. CASE b = s /\ a = r
      <4>1. back2 = st2 /\ back = st
        BY <1>4, <3>1
      <4>2. j <= F2.begin
        <5>1. CASE r = s
          BY <2>4, <3>1, <5>1
        <5>2. CASE r # s
          BY <2>4, <3>1, <5>2
        <5> QED BY <5>1, <5>2
      <4>3. F2.begin \in Nat
        BY <2>1, StreamFields
      <4> HIDE DEF F, F2, back, back2
      <4> QED BY <1>3, <4>1, <4>2, <4>3
    <3>2. CASE ~(b = s /\ a = r)
      <4>1. back2 = back
        BY <1>4, <3>2
      <4> HIDE DEF F, F2, back, back2
      <4> QED BY <4>1
    <3> QED BY <3>1, <3>2
  <2> HIDE DEF F, F2, back, back2
  <2>6. /\ Orderly(a, b, F2, back2)
        /\ \A n \in Nat : OnWay(F2, back2, n) <=> OnWay(F, back, n) /\ F2.begin <= n
    BY <2>1, <2>2, <2>4, <2>5, PairCut
  <2>7. ASSUME NEW n \in Nat
        PROVE  OnWay(F2, back2, n) <=> OnWay(F, back, n) /\ ~(a = s /\ b = r /\ n < i)
    <3>1. OnWay(F, back, n) => F.begin <= n
      BY <2>3 DEF OnWay
    <3>2. CASE a = s /\ b = r
      <4>1. F2.begin <= n <=> ~(n < i)
        BY <2>4, <3>2
      <4> QED BY <2>6, <3>2, <4>1
    <3>3. CASE ~(a = s /\ b = r)
      BY <2>4, <2>6, <3>1, <3>3
    <3> QED BY <3>2, <3>3
  <2>8. \A n \in Nat : OnWay(F2, back2, n) => MessageAt(F2, n) = MessageAt(F, n)
    BY <2>4 DEF OnWay
  <2> QED BY <2>6, <2>7, <2>8 DEF F, F2, back, back2
<1>6. AllOrderly(new)
  BY <1>5 DEF AllOrderly
<1>7. \A k : \A a, b \in Subnets, n \in Nat :
        At(new, k, a, b, n) <=> At(net, k, a, b, n) /\ ~(a = s /\ b = r /\ n < i)
  BY <1>5 DEF At
<1>8. ASSUME NEW k
      PROVE  Places(new, k) = Places(net, k) \ {<<s, r, n>> : n \in {n \in Nat : n < i}}
  <2> DEFINE gone == {<<s, r, n>> : n \in {n \in Nat : n < i}}
  <2>1. \A a, b, n : <<a, b, n>> \in gone <=> a = s /\ b = r /\ n \in Nat /\ n < i
    OBVIOUS
  <2> HIDE DEF gone
  <2>2. ASSUME NEW p \in Places(new, k) PROVE p \in Places(net, k) /\ p \notin gone
    BY <1>7, <2>1, <2>2, PlacesAre
  <2>3. ASSUME NEW p \in Places(net, k), p \notin gone PROVE p \in Places(new, k)
    BY <1>7, <2>1, <2>3, PlacesAre
  <2> QED BY <2>2, <2>3 DEF gone
<1> QED BY <1>4, <1>6, <1>8 DEF new, st2

-----------------------------------------------------------------------------
(* Old versions of a stream. *)

\* v has the header of an old version of the stream F, and messages of it from
\* index from on: a certified or pooled stream, or a slice.  Signals before index b
\* need not be the same, as they may have been dropped since.
View(v, from, F, b) ==
  /\ v.begin <= F.begin
  /\ v.signals_end <= F.signals_end
  /\ \A i \in Nat : b <= i /\ i < v.signals_end
                      => (i \in v.reject_signals <=> i \in F.reject_signals)
  /\ \A j \in 1 .. Len(v.messages) :
       F.begin <= from + j - 1 => /\ from + j - 1 < MessagesEnd(F)
                                  /\ v.messages[j] = MessageAt(F, from + j - 1)

\* The same for a whole stream, with indices.
LEMMA StreamView ==
  ASSUME NEW v \in StreamType, NEW F, NEW b, v.begin <= F.begin, v.signals_end <= F.signals_end,
         \A i \in Nat : b <= i /\ i < v.signals_end
                          => (i \in v.reject_signals <=> i \in F.reject_signals),
         \A i \in StreamIndices(v) :
           F.begin <= i => i < MessagesEnd(F) /\ MessageAt(v, i) = MessageAt(F, i)
  PROVE  View(v, v.begin, F, b)
<1> SUFFICES ASSUME NEW j \in 1 .. Len(v.messages), F.begin <= v.begin + j - 1
             PROVE  /\ v.begin + j - 1 < MessagesEnd(F)
                    /\ v.messages[j] = MessageAt(F, v.begin + j - 1)
  BY DEF View
<1> DEFINE i == v.begin + j - 1
<1>1. v.begin \in Nat /\ Len(v.messages) \in Nat /\ MessagesEnd(v) = v.begin + Len(v.messages)
  BY StreamFields DEF MessagesEnd
<1>2. i \in StreamIndices(v) /\ i - v.begin + 1 = j
  BY <1>1, IndexFacts
<1>3. MessageAt(v, i) = v.messages[j]
  BY <1>2 DEF MessageAt
<1> QED BY <1>2, <1>3

LEMMA ViewedMessage ==
  ASSUME NEW v \in StreamType, NEW F, NEW b, View(v, v.begin, F, b),
         NEW i \in StreamIndices(v), F.begin <= i
  PROVE  i < MessagesEnd(F) /\ MessageAt(v, i) = MessageAt(F, i)
<1> DEFINE j == i - v.begin + 1
<1>1. v.begin \in Nat /\ Len(v.messages) \in Nat /\ MessagesEnd(v) = v.begin + Len(v.messages)
  BY StreamFields DEF MessagesEnd
<1>2. j \in 1 .. Len(v.messages) /\ v.begin + j - 1 = i
  BY <1>1, IndexFacts
<1>3. MessageAt(v, i) = v.messages[j]
  BY DEF MessageAt
<1> HIDE DEF j
<1> QED BY <1>2, <1>3 DEF View

LEMMA ViewSelf ==
  ASSUME NEW v \in StreamType, NEW b
  PROVE  View(v, v.begin, v, b)
<1>1. v.begin \in Nat /\ v.signals_end \in Nat
  BY StreamFields
<1>2. \A i \in StreamIndices(v) : i < MessagesEnd(v)
  BY IndexFacts
<1>3. v.begin <= v.begin /\ v.signals_end <= v.signals_end
  BY <1>1
<1> QED BY <1>2, <1>3, StreamView, Zenon

LEMMA ViewTransitive ==
  ASSUME NEW v, NEW from \in Nat, v.begin \in Nat, v.signals_end \in Nat, Len(v.messages) \in Nat,
         NEW F \in StreamType, NEW F2 \in StreamType, NEW b \in Nat, NEW b2 \in Nat, b <= b2,
         View(v, from, F, b), View(F, F.begin, F2, b2)
  PROVE  View(v, from, F2, b2)
<1>1. /\ F.begin \in Nat /\ F2.begin \in Nat /\ F.signals_end \in Nat /\ F2.signals_end \in Nat
      /\ MessagesEnd(F) \in Nat
  BY StreamFields
<1>2. /\ v.begin <= F.begin /\ F.begin <= F2.begin
      /\ v.signals_end <= F.signals_end /\ F.signals_end <= F2.signals_end
  BY DEF View
<1>3. v.begin <= F2.begin /\ v.signals_end <= F2.signals_end
  BY <1>1, <1>2
<1>4. ASSUME NEW i \in Nat, b2 <= i, i < v.signals_end
      PROVE  i \in v.reject_signals <=> i \in F2.reject_signals
  <2>1. b <= i /\ i < F.signals_end
    BY <1>1, <1>2, <1>4
  <2> QED BY <1>4, <2>1 DEF View
<1>5. ASSUME NEW j \in 1 .. Len(v.messages), F2.begin <= from + j - 1
      PROVE  /\ from + j - 1 < MessagesEnd(F2)
             /\ v.messages[j] = MessageAt(F2, from + j - 1)
  <2> DEFINE i == from + j - 1
  <2>1. i \in Nat /\ F.begin <= i
    BY <1>1, <1>2, <1>5
  <2>2. i < MessagesEnd(F) /\ v.messages[j] = MessageAt(F, i)
    BY <2>1 DEF View
  <2>3. i \in StreamIndices(F)
    <3> HIDE DEF i
    <3> QED BY <2>1, <2>2, IndexFacts
  <2>4. F2.begin <= i
    BY <1>5
  <2> HIDE DEF i
  <2>5. i < MessagesEnd(F2) /\ MessageAt(F, i) = MessageAt(F2, i)
    BY <2>3, <2>4, ViewedMessage
  <2> QED BY <2>2, <2>5 DEF i
<1> QED BY <1>3, <1>4, <1>5 DEF View

LEMMA ViewPushed ==
  ASSUME NEW st \in StreamType, NEW msg \in MessageType, NEW b
  PROVE  View(st, st.begin, StreamPush(st, msg), b)
<1> DEFINE F == StreamPush(st, msg)
<1>1. /\ F.begin = st.begin /\ F.signals_end = st.signals_end
      /\ F.reject_signals = st.reject_signals /\ MessagesEnd(F) = MessagesEnd(st) + 1
      /\ \A i \in StreamIndices(st) : MessageAt(F, i) = MessageAt(st, i)
  BY StreamPushType, PushedMessages DEF OnlyPushed, Longer
<1>2. st.begin \in Nat /\ st.signals_end \in Nat /\ MessagesEnd(st) \in Nat
  BY StreamFields
<1> HIDE DEF F
<1>3. \A i \in StreamIndices(st) : i < MessagesEnd(F)
  BY <1>1, <1>2, IndexFacts
<1>4. st.begin <= F.begin /\ st.signals_end <= F.signals_end
  BY <1>1, <1>2
<1>5. View(st, st.begin, F, b)
  BY <1>1, <1>3, <1>4, StreamView, Zenon
<1> QED BY <1>5 DEF F

LEMMA ViewSignalled ==
  ASSUME NEW st \in StreamType, NEW rejects \in BOOLEAN, NEW b
  PROVE  View(st, st.begin, Signalled(st, rejects), b)
<1> DEFINE F == Signalled(st, rejects)
<1>1. /\ F.begin = st.begin /\ F.messages = st.messages
      /\ F.signals_end = st.signals_end + 1
      /\ F.reject_signals = st.reject_signals \cup IF rejects THEN {st.signals_end} ELSE {}
  BY SignalledFields
<1>2. st.begin \in Nat /\ st.signals_end \in Nat /\ MessagesEnd(st) \in Nat
  BY StreamFields
<1> HIDE DEF F
<1>3. MessagesEnd(F) = MessagesEnd(st) /\ \A i : MessageAt(F, i) = MessageAt(st, i)
  BY <1>1 DEF MessagesEnd, MessageAt
<1>4. \A i \in StreamIndices(st) : i < MessagesEnd(F)
  BY <1>2, <1>3, IndexFacts
<1>5. \A i \in Nat : i < st.signals_end => (i \in st.reject_signals <=> i \in F.reject_signals)
  BY <1>1, <1>2
<1>6. st.begin <= F.begin /\ st.signals_end <= F.signals_end
  BY <1>1, <1>2
<1>7. View(st, st.begin, F, b)
  BY <1>3, <1>4, <1>5, <1>6, StreamView
<1> QED BY <1>7 DEF F

LEMMA ViewCut ==
  ASSUME NEW st \in StreamType, NEW i \in Nat, NEW j \in Nat, NEW b \in Nat,
         st.begin <= i, i <= MessagesEnd(st), j <= b
  PROVE  View(st, st.begin, Cut(st, i, j), b)
<1> DEFINE F == Cut(st, i, j)
<1>1. /\ F.begin = i /\ F.signals_end = st.signals_end
      /\ MessagesEnd(F) = MessagesEnd(st)
      /\ F.reject_signals = {n \in st.reject_signals : n >= j}
      /\ \A n \in StreamIndices(F) : MessageAt(F, n) = MessageAt(st, n)
      /\ F \in StreamType
  BY DiscardTypes, CutMessages DEF Cut
<1>2. st.begin \in Nat /\ st.signals_end \in Nat /\ MessagesEnd(st) \in Nat
  BY StreamFields
<1> HIDE DEF F
<1>3. \A n \in StreamIndices(st) :
        F.begin <= n => n < MessagesEnd(F) /\ MessageAt(st, n) = MessageAt(F, n)
  BY <1>1, <1>2, IndexFacts
<1>4. \A n \in Nat : b <= n => (n \in st.reject_signals <=> n \in F.reject_signals)
  BY <1>1
<1>5. st.begin <= F.begin /\ st.signals_end <= F.signals_end
  BY <1>1, <1>2
<1>6. View(st, st.begin, F, b)
  BY <1>3, <1>4, <1>5, StreamView
<1> QED BY <1>6 DEF F

-----------------------------------------------------------------------------
(* Hosts of the canisters. *)

\* Where the canisters are, by the routing tables of the two subnets concerned.
AtHosts ==
  /\ \A c \in Canisters : c # Mover => at[c] = Home[c]
  /\ Mover # None =>
       /\ registry[Target] = 1 => registry[Home[Mover]] = 1
       /\ at[Mover] = IF registry[Home[Mover]] = 0 THEN Home[Mover]
                      ELSE IF registry[Target] = 0 THEN None ELSE Target

LEMMA HostsAre ==
  ASSUME AtHosts, registry \in [Subnets -> 0 .. 1], NEW c \in Canisters
  PROVE  /\ Hosts(c) \subseteq Subnets
         /\ at[c] # None => at[c] \in Hosts(c)
         /\ \A s \in Subnets :
              /\ Route(s, c) \in Hosts(c)
              /\ s \in Hosts(c) /\ Route(s, c) = s => at[c] = s
              /\ s \in Hosts(c) /\ Route(s, c) # s => OnPath(c, s, Route(s, c))
              /\ \A r \in Hosts(c) : Route(s, c) = r \/ OnPath(c, r, Route(s, c))
<1>1. Home[c] \in Subnets /\ c # None
  BY XNetAssumption
<1>2. CASE c # Mover
  BY <1>1, <1>2 DEF AtHosts, Hosts, Route, OnPath
<1>3. CASE c = Mover
  <2>1. Mover # None /\ Target \in Subnets /\ Target # Home[c] /\ Hosts(c) = {Home[c], Target}
    BY <1>1, <1>3, XNetAssumption DEF Hosts
  <2>2. /\ registry[Target] = 1 => registry[Home[c]] = 1
        /\ at[c] = IF registry[Home[c]] = 0 THEN Home[c]
                   ELSE IF registry[Target] = 0 THEN None ELSE Target
    BY <1>3, <2>1 DEF AtHosts
  <2>3. \A s \in Subnets : Route(s, c) = IF registry[s] = 1 THEN Target ELSE Home[c]
    BY <1>3 DEF Route
  <2>4. \A s \in Subnets : registry[s] = 0 \/ registry[s] = 1
    OBVIOUS
  <2>5. \A a, b : OnPath(c, a, b) <=> a \in Hosts(c) /\ b \in Hosts(c)
    BY <1>3, <2>1 DEF OnPath
  <2> QED BY <1>1, <2>1, <2>2, <2>3, <2>4, <2>5
<1> QED BY <1>2, <1>3

-----------------------------------------------------------------------------
(* The state while subnet s executes a block; base are the streams before it. *)

Net(base, s, x) == [base EXCEPT ![s] = x.streams]

\* Every stream is an old one with more messages or signals, or cut.
Reached(base, s, x) ==
  \A q \in Others(s) : View(base[s][q], base[s][q].begin, x.streams[q], base[q][s].begin)

\* The requests in new were in st at the same index.
SameRequests(st, new) ==
  \A i \in StreamIndices(new) :
    MessageAt(new, i).kind = "Request" =>
      i \in StreamIndices(st) /\ MessageAt(st, i) = MessageAt(new, i)

\* Request k has been taken from a stream to s: it is no longer on the way.
TakenFrom(base, s, x, k) ==
  /\ at[Callee[k]] = s
  /\ \E a \in Subnets : \E i \in StreamIndices(base[a][s]) :
       /\ MessageAt(base[a][s], i) = Request(k)
       /\ base[s][a].signals_end <= i /\ i < x.streams[a].signals_end

\* No request has been added or moved, and the ones received since the beginning of
\* the block have been signalled.
InTurn(base, s, x) ==
  /\ \A q \in Subnets : /\ base[s][q].signals_end <= x.streams[q].signals_end
                        /\ SameRequests(base[s][q], x.streams[q])
  /\ \A k \in Calls : /\ x.call[k] = "idle" <=> call[k] = "idle"
                      /\ x.work[k] # "none" /\ work[k] = "none" => TakenFrom(base, s, x, k)

\* Messages in hand are to be rerouted.
Sound(base, s, x, hand) ==
  /\ x \in Working
  /\ InTurn(base, s, x)
  /\ AllOrderly(Net(base, s, x))
  /\ AllInOnePlace(Net(base, s, x), x.call, x.work, hand)
  /\ OrphansOnly(x.call, x.lost)
  /\ Reached(base, s, x)

LEMMA NetIs ==
  ASSUME NEW base \in Nets, NEW s \in Subnets, NEW x \in Working
  PROVE  /\ Net(base, s, x) \in Nets
         /\ \A a, b \in Subnets : Net(base, s, x)[a][b] = IF a = s THEN x.streams[b] ELSE base[a][b]
<1>1. base \in [Subnets -> [Subnets -> StreamType]] /\ x.streams \in [Subnets -> StreamType]
  BY DEF Nets, Working
<1> DEFINE row == x.streams
<1>2. Net(base, s, x) = [base EXCEPT ![s] = row]
  BY DEF Net
<1> HIDE DEF row
<1>3. row \in [Subnets -> StreamType]
  BY <1>1 DEF row
<1>4. Net(base, s, x) \in [Subnets -> [Subnets -> StreamType]]
  BY <1>1, <1>2, <1>3
<1>5. \A a, b \in Subnets : Net(base, s, x)[a][b] = IF a = s THEN row[b] ELSE base[a][b]
  BY <1>1, <1>2
<1> QED BY <1>4, <1>5 DEF Nets, row

WithStream(x, r, new) == [x EXCEPT !.streams = [x.streams EXCEPT ![r] = new]]

LEMMA WithStreamIs ==
  ASSUME NEW base \in Nets, NEW s \in Subnets, NEW x \in Working, NEW r \in Subnets,
         NEW new \in StreamType
  PROVE  LET y == WithStream(x, r, new)
         IN  /\ y \in Working
             /\ y.call = x.call /\ y.work = x.work /\ y.lost = x.lost
             /\ \A q \in Subnets : y.streams[q] = IF q = r THEN new ELSE x.streams[q]
             /\ Net(base, s, y) = Put(Net(base, s, x), s, r, new)
<1> DEFINE y == WithStream(x, r, new)
           row == [x.streams EXCEPT ![r] = new]
<1>1. x.streams \in [Subnets -> StreamType]
  BY DEF Working
<1>2. row \in [Subnets -> StreamType] /\ \A q \in Subnets : row[q] = IF q = r THEN new ELSE x.streams[q]
  BY <1>1
<1>3. y = [x EXCEPT !.streams = row]
  BY DEF WithStream
<1> HIDE DEF row
<1>4. /\ y \in Working /\ y.streams = row
      /\ y.call = x.call /\ y.work = x.work /\ y.lost = x.lost
  BY <1>2, <1>3 DEF Working
<1> HIDE DEF y
<1>5. Net(base, s, y) = Put(Net(base, s, x), s, r, new)
  <2>1. base \in [Subnets -> [Subnets -> StreamType]]
    BY DEF Nets
  <2> DEFINE old == x.streams
  <2>2. /\ Net(base, s, x) = [base EXCEPT ![s] = old]
        /\ Net(base, s, y) = [base EXCEPT ![s] = row]
        /\ row = [old EXCEPT ![r] = new]
    BY <1>4 DEF Net, row
  <2>3. Put(Net(base, s, x), s, r, new)
          = [Net(base, s, x) EXCEPT ![s] = [Net(base, s, x)[s] EXCEPT ![r] = new]]
    BY DEF Put
  <2> HIDE DEF old
  <2>4. Net(base, s, x)[s] = old
    BY <2>1, <2>2
  <2>5. [[base EXCEPT ![s] = old] EXCEPT ![s] = row] = [base EXCEPT ![s] = row]
    BY <2>1
  <2> QED BY <2>2, <2>3, <2>4, <2>5
<1> QED BY <1>2, <1>4, <1>5 DEF y, row

\* Every further step is a view, too.
LEMMA ReachedThen ==
  ASSUME NEW base \in Nets, NEW s \in Subnets, NEW x \in Working, NEW y \in Working,
         Reached(base, s, x),
         \A q \in Others(s) : \/ y.streams[q] = x.streams[q]
                              \/ View(x.streams[q], x.streams[q].begin, y.streams[q], base[q][s].begin)
  PROVE  Reached(base, s, y)
<1> SUFFICES ASSUME NEW q \in Others(s)
             PROVE  View(base[s][q], base[s][q].begin, y.streams[q], base[q][s].begin)
  BY DEF Reached
<1> DEFINE v == base[s][q]
           F == x.streams[q]
           F2 == y.streams[q]
           b == base[q][s].begin
<1>1. q \in Subnets
  BY DEF Others
<1>2. v \in StreamType /\ F \in StreamType /\ F2 \in StreamType /\ b \in Nat
  BY <1>1, StreamFields DEF Nets, Working
<1>3. View(v, v.begin, F, b)
  BY DEF Reached
<1>4. F2 = F \/ View(F, F.begin, F2, b)
  OBVIOUS
<1>5. v.begin \in Nat /\ v.signals_end \in Nat /\ Len(v.messages) \in Nat
  BY <1>2, StreamFields
<1> HIDE DEF v, F, F2, b
<1>6. b <= b
  BY <1>2
<1>7. View(v, v.begin, F2, b)
  BY <1>2, <1>3, <1>4, <1>5, <1>6, ViewTransitive
<1> QED BY <1>7 DEF v, F2, b

LEMMA SameRequestsTransitive ==
  ASSUME NEW v, NEW F, NEW F2, SameRequests(v, F), SameRequests(F, F2)
  PROVE  SameRequests(v, F2)
<1> SUFFICES ASSUME NEW i \in StreamIndices(F2), MessageAt(F2, i).kind = "Request"
             PROVE  i \in StreamIndices(v) /\ MessageAt(v, i) = MessageAt(F2, i)
  BY DEF SameRequests
<1>1. i \in StreamIndices(F) /\ MessageAt(F, i) = MessageAt(F2, i)
  BY DEF SameRequests
<1> QED BY <1>1 DEF SameRequests

\* A step that replaces one stream.
LEMMA InTurnThen ==
  ASSUME NEW base \in Nets, NEW s \in Subnets, NEW x \in Working, NEW y \in Working,
         InTurn(base, s, x), NEW r \in Subnets, NEW new \in StreamType,
         \A q \in Subnets : y.streams[q] = IF q = r THEN new ELSE x.streams[q],
         x.streams[r].signals_end <= new.signals_end, SameRequests(x.streams[r], new),
         \A k \in Calls : /\ y.call[k] = "idle" <=> x.call[k] = "idle"
                          /\ y.work[k] = x.work[k] \/ TakenFrom(base, s, y, k)
  PROVE  InTurn(base, s, y)
<1>1. ASSUME NEW q \in Subnets
      PROVE  /\ base[s][q].signals_end \in Nat /\ x.streams[q].signals_end \in Nat
             /\ y.streams[q].signals_end \in Nat
             /\ base[s][q].signals_end <= x.streams[q].signals_end
             /\ SameRequests(base[s][q], x.streams[q])
             /\ x.streams[q].signals_end <= y.streams[q].signals_end
  <2>1. base[s][q] \in StreamType /\ x.streams[q] \in StreamType /\ y.streams[q] \in StreamType
    BY DEF Nets, Working
  <2>2. /\ base[s][q].signals_end \in Nat /\ x.streams[q].signals_end \in Nat
        /\ y.streams[q].signals_end \in Nat
    BY <2>1, StreamFields
  <2>3. x.streams[q].signals_end <= y.streams[q].signals_end
    BY <2>2
  <2> QED BY <2>2, <2>3 DEF InTurn
<1>2. ASSUME NEW q \in Subnets
      PROVE  /\ base[s][q].signals_end <= y.streams[q].signals_end
             /\ SameRequests(base[s][q], y.streams[q])
  <2>1. base[s][q].signals_end <= y.streams[q].signals_end
    BY <1>1
  <2>2. CASE q = r
    BY <1>1, <2>2, <2>1, SameRequestsTransitive
  <2>3. CASE q # r
    BY <1>1, <2>3, <2>1
  <2> QED BY <2>2, <2>3
<1>3. ASSUME NEW k \in Calls, y.work[k] # "none", work[k] = "none" PROVE TakenFrom(base, s, y, k)
  <2>1. CASE TakenFrom(base, s, y, k)
    BY <2>1
  <2>2. CASE y.work[k] = x.work[k]
    <3>1. TakenFrom(base, s, x, k)
      BY <1>3, <2>2 DEF InTurn
    <3>2. PICK a \in Subnets :
            \E i \in StreamIndices(base[a][s]) :
              /\ MessageAt(base[a][s], i) = Request(k)
              /\ base[s][a].signals_end <= i /\ i < x.streams[a].signals_end
      BY <3>1 DEF TakenFrom
    <3>3. PICK i \in StreamIndices(base[a][s]) :
            /\ MessageAt(base[a][s], i) = Request(k)
            /\ base[s][a].signals_end <= i /\ i < x.streams[a].signals_end
      BY <3>2
    <3>4. base[a][s] \in StreamType
      BY DEF Nets
    <3>5. i \in Nat
      BY <3>4, IndexFacts
    <3>6. i < y.streams[a].signals_end
      BY <1>1, <3>3, <3>5
    <3> QED BY <3>1, <3>3, <3>6 DEF TakenFrom
  <2> QED BY <2>1, <2>2
<1>4. \A k \in Calls : y.call[k] = "idle" <=> call[k] = "idle"
  BY DEF InTurn
<1> QED BY <1>2, <1>3, <1>4 DEF InTurn

\* What is pushed is a response.
LEMMA PushedSame ==
  ASSUME NEW st \in StreamType, NEW msg \in MessageType, msg.kind # "Request"
  PROVE  SameRequests(st, StreamPush(st, msg))
<1> DEFINE new == StreamPush(st, msg)
<1>1. /\ new \in StreamType /\ new.begin = st.begin /\ MessagesEnd(new) = MessagesEnd(st) + 1
      /\ st.begin \in Nat /\ MessagesEnd(st) \in Nat
  BY StreamPushType, StreamFields DEF OnlyPushed, Longer
<1>2. /\ \A i \in StreamIndices(st) : MessageAt(new, i) = MessageAt(st, i)
      /\ MessageAt(new, MessagesEnd(st)) = msg
  BY PushedMessages
<1> HIDE DEF new
<1>3. \A i \in StreamIndices(new) : i \in StreamIndices(st) \/ i = MessagesEnd(st)
  BY <1>1, IndexFacts
<1>4. SameRequests(st, new)
  BY <1>2, <1>3 DEF SameRequests
<1> QED BY <1>4 DEF new

LEMMA SignalledSame ==
  ASSUME NEW st \in StreamType, NEW new \in StreamType,
         new.begin = st.begin, new.messages = st.messages
  PROVE  SameRequests(st, new)
BY DEF SameRequests, StreamIndices, MessagesEnd, MessageAt

-----------------------------------------------------------------------------
(* Induction of one message. *)

LEMMA WithStreamTwice ==
  ASSUME NEW x \in Working, NEW r \in Subnets, NEW a, NEW b
  PROVE  /\ [x EXCEPT !.streams[r] = a] = WithStream(x, r, a)
         /\ WithStream(x, r, a).streams[r] = a
         /\ [WithStream(x, r, a) EXCEPT !.streams[r] = b] = WithStream(x, r, b)
<1> DEFINE row == x.streams
           ra == [row EXCEPT ![r] = a]
           rb == [row EXCEPT ![r] = b]
           z == [x EXCEPT !.streams = ra]
<1>1. row \in [Subnets -> StreamType]
  BY DEF Working
<1>2. [x EXCEPT !.streams[r] = a] = z /\ z.streams = ra
  BY DEF Working
<1>3. WithStream(x, r, a) = z /\ WithStream(x, r, b) = [x EXCEPT !.streams = rb]
  BY DEF WithStream
<1>4. ra[r] = a /\ [ra EXCEPT ![r] = b] = rb
  BY <1>1
<1>5. [z EXCEPT !.streams[r] = b] = [z EXCEPT !.streams = [z.streams EXCEPT ![r] = b]]
  <2> HIDE DEF z
  <2> QED OBVIOUS
<1>6. [z EXCEPT !.streams = rb] = [x EXCEPT !.streams = rb]
  <2> HIDE DEF rb, ra, row
  <2> QED BY DEF Working
<1>7. [z EXCEPT !.streams = [z.streams EXCEPT ![r] = b]] = [z EXCEPT !.streams = rb]
  <2> HIDE DEF z, ra, rb
  <2> QED BY <1>2, <1>4
<1> HIDE DEF z, ra, rb, row
<1> QED BY <1>2, <1>3, <1>4, <1>5, <1>6, <1>7

LEMMA PushInputIs ==
  ASSUME NEW x \in Working, NEW msg \in MessageType
  PROVE  LET y == PushInput(x, msg)
         IN  /\ y \in Working /\ y.streams = x.streams /\ y.lost = x.lost
             /\ msg.kind = "Request" => /\ y.call = x.call
                                        /\ y.work = [x.work EXCEPT ![msg.call] = "held"]
<1>1. msg.call \in Calls
  BY Types
<1>2. msg.kind = "Request" => /\ PushInput(x, msg).call = x.call
                              /\ PushInput(x, msg).work = [x.work EXCEPT ![msg.call] = "held"]
  BY <1>1 DEF Working, PushInput
<1> QED BY <1>2, PushInputType

\* A response that push_input takes ends its call, and perhaps orphans another.
LEMMA ResponseTaken ==
  ASSUME NEW x \in Working, NEW msg \in MessageType, msg.kind # "Request",
         Matching(x, msg.call) # {}
  PROVE  LET y == PushInput(x, msg)
         IN  /\ y.work = x.work
             /\ y.call[msg.call] \in {"done", "gone"}
             /\ \A j \in Calls : j # msg.call =>
                  y.call[j] = x.call[j] \/ (x.call[j] = "open" /\ y.call[j] = "orphaned")
<1> DEFINE k == msg.call
           met == CHOOSE j \in Matching(x, k) : TRUE
           y == PushInput(x, msg)
           cs == IF met = k THEN [x.call EXCEPT ![k] = "done"]
                 ELSE [[x.call EXCEPT ![met] = "orphaned"] EXCEPT ![k] = "gone"]
<1>1. met \in Matching(x, k)
  OBVIOUS
<1>2. met \in Calls /\ x.call[met] = "open"
  BY <1>1 DEF Matching
<1>3. k \in Calls /\ x.call \in [Calls -> CallStates]
  BY Types DEF Working
<1>4. y = WithCall(x, cs)
  BY ResponsePushed
<1> HIDE DEF met, k, y
<1>5. cs \in [Calls -> CallStates]
  BY <1>3 DEF CallStates
<1>6. y.work = x.work /\ y.call = cs
  <2> HIDE DEF cs
  <2> QED BY <1>4, <1>5, WithCallIs
<1>7. cs[k] \in {"done", "gone"}
  BY <1>3
<1>8. \A j \in Calls : j # k => cs[j] = x.call[j] \/ (x.call[j] = "open" /\ cs[j] = "orphaned")
  BY <1>2, <1>3
<1> HIDE DEF cs
<1> QED BY <1>6, <1>7, <1>8 DEF y, k

\* The message is accepted; or a response finds no callback and is dropped; or a request
\* is refused with a response; or a response is rejected.
LEMMA InductCases ==
  ASSUME AtHosts, registry \in [Subnets -> 0 .. 1],
         NEW s \in Subnets, NEW r \in Subnets, NEW full, NEW x \in Working,
         NEW msg \in MessageType, Legit(r, s, msg)
  PROVE  LET st == x.streams[r]
             y  == InductMessage(s, r, full, x, msg)
         IN  \/ /\ at[Receiver(msg)] = s
                /\ msg.kind = "Request" \/ Matching(x, msg.call) # {}
                /\ y = WithStream(PushInput(x, msg), r, Signalled(st, FALSE))
             \/ /\ at[Receiver(msg)] = s
                /\ msg.kind # "Request" /\ Matching(x, msg.call) = {}
                /\ y = WithStream(DropResponse(x, msg), r, Signalled(st, FALSE))
             \/ /\ msg.kind = "Request"
                /\ y = WithStream(x, r, Signalled(StreamPush(st, Response(msg.call)), FALSE))
             \/ /\ msg.kind # "Request"
                /\ y = WithStream(x, r, Signalled(st, TRUE))
<1> DEFINE st == x.streams[r]
           y == InductMessage(s, r, full, x, msg)
           host == Route(s, Receiver(msg))
           Done(z) == [z EXCEPT !.streams[r] = IncrementSignalsEnd(@)]
           refuse == [x EXCEPT !.streams[r] = StreamPush(@, Response(msg.call))]
           reject == [x EXCEPT !.streams[r] = PushRejectSignal(@, st.signals_end)]
<1>1. Sender(msg) \in Canisters /\ Receiver(msg) \in Canisters
  BY Types
<1>2. r \in Hosts(Sender(msg)) /\ s \in Hosts(Receiver(msg))
  BY DEF Legit
<1>3. ShouldAcceptMessageFrom(s, msg, r)
  BY <1>1, <1>2, HostsAre DEF ShouldAcceptMessageFrom
<1>4. host = s => at[Receiver(msg)] = s
  BY <1>1, <1>2, HostsAre
<1>5. host # s => ShouldRerouteMessageTo(s, msg, host)
  BY <1>1, <1>2, HostsAre DEF ShouldRerouteMessageTo
<1>6. host = s /\ msg.kind # "Request" =>
        (CanPushInput(s, x, msg, full) <=> Matching(x, msg.call) # {})
  BY <1>4 DEF CanPushInput
<1>7. \/ /\ at[Receiver(msg)] = s /\ y = Done(PushInput(x, msg))
         /\ msg.kind = "Request" \/ Matching(x, msg.call) # {}
      \/ /\ at[Receiver(msg)] = s /\ y = Done(DropResponse(x, msg))
         /\ msg.kind # "Request" /\ Matching(x, msg.call) = {}
      \/ msg.kind = "Request" /\ y = Done(refuse)
      \/ msg.kind # "Request" /\ y = Done(reject)
  <2> HIDE DEF refuse, reject, Done
  <2>1. y = LET z == IF host = s
                       THEN IF CanPushInput(s, x, msg, full) THEN PushInput(x, msg)
                            ELSE IF msg.kind = "Request" THEN refuse ELSE DropResponse(x, msg)
                     ELSE IF msg.kind = "Request" THEN refuse ELSE reject
            IN  Done(z)
    BY <1>3, <1>5, Zenon DEF InductMessage, refuse, reject, Done
  <2> HIDE DEF y
  <2> QED BY <1>4, <1>6, <2>1, Zenon
<1>8. ASSUME NEW z \in Working PROVE Done(z) = WithStream(z, r, IncrementSignalsEnd(z.streams[r]))
  <2>1. Done(z) = [z EXCEPT !.streams[r] = IncrementSignalsEnd(z.streams[r])]
    OBVIOUS
  <2>2. [z EXCEPT !.streams[r] = IncrementSignalsEnd(z.streams[r])]
          = WithStream(z, r, IncrementSignalsEnd(z.streams[r]))
    BY WithStreamTwice
  <2> QED BY <2>1, <2>2
<1>9. Done(PushInput(x, msg)) = WithStream(PushInput(x, msg), r, Signalled(st, FALSE))
  <2>1. PushInput(x, msg) \in Working /\ PushInput(x, msg).streams[r] = st
    BY PushInputIs
  <2> HIDE DEF Done, st
  <2> QED BY <1>8, <2>1 DEF Signalled
<1>14. Done(DropResponse(x, msg)) = WithStream(DropResponse(x, msg), r, Signalled(st, FALSE))
  <2>1. DropResponse(x, msg) \in Working /\ DropResponse(x, msg).streams[r] = st
    BY DropResponseType
  <2> HIDE DEF Done, st
  <2> QED BY <1>8, <2>1 DEF Signalled
<1>10. ASSUME NEW a PROVE Done(WithStream(x, r, a)) = WithStream(x, r, IncrementSignalsEnd(a))
  <2>1. WithStream(x, r, a).streams[r] = a
    BY WithStreamTwice
  <2>2. [WithStream(x, r, a) EXCEPT !.streams[r] = IncrementSignalsEnd(a)]
          = WithStream(x, r, IncrementSignalsEnd(a))
    BY WithStreamTwice
  <2> QED BY <2>1, <2>2, Zenon
<1>11. Done(refuse) = WithStream(x, r, Signalled(StreamPush(st, Response(msg.call)), FALSE))
  <2> DEFINE a == StreamPush(st, Response(msg.call))
  <2>0. refuse = [x EXCEPT !.streams[r] = a]
    OBVIOUS
  <2>1. refuse = WithStream(x, r, a)
    <3> HIDE DEF a
    <3> QED BY <2>0, WithStreamTwice
  <2> HIDE DEF refuse, Done, st
  <2> QED BY <1>10, <2>1 DEF Signalled
<1>12. Done(reject) = WithStream(x, r, Signalled(st, TRUE))
  <2> DEFINE a == PushRejectSignal(st, st.signals_end)
  <2>0. reject = [x EXCEPT !.streams[r] = a]
    OBVIOUS
  <2>1. reject = WithStream(x, r, a)
    <3> HIDE DEF a
    <3> QED BY <2>0, WithStreamTwice
  <2> HIDE DEF reject, Done, st
  <2> QED BY <1>10, <2>1 DEF Signalled
<1> HIDE DEF y, Done, refuse, reject, st
<1>13. \/ /\ at[Receiver(msg)] = s
          /\ msg.kind = "Request" \/ Matching(x, msg.call) # {}
          /\ y = WithStream(PushInput(x, msg), r, Signalled(st, FALSE))
       \/ /\ at[Receiver(msg)] = s
          /\ msg.kind # "Request" /\ Matching(x, msg.call) = {}
          /\ y = WithStream(DropResponse(x, msg), r, Signalled(st, FALSE))
       \/ /\ msg.kind = "Request"
          /\ y = WithStream(x, r, Signalled(StreamPush(st, Response(msg.call)), FALSE))
       \/ msg.kind # "Request" /\ y = WithStream(x, r, Signalled(st, TRUE))
  BY <1>7, <1>9, <1>11, <1>12, <1>14
<1> QED BY <1>13 DEF y, st

\* A message on the way says where its call is.
LEMMA Located ==
  ASSUME NEW net, NEW cs, NEW ws, NEW hand, AllInOnePlace(net, cs, ws, hand),
         NEW k \in Calls, NEW p \in Places(net, k)
  PROVE  /\ Pending(cs[k]) /\ ws[k] # "held"
         /\ Places(net, k) = {p} /\ InHand(hand, k) = {}
         /\ \A j : j # k => p \notin Places(net, j)
<1>1. InOnePlace(Pending(cs[k]), ws[k] = "held", Places(net, k), InHand(hand, k))
  BY DEF AllInOnePlace
<1>2. /\ Pending(cs[k]) /\ ws[k] # "held"
      /\ Places(net, k) = {p} /\ InHand(hand, k) = {}
  <2> DEFINE P == Places(net, k)
             H == InHand(hand, k)
  <2>1. p \in P
    OBVIOUS
  <2> HIDE DEF P, H
  <2>2. P # {}
    BY <2>1
  <2>3. InOnePlace(Pending(cs[k]), ws[k] = "held", P, H)
    BY <1>1 DEF P, H
  <2>4. Pending(cs[k]) /\ ws[k] # "held" /\ H = {} /\ P = {p}
    BY <2>1, <2>2, <2>3 DEF InOnePlace
  <2> QED BY <2>4 DEF P, H
<1>3. ASSUME NEW j, j # k, p \in Places(net, j) PROVE FALSE
  <2>1. At(net, k, p[1], p[2], p[3]) /\ At(net, j, p[1], p[2], p[3])
    BY <1>3 DEF Places
  <2> QED BY <1>3, <2>1 DEF At
<1> QED BY <1>2, <1>3

\* Only call k is concerned by a step.
LEMMA OneCallMoves ==
  ASSUME NEW net, NEW net2, NEW cs, NEW cs2, NEW ws, NEW ws2, NEW hand, NEW hand2,
         AllInOnePlace(net, cs, ws, hand), NEW k,
         \A j \in Calls \ {k} : /\ Places(net2, j) = Places(net, j)
                                /\ InHand(hand2, j) = InHand(hand, j)
                                /\ Pending(cs2[j]) = Pending(cs[j]) /\ ws2[j] = ws[j],
         k \in Calls =>
           InOnePlace(Pending(cs2[k]), ws2[k] = "held", Places(net2, k), InHand(hand2, k))
  PROVE  AllInOnePlace(net2, cs2, ws2, hand2)
<1> SUFFICES ASSUME NEW j \in Calls
             PROVE  InOnePlace(Pending(cs2[j]), ws2[j] = "held", Places(net2, j), InHand(hand2, j))
  BY DEF AllInOnePlace
<1>1. CASE j = k
  BY <1>1
<1>2. CASE j # k
  <2>1. InOnePlace(Pending(cs[j]), ws[j] = "held", Places(net, j), InHand(hand, j))
    BY DEF AllInOnePlace
  <2>2. /\ Places(net2, j) = Places(net, j) /\ InHand(hand2, j) = InHand(hand, j)
        /\ Pending(cs2[j]) = Pending(cs[j]) /\ ws2[j] = ws[j]
    BY <1>2
  <2> QED BY <2>1, <2>2
<1> QED BY <1>1, <1>2

LEMMA PutTwice ==
  ASSUME NEW net \in Nets, NEW s \in Subnets, NEW r \in Subnets,
         NEW a \in StreamType, NEW b \in StreamType
  PROVE  Put(Put(net, s, r, a), s, r, b) = Put(net, s, r, b)
<1> DEFINE row == net[s]
           ra == [row EXCEPT ![r] = a]
           rb == [row EXCEPT ![r] = b]
           mid == Put(net, s, r, a)
<1>1. net \in [Subnets -> [Subnets -> StreamType]] /\ row \in [Subnets -> StreamType]
  BY DEF Nets
<1>2. mid = [net EXCEPT ![s] = ra] /\ Put(net, s, r, b) = [net EXCEPT ![s] = rb]
  BY DEF Put
<1>3. Put(mid, s, r, b) = [mid EXCEPT ![s] = [mid[s] EXCEPT ![r] = b]]
  BY DEF Put
<1>4. [ra EXCEPT ![r] = b] = rb
  BY <1>1
<1> HIDE DEF ra, rb, row, mid
<1>5. mid[s] = ra
  BY <1>1, <1>2
<1>6. [[net EXCEPT ![s] = ra] EXCEPT ![s] = rb] = [net EXCEPT ![s] = rb]
  BY <1>1
<1> QED BY <1>2, <1>3, <1>4, <1>5, <1>6 DEF mid

\* The next message to be signalled is on the way, so its call is open.
LEMMA NextOnWay ==
  ASSUME NEW net \in Nets, AllOrderly(net), NEW s \in Subnets, NEW r \in Subnets,
         net[s][r].signals_end < MessagesEnd(net[r][s])
  PROVE  LET e   == net[s][r].signals_end
             msg == MessageAt(net[r][s], e)
         IN  /\ e \in StreamIndices(net[r][s]) /\ e \in Nat
             /\ msg \in MessageType /\ msg.call \in Calls /\ Legit(r, s, msg)
             /\ <<r, s, e>> \in Places(net, msg.call)
<1> DEFINE F == net[r][s]
           back == net[s][r]
           e == back.signals_end
           msg == MessageAt(F, e)
<1>1. F \in StreamType /\ back \in StreamType
  BY DEF Nets
<1>2. e \in Nat /\ F.begin \in Nat /\ MessagesEnd(F) \in Nat
  BY <1>1, StreamFields
<1>3. Orderly(r, s, F, back) /\ e < MessagesEnd(F)
  BY DEF AllOrderly
<1>4. F.begin <= e
  BY <1>3 DEF Orderly
<1> HIDE DEF F, back
<1>5. e \in StreamIndices(F) /\ msg \in MessageType
  BY <1>1, <1>2, <1>3, <1>4, IndexFacts
<1>6. Legit(r, s, msg)
  BY <1>3, <1>5 DEF Orderly
<1>7. e >= e
  BY <1>2
<1>8. OnWay(F, back, e)
  BY <1>5, <1>7 DEF OnWay
<1>9. At(net, msg.call, r, s, e)
  BY <1>8 DEF At, F, back
<1>10. <<r, s, e>> \in Places(net, msg.call)
  BY <1>2, <1>9, PlacesAre
<1>11. msg.call \in Calls
  BY <1>5, Types
<1> QED BY <1>2, <1>5, <1>6, <1>10, <1>11 DEF F, back

LEMMA SoundTypes ==
  ASSUME NEW base \in Nets, NEW s \in Subnets, NEW x, NEW hand, Sound(base, s, x, hand)
  PROVE  /\ x \in Working /\ Net(base, s, x) \in Nets /\ AllOrderly(Net(base, s, x))
         /\ \A r \in Subnets : /\ x.streams[r] \in StreamType
                               /\ Net(base, s, x)[s][r] = x.streams[r]
                               /\ Net(base, s, x)[r][s] \in StreamType
                               /\ r # s => Net(base, s, x)[r][s] = base[r][s]
<1>1. x \in Working /\ AllOrderly(Net(base, s, x))
  BY DEF Sound
<1>2. /\ Net(base, s, x) \in Nets
      /\ \A a, b \in Subnets : Net(base, s, x)[a][b] = IF a = s THEN x.streams[b] ELSE base[a][b]
  BY <1>1, NetIs
<1>3. x.streams \in [Subnets -> StreamType]
  BY <1>1 DEF Working
<1>4. \A a, b \in Subnets : Net(base, s, x)[a][b] \in StreamType
  BY <1>2 DEF Nets
<1> QED BY <1>1, <1>2, <1>3, <1>4

\* The stream to be inducted grows at most at its end.
Grown(F, F2) ==
  /\ F2.begin = F.begin /\ MessagesEnd(F) <= MessagesEnd(F2)
  /\ \A i \in StreamIndices(F) : MessageAt(F2, i) = MessageAt(F, i)

\* A message from r waits for subnet s, at the index of its next signal for r.
Waiting(net, s, r) == net[s][r].signals_end < MessagesEnd(net[r][s])
NextFrom(net, s, r) == MessageAt(net[r][s], net[s][r].signals_end)

\* A response may be rejected; what is not rejected goes to the canister, or is a response
\* that it has no callback for.
Outcome(s, x, msg, rejects, z) ==
  IF rejects THEN msg.kind # "Request" /\ z = x
  ELSE /\ at[Receiver(msg)] = s
       /\ \/ /\ msg.kind = "Request" \/ Matching(x, msg.call) # {}
             /\ z = PushInput(x, msg)
          \/ /\ msg.kind # "Request" /\ Matching(x, msg.call) = {}
             /\ z = DropResponse(x, msg)

LEMMA AcceptSound ==
  ASSUME NEW base \in Nets, NEW s \in Subnets, NEW r \in Subnets, NEW x,
         Sound(base, s, x, {}), NEW rejects \in BOOLEAN, Waiting(Net(base, s, x), s, r),
         NEW z \in Working, Outcome(s, x, NextFrom(Net(base, s, x), s, r), rejects, z)
  PROVE  LET y == WithStream(z, r, Signalled(x.streams[r], rejects))
         IN  Sound(base, s, y, {}) /\ Grown(Net(base, s, x)[r][s], Net(base, s, y)[r][s])
<1> DEFINE net == Net(base, s, x)
           st == x.streams[r]
           new == Signalled(st, rejects)
           y == WithStream(z, r, new)
           net2 == Net(base, s, y)
           e == net[s][r].signals_end
           msg == NextFrom(net, s, r)
           k == msg.call
<1>1. /\ x \in Working /\ AllOrderly(net) /\ OrphansOnly(x.call, x.lost) /\ Reached(base, s, x)
      /\ AllInOnePlace(net, x.call, x.work, {})
  BY DEF Sound
<1>2. /\ net \in Nets /\ st \in StreamType /\ x.streams \in [Subnets -> StreamType]
      /\ \A a, b \in Subnets : net[a][b] = IF a = s THEN x.streams[b] ELSE base[a][b]
  <2>1. x.streams \in [Subnets -> StreamType]
    BY <1>1 DEF Working
  <2> QED BY <1>1, <2>1, NetIs
<1>3. net[s][r] = st
  BY <1>2
<1>4. /\ e \in StreamIndices(net[r][s]) /\ e \in Nat
      /\ msg \in MessageType /\ k \in Calls
      /\ <<r, s, e>> \in Places(net, k)
  BY <1>1, <1>2, NextOnWay DEF Waiting, NextFrom
<1>5. /\ Pending(x.call[k]) /\ x.work[k] # "held"
      /\ Places(net, k) = {<<r, s, e>>} /\ InHand({}, k) = {}
      /\ \A j : j # k => <<r, s, e>> \notin Places(net, j)
  <2> HIDE DEF k, e, net
  <2> QED BY <1>1, <1>4, Located
<1>6. /\ z.streams = x.streams /\ OrphansOnly(z.call, z.lost)
      /\ \A j \in Calls : j # k => /\ Pending(z.call[j]) = Pending(x.call[j])
                                   /\ z.call[j] = "idle" <=> x.call[j] = "idle"
                                   /\ z.work[j] = x.work[j]
      /\ z.call[k] # "idle"
      /\ z.work[k] # x.work[k] => msg.kind = "Request" /\ ~rejects
      /\ rejects => Pending(z.call[k]) /\ z.work[k] # "held"
      /\ ~rejects => \/ Pending(z.call[k]) /\ z.work[k] = "held"
                     \/ ~Pending(z.call[k]) /\ z.work[k] # "held"
  <2> HIDE DEF msg
  <2>0. x.call[k] \in {"open", "orphaned"}
    BY <1>5 DEF Pending
  <2>1. CASE rejects
    <3>1. z = x
      BY <2>1 DEF Outcome, msg
    <3> HIDE DEF k, net
    <3> QED BY <1>1, <1>5, <2>0, <2>1, <3>1
  <2>2. CASE ~rejects
    <3>0. \/ /\ msg.kind = "Request" \/ Matching(x, k) # {}
             /\ z = PushInput(x, msg)
          \/ /\ msg.kind # "Request" /\ Matching(x, k) = {}
             /\ z = DropResponse(x, msg)
      BY <2>2 DEF Outcome, msg
    <3>1. x.call \in [Calls -> CallStates]
          /\ x.work \in [Calls -> {"none", "held", "answered"}]
      BY <1>1 DEF Working
    <3>2. CASE msg.kind = "Request"
      <4>1. z.streams = x.streams /\ z.lost = x.lost /\ z.call = x.call
            /\ z.work = [x.work EXCEPT ![k] = "held"]
        BY <1>1, <1>4, <3>0, <3>2, PushInputIs
      <4> HIDE DEF k, net
      <4> QED BY <1>1, <1>4, <1>5, <2>0, <2>2, <3>1, <3>2, <4>1
    <3>3. CASE msg.kind # "Request" /\ Matching(x, k) # {}
      <4>1. z.streams = x.streams /\ z.lost = x.lost
        BY <1>1, <1>4, <3>0, <3>3, PushInputIs
      <4>2. /\ z.work = x.work /\ z.call[k] \in {"done", "gone"}
            /\ \A j \in Calls : j # k =>
                 z.call[j] = x.call[j] \/ (x.call[j] = "open" /\ z.call[j] = "orphaned")
        BY <1>1, <1>4, <3>0, <3>3, ResponseTaken
      <4> HIDE DEF k, net
      <4>3. OrphansOnly(z.call, z.lost)
        <5> SUFFICES ASSUME NEW other \in z.lost
                     PROVE  other.kind = "Response" /\ z.call[other.call] = "gone"
          BY DEF OrphansOnly
        <5>1. other.kind = "Response" /\ x.call[other.call] = "gone"
          BY <1>1, <4>1 DEF OrphansOnly
        <5>2. other.call \in Calls
          BY <1>1, <4>1, Types DEF Working
        <5> QED BY <2>0, <4>2, <5>1, <5>2
      <4>4. \A j \in Calls : j # k => /\ Pending(z.call[j]) = Pending(x.call[j])
                                      /\ z.call[j] = "idle" <=> x.call[j] = "idle"
        BY <4>2 DEF Pending
      <4>5. ~Pending(z.call[k]) /\ z.call[k] # "idle"
        BY <4>2 DEF Pending
      <4> QED BY <1>4, <1>5, <2>2, <4>1, <4>2, <4>3, <4>4, <4>5
    <3>4. CASE msg.kind # "Request" /\ Matching(x, k) = {}
      <4>0. z = DropResponse(x, msg)
        BY <3>0, <3>4
      <4>1. x.call[k] # "open"
        BY <1>4, <3>4 DEF Matching
      <4>2. /\ z.streams = x.streams /\ z.work = x.work /\ z.lost = x.lost \cup {msg}
            /\ z.call = [x.call EXCEPT ![k] = IF @ = "orphaned" THEN "gone" ELSE @]
        BY <1>1, <1>4, <4>0, DropResponseType
      <4>3. msg.kind = "Response"
        BY <1>4, <3>4 DEF MessageType
      <4>6. msg.call = k
        OBVIOUS
      <4> HIDE DEF k, net
      <4>4. z.call[k] = "gone" /\ \A j \in Calls : j # k => z.call[j] = x.call[j]
        BY <1>4, <2>0, <3>1, <4>1, <4>2
      <4>5. OrphansOnly(z.call, z.lost)
        <5> SUFFICES ASSUME NEW other \in z.lost
                     PROVE  other.kind = "Response" /\ z.call[other.call] = "gone"
          BY DEF OrphansOnly
        <5>1. CASE other = msg
          BY <4>3, <4>4, <4>6, <5>1
        <5>2. CASE other # msg
          <6>1. other \in x.lost
            BY <4>2, <5>2
          <6>2. other.kind = "Response" /\ x.call[other.call] = "gone"
            BY <1>1, <6>1 DEF OrphansOnly
          <6>3. other.call \in Calls
            BY <1>1, <6>1, Types DEF Working
          <6> QED BY <2>0, <4>4, <6>2, <6>3
        <5> QED BY <5>1, <5>2
      <4>7. ~Pending(z.call[k]) /\ z.call[k] # "idle"
        BY <4>4 DEF Pending
      <4> QED BY <1>4, <1>5, <2>2, <4>2, <4>4, <4>5, <4>7
    <3> QED BY <3>2, <3>3, <3>4
  <2> QED BY <2>1, <2>2
<1>7. /\ new \in StreamType /\ new.begin = st.begin /\ new.messages = st.messages
      /\ new.signals_end = st.signals_end + 1
  BY <1>2, SignalledFields
<1>8. Net(base, s, z) = net
  BY <1>6 DEF Net
<1>9. /\ y \in Working /\ y.call = z.call /\ y.work = z.work /\ y.lost = z.lost
      /\ \A q \in Subnets : y.streams[q] = IF q = r THEN new ELSE x.streams[q]
      /\ net2 = Put(net, s, r, new)
  <2> HIDE DEF new, net
  <2>1. /\ y \in Working /\ y.call = z.call /\ y.work = z.work /\ y.lost = z.lost
        /\ \A q \in Subnets : y.streams[q] = IF q = r THEN new ELSE z.streams[q]
        /\ net2 = Put(Net(base, s, z), s, r, new)
    <3>1. new \in StreamType
      BY <1>7
    <3> QED BY <3>1, WithStreamIs
  <2> QED BY <1>6, <1>8, <2>1
<1>10. /\ net2 \in Nets /\ AllOrderly(net2)
       /\ \A j : Places(net2, j) = Places(net, j) \ IF rejects THEN {} ELSE {<<r, s, e>>}
  <2>1. e < MessagesEnd(net[r][s]) /\ (rejects => MessageAt(net[r][s], e).kind = "Response")
    BY <1>4 DEF MessageType, Outcome, Waiting, NextFrom
  <2>2. net2 = Put(net, s, r, Signalled(net[s][r], rejects))
    BY <1>3, <1>9
  <2> HIDE DEF net, net2
  <2> QED BY <1>1, <1>2, <2>1, <2>2, NetSignalled
<1>11. ASSUME NEW j, j # k PROVE Places(net2, j) = Places(net, j)
  <2> DEFINE p == <<r, s, e>>
             P == Places(net, j)
             P2 == Places(net2, j)
  <2>1. p \notin P /\ P2 = P \ IF rejects THEN {} ELSE {p}
    BY <1>5, <1>10, <1>11
  <2> HIDE DEF p, P, P2
  <2>2. P2 = P
    BY <2>1
  <2> QED BY <2>2 DEF P, P2
<1>12. Places(net2, k) = IF rejects THEN {<<r, s, e>>} ELSE {}
  BY <1>5, <1>10
<1> HIDE DEF net, net2, new, y, e, k, msg
<1>13. AllInOnePlace(net2, y.call, y.work, {})
  <2>1. InOnePlace(Pending(y.call[k]), y.work[k] = "held", Places(net2, k), InHand({}, k))
    <3>1. CASE rejects
      BY <1>5, <1>6, <1>9, <1>12, <3>1 DEF InOnePlace
    <3>2. CASE ~rejects
      BY <1>5, <1>6, <1>9, <1>12, <3>2 DEF InOnePlace
    <3> QED BY <3>1, <3>2
  <2>2. \A j \in Calls \ {k} : /\ Places(net2, j) = Places(net, j)
                               /\ InHand({}, j) = InHand({}, j)
                               /\ Pending(y.call[j]) = Pending(x.call[j])
                               /\ y.work[j] = x.work[j]
    <3> TAKE j \in Calls \ {k}
    <3>1. j \in Calls /\ j # k
      OBVIOUS
    <3>2. Places(net2, j) = Places(net, j)
      BY <1>11, <3>1
    <3>3. Pending(z.call[j]) = Pending(x.call[j]) /\ z.work[j] = x.work[j]
      BY ONLY <1>6, <3>1, Zenon
    <3> QED BY ONLY <1>9, <3>2, <3>3, Zenon
  <2> QED BY <1>1, <2>1, <2>2, OneCallMoves
<1>14. Reached(base, s, y)
  <2>1. ASSUME NEW q \in Others(s)
        PROVE  \/ y.streams[q] = x.streams[q]
               \/ View(x.streams[q], x.streams[q].begin, y.streams[q], base[q][s].begin)
    <3>1. q \in Subnets
      BY DEF Others
    <3>2. View(st, st.begin, new, base[q][s].begin)
      BY <1>2, ViewSignalled DEF new
    <3> QED BY <1>9, <3>1, <3>2
  <2> QED BY <1>1, <1>9, <2>1, ReachedThen
<1>15. Grown(net[r][s], net2[r][s])
  <2>1. net[r][s] \in StreamType /\ MessagesEnd(net[r][s]) \in Nat
    BY <1>2, StreamFields DEF Nets
  <2>2. net2[r][s] = IF r = s THEN new ELSE net[r][s]
    <3>1. \A a, b \in Subnets : net2[a][b] = IF a = s /\ b = r THEN new ELSE net[a][b]
      <4>1. net \in Nets /\ new \in StreamType
        BY <1>2, <1>7
      <4>2. \A a, b \in Subnets :
              Put(net, s, r, new)[a][b] = IF a = s /\ b = r THEN new ELSE net[a][b]
        BY <4>1, PutAt
      <4> QED BY <1>9, <4>2
    <3> QED BY <3>1
  <2>3. net2[r][s].begin = net[r][s].begin /\ net2[r][s].messages = net[r][s].messages
    BY <1>3, <1>7, <2>2
  <2>4. MessagesEnd(net2[r][s]) = MessagesEnd(net[r][s])
    BY <2>3 DEF MessagesEnd
  <2>5. \A i : MessageAt(net2[r][s], i) = MessageAt(net[r][s], i)
    BY <2>3 DEF MessageAt
  <2>6. MessagesEnd(net[r][s]) <= MessagesEnd(net2[r][s])
    BY <2>1, <2>4
  <2> QED BY <2>3, <2>5, <2>6 DEF Grown
<1>16. InTurn(base, s, y)
  <2>1. InTurn(base, s, x)
    BY DEF Sound
  <2>2. st.signals_end \in Nat /\ e = st.signals_end
    BY <1>2, <1>3, StreamFields DEF e
  <2>3. st.signals_end <= new.signals_end /\ e < new.signals_end
    BY <1>7, <2>2
  <2>4. SameRequests(st, new)
    BY <1>2, <1>7, SignalledSame
  <2>5. ASSUME msg.kind = "Request", ~rejects PROVE TakenFrom(base, s, y, k)
    <3>1. Receiver(msg) = Callee[k] /\ at[Receiver(msg)] = s
      BY <2>5 DEF Outcome, Receiver, k, msg, net
    <3>2. msg = Request(k)
      BY <1>4, <2>5 DEF MessageType, Request, k
    <3>3. e \in StreamIndices(net[r][s]) /\ MessageAt(net[r][s], e) = msg
      BY <1>4 DEF msg, NextFrom, e
    <3>4. e \in StreamIndices(base[r][s]) /\ MessageAt(base[r][s], e) = msg
      <4>1. CASE r = s
        <5>1. SameRequests(base[s][s], x.streams[s]) /\ net[r][s] = x.streams[s]
          BY <1>2, <2>1, <4>1 DEF InTurn
        <5> QED BY <2>5, <3>3, <4>1, <5>1 DEF SameRequests
      <4>2. CASE r # s
        BY <1>2, <3>3, <4>2
      <4> QED BY <4>1, <4>2
    <3>5. base[s][r].signals_end <= e
      BY <2>1, <2>2 DEF InTurn
    <3>6. e < y.streams[r].signals_end
      BY <1>9, <2>3
    <3> QED BY <3>1, <3>2, <3>4, <3>5, <3>6 DEF TakenFrom
  <2>6. \A j \in Calls : /\ y.call[j] = "idle" <=> x.call[j] = "idle"
                         /\ y.work[j] = x.work[j] \/ TakenFrom(base, s, y, j)
    <3> TAKE j \in Calls
    <3>1. CASE j = k
      <4>1. x.call[k] # "idle"
        BY <1>5 DEF Pending
      <4> QED BY <1>6, <1>9, <2>5, <3>1, <4>1
    <3>2. CASE j # k
      <4>1. (z.call[j] = "idle" <=> x.call[j] = "idle") /\ z.work[j] = x.work[j]
        BY <1>6, <3>2, Zenon
      <4> QED BY <1>9, <4>1
    <3> QED BY <3>1, <3>2
  <2> QED BY <1>1, <1>7, <1>9, <2>1, <2>3, <2>4, <2>6, InTurnThen
<1>17. Sound(base, s, y, {})
  BY <1>6, <1>9, <1>10, <1>13, <1>14, <1>16 DEF Sound, net2
<1> QED BY <1>15, <1>17 DEF net, net2, y, new

LEMMA RefuseSound ==
  ASSUME AtHosts, registry \in [Subnets -> 0 .. 1],
         NEW base \in Nets, NEW s \in Subnets, NEW r \in Subnets, NEW x,
         Sound(base, s, x, {}), Waiting(Net(base, s, x), s, r),
         NextFrom(Net(base, s, x), s, r).kind = "Request"
  PROVE  LET k == NextFrom(Net(base, s, x), s, r).call
             y == WithStream(x, r, Signalled(StreamPush(x.streams[r], Response(k)), FALSE))
         IN  Sound(base, s, y, {}) /\ Grown(Net(base, s, x)[r][s], Net(base, s, y)[r][s])
<1> DEFINE net == Net(base, s, x)
           st == x.streams[r]
           msg == NextFrom(net, s, r)
           k == msg.call
           answer == Response(k)
           st1 == StreamPush(st, answer)
           x1 == WithStream(x, r, st1)
           net1 == Put(net, s, r, st1)
           new == Signalled(st1, FALSE)
           y == WithStream(x, r, new)
           net2 == Net(base, s, y)
           e == net[s][r].signals_end
           p == <<r, s, e>>
           q == <<s, r, MessagesEnd(st)>>
<1>1. /\ x \in Working /\ AllOrderly(net) /\ OrphansOnly(x.call, x.lost) /\ Reached(base, s, x)
      /\ AllInOnePlace(net, x.call, x.work, {})
  BY DEF Sound
<1>2. /\ net \in Nets /\ st \in StreamType /\ x.streams \in [Subnets -> StreamType]
      /\ \A a, b \in Subnets : net[a][b] = IF a = s THEN x.streams[b] ELSE base[a][b]
  BY <1>1, NetIs DEF Working
<1>3. net[s][r] = st
  BY <1>2
<1>4. /\ e \in StreamIndices(net[r][s]) /\ e \in Nat
      /\ msg \in MessageType /\ k \in Calls /\ Legit(r, s, msg)
      /\ p \in Places(net, k)
  BY <1>1, <1>2, NextOnWay DEF Waiting, NextFrom
<1>5. /\ Pending(x.call[k]) /\ x.work[k] # "held"
      /\ Places(net, k) = {p} /\ InHand({}, k) = {}
      /\ \A j : j # k => p \notin Places(net, j)
  <2> HIDE DEF k, e, net, p
  <2> QED BY <1>1, <1>4, Located
<1>6. answer \in MessageType /\ answer.call = k /\ Legit(s, r, answer)
  BY <1>4, Types DEF Legit, Sender, Receiver, Response
<1>7. /\ st1 \in StreamType /\ st1.begin = st.begin /\ st1.signals_end = st.signals_end
      /\ MessagesEnd(st1) = MessagesEnd(st) + 1 /\ MessagesEnd(st) \in Nat
      /\ \A i \in StreamIndices(st) : MessageAt(st1, i) = MessageAt(st, i)
  <2> HIDE DEF answer, st
  <2> QED BY <1>2, <1>6, StreamPushType, PushedMessages, StreamFields DEF OnlyPushed, Longer
<1>8. /\ net1 \in Nets /\ AllOrderly(net1)
      /\ \A j : Places(net1, j) = Places(net, j) \cup IF answer.call = j THEN {q} ELSE {}
  <2>1. net1 = Put(net, s, r, StreamPush(net[s][r], answer)) /\ q = <<s, r, MessagesEnd(net[s][r])>>
    BY <1>3
  <2> HIDE DEF net, answer, net1, q
  <2> QED BY <1>1, <1>2, <1>6, <2>1, NetPushed
<1>9. \A a, b \in Subnets : net1[a][b] = IF a = s /\ b = r THEN st1 ELSE net[a][b]
  <2> HIDE DEF net, st1
  <2>1. net \in Nets /\ st1 \in StreamType
    BY <1>2, <1>7
  <2> QED BY <2>1, PutAt
<1>10. /\ net1[s][r] = st1 /\ net1[s][r].signals_end = e /\ e < MessagesEnd(net[r][s])
       /\ r = s => MessagesEnd(net1[r][s]) = MessagesEnd(st) + 1 /\ net[r][s] = st
       /\ r # s => net1[r][s] = net[r][s]
  BY <1>3, <1>7, <1>9 DEF Waiting
<1>11. e < MessagesEnd(net1[r][s]) /\ q # p
  <2>1. CASE r = s
    <3>1. e < MessagesEnd(st) /\ MessagesEnd(st) # e /\ e < MessagesEnd(st) + 1
      BY <1>4, <1>7, <1>10, <2>1
    <3> QED BY <1>10, <2>1, <3>1
  <2>2. CASE r # s
    BY <1>10, <2>2
  <2> QED BY <2>1, <2>2
<1>12. /\ new \in StreamType /\ new.begin = st1.begin /\ new.messages = st1.messages
       /\ new.signals_end = st1.signals_end + 1
  <2> HIDE DEF st1
  <2> QED BY <1>7, SignalledFields
<1>13. /\ y \in Working /\ y.call = x.call /\ y.work = x.work /\ y.lost = x.lost
       /\ \A t \in Subnets : y.streams[t] = IF t = r THEN new ELSE x.streams[t]
       /\ net2 = Put(net, s, r, new)
  <2> HIDE DEF new, net
  <2> QED BY <1>1, <1>12, WithStreamIs DEF net
<1>14. /\ net2 \in Nets /\ AllOrderly(net2)
       /\ \A j : Places(net2, j) = Places(net1, j) \ {p}
  <2>1. net2 = Put(net1, s, r, new)
    <3> HIDE DEF net, st1, new, net2
    <3> QED BY <1>2, <1>7, <1>12, <1>13, PutTwice
  <2>2. net2 = Put(net1, s, r, Signalled(net1[s][r], FALSE)) /\ p = <<r, s, net1[s][r].signals_end>>
    BY <1>10, <2>1
  <2>3. net1[s][r].signals_end < MessagesEnd(net1[r][s])
    BY <1>10, <1>11
  <2> HIDE DEF net1, net2, p
  <2>4. LET n2 == Put(net1, s, r, Signalled(net1[s][r], FALSE))
        IN  /\ n2 \in Nets /\ AllOrderly(n2)
            /\ \A j : Places(n2, j) = Places(net1, j) \ {<<r, s, net1[s][r].signals_end>>}
    <3> DEFINE no == FALSE
    <3>1. no \in BOOLEAN /\ ~no
      OBVIOUS
    <3>2. Signalled(net1[s][r], FALSE) = Signalled(net1[s][r], no)
      OBVIOUS
    <3> HIDE DEF no
    <3>3. LET n2 == Put(net1, s, r, Signalled(net1[s][r], no))
          IN  /\ n2 \in Nets /\ AllOrderly(n2)
              /\ \A j : Places(n2, j) = Places(net1, j)
                                          \ IF no THEN {} ELSE {<<r, s, net1[s][r].signals_end>>}
      BY <1>8, <2>3, <3>1, NetSignalled
    <3> QED BY <3>1, <3>2, <3>3
  <2> QED BY <2>2, <2>4
<1> HIDE DEF net, net1, net2, new, st1, y, e, k, p, q, answer, msg
<1>15. ASSUME NEW j, j # k PROVE Places(net2, j) = Places(net, j)
  <2>1. Places(net1, j) = Places(net, j)
    BY <1>6, <1>8, <1>15
  <2>2. p \notin Places(net, j) /\ Places(net2, j) = Places(net1, j) \ {p}
    BY <1>5, <1>14, <1>15
  <2> QED BY <2>1, <2>2
<1>16. Places(net2, k) = {q}
  BY <1>5, <1>6, <1>8, <1>11, <1>14
<1>17. AllInOnePlace(net2, y.call, y.work, {})
  <2>1. InOnePlace(Pending(y.call[k]), y.work[k] = "held", Places(net2, k), InHand({}, k))
    BY <1>5, <1>13, <1>16 DEF InOnePlace
  <2>2. \A j \in Calls \ {k} : /\ Places(net2, j) = Places(net, j)
                               /\ InHand({}, j) = InHand({}, j)
                               /\ Pending(y.call[j]) = Pending(x.call[j])
                               /\ y.work[j] = x.work[j]
    BY <1>13, <1>15
  <2> QED BY <1>1, <2>1, <2>2, OneCallMoves
<1>18. Reached(base, s, y)
  <2>1. ASSUME NEW t \in Others(s)
        PROVE  \/ y.streams[t] = x.streams[t]
               \/ View(x.streams[t], x.streams[t].begin, y.streams[t], base[t][s].begin)
    <3> DEFINE b == base[t][s].begin
    <3>1. t \in Subnets
      BY DEF Others
    <3>2. b \in Nat /\ b <= b
      BY <3>1, StreamFields DEF Nets
    <3> HIDE DEF b
    <3>3. View(st, st.begin, st1, b)
      BY <1>2, <1>6, ViewPushed DEF st1
    <3>4. View(st1, st1.begin, new, b)
      BY <1>7, ViewSignalled DEF new
    <3>5. st.begin \in Nat /\ st.signals_end \in Nat /\ Len(st.messages) \in Nat
      BY <1>2, StreamFields
    <3> HIDE DEF st
    <3>6. View(st, st.begin, new, b)
      BY <1>7, <1>12, <3>2, <3>3, <3>4, <3>5, ViewTransitive
    <3> QED BY <1>13, <3>1, <3>6 DEF st, b
  <2> QED BY <1>1, <1>13, <2>1, ReachedThen
<1>19. Grown(net[r][s], net2[r][s])
  <2>1. MessagesEnd(net[r][s]) \in Nat
    BY <1>2, StreamFields DEF Nets
  <2>2. \A a, b \in Subnets : net2[a][b] = IF a = s /\ b = r THEN new ELSE net[a][b]
    <3>1. net \in Nets /\ new \in StreamType
      BY <1>2, <1>12
    <3>2. \A a, b \in Subnets : Put(net, s, r, new)[a][b] = IF a = s /\ b = r THEN new ELSE net[a][b]
      BY <3>1, PutAt
    <3> QED BY <1>13, <3>2
  <2>3. CASE r = s
    <3>1. net2[r][s] = new /\ net[r][s] = st
      BY <1>10, <2>2, <2>3
    <3>2. MessagesEnd(new) = MessagesEnd(st1) /\ \A i : MessageAt(new, i) = MessageAt(st1, i)
      BY <1>12 DEF MessagesEnd, MessageAt
    <3>3. MessagesEnd(st) <= MessagesEnd(new)
      BY <1>7, <3>2
    <3> QED BY <1>7, <1>12, <3>1, <3>2, <3>3 DEF Grown
  <2>4. CASE r # s
    <3>1. net2[r][s] = net[r][s] /\ MessagesEnd(net[r][s]) <= MessagesEnd(net[r][s])
      BY <2>1, <2>2, <2>4
    <3> QED BY <3>1 DEF Grown
  <2> QED BY <2>3, <2>4
<1>20. InTurn(base, s, y)
  <2>1. InTurn(base, s, x)
    BY DEF Sound
  <2>2. st.signals_end \in Nat
    BY <1>2, StreamFields
  <2>3. st.signals_end <= new.signals_end
    BY <1>7, <1>12, <2>2
  <2>4. SameRequests(st, st1)
    <3>1. answer.kind # "Request"
      BY DEF answer, Response
    <3> QED BY <1>2, <1>6, <3>1, PushedSame DEF st1
  <2>5. SameRequests(st1, new)
    BY <1>7, <1>12, SignalledSame
  <2>6. SameRequests(st, new)
    BY <2>4, <2>5, SameRequestsTransitive
  <2> QED BY <1>1, <1>12, <1>13, <2>1, <2>3, <2>6, InTurnThen
<1>21. Sound(base, s, y, {})
  BY <1>1, <1>13, <1>14, <1>17, <1>18, <1>20 DEF Sound, net2
<1> QED BY <1>19, <1>21 DEF net, net2, y, new, st1, answer, k, msg

LEMMA InductSound ==
  ASSUME AtHosts, registry \in [Subnets -> 0 .. 1],
         NEW base \in Nets, NEW s \in Subnets, NEW r \in Subnets, NEW full, NEW x,
         Sound(base, s, x, {}), Waiting(Net(base, s, x), s, r)
  PROVE  LET y == InductMessage(s, r, full, x, NextFrom(Net(base, s, x), s, r))
         IN  /\ Sound(base, s, y, {})
             /\ Grown(Net(base, s, x)[r][s], Net(base, s, y)[r][s])
             /\ y.streams[r].signals_end = x.streams[r].signals_end + 1
<1> DEFINE net == Net(base, s, x)
           st == x.streams[r]
           msg == NextFrom(net, s, r)
           k == msg.call
           y == InductMessage(s, r, full, x, msg)
           Good(z) == Sound(base, s, z, {}) /\ Grown(net[r][s], Net(base, s, z)[r][s])
<1>1. /\ x \in Working /\ AllOrderly(net) /\ AllInOnePlace(net, x.call, x.work, {})
      /\ net \in Nets
  BY NetIs DEF Sound
<1>2. /\ msg \in MessageType /\ k \in Calls /\ Legit(r, s, msg)
      /\ <<r, s, net[s][r].signals_end>> \in Places(net, k)
  BY <1>1, NextOnWay DEF Waiting, NextFrom
<1>4. \/ /\ at[Receiver(msg)] = s
         /\ msg.kind = "Request" \/ Matching(x, msg.call) # {}
         /\ y = WithStream(PushInput(x, msg), r, Signalled(st, FALSE))
      \/ /\ at[Receiver(msg)] = s
         /\ msg.kind # "Request" /\ Matching(x, msg.call) = {}
         /\ y = WithStream(DropResponse(x, msg), r, Signalled(st, FALSE))
      \/ /\ msg.kind = "Request"
         /\ y = WithStream(x, r, Signalled(StreamPush(st, Response(msg.call)), FALSE))
      \/ /\ msg.kind # "Request"
         /\ y = WithStream(x, r, Signalled(st, TRUE))
  BY <1>1, <1>2, InductCases
<1>5. ASSUME NEW rejects \in BOOLEAN, NEW z \in Working, Outcome(s, x, msg, rejects, z)
      PROVE  Good(WithStream(z, r, Signalled(st, rejects)))
  BY <1>5, AcceptSound
<1>3. at[Receiver(msg)] = s /\ msg.kind # "Request" /\ Matching(x, msg.call) = {} =>
        Good(WithStream(DropResponse(x, msg), r, Signalled(st, FALSE)))
  <2>1. /\ at[Receiver(msg)] = s /\ msg.kind # "Request" /\ Matching(x, msg.call) = {} =>
             Outcome(s, x, msg, FALSE, DropResponse(x, msg))
        /\ DropResponse(x, msg) \in Working
    BY <1>1, <1>2, DropResponseType DEF Outcome
  <2> HIDE DEF Good
  <2> QED BY <1>5, <2>1
<1>6. at[Receiver(msg)] = s /\ (msg.kind = "Request" \/ Matching(x, msg.call) # {}) =>
        Good(WithStream(PushInput(x, msg), r, Signalled(st, FALSE)))
  <2>1. /\ at[Receiver(msg)] = s /\ (msg.kind = "Request" \/ Matching(x, msg.call) # {}) =>
             Outcome(s, x, msg, FALSE, PushInput(x, msg))
        /\ PushInput(x, msg) \in Working
    BY <1>1, <1>2, PushInputIs DEF Outcome
  <2> HIDE DEF Good
  <2> QED BY <1>5, <2>1
<1>7. msg.kind # "Request" => Good(WithStream(x, r, Signalled(st, TRUE)))
  <2>1. msg.kind # "Request" => Outcome(s, x, msg, TRUE, x)
    BY DEF Outcome
  <2> HIDE DEF Good
  <2> QED BY <1>1, <1>5, <2>1
<1>8. msg.kind = "Request" =>
        Good(WithStream(x, r, Signalled(StreamPush(st, Response(msg.call)), FALSE)))
  BY RefuseSound
<1>9. Good(y)
  <2> HIDE DEF Good, y
  <2> QED BY <1>3, <1>4, <1>6, <1>7, <1>8
<1>10. y.streams[r].signals_end = x.streams[r].signals_end + 1
  BY <1>1, <1>2, InductMessageEffect DEF Inducted
<1> QED BY <1>9, <1>10

\* The messages from signals_end on.
NextMessages(F, e, messages) ==
  \A j \in 1 .. Len(messages) : /\ e + j - 1 < MessagesEnd(F)
                                /\ messages[j] = MessageAt(F, e + j - 1)

LEMMA InductMessagesSound ==
  ASSUME AtHosts, registry \in [Subnets -> 0 .. 1],
         NEW base \in Nets, NEW s \in Subnets, NEW r \in Subnets, NEW full, NEW x,
         Sound(base, s, x, {}), NEW messages, Len(messages) \in Nat,
         NextMessages(Net(base, s, x)[r][s], x.streams[r].signals_end, messages)
  PROVE  LET y == InductMessages(s, r, full, x, messages)
         IN  /\ Sound(base, s, y, {})
             /\ Grown(Net(base, s, x)[r][s], Net(base, s, y)[r][s])
             /\ y.streams[r].signals_end = x.streams[r].signals_end + Len(messages)
<1> DEFINE F == Net(base, s, x)[r][s]
           e == x.streams[r].signals_end
           n == Len(messages)
<1>1. PICK run : /\ run[0] = x
                 /\ run[n] = InductMessages(s, r, full, x, messages)
                 /\ \A i \in 1 .. n : run[i] = InductMessage(s, r, full, run[i - 1], messages[i])
  BY InductMessagesRun
<1> DEFINE Good(i) == /\ Sound(base, s, run[i], {})
                      /\ Grown(F, Net(base, s, run[i])[r][s])
                      /\ run[i].streams[r].signals_end = e + i
           P == {i \in Nat : i <= n => Good(i)}
<1>2. /\ x \in Working /\ Net(base, s, x) \in Nets /\ F \in StreamType
      /\ F.begin \in Nat /\ MessagesEnd(F) \in Nat /\ e \in Nat /\ F.begin <= e
  <2>1. x \in Working /\ Net(base, s, x) \in Nets
    BY NetIs DEF Sound
  <2>2. F \in StreamType /\ x.streams[r] \in StreamType /\ Net(base, s, x)[s][r] = x.streams[r]
    BY SoundTypes
  <2>3. Orderly(r, s, F, Net(base, s, x)[s][r])
    BY DEF Sound, AllOrderly
  <2>4. F.begin <= e
    BY <2>2, <2>3 DEF Orderly
  <2> QED BY <2>1, <2>2, <2>4, StreamFields
<1>3. 0 \in P
  <2>1. Grown(F, F) /\ e = e + 0
    BY <1>2 DEF Grown
  <2> QED BY <1>1, <2>1
<1>4. ASSUME NEW i \in Nat, i \in P PROVE i + 1 \in P
  <2> SUFFICES ASSUME i + 1 <= n PROVE Good(i + 1)
    OBVIOUS
  <2> DEFINE z == run[i]
             F1 == Net(base, s, z)[r][s]
             y == run[i + 1]
             F2 == Net(base, s, y)[r][s]
  <2>1. Good(i) /\ i + 1 \in 1 .. n /\ i + 1 - 1 = i /\ e + (i + 1) - 1 = e + i
    BY <1>2, <1>4
  <2>2. e + i < MessagesEnd(F) /\ messages[i + 1] = MessageAt(F, e + i)
    <3> HIDE DEF F, e, n
    <3> QED BY <2>1 DEF NextMessages, F, e, n
  <2>3. /\ z \in Working /\ Net(base, s, z)[s][r] = z.streams[r] /\ F1 \in StreamType
    BY <2>1, SoundTypes
  <2>4. MessagesEnd(F1) \in Nat
    BY <2>3, StreamFields
  <2>5. e + i \in StreamIndices(F)
    <3> HIDE DEF F
    <3> QED BY <1>2, <2>2, IndexFacts
  <2>6. e + i < MessagesEnd(F1) /\ MessageAt(F1, e + i) = MessageAt(F, e + i)
    <3>1. Grown(F, F1)
      BY <2>1
    <3> HIDE DEF F, F1
    <3>2. MessagesEnd(F) <= MessagesEnd(F1)
      BY <3>1 DEF Grown
    <3> QED BY <1>2, <2>2, <2>4, <2>5, <3>1, <3>2 DEF Grown
  <2>7. /\ Net(base, s, z)[s][r].signals_end = e + i
        /\ Net(base, s, z)[s][r].signals_end < MessagesEnd(F1)
        /\ messages[i + 1] = MessageAt(F1, Net(base, s, z)[s][r].signals_end)
    BY <2>1, <2>2, <2>3, <2>6
  <2>8. y = InductMessage(s, r, full, z, messages[i + 1])
    <3>1. run[i + 1] = InductMessage(s, r, full, run[i + 1 - 1], messages[i + 1])
      BY <1>1, <2>1
    <3> QED BY <2>1, <3>1
  <2> HIDE DEF z, y
  <2>9. /\ Sound(base, s, y, {}) /\ Grown(F1, F2)
        /\ y.streams[r].signals_end = z.streams[r].signals_end + 1
    <3>1. Sound(base, s, z, {})
      BY <2>1 DEF z
    <3>2. /\ Waiting(Net(base, s, z), s, r)
          /\ y = InductMessage(s, r, full, z, NextFrom(Net(base, s, z), s, r))
      BY <2>7, <2>8 DEF Waiting, NextFrom
    <3> QED BY <3>1, <3>2, InductSound
  <2>10. y.streams[r].signals_end = e + (i + 1)
    <3>1. z.streams[r].signals_end = e + i
      BY <2>1 DEF z
    <3> HIDE DEF e
    <3> QED BY <1>2, <2>9, <3>1
  <2>11. Grown(F, F2)
    <3>1. Grown(F, F1)
      BY <2>1 DEF z
    <3>2. F2 \in StreamType /\ MessagesEnd(F2) \in Nat
      BY <2>9, SoundTypes, StreamFields
    <3> HIDE DEF F, F1, F2
    <3>3. MessagesEnd(F) <= MessagesEnd(F1) /\ MessagesEnd(F1) <= MessagesEnd(F2)
          /\ F1.begin = F.begin /\ F2.begin = F.begin
      BY <2>9, <3>1 DEF Grown
    <3>4. MessagesEnd(F) <= MessagesEnd(F2)
      BY <1>2, <2>4, <3>2, <3>3 DEF F1
    <3>5. StreamIndices(F) \subseteq StreamIndices(F1)
      <4>1. \A j : j \in StreamIndices(F) => j \in Nat /\ F.begin <= j /\ j < MessagesEnd(F)
        BY <1>2, IndexFacts
      <4>2. F1 \in StreamType /\ MessagesEnd(F1) \in Nat
        BY <2>3, <2>4 DEF F1
      <4>3. \A j : j \in Nat /\ F1.begin <= j /\ j < MessagesEnd(F1) => j \in StreamIndices(F1)
        BY <4>2, IndexFacts
      <4> QED BY <1>2, <3>3, <4>1, <4>2, <4>3
    <3> QED BY <2>9, <3>1, <3>3, <3>4, <3>5 DEF Grown
  <2> QED BY <2>9, <2>10, <2>11 DEF y
<1>5. n \in P
  <2> HIDE DEF P, n
  <2>1. n \in Nat
    BY DEF n
  <2> QED BY <1>3, <1>4, <2>1, NatSetInduction
<1>6. Good(n)
  <2>1. n <= n
    OBVIOUS
  <2> HIDE DEF Good
  <2> QED BY <1>5, <2>1
<1> QED BY <1>1, <1>6

-----------------------------------------------------------------------------
(* Rejected responses are rerouted. *)

Reroutable(s, msg) ==
  msg \in MessageType /\ msg.kind # "Request" /\ s \in Hosts(Sender(msg))

Elements(rejected) == {rejected[m] : m \in 1 .. Len(rejected)}

AllReroutable(s, rejected) ==
  /\ Len(rejected) \in Nat
  /\ \A m \in 1 .. Len(rejected) : Reroutable(s, rejected[m])
  /\ \A l, m \in 1 .. Len(rejected) : rejected[l] = rejected[m] => l = m

LEMMA RerouteSound ==
  ASSUME AtHosts, registry \in [Subnets -> 0 .. 1],
         NEW base \in Nets, NEW s \in Subnets, NEW x, NEW hand, Sound(base, s, x, hand),
         NEW msg \in hand, Reroutable(s, msg)
  PROVE  Sound(base, s, RerouteRejectedMessage(s, x, msg), hand \ {msg})
<1> DEFINE net == Net(base, s, x)
           h == Route(s, Receiver(msg))
           st == x.streams[h]
           new == StreamPush(st, msg)
           y == WithStream(x, h, new)
           net2 == Net(base, s, y)
           k == msg.call
           q == <<s, h, MessagesEnd(st)>>
           rest == hand \ {msg}
<1>1. /\ x \in Working /\ AllOrderly(net) /\ OrphansOnly(x.call, x.lost) /\ Reached(base, s, x)
      /\ AllInOnePlace(net, x.call, x.work, hand)
  BY DEF Sound
<1>2. msg \in MessageType /\ msg.kind # "Request" /\ k \in Calls /\ Receiver(msg) \in Canisters
  BY Types DEF Reroutable
<1>3. h \in Hosts(Receiver(msg)) /\ h \in Subnets /\ Legit(s, h, msg)
  BY <1>2, HostsAre DEF Legit, Reroutable
<1>4. RerouteRejectedMessage(s, x, msg) = y
  <2>1. RerouteRejectedMessage(s, x, msg) = [x EXCEPT !.streams[h] = new]
    BY <1>2 DEF RerouteRejectedMessage
  <2> HIDE DEF new, h
  <2> QED BY <1>1, <1>3, <2>1, WithStreamTwice
<1>5. /\ net \in Nets /\ st \in StreamType /\ net[s][h] = st
  <2> HIDE DEF h
  <2> QED BY <1>3, SoundTypes
<1>6. new \in StreamType /\ new.signals_end = st.signals_end
  BY <1>2, <1>5, StreamPushType DEF OnlyPushed, Longer
<1>7. /\ y \in Working /\ y.call = x.call /\ y.work = x.work /\ y.lost = x.lost
      /\ \A t \in Subnets : y.streams[t] = IF t = h THEN new ELSE x.streams[t]
      /\ net2 = Put(net, s, h, new)
  <2> HIDE DEF new, h
  <2> QED BY <1>1, <1>3, <1>6, WithStreamIs
<1> HIDE DEF h, y
<1>8. /\ net2 \in Nets /\ AllOrderly(net2)
      /\ \A j : Places(net2, j) = Places(net, j) \cup IF k = j THEN {q} ELSE {}
  <2>1. net2 = Put(net, s, h, StreamPush(net[s][h], msg)) /\ q = <<s, h, MessagesEnd(net[s][h])>>
    BY <1>5, <1>7
  <2> HIDE DEF net, net2, q
  <2>2. net \in Nets /\ AllOrderly(net) /\ h \in Subnets /\ msg \in MessageType /\ Legit(s, h, msg)
    BY <1>1, <1>2, <1>3, <1>5
  <2>3. LET n2 == Put(net, s, h, StreamPush(net[s][h], msg))
        IN  /\ n2 \in Nets /\ AllOrderly(n2)
            /\ \A j : Places(n2, j)
                        = Places(net, j)
                            \cup IF msg.call = j THEN {<<s, h, MessagesEnd(net[s][h])>>} ELSE {}
    BY <2>2, NetPushed
  <2> QED BY <2>1, <2>3
<1> HIDE DEF net, net2, q
<1>9. AllInOnePlace(net2, y.call, y.work, rest)
  <2>1. msg \in InHand(hand, k)
    BY DEF InHand
  <2>2. InOnePlace(Pending(x.call[k]), x.work[k] = "held", Places(net, k), InHand(hand, k))
    BY <1>1, <1>2 DEF AllInOnePlace
  <2>3. InHand(rest, k) = InHand(hand, k) \ {msg}
    BY DEF InHand
  <2>4. \A j \in Calls \ {k} : InHand(rest, j) = InHand(hand, j)
    BY DEF InHand
  <2>5. /\ Pending(x.call[k]) /\ x.work[k] # "held" /\ Places(net, k) = {}
        /\ InHand(hand, k) = {msg}
    <3> DEFINE H == InHand(hand, k)
               P == Places(net, k)
    <3> HIDE DEF H, P
    <3>1. H # {} /\ msg \in H
      BY <2>1 DEF H
    <3>2. InOnePlace(Pending(x.call[k]), x.work[k] = "held", P, H)
      BY <2>2 DEF H, P
    <3>3. Pending(x.call[k]) /\ x.work[k] # "held" /\ P = {} /\ H = {msg}
      BY <3>1, <3>2 DEF InOnePlace
    <3> QED BY <3>3 DEF H, P
  <2>6. InHand(rest, k) = {} /\ Places(net2, k) = {q}
    BY <1>8, <2>3, <2>5
  <2>7. InOnePlace(Pending(y.call[k]), y.work[k] = "held", Places(net2, k), InHand(rest, k))
    BY <1>7, <2>5, <2>6 DEF InOnePlace
  <2>8. \A j \in Calls \ {k} : /\ Places(net2, j) = Places(net, j)
                               /\ InHand(rest, j) = InHand(hand, j)
                               /\ Pending(y.call[j]) = Pending(x.call[j])
                               /\ y.work[j] = x.work[j]
    BY <1>7, <1>8, <2>4
  <2> HIDE DEF rest, k
  <2> QED BY <1>1, <2>7, <2>8, OneCallMoves
<1>10. Reached(base, s, y)
  <2>1. ASSUME NEW t \in Others(s)
        PROVE  \/ y.streams[t] = x.streams[t]
               \/ View(x.streams[t], x.streams[t].begin, y.streams[t], base[t][s].begin)
    <3>1. t \in Subnets
      BY DEF Others
    <3>2. View(st, st.begin, new, base[t][s].begin)
      BY <1>2, <1>5, ViewPushed
    <3> QED BY <1>7, <3>1, <3>2
  <2> QED BY <1>1, <1>7, <2>1, ReachedThen
<1>11. InTurn(base, s, y)
  <2>1. InTurn(base, s, x)
    BY DEF Sound
  <2>2. st.signals_end <= new.signals_end
    <3>1. st.signals_end \in Nat
      BY <1>5, StreamFields
    <3> QED BY <1>6, <3>1
  <2>3. SameRequests(st, new)
    BY <1>2, <1>5, PushedSame
  <2> HIDE DEF new
  <2> QED BY <1>1, <1>3, <1>6, <1>7, <2>1, <2>2, <2>3, InTurnThen
<1>12. Sound(base, s, y, rest)
  BY <1>7, <1>8, <1>9, <1>10, <1>11 DEF Sound, net2
<1> QED BY <1>4, <1>12

LEMMA RerouteAllSound ==
  ASSUME AtHosts, registry \in [Subnets -> 0 .. 1],
         NEW base \in Nets, NEW s \in Subnets, NEW x, NEW rejected, AllReroutable(s, rejected),
         Sound(base, s, x, Elements(rejected))
  PROVE  Sound(base, s, RerouteRejectedMessages(s, x, rejected), {})
<1>0. /\ Len(rejected) \in Nat
      /\ \A m \in 1 .. Len(rejected) : Reroutable(s, rejected[m])
      /\ \A l, m \in 1 .. Len(rejected) : rejected[l] = rejected[m] => l = m
  BY DEF AllReroutable
<1> USE <1>0
<1> DEFINE n == Len(rejected)
           Hand(i) == {rejected[j] : j \in (i + 1) .. n}
<1>1. PICK run : /\ run[0] = x
                 /\ run[n] = RerouteRejectedMessages(s, x, rejected)
                 /\ \A i \in 1 .. n : run[i] = RerouteRejectedMessage(s, run[i - 1], rejected[i])
  BY RerouteRun
<1> DEFINE P == {i \in Nat : i <= n => Sound(base, s, run[i], Hand(i))}
<1>2. 0 \in P
  <2>1. Hand(0) = {rejected[j] : j \in 1 .. n}
    OBVIOUS
  <2> HIDE DEF Hand
  <2> QED BY <1>1, <2>1 DEF Elements
<1>3. ASSUME NEW i \in Nat, i \in P PROVE i + 1 \in P
  <2> SUFFICES ASSUME i + 1 <= n PROVE Sound(base, s, run[i + 1], Hand(i + 1))
    OBVIOUS
  <2> DEFINE msg == rejected[i + 1]
  <2>1. Sound(base, s, run[i], Hand(i)) /\ i + 1 \in 1 .. n /\ i + 1 - 1 = i /\ i + 1 \in (i + 1) .. n
    BY <1>3
  <2>2. run[i + 1] = RerouteRejectedMessage(s, run[i], msg)
    <3>1. run[i + 1] = RerouteRejectedMessage(s, run[i + 1 - 1], rejected[i + 1])
      BY <1>1, <2>1
    <3> QED BY <2>1, <3>1
  <2>3. msg \in Hand(i) /\ Reroutable(s, msg)
    BY <2>1
  <2>4. Hand(i + 1) = Hand(i) \ {msg}
    <3>1. ASSUME NEW j \in (i + 2) .. n PROVE j \in 1 .. n /\ j \in (i + 1) .. n /\ j # i + 1
      OBVIOUS
    <3>2. i + 1 + 1 = i + 2
      OBVIOUS
    <3>3. ASSUME NEW j \in (i + 1) .. n, rejected[j] # msg PROVE j \in (i + 2) .. n
      <4>1. j # i + 1
        BY <3>3
      <4> QED BY <4>1
    <3>4. \A j \in (i + 2) .. n : rejected[j] # msg
      BY <2>1, <3>1
    <3> QED BY <3>1, <3>2, <3>3, <3>4
  <2> DEFINE H == Hand(i)
             z == run[i]
  <2> HIDE DEF msg, Hand, z, H
  <2>5. Sound(base, s, RerouteRejectedMessage(s, z, msg), H \ {msg})
    <3>1. Sound(base, s, z, H) /\ msg \in H
      BY <2>1, <2>3 DEF z, H
    <3> QED BY <2>3, <3>1, RerouteSound
  <2> QED BY <2>2, <2>4, <2>5 DEF z, H
<1>4. n \in P
  <2> HIDE DEF P, n
  <2>1. n \in Nat
    BY DEF n
  <2> QED BY <1>2, <1>3, <2>1, NatSetInduction
<1>5. Sound(base, s, run[n], Hand(n))
  <2>1. n <= n
    OBVIOUS
  <2> HIDE DEF Hand
  <2> QED BY <1>4, <2>1
<1>6. Hand(n) = {}
  OBVIOUS
<1> HIDE DEF Hand
<1> QED BY <1>1, <1>5, <1>6

-----------------------------------------------------------------------------
(* Messages are discarded, and the rejected ones among them rerouted. *)

\* The sequence has the messages of st with indices in S, each one once.
Listed(rejected, st, S) ==
  /\ Len(rejected) \in Nat
  /\ \E pos : /\ \A m \in 1 .. Len(rejected) : pos[m] \in S /\ rejected[m] = MessageAt(st, pos[m])
              /\ \A n \in S : \E m \in 1 .. Len(rejected) : pos[m] = n
              /\ \A l, m \in 1 .. Len(rejected) : pos[l] = pos[m] => l = m

Among(signals, st, i) == {n \in signals : st.begin <= n /\ n < i}

LEMMA RejectedAre ==
  ASSUME NEW st \in StreamType, NEW i \in Nat, NEW signals \in SUBSET Nat
  PROVE  Listed(RejectedMessages(st, i, signals), st, Among(signals, st, i))
<1> DEFINE S == {n \in signals : st.begin <= n /\ n < i}
           c == Cardinality(S)
           pos == Ascending(S)
           rejected == RejectedMessages(st, i, signals)
<1>1. S \in SUBSET Nat /\ IsFiniteSet(S)
  <2>1. S \in SUBSET Nat /\ \A k \in S : k <= i
    <3>1. \A k \in S : k \in Nat /\ k < i
      BY Zenon
    <3> HIDE DEF S
    <3> QED BY <3>1
  <2> HIDE DEF S
  <2> QED BY <2>1, FS_BoundedSetOfNaturals
<1>2. /\ c \in Nat /\ pos \in [1 .. c -> S]
      /\ \A l, m \in 1 .. c : l < m => pos[l] < pos[m]
  <2> HIDE DEF S
  <2> QED BY <1>1, AscendingOrder
<1>3. Len(pos) = c
  <2> HIDE DEF S
  <2> QED BY <1>2
<1>4. rejected = [m \in 1 .. c |-> MessageAt(st, pos[m])]
  BY <1>3 DEF RejectedMessages
<1> HIDE DEF S, c, pos
<1>5. Len(rejected) = c /\ \A m \in 1 .. c : rejected[m] = MessageAt(st, pos[m])
  BY <1>2, <1>4
<1>6. \A l, m \in 1 .. c : pos[l] = pos[m] => l = m
  <2> TAKE l, m \in 1 .. c
  <2>1. pos[l] \in Nat /\ pos[m] \in Nat
    BY <1>1, <1>2
  <2>2. l < m \/ m < l \/ l = m
    BY <1>2
  <2> QED BY <1>2, <2>1, <2>2
<1>7. \A n \in S : \E m \in 1 .. c : pos[m] = n
  <2>1. pos \in Injection(1 .. c, S)
    BY <1>2, <1>6 DEF Injection, IsInjective
  <2>2. Cardinality(1 .. c) = c
    BY <1>2, FS_Interval
  <2>3. pos \in Surjection(1 .. c, S)
    BY <1>1, <2>1, <2>2, FS_Injection DEF c
  <2> QED BY <2>3 DEF Surjection
<1> HIDE DEF rejected
<1>8. Listed(rejected, st, S)
  BY <1>2, <1>5, <1>6, <1>7 DEF Listed
<1> QED BY <1>8 DEF rejected, S, Among

\* The signals J are those of the stream back, as far as they concern the messages of st
\* before index i.
SignalsOf(J, back, st, i) ==
  \A n \in Nat : st.begin <= n /\ n < i => (n \in J <=> n \in back.reject_signals)

LEMMA CutSound ==
  ASSUME NEW base \in Nets, NEW s \in Subnets, NEW r \in Subnets, NEW x, Sound(base, s, x, {}),
         NEW i, NEW j, MayCut(Net(base, s, x), s, r, i, j),
         NEW J \in SUBSET Nat, SignalsOf(J, Net(base, s, x)[r][s], x.streams[r], i),
         NEW rejected, Listed(rejected, x.streams[r], Among(J, x.streams[r], i))
  PROVE  LET y == WithStream(x, r, Cut(x.streams[r], i, j))
         IN  Sound(base, s, y, Elements(rejected)) /\ AllReroutable(s, rejected)
<1> DEFINE net == Net(base, s, x)
           st == x.streams[r]
           back == net[r][s]
           S == Among(J, st, i)
           new == Cut(st, i, j)
           y == WithStream(x, r, new)
           net2 == Net(base, s, y)
           N == Len(rejected)
           hand == Elements(rejected)
<1>1. /\ x \in Working /\ AllOrderly(net) /\ OrphansOnly(x.call, x.lost) /\ Reached(base, s, x)
      /\ AllInOnePlace(net, x.call, x.work, {})
  BY DEF Sound
<1>2. net \in Nets /\ st \in StreamType /\ back \in StreamType /\ net[s][r] = st
  BY SoundTypes
<1>3. /\ i \in Nat /\ j \in Nat /\ st.begin <= i /\ i <= back.signals_end
      /\ st.begin \in Nat /\ back.signals_end \in Nat /\ MessagesEnd(st) \in Nat
      /\ Orderly(s, r, st, back)
  <2>1. Orderly(s, r, net[s][r], net[r][s])
    BY <1>1 DEF AllOrderly
  <2> QED BY <1>2, <2>1, StreamFields DEF MayCut
<1>4. i <= MessagesEnd(st)
  <2>1. back.signals_end <= MessagesEnd(st)
    BY <1>3 DEF Orderly
  <2> HIDE DEF st, back
  <2> QED BY <1>3, <2>1
<1>5. /\ new \in StreamType /\ new.signals_end = st.signals_end
      /\ \A k \in StreamIndices(new) : k \in StreamIndices(st) /\ MessageAt(new, k) = MessageAt(st, k)
  BY <1>2, <1>3, <1>4, DiscardTypes, CutMessages DEF Cut
<1>6. /\ y \in Working /\ y.call = x.call /\ y.work = x.work /\ y.lost = x.lost
      /\ \A q \in Subnets : y.streams[q] = IF q = r THEN new ELSE x.streams[q]
      /\ net2 = Put(net, s, r, new)
  <2> HIDE DEF new
  <2> QED BY <1>1, <1>5, WithStreamIs
<1> DEFINE gone == PlacesBefore(s, r, i)
<1>7. /\ net2 \in Nets /\ AllOrderly(net2)
      /\ \A k : Places(net2, k) = Places(net, k) \ gone
  <2>1. net2 = Put(net, s, r, Cut(net[s][r], i, j))
    BY <1>2, <1>6
  <2> HIDE DEF net, net2, y, st, back, gone
  <2>2. LET n2 == Put(net, s, r, Cut(net[s][r], i, j))
        IN  /\ n2 \in Nets /\ AllOrderly(n2)
            /\ \A k : Places(n2, k) = Places(net, k) \ PlacesBefore(s, r, i)
    <3>1. net \in Nets /\ AllOrderly(net) /\ MayCut(net, s, r, i, j)
      BY <1>1, <1>2 DEF net
    <3> QED BY <3>1, NetCut
  <2> QED BY <2>1, <2>2 DEF gone
\* The positions that go are those of the rejected messages.
<1>8. ASSUME NEW n \in Nat, n < i, NEW k
      PROVE  <<s, r, n>> \in Places(net, k) <=> n \in S /\ MessageAt(st, n).call = k
  <2>1. <<s, r, n>> \in Places(net, k) <=> At(net, k, s, r, n)
    BY PlacesAre
  <2>2. At(net, k, s, r, n) <=> OnWay(st, back, n) /\ MessageAt(st, n).call = k
    BY <1>2 DEF At
  <2>3. ~(n >= back.signals_end) /\ n < MessagesEnd(st)
    <3> HIDE DEF st, back
    <3> QED BY <1>3, <1>4, <1>8
  <2>4. n \in StreamIndices(st) <=> st.begin <= n
    <3> HIDE DEF st
    <3> QED BY <1>2, <2>3, IndexFacts
  <2>5. OnWay(st, back, n) <=> st.begin <= n /\ n \in back.reject_signals
    <3> HIDE DEF st, back
    <3> QED BY <2>3, <2>4 DEF OnWay
  <2>6. n \in S <=> st.begin <= n /\ n \in back.reject_signals
    <3>1. st.begin <= n => (n \in J <=> n \in back.reject_signals)
      BY <1>8 DEF SignalsOf
    <3> QED BY <1>8, <3>1 DEF Among
  <2> HIDE DEF st, back, net, S
  <2> QED BY <2>1, <2>2, <2>5, <2>6
<1>9. \A n \in S : n \in Nat /\ n < i /\ n \in StreamIndices(st) /\ n \in back.reject_signals
  <2> TAKE n \in S
  <2>1. n \in Nat /\ n < i /\ st.begin <= n /\ n \in J
    BY DEF Among
  <2>2. n < MessagesEnd(st)
    <3> HIDE DEF st
    <3> QED BY <1>3, <1>4, <2>1
  <2>3. n \in StreamIndices(st)
    <3> HIDE DEF st
    <3> QED BY <1>2, <2>1, <2>2, IndexFacts
  <2>4. n \in back.reject_signals
    BY <2>1 DEF SignalsOf
  <2> QED BY <2>1, <2>3, <2>4
<1>10. \A n \in S : Reroutable(s, MessageAt(st, n))
  <2> TAKE n \in S
  <2>1. n \in StreamIndices(st) /\ n \in back.reject_signals
    BY <1>9
  <2> HIDE DEF st, back, S
  <2>2. MessageAt(st, n) \in MessageType
    BY <1>2, <2>1, IndexFacts
  <2>3. Legit(s, r, MessageAt(st, n)) /\ MessageAt(st, n).kind = "Response"
    BY <1>3, <2>1 DEF Orderly
  <2> QED BY <2>2, <2>3 DEF Reroutable, Legit
\* A call has at most one rejected message.
<1>11. ASSUME NEW n \in S
       PROVE  LET k == MessageAt(st, n).call
              IN  /\ k \in Calls /\ Pending(x.call[k]) /\ x.work[k] # "held"
                  /\ Places(net, k) = {<<s, r, n>>}
                  /\ \A m \in S : MessageAt(st, m).call = k => m = n
  <2> DEFINE k == MessageAt(st, n).call
  <2>1. k \in Calls
    BY <1>10, Types DEF Reroutable
  <2>2. \A m \in S : MessageAt(st, m).call = k => <<s, r, m>> \in Places(net, k)
    <3> HIDE DEF st, net, S
    <3> QED BY <1>8, <1>9
  <2>3. <<s, r, n>> \in Places(net, k)
    BY <2>2
  <2> HIDE DEF k, net, st, S
  <2>4. Pending(x.call[k]) /\ x.work[k] # "held" /\ Places(net, k) = {<<s, r, n>>}
    BY <1>1, <2>1, <2>3, Located
  <2>5. \A m \in S : MessageAt(st, m).call = k => m = n
    BY <2>2, <2>4
  <2> QED BY <2>1, <2>4, <2>5 DEF k
<1>12. PICK pos : /\ N \in Nat
                  /\ \A m \in 1 .. N : pos[m] \in S /\ rejected[m] = MessageAt(st, pos[m])
                  /\ \A n \in S : \E m \in 1 .. N : pos[m] = n
                  /\ \A l, m \in 1 .. N : pos[l] = pos[m] => l = m
  BY DEF Listed
<1> HIDE DEF S, N, st, net, net2, back, new, y
<1>13. \A m \in 1 .. N : Reroutable(s, rejected[m])
  BY <1>10, <1>12
<1>14. \A l, m \in 1 .. N : rejected[l] = rejected[m] => l = m
  BY <1>11, <1>12
<1>15. hand = {MessageAt(st, n) : n \in S}
  BY <1>12 DEF Elements, N
<1> HIDE DEF hand
<1>16. ASSUME NEW k \in Calls
       PROVE  InOnePlace(Pending(y.call[k]), y.work[k] = "held", Places(net2, k), InHand(hand, k))
  <2> DEFINE P == Places(net, k)
             P2 == Places(net2, k)
             H == InHand(hand, k)
  <2>1. P2 = P \ gone
    BY <1>7
  <2>2. InOnePlace(Pending(x.call[k]), x.work[k] = "held", P, InHand({}, k))
    BY <1>1 DEF AllInOnePlace
  <2>3. InHand({}, k) = {}
    BY DEF InHand
  <2>4. CASE \E n \in S : MessageAt(st, n).call = k
    <3>1. PICK n \in S : MessageAt(st, n).call = k
      BY <2>4
    <3>2. /\ Pending(x.call[k]) /\ x.work[k] # "held" /\ P = {<<s, r, n>>}
          /\ \A m \in S : MessageAt(st, m).call = k => m = n
      BY <1>11, <3>1
    <3>3. <<s, r, n>> \in gone
      BY <1>9, <3>1 DEF PlacesBefore
    <3>4. H = {MessageAt(st, n)}
      BY <1>15, <3>1, <3>2 DEF InHand
    <3> HIDE DEF gone, P, P2, H
    <3>5. P2 = {}
      BY <2>1, <3>2, <3>3
    <3>6. InOnePlace(Pending(y.call[k]), y.work[k] = "held", P2, H)
      BY <1>6, <3>2, <3>4, <3>5 DEF InOnePlace
    <3> QED BY <3>6 DEF P2, H
  <2>5. CASE ~ \E n \in S : MessageAt(st, n).call = k
    <3>1. H = {}
      BY <1>15, <2>5 DEF InHand
    <3>2. \A p \in gone : p \notin P
      BY <1>8, <2>5 DEF PlacesBefore
    <3> HIDE DEF gone, P, P2, H
    <3>3. P2 = P
      BY <2>1, <3>2
    <3>4. InOnePlace(Pending(y.call[k]), y.work[k] = "held", P2, H)
      BY <1>6, <2>2, <2>3, <3>1, <3>3
    <3> QED BY <3>4 DEF P2, H
  <2> QED BY <2>4, <2>5
<1>17. AllInOnePlace(net2, y.call, y.work, hand)
  BY <1>16 DEF AllInOnePlace
<1>18. Reached(base, s, y)
  <2>1. ASSUME NEW q \in Others(s)
        PROVE  \/ y.streams[q] = x.streams[q]
               \/ View(x.streams[q], x.streams[q].begin, y.streams[q], base[q][s].begin)
    <3>1. q \in Subnets /\ q # s
      BY DEF Others
    <3>2. CASE q = r
      <4> DEFINE b == base[q][s].begin
      <4>1. b \in Nat
        BY <3>1, StreamFields DEF Nets
      <4>2. back = base[r][s]
        BY <3>1, <3>2, SoundTypes DEF back, net
      <4>3. j <= b
        BY <3>1, <3>2, <4>2 DEF back, net, MayCut
      <4>4. y.streams[q] = new /\ x.streams[q] = st
        BY <1>6, <3>1, <3>2 DEF st
      <4> HIDE DEF b
      <4>5. View(st, st.begin, new, b)
        BY <1>2, <1>3, <1>4, <4>1, <4>3, ViewCut DEF new
      <4> QED BY <4>4, <4>5 DEF b
    <3>3. CASE q # r
      BY <1>6, <3>1, <3>3
    <3> QED BY <3>2, <3>3
  <2> QED BY <1>1, <1>6, <2>1, ReachedThen
<1>19. InTurn(base, s, y)
  <2>1. InTurn(base, s, x)
    BY DEF Sound
  <2>2. st.signals_end <= new.signals_end
    <3>1. st.signals_end \in Nat
      BY <1>2, StreamFields
    <3> QED BY <1>5, <3>1
  <2>3. SameRequests(st, new)
    BY <1>5 DEF SameRequests
  <2> QED BY <1>1, <1>5, <1>6, <2>1, <2>2, <2>3, InTurnThen DEF st
<1>20. Sound(base, s, y, hand)
  BY <1>6, <1>7, <1>17, <1>18, <1>19 DEF Sound, net2
<1>21. AllReroutable(s, rejected)
  BY <1>12, <1>13, <1>14 DEF AllReroutable, N
<1> QED BY <1>20, <1>21 DEF hand, y, new, st

LEMMA DiscardSound ==
  ASSUME AtHosts, registry \in [Subnets -> 0 .. 1],
         NEW base \in Nets, NEW s \in Subnets, NEW r \in Subnets, NEW x, Sound(base, s, x, {}),
         NEW i, NEW j, MayCut(Net(base, s, x), s, r, i, j),
         NEW J \in SUBSET Nat, SignalsOf(J, Net(base, s, x)[r][s], x.streams[r], i)
  PROVE  Sound(base, s,
               RerouteRejectedMessages(s, WithStream(x, r, Cut(x.streams[r], i, j)),
                                       RejectedMessages(x.streams[r], i, J)), {})
<1> DEFINE st == x.streams[r]
           y == WithStream(x, r, Cut(st, i, j))
           rejected == RejectedMessages(st, i, J)
<1>1. st \in StreamType /\ i \in Nat
  BY SoundTypes DEF MayCut
<1>2. Listed(rejected, st, Among(J, st, i))
  BY <1>1, RejectedAre
<1> HIDE DEF rejected
<1>3. Sound(base, s, y, Elements(rejected)) /\ AllReroutable(s, rejected)
  BY <1>2, CutSound
<1> HIDE DEF y
<1>4. Sound(base, s, RerouteRejectedMessages(s, y, rejected), {})
  BY <1>3, RerouteAllSound
<1> QED BY <1>4 DEF y, rejected

-----------------------------------------------------------------------------
(* Garbage collection. *)

\* The slice is an old piece of the stream from r to s.
SliceViewed(base, s, r, slice) ==
  View(slice, slice.messages_begin, base[r][s], base[s][r].begin)

LEMMA CollectSound ==
  ASSUME AtHosts, registry \in [Subnets -> 0 .. 1],
         NEW base \in Nets, NEW s \in Subnets, NEW r \in Others(s), NEW x, Sound(base, s, x, {}),
         NEW slice \in SliceType, SliceViewed(base, s, r, slice),
         x.streams[r].begin <= slice.signals_end
  PROVE  LET y == GarbageCollectLocalState(s, r, x, slice)
         IN  Sound(base, s, y, {}) /\ Collected(x, y, r, slice.signals_end)
<1> DEFINE net == Net(base, s, x)
           st == x.streams[r]
           back == net[r][s]
           i == slice.signals_end
           j == slice.begin
           J == slice.reject_signals
<1>1. /\ x \in Working /\ AllOrderly(net) /\ Reached(base, s, x) /\ r \in Subnets /\ r # s
  BY DEF Sound, Others
<1>2. /\ net \in Nets /\ st \in StreamType /\ back \in StreamType /\ net[s][r] = st
      /\ back = base[r][s] /\ base[s][r] \in StreamType
  BY <1>1, SoundTypes DEF Nets
<1>3. i \in Nat /\ j \in Nat /\ J \in SUBSET Nat
  BY DEF SliceType
<1>4. /\ j <= back.begin /\ i <= back.signals_end
      /\ \A n \in Nat : base[s][r].begin <= n /\ n < i => (n \in J <=> n \in back.reject_signals)
  BY <1>2 DEF SliceViewed, View
<1>5. base[s][r].begin <= st.begin /\ base[s][r].begin \in Nat /\ st.begin \in Nat
  BY <1>1, <1>2, StreamFields DEF Reached, View
<1>6. MayCut(net, s, r, i, j)
  BY <1>1, <1>2, <1>3, <1>4 DEF MayCut
<1>7. SignalsOf(J, back, st, i)
  <2> SUFFICES ASSUME NEW n \in Nat, st.begin <= n, n < i
               PROVE  n \in J <=> n \in back.reject_signals
    BY DEF SignalsOf
  <2>1. base[s][r].begin <= n
    <3> HIDE DEF st, i
    <3> QED BY <1>5
  <2> QED BY <1>4, <2>1
<1> DEFINE y == GarbageCollectLocalState(s, r, x, slice)
<1>8. y = RerouteRejectedMessages(s, WithStream(x, r, Cut(st, i, j)), RejectedMessages(st, i, J))
  <2> DEFINE cut == Cut(st, i, j)
  <2>1. y = RerouteRejectedMessages(s, [x EXCEPT !.streams[r] = cut], RejectedMessages(st, i, J))
    BY DEF GarbageCollectLocalState, Cut
  <2> HIDE DEF cut
  <2>2. [x EXCEPT !.streams[r] = cut] = WithStream(x, r, cut)
    BY <1>1, WithStreamTwice
  <2> QED BY <2>1, <2>2 DEF cut
<1>9. Sound(base, s, y, {})
  <2> HIDE DEF i, j, J, y
  <2>1. Sound(base, s, RerouteRejectedMessages(s, WithStream(x, r, Cut(x.streams[r], i, j)),
                                               RejectedMessages(x.streams[r], i, J)), {})
    BY <1>1, <1>3, <1>6, <1>7, DiscardSound
  <2> QED BY <1>8, <2>1
<1>10. Collected(x, y, r, i)
  <2>1. Orderly(s, r, net[s][r], net[r][s])
    BY <1>1 DEF AllOrderly
  <2>2. back.signals_end <= MessagesEnd(st)
    BY <1>2, <2>1 DEF Orderly
  <2>3. i <= MessagesEnd(st)
    <3>1. back.signals_end \in Nat /\ MessagesEnd(st) \in Nat
      BY <1>2, StreamFields
    <3> HIDE DEF i, back, st
    <3> QED BY <1>3, <1>4, <2>2, <3>1
  <2> QED BY <1>1, <2>3, CollectEffect
<1> QED BY <1>9, <1>10

SlicesViewed(base, s, payload) ==
  /\ Sources(payload) \subseteq Others(s)
  /\ \A r \in Sources(payload) : payload[r] \in SliceType /\ SliceViewed(base, s, r, payload[r])

LEMMA CollectStreamsSound ==
  ASSUME AtHosts, registry \in [Subnets -> 0 .. 1],
         NEW base \in Nets, NEW s \in Subnets, NEW x, Sound(base, s, x, {}),
         NEW payload, SlicesViewed(base, s, payload), SlicesFit(x, payload)
  PROVE  Sound(base, s, GarbageCollectStreams(s, payload, x), {})
<1> DEFINE S == Sources(payload)
           src == SetToSeq(S)
           n == Len(src)
           Good(y, i) == /\ Sound(base, s, y, {})
                         /\ \A j \in (i + 1) .. n : y.streams[src[j]].begin = x.streams[src[j]].begin
<1>0. S \subseteq Subnets /\ S \subseteq Others(s) /\ IsFiniteSet(S)
  BY XNetAssumption, FS_Subset DEF SlicesFit, SlicesViewed
<1>1. /\ n \in Nat
      /\ \A i \in 1 .. n : src[i] \in S
      /\ \A i, j \in 1 .. n : src[i] = src[j] => i = j
  BY <1>0, EachVisitedOnce
<1>2. PICK run : /\ run[0] = x
                 /\ run[n] = GarbageCollectStreams(s, payload, x)
                 /\ \A i \in 1 .. n : run[i] = GarbageCollectLocalState(s, src[i], run[i - 1],
                                                                      payload[src[i]])
  BY <1>1, CollectRun
<1> HIDE DEF S, src
<1> DEFINE P == {i \in Nat : i <= n => Good(run[i], i)}
<1>3. 0 \in P
  BY <1>2
<1>4. ASSUME NEW i \in Nat, i \in P, i + 1 <= n PROVE Good(run[i + 1], i + 1)
  <2> DEFINE a == run[i]
             b == run[i + 1]
             r == src[i + 1]
             slice == payload[r]
  <2>1. i \in Nat /\ i + 1 \in 1 .. n /\ (i + 1) - 1 = i /\ i <= n /\ i + 1 \in (i + 1) .. n
    BY <1>1, <1>4
  <2>2. Good(a, i) /\ b = GarbageCollectLocalState(s, r, a, slice) /\ r \in S
    BY <1>1, <1>2, <1>4, <2>1
  <2>3. a.streams[r].begin = x.streams[r].begin
    BY <2>1, <2>2
  <2> HIDE DEF n
  <2>4. /\ slice \in SliceType /\ r \in Others(s) /\ r \in Subnets
        /\ x.streams[r].begin <= slice.signals_end /\ SliceViewed(base, s, r, slice)
    BY <1>0, <2>2 DEF SlicesFit, SlicesViewed, S
  <2> HIDE DEF a, b, r, slice
  <2>5. Sound(base, s, b, {}) /\ Collected(a, b, r, slice.signals_end)
    <3>1. Sound(base, s, a, {}) /\ a.streams[r].begin <= slice.signals_end
      BY <2>2, <2>3, <2>4
    <3> QED BY <2>2, <2>4, <3>1, CollectSound
  <2>6. ASSUME NEW j \in (i + 2) .. n
        PROVE  b.streams[src[j]].begin = x.streams[src[j]].begin
    <3>1. j \in (i + 1) .. n /\ j \in 1 .. n /\ j # i + 1
      BY <1>1, <2>1 DEF n
    <3>2. src[j] \in Subnets /\ src[j] # r
      BY <1>0, <1>1, <2>1, <3>1 DEF r, n
    <3>3. b.streams[src[j]].begin = a.streams[src[j]].begin
      BY <2>5, <3>2 DEF Collected
    <3>4. a.streams[src[j]].begin = x.streams[src[j]].begin
      BY <2>2, <3>1
    <3> QED BY <3>3, <3>4
  <2>7. i + 1 + 1 = i + 2
    BY <1>4
  <2> QED BY <2>5, <2>6, <2>7 DEF b
<1>5. n \in P
  <2>1. \A i \in Nat : i \in P => i + 1 \in P
    <3> HIDE DEF Good, n
    <3> QED BY <1>4
  <2> HIDE DEF P
  <2> QED BY <1>1, <1>3, <2>1, NatSetInduction
<1>6. Good(run[n], n)
  <2>1. n <= n
    BY <1>1
  <2> HIDE DEF Good
  <2> QED BY <1>1, <1>5, <2>1
<1> QED BY <1>2, <1>6

-----------------------------------------------------------------------------
(* Induction of the slices, and of the loopback stream. *)

\* The messages of each slice are those that are signalled next.
SlicesNext(x, payload) ==
  \A r \in Sources(payload) :
    payload[r].messages # <<>> => payload[r].messages_begin = x.streams[r].signals_end

LEMMA SliceNext ==
  ASSUME NEW base \in Nets, NEW s \in Subnets, NEW r \in Others(s), NEW x, Sound(base, s, x, {}),
         NEW slice \in SliceType, SliceViewed(base, s, r, slice),
         slice.messages # <<>> => slice.messages_begin = x.streams[r].signals_end
  PROVE  NextMessages(Net(base, s, x)[r][s], x.streams[r].signals_end, slice.messages)
<1> DEFINE F == Net(base, s, x)[r][s]
           e == x.streams[r].signals_end
           ms == slice.messages
<1>1. r \in Subnets /\ r # s
  BY DEF Others
<1>2. /\ F = base[r][s] /\ Net(base, s, x)[s][r] = x.streams[r] /\ x.streams[r] \in StreamType
      /\ F \in StreamType /\ AllOrderly(Net(base, s, x))
  BY <1>1, SoundTypes
<1>3. F.begin <= e /\ F.begin \in Nat /\ e \in Nat
  <2>1. Orderly(r, s, F, Net(base, s, x)[s][r])
    BY <1>1, <1>2 DEF AllOrderly
  <2>2. F.begin <= e
    BY <1>2, <2>1 DEF Orderly
  <2> QED BY <1>2, <2>2, StreamFields
<1>4. ms \in Seq(MessageType) /\ Len(ms) \in Nat
  BY DEF SliceType
<1> SUFFICES ASSUME NEW j \in 1 .. Len(ms)
             PROVE  e + j - 1 < MessagesEnd(F) /\ ms[j] = MessageAt(F, e + j - 1)
  BY DEF NextMessages
<1>5. ms # <<>>
  BY <1>4
<1>6. slice.messages_begin = e
  BY <1>5
<1>7. F.begin <= e + j - 1
  <2> HIDE DEF F, e, ms
  <2> QED BY <1>3, <1>4
<1>8. View(slice, e, F, base[s][r].begin)
  BY <1>2, <1>6 DEF SliceViewed
<1> HIDE DEF F, e
<1> QED BY <1>7, <1>8 DEF View

LEMMA InductSlicesSound ==
  ASSUME AtHosts, registry \in [Subnets -> 0 .. 1],
         NEW base \in Nets, NEW s \in Subnets, NEW full, NEW x, Sound(base, s, x, {}),
         NEW payload, SlicesViewed(base, s, payload), SlicesNext(x, payload)
  PROVE  Sound(base, s, InductStreamSlices(s, payload, full, x), {})
<1> DEFINE S == Sources(payload)
           src == SetToSeq(S)
           n == Len(src)
           Good(y, i) == /\ Sound(base, s, y, {})
                         /\ \A j \in (i + 1) .. n : y.streams[src[j]] = x.streams[src[j]]
<1>0. S \subseteq Others(s) /\ S \subseteq Subnets /\ IsFiniteSet(S)
  <2>1. S \subseteq Others(s) /\ S \subseteq Subnets
    BY DEF SlicesViewed, Others
  <2> QED BY <2>1, XNetAssumption, FS_Subset
<1>1. /\ n \in Nat
      /\ \A i \in 1 .. n : src[i] \in S
      /\ \A i, j \in 1 .. n : src[i] = src[j] => i = j
  BY <1>0, EachVisitedOnce
<1>2. PICK run : /\ run[0] = x
                 /\ run[n] = InductStreamSlices(s, payload, full, x)
                 /\ \A i \in 1 .. n : run[i] = InductMessages(s, src[i], full, run[i - 1],
                                                            payload[src[i]].messages)
  BY <1>1, SlicesRun
<1> HIDE DEF S, src
<1> DEFINE P == {i \in Nat : i <= n => Good(run[i], i)}
<1>3. 0 \in P
  BY <1>2
<1>4. ASSUME NEW i \in Nat, i \in P, i + 1 <= n PROVE Good(run[i + 1], i + 1)
  <2> DEFINE a == run[i]
             b == run[i + 1]
             r == src[i + 1]
             slice == payload[r]
             ms == slice.messages
  <2>1. i \in Nat /\ i + 1 \in 1 .. n /\ (i + 1) - 1 = i /\ i <= n /\ i + 1 \in (i + 1) .. n
    BY <1>1, <1>4
  <2>2. Good(a, i) /\ b = InductMessages(s, r, full, a, ms) /\ r \in S
    BY <1>1, <1>2, <1>4, <2>1
  <2>3. a.streams[r] = x.streams[r]
    BY <2>1, <2>2
  <2> HIDE DEF n
  <2>4. /\ slice \in SliceType /\ r \in Others(s) /\ r \in Subnets
        /\ SliceViewed(base, s, r, slice)
        /\ ms # <<>> => slice.messages_begin = x.streams[r].signals_end
    BY <1>0, <2>2 DEF SlicesNext, SlicesViewed, S
  <2> HIDE DEF a, b, r, slice
  <2>5. ms \in Seq(MessageType) /\ Len(ms) \in Nat
    BY <2>4 DEF SliceType
  <2>6. Sound(base, s, a, {}) /\ a \in Working
    BY <2>2 DEF Sound
  <2>7. NextMessages(Net(base, s, a)[r][s], a.streams[r].signals_end, ms)
    BY <2>3, <2>4, <2>6, SliceNext
  <2> HIDE DEF ms
  <2>8. Sound(base, s, b, {})
    BY <2>2, <2>4, <2>5, <2>6, <2>7, InductMessagesSound
  <2>9. Inducted(a, b, r, Len(ms))
    BY <2>2, <2>4, <2>5, <2>6, InductMessagesEffect
  <2>10. ASSUME NEW j \in (i + 2) .. n
         PROVE  b.streams[src[j]] = x.streams[src[j]]
    <3>1. j \in (i + 1) .. n /\ j \in 1 .. n /\ j # i + 1
      BY <1>1, <2>1 DEF n
    <3>2. src[j] \in Subnets /\ src[j] # r
      BY <1>0, <1>1, <2>1, <3>1 DEF r, n
    <3>3. b.streams[src[j]] = a.streams[src[j]]
      BY <2>9, <3>2 DEF Inducted
    <3>4. a.streams[src[j]] = x.streams[src[j]]
      BY <2>2, <3>1
    <3> QED BY <3>3, <3>4
  <2>11. i + 1 + 1 = i + 2
    BY <1>4
  <2> QED BY <2>8, <2>10, <2>11 DEF b
<1>5. n \in P
  <2>1. \A i \in Nat : i \in P => i + 1 \in P
    <3> HIDE DEF Good, n
    <3> QED BY <1>4
  <2> HIDE DEF P
  <2> QED BY <1>1, <1>3, <2>1, NatSetInduction
<1>6. Good(run[n], n)
  <2>1. n <= n
    BY <1>1
  <2> HIDE DEF Good
  <2> QED BY <1>1, <1>5, <2>1
<1> QED BY <1>2, <1>6

LEMMA LoopbackSound ==
  ASSUME AtHosts, registry \in [Subnets -> 0 .. 1],
         NEW base \in Nets, NEW s \in Subnets, NEW full, NEW x, Sound(base, s, x, {}),
         x.streams[s].begin = x.streams[s].signals_end
  PROVE  Sound(base, s, InductLoopbackStream(s, full, x), {})
<1> DEFINE F == x.streams[s]
           ms == F.messages
           y == InductMessages(s, s, full, x, ms)
           loop == y.streams[s]
           i == loop.signals_end
           J == loop.reject_signals
           w == RerouteRejectedMessages(s, WithStream(y, s, Cut(loop, i, i)),
                                        RejectedMessages(loop, i, J))
<1>1. F \in StreamType /\ Net(base, s, x)[s][s] = F
  BY SoundTypes
<1>2. F.begin \in Nat /\ Len(ms) \in Nat /\ MessagesEnd(F) = F.begin + Len(ms)
  BY <1>1, StreamFields DEF MessagesEnd
<1>3. NextMessages(Net(base, s, x)[s][s], F.signals_end, ms)
  <2> SUFFICES ASSUME NEW j \in 1 .. Len(ms)
               PROVE  F.begin + j - 1 < MessagesEnd(F) /\ ms[j] = MessageAt(F, F.begin + j - 1)
    BY <1>1 DEF NextMessages
  <2>1. (F.begin + j - 1) - F.begin + 1 = j /\ F.begin + j - 1 < MessagesEnd(F)
    <3> HIDE DEF F, ms
    <3> QED BY <1>2
  <2> QED BY <2>1 DEF MessageAt
<1>4. Sound(base, s, y, {})
  <2> HIDE DEF ms
  <2> QED BY <1>2, <1>3, InductMessagesSound
<1> HIDE DEF y
<1>5. /\ y \in Working /\ loop \in StreamType /\ Net(base, s, y)[s][s] = loop
      /\ AllOrderly(Net(base, s, y))
  BY <1>4, SoundTypes
<1>6. loop.begin <= i /\ i \in Nat /\ J \in SUBSET Nat
  <2>1. Orderly(s, s, loop, loop)
    BY <1>5 DEF AllOrderly
  <2> QED BY <1>5, <2>1, StreamFields DEF Orderly
<1>7. i <= i
  <2> HIDE DEF i
  <2> QED BY <1>6
<1>8. MayCut(Net(base, s, y), s, s, i, i) /\ SignalsOf(J, Net(base, s, y)[s][s], loop, i)
  BY <1>5, <1>6, <1>7 DEF MayCut, SignalsOf
<1>9. Sound(base, s, w, {})
  <2> HIDE DEF i, J
  <2>1. Sound(base, s, RerouteRejectedMessages(s, WithStream(y, s, Cut(y.streams[s], i, i)),
                                               RejectedMessages(y.streams[s], i, J)), {})
    BY <1>4, <1>6, <1>8, DiscardSound
  <2> QED BY <2>1
<1>10. CASE ms = <<>>
  BY <1>10 DEF InductLoopbackStream
<1>11. CASE ms # <<>>
  <2> DEFINE cut == Cut(loop, i, i)
  <2>1. InductLoopbackStream(s, full, x)
          = RerouteRejectedMessages(s, [y EXCEPT !.streams[s] = cut], RejectedMessages(loop, i, J))
    BY <1>11 DEF InductLoopbackStream, Cut, y
  <2> HIDE DEF cut
  <2>2. [y EXCEPT !.streams[s] = cut] = WithStream(y, s, cut)
    BY <1>5, WithStreamTwice
  <2>3. InductLoopbackStream(s, full, x) = w
    BY <2>1, <2>2 DEF cut
  <2> QED BY <1>9, <2>3
<1> QED BY <1>10, <1>11

LEMMA ProcessSound ==
  ASSUME AtHosts, registry \in [Subnets -> 0 .. 1],
         NEW base \in Nets, NEW s \in Subnets, NEW full, NEW x, Sound(base, s, x, {}),
         x.streams[s].begin = x.streams[s].signals_end,
         NEW payload, SlicesViewed(base, s, payload), SlicesFit(x, payload), SlicesNext(x, payload)
  PROVE  Sound(base, s, ProcessStreamSlices(s, payload, full, x), {})
<1> DEFINE S == Sources(payload)
           end == MessagesEnd(x.streams[s])
           x1 == InductLoopbackStream(s, full, x)
           x2 == GarbageCollectStreams(s, payload, x1)
           b1 == [Begins(x) EXCEPT ![s] = end]
           e1 == [SignalsEnds(x) EXCEPT ![s] = end]
<1>0. x \in Working /\ S \subseteq Subnets /\ s \notin S /\ \A q \in S : payload[q] \in SliceType
  BY DEF Sound, SlicesViewed, Others
<1>1. Sound(base, s, x1, {}) /\ Moved(x, x1, b1, e1)
  BY <1>0, LoopbackSound, LoopbackEffect
<1> HIDE DEF x1
<1>2. \A q \in S : /\ x1.streams[q].begin = x.streams[q].begin
                   /\ x1.streams[q].signals_end = x.streams[q].signals_end
                   /\ MessagesEnd(x.streams[q]) <= MessagesEnd(x1.streams[q])
  BY <1>0, <1>1 DEF Moved, Begins, SignalsEnds
<1>3. x1 \in Working
  BY <1>1 DEF Sound
<1>4. SlicesFit(x1, payload)
  <2> SUFFICES ASSUME NEW q \in S
               PROVE  /\ x1.streams[q].begin <= payload[q].signals_end
                      /\ payload[q].signals_end <= MessagesEnd(x1.streams[q])
    BY <1>0 DEF SlicesFit
  <2>1. /\ x.streams[q].begin <= payload[q].signals_end
        /\ payload[q].signals_end <= MessagesEnd(x.streams[q])
        /\ payload[q].signals_end \in Nat
    BY <1>0 DEF SlicesFit, SliceType
  <2>2. MessagesEnd(x.streams[q]) \in Nat /\ MessagesEnd(x1.streams[q]) \in Nat
    BY <1>0, <1>3, WorkingStreams
  <2> QED BY <1>2, <2>1, <2>2
<1>5. Sound(base, s, x2, {}) /\ Moved(x1, x2, BeginsAfter(x1, payload, S), SignalsEnds(x1))
  BY <1>1, <1>3, <1>4, CollectStreamsSound, CollectStreamsEffect
<1> HIDE DEF x2
<1>6. SlicesNext(x2, payload)
  <2>1. \A q \in S : x2.streams[q].signals_end = x.streams[q].signals_end
    BY <1>0, <1>2, <1>5 DEF Moved, SignalsEnds
  <2> QED BY <2>1 DEF SlicesNext
<1>7. Sound(base, s, InductStreamSlices(s, payload, full, x2), {})
  BY <1>5, <1>6, InductSlicesSound
<1> QED BY <1>7 DEF ProcessStreamSlices, x2, x1

-----------------------------------------------------------------------------
(* The invariant of the calls. *)

\* Certified streams, pools and slices in blocks are old pieces of the streams.
CertifiedViewed(net, cert) ==
  \A s \in Subnets : \A r \in Others(s) :
    View(cert[r][s], cert[r][s].begin, net[r][s], net[s][r].begin)

PoolsViewed(net, pools) ==
  \A s \in Subnets : \A r \in Others(s) : \A n \in Nodes :
    View(pools[s][n][r], pools[s][n][r].begin, net[r][s], net[s][r].begin)

PayloadViewed(net, s, payload) ==
  \A r \in Others(s) : payload[r] # None => SliceViewed(net, s, r, payload[r])

BlocksViewed(net, blocks) ==
  \A s \in Subnets : \A i \in 1 .. Len(blocks[s]) : PayloadViewed(net, s, blocks[s][i])

CallInv ==
  /\ AtHosts
  /\ AllOrderly(streams)
  /\ AllInOnePlace(streams, call, work, {})
  /\ OrphansOnly(call, lost)
  /\ CertifiedViewed(streams, certified)
  /\ PoolsViewed(streams, pool)
  /\ BlocksViewed(streams, payloads)

\* Every stream of net is an old version of the one of net2.
Advanced(net, net2) ==
  \A a \in Subnets : \A b \in Others(a) :
    View(net[a][b], net[a][b].begin, net2[a][b], net2[b][a].begin)

LEMMA ViewAdvanced ==
  ASSUME NEW net \in Nets, NEW net2 \in Nets, Advanced(net, net2),
         NEW s \in Subnets, NEW r \in Others(s), NEW v, NEW from \in Nat,
         v.begin \in Nat, v.signals_end \in Nat, Len(v.messages) \in Nat,
         View(v, from, net[r][s], net[s][r].begin)
  PROVE  View(v, from, net2[r][s], net2[s][r].begin)
<1> DEFINE F == net[r][s]
           F2 == net2[r][s]
           b == net[s][r].begin
           b2 == net2[s][r].begin
<1>1. r \in Subnets /\ s \in Others(r)
  BY DEF Others
<1>2. /\ F \in StreamType /\ F2 \in StreamType
      /\ net[s][r] \in StreamType /\ net2[s][r] \in StreamType
  BY <1>1 DEF Nets
<1>3. b \in Nat /\ b2 \in Nat
  BY <1>2, StreamFields
<1>4. View(F, F.begin, F2, b2) /\ b <= b2
  BY <1>1 DEF Advanced, View
<1>5. View(v, from, F, b)
  OBVIOUS
<1> HIDE DEF F, F2, b, b2
<1>6. View(v, from, F2, b2)
  BY <1>2, <1>3, <1>4, <1>5, ViewTransitive
<1> QED BY <1>6 DEF F2, b2

LEMMA CertifiedAdvanced ==
  ASSUME NEW net \in Nets, NEW net2 \in Nets, Advanced(net, net2),
         NEW cert \in Nets, CertifiedViewed(net, cert)
  PROVE  CertifiedViewed(net2, cert)
<1> SUFFICES ASSUME NEW s \in Subnets, NEW r \in Others(s)
             PROVE  View(cert[r][s], cert[r][s].begin, net2[r][s], net2[s][r].begin)
  BY DEF CertifiedViewed
<1> DEFINE v == cert[r][s]
<1>1. v \in StreamType
  BY DEF Nets, Others
<1>2. v.begin \in Nat /\ v.signals_end \in Nat /\ Len(v.messages) \in Nat
  BY <1>1, StreamFields
<1>3. View(v, v.begin, net[r][s], net[s][r].begin)
  BY DEF CertifiedViewed
<1> HIDE DEF v
<1>4. View(v, v.begin, net2[r][s], net2[s][r].begin)
  BY <1>2, <1>3, ViewAdvanced
<1> QED BY <1>4 DEF v

LEMMA PoolsAdvanced ==
  ASSUME NEW net \in Nets, NEW net2 \in Nets, Advanced(net, net2),
         NEW pools \in [Subnets -> [Nodes -> [Subnets -> StreamType]]], PoolsViewed(net, pools)
  PROVE  PoolsViewed(net2, pools)
<1> SUFFICES ASSUME NEW s \in Subnets, NEW r \in Others(s), NEW n \in Nodes
             PROVE  View(pools[s][n][r], pools[s][n][r].begin, net2[r][s], net2[s][r].begin)
  BY DEF PoolsViewed
<1> DEFINE v == pools[s][n][r]
<1>1. v \in StreamType
  BY DEF Others
<1>2. v.begin \in Nat /\ v.signals_end \in Nat /\ Len(v.messages) \in Nat
  BY <1>1, StreamFields
<1>3. View(v, v.begin, net[r][s], net[s][r].begin)
  BY DEF PoolsViewed
<1> HIDE DEF v
<1>4. View(v, v.begin, net2[r][s], net2[s][r].begin)
  BY <1>2, <1>3, ViewAdvanced
<1> QED BY <1>4 DEF v

\* The blocks after the certified state of every subnet.
Blocks(blocks) == \A s \in Subnets : blocks[s] \in Seq(Payloads(s))

LEMMA BlocksAdvanced ==
  ASSUME NEW net \in Nets, NEW net2 \in Nets, Advanced(net, net2),
         NEW blocks, Blocks(blocks), BlocksViewed(net, blocks)
  PROVE  BlocksViewed(net2, blocks)
<1> SUFFICES ASSUME NEW s \in Subnets, NEW i \in 1 .. Len(blocks[s]), NEW r \in Others(s),
                    blocks[s][i][r] # None
             PROVE  SliceViewed(net2, s, r, blocks[s][i][r])
  BY DEF BlocksViewed, PayloadViewed
<1> DEFINE v == blocks[s][i][r]
<1>1. v \in SliceType
  <2>1. blocks[s] \in Seq(Payloads(s))
    BY DEF Blocks
  <2>2. blocks[s][i] \in Payloads(s)
    BY <2>1
  <2>3. blocks[s][i][r] \in {None} \cup SliceType
    BY <2>2 DEF Payloads
  <2> QED BY <2>3
<1>2. v.begin \in Nat /\ v.signals_end \in Nat /\ Len(v.messages) \in Nat /\ v.messages_begin \in Nat
  <2> HIDE DEF v
  <2> QED BY <1>1 DEF SliceType
<1>3. View(v, v.messages_begin, net[r][s], net[s][r].begin)
  <2>1. PayloadViewed(net, s, blocks[s][i])
    BY DEF BlocksViewed
  <2> QED BY <2>1 DEF PayloadViewed, SliceViewed
<1> HIDE DEF v
<1>4. View(v, v.messages_begin, net2[r][s], net2[s][r].begin)
  BY <1>2, <1>3, ViewAdvanced
<1> QED BY <1>4 DEF v, SliceViewed

\* What an action that changes the streams has to show.
LEMMA StreamsAdvance ==
  ASSUME Inv, CallInv, Inv', UNCHANGED <<certified, payloads, pool, registry, at>>,
         Advanced(streams, streams'), AllOrderly(streams'),
         AllInOnePlace(streams', call', work', {}), OrphansOnly(call', lost')
  PROVE  CallInv'
<1>1. streams \in Nets /\ streams' \in Nets /\ certified \in Nets
  BY DEF Inv, TypeInv, Nets
<1>2. Blocks(payloads) /\ pool \in [Subnets -> [Nodes -> [Subnets -> StreamType]]]
  BY DEF Inv, TypeInv, Blocks
<1>3. CertifiedViewed(streams', certified)
  BY <1>1, CertifiedAdvanced DEF CallInv
<1>4. PoolsViewed(streams', pool)
  BY <1>1, <1>2, PoolsAdvanced DEF CallInv
<1>5. BlocksViewed(streams', payloads)
  BY <1>1, <1>2, BlocksAdvanced DEF CallInv
<1>6. AtHosts'
  BY DEF CallInv, AtHosts
<1> QED BY <1>3, <1>4, <1>5, <1>6 DEF CallInv

\* A message pushed to a stream.
LEMMA RouteMessageCalls ==
  ASSUME Inv, CallInv, NEW s \in Subnets, NEW msg \in MessageType, s \in Hosts(Sender(msg)),
         RouteMessage(s, msg)
  PROVE  /\ Advanced(streams, streams') /\ AllOrderly(streams')
         /\ \E p : \A k : Places(streams', k) = Places(streams, k) \cup IF msg.call = k THEN {p} ELSE {}
<1> DEFINE dst == Route(s, Receiver(msg))
           st == streams[s][dst]
<1>1. Receiver(msg) \in Canisters /\ dst \in Subnets
  BY Types, RouteType
<1>2. streams \in Nets /\ registry \in [Subnets -> 0 .. 1]
  BY DEF Inv, TypeInv, Nets
<1>3. streams' = Put(streams, s, dst, StreamPush(st, msg))
  BY DEF RouteMessage, Put
<1>4. Legit(s, dst, msg)
  <2>1. AtHosts
    BY DEF CallInv
  <2>2. dst \in Hosts(Receiver(msg))
    BY <1>1, <1>2, <2>1, HostsAre
  <2> QED BY <2>2 DEF Legit
<1>5. AllOrderly(streams)
  BY DEF CallInv
<1> HIDE DEF dst
<1>6. LET new == Put(streams, s, dst, StreamPush(streams[s][dst], msg))
      IN  /\ new \in Nets /\ AllOrderly(new)
          /\ \A k : Places(new, k)
                      = Places(streams, k)
                          \cup IF msg.call = k THEN {<<s, dst, MessagesEnd(streams[s][dst])>>} ELSE {}
  BY <1>1, <1>2, <1>4, <1>5, NetPushed
<1>7. /\ AllOrderly(streams')
      /\ \A k : Places(streams', k)
                  = Places(streams, k) \cup IF msg.call = k THEN {<<s, dst, MessagesEnd(st)>>} ELSE {}
  BY <1>3, <1>6
<1>8. st \in StreamType
  BY <1>1, <1>2 DEF Nets
<1>9. StreamPush(st, msg) \in StreamType
  BY <1>8, StreamPushType
<1>10. \A a, b \in Subnets : streams'[a][b] = IF a = s /\ b = dst THEN StreamPush(st, msg) ELSE streams[a][b]
  <2> DEFINE pushed == StreamPush(st, msg)
  <2>1. pushed \in StreamType
    BY <1>9
  <2>2. streams' = Put(streams, s, dst, pushed)
    BY <1>3
  <2> HIDE DEF pushed
  <2>3. streams \in Nets /\ dst \in Subnets
    BY <1>1, <1>2
  <2>4. /\ Put(streams, s, dst, pushed) \in Nets
        /\ \A a, b \in Subnets :
             Put(streams, s, dst, pushed)[a][b] = IF a = s /\ b = dst THEN pushed ELSE streams[a][b]
    BY <2>1, <2>3, PutAt
  <2> QED BY <2>2, <2>4 DEF pushed
<1>11. Advanced(streams, streams')
  <2> SUFFICES ASSUME NEW a \in Subnets, NEW b \in Others(a)
               PROVE  View(streams[a][b], streams[a][b].begin, streams'[a][b], streams'[b][a].begin)
    BY DEF Advanced
  <2>1. b \in Subnets /\ streams[a][b] \in StreamType
    BY <1>2 DEF Others, Nets
  <2>2. CASE a = s /\ b = dst
    <3>1. View(st, st.begin, StreamPush(st, msg), streams'[b][a].begin)
      BY <1>8, ViewPushed
    <3> QED BY <1>10, <2>1, <2>2, <3>1
  <2>3. CASE ~(a = s /\ b = dst)
    <3>1. streams'[a][b] = streams[a][b]
      BY <1>10, <2>1, <2>3
    <3> QED BY <2>1, <3>1, ViewSelf
  <2> QED BY <2>2, <2>3
<1> DEFINE p == <<s, dst, MessagesEnd(st)>>
<1>12. \A k : Places(streams', k) = Places(streams, k) \cup IF msg.call = k THEN {p} ELSE {}
  BY <1>7
<1> HIDE DEF p
<1> QED BY <1>7, <1>11, <1>12

LEMMA SendRequestCalls ==
  ASSUME Inv, CallInv, NEW k \in Calls, SendRequest(k) PROVE CallInv'
<1> DEFINE s == at[Caller[k]]
           msg == Request(k)
<1>1. Inv'
  BY SendRequestInv
<1>2. s \in Subnets /\ Caller[k] \in Canisters
  BY XNetAssumption DEF Inv, TypeInv, SendRequest
<1>3. RouteMessage(s, msg) /\ msg \in MessageType /\ msg.call = k /\ Sender(msg) = Caller[k]
  BY Types DEF SendRequest, Request, Sender
<1>4. s \in Hosts(Sender(msg))
  <2>1. AtHosts /\ registry \in [Subnets -> 0 .. 1] /\ s # None
    BY DEF CallInv, Inv, TypeInv, SendRequest
  <2> QED BY <1>2, <1>3, <2>1, HostsAre
<1> HIDE DEF s, msg
<1>5. /\ Advanced(streams, streams') /\ AllOrderly(streams')
      /\ \E p : \A j : Places(streams', j) = Places(streams, j) \cup IF msg.call = j THEN {p} ELSE {}
  BY <1>2, <1>3, <1>4, RouteMessageCalls
<1>6. PICK p : \A j : Places(streams', j) = Places(streams, j) \cup IF k = j THEN {p} ELSE {}
  BY <1>3, <1>5
<1>7. /\ call' = [call EXCEPT ![k] = "open"] /\ work' = work /\ lost' = lost
      /\ UNCHANGED <<certified, payloads, pool, registry, at>>
      /\ call[k] = "idle" /\ call \in [Calls -> CallStates]
  BY DEF SendRequest, Inv, TypeInv
<1>8. Pending(call'[k]) /\ ~Pending(call[k]) /\ \A j \in Calls \ {k} : call'[j] = call[j]
  BY <1>7 DEF Pending
<1>9. AllInOnePlace(streams, call, work, {}) /\ OrphansOnly(call, lost)
  BY DEF CallInv
<1>10. InOnePlace(Pending(call'[k]), work'[k] = "held", Places(streams', k), InHand({}, k))
  <2> DEFINE P == Places(streams, k)
             P2 == Places(streams', k)
             H == InHand({}, k)
  <2>1. InOnePlace(Pending(call[k]), work[k] = "held", P, H)
    BY <1>9 DEF AllInOnePlace
  <2>2. P2 = P \cup {p}
    BY <1>6
  <2> HIDE DEF P, P2, H
  <2>3. P = {} /\ H = {} /\ work[k] # "held"
    BY <1>8, <2>1 DEF InOnePlace
  <2>4. InOnePlace(Pending(call'[k]), work'[k] = "held", P2, H)
    BY <1>7, <1>8, <2>2, <2>3 DEF InOnePlace
  <2> QED BY <2>4 DEF P2, H
<1>11. \A j \in Calls \ {k} : /\ Places(streams', j) = Places(streams, j)
                              /\ InHand({}, j) = InHand({}, j)
                              /\ Pending(call'[j]) = Pending(call[j]) /\ work'[j] = work[j]
  BY <1>6, <1>7, <1>8
<1>12. AllInOnePlace(streams', call', work', {})
  BY <1>9, <1>10, <1>11, OneCallMoves
<1>13. OrphansOnly(call', lost')
  <2>1. \A m \in lost : m.call \in Calls
    BY DEF Inv, TypeInv, MessageType
  <2>2. \A j \in Calls : call[j] = "gone" => call'[j] = "gone"
    BY <1>7
  <2> QED BY <1>7, <1>9, <2>1, <2>2 DEF OrphansOnly
<1> QED BY <1>1, <1>5, <1>7, <1>12, <1>13, StreamsAdvance

LEMMA SendResponseCalls ==
  ASSUME Inv, CallInv, NEW k \in Calls, SendResponse(k) PROVE CallInv'
<1> DEFINE s == at[Callee[k]]
           msg == Response(k)
<1>1. Inv'
  BY SendResponseInv
<1>2. s \in Subnets /\ Callee[k] \in Canisters
  BY XNetAssumption DEF Inv, TypeInv, SendResponse
<1>3. RouteMessage(s, msg) /\ msg \in MessageType /\ msg.call = k /\ Sender(msg) = Callee[k]
  BY Types DEF SendResponse, Response, Sender
<1>4. s \in Hosts(Sender(msg))
  <2>1. AtHosts /\ registry \in [Subnets -> 0 .. 1] /\ s # None
    BY DEF CallInv, Inv, TypeInv, SendResponse
  <2> QED BY <1>2, <1>3, <2>1, HostsAre
<1> HIDE DEF s, msg
<1>5. /\ Advanced(streams, streams') /\ AllOrderly(streams')
      /\ \E p : \A j : Places(streams', j) = Places(streams, j) \cup IF msg.call = j THEN {p} ELSE {}
  BY <1>2, <1>3, <1>4, RouteMessageCalls
<1>6. PICK p : \A j : Places(streams', j) = Places(streams, j) \cup IF k = j THEN {p} ELSE {}
  BY <1>3, <1>5
<1>7. /\ work' = [work EXCEPT ![k] = "answered"] /\ call' = call /\ lost' = lost
      /\ UNCHANGED <<certified, payloads, pool, registry, at>>
      /\ work[k] = "held" /\ work \in [Calls -> {"none", "held", "answered"}]
  BY DEF SendResponse, Inv, TypeInv
<1>8. work'[k] # "held" /\ \A j \in Calls \ {k} : work'[j] = work[j]
  BY <1>7
<1>9. AllInOnePlace(streams, call, work, {}) /\ OrphansOnly(call, lost)
  BY DEF CallInv
<1>10. InOnePlace(Pending(call'[k]), work'[k] = "held", Places(streams', k), InHand({}, k))
  <2> DEFINE P == Places(streams, k)
             P2 == Places(streams', k)
             H == InHand({}, k)
  <2>1. InOnePlace(Pending(call[k]), work[k] = "held", P, H)
    BY <1>9 DEF AllInOnePlace
  <2>2. P2 = P \cup {p}
    BY <1>6
  <2> HIDE DEF P, P2, H
  <2>3. P = {} /\ H = {} /\ Pending(call[k])
    BY <1>7, <2>1 DEF InOnePlace
  <2>4. InOnePlace(Pending(call'[k]), work'[k] = "held", P2, H)
    BY <1>7, <1>8, <2>2, <2>3 DEF InOnePlace
  <2> QED BY <2>4 DEF P2, H
<1>11. \A j \in Calls \ {k} : /\ Places(streams', j) = Places(streams, j)
                              /\ InHand({}, j) = InHand({}, j)
                              /\ Pending(call'[j]) = Pending(call[j]) /\ work'[j] = work[j]
  BY <1>6, <1>7, <1>8
<1>12. AllInOnePlace(streams', call', work', {})
  BY <1>9, <1>10, <1>11, OneCallMoves
<1>13. OrphansOnly(call', lost')
  BY <1>7, <1>9
<1> QED BY <1>1, <1>5, <1>7, <1>12, <1>13, StreamsAdvance

LEMMA StopUninstalledCalls ==
  ASSUME Inv, CallInv, NEW c \in Canisters, StopUninstalled(c) PROVE CallInv'
<1>1. /\ call' = [k \in Calls |-> IF Caller[k] = c /\ call[k] = "open" THEN "orphaned"
                                  ELSE call[k]]
      /\ UNCHANGED <<streams, certified, payloads, pool, registry, at, work, lost>>
  BY DEF StopUninstalled
<1>2. \A k \in Calls : /\ Pending(call'[k]) = Pending(call[k])
                       /\ call[k] = "gone" => call'[k] = "gone"
  BY <1>1 DEF Pending
<1>3. AllInOnePlace(streams, call', work, {})
  <2> SUFFICES ASSUME NEW k \in Calls
               PROVE  InOnePlace(Pending(call'[k]), work[k] = "held", Places(streams, k), InHand({}, k))
    BY DEF AllInOnePlace
  <2>1. InOnePlace(Pending(call[k]), work[k] = "held", Places(streams, k), InHand({}, k))
    BY DEF CallInv, AllInOnePlace
  <2>2. Pending(call'[k]) = Pending(call[k])
    BY <1>2
  <2> QED BY <2>1, <2>2
<1>4. OrphansOnly(call', lost)
  <2>1. \A m \in lost : m.call \in Calls
    BY DEF Inv, TypeInv, MessageType
  <2> QED BY <1>2, <2>1 DEF CallInv, OrphansOnly
<1>5. AtHosts'
  BY <1>1 DEF CallInv, AtHosts
<1> QED BY <1>1, <1>3, <1>4, <1>5 DEF CallInv

LEMMA RefillPoolCalls ==
  ASSUME Inv, CallInv, NEW s \in Subnets, NEW n \in Nodes, NEW r \in Others(s), RefillPool(s, n, r)
  PROVE  CallInv'
<1> DEFINE new == certified[r][s]
<1>1. r \in Subnets
  BY DEF Others
<1>2. /\ pool' = [pool EXCEPT ![s] = [pool[s] EXCEPT ![n] = [pool[s][n] EXCEPT ![r] = new]]]
      /\ UNCHANGED <<streams, certified, payloads, registry, at, call, work, lost>>
  BY DEF RefillPool
<1>3. View(new, new.begin, streams[r][s], streams[s][r].begin)
  BY DEF CallInv, CertifiedViewed
<1> HIDE DEF new
<1>4. pool \in [Subnets -> [Nodes -> [Subnets -> StreamType]]]
  BY DEF Inv, TypeInv
<1>5. PoolsViewed(streams, pool')
  <2> SUFFICES ASSUME NEW a \in Subnets, NEW b \in Others(a), NEW c \in Nodes
               PROVE  View(pool'[a][c][b], pool'[a][c][b].begin, streams[b][a], streams[a][b].begin)
    BY DEF PoolsViewed
  <2>1. b \in Subnets
    BY DEF Others
  <2>2. CASE a = s /\ c = n /\ b = r
    <3>1. pool'[a][c][b] = new
      BY <1>1, <1>2, <1>4, <2>2
    <3> QED BY <1>3, <2>2, <3>1
  <2>3. CASE ~(a = s /\ c = n /\ b = r)
    <3>1. pool'[a][c][b] = pool[a][c][b]
      BY <1>1, <1>2, <1>4, <2>1, <2>3
    <3>2. View(pool[a][c][b], pool[a][c][b].begin, streams[b][a], streams[a][b].begin)
      BY DEF CallInv, PoolsViewed
    <3> QED BY <3>1, <3>2
  <2> QED BY <2>2, <2>3
<1>6. AtHosts'
  BY <1>2 DEF CallInv, AtHosts
<1> QED BY <1>2, <1>5, <1>6 DEF CallInv

LEMMA UpdateRegistryCalls ==
  ASSUME Inv, CallInv, NEW s \in Subnets, UpdateRegistry(s) PROVE CallInv'
<1>1. /\ Mover # None /\ registry[s] = 0 /\ (s = Target => registry[Home[Mover]] = 1)
      /\ registry' = [registry EXCEPT ![s] = 1]
      /\ at' = [at EXCEPT ![Mover] = IF s = Home[Mover] THEN None
                                     ELSE IF s = Target THEN Target ELSE at[Mover]]
      /\ UNCHANGED <<streams, certified, payloads, pool, call, work, lost>>
  BY DEF UpdateRegistry
<1>2. /\ Mover \in Canisters /\ Target \in Subnets /\ Home[Mover] \in Subnets /\ Target # Home[Mover]
  BY <1>1, XNetAssumption
<1>3. registry \in [Subnets -> 0 .. 1] /\ at \in [Canisters -> Subnets \cup {None}]
  BY DEF Inv, TypeInv
<1>4. /\ \A q \in Subnets : registry'[q] = IF q = s THEN 1 ELSE registry[q]
      /\ \A c \in Canisters : c # Mover => at'[c] = at[c]
      /\ at'[Mover] = IF s = Home[Mover] THEN None ELSE IF s = Target THEN Target ELSE at[Mover]
  BY <1>1, <1>2, <1>3
<1>5. /\ \A c \in Canisters : c # Mover => at[c] = Home[c]
      /\ registry[Target] = 1 => registry[Home[Mover]] = 1
      /\ at[Mover] = IF registry[Home[Mover]] = 0 THEN Home[Mover]
                     ELSE IF registry[Target] = 0 THEN None ELSE Target
  BY <1>1 DEF CallInv, AtHosts
<1>6. registry[Target] = 0 \/ registry[Target] = 1
  BY <1>2, <1>3
<1>7. /\ registry'[Target] = 1 => registry'[Home[Mover]] = 1
      /\ at'[Mover] = IF registry'[Home[Mover]] = 0 THEN Home[Mover]
                      ELSE IF registry'[Target] = 0 THEN None ELSE Target
  BY <1>1, <1>2, <1>4, <1>5, <1>6
<1>8. AtHosts'
  BY <1>4, <1>5, <1>7 DEF AtHosts
<1> QED BY <1>1, <1>8 DEF CallInv

LEMMA StutterCalls == ASSUME CallInv, UNCHANGED vars PROVE CallInv'
<1>1. UNCHANGED <<streams, certified, payloads, pool, registry, at, call, work, lost>>
  BY DEF vars
<1>2. AtHosts'
  BY <1>1 DEF CallInv, AtHosts
<1> QED BY <1>1, <1>2 DEF CallInv

LEMMA CertifyCalls ==
  ASSUME Inv, CallInv, NEW s \in Subnets, Certify(s) PROVE CallInv'
<1> DEFINE P == payloads[s]
           rest == SubSeq(P, executed[s] + 1, Len(P))
<1>1. /\ certified' = [certified EXCEPT ![s] = streams[s]]
      /\ payloads' = [payloads EXCEPT ![s] = rest]
      /\ UNCHANGED <<streams, pool, registry, at, call, work, lost>>
  BY DEF Certify
<1>2. /\ Len(P) \in Nat /\ executed[s] \in Nat /\ executed[s] <= Len(P)
      /\ P \in Seq(Payloads(s))
  BY DEF Inv, TypeInv
<1>3. \A i \in 1 .. Len(rest) : executed[s] + i \in 1 .. Len(P) /\ rest[i] = P[executed[s] + i]
  <2> DEFINE e == executed[s]
  <2> HIDE DEF P
  <2>1. rest = SubSeq(P, e + 1, Len(P)) /\ e \in Nat /\ e <= Len(P) /\ Len(P) \in Nat
    BY <1>2
  <2> HIDE DEF rest, e
  <2>2. Len(rest) = Len(P) - e
    BY <1>2, <2>1
  <2>3. ASSUME NEW i \in 1 .. Len(rest) PROVE e + i \in 1 .. Len(P) /\ rest[i] = P[e + i]
    <3>1. i \in Nat /\ i >= 1 /\ i <= Len(P) - e
      BY <2>1, <2>2, <2>3
    <3>2. e + i \in 1 .. Len(P)
      BY <2>1, <3>1
    <3>3. rest[i] = P[e + 1 + i - 1]
      BY <1>2, <2>1, <3>1, <3>2
    <3>4. e + 1 + i - 1 = e + i
      BY <2>1, <3>1
    <3> QED BY <3>2, <3>3, <3>4
  <2> QED BY <2>3 DEF e
<1>4. \A a, b \in Subnets : certified'[a][b] = IF a = s THEN streams[s][b] ELSE certified[a][b]
  BY <1>1 DEF Inv, TypeInv
<1>5. \A a \in Subnets : payloads'[a] = IF a = s THEN rest ELSE payloads[a]
  BY <1>1 DEF Inv, TypeInv
<1>6. CertifiedViewed(streams, certified')
  <2> SUFFICES ASSUME NEW a \in Subnets, NEW b \in Others(a)
               PROVE  View(certified'[b][a], certified'[b][a].begin, streams[b][a], streams[a][b].begin)
    BY DEF CertifiedViewed
  <2>1. b \in Subnets /\ streams[b][a] \in StreamType
    BY DEF Others, Inv, TypeInv
  <2>2. CASE b = s
    <3>1. certified'[b][a] = streams[b][a]
      BY <1>4, <2>1, <2>2
    <3> QED BY <2>1, <3>1, ViewSelf
  <2>3. CASE b # s
    <3>1. certified'[b][a] = certified[b][a]
      BY <1>4, <2>1, <2>3
    <3>2. View(certified[b][a], certified[b][a].begin, streams[b][a], streams[a][b].begin)
      BY DEF CallInv, CertifiedViewed
    <3> QED BY <3>1, <3>2
  <2> QED BY <2>2, <2>3
<1>7. BlocksViewed(streams, payloads')
  <2> SUFFICES ASSUME NEW a \in Subnets, NEW i \in 1 .. Len(payloads'[a])
               PROVE  PayloadViewed(streams, a, payloads'[a][i])
    BY DEF BlocksViewed
  <2>1. CASE a = s
    <3>1. i \in 1 .. Len(rest) /\ payloads'[a] = rest
      BY <1>5, <2>1
    <3> HIDE DEF rest, P
    <3>2. payloads'[a][i] = P[executed[s] + i] /\ executed[s] + i \in 1 .. Len(P)
      BY <1>3, <3>1
    <3>3. PayloadViewed(streams, s, P[executed[s] + i])
      BY <3>2 DEF P, CallInv, BlocksViewed
    <3> QED BY <2>1, <3>2, <3>3
  <2>2. CASE a # s
    <3>1. payloads'[a] = payloads[a]
      BY <1>5, <2>2
    <3> QED BY <3>1 DEF CallInv, BlocksViewed
  <2> QED BY <2>1, <2>2
<1>8. AtHosts'
  BY <1>1 DEF CallInv, AtHosts
<1> QED BY <1>1, <1>6, <1>7, <1>8 DEF CallInv

LEMMA SliceIndices ==
  ASSUME NEW begin \in Nat, NEW n \in Nat, NEW from \in Nat, NEW len \in Nat, begin <= from,
         len > 0 => from + len <= begin + n
  PROVE  LET i == from - begin + 1
             j == from - begin + len
         IN  /\ i \in Int /\ j \in Int
             /\ len = 0 => j < i
             /\ len > 0 => i \in 1 .. n /\ j \in 1 .. n /\ i <= j /\ j - i + 1 = len
             /\ \A m \in 1 .. len : /\ from + m - 1 \in begin .. ((begin + n) - 1)
                                    /\ (from + m - 1) - begin + 1 = i + m - 1
OBVIOUS

LEMMA SliceView ==
  ASSUME NEW st \in StreamType, NEW from \in Nat, NEW len \in Nat, MayTake(st, from, len),
         NEW F, NEW b, F.begin \in Nat, View(st, st.begin, F, b)
  PROVE  /\ View(Slice(st, from, len), from, F, b)
         /\ Slice(st, from, len).messages_begin = from
<1> DEFINE i == from - st.begin + 1
           j == from - st.begin + len
           msgs == SubSeq(st.messages, i, j)
           slice == Slice(st, from, len)
<1>1. /\ st.begin \in Nat /\ st.messages \in Seq(MessageType) /\ Len(st.messages) \in Nat
      /\ MessagesEnd(st) = st.begin + Len(st.messages)
  BY StreamFields DEF MessagesEnd
<1>2. /\ i \in Int /\ j \in Int
      /\ len = 0 => j < i
      /\ len > 0 => /\ i \in 1 .. Len(st.messages) /\ j \in 1 .. Len(st.messages)
                    /\ i <= j /\ j - i + 1 = len
      /\ \A m \in 1 .. len : /\ from + m - 1 \in StreamIndices(st)
                             /\ (from + m - 1) - st.begin + 1 = i + m - 1
  <2> DEFINE begin == st.begin
             n == Len(st.messages)
  <2>1. begin <= from /\ (len > 0 => from + len <= begin + n) /\ begin \in Nat /\ n \in Nat
    BY <1>1 DEF MayTake
  <2>2. StreamIndices(st) = begin .. ((begin + n) - 1)
    BY Zenon DEF StreamIndices, MessagesEnd
  <2>4. i = from - begin + 1 /\ j = from - begin + len
    BY Zenon
  <2> HIDE DEF begin, n, i, j
  <2>3. LET ii == from - begin + 1
            jj == from - begin + len
        IN  /\ ii \in Int /\ jj \in Int
            /\ len = 0 => jj < ii
            /\ len > 0 => ii \in 1 .. n /\ jj \in 1 .. n /\ ii <= jj /\ jj - ii + 1 = len
            /\ \A m \in 1 .. len : /\ from + m - 1 \in begin .. ((begin + n) - 1)
                                   /\ (from + m - 1) - begin + 1 = ii + m - 1
    BY <2>1, SliceIndices
  <2> QED BY <2>2, <2>3, <2>4 DEF begin, n
<1> HIDE DEF i, j
<1>3. /\ slice.begin = st.begin /\ slice.signals_end = st.signals_end
      /\ slice.reject_signals = st.reject_signals /\ slice.messages_begin = from
      /\ slice.messages = msgs
  <2>1. slice = [begin |-> st.begin, end |-> MessagesEnd(st), signals_end |-> st.signals_end,
                 reject_signals |-> st.reject_signals, messages_begin |-> from, messages |-> msgs]
    BY Zenon DEF Slice, i, j
  <2> HIDE DEF slice, msgs
  <2> QED BY <2>1
<1>4. Len(msgs) = len /\ \A m \in 1 .. len : msgs[m] = st.messages[i + m - 1]
  <2>1. CASE len = 0
    <3>1. msgs = <<>>
      BY <1>2, <2>1, SubSeqEmpty
    <3>2. Len(msgs) = 0
      BY <3>1
    <3> HIDE DEF msgs
    <3> QED BY <2>1, <3>2
  <2>2. CASE len > 0
    <3>1. i \in 1 .. Len(st.messages) /\ j \in 1 .. Len(st.messages) /\ i <= j /\ j - i + 1 = len
      BY <1>2, <2>2
    <3>2. Len(msgs) = j - i + 1 /\ \A m \in 1 .. (j - i + 1) : msgs[m] = st.messages[i + m - 1]
      BY <1>1, <3>1
    <3> HIDE DEF msgs
    <3> QED BY <3>1, <3>2
  <2> HIDE DEF msgs
  <2>3. len = 0 \/ len > 0
    OBVIOUS
  <2> QED BY <2>1, <2>2, <2>3
<1> HIDE DEF slice, msgs
<1>5. ASSUME NEW n \in 1 .. Len(msgs)
      PROVE  /\ from + n - 1 \in StreamIndices(st)
             /\ msgs[n] = MessageAt(st, from + n - 1)
  <2>1. n \in 1 .. len /\ msgs[n] = st.messages[i + n - 1]
    BY <1>4, <1>5
  <2>2. from + n - 1 \in StreamIndices(st) /\ (from + n - 1) - st.begin + 1 = i + n - 1
    BY <1>2, <2>1
  <2> QED BY <2>1, <2>2 DEF MessageAt
<1>6. ASSUME NEW n \in 1 .. Len(slice.messages), F.begin <= from + n - 1
      PROVE  /\ from + n - 1 < MessagesEnd(F)
             /\ slice.messages[n] = MessageAt(F, from + n - 1)
  <2> DEFINE k == from + n - 1
  <2>1. k \in StreamIndices(st) /\ slice.messages[n] = MessageAt(st, k) /\ F.begin <= k
    BY <1>3, <1>5, <1>6
  <2> HIDE DEF k
  <2>2. k < MessagesEnd(F) /\ MessageAt(st, k) = MessageAt(F, k)
    BY <2>1, ViewedMessage
  <2> QED BY <2>1, <2>2 DEF k
<1>7. View(slice, from, F, b)
  BY <1>3, <1>6 DEF View
<1> QED BY <1>3, <1>7 DEF slice

LEMMA ProposeCalls ==
  ASSUME Inv, CallInv, NEW s \in Subnets, NEW n \in Nodes, Propose(s, n) PROVE CallInv'
<1>1. PICK payload \in [Others(s) -> {None} \cup UNION {TakenSlices(s, n, r) : r \in Others(s)}] :
        /\ \A r \in Sources(payload) : payload[r] \in TakenSlices(s, n, r)
        /\ MakeBlock(s, payload)
  BY DEF Propose
<1> DEFINE new == Append(payloads[s], payload)
<1>2. /\ payloads' = [payloads EXCEPT ![s] = new]
      /\ UNCHANGED <<streams, certified, pool, registry, at, call, work, lost>>
  BY <1>1 DEF MakeBlock
<1>3. PayloadViewed(streams, s, payload)
  <2> SUFFICES ASSUME NEW r \in Others(s), payload[r] # None
               PROVE  SliceViewed(streams, s, r, payload[r])
    BY DEF PayloadViewed
  <2> DEFINE st == pool[s][n][r]
             F == streams[r][s]
             b == streams[s][r].begin
  <2>1. payload[r] \in TakenSlices(s, n, r)
    <3>1. r \in Sources(payload)
      BY <1>1 DEF Sources
    <3> QED BY <1>1, <3>1
  <2>2. PICK from \in Nat, len \in Nat : payload[r] = Slice(st, from, len) /\ MayTake(st, from, len)
    BY <2>1, TakenSlice
  <2>3. st \in StreamType /\ F \in StreamType
    BY DEF Inv, TypeInv, Others
  <2>4. F.begin \in Nat
    BY <2>3, StreamFields
  <2>5. View(st, st.begin, F, b)
    BY DEF CallInv, PoolsViewed
  <2> HIDE DEF st, F, b
  <2>6. View(Slice(st, from, len), from, F, b) /\ Slice(st, from, len).messages_begin = from
    BY <2>2, <2>3, <2>4, <2>5, SliceView
  <2>7. View(payload[r], payload[r].messages_begin, F, b)
    BY <2>2, <2>6
  <2> QED BY <2>7 DEF SliceViewed, F, b
<1>4. \A a \in Subnets : payloads'[a] = IF a = s THEN new ELSE payloads[a]
  BY <1>2 DEF Inv, TypeInv
<1>5. \A i \in 1 .. Len(new) : PayloadViewed(streams, s, new[i])
  <2> TAKE i \in 1 .. Len(new)
  <2> DEFINE P == payloads[s]
  <2>1. P \in Seq(Payloads(s)) /\ Len(P) \in Nat
    BY DEF Inv, TypeInv
  <2> HIDE DEF P
  <2>2. Len(new) = Len(P) + 1 /\ new[Len(P) + 1] = payload /\ \A j \in 1 .. Len(P) : new[j] = P[j]
    BY <2>1 DEF P
  <2> HIDE DEF new
  <2>3. i \in 1 .. Len(P) \/ i = Len(P) + 1
    BY <2>1, <2>2
  <2>4. ASSUME NEW j \in 1 .. Len(P) PROVE PayloadViewed(streams, s, P[j])
    BY <2>4 DEF P, CallInv, BlocksViewed
  <2> QED BY <1>3, <2>2, <2>3, <2>4
<1> HIDE DEF new
<1>6. BlocksViewed(streams, payloads')
  <2> SUFFICES ASSUME NEW a \in Subnets, NEW i \in 1 .. Len(payloads'[a])
               PROVE  PayloadViewed(streams, a, payloads'[a][i])
    BY DEF BlocksViewed
  <2>1. CASE a = s
    BY <1>4, <1>5, <2>1
  <2>2. CASE a # s
    <3>1. payloads'[a] = payloads[a]
      BY <1>4, <2>2
    <3> QED BY <3>1 DEF CallInv, BlocksViewed
  <2> QED BY <2>1, <2>2
<1>7. AtHosts'
  BY <1>2 DEF CallInv, AtHosts
<1> QED BY <1>2, <1>6, <1>7 DEF CallInv

LEMMA InitCalls == Init => CallInv
<1> SUFFICES ASSUME Init PROVE CallInv
  OBVIOUS
<1>1. \A a, b \in Subnets : /\ streams[a][b] = EmptyStream /\ certified[a][b] = EmptyStream
                            /\ \A n \in Nodes : pool[a][n][b] = EmptyStream
  BY DEF Init
<1>2. /\ EmptyStream.begin = 0 /\ EmptyStream.signals_end = 0 /\ MessagesEnd(EmptyStream) = 0
      /\ EmptyStream.reject_signals = {} /\ \A i : i \notin StreamIndices(EmptyStream)
  <2>1. /\ EmptyStream.begin = 0 /\ EmptyStream.signals_end = 0 /\ EmptyStream.reject_signals = {}
        /\ EmptyStream.messages = <<>> /\ Len(<<>>) = 0
    BY DEF EmptyStream
  <2>2. MessagesEnd(EmptyStream) = 0
    BY <2>1 DEF MessagesEnd
  <2>3. StreamIndices(EmptyStream) = 0 .. (0 - 1)
    BY <2>1, <2>2 DEF StreamIndices
  <2>4. \A i : i \notin 0 .. (0 - 1)
    OBVIOUS
  <2> QED BY <2>1, <2>2, <2>3, <2>4
<1>3. AllOrderly(streams)
  <2> SUFFICES ASSUME NEW a \in Subnets, NEW b \in Subnets
               PROVE  Orderly(a, b, EmptyStream, EmptyStream)
    BY <1>1 DEF AllOrderly
  <2>1. 0 <= 0
    OBVIOUS
  <2> QED BY <1>2, <2>1 DEF Orderly
<1>4. AllInOnePlace(streams, call, work, {})
  <2> SUFFICES ASSUME NEW k \in Calls
               PROVE  InOnePlace(Pending(call[k]), work[k] = "held", Places(streams, k), InHand({}, k))
    BY DEF AllInOnePlace
  <2>1. ~Pending(call[k]) /\ work[k] = "none"
    BY DEF Init, Pending
  <2>2. Places(streams, k) = {}
    <3> SUFFICES ASSUME NEW p \in Places(streams, k) PROVE FALSE
      OBVIOUS
    <3>1. PICK a \in Subnets, b \in Subnets, i \in Nat : At(streams, k, a, b, i)
      BY PlacesAre
    <3>2. i \in StreamIndices(streams[a][b])
      BY <3>1 DEF At, OnWay
    <3> QED BY <1>1, <1>2, <3>2
  <2>3. InHand({}, k) = {}
    BY DEF InHand
  <2> DEFINE P == Places(streams, k)
             H == InHand({}, k)
  <2>4. P = {} /\ H = {}
    BY <2>2, <2>3
  <2> HIDE DEF P, H
  <2>5. InOnePlace(Pending(call[k]), work[k] = "held", P, H)
    BY <2>1, <2>4 DEF InOnePlace
  <2> QED BY <2>5 DEF P, H
<1>5. \A b : View(EmptyStream, EmptyStream.begin, EmptyStream, b)
  <2>1. EmptyStream \in StreamType
    <3>1. <<>> \in Seq(MessageType)
      OBVIOUS
    <3> QED BY <3>1 DEF EmptyStream, StreamType, StreamRecord, ValidSignals
  <2> QED BY <2>1, ViewSelf
<1>6. CertifiedViewed(streams, certified)
  BY <1>1, <1>5 DEF CertifiedViewed, Others
<1>7. PoolsViewed(streams, pool)
  BY <1>1, <1>5 DEF PoolsViewed, Others
<1>8. BlocksViewed(streams, payloads)
  <2>1. \A s \in Subnets : payloads[s] = <<>> /\ Len(payloads[s]) = 0
    BY DEF Init
  <2>2. \A s \in Subnets, i \in Nat : i \notin 1 .. Len(payloads[s])
    BY <2>1
  <2> QED BY <2>1, <2>2 DEF BlocksViewed
<1>9. AtHosts
  <2>1. Mover # None => Mover \in Canisters /\ Target \in Subnets /\ Home[Mover] \in Subnets
    BY XNetAssumption
  <2> QED BY <2>1 DEF Init, AtHosts
<1>10. OrphansOnly(call, lost)
  BY DEF Init, OrphansOnly
<1> QED BY <1>3, <1>4, <1>6, <1>7, <1>8, <1>9, <1>10 DEF CallInv

LEMMA BatchSound ==
  ASSUME Inv, CallInv, NEW s \in Subnets, ProcessBatch(s)
  PROVE  \E y : /\ Sound(streams, s, y, {})
               /\ streams' = Net(streams, s, y)
               /\ call' = y.call /\ work' = y.work /\ lost' = y.lost
<1> DEFINE payload == payloads[s][executed[s] + 1]
           x == [streams |-> streams[s], call |-> call, work |-> work, lost |-> lost]
<1>1. executed[s] < Len(payloads[s])
  BY DEF ProcessBatch
<1>2. PICK full \in SUBSET Calls :
        LET y == ProcessStreamSlices(s, payload, full, x)
        IN  /\ \A r \in Subnets : MessagesEnd(y.streams[r]) <= MaxIndex
            /\ streams' = [streams EXCEPT ![s] = y.streams]
            /\ call' = y.call
            /\ work' = y.work
            /\ lost' = y.lost
  BY DEF ProcessBatch
<1> DEFINE y == ProcessStreamSlices(s, payload, full, x)
<1>3. streams' = Net(streams, s, y) /\ call' = y.call /\ work' = y.work /\ lost' = y.lost
  BY <1>2 DEF Net
<1>4. /\ x \in Working /\ x.streams = streams[s] /\ x.call = call /\ x.work = work /\ x.lost = lost
  BY DEF Working, Inv, TypeInv
<1>5. AtHosts /\ registry \in [Subnets -> 0 .. 1] /\ streams \in Nets
  BY DEF CallInv, Inv, TypeInv, Nets
<1>6. SlicesFit(x, payload)
  BY <1>1, NextPayload DEF SlicesFit, Others
<1>7. x.streams[s].begin = x.streams[s].signals_end
  BY DEF Inv
<1>8. /\ payload \in Payloads(s) /\ Sources(payload) \subseteq Others(s)
      /\ \A r \in Sources(payload) : payload[r] # None /\ payload[r] \in SliceType
  BY <1>1, NextPayload
<1>9. SlicesViewed(streams, s, payload)
  <2>1. PayloadViewed(streams, s, payload)
    <3>1. executed[s] + 1 \in 1 .. Len(payloads[s])
      BY <1>1 DEF Inv, TypeInv
    <3> QED BY <3>1 DEF CallInv, BlocksViewed
  <2> HIDE DEF payload
  <2> QED BY <1>8, <2>1 DEF SlicesViewed, PayloadViewed
<1>10. SlicesNext(x, payload)
  <2> SUFFICES ASSUME NEW r \in Sources(payload), payload[r].messages # <<>>
               PROVE  payload[r].messages_begin = streams[s][r].signals_end
    BY <1>4 DEF SlicesNext
  <2>1. r \in Others(s) /\ payload[r] # None
    BY <1>8
  <2>2. PICK m, g : Chained(s, r, m, g)
    BY <2>1 DEF Inv
  <2>3. Accepted(payload[r], streams[s][r].signals_end, streams[s][r].begin,
                 m[executed[s] + 1], g[executed[s] + 1])
    BY <1>1, <2>1, <2>2, NextSlice
  <2> HIDE DEF payload
  <2> QED BY <2>1, <2>3 DEF Accepted
<1> HIDE DEF payload, x
<1>11. Net(streams, s, x) = streams
  BY <1>4, <1>5 DEF Net, Nets
<1>12. Sound(streams, s, x, {})
  <2>1. Reached(streams, s, x)
    <3> SUFFICES ASSUME NEW q \in Others(s)
                 PROVE  View(streams[s][q], streams[s][q].begin, x.streams[q], streams[q][s].begin)
      BY DEF Reached
    <3>1. streams[s][q] \in StreamType /\ x.streams[q] = streams[s][q]
      BY <1>4, <1>5 DEF Nets, Others
    <3> QED BY <3>1, ViewSelf
  <2>2. InTurn(streams, s, x)
    <3>1. \A q \in Subnets : /\ streams[s][q].signals_end <= streams[s][q].signals_end
                             /\ SameRequests(streams[s][q], streams[s][q])
      <4>1. \A q \in Subnets : streams[s][q] \in StreamType
        BY <1>5 DEF Nets
      <4>2. \A q \in Subnets : streams[s][q].signals_end \in Nat
        BY <4>1, StreamFields
      <4> QED BY <4>2 DEF SameRequests
    <3> QED BY <1>4, <3>1 DEF InTurn
  <2> QED BY <1>4, <1>11, <2>1, <2>2 DEF Sound, CallInv
<1>13. Sound(streams, s, y, {})
  BY <1>5, <1>6, <1>7, <1>9, <1>10, <1>12, ProcessSound
<1> HIDE DEF y
<1> QED BY <1>3, <1>13

LEMMA ProcessBatchCalls ==
  ASSUME Inv, CallInv, NEW s \in Subnets, ProcessBatch(s) PROVE CallInv'
<1>0. Inv'
  BY ProcessBatchInv
<1>1. UNCHANGED <<certified, payloads, pool, registry, at>>
  BY DEF ProcessBatch
<1>2. PICK y : /\ Sound(streams, s, y, {})
               /\ streams' = Net(streams, s, y)
               /\ call' = y.call /\ work' = y.work /\ lost' = y.lost
  BY BatchSound
<1>3. streams \in Nets
  BY DEF Inv, TypeInv, Nets
<1>4. /\ AllOrderly(streams') /\ AllInOnePlace(streams', call', work', {}) /\ OrphansOnly(call', lost')
       /\ y \in Working /\ Reached(streams, s, y)
  BY <1>2 DEF Sound
<1>5. \A a, b \in Subnets : streams'[a][b] = IF a = s THEN y.streams[b] ELSE streams[a][b]
  BY <1>2, <1>3, <1>4, NetIs
<1>6. Advanced(streams, streams')
  <2> SUFFICES ASSUME NEW a \in Subnets, NEW b \in Others(a)
               PROVE  View(streams[a][b], streams[a][b].begin, streams'[a][b], streams'[b][a].begin)
    BY DEF Advanced
  <2>1. b \in Subnets /\ a # b /\ streams[a][b] \in StreamType
    BY <1>3 DEF Others, Nets
  <2>2. CASE a = s
    <3>1. streams'[a][b] = y.streams[b] /\ streams'[b][a] = streams[b][a]
      BY <1>5, <2>1, <2>2
    <3>2. View(streams[s][b], streams[s][b].begin, y.streams[b], streams[b][s].begin)
      BY <1>4, <2>2 DEF Reached
    <3> QED BY <2>2, <3>1, <3>2
  <2>3. CASE a # s
    <3>1. streams'[a][b] = streams[a][b]
      BY <1>5, <2>1, <2>3
    <3> QED BY <2>1, <3>1, ViewSelf
  <2> QED BY <2>2, <2>3
<1> QED BY <1>0, <1>1, <1>4, <1>6, StreamsAdvance

-----------------------------------------------------------------------------
(* The theorems about calls. *)

LEMMA NextCalls == Inv /\ CallInv /\ [Next]_vars => CallInv'
<1> SUFFICES ASSUME Inv, CallInv, [Next]_vars PROVE CallInv'
  OBVIOUS
<1>1. ASSUME NEW k \in Calls, SendRequest(k) PROVE CallInv'
  BY <1>1, SendRequestCalls
<1>2. ASSUME NEW k \in Calls, SendResponse(k) PROVE CallInv'
  BY <1>2, SendResponseCalls
<1>3. ASSUME NEW s \in Subnets, NEW n \in Nodes, NEW r \in Others(s), RefillPool(s, n, r)
      PROVE  CallInv'
  BY <1>3, RefillPoolCalls
<1>4. ASSUME NEW s \in Subnets, NEW n \in Nodes, Propose(s, n) PROVE CallInv'
  BY <1>4, ProposeCalls
<1>5. ASSUME NEW s \in Subnets, ProcessBatch(s) PROVE CallInv'
  BY <1>5, ProcessBatchCalls
<1>6. ASSUME NEW s \in Subnets, Certify(s) PROVE CallInv'
  BY <1>6, CertifyCalls
<1>7. ASSUME NEW s \in Subnets, UpdateRegistry(s) PROVE CallInv'
  BY <1>7, UpdateRegistryCalls
<1>8. ASSUME NEW c \in Canisters, StopUninstalled(c) PROVE CallInv'
  BY <1>8, StopUninstalledCalls
<1>9. CASE UNCHANGED vars
  BY <1>9, StutterCalls
<1> QED BY <1>1, <1>2, <1>3, <1>4, <1>5, <1>6, <1>7, <1>8, <1>9 DEF Next

LEMMA CallsAlways == Spec => []CallInv
BY InvAlways, InitCalls, NextCalls, PTL DEF Spec

\* A call on its way is there as a request or as a response.
LEMMA InFlightPlaces ==
  ASSUME Inv, NEW k \in Calls
  PROVE  /\ Places(streams, k) = InFlight(Request(k)) \cup InFlight(Response(k))
         /\ InFlight(Request(k)) \cap InFlight(Response(k)) = {}
<1>1. Request(k).call = k /\ Response(k).call = k /\ Request(k) # Response(k)
  <2>1. Request(k).kind = "Request" /\ Response(k).kind = "Response"
    BY DEF Request, Response
  <2> QED BY <2>1 DEF Request, Response
<1>2. \A msg \in MessageType : msg.call = k => msg = Request(k) \/ msg = Response(k)
  BY DEF MessageType, Request, Response
<1>3. ASSUME NEW msg, msg.call = k, NEW p \in InFlight(msg) PROVE p \in Places(streams, k)
  <2>1. /\ p \in Subnets \X Subnets \X (0 .. MaxIndex)
        /\ p[3] \in StreamIndices(streams[p[1]][p[2]])
        /\ MessageAt(streams[p[1]][p[2]], p[3]) = msg
        /\ \/ p[3] >= streams[p[2]][p[1]].signals_end
           \/ p[3] \in streams[p[2]][p[1]].reject_signals
    BY <1>3 DEF InFlight
  <2>2. p \in Subnets \X Subnets \X Nat
    BY <2>1
  <2> QED BY <1>3, <2>1, <2>2 DEF Places, At, OnWay
<1>4. ASSUME NEW p \in Places(streams, k)
      PROVE  p \in InFlight(Request(k)) \cup InFlight(Response(k))
  <2>1. PICK a \in Subnets, b \in Subnets, i \in Nat : p = <<a, b, i>> /\ At(streams, k, a, b, i)
    BY <1>4, PlacesAre
  <2> DEFINE st == streams[a][b]
             msg == MessageAt(st, i)
  <2>2. /\ i \in StreamIndices(st) /\ msg.call = k
        /\ i >= streams[b][a].signals_end \/ i \in streams[b][a].reject_signals
    BY <2>1 DEF At, OnWay
  <2>3. st \in StreamType /\ MessagesEnd(st) <= MaxIndex
    BY DEF Inv, TypeInv, InBounds, Bounded
  <2>4. i < MessagesEnd(st) /\ msg \in MessageType /\ MessagesEnd(st) \in Nat
    <3> HIDE DEF st
    <3> QED BY <2>2, <2>3, IndexFacts, StreamFields
  <2>5. p \in Subnets \X Subnets \X (0 .. MaxIndex)
    <3>1. MaxIndex \in Nat
      BY XNetAssumption
    <3>2. i \in 0 .. MaxIndex
      <4> HIDE DEF st
      <4> QED BY <2>3, <2>4, <3>1
    <3> QED BY <2>1, <3>2
  <2>6. p[1] = a /\ p[2] = b /\ p[3] = i
    BY <2>1
  <2>7. p \in InFlight(msg)
    BY <2>2, <2>5, <2>6 DEF InFlight
  <2> HIDE DEF msg
  <2>8. msg = Request(k) \/ msg = Response(k)
    BY <1>2, <2>2, <2>4
  <2> QED BY <2>7, <2>8
<1>5. ASSUME NEW p, p \in InFlight(Request(k)), p \in InFlight(Response(k)) PROVE FALSE
  <2>1. /\ MessageAt(streams[p[1]][p[2]], p[3]) = Request(k)
        /\ MessageAt(streams[p[1]][p[2]], p[3]) = Response(k)
    BY <1>5 DEF InFlight
  <2> QED BY <1>1, <2>1
<1> QED BY <1>1, <1>3, <1>4, <1>5

LEMMA CallsConservedAlways == Inv /\ CallInv => CallsConserved
<1> SUFFICES ASSUME Inv, CallInv, NEW k \in Calls
             PROVE  Cardinality(InFlight(Request(k))) + Cardinality(InFlight(Response(k)))
                      + (IF work[k] = "held" THEN 1 ELSE 0)
                    = IF Pending(call[k]) THEN 1 ELSE 0
  BY DEF CallsConserved
<1> DEFINE P == Places(streams, k)
           A == InFlight(Request(k))
           B == InFlight(Response(k))
           H == InHand({}, k)
<1>1. P = A \cup B /\ A \cap B = {} /\ H = {}
  BY InFlightPlaces DEF InHand
<1>2. InOnePlace(Pending(call[k]), work[k] = "held", P, H)
  BY DEF CallInv, AllInOnePlace
<1> HIDE DEF P, A, B, H
<1>3. /\ \A p, q \in P : p = q
      /\ Pending(call[k]) => (P # {} <=> work[k] # "held")
      /\ ~Pending(call[k]) => P = {} /\ work[k] # "held"
  BY <1>1, <1>2 DEF InOnePlace
<1>4. Cardinality({}) = 0
  BY FS_EmptySet
<1>5. CASE P = {}
  <2>1. A = {} /\ B = {}
    BY <1>1, <1>5
  <2>2. Cardinality(A) = 0 /\ Cardinality(B) = 0
    BY <1>4, <2>1
  <2> QED BY <1>3, <1>5, <2>2 DEF A, B
<1>6. CASE P # {}
  <2>1. PICK p : p \in P
    BY <1>6
  <2>2. P = {p}
    BY <1>3, <2>1
  <2>3. Cardinality({p}) = 1
    BY FS_Singleton
  <2>4. (A = {p} /\ B = {}) \/ (A = {} /\ B = {p})
    BY <1>1, <2>2
  <2>5. Cardinality(A) + Cardinality(B) = 1 /\ Cardinality(A) \in Nat /\ Cardinality(B) \in Nat
    <3>1. \/ Cardinality(A) = 1 /\ Cardinality(B) = 0
          \/ Cardinality(A) = 0 /\ Cardinality(B) = 1
      BY <1>4, <2>3, <2>4, Zenon
    <3> QED BY <3>1
  <2>6. Pending(call[k]) /\ work[k] # "held"
    BY <1>3, <1>6
  <2> QED BY <2>5, <2>6 DEF A, B
<1> QED BY <1>5, <1>6

\* stream_handler.rs: of the critical errors of induct_message and
\* reroute_rejected_message one can happen: the response to a call that its caller has
\* forgotten, or to one whose callback the response to such a call has taken, is refused
\* and dropped.  No message is dropped because its sender moved, no request is rejected,
\* and no response whose call has its callback is refused, while a canister migrates and
\* whatever slices, of whatever age, the blocks have.
THEOREM OnlyOrphansAreLost == Spec => []OnlyOrphansLost
<1>1. CallInv => OnlyOrphansLost
  BY DEF CallInv, OrphansOnly, OnlyOrphansLost
<1> QED BY <1>1, CallsAlways, PTL

\* stream_handler.rs, stream_builder.rs, the payload builder: every call that waits for its
\* response is in exactly one place, as a request under way, with its callee, or as a
\* response under way, for any number of subnets, calls, blocks and messages; so none is duplicated
\* by a stale slice, or lost when its response is rejected, rerouted or inducted after
\* a migration.
THEOREM CallsStayConserved == Spec => []CallsConserved
BY InvAlways, CallsAlways, CallsConservedAlways, PTL

-----------------------------------------------------------------------------
(* The order of requests.  The callers do not migrate: the requests of one that *)
(* does leave from two subnets, and nothing orders their streams. *)

CallersStay == \A k \in Calls : Caller[k] # Mover

Earlier(j, k) == j < k /\ Caller[j] = Caller[k] /\ Callee[j] = Callee[k]

\* Request k is at index i of the stream from a to b, and not signalled yet.
Asked(net, k, a, b, i) ==
  /\ i \in StreamIndices(net[a][b])
  /\ MessageAt(net[a][b], i) = Request(k)
  /\ net[b][a].signals_end <= i

\* Its stream leads to the old host of the callee, which has a new one.
Overtaken(j, b) == Callee[j] = Mover /\ b = Home[Mover] /\ registry[Target] = 1

CallsOpened ==
  /\ \A k \in Calls : work[k] # "none" => call[k] # "idle"
  /\ \A j, k \in Calls : Earlier(j, k) /\ call[k] # "idle" => call[j] # "idle"

Redirected ==
  \A k \in Calls, a, b \in Subnets, i \in Nat :
    Asked(streams, k, a, b, i) /\ Callee[k] = Mover /\ b = Target => registry[a] = 1

\* An earlier request at index i to b, a later one at index n to c.
Behind(j, b, i, c, n) ==
  \/ c = b /\ i < n
  \/ c # b /\ Callee[j] = Mover /\ b = Home[Mover] /\ c = Target

NoneAhead ==
  \A j, k \in Calls, a, b \in Subnets, i \in Nat :
    Earlier(j, k) /\ Asked(streams, j, a, b, i) /\ work[k] # "none" => Overtaken(j, b)

Queued ==
  \A j, k \in Calls, a, b, c \in Subnets, i, n \in Nat :
    Earlier(j, k) /\ Asked(streams, j, a, b, i) /\ Asked(streams, k, a, c, n)
      => Behind(j, b, i, c, n)

OrderInv == CallsOpened /\ Redirected /\ NoneAhead /\ Queued

LEMMA AskedOpen ==
  ASSUME CallersStay, Inv, CallInv,
         NEW k \in Calls, NEW a \in Subnets, NEW b \in Subnets, NEW i \in Nat,
         Asked(streams, k, a, b, i)
  PROVE  Pending(call[k]) /\ a = Home[Caller[k]] /\ b \in Hosts(Callee[k])
<1>1. /\ i \in StreamIndices(streams[a][b]) /\ MessageAt(streams[a][b], i) = Request(k)
      /\ streams[b][a].signals_end <= i
  BY DEF Asked
<1>2. streams[b][a].signals_end \in Nat
  <2>1. streams[b][a] \in StreamType
    BY DEF Inv, TypeInv
  <2> QED BY <2>1, StreamFields
<1>3. <<a, b, i>> \in Places(streams, k)
  <2>1. At(streams, k, a, b, i)
    BY <1>1, <1>2 DEF At, OnWay, Request
  <2> QED BY <2>1, PlacesAre
<1>4. Pending(call[k])
  <2>1. AllInOnePlace(streams, call, work, {})
    BY DEF CallInv
  <2> QED BY <1>3, <2>1, Located
<1>5. Legit(a, b, Request(k))
  BY <1>1 DEF CallInv, AllOrderly, Orderly
<1>6. Sender(Request(k)) = Caller[k] /\ Receiver(Request(k)) = Callee[k]
  BY DEF Sender, Receiver, Request
<1> QED BY <1>4, <1>5, <1>6 DEF Legit, Hosts, CallersStay

\* A step that sends no request.
LEMMA OrderKept ==
  ASSUME OrderInv,
         \A a \in Subnets : registry[a] = 1 => registry'[a] = 1,
         \A k \in Calls : call'[k] = "idle" <=> call[k] = "idle",
         \A k \in Calls : work'[k] # "none" => work[k] # "none" \/ call[k] # "idle",
         \A k \in Calls, a, b \in Subnets, i \in Nat :
           Asked(streams', k, a, b, i) => Asked(streams, k, a, b, i),
         \A j, k \in Calls, a, b \in Subnets, i \in Nat :
           Earlier(j, k) /\ Asked(streams', j, a, b, i) /\ work'[k] # "none"
             => work[k] # "none" \/ Overtaken(j, b)
  PROVE  OrderInv'
<1>1. CallsOpened'
  BY DEF OrderInv, CallsOpened
<1>2. Redirected'
  BY DEF OrderInv, Redirected
<1>3. NoneAhead'
  <2> SUFFICES ASSUME NEW j \in Calls, NEW k \in Calls, NEW a \in Subnets, NEW b \in Subnets,
                      NEW i \in Nat,
                      Earlier(j, k), Asked(streams', j, a, b, i), work'[k] # "none"
               PROVE  Overtaken(j, b)'
    BY DEF NoneAhead
  <2>1. Overtaken(j, b)
    BY DEF OrderInv, NoneAhead
  <2>2. Target \in Subnets
    <3>1. Callee[j] \in Canisters /\ Callee[j] = Mover
      BY <2>1, XNetAssumption DEF Overtaken
    <3> QED BY <3>1, XNetAssumption
  <2> QED BY <2>1, <2>2 DEF Overtaken
<1>4. Queued'
  BY DEF OrderInv, Queued
<1> QED BY <1>1, <1>2, <1>3, <1>4 DEF OrderInv

\* What a canister sends is last in its stream.
LEMMA AskedPushed ==
  ASSUME Inv, NEW s \in Subnets, NEW msg \in MessageType, RouteMessage(s, msg),
         NEW k \in Calls, NEW a \in Subnets, NEW b \in Subnets, NEW i \in Nat,
         Asked(streams', k, a, b, i)
  PROVE  \/ Asked(streams, k, a, b, i)
         \/ /\ msg = Request(k) /\ a = s /\ b = Route(s, Receiver(msg))
            /\ i = MessagesEnd(streams[a][b])
<1> DEFINE dst == Route(s, Receiver(msg))
           st == streams[s][dst]
           pushed == StreamPush(st, msg)
<1>1. dst \in Subnets /\ streams \in Nets
  BY Types, RouteType DEF Inv, TypeInv, Nets
<1>2. st \in StreamType
  BY <1>1 DEF Nets
<1>3. /\ pushed \in StreamType /\ pushed.begin = st.begin /\ pushed.signals_end = st.signals_end
      /\ MessagesEnd(pushed) = MessagesEnd(st) + 1
  BY <1>2, StreamPushType DEF OnlyPushed, Longer
<1>4. /\ \A n \in StreamIndices(st) : MessageAt(pushed, n) = MessageAt(st, n)
      /\ MessageAt(pushed, MessagesEnd(st)) = msg
  BY <1>2, PushedMessages
<1>5. streams' = Put(streams, s, dst, pushed)
  BY DEF RouteMessage, Put
<1> HIDE DEF pushed, dst
<1>6. \A c, d \in Subnets : streams'[c][d] = IF c = s /\ d = dst THEN pushed ELSE streams[c][d]
  <2>1. pushed \in StreamType
    BY <1>3
  <2>2. /\ Put(streams, s, dst, pushed) \in Nets
        /\ \A c, d \in Subnets :
             Put(streams, s, dst, pushed)[c][d] = IF c = s /\ d = dst THEN pushed ELSE streams[c][d]
    BY <1>1, <2>1, PutAt
  <2> QED BY <1>5, <2>2
<1>7. streams'[b][a].signals_end = streams[b][a].signals_end
  BY <1>3, <1>6
<1>8. CASE a = s /\ b = dst
  <2>1. i \in StreamIndices(pushed) /\ MessageAt(pushed, i) = Request(k)
    BY <1>6, <1>8 DEF Asked
  <2>2. i \in StreamIndices(st) \/ i = MessagesEnd(st)
    <3>1. MessagesEnd(st) \in Nat
      BY <1>2, StreamFields
    <3> HIDE DEF st
    <3>2. st.begin <= i /\ i < MessagesEnd(st) + 1
      BY <1>2, <1>3, <2>1, IndexFacts
    <3>3. i < MessagesEnd(st) \/ i = MessagesEnd(st)
      BY <3>1, <3>2
    <3> QED BY <1>2, <3>2, <3>3, IndexFacts
  <2>3. CASE i \in StreamIndices(st)
    BY <1>4, <1>7, <1>8, <2>1, <2>3 DEF Asked
  <2>4. CASE i = MessagesEnd(st)
    BY <1>4, <1>8, <2>1, <2>4 DEF dst
  <2> QED BY <2>2, <2>3, <2>4
<1>9. CASE ~(a = s /\ b = dst)
  <2>1. streams'[a][b] = streams[a][b]
    BY <1>6, <1>9
  <2> QED BY <1>7, <2>1 DEF Asked
<1> QED BY <1>8, <1>9

LEMMA SendRequestOrder ==
  ASSUME CallersStay, Inv, CallInv, OrderInv, NEW k \in Calls, SendRequest(k)
  PROVE  OrderInv'
<1> DEFINE s == at[Caller[k]]
           dst == Route(s, Callee[k])
<1>1. s \in Subnets /\ Callee[k] \in Canisters
  BY XNetAssumption DEF Inv, TypeInv, SendRequest
<1>2. /\ RouteMessage(s, Request(k)) /\ Request(k) \in MessageType
      /\ Receiver(Request(k)) = Callee[k]
  BY Types DEF SendRequest, Request, Receiver
<1>3. /\ call[k] = "idle" /\ call' = [call EXCEPT ![k] = "open"]
      /\ \A j \in Calls : j < k /\ Caller[j] = Caller[k] => call[j] # "idle"
      /\ work' = work /\ registry' = registry
      /\ call \in [Calls -> CallStates]
  BY DEF SendRequest, Inv, TypeInv
<1>4. Pending(call'[k]) /\ \A j \in Calls \ {k} : call'[j] = call[j]
  BY <1>3 DEF Pending
<1>5. ASSUME NEW j \in Calls, NEW a \in Subnets, NEW b \in Subnets, NEW i \in Nat,
             Asked(streams', j, a, b, i)
      PROVE  IF j = k THEN a = s /\ b = dst /\ i = MessagesEnd(streams[a][b])
             ELSE Asked(streams, j, a, b, i) /\ Pending(call[j])
  <2> HIDE DEF s
  <2>1. \/ Asked(streams, j, a, b, i)
        \/ /\ Request(k) = Request(j) /\ a = s /\ b = Route(s, Receiver(Request(k)))
           /\ i = MessagesEnd(streams[a][b])
    BY <1>1, <1>2, <1>5, AskedPushed
  <2>2. Request(k) = Request(j) => k = j
    BY DEF Request
  <2>3. CASE Asked(streams, j, a, b, i)
    <3>1. Pending(call[j])
      BY <2>3, AskedOpen
    <3>2. j # k
      BY <1>3, <3>1 DEF Pending
    <3> QED BY <2>3, <3>1, <3>2
  <2>4. CASE ~Asked(streams, j, a, b, i)
    BY <1>2, <2>1, <2>2, <2>4
  <2> QED BY <2>3, <2>4
<1> HIDE DEF s
<1>6. dst = (IF Callee[k] = Mover /\ registry[s] = 1 THEN Target ELSE Home[Callee[k]])
  BY DEF Route
<1>7. Callee[k] = Mover => Target # Home[Mover]
  BY <1>1, XNetAssumption
<1> HIDE DEF dst
\* Calls after k are not made before it.
<1>8. ASSUME NEW j \in Calls, Earlier(k, j) PROVE call[j] = "idle" /\ work[j] = "none" /\ j # k
  <2>1. j # k
    <3>1. k \in Nat /\ j \in Nat
      BY XNetAssumption
    <3> QED BY <1>8, <3>1 DEF Earlier
  <2> QED BY <1>3, <1>8, <2>1 DEF OrderInv, CallsOpened
<1>9. CallsOpened'
  <2>0. call'[k] # "idle"
    BY <1>4 DEF Pending
  <2>1. ASSUME NEW j \in Calls, work'[j] # "none" PROVE call'[j] # "idle"
    <3>1. call[j] # "idle"
      BY <1>3, <2>1 DEF OrderInv, CallsOpened
    <3> QED BY <1>4, <2>0, <3>1
  <2>2. ASSUME NEW i \in Calls, NEW j \in Calls, Earlier(i, j), call'[j] # "idle"
        PROVE  call'[i] # "idle"
    <3>1. CASE j = k
      <4>1. call[i] # "idle"
        BY <1>3, <2>2, <3>1 DEF Earlier
      <4> QED BY <1>4, <2>0, <4>1
    <3>2. CASE j # k
      <4>1. call[i] # "idle"
        BY <1>4, <2>2, <3>2 DEF OrderInv, CallsOpened
      <4> QED BY <1>4, <2>0, <4>1
    <3> QED BY <3>1, <3>2
  <2> QED BY <2>1, <2>2 DEF CallsOpened
<1>10. Redirected'
  <2> SUFFICES ASSUME NEW j \in Calls, NEW a \in Subnets, NEW b \in Subnets, NEW i \in Nat,
                      Asked(streams', j, a, b, i), Callee[j] = Mover, b = Target
               PROVE  registry'[a] = 1
    BY DEF Redirected
  <2>1. CASE j = k
    <3>1. a = s /\ b = dst
      BY <1>5, <2>1
    <3> QED BY <1>3, <1>6, <1>7, <2>1, <3>1
  <2>2. CASE j # k
    <3>1. Asked(streams, j, a, b, i)
      BY <1>5, <2>2
    <3> QED BY <1>3, <3>1 DEF OrderInv, Redirected
  <2> QED BY <2>1, <2>2
<1>11. NoneAhead'
  <2> SUFFICES ASSUME NEW j \in Calls, NEW m \in Calls, NEW a \in Subnets, NEW b \in Subnets,
                      NEW i \in Nat,
                      Earlier(j, m), Asked(streams', j, a, b, i), work'[m] # "none"
               PROVE  Overtaken(j, b)'
    BY DEF NoneAhead
  <2>1. j # k
    BY <1>3, <1>8
  <2>2. Asked(streams, j, a, b, i) /\ work[m] # "none"
    BY <1>3, <1>5, <2>1
  <2>3. Overtaken(j, b)
    BY <2>2 DEF OrderInv, NoneAhead
  <2> QED BY <1>3, <2>3 DEF Overtaken
<1>12. Queued'
  <2> SUFFICES ASSUME NEW j \in Calls, NEW m \in Calls,
                      NEW a \in Subnets, NEW b \in Subnets, NEW c \in Subnets,
                      NEW i \in Nat, NEW n \in Nat,
                      Earlier(j, m), Asked(streams', j, a, b, i), Asked(streams', m, a, c, n)
               PROVE  Behind(j, b, i, c, n)
    BY DEF Queued
  <2>1. j # k
    <3>1. CASE j = k
      <4>1. call[m] = "idle" /\ m # k
        BY <1>8, <3>1
      <4>2. Pending(call[m])
        BY <1>5, <4>1
      <4> QED BY <4>1, <4>2 DEF Pending
    <3> QED BY <3>1
  <2>2. Asked(streams, j, a, b, i)
    BY <1>5, <2>1
  <2>3. CASE m # k
    <3>1. Asked(streams, m, a, c, n)
      BY <1>5, <2>3
    <3> QED BY <2>2, <3>1 DEF OrderInv, Queued
  <2>4. CASE m = k
    <3>1. a = s /\ c = dst /\ n = MessagesEnd(streams[a][c])
      BY <1>5, <2>4
    <3>2. CASE c = b
      <4>1. streams[a][b] \in StreamType
        BY DEF Inv, TypeInv
      <4>2. i < MessagesEnd(streams[a][b])
        BY <2>2, <4>1, IndexFacts DEF Asked
      <4> QED BY <3>1, <3>2, <4>2 DEF Behind
    <3>3. CASE c # b
      <4>1. b \in Hosts(Callee[j]) /\ Callee[j] = Callee[k]
        BY <2>2, <2>4, AskedOpen DEF Earlier
      <4>2. Callee[j] = Mover /\ (b = Home[Mover] \/ b = Target)
        BY <1>6, <3>1, <3>3, <4>1 DEF Hosts
      <4>3. b = Target => registry[a] = 1
        BY <2>2, <4>2 DEF OrderInv, Redirected
      <4> QED BY <1>6, <3>1, <3>3, <4>1, <4>2, <4>3 DEF Behind
    <3> QED BY <3>2, <3>3
  <2> QED BY <2>3, <2>4
<1> QED BY <1>9, <1>10, <1>11, <1>12 DEF OrderInv

LEMMA SendResponseOrder ==
  ASSUME Inv, OrderInv, NEW k \in Calls, SendResponse(k) PROVE OrderInv'
<1> DEFINE s == at[Callee[k]]
<1>1. s \in Subnets
  BY XNetAssumption DEF Inv, TypeInv, SendResponse
<1>2. RouteMessage(s, Response(k)) /\ Response(k) \in MessageType
  BY Types DEF SendResponse
<1>3. \A j : Response(k) # Request(j)
  <2>1. \A j : Response(k).kind = "Response" /\ Request(j).kind = "Request"
    BY DEF Response, Request
  <2> QED BY <2>1
<1>4. /\ call' = call /\ registry' = registry
      /\ work[k] = "held" /\ work' = [work EXCEPT ![k] = "answered"]
      /\ work \in [Calls -> {"none", "held", "answered"}]
  BY DEF SendResponse, Inv, TypeInv
<1>5. \A j \in Calls : work'[j] # "none" => work[j] # "none"
  BY <1>4
<1> HIDE DEF s
<1>6. ASSUME NEW j \in Calls, NEW a \in Subnets, NEW b \in Subnets, NEW i \in Nat,
             Asked(streams', j, a, b, i)
      PROVE  Asked(streams, j, a, b, i)
  BY <1>1, <1>2, <1>3, <1>6, AskedPushed
<1> QED BY <1>4, <1>5, <1>6, OrderKept

\* Requests that a block brings to their callee were the first of their stream that
\* were not signalled, and the callee is here.
LEMMA BatchTakes ==
  ASSUME CallersStay, Inv, CallInv, NEW s \in Subnets, ProcessBatch(s)
  PROVE  /\ \A k \in Calls, a, b \in Subnets, i \in Nat :
              Asked(streams', k, a, b, i) => Asked(streams, k, a, b, i)
         /\ \A k \in Calls : call'[k] = "idle" <=> call[k] = "idle"
         /\ \A k \in Calls :
              work'[k] # "none" /\ work[k] = "none" =>
                /\ at[Callee[k]] = s
                /\ \E i \in Nat : LET a == Home[Caller[k]]
                                  IN  /\ a \in Subnets /\ Asked(streams, k, a, s, i)
                                      /\ i < streams'[s][a].signals_end
<1>1. PICK y : /\ Sound(streams, s, y, {})
               /\ streams' = Net(streams, s, y)
               /\ call' = y.call /\ work' = y.work /\ lost' = y.lost
  BY BatchSound
<1>2. streams \in Nets /\ y \in Working /\ InTurn(streams, s, y)
  BY <1>1 DEF Inv, TypeInv, Nets, Sound
<1>3. /\ streams' \in Nets
      /\ \A a, b \in Subnets : streams'[a][b] = IF a = s THEN y.streams[b] ELSE streams[a][b]
  BY <1>1, <1>2, NetIs
<1>4. ASSUME NEW k \in Calls, NEW a \in Subnets, NEW b \in Subnets, NEW i \in Nat,
             Asked(streams', k, a, b, i)
      PROVE  Asked(streams, k, a, b, i)
  <2>1. /\ i \in StreamIndices(streams'[a][b]) /\ MessageAt(streams'[a][b], i) = Request(k)
        /\ streams'[b][a].signals_end <= i
    BY <1>4 DEF Asked
  <2>2. i \in StreamIndices(streams[a][b]) /\ MessageAt(streams[a][b], i) = Request(k)
    <3>1. CASE a = s
      <4>1. SameRequests(streams[a][b], streams'[a][b])
        BY <1>2, <1>3, <3>1 DEF InTurn
      <4>2. Request(k).kind = "Request"
        BY DEF Request
      <4> QED BY <2>1, <4>1, <4>2 DEF SameRequests
    <3>2. CASE a # s
      BY <1>3, <2>1, <3>2
    <3> QED BY <3>1, <3>2
  <2>3. streams[b][a] \in StreamType /\ streams'[b][a] \in StreamType
    BY <1>2, <1>3 DEF Nets
  <2>4. streams[b][a].signals_end \in Nat /\ streams'[b][a].signals_end \in Nat
    BY <2>3, StreamFields
  <2>5. streams[b][a].signals_end <= streams'[b][a].signals_end
    <3>1. CASE b = s
      BY <1>2, <1>3, <3>1 DEF InTurn
    <3>2. CASE b # s
      BY <1>3, <2>4, <3>2
    <3> QED BY <3>1, <3>2
  <2>6. streams[b][a].signals_end <= i
    BY <2>1, <2>4, <2>5
  <2> QED BY <2>2, <2>6 DEF Asked
<1>5. \A k \in Calls : call'[k] = "idle" <=> call[k] = "idle"
  BY <1>1, <1>2 DEF InTurn
<1>6. ASSUME NEW k \in Calls, work'[k] # "none", work[k] = "none"
      PROVE  /\ at[Callee[k]] = s
             /\ \E i \in Nat : /\ Home[Caller[k]] \in Subnets
                               /\ Asked(streams, k, Home[Caller[k]], s, i)
                               /\ i < streams'[s][Home[Caller[k]]].signals_end
  <2>1. TakenFrom(streams, s, y, k)
    BY <1>1, <1>2, <1>6 DEF InTurn
  <2>2. PICK a \in Subnets :
          \E i \in StreamIndices(streams[a][s]) :
            /\ MessageAt(streams[a][s], i) = Request(k)
            /\ streams[s][a].signals_end <= i /\ i < y.streams[a].signals_end
    BY <2>1 DEF TakenFrom
  <2>3. PICK i \in StreamIndices(streams[a][s]) :
          /\ MessageAt(streams[a][s], i) = Request(k)
          /\ streams[s][a].signals_end <= i /\ i < y.streams[a].signals_end
    BY <2>2
  <2>4. streams[a][s] \in StreamType
    BY <1>2 DEF Nets
  <2>5. i \in Nat
    BY <2>4, IndexFacts
  <2>6. Asked(streams, k, a, s, i)
    BY <2>3 DEF Asked
  <2>7. a = Home[Caller[k]]
    BY <2>5, <2>6, AskedOpen
  <2>8. i < streams'[s][a].signals_end
    BY <1>3, <2>3
  <2> QED BY <2>1, <2>5, <2>6, <2>7, <2>8 DEF TakenFrom
<1> QED BY <1>4, <1>5, <1>6

\* The callee is on the new host once that uses the new routing table.
LEMMA MoverAtTarget ==
  ASSUME Inv, CallInv, Mover \in Canisters
  PROVE  /\ Target # Home[Mover] /\ Target \in Subnets /\ Home[Mover] \in Subnets
         /\ at[Mover] = Target <=> registry[Target] = 1
<1>1. Mover # None /\ Target # Home[Mover] /\ Target \in Subnets /\ Home[Mover] \in Subnets /\ Target # None
  BY XNetAssumption
<1>2. registry[Target] \in 0 .. 1 /\ registry[Home[Mover]] \in 0 .. 1
  BY <1>1 DEF Inv, TypeInv
<1>3. /\ registry[Target] = 1 => registry[Home[Mover]] = 1
      /\ at[Mover] = IF registry[Home[Mover]] = 0 THEN Home[Mover]
                     ELSE IF registry[Target] = 0 THEN None ELSE Target
  BY <1>1 DEF CallInv, AtHosts
<1> QED BY <1>1, <1>2, <1>3

LEMMA ProcessBatchOrder ==
  ASSUME CallersStay, Inv, CallInv, OrderInv, NEW s \in Subnets, ProcessBatch(s)
  PROVE  OrderInv'
<1>1. registry' = registry
  BY DEF ProcessBatch
<1>2. /\ \A k \in Calls, a, b \in Subnets, i \in Nat :
           Asked(streams', k, a, b, i) => Asked(streams, k, a, b, i)
      /\ \A k \in Calls : call'[k] = "idle" <=> call[k] = "idle"
  BY BatchTakes
<1>3. ASSUME NEW k \in Calls, work'[k] # "none", work[k] = "none"
      PROVE  /\ at[Callee[k]] = s
             /\ Home[Caller[k]] \in Subnets
             /\ \E i \in Nat : /\ Asked(streams, k, Home[Caller[k]], s, i)
                               /\ i < streams'[s][Home[Caller[k]]].signals_end
  BY <1>3, BatchTakes
<1>4. \A k \in Calls : work'[k] # "none" => work[k] # "none" \/ call[k] # "idle"
  <2> SUFFICES ASSUME NEW k \in Calls, work'[k] # "none", work[k] = "none" PROVE call[k] # "idle"
    OBVIOUS
  <2>1. Pending(call[k])
    BY <1>3, AskedOpen
  <2> QED BY <2>1 DEF Pending
<1>5. ASSUME NEW j \in Calls, NEW k \in Calls, NEW a \in Subnets, NEW b \in Subnets, NEW i \in Nat,
             Earlier(j, k), Asked(streams', j, a, b, i), work'[k] # "none", work[k] = "none"
      PROVE  Overtaken(j, b)
  <2>1. PICK n \in Nat : /\ Asked(streams, k, Home[Caller[k]], s, n)
                         /\ n < streams'[s][Home[Caller[k]]].signals_end
    BY <1>3, <1>5
  <2>2. Asked(streams, j, a, b, i)
    BY <1>2, <1>5
  <2>3. a = Home[Caller[k]]
    <3>1. a = Home[Caller[j]]
      BY <2>2, AskedOpen
    <3> QED BY <1>5, <3>1 DEF Earlier
  <2>4. Behind(j, b, i, s, n)
    BY <1>5, <2>1, <2>2, <2>3 DEF OrderInv, Queued
  <2>5. ~(s = b /\ i < n)
    <3>1. CASE s = b
      <4>1. streams'[s][a].signals_end <= i
        BY <1>5, <3>1 DEF Asked
      <4>2. n < streams'[s][a].signals_end
        BY <2>1, <2>3
      <4>3. streams'[s][a].signals_end \in Nat
        <5>1. Inv'
          BY ProcessBatchInv
        <5>2. streams'[s][a] \in StreamType
          BY <5>1 DEF Inv, TypeInv
        <5> QED BY <5>2, StreamFields
      <4> QED BY <4>1, <4>2, <4>3
    <3> QED BY <3>1
  <2>6. Callee[j] = Mover /\ b = Home[Mover] /\ s = Target
    BY <2>4, <2>5 DEF Behind
  <2>7. Callee[k] = Mover /\ Mover \in Canisters
    BY <1>5, <2>6, XNetAssumption DEF Earlier
  <2>8. at[Mover] = Target
    BY <1>3, <1>5, <2>6, <2>7
  <2>9. registry[Target] = 1
    BY <2>7, <2>8, MoverAtTarget
  <2> QED BY <2>6, <2>9 DEF Overtaken
<1> QED BY <1>1, <1>2, <1>4, <1>5, OrderKept

LEMMA InitOrder == Init => OrderInv
<1> SUFFICES ASSUME Init PROVE OrderInv
  OBVIOUS
<1>1. \A k \in Calls : call[k] = "idle" /\ work[k] = "none"
  BY DEF Init
<1>2. \A k, a, b, i : a \in Subnets /\ b \in Subnets => ~Asked(streams, k, a, b, i)
  <2> SUFFICES ASSUME NEW a \in Subnets, NEW b \in Subnets, NEW i, i \in StreamIndices(streams[a][b])
               PROVE  FALSE
    BY DEF Asked
  <2>1. streams[a][b] = EmptyStream
    BY DEF Init
  <2>2. EmptyStream.begin = 0 /\ EmptyStream.messages = <<>> /\ Len(<<>>) = 0
    BY DEF EmptyStream
  <2>3. MessagesEnd(EmptyStream) = 0
    BY <2>2 DEF MessagesEnd
  <2>4. i \in 0 .. (0 - 1)
    BY <2>1, <2>2, <2>3 DEF StreamIndices
  <2> QED BY <2>4
<1> QED BY <1>1, <1>2 DEF OrderInv, CallsOpened, Redirected, NoneAhead, Queued

LEMMA NextOrder ==
  ASSUME CallersStay PROVE Inv /\ CallInv /\ OrderInv /\ [Next]_vars => OrderInv'
<1> SUFFICES ASSUME Inv, CallInv, OrderInv, [Next]_vars PROVE OrderInv'
  OBVIOUS
<1>1. ASSUME NEW k \in Calls, SendRequest(k) PROVE OrderInv'
  BY <1>1, SendRequestOrder
<1>2. ASSUME NEW k \in Calls, SendResponse(k) PROVE OrderInv'
  BY <1>2, SendResponseOrder
<1>3. ASSUME NEW s \in Subnets, ProcessBatch(s) PROVE OrderInv'
  BY <1>3, ProcessBatchOrder
<1>4. ASSUME UNCHANGED <<streams, call, work>>,
             \A a \in Subnets : registry[a] = 1 => registry'[a] = 1
      PROVE  OrderInv'
  BY <1>4, OrderKept
<1>5. ASSUME NEW s \in Subnets, NEW n \in Nodes, NEW r \in Others(s), RefillPool(s, n, r)
      PROVE  OrderInv'
  BY <1>4, <1>5 DEF RefillPool
<1>6. ASSUME NEW s \in Subnets, NEW n \in Nodes, Propose(s, n) PROVE OrderInv'
  BY <1>4, <1>6 DEF Propose, MakeBlock
<1>7. ASSUME NEW s \in Subnets, Certify(s) PROVE OrderInv'
  BY <1>4, <1>7 DEF Certify
<1>8. ASSUME NEW s \in Subnets, UpdateRegistry(s) PROVE OrderInv'
  <2>1. registry \in [Subnets -> 0 .. 1] /\ registry' = [registry EXCEPT ![s] = 1]
    BY <1>8 DEF UpdateRegistry, Inv, TypeInv
  <2>2. \A a \in Subnets : registry[a] = 1 => registry'[a] = 1
    BY <2>1
  <2> QED BY <1>4, <1>8, <2>2 DEF UpdateRegistry
<1>9. CASE UNCHANGED vars
  BY <1>4, <1>9 DEF vars
<1>10. ASSUME NEW c \in Canisters, StopUninstalled(c) PROVE OrderInv'
  <2>1. UNCHANGED <<streams, work, registry>>
    BY <1>10 DEF StopUninstalled
  <2>2. \A k \in Calls : call'[k] = "idle" <=> call[k] = "idle"
    BY <1>10 DEF StopUninstalled
  <2> QED BY <2>1, <2>2, OrderKept
<1> QED BY <1>1, <1>2, <1>3, <1>5, <1>6, <1>7, <1>8, <1>9, <1>10 DEF Next

\* A request that was overtaken is not received.
LEMMA StepInOrder ==
  ASSUME CallersStay, Inv, CallInv, OrderInv, [Next]_vars,
         NEW j \in Calls, NEW k \in Calls, Earlier(j, k), work[j] = "none", work[k] # "none"
  PROVE  work'[j] = "none"
<1>1. ASSUME NEW s \in Subnets, ProcessBatch(s) PROVE work'[j] = "none"
  <2> SUFFICES ASSUME work'[j] # "none" PROVE FALSE
    OBVIOUS
  <2>1. /\ at[Callee[j]] = s
        /\ \E i \in Nat : LET a == Home[Caller[j]]
                          IN  /\ a \in Subnets /\ Asked(streams, j, a, s, i)
                              /\ i < streams'[s][a].signals_end
    BY <1>1, BatchTakes
  <2>2. Overtaken(j, s)
    BY <2>1 DEF OrderInv, NoneAhead
  <2>3. Mover \in Canisters
    BY <2>2, XNetAssumption DEF Overtaken
  <2> QED BY <2>1, <2>2, <2>3, MoverAtTarget DEF Overtaken
<1>2. ASSUME NEW m \in Calls, SendResponse(m) PROVE work'[j] = "none"
  <2>1. work[m] = "held" /\ work' = [work EXCEPT ![m] = "answered"]
        /\ work \in [Calls -> {"none", "held", "answered"}]
    BY <1>2 DEF SendResponse, Inv, TypeInv
  <2> QED BY <2>1
<1>3. ASSUME NEW m \in Calls, SendRequest(m) PROVE work' = work
  BY <1>3 DEF SendRequest
<1>4. ASSUME NEW s \in Subnets,
             \/ \E n \in Nodes, r \in Others(s) : RefillPool(s, n, r)
             \/ \E n \in Nodes : Propose(s, n)
             \/ Certify(s)
             \/ UpdateRegistry(s)
      PROVE  work' = work
  BY <1>4 DEF RefillPool, Propose, MakeBlock, Certify, UpdateRegistry
<1>5. ASSUME NEW c \in Canisters, StopUninstalled(c) PROVE work' = work
  BY <1>5 DEF StopUninstalled
<1>6. CASE UNCHANGED vars
  BY <1>6 DEF vars
<1> QED BY <1>1, <1>2, <1>3, <1>4, <1>5, <1>6 DEF Next

\* stream_handler.rs, stream_builder.rs: unless the caller migrates, requests from one
\* canister to another are received in the order in which they were sent, for any
\* number of subnets, calls and blocks, also while the callee migrates: a request
\* whose stream still leads to the old host when a later one has been received at the
\* new one is refused, never received.
THEOREM RequestsStayInOrder ==
  ASSUME CallersStay PROVE Spec => RequestsInOrder
<1>1. Inv /\ CallInv /\ OrderInv /\ [Next]_vars => OrderInv'
  BY NextOrder
<1>2. Spec => []OrderInv
  BY <1>1, InvAlways, CallsAlways, InitOrder, PTL DEF Spec
<1>3. Inv /\ CallInv /\ OrderInv /\ [Next]_vars =>
        [\A j, k \in Calls :
           /\ j < k /\ Caller[j] = Caller[k] /\ Callee[j] = Callee[k]
           /\ work[j] = "none" /\ work[k] # "none"
           => work'[j] = "none"]_vars
  BY StepInOrder DEF Earlier
<1> QED BY <1>2, <1>3, InvAlways, CallsAlways, PTL DEF Spec, RequestsInOrder
=============================================================================
