------------------------ MODULE CanisterQueuesProofs ------------------------
(***************************************************************************)
(* The invariants of CanisterQueues hold for every set of canisters, every *)
(* capacity and all sizes of messages.                                     *)
(*                                                                         *)
(* The statistics and the slot equations depend only on the contents of    *)
(* the queue pairs (Contents): the items and the reserved slots of each    *)
(* queue.  A measure weighs these and adds up over the pairs, so that one  *)
(* lemma says how every counter changes when one pair does.  CqOk is the   *)
(* shape of the queues and of the input schedule (ShapeOk) with statistics *)
(* that equal their measures (StatsMatch); for every operation a lemma     *)
(* <Operation>Ok says that it keeps CqOk, how the contents change, and     *)
(* what it does to the order of the senders (Keeps, Served).               *)
(*                                                                         *)
(* CallsBalance is not inductive: taking a message of the canister to      *)
(* itself from its output queue and pushing it to its input queue are two  *)
(* operations of one step, and every time-out passes through states where  *)
(* the statistics still account for requests whose rejects are not yet in  *)
(* the input queues.  Balanced restates it in totals of weights, and       *)
(* TimingOut and Expired say what the intermediate states of a time-out    *)
(* look like, along the items of a queue and then along the pairs.  Inv    *)
(* collects all of it, with the messages in flight, and is inductive.      *)
(***************************************************************************)
EXTENDS CanisterQueues, QueueOpsProofs

-----------------------------------------------------------------------------
(* What is counted, summed over the queue pairs. *)

Items == MessageType \cup {None}

\* What the statistics, and the slots, depend on in a pair of queues.
Contents(pair) ==
  [in |-> pair.inq.queue, ri |-> pair.inq.num_slots_reserved,
   out |-> pair.outq.queue, ro |-> pair.outq.num_slots_reserved]

ContentsSet == [in : Seq(Items), ri : Nat, out : Seq(Items), ro : Nat]

AllContents(queues) == [id \in DOMAIN queues |-> Contents(queues[id])]

\* A measure weighs the items of the input and of the output queue, may count
\* the reserved slots of either, and adds a base per pair.
Measures ==
  [base : Nat, in : Weighings(MessageType), out : Weighings(MessageType),
   ri : {0, 1}, ro : {0, 1}]

Measure(m, x) ==
  m.base + Total(m.in, x.in) + Total(m.out, x.out)
    + (IF m.ri = 1 THEN x.ri ELSE 0) + (IF m.ro = 1 THEN x.ro ELSE 0)

MeasureAll(m, F) == SumFunction([id \in DOMAIN F |-> Measure(m, F[id])])

LEMMA MeasureFields ==
  ASSUME NEW m \in Measures
  PROVE  /\ m.base \in Nat
         /\ m.in \in Weighings(MessageType) /\ m.in \in [Items -> Nat] /\ m.in[None] = 0
         /\ m.out \in Weighings(MessageType) /\ m.out \in [Items -> Nat] /\ m.out[None] = 0
         /\ m.ri \in {0, 1} /\ m.ro \in {0, 1}
<1>1. /\ m.base \in Nat /\ m.in \in Weighings(MessageType) /\ m.out \in Weighings(MessageType)
      /\ m.ri \in {0, 1} /\ m.ro \in {0, 1}
  BY DEF Measures
<1> QED BY <1>1 DEF Weighings, Items

LEMMA MeasureType ==
  ASSUME NEW m \in Measures, NEW x \in ContentsSet
  PROVE  /\ Measure(m, x) \in Nat
         /\ Total(m.in, x.in) \in Nat /\ Total(m.out, x.out) \in Nat
<1>1. m.base \in Nat /\ m.in \in [Items -> Nat] /\ m.out \in [Items -> Nat]
  BY MeasureFields
<1>2. x.in \in Seq(Items) /\ x.out \in Seq(Items) /\ x.ri \in Nat /\ x.ro \in Nat
  BY DEF ContentsSet
<1>3. Total(m.in, x.in) \in Nat /\ Total(m.out, x.out) \in Nat
  BY <1>1, <1>2, TotalType
<1> DEFINE a == Total(m.in, x.in)
           b == Total(m.out, x.out)
           c == IF m.ri = 1 THEN x.ri ELSE 0
           d == IF m.ro = 1 THEN x.ro ELSE 0
<1>4. c \in Nat /\ d \in Nat
  BY <1>2
<1>5. Measure(m, x) = m.base + a + b + c + d
  BY DEF Measure
<1> HIDE DEF a, b, c, d
<1>6. m.base + a + b + c + d \in Nat
  BY <1>1, <1>3, <1>4 DEF a, b
<1> QED BY <1>3, <1>5, <1>6

\* A measure of all pairs as a sum over their ids.
LEMMA MeasureAllIsSum ==
  ASSUME NEW D, IsFiniteSet(D), NEW F \in [D -> ContentsSet], NEW m \in Measures
  PROVE  LET f == [id \in D |-> Measure(m, F[id])]
         IN  /\ MeasureAll(m, F) = SumFunctionOnSet(f, D)
             /\ \A id \in D : f[id] = Measure(m, F[id]) /\ f[id] \in Nat /\ f[id] \in Int
             /\ MeasureAll(m, F) \in Nat
<1> DEFINE f == [id \in D |-> Measure(m, F[id])]
<1>1. \A id \in D : Measure(m, F[id]) \in Nat
  BY MeasureType
<1>2. \A id \in D : f[id] = Measure(m, F[id]) /\ f[id] \in Nat /\ f[id] \in Int
  BY <1>1
<1>3. MeasureAll(m, F) = SumFunctionOnSet(f, D)
  <2>1. DOMAIN F = D /\ DOMAIN f = D
    OBVIOUS
  <2>2. [id \in DOMAIN F |-> Measure(m, F[id])] = f
    BY <2>1
  <2>3. MeasureAll(m, F) = SumFunctionOnSet(f, DOMAIN f)
    BY <2>2 DEF MeasureAll, SumFunction
  <2> HIDE DEF f
  <2> QED BY <2>1, <2>3
<1> HIDE DEF f
<1>4. SumFunctionOnSet(f, D) \in Nat
  BY <1>2, SumNat
<1> QED BY <1>2, <1>3, <1>4 DEF f

\* One pair changes.
LEMMA MeasureUpdate ==
  ASSUME NEW D, IsFiniteSet(D), NEW F \in [D -> ContentsSet], NEW G \in [D -> ContentsSet],
         NEW x \in D, \A id \in D \ {x} : G[id] = F[id], NEW m \in Measures
  PROVE  MeasureAll(m, G) = MeasureAll(m, F) + Measure(m, G[x]) - Measure(m, F[x])
<1> DEFINE f == [id \in D |-> Measure(m, F[id])]
           g == [id \in D |-> Measure(m, G[id])]
<1>1. /\ MeasureAll(m, F) = SumFunctionOnSet(f, D)
      /\ \A id \in D : f[id] = Measure(m, F[id]) /\ f[id] \in Int
  BY MeasureAllIsSum
<1>2. /\ MeasureAll(m, G) = SumFunctionOnSet(g, D)
      /\ \A id \in D : g[id] = Measure(m, G[id]) /\ g[id] \in Int
  BY MeasureAllIsSum
<1>3. \A id \in D \ {x} : g[id] = f[id]
  BY <1>1, <1>2
<1> HIDE DEF f, g
<1>4. SumFunctionOnSet(g, D) = SumFunctionOnSet(f, D) + g[x] - f[x]
  BY <1>1, <1>2, <1>3, SumUpdate
<1> QED BY <1>1, <1>2, <1>4

\* A pair is created.
LEMMA MeasureInsert ==
  ASSUME NEW D, IsFiniteSet(D), NEW F \in [D -> ContentsSet],
         NEW x, x \notin D, NEW G \in [D \cup {x} -> ContentsSet],
         \A id \in D : G[id] = F[id], NEW m \in Measures
  PROVE  MeasureAll(m, G) = MeasureAll(m, F) + Measure(m, G[x])
<1> DEFINE E == D \cup {x}
           f == [id \in D |-> Measure(m, F[id])]
           g == [id \in E |-> Measure(m, G[id])]
<1>0. IsFiniteSet(E) /\ x \in E /\ E \ {x} = D /\ G \in [E -> ContentsSet]
  BY FS_AddElement
<1> HIDE DEF E
<1>1. /\ MeasureAll(m, F) = SumFunctionOnSet(f, D)
      /\ \A id \in D : f[id] = Measure(m, F[id]) /\ f[id] \in Int
  BY MeasureAllIsSum
<1>2. /\ MeasureAll(m, G) = SumFunctionOnSet(g, E)
      /\ \A id \in E : g[id] = Measure(m, G[id]) /\ g[id] \in Int
  BY <1>0, MeasureAllIsSum
<1>3. \A id \in D : g[id] = f[id]
  BY <1>0, <1>1, <1>2
<1> HIDE DEF f, g
<1>4. SumFunctionOnSet(g, E) = g[x] + SumFunctionOnSet(g, E \ {x})
  BY <1>0, <1>2, SumOne
<1>5. SumFunctionOnSet(g, E \ {x}) = SumFunctionOnSet(f, D)
  <2>1. SumFunctionOnSet(g, D) = SumFunctionOnSet(f, D)
    BY <1>3, SumAgrees
  <2> QED BY <1>0, <2>1
<1>6. g[x] = Measure(m, G[x]) /\ g[x] \in Int /\ SumFunctionOnSet(f, D) \in Int
  <2>1. SumFunctionOnSet(f, D) \in Int
    BY <1>1, SumOne
  <2> QED BY <2>1, <1>0, <1>2
<1> QED BY <1>1, <1>2, <1>4, <1>5, <1>6

\* Pairs that all measure v are removed.
Removal(D, K, F, G) ==
  /\ IsFiniteSet(D) /\ F \in [D -> ContentsSet]
  /\ K \in SUBSET D /\ G \in [K -> ContentsSet] /\ \A id \in K : G[id] = F[id]

LEMMA MeasureRemove ==
  ASSUME NEW D, NEW K, NEW F, NEW G, Removal(D, K, F, G),
         NEW m \in Measures, NEW v \in Int, \A id \in D \ K : Measure(m, F[id]) = v
  PROVE  MeasureAll(m, F) = MeasureAll(m, G) + v * Cardinality(D \ K)
<1> USE DEF Removal
<1> DEFINE f == [id \in D |-> Measure(m, F[id])]
           g == [id \in K |-> Measure(m, G[id])]
<1>0. IsFiniteSet(K)
  BY FS_Subset
<1>1. /\ MeasureAll(m, F) = SumFunctionOnSet(f, D)
      /\ \A id \in D : f[id] = Measure(m, F[id]) /\ f[id] \in Int
  BY MeasureAllIsSum
<1>2. /\ MeasureAll(m, G) = SumFunctionOnSet(g, K)
      /\ \A id \in K : g[id] = Measure(m, G[id]) /\ g[id] \in Int
  BY <1>0, MeasureAllIsSum
<1>3. \A id \in K : f[id] = g[id]
  BY <1>1, <1>2
<1>4. \A id \in D \ K : f[id] = v
  BY <1>1
<1> HIDE DEF f, g
<1>5. SumFunctionOnSet(f, D) = SumFunctionOnSet(f, K) + v * Cardinality(D \ K)
  BY <1>1, <1>4, SumConstantPart
<1>6. SumFunctionOnSet(f, K) = SumFunctionOnSet(g, K)
  BY <1>0, <1>3, SumAgrees
<1> QED BY <1>1, <1>2, <1>5, <1>6

-----------------------------------------------------------------------------
(* The statistics as measures. *)

NoWeight == [x \in Items |-> 0]
MessageWeight == LiveWeight(MessageType)
RequestWeight == [x \in Items |-> IF IsRequest(x) THEN 1 ELSE 0]
ResponseWeight == [x \in Items |-> IF IsResponse(x) THEN 1 ELSE 0]
BytesWeight == [x \in Items |-> IF x = None THEN 0 ELSE Bytes(x)]
CyclesWeight == [x \in Items |-> IF x = None THEN 0 ELSE Cycles(x)]
ResponseBytesWeight == [x \in Items |-> IF IsResponse(x) THEN Bytes(x) ELSE 0]
OversizedWeight == [x \in Items |-> IF x = None THEN 0 ELSE OversizedBytes(x)]

\* Messages and their weights.
LEMMA MessageFacts ==
  ASSUME NEW msg \in MessageType
  PROVE  /\ msg \in Items /\ msg # None
         /\ msg.kind \in {"Request", "Response"}
         /\ IsRequest(msg) <=> msg.kind = "Request"
         /\ IsResponse(msg) <=> msg.kind = "Response"
         /\ IsRequest(msg) <=> ~IsResponse(msg)
         /\ Bytes(msg) \in Nat /\ Cycles(msg) \in Nat /\ OversizedBytes(msg) \in Nat
<1>1. msg \in Items /\ msg # None
  BY TombstoneAssumption DEF Items
<1>2. /\ msg.kind \in {"Request", "Response"}
      /\ msg.payload.bytes \in Nat /\ msg.payload.cycles \in Nat
  BY DEF MessageType
<1>3. /\ IsRequest(msg) <=> msg.kind = "Request"
      /\ IsResponse(msg) <=> msg.kind = "Response"
      /\ IsRequest(msg) <=> ~IsResponse(msg)
  BY <1>1, <1>2 DEF IsRequest, IsResponse
<1>4. Bytes(msg) \in Nat /\ Cycles(msg) \in Nat
  BY <1>2 DEF Bytes, Cycles
<1>5. OversizedBytes(msg) \in Nat
  <2>1. MAX_RESPONSE_COUNT_BYTES \in Nat
    BY CanisterQueuesAssumption
  <2>2. CASE IsRequest(msg) /\ Bytes(msg) > MAX_RESPONSE_COUNT_BYTES
    <3>1. OversizedBytes(msg) = Bytes(msg) - MAX_RESPONSE_COUNT_BYTES
      BY <2>2 DEF OversizedBytes
    <3> QED BY <3>1, <2>1, <2>2, <1>4
  <2>3. CASE ~(IsRequest(msg) /\ Bytes(msg) > MAX_RESPONSE_COUNT_BYTES)
    <3>1. OversizedBytes(msg) = 0
      BY <2>3 DEF OversizedBytes
    <3> QED BY <3>1
  <2> QED BY <2>2, <2>3
<1> QED BY <1>1, <1>2, <1>3, <1>4, <1>5

LEMMA MessageWeights ==
  ASSUME NEW msg \in MessageType
  PROVE  /\ NoWeight[msg] = 0
         /\ MessageWeight[msg] = 1
         /\ RequestWeight[msg] = IF IsRequest(msg) THEN 1 ELSE 0
         /\ ResponseWeight[msg] = IF IsResponse(msg) THEN 1 ELSE 0
         /\ BytesWeight[msg] = Bytes(msg)
         /\ CyclesWeight[msg] = Cycles(msg)
         /\ ResponseBytesWeight[msg] = IF IsResponse(msg) THEN Bytes(msg) ELSE 0
         /\ OversizedWeight[msg] = OversizedBytes(msg)
<1>1. msg \in Items /\ msg # None
  BY MessageFacts
<1> QED BY <1>1 DEF NoWeight, MessageWeight, LiveWeight, RequestWeight, ResponseWeight, BytesWeight,
                 CyclesWeight, ResponseBytesWeight, OversizedWeight, Items

\* A function of items with natural values that forgets tombstones weighs them.
LEMMA IsWeighing ==
  ASSUME NEW w, DOMAIN w = Items, w = [x \in Items |-> w[x]],
         w[None] = 0, \A msg \in MessageType : w[msg] \in Nat
  PROVE  w \in Weighings(MessageType)
<1>1. \A x \in Items : w[x] \in Nat
  BY DEF Items
<1>2. w \in [Items -> Nat]
  BY <1>1
<1> QED BY <1>2 DEF Weighings, Items

LEMMA WeightsAreWeighings ==
  {NoWeight, MessageWeight, RequestWeight, ResponseWeight, BytesWeight, CyclesWeight,
   ResponseBytesWeight, OversizedWeight} \subseteq Weighings(MessageType)
<1>0. None \in Items /\ ~IsRequest(None) /\ ~IsResponse(None)
  BY DEF Items, IsRequest, IsResponse
<1>1. NoWeight \in Weighings(MessageType)
  <2>1. \A msg \in MessageType : NoWeight[msg] \in Nat
    BY MessageWeights
  <2>2. NoWeight[None] = 0
    BY <1>0 DEF NoWeight
  <2> QED BY <2>1, <2>2, IsWeighing DEF NoWeight
<1>2. MessageWeight \in Weighings(MessageType)
  <2>1. \A msg \in MessageType : MessageWeight[msg] \in Nat
    BY MessageWeights
  <2>2. MessageWeight[None] = 0
    BY <1>0 DEF MessageWeight, LiveWeight
  <2> QED BY <2>1, <2>2, IsWeighing DEF MessageWeight, LiveWeight, Items
<1>3. RequestWeight \in Weighings(MessageType)
  <2>1. \A msg \in MessageType : RequestWeight[msg] \in Nat
    BY MessageWeights
  <2>2. RequestWeight[None] = 0
    BY <1>0 DEF RequestWeight
  <2> QED BY <2>1, <2>2, IsWeighing DEF RequestWeight
<1>4. ResponseWeight \in Weighings(MessageType)
  <2>1. \A msg \in MessageType : ResponseWeight[msg] \in Nat
    BY MessageWeights
  <2>2. ResponseWeight[None] = 0
    BY <1>0 DEF ResponseWeight
  <2> QED BY <2>1, <2>2, IsWeighing DEF ResponseWeight
<1>5. BytesWeight \in Weighings(MessageType)
  <2>1. \A msg \in MessageType : BytesWeight[msg] \in Nat
    BY MessageWeights, MessageFacts
  <2>2. BytesWeight[None] = 0
    BY <1>0 DEF BytesWeight
  <2> QED BY <2>1, <2>2, IsWeighing DEF BytesWeight
<1>6. CyclesWeight \in Weighings(MessageType)
  <2>1. \A msg \in MessageType : CyclesWeight[msg] \in Nat
    BY MessageWeights, MessageFacts
  <2>2. CyclesWeight[None] = 0
    BY <1>0 DEF CyclesWeight
  <2> QED BY <2>1, <2>2, IsWeighing DEF CyclesWeight
<1>7. ResponseBytesWeight \in Weighings(MessageType)
  <2>1. \A msg \in MessageType : ResponseBytesWeight[msg] \in Nat
    BY MessageWeights, MessageFacts
  <2>2. ResponseBytesWeight[None] = 0
    BY <1>0 DEF ResponseBytesWeight
  <2> QED BY <2>1, <2>2, IsWeighing DEF ResponseBytesWeight
<1>8. OversizedWeight \in Weighings(MessageType)
  <2>1. \A msg \in MessageType : OversizedWeight[msg] \in Nat
    BY MessageWeights, MessageFacts
  <2>2. OversizedWeight[None] = 0
    BY <1>0 DEF OversizedWeight
  <2> QED BY <2>1, <2>2, IsWeighing DEF OversizedWeight
<1> QED BY <1>1, <1>2, <1>3, <1>4, <1>5, <1>6, <1>7, <1>8

MeasureWith(base, in, out, ri, ro) ==
  [base |-> base, in |-> in, out |-> out, ri |-> ri, ro |-> ro]

InCount     == MeasureWith(0, MessageWeight, NoWeight, 0, 0)
InResponses == MeasureWith(0, ResponseWeight, NoWeight, 0, 0)
InReserved  == MeasureWith(0, NoWeight, NoWeight, 1, 0)
InSize      == MeasureWith(EMPTY_QUEUE_BYTES, BytesWeight, NoWeight, 0, 0)
InCycles    == MeasureWith(0, CyclesWeight, NoWeight, 0, 0)

OutCount    == MeasureWith(0, NoWeight, MessageWeight, 0, 0)
OutCycles   == MeasureWith(0, NoWeight, CyclesWeight, 0, 0)

ResponsesSize == MeasureWith(0, ResponseBytesWeight, ResponseBytesWeight, 0, 0)
AllReserved   == MeasureWith(0, NoWeight, NoWeight, 1, 1)
Oversized     == MeasureWith(0, OversizedWeight, OversizedWeight, 0, 0)

LEMMA MeasuresDefined ==
  {InCount, InResponses, InReserved, InSize, InCycles, OutCount, OutCycles,
   ResponsesSize, AllReserved, Oversized} \subseteq Measures
<1>1. \A b \in Nat, i, o \in Weighings(MessageType), ri, ro \in {0, 1} :
        MeasureWith(b, i, o, ri, ro) \in Measures
  BY DEF MeasureWith, Measures
<1>2. EMPTY_QUEUE_BYTES \in Nat
  BY CanisterQueuesAssumption
<1>3. /\ NoWeight \in Weighings(MessageType) /\ MessageWeight \in Weighings(MessageType)
      /\ ResponseWeight \in Weighings(MessageType) /\ BytesWeight \in Weighings(MessageType)
      /\ CyclesWeight \in Weighings(MessageType) /\ OversizedWeight \in Weighings(MessageType)
      /\ ResponseBytesWeight \in Weighings(MessageType)
  BY WeightsAreWeighings
<1>4. InCount \in Measures /\ InResponses \in Measures /\ InReserved \in Measures
  BY <1>1, <1>3 DEF InCount, InResponses, InReserved
<1>5. InSize \in Measures /\ InCycles \in Measures /\ OutCount \in Measures /\ OutCycles \in Measures
  BY <1>1, <1>2, <1>3 DEF InSize, InCycles, OutCount, OutCycles
<1>6. ResponsesSize \in Measures /\ AllReserved \in Measures /\ Oversized \in Measures
  BY <1>1, <1>3 DEF ResponsesSize, AllReserved, Oversized
<1> QED BY <1>4, <1>5, <1>6

LEMMA TotalNoWeight ==
  ASSUME NEW s \in Seq(Items)
  PROVE  Total(NoWeight, s) = 0
<1>1. NoWeight \in [Items -> Nat]
  BY DEF NoWeight
<1>2. \A i \in 1 .. Len(s) : NoWeight[s[i]] = 0
  BY ElementOfSeq DEF NoWeight
<1>3. Len(s) \in 0 .. Len(s)
  OBVIOUS
<1>4. Total(NoWeight, Drop(s, Len(s))) = Total(NoWeight, s)
  BY <1>1, <1>2, <1>3, TotalDrop
<1>5. Drop(s, Len(s)) = <<>>
  BY DEF Drop
<1> QED BY <1>4, <1>5, TotalEmpty

\* What the statistics measure in the contents of one pair.
LEMMA MeasuresOf ==
  ASSUME NEW x \in ContentsSet
  PROVE  /\ Measure(InCount, x) = Total(MessageWeight, x.in)
         /\ Measure(InResponses, x) = Total(ResponseWeight, x.in)
         /\ Measure(InReserved, x) = x.ri
         /\ Measure(InSize, x) = EMPTY_QUEUE_BYTES + Total(BytesWeight, x.in)
         /\ Measure(InCycles, x) = Total(CyclesWeight, x.in)
         /\ Measure(OutCount, x) = Total(MessageWeight, x.out)
         /\ Measure(OutCycles, x) = Total(CyclesWeight, x.out)
         /\ Measure(ResponsesSize, x)
              = Total(ResponseBytesWeight, x.in) + Total(ResponseBytesWeight, x.out)
         /\ Measure(AllReserved, x) = x.ri + x.ro
         /\ Measure(Oversized, x) = Total(OversizedWeight, x.in) + Total(OversizedWeight, x.out)
<1>1. x.in \in Seq(Items) /\ x.out \in Seq(Items) /\ x.ri \in Nat /\ x.ro \in Nat
  BY DEF ContentsSet
<1>2. Total(NoWeight, x.in) = 0 /\ Total(NoWeight, x.out) = 0
  BY <1>1, TotalNoWeight
<1>3. ASSUME NEW w \in Weighings(MessageType)
      PROVE  Total(w, x.in) \in Nat /\ Total(w, x.out) \in Nat
  <2>1. w \in [Items -> Nat]
    BY DEF Weighings, Items
  <2> QED BY <2>1, <1>1, TotalType
<1>4. /\ Total(MessageWeight, x.in) \in Nat /\ Total(MessageWeight, x.out) \in Nat
      /\ Total(ResponseWeight, x.in) \in Nat
      /\ Total(BytesWeight, x.in) \in Nat
      /\ Total(CyclesWeight, x.in) \in Nat /\ Total(CyclesWeight, x.out) \in Nat
      /\ Total(ResponseBytesWeight, x.in) \in Nat /\ Total(ResponseBytesWeight, x.out) \in Nat
      /\ Total(OversizedWeight, x.in) \in Nat /\ Total(OversizedWeight, x.out) \in Nat
  BY <1>3, WeightsAreWeighings
<1>5. EMPTY_QUEUE_BYTES \in Nat
  BY CanisterQueuesAssumption
<1>6. \A b, i, o, ri, ro :
        Measure(MeasureWith(b, i, o, ri, ro), x)
          = b + Total(i, x.in) + Total(o, x.out)
              + (IF ri = 1 THEN x.ri ELSE 0) + (IF ro = 1 THEN x.ro ELSE 0)
  BY DEF Measure, MeasureWith
<1>7. /\ Measure(InCount, x) = Total(MessageWeight, x.in)
      /\ Measure(InResponses, x) = Total(ResponseWeight, x.in)
      /\ Measure(InReserved, x) = x.ri
      /\ Measure(InSize, x) = EMPTY_QUEUE_BYTES + Total(BytesWeight, x.in)
      /\ Measure(InCycles, x) = Total(CyclesWeight, x.in)
  <2>1. Measure(InCount, x) = 0 + Total(MessageWeight, x.in) + Total(NoWeight, x.out) + 0 + 0
    BY <1>6 DEF InCount
  <2>2. Measure(InResponses, x) = 0 + Total(ResponseWeight, x.in) + Total(NoWeight, x.out) + 0 + 0
    BY <1>6 DEF InResponses
  <2>3. Measure(InReserved, x) = 0 + Total(NoWeight, x.in) + Total(NoWeight, x.out) + x.ri + 0
    BY <1>6 DEF InReserved
  <2>4. Measure(InSize, x)
          = EMPTY_QUEUE_BYTES + Total(BytesWeight, x.in) + Total(NoWeight, x.out) + 0 + 0
    BY <1>6 DEF InSize
  <2>5. Measure(InCycles, x) = 0 + Total(CyclesWeight, x.in) + Total(NoWeight, x.out) + 0 + 0
    BY <1>6 DEF InCycles
  <2>6. Measure(InCount, x) = Total(MessageWeight, x.in)
    BY <2>1, <1>2, <1>4
  <2>7. Measure(InResponses, x) = Total(ResponseWeight, x.in)
    BY <2>2, <1>2, <1>4
  <2>8. Measure(InReserved, x) = x.ri
    BY <2>3, <1>1, <1>2
  <2>9. Measure(InSize, x) = EMPTY_QUEUE_BYTES + Total(BytesWeight, x.in)
    BY <2>4, <1>2, <1>4, <1>5
  <2>10. Measure(InCycles, x) = Total(CyclesWeight, x.in)
    BY <2>5, <1>2, <1>4
  <2> QED BY <2>6, <2>7, <2>8, <2>9, <2>10
<1>8. /\ Measure(OutCount, x) = Total(MessageWeight, x.out)
      /\ Measure(OutCycles, x) = Total(CyclesWeight, x.out)
  <2>1. Measure(OutCount, x) = 0 + Total(NoWeight, x.in) + Total(MessageWeight, x.out) + 0 + 0
    BY <1>6 DEF OutCount
  <2>2. Measure(OutCycles, x) = 0 + Total(NoWeight, x.in) + Total(CyclesWeight, x.out) + 0 + 0
    BY <1>6 DEF OutCycles
  <2>3. Measure(OutCount, x) = Total(MessageWeight, x.out)
    BY <2>1, <1>2, <1>4
  <2>4. Measure(OutCycles, x) = Total(CyclesWeight, x.out)
    BY <2>2, <1>2, <1>4
  <2> QED BY <2>3, <2>4
<1>9. Measure(AllReserved, x) = x.ri + x.ro
  BY <1>1, <1>2, <1>6 DEF AllReserved
<1>10. Measure(ResponsesSize, x)
         = Total(ResponseBytesWeight, x.in) + Total(ResponseBytesWeight, x.out)
  BY <1>4, <1>6 DEF ResponsesSize
<1>11. Measure(Oversized, x) = Total(OversizedWeight, x.in) + Total(OversizedWeight, x.out)
  BY <1>4, <1>6 DEF Oversized
<1> QED BY <1>7, <1>8, <1>9, <1>10, <1>11

InStats(F) ==
  [message_count  |-> MeasureAll(InCount, F),
   response_count |-> MeasureAll(InResponses, F),
   reserved_slots |-> MeasureAll(InReserved, F),
   size_bytes     |-> MeasureAll(InSize, F),
   cycles         |-> MeasureAll(InCycles, F)]

OutStats(F) ==
  [message_count |-> MeasureAll(OutCount, F),
   cycles        |-> MeasureAll(OutCycles, F)]

MemoryStats(F) ==
  [responses_size_bytes |-> MeasureAll(ResponsesSize, F),
   reserved_slots       |-> MeasureAll(AllReserved, F),
   oversized_bytes      |-> MeasureAll(Oversized, F)]

InQueues == [queue : Seq(MessageType), num_slots_reserved : Nat]

\* A pair of queues that decoding accepts.
PairOk(pair) ==
  /\ pair \in [inq : InQueues, outq : OutQueues(MessageType)]
  /\ CheckSize(pair.inq)
  /\ CheckSize(pair.outq)
  /\ WellFormed(MessageType, pair.outq)

LEMMA PairFields ==
  ASSUME NEW pair, PairOk(pair)
  PROVE  /\ pair.inq \in InQueues /\ pair.outq \in OutQueues(MessageType)
         /\ pair.inq.queue \in Seq(MessageType) /\ pair.inq.queue \in Seq(Items)
         /\ pair.inq.num_slots_reserved \in Nat
         /\ pair.outq.queue \in Seq(Items) /\ pair.outq.num_slots_reserved \in Nat
         /\ Len(pair.inq.queue) \in Nat /\ Len(pair.outq.queue) \in Nat
         /\ Contents(pair) \in ContentsSet
         /\ Contents(pair).in = pair.inq.queue
         /\ Contents(pair).ri = pair.inq.num_slots_reserved
         /\ Contents(pair).out = pair.outq.queue
         /\ Contents(pair).ro = pair.outq.num_slots_reserved
<1>1. pair.inq \in InQueues /\ pair.outq \in OutQueues(MessageType)
  BY DEF PairOk
<1>2. pair.inq.queue \in Seq(MessageType) /\ pair.inq.num_slots_reserved \in Nat
  BY <1>1 DEF InQueues
<1>3. pair.outq.queue \in Seq(Items) /\ pair.outq.num_slots_reserved \in Nat
  BY <1>1, QueueFields DEF Items
<1>4. pair.inq.queue \in Seq(Items)
  BY <1>2 DEF Items
<1>5. Contents(pair) \in ContentsSet
  BY <1>2, <1>3, <1>4 DEF Contents, ContentsSet
<1>6. /\ Contents(pair).in = pair.inq.queue
      /\ Contents(pair).ri = pair.inq.num_slots_reserved
      /\ Contents(pair).out = pair.outq.queue
      /\ Contents(pair).ro = pair.outq.num_slots_reserved
  BY DEF Contents
<1> QED BY <1>1, <1>2, <1>3, <1>4, <1>5, <1>6

LEMMA TotalIsLength ==
  ASSUME NEW s \in Seq(MessageType)
  PROVE  Total(MessageWeight, s) = Len(s)
<1>1. MessageWeight \in [Items -> {0, 1}] /\ s \in Seq(Items) /\ Len(s) \in Nat
  BY DEF MessageWeight, LiveWeight, Items
<1>2. \A i \in 1 .. Len(s) : MessageWeight[s[i]] = 1
  BY ElementOfSeq, MessageWeights
<1>3. {i \in DOMAIN s : MessageWeight[s[i]] = 1} = 1 .. Len(s)
  BY <1>2
<1>4. Cardinality({i \in DOMAIN s : MessageWeight[s[i]] = 1}) = Total(MessageWeight, s)
  BY <1>1, TotalCounts
<1>5. Cardinality(1 .. Len(s)) = Len(s)
  BY <1>1, FS_Interval
<1> QED BY <1>3, <1>4, <1>5

\* The statistics of the messages of a queue.
LEMMA StatSums ==
  ASSUME NEW s \in Seq(Items)
  PROVE  /\ StatSum(LAMBDA m : IF IsResponse(m) THEN 1 ELSE 0, s) = Total(ResponseWeight, s)
         /\ StatSum(Bytes, s) = Total(BytesWeight, s)
         /\ StatSum(Cycles, s) = Total(CyclesWeight, s)
         /\ StatSum(LAMBDA m : IF IsResponse(m) THEN Bytes(m) ELSE 0, s)
              = Total(ResponseBytesWeight, s)
         /\ StatSum(OversizedBytes, s) = Total(OversizedWeight, s)
<1>1. \A i \in DOMAIN s : s[i] \in Items
  BY ElementOfSeq
<1>2. ~IsResponse(None)
  BY DEF IsResponse
<1>3. StatSum(LAMBDA m : IF IsResponse(m) THEN 1 ELSE 0, s) = Total(ResponseWeight, s)
  <2>1. [i \in DOMAIN s |-> IF s[i] = None THEN 0 ELSE IF IsResponse(s[i]) THEN 1 ELSE 0]
          = [i \in DOMAIN s |-> ResponseWeight[s[i]]]
    BY <1>1, <1>2 DEF ResponseWeight
  <2> QED BY <2>1 DEF StatSum, Total
<1>4. StatSum(Bytes, s) = Total(BytesWeight, s)
  <2>1. [i \in DOMAIN s |-> IF s[i] = None THEN 0 ELSE Bytes(s[i])]
          = [i \in DOMAIN s |-> BytesWeight[s[i]]]
    BY <1>1 DEF BytesWeight
  <2> QED BY <2>1 DEF StatSum, Total
<1>5. StatSum(Cycles, s) = Total(CyclesWeight, s)
  <2>1. [i \in DOMAIN s |-> IF s[i] = None THEN 0 ELSE Cycles(s[i])]
          = [i \in DOMAIN s |-> CyclesWeight[s[i]]]
    BY <1>1 DEF CyclesWeight
  <2> QED BY <2>1 DEF StatSum, Total
<1>6. StatSum(LAMBDA m : IF IsResponse(m) THEN Bytes(m) ELSE 0, s) = Total(ResponseBytesWeight, s)
  <2>1. [i \in DOMAIN s |-> IF s[i] = None THEN 0 ELSE IF IsResponse(s[i]) THEN Bytes(s[i]) ELSE 0]
          = [i \in DOMAIN s |-> ResponseBytesWeight[s[i]]]
    BY <1>1, <1>2 DEF ResponseBytesWeight
  <2> QED BY <2>1 DEF StatSum, Total
<1>7. StatSum(OversizedBytes, s) = Total(OversizedWeight, s)
  <2>1. [i \in DOMAIN s |-> IF s[i] = None THEN 0 ELSE OversizedBytes(s[i])]
          = [i \in DOMAIN s |-> OversizedWeight[s[i]]]
    BY <1>1 DEF OversizedWeight
  <2> QED BY <2>1 DEF StatSum, Total
<1> QED BY <1>3, <1>4, <1>5, <1>6, <1>7

\* Queue maps, as the record CanisterQueues has them.
QueueMap(Q) ==
  /\ DOMAIN Q \subseteq Canisters
  /\ IsFiniteSet(DOMAIN Q)
  /\ Q = [id \in DOMAIN Q |-> Q[id]]
  /\ \A id \in DOMAIN Q : PairOk(Q[id])

LEMMA ContentsOfMap ==
  ASSUME NEW Q, QueueMap(Q)
  PROVE  /\ AllContents(Q) \in [DOMAIN Q -> ContentsSet]
         /\ \A id \in DOMAIN Q : AllContents(Q)[id] = Contents(Q[id])
<1>1. \A id \in DOMAIN Q : Contents(Q[id]) \in ContentsSet
  BY PairFields DEF QueueMap
<1> QED BY <1>1 DEF AllContents

\* The statistics computed from scratch are measures.
LEMMA CalculatedStats ==
  ASSUME NEW Q, QueueMap(Q)
  PROVE  /\ CalculateInputQueuesStats(Q) = InStats(AllContents(Q))
         /\ CalculateOutputQueuesStats(Q) = OutStats(AllContents(Q))
         /\ CalculateMemoryUsageStats(Q) = MemoryStats(AllContents(Q))
<1> DEFINE F == AllContents(Q)
           D == DOMAIN Q
<1>1. F \in [D -> ContentsSet] /\ DOMAIN F = D /\ \A id \in D : F[id] = Contents(Q[id])
  BY ContentsOfMap
<1>2. ASSUME NEW id \in D
      PROVE  /\ Measure(InCount, F[id]) = Len(Q[id].inq.queue)
             /\ Measure(InResponses, F[id])
                  = StatSum(LAMBDA m : IF IsResponse(m) THEN 1 ELSE 0, Q[id].inq.queue)
             /\ Measure(InReserved, F[id]) = Q[id].inq.num_slots_reserved
             /\ Measure(InSize, F[id]) = EMPTY_QUEUE_BYTES + StatSum(Bytes, Q[id].inq.queue)
             /\ Measure(InCycles, F[id]) = StatSum(Cycles, Q[id].inq.queue)
             /\ Measure(OutCount, F[id]) = Q[id].outq.num_messages
             /\ Measure(OutCycles, F[id]) = StatSum(Cycles, Q[id].outq.queue)
             /\ Measure(ResponsesSize, F[id])
                  = StatSum(LAMBDA m : IF IsResponse(m) THEN Bytes(m) ELSE 0, Q[id].inq.queue)
                      + StatSum(LAMBDA m : IF IsResponse(m) THEN Bytes(m) ELSE 0, Q[id].outq.queue)
             /\ Measure(AllReserved, F[id])
                  = Q[id].inq.num_slots_reserved + Q[id].outq.num_slots_reserved
             /\ Measure(Oversized, F[id])
                  = StatSum(OversizedBytes, Q[id].inq.queue)
                      + StatSum(OversizedBytes, Q[id].outq.queue)
  <2>1. PairOk(Q[id])
    BY DEF QueueMap
  <2>2. /\ Q[id].inq.queue \in Seq(MessageType) /\ Q[id].inq.queue \in Seq(Items)
        /\ Q[id].outq.queue \in Seq(Items) /\ Q[id].outq \in OutQueues(MessageType)
        /\ F[id] \in ContentsSet
        /\ F[id].in = Q[id].inq.queue /\ F[id].ri = Q[id].inq.num_slots_reserved
        /\ F[id].out = Q[id].outq.queue /\ F[id].ro = Q[id].outq.num_slots_reserved
    BY <2>1, <1>1, PairFields
  <2>3. Total(MessageWeight, Q[id].inq.queue) = Len(Q[id].inq.queue)
    BY <2>2, TotalIsLength
  <2>4. Total(MessageWeight, Q[id].outq.queue) = Q[id].outq.num_messages
    <3>1. Q[id].outq.num_messages = Cardinality(Live(Q[id].outq))
      BY <2>1 DEF PairOk, WellFormed, TestInvariants, MessageCountOk
    <3> QED BY <3>1, <2>2, LiveCount DEF MessageWeight
  <2> HIDE DEF F
  <2>5. /\ Measure(InCount, F[id]) = Total(MessageWeight, Q[id].inq.queue)
        /\ Measure(InResponses, F[id]) = Total(ResponseWeight, Q[id].inq.queue)
        /\ Measure(InReserved, F[id]) = Q[id].inq.num_slots_reserved
        /\ Measure(InSize, F[id]) = EMPTY_QUEUE_BYTES + Total(BytesWeight, Q[id].inq.queue)
        /\ Measure(InCycles, F[id]) = Total(CyclesWeight, Q[id].inq.queue)
        /\ Measure(OutCount, F[id]) = Total(MessageWeight, Q[id].outq.queue)
        /\ Measure(OutCycles, F[id]) = Total(CyclesWeight, Q[id].outq.queue)
        /\ Measure(ResponsesSize, F[id]) = Total(ResponseBytesWeight, Q[id].inq.queue)
                                             + Total(ResponseBytesWeight, Q[id].outq.queue)
        /\ Measure(AllReserved, F[id])
             = Q[id].inq.num_slots_reserved + Q[id].outq.num_slots_reserved
        /\ Measure(Oversized, F[id])
             = Total(OversizedWeight, Q[id].inq.queue) + Total(OversizedWeight, Q[id].outq.queue)
    BY <2>2, MeasuresOf
  <2>6. /\ StatSum(LAMBDA m : IF IsResponse(m) THEN 1 ELSE 0, Q[id].inq.queue)
             = Total(ResponseWeight, Q[id].inq.queue)
        /\ StatSum(Bytes, Q[id].inq.queue) = Total(BytesWeight, Q[id].inq.queue)
        /\ StatSum(Cycles, Q[id].inq.queue) = Total(CyclesWeight, Q[id].inq.queue)
        /\ StatSum(LAMBDA m : IF IsResponse(m) THEN Bytes(m) ELSE 0, Q[id].inq.queue)
             = Total(ResponseBytesWeight, Q[id].inq.queue)
        /\ StatSum(OversizedBytes, Q[id].inq.queue) = Total(OversizedWeight, Q[id].inq.queue)
    BY <2>2, StatSums
  <2>7. /\ StatSum(Cycles, Q[id].outq.queue) = Total(CyclesWeight, Q[id].outq.queue)
        /\ StatSum(LAMBDA m : IF IsResponse(m) THEN Bytes(m) ELSE 0, Q[id].outq.queue)
             = Total(ResponseBytesWeight, Q[id].outq.queue)
        /\ StatSum(OversizedBytes, Q[id].outq.queue) = Total(OversizedWeight, Q[id].outq.queue)
    BY <2>2, StatSums
  <2> QED BY <2>3, <2>4, <2>5, <2>6, <2>7
<1> HIDE DEF F
<1>3. CalculateInputQueuesStats(Q) = InStats(F)
  <2>1. [id \in D |-> Len(Q[id].inq.queue)] = [id \in D |-> Measure(InCount, F[id])]
    BY <1>2
  <2>2. [id \in D |-> StatSum(LAMBDA m : IF IsResponse(m) THEN 1 ELSE 0, Q[id].inq.queue)]
          = [id \in D |-> Measure(InResponses, F[id])]
    BY <1>2
  <2>3. [id \in D |-> Q[id].inq.num_slots_reserved] = [id \in D |-> Measure(InReserved, F[id])]
    BY <1>2
  <2>4. [id \in D |-> EMPTY_QUEUE_BYTES + StatSum(Bytes, Q[id].inq.queue)]
          = [id \in D |-> Measure(InSize, F[id])]
    BY <1>2
  <2>5. [id \in D |-> StatSum(Cycles, Q[id].inq.queue)] = [id \in D |-> Measure(InCycles, F[id])]
    BY <1>2
  <2> QED
    BY <1>1, <2>1, <2>2, <2>3, <2>4, <2>5 DEF CalculateInputQueuesStats, InStats, MeasureAll
<1>4. CalculateOutputQueuesStats(Q) = OutStats(F)
  <2>1. [id \in D |-> Q[id].outq.num_messages] = [id \in D |-> Measure(OutCount, F[id])]
    BY <1>2
  <2>2. [id \in D |-> StatSum(Cycles, Q[id].outq.queue)]
          = [id \in D |-> Measure(OutCycles, F[id])]
    BY <1>2
  <2> QED BY <1>1, <2>1, <2>2 DEF CalculateOutputQueuesStats, OutStats, MeasureAll
<1>5. CalculateMemoryUsageStats(Q) = MemoryStats(F)
  <2>1. [id \in D |-> StatSum(LAMBDA m : IF IsResponse(m) THEN Bytes(m) ELSE 0, Q[id].inq.queue)
                        + StatSum(LAMBDA m : IF IsResponse(m) THEN Bytes(m) ELSE 0,
                                  Q[id].outq.queue)]
          = [id \in D |-> Measure(ResponsesSize, F[id])]
    BY <1>2
  <2>2. [id \in D |-> Q[id].inq.num_slots_reserved + Q[id].outq.num_slots_reserved]
          = [id \in D |-> Measure(AllReserved, F[id])]
    BY <1>2
  <2>3. [id \in D |-> StatSum(OversizedBytes, Q[id].inq.queue)
                        + StatSum(OversizedBytes, Q[id].outq.queue)]
          = [id \in D |-> Measure(Oversized, F[id])]
    BY <1>2
  <2> QED BY <1>1, <2>1, <2>2, <2>3 DEF CalculateMemoryUsageStats, MemoryStats, MeasureAll
<1> QED BY <1>3, <1>4, <1>5 DEF F

-----------------------------------------------------------------------------
(* How the statistics follow a change in one pair. *)

\* G differs from F in the contents of pair x only.
Changed(D, F, G, x) ==
  /\ IsFiniteSet(D) /\ x \in D
  /\ F \in [D -> ContentsSet] /\ G \in [D -> ContentsSet]
  /\ \A id \in D \ {x} : G[id] = F[id]

\* t has message msg more than s.
OneMore(s, t, msg) ==
  \A w \in Weighings(MessageType) : Total(w, t) = Total(w, s) + w[msg]

SameTotals(s, t) == \A w \in Weighings(MessageType) : Total(w, t) = Total(w, s)

LEMMA MeasureAllType ==
  ASSUME NEW D, IsFiniteSet(D), NEW F \in [D -> ContentsSet]
  PROVE  /\ MeasureAll(InCount, F) \in Nat /\ MeasureAll(InResponses, F) \in Nat
         /\ MeasureAll(InReserved, F) \in Nat /\ MeasureAll(InSize, F) \in Nat
         /\ MeasureAll(InCycles, F) \in Nat /\ MeasureAll(OutCount, F) \in Nat
         /\ MeasureAll(OutCycles, F) \in Nat /\ MeasureAll(ResponsesSize, F) \in Nat
         /\ MeasureAll(AllReserved, F) \in Nat /\ MeasureAll(Oversized, F) \in Nat
<1>1. \A m \in Measures : MeasureAll(m, F) \in Nat
  BY MeasureAllIsSum
<1>2. /\ InCount \in Measures /\ InResponses \in Measures /\ InReserved \in Measures
      /\ InSize \in Measures /\ InCycles \in Measures /\ OutCount \in Measures
      /\ OutCycles \in Measures /\ ResponsesSize \in Measures /\ AllReserved \in Measures
      /\ Oversized \in Measures
  BY MeasuresDefined
<1> QED BY <1>1, <1>2

LEMMA TotalsType ==
  ASSUME NEW s \in Seq(Items)
  PROVE  /\ Total(MessageWeight, s) \in Nat /\ Total(ResponseWeight, s) \in Nat
         /\ Total(RequestWeight, s) \in Nat
         /\ Total(BytesWeight, s) \in Nat /\ Total(CyclesWeight, s) \in Nat
         /\ Total(ResponseBytesWeight, s) \in Nat /\ Total(OversizedWeight, s) \in Nat
<1>1. \A w \in Weighings(MessageType) : w \in [Items -> Nat]
  BY DEF Weighings, Items
<1>2. \A w \in Weighings(MessageType) : Total(w, s) \in Nat
  BY <1>1, TotalType
<1> QED BY <1>2, WeightsAreWeighings

\* The change of every statistic.
LEMMA StatsChange ==
  ASSUME NEW D, NEW F, NEW G, NEW x, Changed(D, F, G, x)
  PROVE  /\ MeasureAll(InCount, G) = MeasureAll(InCount, F)
              + Total(MessageWeight, G[x].in) - Total(MessageWeight, F[x].in)
         /\ MeasureAll(InResponses, G) = MeasureAll(InResponses, F)
              + Total(ResponseWeight, G[x].in) - Total(ResponseWeight, F[x].in)
         /\ MeasureAll(InReserved, G) = MeasureAll(InReserved, F) + G[x].ri - F[x].ri
         /\ MeasureAll(InSize, G) = MeasureAll(InSize, F)
              + Total(BytesWeight, G[x].in) - Total(BytesWeight, F[x].in)
         /\ MeasureAll(InCycles, G) = MeasureAll(InCycles, F)
              + Total(CyclesWeight, G[x].in) - Total(CyclesWeight, F[x].in)
         /\ MeasureAll(OutCount, G) = MeasureAll(OutCount, F)
              + Total(MessageWeight, G[x].out) - Total(MessageWeight, F[x].out)
         /\ MeasureAll(OutCycles, G) = MeasureAll(OutCycles, F)
              + Total(CyclesWeight, G[x].out) - Total(CyclesWeight, F[x].out)
         /\ MeasureAll(ResponsesSize, G) = MeasureAll(ResponsesSize, F)
              + (Total(ResponseBytesWeight, G[x].in) + Total(ResponseBytesWeight, G[x].out))
              - (Total(ResponseBytesWeight, F[x].in) + Total(ResponseBytesWeight, F[x].out))
         /\ MeasureAll(AllReserved, G) = MeasureAll(AllReserved, F)
              + (G[x].ri + G[x].ro) - (F[x].ri + F[x].ro)
         /\ MeasureAll(Oversized, G) = MeasureAll(Oversized, F)
              + (Total(OversizedWeight, G[x].in) + Total(OversizedWeight, G[x].out))
              - (Total(OversizedWeight, F[x].in) + Total(OversizedWeight, F[x].out))
<1>1. \A m \in Measures :
        MeasureAll(m, G) = MeasureAll(m, F) + Measure(m, G[x]) - Measure(m, F[x])
  BY MeasureUpdate DEF Changed
<1>2. /\ InCount \in Measures /\ InResponses \in Measures /\ InReserved \in Measures
      /\ InSize \in Measures /\ InCycles \in Measures /\ OutCount \in Measures
      /\ OutCycles \in Measures /\ ResponsesSize \in Measures /\ AllReserved \in Measures
      /\ Oversized \in Measures
  BY MeasuresDefined
<1>3. F[x] \in ContentsSet /\ G[x] \in ContentsSet
  BY DEF Changed
<1>4. EMPTY_QUEUE_BYTES \in Nat
  BY CanisterQueuesAssumption
<1>5. Total(BytesWeight, G[x].in) \in Nat /\ Total(BytesWeight, F[x].in) \in Nat
  BY <1>3, TotalsType DEF ContentsSet
<1>6. MeasureAll(InSize, F) \in Nat
  BY MeasureAllType DEF Changed
<1>7. /\ Measure(InSize, F[x]) = EMPTY_QUEUE_BYTES + Total(BytesWeight, F[x].in)
      /\ Measure(InSize, G[x]) = EMPTY_QUEUE_BYTES + Total(BytesWeight, G[x].in)
  BY <1>3, MeasuresOf
<1>8. MeasureAll(InSize, G) = MeasureAll(InSize, F)
              + Total(BytesWeight, G[x].in) - Total(BytesWeight, F[x].in)
  BY <1>1, <1>2, <1>4, <1>5, <1>6, <1>7
<1> QED BY <1>1, <1>2, <1>3, <1>8, MeasuresOf

LEMMA WeightsIn ==
  /\ NoWeight \in Weighings(MessageType) /\ MessageWeight \in Weighings(MessageType)
  /\ RequestWeight \in Weighings(MessageType)
  /\ ResponseWeight \in Weighings(MessageType) /\ BytesWeight \in Weighings(MessageType)
  /\ CyclesWeight \in Weighings(MessageType) /\ OversizedWeight \in Weighings(MessageType)
  /\ ResponseBytesWeight \in Weighings(MessageType)
BY WeightsAreWeighings

LEMMA OneMoreTotals ==
  ASSUME NEW s \in Seq(Items), NEW t \in Seq(Items), NEW msg \in MessageType, OneMore(s, t, msg)
  PROVE  /\ Total(MessageWeight, t) = Total(MessageWeight, s) + 1
         /\ Total(RequestWeight, t) = Total(RequestWeight, s) + (IF IsRequest(msg) THEN 1 ELSE 0)
         /\ Total(ResponseWeight, t) = Total(ResponseWeight, s) + (IF IsResponse(msg) THEN 1 ELSE 0)
         /\ Total(BytesWeight, t) = Total(BytesWeight, s) + Bytes(msg)
         /\ Total(CyclesWeight, t) = Total(CyclesWeight, s) + Cycles(msg)
         /\ Total(ResponseBytesWeight, t)
              = Total(ResponseBytesWeight, s) + (IF IsResponse(msg) THEN Bytes(msg) ELSE 0)
         /\ Total(OversizedWeight, t) = Total(OversizedWeight, s) + OversizedBytes(msg)
BY WeightsIn, MessageWeights DEF OneMore

LEMMA SameTotalsFacts ==
  ASSUME NEW s, NEW t, SameTotals(s, t)
  PROVE  /\ Total(MessageWeight, t) = Total(MessageWeight, s)
         /\ Total(RequestWeight, t) = Total(RequestWeight, s)
         /\ Total(ResponseWeight, t) = Total(ResponseWeight, s)
         /\ Total(BytesWeight, t) = Total(BytesWeight, s)
         /\ Total(CyclesWeight, t) = Total(CyclesWeight, s)
         /\ Total(ResponseBytesWeight, t) = Total(ResponseBytesWeight, s)
         /\ Total(OversizedWeight, t) = Total(OversizedWeight, s)
BY WeightsIn DEF SameTotals

LEMMA ChangedTypes ==
  ASSUME NEW D, NEW F, NEW G, NEW x, Changed(D, F, G, x)
  PROVE  /\ F[x] \in ContentsSet /\ G[x] \in ContentsSet
         /\ F[x].in \in Seq(Items) /\ F[x].out \in Seq(Items)
         /\ G[x].in \in Seq(Items) /\ G[x].out \in Seq(Items)
         /\ F[x].ri \in Nat /\ F[x].ro \in Nat /\ G[x].ri \in Nat /\ G[x].ro \in Nat
<1>1. F[x] \in ContentsSet /\ G[x] \in ContentsSet
  BY DEF Changed
<1> QED BY <1>1 DEF ContentsSet

\* The changes of the statistics that go with a change of contents f into g.
InDeltas == [message_count : Int, response_count : Int, reserved_slots : Int,
             size_bytes : Int, cycles : Int]
OutDeltas == [message_count : Int, cycles : Int]
MemoryDeltas == [responses_size_bytes : Int, reserved_slots : Int, oversized_bytes : Int]

InFits(f, g, d) ==
  /\ d \in InDeltas
  /\ Total(MessageWeight, g.in) = Total(MessageWeight, f.in) + d.message_count
  /\ Total(ResponseWeight, g.in) = Total(ResponseWeight, f.in) + d.response_count
  /\ g.ri = f.ri + d.reserved_slots
  /\ Total(BytesWeight, g.in) = Total(BytesWeight, f.in) + d.size_bytes
  /\ Total(CyclesWeight, g.in) = Total(CyclesWeight, f.in) + d.cycles

OutFits(f, g, d) ==
  /\ d \in OutDeltas
  /\ Total(MessageWeight, g.out) = Total(MessageWeight, f.out) + d.message_count
  /\ Total(CyclesWeight, g.out) = Total(CyclesWeight, f.out) + d.cycles

MemoryFits(f, g, d) ==
  /\ d \in MemoryDeltas
  /\ Total(ResponseBytesWeight, g.in) + Total(ResponseBytesWeight, g.out)
       = Total(ResponseBytesWeight, f.in) + Total(ResponseBytesWeight, f.out)
           + d.responses_size_bytes
  /\ g.ri + g.ro = f.ri + f.ro + d.reserved_slots
  /\ Total(OversizedWeight, g.in) + Total(OversizedWeight, g.out)
       = Total(OversizedWeight, f.in) + Total(OversizedWeight, f.out) + d.oversized_bytes

\* The statistics follow.
LEMMA InStatsPlus ==
  ASSUME NEW D, NEW F, NEW G, NEW x, Changed(D, F, G, x), NEW d, InFits(F[x], G[x], d)
  PROVE  InStats(G) = Plus(InStats(F), d)
<1>1. F[x].in \in Seq(Items) /\ F[x].ri \in Nat
  BY ChangedTypes
<1>2. /\ Total(MessageWeight, F[x].in) \in Nat /\ Total(ResponseWeight, F[x].in) \in Nat
      /\ Total(BytesWeight, F[x].in) \in Nat /\ Total(CyclesWeight, F[x].in) \in Nat
  BY <1>1, TotalsType
<1>3. /\ MeasureAll(InCount, F) \in Nat /\ MeasureAll(InResponses, F) \in Nat
      /\ MeasureAll(InReserved, F) \in Nat /\ MeasureAll(InSize, F) \in Nat
      /\ MeasureAll(InCycles, F) \in Nat
  BY MeasureAllType DEF Changed
<1>4. PICK a1 \in Int, a2 \in Int, a3 \in Int, a4 \in Int, a5 \in Int :
        d = [message_count |-> a1, response_count |-> a2, reserved_slots |-> a3,
             size_bytes |-> a4, cycles |-> a5]
  BY DEF InFits, InDeltas
<1>5. /\ Total(MessageWeight, G[x].in) = Total(MessageWeight, F[x].in) + a1
      /\ Total(ResponseWeight, G[x].in) = Total(ResponseWeight, F[x].in) + a2
      /\ G[x].ri = F[x].ri + a3
      /\ Total(BytesWeight, G[x].in) = Total(BytesWeight, F[x].in) + a4
      /\ Total(CyclesWeight, G[x].in) = Total(CyclesWeight, F[x].in) + a5
  BY <1>4 DEF InFits
<1>6. MeasureAll(InCount, G) = MeasureAll(InCount, F) + a1
  <2>1. MeasureAll(InCount, G) = MeasureAll(InCount, F)
              + Total(MessageWeight, G[x].in) - Total(MessageWeight, F[x].in)
    BY StatsChange
  <2> QED BY <2>1, <1>2, <1>3, <1>5
<1>7. MeasureAll(InResponses, G) = MeasureAll(InResponses, F) + a2
  <2>1. MeasureAll(InResponses, G) = MeasureAll(InResponses, F)
              + Total(ResponseWeight, G[x].in) - Total(ResponseWeight, F[x].in)
    BY StatsChange
  <2> QED BY <2>1, <1>2, <1>3, <1>5
<1>8. MeasureAll(InReserved, G) = MeasureAll(InReserved, F) + a3
  <2>1. MeasureAll(InReserved, G) = MeasureAll(InReserved, F) + G[x].ri - F[x].ri
    BY StatsChange
  <2>2. F[x].ri \in Nat /\ G[x].ri = F[x].ri + a3
    BY <1>1, <1>5
  <2> QED BY <2>1, <2>2, <1>3
<1>9. MeasureAll(InSize, G) = MeasureAll(InSize, F) + a4
  <2>1. MeasureAll(InSize, G) = MeasureAll(InSize, F)
              + Total(BytesWeight, G[x].in) - Total(BytesWeight, F[x].in)
    BY StatsChange
  <2> QED BY <2>1, <1>2, <1>3, <1>5
<1>10. MeasureAll(InCycles, G) = MeasureAll(InCycles, F) + a5
  <2>1. MeasureAll(InCycles, G) = MeasureAll(InCycles, F)
              + Total(CyclesWeight, G[x].in) - Total(CyclesWeight, F[x].in)
    BY StatsChange
  <2> QED BY <2>1, <1>2, <1>3, <1>5
<1> QED BY <1>4, <1>6, <1>7, <1>8, <1>9, <1>10 DEF InStats, Plus

LEMMA OutStatsPlus ==
  ASSUME NEW D, NEW F, NEW G, NEW x, Changed(D, F, G, x), NEW d, OutFits(F[x], G[x], d)
  PROVE  OutStats(G) = Plus(OutStats(F), d)
<1>1. F[x].out \in Seq(Items)
  BY ChangedTypes
<1>2. Total(MessageWeight, F[x].out) \in Nat /\ Total(CyclesWeight, F[x].out) \in Nat
  BY <1>1, TotalsType
<1>3. MeasureAll(OutCount, F) \in Nat /\ MeasureAll(OutCycles, F) \in Nat
  BY MeasureAllType DEF Changed
<1>4. PICK b1 \in Int, b2 \in Int : d = [message_count |-> b1, cycles |-> b2]
  BY DEF OutFits, OutDeltas
<1>5. /\ Total(MessageWeight, G[x].out) = Total(MessageWeight, F[x].out) + b1
      /\ Total(CyclesWeight, G[x].out) = Total(CyclesWeight, F[x].out) + b2
  BY <1>4 DEF OutFits
<1>6. MeasureAll(OutCount, G) = MeasureAll(OutCount, F) + b1
  <2>1. MeasureAll(OutCount, G) = MeasureAll(OutCount, F)
              + Total(MessageWeight, G[x].out) - Total(MessageWeight, F[x].out)
    BY StatsChange
  <2> QED BY <2>1, <1>2, <1>3, <1>5
<1>7. MeasureAll(OutCycles, G) = MeasureAll(OutCycles, F) + b2
  <2>1. MeasureAll(OutCycles, G) = MeasureAll(OutCycles, F)
              + Total(CyclesWeight, G[x].out) - Total(CyclesWeight, F[x].out)
    BY StatsChange
  <2> QED BY <2>1, <1>2, <1>3, <1>5
<1> QED BY <1>4, <1>6, <1>7 DEF OutStats, Plus

LEMMA MemoryStatsPlus ==
  ASSUME NEW D, NEW F, NEW G, NEW x, Changed(D, F, G, x), NEW d, MemoryFits(F[x], G[x], d)
  PROVE  MemoryStats(G) = Plus(MemoryStats(F), d)
<1>1. F[x].in \in Seq(Items) /\ F[x].out \in Seq(Items) /\ F[x].ri \in Nat /\ F[x].ro \in Nat
  BY ChangedTypes
<1>2. /\ Total(ResponseBytesWeight, F[x].in) \in Nat /\ Total(OversizedWeight, F[x].in) \in Nat
      /\ Total(ResponseBytesWeight, F[x].out) \in Nat /\ Total(OversizedWeight, F[x].out) \in Nat
  BY <1>1, TotalsType
<1>3. /\ MeasureAll(ResponsesSize, F) \in Nat
      /\ MeasureAll(AllReserved, F) \in Nat /\ MeasureAll(Oversized, F) \in Nat
  BY MeasureAllType DEF Changed
<1>4. PICK c1 \in Int, c2 \in Int, c3 \in Int :
        d = [responses_size_bytes |-> c1, reserved_slots |-> c2, oversized_bytes |-> c3]
  BY DEF MemoryFits, MemoryDeltas
<1>5. /\ Total(ResponseBytesWeight, G[x].in) + Total(ResponseBytesWeight, G[x].out)
           = Total(ResponseBytesWeight, F[x].in) + Total(ResponseBytesWeight, F[x].out) + c1
      /\ G[x].ri + G[x].ro = F[x].ri + F[x].ro + c2
      /\ Total(OversizedWeight, G[x].in) + Total(OversizedWeight, G[x].out)
           = Total(OversizedWeight, F[x].in) + Total(OversizedWeight, F[x].out) + c3
  BY <1>4 DEF MemoryFits
<1>6. MeasureAll(ResponsesSize, G) = MeasureAll(ResponsesSize, F) + c1
  <2>1. MeasureAll(ResponsesSize, G) = MeasureAll(ResponsesSize, F)
              + (Total(ResponseBytesWeight, G[x].in) + Total(ResponseBytesWeight, G[x].out))
              - (Total(ResponseBytesWeight, F[x].in) + Total(ResponseBytesWeight, F[x].out))
    BY StatsChange
  <2> QED BY <2>1, <1>2, <1>3, <1>5
<1>7. MeasureAll(AllReserved, G) = MeasureAll(AllReserved, F) + c2
  <2>1. MeasureAll(AllReserved, G) = MeasureAll(AllReserved, F)
              + (G[x].ri + G[x].ro) - (F[x].ri + F[x].ro)
    BY StatsChange
  <2>2. F[x].ri \in Nat /\ F[x].ro \in Nat
    BY <1>1
  <2> QED BY <2>1, <2>2, <1>3, <1>5
<1>8. MeasureAll(Oversized, G) = MeasureAll(Oversized, F) + c3
  <2>1. MeasureAll(Oversized, G) = MeasureAll(Oversized, F)
              + (Total(OversizedWeight, G[x].in) + Total(OversizedWeight, G[x].out))
              - (Total(OversizedWeight, F[x].in) + Total(OversizedWeight, F[x].out))
    BY StatsChange
  <2> QED BY <2>1, <1>2, <1>3, <1>5
<1> QED BY <1>4, <1>6, <1>7, <1>8 DEF MemoryStats, Plus

\* The types of the statistics and of the deltas.
LEMMA StatsType ==
  ASSUME NEW D, IsFiniteSet(D), NEW F \in [D -> ContentsSet]
  PROVE  /\ InStats(F) \in [message_count : Nat, response_count : Nat, reserved_slots : Nat,
                            size_bytes : Nat, cycles : Nat]
         /\ OutStats(F) \in [message_count : Nat, cycles : Nat]
         /\ MemoryStats(F) \in [responses_size_bytes : Nat, reserved_slots : Nat,
                                oversized_bytes : Nat]
         /\ InStats(F) \in InDeltas /\ OutStats(F) \in OutDeltas /\ MemoryStats(F) \in MemoryDeltas
BY MeasureAllType DEF InStats, OutStats, MemoryStats, InDeltas, OutDeltas, MemoryDeltas

\* Taking away what adding brought.
LEMMA TakeAway ==
  /\ \A s, d \in InDeltas : Minus(Plus(s, d), d) = s
  /\ \A s, d \in OutDeltas : Minus(Plus(s, d), d) = s
  /\ \A s, d \in MemoryDeltas : Minus(Plus(s, d), d) = s
<1>1. ASSUME NEW s \in InDeltas, NEW d \in InDeltas PROVE Minus(Plus(s, d), d) = s
  BY DEF InDeltas, Plus, Minus
<1>2. ASSUME NEW s \in OutDeltas, NEW d \in OutDeltas PROVE Minus(Plus(s, d), d) = s
  BY DEF OutDeltas, Plus, Minus
<1>3. ASSUME NEW s \in MemoryDeltas, NEW d \in MemoryDeltas PROVE Minus(Plus(s, d), d) = s
  BY DEF MemoryDeltas, Plus, Minus
<1> QED BY <1>1, <1>2, <1>3

LEMMA ChangedBack ==
  ASSUME NEW D, NEW F, NEW G, NEW x, Changed(D, F, G, x)
  PROVE  Changed(D, G, F, x)
BY DEF Changed

LEMMA StatsMinus ==
  ASSUME NEW D, NEW F, NEW G, NEW x, Changed(D, F, G, x)
  PROVE  /\ \A d : InFits(G[x], F[x], d) => InStats(G) = Minus(InStats(F), d)
         /\ \A d : OutFits(G[x], F[x], d) => OutStats(G) = Minus(OutStats(F), d)
         /\ \A d : MemoryFits(G[x], F[x], d) => MemoryStats(G) = Minus(MemoryStats(F), d)
<1>1. Changed(D, G, F, x)
  BY ChangedBack
<1>2. InStats(G) \in InDeltas /\ OutStats(G) \in OutDeltas /\ MemoryStats(G) \in MemoryDeltas
  BY StatsType DEF Changed
<1>3. ASSUME NEW d, InFits(G[x], F[x], d) PROVE InStats(G) = Minus(InStats(F), d)
  <2>1. InStats(F) = Plus(InStats(G), d)
    BY <1>1, <1>3, InStatsPlus
  <2>2. d \in InDeltas
    BY <1>3 DEF InFits
  <2> QED BY <1>2, <2>1, <2>2, TakeAway
<1>4. ASSUME NEW d, OutFits(G[x], F[x], d) PROVE OutStats(G) = Minus(OutStats(F), d)
  <2>1. OutStats(F) = Plus(OutStats(G), d)
    BY <1>1, <1>4, OutStatsPlus
  <2>2. d \in OutDeltas
    BY <1>4 DEF OutFits
  <2> QED BY <1>2, <2>1, <2>2, TakeAway
<1>5. ASSUME NEW d, MemoryFits(G[x], F[x], d) PROVE MemoryStats(G) = Minus(MemoryStats(F), d)
  <2>1. MemoryStats(F) = Plus(MemoryStats(G), d)
    BY <1>1, <1>5, MemoryStatsPlus
  <2>2. d \in MemoryDeltas
    BY <1>5 DEF MemoryFits
  <2> QED BY <1>2, <2>1, <2>2, TakeAway
<1> QED BY <1>3, <1>4, <1>5

\* The deltas of the code, with numbers for their conditions.
LEMMA Deltas ==
  ASSUME NEW msg \in MessageType
  PROVE  \E one \in {0, 1}, rb \in Nat :
           /\ one = IF IsResponse(msg) THEN 1 ELSE 0
           /\ one = IF IsRequest(msg) THEN 0 ELSE 1
           /\ rb = IF IsResponse(msg) THEN Bytes(msg) ELSE 0
           /\ InputQueuesStatsDelta("Push", msg)
                = [message_count |-> 1, response_count |-> one, reserved_slots |-> 0 - one,
                   size_bytes |-> Bytes(msg), cycles |-> Cycles(msg)]
           /\ InputQueuesStatsDelta("Pop", msg)
                = [message_count |-> 1, response_count |-> one, reserved_slots |-> 0,
                   size_bytes |-> Bytes(msg), cycles |-> Cycles(msg)]
           /\ OutputQueuesStatsDelta(msg) = [message_count |-> 1, cycles |-> Cycles(msg)]
           /\ MemoryUsageStatsDelta("Push", msg)
                = [responses_size_bytes |-> rb, reserved_slots |-> 1 - 2 * one,
                   oversized_bytes |-> OversizedBytes(msg)]
           /\ MemoryUsageStatsDelta("Pop", msg)
                = [responses_size_bytes |-> rb, reserved_slots |-> 0,
                   oversized_bytes |-> OversizedBytes(msg)]
<1>1. Bytes(msg) \in Nat /\ (IsRequest(msg) <=> ~IsResponse(msg))
  BY MessageFacts
<1>2. CASE IsResponse(msg)
  <2>1. ~IsRequest(msg)
    BY <1>1, <1>2
  <2> Bytes(msg) \in Nat
    BY <1>1
  <2>2. WITNESS 1 \in {0, 1}, Bytes(msg) \in Nat
  <2> QED BY <1>2, <2>1
          DEF InputQueuesStatsDelta, OutputQueuesStatsDelta, MemoryUsageStatsDelta
<1>3. CASE ~IsResponse(msg)
  <2>1. IsRequest(msg)
    BY <1>1, <1>3
  <2>2. WITNESS 0 \in {0, 1}, 0 \in Nat
  <2> QED BY <1>3, <2>1
          DEF InputQueuesStatsDelta, OutputQueuesStatsDelta, MemoryUsageStatsDelta
<1> QED BY <1>2, <1>3

\* f and g have the same messages in their input, or output, queues.
LEMMA StatsSame ==
  ASSUME NEW D, NEW F, NEW G, NEW x, Changed(D, F, G, x)
  PROVE  /\ SameTotals(F[x].in, G[x].in) /\ G[x].ri = F[x].ri => InStats(G) = InStats(F)
         /\ SameTotals(F[x].out, G[x].out) => OutStats(G) = OutStats(F)
<1>1. F[x].in \in Seq(Items) /\ F[x].out \in Seq(Items)
  BY ChangedTypes
<1>2. /\ MeasureAll(InCount, F) \in Nat /\ MeasureAll(InResponses, F) \in Nat
      /\ MeasureAll(InReserved, F) \in Nat /\ MeasureAll(InSize, F) \in Nat
      /\ MeasureAll(InCycles, F) \in Nat /\ MeasureAll(OutCount, F) \in Nat
      /\ MeasureAll(OutCycles, F) \in Nat
  BY MeasureAllType DEF Changed
<1>3. /\ Total(MessageWeight, F[x].in) \in Nat /\ Total(ResponseWeight, F[x].in) \in Nat
      /\ Total(BytesWeight, F[x].in) \in Nat /\ Total(CyclesWeight, F[x].in) \in Nat
  BY <1>1, TotalsType
<1>4. /\ Total(MessageWeight, F[x].out) \in Nat /\ Total(CyclesWeight, F[x].out) \in Nat
  BY <1>1, TotalsType
<1>5. F[x].ri \in Nat
  BY ChangedTypes
<1>6. ASSUME SameTotals(F[x].in, G[x].in), G[x].ri = F[x].ri PROVE InStats(G) = InStats(F)
  <2>1. /\ Total(MessageWeight, G[x].in) = Total(MessageWeight, F[x].in)
        /\ Total(ResponseWeight, G[x].in) = Total(ResponseWeight, F[x].in)
        /\ Total(BytesWeight, G[x].in) = Total(BytesWeight, F[x].in)
        /\ Total(CyclesWeight, G[x].in) = Total(CyclesWeight, F[x].in)
    BY <1>6, SameTotalsFacts
  <2>2. /\ MeasureAll(InCount, G) = MeasureAll(InCount, F)
              + Total(MessageWeight, G[x].in) - Total(MessageWeight, F[x].in)
        /\ MeasureAll(InResponses, G) = MeasureAll(InResponses, F)
              + Total(ResponseWeight, G[x].in) - Total(ResponseWeight, F[x].in)
        /\ MeasureAll(InReserved, G) = MeasureAll(InReserved, F) + G[x].ri - F[x].ri
        /\ MeasureAll(InSize, G) = MeasureAll(InSize, F)
              + Total(BytesWeight, G[x].in) - Total(BytesWeight, F[x].in)
        /\ MeasureAll(InCycles, G) = MeasureAll(InCycles, F)
              + Total(CyclesWeight, G[x].in) - Total(CyclesWeight, F[x].in)
    BY StatsChange
  <2>3. /\ MeasureAll(InCount, G) = MeasureAll(InCount, F)
        /\ MeasureAll(InResponses, G) = MeasureAll(InResponses, F)
        /\ MeasureAll(InReserved, G) = MeasureAll(InReserved, F)
        /\ MeasureAll(InSize, G) = MeasureAll(InSize, F)
        /\ MeasureAll(InCycles, G) = MeasureAll(InCycles, F)
    BY <1>2, <1>3, <1>5, <1>6, <2>1, <2>2
  <2> QED BY <2>3 DEF InStats
<1>7. ASSUME SameTotals(F[x].out, G[x].out) PROVE OutStats(G) = OutStats(F)
  <2>1. /\ Total(MessageWeight, G[x].out) = Total(MessageWeight, F[x].out)
        /\ Total(CyclesWeight, G[x].out) = Total(CyclesWeight, F[x].out)
    BY <1>7, SameTotalsFacts
  <2>2. /\ MeasureAll(OutCount, G) = MeasureAll(OutCount, F)
              + Total(MessageWeight, G[x].out) - Total(MessageWeight, F[x].out)
        /\ MeasureAll(OutCycles, G) = MeasureAll(OutCycles, F)
              + Total(CyclesWeight, G[x].out) - Total(CyclesWeight, F[x].out)
    BY StatsChange
  <2>3. /\ MeasureAll(OutCount, G) = MeasureAll(OutCount, F)
        /\ MeasureAll(OutCycles, G) = MeasureAll(OutCycles, F)
    BY <1>2, <1>4, <2>1, <2>2
  <2> QED BY <2>3 DEF OutStats
<1> QED BY <1>6, <1>7

LEMMA ContentsFields ==
  ASSUME NEW f \in ContentsSet
  PROVE  /\ f.in \in Seq(Items) /\ f.out \in Seq(Items) /\ f.ri \in Nat /\ f.ro \in Nat
         /\ Total(ResponseBytesWeight, f.in) \in Nat /\ Total(ResponseBytesWeight, f.out) \in Nat
         /\ Total(OversizedWeight, f.in) \in Nat /\ Total(OversizedWeight, f.out) \in Nat
<1>1. f.in \in Seq(Items) /\ f.out \in Seq(Items) /\ f.ri \in Nat /\ f.ro \in Nat
  BY DEF ContentsSet
<1> QED BY <1>1, TotalsType

\* The slots a message takes and frees on its way into an input queue, into an
\* output queue, and on its way out of either.
Slots(f, g, ri, ro) == g.ri = f.ri + ri /\ g.ro = f.ro + ro

\* A message enters an input queue.
LEMMA PushInFits ==
  ASSUME NEW f \in ContentsSet, NEW g \in ContentsSet, NEW msg \in MessageType,
         OneMore(f.in, g.in, msg), SameTotals(f.out, g.out),
         IsRequest(msg) => Slots(f, g, 0, 1),
         IsResponse(msg) => Slots(f, g, -1, 0)
  PROVE  /\ InFits(f, g, InputQueuesStatsDelta("Push", msg))
         /\ MemoryFits(f, g, MemoryUsageStatsDelta("Push", msg))
<1>1. /\ f.in \in Seq(Items) /\ f.out \in Seq(Items) /\ g.in \in Seq(Items) /\ g.out \in Seq(Items)
  BY ContentsFields
<1>2. f.ri \in Nat /\ f.ro \in Nat
  BY ContentsFields
<1>3. Bytes(msg) \in Nat /\ Cycles(msg) \in Nat /\ OversizedBytes(msg) \in Nat
  BY MessageFacts
<1>4. PICK one \in {0, 1}, rb \in Nat :
        /\ one = IF IsResponse(msg) THEN 1 ELSE 0
        /\ one = IF IsRequest(msg) THEN 0 ELSE 1
        /\ rb = IF IsResponse(msg) THEN Bytes(msg) ELSE 0
        /\ InputQueuesStatsDelta("Push", msg)
             = [message_count |-> 1, response_count |-> one, reserved_slots |-> 0 - one,
                size_bytes |-> Bytes(msg), cycles |-> Cycles(msg)]
        /\ MemoryUsageStatsDelta("Push", msg)
             = [responses_size_bytes |-> rb, reserved_slots |-> 1 - 2 * one,
                oversized_bytes |-> OversizedBytes(msg)]
  BY Deltas
<1>5. /\ Total(MessageWeight, g.in) = Total(MessageWeight, f.in) + 1
      /\ Total(ResponseWeight, g.in) = Total(ResponseWeight, f.in) + one
      /\ Total(BytesWeight, g.in) = Total(BytesWeight, f.in) + Bytes(msg)
      /\ Total(CyclesWeight, g.in) = Total(CyclesWeight, f.in) + Cycles(msg)
      /\ Total(ResponseBytesWeight, g.in) = Total(ResponseBytesWeight, f.in) + rb
      /\ Total(OversizedWeight, g.in) = Total(OversizedWeight, f.in) + OversizedBytes(msg)
  BY <1>1, <1>4, OneMoreTotals
<1>6. /\ Total(ResponseBytesWeight, g.out) = Total(ResponseBytesWeight, f.out)
      /\ Total(OversizedWeight, g.out) = Total(OversizedWeight, f.out)
  BY SameTotalsFacts
<1>7. /\ Total(ResponseBytesWeight, f.in) \in Nat /\ Total(ResponseBytesWeight, f.out) \in Nat
      /\ Total(OversizedWeight, f.in) \in Nat /\ Total(OversizedWeight, f.out) \in Nat
  BY ContentsFields
<1>8. /\ Total(ResponseBytesWeight, g.in) + Total(ResponseBytesWeight, g.out)
           = Total(ResponseBytesWeight, f.in) + Total(ResponseBytesWeight, f.out) + rb
      /\ Total(OversizedWeight, g.in) + Total(OversizedWeight, g.out)
           = Total(OversizedWeight, f.in) + Total(OversizedWeight, f.out) + OversizedBytes(msg)
  BY <1>3, <1>5, <1>6, <1>7
<1>9. /\ g.ri = f.ri + (0 - one) /\ g.ri + g.ro = f.ri + f.ro + (1 - 2 * one)
  <2>1. CASE one = 0
    <3>1. Slots(f, g, 0, 1)
      BY <1>4, <2>1
    <3> QED BY <1>2, <2>1, <3>1 DEF Slots
  <2>2. CASE one = 1
    <3>1. Slots(f, g, -1, 0)
      BY <1>4, <2>2
    <3> QED BY <1>2, <2>2, <3>1 DEF Slots
  <2> QED BY <2>1, <2>2
<1>10. MemoryFits(f, g, MemoryUsageStatsDelta("Push", msg))
  BY <1>3, <1>4, <1>8, <1>9 DEF MemoryFits, MemoryDeltas
<1>11. InFits(f, g, InputQueuesStatsDelta("Push", msg))
  BY <1>3, <1>4, <1>5, <1>9 DEF InFits, InDeltas
<1> QED BY <1>10, <1>11

\* A message is in the input queue of g, not of f.
LEMMA PopInFits ==
  ASSUME NEW f \in ContentsSet, NEW g \in ContentsSet, NEW msg \in MessageType,
         OneMore(f.in, g.in, msg), SameTotals(f.out, g.out),
         Slots(f, g, 0, 0)
  PROVE  /\ InFits(f, g, InputQueuesStatsDelta("Pop", msg))
         /\ MemoryFits(f, g, MemoryUsageStatsDelta("Pop", msg))
<1>1. /\ f.in \in Seq(Items) /\ f.out \in Seq(Items) /\ g.in \in Seq(Items) /\ g.out \in Seq(Items)
  BY ContentsFields
<1>2. f.ri \in Nat /\ f.ro \in Nat
  BY ContentsFields
<1>3. Bytes(msg) \in Nat /\ Cycles(msg) \in Nat /\ OversizedBytes(msg) \in Nat
  BY MessageFacts
<1>4. PICK one \in {0, 1}, rb \in Nat :
        /\ one = IF IsResponse(msg) THEN 1 ELSE 0
        /\ one = IF IsRequest(msg) THEN 0 ELSE 1
        /\ rb = IF IsResponse(msg) THEN Bytes(msg) ELSE 0
        /\ InputQueuesStatsDelta("Pop", msg)
             = [message_count |-> 1, response_count |-> one, reserved_slots |-> 0,
                size_bytes |-> Bytes(msg), cycles |-> Cycles(msg)]
        /\ MemoryUsageStatsDelta("Pop", msg)
             = [responses_size_bytes |-> rb, reserved_slots |-> 0,
                oversized_bytes |-> OversizedBytes(msg)]
  BY Deltas
<1>5. /\ Total(MessageWeight, g.in) = Total(MessageWeight, f.in) + 1
      /\ Total(ResponseWeight, g.in) = Total(ResponseWeight, f.in) + one
      /\ Total(BytesWeight, g.in) = Total(BytesWeight, f.in) + Bytes(msg)
      /\ Total(CyclesWeight, g.in) = Total(CyclesWeight, f.in) + Cycles(msg)
      /\ Total(ResponseBytesWeight, g.in) = Total(ResponseBytesWeight, f.in) + rb
      /\ Total(OversizedWeight, g.in) = Total(OversizedWeight, f.in) + OversizedBytes(msg)
  BY <1>1, <1>4, OneMoreTotals
<1>6. /\ Total(ResponseBytesWeight, g.out) = Total(ResponseBytesWeight, f.out)
      /\ Total(OversizedWeight, g.out) = Total(OversizedWeight, f.out)
  BY SameTotalsFacts
<1>7. /\ Total(ResponseBytesWeight, f.in) \in Nat /\ Total(ResponseBytesWeight, f.out) \in Nat
      /\ Total(OversizedWeight, f.in) \in Nat /\ Total(OversizedWeight, f.out) \in Nat
  BY ContentsFields
<1>8. /\ Total(ResponseBytesWeight, g.in) + Total(ResponseBytesWeight, g.out)
           = Total(ResponseBytesWeight, f.in) + Total(ResponseBytesWeight, f.out) + rb
      /\ Total(OversizedWeight, g.in) + Total(OversizedWeight, g.out)
           = Total(OversizedWeight, f.in) + Total(OversizedWeight, f.out) + OversizedBytes(msg)
  BY <1>3, <1>5, <1>6, <1>7
<1>9. g.ri = f.ri + 0 /\ g.ri + g.ro = f.ri + f.ro + 0
  BY <1>2 DEF Slots
<1>10. MemoryFits(f, g, MemoryUsageStatsDelta("Pop", msg))
  BY <1>3, <1>4, <1>8, <1>9 DEF MemoryFits, MemoryDeltas
<1>11. InFits(f, g, InputQueuesStatsDelta("Pop", msg))
  BY <1>3, <1>4, <1>5, <1>9 DEF InFits, InDeltas
<1> QED BY <1>10, <1>11

\* A message enters an output queue.
LEMMA PushOutFits ==
  ASSUME NEW f \in ContentsSet, NEW g \in ContentsSet, NEW msg \in MessageType,
         OneMore(f.out, g.out, msg), SameTotals(f.in, g.in),
         IsRequest(msg) => Slots(f, g, 1, 0),
         IsResponse(msg) => Slots(f, g, 0, -1)
  PROVE  /\ OutFits(f, g, OutputQueuesStatsDelta(msg))
         /\ MemoryFits(f, g, MemoryUsageStatsDelta("Push", msg))
<1>1. /\ f.in \in Seq(Items) /\ f.out \in Seq(Items) /\ g.in \in Seq(Items) /\ g.out \in Seq(Items)
  BY ContentsFields
<1>2. f.ri \in Nat /\ f.ro \in Nat
  BY ContentsFields
<1>3. Bytes(msg) \in Nat /\ Cycles(msg) \in Nat /\ OversizedBytes(msg) \in Nat
  BY MessageFacts
<1>4. PICK one \in {0, 1}, rb \in Nat :
        /\ one = IF IsResponse(msg) THEN 1 ELSE 0
        /\ one = IF IsRequest(msg) THEN 0 ELSE 1
        /\ rb = IF IsResponse(msg) THEN Bytes(msg) ELSE 0
        /\ OutputQueuesStatsDelta(msg) = [message_count |-> 1, cycles |-> Cycles(msg)]
        /\ MemoryUsageStatsDelta("Push", msg)
             = [responses_size_bytes |-> rb, reserved_slots |-> 1 - 2 * one,
                oversized_bytes |-> OversizedBytes(msg)]
  BY Deltas
<1>5. /\ Total(MessageWeight, g.out) = Total(MessageWeight, f.out) + 1
      /\ Total(ResponseWeight, g.out) = Total(ResponseWeight, f.out) + one
      /\ Total(BytesWeight, g.out) = Total(BytesWeight, f.out) + Bytes(msg)
      /\ Total(CyclesWeight, g.out) = Total(CyclesWeight, f.out) + Cycles(msg)
      /\ Total(ResponseBytesWeight, g.out) = Total(ResponseBytesWeight, f.out) + rb
      /\ Total(OversizedWeight, g.out) = Total(OversizedWeight, f.out) + OversizedBytes(msg)
  BY <1>1, <1>4, OneMoreTotals
<1>6. /\ Total(ResponseBytesWeight, g.in) = Total(ResponseBytesWeight, f.in)
      /\ Total(OversizedWeight, g.in) = Total(OversizedWeight, f.in)
  BY SameTotalsFacts
<1>7. /\ Total(ResponseBytesWeight, f.in) \in Nat /\ Total(ResponseBytesWeight, f.out) \in Nat
      /\ Total(OversizedWeight, f.in) \in Nat /\ Total(OversizedWeight, f.out) \in Nat
  BY ContentsFields
<1>8. /\ Total(ResponseBytesWeight, g.in) + Total(ResponseBytesWeight, g.out)
           = Total(ResponseBytesWeight, f.in) + Total(ResponseBytesWeight, f.out) + rb
      /\ Total(OversizedWeight, g.in) + Total(OversizedWeight, g.out)
           = Total(OversizedWeight, f.in) + Total(OversizedWeight, f.out) + OversizedBytes(msg)
  BY <1>3, <1>5, <1>6, <1>7
<1>9. /\ g.ri + g.ro = f.ri + f.ro + (1 - 2 * one)
  <2>1. CASE one = 0
    <3>1. Slots(f, g, 1, 0)
      BY <1>4, <2>1
    <3> QED BY <1>2, <2>1, <3>1 DEF Slots
  <2>2. CASE one = 1
    <3>1. Slots(f, g, 0, -1)
      BY <1>4, <2>2
    <3> QED BY <1>2, <2>2, <3>1 DEF Slots
  <2> QED BY <2>1, <2>2
<1>10. MemoryFits(f, g, MemoryUsageStatsDelta("Push", msg))
  BY <1>3, <1>4, <1>8, <1>9 DEF MemoryFits, MemoryDeltas
<1>11. OutFits(f, g, OutputQueuesStatsDelta(msg))
  BY <1>3, <1>4, <1>5 DEF OutFits, OutDeltas
<1> QED BY <1>10, <1>11

\* A message is in the output queue of g, not of f.
LEMMA PopOutFits ==
  ASSUME NEW f \in ContentsSet, NEW g \in ContentsSet, NEW msg \in MessageType,
         OneMore(f.out, g.out, msg), SameTotals(f.in, g.in),
         Slots(f, g, 0, 0)
  PROVE  /\ OutFits(f, g, OutputQueuesStatsDelta(msg))
         /\ MemoryFits(f, g, MemoryUsageStatsDelta("Pop", msg))
<1>1. /\ f.in \in Seq(Items) /\ f.out \in Seq(Items) /\ g.in \in Seq(Items) /\ g.out \in Seq(Items)
  BY ContentsFields
<1>2. f.ri \in Nat /\ f.ro \in Nat
  BY ContentsFields
<1>3. Bytes(msg) \in Nat /\ Cycles(msg) \in Nat /\ OversizedBytes(msg) \in Nat
  BY MessageFacts
<1>4. PICK one \in {0, 1}, rb \in Nat :
        /\ one = IF IsResponse(msg) THEN 1 ELSE 0
        /\ one = IF IsRequest(msg) THEN 0 ELSE 1
        /\ rb = IF IsResponse(msg) THEN Bytes(msg) ELSE 0
        /\ OutputQueuesStatsDelta(msg) = [message_count |-> 1, cycles |-> Cycles(msg)]
        /\ MemoryUsageStatsDelta("Pop", msg)
             = [responses_size_bytes |-> rb, reserved_slots |-> 0,
                oversized_bytes |-> OversizedBytes(msg)]
  BY Deltas
<1>5. /\ Total(MessageWeight, g.out) = Total(MessageWeight, f.out) + 1
      /\ Total(ResponseWeight, g.out) = Total(ResponseWeight, f.out) + one
      /\ Total(BytesWeight, g.out) = Total(BytesWeight, f.out) + Bytes(msg)
      /\ Total(CyclesWeight, g.out) = Total(CyclesWeight, f.out) + Cycles(msg)
      /\ Total(ResponseBytesWeight, g.out) = Total(ResponseBytesWeight, f.out) + rb
      /\ Total(OversizedWeight, g.out) = Total(OversizedWeight, f.out) + OversizedBytes(msg)
  BY <1>1, <1>4, OneMoreTotals
<1>6. /\ Total(ResponseBytesWeight, g.in) = Total(ResponseBytesWeight, f.in)
      /\ Total(OversizedWeight, g.in) = Total(OversizedWeight, f.in)
  BY SameTotalsFacts
<1>7. /\ Total(ResponseBytesWeight, f.in) \in Nat /\ Total(ResponseBytesWeight, f.out) \in Nat
      /\ Total(OversizedWeight, f.in) \in Nat /\ Total(OversizedWeight, f.out) \in Nat
  BY ContentsFields
<1>8. /\ Total(ResponseBytesWeight, g.in) + Total(ResponseBytesWeight, g.out)
           = Total(ResponseBytesWeight, f.in) + Total(ResponseBytesWeight, f.out) + rb
      /\ Total(OversizedWeight, g.in) + Total(OversizedWeight, g.out)
           = Total(OversizedWeight, f.in) + Total(OversizedWeight, f.out) + OversizedBytes(msg)
  BY <1>3, <1>5, <1>6, <1>7
<1>9. g.ri = f.ri + 0 /\ g.ri + g.ro = f.ri + f.ro + 0
  BY <1>2 DEF Slots
<1>10. MemoryFits(f, g, MemoryUsageStatsDelta("Pop", msg))
  BY <1>3, <1>4, <1>8, <1>9 DEF MemoryFits, MemoryDeltas
<1>11. OutFits(f, g, OutputQueuesStatsDelta(msg))
  BY <1>3, <1>4, <1>5 DEF OutFits, OutDeltas
<1> QED BY <1>10, <1>11

\* A slot is reserved in an input queue.
OneSlot == [message_count |-> 0, response_count |-> 0, reserved_slots |-> 1,
            size_bytes |-> 0, cycles |-> 0]
OneMemorySlot == [responses_size_bytes |-> 0, reserved_slots |-> 1, oversized_bytes |-> 0]

LEMMA ReserveFits ==
  ASSUME NEW f \in ContentsSet, NEW g \in ContentsSet, SameTotals(f.in, g.in), g.ri = f.ri + 1
  PROVE  /\ InFits(f, g, OneSlot)
         /\ SameTotals(f.out, g.out) /\ g.ro = f.ro => MemoryFits(f, g, OneMemorySlot)
<1>1. /\ f.in \in Seq(Items) /\ f.out \in Seq(Items) /\ f.ri \in Nat /\ f.ro \in Nat
  BY ContentsFields
<1>2. f.ri \in Nat /\ f.ro \in Nat
  BY <1>1
<1>3. /\ Total(MessageWeight, f.in) \in Nat /\ Total(ResponseWeight, f.in) \in Nat
      /\ Total(BytesWeight, f.in) \in Nat /\ Total(CyclesWeight, f.in) \in Nat
      /\ Total(ResponseBytesWeight, f.in) \in Nat /\ Total(OversizedWeight, f.in) \in Nat
      /\ Total(ResponseBytesWeight, f.out) \in Nat /\ Total(OversizedWeight, f.out) \in Nat
  BY <1>1, TotalsType
<1>4. /\ Total(MessageWeight, g.in) = Total(MessageWeight, f.in)
      /\ Total(ResponseWeight, g.in) = Total(ResponseWeight, f.in)
      /\ Total(BytesWeight, g.in) = Total(BytesWeight, f.in)
      /\ Total(CyclesWeight, g.in) = Total(CyclesWeight, f.in)
      /\ Total(ResponseBytesWeight, g.in) = Total(ResponseBytesWeight, f.in)
      /\ Total(OversizedWeight, g.in) = Total(OversizedWeight, f.in)
  BY SameTotalsFacts
<1>5. InFits(f, g, OneSlot)
  BY <1>2, <1>3, <1>4 DEF InFits, InDeltas, OneSlot
<1>6. ASSUME SameTotals(f.out, g.out), g.ro = f.ro PROVE MemoryFits(f, g, OneMemorySlot)
  <2>1. /\ Total(ResponseBytesWeight, g.out) = Total(ResponseBytesWeight, f.out)
        /\ Total(OversizedWeight, g.out) = Total(OversizedWeight, f.out)
    BY <1>6, SameTotalsFacts
  <2> QED BY <1>2, <1>3, <1>4, <1>6, <2>1 DEF MemoryFits, MemoryDeltas, OneMemorySlot
<1> QED BY <1>5, <1>6

-----------------------------------------------------------------------------
(* The schedules. *)

\* The senders P are each in one of the two schedules, once.
Once(l, r, P) ==
  /\ l \in Seq(Canisters) /\ r \in Seq(Canisters)
  /\ IsInjective(l) /\ IsInjective(r)
  /\ Range(l) \cap Range(r) = {}
  /\ Range(l) \cup Range(r) = P

\* m continues the schedule l.
Begins(l, m) == Len(l) <= Len(m) /\ \A i \in 1 .. Len(l) : m[i] = l[i]

LEMMA OnceCommutes ==
  ASSUME NEW l, NEW r, NEW P, Once(l, r, P)
  PROVE  Once(r, l, P)
BY DEF Once

LEMMA AppendKeepsInjective ==
  ASSUME NEW S, NEW l \in Seq(S), IsInjective(l), NEW id \in S, id \notin Range(l)
  PROVE  /\ Append(l, id) \in Seq(S) /\ IsInjective(Append(l, id))
         /\ Range(Append(l, id)) = Range(l) \cup {id}
         /\ Begins(l, Append(l, id))
<1> DEFINE m == Append(l, id)
           n == Len(l)
<1>1. /\ n \in Nat /\ m \in Seq(S) /\ DOMAIN l = 1 .. n /\ DOMAIN m = 1 .. (n + 1) /\ Len(m) = n + 1
      /\ m[n + 1] = id /\ \A i \in 1 .. n : m[i] = l[i]
  OBVIOUS
<1> HIDE DEF m, n
<1>2. \A i \in 1 .. n : l[i] # id
  BY <1>1 DEF Range
<1>3. IsInjective(m)
  <2> SUFFICES ASSUME NEW a \in 1 .. (n + 1), NEW b \in 1 .. (n + 1), m[a] = m[b] PROVE a = b
    BY <1>1 DEF IsInjective
  <2>1. (a \in 1 .. n \/ a = n + 1) /\ (b \in 1 .. n \/ b = n + 1)
    BY <1>1
  <2> QED BY <1>1, <1>2, <2>1 DEF IsInjective
<1>4. Range(m) = Range(l) \cup {id}
  <2>1. Range(l) = {l[i] : i \in 1 .. n} /\ Range(m) = {m[i] : i \in 1 .. (n + 1)}
    BY <1>1 DEF Range
  <2>2. \A x : x \in Range(m) => x \in Range(l) \cup {id}
    <3> SUFFICES ASSUME NEW i \in 1 .. (n + 1) PROVE m[i] \in Range(l) \cup {id}
      BY <2>1
    <3>1. i \in 1 .. n \/ i = n + 1
      BY <1>1
    <3> QED BY <1>1, <2>1, <3>1
  <2>3. id \in Range(m)
    <3>1. n + 1 \in 1 .. (n + 1)
      BY <1>1
    <3> QED BY <3>1, <2>1, <1>1
  <2>4. \A x : x \in Range(l) => x \in Range(m)
    <3> SUFFICES ASSUME NEW i \in 1 .. n PROVE l[i] \in Range(m)
      BY <2>1
    <3>1. i \in 1 .. (n + 1)
      BY <1>1
    <3> QED BY <1>1, <2>1, <3>1
  <2> QED BY <2>2, <2>3, <2>4
<1>5. Begins(l, m)
  BY <1>1 DEF Begins, n
<1> QED BY <1>1, <1>3, <1>4, <1>5 DEF m

LEMMA TailKeepsInjective ==
  ASSUME NEW S, NEW l \in Seq(S), IsInjective(l), l # <<>>
  PROVE  /\ Tail(l) \in Seq(S) /\ IsInjective(Tail(l))
         /\ Range(Tail(l)) = Range(l) \ {Head(l)}
         /\ Head(l) \in Range(l) /\ Head(l) \in S
<1> DEFINE t == Tail(l)
           n == Len(l)
<1>1. /\ n \in Nat /\ n >= 1 /\ t \in Seq(S) /\ DOMAIN l = 1 .. n /\ DOMAIN t = 1 .. (n - 1)
      /\ Head(l) = l[1] /\ \A i \in 1 .. (n - 1) : t[i] = l[i + 1]
  OBVIOUS
<1> HIDE DEF t, n
<1>2. IsInjective(t)
  <2> SUFFICES ASSUME NEW a \in 1 .. (n - 1), NEW b \in 1 .. (n - 1), t[a] = t[b] PROVE a = b
    BY <1>1 DEF IsInjective
  <2>1. a + 1 \in 1 .. n /\ b + 1 \in 1 .. n /\ l[a + 1] = l[b + 1]
    BY <1>1
  <2>2. a + 1 = b + 1
    BY <1>1, <2>1 DEF IsInjective
  <2> QED BY <2>2
<1>3. Head(l) \in Range(l)
  <2>1. 1 \in 1 .. n
    BY <1>1
  <2> QED BY <1>1, <2>1 DEF Range
<1>4. Range(t) = Range(l) \ {Head(l)}
  <2>1. Range(l) = {l[i] : i \in 1 .. n} /\ Range(t) = {t[i] : i \in 1 .. (n - 1)}
    BY <1>1 DEF Range
  <2>2. ASSUME NEW i \in 1 .. (n - 1) PROVE t[i] \in Range(l) /\ t[i] # Head(l)
    <3>1. i + 1 \in 1 .. n /\ t[i] = l[i + 1] /\ i + 1 # 1 /\ 1 \in 1 .. n
      BY <1>1
    <3> QED BY <1>1, <2>1, <3>1 DEF IsInjective
  <2>3. ASSUME NEW i \in 1 .. n, l[i] # Head(l) PROVE l[i] \in Range(t)
    <3>1. i - 1 \in 1 .. (n - 1) /\ (i - 1) + 1 = i
      BY <1>1, <2>3
    <3>2. t[i - 1] = l[i]
      BY <1>1, <3>1
    <3> QED BY <2>1, <3>1, <3>2
  <2> QED BY <2>1, <2>2, <2>3
<1>5. Head(l) \in S
  <2>1. 1 \in 1 .. Len(l)
    BY <1>1 DEF n
  <2> QED BY <2>1, <1>1, ElementOfSeq
<1> QED BY <1>1, <1>2, <1>3, <1>4, <1>5 DEF t

\* A sender is added.
LEMMA OnceAppend ==
  ASSUME NEW l, NEW r, NEW P, Once(l, r, P), NEW id \in Canisters, id \notin P
  PROVE  Once(Append(l, id), r, P \cup {id}) /\ Begins(l, Append(l, id))
<1>1. /\ l \in Seq(Canisters) /\ IsInjective(l) /\ id \notin Range(l) /\ id \notin Range(r)
  BY DEF Once
<1>2. /\ Append(l, id) \in Seq(Canisters) /\ IsInjective(Append(l, id))
      /\ Range(Append(l, id)) = Range(l) \cup {id}
      /\ Begins(l, Append(l, id))
  BY <1>1, AppendKeepsInjective
<1>3. Range(l) \cap Range(r) = {} /\ Range(l) \cup Range(r) = P
  BY DEF Once
<1>4. /\ (Range(l) \cup {id}) \cap Range(r) = {}
      /\ (Range(l) \cup {id}) \cup Range(r) = P \cup {id}
  BY <1>1, <1>3
<1>5. r \in Seq(Canisters) /\ IsInjective(r)
  BY DEF Once
<1> QED BY <1>2, <1>4, <1>5 DEF Once

\* The first sender is taken, and possibly put back at the end.
LEMMA OncePop ==
  ASSUME NEW l, NEW r, NEW P, Once(l, r, P), l # <<>>
  PROVE  /\ Head(l) \in P /\ Head(l) \in Canisters
         /\ Once(Tail(l), r, P \ {Head(l)})
         /\ Once(Append(Tail(l), Head(l)), r, P)
<1>1. l \in Seq(Canisters) /\ r \in Seq(Canisters) /\ IsInjective(l) /\ IsInjective(r)
  BY DEF Once
<1>2. Range(l) \cap Range(r) = {} /\ Range(l) \cup Range(r) = P
  BY DEF Once
<1>3. /\ Tail(l) \in Seq(Canisters) /\ IsInjective(Tail(l))
      /\ Range(Tail(l)) = Range(l) \ {Head(l)}
      /\ Head(l) \in Range(l) /\ Head(l) \in Canisters
  BY <1>1, TailKeepsInjective
<1>4. /\ (Range(l) \ {Head(l)}) \cap Range(r) = {}
      /\ (Range(l) \ {Head(l)}) \cup Range(r) = P \ {Head(l)}
  BY <1>2, <1>3
<1>5. Once(Tail(l), r, P \ {Head(l)})
  BY <1>1, <1>3, <1>4 DEF Once
<1>6. Head(l) \notin P \ {Head(l)} /\ (P \ {Head(l)}) \cup {Head(l)} = P /\ Head(l) \in P
  BY <1>2, <1>3
<1>7. Once(Append(Tail(l), Head(l)), r, P)
  <2>1. Once(Append(Tail(l), Head(l)), r, (P \ {Head(l)}) \cup {Head(l)})
    BY <1>3, <1>5, <1>6, OnceAppend
  <2> QED BY <2>1, <1>6
<1> QED BY <1>3, <1>5, <1>6, <1>7

\* Both schedules in one sequence.
LEMMA OnceTogether ==
  ASSUME NEW l, NEW r, NEW P, Once(l, r, P)
  PROVE  IsInjective(l \o r) /\ Range(l \o r) = P
<1>1. /\ l \in Seq(Canisters) /\ r \in Seq(Canisters) /\ IsInjective(l) /\ IsInjective(r)
      /\ Range(l) \cap Range(r) = {} /\ Range(l) \cup Range(r) = P
  BY DEF Once
<1> DEFINE n == Len(l)
           k == Len(r)
           s == l \o r
<1>2. /\ n \in Nat /\ k \in Nat /\ DOMAIN s = 1 .. (n + k) /\ DOMAIN l = 1 .. n /\ DOMAIN r = 1 .. k
      /\ \A i \in 1 .. n : s[i] = l[i]
      /\ \A i \in (n + 1) .. (n + k) : s[i] = r[i - n]
  BY <1>1
<1>3. Range(s) = P
  BY <1>1, RangeConcatenation, ZenonT(40)
<1> HIDE DEF n, k, s
<1>4. ASSUME NEW a \in 1 .. (n + k), NEW b \in 1 .. (n + k), s[a] = s[b] PROVE a = b
  <2>1. ASSUME NEW i \in 1 .. n, NEW j \in (n + 1) .. (n + k) PROVE s[i] # s[j]
    <3>1. s[i] = l[i] /\ s[j] = r[j - n] /\ j - n \in 1 .. k
      BY <1>2
    <3>2. l[i] \in Range(l) /\ r[j - n] \in Range(r)
      BY <1>2, <3>1 DEF Range
    <3> QED BY <3>1, <3>2, <1>1
  <2>2. CASE a \in 1 .. n /\ b \in 1 .. n
    BY <1>1, <1>2, <1>4, <2>2 DEF IsInjective
  <2>3. CASE a \in (n + 1) .. (n + k) /\ b \in (n + 1) .. (n + k)
    <3>1. a - n \in 1 .. k /\ b - n \in 1 .. k /\ r[a - n] = r[b - n]
      BY <1>2, <1>4, <2>3
    <3>2. a - n = b - n
      BY <1>1, <1>2, <3>1 DEF IsInjective
    <3> QED BY <1>2, <3>2
  <2>4. a \in 1 .. n \/ a \in (n + 1) .. (n + k)
    BY <1>2
  <2>5. b \in 1 .. n \/ b \in (n + 1) .. (n + k)
    BY <1>2
  <2> QED BY <1>4, <2>1, <2>2, <2>3, <2>4, <2>5
<1> QED BY <1>2, <1>3, <1>4 DEF IsInjective, s

LEMMA OnceNobody ==
  ASSUME NEW l, NEW r, Once(l, r, {})
  PROVE  l = <<>> /\ r = <<>>
<1>1. /\ l \in Seq(Canisters) /\ r \in Seq(Canisters) /\ Range(l) = {} /\ Range(r) = {}
  BY DEF Once
<1>2. ASSUME NEW s \in Seq(Canisters), s # <<>> PROVE Range(s) # {}
  <2>1. 1 \in DOMAIN s
    BY <1>2
  <2> QED BY <2>1 DEF Range
<1> QED BY <1>1, <1>2

LEMMA BeginsReflexive ==
  ASSUME NEW S, NEW l \in Seq(S)
  PROVE  Begins(l, l)
BY DEF Begins

LEMMA BeginsTransitive ==
  ASSUME NEW S, NEW l \in Seq(S), NEW m \in Seq(S), NEW k \in Seq(S), Begins(l, m), Begins(m, k)
  PROVE  Begins(l, k)
<1>1. Len(l) \in Nat /\ Len(m) \in Nat /\ Len(k) \in Nat /\ Len(l) <= Len(m) /\ Len(m) <= Len(k)
  BY DEF Begins
<1>2. ASSUME NEW i \in 1 .. Len(l) PROVE k[i] = l[i]
  <2>1. i \in 1 .. Len(m)
    BY <1>1
  <2> QED BY <2>1 DEF Begins
<1>3. Len(l) <= Len(k)
  BY <1>1
<1> QED BY <1>2, <1>3 DEF Begins

-----------------------------------------------------------------------------
(* The record CanisterQueues. *)

InputSources == {"LocalSubnet", "Ingress", "RemoteSubnet"}

IsCq(c) ==
  c = [queues |-> c.queues, local |-> c.local, remote |-> c.remote, ingress |-> c.ingress,
       next |-> c.next, input_stats |-> c.input_stats, output_stats |-> c.output_stats,
       memory_stats |-> c.memory_stats]

\* The senders with messages.
PendingIn(Q) == {id \in DOMAIN Q : Q[id].inq.queue # <<>>}

\* The queues decode, and the schedules list the senders with messages.
ShapeOk(c) ==
  /\ IsCq(c)
  /\ c.ingress \in Nat
  /\ c.next \in InputSources
  /\ QueueMap(c.queues)
  /\ Once(c.local, c.remote, PendingIn(c.queues))

\* The statistics are those of the contents F.
StatsMatch(c, F) ==
  /\ c.input_stats = InStats(F)
  /\ c.output_stats = OutStats(F)
  /\ c.memory_stats = MemoryStats(F)

CqOk(c) == ShapeOk(c) /\ StatsMatch(c, AllContents(c.queues))

\* The contents of a pair that may not exist.
NoContents == [in |-> <<>>, ri |-> 0, out |-> <<>>, ro |-> 0]
ContentsAt(Q, id) == IF id \in DOMAIN Q THEN Contents(Q[id]) ELSE NoContents

\* Only the contents of pair id change.
OnlyAt(Q, R, id) == \A y \in Canisters \ {id} : ContentsAt(R, y) = ContentsAt(Q, y)
SameContents(Q, R) == \A y \in Canisters : ContentsAt(R, y) = ContentsAt(Q, y)

\* No sender is overtaken and no message is taken from c to d.
Keeps(c, d) ==
  /\ Begins(c.local, d.local) /\ Begins(c.remote, d.remote)
  /\ \A id \in PendingIn(c.queues) :
       /\ id \in PendingIn(d.queues)
       /\ Len(c.queues[id].inq.queue) <= Len(d.queues[id].inq.queue)

Put(Q, id, p) == [Q EXCEPT ![id] = p]

LEMMA PutPair ==
  ASSUME NEW Q, QueueMap(Q), NEW id \in DOMAIN Q, NEW p, PairOk(p), NEW R, R = Put(Q, id, p)
  PROVE  /\ QueueMap(R) /\ DOMAIN R = DOMAIN Q /\ R[id] = p
         /\ \A y \in DOMAIN Q \ {id} : R[y] = Q[y]
         /\ Changed(DOMAIN Q, AllContents(Q), AllContents(R), id)
         /\ AllContents(Q)[id] = Contents(Q[id]) /\ AllContents(R)[id] = Contents(p)
         /\ ContentsAt(Q, id) = Contents(Q[id]) /\ ContentsAt(R, id) = Contents(p)
         /\ OnlyAt(Q, R, id)
         /\ p.inq.queue = <<>> => PendingIn(R) = PendingIn(Q) \ {id}
         /\ p.inq.queue # <<>> => PendingIn(R) = PendingIn(Q) \cup {id}
<1>1. /\ DOMAIN Q \subseteq Canisters /\ IsFiniteSet(DOMAIN Q) /\ Q = [y \in DOMAIN Q |-> Q[y]]
      /\ \A y \in DOMAIN Q : PairOk(Q[y])
  BY DEF QueueMap
<1>2. /\ DOMAIN R = DOMAIN Q /\ R[id] = p /\ \A y \in DOMAIN Q \ {id} : R[y] = Q[y]
      /\ R = [y \in DOMAIN R |-> R[y]]
  BY <1>1 DEF Put
<1>3. \A y \in DOMAIN R : PairOk(R[y])
  BY <1>1, <1>2
<1>4. QueueMap(R)
  BY <1>1, <1>2, <1>3 DEF QueueMap
<1>5. /\ AllContents(Q) \in [DOMAIN Q -> ContentsSet]
      /\ \A y \in DOMAIN Q : AllContents(Q)[y] = Contents(Q[y])
  BY ContentsOfMap
<1>6. /\ AllContents(R) \in [DOMAIN Q -> ContentsSet]
      /\ \A y \in DOMAIN Q : AllContents(R)[y] = Contents(R[y])
  BY <1>2, <1>4, ContentsOfMap
<1>7. \A y \in DOMAIN Q \ {id} : AllContents(R)[y] = AllContents(Q)[y]
  BY <1>2, <1>5, <1>6
<1>8. Changed(DOMAIN Q, AllContents(Q), AllContents(R), id)
  BY <1>1, <1>5, <1>6, <1>7 DEF Changed
<1>9. OnlyAt(Q, R, id)
  BY <1>2 DEF OnlyAt, ContentsAt
<1>10. ContentsAt(Q, id) = Contents(Q[id]) /\ ContentsAt(R, id) = Contents(p)
  BY <1>2 DEF ContentsAt
<1>11. /\ p.inq.queue = <<>> => PendingIn(R) = PendingIn(Q) \ {id}
       /\ p.inq.queue # <<>> => PendingIn(R) = PendingIn(Q) \cup {id}
  BY <1>2 DEF PendingIn
<1> QED BY <1>2, <1>4, <1>5, <1>6, <1>8, <1>9, <1>10, <1>11

\* A new pair of queues.
LEMMA NewPair ==
  LET p == [inq |-> NewInputQueue, outq |-> NewOutputQueue]
  IN  PairOk(p) /\ Contents(p) = NoContents
<1> DEFINE p == [inq |-> NewInputQueue, outq |-> NewOutputQueue]
<1>1. WellFormed(MessageType, NewOutputQueue)
  BY NewQueueWellFormed
<1>2. NewOutputQueue \in OutQueues(MessageType)
  BY <1>1 DEF WellFormed
<1>3. NewInputQueue \in InQueues
  BY DEF NewInputQueue, InQueues
<1>4. p \in [inq : InQueues, outq : OutQueues(MessageType)]
  BY <1>2, <1>3
<1>5. CheckSize(NewInputQueue) /\ CheckSize(NewOutputQueue)
  BY QueueCapacityAssumption DEF CheckSize, UsedSlots, NewInputQueue, NewOutputQueue
<1>6. Contents(p) = NoContents
  BY DEF Contents, NoContents, NewInputQueue, NewOutputQueue
<1> QED BY <1>1, <1>4, <1>5, <1>6 DEF PairOk

\* What an empty pair adds to the statistics.
LEMMA MeasuresOfNothing ==
  /\ NoContents \in ContentsSet
  /\ Measure(InCount, NoContents) = 0 /\ Measure(InResponses, NoContents) = 0
  /\ Measure(InReserved, NoContents) = 0 /\ Measure(InSize, NoContents) = EMPTY_QUEUE_BYTES
  /\ Measure(InCycles, NoContents) = 0 /\ Measure(OutCount, NoContents) = 0
  /\ Measure(OutCycles, NoContents) = 0 /\ Measure(ResponsesSize, NoContents) = 0
  /\ Measure(AllReserved, NoContents) = 0 /\ Measure(Oversized, NoContents) = 0
<1>1. NoContents \in ContentsSet
  BY DEF NoContents, ContentsSet
<1>2. NoContents.in = <<>> /\ NoContents.out = <<>> /\ NoContents.ri = 0 /\ NoContents.ro = 0
  BY DEF NoContents
<1>3. \A w : Total(w, <<>>) = 0
  BY TotalEmpty
<1>4. EMPTY_QUEUE_BYTES \in Nat
  BY CanisterQueuesAssumption
<1> HIDE DEF NoContents
<1> QED BY <1>1, <1>2, <1>3, <1>4, MeasuresOf

\* get_or_insert_queues.
LEMMA InsertOk ==
  ASSUME NEW c, CqOk(c), NEW id \in Canisters, NEW d, d = GetOrInsertQueues(c, id)
  PROVE  /\ CqOk(d) /\ id \in DOMAIN d.queues
         /\ SameContents(c.queues, d.queues)
         /\ d.local = c.local /\ d.remote = c.remote /\ d.ingress = c.ingress /\ d.next = c.next
         /\ \A y \in DOMAIN c.queues : y \in DOMAIN d.queues /\ d.queues[y] = c.queues[y]
         /\ PendingIn(d.queues) = PendingIn(c.queues)
<1> DEFINE Q == c.queues
           R == d.queues
           p == [inq |-> NewInputQueue, outq |-> NewOutputQueue]
<1>1. CASE id \in DOMAIN c.queues
  <2>1. d = c
    BY <1>1 DEF GetOrInsertQueues
  <2> QED BY <1>1, <2>1 DEF SameContents
<1>2. CASE id \notin DOMAIN c.queues
  <2>1. /\ IsCq(c) /\ QueueMap(Q) /\ c.ingress \in Nat /\ c.next \in InputSources
        /\ Once(c.local, c.remote, PendingIn(Q)) /\ StatsMatch(c, AllContents(Q))
    BY DEF CqOk, ShapeOk
  <2>2. /\ R = [y \in DOMAIN Q \cup {id} |-> IF y = id THEN p ELSE Q[y]]
        /\ d.local = c.local /\ d.remote = c.remote /\ d.ingress = c.ingress /\ d.next = c.next
        /\ d.input_stats = [c.input_stats EXCEPT !.size_bytes = @ + EMPTY_QUEUE_BYTES]
        /\ d.output_stats = c.output_stats /\ d.memory_stats = c.memory_stats
        /\ IsCq(d)
    BY <1>2, <2>1 DEF GetOrInsertQueues, IsCq
  <2>3. /\ DOMAIN R = DOMAIN Q \cup {id} /\ R[id] = p
        /\ \A y \in DOMAIN Q : R[y] = Q[y]
        /\ R = [y \in DOMAIN R |-> R[y]]
    <3> HIDE DEF p, Q, R
    <3> QED BY <1>2, <2>2 DEF Q
  <2>4. PairOk(p) /\ Contents(p) = NoContents /\ p.inq.queue = <<>>
    BY NewPair DEF NewInputQueue
  <2>5. DOMAIN Q \subseteq Canisters /\ IsFiniteSet(DOMAIN Q) /\ \A y \in DOMAIN Q : PairOk(Q[y])
    BY <2>1 DEF QueueMap
  <2> HIDE DEF p, Q, R
  <2>6. QueueMap(R)
    <3>1. IsFiniteSet(DOMAIN R) /\ DOMAIN R \subseteq Canisters
      BY <2>3, <2>5, FS_AddElement
    <3>2. \A y \in DOMAIN R : PairOk(R[y])
      BY <2>3, <2>4, <2>5
    <3> QED BY <2>3, <3>1, <3>2 DEF QueueMap
  <2>7. PendingIn(R) = PendingIn(Q)
    BY <2>3, <2>4 DEF PendingIn
  <2>8. SameContents(Q, R)
    BY <1>2, <2>3, <2>4 DEF SameContents, ContentsAt, Q
  <2> DEFINE F == AllContents(Q)
             G == AllContents(R)
  <2>9. /\ F \in [DOMAIN Q -> ContentsSet] /\ \A y \in DOMAIN Q : F[y] = Contents(Q[y])
    BY <2>1, ContentsOfMap
  <2>10. /\ G \in [DOMAIN Q \cup {id} -> ContentsSet] /\ G[id] = NoContents
         /\ \A y \in DOMAIN Q : G[y] = F[y]
    <3>1. /\ G \in [DOMAIN R -> ContentsSet] /\ \A y \in DOMAIN R : G[y] = Contents(R[y])
      BY <2>6, ContentsOfMap
    <3> QED BY <2>3, <2>4, <2>9, <3>1
  <2> HIDE DEF F, G
  <2>11. \A m \in Measures : MeasureAll(m, G) = MeasureAll(m, F) + Measure(m, NoContents)
    <3>1. ASSUME NEW m \in Measures PROVE MeasureAll(m, G) = MeasureAll(m, F) + Measure(m, G[id])
      BY <1>2, <2>5, <2>9, <2>10, MeasureInsert DEF Q
    <3> QED BY <3>1, <2>10
  <2>12. /\ MeasureAll(InCount, F) \in Nat /\ MeasureAll(InResponses, F) \in Nat
         /\ MeasureAll(InReserved, F) \in Nat /\ MeasureAll(InSize, F) \in Nat
         /\ MeasureAll(InCycles, F) \in Nat /\ MeasureAll(OutCount, F) \in Nat
         /\ MeasureAll(OutCycles, F) \in Nat /\ MeasureAll(ResponsesSize, F) \in Nat
         /\ MeasureAll(AllReserved, F) \in Nat /\ MeasureAll(Oversized, F) \in Nat
    BY <2>5, <2>9, MeasureAllType
  <2>13. /\ MeasureAll(InCount, G) = MeasureAll(InCount, F)
         /\ MeasureAll(InResponses, G) = MeasureAll(InResponses, F)
         /\ MeasureAll(InReserved, G) = MeasureAll(InReserved, F)
         /\ MeasureAll(InSize, G) = MeasureAll(InSize, F) + EMPTY_QUEUE_BYTES
         /\ MeasureAll(InCycles, G) = MeasureAll(InCycles, F)
         /\ MeasureAll(OutCount, G) = MeasureAll(OutCount, F)
         /\ MeasureAll(OutCycles, G) = MeasureAll(OutCycles, F)
         /\ MeasureAll(ResponsesSize, G) = MeasureAll(ResponsesSize, F)
         /\ MeasureAll(AllReserved, G) = MeasureAll(AllReserved, F)
         /\ MeasureAll(Oversized, G) = MeasureAll(Oversized, F)
    <3>1. /\ InCount \in Measures /\ InResponses \in Measures /\ InReserved \in Measures
          /\ InSize \in Measures /\ InCycles \in Measures /\ OutCount \in Measures
          /\ OutCycles \in Measures /\ ResponsesSize \in Measures /\ AllReserved \in Measures
          /\ Oversized \in Measures
      BY MeasuresDefined
    <3> QED BY <2>11, <2>12, <3>1, MeasuresOfNothing
  <2>14. StatsMatch(d, G)
    <3>1. c.input_stats = InStats(F) /\ c.output_stats = OutStats(F)
          /\ c.memory_stats = MemoryStats(F)
      BY <2>1 DEF StatsMatch, F
    <3>2. d.input_stats = InStats(G)
      BY <2>2, <2>13, <3>1 DEF InStats
    <3>3. d.output_stats = OutStats(G) /\ d.memory_stats = MemoryStats(G)
      BY <2>2, <2>13, <3>1 DEF OutStats, MemoryStats
    <3> QED BY <3>2, <3>3 DEF StatsMatch
  <2>15. ShapeOk(d)
    BY <2>1, <2>2, <2>6, <2>7 DEF ShapeOk, R, Q
  <2> QED BY <2>2, <2>3, <2>7, <2>8, <2>14, <2>15 DEF CqOk, Q, R, G
<1> QED BY <1>1, <1>2

LEMMA KeepsWhen ==
  ASSUME NEW c, NEW d, ShapeOk(c), d.local = c.local, d.remote = c.remote,
         PendingIn(c.queues) \subseteq PendingIn(d.queues),
         \A y \in PendingIn(c.queues) : d.queues[y].inq = c.queues[y].inq
  PROVE  Keeps(c, d)
<1>1. c.local \in Seq(Canisters) /\ c.remote \in Seq(Canisters)
  BY DEF ShapeOk, Once
<1>2. Begins(c.local, d.local) /\ Begins(c.remote, d.remote)
  BY <1>1, BeginsReflexive
<1>3. ASSUME NEW y \in PendingIn(c.queues)
      PROVE  y \in PendingIn(d.queues) /\ Len(c.queues[y].inq.queue) <= Len(d.queues[y].inq.queue)
  <2>1. Len(c.queues[y].inq.queue) \in Nat
    BY PairFields DEF PendingIn, ShapeOk, QueueMap
  <2> QED BY <2>1
<1> QED BY <1>2, <1>3 DEF Keeps

\* Slots in use, when an item or a reservation comes or goes.
LEMMA SlotsUsed ==
  ASSUME NEW q, NEW p, Len(q.queue) \in Nat, q.num_slots_reserved \in Nat
  PROVE  /\ Len(p.queue) = Len(q.queue) + 1 /\ p.num_slots_reserved = q.num_slots_reserved
              => UsedSlots(p) = UsedSlots(q) + 1
         /\ Len(p.queue) = Len(q.queue) /\ p.num_slots_reserved = q.num_slots_reserved + 1
              => UsedSlots(p) = UsedSlots(q) + 1
         /\ Len(p.queue) = Len(q.queue) + 1 /\ p.num_slots_reserved = q.num_slots_reserved - 1
              => UsedSlots(p) = UsedSlots(q)
         /\ UsedSlots(q) \in Nat
BY DEF UsedSlots

\* A message is pushed into the input queue of a pair.
PushedPair(pair, msg) ==
  [inq |-> PushInputQueue(pair.inq, msg),
   outq |-> IF IsRequest(msg) THEN ReserveSlot(pair.outq) ELSE pair.outq]

LEMMA PushPair ==
  ASSUME NEW pair, PairOk(pair), NEW msg \in MessageType, CanPushInput(pair.inq, msg),
         IsRequest(msg) => CheckHasSlot(pair.outq),
         NEW p, p = PushedPair(pair, msg)
  PROVE  /\ PairOk(p)
         /\ p.inq.queue = Append(pair.inq.queue, msg) /\ p.outq.queue = pair.outq.queue
         /\ OneMore(Contents(pair).in, Contents(p).in, msg)
         /\ SameTotals(Contents(pair).out, Contents(p).out)
         /\ IsRequest(msg) => Slots(Contents(pair), Contents(p), 0, 1)
         /\ IsResponse(msg) => Slots(Contents(pair), Contents(p), -1, 0)
<1> DEFINE q == pair.inq
           o == pair.outq
<1>1. /\ q \in InQueues /\ o \in OutQueues(MessageType)
      /\ q.queue \in Seq(MessageType) /\ q.queue \in Seq(Items)
      /\ q.num_slots_reserved \in Nat /\ o.num_slots_reserved \in Nat
      /\ Len(q.queue) \in Nat /\ Len(o.queue) \in Nat
  BY PairFields
<1>2. CheckSize(q) /\ CheckSize(o) /\ WellFormed(MessageType, o)
  BY DEF PairOk
<1>3. /\ msg \in Items
      /\ IsRequest(msg) <=> msg.kind = "Request"
      /\ IsRequest(msg) <=> ~IsResponse(msg)
  BY MessageFacts
<1>4. DEFAULT_QUEUE_CAPACITY \in Nat
  BY QueueCapacityAssumption
<1>5. /\ p.inq = PushInputQueue(q, msg)
      /\ p.outq = IF IsRequest(msg) THEN ReserveSlot(o) ELSE o
      /\ p = [inq |-> p.inq, outq |-> p.outq]
  BY DEF PushedPair
<1> HIDE DEF q, o
<1>6. /\ p.inq = [queue |-> Append(q.queue, msg),
                  num_slots_reserved |-> IF IsRequest(msg) THEN q.num_slots_reserved
                                         ELSE q.num_slots_reserved - 1]
  BY <1>1, <1>3, <1>5 DEF PushInputQueue, InQueues
<1>9. OneMore(Contents(pair).in, Contents(p).in, msg)
  <2>1. Contents(pair).in = q.queue /\ Contents(p).in = Append(q.queue, msg)
    BY <1>6 DEF Contents, q
  <2>2. ASSUME NEW w \in Weighings(MessageType)
        PROVE  Total(w, Append(q.queue, msg)) = Total(w, q.queue) + w[msg]
    <3>1. w \in [Items -> Nat]
      BY DEF Weighings, Items
    <3> QED BY <3>1, <1>1, <1>3, TotalAppend
  <2> QED BY <2>1, <2>2 DEF OneMore
<1>10. SameTotals(Contents(pair).out, Contents(p).out)
  <2>1. Contents(pair).out = o.queue /\ Contents(p).out = p.outq.queue
    BY DEF Contents, o
  <2>2. p.outq.queue = o.queue
    BY <1>2, <1>5, ReserveWellFormed
  <2> QED BY <2>1, <2>2 DEF SameTotals
<1>7. CASE IsRequest(msg)
  <2>1. CheckHasSlot(q) /\ CheckHasSlot(o)
    BY <1>3, <1>7 DEF CanPushInput, q, o
  <2>2. p.inq.queue = Append(q.queue, msg) /\ p.inq.num_slots_reserved = q.num_slots_reserved
    BY <1>6, <1>7
  <2>3. /\ WellFormed(MessageType, p.outq) /\ p.outq.queue = o.queue
        /\ p.outq.num_slots_reserved = o.num_slots_reserved + 1
    BY <1>2, <1>5, <1>7, ReserveWellFormed
  <2>4. p.inq \in InQueues
    BY <1>1, <1>6, <1>7 DEF InQueues
  <2>5. Len(p.inq.queue) = Len(q.queue) + 1
    BY <1>1, <2>2
  <2>6. CheckSize(p.inq) /\ CheckSize(p.outq)
    <3>1. UsedSlots(p.inq) = UsedSlots(q) + 1 /\ UsedSlots(p.outq) = UsedSlots(o) + 1
      <4>1. /\ Len(q.queue) \in Nat /\ Len(o.queue) \in Nat
            /\ q.num_slots_reserved \in Nat /\ o.num_slots_reserved \in Nat
        BY <1>1
      <4>2. /\ p.inq.num_slots_reserved = q.num_slots_reserved
            /\ p.outq.num_slots_reserved = o.num_slots_reserved + 1
            /\ Len(p.outq.queue) = Len(o.queue)
        BY <2>2, <2>3
      <4> QED BY <4>1, <4>2, <2>5, SlotsUsed
    <3>2. UsedSlots(q) \in Nat /\ UsedSlots(o) \in Nat
      BY <1>1, SMTT(20) DEF UsedSlots
    <3> QED BY <1>4, <2>1, <3>1, <3>2 DEF CheckSize, CheckHasSlot
  <2>7. PairOk(p)
    BY <1>5, <2>3, <2>4, <2>6 DEF PairOk, WellFormed
  <2>8. Slots(Contents(pair), Contents(p), 0, 1)
    BY <1>1, <2>2, <2>3 DEF Slots, Contents, q, o
  <2> QED BY <1>3, <1>7, <1>9, <1>10, <2>2, <2>3, <2>7, <2>8 DEF q, o
<1>8. CASE ~IsRequest(msg)
  <2>1. q.num_slots_reserved > 0
    BY <1>3, <1>8 DEF CanPushInput, HasReservedSlot, q
  <2>2. p.inq.queue = Append(q.queue, msg) /\ p.inq.num_slots_reserved = q.num_slots_reserved - 1
    BY <1>6, <1>8
  <2>3. p.outq = o
    BY <1>5, <1>8
  <2>4. p.inq \in InQueues
    <3>1. q.num_slots_reserved - 1 \in Nat
      <4>1. q.num_slots_reserved \in Nat
        BY <1>1
      <4> QED BY <4>1, <2>1
    <3>2. Append(q.queue, msg) \in Seq(MessageType)
      BY <1>1
    <3> QED BY <1>6, <1>8, <3>1, <3>2 DEF InQueues
  <2>5. Len(p.inq.queue) = Len(q.queue) + 1
    BY <1>1, <2>2
  <2>6. CheckSize(p.inq) /\ CheckSize(p.outq)
    BY <1>1, <1>2, <1>4, <2>1, <2>2, <2>3, <2>5 DEF CheckSize, UsedSlots
  <2>7. PairOk(p)
    BY <1>1, <1>2, <1>5, <2>3, <2>4, <2>6 DEF PairOk
  <2>8. Slots(Contents(pair), Contents(p), -1, 0)
    BY <1>1, <2>2, <2>3 DEF Slots, Contents, q, o
  <2> QED BY <1>3, <1>8, <1>9, <1>10, <2>2, <2>3, <2>7, <2>8 DEF q, o
<1> QED BY <1>7, <1>8

\* The schedules after a push: a sender with a first message is added to one.
LEMMA ScheduleOk ==
  ASSUME NEW c, ShapeOk(c), NEW id \in DOMAIN c.queues, NEW msg \in MessageType,
         CanPushInput(c.queues[id].inq, msg), IsRequest(msg) => CheckHasSlot(c.queues[id].outq),
         NEW c1, IsCq(c1), c1.queues = Put(c.queues, id, PushedPair(c.queues[id], msg)),
         c1.local = c.local, c1.remote = c.remote, c1.ingress = c.ingress, c1.next = c.next,
         NEW type, NEW d, d = Schedule(c1, id, type)
  PROVE  /\ ShapeOk(d) /\ Keeps(c, d)
         /\ d.queues = c1.queues /\ d.ingress = c.ingress /\ d.next = c.next
         /\ d.input_stats = c1.input_stats /\ d.output_stats = c1.output_stats
         /\ d.memory_stats = c1.memory_stats
<1> DEFINE Q == c.queues
           R == c1.queues
           p == PushedPair(c.queues[id], msg)
           P == PendingIn(Q)
<1>1. /\ QueueMap(Q) /\ c.ingress \in Nat /\ c.next \in InputSources
      /\ Once(c.local, c.remote, P)
      /\ c.local \in Seq(Canisters) /\ c.remote \in Seq(Canisters)
  BY DEF ShapeOk, Once
<1>2. PairOk(Q[id]) /\ id \in Canisters
  BY <1>1 DEF QueueMap
<1>3. PairOk(p) /\ p.inq.queue = Append(Q[id].inq.queue, msg)
  BY <1>2, PushPair
<1>4. Q[id].inq.queue \in Seq(MessageType) /\ Len(Q[id].inq.queue) \in Nat
  BY <1>2, PairFields
<1>5. Len(p.inq.queue) = Len(Q[id].inq.queue) + 1 /\ p.inq.queue # <<>>
  BY <1>3, <1>4
<1> HIDE DEF p, Q, R, P
<1>6. /\ QueueMap(R) /\ DOMAIN R = DOMAIN Q /\ R[id] = p /\ \A y \in DOMAIN Q \ {id} : R[y] = Q[y]
      /\ PendingIn(R) = P \cup {id}
  <2>1. R = Put(Q, id, p) /\ id \in DOMAIN Q
    BY DEF R, Q, p
  <2>2. QueueMap(Q) /\ PairOk(p) /\ p.inq.queue # <<>>
    BY <1>1, <1>3, <1>5
  <2>3. PendingIn(R) = PendingIn(Q) \cup {id}
    BY <2>1, <2>2, PutPair
  <2>4. /\ QueueMap(R) /\ DOMAIN R = DOMAIN Q /\ R[id] = p
        /\ \A y \in DOMAIN Q \ {id} : R[y] = Q[y]
    BY <2>1, <2>2, PutPair
  <2> QED BY <2>3, <2>4 DEF P
<1>7. Len(R[id].inq.queue) = 1 <=> id \notin P
  <2>1. R[id] = p /\ id \in DOMAIN Q
    BY <1>6 DEF Q
  <2>2. id \in P <=> Q[id].inq.queue # <<>>
    BY <2>1 DEF P, PendingIn
  <2>3. Q[id].inq.queue # <<>> <=> Len(Q[id].inq.queue) # 0
    BY <1>4
  <2>4. Len(Q[id].inq.queue) \in Nat
    BY <1>4
  <2>5. Len(R[id].inq.queue) = Len(Q[id].inq.queue) + 1
    BY <1>5, <2>1
  <2> QED BY <2>2, <2>3, <2>4, <2>5
<1>8. /\ d.queues = c1.queues /\ d.ingress = c.ingress /\ d.next = c.next
      /\ d.input_stats = c1.input_stats /\ d.output_stats = c1.output_stats
      /\ d.memory_stats = c1.memory_stats
      /\ IsCq(d)
      /\ IF id \in P THEN d.local = c.local /\ d.remote = c.remote
         ELSE \/ d.local = Append(c.local, id) /\ d.remote = c.remote
              \/ d.local = c.local /\ d.remote = Append(c.remote, id)
  <2>1. Len(c1.queues[id].inq.queue) = 1 <=> id \notin P
    BY <1>7 DEF R
  <2>2. CASE id \in P
    <3>1. d = c1
      BY <2>1, <2>2 DEF Schedule
    <3> QED BY <2>2, <3>1
  <2>3. CASE id \notin P /\ type = "LocalSubnet"
    <3>1. d = [c1 EXCEPT !.local = Append(@, id)]
      BY <2>1, <2>3 DEF Schedule
    <3> QED BY <2>3, <3>1 DEF IsCq
  <2>4. CASE id \notin P /\ type # "LocalSubnet"
    <3>1. d = [c1 EXCEPT !.remote = Append(@, id)]
      BY <2>1, <2>4 DEF Schedule
    <3> QED BY <2>4, <3>1 DEF IsCq
  <2> QED BY <2>2, <2>3, <2>4
<1>9. /\ Once(d.local, d.remote, P \cup {id})
      /\ Begins(c.local, d.local) /\ Begins(c.remote, d.remote)
  <2>0. Begins(c.local, c.local) /\ Begins(c.remote, c.remote)
    BY <1>1, BeginsReflexive
  <2>1. CASE id \in P
    <3>1. P \cup {id} = P
      BY <2>1
    <3> QED BY <1>1, <1>8, <2>0, <2>1, <3>1
  <2>2. CASE id \notin P /\ d.local = Append(c.local, id) /\ d.remote = c.remote
    BY <1>1, <1>2, <2>0, <2>2, OnceAppend
  <2>3. CASE id \notin P /\ d.local = c.local /\ d.remote = Append(c.remote, id)
    <3>1. Once(c.remote, c.local, P)
      BY <1>1, OnceCommutes
    <3>2. Once(Append(c.remote, id), c.local, P \cup {id}) /\ Begins(c.remote, Append(c.remote, id))
      BY <1>2, <2>3, <3>1, OnceAppend
    <3>3. Once(c.local, Append(c.remote, id), P \cup {id})
      BY <3>2, OnceCommutes
    <3> QED BY <2>0, <2>3, <3>2, <3>3
  <2> QED BY <1>8, <2>1, <2>2, <2>3
<1>10. ShapeOk(d)
  BY <1>1, <1>6, <1>8, <1>9 DEF ShapeOk, R
<1>11. ASSUME NEW y \in P
       PROVE  y \in PendingIn(d.queues) /\ Len(Q[y].inq.queue) <= Len(d.queues[y].inq.queue)
  <2>1. y \in PendingIn(d.queues)
    BY <1>6, <1>8 DEF R
  <2>2. y \in DOMAIN Q
    BY DEF P, PendingIn
  <2>3. Len(Q[y].inq.queue) \in Nat
    BY <1>1, <2>2, PairFields DEF QueueMap
  <2>4. CASE y = id
    BY <1>5, <1>6, <1>8, <2>1, <2>3, <2>4 DEF R
  <2>5. CASE y # id
    BY <1>6, <1>8, <2>1, <2>2, <2>3, <2>5 DEF R
  <2> QED BY <2>4, <2>5
<1>12. Keeps(c, d)
  BY <1>9, <1>11 DEF Keeps, P, Q
<1> QED BY <1>8, <1>10, <1>12

\* The contents of a pair when a message has come into its input queue.
MessageIn(f, g, msg) ==
  /\ OneMore(f.in, g.in, msg) /\ g.out = f.out
  /\ IsRequest(msg) => Slots(f, g, 0, 1)
  /\ IsResponse(msg) => Slots(f, g, -1, 0)

\* push_input.
LEMMA PushInputOk ==
  ASSUME NEW c, CqOk(c), NEW id \in Canisters, NEW msg \in MessageType, NEW type,
         NEW r, r = PushInput(c, id, msg, type)
  PROVE  /\ CqOk(r.cq) /\ Keeps(c, r.cq) /\ r.cq.ingress = c.ingress /\ r.cq.next = c.next
         /\ ~r.ok => SameContents(c.queues, r.cq.queues)
         /\ r.ok => /\ id \in DOMAIN r.cq.queues
                    /\ OnlyAt(c.queues, r.cq.queues, id)
                    /\ MessageIn(ContentsAt(c.queues, id), ContentsAt(r.cq.queues, id), msg)
         /\ IsResponse(msg) /\ ContentsAt(c.queues, id).ri > 0 => r.ok
         /\ r.ok \in BOOLEAN
<1> DEFINE c1 == IF IsRequest(msg) THEN GetOrInsertQueues(c, id) ELSE c
           ok == /\ id \in DOMAIN c1.queues
                 /\ CanPushInput(c1.queues[id].inq, msg)
                 /\ IsRequest(msg) => CheckHasSlot(c1.queues[id].outq)
           c2 == [c1 EXCEPT
                   !.queues[id] =
                      [inq  |-> PushInputQueue(@.inq, msg),
                       outq |-> IF IsRequest(msg) THEN ReserveSlot(@.outq) ELSE @.outq],
                   !.input_stats = Plus(@, InputQueuesStatsDelta("Push", msg)),
                   !.memory_stats = Plus(@, MemoryUsageStatsDelta("Push", msg))]
<1>1. r.ok = ok /\ r.cq = IF ~ok THEN c1 ELSE Schedule(c2, id, type)
  BY DEF PushInput
<1>2. /\ CqOk(c1) /\ SameContents(c.queues, c1.queues)
      /\ c1.local = c.local /\ c1.remote = c.remote
      /\ c1.ingress = c.ingress /\ c1.next = c.next
      /\ \A y \in DOMAIN c.queues : y \in DOMAIN c1.queues /\ c1.queues[y] = c.queues[y]
      /\ PendingIn(c1.queues) = PendingIn(c.queues)
  <2>1. CASE IsRequest(msg)
    <3>1. c1 = GetOrInsertQueues(c, id)
      BY <2>1
    <3> HIDE DEF c1
    <3> QED BY <3>1, InsertOk
  <2>2. CASE ~IsRequest(msg)
    <3>1. c1 = c
      BY <2>2
    <3> HIDE DEF c1
    <3> QED BY <3>1 DEF SameContents
  <2> QED BY <2>1, <2>2
<1>3. IsResponse(msg) => c1 = c /\ ~IsRequest(msg) /\ msg.kind # "Request"
  BY MessageFacts
<1>4. ok \in BOOLEAN
  OBVIOUS
<1> HIDE DEF c1
<1>5. ASSUME IsResponse(msg), ContentsAt(c.queues, id).ri > 0 PROVE ok
  <2>1. id \in DOMAIN c.queues
    BY <1>5 DEF ContentsAt, NoContents
  <2>2. c.queues[id].inq.num_slots_reserved > 0
    BY <1>5, <2>1 DEF ContentsAt, Contents
  <2> QED BY <1>3, <1>5, <2>1, <2>2 DEF CanPushInput, HasReservedSlot
<1>6. CASE ~ok
  <2>1. r.cq = c1
    BY <1>1, <1>6
  <2>2. Keeps(c, c1)
    BY <1>2, KeepsWhen DEF CqOk, PendingIn
  <2> QED BY <1>1, <1>2, <1>4, <1>5, <1>6, <2>1, <2>2
<1>7. CASE ok
  <2>1. r.ok /\ r.cq = Schedule(c2, id, type)
    BY <1>1, <1>7
  <2>2. /\ id \in DOMAIN c1.queues
        /\ CanPushInput(c1.queues[id].inq, msg)
        /\ IsRequest(msg) => CheckHasSlot(c1.queues[id].outq)
    BY <1>7
  <2> HIDE DEF ok
  <2>3. /\ ShapeOk(c1) /\ IsCq(c1) /\ StatsMatch(c1, AllContents(c1.queues))
        /\ QueueMap(c1.queues) /\ PairOk(c1.queues[id])
        /\ c1.queues[id] = [inq |-> c1.queues[id].inq, outq |-> c1.queues[id].outq]
    <3>1. ShapeOk(c1) /\ StatsMatch(c1, AllContents(c1.queues))
      BY <1>2 DEF CqOk
    <3>2. PairOk(c1.queues[id]) /\ IsCq(c1) /\ QueueMap(c1.queues)
      BY <2>2, <3>1 DEF ShapeOk, QueueMap
    <3> QED BY <3>1, <3>2 DEF PairOk
  <2> DEFINE p == PushedPair(c1.queues[id], msg)
  <2>4. /\ c2.queues = Put(c1.queues, id, p)
        /\ c2.local = c1.local /\ c2.remote = c1.remote
        /\ c2.ingress = c1.ingress /\ c2.next = c1.next
        /\ c2.input_stats = Plus(c1.input_stats, InputQueuesStatsDelta("Push", msg))
        /\ c2.output_stats = c1.output_stats
        /\ c2.memory_stats = Plus(c1.memory_stats, MemoryUsageStatsDelta("Push", msg))
        /\ IsCq(c2)
    <3>1. c2 = [c1 EXCEPT
                  !.queues = Put(c1.queues, id, p),
                  !.input_stats = Plus(c1.input_stats, InputQueuesStatsDelta("Push", msg)),
                  !.memory_stats = Plus(c1.memory_stats, MemoryUsageStatsDelta("Push", msg))]
      BY Zenon DEF PushedPair, Put
    <3> HIDE DEF c2, p
    <3> QED BY <2>3, <3>1 DEF IsCq
  <2> HIDE DEF c2
  <2>5. /\ ShapeOk(r.cq) /\ Keeps(c1, r.cq)
        /\ r.cq.queues = c2.queues /\ r.cq.ingress = c1.ingress /\ r.cq.next = c1.next
        /\ r.cq.input_stats = c2.input_stats /\ r.cq.output_stats = c2.output_stats
        /\ r.cq.memory_stats = c2.memory_stats
    BY <2>1, <2>2, <2>3, <2>4, ScheduleOk
  <2>6. /\ PairOk(p) /\ p.outq.queue = c1.queues[id].outq.queue
        /\ OneMore(Contents(c1.queues[id]).in, Contents(p).in, msg)
        /\ SameTotals(Contents(c1.queues[id]).out, Contents(p).out)
        /\ IsRequest(msg) => Slots(Contents(c1.queues[id]), Contents(p), 0, 1)
        /\ IsResponse(msg) => Slots(Contents(c1.queues[id]), Contents(p), -1, 0)
    BY <2>2, <2>3, PushPair
  <2> HIDE DEF p
  <2> DEFINE F == AllContents(c1.queues)
             G == AllContents(c2.queues)
  <2>7. /\ DOMAIN c2.queues = DOMAIN c1.queues
        /\ Changed(DOMAIN c1.queues, F, G, id)
        /\ F[id] = Contents(c1.queues[id]) /\ G[id] = Contents(p)
        /\ ContentsAt(c1.queues, id) = Contents(c1.queues[id])
        /\ ContentsAt(c2.queues, id) = Contents(p)
        /\ OnlyAt(c1.queues, c2.queues, id)
    BY <2>2, <2>3, <2>4, <2>6, PutPair
  <2> HIDE DEF F, G
  <2>8. F[id] \in ContentsSet /\ G[id] \in ContentsSet
    BY <2>7, ChangedTypes
  <2>9. /\ InFits(F[id], G[id], InputQueuesStatsDelta("Push", msg))
        /\ MemoryFits(F[id], G[id], MemoryUsageStatsDelta("Push", msg))
    BY <2>6, <2>7, <2>8, PushInFits
  <2>10. StatsMatch(c2, G)
    <3>1. c1.input_stats = InStats(F) /\ c1.output_stats = OutStats(F)
          /\ c1.memory_stats = MemoryStats(F)
      BY <2>3 DEF StatsMatch, F
    <3>2. InStats(G) = Plus(InStats(F), InputQueuesStatsDelta("Push", msg))
      BY <2>7, <2>9, InStatsPlus
    <3>3. MemoryStats(G) = Plus(MemoryStats(F), MemoryUsageStatsDelta("Push", msg))
      BY <2>7, <2>9, MemoryStatsPlus
    <3>4. OutStats(G) = OutStats(F)
      BY <2>6, <2>7, StatsSame
    <3> QED BY <2>4, <3>1, <3>2, <3>3, <3>4 DEF StatsMatch
  <2>11. CqOk(r.cq)
    BY <2>5, <2>10 DEF CqOk, StatsMatch, G
  <2>12. OnlyAt(c.queues, r.cq.queues, id)
    BY <1>2, <2>5, <2>7 DEF OnlyAt, SameContents
  <2>13. Contents(p).out = Contents(c1.queues[id]).out
    BY <2>6 DEF Contents
  <2>14. ContentsAt(c.queues, id) = Contents(c1.queues[id])
    BY <1>2, <2>7 DEF SameContents
  <2>15. MessageIn(ContentsAt(c.queues, id), ContentsAt(r.cq.queues, id), msg)
    BY <2>5, <2>6, <2>7, <2>13, <2>14 DEF MessageIn
  <2>16. Keeps(c, r.cq)
    <3>1. ASSUME NEW y \in PendingIn(c.queues)
          PROVE  /\ y \in PendingIn(r.cq.queues)
                 /\ Len(c.queues[y].inq.queue) <= Len(r.cq.queues[y].inq.queue)
      <4>1. y \in PendingIn(c1.queues) /\ c1.queues[y] = c.queues[y]
        BY <1>2 DEF PendingIn
      <4> QED BY <2>5, <4>1 DEF Keeps
    <3>2. Begins(c.local, r.cq.local) /\ Begins(c.remote, r.cq.remote)
      BY <1>2, <2>5 DEF Keeps
    <3> QED BY <3>1, <3>2 DEF Keeps
  <2> QED BY <1>2, <2>1, <2>2, <2>5, <2>7, <2>11, <2>12, <2>15, <2>16
<1> QED BY <1>4, <1>6, <1>7

\* A message is popped from the input queue of a pair.
PoppedPair(pair) == [pair EXCEPT !.inq = PopInputQueue(@)]

LEMMA PopPair ==
  ASSUME NEW pair, PairOk(pair), pair.inq.queue # <<>>, NEW p, p = PoppedPair(pair)
  PROVE  /\ PairOk(p) /\ p.inq = PopInputQueue(pair.inq) /\ p.outq = pair.outq
         /\ p.inq.queue = Tail(pair.inq.queue)
         /\ Head(pair.inq.queue) \in MessageType
         /\ OneMore(Contents(p).in, Contents(pair).in, Head(pair.inq.queue))
         /\ SameTotals(Contents(p).out, Contents(pair).out)
         /\ Contents(p).out = Contents(pair).out
         /\ Slots(Contents(p), Contents(pair), 0, 0)
<1> DEFINE q == pair.inq
<1>1. /\ q \in InQueues /\ pair.outq \in OutQueues(MessageType)
      /\ q.queue \in Seq(MessageType) /\ q.queue \in Seq(Items)
      /\ q.num_slots_reserved \in Nat /\ pair.outq.num_slots_reserved \in Nat
      /\ Len(q.queue) \in Nat
  BY PairFields
<1>2. CheckSize(q) /\ CheckSize(pair.outq) /\ WellFormed(MessageType, pair.outq)
  BY DEF PairOk
<1>3. /\ p.inq = PopInputQueue(q) /\ p.outq = pair.outq /\ p = [inq |-> p.inq, outq |-> p.outq]
  BY DEF PairOk, PoppedPair
<1> HIDE DEF q
<1>4. /\ p.inq = [queue |-> Tail(q.queue), num_slots_reserved |-> q.num_slots_reserved]
  BY <1>1, <1>3 DEF PopInputQueue, InQueues
<1>5. /\ Tail(q.queue) \in Seq(MessageType) /\ Tail(q.queue) \in Seq(Items)
      /\ Len(Tail(q.queue)) = Len(q.queue) - 1 /\ Len(q.queue) >= 1
      /\ Head(q.queue) \in MessageType /\ Head(q.queue) = q.queue[1]
  BY <1>1 DEF q
<1>6. p.inq \in InQueues
  BY <1>1, <1>4, <1>5 DEF InQueues
<1>7. CheckSize(p.inq)
  <2>1. Len(p.inq.queue) = Len(q.queue) - 1 /\ p.inq.num_slots_reserved = q.num_slots_reserved
    BY <1>4, <1>5
  <2>2. Len(q.queue) \in Nat /\ q.num_slots_reserved \in Nat /\ Len(q.queue) >= 1
    BY <1>1, <1>5
  <2>3. UsedSlots(p.inq) \in Nat /\ UsedSlots(q) \in Nat /\ UsedSlots(p.inq) <= UsedSlots(q)
    BY <2>1, <2>2 DEF UsedSlots
  <2> QED BY <1>2, <2>3, QueueCapacityAssumption DEF CheckSize
<1>8. PairOk(p)
  BY <1>1, <1>2, <1>3, <1>6, <1>7 DEF PairOk
<1>9. /\ Contents(p).in = Tail(q.queue) /\ Contents(pair).in = q.queue
      /\ Contents(p).out = Contents(pair).out
      /\ Contents(p).ri = q.num_slots_reserved /\ Contents(pair).ri = q.num_slots_reserved
      /\ Contents(p).ro = Contents(pair).ro /\ Contents(pair).ro = pair.outq.num_slots_reserved
  BY <1>3, <1>4 DEF Contents, q
<1>10. OneMore(Contents(p).in, Contents(pair).in, Head(q.queue))
  <2>1. ASSUME NEW w \in Weighings(MessageType)
        PROVE  Total(w, q.queue) = Total(w, Tail(q.queue)) + w[Head(q.queue)]
    <3>1. w \in [Items -> Nat]
      BY DEF Weighings, Items
    <3>2. Total(w, q.queue) = w[q.queue[1]] + Total(w, Tail(q.queue))
      BY <3>1, <1>1, <1>5, TotalTail
    <3>3. Total(w, Tail(q.queue)) \in Nat /\ w[q.queue[1]] \in Nat
      BY <3>1, <1>1, <1>5, TotalType, MessageFacts
    <3> QED BY <1>5, <3>2, <3>3
  <2> QED BY <1>9, <2>1 DEF OneMore
<1>11. Slots(Contents(p), Contents(pair), 0, 0)
  <2>1. q.num_slots_reserved \in Nat /\ pair.outq.num_slots_reserved \in Nat
    BY <1>1
  <2> QED BY <1>9, <2>1 DEF Slots
<1>12. SameTotals(Contents(p).out, Contents(pair).out)
  BY <1>9 DEF SameTotals
<1> QED BY <1>3, <1>4, <1>5, <1>8, <1>9, <1>10, <1>11, <1>12 DEF q

LEMMA ConcatOne ==
  ASSUME NEW S, NEW s \in Seq(S), NEW x \in S
  PROVE  s \o <<x>> = Append(s, x) /\ s \o <<>> = s
OBVIOUS

\* The sender served is taken from the front of its schedule, and goes to the
\* back if it has more messages.
Served(c, l, m, sender) ==
  IF Len(c.queues[sender].inq.queue) > 1 THEN m = Append(Tail(l), sender) ELSE m = Tail(l)

LEMMA PopScheduleServes ==
  ASSUME NEW c, NEW l \in Seq(Canisters), l # <<>>
  PROVE  Served(c, l, PopSchedule(c, l), Head(l))
<1>1. Tail(l) \in Seq(Canisters) /\ Head(l) \in Canisters
  OBVIOUS
<1>2. Tail(l) \o <<Head(l)>> = Append(Tail(l), Head(l)) /\ Tail(l) \o <<>> = Tail(l)
  BY <1>1, ConcatOne
<1> QED BY <1>2 DEF Served, PopSchedule

LEMMA OnceServed ==
  ASSUME NEW c, NEW l, NEW r, Once(l, r, PendingIn(c.queues)), l # <<>>, QueueMap(c.queues),
         NEW m, Served(c, l, m, Head(l)), NEW R, R = Put(c.queues, Head(l), PoppedPair(c.queues[Head(l)]))
  PROVE  Once(m, r, PendingIn(R))
<1> DEFINE s == Head(l)
           Q == c.queues
<1>1. s \in PendingIn(Q) /\ s \in DOMAIN Q /\ s \in Canisters /\ Q[s].inq.queue # <<>>
  <2>1. s \in PendingIn(Q) /\ s \in Canisters
    BY OncePop
  <2> QED BY <2>1 DEF PendingIn
<1>2. /\ Once(Tail(l), r, PendingIn(Q) \ {s})
      /\ Once(Append(Tail(l), s), r, PendingIn(Q))
  BY OncePop
<1>3. PairOk(Q[s])
  BY <1>1 DEF QueueMap
<1> HIDE DEF s, Q
<1> DEFINE p == PoppedPair(Q[s])
<1>4. PairOk(p) /\ p.inq.queue = Tail(Q[s].inq.queue)
  BY <1>1, <1>3, PopPair
<1>5. Q[s].inq.queue \in Seq(MessageType) /\ Len(Q[s].inq.queue) \in Nat
  BY <1>3, PairFields
<1>6. Len(Q[s].inq.queue) > 1 <=> p.inq.queue # <<>>
  <2>1. Len(p.inq.queue) = Len(Q[s].inq.queue) - 1 /\ p.inq.queue \in Seq(MessageType)
    BY <1>1, <1>4, <1>5
  <2>2. \A t \in Seq(MessageType) : t # <<>> <=> Len(t) # 0
    OBVIOUS
  <2>3. Len(Q[s].inq.queue) \in Nat /\ Len(Q[s].inq.queue) # 0
    BY <1>1, <1>5
  <2> HIDE DEF p
  <2>4. p.inq.queue # <<>> <=> Len(p.inq.queue) # 0
    BY <2>1, <2>2
  <2> QED BY <2>1, <2>3, <2>4
<1> HIDE DEF p
<1>7. QueueMap(Q) /\ R = Put(Q, s, p)
  BY DEF Q, s, p
<1>8. /\ p.inq.queue = <<>> => PendingIn(R) = PendingIn(Q) \ {s}
      /\ p.inq.queue # <<>> => PendingIn(R) = PendingIn(Q) \cup {s}
  <2>1. s \in DOMAIN Q /\ PairOk(p)
    BY <1>1, <1>4
  <2> QED BY <1>7, <2>1, PutPair
<1>9. PendingIn(Q) \cup {s} = PendingIn(Q)
  BY <1>1
<1>10. Served(c, l, m, s) /\ c.queues = Q
  BY DEF s, Q
<1>11. CASE Len(Q[s].inq.queue) > 1
  BY <1>2, <1>6, <1>8, <1>9, <1>10, <1>11 DEF Served
<1>12. CASE ~(Len(Q[s].inq.queue) > 1)
  BY <1>2, <1>6, <1>8, <1>10, <1>12 DEF Served
<1> QED BY <1>11, <1>12

\* How a statistic follows the contents of a pair that change from f to g.
InFollows(s, t, f, g) ==
  \/ SameTotals(f.in, g.in) /\ g.ri = f.ri /\ t = s
  \/ \E d : InFits(f, g, d) /\ t = Plus(s, d)
  \/ \E d : InFits(g, f, d) /\ t = Minus(s, d)

OutFollows(s, t, f, g) ==
  \/ SameTotals(f.out, g.out) /\ t = s
  \/ \E d : OutFits(f, g, d) /\ t = Plus(s, d)
  \/ \E d : OutFits(g, f, d) /\ t = Minus(s, d)

MemoryFollows(s, t, f, g) ==
  \/ \E d : MemoryFits(f, g, d) /\ t = Plus(s, d)
  \/ \E d : MemoryFits(g, f, d) /\ t = Minus(s, d)

LEMMA StatsFollow ==
  ASSUME NEW D, NEW F, NEW G, NEW x, Changed(D, F, G, x), NEW c, NEW d, StatsMatch(c, F),
         InFollows(c.input_stats, d.input_stats, F[x], G[x]),
         OutFollows(c.output_stats, d.output_stats, F[x], G[x]),
         MemoryFollows(c.memory_stats, d.memory_stats, F[x], G[x])
  PROVE  StatsMatch(d, G)
<1>1. c.input_stats = InStats(F) /\ c.output_stats = OutStats(F) /\ c.memory_stats = MemoryStats(F)
  BY DEF StatsMatch
<1>2. d.input_stats = InStats(G)
  <2>1. CASE SameTotals(F[x].in, G[x].in) /\ G[x].ri = F[x].ri /\ d.input_stats = c.input_stats
    BY <1>1, <2>1, StatsSame
  <2>2. ASSUME NEW e, InFits(F[x], G[x], e), d.input_stats = Plus(c.input_stats, e)
        PROVE  d.input_stats = InStats(G)
    BY <1>1, <2>2, InStatsPlus
  <2>3. ASSUME NEW e, InFits(G[x], F[x], e), d.input_stats = Minus(c.input_stats, e)
        PROVE  d.input_stats = InStats(G)
    BY <1>1, <2>3, StatsMinus
  <2> QED BY <2>1, <2>2, <2>3 DEF InFollows
<1>3. d.output_stats = OutStats(G)
  <2>1. CASE SameTotals(F[x].out, G[x].out) /\ d.output_stats = c.output_stats
    BY <1>1, <2>1, StatsSame
  <2>2. ASSUME NEW e, OutFits(F[x], G[x], e), d.output_stats = Plus(c.output_stats, e)
        PROVE  d.output_stats = OutStats(G)
    BY <1>1, <2>2, OutStatsPlus
  <2>3. ASSUME NEW e, OutFits(G[x], F[x], e), d.output_stats = Minus(c.output_stats, e)
        PROVE  d.output_stats = OutStats(G)
    BY <1>1, <2>3, StatsMinus
  <2> QED BY <2>1, <2>2, <2>3 DEF OutFollows
<1>4. d.memory_stats = MemoryStats(G)
  <2>2. ASSUME NEW e, MemoryFits(F[x], G[x], e), d.memory_stats = Plus(c.memory_stats, e)
        PROVE  d.memory_stats = MemoryStats(G)
    BY <1>1, <2>2, MemoryStatsPlus
  <2>3. ASSUME NEW e, MemoryFits(G[x], F[x], e), d.memory_stats = Minus(c.memory_stats, e)
        PROVE  d.memory_stats = MemoryStats(G)
    BY <1>1, <2>3, StatsMinus
  <2> QED BY <2>2, <2>3 DEF MemoryFollows
<1> QED BY <1>2, <1>3, <1>4 DEF StatsMatch

\* A pair is replaced, and the statistics follow.
LEMMA PutOk ==
  ASSUME NEW c, CqOk(c), NEW id \in DOMAIN c.queues, NEW p, PairOk(p), NEW d, IsCq(d),
         d.queues = Put(c.queues, id, p), d.ingress \in Nat, d.next \in InputSources,
         Once(d.local, d.remote, PendingIn(d.queues)),
         InFollows(c.input_stats, d.input_stats, Contents(c.queues[id]), Contents(p)),
         OutFollows(c.output_stats, d.output_stats, Contents(c.queues[id]), Contents(p)),
         MemoryFollows(c.memory_stats, d.memory_stats, Contents(c.queues[id]), Contents(p))
  PROVE  /\ CqOk(d)
         /\ DOMAIN d.queues = DOMAIN c.queues /\ d.queues[id] = p
         /\ \A y \in DOMAIN c.queues \ {id} : d.queues[y] = c.queues[y]
         /\ OnlyAt(c.queues, d.queues, id)
         /\ ContentsAt(c.queues, id) = Contents(c.queues[id])
         /\ ContentsAt(d.queues, id) = Contents(p)
<1> DEFINE F == AllContents(c.queues)
           G == AllContents(d.queues)
<1>1. QueueMap(c.queues) /\ StatsMatch(c, F)
  BY DEF CqOk, ShapeOk
<1>2. /\ QueueMap(d.queues) /\ DOMAIN d.queues = DOMAIN c.queues /\ d.queues[id] = p
      /\ \A y \in DOMAIN c.queues \ {id} : d.queues[y] = c.queues[y]
      /\ Changed(DOMAIN c.queues, F, G, id)
      /\ F[id] = Contents(c.queues[id]) /\ G[id] = Contents(p)
      /\ OnlyAt(c.queues, d.queues, id)
      /\ ContentsAt(c.queues, id) = Contents(c.queues[id])
      /\ ContentsAt(d.queues, id) = Contents(p)
  BY <1>1, PutPair
<1> HIDE DEF F, G
<1>3. StatsMatch(d, G)
  BY <1>1, <1>2, StatsFollow
<1>4. ShapeOk(d)
  BY <1>2 DEF ShapeOk
<1> QED BY <1>2, <1>3, <1>4 DEF CqOk, G

\* The contents of a pair when a message has gone from its input queue.
MessageOut(f, g, msg) == OneMore(g.in, f.in, msg) /\ g.out = f.out /\ Slots(g, f, 0, 0)

\* pop_canister_input.
LEMMA PopCanisterOk ==
  ASSUME NEW c, CqOk(c), NEW source \in {"LocalSubnet", "RemoteSubnet"}, HasInput(c, source),
         NEW d, d = PopCanisterInput(c, source), NEW s, s = SenderServed(c, source)
  PROVE  /\ CqOk(d) /\ d.ingress = c.ingress /\ d.next = c.next
         /\ s \in DOMAIN c.queues /\ s \in Canisters
         /\ Head(c.queues[s].inq.queue) \in MessageType
         /\ DOMAIN d.queues = DOMAIN c.queues
         /\ d.queues[s].inq = PopInputQueue(c.queues[s].inq)
         /\ \A y \in DOMAIN c.queues \ {s} : d.queues[y] = c.queues[y]
         /\ OnlyAt(c.queues, d.queues, s)
         /\ MessageOut(ContentsAt(c.queues, s), ContentsAt(d.queues, s),
                       Head(c.queues[s].inq.queue))
         /\ source = "LocalSubnet" => /\ c.local # <<>> /\ s = Head(c.local)
                                      /\ Served(c, c.local, d.local, s) /\ d.remote = c.remote
         /\ source = "RemoteSubnet" => /\ c.remote # <<>> /\ s = Head(c.remote)
                                       /\ Served(c, c.remote, d.remote, s) /\ d.local = c.local
<1> DEFINE Q == c.queues
           msg == Head(Q[s].inq.queue)
           p == PoppedPair(Q[s])
<1>1. /\ IsCq(c) /\ QueueMap(Q) /\ c.ingress \in Nat /\ c.next \in InputSources
      /\ Once(c.local, c.remote, PendingIn(Q)) /\ Once(c.remote, c.local, PendingIn(Q))
      /\ c.local \in Seq(Canisters) /\ c.remote \in Seq(Canisters)
  <2>1. Once(c.local, c.remote, PendingIn(Q))
    BY DEF CqOk, ShapeOk
  <2>2. Once(c.remote, c.local, PendingIn(Q))
    BY <2>1, OnceCommutes
  <2> QED BY <2>1, <2>2 DEF CqOk, ShapeOk, Once
<1>2. /\ source = "LocalSubnet" => c.local # <<>> /\ s = Head(c.local)
      /\ source = "RemoteSubnet" => c.remote # <<>> /\ s = Head(c.remote)
  BY DEF HasInput, SenderServed
<1>3. s \in PendingIn(Q) /\ s \in Canisters
  BY <1>1, <1>2, OncePop
<1>4. s \in DOMAIN Q /\ Q[s].inq.queue # <<>> /\ PairOk(Q[s])
  BY <1>1, <1>3 DEF PendingIn, QueueMap
<1>5. /\ PairOk(p) /\ p.inq = PopInputQueue(Q[s].inq)
      /\ msg \in MessageType
      /\ OneMore(Contents(p).in, Contents(Q[s]).in, msg)
      /\ SameTotals(Contents(p).out, Contents(Q[s]).out)
      /\ Contents(p).out = Contents(Q[s]).out
      /\ Slots(Contents(p), Contents(Q[s]), 0, 0)
  BY <1>4, PopPair
<1>6. d = [c EXCEPT
             !.local = IF source = "LocalSubnet" THEN PopSchedule(c, c.local) ELSE c.local,
             !.remote = IF source = "RemoteSubnet" THEN PopSchedule(c, c.remote) ELSE c.remote,
             !.queues = Put(Q, s, p),
             !.input_stats = Minus(c.input_stats, InputQueuesStatsDelta("Pop", msg)),
             !.memory_stats = Minus(c.memory_stats, MemoryUsageStatsDelta("Pop", msg))]
  BY Zenon DEF PopCanisterInput, Put, PoppedPair
<1> HIDE DEF p, msg
<1>7. /\ d.local = IF source = "LocalSubnet" THEN PopSchedule(c, c.local) ELSE c.local
      /\ d.remote = IF source = "RemoteSubnet" THEN PopSchedule(c, c.remote) ELSE c.remote
      /\ d.queues = Put(Q, s, p) /\ d.ingress = c.ingress /\ d.next = c.next
      /\ d.input_stats = Minus(c.input_stats, InputQueuesStatsDelta("Pop", msg))
      /\ d.memory_stats = Minus(c.memory_stats, MemoryUsageStatsDelta("Pop", msg))
      /\ d.output_stats = c.output_stats /\ IsCq(d)
  BY <1>1, <1>6 DEF IsCq
<1>8. /\ source = "LocalSubnet" => Served(c, c.local, d.local, s) /\ d.remote = c.remote
      /\ source = "RemoteSubnet" => Served(c, c.remote, d.remote, s) /\ d.local = c.local
  BY <1>1, <1>2, <1>7, PopScheduleServes
<1>9. Once(d.local, d.remote, PendingIn(d.queues))
  <2>1. d.queues = Put(c.queues, s, PoppedPair(c.queues[s])) /\ QueueMap(c.queues)
    BY <1>1, <1>7 DEF p
  <2>2. CASE source = "LocalSubnet"
    <3>1. Once(d.local, c.remote, PendingIn(d.queues))
      BY <1>1, <1>2, <1>8, <2>1, <2>2, OnceServed
    <3> QED BY <1>8, <2>2, <3>1
  <2>3. CASE source = "RemoteSubnet"
    <3>1. Once(d.remote, c.local, PendingIn(d.queues))
      BY <1>1, <1>2, <1>8, <2>1, <2>3, OnceServed
    <3> QED BY <1>8, <2>3, <3>1, OnceCommutes
  <2> QED BY <2>2, <2>3
<1>10. Contents(p) \in ContentsSet /\ Contents(Q[s]) \in ContentsSet
  BY <1>4, <1>5, PairFields
<1>11. /\ InFits(Contents(p), Contents(Q[s]), InputQueuesStatsDelta("Pop", msg))
       /\ MemoryFits(Contents(p), Contents(Q[s]), MemoryUsageStatsDelta("Pop", msg))
  BY <1>5, <1>10, PopInFits
<1>12. /\ InFollows(c.input_stats, d.input_stats, Contents(Q[s]), Contents(p))
       /\ MemoryFollows(c.memory_stats, d.memory_stats, Contents(Q[s]), Contents(p))
  BY <1>7, <1>11 DEF InFollows, MemoryFollows
<1>13. OutFollows(c.output_stats, d.output_stats, Contents(Q[s]), Contents(p))
  BY <1>5, <1>7 DEF OutFollows, SameTotals
<1>14. /\ CqOk(d)
       /\ DOMAIN d.queues = DOMAIN c.queues /\ d.queues[s] = p
       /\ \A y \in DOMAIN c.queues \ {s} : d.queues[y] = c.queues[y]
       /\ OnlyAt(c.queues, d.queues, s)
       /\ ContentsAt(c.queues, s) = Contents(c.queues[s])
       /\ ContentsAt(d.queues, s) = Contents(p)
  BY <1>1, <1>4, <1>5, <1>7, <1>9, <1>12, <1>13, PutOk
<1>15. MessageOut(ContentsAt(c.queues, s), ContentsAt(d.queues, s), msg)
  BY <1>5, <1>14 DEF MessageOut
<1> QED BY <1>2, <1>3, <1>4, <1>5, <1>7, <1>8, <1>14, <1>15 DEF msg

\* Neither the ingress queue nor the position of the round robin touch the rest.
LEMMA OthersOk ==
  ASSUME NEW c, CqOk(c), NEW d, IsCq(d), d.ingress \in Nat, d.next \in InputSources,
         d.queues = c.queues, d.local = c.local, d.remote = c.remote,
         d.input_stats = c.input_stats, d.output_stats = c.output_stats,
         d.memory_stats = c.memory_stats
  PROVE  CqOk(d) /\ Keeps(c, d) /\ SameContents(c.queues, d.queues)
<1>1. CqOk(d)
  BY DEF CqOk, ShapeOk, StatsMatch
<1>2. Keeps(c, d)
  BY KeepsWhen DEF CqOk
<1> QED BY <1>1, <1>2 DEF SameContents

\* The source chosen has a message if any has.
LEMMA NextSourceHasInput ==
  ASSUME NEW c, c.next \in InputSources, \E source \in InputSources : HasInput(c, source)
  PROVE  /\ NextSource(c) \in InputSources /\ HasInput(c, NextSource(c))
         /\ After(NextSource(c)) \in InputSources
<1>1. /\ After("LocalSubnet") = "Ingress" /\ After("Ingress") = "RemoteSubnet"
      /\ After("RemoteSubnet") = "LocalSubnet"
  BY DEF After
<1>2. PICK source \in InputSources : HasInput(c, source)
  OBVIOUS
<1> HIDE DEF HasInput
<1>3. source \in {c.next, After(c.next), After(After(c.next))}
  BY <1>1 DEF InputSources
<1>4. NextSource(c) \in {c.next, After(c.next), After(After(c.next))}
  BY DEF NextSource
<1>5. HasInput(c, NextSource(c))
  BY <1>2, <1>3 DEF NextSource
<1> QED BY <1>1, <1>4, <1>5 DEF InputSources

\* pop_input.
LEMMA PopInputOk ==
  ASSUME NEW c, CqOk(c), \E source \in InputSources : HasInput(c, source),
         NEW d, d = PopInput(c), NEW source, source = NextSource(c),
         NEW s, s = SenderServed(c, source)
  PROVE  /\ CqOk(d) /\ source \in InputSources
         /\ source = "Ingress" => /\ d.ingress = c.ingress - 1
                                  /\ Keeps(c, d) /\ SameContents(c.queues, d.queues)
         /\ source # "Ingress" =>
              /\ d.ingress = c.ingress
              /\ s \in DOMAIN c.queues /\ s \in Canisters
              /\ Head(c.queues[s].inq.queue) \in MessageType
              /\ DOMAIN d.queues = DOMAIN c.queues
              /\ d.queues[s].inq = PopInputQueue(c.queues[s].inq)
              /\ \A y \in DOMAIN c.queues \ {s} : d.queues[y] = c.queues[y]
              /\ OnlyAt(c.queues, d.queues, s)
              /\ MessageOut(ContentsAt(c.queues, s), ContentsAt(d.queues, s),
                            Head(c.queues[s].inq.queue))
              /\ \/ /\ c.local # <<>> /\ s = Head(c.local)
                    /\ Served(c, c.local, d.local, s) /\ d.remote = c.remote
                 \/ /\ c.remote # <<>> /\ s = Head(c.remote)
                    /\ Served(c, c.remote, d.remote, s) /\ d.local = c.local
<1>1. IsCq(c) /\ c.ingress \in Nat /\ c.next \in InputSources
  BY DEF CqOk, ShapeOk
<1>2. source \in InputSources /\ HasInput(c, source) /\ After(source) \in InputSources
  BY <1>1, NextSourceHasInput
<1> DEFINE n == After(source)
<1> HIDE DEF n
<1>3. n \in InputSources
  BY <1>2 DEF n
<1>4. CASE source = "Ingress"
  <2>1. d = [[c EXCEPT !.ingress = @ - 1] EXCEPT !.next = n]
    BY <1>4 DEF PopInput, n
  <2>2. c.ingress > 0
    BY <1>2, <1>4 DEF HasInput
  <2>3. c.ingress - 1 \in Nat
    BY <1>1, <2>2
  <2>4. /\ IsCq(d) /\ d.ingress = c.ingress - 1 /\ d.next = n
        /\ d.queues = c.queues /\ d.local = c.local /\ d.remote = c.remote
        /\ d.input_stats = c.input_stats /\ d.output_stats = c.output_stats
        /\ d.memory_stats = c.memory_stats
    BY <1>1, <2>1 DEF IsCq
  <2>5. CqOk(d) /\ Keeps(c, d) /\ SameContents(c.queues, d.queues)
    BY <1>3, <2>3, <2>4, OthersOk
  <2> QED BY <1>2, <1>4, <2>4, <2>5
<1>5. CASE source # "Ingress"
  <2>1. source \in {"LocalSubnet", "RemoteSubnet"}
    BY <1>2, <1>5 DEF InputSources
  <2> DEFINE e == PopCanisterInput(c, source)
  <2>2. d = [e EXCEPT !.next = n]
    BY <1>5 DEF PopInput, n
  <2> HIDE DEF e
  <2>3. /\ CqOk(e) /\ e.ingress = c.ingress
        /\ s \in DOMAIN c.queues /\ s \in Canisters
        /\ Head(c.queues[s].inq.queue) \in MessageType
        /\ DOMAIN e.queues = DOMAIN c.queues
        /\ e.queues[s].inq = PopInputQueue(c.queues[s].inq)
        /\ \A y \in DOMAIN c.queues \ {s} : e.queues[y] = c.queues[y]
        /\ OnlyAt(c.queues, e.queues, s)
        /\ MessageOut(ContentsAt(c.queues, s), ContentsAt(e.queues, s),
                      Head(c.queues[s].inq.queue))
    BY <1>2, <2>1, PopCanisterOk DEF e
  <2>4. \/ /\ c.local # <<>> /\ s = Head(c.local)
           /\ Served(c, c.local, e.local, s) /\ e.remote = c.remote
        \/ /\ c.remote # <<>> /\ s = Head(c.remote)
           /\ Served(c, c.remote, e.remote, s) /\ e.local = c.local
    BY <1>2, <2>1, PopCanisterOk DEF e
  <2>5. IsCq(e) /\ e.ingress \in Nat
    BY <2>3 DEF CqOk, ShapeOk
  <2>6. /\ IsCq(d) /\ d.ingress = e.ingress /\ d.next = n
        /\ d.queues = e.queues /\ d.local = e.local /\ d.remote = e.remote
        /\ d.input_stats = e.input_stats /\ d.output_stats = e.output_stats
        /\ d.memory_stats = e.memory_stats
    BY <2>2, <2>5 DEF IsCq
  <2>7. CqOk(d)
    BY <1>3, <2>3, <2>5, <2>6, OthersOk
  <2> QED BY <1>2, <1>5, <2>3, <2>4, <2>6, <2>7
<1> QED BY <1>4, <1>5

-----------------------------------------------------------------------------
(* Output. *)

LEMMA ReserveInput ==
  ASSUME NEW q \in InQueues, CheckHasSlot(q), NEW p, p = ReserveSlot(q)
  PROVE  /\ p \in InQueues /\ CheckSize(p) /\ p.queue = q.queue
         /\ p.num_slots_reserved = q.num_slots_reserved + 1
<1>1. /\ p = [queue |-> q.queue, num_slots_reserved |-> q.num_slots_reserved + 1]
      /\ q.queue \in Seq(MessageType) /\ q.num_slots_reserved \in Nat
  BY DEF ReserveSlot, InQueues
<1>2. Len(q.queue) \in Nat /\ DEFAULT_QUEUE_CAPACITY \in Nat
  BY <1>1, QueueCapacityAssumption
<1>3. p.queue = q.queue /\ p.num_slots_reserved = q.num_slots_reserved + 1
  BY <1>1
<1>4. UsedSlots(p) = UsedSlots(q) + 1 /\ UsedSlots(q) \in Nat
  <2>1. Len(p.queue) = Len(q.queue) /\ q.num_slots_reserved \in Nat
    BY <1>1, <1>3
  <2> QED BY <1>2, <1>3, <2>1, SlotsUsed
<1>5. CheckSize(p)
  BY <1>2, <1>4 DEF CheckHasSlot, CheckSize
<1>6. p \in InQueues
  BY <1>1 DEF InQueues
<1> QED BY <1>3, <1>5, <1>6

\* One message more at the end of a queue.
LEMMA AppendOneMore ==
  ASSUME NEW s \in Seq(Items), NEW msg \in MessageType
  PROVE  OneMore(s, Append(s, msg), msg)
<1>1. msg \in Items
  BY MessageFacts
<1>2. ASSUME NEW w \in Weighings(MessageType)
      PROVE  Total(w, Append(s, msg)) = Total(w, s) + w[msg]
  <2>1. w \in [Items -> Nat]
    BY DEF Weighings, Items
  <2> QED BY <1>1, <2>1, TotalAppend
<1> QED BY <1>2 DEF OneMore

\* A pair with a call more: the request, and the slot for its response.
CalledPair(pair, msg, deadline) ==
  [inq |-> ReserveSlot(pair.inq), outq |-> PushRequest(pair.outq, msg, deadline)]

LEMMA CallPair ==
  ASSUME NEW pair, PairOk(pair), CheckHasSlot(pair.outq), CheckHasSlot(pair.inq),
         NEW msg \in MessageType, NEW deadline \in Nat,
         NEW p, p = CalledPair(pair, msg, deadline)
  PROVE  /\ PairOk(p) /\ p.inq.queue = pair.inq.queue
         /\ Contents(p).in = Contents(pair).in
         /\ OneMore(Contents(pair).out, Contents(p).out, msg)
         /\ Slots(Contents(pair), Contents(p), 1, 0)
<1> DEFINE q == pair.inq
           o == pair.outq
<1>1. /\ q \in InQueues /\ o.queue \in Seq(Items)
      /\ q.num_slots_reserved \in Nat /\ o.num_slots_reserved \in Nat
      /\ Len(o.queue) \in Nat /\ WellFormed(MessageType, o)
  BY PairFields DEF PairOk
<1>2. p.inq = ReserveSlot(q) /\ p.outq = PushRequest(o, msg, deadline)
      /\ p = [inq |-> p.inq, outq |-> p.outq]
  BY DEF CalledPair
<1> HIDE DEF q, o
<1>3. /\ p.inq \in InQueues /\ CheckSize(p.inq) /\ p.inq.queue = q.queue
      /\ p.inq.num_slots_reserved = q.num_slots_reserved + 1
  BY <1>1, <1>2, ReserveInput DEF q
<1>4. /\ WellFormed(MessageType, p.outq) /\ p.outq.queue = Append(o.queue, msg)
      /\ p.outq.num_slots_reserved = o.num_slots_reserved
  BY <1>1, <1>2, PushRequestWellFormed, TombstoneAssumption
<1>5. CheckSize(p.outq)
  <2>1. Len(p.outq.queue) = Len(o.queue) + 1
    BY <1>1, <1>4
  <2>2. UsedSlots(p.outq) = UsedSlots(o) + 1 /\ UsedSlots(o) \in Nat
    <3>1. Len(o.queue) \in Nat /\ o.num_slots_reserved \in Nat
          /\ p.outq.num_slots_reserved = o.num_slots_reserved
      BY <1>1, <1>4
    <3> QED BY <2>1, <3>1, SlotsUsed
  <2>3. CheckHasSlot(o) /\ DEFAULT_QUEUE_CAPACITY \in Nat
    BY QueueCapacityAssumption DEF o
  <2> QED BY <2>2, <2>3 DEF CheckSize, CheckHasSlot
<1>6. PairOk(p)
  BY <1>2, <1>3, <1>4, <1>5 DEF PairOk, WellFormed
<1>7. /\ Contents(p).in = Contents(pair).in
      /\ Contents(p).out = Append(o.queue, msg) /\ Contents(pair).out = o.queue
      /\ Slots(Contents(pair), Contents(p), 1, 0)
  BY <1>1, <1>3, <1>4 DEF Contents, Slots, q, o
<1>8. OneMore(Contents(pair).out, Contents(p).out, msg)
  BY <1>1, <1>7, AppendOneMore
<1> QED BY <1>3, <1>6, <1>7, <1>8 DEF q

\* A pair with a response in the slot reserved for it.
AnsweredPair(pair, msg) == [pair EXCEPT !.outq = PushResponse(@, msg)]

LEMMA AnswerPair ==
  ASSUME NEW pair, PairOk(pair), pair.outq.num_slots_reserved > 0, NEW msg \in MessageType,
         NEW p, p = AnsweredPair(pair, msg)
  PROVE  /\ PairOk(p) /\ p.inq = pair.inq
         /\ Contents(p).in = Contents(pair).in
         /\ OneMore(Contents(pair).out, Contents(p).out, msg)
         /\ Slots(Contents(pair), Contents(p), 0, -1)
<1> DEFINE o == pair.outq
<1>1. /\ pair \in [inq : InQueues, outq : OutQueues(MessageType)]
      /\ pair.inq \in InQueues /\ CheckSize(pair.inq) /\ CheckSize(o) /\ o.queue \in Seq(Items)
      /\ o.num_slots_reserved \in Nat /\ pair.inq.num_slots_reserved \in Nat
      /\ Len(o.queue) \in Nat /\ WellFormed(MessageType, o)
  BY PairFields DEF PairOk
<1>2. p.inq = pair.inq /\ p.outq = PushResponse(o, msg)
      /\ p = [inq |-> p.inq, outq |-> p.outq]
  BY <1>1 DEF AnsweredPair
<1>3. o.num_slots_reserved > 0
  OBVIOUS
<1> HIDE DEF o
<1>4. /\ WellFormed(MessageType, p.outq) /\ p.outq.queue = Append(o.queue, msg)
      /\ p.outq.num_slots_reserved = o.num_slots_reserved - 1
  BY <1>1, <1>2, <1>3, PushResponseWellFormed, TombstoneAssumption
<1>5. CheckSize(p.outq)
  <2>1. Len(p.outq.queue) = Len(o.queue) + 1
    BY <1>1, <1>4
  <2>2. UsedSlots(p.outq) = UsedSlots(o)
    <3>1. Len(o.queue) \in Nat /\ o.num_slots_reserved \in Nat
          /\ p.outq.num_slots_reserved = o.num_slots_reserved - 1
      BY <1>1, <1>4
    <3> QED BY <2>1, <3>1, SlotsUsed
  <2> QED BY <1>1, <2>2 DEF CheckSize
<1>6. PairOk(p)
  BY <1>1, <1>2, <1>4, <1>5 DEF PairOk, WellFormed
<1>7. /\ Contents(p).in = Contents(pair).in
      /\ Contents(p).out = Append(o.queue, msg) /\ Contents(pair).out = o.queue
      /\ Slots(Contents(pair), Contents(p), 0, -1)
  BY <1>1, <1>2, <1>4 DEF Contents, Slots, o
<1>8. OneMore(Contents(pair).out, Contents(p).out, msg)
  BY <1>1, <1>7, AppendOneMore
<1> QED BY <1>2, <1>6, <1>7, <1>8

\* A pair whose first output message has left.
SentPair(pair) == [pair EXCEPT !.outq = PopOutputQueue(@)]

LEMMA SendPair ==
  ASSUME NEW pair, PairOk(pair), pair.outq.num_messages > 0, NEW p, p = SentPair(pair)
  PROVE  /\ PairOk(p) /\ p.inq = pair.inq
         /\ pair.outq.queue[1] \in MessageType
         /\ Contents(p).in = Contents(pair).in
         /\ OneMore(Contents(p).out, Contents(pair).out, pair.outq.queue[1])
         /\ Slots(Contents(p), Contents(pair), 0, 0)
<1> DEFINE o == pair.outq
<1>1. /\ pair \in [inq : InQueues, outq : OutQueues(MessageType)]
      /\ pair.inq \in InQueues /\ CheckSize(pair.inq) /\ CheckSize(o) /\ o.queue \in Seq(Items)
      /\ o.num_slots_reserved \in Nat /\ pair.inq.num_slots_reserved \in Nat
      /\ Len(o.queue) \in Nat /\ WellFormed(MessageType, o)
  BY PairFields DEF PairOk
<1>2. p.inq = pair.inq /\ p.outq = PopOutputQueue(o)
      /\ p = [inq |-> p.inq, outq |-> p.outq]
  BY <1>1 DEF SentPair
<1>3. o.num_messages > 0
  OBVIOUS
<1> HIDE DEF o
<1>4. /\ WellFormed(MessageType, p.outq) /\ Len(p.outq.queue) <= Len(o.queue)
      /\ p.outq.num_slots_reserved = o.num_slots_reserved
      /\ \A w \in Weighings(MessageType) : Total(w, o.queue) = w[o.queue[1]] + Total(w, p.outq.queue)
  BY <1>1, <1>2, <1>3, PopWellFormed, TombstoneAssumption
<1>5. o.queue[1] \in MessageType
  BY <1>1, <1>3, FrontMessage
<1>6. p.outq \in OutQueues(MessageType) /\ p.outq.queue \in Seq(Items)
  BY <1>4 DEF WellFormed, OutQueues, Items
<1>7. CheckSize(p.outq)
  <2>1. /\ Len(p.outq.queue) \in Nat /\ Len(p.outq.queue) <= Len(o.queue)
        /\ Len(o.queue) \in Nat /\ o.num_slots_reserved \in Nat
        /\ p.outq.num_slots_reserved = o.num_slots_reserved
    BY <1>1, <1>4, <1>6
  <2>2. CheckSize(o) /\ DEFAULT_QUEUE_CAPACITY \in Nat
    BY <1>1, QueueCapacityAssumption
  <2> QED BY <2>1, <2>2 DEF CheckSize, UsedSlots
<1>8. PairOk(p)
  BY <1>1, <1>2, <1>4, <1>6, <1>7 DEF PairOk
<1>9. /\ Contents(p).in = Contents(pair).in
      /\ Contents(p).out = p.outq.queue /\ Contents(pair).out = o.queue
      /\ Slots(Contents(p), Contents(pair), 0, 0)
  BY <1>1, <1>2, <1>4 DEF Contents, Slots, o
<1>10. OneMore(Contents(p).out, Contents(pair).out, o.queue[1])
  <2>1. ASSUME NEW w \in Weighings(MessageType)
        PROVE  Total(w, o.queue) = Total(w, p.outq.queue) + w[o.queue[1]]
    <3>1. w \in [Items -> Nat]
      BY DEF Weighings, Items
    <3>2. w[o.queue[1]] \in Nat /\ Total(w, p.outq.queue) \in Nat
      BY <1>5, <1>6, <3>1, TotalType, MessageFacts
    <3>3. Total(w, o.queue) = w[o.queue[1]] + Total(w, p.outq.queue)
      BY <1>4
    <3> QED BY <3>2, <3>3
  <2> QED BY <1>9, <2>1 DEF OneMore
<1> QED BY <1>2, <1>5, <1>8, <1>9, <1>10 DEF o

\* A pair with a reserved input slot more.
ReservedPair(pair) == [pair EXCEPT !.inq = ReserveSlot(@)]

LEMMA ReservePair ==
  ASSUME NEW pair, PairOk(pair), CheckHasSlot(pair.inq), NEW p, p = ReservedPair(pair)
  PROVE  /\ PairOk(p) /\ p.inq.queue = pair.inq.queue
         /\ Contents(p).in = Contents(pair).in /\ Contents(p).out = Contents(pair).out
         /\ Slots(Contents(pair), Contents(p), 1, 0)
<1>1. /\ pair \in [inq : InQueues, outq : OutQueues(MessageType)]
      /\ pair.inq \in InQueues /\ CheckSize(pair.outq) /\ WellFormed(MessageType, pair.outq)
      /\ pair.inq.num_slots_reserved \in Nat /\ pair.outq.num_slots_reserved \in Nat
  BY PairFields DEF PairOk
<1>2. p.inq = ReserveSlot(pair.inq) /\ p.outq = pair.outq
      /\ p = [inq |-> p.inq, outq |-> p.outq]
  BY <1>1 DEF ReservedPair
<1>3. /\ p.inq \in InQueues /\ CheckSize(p.inq) /\ p.inq.queue = pair.inq.queue
      /\ p.inq.num_slots_reserved = pair.inq.num_slots_reserved + 1
  BY <1>1, <1>2, ReserveInput
<1>4. PairOk(p)
  BY <1>1, <1>2, <1>3 DEF PairOk, WellFormed
<1>5. /\ Contents(p).in = Contents(pair).in /\ Contents(p).out = Contents(pair).out
      /\ Slots(Contents(pair), Contents(p), 1, 0)
  BY <1>1, <1>2, <1>3 DEF Contents, Slots
<1> QED BY <1>3, <1>4, <1>5

\* A pair is replaced by one with the same input messages.
LEMMA OutputOk ==
  ASSUME NEW c, CqOk(c), NEW id \in DOMAIN c.queues, NEW p, PairOk(p),
         p.inq.queue = c.queues[id].inq.queue, NEW d, IsCq(d), d.queues = Put(c.queues, id, p),
         d.local = c.local, d.remote = c.remote, d.ingress = c.ingress, d.next = c.next,
         InFollows(c.input_stats, d.input_stats, Contents(c.queues[id]), Contents(p)),
         OutFollows(c.output_stats, d.output_stats, Contents(c.queues[id]), Contents(p)),
         MemoryFollows(c.memory_stats, d.memory_stats, Contents(c.queues[id]), Contents(p))
  PROVE  /\ CqOk(d) /\ Keeps(c, d)
         /\ DOMAIN d.queues = DOMAIN c.queues /\ d.queues[id] = p
         /\ OnlyAt(c.queues, d.queues, id)
         /\ ContentsAt(c.queues, id) = Contents(c.queues[id])
         /\ ContentsAt(d.queues, id) = Contents(p)
<1> DEFINE Q == c.queues
<1>1. /\ QueueMap(Q) /\ c.ingress \in Nat /\ c.next \in InputSources
      /\ Once(c.local, c.remote, PendingIn(Q))
      /\ c.local \in Seq(Canisters) /\ c.remote \in Seq(Canisters)
  BY DEF CqOk, ShapeOk, Once
<1>2. PendingIn(d.queues) = PendingIn(Q)
  <2>1. /\ p.inq.queue = <<>> => PendingIn(d.queues) = PendingIn(Q) \ {id}
        /\ p.inq.queue # <<>> => PendingIn(d.queues) = PendingIn(Q) \cup {id}
    BY <1>1, PutPair
  <2>2. id \in PendingIn(Q) <=> p.inq.queue # <<>>
    BY DEF PendingIn
  <2> QED BY <2>1, <2>2
<1>3. /\ CqOk(d)
      /\ DOMAIN d.queues = DOMAIN c.queues /\ d.queues[id] = p
      /\ \A y \in DOMAIN c.queues \ {id} : d.queues[y] = c.queues[y]
      /\ OnlyAt(c.queues, d.queues, id)
      /\ ContentsAt(c.queues, id) = Contents(c.queues[id])
      /\ ContentsAt(d.queues, id) = Contents(p)
  BY <1>1, <1>2, PutOk
<1>4. ASSUME NEW y \in PendingIn(Q)
      PROVE  y \in PendingIn(d.queues) /\ Len(Q[y].inq.queue) <= Len(d.queues[y].inq.queue)
  <2>1. y \in DOMAIN Q /\ Len(Q[y].inq.queue) \in Nat
    BY <1>1, PairFields DEF PendingIn, QueueMap
  <2>2. d.queues[y].inq.queue = Q[y].inq.queue
    BY <1>3, <2>1
  <2> QED BY <1>2, <2>1, <2>2
<1>5. Begins(c.local, d.local) /\ Begins(c.remote, d.remote)
  BY <1>1, BeginsReflexive
<1>6. Keeps(c, d)
  BY <1>4, <1>5 DEF Keeps
<1> QED BY <1>3, <1>6

\* The statistics of one reserved input slot more.
SlotReserved(s) == [s EXCEPT !.reserved_slots = @ + 1]

LEMMA SlotStats ==
  /\ \A s \in InDeltas : SlotReserved(s) = Plus(s, OneSlot)
  /\ \A s \in MemoryDeltas : SlotReserved(s) = Plus(s, OneMemorySlot)
<1>1. ASSUME NEW s \in InDeltas
      PROVE  SlotReserved(s) = Plus(s, OneSlot)
  <2>1. PICK a1 \in Int, a2 \in Int, a3 \in Int, a4 \in Int, a5 \in Int :
          s = [message_count |-> a1, response_count |-> a2, reserved_slots |-> a3,
               size_bytes |-> a4, cycles |-> a5]
    BY DEF InDeltas
  <2> QED BY <2>1 DEF Plus, OneSlot, SlotReserved
<1>2. ASSUME NEW s \in MemoryDeltas
      PROVE  SlotReserved(s) = Plus(s, OneMemorySlot)
  <2>1. PICK a1 \in Int, a2 \in Int, a3 \in Int :
          s = [responses_size_bytes |-> a1, reserved_slots |-> a2, oversized_bytes |-> a3]
    BY DEF MemoryDeltas
  <2> QED BY <2>1 DEF Plus, OneMemorySlot, SlotReserved
<1> QED BY <1>1, <1>2

LEMMA StatsOfCq ==
  ASSUME NEW c, CqOk(c)
  PROVE  /\ c.input_stats \in InDeltas /\ c.output_stats \in OutDeltas
         /\ c.memory_stats \in MemoryDeltas
         /\ c.input_stats \in [message_count : Nat, response_count : Nat, reserved_slots : Nat,
                               size_bytes : Nat, cycles : Nat]
         /\ c.output_stats \in [message_count : Nat, cycles : Nat]
         /\ c.memory_stats \in [responses_size_bytes : Nat, reserved_slots : Nat,
                                oversized_bytes : Nat]
<1>1. QueueMap(c.queues) /\ StatsMatch(c, AllContents(c.queues))
  BY DEF CqOk, ShapeOk
<1>2. /\ IsFiniteSet(DOMAIN c.queues)
      /\ AllContents(c.queues) \in [DOMAIN c.queues -> ContentsSet]
  BY <1>1, ContentsOfMap DEF QueueMap
<1> QED BY <1>1, <1>2, StatsType DEF StatsMatch

\* The contents of a pair when a message has come into its output queue.
MessageSent(f, g, msg) ==
  /\ g.in = f.in /\ OneMore(f.out, g.out, msg)
  /\ IsRequest(msg) => Slots(f, g, 1, 0)
  /\ IsResponse(msg) => Slots(f, g, 0, -1)

\* push_output_request.
LEMMA PushOutputRequestOk ==
  ASSUME NEW c, CqOk(c), NEW id \in Canisters, NEW msg \in MessageType, IsRequest(msg),
         NEW time \in Nat, NEW r, r = PushOutputRequest(c, id, msg, time)
  PROVE  /\ CqOk(r.cq) /\ Keeps(c, r.cq) /\ r.cq.ingress = c.ingress
         /\ \/ SameContents(c.queues, r.cq.queues)
            \/ /\ OnlyAt(c.queues, r.cq.queues, id)
               /\ MessageSent(ContentsAt(c.queues, id), ContentsAt(r.cq.queues, id), msg)
<1> DEFINE c1 == GetOrInsertQueues(c, id)
           pair == c1.queues[id]
           ok == CheckHasSlot(pair.outq) /\ CheckHasSlot(pair.inq)
           p == CalledPair(pair, msg, time + REQUEST_LIFETIME)
<1>1. /\ CqOk(c1) /\ SameContents(c.queues, c1.queues) /\ id \in DOMAIN c1.queues
      /\ c1.local = c.local /\ c1.remote = c.remote
      /\ c1.ingress = c.ingress /\ c1.next = c.next
      /\ \A y \in DOMAIN c.queues : y \in DOMAIN c1.queues /\ c1.queues[y] = c.queues[y]
      /\ PendingIn(c1.queues) = PendingIn(c.queues)
  BY InsertOk
<1>2. r.cq = IF ~ok THEN c1
             ELSE [c1 EXCEPT
                    !.queues = Put(c1.queues, id, p),
                    !.input_stats = SlotReserved(c1.input_stats),
                    !.output_stats = Plus(@, OutputQueuesStatsDelta(msg)),
                    !.memory_stats = Plus(@, MemoryUsageStatsDelta("Push", msg))]
  BY Zenon DEF PushOutputRequest, Put, CalledPair, SlotReserved
<1> HIDE DEF c1
<1>3. CASE ~ok
  <2>1. r.cq = c1
    BY <1>2, <1>3
  <2>2. Keeps(c, c1)
    BY <1>1, KeepsWhen DEF CqOk, PendingIn
  <2> QED BY <1>1, <2>1, <2>2
<1>4. CASE ok
  <2>1. CheckHasSlot(pair.outq) /\ CheckHasSlot(pair.inq)
    BY <1>4
  <2>2. IsCq(c1) /\ PairOk(pair)
    BY <1>1 DEF CqOk, ShapeOk, QueueMap
  <2>3. time + REQUEST_LIFETIME \in Nat
    BY CanisterQueuesAssumption
  <2>4. r.cq = [c1 EXCEPT
                 !.queues = Put(c1.queues, id, p),
                 !.input_stats = SlotReserved(c1.input_stats),
                 !.output_stats = Plus(@, OutputQueuesStatsDelta(msg)),
                 !.memory_stats = Plus(@, MemoryUsageStatsDelta("Push", msg))]
    BY <1>2, <1>4
  <2>5. /\ PairOk(p) /\ p.inq.queue = pair.inq.queue
        /\ Contents(p).in = Contents(pair).in
        /\ OneMore(Contents(pair).out, Contents(p).out, msg)
        /\ Slots(Contents(pair), Contents(p), 1, 0)
    BY <2>1, <2>2, <2>3, CallPair
  <2> HIDE DEF p, ok
  <2>6. c1.input_stats \in InDeltas
    BY <1>1, StatsOfCq
  <2>7. /\ r.cq.queues = Put(c1.queues, id, p)
        /\ r.cq.local = c1.local /\ r.cq.remote = c1.remote
        /\ r.cq.ingress = c1.ingress /\ r.cq.next = c1.next
        /\ r.cq.input_stats = SlotReserved(c1.input_stats)
        /\ r.cq.output_stats = Plus(c1.output_stats, OutputQueuesStatsDelta(msg))
        /\ r.cq.memory_stats = Plus(c1.memory_stats, MemoryUsageStatsDelta("Push", msg))
        /\ IsCq(r.cq)
    BY <2>2, <2>4 DEF IsCq
  <2>8. r.cq.input_stats = Plus(c1.input_stats, OneSlot)
    BY <2>6, <2>7, SlotStats
  <2> DEFINE f == Contents(pair)
             g == Contents(p)
  <2>9. f \in ContentsSet /\ g \in ContentsSet /\ SameTotals(f.in, g.in)
    BY <2>2, <2>5, PairFields DEF SameTotals
  <2>10. g.ri = f.ri + 1 /\ Slots(f, g, 1, 0) /\ OneMore(f.out, g.out, msg) /\ g.in = f.in
    BY <2>5 DEF Slots
  <2> HIDE DEF f, g
  <2>11. InFits(f, g, OneSlot)
    BY <2>9, <2>10, ReserveFits
  <2>12. ~IsResponse(msg)
    BY MessageFacts
  <2>13. /\ OutFits(f, g, OutputQueuesStatsDelta(msg))
         /\ MemoryFits(f, g, MemoryUsageStatsDelta("Push", msg))
    BY <2>9, <2>10, <2>12, PushOutFits
  <2>14. /\ InFollows(c1.input_stats, r.cq.input_stats, f, g)
         /\ OutFollows(c1.output_stats, r.cq.output_stats, f, g)
         /\ MemoryFollows(c1.memory_stats, r.cq.memory_stats, f, g)
    BY <2>7, <2>8, <2>11, <2>13 DEF InFollows, OutFollows, MemoryFollows
  <2>15. /\ CqOk(r.cq) /\ Keeps(c1, r.cq)
         /\ OnlyAt(c1.queues, r.cq.queues, id)
         /\ ContentsAt(c1.queues, id) = f
         /\ ContentsAt(r.cq.queues, id) = g
    BY <1>1, <2>5, <2>7, <2>14, OutputOk DEF f, g
  <2>16. OnlyAt(c.queues, r.cq.queues, id) /\ ContentsAt(c.queues, id) = f
    BY <1>1, <2>15 DEF OnlyAt, SameContents
  <2>17. MessageSent(f, g, msg)
    BY <2>10, <2>12 DEF MessageSent
  <2>18. Keeps(c, r.cq)
    <3>1. ASSUME NEW y \in PendingIn(c.queues)
          PROVE  /\ y \in PendingIn(r.cq.queues)
                 /\ Len(c.queues[y].inq.queue) <= Len(r.cq.queues[y].inq.queue)
      <4>1. y \in PendingIn(c1.queues) /\ c1.queues[y] = c.queues[y]
        BY <1>1 DEF PendingIn
      <4> QED BY <2>15, <4>1 DEF Keeps
    <3>2. Begins(c.local, r.cq.local) /\ Begins(c.remote, r.cq.remote)
      BY <1>1, <2>15 DEF Keeps
    <3> QED BY <3>1, <3>2 DEF Keeps
  <2> QED BY <1>1, <2>7, <2>15, <2>16, <2>17, <2>18
<1> QED BY <1>3, <1>4

LEMMA KeepsTransitive ==
  ASSUME NEW b, NEW c, NEW d, ShapeOk(b), ShapeOk(c), ShapeOk(d), Keeps(b, c), Keeps(c, d)
  PROVE  Keeps(b, d)
<1>1. /\ b.local \in Seq(Canisters) /\ c.local \in Seq(Canisters) /\ d.local \in Seq(Canisters)
      /\ b.remote \in Seq(Canisters) /\ c.remote \in Seq(Canisters) /\ d.remote \in Seq(Canisters)
  BY DEF ShapeOk, Once
<1>2. Begins(b.local, d.local) /\ Begins(b.remote, d.remote)
  BY <1>1, BeginsTransitive DEF Keeps
<1>3. ASSUME NEW y \in PendingIn(b.queues)
      PROVE  /\ y \in PendingIn(d.queues)
             /\ Len(b.queues[y].inq.queue) <= Len(d.queues[y].inq.queue)
  <2>1. /\ y \in PendingIn(c.queues) /\ y \in PendingIn(d.queues)
        /\ Len(b.queues[y].inq.queue) <= Len(c.queues[y].inq.queue)
        /\ Len(c.queues[y].inq.queue) <= Len(d.queues[y].inq.queue)
    BY DEF Keeps
  <2>2. PairOk(b.queues[y]) /\ PairOk(c.queues[y]) /\ PairOk(d.queues[y])
    BY <2>1 DEF PendingIn, ShapeOk, QueueMap
  <2>3. /\ Len(b.queues[y].inq.queue) \in Nat /\ Len(c.queues[y].inq.queue) \in Nat
        /\ Len(d.queues[y].inq.queue) \in Nat
    BY <2>2, PairFields
  <2>4. \A i, j, k \in Nat : i <= j /\ j <= k => i <= k
    OBVIOUS
  <2>5. Len(b.queues[y].inq.queue) <= Len(d.queues[y].inq.queue)
    BY <2>1, <2>3, <2>4, Zenon
  <2> QED BY <2>1, <2>5
<1> QED BY <1>2, <1>3 DEF Keeps

\* Inserting a pair, seen from the schedules.
LEMMA InsertKeeps ==
  ASSUME NEW c, CqOk(c), NEW id \in Canisters, NEW d, d = GetOrInsertQueues(c, id)
  PROVE  Keeps(c, d)
<1>1. /\ d.local = c.local /\ d.remote = c.remote
      /\ \A y \in DOMAIN c.queues : y \in DOMAIN d.queues /\ d.queues[y] = c.queues[y]
      /\ PendingIn(d.queues) = PendingIn(c.queues)
  BY InsertOk
<1> QED BY <1>1, KeepsWhen DEF CqOk, PendingIn

LEMMA RejectType ==
  ASSUME NEW request \in MessageType
  PROVE  /\ RejectOf(request) \in MessageType /\ IsResponse(RejectOf(request))
         /\ ~IsRequest(RejectOf(request)) /\ Cycles(RejectOf(request)) = Cycles(request)
<1>1. RejectOf(request) \in MessageType
  BY CanisterQueuesAssumption DEF RejectOf, Response, MessageType
<1>2. RejectOf(request).kind = "Response"
  BY DEF RejectOf, Response
<1>3. Cycles(RejectOf(request)) = Cycles(request)
  BY DEF RejectOf, Response, Cycles
<1> QED BY <1>1, <1>2, <1>3, MessageFacts

\* reject_ic00_output_request.
LEMMA RejectIc00Ok ==
  ASSUME NEW c, CqOk(c), IC_00 \in Canisters, NEW request \in MessageType,
         NEW d, d = RejectIc00OutputRequest(c, request)
  PROVE  /\ CqOk(d) /\ Keeps(c, d) /\ d.ingress = c.ingress
         /\ \/ SameContents(c.queues, d.queues)
            \/ /\ OnlyAt(c.queues, d.queues, IC_00)
               /\ LET f == ContentsAt(c.queues, IC_00)
                      g == ContentsAt(d.queues, IC_00)
                  IN  /\ OneMore(f.in, g.in, RejectOf(request)) /\ g.out = f.out
                      /\ g.ri = f.ri /\ g.ro = f.ro
<1> DEFINE id == IC_00
           c1 == GetOrInsertQueues(c, id)
           pair == c1.queues[id]
           p == ReservedPair(pair)
           c2 == [c1 EXCEPT !.queues[id].inq = ReserveSlot(@),
                            !.input_stats.reserved_slots = @ + 1,
                            !.memory_stats.reserved_slots = @ + 1]
           r == PushInput(c2, id, RejectOf(request), "LocalSubnet")
<1>1. /\ CqOk(c1) /\ SameContents(c.queues, c1.queues) /\ id \in DOMAIN c1.queues
      /\ c1.ingress = c.ingress /\ Keeps(c, c1)
  BY InsertOk, InsertKeeps
<1>2. d = IF CheckHasSlot(pair.inq) THEN r.cq ELSE c1
  BY DEF RejectIc00OutputRequest
<1>3. c2 = [c1 EXCEPT !.queues = Put(c1.queues, id, p),
                      !.input_stats = SlotReserved(c1.input_stats),
                      !.memory_stats = SlotReserved(c1.memory_stats)]
  BY Zenon DEF Put, ReservedPair, SlotReserved
<1> HIDE DEF c1, c2, r, id
<1>4. CASE ~CheckHasSlot(pair.inq)
  BY <1>1, <1>2, <1>4
<1>5. CASE CheckHasSlot(pair.inq)
  <2>1. IsCq(c1) /\ PairOk(pair)
    BY <1>1 DEF CqOk, ShapeOk, QueueMap
  <2>2. /\ PairOk(p) /\ p.inq.queue = pair.inq.queue
        /\ Contents(p).in = Contents(pair).in /\ Contents(p).out = Contents(pair).out
        /\ Slots(Contents(pair), Contents(p), 1, 0)
    BY <1>5, <2>1, ReservePair
  <2> HIDE DEF p
  <2>3. /\ c2.queues = Put(c1.queues, id, p)
        /\ c2.local = c1.local /\ c2.remote = c1.remote
        /\ c2.ingress = c1.ingress /\ c2.next = c1.next
        /\ c2.input_stats = SlotReserved(c1.input_stats)
        /\ c2.output_stats = c1.output_stats
        /\ c2.memory_stats = SlotReserved(c1.memory_stats)
        /\ IsCq(c2)
    BY <1>3, <2>1 DEF IsCq
  <2>4. /\ c2.input_stats = Plus(c1.input_stats, OneSlot)
        /\ c2.memory_stats = Plus(c1.memory_stats, OneMemorySlot)
    BY <1>1, <2>3, SlotStats, StatsOfCq
  <2> DEFINE f == Contents(pair)
             g == Contents(p)
  <2>5. /\ f \in ContentsSet /\ g \in ContentsSet
        /\ SameTotals(f.in, g.in) /\ SameTotals(f.out, g.out)
    BY <2>1, <2>2, PairFields DEF SameTotals
  <2>6. g.ri = f.ri + 1 /\ g.ro = f.ro /\ g.in = f.in /\ g.out = f.out /\ f.ri \in Nat /\ f.ro \in Nat
    <3>1. g.ri = f.ri + 1 /\ g.ro = f.ro + 0 /\ g.in = f.in /\ g.out = f.out
      BY <2>2 DEF Slots
    <3>2. f.ri \in Nat /\ f.ro \in Nat
      BY <2>5 DEF ContentsSet
    <3> QED BY <3>1, <3>2
  <2> HIDE DEF f, g
  <2>7. InFits(f, g, OneSlot) /\ MemoryFits(f, g, OneMemorySlot)
    BY <2>5, <2>6, ReserveFits
  <2>8. /\ InFollows(c1.input_stats, c2.input_stats, f, g)
        /\ OutFollows(c1.output_stats, c2.output_stats, f, g)
        /\ MemoryFollows(c1.memory_stats, c2.memory_stats, f, g)
    BY <2>3, <2>4, <2>5, <2>7 DEF InFollows, OutFollows, MemoryFollows
  <2>9. /\ CqOk(c2) /\ Keeps(c1, c2)
        /\ OnlyAt(c1.queues, c2.queues, id)
        /\ ContentsAt(c1.queues, id) = f
        /\ ContentsAt(c2.queues, id) = g
    BY <1>1, <2>2, <2>3, <2>8, OutputOk DEF f, g
  <2>10. RejectOf(request) \in MessageType /\ IsResponse(RejectOf(request))
    BY RejectType
  <2>11. g.ri > 0
    BY <2>6
  <2>12. /\ CqOk(r.cq) /\ Keeps(c2, r.cq) /\ r.cq.ingress = c2.ingress
         /\ OnlyAt(c2.queues, r.cq.queues, id)
         /\ MessageIn(g, ContentsAt(r.cq.queues, id), RejectOf(request))
    <3>1. id \in Canisters
      BY DEF id
    <3> QED BY <2>9, <2>10, <2>11, <3>1, PushInputOk DEF r
  <2>13. d = r.cq
    BY <1>2, <1>5
  <2>14. Keeps(c, d)
    <3>1. ShapeOk(c) /\ ShapeOk(c1) /\ ShapeOk(c2) /\ ShapeOk(d)
      BY <1>1, <2>9, <2>12, <2>13 DEF CqOk
    <3>2. Keeps(c1, d)
      BY <2>9, <2>12, <2>13, <3>1, KeepsTransitive
    <3> QED BY <1>1, <3>1, <3>2, KeepsTransitive
  <2>15. OnlyAt(c.queues, d.queues, id) /\ ContentsAt(c.queues, id) = f
    <3>1. id \in Canisters
      BY DEF id
    <3> QED BY <1>1, <2>9, <2>12, <2>13, <3>1 DEF OnlyAt, SameContents
  <2> DEFINE h == ContentsAt(d.queues, id)
  <2>16. OneMore(f.in, h.in, RejectOf(request)) /\ h.out = f.out /\ h.ri = f.ri /\ h.ro = f.ro
    <3>1. /\ OneMore(g.in, h.in, RejectOf(request)) /\ h.out = g.out
          /\ h.ri = g.ri + (-1) /\ h.ro = g.ro + 0
      BY <2>10, <2>12, <2>13 DEF MessageIn, Slots
    <3> HIDE DEF h
    <3>2. h.ri = f.ri /\ h.ro = f.ro
      BY <2>6, <3>1
    <3> QED BY <2>6, <3>1, <3>2
  <2> QED BY <1>1, <2>3, <2>12, <2>13, <2>14, <2>15, <2>16 DEF id
<1> QED BY <1>4, <1>5

\* push_output_response.
LEMMA PushOutputResponseOk ==
  ASSUME NEW c, CqOk(c), NEW id \in Canisters, ContentsAt(c.queues, id).ro > 0,
         NEW msg \in MessageType, IsResponse(msg), NEW d, d = PushOutputResponse(c, id, msg)
  PROVE  /\ CqOk(d) /\ Keeps(c, d) /\ d.ingress = c.ingress
         /\ OnlyAt(c.queues, d.queues, id)
         /\ MessageSent(ContentsAt(c.queues, id), ContentsAt(d.queues, id), msg)
<1> DEFINE pair == c.queues[id]
           p == AnsweredPair(pair, msg)
<1>1. id \in DOMAIN c.queues
  BY DEF ContentsAt, NoContents
<1>2. pair.outq.num_slots_reserved > 0
  BY <1>1 DEF ContentsAt, Contents
<1>3. IsCq(c) /\ PairOk(pair)
  BY <1>1 DEF CqOk, ShapeOk, QueueMap
<1>4. /\ PairOk(p) /\ p.inq = pair.inq
      /\ Contents(p).in = Contents(pair).in
      /\ OneMore(Contents(pair).out, Contents(p).out, msg)
      /\ Slots(Contents(pair), Contents(p), 0, -1)
  BY <1>2, <1>3, AnswerPair
<1>5. d = [c EXCEPT !.queues = Put(c.queues, id, p),
                    !.output_stats = Plus(c.output_stats, OutputQueuesStatsDelta(msg)),
                    !.memory_stats = Plus(c.memory_stats, MemoryUsageStatsDelta("Push", msg))]
  BY Zenon DEF PushOutputResponse, Put, AnsweredPair
<1> HIDE DEF p
<1>6. /\ d.queues = Put(c.queues, id, p)
      /\ d.local = c.local /\ d.remote = c.remote /\ d.ingress = c.ingress /\ d.next = c.next
      /\ d.input_stats = c.input_stats
      /\ d.output_stats = Plus(c.output_stats, OutputQueuesStatsDelta(msg))
      /\ d.memory_stats = Plus(c.memory_stats, MemoryUsageStatsDelta("Push", msg))
      /\ IsCq(d)
  BY <1>3, <1>5 DEF IsCq
<1> DEFINE f == Contents(pair)
           g == Contents(p)
<1>7. f \in ContentsSet /\ g \in ContentsSet /\ SameTotals(f.in, g.in) /\ f.ri \in Nat
  BY <1>3, <1>4, PairFields DEF SameTotals
<1>8. g.ri = f.ri /\ Slots(f, g, 0, -1) /\ OneMore(f.out, g.out, msg) /\ g.in = f.in
  <2>1. g.ri = f.ri + 0 /\ Slots(f, g, 0, -1) /\ OneMore(f.out, g.out, msg) /\ g.in = f.in
    BY <1>4 DEF Slots
  <2> HIDE DEF f, g
  <2> QED BY <1>7, <2>1
<1>9. ~IsRequest(msg)
  BY MessageFacts
<1> HIDE DEF f, g
<1>10. /\ OutFits(f, g, OutputQueuesStatsDelta(msg))
       /\ MemoryFits(f, g, MemoryUsageStatsDelta("Push", msg))
  BY <1>7, <1>8, <1>9, PushOutFits
<1>11. /\ InFollows(c.input_stats, d.input_stats, f, g)
       /\ OutFollows(c.output_stats, d.output_stats, f, g)
       /\ MemoryFollows(c.memory_stats, d.memory_stats, f, g)
  BY <1>6, <1>7, <1>8, <1>10 DEF InFollows, OutFollows, MemoryFollows
<1>12. /\ CqOk(d) /\ Keeps(c, d) /\ OnlyAt(c.queues, d.queues, id)
       /\ ContentsAt(c.queues, id) = f /\ ContentsAt(d.queues, id) = g
  BY <1>1, <1>4, <1>6, <1>11, OutputOk DEF f, g
<1>13. MessageSent(f, g, msg)
  BY <1>8, <1>9 DEF MessageSent
<1> QED BY <1>6, <1>12, <1>13

\* The contents of a pair when a message has gone from its output queue.
MessageLeft(f, g, msg) == g.in = f.in /\ OneMore(g.out, f.out, msg) /\ Slots(g, f, 0, 0)

\* pop_canister_output.
LEMMA PopOutputOk ==
  ASSUME NEW c, CqOk(c), NEW id, HasOutput(c, id), NEW d, d = PopOutput(c, id),
         NEW msg, msg = PeekOutput(c, id)
  PROVE  /\ CqOk(d) /\ Keeps(c, d) /\ d.ingress = c.ingress
         /\ msg \in MessageType /\ id \in Canisters
         /\ OnlyAt(c.queues, d.queues, id)
         /\ MessageLeft(ContentsAt(c.queues, id), ContentsAt(d.queues, id), msg)
<1> DEFINE pair == c.queues[id]
           p == SentPair(pair)
<1>1. id \in DOMAIN c.queues /\ pair.outq.num_messages > 0
  BY DEF HasOutput
<1>2. IsCq(c) /\ PairOk(pair) /\ id \in Canisters
  BY <1>1 DEF CqOk, ShapeOk, QueueMap
<1>3. msg = pair.outq.queue[1]
  BY DEF PeekOutput
<1>4. /\ PairOk(p) /\ p.inq = pair.inq /\ msg \in MessageType
      /\ Contents(p).in = Contents(pair).in
      /\ OneMore(Contents(p).out, Contents(pair).out, msg)
      /\ Slots(Contents(p), Contents(pair), 0, 0)
  BY <1>1, <1>2, <1>3, SendPair
<1>5. d = [c EXCEPT !.queues = Put(c.queues, id, p),
                    !.output_stats = Minus(c.output_stats, OutputQueuesStatsDelta(msg)),
                    !.memory_stats = Minus(c.memory_stats, MemoryUsageStatsDelta("Pop", msg))]
  BY Zenon DEF PopOutput, Put, SentPair
<1> HIDE DEF p
<1>6. /\ d.queues = Put(c.queues, id, p)
      /\ d.local = c.local /\ d.remote = c.remote /\ d.ingress = c.ingress /\ d.next = c.next
      /\ d.input_stats = c.input_stats
      /\ d.output_stats = Minus(c.output_stats, OutputQueuesStatsDelta(msg))
      /\ d.memory_stats = Minus(c.memory_stats, MemoryUsageStatsDelta("Pop", msg))
      /\ IsCq(d)
  BY <1>2, <1>5 DEF IsCq
<1> DEFINE f == Contents(pair)
           g == Contents(p)
<1>7. /\ f \in ContentsSet /\ g \in ContentsSet
      /\ SameTotals(f.in, g.in) /\ SameTotals(g.in, f.in) /\ g.ri \in Nat
  BY <1>2, <1>4, PairFields DEF SameTotals
<1>8. g.ri = f.ri /\ Slots(g, f, 0, 0) /\ OneMore(g.out, f.out, msg) /\ g.in = f.in
  <2>1. f.ri = g.ri + 0 /\ Slots(g, f, 0, 0) /\ OneMore(g.out, f.out, msg) /\ g.in = f.in
    BY <1>4 DEF Slots
  <2> HIDE DEF f, g
  <2> QED BY <1>7, <2>1
<1> HIDE DEF f, g
<1>10. /\ OutFits(g, f, OutputQueuesStatsDelta(msg))
       /\ MemoryFits(g, f, MemoryUsageStatsDelta("Pop", msg))
  BY <1>4, <1>7, <1>8, PopOutFits
<1>11. /\ InFollows(c.input_stats, d.input_stats, f, g)
       /\ OutFollows(c.output_stats, d.output_stats, f, g)
       /\ MemoryFollows(c.memory_stats, d.memory_stats, f, g)
  BY <1>6, <1>7, <1>8, <1>10 DEF InFollows, OutFollows, MemoryFollows
<1>12. /\ CqOk(d) /\ Keeps(c, d) /\ OnlyAt(c.queues, d.queues, id)
       /\ ContentsAt(c.queues, id) = f /\ ContentsAt(d.queues, id) = g
  BY <1>1, <1>4, <1>6, <1>11, OutputOk DEF f, g
<1>13. MessageLeft(f, g, msg)
  BY <1>8 DEF MessageLeft
<1> QED BY <1>2, <1>4, <1>6, <1>12, <1>13

-----------------------------------------------------------------------------
(* Timing out. *)

\* The contents of a pair if its output queue held s.
WithOut(pair, s) ==
  [in |-> pair.inq.queue, ri |-> pair.inq.num_slots_reserved,
   out |-> s, ro |-> pair.outq.num_slots_reserved]

\* The contents of all pairs if the output queue of pair id held s.
View(Q, id, s) == [y \in DOMAIN Q |-> IF y = id THEN WithOut(Q[y], s) ELSE Contents(Q[y])]

LEMMA ViewFields ==
  ASSUME NEW pair, PairOk(pair), NEW s \in Seq(Items)
  PROVE  /\ WithOut(pair, s) \in ContentsSet
         /\ WithOut(pair, s).in = pair.inq.queue
         /\ WithOut(pair, s).ri = pair.inq.num_slots_reserved
         /\ WithOut(pair, s).out = s
         /\ WithOut(pair, s).ro = pair.outq.num_slots_reserved
BY PairFields DEF WithOut, ContentsSet

LEMMA ViewType ==
  ASSUME NEW Q, QueueMap(Q), NEW id \in DOMAIN Q, NEW s \in Seq(Items)
  PROVE  /\ View(Q, id, s) \in [DOMAIN Q -> ContentsSet] /\ IsFiniteSet(DOMAIN Q)
         /\ View(Q, id, s)[id] = WithOut(Q[id], s)
         /\ \A y \in DOMAIN Q \ {id} : View(Q, id, s)[y] = Contents(Q[y])
<1>1. \A y \in DOMAIN Q : PairOk(Q[y])
  BY DEF QueueMap
<1>2. \A y \in DOMAIN Q : Contents(Q[y]) \in ContentsSet /\ WithOut(Q[y], s) \in ContentsSet
  BY <1>1, PairFields, ViewFields
<1> QED BY <1>2 DEF View, QueueMap

LEMMA ViewChanged ==
  ASSUME NEW Q, QueueMap(Q), NEW R, QueueMap(R), DOMAIN R = DOMAIN Q, NEW id \in DOMAIN Q,
         \A y \in DOMAIN Q \ {id} : R[y] = Q[y], NEW s \in Seq(Items), NEW t \in Seq(Items)
  PROVE  Changed(DOMAIN Q, View(Q, id, s), View(R, id, t), id)
<1>1. /\ View(Q, id, s) \in [DOMAIN Q -> ContentsSet] /\ IsFiniteSet(DOMAIN Q)
      /\ \A y \in DOMAIN Q \ {id} : View(Q, id, s)[y] = Contents(Q[y])
  BY ViewType
<1>2. /\ View(R, id, t) \in [DOMAIN Q -> ContentsSet]
      /\ \A y \in DOMAIN Q \ {id} : View(R, id, t)[y] = Contents(R[y])
  BY ViewType
<1> QED BY <1>1, <1>2 DEF Changed

LEMMA ViewOfAll ==
  ASSUME NEW Q, QueueMap(Q), NEW id \in DOMAIN Q
  PROVE  View(Q, id, Q[id].outq.queue) = AllContents(Q)
BY DEF View, WithOut, AllContents, Contents

LEMMA CyclesFollow ==
  /\ \A s, d \in InDeltas : Plus(s, d).cycles = s.cycles + d.cycles
  /\ \A s, d \in OutDeltas : Minus(s, d).cycles = s.cycles - d.cycles
<1>1. ASSUME NEW s \in InDeltas, NEW d \in InDeltas
      PROVE  Plus(s, d).cycles = s.cycles + d.cycles
  BY DEF InDeltas, Plus
<1>2. ASSUME NEW s \in OutDeltas, NEW d \in OutDeltas
      PROVE  Minus(s, d).cycles = s.cycles - d.cycles
  BY DEF OutDeltas, Minus
<1> QED BY <1>1, <1>2

CyclesIn(c) == c.input_stats.cycles + c.output_stats.cycles

\* In d the requests to id that time out are being dropped: q is what remains of
\* the output queue in the end, s what the statistics still account for, and a the
\* requests sent out before.
TimingOut(c, d, id, s, q, a) ==
  /\ ShapeOk(d) /\ Keeps(c, d) /\ d.ingress = c.ingress /\ d.next = c.next
  /\ DOMAIN d.queues = DOMAIN c.queues
  /\ \A y \in DOMAIN c.queues \ {id} : d.queues[y] = c.queues[y]
  /\ d.queues[id].outq = q
  /\ StatsMatch(d, View(d.queues, id, s))
  /\ d.queues[id].inq.num_slots_reserved = Total(RequestWeight, s) + a
  /\ Total(RequestWeight, d.queues[id].inq.queue) = Total(RequestWeight, c.queues[id].inq.queue)
  /\ Total(ResponseWeight, s) = Total(ResponseWeight, c.queues[id].outq.queue)
  /\ CyclesIn(d) = CyclesIn(c)

\* The record after one time-out, before scheduling.
RejectedRequest(d, id, request, e) ==
  /\ IsCq(e)
  /\ e.queues = Put(d.queues, id, PushedPair(d.queues[id], RejectOf(request)))
  /\ e.local = d.local /\ e.remote = d.remote /\ e.ingress = d.ingress /\ e.next = d.next
  /\ e.input_stats = Plus(d.input_stats, InputQueuesStatsDelta("Push", RejectOf(request)))
  /\ e.output_stats = Minus(d.output_stats, OutputQueuesStatsDelta(request))
  /\ e.memory_stats = Plus(Minus(d.memory_stats, MemoryUsageStatsDelta("Pop", request)),
                           MemoryUsageStatsDelta("Push", RejectOf(request)))

LEMMA TimeOutOneRecord ==
  ASSUME NEW d, IsCq(d), NEW id, PairOk(d.queues[id]), NEW request \in MessageType, NEW local
  PROVE  \E e : /\ RejectedRequest(d, id, request, e)
                /\ TimeOutOne(d, id, request, local)
                     = Schedule(e, id, IF id \in local THEN "LocalSubnet" ELSE "RemoteSubnet")
<1> DEFINE response == RejectOf(request)
           d1 == [d EXCEPT !.output_stats = Minus(@, OutputQueuesStatsDelta(request)),
                           !.memory_stats = Minus(@, MemoryUsageStatsDelta("Pop", request))]
           d2 == [d1 EXCEPT !.queues[id].inq = PushInputQueue(@, response),
                            !.input_stats = Plus(@, InputQueuesStatsDelta("Push", response)),
                            !.memory_stats = Plus(@, MemoryUsageStatsDelta("Push", response))]
<1>1. TimeOutOne(d, id, request, local)
        = Schedule(d2, id, IF id \in local THEN "LocalSubnet" ELSE "RemoteSubnet")
  BY DEF TimeOutOne
<1>2. ~IsRequest(response)
  BY RejectType
<1>3. /\ IsCq(d1) /\ d1.queues = d.queues /\ d1.local = d.local /\ d1.remote = d.remote
      /\ d1.ingress = d.ingress /\ d1.next = d.next /\ d1.input_stats = d.input_stats
      /\ d1.output_stats = Minus(d.output_stats, OutputQueuesStatsDelta(request))
      /\ d1.memory_stats = Minus(d.memory_stats, MemoryUsageStatsDelta("Pop", request))
  <2>1. d1 = [d EXCEPT !.output_stats = Minus(@, OutputQueuesStatsDelta(request)),
                       !.memory_stats = Minus(@, MemoryUsageStatsDelta("Pop", request))]
    OBVIOUS
  <2> HIDE DEF d1
  <2> QED BY <2>1 DEF IsCq
<1>4. d2 = [d1 EXCEPT !.queues = Put(d1.queues, id,
                                     [d1.queues[id] EXCEPT !.inq = PushInputQueue(@, response)]),
                      !.input_stats = Plus(@, InputQueuesStatsDelta("Push", response)),
                      !.memory_stats = Plus(@, MemoryUsageStatsDelta("Push", response))]
  BY Zenon DEF Put
<1> HIDE DEF d1, d2, response
<1>5. [d1.queues[id] EXCEPT !.inq = PushInputQueue(@, response)]
        = PushedPair(d.queues[id], response)
  <2>1. d.queues[id] = [inq |-> d.queues[id].inq, outq |-> d.queues[id].outq]
    BY DEF PairOk
  <2>2. PushedPair(d.queues[id], response)
          = [inq |-> PushInputQueue(d.queues[id].inq, response), outq |-> d.queues[id].outq]
    BY <1>2 DEF PushedPair
  <2> QED BY <1>3, <2>1, <2>2
<1> DEFINE Q == Put(d1.queues, id, [d1.queues[id] EXCEPT !.inq = PushInputQueue(@, response)])
<1>6. d2 = [d1 EXCEPT !.queues = Q,
                      !.input_stats = Plus(@, InputQueuesStatsDelta("Push", response)),
                      !.memory_stats = Plus(@, MemoryUsageStatsDelta("Push", response))]
  BY <1>4, Zenon
<1>7. Q = Put(d.queues, id, PushedPair(d.queues[id], response))
  BY <1>3, <1>5, Zenon
<1> HIDE DEF Q
<1>8. /\ IsCq(d2) /\ d2.queues = Q /\ d2.local = d1.local /\ d2.remote = d1.remote
      /\ d2.ingress = d1.ingress /\ d2.next = d1.next /\ d2.output_stats = d1.output_stats
      /\ d2.input_stats = Plus(d1.input_stats, InputQueuesStatsDelta("Push", response))
      /\ d2.memory_stats = Plus(d1.memory_stats, MemoryUsageStatsDelta("Push", response))
  BY <1>3, <1>6 DEF IsCq
<1>9. RejectedRequest(d, id, request, d2)
  BY <1>3, <1>7, <1>8 DEF RejectedRequest, response
<1> QED BY <1>1, <1>9

\* The reject response of one request that times out.
LEMMA TimeOutOneOk ==
  ASSUME NEW c, ShapeOk(c), NEW id \in DOMAIN c.queues, NEW d,
         NEW s \in Seq(Items), NEW t \in Seq(Items), NEW q, NEW a \in Nat,
         TimingOut(c, d, id, s, q, a), NEW request \in MessageType, IsRequest(request),
         OneMore(t, s, request), NEW local, NEW e, e = TimeOutOne(d, id, request, local)
  PROVE  TimingOut(c, e, id, t, q, a)
<1> DEFINE response == RejectOf(request)
           type == IF id \in local THEN "LocalSubnet" ELSE "RemoteSubnet"
           pair == d.queues[id]
           p == PushedPair(pair, response)
<1>1. /\ ShapeOk(d) /\ IsCq(d) /\ QueueMap(d.queues) /\ id \in DOMAIN d.queues
      /\ DOMAIN d.queues = DOMAIN c.queues /\ PairOk(pair)
      /\ StatsMatch(d, View(d.queues, id, s))
  BY DEF TimingOut, ShapeOk, QueueMap
<1>2. /\ response \in MessageType /\ IsResponse(response) /\ ~IsRequest(response)
      /\ Cycles(response) = Cycles(request) /\ ~IsResponse(request)
      /\ response.kind = "Response" /\ Cycles(request) \in Nat
  BY RejectType, MessageFacts
<1>3. /\ Total(RequestWeight, s) = Total(RequestWeight, t) + 1
      /\ Total(ResponseWeight, s) = Total(ResponseWeight, t) + 0
      /\ Total(RequestWeight, t) \in Nat /\ Total(ResponseWeight, t) \in Nat
  BY <1>2, OneMoreTotals, TotalsType
<1>4. pair.inq.num_slots_reserved = Total(RequestWeight, t) + 1 + a
      /\ pair.inq.num_slots_reserved > 0
  BY <1>3 DEF TimingOut
<1>5. CanPushInput(pair.inq, response)
  BY <1>2, <1>4 DEF CanPushInput, HasReservedSlot
<1>6. PICK c2 : RejectedRequest(d, id, request, c2) /\ e = Schedule(c2, id, type)
  BY <1>1, TimeOutOneRecord
<1>7. /\ PairOk(p) /\ p.inq.queue = Append(pair.inq.queue, response)
      /\ OneMore(Contents(pair).in, Contents(p).in, response)
      /\ Slots(Contents(pair), Contents(p), -1, 0)
  BY <1>1, <1>2, <1>5, PushPair
<1>8. p.outq = pair.outq
  BY <1>2 DEF PushedPair
<1>9. /\ c2.queues = Put(d.queues, id, p)
      /\ c2.local = d.local /\ c2.remote = d.remote
      /\ c2.ingress = d.ingress /\ c2.next = d.next
      /\ c2.output_stats = Minus(d.output_stats, OutputQueuesStatsDelta(request))
      /\ c2.input_stats = Plus(d.input_stats, InputQueuesStatsDelta("Push", response))
      /\ c2.memory_stats = Plus(Minus(d.memory_stats, MemoryUsageStatsDelta("Pop", request)),
                                MemoryUsageStatsDelta("Push", response))
      /\ IsCq(c2)
  BY <1>6 DEF RejectedRequest
<1>10. /\ ShapeOk(e) /\ Keeps(d, e)
       /\ e.queues = c2.queues /\ e.ingress = d.ingress /\ e.next = d.next
       /\ e.input_stats = c2.input_stats /\ e.output_stats = c2.output_stats
       /\ e.memory_stats = c2.memory_stats
  <2> HIDE DEF p, type
  <2>1. c2.queues = Put(d.queues, id, PushedPair(d.queues[id], response))
    BY <1>9 DEF p
  <2> HIDE DEF response
  <2> QED BY <1>1, <1>2, <1>5, <1>6, <1>9, <2>1, ScheduleOk
<1> HIDE DEF p, response, type, pair
<1>11. /\ QueueMap(e.queues) /\ DOMAIN e.queues = DOMAIN d.queues /\ e.queues[id] = p
       /\ \A y \in DOMAIN d.queues \ {id} : e.queues[y] = d.queues[y]
  <2>1. e.queues = Put(d.queues, id, p)
    BY <1>9, <1>10
  <2> QED BY <1>1, <1>7, <2>1, PutPair
<1> DEFINE F == View(d.queues, id, s)
           H == View(d.queues, id, t)
           G == View(e.queues, id, t)
           D == DOMAIN d.queues
<1>12. /\ F[id] = WithOut(pair, s) /\ H[id] = WithOut(pair, t) /\ G[id] = WithOut(p, t)
       /\ F \in [D -> ContentsSet]
  BY <1>1, <1>11, ViewType DEF pair
<1>13. Changed(D, F, H, id) /\ Changed(D, H, G, id)
  BY <1>1, <1>11, ViewChanged
<1> HIDE DEF F, H, G, D
<1>14. /\ F[id] \in ContentsSet /\ H[id] \in ContentsSet /\ G[id] \in ContentsSet
       /\ OneMore(H[id].out, F[id].out, request) /\ SameTotals(H[id].in, F[id].in)
       /\ Slots(H[id], F[id], 0, 0) /\ H[id].ri = F[id].ri /\ SameTotals(F[id].in, H[id].in)
  <2>1. /\ F[id] \in ContentsSet /\ H[id] \in ContentsSet /\ G[id] \in ContentsSet
        /\ H[id].out = t /\ F[id].out = s /\ H[id].in = F[id].in
        /\ H[id].ri = pair.inq.num_slots_reserved /\ F[id].ri = pair.inq.num_slots_reserved
        /\ H[id].ro = pair.outq.num_slots_reserved /\ F[id].ro = pair.outq.num_slots_reserved
    BY <1>1, <1>7, <1>12, ViewFields
  <2>2. pair.inq.num_slots_reserved \in Nat /\ pair.outq.num_slots_reserved \in Nat
    BY <1>1, PairFields
  <2>3. Slots(H[id], F[id], 0, 0)
    BY <2>1, <2>2 DEF Slots
  <2> QED BY <2>1, <2>3 DEF SameTotals
<1>15. /\ OneMore(H[id].in, G[id].in, response) /\ SameTotals(H[id].out, G[id].out)
       /\ Slots(H[id], G[id], -1, 0)
  <2>1. /\ H[id].out = t /\ G[id].out = t
        /\ H[id].in = Contents(pair).in /\ G[id].in = Contents(p).in
        /\ H[id].ri = Contents(pair).ri /\ G[id].ri = Contents(p).ri
        /\ H[id].ro = Contents(pair).ro /\ G[id].ro = Contents(p).ro
    BY <1>1, <1>7, <1>12, ViewFields, PairFields
  <2> QED BY <1>7, <2>1 DEF SameTotals, Slots
<1>16. /\ OutFits(H[id], F[id], OutputQueuesStatsDelta(request))
       /\ MemoryFits(H[id], F[id], MemoryUsageStatsDelta("Pop", request))
  BY <1>14, PopOutFits
<1>17. /\ InFits(H[id], G[id], InputQueuesStatsDelta("Push", response))
       /\ MemoryFits(H[id], G[id], MemoryUsageStatsDelta("Push", response))
  BY <1>2, <1>14, <1>15, PushInFits
<1>18. /\ d.input_stats = InStats(F) /\ d.output_stats = OutStats(F)
       /\ d.memory_stats = MemoryStats(F)
  BY <1>1 DEF StatsMatch, F
<1>19. StatsMatch(e, G)
  <2>1. /\ OutStats(H) = Minus(OutStats(F), OutputQueuesStatsDelta(request))
        /\ MemoryStats(H) = Minus(MemoryStats(F), MemoryUsageStatsDelta("Pop", request))
    BY <1>13, <1>16, StatsMinus
  <2>2. InStats(H) = InStats(F)
    BY <1>13, <1>14, StatsSame
  <2>3. InStats(G) = Plus(InStats(H), InputQueuesStatsDelta("Push", response))
    BY <1>13, <1>17, InStatsPlus
  <2>4. MemoryStats(G) = Plus(MemoryStats(H), MemoryUsageStatsDelta("Push", response))
    BY <1>13, <1>17, MemoryStatsPlus
  <2>5. OutStats(G) = OutStats(H)
    BY <1>13, <1>15, StatsSame
  <2> QED BY <1>9, <1>10, <1>18, <2>1, <2>2, <2>3, <2>4, <2>5 DEF StatsMatch
<1>20. CyclesIn(e) = CyclesIn(d)
  <2>1. d.input_stats \in InDeltas /\ d.output_stats \in OutDeltas
    BY <1>1, <1>12, <1>18, StatsType DEF QueueMap, D
  <2>2. /\ InputQueuesStatsDelta("Push", response) \in InDeltas
        /\ OutputQueuesStatsDelta(request) \in OutDeltas
    BY <1>16, <1>17 DEF InFits, OutFits
  <2>3. /\ e.input_stats.cycles = d.input_stats.cycles + InputQueuesStatsDelta("Push", response).cycles
        /\ e.output_stats.cycles = d.output_stats.cycles - OutputQueuesStatsDelta(request).cycles
    BY <1>9, <1>10, <2>1, <2>2, CyclesFollow
  <2>4. /\ InputQueuesStatsDelta("Push", response).cycles = Cycles(request)
        /\ OutputQueuesStatsDelta(request).cycles = Cycles(request)
    BY <1>2 DEF InputQueuesStatsDelta, OutputQueuesStatsDelta
  <2>5. d.input_stats.cycles \in Int /\ d.output_stats.cycles \in Int
    BY <2>1 DEF InDeltas, OutDeltas
  <2> QED BY <1>2, <2>3, <2>4, <2>5 DEF CyclesIn
<1>21. e.queues[id].inq.num_slots_reserved = Total(RequestWeight, t) + a
  <2>1. /\ Contents(p).ri = Contents(pair).ri + (-1)
        /\ Contents(p).ri = p.inq.num_slots_reserved
        /\ Contents(pair).ri = pair.inq.num_slots_reserved
    BY <1>7 DEF Slots, Contents
  <2>2. p.inq.num_slots_reserved = pair.inq.num_slots_reserved + (-1)
    BY <2>1
  <2>3. p.inq.num_slots_reserved = Total(RequestWeight, t) + a
    BY <1>3, <1>4, <2>2
  <2> QED BY <1>11, <2>3
<1>22. Total(RequestWeight, e.queues[id].inq.queue) = Total(RequestWeight, d.queues[id].inq.queue)
  <2>1. pair.inq.queue \in Seq(Items) /\ p.inq.queue \in Seq(Items)
    BY <1>1, <1>7, PairFields
  <2>2. OneMore(pair.inq.queue, p.inq.queue, response)
    BY <1>7 DEF Contents
  <2>3. /\ Total(RequestWeight, p.inq.queue) = Total(RequestWeight, pair.inq.queue) + 0
        /\ Total(RequestWeight, pair.inq.queue) \in Nat
    BY <1>2, <2>1, <2>2, OneMoreTotals, TotalsType
  <2> QED BY <1>11, <2>3 DEF pair
<1>23. /\ e.queues[id].outq = q /\ DOMAIN e.queues = DOMAIN c.queues
       /\ \A y \in DOMAIN c.queues \ {id} : e.queues[y] = c.queues[y]
       /\ e.ingress = c.ingress /\ e.next = c.next
       /\ CyclesIn(e) = CyclesIn(c)
       /\ Total(RequestWeight, e.queues[id].inq.queue) = Total(RequestWeight, c.queues[id].inq.queue)
  BY <1>8, <1>10, <1>11, <1>20, <1>22 DEF TimingOut, pair
<1>24. Keeps(c, e)
  BY <1>1, <1>10, KeepsTransitive DEF TimingOut
<1>25. Total(ResponseWeight, t) = Total(ResponseWeight, c.queues[id].outq.queue)
  BY <1>3 DEF TimingOut
<1> QED BY <1>10, <1>19, <1>21, <1>23, <1>24, <1>25 DEF TimingOut, G

-----------------------------------------------------------------------------
(* The loops of the code. *)

\* TimeOutQueue goes through the output queue item by item.
TimeOutRun(run, c, id, time, local, o, gone) ==
  /\ run[0] = [c EXCEPT !.queues[id].outq = TimeOutRequests(@, time)]
  /\ run[Len(o.queue)] = TimeOutQueue(c, id, time, local)
  /\ \A i \in 1 .. Len(o.queue) :
       run[i] = IF o.begin + i - 1 \in gone
                  THEN TimeOutOne(run[i - 1], id, o.queue[i], local)
                  ELSE run[i - 1]

LEMMA TimeOutQueueRun ==
  ASSUME NEW c, NEW id, NEW time, NEW local, NEW o, o = c.queues[id].outq, Len(o.queue) \in Nat,
         NEW gone, gone = TimedOut(o, time)
  PROVE  \E run : TimeOutRun(run, c, id, time, local, o, gone)
<1> DEFINE n == Len(o.queue)
           start == [c EXCEPT !.queues[id].outq = TimeOutRequests(@, time)]
           Body(f, i) == IF i = 0 THEN start
                         ELSE IF o.begin + i - 1 \in gone
                           THEN TimeOutOne(f[i - 1], id, o.queue[i], local)
                           ELSE f[i - 1]
           P == {k \in Nat : \E f : \A i \in 0 .. k : f[i] = Body(f, i)}
<1>1. 0 \in P
  <2> DEFINE f == [i \in {0} |-> start]
  <2>1. \A i \in 0 .. 0 : f[i] = Body(f, i)
    OBVIOUS
  <2> QED BY <2>1
<1>2. ASSUME NEW k \in Nat, k \in P PROVE k + 1 \in P
  <2>1. PICK f : \A i \in 0 .. k : f[i] = Body(f, i)
    BY <1>2
  <2> DEFINE g == [i \in 0 .. (k + 1) |-> IF i <= k THEN f[i] ELSE Body(f, k + 1)]
  <2>2. \A i \in 0 .. k : g[i] = f[i]
    OBVIOUS
  <2>3. g[k + 1] = Body(f, k + 1)
    OBVIOUS
  <2> HIDE DEF g
  <2>4. \A i \in 0 .. (k + 1) : Body(g, i) = Body(f, i)
    <3> TAKE i \in 0 .. (k + 1)
    <3>1. CASE i = 0
      BY <3>1
    <3>2. CASE i # 0
      <4>1. i - 1 \in 0 .. k
        BY <3>2
      <4>2. g[i - 1] = f[i - 1]
        BY <2>2, <4>1
      <4> QED BY <4>2
    <3> QED BY <3>1, <3>2
  <2>5. \A i \in 0 .. (k + 1) : g[i] = Body(g, i)
    <3> HIDE DEF Body
    <3> TAKE i \in 0 .. (k + 1)
    <3>1. i \in 0 .. k \/ i = k + 1
      OBVIOUS
    <3> QED BY <2>1, <2>2, <2>3, <2>4, <3>1
  <2> HIDE DEF Body
  <2> QED BY <2>5
<1>3. n \in P
  <2> HIDE DEF P, n
  <2>1. n \in Nat
    BY DEF n
  <2> QED BY <1>1, <1>2, <2>1, NatSetInduction
<1>4. PICK f : \A i \in 0 .. n : f[i] = Body(f, i)
  BY <1>3
<1> DEFINE g == [i \in 0 .. n |-> f[i]]
<1>5. g = [i \in 0 .. n |-> Body(g, i)]
  <2>1. \A i \in 0 .. n : Body(g, i) = Body(f, i)
    <3> TAKE i \in 0 .. n
    <3>1. CASE i = 0
      BY <3>1
    <3>2. CASE i # 0
      <4>1. i - 1 \in 0 .. n
        BY <3>2
      <4>2. g[i - 1] = f[i - 1]
        BY <4>1
      <4> HIDE DEF g
      <4> QED BY <4>2
    <3> QED BY <3>1, <3>2
  <2> HIDE DEF Body
  <2> QED BY <1>4, <2>1
<1> DEFINE after == CHOOSE h : h = [i \in 0 .. n |-> Body(h, i)]
<1>6. after = [i \in 0 .. n |-> Body(after, i)]
  <2> HIDE DEF g, Body
  <2> QED BY <1>5
<1>7. TimeOutQueue(c, id, time, local) = after[n]
  BY DEF TimeOutQueue
<1> HIDE DEF after
<1>8. \A i \in 0 .. n : after[i] = Body(after, i)
  <2> HIDE DEF Body
  <2> QED BY <1>6
<1>9. /\ after[0] = start
      /\ \A i \in 1 .. n : after[i] = IF o.begin + i - 1 \in gone
                                        THEN TimeOutOne(after[i - 1], id, o.queue[i], local)
                                        ELSE after[i - 1]
  <2>1. 0 \in 0 .. n /\ \A i \in 1 .. n : i \in 0 .. n /\ i # 0
    OBVIOUS
  <2> QED BY <1>8, <2>1
<1> HIDE DEF P, Body
<1>10. TimeOutRun(after, c, id, time, local, o, gone)
  BY <1>7, <1>9 DEF TimeOutRun
<1> QED BY <1>10

\* run has the queues after each of the pairs that time_out_requests visits.
TimeOutAllSteps(run, c, ids, time, local) ==
  /\ run[0] = c
  /\ run[Len(ids)] = TimeOutAllRequests(c, time, local)
  /\ \A i \in 1 .. Len(ids) : run[i] = TimeOutQueue(run[i - 1], ids[i], time, local)

\* TimeOutAllRequests goes through the pairs one by one.
LEMMA TimeOutAllRun ==
  ASSUME NEW c, NEW time, NEW local, NEW ids, ids = SetToSeq(DOMAIN c.queues), Len(ids) \in Nat
  PROVE  \E run : TimeOutAllSteps(run, c, ids, time, local)
<1> DEFINE n == Len(ids)
           start == c
           Body(f, i) == IF i = 0 THEN start ELSE TimeOutQueue(f[i - 1], ids[i], time, local)
           P == {k \in Nat : \E f : \A i \in 0 .. k : f[i] = Body(f, i)}
<1>1. 0 \in P
  <2> DEFINE f == [i \in {0} |-> start]
  <2>1. \A i \in 0 .. 0 : f[i] = Body(f, i)
    OBVIOUS
  <2> QED BY <2>1
<1>2. ASSUME NEW k \in Nat, k \in P PROVE k + 1 \in P
  <2>1. PICK f : \A i \in 0 .. k : f[i] = Body(f, i)
    BY <1>2
  <2> DEFINE g == [i \in 0 .. (k + 1) |-> IF i <= k THEN f[i] ELSE Body(f, k + 1)]
  <2>2. \A i \in 0 .. k : g[i] = f[i]
    OBVIOUS
  <2>3. g[k + 1] = Body(f, k + 1)
    OBVIOUS
  <2> HIDE DEF g
  <2>4. \A i \in 0 .. (k + 1) : Body(g, i) = Body(f, i)
    <3> TAKE i \in 0 .. (k + 1)
    <3>1. CASE i = 0
      BY <3>1
    <3>2. CASE i # 0
      <4>1. i - 1 \in 0 .. k
        BY <3>2
      <4>2. g[i - 1] = f[i - 1]
        BY <2>2, <4>1
      <4> QED BY <4>2
    <3> QED BY <3>1, <3>2
  <2>5. \A i \in 0 .. (k + 1) : g[i] = Body(g, i)
    <3> HIDE DEF Body
    <3> TAKE i \in 0 .. (k + 1)
    <3>1. i \in 0 .. k \/ i = k + 1
      OBVIOUS
    <3> QED BY <2>1, <2>2, <2>3, <2>4, <3>1
  <2> HIDE DEF Body
  <2> QED BY <2>5
<1>3. n \in P
  <2> HIDE DEF P, n
  <2>1. n \in Nat
    BY DEF n
  <2> QED BY <1>1, <1>2, <2>1, NatSetInduction
<1>4. PICK f : \A i \in 0 .. n : f[i] = Body(f, i)
  BY <1>3
<1> DEFINE g == [i \in 0 .. n |-> f[i]]
<1>5. g = [i \in 0 .. n |-> Body(g, i)]
  <2>1. \A i \in 0 .. n : Body(g, i) = Body(f, i)
    <3> TAKE i \in 0 .. n
    <3>1. CASE i = 0
      BY <3>1
    <3>2. CASE i # 0
      <4>1. i - 1 \in 0 .. n
        BY <3>2
      <4>2. g[i - 1] = f[i - 1]
        BY <4>1
      <4> HIDE DEF g
      <4> QED BY <4>2
    <3> QED BY <3>1, <3>2
  <2> HIDE DEF Body
  <2> QED BY <1>4, <2>1
<1> DEFINE after == CHOOSE h : h = [i \in 0 .. n |-> Body(h, i)]
<1>6. after = [i \in 0 .. n |-> Body(after, i)]
  <2> HIDE DEF g, Body
  <2> QED BY <1>5
<1>7. TimeOutAllRequests(c, time, local) = after[n]
  BY DEF TimeOutAllRequests
<1> HIDE DEF after
<1>8. \A i \in 0 .. n : after[i] = Body(after, i)
  <2> HIDE DEF Body
  <2> QED BY <1>6
<1>9. /\ after[0] = start
      /\ \A i \in 1 .. n : after[i] = TimeOutQueue(after[i - 1], ids[i], time, local)
  <2>1. 0 \in 0 .. n /\ \A i \in 1 .. n : i \in 0 .. n /\ i # 0
    OBVIOUS
  <2> QED BY <1>8, <2>1
<1> HIDE DEF P, Body
<1>10. TimeOutAllSteps(after, c, ids, time, local)
  BY <1>7, <1>9 DEF TimeOutAllSteps
<1> QED BY <1>10

\* SetToSeq visits every element once.
LEMMA EachVisitedOnce ==
  ASSUME NEW S, IsFiniteSet(S)
  PROVE  LET q == SetToSeq(S)
         IN  /\ Len(q) \in Nat
             /\ \A i \in 1 .. Len(q) : q[i] \in S
             /\ \A i, j \in 1 .. Len(q) : q[i] = q[j] => i = j
             /\ \A t \in S : \E i \in 1 .. Len(q) : q[i] = t
<1> DEFINE n == Cardinality(S)
           q == SetToSeq(S)
<1>1. n \in Nat /\ ExistsBijection(1 .. n, S)
  BY FS_CardinalityType
<1>2. \E f \in [1 .. n -> S] : IsInjective(f)
  BY <1>1 DEF ExistsBijection, Bijection, Injection
<1>3. q \in [1 .. n -> S] /\ IsInjective(q)
  BY <1>2 DEF SetToSeq
<1> HIDE DEF q
<1>4. Len(q) = n
  BY <1>1, <1>3
<1>5. q \in Surjection(1 .. n, S)
  <2>1. q \in Injection(1 .. n, S)
    BY <1>3 DEF Injection
  <2>2. Cardinality(1 .. n) = n
    <3> HIDE DEF n
    <3> QED BY <1>1, FS_Interval
  <2> QED BY <2>1, <2>2, FS_Injection
<1>6. \A t \in S : \E i \in 1 .. n : q[i] = t
  BY <1>5 DEF Surjection
<1>7. \A i, j \in 1 .. n : q[i] = q[j] => i = j
  BY <1>3 DEF IsInjective
<1> HIDE DEF n
<1> QED BY <1>1, <1>3, <1>4, <1>6, <1>7 DEF q

\* What timing out leaves as it is in a pair: the slots reserved for responses to
\* requests sent out before, and all that is about requests of the peer.
Expired(f, g) ==
  /\ g.ro = f.ro
  /\ g.ri - Total(RequestWeight, g.out) = f.ri - Total(RequestWeight, f.out)
  /\ Total(RequestWeight, g.in) = Total(RequestWeight, f.in)
  /\ Total(ResponseWeight, g.out) = Total(ResponseWeight, f.out)

\* Every request in the output queue has a slot for its response.
SlotsReserved(f) == Total(RequestWeight, f.out) <= f.ri

\* Before the first reject response.
LEMMA TimeOutStart ==
  ASSUME NEW c, CqOk(c), NEW id \in DOMAIN c.queues, NEW time \in Nat,
         NEW o, o = c.queues[id].outq, NEW q, q = TimeOutRequests(o, time), NEW a \in Nat,
         c.queues[id].inq.num_slots_reserved = Total(RequestWeight, o.queue) + a,
         NEW d, d = [c EXCEPT !.queues[id].outq = TimeOutRequests(@, time)]
  PROVE  TimingOut(c, d, id, o.queue, q, a)
<1> DEFINE pair == c.queues[id]
           p == [inq |-> pair.inq, outq |-> q]
<1>1. /\ ShapeOk(c) /\ IsCq(c) /\ QueueMap(c.queues) /\ PairOk(pair)
      /\ StatsMatch(c, AllContents(c.queues))
      /\ c.ingress \in Nat /\ c.next \in InputSources
      /\ Once(c.local, c.remote, PendingIn(c.queues))
  BY DEF CqOk, ShapeOk, QueueMap
<1>2. pair = [inq |-> pair.inq, outq |-> pair.outq] /\ WellFormed(MessageType, o)
      /\ CheckSize(pair.inq) /\ CheckSize(o) /\ pair.inq \in InQueues
      /\ Len(o.queue) \in Nat /\ o.num_slots_reserved \in Nat /\ o.queue \in Seq(Items)
  BY <1>1, PairFields DEF PairOk
<1>3. /\ WellFormed(MessageType, q) /\ Len(q.queue) <= Len(o.queue)
      /\ q.num_slots_reserved = o.num_slots_reserved
  BY <1>2, TimeOutWellFormed
<1>4. q \in OutQueues(MessageType) /\ Len(q.queue) \in Nat
  BY <1>3, QueueFields DEF WellFormed
<1>5. CheckSize(q)
  <2>1. DEFAULT_QUEUE_CAPACITY \in Nat
    BY QueueCapacityAssumption
  <2>2. UsedSlots(q) <= UsedSlots(o) /\ UsedSlots(q) \in Nat /\ UsedSlots(o) \in Nat
    BY <1>2, <1>3, <1>4 DEF UsedSlots
  <2>3. UsedSlots(o) <= DEFAULT_QUEUE_CAPACITY
    BY <1>2 DEF CheckSize
  <2> QED BY <2>1, <2>2, <2>3 DEF CheckSize
<1>6. PairOk(p) /\ p.inq = pair.inq /\ p.outq = q
  BY <1>2, <1>3, <1>4, <1>5 DEF PairOk
<1>7. d = [c EXCEPT !.queues = Put(c.queues, id, p)]
  <2>1. p = [pair EXCEPT !.outq = q]
    BY <1>2
  <2>2. d = [c EXCEPT !.queues = Put(c.queues, id, [c.queues[id] EXCEPT !.outq = q])]
    BY Zenon DEF Put
  <2> QED BY <2>1, <2>2, Zenon
<1> HIDE DEF p
<1>8. /\ d.queues = Put(c.queues, id, p) /\ d.local = c.local /\ d.remote = c.remote
      /\ d.ingress = c.ingress /\ d.next = c.next /\ d.input_stats = c.input_stats
      /\ d.output_stats = c.output_stats /\ d.memory_stats = c.memory_stats /\ IsCq(d)
  BY <1>1, <1>7 DEF IsCq
<1>9. /\ QueueMap(d.queues) /\ DOMAIN d.queues = DOMAIN c.queues /\ d.queues[id] = p
      /\ \A y \in DOMAIN c.queues \ {id} : d.queues[y] = c.queues[y]
  BY <1>1, <1>6, <1>8, PutPair
<1>10. PendingIn(d.queues) = PendingIn(c.queues)
  <2>1. \A y \in DOMAIN c.queues : d.queues[y].inq = c.queues[y].inq
    BY <1>6, <1>9
  <2> QED BY <1>9, <2>1 DEF PendingIn
<1>11. ShapeOk(d)
  BY <1>1, <1>8, <1>9, <1>10 DEF ShapeOk
<1>12. Keeps(c, d)
  <2>1. \A y \in PendingIn(c.queues) : d.queues[y].inq = c.queues[y].inq
    BY <1>6, <1>9 DEF PendingIn
  <2> QED BY <1>1, <1>8, <1>10, <2>1, KeepsWhen
<1>13. View(d.queues, id, o.queue) = AllContents(c.queues)
  <2>1. WithOut(p, o.queue) = Contents(pair)
    BY <1>3, <1>6 DEF WithOut, Contents
  <2> QED BY <1>9, <2>1 DEF View, AllContents
<1>14. StatsMatch(d, View(d.queues, id, o.queue))
  BY <1>1, <1>8, <1>13 DEF StatsMatch
<1>15. /\ d.queues[id].outq = q
       /\ d.queues[id].inq.num_slots_reserved = Total(RequestWeight, o.queue) + a
       /\ d.queues[id].inq.queue = c.queues[id].inq.queue
  BY <1>6, <1>9
<1> QED BY <1>8, <1>9, <1>11, <1>12, <1>14, <1>15 DEF TimingOut, CyclesIn

\* Nothing changes in the statistics of memory when no total changes.
LEMMA MemoryStatsSame ==
  ASSUME NEW D, NEW F, NEW G, NEW x, Changed(D, F, G, x), SameTotals(F[x].in, G[x].in),
         SameTotals(F[x].out, G[x].out), G[x].ri = F[x].ri, G[x].ro = F[x].ro
  PROVE  MemoryStats(G) = MemoryStats(F)
<1>1. /\ F[x] \in ContentsSet
      /\ MeasureAll(ResponsesSize, F) \in Nat
      /\ MeasureAll(AllReserved, F) \in Nat /\ MeasureAll(Oversized, F) \in Nat
  BY ChangedTypes, MeasureAllType DEF Changed
<1>2. /\ Total(ResponseBytesWeight, G[x].in) = Total(ResponseBytesWeight, F[x].in)
      /\ Total(ResponseBytesWeight, G[x].out) = Total(ResponseBytesWeight, F[x].out)
      /\ Total(OversizedWeight, G[x].in) = Total(OversizedWeight, F[x].in)
      /\ Total(OversizedWeight, G[x].out) = Total(OversizedWeight, F[x].out)
  BY SameTotalsFacts
<1>3. /\ F[x].ri \in Nat /\ F[x].ro \in Nat
      /\ Total(ResponseBytesWeight, F[x].in) \in Nat /\ Total(ResponseBytesWeight, F[x].out) \in Nat
      /\ Total(OversizedWeight, F[x].in) \in Nat /\ Total(OversizedWeight, F[x].out) \in Nat
  BY <1>1, ContentsFields
<1>4. MeasureAll(ResponsesSize, G) = MeasureAll(ResponsesSize, F)
  <2>1. MeasureAll(ResponsesSize, G) = MeasureAll(ResponsesSize, F)
              + (Total(ResponseBytesWeight, G[x].in) + Total(ResponseBytesWeight, G[x].out))
              - (Total(ResponseBytesWeight, F[x].in) + Total(ResponseBytesWeight, F[x].out))
    BY StatsChange
  <2> QED BY <1>1, <1>2, <1>3, <2>1
<1>5. MeasureAll(AllReserved, G) = MeasureAll(AllReserved, F)
  <2>1. MeasureAll(AllReserved, G) = MeasureAll(AllReserved, F)
              + (G[x].ri + G[x].ro) - (F[x].ri + F[x].ro)
    BY StatsChange
  <2> QED BY <1>1, <1>3, <2>1
<1>6. MeasureAll(Oversized, G) = MeasureAll(Oversized, F)
  <2>1. MeasureAll(Oversized, G) = MeasureAll(Oversized, F)
              + (Total(OversizedWeight, G[x].in) + Total(OversizedWeight, G[x].out))
              - (Total(OversizedWeight, F[x].in) + Total(OversizedWeight, F[x].out))
    BY StatsChange
  <2> QED BY <1>1, <1>2, <1>3, <2>1
<1> QED BY <1>4, <1>5, <1>6 DEF MemoryStats

\* After the last reject response.
LEMMA TimeOutEnd ==
  ASSUME NEW c, CqOk(c), NEW id \in DOMAIN c.queues, NEW s \in Seq(Items), NEW q, NEW a \in Nat,
         NEW d, TimingOut(c, d, id, s, q, a), SameTotals(s, q.queue),
         q.num_slots_reserved = c.queues[id].outq.num_slots_reserved,
         c.queues[id].inq.num_slots_reserved = Total(RequestWeight, c.queues[id].outq.queue) + a
  PROVE  /\ CqOk(d) /\ Keeps(c, d) /\ d.ingress = c.ingress /\ d.next = c.next
         /\ DOMAIN d.queues = DOMAIN c.queues
         /\ \A y \in DOMAIN c.queues \ {id} : d.queues[y] = c.queues[y]
         /\ CyclesIn(d) = CyclesIn(c)
         /\ Expired(Contents(c.queues[id]), Contents(d.queues[id]))
<1> DEFINE pair == d.queues[id]
           F == View(d.queues, id, s)
           G == View(d.queues, id, q.queue)
           D == DOMAIN d.queues
<1>1. /\ ShapeOk(d) /\ QueueMap(d.queues) /\ id \in D /\ PairOk(pair)
      /\ StatsMatch(d, F) /\ pair.outq = q
  BY DEF TimingOut, ShapeOk, QueueMap
<1>2. q.queue \in Seq(Items) /\ pair.inq.queue \in Seq(Items)
  BY <1>1, PairFields
<1>3. /\ Changed(D, F, G, id)
      /\ F[id] = WithOut(pair, s) /\ G[id] = WithOut(pair, q.queue)
      /\ G = AllContents(d.queues)
  BY <1>1, <1>2, ViewChanged, ViewType, ViewOfAll
<1>4. /\ F[id].in = G[id].in /\ F[id].out = s /\ G[id].out = q.queue
      /\ F[id].ri = G[id].ri /\ F[id].ro = G[id].ro
  BY <1>1, <1>2, <1>3, ViewFields
<1> HIDE DEF F, G, D
<1>5. SameTotals(F[id].in, G[id].in) /\ SameTotals(F[id].out, G[id].out)
  BY <1>4 DEF SameTotals
<1>6. InStats(G) = InStats(F) /\ OutStats(G) = OutStats(F) /\ MemoryStats(G) = MemoryStats(F)
  BY <1>3, <1>4, <1>5, StatsSame, MemoryStatsSame
<1>7. CqOk(d)
  BY <1>1, <1>3, <1>6 DEF CqOk, StatsMatch
<1>8. Expired(Contents(c.queues[id]), Contents(pair))
  <2>1. /\ Total(RequestWeight, q.queue) = Total(RequestWeight, s)
        /\ Total(ResponseWeight, q.queue) = Total(ResponseWeight, s)
        /\ Total(RequestWeight, s) \in Nat
    BY SameTotalsFacts, TotalsType
  <2>2. /\ Contents(pair).ro = c.queues[id].outq.num_slots_reserved
        /\ Contents(pair).out = q.queue /\ Contents(pair).in = pair.inq.queue
        /\ Contents(pair).ri = Total(RequestWeight, s) + a
        /\ Contents(c.queues[id]).ro = c.queues[id].outq.num_slots_reserved
        /\ Contents(c.queues[id]).out = c.queues[id].outq.queue
        /\ Contents(c.queues[id]).in = c.queues[id].inq.queue
        /\ Contents(c.queues[id]).ri = Total(RequestWeight, c.queues[id].outq.queue) + a
    BY <1>1 DEF Contents, TimingOut
  <2>3. Total(RequestWeight, c.queues[id].outq.queue) \in Nat
    <3>1. PairOk(c.queues[id])
      BY DEF CqOk, ShapeOk, QueueMap
    <3> QED BY <3>1, PairFields, TotalsType
  <2>4. Contents(pair).ri - Total(RequestWeight, Contents(pair).out) = a
    BY <2>1, <2>2
  <2>5. Contents(c.queues[id]).ri - Total(RequestWeight, Contents(c.queues[id]).out) = a
    BY <2>2, <2>3
  <2>6. /\ Total(RequestWeight, pair.inq.queue) = Total(RequestWeight, c.queues[id].inq.queue)
        /\ Total(ResponseWeight, s) = Total(ResponseWeight, c.queues[id].outq.queue)
    BY DEF TimingOut
  <2> HIDE DEF pair
  <2> QED BY <2>1, <2>2, <2>4, <2>5, <2>6 DEF Expired
<1> QED BY <1>7, <1>8 DEF TimingOut

\* time_out_requests, for one pair.
LEMMA TimeOutQueueOk ==
  ASSUME NEW c, CqOk(c), NEW id \in DOMAIN c.queues, SlotsReserved(Contents(c.queues[id])),
         NEW time \in Nat, NEW local, NEW d, d = TimeOutQueue(c, id, time, local)
  PROVE  /\ CqOk(d) /\ Keeps(c, d) /\ d.ingress = c.ingress /\ d.next = c.next
         /\ DOMAIN d.queues = DOMAIN c.queues
         /\ \A y \in DOMAIN c.queues \ {id} : d.queues[y] = c.queues[y]
         /\ CyclesIn(d) = CyclesIn(c)
         /\ Expired(Contents(c.queues[id]), Contents(d.queues[id]))
<1> SUFFICES ASSUME NEW o, o = c.queues[id].outq, NEW g, g = TimedOut(o, time),
                    NEW q, q = TimeOutRequests(o, time)
             PROVE  /\ CqOk(d) /\ Keeps(c, d) /\ d.ingress = c.ingress /\ d.next = c.next
                    /\ DOMAIN d.queues = DOMAIN c.queues
                    /\ \A y \in DOMAIN c.queues \ {id} : d.queues[y] = c.queues[y]
                    /\ CyclesIn(d) = CyclesIn(c)
                    /\ Expired(Contents(c.queues[id]), Contents(d.queues[id]))
  OBVIOUS
<1> DEFINE n == Len(o.queue)
           a == c.queues[id].inq.num_slots_reserved - Total(RequestWeight, o.queue)
           S(j) == Marked(o, g, j)
<1>1. /\ PairOk(c.queues[id]) /\ WellFormed(MessageType, o) /\ o \in OutQueues(MessageType)
      /\ n \in Nat /\ o.queue \in Seq(Items) /\ ShapeOk(c)
  BY PairFields DEF CqOk, ShapeOk, QueueMap, PairOk
<1>2. a \in Nat /\ c.queues[id].inq.num_slots_reserved = Total(RequestWeight, o.queue) + a
  <2>1. Total(RequestWeight, o.queue) \in Nat /\ c.queues[id].inq.num_slots_reserved \in Nat
    BY <1>1, TotalsType, PairFields
  <2>2. Total(RequestWeight, o.queue) <= c.queues[id].inq.num_slots_reserved
    BY DEF SlotsReserved, Contents
  <2> QED BY <2>1, <2>2
<1>3. /\ q.num_slots_reserved = o.num_slots_reserved
      /\ \A k \in g : k \in Indices(o) /\ IsRequest(Item(o, k))
      /\ SameTotals(S(n), q.queue)
  BY <1>1, TimeOutWellFormed DEF SameTotals
<1>4. PICK run : TimeOutRun(run, c, id, time, local, o, g)
  BY <1>1, TimeOutQueueRun
<1>5. \A j : S(j) \in Seq(Items)
  BY <1>1, MarkedType DEF Items
<1>6. /\ S(0) = o.queue
      /\ \A j \in 0 .. (n - 1) : MarkedStep(MessageType, o, g, j)
  BY <1>1, MarkedFacts
<1> DEFINE P == {j \in Nat : j <= n => TimingOut(c, run[j], id, S(j), q, a)}
<1>7. 0 \in P
  <2>1. TimingOut(c, run[0], id, o.queue, q, a)
    <3>1. run[0] = [c EXCEPT !.queues[id].outq = TimeOutRequests(@, time)]
      BY <1>4 DEF TimeOutRun
    <3> QED BY <1>2, <3>1, TimeOutStart
  <2> QED BY <1>6, <2>1
<1> HIDE DEF a, n, S
<1>8. ASSUME NEW j \in Nat, j \in P, j + 1 <= n PROVE TimingOut(c, run[j + 1], id, S(j + 1), q, a)
  <2>1. /\ j \in 0 .. (n - 1) /\ j + 1 \in 1 .. n /\ (j + 1) - 1 = j /\ n \in Nat
    BY <1>1, <1>8
  <2>2. TimingOut(c, run[j], id, S(j), q, a)
    BY <1>8, <2>1
  <2>3. run[j + 1] = IF o.begin + (j + 1) - 1 \in g
                       THEN TimeOutOne(run[j], id, o.queue[j + 1], local) ELSE run[j]
    BY <1>4, <2>1 DEF TimeOutRun, n
  <2>4. CASE o.begin + (j + 1) - 1 \notin g
    <3>1. S(j + 1) = S(j)
      BY <1>6, <2>1, <2>4 DEF MarkedStep, S
    <3> QED BY <2>2, <2>3, <2>4, <3>1
  <2>5. CASE o.begin + (j + 1) - 1 \in g
    <3> DEFINE request == o.queue[j + 1]
    <3>1. request \in Items /\ IsRequest(request)
      <4>1. o.begin \in Nat
        BY <1>1, QueueFields
      <4>2. (o.begin + (j + 1) - 1) - o.begin + 1 = j + 1
        BY <4>1
      <4>3. Item(o, o.begin + (j + 1) - 1) = o.queue[j + 1]
        BY <4>2 DEF Item
      <4>4. o.queue[j + 1] \in Items
        BY <1>1, <2>1 DEF n
      <4> QED BY <1>3, <2>5, <4>3, <4>4
    <3>2. request \in MessageType
      BY <3>1 DEF Items, IsRequest
    <3> HIDE DEF request
    <3>3. OneMore(S(j + 1), S(j), request)
      <4>1. ASSUME NEW w \in Weighings(MessageType)
            PROVE  Total(w, S(j)) = Total(w, S(j + 1)) + w[request]
        <5>1. w \in [Items -> Nat]
          BY DEF Weighings, Items
        <5>2. Total(w, S(j + 1)) \in Nat /\ w[request] \in Nat
          BY <1>5, <3>1, <5>1, TotalType
        <5>3. Total(w, S(j)) = w[request] + Total(w, S(j + 1))
          BY <1>6, <2>1, <2>5 DEF request, MarkedStep, S
        <5> QED BY <5>2, <5>3
      <4> QED BY <4>1 DEF OneMore
    <3>4. run[j + 1] = TimeOutOne(run[j], id, request, local)
      BY <2>3, <2>5 DEF request
    <3> QED BY <1>1, <1>2, <1>5, <2>2, <3>1, <3>2, <3>3, <3>4, TimeOutOneOk
  <2> QED BY <2>4, <2>5
<1>9. n \in P
  <2>1. \A j \in Nat : j \in P => j + 1 \in P
    BY <1>8
  <2>2. n \in Nat
    BY <1>1
  <2> HIDE DEF P
  <2> QED BY <1>7, <2>1, <2>2, NatSetInduction
<1>10. TimingOut(c, d, id, S(n), q, a)
  <2>1. run[n] = d
    BY <1>4 DEF TimeOutRun, n
  <2> QED BY <1>1, <1>9, <2>1
<1> QED BY <1>2, <1>3, <1>5, <1>10, TimeOutEnd

\* What timing out some of the pairs has made of c.
AllExpired(c, d) ==
  /\ CqOk(d) /\ Keeps(c, d) /\ d.ingress = c.ingress /\ d.next = c.next
  /\ DOMAIN d.queues = DOMAIN c.queues
  /\ CyclesIn(d) = CyclesIn(c)
  /\ \A y \in DOMAIN c.queues : Expired(Contents(c.queues[y]), Contents(d.queues[y]))

\* Numbers of a pair.
LEMMA ContentsOfPair ==
  ASSUME NEW c, CqOk(c), NEW id \in DOMAIN c.queues
  PROVE  /\ Contents(c.queues[id]) \in ContentsSet
         /\ Contents(c.queues[id]).ri \in Nat /\ Contents(c.queues[id]).ro \in Nat
         /\ Total(RequestWeight, Contents(c.queues[id]).in) \in Nat
         /\ Total(RequestWeight, Contents(c.queues[id]).out) \in Nat
         /\ Total(ResponseWeight, Contents(c.queues[id]).in) \in Nat
         /\ Total(ResponseWeight, Contents(c.queues[id]).out) \in Nat
<1>1. PairOk(c.queues[id])
  BY DEF CqOk, ShapeOk, QueueMap
<1>2. Contents(c.queues[id]) \in ContentsSet
  BY <1>1, PairFields
<1> QED BY <1>2, ContentsFields, TotalsType

\* Nothing about slots is lost from one pair to the next.
LEMMA ExpiredFacts ==
  ASSUME NEW f, NEW g, Expired(f, g), f.ri \in Nat, g.ri \in Nat,
         Total(RequestWeight, f.out) \in Nat, Total(RequestWeight, g.out) \in Nat
  PROVE  /\ SlotsReserved(f) => SlotsReserved(g)
         /\ \A h : Expired(g, h) => Expired(f, h)
<1>1. ASSUME SlotsReserved(f) PROVE SlotsReserved(g)
  <2> SUFFICES ASSUME NEW a, a = f.ri, NEW b, b = g.ri,
                      NEW x, x = Total(RequestWeight, f.out), NEW y, y = Total(RequestWeight, g.out)
               PROVE  y <= b
    BY DEF SlotsReserved
  <2>1. b - y = a - x /\ x <= a /\ a \in Nat /\ b \in Nat /\ x \in Nat /\ y \in Nat
    BY <1>1 DEF Expired, SlotsReserved
  <2> QED BY <2>1
<1> QED BY <1>1 DEF Expired

LEMMA ExpiredReflexive ==
  ASSUME NEW f
  PROVE  Expired(f, f)
BY DEF Expired

LEMMA KeepsReflexive ==
  ASSUME NEW c, ShapeOk(c)
  PROVE  Keeps(c, c)
BY KeepsWhen DEF ShapeOk

\* time_out_requests.
LEMMA TimeOutAllOk ==
  ASSUME NEW c, CqOk(c), \A y \in DOMAIN c.queues : SlotsReserved(Contents(c.queues[y])),
         NEW time \in Nat, NEW local, NEW d, d = TimeOutAllRequests(c, time, local)
  PROVE  AllExpired(c, d)
<1> SUFFICES ASSUME NEW ids, ids = SetToSeq(DOMAIN c.queues)
             PROVE  AllExpired(c, d)
  OBVIOUS
<1>1. Len(ids) \in Nat /\ \A i \in 1 .. Len(ids) : ids[i] \in DOMAIN c.queues
  <2>1. IsFiniteSet(DOMAIN c.queues)
    BY DEF CqOk, ShapeOk, QueueMap
  <2> QED BY <2>1, EachVisitedOnce
<1>r. PICK run : TimeOutAllSteps(run, c, ids, time, local)
  BY <1>1, TimeOutAllRun
<1>2. /\ run[0] = c
      /\ run[Len(ids)] = TimeOutAllRequests(c, time, local)
      /\ \A i \in 1 .. Len(ids) : run[i] = TimeOutQueue(run[i - 1], ids[i], time, local)
  BY <1>r DEF TimeOutAllSteps
<1> DEFINE P == {j \in Nat : j <= Len(ids) => AllExpired(c, run[j])}
<1>3. 0 \in P
  <2>1. Keeps(c, c)
    BY KeepsReflexive DEF CqOk
  <2>2. AllExpired(c, c)
    BY <2>1, ExpiredReflexive DEF AllExpired
  <2> QED BY <1>2, <2>2
<1>4. ASSUME NEW j \in Nat, j \in P, j + 1 <= Len(ids) PROVE AllExpired(c, run[j + 1])
  <2> SUFFICES ASSUME NEW e, e = run[j], NEW id, id = ids[j + 1], NEW x, x = run[j + 1]
               PROVE  AllExpired(c, x)
    OBVIOUS
  <2>1. id \in DOMAIN c.queues /\ x = TimeOutQueue(e, id, time, local) /\ AllExpired(c, e)
    <3>1. j + 1 \in 1 .. Len(ids) /\ (j + 1) - 1 = j /\ j <= Len(ids)
      BY <1>1, <1>4
    <3> QED BY <1>1, <1>2, <1>4, <3>1
  <2> HIDE DEF P
  <2>2. /\ CqOk(e) /\ Keeps(c, e) /\ e.ingress = c.ingress /\ e.next = c.next
        /\ DOMAIN e.queues = DOMAIN c.queues /\ CyclesIn(e) = CyclesIn(c)
        /\ \A y \in DOMAIN c.queues : Expired(Contents(c.queues[y]), Contents(e.queues[y]))
    BY <2>1 DEF AllExpired
  <2>3. ASSUME NEW y \in DOMAIN c.queues
        PROVE  /\ SlotsReserved(Contents(e.queues[y]))
               /\ \A h : Expired(Contents(e.queues[y]), h) => Expired(Contents(c.queues[y]), h)
    <3>1. /\ Contents(c.queues[y]).ri \in Nat /\ Contents(e.queues[y]).ri \in Nat
          /\ Total(RequestWeight, Contents(c.queues[y]).out) \in Nat
          /\ Total(RequestWeight, Contents(e.queues[y]).out) \in Nat
      BY <2>2, ContentsOfPair
    <3>2. Expired(Contents(c.queues[y]), Contents(e.queues[y])) /\ SlotsReserved(Contents(c.queues[y]))
      BY <2>2
    <3> QED BY <3>1, <3>2, ExpiredFacts
  <2>4. /\ CqOk(x) /\ Keeps(e, x) /\ x.ingress = e.ingress /\ x.next = e.next
        /\ DOMAIN x.queues = DOMAIN e.queues
        /\ \A y \in DOMAIN e.queues \ {id} : x.queues[y] = e.queues[y]
        /\ CyclesIn(x) = CyclesIn(e)
        /\ Expired(Contents(e.queues[id]), Contents(x.queues[id]))
    <3>1. SlotsReserved(Contents(e.queues[id])) /\ id \in DOMAIN e.queues
      BY <2>1, <2>2, <2>3
    <3> QED BY <2>1, <2>2, <3>1, TimeOutQueueOk
  <2>5. Keeps(c, x)
    BY <2>2, <2>4, KeepsTransitive DEF CqOk
  <2>6. ASSUME NEW y \in DOMAIN c.queues
        PROVE  Expired(Contents(c.queues[y]), Contents(x.queues[y]))
    <3>1. CASE y = id
      BY <2>3, <2>4, <3>1
    <3>2. CASE y # id
      BY <2>2, <2>4, <3>2
    <3> QED BY <3>1, <3>2
  <2> QED BY <2>2, <2>4, <2>5, <2>6 DEF AllExpired
<1>5. Len(ids) \in P
  <2>1. \A j \in Nat : j \in P => j + 1 \in P
    BY <1>4
  <2> HIDE DEF P
  <2> QED BY <1>1, <1>3, <2>1, NatSetInduction
<1> QED BY <1>1, <1>2, <1>5

\* What garbage collection leaves of the queues: K are the pairs that stay.
Kept(c) == {id \in DOMAIN c.queues : \/ HasUsedSlots(c.queues[id].inq)
                                     \/ HasUsedSlots(c.queues[id].outq)}

LEMMA UnusedPair ==
  ASSUME NEW pair, PairOk(pair), ~HasUsedSlots(pair.inq), ~HasUsedSlots(pair.outq)
  PROVE  Contents(pair) = NoContents /\ pair.inq.queue = <<>>
<1>1. /\ pair.inq.queue \in Seq(Items) /\ pair.outq.queue \in Seq(Items)
      /\ Len(pair.inq.queue) \in Nat /\ Len(pair.outq.queue) \in Nat
      /\ pair.inq.num_slots_reserved \in Nat /\ pair.outq.num_slots_reserved \in Nat
  BY PairFields
<1>2. /\ Len(pair.inq.queue) = 0 /\ pair.inq.num_slots_reserved = 0
      /\ Len(pair.outq.queue) = 0 /\ pair.outq.num_slots_reserved = 0
  BY <1>1 DEF HasUsedSlots, UsedSlots
<1>3. pair.inq.queue = <<>> /\ pair.outq.queue = <<>>
  BY <1>1, <1>2
<1> QED BY <1>2, <1>3 DEF Contents, NoContents

\* garbage_collect.
LEMMA GarbageCollectOk ==
  ASSUME NEW c, CqOk(c), NEW d, d = GarbageCollect(c)
  PROVE  /\ CqOk(d) /\ Keeps(c, d) /\ SameContents(c.queues, d.queues)
         /\ d.local = c.local /\ d.remote = c.remote /\ d.ingress = c.ingress
         /\ DOMAIN d.queues = Kept(c) /\ PendingIn(d.queues) = PendingIn(c.queues)
         /\ DOMAIN d.queues = {} /\ c.ingress = 0 => d.next = "LocalSubnet"
<1> DEFINE Q == c.queues
           R == d.queues
           K == Kept(c)
           x == EMPTY_QUEUE_BYTES * Cardinality(DOMAIN Q \ K)
<1>1. /\ IsCq(c) /\ QueueMap(Q) /\ c.ingress \in Nat /\ c.next \in InputSources
      /\ Once(c.local, c.remote, PendingIn(Q)) /\ StatsMatch(c, AllContents(Q))
  BY DEF CqOk, ShapeOk
<1>2. /\ R = [y \in K |-> Q[y]]
      /\ d.local = c.local /\ d.remote = c.remote /\ d.ingress = c.ingress
      /\ d.next = IF K = {} /\ c.ingress = 0 THEN "LocalSubnet" ELSE c.next
      /\ d.input_stats = [c.input_stats EXCEPT !.size_bytes = @ - x]
      /\ d.output_stats = c.output_stats /\ d.memory_stats = c.memory_stats
      /\ IsCq(d)
  <2> HIDE DEF K, Q
  <2>1. d = [c EXCEPT !.queues = [y \in K |-> Q[y]],
                      !.input_stats.size_bytes = @ - x,
                      !.next = IF K = {} /\ c.ingress = 0 THEN "LocalSubnet" ELSE @]
    BY DEF GarbageCollect, K, Q, Kept
  <2> HIDE DEF x
  <2> QED BY <1>1, <2>1 DEF IsCq
<1>3. K \subseteq DOMAIN Q
  BY DEF Kept
<1>4. \A y \in DOMAIN Q \ K : Contents(Q[y]) = NoContents /\ Q[y].inq.queue = <<>>
  BY <1>1, UnusedPair DEF Kept, QueueMap
<1>5. DOMAIN Q \subseteq Canisters /\ IsFiniteSet(DOMAIN Q) /\ \A y \in DOMAIN Q : PairOk(Q[y])
  BY <1>1 DEF QueueMap
<1> HIDE DEF Q, R, K
<1>6. /\ DOMAIN R = K /\ \A y \in K : R[y] = Q[y]
      /\ R = [y \in DOMAIN R |-> R[y]]
  BY <1>2
<1>7. QueueMap(R)
  <2>1. IsFiniteSet(DOMAIN R) /\ DOMAIN R \subseteq Canisters
    BY <1>3, <1>5, <1>6, FS_Subset
  <2>2. \A y \in DOMAIN R : PairOk(R[y])
    BY <1>3, <1>5, <1>6
  <2> QED BY <1>6, <2>1, <2>2 DEF QueueMap
<1>8. PendingIn(R) = PendingIn(Q) /\ \A y \in PendingIn(Q) : R[y].inq = Q[y].inq
  BY <1>3, <1>4, <1>6 DEF PendingIn
<1>9. SameContents(Q, R)
  BY <1>3, <1>4, <1>6 DEF SameContents, ContentsAt
<1>10. ShapeOk(d)
  BY <1>1, <1>2, <1>7, <1>8 DEF ShapeOk, R, InputSources
<1>11. Keeps(c, d)
  BY <1>2, <1>8, KeepsWhen DEF CqOk, Q, R
<1> DEFINE F == AllContents(Q)
           G == AllContents(R)
<1>12. F \in [DOMAIN Q -> ContentsSet] /\ \A y \in DOMAIN Q : F[y] = Contents(Q[y])
  BY <1>1, ContentsOfMap
<1>13. G \in [K -> ContentsSet] /\ \A y \in K : G[y] = F[y]
  <2>1. G \in [DOMAIN R -> ContentsSet] /\ \A y \in DOMAIN R : G[y] = Contents(R[y])
    BY <1>7, ContentsOfMap
  <2> QED BY <1>3, <1>6, <1>12, <2>1
<1> HIDE DEF F, G
<1>14. ASSUME NEW m \in Measures, NEW v \in Int, Measure(m, NoContents) = v
       PROVE  MeasureAll(m, F) = MeasureAll(m, G) + v * Cardinality(DOMAIN Q \ K)
  <2>1. \A y \in DOMAIN Q \ K : Measure(m, F[y]) = v
    BY <1>4, <1>12, <1>14
  <2>2. Removal(DOMAIN Q, K, F, G)
    BY <1>3, <1>5, <1>12, <1>13 DEF Removal
  <2> QED BY <2>1, <2>2, MeasureRemove
<1>15. /\ MeasureAll(InCount, G) \in Nat /\ MeasureAll(InResponses, G) \in Nat
       /\ MeasureAll(InReserved, G) \in Nat /\ MeasureAll(InSize, G) \in Nat
       /\ MeasureAll(InCycles, G) \in Nat /\ MeasureAll(OutCount, G) \in Nat
       /\ MeasureAll(OutCycles, G) \in Nat /\ MeasureAll(ResponsesSize, G) \in Nat
       /\ MeasureAll(AllReserved, G) \in Nat /\ MeasureAll(Oversized, G) \in Nat
  <2>1. IsFiniteSet(K)
    BY <1>3, <1>5, FS_Subset
  <2> QED BY <1>13, <2>1, MeasureAllType
<1>16. Cardinality(DOMAIN Q \ K) \in Nat /\ EMPTY_QUEUE_BYTES \in Nat /\ x \in Int
  <2>1. IsFiniteSet(DOMAIN Q \ K)
    BY <1>5, FS_Subset
  <2> QED BY <2>1, FS_CardinalityType, CanisterQueuesAssumption
<1>17. ASSUME NEW m \in Measures, Measure(m, NoContents) = 0, MeasureAll(m, G) \in Nat
       PROVE  MeasureAll(m, F) = MeasureAll(m, G)
  <2>1. MeasureAll(m, F) = MeasureAll(m, G) + 0 * Cardinality(DOMAIN Q \ K)
    BY <1>14, <1>17
  <2> QED BY <1>16, <1>17, <2>1
<1>18. MeasureAll(InSize, F) = MeasureAll(InSize, G) + x
  <2>1. InSize \in Measures /\ Measure(InSize, NoContents) = EMPTY_QUEUE_BYTES
        /\ EMPTY_QUEUE_BYTES \in Int
    BY <1>16, MeasuresDefined, MeasuresOfNothing
  <2> QED BY <1>14, <2>1, Zenon
<1> HIDE DEF x
<1>19. /\ MeasureAll(InCount, G) = MeasureAll(InCount, F)
       /\ MeasureAll(InResponses, G) = MeasureAll(InResponses, F)
       /\ MeasureAll(InReserved, G) = MeasureAll(InReserved, F)
       /\ MeasureAll(InSize, G) = MeasureAll(InSize, F) - x
       /\ MeasureAll(InCycles, G) = MeasureAll(InCycles, F)
       /\ MeasureAll(OutCount, G) = MeasureAll(OutCount, F)
       /\ MeasureAll(OutCycles, G) = MeasureAll(OutCycles, F)
       /\ MeasureAll(ResponsesSize, G) = MeasureAll(ResponsesSize, F)
       /\ MeasureAll(AllReserved, G) = MeasureAll(AllReserved, F)
       /\ MeasureAll(Oversized, G) = MeasureAll(Oversized, F)
  BY <1>15, <1>16, <1>17, <1>18, MeasuresDefined, MeasuresOfNothing
<1>20. StatsMatch(d, G)
  <2>1. c.input_stats = InStats(F) /\ c.output_stats = OutStats(F)
        /\ c.memory_stats = MemoryStats(F)
    BY <1>1 DEF StatsMatch, F
  <2>2. d.input_stats = InStats(G)
    BY <1>2, <1>19, <2>1 DEF InStats
  <2>3. d.output_stats = OutStats(G) /\ d.memory_stats = MemoryStats(G)
    BY <1>2, <1>19, <2>1 DEF OutStats, MemoryStats
  <2> QED BY <2>2, <2>3 DEF StatsMatch
<1> QED BY <1>2, <1>6, <1>8, <1>9, <1>10, <1>11, <1>20 DEF CqOk, Q, R, G, K

\* Decoding the queues yields what was encoded.
LEMMA ReloadQueuesSame ==
  ASSUME NEW c, CqOk(c)
  PROVE  ReloadQueues(c) = c
<1> DEFINE Q == c.queues
           R == [id \in DOMAIN Q |-> [Q[id] EXCEPT !.outq = Reload(@)]]
<1>1. IsCq(c) /\ QueueMap(Q) /\ StatsMatch(c, AllContents(Q))
  BY DEF CqOk, ShapeOk
<1>2. ASSUME NEW id \in DOMAIN Q PROVE [Q[id] EXCEPT !.outq = Reload(@)] = Q[id]
  <2>1. PairOk(Q[id])
    BY <1>1 DEF QueueMap
  <2>2. Reload(Q[id].outq) = Q[id].outq
    BY <2>1, ReloadSame DEF PairOk
  <2>3. Q[id] = [inq |-> Q[id].inq, outq |-> Q[id].outq]
    BY <2>1, PairFields DEF PairOk
  <2> QED BY <2>2, <2>3
<1>3. R = Q
  <2>1. Q = [id \in DOMAIN Q |-> Q[id]]
    BY <1>1 DEF QueueMap
  <2> HIDE DEF Q
  <2> QED BY <1>2, <2>1
<1>4. /\ CalculateInputQueuesStats(Q) = c.input_stats
      /\ CalculateOutputQueuesStats(Q) = c.output_stats
      /\ CalculateMemoryUsageStats(Q) = c.memory_stats
  BY <1>1, CalculatedStats DEF StatsMatch
<1>5. ReloadQueues(c) = [c EXCEPT !.queues = R, !.input_stats = CalculateInputQueuesStats(R),
                                  !.output_stats = CalculateOutputQueuesStats(R),
                                  !.memory_stats = CalculateMemoryUsageStats(R)]
  BY DEF ReloadQueues
<1> HIDE DEF R
<1>6. ReloadQueues(c) = [c EXCEPT !.queues = c.queues, !.input_stats = c.input_stats,
                                  !.output_stats = c.output_stats,
                                  !.memory_stats = c.memory_stats]
  BY <1>3, <1>4, <1>5
<1> QED BY <1>1, <1>6 DEF IsCq

-----------------------------------------------------------------------------
(* Balance. *)

\* CallsBalance for one pair, in totals: o requests are being executed, a have
\* been sent; for the canister's own pair n messages are in the loopback stream.
Balanced(id, f, o, a, n) ==
  /\ f.ro = Total(RequestWeight, f.in) + o
  /\ f.ri = Total(RequestWeight, f.out) + a
  /\ id = Own => a = Total(RequestWeight, f.in) + o + Total(ResponseWeight, f.out) + n

AllBalanced(Q, o, a, n) == \A id \in Canisters : Balanced(id, ContentsAt(Q, id), o[id], a[id], n)

\* The numbers a message changes.
LEMMA PairNumbers ==
  ASSUME NEW f \in ContentsSet
  PROVE  /\ f.ri \in Nat /\ f.ro \in Nat
         /\ Total(RequestWeight, f.in) \in Nat /\ Total(RequestWeight, f.out) \in Nat
         /\ Total(ResponseWeight, f.in) \in Nat /\ Total(ResponseWeight, f.out) \in Nat
BY ContentsFields, TotalsType

LEMMA BalanceIn ==
  ASSUME NEW f \in ContentsSet, NEW g \in ContentsSet, NEW msg \in MessageType,
         MessageIn(f, g, msg), NEW id, NEW o \in Int, NEW a \in Int, NEW n \in Int,
         Balanced(id, f, o, a, n)
  PROVE  Balanced(id, g, o, a - (IF IsResponse(msg) THEN 1 ELSE 0), n - 1)
<1>1. f.in \in Seq(Items) /\ g.in \in Seq(Items)
  BY ContentsFields
<1>2. /\ Total(RequestWeight, g.in) = Total(RequestWeight, f.in) + (IF IsRequest(msg) THEN 1 ELSE 0)
      /\ g.out = f.out
      /\ g.ro = f.ro + (IF IsRequest(msg) THEN 1 ELSE 0)
      /\ g.ri = f.ri - (IF IsResponse(msg) THEN 1 ELSE 0)
      /\ IsResponse(msg) <=> ~IsRequest(msg)
  <2>1. IsResponse(msg) <=> ~IsRequest(msg)
    BY MessageFacts
  <2>2. f.ri \in Nat /\ f.ro \in Nat
    BY PairNumbers
  <2> QED BY <1>1, <2>1, <2>2, OneMoreTotals DEF MessageIn, Slots
<1>3. /\ f.ri \in Nat /\ f.ro \in Nat /\ g.ri \in Nat /\ g.ro \in Nat
      /\ Total(RequestWeight, f.in) \in Nat /\ Total(RequestWeight, f.out) \in Nat
      /\ Total(RequestWeight, g.in) \in Nat /\ Total(ResponseWeight, f.out) \in Nat
  BY PairNumbers
<1>4. CASE IsRequest(msg)
  BY <1>2, <1>3, <1>4 DEF Balanced
<1>5. CASE ~IsRequest(msg)
  BY <1>2, <1>3, <1>5 DEF Balanced
<1> QED BY <1>4, <1>5

LEMMA BalanceOut ==
  ASSUME NEW f \in ContentsSet, NEW g \in ContentsSet, NEW msg \in MessageType,
         MessageOut(f, g, msg), NEW id, NEW o \in Int, NEW a \in Int, NEW n \in Int,
         Balanced(id, f, o, a, n)
  PROVE  Balanced(id, g, o + (IF IsRequest(msg) THEN 1 ELSE 0), a, n)
<1>1. f.in \in Seq(Items) /\ g.in \in Seq(Items)
  BY ContentsFields
<1>2. /\ f.ri \in Nat /\ f.ro \in Nat /\ g.ri \in Nat /\ g.ro \in Nat
      /\ Total(RequestWeight, f.in) \in Nat /\ Total(RequestWeight, f.out) \in Nat
      /\ Total(RequestWeight, g.in) \in Nat /\ Total(ResponseWeight, f.out) \in Nat
  BY PairNumbers
<1>3. /\ Total(RequestWeight, f.in) = Total(RequestWeight, g.in) + (IF IsRequest(msg) THEN 1 ELSE 0)
      /\ g.out = f.out /\ g.ro = f.ro /\ g.ri = f.ri
  BY <1>1, <1>2, OneMoreTotals DEF MessageOut, Slots
<1>4. CASE IsRequest(msg)
  BY <1>2, <1>3, <1>4 DEF Balanced
<1>5. CASE ~IsRequest(msg)
  BY <1>2, <1>3, <1>5 DEF Balanced
<1> QED BY <1>4, <1>5

LEMMA BalanceSent ==
  ASSUME NEW f \in ContentsSet, NEW g \in ContentsSet, NEW msg \in MessageType,
         MessageSent(f, g, msg), NEW id, NEW o \in Int, NEW a \in Int, NEW n \in Int,
         Balanced(id, f, o, a, n)
  PROVE  Balanced(id, g, o - (IF IsResponse(msg) THEN 1 ELSE 0), a, n)
<1>1. f.out \in Seq(Items) /\ g.out \in Seq(Items)
  BY ContentsFields
<1>2. /\ f.ri \in Nat /\ f.ro \in Nat /\ g.ri \in Nat /\ g.ro \in Nat
      /\ Total(RequestWeight, f.in) \in Nat /\ Total(RequestWeight, f.out) \in Nat
      /\ Total(RequestWeight, g.out) \in Nat /\ Total(ResponseWeight, f.out) \in Nat
      /\ Total(ResponseWeight, g.out) \in Nat
  BY PairNumbers
<1>3. IsResponse(msg) <=> ~IsRequest(msg)
  BY MessageFacts
<1>4. /\ Total(RequestWeight, g.out) = Total(RequestWeight, f.out) + (IF IsRequest(msg) THEN 1 ELSE 0)
      /\ Total(ResponseWeight, g.out) = Total(ResponseWeight, f.out) + (IF IsResponse(msg) THEN 1 ELSE 0)
      /\ g.in = f.in
      /\ g.ri = f.ri + (IF IsRequest(msg) THEN 1 ELSE 0)
      /\ g.ro = f.ro - (IF IsResponse(msg) THEN 1 ELSE 0)
  <2>1. g.in = f.in /\ OneMore(f.out, g.out, msg)
    BY DEF MessageSent
  <2>2. /\ g.ri = f.ri + (IF IsRequest(msg) THEN 1 ELSE 0)
        /\ g.ro = f.ro - (IF IsResponse(msg) THEN 1 ELSE 0)
    BY <1>2, <1>3 DEF MessageSent, Slots
  <2> QED BY <1>1, <2>1, <2>2, OneMoreTotals
<1>5. CASE IsRequest(msg)
  <2>1. /\ Total(RequestWeight, g.out) = Total(RequestWeight, f.out) + 1
        /\ Total(ResponseWeight, g.out) = Total(ResponseWeight, f.out)
        /\ g.in = f.in /\ g.ri = f.ri + 1 /\ g.ro = f.ro
    BY <1>2, <1>3, <1>4, <1>5
  <2>2. o - (IF IsResponse(msg) THEN 1 ELSE 0) = o
    BY <1>3, <1>5
  <2> QED BY <1>2, <2>1, <2>2 DEF Balanced
<1>6. CASE ~IsRequest(msg)
  <2>1. /\ Total(RequestWeight, g.out) = Total(RequestWeight, f.out)
        /\ Total(ResponseWeight, g.out) = Total(ResponseWeight, f.out) + 1
        /\ g.in = f.in /\ g.ri = f.ri /\ g.ro = f.ro - 1
    BY <1>2, <1>3, <1>4, <1>6
  <2>2. o - (IF IsResponse(msg) THEN 1 ELSE 0) = o - 1
    BY <1>3, <1>6
  <2> QED BY <1>2, <2>1, <2>2 DEF Balanced
<1> QED BY <1>5, <1>6

LEMMA BalanceLeft ==
  ASSUME NEW f \in ContentsSet, NEW g \in ContentsSet, NEW msg \in MessageType,
         MessageLeft(f, g, msg), NEW id, NEW o \in Int, NEW a \in Int, NEW n \in Int,
         Balanced(id, f, o, a, n)
  PROVE  Balanced(id, g, o, a + (IF IsRequest(msg) THEN 1 ELSE 0), n + 1)
<1>1. f.out \in Seq(Items) /\ g.out \in Seq(Items)
  BY ContentsFields
<1>2. /\ f.ri \in Nat /\ f.ro \in Nat /\ g.ri \in Nat /\ g.ro \in Nat
      /\ Total(RequestWeight, f.in) \in Nat /\ Total(RequestWeight, f.out) \in Nat
      /\ Total(RequestWeight, g.out) \in Nat /\ Total(ResponseWeight, f.out) \in Nat
      /\ Total(ResponseWeight, g.out) \in Nat
  BY PairNumbers
<1>3. IsResponse(msg) <=> ~IsRequest(msg)
  BY MessageFacts
<1>4. /\ Total(RequestWeight, f.out) = Total(RequestWeight, g.out) + (IF IsRequest(msg) THEN 1 ELSE 0)
      /\ Total(ResponseWeight, f.out) = Total(ResponseWeight, g.out) + (IF IsResponse(msg) THEN 1 ELSE 0)
      /\ g.in = f.in /\ g.ri = f.ri /\ g.ro = f.ro
  BY <1>1, <1>2, OneMoreTotals DEF MessageLeft, Slots
<1>5. CASE IsRequest(msg)
  BY <1>2, <1>3, <1>4, <1>5 DEF Balanced
<1>6. CASE ~IsRequest(msg)
  BY <1>2, <1>3, <1>4, <1>6 DEF Balanced
<1> QED BY <1>5, <1>6

LEMMA BalanceExpired ==
  ASSUME NEW f \in ContentsSet, NEW g \in ContentsSet, Expired(f, g),
         NEW id, NEW o \in Int, NEW a \in Int, NEW n \in Int, Balanced(id, f, o, a, n)
  PROVE  Balanced(id, g, o, a, n)
<1>1. /\ f.ri \in Nat /\ f.ro \in Nat /\ g.ri \in Nat /\ g.ro \in Nat
      /\ Total(RequestWeight, f.in) \in Nat /\ Total(RequestWeight, f.out) \in Nat
      /\ Total(RequestWeight, g.out) \in Nat
  BY PairNumbers
<1>2. g.ri = Total(RequestWeight, g.out) + a
  <2>1. g.ri - Total(RequestWeight, g.out) = f.ri - Total(RequestWeight, f.out)
        /\ f.ri = Total(RequestWeight, f.out) + a
    BY DEF Expired, Balanced
  <2> QED BY <1>1, <2>1
<1> QED BY <1>2 DEF Expired, Balanced

\* A reject that answers on the spot.
LEMMA BalanceAnswered ==
  ASSUME NEW f \in ContentsSet, NEW g \in ContentsSet, NEW msg \in MessageType, IsResponse(msg),
         OneMore(f.in, g.in, msg), g.out = f.out, g.ri = f.ri, g.ro = f.ro,
         NEW id, NEW o \in Int, NEW a \in Int, NEW n \in Int, Balanced(id, f, o, a, n)
  PROVE  Balanced(id, g, o, a, n)
<1>1. f.in \in Seq(Items) /\ g.in \in Seq(Items) /\ Total(RequestWeight, f.in) \in Nat
      /\ ~IsRequest(msg)
  BY ContentsFields, PairNumbers, MessageFacts
<1>2. Total(RequestWeight, g.in) = Total(RequestWeight, f.in) + 0
  BY <1>1, OneMoreTotals
<1>3. Total(RequestWeight, g.in) = Total(RequestWeight, f.in)
  BY <1>1, <1>2
<1> QED BY <1>3 DEF Balanced

\* One pair changes.
LEMMA BalanceAt ==
  ASSUME NEW Q, NEW R, NEW id \in Canisters, OnlyAt(Q, R, id),
         NEW o, NEW a, NEW n, AllBalanced(Q, o, a, n), NEW p, NEW b, NEW m,
         \A y \in Canisters \ {id} : p[y] = o[y] /\ b[y] = a[y],
         Balanced(id, ContentsAt(R, id), p[id], b[id], m), id # Own => m = n
  PROVE  AllBalanced(R, p, b, m)
<1> SUFFICES ASSUME NEW y \in Canisters
             PROVE  Balanced(y, ContentsAt(R, y), p[y], b[y], m)
  BY DEF AllBalanced
<1>1. CASE y = id
  BY <1>1
<1>2. CASE y # id
  <2>1. Balanced(y, ContentsAt(Q, y), o[y], a[y], n)
    BY DEF AllBalanced
  <2>2. ContentsAt(R, y) = ContentsAt(Q, y) /\ p[y] = o[y] /\ b[y] = a[y]
    BY <1>2 DEF OnlyAt
  <2>3. y = Own => m = n
    BY <1>2
  <2> QED BY <2>1, <2>2, <2>3 DEF Balanced
<1> QED BY <1>1, <1>2

LEMMA BalanceSame ==
  ASSUME NEW Q, NEW R, SameContents(Q, R), NEW o, NEW a, NEW n, AllBalanced(Q, o, a, n)
  PROVE  AllBalanced(R, o, a, n)
BY DEF AllBalanced, SameContents

\* The contents of a pair, there or not.
LEMMA ContentsAtType ==
  ASSUME NEW c, CqOk(c), NEW id
  PROVE  ContentsAt(c.queues, id) \in ContentsSet
BY ContentsOfPair, MeasuresOfNothing DEF ContentsAt

-----------------------------------------------------------------------------
(* The inductive invariant. *)

\* Requests of the canister to itself whose answer is in the loopback stream, or was
\* there and was refused, and requests in that stream.
Waiting == Len(loopback) + dropped[Own]

Inv ==
  /\ CqOk(cq)
  /\ cq.ingress <= MaxIngress
  /\ now \in 0 .. MaxTime
  /\ locals \subseteq Locals
  /\ owed \in [Canisters -> Nat]
  /\ awaiting \in [Canisters -> Nat]
  /\ loopback \in Seq(MessageType)
  /\ forgotten \subseteq Canisters
  /\ dropped \in [Canisters -> Nat]
  /\ AllBalanced(cq.queues, owed, awaiting, Waiting)

LEMMA EmptyOk ==
  /\ CqOk(EmptyCanisterQueues)
  /\ SameContents(<<>>, EmptyCanisterQueues.queues)
  /\ EmptyCanisterQueues.ingress = 0
<1> DEFINE c == EmptyCanisterQueues
<1>1. /\ c.queues = <<>> /\ c.local = <<>> /\ c.remote = <<>> /\ c.ingress = 0
      /\ c.next = "LocalSubnet" /\ IsCq(c)
      /\ c.input_stats = CalculateInputQueuesStats(<<>>)
      /\ c.output_stats = CalculateOutputQueuesStats(<<>>)
      /\ c.memory_stats = CalculateMemoryUsageStats(<<>>)
  BY DEF EmptyCanisterQueues, IsCq
<1> HIDE DEF c
<1>2. QueueMap(<<>>)
  <2>1. DOMAIN <<>> = {} /\ <<>> = [id \in {} |-> <<>>[id]]
    OBVIOUS
  <2> QED BY <2>1, FS_EmptySet DEF QueueMap
<1>3. PendingIn(<<>>) = {}
  BY DEF PendingIn
<1>4. Once(<<>>, <<>>, {})
  BY DEF Once, IsInjective, Range
<1>5. ShapeOk(c)
  <2>1. QueueMap(c.queues) /\ Once(c.local, c.remote, PendingIn(c.queues))
    BY <1>1, <1>2, <1>3, <1>4, Zenon
  <2>2. IsCq(c) /\ c.ingress \in Nat /\ c.next \in InputSources
    BY <1>1 DEF InputSources
  <2> QED BY <2>1, <2>2 DEF ShapeOk
<1>6. StatsMatch(c, AllContents(<<>>))
  BY <1>1, <1>2, CalculatedStats DEF StatsMatch
<1>7. CqOk(c)
  BY <1>1, <1>5, <1>6 DEF CqOk
<1> QED BY <1>1, <1>7 DEF SameContents, c

LEMMA InvInit ==
  Init => Inv
<1> SUFFICES ASSUME Init PROVE Inv
  OBVIOUS
<1>1. CqOk(cq) /\ cq.ingress = 0 /\ SameContents(<<>>, cq.queues)
  BY EmptyOk DEF Init
<1>2. MaxIngress \in Nat /\ MaxTime \in Nat
  BY CanisterQueuesAssumption
<1>3. /\ now = 0 /\ locals = Locals /\ owed = [id \in Canisters |-> 0]
      /\ awaiting = [id \in Canisters |-> 0] /\ loopback = <<>>
      /\ forgotten = {} /\ dropped = [id \in Canisters |-> 0] /\ Own \in Canisters
  BY DEF Init, Canisters
<1>4. AllBalanced(cq.queues, owed, awaiting, Waiting)
  <2>1. ASSUME NEW id \in Canisters
        PROVE  Balanced(id, ContentsAt(cq.queues, id), owed[id], awaiting[id], Waiting)
    <3>1. ContentsAt(cq.queues, id) = NoContents
      BY <1>1 DEF SameContents, ContentsAt
    <3>2. /\ NoContents.in = <<>> /\ NoContents.out = <<>>
          /\ NoContents.ri = 0 /\ NoContents.ro = 0
      BY DEF NoContents
    <3>3. Total(RequestWeight, <<>>) = 0 /\ Total(ResponseWeight, <<>>) = 0
      BY TotalEmpty
    <3>4. owed[id] = 0 /\ awaiting[id] = 0 /\ Waiting = 0
      BY <1>3 DEF Waiting
    <3> QED BY <3>1, <3>2, <3>3, <3>4 DEF Balanced
  <2> QED BY <2>1 DEF AllBalanced
<1> QED BY <1>1, <1>2, <1>3, <1>4 DEF Inv

\* What Inv says of one pair.
LEMMA InvAt ==
  ASSUME Inv, NEW id \in Canisters
  PROVE  /\ owed[id] \in Nat /\ awaiting[id] \in Nat /\ Waiting \in Nat
         /\ ContentsAt(cq.queues, id) \in ContentsSet
         /\ Balanced(id, ContentsAt(cq.queues, id), owed[id], awaiting[id], Waiting)
         /\ ContentsAt(cq.queues, id).ri >= awaiting[id]
         /\ ContentsAt(cq.queues, id).ro >= owed[id]
         /\ id = Own => awaiting[id] >= Waiting
         /\ id = Own => awaiting[id] >= Total(ResponseWeight, ContentsAt(cq.queues, id).out)
<1>0. Waiting \in Nat
  <2>1. Len(loopback) \in Nat /\ dropped[Own] \in Nat
    BY DEF Inv, Canisters
  <2> QED BY <2>1 DEF Waiting
<1>1. /\ owed[id] \in Nat /\ awaiting[id] \in Nat /\ Waiting \in Nat
      /\ Balanced(id, ContentsAt(cq.queues, id), owed[id], awaiting[id], Waiting)
  BY <1>0 DEF Inv, AllBalanced
<1>2. ContentsAt(cq.queues, id) \in ContentsSet
  BY ContentsAtType DEF Inv
<1> SUFFICES ASSUME NEW f, f = ContentsAt(cq.queues, id)
             PROVE  /\ f.ri >= awaiting[id] /\ f.ro >= owed[id]
                    /\ id = Own => awaiting[id] >= Waiting
                    /\ id = Own => awaiting[id] >= Total(ResponseWeight, f.out)
  BY <1>1, <1>2
<1>3. /\ Total(RequestWeight, f.in) \in Nat /\ Total(RequestWeight, f.out) \in Nat
      /\ Total(ResponseWeight, f.out) \in Nat
  BY <1>2, PairNumbers
<1> QED BY <1>1, <1>3 DEF Balanced

\* Steps that touch only the ingress queue.
LEMMA ReceiveIngressStep ==
  ASSUME Inv, ReceiveIngress
  PROVE  Inv' /\ Keeps(cq, cq')
<1>1. /\ IsCq(cq) /\ cq.ingress \in Nat /\ cq.next \in InputSources
  BY DEF Inv, CqOk, ShapeOk
<1>2. MaxIngress \in Nat
  BY CanisterQueuesAssumption
<1>3. /\ IsCq(cq') /\ cq'.ingress = cq.ingress + 1 /\ cq'.next = cq.next
      /\ cq'.queues = cq.queues /\ cq'.local = cq.local /\ cq'.remote = cq.remote
      /\ cq'.input_stats = cq.input_stats /\ cq'.output_stats = cq.output_stats
      /\ cq'.memory_stats = cq.memory_stats
  BY <1>1 DEF ReceiveIngress, IsCq
<1>4. CqOk(cq') /\ Keeps(cq, cq')
  <2>1. cq'.ingress \in Nat
    BY <1>1, <1>3
  <2> QED BY <1>1, <1>3, <2>1, OthersOk DEF Inv, Waiting
<1>5. cq'.ingress <= MaxIngress
  BY <1>1, <1>2, <1>3 DEF ReceiveIngress
<1> QED BY <1>3, <1>4, <1>5 DEF Inv, Waiting, ReceiveIngress

LEMMA FilterIngressStep ==
  ASSUME Inv, FilterIngress
  PROVE  Inv' /\ Keeps(cq, cq')
<1>1. /\ IsCq(cq) /\ cq.ingress \in Nat /\ cq.next \in InputSources
  BY DEF Inv, CqOk, ShapeOk
<1>2. MaxIngress \in Nat
  BY CanisterQueuesAssumption
<1>3. PICK kept \in 0 .. cq.ingress : /\ cq' = [cq EXCEPT !.ingress = kept]
                                      /\ UNCHANGED <<now, locals, owed, awaiting, loopback, forgotten, dropped>>
  BY DEF FilterIngress
<1>4. /\ IsCq(cq') /\ cq'.ingress = kept /\ cq'.next = cq.next
      /\ cq'.queues = cq.queues /\ cq'.local = cq.local /\ cq'.remote = cq.remote
      /\ cq'.input_stats = cq.input_stats /\ cq'.output_stats = cq.output_stats
      /\ cq'.memory_stats = cq.memory_stats
  BY <1>1, <1>3 DEF IsCq
<1>5. CqOk(cq') /\ Keeps(cq, cq')
  <2>1. cq'.ingress \in Nat
    BY <1>1, <1>4
  <2> QED BY <1>1, <1>4, <2>1, OthersOk DEF Inv, Waiting
<1>6. cq'.ingress <= MaxIngress
  BY <1>1, <1>2, <1>4 DEF Inv
<1> QED BY <1>3, <1>4, <1>5, <1>6 DEF Inv, Waiting

\* Payloads make messages.
LEMMA PayloadMessages ==
  ASSUME NEW p \in Payloads
  PROVE  /\ Request(p) \in MessageType /\ IsRequest(Request(p)) /\ ~IsResponse(Request(p))
         /\ Response(p) \in MessageType /\ IsResponse(Response(p)) /\ ~IsRequest(Response(p))
<1>1. p \in [bytes : Nat, cycles : Nat]
  BY CanisterQueuesAssumption
<1>2. Request(p) \in MessageType /\ Response(p) \in MessageType
  BY <1>1 DEF Request, Response, MessageType
<1>3. Request(p).kind = "Request" /\ Response(p).kind = "Response"
  BY DEF Request, Response
<1> QED BY <1>2, <1>3, MessageFacts

\* Steps in which a message enters an input queue.
LEMMA ReceiveRequestStep ==
  ASSUME Inv, ReceiveRequest
  PROVE  Inv' /\ Keeps(cq, cq')
<1>1. PICK id \in locals \cup (Peers \ (Locals \cup Subnets)), p \in Payloads :
        /\ cq' = PushInput(cq, id, Request(p), InputQueueType(id)).cq
        /\ UNCHANGED <<now, locals, owed, awaiting, loopback, forgotten, dropped>>
  BY DEF ReceiveRequest
<1>2. id \in Canisters /\ id # Own
  BY CanisterQueuesAssumption DEF Inv, Canisters
<1> SUFFICES ASSUME NEW msg, msg = Request(p), NEW type, type = InputQueueType(id),
                    NEW r, r = PushInput(cq, id, msg, type)
             PROVE  Inv' /\ Keeps(cq, cq')
  OBVIOUS
<1>3. msg \in MessageType /\ IsRequest(msg) /\ ~IsResponse(msg) /\ cq' = r.cq
  BY <1>1, PayloadMessages
<1>4. /\ CqOk(cq') /\ Keeps(cq, cq') /\ cq'.ingress = cq.ingress
      /\ ~r.ok => SameContents(cq.queues, cq'.queues)
      /\ r.ok => /\ OnlyAt(cq.queues, cq'.queues, id)
                 /\ MessageIn(ContentsAt(cq.queues, id), ContentsAt(cq'.queues, id), msg)
  BY <1>2, <1>3, PushInputOk DEF Inv
<1>5. AllBalanced(cq'.queues, owed, awaiting, Waiting)
  <2>0. AllBalanced(cq.queues, owed, awaiting, Waiting)
    BY DEF Inv
  <2>1. CASE ~r.ok
    BY <1>4, <2>0, <2>1, BalanceSame
  <2>2. CASE r.ok
    <3>1. /\ owed[id] \in Nat /\ awaiting[id] \in Nat /\ Waiting \in Nat
          /\ ContentsAt(cq.queues, id) \in ContentsSet
          /\ Balanced(id, ContentsAt(cq.queues, id), owed[id], awaiting[id], Waiting)
      BY <1>2, InvAt
    <3>2. ContentsAt(cq'.queues, id) \in ContentsSet
      BY <1>4, ContentsAtType
    <3>3. Balanced(id, ContentsAt(cq'.queues, id), owed[id],
                   awaiting[id] - (IF IsResponse(msg) THEN 1 ELSE 0), Waiting - 1)
      BY <1>3, <1>4, <2>2, <3>1, <3>2, BalanceIn
    <3>4. awaiting[id] - (IF IsResponse(msg) THEN 1 ELSE 0) = awaiting[id]
      BY <1>3, <3>1
    <3>5. Balanced(id, ContentsAt(cq'.queues, id), owed[id], awaiting[id], Waiting)
      BY <1>2, <3>3, <3>4 DEF Balanced
    <3> QED BY <1>2, <1>4, <2>0, <2>2, <3>5, BalanceAt
  <2> QED BY <2>1, <2>2
<1> QED BY <1>1, <1>4, <1>5 DEF Inv, Waiting

\* A response that is refused changes nothing but the count of them.
LEMMA RefuseOk ==
  ASSUME Inv, NEW id \in Canisters, Refuse(id)
  PROVE  /\ cq' = cq /\ awaiting' = awaiting
         /\ dropped' \in [Canisters -> Nat] /\ dropped'[id] = dropped[id] + 1
         /\ \A y \in Canisters \ {id} : dropped'[y] = dropped[y]
         /\ id # Own => dropped'[Own] = dropped[Own]
<1>1. dropped \in [Canisters -> Nat] /\ Own \in Canisters
  BY DEF Inv, Canisters
<1>2. dropped' = [dropped EXCEPT ![id] = dropped[id] + 1] /\ cq' = cq /\ awaiting' = awaiting
  BY DEF Refuse
<1> QED BY <1>1, <1>2

LEMMA ReceiveResponseStep ==
  ASSUME Inv, ReceiveResponse
  PROVE  Inv' /\ Keeps(cq, cq')
<1>0. PICK id \in Peers, p \in ResponsePayloads :
        /\ dropped[id] < awaiting[id]
        /\ \/ /\ cq' = PushInput(cq, id, Response(p), InputQueueType(id)).cq
              /\ awaiting' = [awaiting EXCEPT ![id] = @ - 1]
              /\ UNCHANGED dropped
           \/ Refuse(id)
        /\ UNCHANGED <<now, locals, owed, loopback, forgotten>>
  BY DEF ReceiveResponse
<1>2. id \in Canisters /\ id # Own /\ p \in Payloads
  BY CanisterQueuesAssumption DEF Canisters, ResponsePayloads
<1>r. CASE Refuse(id)
  <2>1. Waiting' = Waiting /\ dropped' \in [Canisters -> Nat] /\ UNCHANGED <<cq, awaiting>>
    BY <1>0, <1>2, <1>r, RefuseOk DEF Waiting
  <2>2. Keeps(cq, cq)
    BY KeepsReflexive DEF Inv, CqOk
  <2> QED BY <1>0, <2>1, <2>2 DEF Inv
<1>s. SUFFICES ASSUME cq' = PushInput(cq, id, Response(p), InputQueueType(id)).cq,
                      awaiting' = [awaiting EXCEPT ![id] = @ - 1], dropped' = dropped
               PROVE  Inv' /\ Keeps(cq, cq')
  BY <1>0, <1>r
<1>1. /\ awaiting[id] > 0
      /\ cq' = PushInput(cq, id, Response(p), InputQueueType(id)).cq
      /\ awaiting' = [awaiting EXCEPT ![id] = @ - 1]
      /\ UNCHANGED <<now, locals, owed, loopback, forgotten, dropped>>
  <2>1. dropped[id] \in Nat /\ awaiting[id] \in Nat
    BY <1>2 DEF Inv
  <2> QED BY <1>0, <1>s, <2>1
<1> SUFFICES ASSUME NEW msg, msg = Response(p), NEW type, type = InputQueueType(id),
                    NEW r, r = PushInput(cq, id, msg, type)
             PROVE  Inv' /\ Keeps(cq, cq')
  OBVIOUS
<1>3. msg \in MessageType /\ IsResponse(msg) /\ ~IsRequest(msg) /\ cq' = r.cq
  BY <1>1, <1>2, PayloadMessages
<1>4. /\ owed[id] \in Nat /\ awaiting[id] \in Nat /\ Waiting \in Nat
      /\ ContentsAt(cq.queues, id) \in ContentsSet
      /\ Balanced(id, ContentsAt(cq.queues, id), owed[id], awaiting[id], Waiting)
      /\ ContentsAt(cq.queues, id).ri >= awaiting[id]
  BY <1>2, InvAt
<1>5. ContentsAt(cq.queues, id).ri > 0
  <2>1. ContentsAt(cq.queues, id).ri \in Nat
    BY <1>4, PairNumbers
  <2> QED BY <1>1, <1>4, <2>1
<1>6. /\ CqOk(cq') /\ Keeps(cq, cq') /\ cq'.ingress = cq.ingress
      /\ OnlyAt(cq.queues, cq'.queues, id)
      /\ MessageIn(ContentsAt(cq.queues, id), ContentsAt(cq'.queues, id), msg)
  BY <1>2, <1>3, <1>5, PushInputOk DEF Inv
<1>7. /\ awaiting' \in [Canisters -> Nat] /\ awaiting'[id] = awaiting[id] - 1
      /\ \A y \in Canisters \ {id} : awaiting'[y] = awaiting[y]
  <2>1. awaiting \in [Canisters -> Nat] /\ awaiting[id] - 1 \in Nat
    BY <1>1, <1>4 DEF Inv
  <2> QED BY <1>1, <1>2, <2>1
<1>8. AllBalanced(cq'.queues, owed, awaiting', Waiting)
  <2>0. AllBalanced(cq.queues, owed, awaiting, Waiting)
    BY DEF Inv
  <2>1. ContentsAt(cq'.queues, id) \in ContentsSet
    BY <1>6, ContentsAtType
  <2>2. Balanced(id, ContentsAt(cq'.queues, id), owed[id],
                 awaiting[id] - (IF IsResponse(msg) THEN 1 ELSE 0), Waiting - 1)
    BY <1>3, <1>4, <1>6, <2>1, BalanceIn
  <2>3. Balanced(id, ContentsAt(cq'.queues, id), owed[id], awaiting'[id], Waiting)
    BY <1>2, <1>3, <1>7, <2>2 DEF Balanced
  <2>4. OnlyAt(cq.queues, cq'.queues, id)
    BY <1>6
  <2>5. \A y \in Canisters \ {id} : owed[y] = owed[y] /\ awaiting'[y] = awaiting[y]
    BY <1>7
  <2>6. id \in Canisters
    BY <1>2
  <2> QED BY <2>0, <2>3, <2>4, <2>5, <2>6, BalanceAt
<1> QED BY <1>1, <1>6, <1>7, <1>8 DEF Inv, Waiting

\* A message of the loopback stream.
LEMMA InductLoopbackStep ==
  ASSUME Inv, InductLoopback
  PROVE  Inv' /\ Keeps(cq, cq')
<1> SUFFICES ASSUME NEW msg, msg = Head(loopback),
                    NEW r, r = PushInput(cq, Own, msg, "LocalSubnet")
             PROVE  Inv' /\ Keeps(cq, cq')
  OBVIOUS
<1>1. /\ loopback # <<>> /\ now' = now /\ locals' = locals /\ owed' = owed
      /\ forgotten' = forgotten
      /\ \/ /\ r.ok
            /\ cq' = r.cq
            /\ loopback' = Tail(loopback)
            /\ awaiting' = [awaiting EXCEPT ![Own] = @ - (IF IsResponse(msg) THEN 1 ELSE 0)]
            /\ dropped' = dropped
         \/ /\ IsRequest(msg)
            /\ cq' = IF r.ok THEN cq ELSE r.cq
            /\ loopback' = Append(Tail(loopback), RejectOf(msg))
            /\ awaiting' = awaiting /\ dropped' = dropped
         \/ /\ Refuse(Own)
            /\ loopback' = Tail(loopback)
  BY DEF InductLoopback
<1>2. /\ loopback \in Seq(MessageType) /\ msg \in MessageType /\ Own \in Canisters
      /\ Tail(loopback) \in Seq(MessageType) /\ Len(Tail(loopback)) = Len(loopback) - 1
      /\ Len(loopback) \in Nat /\ Len(loopback) > 0
  BY <1>1 DEF Inv, Canisters
<1>3. /\ CqOk(r.cq) /\ Keeps(cq, r.cq) /\ r.cq.ingress = cq.ingress
      /\ ~r.ok => SameContents(cq.queues, r.cq.queues)
      /\ r.ok => /\ OnlyAt(cq.queues, r.cq.queues, Own)
                 /\ MessageIn(ContentsAt(cq.queues, Own), ContentsAt(r.cq.queues, Own), msg)
  BY <1>2, PushInputOk DEF Inv
<1>4. /\ owed[Own] \in Nat /\ awaiting[Own] \in Nat
      /\ ContentsAt(cq.queues, Own) \in ContentsSet
      /\ Balanced(Own, ContentsAt(cq.queues, Own), owed[Own], awaiting[Own], Waiting)
      /\ awaiting[Own] >= Waiting /\ Waiting \in Nat
  BY <1>2, InvAt
<1>5. AllBalanced(cq.queues, owed, awaiting, Waiting) /\ awaiting \in [Canisters -> Nat]
      /\ dropped \in [Canisters -> Nat] /\ dropped[Own] \in Nat /\ Waiting >= Len(loopback)
  BY <1>2 DEF Inv, Waiting
<1>6. CASE r.ok /\ cq' = r.cq /\ loopback' = Tail(loopback)
           /\ awaiting' = [awaiting EXCEPT ![Own] = @ - (IF IsResponse(msg) THEN 1 ELSE 0)]
           /\ dropped' = dropped
  <2> DEFINE a == awaiting[Own] - (IF IsResponse(msg) THEN 1 ELSE 0)
  <2>1. a \in Nat
    BY <1>2, <1>4, <1>5
  <2> HIDE DEF a
  <2>2. awaiting' = [awaiting EXCEPT ![Own] = a]
    BY <1>6 DEF a
  <2>3. /\ awaiting' \in [Canisters -> Nat] /\ awaiting'[Own] = a
        /\ \A y \in Canisters \ {Own} : awaiting'[y] = awaiting[y]
    BY <1>2, <1>5, <2>1, <2>2
  <2>4. ContentsAt(r.cq.queues, Own) \in ContentsSet
    BY <1>3, ContentsAtType
  <2>5. Balanced(Own, ContentsAt(r.cq.queues, Own), owed[Own], a, Waiting - 1)
    BY <1>2, <1>3, <1>4, <1>6, <2>4, BalanceIn DEF a
  <2>6. AllBalanced(r.cq.queues, owed, awaiting', Waiting')
    <3>1. Waiting' = Waiting - 1
      BY <1>2, <1>5, <1>6 DEF Waiting
    <3>2. Balanced(Own, ContentsAt(r.cq.queues, Own), owed[Own], awaiting'[Own], Waiting')
      BY <2>3, <2>5, <3>1
    <3>3. OnlyAt(cq.queues, r.cq.queues, Own)
      BY <1>3, <1>6
    <3> QED BY <1>2, <1>5, <2>3, <3>2, <3>3, BalanceAt
  <2>7. CqOk(cq') /\ Keeps(cq, cq') /\ cq'.ingress = cq.ingress
        /\ AllBalanced(cq'.queues, owed', awaiting', Waiting')
        /\ loopback' \in Seq(MessageType)
    <3>1. cq' = r.cq /\ owed' = owed /\ loopback' = Tail(loopback)
      BY <1>1, <1>6
    <3> QED BY <1>2, <1>3, <2>6, <3>1
  <2> QED BY <1>1, <1>5, <1>6, <2>3, <2>7 DEF Inv
<1>7. CASE IsRequest(msg) /\ cq' = (IF r.ok THEN cq ELSE r.cq) /\ awaiting' = awaiting
           /\ loopback' = Append(Tail(loopback), RejectOf(msg)) /\ dropped' = dropped
  <2>1. loopback' \in Seq(MessageType) /\ Len(loopback') = Len(loopback)
    <3>1. RejectOf(msg) \in MessageType
      BY <1>2, RejectType
    <3> QED BY <1>2, <1>7, <3>1
  <2>2. CqOk(cq') /\ Keeps(cq, cq') /\ cq'.ingress = cq.ingress /\ SameContents(cq.queues, cq'.queues)
    <3>1. CASE r.ok
      BY <1>7, <3>1, KeepsReflexive DEF Inv, CqOk, SameContents
    <3>2. CASE ~r.ok
      BY <1>3, <1>7, <3>2
    <3> QED BY <3>1, <3>2
  <2>3. AllBalanced(cq'.queues, owed, awaiting, Waiting)
    BY <1>5, <2>2, BalanceSame
  <2>4. Waiting' = Waiting
    BY <1>7, <2>1 DEF Waiting
  <2> QED BY <1>1, <1>5, <1>7, <2>1, <2>2, <2>3, <2>4 DEF Inv
<1>8. CASE Refuse(Own) /\ loopback' = Tail(loopback)
  <2>1. /\ cq' = cq /\ awaiting' = awaiting /\ dropped' \in [Canisters -> Nat]
        /\ dropped'[Own] = dropped[Own] + 1
    BY <1>2, <1>8, RefuseOk
  <2>2. Len(loopback') = Len(loopback) - 1 /\ loopback' \in Seq(MessageType)
    BY <1>2, <1>8
  <2>3. Waiting' = Waiting
    BY <1>2, <1>5, <2>1, <2>2 DEF Waiting
  <2>4. Keeps(cq, cq)
    BY KeepsReflexive DEF Inv, CqOk
  <2> QED BY <1>1, <2>1, <2>2, <2>3, <2>4 DEF Inv
<1> QED BY <1>1, <1>6, <1>7, <1>8

\* One counter of a function of the canisters changes.
LEMMA CounterAt ==
  ASSUME NEW a \in [Canisters -> Nat], NEW id \in Canisters, NEW v \in Nat,
         NEW b, b = [a EXCEPT ![id] = v]
  PROVE  /\ b \in [Canisters -> Nat] /\ b[id] = v
         /\ \A y \in Canisters \ {id} : b[y] = a[y]
OBVIOUS

LEMMA ExecuteStep ==
  ASSUME Inv, Execute
  PROVE  Inv'
<1> SUFFICES ASSUME NEW source, source = NextSource(cq), NEW s, s = SenderServed(cq, source),
                    NEW msg, msg = Head(cq.queues[s].inq.queue)
             PROVE  Inv'
  OBVIOUS
<1>1. /\ \E x \in InputSources : HasInput(cq, x)
      /\ cq' = PopInput(cq)
      /\ owed' = IF source # "Ingress" /\ IsRequest(msg)
                   THEN [owed EXCEPT ![s] = owed[s] + 1] ELSE owed
      /\ now' = now /\ locals' = locals /\ awaiting' = awaiting /\ loopback' = loopback
      /\ forgotten' = forgotten /\ dropped' = dropped
  BY DEF Execute, InputSources
<1>2. /\ CqOk(cq) /\ AllBalanced(cq.queues, owed, awaiting, Waiting)
      /\ owed \in [Canisters -> Nat] /\ cq.ingress \in Nat /\ MaxIngress \in Nat
      /\ cq.ingress <= MaxIngress
  BY CanisterQueuesAssumption DEF Inv, CqOk, ShapeOk
<1>3. CASE source = "Ingress"
  <2>1. CqOk(cq') /\ cq'.ingress = cq.ingress - 1 /\ SameContents(cq.queues, cq'.queues)
    BY <1>1, <1>2, <1>3, PopInputOk
  <2>2. AllBalanced(cq'.queues, owed, awaiting, Waiting)
    BY <1>2, <2>1, BalanceSame
  <2>3. cq'.ingress <= MaxIngress /\ owed' = owed
    BY <1>1, <1>2, <1>3, <2>1
  <2> QED BY <1>1, <2>1, <2>2, <2>3 DEF Inv, Waiting
<1>4. CASE source # "Ingress"
  <2>1. /\ CqOk(cq') /\ cq'.ingress = cq.ingress /\ s \in Canisters /\ msg \in MessageType
        /\ OnlyAt(cq.queues, cq'.queues, s)
        /\ MessageOut(ContentsAt(cq.queues, s), ContentsAt(cq'.queues, s), msg)
    BY <1>1, <1>2, <1>4, PopInputOk
  <2>2. /\ owed[s] \in Nat /\ awaiting[s] \in Nat /\ Waiting \in Nat
        /\ ContentsAt(cq.queues, s) \in ContentsSet
        /\ Balanced(s, ContentsAt(cq.queues, s), owed[s], awaiting[s], Waiting)
        /\ ContentsAt(cq'.queues, s) \in ContentsSet
    BY <2>1, InvAt, ContentsAtType
  <2> DEFINE o == owed[s] + (IF IsRequest(msg) THEN 1 ELSE 0)
  <2>3. Balanced(s, ContentsAt(cq'.queues, s), o, awaiting[s], Waiting)
    BY <2>1, <2>2, BalanceOut
  <2>4. o \in Nat /\ owed' = [owed EXCEPT ![s] = o]
    <3>1. CASE IsRequest(msg)
      BY <1>1, <1>4, <2>2, <3>1
    <3>2. CASE ~IsRequest(msg)
      <4>1. owed' = owed /\ o = owed[s]
        BY <1>1, <2>2, <3>2
      <4> QED BY <1>2, <2>1, <2>2, <4>1
    <3> QED BY <3>1, <3>2
  <2> HIDE DEF o
  <2>5. /\ owed' \in [Canisters -> Nat] /\ owed'[s] = o
        /\ \A y \in Canisters \ {s} : owed'[y] = owed[y]
    BY <1>2, <2>1, <2>4, CounterAt
  <2>6. Balanced(s, ContentsAt(cq'.queues, s), owed'[s], awaiting[s], Waiting)
    BY <2>3, <2>5
  <2>7. AllBalanced(cq'.queues, owed', awaiting, Waiting)
    BY <1>2, <2>1, <2>5, <2>6, BalanceAt
  <2> QED BY <1>1, <1>2, <2>1, <2>5, <2>7 DEF Inv, Waiting
<1> QED BY <1>3, <1>4

LEMMA SendRequestStep ==
  ASSUME Inv, SendRequest
  PROVE  Inv' /\ Keeps(cq, cq')
<1>1. PICK id \in Callees, p \in Payloads :
        /\ cq' = PushOutputRequest(cq, id, Request(p), now).cq
        /\ UNCHANGED <<now, locals, owed, awaiting, loopback, forgotten, dropped>>
  BY DEF SendRequest
<1>2. id \in Canisters /\ now \in Nat
  BY CanisterQueuesAssumption DEF Inv, Canisters
<1> SUFFICES ASSUME NEW msg, msg = Request(p), NEW r, r = PushOutputRequest(cq, id, msg, now)
             PROVE  Inv' /\ Keeps(cq, cq')
  OBVIOUS
<1>3. msg \in MessageType /\ IsRequest(msg) /\ ~IsResponse(msg) /\ cq' = r.cq
  BY <1>1, PayloadMessages
<1>4. /\ CqOk(cq') /\ Keeps(cq, cq') /\ cq'.ingress = cq.ingress
      /\ \/ SameContents(cq.queues, cq'.queues)
         \/ /\ OnlyAt(cq.queues, cq'.queues, id)
            /\ MessageSent(ContentsAt(cq.queues, id), ContentsAt(cq'.queues, id), msg)
  BY <1>2, <1>3, PushOutputRequestOk DEF Inv
<1>5. AllBalanced(cq'.queues, owed, awaiting, Waiting)
  <2>0. AllBalanced(cq.queues, owed, awaiting, Waiting)
    BY DEF Inv
  <2>1. CASE SameContents(cq.queues, cq'.queues)
    BY <2>0, <2>1, BalanceSame
  <2>2. CASE /\ OnlyAt(cq.queues, cq'.queues, id)
             /\ MessageSent(ContentsAt(cq.queues, id), ContentsAt(cq'.queues, id), msg)
    <3>1. /\ owed[id] \in Nat /\ awaiting[id] \in Nat /\ Waiting \in Nat
          /\ ContentsAt(cq.queues, id) \in ContentsSet
          /\ Balanced(id, ContentsAt(cq.queues, id), owed[id], awaiting[id], Waiting)
          /\ ContentsAt(cq'.queues, id) \in ContentsSet
      BY <1>2, <1>4, InvAt, ContentsAtType
    <3>2. Balanced(id, ContentsAt(cq'.queues, id), owed[id] - (IF IsResponse(msg) THEN 1 ELSE 0),
                   awaiting[id], Waiting)
      BY <1>3, <2>2, <3>1, BalanceSent
    <3>3. owed[id] - (IF IsResponse(msg) THEN 1 ELSE 0) = owed[id]
      BY <1>3, <3>1
    <3>4. Balanced(id, ContentsAt(cq'.queues, id), owed[id], awaiting[id], Waiting)
      BY <3>2, <3>3
    <3> QED BY <1>2, <2>0, <2>2, <3>4, BalanceAt
  <2> QED BY <1>4, <2>1, <2>2
<1> QED BY <1>1, <1>4, <1>5 DEF Inv, Waiting

LEMMA CallUnroutableStep ==
  ASSUME Inv, CallUnroutable
  PROVE  Inv' /\ Keeps(cq, cq')
<1>1. PICK p \in Payloads :
        /\ IC_00 \in Peers
        /\ cq' = RejectIc00OutputRequest(cq, Request(p))
        /\ UNCHANGED <<now, locals, owed, awaiting, loopback, forgotten, dropped>>
  BY DEF CallUnroutable
<1> SUFFICES ASSUME NEW request, request = Request(p), NEW msg, msg = RejectOf(request)
             PROVE  Inv' /\ Keeps(cq, cq')
  OBVIOUS
<1>2. IC_00 \in Canisters /\ request \in MessageType /\ msg \in MessageType /\ IsResponse(msg)
      /\ cq' = RejectIc00OutputRequest(cq, request)
  BY <1>1, PayloadMessages, RejectType DEF Canisters
<1> SUFFICES ASSUME NEW f, f = ContentsAt(cq.queues, IC_00), NEW g, g = ContentsAt(cq'.queues, IC_00)
             PROVE  Inv' /\ Keeps(cq, cq')
  OBVIOUS
<1>3. /\ CqOk(cq') /\ Keeps(cq, cq') /\ cq'.ingress = cq.ingress
      /\ \/ SameContents(cq.queues, cq'.queues)
         \/ /\ OnlyAt(cq.queues, cq'.queues, IC_00)
            /\ OneMore(f.in, g.in, msg) /\ g.out = f.out /\ g.ri = f.ri /\ g.ro = f.ro
  <2>1. CqOk(cq)
    BY DEF Inv
  <2> QED BY <1>2, <2>1, RejectIc00Ok
<1>4. AllBalanced(cq'.queues, owed, awaiting, Waiting)
  <2>0. AllBalanced(cq.queues, owed, awaiting, Waiting)
    BY DEF Inv
  <2>1. CASE SameContents(cq.queues, cq'.queues)
    BY <2>0, <2>1, BalanceSame
  <2>2. CASE /\ OnlyAt(cq.queues, cq'.queues, IC_00)
             /\ OneMore(f.in, g.in, msg) /\ g.out = f.out /\ g.ri = f.ri /\ g.ro = f.ro
    <3>1. /\ owed[IC_00] \in Nat /\ awaiting[IC_00] \in Nat /\ Waiting \in Nat
          /\ f \in ContentsSet /\ g \in ContentsSet
          /\ Balanced(IC_00, f, owed[IC_00], awaiting[IC_00], Waiting)
      BY <1>2, <1>3, InvAt, ContentsAtType
    <3>2. Balanced(IC_00, g, owed[IC_00], awaiting[IC_00], Waiting)
      BY <1>2, <2>2, <3>1, BalanceAnswered
    <3> QED BY <1>2, <2>0, <2>2, <3>2, BalanceAt
  <2> QED BY <1>3, <2>1, <2>2
<1> QED BY <1>1, <1>3, <1>4 DEF Inv, Waiting

LEMMA SendResponseStep ==
  ASSUME Inv, SendResponse
  PROVE  Inv' /\ Keeps(cq, cq')
<1>1. PICK id \in Canisters, p \in ResponsePayloads :
        /\ owed[id] > 0
        /\ cq' = PushOutputResponse(cq, id, Response(p))
        /\ owed' = [owed EXCEPT ![id] = @ - 1]
        /\ UNCHANGED <<now, locals, awaiting, loopback, forgotten, dropped>>
  BY DEF SendResponse
<1>2. p \in Payloads
  BY DEF ResponsePayloads
<1> SUFFICES ASSUME NEW msg, msg = Response(p)
             PROVE  Inv' /\ Keeps(cq, cq')
  OBVIOUS
<1>3. msg \in MessageType /\ IsResponse(msg) /\ cq' = PushOutputResponse(cq, id, msg)
  BY <1>1, <1>2, PayloadMessages
<1>4. /\ owed[id] \in Nat /\ awaiting[id] \in Nat /\ Waiting \in Nat
      /\ ContentsAt(cq.queues, id) \in ContentsSet
      /\ Balanced(id, ContentsAt(cq.queues, id), owed[id], awaiting[id], Waiting)
      /\ ContentsAt(cq.queues, id).ro >= owed[id]
  BY InvAt
<1>5. ContentsAt(cq.queues, id).ro > 0
  <2>1. ContentsAt(cq.queues, id).ro \in Nat
    BY <1>4, PairNumbers
  <2> QED BY <1>1, <1>4, <2>1
<1>6. /\ CqOk(cq') /\ Keeps(cq, cq') /\ cq'.ingress = cq.ingress
      /\ OnlyAt(cq.queues, cq'.queues, id)
      /\ MessageSent(ContentsAt(cq.queues, id), ContentsAt(cq'.queues, id), msg)
  BY <1>3, <1>5, PushOutputResponseOk DEF Inv
<1> DEFINE o == owed[id] - (IF IsResponse(msg) THEN 1 ELSE 0)
<1>7. o \in Nat /\ owed' = [owed EXCEPT ![id] = o] /\ owed \in [Canisters -> Nat]
  BY <1>1, <1>3, <1>4 DEF Inv
<1>8. AllBalanced(cq.queues, owed, awaiting, Waiting)
  BY DEF Inv
<1>9. ContentsAt(cq'.queues, id) \in ContentsSet
  BY <1>6, ContentsAtType
<1>10. Balanced(id, ContentsAt(cq'.queues, id), o, awaiting[id], Waiting)
  BY <1>3, <1>4, <1>6, <1>9, BalanceSent
<1> HIDE DEF o
<1>11. /\ owed' \in [Canisters -> Nat] /\ owed'[id] = o
       /\ \A y \in Canisters \ {id} : owed'[y] = owed[y]
  BY <1>7, CounterAt
<1>12. Balanced(id, ContentsAt(cq'.queues, id), owed'[id], awaiting[id], Waiting)
  BY <1>10, <1>11
<1>13. AllBalanced(cq'.queues, owed', awaiting, Waiting)
  BY <1>6, <1>8, <1>11, <1>12, BalanceAt
<1> QED BY <1>1, <1>6, <1>11, <1>13 DEF Inv, Waiting

LEMMA RouteOutputStep ==
  ASSUME Inv, RouteOutput
  PROVE  Inv' /\ Keeps(cq, cq')
<1>1. PICK id \in Canisters :
        /\ HasOutput(cq, id)
        /\ cq' = PopOutput(cq, id)
        /\ awaiting' = [awaiting EXCEPT
                          ![id] = @ + (IF IsRequest(PeekOutput(cq, id)) THEN 1 ELSE 0)]
        /\ loopback' = IF id = Own THEN Append(loopback, PeekOutput(cq, id)) ELSE loopback
        /\ UNCHANGED <<now, locals, owed, forgotten, dropped>>
  BY DEF RouteOutput
<1> SUFFICES ASSUME NEW msg, msg = PeekOutput(cq, id)
             PROVE  Inv' /\ Keeps(cq, cq')
  OBVIOUS
<1>2. /\ CqOk(cq') /\ Keeps(cq, cq') /\ cq'.ingress = cq.ingress /\ msg \in MessageType
      /\ OnlyAt(cq.queues, cq'.queues, id)
      /\ MessageLeft(ContentsAt(cq.queues, id), ContentsAt(cq'.queues, id), msg)
  BY <1>1, PopOutputOk DEF Inv
<1>3. /\ owed[id] \in Nat /\ awaiting[id] \in Nat /\ Waiting \in Nat
      /\ ContentsAt(cq.queues, id) \in ContentsSet
      /\ Balanced(id, ContentsAt(cq.queues, id), owed[id], awaiting[id], Waiting)
      /\ ContentsAt(cq'.queues, id) \in ContentsSet
  BY <1>2, InvAt, ContentsAtType
<1> DEFINE a == awaiting[id] + (IF IsRequest(msg) THEN 1 ELSE 0)
<1>4. /\ a \in Nat /\ awaiting' = [awaiting EXCEPT ![id] = a] /\ awaiting \in [Canisters -> Nat]
      /\ AllBalanced(cq.queues, owed, awaiting, Waiting)
  BY <1>1, <1>3 DEF Inv
<1>5. Balanced(id, ContentsAt(cq'.queues, id), owed[id], a, Waiting + 1)
  BY <1>2, <1>3, BalanceLeft
<1> HIDE DEF a
<1>6. /\ awaiting' \in [Canisters -> Nat] /\ awaiting'[id] = a
      /\ \A y \in Canisters \ {id} : awaiting'[y] = awaiting[y]
  BY <1>4, CounterAt
<1>7. /\ loopback' \in Seq(MessageType)
      /\ Len(loopback') = IF id = Own THEN Len(loopback) + 1 ELSE Len(loopback)
  <2>1. loopback \in Seq(MessageType)
    BY DEF Inv
  <2>2. CASE id = Own
    BY <1>1, <1>2, <2>1, <2>2
  <2>3. CASE id # Own
    BY <1>1, <2>1, <2>3
  <2> QED BY <2>2, <2>3
<1>w. /\ Waiting' = IF id = Own THEN Waiting + 1 ELSE Waiting
      /\ dropped \in [Canisters -> Nat]
  <2>1. dropped \in [Canisters -> Nat] /\ dropped[Own] \in Nat /\ dropped' = dropped
        /\ Len(loopback) \in Nat
    BY <1>1 DEF Inv, Canisters
  <2> QED BY <1>7, <2>1 DEF Waiting
<1>8. Balanced(id, ContentsAt(cq'.queues, id), owed[id], awaiting'[id], Waiting')
  BY <1>5, <1>6, <1>w DEF Balanced
<1>9. AllBalanced(cq'.queues, owed, awaiting', Waiting')
  <2>1. id # Own => Waiting' = Waiting
    BY <1>w
  <2>2. OnlyAt(cq.queues, cq'.queues, id) /\ AllBalanced(cq.queues, owed, awaiting, Waiting)
    BY <1>2, <1>4
  <2> QED BY <1>6, <1>8, <2>1, <2>2, BalanceAt
<1> QED BY <1>1, <1>2, <1>6, <1>7, <1>w, <1>9 DEF Inv

\* The number of messages in an output queue follows from its contents.
LEMMA MessagesCounted ==
  ASSUME NEW pair, PairOk(pair)
  PROVE  pair.outq.num_messages = Total(MessageWeight, pair.outq.queue)
<1>1. pair.outq \in OutQueues(MessageType) /\ MessageCountOk(pair.outq)
  BY DEF PairOk, WellFormed, TestInvariants
<1> QED BY <1>1, LiveCount DEF MessageCountOk, MessageWeight

\* Pushing into the input queue does not change what the output queue has.
LEMMA OutputStays ==
  ASSUME NEW c, CqOk(c), NEW d, CqOk(d), NEW id, HasOutput(c, id), id \in DOMAIN d.queues,
         ContentsAt(d.queues, id).out = ContentsAt(c.queues, id).out
  PROVE  HasOutput(d, id) /\ PeekOutput(d, id) = PeekOutput(c, id)
<1>1. id \in DOMAIN c.queues /\ c.queues[id].outq.num_messages > 0
  BY DEF HasOutput
<1>2. PairOk(c.queues[id]) /\ PairOk(d.queues[id])
  BY <1>1 DEF CqOk, ShapeOk, QueueMap
<1>3. d.queues[id].outq.queue = c.queues[id].outq.queue
  BY <1>1 DEF ContentsAt, Contents
<1>4. d.queues[id].outq.num_messages = c.queues[id].outq.num_messages
  BY <1>2, <1>3, MessagesCounted
<1> QED BY <1>1, <1>3, <1>4 DEF HasOutput, PeekOutput

\* The two halves of a message's way from the canister to itself.
LEMMA SelfInduction ==
  ASSUME Inv, InductMessageToSelf
  PROVE  \E msg \in MessageType : \E r : \E d :
           /\ r = PushInput(cq, Own, msg, "LocalSubnet") /\ r.ok /\ d = r.cq
           /\ msg = PeekOutput(cq, Own) /\ msg = PeekOutput(d, Own)
           /\ CqOk(d) /\ Keeps(cq, d) /\ d.ingress = cq.ingress
           /\ OnlyAt(cq.queues, d.queues, Own)
           /\ MessageIn(ContentsAt(cq.queues, Own), ContentsAt(d.queues, Own), msg)
           /\ HasOutput(d, Own) /\ cq' = PopOutput(d, Own)
           /\ CqOk(cq') /\ Keeps(d, cq') /\ cq'.ingress = d.ingress
           /\ OnlyAt(d.queues, cq'.queues, Own)
           /\ MessageLeft(ContentsAt(d.queues, Own), ContentsAt(cq'.queues, Own), msg)
           /\ awaiting' = [awaiting EXCEPT ![Own] = awaiting[Own] + (IF IsRequest(msg) THEN 1 ELSE -1)]
<1> SUFFICES ASSUME NEW msg, msg = PeekOutput(cq, Own),
                    NEW r, r = PushInput(cq, Own, msg, "LocalSubnet"), NEW d, d = r.cq
             PROVE  /\ msg \in MessageType /\ r.ok /\ msg = PeekOutput(d, Own)
                    /\ CqOk(d) /\ Keeps(cq, d) /\ d.ingress = cq.ingress
                    /\ OnlyAt(cq.queues, d.queues, Own)
                    /\ MessageIn(ContentsAt(cq.queues, Own), ContentsAt(d.queues, Own), msg)
                    /\ HasOutput(d, Own) /\ cq' = PopOutput(d, Own)
                    /\ CqOk(cq') /\ Keeps(d, cq') /\ cq'.ingress = d.ingress
                    /\ OnlyAt(d.queues, cq'.queues, Own)
                    /\ MessageLeft(ContentsAt(d.queues, Own), ContentsAt(cq'.queues, Own), msg)
                    /\ awaiting' = [awaiting EXCEPT
                                      ![Own] = awaiting[Own] + (IF IsRequest(msg) THEN 1 ELSE -1)]
  OBVIOUS
<1>1. /\ HasOutput(cq, Own) /\ r.ok /\ cq' = PopOutput(d, Own)
      /\ awaiting' = [awaiting EXCEPT ![Own] = awaiting[Own] + (IF IsRequest(msg) THEN 1 ELSE -1)]
  BY DEF InductMessageToSelf
<1>2. msg \in MessageType /\ Own \in Canisters /\ CqOk(cq)
  <2> DEFINE x == PopOutput(cq, Own)
  <2> HIDE DEF x
  <2>1. CqOk(cq)
    BY DEF Inv
  <2> QED BY <1>1, <2>1, PopOutputOk DEF Canisters, x
<1>3. /\ CqOk(d) /\ Keeps(cq, d) /\ d.ingress = cq.ingress /\ Own \in DOMAIN d.queues
      /\ OnlyAt(cq.queues, d.queues, Own)
      /\ MessageIn(ContentsAt(cq.queues, Own), ContentsAt(d.queues, Own), msg)
  BY <1>1, <1>2, PushInputOk
<1>4. HasOutput(d, Own) /\ PeekOutput(d, Own) = msg
  <2>1. ContentsAt(d.queues, Own).out = ContentsAt(cq.queues, Own).out
    BY <1>3 DEF MessageIn
  <2> QED BY <1>1, <1>2, <1>3, <2>1, OutputStays
<1>5. /\ CqOk(cq') /\ Keeps(d, cq') /\ cq'.ingress = d.ingress
      /\ OnlyAt(d.queues, cq'.queues, Own)
      /\ MessageLeft(ContentsAt(d.queues, Own), ContentsAt(cq'.queues, Own), msg)
  BY <1>1, <1>3, <1>4, PopOutputOk
<1> QED BY <1>1, <1>2, <1>3, <1>4, <1>5

LEMMA InductMessageToSelfStep ==
  ASSUME Inv, InductMessageToSelf
  PROVE  Inv' /\ Keeps(cq, cq')
<1>1. PICK msg \in MessageType : \E d :
           /\ CqOk(d) /\ Keeps(cq, d) /\ d.ingress = cq.ingress
           /\ OnlyAt(cq.queues, d.queues, Own)
           /\ MessageIn(ContentsAt(cq.queues, Own), ContentsAt(d.queues, Own), msg)
           /\ CqOk(cq') /\ Keeps(d, cq') /\ cq'.ingress = d.ingress
           /\ OnlyAt(d.queues, cq'.queues, Own)
           /\ MessageLeft(ContentsAt(d.queues, Own), ContentsAt(cq'.queues, Own), msg)
           /\ awaiting' = [awaiting EXCEPT ![Own] = awaiting[Own] + (IF IsRequest(msg) THEN 1 ELSE -1)]
  BY SelfInduction
<1>2. PICK d :
           /\ CqOk(d) /\ Keeps(cq, d) /\ d.ingress = cq.ingress
           /\ OnlyAt(cq.queues, d.queues, Own)
           /\ MessageIn(ContentsAt(cq.queues, Own), ContentsAt(d.queues, Own), msg)
           /\ CqOk(cq') /\ Keeps(d, cq') /\ cq'.ingress = d.ingress
           /\ OnlyAt(d.queues, cq'.queues, Own)
           /\ MessageLeft(ContentsAt(d.queues, Own), ContentsAt(cq'.queues, Own), msg)
           /\ awaiting' = [awaiting EXCEPT ![Own] = awaiting[Own] + (IF IsRequest(msg) THEN 1 ELSE -1)]
  BY <1>1
<1>3. now' = now /\ locals' = locals /\ owed' = owed /\ loopback' = loopback
      /\ forgotten' = forgotten /\ dropped' = dropped
  BY DEF InductMessageToSelf
<1>4. Own \in Canisters /\ CqOk(cq) /\ awaiting \in [Canisters -> Nat]
      /\ AllBalanced(cq.queues, owed, awaiting, Waiting)
  BY DEF Inv, Canisters
<1> SUFFICES ASSUME NEW f, f = ContentsAt(cq.queues, Own), NEW g, g = ContentsAt(d.queues, Own),
                    NEW h, h = ContentsAt(cq'.queues, Own)
             PROVE  Inv' /\ Keeps(cq, cq')
  OBVIOUS
<1>5. /\ owed[Own] \in Nat /\ awaiting[Own] \in Nat /\ Waiting \in Nat
      /\ f \in ContentsSet /\ g \in ContentsSet /\ h \in ContentsSet
      /\ Balanced(Own, f, owed[Own], awaiting[Own], Waiting)
      /\ awaiting[Own] >= Total(ResponseWeight, f.out)
  BY <1>2, <1>4, InvAt, ContentsAtType
<1>6. IsResponse(msg) <=> ~IsRequest(msg)
  BY MessageFacts
<1> DEFINE a == awaiting[Own] - (IF IsResponse(msg) THEN 1 ELSE 0)
           b == a + (IF IsRequest(msg) THEN 1 ELSE 0)
<1>7. Balanced(Own, g, owed[Own], a, Waiting - 1)
  BY <1>2, <1>5, BalanceIn
<1>8. Balanced(Own, h, owed[Own], b, (Waiting - 1) + 1)
  <2>1. a \in Int /\ Waiting - 1 \in Int
    BY <1>5
  <2> HIDE DEF a
  <2> QED BY <1>2, <1>5, <1>7, <2>1, BalanceLeft
<1>9. b \in Nat /\ awaiting' = [awaiting EXCEPT ![Own] = b]
  <2>1. CASE IsRequest(msg)
    <3>1. b = awaiting[Own] + 1 /\ b \in Nat
      BY <1>5, <1>6, <2>1
    <3>2. awaiting[Own] + (IF IsRequest(msg) THEN 1 ELSE -1) = b
      BY <2>1, <3>1
    <3> HIDE DEF b
    <3> QED BY <1>2, <3>1, <3>2
  <2>2. CASE ~IsRequest(msg)
    <3>1. Total(ResponseWeight, f.out) > 0
      <4>1. g.out = f.out /\ OneMore(h.out, g.out, msg)
        BY <1>2 DEF MessageIn, MessageLeft
      <4>2. h.out \in Seq(Items) /\ g.out \in Seq(Items)
        BY <1>5, ContentsFields
      <4>3. Total(ResponseWeight, g.out) = Total(ResponseWeight, h.out) + 1
        BY <1>6, <2>2, <4>1, <4>2, OneMoreTotals
      <4>4. Total(ResponseWeight, h.out) \in Nat
        BY <1>5, PairNumbers
      <4> QED BY <4>1, <4>3, <4>4
    <3>2. Total(ResponseWeight, f.out) \in Nat
      BY <1>5, PairNumbers
    <3>3. b = awaiting[Own] - 1 /\ b \in Nat
      BY <1>5, <1>6, <2>2, <3>1, <3>2
    <3>4. awaiting[Own] + (IF IsRequest(msg) THEN 1 ELSE -1) = b
      BY <1>5, <2>2, <3>3
    <3> HIDE DEF b
    <3> QED BY <1>2, <3>3, <3>4
  <2> QED BY <2>1, <2>2
<1> HIDE DEF b, a
<1>10. /\ awaiting' \in [Canisters -> Nat] /\ awaiting'[Own] = b
       /\ \A y \in Canisters \ {Own} : awaiting'[y] = awaiting[y]
  BY <1>4, <1>9, CounterAt
<1>11. Balanced(Own, h, owed[Own], awaiting'[Own], Waiting)
  <2>1. (Waiting - 1) + 1 = Waiting
    BY <1>5
  <2> QED BY <1>8, <1>10, <2>1
<1>12. OnlyAt(cq.queues, cq'.queues, Own)
  BY <1>2 DEF OnlyAt
<1>13. AllBalanced(cq'.queues, owed, awaiting', Waiting)
  BY <1>4, <1>10, <1>11, <1>12, BalanceAt
<1>14. Keeps(cq, cq')
  BY <1>2, <1>4, KeepsTransitive DEF CqOk
<1>15. CqOk(cq') /\ cq'.ingress = cq.ingress
  BY <1>2
<1> QED BY <1>3, <1>10, <1>13, <1>14, <1>15 DEF Inv, Waiting

LEMMA StartRoundStep ==
  ASSUME Inv, StartRound
  PROVE  Inv' /\ Keeps(cq, cq') /\ CyclesIn(cq') = CyclesIn(cq)
<1>1. PICK time \in (now + 1) .. MaxTime :
        /\ now' = time
        /\ cq' = IF HasExpired(cq, time)
                   THEN TimeOutAllRequests(cq, time, locals \cup {Own}) ELSE cq
        /\ UNCHANGED <<locals, owed, awaiting, loopback, forgotten, dropped>>
  BY DEF StartRound
<1>2. time \in Nat /\ time \in 0 .. MaxTime /\ MaxTime \in Nat
  BY CanisterQueuesAssumption DEF Inv
<1>3. CqOk(cq) /\ AllBalanced(cq.queues, owed, awaiting, Waiting)
  BY DEF Inv
<1>4. CASE ~HasExpired(cq, time)
  <2>1. cq' = cq
    BY <1>1, <1>4
  <2>2. Keeps(cq, cq)
    BY <1>3, KeepsReflexive DEF CqOk
  <2> QED BY <1>1, <1>2, <2>1, <2>2 DEF Inv, Waiting
<1>5. CASE HasExpired(cq, time)
  <2>1. cq' = TimeOutAllRequests(cq, time, locals \cup {Own})
    BY <1>1, <1>5
  <2>2. ASSUME NEW y \in DOMAIN cq.queues
        PROVE  /\ y \in Canisters /\ SlotsReserved(Contents(cq.queues[y]))
               /\ ContentsAt(cq.queues, y) = Contents(cq.queues[y])
    <3>1. y \in Canisters /\ ContentsAt(cq.queues, y) = Contents(cq.queues[y])
      BY <1>3 DEF CqOk, ShapeOk, QueueMap, ContentsAt
    <3>2. /\ awaiting[y] \in Nat /\ Contents(cq.queues[y]) \in ContentsSet
          /\ Contents(cq.queues[y]).ri = Total(RequestWeight, Contents(cq.queues[y]).out) + awaiting[y]
      BY <3>1, InvAt DEF Balanced
    <3>3. Total(RequestWeight, Contents(cq.queues[y]).out) \in Nat
      BY <3>2, PairNumbers
    <3> QED BY <3>1, <3>2, <3>3 DEF SlotsReserved
  <2>3. AllExpired(cq, cq')
    BY <1>2, <1>3, <2>1, <2>2, TimeOutAllOk
  <2>4. /\ CqOk(cq') /\ Keeps(cq, cq') /\ cq'.ingress = cq.ingress /\ CyclesIn(cq') = CyclesIn(cq)
        /\ DOMAIN cq'.queues = DOMAIN cq.queues
        /\ \A y \in DOMAIN cq.queues : Expired(Contents(cq.queues[y]), Contents(cq'.queues[y]))
    BY <2>3 DEF AllExpired
  <2>5. ASSUME NEW y \in Canisters
        PROVE  Balanced(y, ContentsAt(cq'.queues, y), owed[y], awaiting[y], Waiting)
    <3>1. /\ owed[y] \in Nat /\ awaiting[y] \in Nat /\ Waiting \in Nat
          /\ ContentsAt(cq.queues, y) \in ContentsSet
          /\ Balanced(y, ContentsAt(cq.queues, y), owed[y], awaiting[y], Waiting)
          /\ ContentsAt(cq'.queues, y) \in ContentsSet
      BY <2>4, InvAt, ContentsAtType
    <3>2. Expired(ContentsAt(cq.queues, y), ContentsAt(cq'.queues, y))
      BY <2>4, ExpiredReflexive DEF ContentsAt
    <3> QED BY <3>1, <3>2, BalanceExpired
  <2>6. AllBalanced(cq'.queues, owed, awaiting, Waiting)
    BY <2>5 DEF AllBalanced
  <2> QED BY <1>1, <1>2, <2>4, <2>6 DEF Inv, Waiting
<1> QED BY <1>4, <1>5

LEMMA CollectGarbageStep ==
  ASSUME Inv, CollectGarbage
  PROVE  Inv' /\ Keeps(cq, cq')
<1>1. cq' = GarbageCollect(cq) /\ UNCHANGED <<now, locals, owed, awaiting, loopback, forgotten, dropped>>
  BY DEF CollectGarbage
<1>2. CqOk(cq') /\ Keeps(cq, cq') /\ SameContents(cq.queues, cq'.queues) /\ cq'.ingress = cq.ingress
  BY <1>1, GarbageCollectOk DEF Inv
<1>3. AllBalanced(cq'.queues, owed, awaiting, Waiting)
  BY <1>2, BalanceSame DEF Inv
<1> QED BY <1>1, <1>2, <1>3 DEF Inv, Waiting

LEMMA RestartStep ==
  ASSUME Inv, Restart
  PROVE  Inv' /\ Keeps(cq, cq')
<1>1. cq' = cq /\ UNCHANGED <<now, locals, owed, awaiting, loopback, forgotten, dropped>>
  BY ReloadQueuesSame DEF Restart, Inv
<1>2. Keeps(cq, cq)
  BY KeepsReflexive DEF Inv, CqOk
<1> QED BY <1>1, <1>2 DEF Inv, Waiting

LEMMA StopUninstalledStep ==
  ASSUME Inv, StopUninstalled
  PROVE  Inv' /\ Keeps(cq, cq')
<1>1. /\ forgotten' \subseteq forgotten \cup DOMAIN cq.queues
      /\ UNCHANGED <<cq, now, locals, owed, awaiting, loopback, dropped>>
  BY DEF StopUninstalled
<1>2. forgotten' \subseteq Canisters
  BY <1>1 DEF Inv, CqOk, ShapeOk, QueueMap
<1>3. Keeps(cq, cq)
  BY KeepsReflexive DEF Inv, CqOk
<1> QED BY <1>1, <1>2, <1>3 DEF Inv, Waiting

LEMMA DeleteCanisterStep ==
  ASSUME Inv, DeleteCanister
  PROVE  Inv' /\ Keeps(cq, cq')
<1>1. /\ locals' \subseteq locals
      /\ UNCHANGED <<cq, now, owed, awaiting, loopback, forgotten, dropped>>
  BY DEF DeleteCanister
<1>2. Keeps(cq, cq)
  BY KeepsReflexive DEF Inv, CqOk
<1> QED BY <1>1, <1>2 DEF Inv, Waiting

-----------------------------------------------------------------------------
(* Cycles. *)

\* The statistics after a message was pushed into the input queue of a pair that exists.
LEMMA PushInputStats ==
  ASSUME NEW c, IsCq(c), NEW id \in DOMAIN c.queues, NEW msg, NEW type,
         NEW r, r = PushInput(c, id, msg, type), r.ok
  PROVE  /\ r.cq.input_stats = Plus(c.input_stats, InputQueuesStatsDelta("Push", msg))
         /\ r.cq.output_stats = c.output_stats
<1> DEFINE q == [c.queues EXCEPT
                  ![id] = [inq  |-> PushInputQueue(@.inq, msg),
                           outq |-> IF IsRequest(msg) THEN ReserveSlot(@.outq) ELSE @.outq]]
           i == Plus(c.input_stats, InputQueuesStatsDelta("Push", msg))
           m == Plus(c.memory_stats, MemoryUsageStatsDelta("Push", msg))
           d == [c EXCEPT !.queues = q, !.input_stats = i, !.memory_stats = m]
           c1 == IF IsRequest(msg) THEN GetOrInsertQueues(c, id) ELSE c
           ok == /\ id \in DOMAIN c1.queues
                 /\ CanPushInput(c1.queues[id].inq, msg)
                 /\ IsRequest(msg) => CheckHasSlot(c1.queues[id].outq)
           c2 == [c1 EXCEPT
                   !.queues[id] =
                      [inq  |-> PushInputQueue(@.inq, msg),
                       outq |-> IF IsRequest(msg) THEN ReserveSlot(@.outq) ELSE @.outq],
                   !.input_stats = Plus(@, InputQueuesStatsDelta("Push", msg)),
                   !.memory_stats = Plus(@, MemoryUsageStatsDelta("Push", msg))]
<1>1. r.ok = ok /\ r.cq = IF ~ok THEN c1 ELSE Schedule(c2, id, type)
  BY DEF PushInput
<1>2. c1 = c
  BY DEF GetOrInsertQueues
<1> HIDE DEF c1
<1>3. c2 = d
  BY <1>2, Zenon
<1>4. r.cq = Schedule(d, id, type)
  <2> HIDE DEF c2, d, ok
  <2> QED BY <1>1, <1>3
<1> HIDE DEF q, i, m, ok
<1>5. d.input_stats = i /\ d.output_stats = c.output_stats /\ IsCq(d)
  <2>1. d = [c EXCEPT !.queues = q, !.input_stats = i, !.memory_stats = m]
    OBVIOUS
  <2> HIDE DEF d
  <2> QED BY <2>1 DEF IsCq
<1> HIDE DEF d
<1>6. r.cq.input_stats = d.input_stats /\ r.cq.output_stats = d.output_stats
  BY <1>4, <1>5 DEF Schedule, IsCq
<1> QED BY <1>5, <1>6 DEF i

\* The cycles on the way from the canister to itself are in one queue or the other.
LEMMA SelfInductionCycles ==
  ASSUME Inv, InductMessageToSelf
  PROVE  CyclesIn(cq') = CyclesIn(cq)
<1>1. PICK msg \in MessageType : \E r : \E d :
           /\ r = PushInput(cq, Own, msg, "LocalSubnet") /\ r.ok /\ d = r.cq
           /\ msg = PeekOutput(d, Own) /\ CqOk(d) /\ cq' = PopOutput(d, Own)
  BY SelfInduction
<1>2. PICK r, d :
           /\ r = PushInput(cq, Own, msg, "LocalSubnet") /\ r.ok /\ d = r.cq
           /\ msg = PeekOutput(d, Own) /\ CqOk(d) /\ cq' = PopOutput(d, Own)
  BY <1>1
<1>3. Own \in DOMAIN cq.queues /\ IsCq(cq) /\ IsCq(d) /\ CqOk(cq)
  BY <1>2 DEF InductMessageToSelf, HasOutput, Inv, CqOk, ShapeOk
<1>4. /\ d.input_stats = Plus(cq.input_stats, InputQueuesStatsDelta("Push", msg))
      /\ d.output_stats = cq.output_stats
  BY <1>2, <1>3, PushInputStats
<1>5. /\ cq'.input_stats = d.input_stats
      /\ cq'.output_stats = Minus(d.output_stats, OutputQueuesStatsDelta(msg))
  <2> DEFINE q == [d.queues EXCEPT ![Own].outq = PopOutputQueue(@)]
             o == Minus(d.output_stats, OutputQueuesStatsDelta(msg))
             m == Minus(d.memory_stats, MemoryUsageStatsDelta("Pop", msg))
  <2>1. cq' = [d EXCEPT !.queues = q, !.output_stats = o, !.memory_stats = m]
    BY <1>2, Zenon DEF PopOutput
  <2> HIDE DEF q, o, m
  <2>2. cq'.input_stats = d.input_stats /\ cq'.output_stats = o
    BY <1>3, <2>1 DEF IsCq
  <2> QED BY <2>2 DEF o
<1>6. /\ cq.input_stats \in InDeltas /\ cq.output_stats \in OutDeltas /\ Cycles(msg) \in Nat
  BY <1>3, StatsOfCq, MessageFacts
<1>7. cq'.input_stats.cycles = cq.input_stats.cycles + Cycles(msg)
  BY <1>4, <1>5, <1>6 DEF Plus, InputQueuesStatsDelta, InDeltas
<1>8. cq'.output_stats.cycles = cq.output_stats.cycles - Cycles(msg)
  BY <1>4, <1>5, <1>6 DEF Minus, OutputQueuesStatsDelta, OutDeltas
<1>9. cq.input_stats.cycles \in Int /\ cq.output_stats.cycles \in Int
  BY <1>6 DEF InDeltas, OutDeltas
<1> QED BY <1>6, <1>7, <1>8, <1>9 DEF CyclesIn

-----------------------------------------------------------------------------
(* Turns. *)

LEMMA BeforeBegins ==
  ASSUME NEW l \in Seq(Canisters), NEW m \in Seq(Canisters), Begins(l, m),
         NEW s, NEW t, Before(l, s, t)
  PROVE  Before(m, s, t)
<1>1. PICK i \in DOMAIN l, j \in DOMAIN l : i < j /\ l[i] = s /\ l[j] = t
  BY DEF Before
<1>2. /\ Len(l) \in Nat /\ Len(m) \in Nat /\ DOMAIN l = 1 .. Len(l) /\ DOMAIN m = 1 .. Len(m)
      /\ Len(l) <= Len(m)
  BY DEF Begins
<1>3. i \in DOMAIN m /\ j \in DOMAIN m /\ m[i] = s /\ m[j] = t
  BY <1>1, <1>2 DEF Begins
<1> QED BY <1>1, <1>3 DEF Before

\* The sender served goes behind all others, and nobody else changes places.
LEMMA BeforeServed ==
  ASSUME NEW l \in Seq(Canisters), l # <<>>, IsInjective(l), NEW m,
         m = Tail(l) \/ m = Append(Tail(l), Head(l)), NEW s, NEW t, Before(l, s, t)
  PROVE  /\ s = Head(l) => ~Before(m, s, t)
         /\ s # Head(l) => Before(m, s, t)
<1>1. PICK i \in DOMAIN l, j \in DOMAIN l : i < j /\ l[i] = s /\ l[j] = t
  BY DEF Before
<1> DEFINE n == Len(l)
           u == Tail(l)
<1>2. /\ n \in Nat /\ n > 0 /\ DOMAIN l = 1 .. n /\ Head(l) = l[1] /\ Head(l) \in Canisters
      /\ u \in Seq(Canisters) /\ Len(u) = n - 1
      /\ \A k \in 1 .. (n - 1) : u[k] = l[k + 1]
  OBVIOUS
<1> HIDE DEF n, u
<1>3. /\ DOMAIN m = 1 .. (n - 1) \/ (DOMAIN m = 1 .. n /\ m[n] = Head(l))
      /\ \A k \in 1 .. (n - 1) : m[k] = l[k + 1]
  <2>1. CASE m = u
    BY <1>2, <2>1
  <2>2. CASE m = Append(u, Head(l))
    <3>1. DOMAIN m = 1 .. (Len(u) + 1) /\ m[Len(u) + 1] = Head(l)
          /\ \A k \in 1 .. Len(u) : m[k] = u[k]
      BY <1>2, <2>2
    <3>2. Len(u) + 1 = n
      BY <1>2
    <3> QED BY <1>2, <3>1, <3>2
  <2> QED BY <2>1, <2>2 DEF u
<1>4. \A k, h \in 1 .. n : l[k] = l[h] => k = h
  BY <1>2 DEF IsInjective
<1>5. ASSUME s = Head(l), Before(m, s, t) PROVE FALSE
  <2>1. PICK k \in DOMAIN m, h \in DOMAIN m : k < h /\ m[k] = s /\ m[h] = t
    BY <1>5 DEF Before
  <2>2. k \in 1 .. (n - 1)
    <3>1. CASE DOMAIN m = 1 .. (n - 1)
      BY <2>1, <3>1
    <3>2. CASE DOMAIN m = 1 .. n
      BY <1>2, <2>1, <3>2
    <3> QED BY <1>3, <3>1, <3>2
  <2>3. m[k] = l[k + 1] /\ k + 1 \in 1 .. n /\ 1 \in 1 .. n /\ k + 1 # 1
    <3>1. m[k] = l[k + 1]
      BY <1>3, <2>2
    <3>2. k + 1 \in 1 .. n /\ 1 \in 1 .. n /\ k + 1 # 1
      BY <1>2, <2>2
    <3> QED BY <3>1, <3>2
  <2>4. l[k + 1] = l[1]
    BY <1>2, <1>5, <2>1, <2>3
  <2> QED BY <1>4, <2>3, <2>4
<1>6. ASSUME s # Head(l) PROVE Before(m, s, t)
  <2>1. i \in 1 .. n /\ j \in 1 .. n /\ i # 1 /\ i < j
    BY <1>1, <1>2, <1>6
  <2>2. /\ i - 1 \in 1 .. (n - 1) /\ j - 1 \in 1 .. (n - 1) /\ i - 1 < j - 1
        /\ (i - 1) + 1 = i /\ (j - 1) + 1 = j
    BY <1>2, <2>1
  <2>3. i - 1 \in DOMAIN m /\ j - 1 \in DOMAIN m /\ m[i - 1] = s /\ m[j - 1] = t
    <3>1. i - 1 \in DOMAIN m /\ j - 1 \in DOMAIN m
      <4>1. 1 .. (n - 1) \subseteq DOMAIN m
        BY <1>2, <1>3
      <4> QED BY <2>2, <4>1
    <3>2. m[i - 1] = l[(i - 1) + 1] /\ m[j - 1] = l[(j - 1) + 1]
      BY <1>3, <2>2
    <3> QED BY <1>1, <2>2, <3>1, <3>2
  <2> QED BY <2>2, <2>3 DEF Before
<1> QED BY <1>5, <1>6

\* ServedInTurn for one of the two schedules.
InTurn(c, d, l, m) ==
  \A s, t \in Range(l) :
    Before(l, s, t) =>
      \/ Before(m, s, t) /\ d.queues[s].inq # PopInputQueue(c.queues[s].inq)
      \/ ~Before(m, s, t) /\ d.queues[s].inq = PopInputQueue(c.queues[s].inq)

\* A sender of a schedule has a message.
LEMMA SenderPending ==
  ASSUME NEW c, CqOk(c), NEW s \in Range(c.local) \cup Range(c.remote)
  PROVE  /\ s \in PendingIn(c.queues) /\ s \in DOMAIN c.queues
         /\ Len(c.queues[s].inq.queue) \in Nat
         /\ Len(PopInputQueue(c.queues[s].inq).queue) \in Nat
         /\ Len(PopInputQueue(c.queues[s].inq).queue) < Len(c.queues[s].inq.queue)
<1>1. s \in PendingIn(c.queues)
  BY DEF CqOk, ShapeOk, Once
<1>2. s \in DOMAIN c.queues /\ c.queues[s].inq.queue # <<>> /\ PairOk(c.queues[s])
  BY <1>1 DEF PendingIn, CqOk, ShapeOk, QueueMap
<1>3. c.queues[s].inq.queue \in Seq(MessageType) /\ c.queues[s].inq \in InQueues
  BY <1>2, PairFields
<1>4. PopInputQueue(c.queues[s].inq).queue = Tail(c.queues[s].inq.queue)
  BY <1>3 DEF PopInputQueue, InQueues
<1>5. \A q \in Seq(MessageType) : q # <<>> => /\ Len(q) \in Nat /\ Len(Tail(q)) \in Nat
                                              /\ Len(Tail(q)) < Len(q)
  OBVIOUS
<1> QED BY <1>1, <1>2, <1>3, <1>4, <1>5

LEMMA KeepsTurns ==
  ASSUME NEW c, CqOk(c), NEW d, CqOk(d), Keeps(c, d)
  PROVE  InTurn(c, d, c.local, d.local) /\ InTurn(c, d, c.remote, d.remote)
<1>1. /\ c.local \in Seq(Canisters) /\ d.local \in Seq(Canisters) /\ Begins(c.local, d.local)
      /\ c.remote \in Seq(Canisters) /\ d.remote \in Seq(Canisters) /\ Begins(c.remote, d.remote)
  BY DEF CqOk, ShapeOk, Once, Keeps
<1>2. ASSUME NEW s \in Range(c.local) \cup Range(c.remote)
      PROVE  d.queues[s].inq # PopInputQueue(c.queues[s].inq)
  <2>1. /\ s \in PendingIn(c.queues) /\ Len(c.queues[s].inq.queue) \in Nat
        /\ Len(PopInputQueue(c.queues[s].inq).queue) \in Nat
        /\ Len(PopInputQueue(c.queues[s].inq).queue) < Len(c.queues[s].inq.queue)
    BY SenderPending
  <2>2. Len(c.queues[s].inq.queue) <= Len(d.queues[s].inq.queue) /\ s \in PendingIn(d.queues)
    BY <2>1 DEF Keeps
  <2>3. Len(d.queues[s].inq.queue) \in Nat
    BY <2>2, PairFields DEF PendingIn, CqOk, ShapeOk, QueueMap
  <2> SUFFICES ASSUME d.queues[s].inq = PopInputQueue(c.queues[s].inq) PROVE FALSE
    OBVIOUS
  <2> QED BY <2>1, <2>2, <2>3
<1> QED BY <1>1, <1>2, BeforeBegins DEF InTurn

\* pop_input serves one sender.
LEMMA ServeTurns ==
  ASSUME NEW c, CqOk(c), NEW d, NEW x, NEW l \in Seq(Canisters), NEW k \in Seq(Canisters), NEW m,
         Once(l, k, PendingIn(c.queues)), l # <<>>, x = Head(l), Served(c, l, m, x),
         Range(l) \cup Range(k) = Range(c.local) \cup Range(c.remote),
         d.queues[x].inq = PopInputQueue(c.queues[x].inq),
         \A y \in DOMAIN c.queues \ {x} : d.queues[y] = c.queues[y]
  PROVE  InTurn(c, d, l, m) /\ InTurn(c, d, k, k)
<1>1. ASSUME NEW s \in Range(l) \cup Range(k), s # x
      PROVE  d.queues[s].inq # PopInputQueue(c.queues[s].inq)
  <2>1. /\ s \in DOMAIN c.queues /\ Len(c.queues[s].inq.queue) \in Nat
        /\ Len(PopInputQueue(c.queues[s].inq).queue) \in Nat
        /\ Len(PopInputQueue(c.queues[s].inq).queue) < Len(c.queues[s].inq.queue)
    BY SenderPending
  <2>2. d.queues[s].inq = c.queues[s].inq
    BY <1>1, <2>1
  <2> QED BY <2>1, <2>2
<1>2. IsInjective(l) /\ Range(l) \cap Range(k) = {}
  BY DEF Once
<1>3. m = Tail(l) \/ m = Append(Tail(l), Head(l))
  BY DEF Served
<1>4. x \in Range(l)
  <2>1. 1 \in DOMAIN l /\ l[1] = x
    OBVIOUS
  <2> QED BY <2>1 DEF Range
<1>5. InTurn(c, d, l, m)
  <2> SUFFICES ASSUME NEW s \in Range(l), NEW t \in Range(l), Before(l, s, t)
               PROVE  \/ Before(m, s, t) /\ d.queues[s].inq # PopInputQueue(c.queues[s].inq)
                      \/ ~Before(m, s, t) /\ d.queues[s].inq = PopInputQueue(c.queues[s].inq)
    BY DEF InTurn
  <2>1. /\ s = Head(l) => ~Before(m, s, t)
        /\ s # Head(l) => Before(m, s, t)
    BY <1>2, <1>3, BeforeServed
  <2> QED BY <1>1, <2>1
<1>6. InTurn(c, d, k, k)
  BY <1>1, <1>2, <1>4 DEF InTurn
<1> QED BY <1>5, <1>6

-----------------------------------------------------------------------------
(* The theorems. *)

LEMMA NextStep ==
  ASSUME Inv, Next
  PROVE  Inv'
<1>1. CASE ReceiveIngress
  BY <1>1, ReceiveIngressStep
<1>2. CASE FilterIngress
  BY <1>2, FilterIngressStep
<1>3. CASE ReceiveRequest
  BY <1>3, ReceiveRequestStep
<1>4. CASE ReceiveResponse
  BY <1>4, ReceiveResponseStep
<1>5. CASE InductLoopback
  BY <1>5, InductLoopbackStep
<1>6. CASE Execute
  BY <1>6, ExecuteStep
<1>7. CASE SendRequest
  BY <1>7, SendRequestStep
<1>8. CASE CallUnroutable
  BY <1>8, CallUnroutableStep
<1>9. CASE SendResponse
  BY <1>9, SendResponseStep
<1>10. CASE RouteOutput
  BY <1>10, RouteOutputStep
<1>11. CASE InductMessageToSelf
  BY <1>11, InductMessageToSelfStep
<1>12. CASE StartRound
  BY <1>12, StartRoundStep
<1>13. CASE CollectGarbage
  BY <1>13, CollectGarbageStep
<1>14. CASE Restart
  BY <1>14, RestartStep
<1>15. CASE DeleteCanister
  BY <1>15, DeleteCanisterStep
<1>16. CASE StopUninstalled
  BY <1>16, StopUninstalledStep
<1> QED BY <1>1, <1>2, <1>3, <1>4, <1>5, <1>6, <1>7, <1>8, <1>9, <1>10, <1>11, <1>12, <1>13,
           <1>14, <1>15, <1>16 DEF Next

\* The inductive invariant holds of every behaviour.
LEMMA SpecInv ==
  Spec => []Inv
<1>1. Init => Inv
  BY InvInit
<1>2. Inv /\ [Next]_vars => Inv'
  <2> SUFFICES ASSUME Inv, [Next]_vars PROVE Inv'
    OBVIOUS
  <2>1. CASE Next
    BY <2>1, NextStep
  <2>2. CASE UNCHANGED vars
    BY <2>2 DEF vars, Inv, Waiting
  <2> QED BY <2>1, <2>2
<1> QED BY <1>1, <1>2, PTL DEF Spec

\* Types: no unsigned counter of CanisterQueues goes below zero.
THEOREM TypeCorrect ==
  Spec => []TypeOK
<1>1. Inv => TypeOK
  <2> SUFFICES ASSUME Inv PROVE TypeOK
    OBVIOUS
  <2>1. CqOk(cq) /\ ShapeOk(cq) /\ QueueMap(cq.queues) /\ DOMAIN cq.queues \subseteq Canisters
    BY DEF Inv, CqOk, ShapeOk, QueueMap
  <2>2. ASSUME NEW id \in DOMAIN cq.queues
        PROVE  InputQueueOk(cq.queues[id].inq) /\ OutputQueueOk(cq.queues[id].outq)
    <3>1. PairOk(cq.queues[id])
      BY <2>1 DEF QueueMap
    <3>2. InputQueueOk(cq.queues[id].inq)
      BY <3>1, PairFields DEF InputQueueOk
    <3>3. cq.queues[id].outq \in OutQueues(MessageType)
      BY <3>1, PairFields
    <3>4. OutputQueueOk(cq.queues[id].outq)
      BY <3>3 DEF OutQueues, OutputQueueOk, Ranges
    <3> QED BY <3>2, <3>4
  <2>3. cq.local \in Seq(Canisters) /\ cq.remote \in Seq(Canisters)
    BY <2>1 DEF ShapeOk, Once
  <2>4. cq.ingress \in 0 .. MaxIngress
    <3>1. cq.ingress \in Nat /\ MaxIngress \in Nat /\ cq.ingress <= MaxIngress
      BY <2>1, CanisterQueuesAssumption DEF Inv, ShapeOk
    <3> QED BY <3>1
  <2>5. cq.next \in {"LocalSubnet", "Ingress", "RemoteSubnet"}
    BY <2>1 DEF ShapeOk, InputSources
  <2>6. /\ cq.input_stats \in [DOMAIN cq.input_stats -> Nat]
        /\ cq.output_stats \in [DOMAIN cq.output_stats -> Nat]
        /\ cq.memory_stats \in [DOMAIN cq.memory_stats -> Nat]
    <3> SUFFICES ASSUME NEW i, i = cq.input_stats, NEW o, o = cq.output_stats,
                        NEW m, m = cq.memory_stats
                 PROVE  i \in [DOMAIN i -> Nat] /\ o \in [DOMAIN o -> Nat] /\ m \in [DOMAIN m -> Nat]
      OBVIOUS
    <3>1. /\ i \in [message_count : Nat, response_count : Nat, reserved_slots : Nat,
                    size_bytes : Nat, cycles : Nat]
          /\ o \in [message_count : Nat, cycles : Nat]
          /\ m \in [responses_size_bytes : Nat, reserved_slots : Nat, oversized_bytes : Nat]
      BY <2>1, StatsOfCq
    <3>2. i \in [DOMAIN i -> Nat]
      BY <3>1
    <3>3. o \in [DOMAIN o -> Nat]
      BY <3>1
    <3>4. m \in [DOMAIN m -> Nat]
      BY <3>1
    <3> QED BY <3>2, <3>3, <3>4
  <2> QED BY <2>1, <2>2, <2>3, <2>4, <2>5, <2>6 DEF TypeOK, Inv
<1> QED BY <1>1, SpecInv, PTL

\* The running statistics are the ones computed from the queues, whatever has
\* been pushed, popped, timed out, inducted, collected and reloaded.
THEOREM StatisticsExact ==
  Spec => []StatsOk
<1>1. Inv => StatsOk
  <2> SUFFICES ASSUME Inv PROVE StatsOk
    OBVIOUS
  <2>1. QueueMap(cq.queues) /\ StatsMatch(cq, AllContents(cq.queues))
    BY DEF Inv, CqOk, ShapeOk
  <2> QED BY <2>1, CalculatedStats DEF StatsOk, StatsMatch
<1> QED BY <1>1, SpecInv, PTL

\* Counting messages is adding up weights.
LEMMA CountsAreTotals ==
  ASSUME NEW s \in Seq(Items)
  PROVE  RequestsIn(s) = Total(RequestWeight, s) /\ ResponsesIn(s) = Total(ResponseWeight, s)
<1>1. RequestWeight \in [Items -> {0, 1}] /\ ResponseWeight \in [Items -> {0, 1}]
  BY DEF RequestWeight, ResponseWeight
<1>2. \A i \in DOMAIN s : s[i] \in Items
  BY ElementOfSeq
<1>3. {i \in DOMAIN s : RequestWeight[s[i]] = 1} = {i \in DOMAIN s : IsRequest(s[i])}
  BY <1>2 DEF RequestWeight
<1>4. {i \in DOMAIN s : ResponseWeight[s[i]] = 1} = {i \in DOMAIN s : IsResponse(s[i])}
  BY <1>2 DEF ResponseWeight
<1>5. /\ Cardinality({i \in DOMAIN s : RequestWeight[s[i]] = 1}) = Total(RequestWeight, s)
      /\ Cardinality({i \in DOMAIN s : ResponseWeight[s[i]] = 1}) = Total(ResponseWeight, s)
  BY <1>1, TotalCounts
<1> QED BY <1>3, <1>4, <1>5 DEF RequestsIn, ResponsesIn

\* Reserved slots are the responses still to come, for every number of peers,
\* payloads, queue capacity and batch times.
THEOREM SlotsBalance ==
  Spec => []CallsBalance
<1>1. Inv => CallsBalance
  <2> SUFFICES ASSUME Inv PROVE CallsBalance
    OBVIOUS
  <2>1. ASSUME NEW id \in Canisters
        PROVE  /\ PairOf(id).outq.num_slots_reserved = RequestsIn(PairOf(id).inq.queue) + owed[id]
               /\ PairOf(id).inq.num_slots_reserved = RequestsIn(PairOf(id).outq.queue) + awaiting[id]
               /\ id = Own => awaiting[Own] = RequestsIn(PairOf(id).inq.queue) + owed[Own]
                                              + ResponsesIn(PairOf(id).outq.queue)
                                              + Len(loopback) + dropped[Own]
    <3> SUFFICES ASSUME NEW pair, pair = PairOf(id)
                 PROVE  /\ pair.outq.num_slots_reserved = RequestsIn(pair.inq.queue) + owed[id]
                        /\ pair.inq.num_slots_reserved = RequestsIn(pair.outq.queue) + awaiting[id]
                        /\ id = Own => awaiting[id] = RequestsIn(pair.inq.queue) + owed[id]
                                              + ResponsesIn(pair.outq.queue)
                                              + Len(loopback) + dropped[Own]
      OBVIOUS
    <3>1. PairOk(pair) /\ Contents(pair) = ContentsAt(cq.queues, id)
      <4>1. CASE id \in DOMAIN cq.queues
        BY <4>1 DEF PairOf, ContentsAt, Inv, CqOk, ShapeOk, QueueMap
      <4>2. CASE id \notin DOMAIN cq.queues
        BY <4>2, NewPair DEF PairOf, ContentsAt
      <4> QED BY <4>1, <4>2
    <3>2. Balanced(id, Contents(pair), owed[id], awaiting[id], Waiting)
      BY <3>1, InvAt
    <3>3. /\ pair.inq.queue \in Seq(Items) /\ pair.outq.queue \in Seq(Items)
          /\ Contents(pair).in = pair.inq.queue /\ Contents(pair).out = pair.outq.queue
          /\ Contents(pair).ri = pair.inq.num_slots_reserved
          /\ Contents(pair).ro = pair.outq.num_slots_reserved
      BY <3>1, PairFields
    <3>4. /\ Total(RequestWeight, pair.inq.queue) \in Nat
          /\ Total(ResponseWeight, pair.outq.queue) \in Nat /\ owed[id] \in Nat
      BY <3>1, <3>3, InvAt, PairNumbers
    <3>5. Len(loopback) \in Nat /\ dropped[Own] \in Nat /\ Waiting = Len(loopback) + dropped[Own]
      BY DEF Inv, Canisters, Waiting
    <3>6. id = Own => awaiting[id] = Total(RequestWeight, pair.inq.queue) + owed[id]
                                     + Total(ResponseWeight, pair.outq.queue)
                                     + Len(loopback) + dropped[Own]
      BY <3>2, <3>3, <3>4, <3>5 DEF Balanced
    <3> QED BY <3>2, <3>3, <3>6, CountsAreTotals DEF Balanced
  <2>2. Own \in Canisters
    BY DEF Canisters
  <2> QED BY <2>1, <2>2 DEF CallsBalance
<1> QED BY <1>1, SpecInv, PTL

\* A checkpoint of the queues can always be decoded.
THEOREM CheckpointsDecodable ==
  Spec => []QueuesDecodable
<1>1. Inv => QueuesDecodable
  BY DEF Inv, CqOk, ShapeOk, QueueMap, PairOk, WellFormed, QueuesDecodable
<1> QED BY <1>1, SpecInv, PTL

\* The schedules list every sender with a message once, and nobody else.
THEOREM SchedulesExact ==
  Spec => []ScheduledOnce
<1>1. Inv => ScheduledOnce
  <2> SUFFICES ASSUME Inv PROVE ScheduledOnce
    OBVIOUS
  <2>1. Once(cq.local, cq.remote, PendingIn(cq.queues)) /\ DOMAIN cq.queues \subseteq Canisters
    BY DEF Inv, CqOk, ShapeOk, QueueMap
  <2>2. PendingIn(cq.queues) = {id \in Canisters : Pending(id)}
    BY <2>1 DEF PendingIn, Pending
  <2>3. /\ IsInjective(cq.local \o cq.remote)
        /\ Range(cq.local \o cq.remote) = PendingIn(cq.queues)
    BY <2>1, OnceTogether
  <2> QED BY <2>2, <2>3 DEF ScheduledOnce
<1> QED BY <1>1, SpecInv, PTL

\* The assertion of garbage_collect: what is left of empty queues is the default.
THEOREM CollectionComplete ==
  Spec => []CollectsToDefault
<1>1. Inv => CollectsToDefault
  <2> SUFFICES ASSUME Inv, NEW d, d = GarbageCollect(cq), DOMAIN d.queues = {}, d.ingress = 0
               PROVE  d = EmptyCanisterQueues
    BY DEF CollectsToDefault
  <2>1. CqOk(d) /\ d.ingress = cq.ingress /\ d.next = "LocalSubnet"
    BY GarbageCollectOk DEF Inv
  <2>2. IsCq(d) /\ QueueMap(d.queues) /\ Once(d.local, d.remote, PendingIn(d.queues))
        /\ StatsMatch(d, AllContents(d.queues))
    BY <2>1 DEF CqOk, ShapeOk
  <2>3. d.queues = <<>>
    BY <2>2 DEF QueueMap
  <2>4. d.local = <<>> /\ d.remote = <<>>
    <3>1. PendingIn(d.queues) = {}
      BY DEF PendingIn
    <3> QED BY <2>2, <3>1, OnceNobody
  <2>5. /\ d.input_stats = CalculateInputQueuesStats(<<>>)
        /\ d.output_stats = CalculateOutputQueuesStats(<<>>)
        /\ d.memory_stats = CalculateMemoryUsageStats(<<>>)
    BY <2>2, <2>3, CalculatedStats DEF StatsMatch
  <2> QED BY <2>1, <2>2, <2>3, <2>4, <2>5 DEF IsCq, EmptyCanisterQueues
<1> QED BY <1>1, SpecInv, PTL

\* Timing out and induction to self neither create nor destroy cycles.
THEOREM CyclesAreConserved ==
  Spec => CyclesConserved
<1>1. Inv /\ [Next]_vars => [StartRound \/ InductMessageToSelf =>
                               cq'.input_stats.cycles + cq'.output_stats.cycles
                                 = cq.input_stats.cycles + cq.output_stats.cycles]_vars
  BY StartRoundStep, SelfInductionCycles DEF CyclesIn
<1> QED BY <1>1, SpecInv, PTL DEF Spec, CyclesConserved

LEMMA TurnsAfter ==
  ASSUME Inv, Inv', Next
  PROVE  InTurn(cq, cq', cq.local, cq'.local) /\ InTurn(cq, cq', cq.remote, cq'.remote)
<1>1. CqOk(cq) /\ CqOk(cq')
  BY DEF Inv
<1>2. CASE Execute
  <2> SUFFICES ASSUME NEW source, source = NextSource(cq), NEW x, x = SenderServed(cq, source)
               PROVE  /\ InTurn(cq, cq', cq.local, cq'.local)
                      /\ InTurn(cq, cq', cq.remote, cq'.remote)
    OBVIOUS
  <2>1. (\E y \in InputSources : HasInput(cq, y)) /\ cq' = PopInput(cq)
    BY <1>2 DEF Execute, InputSources
  <2>2. CASE source = "Ingress"
    <3>1. Keeps(cq, cq')
      BY <1>1, <2>1, <2>2, PopInputOk
    <3> QED BY <1>1, <3>1, KeepsTurns
  <2>3. CASE source # "Ingress"
    <3>1. /\ cq'.queues[x].inq = PopInputQueue(cq.queues[x].inq)
          /\ \A y \in DOMAIN cq.queues \ {x} : cq'.queues[y] = cq.queues[y]
          /\ \/ /\ cq.local # <<>> /\ x = Head(cq.local)
                /\ Served(cq, cq.local, cq'.local, x) /\ cq'.remote = cq.remote
             \/ /\ cq.remote # <<>> /\ x = Head(cq.remote)
                /\ Served(cq, cq.remote, cq'.remote, x) /\ cq'.local = cq.local
      BY <1>1, <2>1, <2>3, PopInputOk
    <3>2. /\ Once(cq.local, cq.remote, PendingIn(cq.queues))
          /\ Once(cq.remote, cq.local, PendingIn(cq.queues))
          /\ cq.local \in Seq(Canisters) /\ cq.remote \in Seq(Canisters)
          /\ Range(cq.remote) \cup Range(cq.local) = Range(cq.local) \cup Range(cq.remote)
      BY <1>1, OnceCommutes DEF CqOk, ShapeOk, Once
    <3>3. CASE /\ cq.local # <<>> /\ x = Head(cq.local)
               /\ Served(cq, cq.local, cq'.local, x) /\ cq'.remote = cq.remote
      BY <1>1, <3>1, <3>2, <3>3, ServeTurns
    <3>4. CASE /\ cq.remote # <<>> /\ x = Head(cq.remote)
               /\ Served(cq, cq.remote, cq'.remote, x) /\ cq'.local = cq.local
      BY <1>1, <3>1, <3>2, <3>4, ServeTurns
    <3> QED BY <3>1, <3>3, <3>4
  <2> QED BY <2>2, <2>3
<1>3. CASE ~Execute
  <2>1. Keeps(cq, cq')
    BY <1>3, ReceiveIngressStep, FilterIngressStep, ReceiveRequestStep, ReceiveResponseStep,
       InductLoopbackStep, SendRequestStep, CallUnroutableStep, SendResponseStep, RouteOutputStep,
       InductMessageToSelfStep, StartRoundStep, CollectGarbageStep, RestartStep,
       StopUninstalledStep, DeleteCanisterStep DEF Next
  <2> QED BY <1>1, <2>1, KeepsTurns
<1> QED BY <1>2, <1>3

\* Round robin: a sender keeps its place until it is served, and then goes last.
THEOREM SendersTakeTurns ==
  Spec => ServedInTurn
<1> DEFINE Turns == \A f \in {"local", "remote"} : \A s, t \in Range(cq[f]) :
             Before(cq[f], s, t) =>
               \/ Before(cq'[f], s, t) /\ cq'.queues[s].inq # PopInputQueue(cq.queues[s].inq)
               \/ ~Before(cq'[f], s, t) /\ cq'.queues[s].inq = PopInputQueue(cq.queues[s].inq)
<1>1. Inv /\ Inv' /\ [Next]_vars => [Turns]_vars
  <2> SUFFICES ASSUME Inv, Inv', Next PROVE Turns
    OBVIOUS
  <2>1. InTurn(cq, cq', cq.local, cq'.local) /\ InTurn(cq, cq', cq.remote, cq'.remote)
    BY TurnsAfter
  <2>2. /\ cq["local"] = cq.local /\ cq'["local"] = cq'.local
        /\ cq["remote"] = cq.remote /\ cq'["remote"] = cq'.remote
    OBVIOUS
  <2> QED BY <2>1, <2>2 DEF InTurn
<1> QED BY <1>1, SpecInv, PTL DEF Spec, ServedInTurn

-----------------------------------------------------------------------------
(* Skipping. *)

\* SkipAll turn by turn.
SkipRun(run, c, limit) ==
  /\ run[0] = [cq |-> c, detector |-> NewLoopDetector, seen |-> {},
               done |-> c.local = <<>> /\ c.remote = <<>> /\ c.ingress = 0]
  /\ run[limit] = SkipAll(c, limit)
  /\ \A i \in 1 .. limit :
       run[i] = IF run[i - 1].done THEN run[i - 1] ELSE SkipBlocked(run[i - 1])

LEMMA SkipAllRun ==
  ASSUME NEW c, NEW limit \in Nat
  PROVE  \E run : SkipRun(run, c, limit)
<1> DEFINE n == limit
           start == [cq |-> c, detector |-> NewLoopDetector, seen |-> {},
                     done |-> c.local = <<>> /\ c.remote = <<>> /\ c.ingress = 0]
           Body(f, i) == IF i = 0 THEN start
                         ELSE IF f[i - 1].done THEN f[i - 1] ELSE SkipBlocked(f[i - 1])
           P == {k \in Nat : \E f : \A i \in 0 .. k : f[i] = Body(f, i)}
<1>1. 0 \in P
  <2> HIDE DEF start
  <2> DEFINE f == [i \in {0} |-> start]
  <2>1. \A i \in 0 .. 0 : f[i] = Body(f, i)
    OBVIOUS
  <2> QED BY <2>1
<1> HIDE DEF start
<1>2. ASSUME NEW k \in Nat, k \in P PROVE k + 1 \in P
  <2>1. PICK f : \A i \in 0 .. k : f[i] = Body(f, i)
    BY <1>2
  <2> DEFINE g == [i \in 0 .. (k + 1) |-> IF i <= k THEN f[i] ELSE Body(f, k + 1)]
  <2>2. \A i \in 0 .. k : g[i] = f[i]
    <3> HIDE DEF Body
    <3> QED OBVIOUS
  <2>3. g[k + 1] = Body(f, k + 1)
    <3> HIDE DEF Body
    <3> QED OBVIOUS
  <2> HIDE DEF g
  <2>4. \A i \in 0 .. (k + 1) : Body(g, i) = Body(f, i)
    <3> TAKE i \in 0 .. (k + 1)
    <3>1. CASE i = 0
      BY <3>1
    <3>2. CASE i # 0
      <4>1. i - 1 \in 0 .. k
        BY <3>2
      <4>2. g[i - 1] = f[i - 1]
        BY <2>2, <4>1
      <4> QED BY <4>2
    <3> QED BY <3>1, <3>2
  <2>5. \A i \in 0 .. (k + 1) : g[i] = Body(g, i)
    <3> HIDE DEF Body
    <3> TAKE i \in 0 .. (k + 1)
    <3>1. i \in 0 .. k \/ i = k + 1
      OBVIOUS
    <3> QED BY <2>1, <2>2, <2>3, <2>4, <3>1
  <2> HIDE DEF Body
  <2> QED BY <2>5
<1>3. n \in P
  <2> HIDE DEF P, n
  <2>1. n \in Nat
    BY DEF n
  <2> QED BY <1>1, <1>2, <2>1, NatSetInduction
<1>4. PICK f : \A i \in 0 .. n : f[i] = Body(f, i)
  BY <1>3
<1> DEFINE g == [i \in 0 .. n |-> f[i]]
<1>5. g = [i \in 0 .. n |-> Body(g, i)]
  <2>1. \A i \in 0 .. n : Body(g, i) = Body(f, i)
    <3> TAKE i \in 0 .. n
    <3>1. CASE i = 0
      BY <3>1
    <3>2. CASE i # 0
      <4>1. i - 1 \in 0 .. n
        BY <3>2
      <4>2. g[i - 1] = f[i - 1]
        BY <4>1
      <4> HIDE DEF g
      <4> QED BY <4>2
    <3> QED BY <3>1, <3>2
  <2> HIDE DEF Body
  <2> QED BY <1>4, <2>1
<1> DEFINE after == CHOOSE h : h = [i \in 0 .. n |-> Body(h, i)]
<1>6. after = [i \in 0 .. n |-> Body(after, i)]
  <2> HIDE DEF g, Body
  <2> QED BY <1>5
<1>7. SkipAll(c, limit) = after[n]
  BY Zenon DEF SkipAll, start
<1> HIDE DEF after
<1>8. \A i \in 0 .. n : after[i] = Body(after, i)
  <2> HIDE DEF Body
  <2> QED BY <1>6
<1>9. /\ after[0] = start
      /\ \A i \in 1 .. n : after[i] = IF after[i - 1].done THEN after[i - 1]
                                      ELSE SkipBlocked(after[i - 1])
  <2>1. 0 \in 0 .. n /\ \A i \in 1 .. n : i \in 0 .. n /\ i # 0
    OBVIOUS
  <2> QED BY <1>8, <2>1
<1> HIDE DEF P, Body
<1>10. SkipRun(after, c, limit)
  BY <1>7, <1>9, Zenon DEF SkipRun, start
<1> QED BY <1>10

\* m is the schedule l after n skips.  Those not yet skipped are still in front.
Rotated(l, m, n) ==
  /\ m \in Seq(Canisters) /\ Len(m) = Len(l) /\ Range(m) = Range(l)
  /\ \A j \in 1 .. Len(l) : n + j <= Len(l) => m[j] = l[n + j]

\* The first n of the schedule l were looked at.
Toured(seen, l, n) == \A j \in 1 .. Len(l) : j <= n => l[j] \in seen

LEMMA RotateOnce ==
  ASSUME NEW l \in Seq(Canisters), NEW m, NEW n \in Nat, Rotated(l, m, n), m # <<>>
  PROVE  /\ Rotated(l, Append(Tail(m), Head(m)), n + 1)
         /\ Head(m) \in Range(l)
         /\ \A seen : Toured(seen, l, n) => Toured(seen \cup {Head(m)}, l, n + 1)
<1> DEFINE r == Append(Tail(m), Head(m))
           N == Len(l)
<1>1. /\ m \in Seq(Canisters) /\ Len(m) = N /\ Range(m) = Range(l) /\ N \in Nat
      /\ \A j \in 1 .. N : n + j <= N => m[j] = l[n + j]
  BY DEF Rotated
<1>2. N >= 1
  BY <1>1
<1> HIDE DEF N
<1>3. /\ r \in Seq(Canisters) /\ Len(r) = N
      /\ r[N] = m[1] /\ \A j \in 1 .. (N - 1) : r[j] = m[j + 1]
      /\ Head(m) = m[1]
  BY <1>1, <1>2
<1> HIDE DEF r
<1>4. Range(r) = Range(m)
  <2>1. /\ DOMAIN r = 1 .. N /\ DOMAIN m = 1 .. N
    BY <1>1, <1>3
  <2>2. ASSUME NEW j \in 1 .. N PROVE \E i \in 1 .. N : m[i] = r[j]
    <3>1. CASE j = N
      <4>1. 1 \in 1 .. N
        BY <1>1, <1>2
      <4> QED BY <1>3, <3>1, <4>1
    <3>2. CASE j # N
      <4>1. j \in 1 .. (N - 1) /\ j + 1 \in 1 .. N
        BY <1>1, <3>2
      <4> QED BY <1>3, <4>1
    <3> QED BY <3>1, <3>2
  <2>3. ASSUME NEW j \in 1 .. N PROVE \E i \in 1 .. N : r[i] = m[j]
    <3>1. CASE j = 1
      <4>1. N \in 1 .. N
        BY <1>1, <1>2
      <4> QED BY <1>3, <3>1, <4>1
    <3>2. CASE j # 1
      <4>1. j - 1 \in 1 .. (N - 1) /\ (j - 1) + 1 = j /\ j - 1 \in 1 .. N
        BY <1>1, <3>2
      <4>2. r[j - 1] = m[j]
        BY <1>3, <4>1
      <4> QED BY <4>1, <4>2
    <3> QED BY <3>1, <3>2
  <2>4. \A x : x \in Range(r) <=> \E j \in 1 .. N : x = r[j]
    BY <2>1, Zenon DEF Range
  <2>5. \A x : x \in Range(m) <=> \E j \in 1 .. N : x = m[j]
    BY <2>1, Zenon DEF Range
  <2>6. \A x : x \in Range(r) <=> x \in Range(m)
    <3> HIDE DEF Range
    <3>1. ASSUME NEW x, x \in Range(r) PROVE x \in Range(m)
      <4>1. PICK j \in 1 .. N : x = r[j]
        BY <2>4, <3>1, Zenon
      <4>2. PICK i \in 1 .. N : m[i] = r[j]
        BY <2>2, Zenon
      <4> QED BY <2>5, <4>1, <4>2, Zenon
    <3>2. ASSUME NEW x, x \in Range(m) PROVE x \in Range(r)
      <4>1. PICK j \in 1 .. N : x = m[j]
        BY <2>5, <3>2, Zenon
      <4>2. PICK i \in 1 .. N : r[i] = m[j]
        BY <2>3, Zenon
      <4> QED BY <2>4, <4>1, <4>2, Zenon
    <3> QED BY <3>1, <3>2, Zenon
  <2> HIDE DEF Range
  <2> QED BY <2>6, Zenon
<1>5. Rotated(l, r, n + 1)
  <2>1. ASSUME NEW j \in 1 .. N, (n + 1) + j <= N PROVE r[j] = l[(n + 1) + j]
    <3>1. j \in 1 .. (N - 1) /\ j + 1 \in 1 .. N /\ n + (j + 1) <= N /\ n + (j + 1) = (n + 1) + j
      BY <1>1, <2>1
    <3>2. r[j] = m[j + 1] /\ m[j + 1] = l[n + (j + 1)]
      BY <1>1, <1>3, <3>1
    <3> QED BY <3>1, <3>2
  <2> QED BY <1>1, <1>3, <1>4, <2>1 DEF Rotated, N
<1>6. Head(m) \in Range(l)
  <2>1. 1 \in DOMAIN m
    BY <1>1, <1>2
  <2>2. m[1] \in Range(m)
    BY <2>1 DEF Range
  <2> QED BY <1>1, <1>3, <2>2
<1>7. ASSUME NEW seen, Toured(seen, l, n) PROVE Toured(seen \cup {Head(m)}, l, n + 1)
  <2> SUFFICES ASSUME NEW j \in 1 .. N, j <= n + 1 PROVE l[j] \in seen \cup {Head(m)}
    BY DEF Toured, N
  <2>1. CASE j <= n
    BY <1>7, <2>1 DEF Toured, N
  <2>2. CASE j = n + 1
    <3>1. 1 \in 1 .. N /\ n + 1 <= N
      BY <1>1, <2>2
    <3>2. m[1] = l[n + 1]
      BY <1>1, <3>1
    <3> QED BY <1>3, <2>2, <3>2
  <2> QED BY <2>1, <2>2
<1> QED BY <1>5, <1>6, <1>7 DEF r

\* How many sources the round robin passes before it comes to source.
Distance(next, source) == IF source = next THEN 0 ELSE IF source = After(next) THEN 1 ELSE 2

\* A turn serves a source, or comes closer to it.
LEMMA RoundRobin ==
  ASSUME NEW c, c.next \in InputSources, \E source \in InputSources : HasInput(c, source)
  PROVE  /\ Distance(After(NextSource(c)), NextSource(c)) = 2
         /\ \A source \in InputSources :
              /\ Distance(c.next, source) \in 0 .. 2
              /\ HasInput(c, source) /\ source # NextSource(c)
                   => Distance(After(NextSource(c)), source) <= Distance(c.next, source) - 1
<1>1. /\ After("LocalSubnet") = "Ingress" /\ After("Ingress") = "RemoteSubnet"
      /\ After("RemoteSubnet") = "LocalSubnet"
  BY DEF After
<1>2. HasInput(c, NextSource(c)) /\ NextSource(c) \in InputSources
  BY NextSourceHasInput
<1> HIDE DEF HasInput
<1>3. /\ NextSource(c) = IF HasInput(c, c.next) THEN c.next
                         ELSE IF HasInput(c, After(c.next)) THEN After(c.next)
                         ELSE After(After(c.next))
  BY DEF NextSource
<1>4. \A source \in InputSources : Distance(c.next, source) \in 0 .. 2
  BY DEF Distance
<1>5. ASSUME NEW source \in InputSources, HasInput(c, source), source # NextSource(c)
      PROVE  Distance(After(NextSource(c)), source) <= Distance(c.next, source) - 1
  BY <1>1, <1>2, <1>3, <1>5 DEF Distance, InputSources
<1>6. Distance(After(NextSource(c)), NextSource(c)) = 2
  BY <1>1, <1>2 DEF Distance, InputSources
<1> QED BY <1>4, <1>5, <1>6

\* What peek_input and skip_input change.
LEMMA SkipFields ==
  ASSUME NEW d, IsCq(d)
  PROVE  LET p == PeekInput(d)
             k == SkipInput(p)
         IN  /\ p.next = NextSource(d) /\ p.queues = d.queues
             /\ p.local = d.local /\ p.remote = d.remote
             /\ IsCq(k) /\ k.queues = d.queues /\ k.ingress = d.ingress
             /\ k.next = After(NextSource(d))
             /\ k.local = IF NextSource(d) = "LocalSubnet" THEN SkipSchedule(p, d.local) ELSE d.local
             /\ k.remote = IF NextSource(d) = "RemoteSubnet" THEN SkipSchedule(p, d.remote)
                           ELSE d.remote
<1> DEFINE p == PeekInput(d)
           s == NextSource(d)
           k == SkipInput(p)
<1>1. p = [queues |-> d.queues, local |-> d.local, remote |-> d.remote, ingress |-> d.ingress,
           next |-> s, input_stats |-> d.input_stats, output_stats |-> d.output_stats,
           memory_stats |-> d.memory_stats]
  <2> HIDE DEF s
  <2>1. p = [d EXCEPT !.next = s]
    BY DEF PeekInput, s
  <2> HIDE DEF p
  <2> QED BY <2>1 DEF IsCq
<1> HIDE DEF p, s
<1> DEFINE l == IF s = "LocalSubnet" THEN SkipSchedule(p, d.local) ELSE d.local
           r == IF s = "RemoteSubnet" THEN SkipSchedule(p, d.remote) ELSE d.remote
<1>2. /\ p.next = s /\ p.queues = d.queues /\ p.local = d.local /\ p.remote = d.remote
  BY <1>1
<1>3. k = [p EXCEPT !.local = l, !.remote = r, !.next = After(s)]
  BY <1>2 DEF SkipInput
<1> HIDE DEF l, r, k
<1>4. k = [queues |-> d.queues, local |-> l, remote |-> r, ingress |-> d.ingress,
           next |-> After(s), input_stats |-> d.input_stats, output_stats |-> d.output_stats,
           memory_stats |-> d.memory_stats]
  BY <1>1, <1>3
<1>5. IsCq(k)
  BY <1>4 DEF IsCq
<1>6. /\ k.queues = d.queues /\ k.ingress = d.ingress /\ k.next = After(s)
      /\ k.local = l /\ k.remote = r
  BY <1>4
<1> QED BY <1>2, <1>5, <1>6 DEF p, k, s, l, r

\* skip_input only rotates a schedule: a scheduled sender has a message.
LEMMA SkipRotates ==
  ASSUME NEW c, CqOk(c), NEW p, p.queues = c.queues, NEW l \in {c.local, c.remote},
         NEW m, NEW n, Rotated(l, m, n), m # <<>>
  PROVE  /\ SkipSchedule(p, m) = Append(Tail(m), Head(m))
         /\ Head(m) \in Range(c.local) \cup Range(c.remote)
<1>1. m \in Seq(Canisters) /\ Range(m) = Range(l)
  BY DEF Rotated
<1>2. Head(m) = m[1] /\ 1 \in DOMAIN m /\ Head(m) \in Canisters /\ Tail(m) \in Seq(Canisters)
  BY <1>1
<1>3. Head(m) \in Range(m)
  BY <1>2 DEF Range
<1>4. Head(m) \in Range(c.local) \cup Range(c.remote)
  BY <1>1, <1>3
<1>5. Head(m) \in PendingIn(c.queues)
  BY <1>4, SenderPending
<1>6. p.queues[Head(m)].inq.queue # <<>>
  BY <1>5 DEF PendingIn
<1>7. SkipSchedule(p, m) = Tail(m) \o <<Head(m)>>
  BY <1>6, Zenon DEF SkipSchedule
<1>8. Tail(m) \o <<Head(m)>> = Append(Tail(m), Head(m))
  BY <1>2, ConcatOne
<1> QED BY <1>4, <1>7, <1>8

IsDetector(t) == t = [local |-> t.local, remote |-> t.remote, ingress |-> t.ingress]

LEMMA CountFields ==
  ASSUME NEW t, IsDetector(t), NEW s \in InputSources
  PROVE  LET e == CountSkip(t, s)
         IN  /\ IsDetector(e)
             /\ e.local = IF s = "LocalSubnet" THEN t.local + 1 ELSE t.local
             /\ e.remote = IF s = "RemoteSubnet" THEN t.remote + 1 ELSE t.remote
             /\ e.ingress = IF s = "Ingress" THEN TRUE ELSE t.ingress
<1> DEFINE e == CountSkip(t, s)
<1>1. CASE s = "LocalSubnet"
  <2>1. e = [local |-> t.local + 1, remote |-> t.remote, ingress |-> t.ingress]
    <3>1. e = [t EXCEPT !.local = @ + 1]
      BY <1>1 DEF CountSkip
    <3> HIDE DEF e
    <3> QED BY <3>1 DEF IsDetector
  <2> HIDE DEF e
  <2>2. IsDetector(e)
    BY <2>1 DEF IsDetector
  <2> QED BY <1>1, <2>1, <2>2 DEF e
<1>2. CASE s = "RemoteSubnet"
  <2>1. e = [local |-> t.local, remote |-> t.remote + 1, ingress |-> t.ingress]
    <3>1. e = [t EXCEPT !.remote = @ + 1]
      BY <1>2 DEF CountSkip
    <3> HIDE DEF e
    <3> QED BY <3>1 DEF IsDetector
  <2> HIDE DEF e
  <2>2. IsDetector(e)
    BY <2>1 DEF IsDetector
  <2> QED BY <1>2, <2>1, <2>2 DEF e
<1>3. CASE s = "Ingress"
  <2>1. e = [local |-> t.local, remote |-> t.remote, ingress |-> TRUE]
    <3>1. e = [t EXCEPT !.ingress = TRUE]
      BY <1>3 DEF CountSkip
    <3> HIDE DEF e
    <3> QED BY <3>1 DEF IsDetector
  <2> HIDE DEF e
  <2>2. IsDetector(e)
    BY <2>1 DEF IsDetector
  <2>3. e.local = t.local /\ e.remote = t.remote
    BY <2>1
  <2>4. e.ingress = TRUE
    BY <2>1, Zenon
  <2>5. /\ e.local = IF s = "LocalSubnet" THEN t.local + 1 ELSE t.local
        /\ e.remote = IF s = "RemoteSubnet" THEN t.remote + 1 ELSE t.remote
    BY <1>3, <2>3
  <2>6. e.ingress = IF s = "Ingress" THEN TRUE ELSE t.ingress
    BY <1>3, <2>4, Zenon
  <2> QED BY <2>2, <2>5, <2>6, Zenon DEF e
<1> QED BY <1>1, <1>2, <1>3 DEF InputSources

\* The heads there are to look at.
Heads(c) == Range(c.local) \cup Range(c.remote) \cup (IF c.ingress > 0 THEN {"Ingress"} ELSE {})

\* Skipping has changed nothing of c but the order of its schedules.
Skipped(c, d, t) ==
  /\ IsCq(d) /\ d.queues = c.queues /\ d.ingress = c.ingress /\ d.next \in InputSources
  /\ IsDetector(t) /\ t.local \in Nat /\ t.remote \in Nat /\ t.ingress \in BOOLEAN
  /\ Rotated(c.local, d.local, t.local)
  /\ Rotated(c.remote, d.remote, t.remote)

\* What was looked at is what the detector has counted.
Looked(c, t, seen) ==
  /\ seen \subseteq Heads(c)
  /\ Toured(seen, c.local, t.local)
  /\ Toured(seen, c.remote, t.remote)
  /\ t.ingress => "Ingress" \in seen

\* The round robin comes to each source that has a message every third turn.
OnTime(c, d, t, i) ==
  /\ c.local # <<>> => i + Distance(d.next, "LocalSubnet") <= 3 * t.local + 2
  /\ c.remote # <<>> => i + Distance(d.next, "RemoteSubnet") <= 3 * t.remote + 2
  /\ c.ingress > 0 /\ ~t.ingress => i + Distance(d.next, "Ingress") <= 2

\* As long as the detector sees no loop, some source has a message.
LEMMA SomethingLeft ==
  ASSUME NEW c, CqOk(c), NEW d, NEW t, Skipped(c, d, t), ~DetectedLoop(d, t)
  PROVE  /\ \E source \in InputSources : HasInput(d, source)
         /\ HasInput(d, "LocalSubnet") <=> c.local # <<>>
         /\ HasInput(d, "RemoteSubnet") <=> c.remote # <<>>
         /\ HasInput(d, "Ingress") <=> c.ingress > 0
<1>1. /\ c.local \in Seq(Canisters) /\ c.remote \in Seq(Canisters) /\ c.ingress \in Nat
      /\ d.local \in Seq(Canisters) /\ d.remote \in Seq(Canisters) /\ d.ingress = c.ingress
      /\ Len(d.local) = Len(c.local) /\ Len(d.remote) = Len(c.remote)
      /\ t.local \in Nat /\ t.remote \in Nat
  BY DEF CqOk, ShapeOk, Once, Skipped, Rotated
<1>2. /\ HasInput(d, "LocalSubnet") <=> d.local # <<>>
      /\ HasInput(d, "RemoteSubnet") <=> d.remote # <<>>
      /\ HasInput(d, "Ingress") <=> d.ingress > 0
  BY DEF HasInput
<1>3. \A l, m \in Seq(Canisters) : Len(m) = Len(l) => (m # <<>> <=> l # <<>>)
  OBVIOUS
<1>4. (d.local # <<>> <=> c.local # <<>>) /\ (d.remote # <<>> <=> c.remote # <<>>)
  BY <1>1, <1>3
<1>5. d.local # <<>> \/ d.remote # <<>> \/ d.ingress > 0
  <2>1. ~(t.local >= Len(d.local)) \/ ~(t.remote >= Len(d.remote)) \/ d.ingress # 0
    BY DEF DetectedLoop
  <2>2. \A m \in Seq(Canisters), n \in Nat : ~(n >= Len(m)) => m # <<>>
    OBVIOUS
  <2>3. ~(t.local >= Len(d.local)) => d.local # <<>>
    BY <1>1, <2>2
  <2>4. ~(t.remote >= Len(d.remote)) => d.remote # <<>>
    BY <1>1, <2>2
  <2>5. d.ingress # 0 => d.ingress > 0
    BY <1>1
  <2> QED BY <2>1, <2>3, <2>4, <2>5
<1> QED BY <1>1, <1>2, <1>4, <1>5 DEF InputSources

\* A turn serves a source that has a message and comes closer to the others.
LEMMA StaysOnTime ==
  ASSUME NEW c, CqOk(c), NEW d, NEW t, Skipped(c, d, t), ~DetectedLoop(d, t),
         NEW i \in Nat, OnTime(c, d, t, i),
         NEW k, k.next = After(NextSource(d))
  PROVE  OnTime(c, k, CountSkip(t, NextSource(d)), i + 1)
<1> DEFINE s == NextSource(d)
           e == CountSkip(t, s)
<1>1. /\ d.next \in InputSources /\ IsDetector(t) /\ t.local \in Nat /\ t.remote \in Nat
  BY DEF Skipped
<1>2. /\ \E source \in InputSources : HasInput(d, source)
      /\ HasInput(d, "LocalSubnet") <=> c.local # <<>>
      /\ HasInput(d, "RemoteSubnet") <=> c.remote # <<>>
      /\ HasInput(d, "Ingress") <=> c.ingress > 0
  BY SomethingLeft
<1>3. s \in InputSources
  BY <1>1, <1>2, NextSourceHasInput
<1>4. /\ Distance(k.next, s) = 2
      /\ \A source \in InputSources :
           /\ Distance(d.next, source) \in 0 .. 2
           /\ HasInput(d, source) /\ source # s
                => Distance(k.next, source) <= Distance(d.next, source) - 1
  BY <1>1, <1>2, RoundRobin
<1>5. /\ e.local = IF s = "LocalSubnet" THEN t.local + 1 ELSE t.local
      /\ e.remote = IF s = "RemoteSubnet" THEN t.remote + 1 ELSE t.remote
      /\ e.ingress = IF s = "Ingress" THEN TRUE ELSE t.ingress
  BY <1>1, <1>3, CountFields
<1>6. /\ {"LocalSubnet", "RemoteSubnet", "Ingress"} = InputSources
      /\ \A source \in InputSources : Distance(k.next, source) \in Nat
  BY DEF InputSources, Distance
<1>7. \A a, b, x, y \in Nat : a + x <= 3 * b + 2 =>
         /\ y = 2 => (a + 1) + y <= 3 * (b + 1) + 2
         /\ y <= x - 1 => (a + 1) + y <= 3 * b + 2
  OBVIOUS
<1>8. \A a, x, y \in Nat : a + x <= 2 /\ y <= x - 1 => (a + 1) + y <= 2
  OBVIOUS
<1> HIDE DEF s, e
<1>9. ASSUME c.local # <<>> PROVE (i + 1) + Distance(k.next, "LocalSubnet") <= 3 * e.local + 2
  <2> DEFINE x == Distance(d.next, "LocalSubnet")
             y == Distance(k.next, "LocalSubnet")
  <2>1. i + x <= 3 * t.local + 2
    BY <1>9 DEF OnTime
  <2>2. x \in Nat /\ y \in Nat
    BY <1>4, <1>6
  <2>3. s = "LocalSubnet" => y = 2 /\ e.local = t.local + 1
    BY <1>4, <1>5
  <2>4. s # "LocalSubnet" => y <= x - 1 /\ e.local = t.local
    BY <1>2, <1>4, <1>5, <1>6, <1>9
  <2> HIDE DEF x, y
  <2>5. (i + 1) + y <= 3 * e.local + 2
    BY <1>1, <1>7, <2>1, <2>2, <2>3, <2>4
  <2> QED BY <2>5 DEF y
<1>10. ASSUME c.remote # <<>> PROVE (i + 1) + Distance(k.next, "RemoteSubnet") <= 3 * e.remote + 2
  <2> DEFINE x == Distance(d.next, "RemoteSubnet")
             y == Distance(k.next, "RemoteSubnet")
  <2>1. i + x <= 3 * t.remote + 2
    BY <1>10 DEF OnTime
  <2>2. x \in Nat /\ y \in Nat
    BY <1>4, <1>6
  <2>3. s = "RemoteSubnet" => y = 2 /\ e.remote = t.remote + 1
    BY <1>4, <1>5
  <2>4. s # "RemoteSubnet" => y <= x - 1 /\ e.remote = t.remote
    BY <1>2, <1>4, <1>5, <1>6, <1>10
  <2> HIDE DEF x, y
  <2>5. (i + 1) + y <= 3 * e.remote + 2
    BY <1>1, <1>7, <2>1, <2>2, <2>3, <2>4
  <2> QED BY <2>5 DEF y
<1>11. ASSUME c.ingress > 0, ~e.ingress PROVE (i + 1) + Distance(k.next, "Ingress") <= 2
  <2> DEFINE x == Distance(d.next, "Ingress")
             y == Distance(k.next, "Ingress")
  <2>1. s # "Ingress" /\ ~t.ingress
    BY <1>5, <1>11
  <2>2. i + x <= 2
    BY <1>11, <2>1 DEF OnTime
  <2>3. x \in Nat /\ y \in Nat
    BY <1>4, <1>6
  <2>4. y <= x - 1
    BY <1>2, <1>4, <1>6, <1>11, <2>1
  <2> HIDE DEF x, y
  <2>5. (i + 1) + y <= 2
    BY <1>8, <2>2, <2>3, <2>4
  <2> QED BY <2>5 DEF y
<1>12. OnTime(c, k, e, i + 1)
  BY <1>9, <1>10, <1>11 DEF OnTime
<1> QED BY <1>12 DEF e, s

\* One schedule through one turn: served or not, what was counted was looked at.
LEMMA ScheduleTurn ==
  ASSUME NEW c, CqOk(c), NEW p, p.queues = c.queues, NEW l \in {c.local, c.remote},
         NEW m, NEW n \in Nat, Rotated(l, m, n), m # <<>>, NEW seen, Toured(seen, l, n)
  PROVE  /\ Rotated(l, SkipSchedule(p, m), n + 1)
         /\ Head(m) \in Heads(c)
         /\ Toured(seen \cup {Head(m)}, l, n + 1)
<1>1. l \in Seq(Canisters)
  BY DEF CqOk, ShapeOk, Once
<1>2. SkipSchedule(p, m) = Append(Tail(m), Head(m))
  BY SkipRotates
<1>3. /\ Rotated(l, Append(Tail(m), Head(m)), n + 1)
      /\ Head(m) \in Range(l)
      /\ \A any : Toured(any, l, n) => Toured(any \cup {Head(m)}, l, n + 1)
  BY <1>1, RotateOnce
<1> QED BY <1>2, <1>3 DEF Heads

LEMMA TouredMore ==
  ASSUME NEW seen, NEW x, NEW l, NEW n, Toured(seen, l, n)
  PROVE  Toured(seen \cup {x}, l, n)
BY DEF Toured

\* One turn of the inner loop of drain_subnet_queues.
LEMMA SkipTurn ==
  ASSUME NEW c, CqOk(c), NEW d, NEW t, Skipped(c, d, t), ~DetectedLoop(d, t),
         NEW seen, Looked(c, t, seen)
  PROVE  LET p == PeekInput(d)
             k == SkipInput(p)
             e == CountSkip(t, p.next)
         IN  /\ p.next = NextSource(d) /\ k.next = After(NextSource(d))
             /\ Skipped(c, k, e)
             /\ Looked(c, e, seen \cup {Peeked(p)})
<1> DEFINE s == NextSource(d)
           p == PeekInput(d)
           k == SkipInput(p)
           e == CountSkip(t, s)
<1>1. /\ IsCq(d) /\ d.queues = c.queues /\ d.ingress = c.ingress /\ d.next \in InputSources
      /\ IsDetector(t) /\ t.local \in Nat /\ t.remote \in Nat /\ t.ingress \in BOOLEAN
      /\ Rotated(c.local, d.local, t.local) /\ Rotated(c.remote, d.remote, t.remote)
  BY DEF Skipped
<1>2. /\ p.next = s /\ p.queues = d.queues
      /\ p.local = d.local /\ p.remote = d.remote
      /\ IsCq(k) /\ k.queues = d.queues /\ k.ingress = d.ingress
      /\ k.next = After(s)
      /\ k.local = IF s = "LocalSubnet" THEN SkipSchedule(p, d.local) ELSE d.local
      /\ k.remote = IF s = "RemoteSubnet" THEN SkipSchedule(p, d.remote) ELSE d.remote
  BY <1>1, SkipFields
<1>3. \E source \in InputSources : HasInput(d, source)
  BY SomethingLeft
<1>4. s \in InputSources /\ HasInput(d, s) /\ After(s) \in InputSources
  BY <1>1, <1>3, NextSourceHasInput
<1>5. /\ IsDetector(e)
      /\ e.local = IF s = "LocalSubnet" THEN t.local + 1 ELSE t.local
      /\ e.remote = IF s = "RemoteSubnet" THEN t.remote + 1 ELSE t.remote
      /\ e.ingress = IF s = "Ingress" THEN TRUE ELSE t.ingress
  BY <1>1, <1>4, CountFields
<1>6. Peeked(p) = IF s = "Ingress" THEN "Ingress" ELSE IF s = "LocalSubnet" THEN Head(d.local)
                  ELSE Head(d.remote)
  BY <1>2 DEF Peeked, SenderServed
<1>7. /\ seen \subseteq Heads(c) /\ Toured(seen, c.local, t.local)
      /\ Toured(seen, c.remote, t.remote) /\ (t.ingress => "Ingress" \in seen)
  BY DEF Looked
<1>8. /\ s = "LocalSubnet" => d.local # <<>>
      /\ s = "RemoteSubnet" => d.remote # <<>>
      /\ s = "Ingress" => c.ingress > 0
  BY <1>1, <1>4 DEF HasInput
<1>9. p.queues = c.queues
  BY <1>1, <1>2
<1> DEFINE x == Peeked(p)
<1> HIDE DEF s, p, k, e, x
<1> SUFFICES Skipped(c, k, e) /\ Looked(c, e, seen \cup {x})
  BY <1>2 DEF s, p, k, e, x
<1>10. /\ e.local \in Nat /\ e.remote \in Nat
  BY <1>1, <1>5
<1>11. e.ingress \in BOOLEAN
  BY <1>1, <1>5
<1>12. CASE s = "LocalSubnet"
  <2>1. /\ k.local = SkipSchedule(p, d.local) /\ k.remote = d.remote /\ x = Head(d.local)
        /\ e.local = t.local + 1 /\ e.remote = t.remote
    BY <1>2, <1>5, <1>6, <1>12 DEF x
  <2>2. e.ingress = t.ingress
    BY <1>5, <1>12
  <2>3. /\ Rotated(c.local, SkipSchedule(p, d.local), t.local + 1)
        /\ Head(d.local) \in Heads(c)
        /\ Toured(seen \cup {Head(d.local)}, c.local, t.local + 1)
    BY <1>1, <1>7, <1>8, <1>9, <1>12, ScheduleTurn
  <2>4. Toured(seen \cup {x}, c.remote, t.remote)
    BY <1>7, TouredMore
  <2>5. Skipped(c, k, e)
    BY <1>1, <1>2, <1>4, <1>5, <1>10, <1>11, <2>1, <2>3 DEF Skipped
  <2>6. Looked(c, e, seen \cup {x})
    BY <1>7, <2>1, <2>2, <2>3, <2>4 DEF Looked
  <2> QED BY <2>5, <2>6
<1>13. CASE s = "RemoteSubnet"
  <2>1. /\ k.remote = SkipSchedule(p, d.remote) /\ k.local = d.local /\ x = Head(d.remote)
        /\ e.remote = t.remote + 1 /\ e.local = t.local
    BY <1>2, <1>5, <1>6, <1>13 DEF x
  <2>2. e.ingress = t.ingress
    BY <1>5, <1>13
  <2>3. /\ Rotated(c.remote, SkipSchedule(p, d.remote), t.remote + 1)
        /\ Head(d.remote) \in Heads(c)
        /\ Toured(seen \cup {Head(d.remote)}, c.remote, t.remote + 1)
    BY <1>1, <1>7, <1>8, <1>9, <1>13, ScheduleTurn
  <2>4. Toured(seen \cup {x}, c.local, t.local)
    BY <1>7, TouredMore
  <2>5. Skipped(c, k, e)
    BY <1>1, <1>2, <1>4, <1>5, <1>10, <1>11, <2>1, <2>3 DEF Skipped
  <2>6. Looked(c, e, seen \cup {x})
    BY <1>7, <2>1, <2>2, <2>3, <2>4 DEF Looked
  <2> QED BY <2>5, <2>6
<1>14. CASE s = "Ingress"
  <2>1. /\ k.remote = d.remote /\ k.local = d.local /\ x = "Ingress"
        /\ e.remote = t.remote /\ e.local = t.local
    BY <1>2, <1>5, <1>6, <1>14 DEF x
  <2>2. x \in Heads(c)
    BY <1>8, <1>14, <2>1 DEF Heads
  <2>3. Toured(seen \cup {x}, c.local, t.local) /\ Toured(seen \cup {x}, c.remote, t.remote)
    BY <1>7, TouredMore
  <2>4. "Ingress" \in seen \cup {x}
    BY <2>1
  <2>5. Skipped(c, k, e)
    BY <1>1, <1>2, <1>4, <1>5, <1>10, <1>11, <2>1 DEF Skipped
  <2>6. Looked(c, e, seen \cup {x})
    BY <1>7, <2>1, <2>2, <2>3, <2>4 DEF Looked
  <2> QED BY <2>5, <2>6
<1> QED BY <1>4, <1>12, <1>13, <1>14 DEF InputSources

\* The state of the loop after i turns.
Touring(c, tour, i) ==
  /\ Skipped(c, tour.cq, tour.detector)
  /\ Looked(c, tour.detector, tour.seen)
  /\ tour.done \in BOOLEAN
  /\ tour.done <=> DetectedLoop(tour.cq, tour.detector)
  /\ tour.done \/ OnTime(c, tour.cq, tour.detector, i)

LEMMA TourBegins ==
  ASSUME NEW c, CqOk(c),
         NEW tour, tour = [cq |-> c, detector |-> NewLoopDetector, seen |-> {},
                           done |-> c.local = <<>> /\ c.remote = <<>> /\ c.ingress = 0]
  PROVE  Touring(c, tour, 0)
<1> DEFINE t == NewLoopDetector
           w == c.local = <<>> /\ c.remote = <<>> /\ c.ingress = 0
<1>1. /\ IsCq(c) /\ c.next \in InputSources /\ c.ingress \in Nat
      /\ c.local \in Seq(Canisters) /\ c.remote \in Seq(Canisters)
  BY DEF CqOk, ShapeOk, Once
<1>2. /\ tour.cq = c /\ tour.detector = t /\ tour.seen = {}
  OBVIOUS
<1>3. tour.done = w
  BY Zenon
<1>4. /\ t.local = 0 /\ t.remote = 0 /\ IsDetector(t)
  BY DEF NewLoopDetector, IsDetector
<1>5. t.ingress = FALSE
  BY DEF NewLoopDetector
<1> HIDE DEF t, w
<1>6. \A l \in Seq(Canisters) : Rotated(l, l, 0) /\ Toured({}, l, 0)
  BY DEF Rotated, Toured
<1>7. Skipped(c, c, t)
  <2>1. t.local \in Nat /\ t.remote \in Nat
    BY <1>4
  <2>2. t.ingress \in BOOLEAN
    BY <1>5
  <2>3. Rotated(c.local, c.local, t.local) /\ Rotated(c.remote, c.remote, t.remote)
    BY <1>1, <1>4, <1>6
  <2> QED BY <1>1, <1>4, <2>1, <2>2, <2>3, Zenon DEF Skipped
<1>8. Looked(c, t, {})
  BY <1>1, <1>4, <1>5, <1>6 DEF Looked
<1>9. w <=> DetectedLoop(c, t)
  <2>1. \A l \in Seq(Canisters) : 0 >= Len(l) <=> l = <<>>
    OBVIOUS
  <2>2. /\ t.local >= Len(c.local) <=> c.local = <<>>
        /\ t.remote >= Len(c.remote) <=> c.remote = <<>>
    BY <1>1, <1>4, <2>1
  <2> QED BY <1>5, <2>2, Zenon DEF DetectedLoop, w
<1>10. OnTime(c, c, t, 0)
  <2>1. \A source \in InputSources : Distance(c.next, source) \in 0 .. 2
    BY DEF Distance
  <2>2. /\ Distance(c.next, "LocalSubnet") \in 0 .. 2 /\ Distance(c.next, "Ingress") \in 0 .. 2
        /\ Distance(c.next, "RemoteSubnet") \in 0 .. 2
    BY <2>1 DEF InputSources
  <2> HIDE DEF Distance
  <2> QED BY <1>4, <2>2 DEF OnTime
<1>11. w \in BOOLEAN
  BY DEF w
<1> HIDE DEF t, w
<1> QED BY <1>2, <1>3, <1>7, <1>8, <1>9, <1>10, <1>11, Zenon DEF Touring

LEMMA TourGoesOn ==
  ASSUME NEW c, CqOk(c), NEW tour, NEW i \in Nat, Touring(c, tour, i), ~tour.done
  PROVE  Touring(c, SkipBlocked(tour), i + 1)
<1> DEFINE d == tour.cq
           t == tour.detector
           p == PeekInput(d)
           k == SkipInput(p)
           e == CountSkip(t, p.next)
           n == SkipBlocked(tour)
           x == Peeked(p)
           w == DetectedLoop(k, e)
<1>1. /\ Skipped(c, d, t) /\ Looked(c, t, tour.seen) /\ OnTime(c, d, t, i)
      /\ ~DetectedLoop(d, t)
  BY DEF Touring
<1>2. n = [cq |-> k, detector |-> e, seen |-> tour.seen \cup {x}, done |-> w]
  BY Zenon DEF SkipBlocked
<1>3. /\ p.next = NextSource(d) /\ k.next = After(NextSource(d))
      /\ Skipped(c, k, e)
      /\ Looked(c, e, tour.seen \cup {x})
  BY <1>1, SkipTurn
<1>4. e = CountSkip(t, NextSource(d))
  BY <1>3
<1>5. OnTime(c, k, e, i + 1)
  <2> HIDE DEF d, t, k
  <2> QED BY <1>1, <1>3, <1>4, StaysOnTime
<1> HIDE DEF k, e, n, x, w
<1>6. n.cq = k /\ n.detector = e /\ n.seen = tour.seen \cup {x}
  BY <1>2
<1>7. n.done = w
  BY <1>2, Zenon
<1>8. w \in BOOLEAN
  BY DEF w, DetectedLoop
<1>9. w <=> DetectedLoop(k, e)
  BY DEF w
<1>10. Touring(c, n, i + 1)
  BY <1>3, <1>5, <1>6, <1>7, <1>8, <1>9, Zenon DEF Touring
<1> QED BY <1>10 DEF n

\* By the end of the tours the detector has counted all there is.
LEMMA TourEnds ==
  ASSUME NEW c, CqOk(c), NEW tour, NEW n \in Nat, Touring(c, tour, 3 * n),
         n >= Len(c.local), n >= Len(c.remote), n >= 1
  PROVE  tour.done
<1> SUFFICES ASSUME ~tour.done PROVE FALSE
  OBVIOUS
<1> DEFINE d == tour.cq
           t == tour.detector
           x == Distance(d.next, "LocalSubnet")
           y == Distance(d.next, "RemoteSubnet")
           z == Distance(d.next, "Ingress")
<1>1. Skipped(c, d, t) /\ OnTime(c, d, t, 3 * n) /\ ~DetectedLoop(d, t)
  BY DEF Touring
<1>2. /\ d.next \in InputSources /\ t.local \in Nat /\ t.remote \in Nat
      /\ d.ingress = c.ingress /\ Len(d.local) = Len(c.local) /\ Len(d.remote) = Len(c.remote)
      /\ c.local \in Seq(Canisters) /\ c.remote \in Seq(Canisters) /\ c.ingress \in Nat
  BY <1>1 DEF Skipped, Rotated, CqOk, ShapeOk, Once
<1>3. x \in 0 .. 2 /\ y \in 0 .. 2 /\ z \in 0 .. 2
  BY <1>2 DEF Distance
<1>4. /\ c.local # <<>> => 3 * n + x <= 3 * t.local + 2
      /\ c.remote # <<>> => 3 * n + y <= 3 * t.remote + 2
      /\ c.ingress > 0 /\ ~t.ingress => 3 * n + z <= 2
  BY <1>1 DEF OnTime
<1> HIDE DEF x, y, z
<1>5. \A l \in Seq(Canisters) : Len(l) \in Nat /\ (l = <<>> => Len(l) = 0)
  OBVIOUS
<1>6. \A m, a \in Nat : \A b \in 0 .. 2 : 3 * m + b <= 3 * a + 2 => a >= m
  OBVIOUS
<1>7. t.local >= Len(d.local)
  <2>1. CASE c.local = <<>>
    BY <1>2, <1>5, <2>1
  <2>2. CASE c.local # <<>>
    <3>1. t.local >= n
      BY <1>2, <1>3, <1>4, <1>6, <2>2
    <3> QED BY <1>2, <1>5, <3>1
  <2> QED BY <2>1, <2>2
<1>8. t.remote >= Len(d.remote)
  <2>1. CASE c.remote = <<>>
    BY <1>2, <1>5, <2>1
  <2>2. CASE c.remote # <<>>
    <3>1. t.remote >= n
      BY <1>2, <1>3, <1>4, <1>6, <2>2
    <3> QED BY <1>2, <1>5, <3>1
  <2> QED BY <2>1, <2>2
<1>9. ~(3 * n + z <= 2)
  BY <1>3
<1>10. t.ingress \/ d.ingress = 0
  <2>1. c.ingress > 0 \/ c.ingress = 0
    BY <1>2
  <2> QED BY <1>2, <1>4, <1>9, <2>1
<1> QED BY <1>1, <1>7, <1>8, <1>10, Zenon DEF DetectedLoop

\* drain_subnet_queues' inner loop over blocked messages.
LEMMA SkipAllOk ==
  ASSUME NEW c, CqOk(c), NEW n \in Nat,
         n >= Len(c.local), n >= Len(c.remote), n >= 1
  PROVE  Touring(c, SkipAll(c, 3 * n), 3 * n) /\ SkipAll(c, 3 * n).done
<1> DEFINE limit == 3 * n
<1>1. limit \in Nat
  OBVIOUS
<1>2. PICK run : SkipRun(run, c, limit)
  BY <1>1, SkipAllRun
<1>3. Touring(c, run[0], 0)
  BY <1>2, TourBegins DEF SkipRun
<1> DEFINE P == {i \in Nat : i <= limit => Touring(c, run[i], i)}
<1> HIDE DEF limit
<1>4. 0 \in P
  BY <1>3
<1>5. ASSUME NEW i \in Nat, i \in P PROVE i + 1 \in P
  <2> SUFFICES ASSUME i + 1 <= limit PROVE Touring(c, run[i + 1], i + 1)
    OBVIOUS
  <2>1. i <= limit /\ i + 1 \in 1 .. limit /\ (i + 1) - 1 = i
    BY <1>1
  <2>2. Touring(c, run[i], i)
    BY <1>5, <2>1
  <2>3. \A j \in 1 .. limit : run[j] = IF run[j - 1].done THEN run[j - 1] ELSE SkipBlocked(run[j - 1])
    BY <1>2, Zenon DEF SkipRun
  <2>4. run[i + 1] = IF run[i].done THEN run[i] ELSE SkipBlocked(run[i])
    <3>1. run[i + 1] = IF run[(i + 1) - 1].done THEN run[(i + 1) - 1]
                       ELSE SkipBlocked(run[(i + 1) - 1])
      BY <2>1, <2>3, Zenon
    <3> QED BY <2>1, <3>1, Zenon
  <2>5. CASE run[i].done
    <3>1. run[i + 1] = run[i]
      BY <2>4, <2>5, Zenon
    <3> QED BY <2>2, <2>5, <3>1, Zenon DEF Touring
  <2>6. CASE ~run[i].done
    <3>1. run[i + 1] = SkipBlocked(run[i])
      BY <2>4, <2>6, Zenon
    <3> QED BY <2>2, <2>6, <3>1, TourGoesOn
  <2> QED BY <2>5, <2>6
<1>6. limit \in P
  <2> HIDE DEF P
  <2> QED BY <1>1, <1>4, <1>5, NatSetInduction
<1>7. Touring(c, run[limit], limit)
  BY <1>1, <1>6
<1>8. run[limit] = SkipAll(c, limit)
  BY <1>2, Zenon DEF SkipRun
<1>9. Touring(c, SkipAll(c, limit), limit)
  BY <1>7, <1>8
<1>10. SkipAll(c, 3 * n).done
  BY <1>9, TourEnds DEF limit
<1> QED BY <1>9, <1>10 DEF limit

\* Every schedule visited from end to end.
LEMMA EndToEnd ==
  ASSUME NEW seen, NEW l \in Seq(Canisters), NEW n \in Nat, n >= Len(l), Toured(seen, l, n)
  PROVE  Range(l) \subseteq seen
<1>1. \A j \in 1 .. Len(l) : l[j] \in seen
  BY DEF Toured
<1>2. DOMAIN l = 1 .. Len(l)
  OBVIOUS
<1> QED BY <1>1, <1>2 DEF Range

\* drain_subnet_queues looks at the head of every queue before its loop detector
\* lets it give up on messages that have to wait, whatever the number of local and
\* remote senders; it gives up within three turns for each sender of the longer
\* schedule, and has then changed nothing but the order of the schedules.
THEOREM EverySenderSkipped ==
  Spec => []SkipsEverySender
<1>1. Inv => SkipsEverySender
  <2> SUFFICES ASSUME Inv PROVE SkipsEverySender
    OBVIOUS
  <2> DEFINE tours == Max({Len(cq.local), Len(cq.remote), 1})
             tour == SkipAll(cq, 3 * tours)
             t == tour.detector
  <2>1. /\ CqOk(cq) /\ cq.local \in Seq(Canisters) /\ cq.remote \in Seq(Canisters)
        /\ cq.ingress \in Nat
    BY DEF Inv, CqOk, ShapeOk, Once
  <2>2. /\ tours \in Nat /\ tours >= Len(cq.local) /\ tours >= Len(cq.remote) /\ tours >= 1
    <3>1. Len(cq.local) \in Nat /\ Len(cq.remote) \in Nat
      BY <2>1
    <3>2. \A a, b \in Nat : \E m \in {a, b, 1} : \A v \in {a, b, 1} : m >= v
      OBVIOUS
    <3>3. \E m \in {Len(cq.local), Len(cq.remote), 1} :
            \A v \in {Len(cq.local), Len(cq.remote), 1} : m >= v
      BY <3>1, <3>2
    <3>4. /\ tours \in {Len(cq.local), Len(cq.remote), 1}
          /\ \A v \in {Len(cq.local), Len(cq.remote), 1} : tours >= v
      BY <3>3, Zenon DEF Max
    <3> HIDE DEF tours
    <3> QED BY <3>1, <3>4
  <2> HIDE DEF tours
  <2>3. Touring(cq, tour, 3 * tours) /\ tour.done
    BY <2>1, <2>2, SkipAllOk
  <2> HIDE DEF tour
  <2>4. /\ Skipped(cq, tour.cq, t) /\ Looked(cq, t, tour.seen) /\ DetectedLoop(tour.cq, t)
    BY <2>3, Zenon DEF Touring
  <2> HIDE DEF t
  <2>5. /\ tour.cq.queues = cq.queues /\ tour.cq.ingress = cq.ingress
        /\ t.local \in Nat /\ t.remote \in Nat
        /\ Len(tour.cq.local) = Len(cq.local) /\ Range(tour.cq.local) = Range(cq.local)
        /\ Len(tour.cq.remote) = Len(cq.remote) /\ Range(tour.cq.remote) = Range(cq.remote)
    BY <2>4, Zenon DEF Skipped, Rotated
  <2>6. /\ t.local >= Len(cq.local) /\ t.remote >= Len(cq.remote)
        /\ t.ingress \/ cq.ingress = 0
    BY <2>4, <2>5, Zenon DEF DetectedLoop
  <2>7. /\ tour.seen \subseteq Heads(cq) /\ Toured(tour.seen, cq.local, t.local)
        /\ Toured(tour.seen, cq.remote, t.remote) /\ (t.ingress => "Ingress" \in tour.seen)
    BY <2>4, Zenon DEF Looked
  <2>8. Range(cq.local) \subseteq tour.seen /\ Range(cq.remote) \subseteq tour.seen
    BY <2>1, <2>5, <2>6, <2>7, EndToEnd
  <2>9. cq.ingress > 0 => "Ingress" \in tour.seen
    BY <2>1, <2>6, <2>7
  <2>10. tour.seen = Heads(cq)
    BY <2>7, <2>8, <2>9 DEF Heads
  <2> QED BY <2>3, <2>5, <2>10, Zenon DEF SkipsEverySender, Heads, tours, tour
<1> QED BY <1>1, SpecInv, PTL
=============================================================================
