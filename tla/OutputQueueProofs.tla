-------------------------- MODULE OutputQueueProofs --------------------------
(***************************************************************************)
(* Proofs about OutputQueue, for every capacity, request lifetime and      *)
(* bound on time and indices.                                              *)
(*                                                                         *)
(* The argument: QueueInvariants (what test_invariants checks) is not      *)
(* inductive.  A pop or a timeout discards ranges by comparing their ends  *)
(* with begin and timeout_index, so one must know that the ranges tell the *)
(* deadlines of the requests exactly (RangesMatchDeadlines); a push merges *)
(* its deadline into the last range, which is right only if no later       *)
(* deadline is there yet (DeadlinesBounded); and timeout_index must not    *)
(* run past the queue (TimeoutIndexInQueue).  Inv adds these to the        *)
(* properties.  Pop and StartRound first make a queue that is only         *)
(* Advanceable and then skip tombstones and consumed ranges; the lemmas    *)
(* about AdvanceToNextMessage say that this restores the invariants and    *)
(* keeps every message where it was.                                       *)
(***************************************************************************)
EXTENDS OutputQueue, FiniteSetTheorems, SequenceTheorems, WellFoundedInduction, TLAPS

\* A nonempty set of naturals has a least element.
LEMMA LeastNat ==
  ASSUME NEW T, T \subseteq Nat, T # {}
  PROVE  \E m \in T : \A k \in T : m <= k
<1> DEFINE R == OpToRel(<, Nat)
<1>1. IsWellFoundedOn(R, Nat)
  BY NatLessThanWellFounded
<1>2. \A x, y \in Nat : y < x => <<y, x>> \in R
  BY DEF OpToRel
<1> HIDE DEF R
<1>3. PICK m \in T : \A y \in T : ~ (<<y, m>> \in R)
  BY <1>1, WFMin, Zenon
<1>4. ASSUME NEW k \in T PROVE m <= k
  <2>1. ~ (k < m)
    BY <1>2, <1>3, <1>4
  <2> QED BY <2>1
<1> QED BY <1>4

\* There is a longest prefix of 1 .. N within a set.
LEMMA LongestPrefix ==
  ASSUME NEW N \in Nat, NEW T
  PROVE  \E n \in 0 .. N : /\ \A i \in 1 .. n : i \in T
                           /\ n < N => n + 1 \notin T
<1> DEFINE B == {i \in 1 .. N : i \notin T}
<1>1. CASE B = {}
  BY <1>1
<1>2. CASE B # {}
  <2>1. B \subseteq Nat
    OBVIOUS
  <2>2. \E m \in B : \A k \in B : m <= k
    <3> HIDE DEF B
    <3> QED BY <2>1, <1>2, LeastNat
  <2>3. PICK m \in B : \A k \in B : m <= k
    BY <2>2
  <2>4. m - 1 \in 0 .. N
    BY <2>3
  <2>5. \A i \in 1 .. (m - 1) : i \in T
    BY <2>3
  <2>6. (m - 1) + 1 \notin T
    BY <2>3
  <2> QED BY <2>4, <2>5, <2>6
<1> QED BY <1>1, <1>2

\* LeadingNones, the number of tombstones that advance_to_next_message pops,
\* is the length of the longest prefix of tombstones.
LEMMA LeadingNonesFacts ==
  ASSUME NEW S, NEW s \in Seq(S)
  PROVE  /\ LeadingNones(s) \in 0 .. Len(s)
         /\ \A i \in 1 .. LeadingNones(s) : s[i] = None
         /\ LeadingNones(s) < Len(s) => s[LeadingNones(s) + 1] # None
<1> DEFINE T == {i \in 1 .. Len(s) : s[i] = None}
<1>1. PICK n \in 0 .. Len(s) : /\ \A i \in 1 .. n : i \in T
                               /\ n < Len(s) => n + 1 \notin T
  <2> Len(s) \in Nat OBVIOUS
  <2> HIDE DEF T
  <2> QED BY LongestPrefix
<1>2. \E m \in 0 .. Len(s) : /\ \A i \in 1 .. m : s[i] = None
                             /\ m < Len(s) => s[m + 1] # None
  BY <1>1
<1> QED BY <1>2 DEF LeadingNones

\* The type of a deadline range.
Ranges == [deadline : Nat, end : Nat]

\* The fields of a deadline range are natural numbers.
LEMMA RangeFields ==
  ASSUME NEW r \in Seq(Ranges), NEW i \in 1 .. Len(r)
  PROVE  r[i].deadline \in Nat /\ r[i].end \in Nat
<1>1. r[i] \in Ranges
  BY ElementOfSeq
<1> QED BY <1>1 DEF Ranges

\* ConsumedRanges, the ranges that advance_to_next_message pops, is the longest
\* prefix of ranges that end at or before begin or timeout_index.
LEMMA ConsumedRangesFacts ==
  ASSUME NEW S, NEW r \in Seq(S), NEW b, NEW t
  PROVE  LET n == ConsumedRanges(r, b, t)
         IN  /\ n \in 0 .. Len(r)
             /\ \A i \in 1 .. n : r[i].end <= b \/ r[i].end <= t
             /\ n < Len(r) => ~(r[n + 1].end <= b \/ r[n + 1].end <= t)
<1> DEFINE T == {i \in 1 .. Len(r) : r[i].end <= b \/ r[i].end <= t}
<1>1. PICK n \in 0 .. Len(r) : /\ \A i \in 1 .. n : i \in T
                               /\ n < Len(r) => n + 1 \notin T
  <2> Len(r) \in Nat OBVIOUS
  <2> HIDE DEF T
  <2> QED BY LongestPrefix
<1>2. \E m \in 0 .. Len(r) :
        /\ \A i \in 1 .. m : r[i].end <= b \/ r[i].end <= t
        /\ m < Len(r) => ~(r[m + 1].end <= b \/ r[m + 1].end <= t)
  BY <1>1
<1> QED BY <1>2 DEF ConsumedRanges

\* ExpiredRanges, the ranges that TimedOutRequestsIter goes through, is the
\* longest prefix of ranges with a deadline that has been reached.
LEMMA ExpiredRangesFacts ==
  ASSUME NEW r \in Seq(Ranges), NEW time \in Nat
  PROVE  LET n == ExpiredRanges(r, time)
         IN  /\ n \in 0 .. Len(r)
             /\ \A i \in 1 .. n : r[i].deadline <= time
             /\ n < Len(r) => r[n + 1].deadline > time
<1> DEFINE T == {i \in 1 .. Len(r) : r[i].deadline <= time}
<1>1. PICK n \in 0 .. Len(r) : /\ \A i \in 1 .. n : i \in T
                               /\ n < Len(r) => n + 1 \notin T
  <2> Len(r) \in Nat OBVIOUS
  <2> HIDE DEF T
  <2> QED BY LongestPrefix
<1>2. \E m \in 0 .. Len(r) :
        /\ \A i \in 1 .. m : r[i].deadline <= time
        /\ m < Len(r) => r[m + 1].deadline > time
  <2>1. \A i \in 1 .. Len(r) : r[i].deadline \in Nat
    BY RangeFields
  <2>2. n < Len(r) => r[n + 1].deadline > time
    BY <1>1, <2>1
  <2> QED BY <1>1, <2>2
<1> QED BY <1>2 DEF ExpiredRanges

\* What dropping the first n elements of a sequence leaves.
LEMMA DropFacts ==
  ASSUME NEW S, NEW s \in Seq(S), NEW n \in 0 .. Len(s)
  PROVE  /\ Drop(s, n) \in Seq(S)
         /\ Len(Drop(s, n)) = Len(s) - n
         /\ \A i \in 1 .. (Len(s) - n) : Drop(s, n)[i] = s[n + i]
  BY DEF Drop

\* Skipping tombstones keeps every message, its absolute index included.
LEMMA AdvanceKeepsItems ==
  ASSUME NEW p \in QueueType
  PROVE  LET r == AdvanceToNextMessage(p)
         IN  /\ r \in QueueType
             /\ r.begin >= p.begin
             /\ QueueEnd(r) = QueueEnd(p)
             /\ \A k \in p.begin .. (r.begin - 1) : k \in Indices(p) /\ Item(p, k) = None
             /\ \A k \in Indices(r) : k \in Indices(p) /\ Item(r, k) = Item(p, k)
             /\ FrontIsMessage(r)
             /\ Len(r.queue) <= Len(p.queue)
             /\ r.num_slots_reserved = p.num_slots_reserved
             /\ r.timeout_index = p.timeout_index
             /\ r.num_messages = p.num_messages
<1> DEFINE skip  == LeadingNones(p.queue)
           begin == p.begin + skip
           gone  == ConsumedRanges(p.deadline_range_ends, begin, p.timeout_index)
           r     == AdvanceToNextMessage(p)
<1>1. /\ p.queue \in Seq(Messages \cup {None})
      /\ p.deadline_range_ends \in Seq([deadline : Nat, end : Nat])
      /\ p.begin \in Nat
  BY DEF QueueType
<1>2. /\ skip \in 0 .. Len(p.queue)
      /\ \A i \in 1 .. skip : p.queue[i] = None
      /\ skip < Len(p.queue) => p.queue[skip + 1] # None
  BY <1>1, LeadingNonesFacts
<1>3. gone \in 0 .. Len(p.deadline_range_ends)
  <2> HIDE DEF begin
  <2> QED BY <1>1, ConsumedRangesFacts
<1>4. r = [p EXCEPT !.queue = Drop(p.queue, skip),
                    !.begin = begin,
                    !.deadline_range_ends = Drop(p.deadline_range_ends, gone)]
  BY DEF AdvanceToNextMessage
<1> HIDE DEF skip, gone, r
<1>5. /\ Drop(p.queue, skip) \in Seq(Messages \cup {None})
      /\ Len(Drop(p.queue, skip)) = Len(p.queue) - skip
      /\ \A i \in 1 .. (Len(p.queue) - skip) : Drop(p.queue, skip)[i] = p.queue[skip + i]
  BY <1>1, <1>2, DropFacts
<1>6. Drop(p.deadline_range_ends, gone) \in Seq([deadline : Nat, end : Nat])
  BY <1>1, <1>3, DropFacts
<1>7. /\ r.queue = Drop(p.queue, skip)
      /\ r.begin = p.begin + skip
      /\ r.deadline_range_ends = Drop(p.deadline_range_ends, gone)
      /\ r.num_slots_reserved = p.num_slots_reserved
      /\ r.timeout_index = p.timeout_index
      /\ r.num_messages = p.num_messages
  BY <1>4 DEF QueueType
<1>8. r \in QueueType
  <2>1. r = [queue |-> Drop(p.queue, skip),
             num_slots_reserved |-> p.num_slots_reserved,
             begin |-> begin,
             deadline_range_ends |-> Drop(p.deadline_range_ends, gone),
             timeout_index |-> p.timeout_index,
             num_messages |-> p.num_messages]
    BY <1>4 DEF QueueType
  <2>2. begin \in Nat /\ p.num_slots_reserved \in Nat /\ p.timeout_index \in Nat
        /\ p.num_messages \in Nat
    BY <1>1, <1>2 DEF QueueType
  <2> QED BY <2>1, <2>2, <1>5, <1>6 DEF QueueType
<1>9. r.begin >= p.begin /\ QueueEnd(r) = QueueEnd(p) /\ Len(r.queue) <= Len(p.queue)
  BY <1>1, <1>2, <1>5, <1>7 DEF QueueEnd
<1>10. \A k \in p.begin .. (r.begin - 1) : k \in Indices(p) /\ Item(p, k) = None
  BY <1>1, <1>2, <1>7 DEF Indices, QueueEnd, Item
<1>11. \A k \in Indices(r) : k \in Indices(p) /\ Item(r, k) = Item(p, k)
  <2> SUFFICES ASSUME NEW k \in Indices(r)
               PROVE  k \in Indices(p) /\ Item(r, k) = Item(p, k)
    OBVIOUS
  <2>1. k \in p.begin + skip .. (p.begin + Len(p.queue) - 1)
    BY <1>1, <1>2, <1>5, <1>7, SMTT(20) DEF Indices, QueueEnd
  <2>2. k - (p.begin + skip) + 1 \in 1 .. (Len(p.queue) - skip)
    BY <2>1, <1>1, <1>2
  <2>3. r.queue[k - r.begin + 1] = p.queue[skip + (k - (p.begin + skip) + 1)]
    BY <2>2, <1>5, <1>7
  <2>4. skip + (k - (p.begin + skip) + 1) = k - p.begin + 1
    BY <2>1, <1>1, <1>2
  <2>5. k \in p.begin .. (p.begin + Len(p.queue) - 1)
    BY <2>1, <1>1, <1>2
  <2>6. k \in Indices(p)
    BY <2>5, <1>1 DEF Indices, QueueEnd
  <2>7. Item(r, k) = Item(p, k)
    BY <2>3, <2>4 DEF Item
  <2> QED BY <2>6, <2>7
<1>12. FrontIsMessage(r)
  BY <1>2, <1>5, <1>7, <1>1 DEF FrontIsMessage
<1> QED BY <1>7, <1>8, <1>9, <1>10, <1>11, <1>12 DEF r

\* The deadline ranges that skipping tombstones discards are consumed.
LEMMA AdvanceRanges ==
  ASSUME NEW p \in QueueType
  PROVE  LET r == AdvanceToNextMessage(p)
         IN  \E g \in 0 .. Len(p.deadline_range_ends) :
               /\ r.deadline_range_ends = Drop(p.deadline_range_ends, g)
               /\ \A i \in 1 .. g : \/ p.deadline_range_ends[i].end <= r.begin
                                    \/ p.deadline_range_ends[i].end <= p.timeout_index
               /\ g < Len(p.deadline_range_ends) =>
                    ~ \/ p.deadline_range_ends[g + 1].end <= r.begin
                      \/ p.deadline_range_ends[g + 1].end <= p.timeout_index
<1> DEFINE ranges == p.deadline_range_ends
           begin == p.begin + LeadingNones(p.queue)
           gone == ConsumedRanges(ranges, begin, p.timeout_index)
           r == AdvanceToNextMessage(p)
<1>1. r.begin = begin /\ r.deadline_range_ends = Drop(ranges, gone)
  BY DEF AdvanceToNextMessage, QueueType
<1>2. ranges \in Seq(Ranges)
  BY DEF QueueType, Ranges
<1>3. /\ gone \in 0 .. Len(ranges)
      /\ \A i \in 1 .. gone : ranges[i].end <= begin \/ ranges[i].end <= p.timeout_index
      /\ gone < Len(ranges) => ~(\/ ranges[gone + 1].end <= begin
                                 \/ ranges[gone + 1].end <= p.timeout_index)
  <2> HIDE DEF begin, ranges
  <2> QED BY <1>2, ConsumedRangesFacts
<1> HIDE DEF begin, gone, r, ranges
<1>4. \E g \in 0 .. Len(ranges) :
        /\ r.deadline_range_ends = Drop(ranges, g)
        /\ \A i \in 1 .. g : ranges[i].end <= r.begin \/ ranges[i].end <= p.timeout_index
        /\ g < Len(ranges) => ~(\/ ranges[g + 1].end <= r.begin
                                \/ ranges[g + 1].end <= p.timeout_index)
  BY <1>1, <1>3
<1> QED BY <1>4 DEF r, ranges

\* Skipping tombstones (advance_to_next_message) loses no message.
LEMMA AdvanceLive ==
  ASSUME NEW p \in QueueType
  PROVE  Live(AdvanceToNextMessage(p)) = Live(p)
<1> DEFINE r == AdvanceToNextMessage(p)
<1>1. /\ r.begin \in Nat /\ p.begin \in Nat
      /\ QueueEnd(r) \in Nat
  BY AdvanceKeepsItems DEF QueueType, QueueEnd
<1>2. /\ r.begin >= p.begin
      /\ QueueEnd(r) = QueueEnd(p)
      /\ \A k \in p.begin .. (r.begin - 1) : Item(p, k) = None
      /\ \A k \in Indices(r) : k \in Indices(p) /\ Item(r, k) = Item(p, k)
  BY AdvanceKeepsItems
<1> HIDE DEF r
<1>3. \A k \in Indices(p) : k \in Indices(r) \/ k \in p.begin .. (r.begin - 1)
  BY <1>1, <1>2 DEF Indices
<1>4. Live(r) = Live(p)
  BY <1>2, <1>3 DEF Live
<1> QED BY <1>4 DEF r

\* What must hold of a queue whose tombstones and ranges are yet to be
\* cleaned up.
Advanceable(p) ==
  /\ RangesSorted(p)
  /\ \A i \in 1 .. Len(p.deadline_range_ends) :
       p.deadline_range_ends[i].end <= QueueEnd(p)
  /\ NoRequestBeforeTimeoutIndex(p)
  /\ MessageCountOk(p)
  /\ DeadlinesMatch(p)

\* advance_to_next_message makes an Advanceable queue satisfy test_invariants and
\* keeps the ranges exact.
LEMMA AdvanceRestoresInvariants ==
  ASSUME NEW p \in QueueType, Advanceable(p)
  PROVE  LET r == AdvanceToNextMessage(p)
         IN  /\ TestInvariants(r)
             /\ DeadlinesMatch(r)
             /\ \A j \in 1 .. Len(r.deadline_range_ends) :
                  \E i \in 1 .. Len(p.deadline_range_ends) :
                    r.deadline_range_ends[j] = p.deadline_range_ends[i]
<1> DEFINE r  == AdvanceToNextMessage(p)
           ps == p.deadline_range_ends
           rs == r.deadline_range_ends
<1>1. /\ r \in QueueType
      /\ r.begin \in Nat /\ p.timeout_index \in Nat /\ QueueEnd(r) \in Nat
      /\ QueueEnd(r) = QueueEnd(p)
      /\ \A k \in Indices(r) : k \in Indices(p) /\ Item(r, k) = Item(p, k)
      /\ FrontIsMessage(r)
      /\ r.timeout_index = p.timeout_index
      /\ r.num_messages = p.num_messages
  BY AdvanceKeepsItems DEF QueueType, QueueEnd
<1>2. ps \in Seq(Ranges)
  BY DEF QueueType, Ranges
<1>3. PICK g \in 0 .. Len(ps) :
        /\ rs = Drop(ps, g)
        /\ \A i \in 1 .. g : ps[i].end <= r.begin \/ ps[i].end <= p.timeout_index
        /\ g < Len(ps) => ~(ps[g + 1].end <= r.begin \/ ps[g + 1].end <= p.timeout_index)
  BY AdvanceRanges
<1>4. Live(r) = Live(p)
  BY AdvanceLive
<1> HIDE DEF r, ps
<1>5. /\ Len(rs) = Len(ps) - g
      /\ \A j \in 1 .. Len(rs) : g + j \in 1 .. Len(ps) /\ rs[j] = ps[g + j]
  BY <1>2, <1>3, DropFacts
<1>6. \A i \in 1 .. Len(ps) : ps[i].end \in Nat /\ ps[i].deadline \in Nat
  BY <1>2, RangeFields
<1>7. /\ \A i, j \in 1 .. Len(ps) :
           i < j => ps[i].deadline < ps[j].deadline /\ ps[i].end < ps[j].end
      /\ \A i \in 1 .. Len(ps) : ps[i].end <= QueueEnd(p)
  BY DEF Advanceable, RangesSorted, ps
<1>8. RangesSorted(r)
  <2> SUFFICES ASSUME NEW i \in 1 .. Len(rs), NEW j \in 1 .. Len(rs), i < j
               PROVE  rs[i].deadline < rs[j].deadline /\ rs[i].end < rs[j].end
    BY DEF RangesSorted
  <2>1. /\ g + i \in 1 .. Len(ps) /\ rs[i] = ps[g + i]
        /\ g + j \in 1 .. Len(ps) /\ rs[j] = ps[g + j]
    BY <1>5
  <2>2. g + i < g + j
    BY <1>3
  <2> QED BY <2>1, <2>2, <1>7
<1>9. RangesInQueue(r)
  <2> SUFFICES ASSUME NEW j \in 1 .. Len(rs)
               PROVE  rs[j].end > r.begin /\ rs[j].end > r.timeout_index
                      /\ rs[j].end <= QueueEnd(r)
    BY DEF RangesInQueue
  <2>1. g < Len(ps) /\ g + 1 \in 1 .. Len(ps)
    BY <1>5, <1>2
  <2>2. ps[g + 1].end > r.begin /\ ps[g + 1].end > p.timeout_index
    BY <2>1, <1>3, <1>1, <1>6
  <2>3. ps[g + 1].end <= ps[g + j].end
    BY <2>1, <1>5, <1>6, <1>7
  <2>4. g + j \in 1 .. Len(ps) /\ rs[j] = ps[g + j]
    BY <1>5
  <2>5. ps[g + j].end \in Nat /\ ps[g + 1].end \in Nat /\ ps[g + j].end <= QueueEnd(p)
    BY <2>1, <2>4, <1>6, <1>7
  <2>6. ps[g + j].end > r.begin /\ ps[g + j].end > p.timeout_index
    BY <2>2, <2>3, <2>5, <1>1, SMTT(20)
  <2> QED BY <2>4, <2>5, <2>6, <1>1
<1>10. NoRequestBeforeTimeoutIndex(r)
  BY <1>1 DEF Advanceable, NoRequestBeforeTimeoutIndex
<1>11. MessageCountOk(r)
  BY <1>1, <1>4 DEF Advanceable, MessageCountOk
<1>12. DeadlinesMatch(r)
  <2> SUFFICES ASSUME NEW k \in Indices(r), IsRequest(Item(r, k))
               PROVE  /\ \E j \in 1 .. Len(rs) :
                           k < rs[j].end /\ rs[j].deadline <= Item(r, k).due
                      /\ \A j \in 1 .. Len(rs) :
                           k < rs[j].end => Item(r, k).due <= rs[j].deadline
    BY DEF DeadlinesMatch
  <2>1. k \in Indices(p) /\ Item(r, k) = Item(p, k)
    BY <1>1
  <2>2. /\ \E i \in 1 .. Len(ps) : k < ps[i].end /\ ps[i].deadline <= Item(p, k).due
        /\ \A i \in 1 .. Len(ps) : k < ps[i].end => Item(p, k).due <= ps[i].deadline
    BY <2>1 DEF Advanceable, DeadlinesMatch, ps
  <2>3. PICK i \in 1 .. Len(ps) : k < ps[i].end /\ ps[i].deadline <= Item(p, k).due
    BY <2>2
  <2>4. k >= r.begin /\ k >= p.timeout_index /\ k \in Int
    <3>1. k \in Int /\ k >= r.begin
      BY <1>1 DEF Indices
    <3>2. ~(k < p.timeout_index)
      BY <2>1 DEF Advanceable, NoRequestBeforeTimeoutIndex
    <3> QED BY <3>1, <3>2, <1>1
  <2>5. i > g
    BY <2>3, <2>4, <1>3, <1>6, <1>1
  <2>6. i - g \in 1 .. Len(rs) /\ rs[i - g] = ps[i]
    BY <2>5, <1>5, <1>2
  <2> QED BY <2>1, <2>2, <2>3, <2>6, <1>5
<1> QED
  <2>1. TestInvariants(r)
    BY <1>1, <1>8, <1>9, <1>10, <1>11 DEF TestInvariants
  <2> QED BY <2>1, <1>12, <1>5 DEF r, ps

-----------------------------------------------------------------------------

\* Types of the parts of a queue.
LEMMA QueueFields ==
  ASSUME NEW p \in QueueType
  PROVE  /\ p.queue \in Seq(Messages \cup {None})
         /\ Len(p.queue) \in Nat
         /\ p.num_slots_reserved \in Nat
         /\ p.begin \in Nat
         /\ p.deadline_range_ends \in Seq(Ranges)
         /\ Len(p.deadline_range_ends) \in Nat
         /\ p.timeout_index \in Nat
         /\ p.num_messages \in Nat
         /\ QueueEnd(p) \in Nat
         /\ p.begin <= QueueEnd(p)
  BY DEF QueueType, Ranges, QueueEnd

\* Types of the fields of a queue.
HasFieldTypes(p) ==
  /\ p.queue \in Seq(Messages \cup {None})
  /\ p.num_slots_reserved \in Nat
  /\ p.begin \in Nat
  /\ p.deadline_range_ends \in Seq(Ranges)
  /\ p.timeout_index \in Nat
  /\ p.num_messages \in Nat

\* A record with the fields of a queue, of the right types, is a queue.
LEMMA MakeQueue ==
  ASSUME NEW p, HasFieldTypes(p),
         p = [queue |-> p.queue, num_slots_reserved |-> p.num_slots_reserved,
              begin |-> p.begin, deadline_range_ends |-> p.deadline_range_ends,
              timeout_index |-> p.timeout_index, num_messages |-> p.num_messages]
  PROVE  p \in QueueType
<1>1. /\ p.queue \in Seq(Messages \cup {None}) /\ p.num_slots_reserved \in Nat
      /\ p.begin \in Nat /\ p.deadline_range_ends \in Seq([deadline : Nat, end : Nat])
      /\ p.timeout_index \in Nat /\ p.num_messages \in Nat
  BY DEF HasFieldTypes, Ranges
<1>2. \A a \in Seq(Messages \cup {None}), b \in Nat, c \in Nat,
        d \in Seq([deadline : Nat, end : Nat]), e \in Nat, f \in Nat :
        [queue |-> a, num_slots_reserved |-> b, begin |-> c, deadline_range_ends |-> d,
         timeout_index |-> e, num_messages |-> f] \in QueueType
  BY DEF QueueType
<1>3. ASSUME NEW a, NEW b, NEW c, NEW d, NEW e, NEW f,
             /\ p.queue = a /\ p.num_slots_reserved = b /\ p.begin = c
             /\ p.deadline_range_ends = d /\ p.timeout_index = e /\ p.num_messages = f
      PROVE  p \in QueueType
  <2>1. p = [queue |-> a, num_slots_reserved |-> b, begin |-> c, deadline_range_ends |-> d,
             timeout_index |-> e, num_messages |-> f]
    BY <1>3
  <2> QED BY <2>1, <1>1, <1>2, <1>3
<1> QED BY <1>3

\* A queue has finitely many messages.
LEMMA LiveIsFinite ==
  ASSUME NEW p \in QueueType
  PROVE  IsFiniteSet(Live(p)) /\ Cardinality(Live(p)) \in Nat
<1>1. IsFiniteSet(Indices(p))
  BY QueueFields, FS_Interval DEF Indices
<1>2. Live(p) \subseteq Indices(p)
  BY DEF Live
<1> QED BY <1>1, <1>2, FS_Subset, FS_CardinalityType

\* A request is a message, not a tombstone, and has the deadline given.
LEMMA RequestIsMessage ==
  ASSUME NEW due \in Nat
  PROVE  /\ Request(due) \in Messages /\ Request(due) # None
         /\ IsRequest(Request(due)) /\ Request(due).due = due
  BY NoneAssumption DEF Request, Messages, IsRequest

\* A response is a message and neither a tombstone nor a request.
LEMMA ResponseIsMessage ==
  Response \in Messages /\ Response # None /\ ~IsRequest(Response)
  BY NoneAssumption DEF Response, Messages, IsRequest

\* Absolute indices of a queue are positions of its sequence.
LEMMA PositionInQueue ==
  ASSUME NEW p \in QueueType, NEW k \in Indices(p)
  PROVE  /\ k - p.begin + 1 \in 1 .. Len(p.queue)
         /\ k \in Nat /\ p.begin <= k /\ k < QueueEnd(p)
         /\ Item(p, k) \in Messages \cup {None}
<1>1. k - p.begin + 1 \in 1 .. Len(p.queue) /\ k \in Nat /\ p.begin <= k /\ k < QueueEnd(p)
  BY QueueFields DEF Indices, QueueEnd
<1> QED BY <1>1, QueueFields, ElementOfSeq DEF Item

\* Deadlines of queued requests are natural numbers.
LEMMA ItemDue ==
  ASSUME NEW p \in QueueType, NEW k \in Indices(p), IsRequest(Item(p, k))
  PROVE  Item(p, k).due \in Nat
<1>1. Item(p, k) \in Messages \cup {None}
  BY PositionInQueue
<1> QED BY <1>1 DEF IsRequest, Messages

\* A push adds one message at the end.
LEMMA PushItems ==
  ASSUME NEW p \in QueueType, NEW r \in QueueType, NEW msg \in Messages,
         r.queue = Append(p.queue, msg), r.begin = p.begin
  PROVE  /\ Len(r.queue) = Len(p.queue) + 1
         /\ QueueEnd(r) = QueueEnd(p) + 1
         /\ Indices(r) = Indices(p) \cup {QueueEnd(p)}
         /\ QueueEnd(p) \notin Indices(p)
         /\ Item(r, QueueEnd(p)) = msg
         /\ \A k \in Indices(p) : Item(r, k) = Item(p, k)
         /\ Cardinality(Live(r)) = Cardinality(Live(p)) + 1
         /\ FrontIsMessage(p) => FrontIsMessage(r)
<1> USE QueueFields
<1>1. /\ Len(r.queue) = Len(p.queue) + 1
      /\ \A i \in 1 .. Len(p.queue) : r.queue[i] = p.queue[i]
      /\ r.queue[Len(p.queue) + 1] = msg
  BY AppendProperties
<1>2. QueueEnd(r) = QueueEnd(p) + 1
  BY <1>1 DEF QueueEnd
<1>3. /\ Indices(r) = Indices(p) \cup {QueueEnd(p)}
      /\ QueueEnd(p) \notin Indices(p)
  BY <1>2 DEF Indices
<1>4. Item(r, QueueEnd(p)) = msg
  BY <1>1 DEF Item, QueueEnd
<1>5. ASSUME NEW k \in Indices(p) PROVE Item(r, k) = Item(p, k)
  <2>1. k - p.begin + 1 \in 1 .. Len(p.queue)
    BY PositionInQueue
  <2> QED BY <1>1, <2>1 DEF Item
<1>6. msg # None
  BY NoneAssumption
<1>7. Live(r) = Live(p) \cup {QueueEnd(p)} /\ QueueEnd(p) \notin Live(p)
  BY <1>3, <1>4, <1>5, <1>6 DEF Live
<1>8. Cardinality(Live(r)) = Cardinality(Live(p)) + 1
  BY <1>7, LiveIsFinite, FS_AddElement
<1>9. FrontIsMessage(p) => FrontIsMessage(r)
  <2>1. CASE Len(p.queue) = 0
    BY <2>1, <1>1, <1>6 DEF FrontIsMessage
  <2>2. CASE Len(p.queue) # 0
    BY <2>2, <1>1 DEF FrontIsMessage
  <2> QED BY <2>1, <2>2
<1> QED BY <1>1, <1>2, <1>3, <1>4, <1>5, <1>8, <1>9

\* timeout_index does not run past the end of the queue.
TimeoutIndexInQueue == q.timeout_index <= QueueEnd(q)

\* No range has a deadline later than that of a request made now.
DeadlinesBounded ==
  \A j \in 1 .. Len(q.deadline_range_ends) :
    q.deadline_range_ends[j].deadline <= now + REQUEST_LIFETIME

\* The inductive invariant.
Inv ==
  /\ TypeOK
  /\ QueueInvariants
  /\ RangesMatchDeadlines
  /\ NoOverdueRequest
  /\ TimeoutIndexInQueue
  /\ DeadlinesBounded

\* A new OutputQueue satisfies the inductive invariant.
LEMMA InitInv == Init => Inv
<1> SUFFICES ASSUME Init PROVE Inv
  OBVIOUS
<1>1. q \in QueueType /\ now \in Nat
  BY DEF Init, NewOutputQueue, QueueType
<1>2. /\ q.queue = <<>> /\ q.deadline_range_ends = <<>> /\ q.begin = 0
      /\ q.timeout_index = 0 /\ q.num_messages = 0 /\ q.num_slots_reserved = 0
  BY DEF Init, NewOutputQueue
<1>3. QueueEnd(q) = 0 /\ Indices(q) = {} /\ Live(q) = {}
  BY <1>2 DEF QueueEnd, Indices, Live
<1>4. QueueInvariants
  <2>1. Cardinality(Live(q)) = 0
    BY <1>3, FS_EmptySet
  <2> QED
    BY <1>2, <1>3, <2>1, QueueCapacityAssumption
    DEF QueueInvariants, TestInvariants, CheckSize, UsedSlots, FrontIsMessage, RangesSorted,
        RangesInQueue, NoRequestBeforeTimeoutIndex, MessageCountOk
<1> QED
  BY <1>1, <1>2, <1>3, <1>4
  DEF Inv, TypeOK, RangesMatchDeadlines, DeadlinesMatch, NoOverdueRequest, TimeoutIndexInQueue,
      DeadlinesBounded

\* The message at k is still in the queue after the step, unchanged.
Kept(k) == k \in Live(q') /\ Item(q', k) = Item(q, k)

-----------------------------------------------------------------------------

\* OutputQueue::push_request preserves the invariant and every queued message.
LEMMA PushOutputRequestInv ==
  ASSUME Inv, PushOutputRequest
  PROVE  Inv' /\ \A k \in Live(q) : Kept(k)
<1> DEFINE d  == now + REQUEST_LIFETIME
           r  == q.deadline_range_ends
           n  == Len(r)
           r2 == q'.deadline_range_ends
<1>1. /\ q \in QueueType /\ now \in Nat /\ now' = now /\ d \in Nat
      /\ d > now
  BY OutputQueueAssumption DEF Inv, TypeOK, PushOutputRequest
<1>2. /\ q'.queue = Append(q.queue, Request(d))
      /\ q'.begin = q.begin
      /\ q'.num_slots_reserved = q.num_slots_reserved
      /\ q'.timeout_index = q.timeout_index
      /\ q'.num_messages = q.num_messages + 1
      /\ r2 = IF n > 0 /\ r[n].deadline >= d
               THEN [r EXCEPT ![n] = [deadline |-> r[n].deadline, end |-> QueueEnd(q) + 1]]
               ELSE Append(r, [deadline |-> d, end |-> QueueEnd(q) + 1])
      /\ q' = [queue |-> q'.queue, num_slots_reserved |-> q'.num_slots_reserved,
               begin |-> q'.begin, deadline_range_ends |-> q'.deadline_range_ends,
               timeout_index |-> q'.timeout_index, num_messages |-> q'.num_messages]
  BY <1>1 DEF PushOutputRequest, PushRequest, QueueType
<1>3. /\ q.queue \in Seq(Messages \cup {None}) /\ r \in Seq(Ranges)
      /\ q.begin \in Nat /\ QueueEnd(q) \in Nat /\ n \in Nat
      /\ Len(q.queue) \in Nat /\ q.num_slots_reserved \in Nat
      /\ q.num_messages \in Nat /\ q.timeout_index \in Nat /\ q.begin <= QueueEnd(q)
  BY <1>1, QueueFields
<1>4. \A j \in 1 .. n : r[j].deadline \in Nat /\ r[j].end \in Nat
  BY <1>3, RangeFields
<1>5. Request(d) \in Messages /\ IsRequest(Request(d)) /\ Request(d).due = d
  BY <1>1, RequestIsMessage
<1>6. \A j \in 1 .. n : r[j].deadline <= d /\ r[j].end <= QueueEnd(q)
  BY DEF Inv, DeadlinesBounded, QueueInvariants, TestInvariants, RangesInQueue
<1>7. \A i, j \in 1 .. n : i < j => r[i].deadline < r[j].deadline /\ r[i].end < r[j].end
  BY DEF Inv, QueueInvariants, TestInvariants, RangesSorted
\* Both ways of recording the deadline leave the same kind of list: the last
\* range is that of the new request, the ranges before it are old ones with
\* earlier deadlines.
<1>8. \E m \in Nat \ {0} :
        /\ r2 \in Seq(Ranges) /\ Len(r2) = m /\ (m = n \/ m = n + 1)
        /\ r2[m].deadline = d /\ r2[m].end = QueueEnd(q) + 1
        /\ \A j \in 1 .. (m - 1) : j \in 1 .. n /\ r2[j] = r[j] /\ r[j].deadline < d
        /\ m = n => r[n].deadline = d
  <2>1. CASE n > 0 /\ r[n].deadline >= d
    <3>1. r[n].deadline = d
      BY <2>1, <1>1, <1>3, <1>4, <1>6, SMTT(20)
    <3>2. [deadline |-> r[n].deadline, end |-> QueueEnd(q) + 1] \in Ranges
      BY <3>1, <1>1, <1>3 DEF Ranges
    <3>3. /\ r2 \in Seq(Ranges) /\ Len(r2) = n
          /\ r2[n] = [deadline |-> r[n].deadline, end |-> QueueEnd(q) + 1]
          /\ \A j \in 1 .. (n - 1) : r2[j] = r[j]
      BY <2>1, <3>2, <1>2, <1>3, ExceptSeq
    <3>4. \A j \in 1 .. (n - 1) : j \in 1 .. n /\ r[j].deadline < d
      BY <2>1, <3>1, <1>3, <1>7
    <3>5. n \in Nat \ {0}
      BY <2>1, <1>3
    <3> QED BY <3>1, <3>3, <3>4, <3>5, SMTT(20)
  <2>2. CASE ~(n > 0 /\ r[n].deadline >= d)
    <3>1. [deadline |-> d, end |-> QueueEnd(q) + 1] \in Ranges
      BY <1>1, <1>3 DEF Ranges
    <3>2. /\ r2 \in Seq(Ranges) /\ Len(r2) = n + 1
          /\ r2[n + 1] = [deadline |-> d, end |-> QueueEnd(q) + 1]
          /\ \A j \in 1 .. n : r2[j] = r[j]
      BY <2>2, <3>1, <1>2, <1>3, AppendProperties
    <3>3. ASSUME NEW j \in 1 .. n PROVE r[j].deadline < d
      <4>1. n \in 1 .. n /\ r[n].deadline < d /\ n > 0
        BY <2>2, <1>1, <1>3, <1>4, SMTT(20)
      <4>2. j = n \/ r[j].deadline < r[n].deadline
        BY <4>1, <1>3, <1>7
      <4> QED BY <4>1, <4>2, <1>1, <1>4
    <3>4. (n + 1) - 1 = n /\ n + 1 \in Nat \ {0} /\ n + 1 # n
      BY <1>3
    <3> QED BY <3>2, <3>3, <3>4
  <2> QED BY <2>1, <2>2
<1>9. PICK m \in Nat \ {0} :
        /\ r2 \in Seq(Ranges) /\ Len(r2) = m /\ (m = n \/ m = n + 1)
        /\ r2[m].deadline = d /\ r2[m].end = QueueEnd(q) + 1
        /\ \A j \in 1 .. (m - 1) : j \in 1 .. n /\ r2[j] = r[j] /\ r[j].deadline < d
        /\ m = n => r[n].deadline = d
  BY <1>8
<1>10. q' \in QueueType
  <2>1. q'.queue \in Seq(Messages \cup {None})
    BY <1>2, <1>3, <1>5
  <2>2. q'.num_messages \in Nat
    BY <1>2, <1>3
  <2> HIDE DEF r, n, d
  <2>3. HasFieldTypes(q')
    BY <2>1, <2>2, <1>2, <1>3, <1>9 DEF HasFieldTypes
  <2> QED BY <1>2, <2>3, MakeQueue
<1> HIDE DEF d, r, n, r2
<1>11. /\ Len(q'.queue) = Len(q.queue) + 1
       /\ QueueEnd(q') = QueueEnd(q) + 1
       /\ Indices(q') = Indices(q) \cup {QueueEnd(q)}
       /\ Item(q', QueueEnd(q)) = Request(d)
       /\ \A k \in Indices(q) : Item(q', k) = Item(q, k)
       /\ Cardinality(Live(q')) = Cardinality(Live(q)) + 1
       /\ FrontIsMessage(q')
  BY <1>1, <1>2, <1>5, <1>10, PushItems DEF Inv, QueueInvariants, TestInvariants
<1>12. \A k \in Indices(q) : k \in Int /\ k < QueueEnd(q) /\ q.begin <= k
  BY <1>3 DEF Indices
<1>13. RangesSorted(q')
  <2> SUFFICES ASSUME NEW i \in 1 .. m, NEW j \in 1 .. m, i < j
               PROVE  r2[i].deadline < r2[j].deadline /\ r2[i].end < r2[j].end
    BY <1>9 DEF RangesSorted, r2
  <2>1. i \in 1 .. (m - 1)
    BY <1>9
  <2>2. CASE j = m
    <3>1. r2[i] = r[i] /\ r[i].deadline < d /\ r[i].end <= QueueEnd(q) /\ r[i].end \in Nat
      BY <2>1, <1>4, <1>6, <1>9
    <3> QED BY <3>1, <2>2, <1>3, <1>9
  <2>3. CASE j # m
    BY <2>1, <2>3, <1>7, <1>9
  <2> QED BY <2>2, <2>3
<1>14. RangesInQueue(q')
  <2> SUFFICES ASSUME NEW j \in 1 .. m
               PROVE  /\ r2[j].end > q.begin /\ r2[j].end > q.timeout_index
                      /\ r2[j].end <= QueueEnd(q) + 1
    BY <1>2, <1>9, <1>11 DEF RangesInQueue, r2
  <2>1. CASE j = m
    BY <2>1, <1>3, <1>9 DEF Inv, TimeoutIndexInQueue
  <2>2. CASE j # m
    <3>1. j \in 1 .. n /\ r2[j] = r[j]
      BY <2>2, <1>9
    <3> QED
      BY <3>1, <1>3, <1>4 DEF Inv, QueueInvariants, TestInvariants, RangesInQueue, r, n
  <2> QED BY <2>1, <2>2
<1>15. NoRequestBeforeTimeoutIndex(q')
  BY <1>2, <1>3, <1>11
  DEF Inv, QueueInvariants, TestInvariants, NoRequestBeforeTimeoutIndex, TimeoutIndexInQueue
<1>16. MessageCountOk(q') /\ CheckSize(q')
  <2>1. MessageCountOk(q')
    BY <1>2, <1>11 DEF Inv, QueueInvariants, TestInvariants, MessageCountOk
  <2>2. UsedSlots(q) < DEFAULT_QUEUE_CAPACITY
    BY DEF PushOutputRequest, CheckHasSlot
  <2> QED BY <2>1, <2>2, <1>2, <1>3, <1>11, QueueCapacityAssumption, SMTT(20) DEF CheckSize, UsedSlots
<1>17. DeadlinesMatch(q')
  <2> SUFFICES ASSUME NEW k \in Indices(q'), IsRequest(Item(q', k))
               PROVE  /\ \E j \in 1 .. m : k < r2[j].end /\ r2[j].deadline <= Item(q', k).due
                      /\ \A j \in 1 .. m : k < r2[j].end => Item(q', k).due <= r2[j].deadline
    BY <1>9 DEF DeadlinesMatch, r2
  <2>1. CASE k = QueueEnd(q)
    <3>1. Item(q', k).due = d
      BY <2>1, <1>5, <1>11
    <3>2. \A j \in 1 .. (m - 1) : ~(k < r2[j].end)
      BY <2>1, <1>3, <1>4, <1>6, <1>9
    <3>3. k < r2[m].end
      BY <2>1, <1>3, <1>9
    <3> QED BY <3>1, <3>2, <3>3, <1>1, <1>9
  <2>2. CASE k # QueueEnd(q)
    <3>1. k \in Indices(q) /\ Item(q', k) = Item(q, k) /\ k < QueueEnd(q) /\ k \in Int
      BY <2>2, <1>11, <1>12
    <3>2. /\ \E j \in 1 .. n : k < r[j].end /\ r[j].deadline <= Item(q, k).due
          /\ \A j \in 1 .. n : k < r[j].end => Item(q, k).due <= r[j].deadline
      BY <3>1 DEF Inv, RangesMatchDeadlines, DeadlinesMatch, r, n
    <3>3. PICK i \in 1 .. n : k < r[i].end /\ r[i].deadline <= Item(q, k).due
      BY <3>2
    <3>4. k < r2[m].end
      BY <3>1, <1>3, <1>9
    <3>5. Item(q, k).due = r[i].deadline
      <4>1. Item(q, k).due <= r[i].deadline
        BY <3>2, <3>3
      <4>2. Item(q, k).due \in Nat
        BY <3>1, <1>1, ItemDue
      <4> QED BY <4>1, <4>2, <3>3, <1>4
    <3>6. \E j \in 1 .. m : k < r2[j].end /\ r2[j].deadline <= Item(q, k).due
      <4>1. CASE i \in 1 .. (m - 1)
        BY <4>1, <3>3, <1>9
      <4>2. CASE i \notin 1 .. (m - 1)
        <5>1. i = m /\ m = n
          BY <4>2, <1>3, <1>9
        <5> QED BY <5>1, <3>3, <3>4, <1>9
      <4> QED BY <4>1, <4>2
    <3>7. Item(q, k).due <= d
      BY <3>5, <1>6
    <3> QED BY <3>1, <3>2, <3>6, <3>7, <1>9
  <2> QED BY <2>1, <2>2
<1>18. NoOverdueRequest'
  BY <1>1, <1>5, <1>11 DEF Inv, NoOverdueRequest
<1>19. TimeoutIndexInQueue'
  BY <1>2, <1>3, <1>11 DEF Inv, TimeoutIndexInQueue
<1>20. DeadlinesBounded'
  <2>1. \A j \in 1 .. m : r2[j].deadline <= d
    BY <1>1, <1>6, <1>9
  <2> QED BY <2>1, <1>1, <1>9 DEF DeadlinesBounded, d, r2
<1>21. \A k \in Live(q) : Kept(k)
  BY <1>11 DEF Kept, Live
<1> QED
  BY <1>1, <1>10, <1>11, <1>13, <1>14, <1>15, <1>16, <1>17, <1>18, <1>19, <1>20, <1>21
  DEF Inv, TypeOK, QueueInvariants, TestInvariants, RangesMatchDeadlines

\* OutputQueue::reserve_slot preserves the invariant and every queued message.
LEMMA ReserveInv ==
  ASSUME Inv, Reserve
  PROVE  Inv' /\ \A k \in Live(q) : Kept(k)
<1>1. q \in QueueType /\ now \in Nat /\ now' = now
  BY DEF Inv, TypeOK, Reserve
<1>2. /\ q'.queue = q.queue /\ q'.begin = q.begin
      /\ q'.deadline_range_ends = q.deadline_range_ends
      /\ q'.timeout_index = q.timeout_index /\ q'.num_messages = q.num_messages
      /\ q'.num_slots_reserved = q.num_slots_reserved + 1
      /\ q' = [queue |-> q'.queue, num_slots_reserved |-> q'.num_slots_reserved,
               begin |-> q'.begin, deadline_range_ends |-> q'.deadline_range_ends,
               timeout_index |-> q'.timeout_index, num_messages |-> q'.num_messages]
  BY <1>1 DEF Reserve, ReserveSlot, QueueType
<1> q' \in QueueType
  <2>1. q'.num_slots_reserved \in Nat
    BY <1>1, <1>2, QueueFields
  <2>2. HasFieldTypes(q')
    BY <1>1, <1>2, <2>1, QueueFields DEF HasFieldTypes
  <2> QED BY <1>2, <2>2, MakeQueue
<1>3. /\ QueueEnd(q') = QueueEnd(q) /\ Indices(q') = Indices(q)
      /\ \A k : Item(q', k) = Item(q, k)
  BY <1>2 DEF QueueEnd, Indices, Item
<1>4. Live(q') = Live(q)
  BY <1>3 DEF Live
<1>5. TestInvariants(q')
  BY <1>2, <1>3, <1>4
  DEF Inv, QueueInvariants, TestInvariants, FrontIsMessage, RangesSorted, RangesInQueue,
      NoRequestBeforeTimeoutIndex, MessageCountOk
<1>6. CheckSize(q')
  BY <1>1, <1>2, QueueFields, QueueCapacityAssumption
  DEF Reserve, CheckHasSlot, CheckSize, UsedSlots
<1>7. DeadlinesMatch(q')
  BY <1>2, <1>3 DEF Inv, RangesMatchDeadlines, DeadlinesMatch
<1> QED
  BY <1>1, <1>2, <1>3, <1>4, <1>5, <1>6, <1>7
  DEF Inv, TypeOK, QueueInvariants, RangesMatchDeadlines, NoOverdueRequest, TimeoutIndexInQueue,
      DeadlinesBounded, Kept

\* OutputQueue::push_response preserves the invariant and every queued message.
LEMMA PushOutputResponseInv ==
  ASSUME Inv, PushOutputResponse
  PROVE  Inv' /\ \A k \in Live(q) : Kept(k)
<1>1. q \in QueueType /\ now \in Nat /\ now' = now /\ q.num_slots_reserved > 0
  BY DEF Inv, TypeOK, PushOutputResponse, HasReservedSlot
<1>2. /\ q'.queue = Append(q.queue, Response) /\ q'.begin = q.begin
      /\ q'.deadline_range_ends = q.deadline_range_ends
      /\ q'.timeout_index = q.timeout_index /\ q'.num_messages = q.num_messages + 1
      /\ q'.num_slots_reserved = q.num_slots_reserved - 1
      /\ q' = [queue |-> q'.queue, num_slots_reserved |-> q'.num_slots_reserved,
               begin |-> q'.begin, deadline_range_ends |-> q'.deadline_range_ends,
               timeout_index |-> q'.timeout_index, num_messages |-> q'.num_messages]
  BY <1>1 DEF PushOutputResponse, PushResponse, QueueType
<1>3. q' \in QueueType
  <2>1. Append(q.queue, Response) \in Seq(Messages \cup {None})
    BY <1>1, QueueFields, ResponseIsMessage
  <2>2. q'.num_slots_reserved \in Nat
    BY <1>1, <1>2, QueueFields
  <2>3. q'.num_messages \in Nat
    BY <1>1, <1>2, QueueFields
  <2>4. HasFieldTypes(q')
    BY <1>1, <1>2, <2>1, <2>2, <2>3, QueueFields DEF HasFieldTypes
  <2> QED BY <1>2, <2>4, MakeQueue
<1>4. /\ Len(q'.queue) = Len(q.queue) + 1
      /\ QueueEnd(q') = QueueEnd(q) + 1
      /\ Indices(q') = Indices(q) \cup {QueueEnd(q)}
      /\ Item(q', QueueEnd(q)) = Response
      /\ \A k \in Indices(q) : Item(q', k) = Item(q, k)
      /\ Cardinality(Live(q')) = Cardinality(Live(q)) + 1
      /\ FrontIsMessage(q')
  BY <1>1, <1>2, <1>3, ResponseIsMessage, PushItems DEF Inv, QueueInvariants, TestInvariants
<1>5. ~IsRequest(Response)
  BY ResponseIsMessage
<1>6. RangesSorted(q')
  BY <1>2 DEF Inv, QueueInvariants, TestInvariants, RangesSorted
<1>7. RangesInQueue(q')
  <2> DEFINE r == q.deadline_range_ends
  <2>1. \A i \in 1 .. Len(r) : /\ r[i].end \in Nat /\ r[i].end > q.begin
                               /\ r[i].end > q.timeout_index /\ r[i].end <= QueueEnd(q)
    BY <1>1, QueueFields, RangeFields DEF Inv, QueueInvariants, TestInvariants, RangesInQueue
  <2>2. \A i \in 1 .. Len(r) : r[i].end <= QueueEnd(q) + 1
    BY <2>1, <1>1, QueueFields
  <2> QED BY <2>1, <2>2, <1>2, <1>4 DEF RangesInQueue
<1>8. NoRequestBeforeTimeoutIndex(q')
  BY <1>2, <1>4, <1>5 DEF Inv, QueueInvariants, TestInvariants, NoRequestBeforeTimeoutIndex
<1>9. MessageCountOk(q')
  BY <1>2, <1>4 DEF Inv, QueueInvariants, TestInvariants, MessageCountOk
<1>10. CheckSize(q')
  <2>1. UsedSlots(q') = UsedSlots(q)
    BY <1>1, <1>2, <1>4, QueueFields DEF UsedSlots
  <2> QED BY <2>1 DEF Inv, QueueInvariants, CheckSize
<1>11. DeadlinesMatch(q')
  BY <1>2, <1>4, <1>5 DEF Inv, RangesMatchDeadlines, DeadlinesMatch
<1>12. NoOverdueRequest'
  BY <1>1, <1>4, <1>5 DEF Inv, NoOverdueRequest
<1>13. TimeoutIndexInQueue' /\ DeadlinesBounded'
  BY <1>1, <1>2, <1>4, QueueFields DEF Inv, TimeoutIndexInQueue, DeadlinesBounded
<1>14. \A k \in Live(q) : Kept(k)
  BY <1>4 DEF Kept, Live
<1> QED
  BY <1>1, <1>3, <1>4, <1>6, <1>7, <1>8, <1>9, <1>10, <1>11, <1>12, <1>13, <1>14
  DEF Inv, TypeOK, QueueInvariants, TestInvariants, RangesMatchDeadlines

\* Reloading recomputes a count that is already right.
LEMMA RestartInv ==
  ASSUME Inv, Restart
  PROVE  Inv' /\ q' = q
<1>1. q' = q /\ now' = now
  BY DEF Inv, TypeOK, QueueType, QueueInvariants, TestInvariants, MessageCountOk, Restart, Reload
<1> QED
  BY <1>1
  DEF Inv, TypeOK, QueueInvariants, RangesMatchDeadlines, NoOverdueRequest, TimeoutIndexInQueue,
      DeadlinesBounded

\* What Inv says of q' once the queue has been cleaned up.
LEMMA AdvancedInv ==
  ASSUME Inv, NEW p \in QueueType, Advanceable(p), CheckSize(p),
         p.timeout_index <= QueueEnd(p),
         \A i \in 1 .. Len(p.deadline_range_ends) :
           p.deadline_range_ends[i].deadline <= now' + REQUEST_LIFETIME,
         \A k \in Indices(p) : IsRequest(Item(p, k)) => Item(p, k).due > now',
         q' = AdvanceToNextMessage(p), now' \in Nat
  PROVE  /\ Inv'
         /\ \A k \in Live(p) : k \in Live(q') /\ Item(q', k) = Item(p, k)
<1>1. /\ q' \in QueueType /\ QueueEnd(q') = QueueEnd(p)
      /\ \A k \in Indices(q') : k \in Indices(p) /\ Item(q', k) = Item(p, k)
      /\ Len(q'.queue) <= Len(p.queue)
      /\ q'.num_slots_reserved = p.num_slots_reserved
      /\ q'.timeout_index = p.timeout_index
  BY AdvanceKeepsItems
<1>2. /\ TestInvariants(q') /\ DeadlinesMatch(q')
      /\ \A j \in 1 .. Len(q'.deadline_range_ends) :
           \E i \in 1 .. Len(p.deadline_range_ends) :
             q'.deadline_range_ends[j] = p.deadline_range_ends[i]
  BY AdvanceRestoresInvariants
<1>3. CheckSize(q')
  BY <1>1, QueueFields, QueueCapacityAssumption DEF CheckSize, UsedSlots
<1>4. NoOverdueRequest'
  BY <1>1 DEF NoOverdueRequest
<1>5. DeadlinesBounded'
  BY <1>2 DEF DeadlinesBounded
<1>6. TimeoutIndexInQueue'
  BY <1>1 DEF TimeoutIndexInQueue
<1>7. \A k \in Live(p) : k \in Live(q') /\ Item(q', k) = Item(p, k)
  BY <1>1, AdvanceLive DEF Live
<1> QED
  BY <1>1, <1>2, <1>3, <1>4, <1>5, <1>6, <1>7
  DEF Inv, TypeOK, QueueInvariants, RangesMatchDeadlines

\* OutputQueue::pop preserves the invariant and every message but the first.
LEMMA PopInv ==
  ASSUME Inv, Pop
  PROVE  Inv' /\ \A k \in Live(q) : Kept(k) \/ k = q.begin
<1> DEFINE p == [q EXCEPT !.queue = Tail(@), !.begin = @ + 1, !.num_messages = @ - 1]
<1>1. /\ q \in QueueType /\ now \in Nat /\ now' = now /\ q.queue # <<>>
      /\ q' = AdvanceToNextMessage(p)
  BY DEF Inv, TypeOK, Pop, PopOutputQueue
<1> HIDE DEF p
<1>2. /\ p.queue = Tail(q.queue)
      /\ p.begin = q.begin + 1
      /\ p.num_messages = q.num_messages - 1
      /\ p.num_slots_reserved = q.num_slots_reserved
      /\ p.timeout_index = q.timeout_index
      /\ p.deadline_range_ends = q.deadline_range_ends
      /\ p = [queue |-> p.queue, num_slots_reserved |-> p.num_slots_reserved,
              begin |-> p.begin, deadline_range_ends |-> p.deadline_range_ends,
              timeout_index |-> p.timeout_index, num_messages |-> p.num_messages]
  <2>1. p = [q EXCEPT !.queue = Tail(@), !.begin = @ + 1, !.num_messages = @ - 1]
    BY DEF p
  <2> QED BY <1>1, <2>1 DEF QueueType
<1>3. /\ Tail(q.queue) \in Seq(Messages \cup {None})
      /\ Len(q.queue) > 0
      /\ Len(p.queue) = Len(q.queue) - 1
      /\ \A i \in 1 .. (Len(q.queue) - 1) : p.queue[i] = q.queue[i + 1]
  <2>1. /\ Tail(q.queue) \in Seq(Messages \cup {None})
        /\ Len(Tail(q.queue)) = Len(q.queue) - 1
        /\ \A i \in 1 .. Len(Tail(q.queue)) : Tail(q.queue)[i] = q.queue[i + 1]
    BY <1>1, QueueFields, HeadTailProperties
  <2>2. Len(q.queue) > 0
    BY <1>1, QueueFields
  <2> QED BY <1>2, <2>1, <2>2
<1>4. QueueEnd(p) = QueueEnd(q)
  BY <1>1, <1>2, <1>3, QueueFields DEF QueueEnd
<1>5. Indices(p) = Indices(q) \ {q.begin} /\ q.begin \in Indices(q)
  <2>1. q.begin \in Nat /\ QueueEnd(q) \in Nat /\ q.begin < QueueEnd(q)
    BY <1>1, <1>3, QueueFields DEF QueueEnd
  <2> QED BY <2>1, <1>2, <1>4 DEF Indices
<1>6. ASSUME NEW k \in Indices(p) PROVE Item(p, k) = Item(q, k)
  <2>1. k - q.begin \in 1 .. (Len(q.queue) - 1) /\ k \in Nat
    <3>1. q.begin \in Nat /\ Len(q.queue) \in Nat
      BY <1>1, QueueFields
    <3>2. QueueEnd(p) = q.begin + Len(q.queue)
      BY <1>4 DEF QueueEnd
    <3>3. k \in (q.begin + 1) .. (q.begin + Len(q.queue) - 1)
      BY <1>6, <1>2, <3>1, <3>2 DEF Indices
    <3> QED BY <3>1, <3>3
  <2>2. k - p.begin + 1 = k - q.begin
    BY <2>1, <1>1, <1>2, QueueFields
  <2> QED BY <2>1, <2>2, <1>3, SMTT(20) DEF Item
<1>7. Item(q, q.begin) # None
  <2>1. q.begin - q.begin + 1 = 1
    BY <1>1, QueueFields
  <2> QED BY <2>1, <1>1 DEF Inv, QueueInvariants, TestInvariants, FrontIsMessage, Item
<1>8. Live(p) = Live(q) \ {q.begin} /\ q.begin \in Live(q)
  BY <1>5, <1>6, <1>7 DEF Live
<1>9. /\ Cardinality(Live(p)) = Cardinality(Live(q)) - 1
      /\ Cardinality(Live(p)) \in Nat
  <2>1. IsFiniteSet(Live(p)) /\ Cardinality(Live(p)) = Cardinality(Live(q)) - 1
    BY <1>1, <1>8, LiveIsFinite, FS_RemoveElement
  <2> QED BY <2>1, FS_CardinalityType
<1>10. p.num_messages = Cardinality(Live(p))
  BY <1>2, <1>9 DEF Inv, QueueInvariants, TestInvariants, MessageCountOk
<1>11. p \in QueueType
  <2>1. HasFieldTypes(p)
    BY <1>1, <1>2, <1>3, <1>9, <1>10, QueueFields DEF HasFieldTypes
  <2> QED BY <1>2, <2>1, MakeQueue
<1>12. Advanceable(p)
  <2>1. RangesSorted(p)
    BY <1>2 DEF Inv, QueueInvariants, TestInvariants, RangesSorted
  <2>2. \A i \in 1 .. Len(p.deadline_range_ends) : p.deadline_range_ends[i].end <= QueueEnd(p)
    BY <1>2, <1>4 DEF Inv, QueueInvariants, TestInvariants, RangesInQueue
  <2>3. NoRequestBeforeTimeoutIndex(p)
    BY <1>2, <1>5, <1>6 DEF Inv, QueueInvariants, TestInvariants, NoRequestBeforeTimeoutIndex
  <2>4. DeadlinesMatch(p)
    BY <1>2, <1>5, <1>6 DEF Inv, RangesMatchDeadlines, DeadlinesMatch
  <2> QED BY <2>1, <2>2, <2>3, <2>4, <1>10 DEF Advanceable, MessageCountOk
<1>13. CheckSize(p)
  BY <1>1, <1>2, <1>3, QueueFields, QueueCapacityAssumption
  DEF CheckSize, UsedSlots, Inv, QueueInvariants
<1>14. p.timeout_index <= QueueEnd(p)
  BY <1>2, <1>4 DEF Inv, TimeoutIndexInQueue
<1>15. \A i \in 1 .. Len(p.deadline_range_ends) :
         p.deadline_range_ends[i].deadline <= now' + REQUEST_LIFETIME
  BY <1>1, <1>2 DEF Inv, DeadlinesBounded
<1>16. \A k \in Indices(p) : IsRequest(Item(p, k)) => Item(p, k).due > now'
  BY <1>1, <1>5, <1>6 DEF Inv, NoOverdueRequest
<1>17. Inv' /\ \A k \in Live(p) : k \in Live(q') /\ Item(q', k) = Item(p, k)
  BY <1>1, <1>11, <1>12, <1>13, <1>14, <1>15, <1>16, AdvancedInv
<1>18. \A k \in Live(q) : Kept(k) \/ k = q.begin
  BY <1>6, <1>8, <1>17 DEF Kept, Live
<1> QED BY <1>17, <1>18

\* OutputQueue::time_out_requests, run to its end at the start of a round, preserves
\* the invariant and every message but the requests that are due.
LEMMA StartRoundInv ==
  ASSUME Inv, StartRound
  PROVE  /\ Inv'
         /\ \A k \in Live(q) : Kept(k) \/ (IsRequest(Item(q, k)) /\ Item(q, k).due <= now')
<1>1. /\ q \in QueueType /\ now \in Nat
      /\ now' \in Nat /\ now <= now' /\ q' = TimeOutRequests(q, now')
  <2>1. PICK time \in now .. MaxTime : now' = time /\ q' = TimeOutRequests(q, time)
    BY DEF StartRound
  <2> QED BY <2>1, OutputQueueAssumption DEF Inv, TypeOK
<1> DEFINE r    == q.deadline_range_ends
           n    == ExpiredRanges(r, now')
           gone == TimedOut(q, now')
           from == IF q.timeout_index > q.begin THEN q.timeout_index ELSE q.begin
<1>2. /\ r \in Seq(Ranges) /\ Len(r) \in Nat /\ q.begin \in Nat /\ q.timeout_index \in Nat
      /\ QueueEnd(q) \in Nat /\ from \in Nat
  BY <1>1, QueueFields
<1>3. /\ n \in 0 .. Len(r)
      /\ \A i \in 1 .. n : r[i].deadline <= now'
      /\ n < Len(r) => r[n + 1].deadline > now'
  <2> HIDE DEF r
  <2> QED BY <1>1, <1>2, ExpiredRangesFacts
<1>4. \A j \in 1 .. Len(r) : r[j].deadline \in Nat /\ r[j].end \in Nat
  BY <1>2, RangeFields
<1>5. \A i, j \in 1 .. Len(r) : i < j => r[i].deadline < r[j].deadline /\ r[i].end < r[j].end
  BY DEF Inv, QueueInvariants, TestInvariants, RangesSorted
<1>6. \A j \in 1 .. Len(r) : /\ r[j].end > q.begin /\ r[j].end > q.timeout_index
                             /\ r[j].end <= QueueEnd(q)
  BY DEF Inv, QueueInvariants, TestInvariants, RangesInQueue
<1>7. \A j \in 1 .. Len(r) :
        r[j].deadline <= now + REQUEST_LIFETIME /\ r[j].deadline <= now' + REQUEST_LIFETIME
  <2>1. \A j \in 1 .. Len(r) : r[j].deadline <= now + REQUEST_LIFETIME
    BY DEF Inv, DeadlinesBounded
  <2> QED BY <2>1, <1>1, <1>4, OutputQueueAssumption
<1>8. \A k \in Indices(q) : IsRequest(Item(q, k)) =>
        /\ Item(q, k).due \in Nat
        /\ \E j \in 1 .. Len(r) : k < r[j].end /\ r[j].deadline <= Item(q, k).due
        /\ \A j \in 1 .. Len(r) : k < r[j].end => Item(q, k).due <= r[j].deadline
  BY <1>1, ItemDue DEF Inv, RangesMatchDeadlines, DeadlinesMatch
<1>9. \A j \in 1 .. Len(r) : j > n => r[j].deadline > now'
  <2> HIDE DEF n, r
  <2> SUFFICES ASSUME NEW j \in 1 .. Len(r), j > n PROVE r[j].deadline > now'
    OBVIOUS
  <2>1. n + 1 \in 1 .. Len(r) /\ r[n + 1].deadline > now'
    BY <1>2, <1>3
  <2>2. j = n + 1 \/ r[n + 1].deadline < r[j].deadline
    BY <2>1, <1>3, <1>5
  <2> QED BY <2>1, <2>2, <1>1, <1>4
<1>10. CASE n = 0
  <2>1. q' = q
    BY <1>1, <1>10 DEF TimeOutRequests
  <2>2. NoOverdueRequest'
    <3> SUFFICES ASSUME NEW k \in Indices(q), IsRequest(Item(q, k))
                 PROVE  Item(q, k).due > now'
      BY <2>1 DEF NoOverdueRequest
    <3>1. PICK j \in 1 .. Len(r) : r[j].deadline <= Item(q, k).due
      BY <1>8
    <3>2. r[j].deadline > now'
      <4> HIDE DEF n, r
      <4> QED BY <1>9, <1>10
    <3> QED BY <3>1, <3>2, <1>1, <1>4, <1>8
  <2>3. DeadlinesBounded'
    BY <1>7, <2>1 DEF DeadlinesBounded
  <2> QED
    BY <1>1, <2>1, <2>2, <2>3
    DEF Inv, TypeOK, QueueInvariants, RangesMatchDeadlines, TimeoutIndexInQueue, Kept
<1>11. CASE n # 0
  <2> DEFINE queue2 == [i \in 1 .. Len(q.queue) |->
                          IF q.begin + i - 1 \in gone THEN None ELSE q.queue[i]]
             p == [q EXCEPT !.queue = queue2,
                            !.deadline_range_ends = Drop(r, n),
                            !.timeout_index = r[n].end,
                            !.num_messages = @ - Cardinality(gone)]
  <2>1. q' = AdvanceToNextMessage(p)
    BY <1>1, <1>11 DEF TimeOutRequests
  <2>2. n \in 1 .. Len(r) /\ r[n].end \in Nat
    <3> HIDE DEF n
    <3> QED BY <1>2, <1>3, <1>4, <1>11
  <2>3. gone = {k \in from .. (r[n].end - 1) : IsRequest(Item(q, k))}
    BY <1>11 DEF TimedOut
  <2> HIDE DEF n, gone, p
  <2>4. \A k \in gone : k \in Indices(q) /\ IsRequest(Item(q, k)) /\ k < r[n].end
    BY <2>2, <2>3, <1>2, <1>6 DEF Indices
  <2>5. \A k \in Indices(q) : IsRequest(Item(q, k)) /\ k < r[n].end => k \in gone
    <3> SUFFICES ASSUME NEW k \in Indices(q), IsRequest(Item(q, k)), k < r[n].end
                 PROVE  k \in gone
      OBVIOUS
    <3>1. k \in Nat /\ q.begin <= k
      BY <1>1, PositionInQueue
    <3>2. ~(k < q.timeout_index)
      BY DEF Inv, QueueInvariants, TestInvariants, NoRequestBeforeTimeoutIndex
    <3> QED BY <3>1, <3>2, <2>2, <2>3, <1>2
  <2>6. /\ p.queue = queue2
        /\ p.begin = q.begin
        /\ p.num_slots_reserved = q.num_slots_reserved
        /\ p.deadline_range_ends = Drop(r, n)
        /\ p.timeout_index = r[n].end
        /\ p.num_messages = q.num_messages - Cardinality(gone)
        /\ p = [queue |-> p.queue, num_slots_reserved |-> p.num_slots_reserved,
                begin |-> p.begin, deadline_range_ends |-> p.deadline_range_ends,
                timeout_index |-> p.timeout_index, num_messages |-> p.num_messages]
    <3> HIDE DEF queue2, r
    <3>1. p = [q EXCEPT !.queue = queue2, !.deadline_range_ends = Drop(r, n),
                        !.timeout_index = r[n].end,
                        !.num_messages = q.num_messages - Cardinality(gone)]
      BY DEF p
    <3> QED BY <1>1, <3>1 DEF QueueType
  <2>7. queue2 \in Seq(Messages \cup {None}) /\ Len(queue2) = Len(q.queue)
    BY <1>1, QueueFields
  <2>8. QueueEnd(p) = QueueEnd(q) /\ Indices(p) = Indices(q)
    BY <2>6, <2>7 DEF QueueEnd, Indices
  <2>9. ASSUME NEW k \in Indices(q)
        PROVE  Item(p, k) = IF k \in gone THEN None ELSE Item(q, k)
    <3>1. k - q.begin + 1 \in 1 .. Len(q.queue) /\ k \in Nat
      BY <1>1, PositionInQueue
    <3>2. q.begin + (k - q.begin + 1) - 1 = k
      BY <3>1, <1>2
    <3> QED BY <2>6, <3>1, <3>2 DEF Item
  <2>10. Live(p) = Live(q) \ gone /\ gone \subseteq Live(q)
    BY <2>4, <2>8, <2>9 DEF Live, IsRequest
  <2>11. p.num_messages = Cardinality(Live(p)) /\ p.num_messages \in Nat
    <3>1. IsFiniteSet(Live(q)) /\ Cardinality(Live(q)) \in Nat
      BY <1>1, LiveIsFinite
    <3>2. IsFiniteSet(gone) /\ Cardinality(gone) \in Nat
      BY <3>1, <2>10, FS_Subset, FS_CardinalityType
    <3>3. /\ IsFiniteSet(Live(p))
          /\ Cardinality(Live(p)) = Cardinality(Live(q)) - Cardinality(Live(q) \cap gone)
      BY <3>1, <3>2, <2>10, FS_Difference
    <3>4. Live(q) \cap gone = gone
      BY <2>10
    <3>5. q.num_messages = Cardinality(Live(q))
      BY DEF Inv, QueueInvariants, TestInvariants, MessageCountOk
    <3> QED BY <3>3, <3>4, <3>5, <2>6, FS_CardinalityType
  <2>12. /\ Drop(r, n) \in Seq(Ranges)
         /\ Len(Drop(r, n)) = Len(r) - n
         /\ \A j \in 1 .. Len(Drop(r, n)) : /\ n + j \in 1 .. Len(r) /\ n + j > n
                                            /\ Drop(r, n)[j] = r[n + j]
    <3> HIDE DEF r
    <3>1. /\ Drop(r, n) \in Seq(Ranges)
          /\ Len(Drop(r, n)) = Len(r) - n
          /\ \A j \in 1 .. (Len(r) - n) : Drop(r, n)[j] = r[n + j]
      BY <1>2, <1>3, DropFacts
    <3> QED BY <3>1, <1>2, <1>3
  <2>13. p \in QueueType
    <3>1. HasFieldTypes(p)
      BY <1>1, <2>2, <2>6, <2>7, <2>11, <2>12, QueueFields DEF HasFieldTypes
    <3> QED BY <2>6, <3>1, MakeQueue
  <2> HIDE DEF r, queue2
  <2>14. Advanceable(p)
    <3>1. RangesSorted(p)
      <4> SUFFICES ASSUME NEW i \in 1 .. Len(Drop(r, n)), NEW j \in 1 .. Len(Drop(r, n)), i < j
                   PROVE  /\ Drop(r, n)[i].deadline < Drop(r, n)[j].deadline
                          /\ Drop(r, n)[i].end < Drop(r, n)[j].end
        BY <2>6 DEF RangesSorted
      <4>1. n + i < n + j
        BY <2>2, <1>2
      <4> QED BY <4>1, <2>12, <1>5
    <3>2. \A i \in 1 .. Len(p.deadline_range_ends) :
            p.deadline_range_ends[i].end <= QueueEnd(p)
      BY <2>6, <2>8, <2>12, <1>6
    <3>3. NoRequestBeforeTimeoutIndex(p)
      BY <2>5, <2>6, <2>8, <2>9 DEF NoRequestBeforeTimeoutIndex, IsRequest
    <3>4. DeadlinesMatch(p)
      <4> SUFFICES ASSUME NEW k \in Indices(q), IsRequest(Item(p, k))
                   PROVE  /\ \E j \in 1 .. Len(Drop(r, n)) :
                               /\ k < Drop(r, n)[j].end
                               /\ Drop(r, n)[j].deadline <= Item(p, k).due
                          /\ \A j \in 1 .. Len(Drop(r, n)) :
                               k < Drop(r, n)[j].end =>
                                 Item(p, k).due <= Drop(r, n)[j].deadline
        BY <2>6, <2>8 DEF DeadlinesMatch
      <4>1. k \notin gone /\ Item(p, k) = Item(q, k) /\ IsRequest(Item(q, k))
        BY <2>9 DEF IsRequest
      <4>2. ~(k < r[n].end) /\ k \in Nat
        BY <4>1, <2>5, <1>1, PositionInQueue
      <4>3. PICK i \in 1 .. Len(r) : k < r[i].end /\ r[i].deadline <= Item(q, k).due
        BY <4>1, <1>8
      <4>4. i > n
        BY <4>2, <4>3, <2>2, <1>2, <1>4, <1>5
      <4>5. i - n \in 1 .. Len(Drop(r, n)) /\ Drop(r, n)[i - n] = r[i]
        <5>1. i - n \in 1 .. (Len(r) - n) /\ n + (i - n) = i
          BY <4>4, <2>2, <1>2
        <5> QED BY <5>1, <2>12
      <4> QED BY <4>1, <4>3, <4>5, <2>12, <1>8
    <3> QED BY <3>1, <3>2, <3>3, <3>4, <2>11 DEF Advanceable, MessageCountOk
  <2>15. CheckSize(p)
    BY <2>6, <2>7 DEF CheckSize, UsedSlots, Inv, QueueInvariants
  <2>16. p.timeout_index <= QueueEnd(p)
    BY <2>2, <2>6, <2>8, <1>6
  <2>17. \A i \in 1 .. Len(p.deadline_range_ends) :
           p.deadline_range_ends[i].deadline <= now' + REQUEST_LIFETIME
    BY <2>6, <2>12, <1>7
  <2>18. \A k \in Indices(p) : IsRequest(Item(p, k)) => Item(p, k).due > now'
    <3> SUFFICES ASSUME NEW k \in Indices(q), IsRequest(Item(p, k))
                 PROVE  Item(p, k).due > now'
      BY <2>8
    <3>1. k \notin gone /\ Item(p, k) = Item(q, k) /\ IsRequest(Item(q, k))
      BY <2>9 DEF IsRequest
    <3>2. ~(k < r[n].end) /\ k \in Nat
      BY <3>1, <2>5, <1>1, PositionInQueue
    <3>3. PICK i \in 1 .. Len(r) : k < r[i].end /\ r[i].deadline <= Item(q, k).due
      BY <3>1, <1>8
    <3>4. i > n
      BY <3>2, <3>3, <2>2, <1>2, <1>4, <1>5
    <3> QED BY <3>1, <3>3, <3>4, <1>1, <1>4, <1>8, <1>9
  <2>19. Inv' /\ \A k \in Live(p) : k \in Live(q') /\ Item(q', k) = Item(p, k)
    BY <2>1, <2>13, <2>14, <2>15, <2>16, <2>17, <2>18, <1>1, AdvancedInv
  <2>20. \A k \in gone : Item(q, k).due <= now'
    <3> SUFFICES ASSUME NEW k \in gone PROVE Item(q, k).due <= now'
      OBVIOUS
    <3>1. Item(q, k).due \in Nat /\ Item(q, k).due <= r[n].deadline
      BY <2>2, <2>4, <1>8
    <3>2. r[n].deadline <= now' /\ r[n].deadline \in Nat
      BY <2>2, <1>3, <1>4
    <3> QED BY <3>1, <3>2, <1>1
  <2>21. ASSUME NEW k \in Live(q)
         PROVE  Kept(k) \/ (IsRequest(Item(q, k)) /\ Item(q, k).due <= now')
    <3>1. CASE k \in gone
      BY <3>1, <2>4, <2>20
    <3>2. CASE k \notin gone
      BY <3>2, <2>9, <2>10, <2>19 DEF Kept, Live
    <3> QED BY <3>1, <3>2
  <2> QED BY <2>19, <2>21
<1> QED BY <1>10, <1>11

-----------------------------------------------------------------------------

\* The inductive step: every action of the queue preserves Inv.
LEMMA NextInv == Inv /\ [Next]_vars => Inv'
<1> SUFFICES ASSUME Inv, [Next]_vars PROVE Inv'
  OBVIOUS
<1>1. CASE PushOutputRequest  BY <1>1, PushOutputRequestInv
<1>2. CASE Reserve            BY <1>2, ReserveInv
<1>3. CASE PushOutputResponse BY <1>3, PushOutputResponseInv
<1>4. CASE Pop                BY <1>4, PopInv
<1>5. CASE StartRound         BY <1>5, StartRoundInv
<1>6. CASE Restart            BY <1>6, RestartInv
<1>7. CASE UNCHANGED vars
  BY <1>7
  DEF vars, Inv, TypeOK, QueueInvariants, RangesMatchDeadlines, NoOverdueRequest,
      TimeoutIndexInQueue, DeadlinesBounded
<1> QED BY <1>1, <1>2, <1>3, <1>4, <1>5, <1>6, <1>7 DEF Next

\* The inductive invariant holds throughout.
LEMMA SpecInv == Spec => []Inv
  BY InitInv, NextInv, PTL DEF Spec

\* num_messages and num_slots_reserved never underflow, indices stay natural
\* numbers and items stay messages or tombstones.
THEOREM TypeCorrect == Spec => []TypeOK
<1>1. Inv => TypeOK
  BY DEF Inv
<1> QED BY <1>1, SpecInv, PTL

\* OutputQueue::check_invariants() never panics, whatever order requests,
\* responses, pops, round starts and restarts come in, and a checkpoint of the
\* queue can always be decoded.
THEOREM InvariantsHold == Spec => []QueueInvariants
<1>1. Inv => QueueInvariants
  BY DEF Inv
<1> QED BY <1>1, SpecInv, PTL

\* push_request, pop and TimedOutRequestsIter keep deadline_range_ends an exact
\* summary of the deadlines of the queued requests.
THEOREM RangesAreExact == Spec => []RangesMatchDeadlines
<1>1. Inv => RangesMatchDeadlines
  BY DEF Inv
<1> QED BY <1>1, SpecInv, PTL

\* A request never survives the first round whose batch time reaches its
\* deadline.
THEOREM NothingOverdue == Spec => []NoOverdueRequest
<1>1. Inv => NoOverdueRequest
  BY DEF Inv
<1> QED BY <1>1, SpecInv, PTL

\* TimedOutRequestsIter drops no response and no request before its deadline,
\* and nothing moves a message to another absolute index.
THEOREM OnlyDueRequestsDropped == Spec => DropsOnlyDueRequests
<1> DEFINE Dropped(k) == \/ k \in Live(q') /\ Item(q', k) = Item(q, k)
                         \/ IsRequest(Item(q, k)) /\ Item(q, k).due <= now'
                         \/ k = q.begin /\ Pop
<1>1. Inv /\ [Next]_vars => [\A k \in Live(q) : Dropped(k)]_vars
  <2> SUFFICES ASSUME Inv, Next, NEW k \in Live(q)
               PROVE  Dropped(k)
    OBVIOUS
  <2>1. CASE PushOutputRequest  BY <2>1, PushOutputRequestInv DEF Kept
  <2>2. CASE Reserve            BY <2>2, ReserveInv DEF Kept
  <2>3. CASE PushOutputResponse BY <2>3, PushOutputResponseInv DEF Kept
  <2>4. CASE Pop                BY <2>4, PopInv DEF Kept
  <2>5. CASE StartRound         BY <2>5, StartRoundInv DEF Kept
  <2>6. CASE Restart            BY <2>6, RestartInv
  <2> QED BY <2>1, <2>2, <2>3, <2>4, <2>5, <2>6 DEF Next
<1> QED BY <1>1, SpecInv, PTL DEF Spec, DropsOnlyDueRequests
=============================================================================
