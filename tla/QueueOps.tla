------------------------------ MODULE QueueOps ------------------------------
(***************************************************************************)
(* The queue data structures that hold inter-canister messages, as pure    *)
(* operators on records: QueueWithReservation (the bounded FIFO with slot  *)
(* reservations), InputQueue and OutputQueue (which adds request deadlines *)
(* and tombstones) of                                                      *)
(*   rs/replicated_state/src/canister_state/queues/queue.rs                *)
(*                                                                         *)
(* A queue item is a message, a record with a field kind, or (in an output *)
(* queue only) the tombstone None a timed out request leaves behind.       *)
(***************************************************************************)
EXTENDS Integers, Sequences, FiniteSets

CONSTANTS
  DEFAULT_QUEUE_CAPACITY, \* slots of a queue, used plus reserved
  None                    \* Option::None, an item that is no message

ASSUME QueueCapacityAssumption == DEFAULT_QUEUE_CAPACITY \in Nat \ {0}

IsRequest(item) == item # None /\ item.kind = "Request"
IsResponse(item) == item # None /\ item.kind = "Response"

(***************************************************************************)
(* QueueWithReservation: the fields queue and num_slots_reserved.          *)
(***************************************************************************)
UsedSlots(q) == Len(q.queue) + q.num_slots_reserved

\* Tombstones occupy a slot until they reach the front.
CheckHasSlot(q) == UsedSlots(q) < DEFAULT_QUEUE_CAPACITY

AvailableSlots(q) == DEFAULT_QUEUE_CAPACITY - UsedSlots(q)

ReserveSlot(q) == [q EXCEPT !.num_slots_reserved = @ + 1]

HasReservedSlot(q) == q.num_slots_reserved > 0

HasUsedSlots(q) == q.queue # <<>> \/ q.num_slots_reserved > 0

\* The size check every queue has to pass when it is deserialized.
CheckSize(q) == UsedSlots(q) <= DEFAULT_QUEUE_CAPACITY

(***************************************************************************)
(* InputQueue                                                              *)
(***************************************************************************)
NewInputQueue == [queue |-> <<>>, num_slots_reserved |-> 0]

\* InputQueue::push succeeds for a request iff there is a free slot, for a
\* response iff there is a reserved one.
CanPushInput(q, msg) ==
  IF msg.kind = "Request" THEN CheckHasSlot(q) ELSE HasReservedSlot(q)

PushInputQueue(q, msg) ==
  [q EXCEPT !.queue = Append(@, msg),
            !.num_slots_reserved = IF msg.kind = "Request" THEN @ ELSE @ - 1]

PopInputQueue(q) == [q EXCEPT !.queue = Tail(@)]

(***************************************************************************)
(* OutputQueue                                                             *)
(*                                                                         *)
(* begin is the absolute index of the first item: the item with absolute   *)
(* index k is queue[k - begin + 1].  deadline_range_ends lists ranges of   *)
(* items by the absolute index just beyond them.                           *)
(***************************************************************************)
NewOutputQueue ==
  [queue |-> <<>>, num_slots_reserved |-> 0, begin |-> 0,
   deadline_range_ends |-> <<>>, timeout_index |-> 0, num_messages |-> 0]

QueueEnd(q) == q.begin + Len(q.queue)
Indices(q) == q.begin .. (QueueEnd(q) - 1)
Item(q, k) == q.queue[k - q.begin + 1]

\* Absolute indices of the actual messages.
Live(q) == {k \in Indices(q) : Item(q, k) # None}

\* Fault: a request that shares the last range does not extend it.
PushRequest_KeepEnd(q, msg, deadline) ==
  LET ranges == q.deadline_range_ends
      n      == Len(ranges)
  IN  [q EXCEPT
        !.queue = Append(@, msg),
        !.deadline_range_ends =
           IF n > 0 /\ ranges[n].deadline >= deadline THEN ranges
           ELSE Append(ranges, [deadline |-> deadline, end |-> QueueEnd(q) + 1]),
        !.num_messages = @ + 1]

\* The request joins the last range if that one's deadline is not earlier,
\* otherwise it opens a range of its own.
PushRequest(q, msg, deadline) ==
  LET ranges == q.deadline_range_ends
      n      == Len(ranges)
      end    == QueueEnd(q) + 1
  IN  [q EXCEPT
        !.queue = Append(@, msg),
        !.deadline_range_ends =
           IF n > 0 /\ ranges[n].deadline >= deadline
             THEN [ranges EXCEPT ![n] = [deadline |-> @.deadline, end |-> end]]
             ELSE Append(ranges, [deadline |-> deadline, end |-> end]),
        !.num_messages = @ + 1]

PushResponse(q, msg) ==
  [q EXCEPT !.queue = Append(@, msg),
            !.num_slots_reserved = @ - 1,
            !.num_messages = @ + 1]

\* The number of tombstones in front of the first message.
LeadingNones(s) ==
  CHOOSE n \in 0 .. Len(s) : /\ \A i \in 1 .. n : s[i] = None
                             /\ n < Len(s) => s[n + 1] # None

\* The number of ranges at the front that end at or before begin or timeout.
ConsumedRanges(ranges, begin, timeout) ==
  CHOOSE n \in 0 .. Len(ranges) :
    /\ \A i \in 1 .. n : ranges[i].end <= begin \/ ranges[i].end <= timeout
    /\ n < Len(ranges) => ~(\/ ranges[n + 1].end <= begin
                            \/ ranges[n + 1].end <= timeout)

Drop(s, n) == SubSeq(s, n + 1, Len(s))

\* Fault: forgets to skip the tombstones.
AdvanceToNextMessage_KeepNones(q) ==
  LET gone == ConsumedRanges(q.deadline_range_ends, q.begin, q.timeout_index)
  IN  [q EXCEPT !.deadline_range_ends = Drop(@, gone)]

AdvanceToNextMessage(q) ==
  LET skip  == LeadingNones(q.queue)
      begin == q.begin + skip
      gone  == ConsumedRanges(q.deadline_range_ends, begin, q.timeout_index)
  IN  [q EXCEPT !.queue = Drop(@, skip),
                !.begin = begin,
                !.deadline_range_ends = Drop(@, gone)]

PopOutputQueue(q) ==
  AdvanceToNextMessage([q EXCEPT !.queue = Tail(@),
                                 !.begin = @ + 1,
                                 !.num_messages = @ - 1])

\* Fault: a deadline equal to the current time does not expire.
ExpiredRanges_Strict(ranges, time) ==
  CHOOSE n \in 0 .. Len(ranges) :
    /\ \A i \in 1 .. n : ranges[i].deadline < time
    /\ n < Len(ranges) => ranges[n + 1].deadline >= time

\* The number of ranges at the front whose deadline is not after time.
ExpiredRanges(ranges, time) ==
  CHOOSE n \in 0 .. Len(ranges) :
    /\ \A i \in 1 .. n : ranges[i].deadline <= time
    /\ n < Len(ranges) => ranges[n + 1].deadline > time

HasExpiredDeadlines(q, time) ==
  q.deadline_range_ends # <<>> /\ q.deadline_range_ends[1].deadline <= time

\* Fault: takes whatever item the expired ranges cover.
TimedOut_AnyItem(q, time) ==
  LET n    == ExpiredRanges(q.deadline_range_ends, time)
      from == IF q.timeout_index > q.begin THEN q.timeout_index ELSE q.begin
  IN  IF n = 0 THEN {}
      ELSE {k \in from .. (q.deadline_range_ends[n].end - 1) : Item(q, k) # None}

\* Absolute indices of the requests that TimedOutRequestsIter yields.
TimedOut(q, time) ==
  LET n    == ExpiredRanges(q.deadline_range_ends, time)
      from == IF q.timeout_index > q.begin THEN q.timeout_index ELSE q.begin
  IN  IF n = 0 THEN {}
      ELSE {k \in from .. (q.deadline_range_ends[n].end - 1) :
              IsRequest(Item(q, k))}

\* What consuming the whole TimedOutRequestsIter leaves behind.
TimeOutRequests(q, time) ==
  LET n    == ExpiredRanges(q.deadline_range_ends, time)
      gone == TimedOut(q, time)
  IN  IF n = 0 THEN q
      ELSE AdvanceToNextMessage(
             [q EXCEPT
               !.queue = [i \in 1 .. Len(@) |->
                            IF q.begin + i - 1 \in gone THEN None ELSE @[i]],
               !.deadline_range_ends = Drop(@, n),
               !.timeout_index = q.deadline_range_ends[n].end,
               !.num_messages = @ - Cardinality(gone)])

\* num_messages is not stored: TryFrom recomputes it.
Reload(q) == [q EXCEPT !.num_messages = Cardinality(Live(q))]

(***************************************************************************)
(* OutputQueue::test_invariants, one operator per check.                   *)
(***************************************************************************)
FrontIsMessage(q) == q.queue # <<>> => q.queue[1] # None

RangesSorted(q) ==
  LET r == q.deadline_range_ends
  IN  \A i, j \in 1 .. Len(r) :
        i < j => r[i].deadline < r[j].deadline /\ r[i].end < r[j].end

RangesInQueue(q) ==
  LET r == q.deadline_range_ends
  IN  \A i \in 1 .. Len(r) : /\ r[i].end > q.begin
                             /\ r[i].end > q.timeout_index
                             /\ r[i].end <= QueueEnd(q)

NoRequestBeforeTimeoutIndex(q) ==
  \A k \in Indices(q) : k < q.timeout_index => ~IsRequest(Item(q, k))

MessageCountOk(q) == q.num_messages = Cardinality(Live(q))

TestInvariants(q) ==
  /\ FrontIsMessage(q)
  /\ RangesSorted(q)
  /\ RangesInQueue(q)
  /\ NoRequestBeforeTimeoutIndex(q)
  /\ MessageCountOk(q)
=============================================================================
