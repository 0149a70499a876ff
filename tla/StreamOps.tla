------------------------------ MODULE StreamOps ------------------------------
(***************************************************************************)
(* Streams between subnets, as pure operators on records                   *)
(*   rs/replicated_state/src/metadata_state.rs (Stream, StreamHandle)      *)
(*   rs/types/types/src/xnet.rs (StreamIndexedQueue, StreamSlice)          *)
(*                                                                         *)
(* A stream holds the messages to a remote subnet and the signals for the  *)
(* messages received from it: signals_end is the index just beyond the     *)
(* last message signalled, reject_signals the indices of the messages that *)
(* were rejected (ascending in the code, here a set).  begin is the index  *)
(* of the first message.                                                   *)
(***************************************************************************)
EXTENDS Integers, Sequences, SequencesExt

EmptyStream == [begin |-> 0, messages |-> <<>>, signals_end |-> 0, reject_signals |-> {}]

MessagesEnd(st) == st.begin + Len(st.messages)
StreamIndices(st) == st.begin .. (MessagesEnd(st) - 1)
MessageAt(st, i) == st.messages[i - st.begin + 1]

StreamPush(st, msg) == [st EXCEPT !.messages = Append(@, msg)]

DiscardMessagesBefore(st, new_begin) ==
  [st EXCEPT !.begin = new_begin,
             !.messages = SubSeq(@, new_begin - st.begin + 1, Len(@))]

\* The numbers of a finite set, in ascending order.
Ascending(S) ==
  CHOOSE q \in [1 .. Cardinality(S) -> S] : \A i, j \in 1 .. Cardinality(S) : i < j => q[i] < q[j]

\* Fault: looks at the first signal only if it is for the first message.
RejectedMessages_NoSkip(st, new_begin, signals) ==
  IF \E i \in signals : i < st.begin THEN <<>>
  ELSE LET rejected == {i \in signals : st.begin <= i /\ i < new_begin}
       IN  [j \in 1 .. Cardinality(rejected) |->
              MessageAt(st, Ascending(rejected)[j])]

\* The messages before new_begin that were rejected, in stream order.  Signals
\* for messages already discarded are skipped.
RejectedMessages(st, new_begin, signals) ==
  LET rejected == Ascending({i \in signals : st.begin <= i /\ i < new_begin})
  IN  [j \in 1 .. Len(rejected) |-> MessageAt(st, rejected[j])]

DiscardSignalsBefore(st, new_signals_begin) ==
  [st EXCEPT !.reject_signals = {i \in @ : i >= new_signals_begin}]

IncrementSignalsEnd(st) == [st EXCEPT !.signals_end = @ + 1]

\* Fault: the signal is for the next message.
PushRejectSignal_Next(st, i) == [st EXCEPT !.reject_signals = @ \cup {i + 1}]

PushRejectSignal(st, i) == [st EXCEPT !.reject_signals = @ \cup {i}]

(***************************************************************************)
(* A slice: the header of the stream, and n messages from index from on.   *)
(***************************************************************************)
Slice(st, from, n) ==
  [begin |-> st.begin,
   end |-> MessagesEnd(st),
   signals_end |-> st.signals_end,
   reject_signals |-> st.reject_signals,
   messages_begin |-> from,
   messages |-> SubSeq(st.messages, from - st.begin + 1, from - st.begin + n)]

SliceMessagesEnd(slice) == slice.messages_begin + Len(slice.messages)

(***************************************************************************)
(* The assertions of stream_handler.rs.                                    *)
(***************************************************************************)
ValidSignals(signals_end, signals) == \A i \in signals : i < signals_end

ValidSignalsForMessages(signals_end, begin, end) == begin <= signals_end /\ signals_end <= end
=============================================================================
