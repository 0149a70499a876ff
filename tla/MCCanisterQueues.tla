--------------------------- MODULE MCCanisterQueues ---------------------------
(***************************************************************************)
(* Model checking of CanisterQueues: message sizes and payments.           *)
(***************************************************************************)
EXTENDS CanisterQueues

\* A small message, and one that is larger than the slot of a response.
TwoPayloads == {[bytes |-> 1, cycles |-> 0], [bytes |-> 3, cycles |-> 1]}

OnePayload == {[bytes |-> 1, cycles |-> 1]}
=============================================================================
