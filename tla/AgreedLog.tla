----------------------------- MODULE AgreedLog -----------------------------
(***************************************************************************)
(* What consensus promises to message routing: the replicas of a subnet    *)
(* execute one sequence of blocks.  The log is only ever extended, every   *)
(* block of it names the one before it as its parent, and the state of a   *)
(* replica is at all times the outcome of executing some prefix of it: it  *)
(* moves forward by delivering batches or by a state sync, and backward    *)
(* only when a replica restarts from a checkpoint.                         *)
(***************************************************************************)
EXTENDS Naturals, Sequences

CONSTANTS Replicas,  \* the honest replicas of the subnet
          parent,    \* the parent of each block
          Genesis    \* the block everybody starts from

VARIABLES log,       \* the agreed blocks, by height
          executed   \* per replica: the blocks behind its current state

vars == <<log, executed>>

(* Each block of s is a child of its predecessor, the first one of Genesis. *)
Linked(s) ==
    \A i \in DOMAIN s : parent[s[i]] = IF i = 1 THEN Genesis ELSE s[i - 1]

Init ==
    /\ log = <<>>
    /\ executed = [r \in Replicas |-> <<>>]

(* Agreement is reached on one or more further blocks. *)
Extend ==
    LET old == log
        new == log'
    IN  /\ UNCHANGED executed
        /\ Len(new) > Len(old)
        /\ SubSeq(new, 1, Len(old)) = old
        /\ Linked(new)

(* r moves to another point of the log: batches, a state sync or a restart. *)
Move(r) ==
    /\ executed'[r] # executed[r]
    /\ \E k \in 0..Len(log) : executed' = [executed EXCEPT ![r] = SubSeq(log, 1, k)]
    /\ UNCHANGED log

Next == Extend \/ \E r \in Replicas : Move(r)

Spec == Init /\ [][Next]_vars
=============================================================================
