------------------------------- MODULE MCXNet -------------------------------
(***************************************************************************)
(* Model checking of XNet: who calls whom.                                 *)
(***************************************************************************)
EXTENDS XNet, TLC

CONSTANTS A, B, c, d

\* Canister c is at A, d at B.
Homes == c :> A @@ d :> B

OneCall == {1}
TwoCalls == {1, 2}

\* c calls d, once or twice.
SameCallers == 1 :> c @@ 2 :> c
SameCallees == 1 :> d @@ 2 :> d
OneCaller == 1 :> c
OneCallee == 1 :> d
=============================================================================
