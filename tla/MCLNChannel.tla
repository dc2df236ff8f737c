---------------------------- MODULE MCLNChannel ----------------------------
(* Constants for model-checking LNChannel. *)
EXTENDS LNChannel, TLC

CONSTANTS alice, bob

MCOwner  == {alice, bob}
MCAmount == (alice :> 2) @@ (bob :> 3)
MCOneFromAlice == (alice :> 1) @@ (bob :> 0)
MCTwoFromAlice == (alice :> 2) @@ (bob :> 0)
MCTwoAndOne == (alice :> 2) @@ (bob :> 1)
MCFeerates == {1, 2}
MCOneFeerate == {1}
=============================================================================
