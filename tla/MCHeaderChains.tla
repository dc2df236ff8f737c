--------------------------- MODULE MCHeaderChains ---------------------------
(* Constants for model-checking HeaderChains. *)
EXTENDS HeaderChains

(* Three branches leave the genesis, and a fourth the last of them, so that *)
(* branches of branches swap, and an old branch is left behind.             *)
MCBlocks == {"g", "a1", "c1", "c2", "d1", "d2", "e2", "e3"}
MCPrevBlock == ("a1" :> "g") @@ ("c1" :> "g") @@ ("c2" :> "c1")
               @@ ("d1" :> "g") @@ ("d2" :> "d1") @@ ("e2" :> "d1") @@ ("e3" :> "e2")
MCGenesis == "g"

MCSymmetry == Permutations(Servers)
=============================================================================
