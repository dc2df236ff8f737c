---------------------------- MODULE MCWalletSync ----------------------------
(* Constants for model-checking WalletSync. *)
EXTENDS WalletSync

(* t and u spend the same coin of somebody else; v spends what t pays. *)
MCInputs == ("t" :> {"o"}) @@ ("u" :> {"o"}) @@ ("v" :> {"t"})
MCPays == ("t" :> {"a"}) @@ ("u" :> {"b"}) @@ ("v" :> {"b"})

(* t can be in either block at a height, at another, or in none; or u can be. *)
MCBlocks == {"g", "a1", "a2", "b1", "b2", "e1", "e2", "f2", "h2"}
MCPrevBlock == ("a1" :> "g") @@ ("a2" :> "a1") @@ ("b1" :> "g") @@ ("b2" :> "b1")
               @@ ("e1" :> "g") @@ ("e2" :> "e1") @@ ("f2" :> "e1") @@ ("h2" :> "e1")
MCBlockTxs == ("g" :> {}) @@ ("a1" :> {"t"}) @@ ("a2" :> {"v"}) @@ ("b1" :> {"t"}) @@ ("b2" :> {})
              @@ ("e1" :> {}) @@ ("e2" :> {"t"}) @@ ("f2" :> {"u"}) @@ ("h2" :> {})
MCChainOf == ("g" :> "A") @@ ("a1" :> "A") @@ ("a2" :> "A") @@ ("b1" :> "B") @@ ("b2" :> "B")
             @@ ("e1" :> "E") @@ ("e2" :> "E") @@ ("f2" :> "F") @@ ("h2" :> "H")
MCNothing == {}
MCSynced == {"synced"}
MCReturn == {"return"}
MCContended == {"contended"}
=============================================================================
