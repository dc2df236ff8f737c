---------------------------- MODULE MCTxBatcher -----------------------------
EXTENDS TxBatcher

CONSTANTS c1, c2, s1, o1, o2

MCCoins == {c1, c2}
MCOneSweep == {s1}
MCTwoPayments == {o1, o2}
MCValue == [o \in Coins \cup Sweeps |-> CASE o = c1 -> 4 [] o = c2 -> 5 [] o = s1 -> 1]
MCAmount == [p \in Payments |-> CASE p = o1 -> 1 [] p = o2 -> 2]
=============================================================================
