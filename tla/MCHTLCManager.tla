--------------------------- MODULE MCHTLCManager ---------------------------
(* Constants for model-checking HTLCManager. *)
EXTENDS HTLCManager

CONSTANTS us, them

MCOwner == {us, them}

(* HTLCs and changes of the feerate do not meet in the log: it is enough to *)
(* look at either, and at one initial feerate for the former.               *)
Unmixed ==
    LET fees == log.fee_updates[us] \o log.fee_updates[them]
    IN  \/ log.next_htlc_id = [p \in Owner |-> 0]
        \/ Len(fees) = 1 /\ fees[1].rate = 1
=============================================================================
