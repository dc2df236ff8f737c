---------------------------- MODULE MCHTLCSwitch ----------------------------
(* Constants for model-checking HTLCSwitch: what is being paid. *)
EXTENDS HTLCSwitch, TLC

CONSTANTS p, q, h1, h2, h3, a, b, c

(* Nothing but an invoice a for 2, which p and q can pay in parts. *)
Invoice ==
    [peers |-> {p, q}, peer |-> (h1 :> p) @@ (h2 :> q) @@ (h3 :> q),
     key |-> [h \in Htlc |-> a],
     sent |-> {h1, h2},
     amount |-> [h \in Htlc |-> 1],
     total |-> (a :> 2) @@ (b :> 1) @@ (c :> 1),
     kind |-> [k \in Key |-> "invoice"],
     parent |-> [k \in Key |-> None],
     mpp |-> {a}, hold |-> {}, dontExpire |-> {}, bundle |-> {}]

(* HTLCs that each pay all of an invoice that does not allow parts. *)
PaidTwice == [Invoice EXCEPT !.total[a] = 1, !.mpp = {}]
(* A hold invoice of the user. *)
Hold == [Invoice EXCEPT !.hold = {a}, !.dontExpire = {a}]
(* A swap, a, bundled with its prepayment, b. *)
Swap == [Invoice EXCEPT !.peers = {p}, !.peer = [h \in Htlc |-> p],
                        !.key = (h1 :> a) @@ (h2 :> b) @@ (h3 :> b),
                        !.total[a] = 1, !.mpp = {}, !.hold = {a}, !.bundle = {a, b}]
(* Two parts of a trampoline payment to a. *)
Parts == [Invoice EXCEPT !.key = (h1 :> b) @@ (h2 :> c) @@ (h3 :> c),
                         !.kind[b] = "part", !.kind[c] = "part",
                         !.parent[b] = a, !.parent[c] = a]
(* An HTLC for the next hop. *)
Forward == [Invoice EXCEPT !.peers = {p}, !.peer = [h \in Htlc |-> p], !.sent = {h1},
                           !.total[a] = 1, !.kind[a] = "forward"]
(* Trampoline forwarding of two HTLCs. *)
Trampoline == [Invoice EXCEPT !.kind[a] = "trampoline"]

MCMost == {Invoice, PaidTwice, Hold, Swap, Parts, Forward, Trampoline}
MCSome == {Invoice, PaidTwice, Swap, Parts, Forward, Trampoline}
MCInvoice == {Invoice}
MCForward == {Forward}
=============================================================================
