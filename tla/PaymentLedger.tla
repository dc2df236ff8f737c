--------------------------- MODULE PaymentLedger ---------------------------
(***************************************************************************)
(* What a channel promises about the payments (HTLCs) that cross it, with  *)
(* no word on how.  A payment is offered, and may be lost again as long as *)
(* only the one who offered it is bound; the other party locks it in, and  *)
(* then it stays until it is fulfilled or failed, once and for all.  The   *)
(* wallet that pays learns the outcome in the very step that makes it      *)
(* final, so it never acts on an outcome that could still be undone.       *)
(*                                                                         *)
(* One commitment carries any number of payments along, so several may     *)
(* move in one step.  LNChannel is shown to implement this module.         *)
(***************************************************************************)
EXTENDS Naturals

CONSTANTS
    Party,      \* the two parties
    Ids         \* the ids of the payments a party may offer

VARIABLES
    payment,    \* payment[p][id]: the state of payment id that p makes
    told        \* told[p]: the outcomes that the wallet of p was told

ledgerVars == <<payment, told>>

Outcome == {"fulfilled", "failed"}
State   == {"none", "offered", "locked"} \cup Outcome

LedgerTypeOK ==
    /\ payment \in [Party -> [Ids -> State]]
    /\ told \in [Party -> SUBSET (Ids \X Outcome)]

LedgerInit ==
    /\ payment = [p \in Party |-> [id \in Ids |-> "none"]]
    /\ told = [p \in Party |-> {}]

(* Offer, lose, lock in, and resolve.  An outcome is never left again.       *)
Move == {<<"none", "offered">>, <<"offered", "none">>, <<"offered", "locked">>}
          \cup {<<"locked", outcome>> : outcome \in Outcome}

(* A wallet is told of what was resolved in this step; a crash may cut that  *)
(* short, but not before the first.  Each variable is bound once, because the *)
(* mapping of an implementation is evaluated at each use.                    *)
LedgerNext ==
  \E now \in {payment}, next \in {payment'}, known \in {told}, knows \in {told'} :
    \A p \in Party :
      LET moved == {id \in Ids : next[p][id] # now[p][id]}
          final == {<<id, next[p][id]>> : id \in {id \in moved : next[p][id] \in Outcome}}
      IN  /\ \A id \in moved : <<now[p][id], next[p][id]>> \in Move
          /\ known[p] \subseteq knows[p]
          /\ knows[p] \subseteq known[p] \cup final
          /\ final # {} => knows[p] # known[p]

LedgerSpec == LedgerInit /\ [][LedgerNext]_ledgerVars
=============================================================================
