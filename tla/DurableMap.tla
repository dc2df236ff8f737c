----------------------------- MODULE DurableMap -----------------------------
(***************************************************************************)
(* What a wallet file promises to the wallet: a map that changes in memory *)
(* and can be saved.  The process may stop at any moment; when it starts   *)
(* again the map is what it was at some moment, not before the last save.  *)
(***************************************************************************)
EXTENDS Naturals

CONSTANTS
    Maps,       \* the values the map can have
    Empty       \* the one of a new wallet

VARIABLES
    now,        \* the map in memory; Empty when the process is not running
    since,      \* the values it has had since the last completed save
    running

vars == <<now, since, running>>

Init == /\ now = Empty
        /\ since = {Empty}
        /\ running = FALSE

Change == /\ running
          /\ now' \in Maps
          /\ since' = since \cup {now'}
          /\ UNCHANGED running

Save == /\ running
        /\ since' = {now}
        /\ UNCHANGED <<now, running>>

Stop == /\ running
        /\ running' = FALSE
        /\ now' = Empty
        /\ UNCHANGED since

Start == /\ ~ running
         /\ running' = TRUE
         /\ now' \in since
         /\ since' = {now'}

Next == Change \/ Save \/ Stop \/ Start

Spec == Init /\ [][Next]_vars
=============================================================================
