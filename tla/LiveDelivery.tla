----------------------------- MODULE LiveDelivery -----------------------------
(***************************************************************************)
(* What server-interactive mode promises about events (docs/sync.md: "An   *)
(* event not yet reflected is sent again after a reconnect, and the server *)
(* applies each number once. Nothing is lost or doubled"), whatever        *)
(* happens to connections, sessions and instances: the state the client    *)
(* shows is always that of the first few events it sent, in the order it   *)
(* sent them, and never goes back. shown has each event once: that nothing *)
(* is doubled is not promised here, since Live does not keep it (`stale`). *)
(***************************************************************************)
EXTENDS Naturals, Sequences

VARIABLES
    sent,   \* events sent: 1..sent
    shown   \* the events in the state on screen, in the order they took effect

Init == sent = 0 /\ shown = <<>>

Send == sent' = sent + 1 /\ UNCHANGED shown

Show ==
    /\ \E n \in Len(shown)..sent : shown' = [i \in 1..n |-> i]
    /\ UNCHANGED sent

Spec == Init /\ [][Send \/ Show]_<<sent, shown>>
=============================================================================
