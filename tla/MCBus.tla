--------------------------------- MODULE MCBus ---------------------------------
(* Model-checking instance of Bus: two messages published exactly once, the  *)
(* second retained, to subscriptions at least once and exactly once, and a   *)
(* client that connects with and without a clean session.                    *)
EXTENDS Bus

TwoOnce == <<2, 2>>
=============================================================================
