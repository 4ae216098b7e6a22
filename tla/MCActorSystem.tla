---------------------------- MODULE MCActorSystem ----------------------------
(* Model-checking instances of ActorSystem. *)
EXTENDS ActorSystem
==============================================================================
