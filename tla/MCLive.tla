-------------------------------- MODULE MCLive --------------------------------
(* Model-checking instance of Live: an old and a new instance, and one       *)
(* fault: a break, dropped connections, a drain or a crash.                  *)
EXTENDS Live
=============================================================================
