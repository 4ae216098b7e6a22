----------------------------- MODULE MCScheduler -----------------------------
(* Model-checking instances of Scheduler: small numbers of tasks, the mixes  *)
(* of spawn kinds whose interaction a run is about, and the thread that      *)
(* cancels each kind.                                                        *)
EXTENDS Scheduler

PoolTasks == {"Cancel", "Defer"}
UiTasks == {"Local", "Collect"}

SafetyMixes == {PoolTasks, UiTasks}

Nobody == {}
TheUiThread == {"ui"} \X Kinds
EitherThread == {<<"other", "Cancel">>, <<"other", "Defer">>,
                 <<"other", "Local">>, <<"ui", "Collect">>}
=============================================================================
