------------------------------- MODULE Pipeline -------------------------------
(***************************************************************************)
(* The event queue and the job queue together, as a server uses them: the  *)
(* handler of an event enqueues a job under the event's id, and workers    *)
(* run it.  Each process has a Jobs worker, and some an EventRunner, on    *)
(* one database; a process dies and starts with what it has.               *)
(***************************************************************************)
EXTENDS Jobs, Events

CONSTANT MaxDeaths  \* bound: processes that die

ASSUME PipelineAssumption == Runners \subseteq Procs /\ Keys = Events /\ MaxDeaths \in Nat

VARIABLE deaths

vars == <<jobsVars, eventsVars, deaths>>

TypeOK == JobsTypeOK /\ EventsTypeOK /\ deaths \in 0..MaxDeaths

Init == JobsInit /\ EventsInit /\ deaths = 0

Start(p) == JobsOpen(p) /\ UNCHANGED <<eventsVars, deaths>>

Die(p) ==
    /\ deaths < MaxDeaths /\ deaths' = deaths + 1
    /\ WorkerDies(p)
    /\ IF p \in Runners THEN RunnerDies(p) ELSE UNCHANGED eventsVars

Arrives(e) == Publish(e) /\ UNCHANGED <<jobsVars, deaths>>

Take(p) == Up(p) /\ TakeBatch(p) /\ UNCHANGED <<jobsVars, deaths>>

\* The handler: enqueue(job, Some(event.id)), failing if that does.
HandlerEnqueues(p, e) == Handle(p, e, TRUE) /\ Enqueue(e) /\ UNCHANGED deaths
HandlerFails(p, e) == Handle(p, e, FALSE) /\ UNCHANGED <<jobsVars, deaths>>

RunnerStep(p) ==
    \/ Take(p)
    \/ \E e \in Events : HandlerEnqueues(p, e) \/ HandlerFails(p, e)
    \/ \E e \in Events : Record(p, e) /\ UNCHANGED <<jobsVars, deaths>>

Work(p) == WorkerStep(p) /\ UNCHANGED <<eventsVars, deaths>>

Next ==
    \/ \E p \in Procs : Start(p) \/ Die(p) \/ Work(p)
    \/ \E p \in Runners : RunnerStep(p)
    \/ \E e \in Events : Arrives(e)

\* Processes are started again, and their runners and workers poll.  Nothing
\* makes an event arrive, a handler or job succeed, or a process die.
Fairness ==
    /\ \A p \in Procs : WF_vars(Start(p)) /\ WF_vars(Work(p))
    /\ \A p \in Runners : WF_vars(RunnerStep(p))

Spec == Init /\ [][Next]_vars /\ Fairness

-----------------------------------------------------------------------------
(* Properties. *)

\* What is published is worked or reported, in the end: its job is done or
\* dead, or the event is a dead letter, whatever processes die.
WorkFollows ==
    \A e \in Events :
        events[e].status = "ready" ~> jobs[e].status \in Settled \/ e \in dead_letters
=============================================================================
