------------------------------ MODULE Scheduler ------------------------------
(***************************************************************************)
(* Structured concurrency of one component: the Scheduler, the component's *)
(* TaskScope with its Suspension, the tasks it spawned and the host loop   *)
(* that pumps their results (rustnative-core, scheduler/ and               *)
(* component/tree.rs).                                                     *)
(*                                                                         *)
(* Actors: the UI thread, which owns the scope (an Rc) and runs spawn,     *)
(* suspend, resume, unmount, set_waker and pump_tasks; the executor's      *)
(* workers, which poll each pool task; one other thread holding clones of  *)
(* the task handles, which may cancel.  Every lock region and every atomic *)
(* access that another actor can observe is a step of its own.             *)
(***************************************************************************)
EXTENDS Integers, Sequences

CONSTANTS
    MaxTasks,     \* bound: tasks one behaviour spawns
    MaxItems,     \* bound: items one collected stream yields
    Mixes,        \* the ways of spawning that one behaviour may combine
    Cancellers,   \* who cancels what: pairs of a thread and a kind of task
    WakerFirst    \* kinds spawned only once the host has installed its waker

Kinds == UNION Mixes

ASSUME ConstantsAssumption ==
    /\ MaxTasks \in Nat /\ MaxItems \in Nat
    /\ Mixes \subseteq SUBSET {"Complete", "Cancel", "Defer", "Collect", "Local"}
    /\ Cancellers \subseteq {"ui", "other"} \X Kinds
    /\ WakerFirst \subseteq Kinds

Tasks == 1..MaxTasks
Threads == {"ui", "other"}

VARIABLES
    next_id,            \* the next TaskId
    kind,               \* how each task was spawned
    run,                \* where the executor is with each task
    items,              \* entries each task has pushed on completed
    cancelled,          \* TaskHandle.cancelled
    aborted,            \* ExecutorHandle::abort was called
    fired,              \* the once-flag around the settlement callback
    tasks,              \* TaskScopeInner.tasks: live handle, tombstone or nothing
    mounted,            \* the component, and with it its scope, exists
    suspended,          \* Suspension.suspended
    parked,             \* Suspension.parked: tasks whose waker is stored
    cancel_on_suspend,  \* Suspension.cancel_on_suspend
    completed,          \* SchedulerInner.completed
    waker,              \* SchedulerInner.waker is installed
    missed_wake,        \* SchedulerInner.missed_wake
    hostWake,           \* the host loop has been woken and has not pumped yet
    wakes,              \* local tasks whose host_waker call is still to be made
    ui,                 \* where the UI thread is
    current,            \* the task the UI thread is spawning
    sampled,            \* set_waker's already_completed || missed
    unswept,            \* local tasks the current pool sweep has still to visit
    batch,              \* drained results still to be delivered
    delivered,          \* results delivered to the component, per task
    toCancel,           \* handles each thread has still to cancel
    cancelPc,           \* where each thread is inside TaskHandle::cancel
    cancelling          \* the handle each thread is cancelling

taskVars == <<kind, run, items, cancelled, aborted, fired>>
scopeVars == <<tasks, mounted, suspended, parked, cancel_on_suspend>>
wakeVars == <<waker, missed_wake, hostWake, wakes>>
uiVars == <<ui, current, sampled, unswept, batch, delivered>>
cancelVars == <<toCancel, cancelPc, cancelling>>
vars == <<next_id, taskVars, scopeVars, completed, wakeVars, uiVars, cancelVars>>

-----------------------------------------------------------------------------
(* Executor states of a task. *)

Idle == {"ready", "waiting", "parked"}          \* not being polled
Busy == {"polling", "posting", "value", "push", "wake", "settle", "calling"}
Ended == {"finished", "dropped", "panicked"}
RunStates == {"none"} \union Idle \union Busy \union Ended

UiStates == {"idle", "register", "track", "publish", "catchup",
             "local", "drain", "deliver", "handling"}

Entries == [task : Tasks, item : Nat]

TypeOK ==
    /\ next_id \in 1..(MaxTasks + 1)
    /\ kind \in [Tasks -> Kinds \union {"none"}]
    /\ run \in [Tasks -> RunStates]
    /\ items \in [Tasks -> Nat]
    /\ cancelled \in [Tasks -> BOOLEAN]
    /\ aborted \in [Tasks -> BOOLEAN]
    /\ fired \in [Tasks -> BOOLEAN]
    /\ tasks \in [Tasks -> {"absent", "live", "tombstone"}]
    /\ mounted \in BOOLEAN
    /\ suspended \in BOOLEAN
    /\ parked \in SUBSET Tasks
    /\ cancel_on_suspend \in SUBSET Tasks
    /\ completed \in Seq(Entries)
    /\ waker \in BOOLEAN
    /\ missed_wake \in BOOLEAN
    /\ hostWake \in BOOLEAN
    /\ wakes \in SUBSET Tasks
    /\ ui \in UiStates
    /\ current \in Tasks \union {0}
    /\ sampled \in BOOLEAN
    /\ unswept \in SUBSET Tasks
    /\ batch \in Seq(Entries)
    /\ delivered \in [Tasks -> Nat]
    /\ toCancel \in [Threads -> SUBSET Tasks]
    /\ cancelPc \in [Threads -> {"none", "abort", "swap", "calling"}]
    /\ cancelling \in [Threads -> Tasks \union {0}]
    /\ ui \in {"register", "track"} => current \in Tasks
    /\ \A th \in Threads : cancelPc[th] # "none" => cancelling[th] \in Tasks

Init ==
    /\ next_id = 1
    /\ kind = [t \in Tasks |-> "none"]
    /\ run = [t \in Tasks |-> "none"]
    /\ items = [t \in Tasks |-> 0]
    /\ cancelled = [t \in Tasks |-> FALSE]
    /\ aborted = [t \in Tasks |-> FALSE]
    /\ fired = [t \in Tasks |-> FALSE]
    /\ tasks = [t \in Tasks |-> "absent"]
    /\ mounted = TRUE
    /\ suspended = FALSE
    /\ parked = {}
    /\ cancel_on_suspend = {}
    /\ completed = <<>>
    /\ waker = FALSE
    /\ missed_wake = FALSE
    /\ hostWake = FALSE
    /\ wakes = {}
    /\ ui = "idle"
    /\ current = 0
    /\ sampled = FALSE
    /\ unswept = {}
    /\ batch = <<>>
    /\ delivered = [t \in Tasks |-> 0]
    /\ toCancel = [th \in Threads |-> {}]
    /\ cancelPc = [th \in Threads |-> "none"]
    /\ cancelling = [th \in Threads |-> 0]

-----------------------------------------------------------------------------
(* Helpers. *)

Local(t) == kind[t] = "Local"
Gated(t) == kind[t] \in {"Defer", "Collect"}

\* TaskHandle::is_finished: a local handle also counts an abort request.
IsFinished(t) == run[t] \in Ended \/ (Local(t) /\ aborted[t])

\* The UI thread is at pc and not inside a call of TaskHandle::cancel.
UiAt(pc) == ui = pc /\ cancelPc["ui"] = "none" /\ toCancel["ui"] = {}

\* A handle exists once TaskScope::spawn has returned it.
Held(t) == t < next_id /\ ~(ui \in {"register", "track"} /\ current = t)

\* A local task runs on the UI thread, inside pump_tasks.
OnThread(t) == Local(t) => UiAt("local")
LocalRunning == \E u \in Tasks : Local(u) /\ run[u] \in Busy

\* TaskId::next fails on exhaustion; here it stops at the bound.
CanAllocate == next_id <= MaxTasks

\* TaskScope::register and TaskScope::settlement, on the registry entry of a
\* task, under the lock of the registry.
MutRegistered(entry) == "live"
Registered(entry) == IF entry = "absent" THEN "live" ELSE "absent"

Settled(entry) == IF entry = "absent" THEN "tombstone" ELSE "absent"

\* What the once-flag around the settlement callback answers.
MutAlreadyFired(t) == FALSE
AlreadyFired(t) == fired[t]

\* The handles Drop for TaskScopeInner and cancel_all collect.
MutLiveHandles == {}
LiveHandles == {t \in Tasks : tasks[t] = "live"}

\* spawn_with cancels a Cancel task at once in a scope already suspended.
MutCancelNow == {}
CancelNow == IF suspended THEN {current} ELSE {}

\* The tasks resume wakes.
MutUnparked(t) == FALSE
Unparked(t) == t \in parked /\ run[t] = "parked"

\* LocalHandle::abort asks the host for a pass over the local pool.
MutAbortWakes(t) == {}
AbortWakes(t) == IF kind[t] = "Local" THEN {t} ELSE {}

\* A worker that queued a result calls the waker, if there is one.
MutWakeHost == hostWake
WakeHost == hostWake \/ waker

\* host_waker leaves a flag when there is no waker yet.
MutMissRecorded == missed_wake
MissRecorded == missed_wake \/ ~waker

\* The entries drain drops.
MutDropCancelled(e) == tasks[e.task] # "live"
DropCancelled(e) == cancelled[e.task]

LocalsAlive == {t \in Tasks : Local(t) /\ run[t] \notin Ended}

\* Bound: the kinds spawned so far and k belong to one mix.
InMix(k) == \E mix \in Mixes : {kind[t] : t \in 1..(next_id - 1)} \union {k} \subseteq mix

-----------------------------------------------------------------------------
(* UI thread: spawning.  Scheduler::spawn_with_settlement,                 *)
(* spawn_local_with_settlement and spawn_posting hand the future to the    *)
(* executor; TaskScope::register then takes the registry lock; a Cancel    *)
(* task is last entered in cancel_on_suspend.                              *)

Spawn(k) ==
    /\ UiAt("idle") /\ mounted
    /\ CanAllocate
    /\ InMix(k)
    /\ k \in WakerFirst => waker
    /\ next_id' = next_id + 1
    /\ current' = next_id
    /\ kind' = [kind EXCEPT ![next_id] = k]
    /\ run' = [run EXCEPT ![next_id] = "ready"]
    /\ wakes' = IF k = "Local" THEN wakes \union {next_id} ELSE wakes
    /\ ui' = "register"
    /\ UNCHANGED <<items, cancelled, aborted, fired, scopeVars, completed,
                   waker, missed_wake, hostWake,
                   sampled, unswept, batch, delivered, cancelVars>>

Register ==
    /\ UiAt("register")
    /\ tasks' = [tasks EXCEPT ![current] = Registered(@)]
    /\ IF kind[current] = "Cancel"
         THEN ui' = "track" /\ current' = current
         ELSE ui' = "idle" /\ current' = 0
    /\ UNCHANGED <<next_id, taskVars, mounted, suspended, parked, cancel_on_suspend,
                   completed, wakeVars, sampled, unswept, batch, delivered, cancelVars>>

Track ==
    /\ UiAt("track")
    /\ cancel_on_suspend' =
           {t \in cancel_on_suspend : ~IsFinished(t) /\ ~cancelled[t]} \union {current}
    /\ toCancel' = [toCancel EXCEPT !["ui"] = CancelNow]
    /\ ui' = "idle"
    /\ current' = 0
    /\ UNCHANGED <<next_id, taskVars, tasks, mounted, suspended, parked, completed,
                   wakeVars, sampled, unswept, batch, delivered, cancelPc, cancelling>>

(* UI thread: suspension and unmounting. *)

Suspend ==
    /\ UiAt("idle") /\ mounted
    /\ suspended' = TRUE
    /\ toCancel' = [toCancel EXCEPT !["ui"] = cancel_on_suspend]
    /\ cancel_on_suspend' = {}
    /\ UNCHANGED <<next_id, taskVars, tasks, mounted, parked, completed, wakeVars,
                   uiVars, cancelPc, cancelling>>

\* Taking the wakers and waking the tasks is one step: a wake that comes
\* later looks like an executor that polls later.
Resume ==
    /\ UiAt("idle") /\ mounted
    /\ suspended' = FALSE
    /\ parked' = {}
    /\ run' = [t \in Tasks |-> IF Unparked(t) THEN "ready" ELSE run[t]]
    /\ UNCHANGED <<next_id, kind, items, cancelled, aborted, fired, tasks, mounted,
                   cancel_on_suspend, completed, wakeVars, uiVars, cancelVars>>

\* TaskScope::cancel_all: an effect re-runs, a screen abandons its work.
CancelAll ==
    /\ UiAt("idle") /\ mounted
    /\ LiveHandles # {}
    /\ toCancel' = [toCancel EXCEPT !["ui"] = LiveHandles]
    /\ UNCHANGED <<next_id, taskVars, scopeVars, completed, wakeVars, uiVars,
                   cancelPc, cancelling>>

\* The component's entry leaves the tree and Drop for TaskScopeInner runs.
Unmount ==
    /\ UiAt("idle") /\ mounted
    /\ mounted' = FALSE
    /\ toCancel' = [toCancel EXCEPT !["ui"] = LiveHandles]
    /\ UNCHANGED <<next_id, taskVars, tasks, suspended, parked, cancel_on_suspend,
                   completed, wakeVars, uiVars, cancelPc, cancelling>>

-----------------------------------------------------------------------------
(* Cancellation: TaskHandle::cancel sets the flag, aborts, settles.  The   *)
(* UI thread cancels handles a message handler holds; another thread may   *)
(* cancel the same ones.                                                   *)

CancelHandle(th, t) ==
    /\ <<th, kind[t]>> \in Cancellers
    /\ th = "ui" => UiAt("idle") \/ UiAt("handling")
    /\ cancelPc[th] = "none" /\ toCancel[th] = {}
    /\ Held(t)
    /\ toCancel' = [toCancel EXCEPT ![th] = {t}]
    /\ UNCHANGED <<next_id, taskVars, scopeVars, completed, wakeVars, uiVars,
                   cancelPc, cancelling>>

CancelFlag(th, t) ==
    /\ cancelPc[th] = "none" /\ t \in toCancel[th]
    /\ cancelled' = [cancelled EXCEPT ![t] = TRUE]
    /\ toCancel' = [toCancel EXCEPT ![th] = @ \ {t}]
    /\ cancelling' = [cancelling EXCEPT ![th] = t]
    /\ cancelPc' = [cancelPc EXCEPT ![th] = "abort"]
    /\ UNCHANGED <<next_id, kind, run, items, aborted, fired, scopeVars, completed,
                   wakeVars, uiVars>>

CancelAbort(th) ==
    LET t == cancelling[th] IN
    /\ cancelPc[th] = "abort"
    /\ aborted' = [aborted EXCEPT ![t] = TRUE]
    /\ wakes' = wakes \union AbortWakes(t)
    /\ cancelPc' = [cancelPc EXCEPT ![th] = "swap"]
    /\ UNCHANGED <<next_id, kind, run, items, cancelled, fired, scopeVars, completed,
                   waker, missed_wake, hostWake, uiVars, toCancel, cancelling>>

CancelSwap(th) ==
    LET t == cancelling[th] IN
    /\ cancelPc[th] = "swap"
    /\ fired' = [fired EXCEPT ![t] = TRUE]
    /\ cancelPc' = [cancelPc EXCEPT ![th] = IF AlreadyFired(t) THEN "none" ELSE "calling"]
    /\ cancelling' = [cancelling EXCEPT ![th] = IF AlreadyFired(t) THEN 0 ELSE t]
    /\ UNCHANGED <<next_id, kind, run, items, cancelled, aborted, scopeVars, completed,
                   wakeVars, uiVars, toCancel>>

CancelSettle(th) ==
    /\ cancelPc[th] = "calling"
    /\ tasks' = [tasks EXCEPT ![cancelling[th]] = Settled(@)]
    /\ cancelPc' = [cancelPc EXCEPT ![th] = "none"]
    /\ cancelling' = [cancelling EXCEPT ![th] = 0]
    /\ UNCHANGED <<next_id, taskVars, mounted, suspended, parked, cancel_on_suspend,
                   completed, wakeVars, uiVars, toCancel>>

-----------------------------------------------------------------------------
(* Workers (and the UI thread, for a local task): one poll of a task.      *)

SetRun(t, s) == run' = [run EXCEPT ![t] = s]

\* A poll begins.  Gated::poll decides and parks under the lock of parked.
Poll(t) ==
    /\ run[t] = "ready" /\ ~aborted[t]
    /\ Local(t) => UiAt("local") /\ ~LocalRunning /\ t \in unswept
    /\ IF Gated(t) /\ suspended
         THEN SetRun(t, "parked") /\ parked' = parked \union {t}
         ELSE SetRun(t, "polling") /\ parked' = parked
    /\ unswept' = IF Local(t) THEN LocalsAlive ELSE unswept
    /\ UNCHANGED <<next_id, kind, items, cancelled, aborted, fired, tasks, mounted,
                   suspended, cancel_on_suspend, completed, wakeVars,
                   ui, current, sampled, batch, delivered, cancelVars>>

\* The inner future is not ready.
PollPending(t) ==
    /\ run[t] = "polling" /\ OnThread(t)
    /\ SetRun(t, "waiting")
    /\ UNCHANGED <<next_id, kind, items, cancelled, aborted, fired, scopeVars, completed,
                   wakeVars, uiVars, cancelVars>>

\* The inner future returned; the end of a collected stream settles at once.
PollReady(t) ==
    /\ run[t] = "polling" /\ OnThread(t)
    /\ SetRun(t, IF kind[t] = "Collect" THEN "settle" ELSE "value")
    /\ UNCHANGED <<next_id, kind, items, cancelled, aborted, fired, scopeVars, completed,
                   wakeVars, uiVars, cancelVars>>

\* The future panics in a worker: nothing after the await runs.
PollPanics(t) ==
    /\ run[t] = "polling" /\ ~Local(t)
    /\ SetRun(t, "panicked")
    /\ UNCHANGED <<next_id, kind, items, cancelled, aborted, fired, scopeVars, completed,
                   wakeVars, uiVars, cancelVars>>

\* A collected stream yields an item; Poster::post drops it if cancelled.
StreamYields(t) ==
    /\ run[t] = "polling" /\ kind[t] = "Collect" /\ items[t] < MaxItems
    /\ ~cancelled[t]
    /\ SetRun(t, "posting")
    /\ UNCHANGED <<next_id, kind, items, cancelled, aborted, fired, scopeVars, completed,
                   wakeVars, uiVars, cancelVars>>

\* The value is there: the flag is loaded before the result is pushed.
CheckCancelled(t) ==
    /\ run[t] = "value" /\ OnThread(t)
    /\ SetRun(t, IF cancelled[t] THEN "settle" ELSE "push")
    /\ UNCHANGED <<next_id, kind, items, cancelled, aborted, fired, scopeVars, completed,
                   wakeVars, uiVars, cancelVars>>

\* completed.lock().push_back; drain holds the lock while it runs.
Push(t) ==
    /\ run[t] \in {"posting", "push"} /\ OnThread(t)
    /\ ui # "drain"
    /\ items' = [items EXCEPT ![t] = @ + 1]
    /\ completed' = Append(completed, [task |-> t, item |-> items[t] + 1])
    /\ SetRun(t, "wake")
    /\ UNCHANGED <<next_id, kind, cancelled, aborted, fired, scopeVars, wakeVars,
                   uiVars, cancelVars>>

\* The waker is read under its lock and called.
Wake(t) ==
    /\ run[t] = "wake" /\ OnThread(t)
    /\ hostWake' = WakeHost
    /\ SetRun(t, IF kind[t] = "Collect" THEN "polling" ELSE "settle")
    /\ UNCHANGED <<next_id, kind, items, cancelled, aborted, fired, scopeVars, completed,
                   waker, missed_wake, wakes, uiVars, cancelVars>>

\* task_settled(id): the once-flag, then the callback.
SettleSwap(t) ==
    /\ run[t] = "settle" /\ OnThread(t)
    /\ fired' = [fired EXCEPT ![t] = TRUE]
    /\ SetRun(t, IF AlreadyFired(t) THEN "finished" ELSE "calling")
    /\ UNCHANGED <<next_id, kind, items, cancelled, aborted, scopeVars, completed,
                   wakeVars, uiVars, cancelVars>>

SettleCall(t) ==
    /\ run[t] = "calling" /\ OnThread(t)
    /\ tasks' = [tasks EXCEPT ![t] = Settled(@)]
    /\ SetRun(t, "finished")
    /\ UNCHANGED <<next_id, kind, items, cancelled, aborted, fired, mounted, suspended,
                   parked, cancel_on_suspend, completed, wakeVars, uiVars, cancelVars>>

\* What the task waits for happens; a LocalWaker stores ready and then calls
\* the host waker.
Woken(t) ==
    /\ run[t] = "waiting"
    /\ SetRun(t, "ready")
    /\ wakes' = IF Local(t) THEN wakes \union {t} ELSE wakes
    /\ UNCHANGED <<next_id, kind, items, cancelled, aborted, fired, scopeVars, completed,
                   waker, missed_wake, hostWake, uiVars, cancelVars>>

\* The executor drops an aborted task it is not polling.
DropAborted(t) ==
    /\ aborted[t] /\ run[t] \in Idle
    /\ Local(t) => UiAt("local") /\ ~LocalRunning /\ t \in unswept
    /\ SetRun(t, "dropped")
    /\ unswept' = IF Local(t) THEN LocalsAlive \ {t} ELSE unswept
    /\ UNCHANGED <<next_id, kind, items, cancelled, aborted, fired, scopeVars, completed,
                   wakeVars, ui, current, sampled, batch, delivered, cancelVars>>

\* Scheduler::host_waker, called for a local task.
HostWaker(t) ==
    /\ t \in wakes
    /\ wakes' = wakes \ {t}
    /\ hostWake' = (hostWake \/ waker)
    /\ missed_wake' = MissRecorded
    /\ UNCHANGED <<next_id, taskVars, scopeVars, completed, waker, uiVars, cancelVars>>

-----------------------------------------------------------------------------
(* UI thread: Scheduler::set_waker samples the queue, publishes the waker, *)
(* and makes the catch-up call.                                            *)

SetWaker ==
    /\ UiAt("idle") /\ ~waker
    /\ sampled' = (completed # <<>>)
    /\ ui' = "publish"
    /\ UNCHANGED <<next_id, taskVars, scopeVars, completed, wakeVars,
                   current, unswept, batch, delivered, cancelVars>>

PublishWaker ==
    /\ UiAt("publish")
    /\ waker' = TRUE
    /\ sampled' = (sampled \/ missed_wake)
    /\ missed_wake' = FALSE
    /\ ui' = "catchup"
    /\ UNCHANGED <<next_id, taskVars, scopeVars, completed, hostWake, wakes,
                   current, unswept, batch, delivered, cancelVars>>

CatchUp ==
    /\ UiAt("catchup")
    /\ hostWake' = (hostWake \/ sampled)
    /\ sampled' = FALSE
    /\ ui' = "idle"
    /\ UNCHANGED <<next_id, taskVars, scopeVars, completed, waker, missed_wake, wakes,
                   current, unswept, batch, delivered, cancelVars>>

(* UI thread: the host, woken, calls ComponentTree::pump_tasks, which      *)
(* sweeps the local pool until it stalls, drains the queue and delivers.   *)

PumpTasks ==
    /\ UiAt("idle") /\ hostWake
    /\ hostWake' = FALSE
    /\ unswept' = LocalsAlive
    /\ ui' = "local"
    /\ UNCHANGED <<next_id, taskVars, scopeVars, completed, waker, missed_wake, wakes,
                   current, sampled, batch, delivered, cancelVars>>

\* The sweep visits a local task with nothing to do.
SweepSkips(t) ==
    /\ UiAt("local") /\ ~LocalRunning
    /\ t \in unswept
    /\ run[t] \in Ended \/ (run[t] # "ready" /\ ~aborted[t])
    /\ unswept' = unswept \ {t}
    /\ UNCHANGED <<next_id, taskVars, scopeVars, completed, wakeVars,
                   ui, current, sampled, batch, delivered, cancelVars>>

SweepStalls ==
    /\ UiAt("local") /\ ~LocalRunning
    /\ unswept = {}
    /\ ui' = "drain"
    /\ UNCHANGED <<next_id, taskVars, scopeVars, completed, wakeVars,
                   current, sampled, unswept, batch, delivered, cancelVars>>

\* Scheduler::drain filters entry by entry on the shared flag.
Drain ==
    /\ UiAt("drain")
    /\ IF completed = <<>>
         THEN /\ ui' = "deliver"
              /\ UNCHANGED <<completed, batch>>
         ELSE /\ completed' = Tail(completed)
              /\ batch' = IF DropCancelled(Head(completed))
                            THEN batch ELSE Append(batch, Head(completed))
              /\ ui' = ui
    /\ UNCHANGED <<next_id, taskVars, scopeVars, wakeVars,
                   current, sampled, unswept, delivered, cancelVars>>

\* One drained result goes to the component, if it is still in the tree.
Deliver ==
    /\ UiAt("deliver") /\ batch # <<>>
    /\ batch' = Tail(batch)
    /\ LET t == Head(batch).task IN
       IF mounted
         THEN /\ delivered' = [delivered EXCEPT ![t] = @ + 1]
              /\ ui' = "handling"
         ELSE UNCHANGED <<delivered, ui>>
    /\ UNCHANGED <<next_id, taskVars, scopeVars, completed, wakeVars,
                   current, sampled, unswept, cancelVars>>

\* The message handler returns (it may have cancelled a handle before).
HandlerReturns ==
    /\ UiAt("handling")
    /\ ui' = "deliver"
    /\ UNCHANGED <<next_id, taskVars, scopeVars, completed, wakeVars,
                   current, sampled, unswept, batch, delivered, cancelVars>>

PumpReturns ==
    /\ UiAt("deliver") /\ batch = <<>>
    /\ ui' = "idle"
    /\ UNCHANGED <<next_id, taskVars, scopeVars, completed, wakeVars,
                   current, sampled, unswept, batch, delivered, cancelVars>>

-----------------------------------------------------------------------------
\* Nothing is left to do: the component is gone, its tasks have ended and
\* nobody is inside a call.  The only state in which the system may stop.
Quiescent ==
    /\ ~mounted /\ UiAt("idle") /\ waker /\ ~hostWake /\ wakes = {}
    /\ cancelPc["other"] = "none" /\ toCancel["other"] = {}
    /\ \A t \in Tasks : run[t] \in Ended \union {"none"}
    /\ UNCHANGED vars

WorkerStep(t) ==
    \/ Poll(t) \/ PollPending(t) \/ PollReady(t) \/ PollPanics(t)
    \/ StreamYields(t) \/ CheckCancelled(t) \/ Push(t) \/ Wake(t) \/ SettleSwap(t) \/ SettleCall(t)
    \/ DropAborted(t)

CancelStep(th) ==
    \/ \E t \in Tasks : CancelFlag(th, t)
    \/ CancelAbort(th) \/ CancelSwap(th) \/ CancelSettle(th)

UiStep ==
    \/ Register \/ Track
    \/ PublishWaker \/ CatchUp
    \/ PumpTasks \/ (\E t \in Tasks : SweepSkips(t)) \/ SweepStalls
    \/ Drain \/ Deliver \/ HandlerReturns \/ PumpReturns

AppStep ==
    \/ \E k \in Kinds : Spawn(k)
    \/ Suspend \/ Resume \/ CancelAll \/ Unmount \/ SetWaker
    \/ \E th \in Threads, t \in Tasks : CancelHandle(th, t)
    \/ \E t \in Tasks : Woken(t)

Next ==
    \/ UiStep \/ AppStep
    \/ \E t \in Tasks : WorkerStep(t) \/ HostWaker(t)
    \/ \E th \in Threads : CancelStep(th)
    \/ Quiescent

Spec == Init /\ [][Next]_vars

\* Fairness: worker threads keep polling and a poll returns; a thread inside
\* a call finishes it; the host loop installs its waker and its message queue
\* is served in order, so a wake is answered and a handler returns although
\* the application keeps cancelling (hence strong fairness for the UI
\* thread); parking_lot's mutexes are eventually fair, so a worker is not
\* kept out of the queue by repeated drains (strong fairness for a worker).
\* Nothing makes the application spawn, suspend, resume, cancel or
\* unmount, and nothing makes the event a task waits for happen.
Fairness ==
    /\ SF_vars(UiStep)
    /\ WF_vars(SetWaker)
    /\ \A th \in Threads : WF_vars(CancelStep(th))
    /\ \A t \in Tasks : SF_vars(WorkerStep(t)) /\ WF_vars(HostWaker(t))

FairSpec == Spec /\ Fairness

-----------------------------------------------------------------------------
(* Properties. *)

Settling(t) ==
    \/ run[t] = "calling"
    \/ \E th \in Threads : cancelPc[th] = "calling" /\ cancelling[th] = t

Registering(t) == ui = "register" /\ current = t

\* The registry holds exactly the spawned tasks that have not settled, and a
\* tombstone exists only between a settlement and the register call it beat:
\* task_count never counts a settled task and no tombstone is stranded,
\* however completion, cancellation (twice, from two threads) and
\* registration interleave.
RegistryConsistent ==
    \A t \in Tasks :
        LET open == t < next_id /\ (~fired[t] \/ Settling(t)) IN
        tasks[t] = IF Registering(t) THEN (IF open THEN "absent" ELSE "tombstone")
                   ELSE (IF open THEN "live" ELSE "absent")

\* Settlement happens once: at most one actor is ever inside the callback of
\* a task, and only after winning the once-flag.
SettledOnce ==
    \A t \in Tasks :
        /\ Settling(t) => fired[t]
        /\ \A th \in Threads :
               cancelPc[th] = "calling" /\ cancelling[th] = t =>
                   /\ run[t] # "calling"
                   /\ \A o \in Threads \ {th} : ~(cancelPc[o] = "calling" /\ cancelling[o] = t)

\* Once the scope is dropped and its Drop has returned, every task it ever
\* spawned has been cancelled or had already settled by itself: an unmounted
\* component leaves no task behind.
UnmountCancelsAll ==
    ~mounted /\ toCancel["ui"] = {} =>
        \A t \in Tasks : t < next_id => cancelled[t] \/ fired[t]

\* While the scope is suspended (and suspend or spawn_with has returned), no
\* task spawned with SuspendRule::Cancel is still due to deliver: each is
\* cancelled or has settled.
SuspendCancels ==
    suspended /\ toCancel["ui"] = {} =>
        \A t \in Tasks : kind[t] = "Cancel" /\ Held(t) => cancelled[t] \/ fired[t]
                                                       \/ run[t] \in Ended

\* A Defer or stream task is never left parked in a scope that is shown:
\* resume wakes every task the gate turned away.
ParkedOnlyWhileSuspended ==
    \A t \in Tasks : run[t] = "parked" => suspended /\ t \in parked

\* The entries a task has pushed and the tree has not delivered are still
\* queued, each once and in order, as long as nobody cancelled the task and
\* its component is mounted: no result or stream item is lost, duplicated or
\* reordered between the worker and the component.
ResultsInOrder ==
    LET queue == batch \o completed IN
    \A t \in Tasks : mounted /\ ~cancelled[t] =>
        LET due == (delivered[t] + 1)..items[t] IN
        /\ \A k \in DOMAIN queue : queue[k].task = t => queue[k].item \in due
        /\ \A n \in due : \E k \in DOMAIN queue : queue[k] = [task |-> t, item |-> n]
        /\ \A j, k \in DOMAIN queue :
               j < k /\ queue[j].task = t /\ queue[k].task = t =>
                   queue[j].item < queue[k].item

\* Where a wake-up is still owed to the host.
WakeOwed ==
    \/ hostWake
    \/ ui = "catchup" /\ sampled
    \/ ui \in {"local", "drain"}

\* A queued result has someone about to wake the host for it: the worker that
\* pushed it, a wake the host has not answered, or set_waker's catch-up (the
\* comment in set_waker: "at most one extra wake, never a missed one").
NoMissedCompletion ==
    completed # <<>> /\ waker =>
        WakeOwed \/ \E t \in Tasks : run[t] = "wake"

\* A local task that is ready, or aborted and not yet dropped, has a wake on
\* its way to the host, also when host_waker fired before any waker existed
\* and also if it became ready behind the back of the running sweep.
NoMissedLocalWake ==
    \A t \in Tasks :
        Local(t) /\ (run[t] = "ready" \/ (aborted[t] /\ run[t] \in Idle)) =>
            \/ t \in wakes
            \/ ~waker /\ missed_wake
            \/ hostWake
            \/ ui = "catchup" /\ sampled
            \/ ui = "local" /\ t \in unswept

\* TaskHandle::cancel "prevents the task's result from ever being delivered
\* to the owning component": no result is handed to the component after its
\* handle was cancelled.
CancelledNeverDelivered ==
    [][\A t \in Tasks : delivered'[t] > delivered[t] => ~cancelled[t]]_vars

\* A cancelled task leaves the scope's registry and the executor lets go of
\* its future.
CancelReleases ==
    \A t \in Tasks : cancelled[t] ~> (run[t] \in Ended /\ tasks[t] = "absent")

\* A pushed result does not stay in the queue: the host is woken, drains it
\* and delivers it, or drops it because it was cancelled.
ResultsCollected ==
    \A t \in Tasks : run[t] = "wake" ~> (completed = <<>> /\ batch = <<>>)
=============================================================================
