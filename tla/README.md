# RustNative: a TLA+ verification project

This directory specifies and verifies the parts of RustNative whose correctness
depends on interleavings, crashes, lost messages and ordering: the task scheduler of
`rustnative-core`; the workflows, actors and events of `rustnative-durable`; the
job queue of `rustnative-server`; replica synchronisation, replicated data types,
live sessions and the message bus of `rustnative-sync`; and the queries and mutations
of `rustnative-data`. TLC checks each on small instances. TLAPS proves the safety
properties of all of them for every value of the constants.

Paths below are relative to `crates/`. `PROJECT.json` maps each definition to the
lines it models, each property to a mutation of the code that breaks it, and lists
the hazards and findings.

## 1. Inventory

| Component | State | Operations | Hard behaviour |
|---|---|---|---|
| Scheduler and task scopes (`rustnative-core/src/scheduler`) | registry of tasks per component, once-flags, cancel flags, suspension (parked wakers, cancel list), result queue, host waker, local pool | spawn (four ways), register, settle, cancel, cancel_all, suspend, resume, drop, set_waker, host_waker, drain | worker threads, UI thread and other threads meet in every lock region; lost wake-ups; cancel against completion; drop in mid-flight |
| Result pump (`component/tree.rs`, `pump_tasks`) | drained batch | sweep local pool, drain, deliver, run handlers | handlers cancel tasks of the batch being delivered |
| Executors (`scheduler/executor.rs`, `host.rs`) | task queue, timers | spawn, poll, abort | wakers taken before a wake callback exists |
| Durable workflows (`rustnative-durable/src/workflow.rs`) | SQLite tables: executions, journal, signals, versions; a context per run | start, signal, run_until_idle, step, transactional_step, sleep, signal, version, compensate | death between any two statements; replay; early wake-ups; deployments; two engines on one database |
| Durable actors (`actor.rs`) | map of mailboxes, one task per instance, storage and alarm rows | ask, mailbox, evict, set_alarm, fire_alarms | eviction against lookup and send; panics; restart |
| Event queue (`events.rs`) | events, dead letters | publish, run_batch, replay | no claim; two-statement dead-lettering |
| Job queue (`rustnative-server/src/jobs.rs`) | job rows | enqueue, work_one, tick, requeue on start | several processes; crash loops; stale workers |
| Replica sync (`rustnative-sync/src/replica.rs`, `clock.rs`) | pending writes, cursor, server records and sequence, logical clock | put, delete, snapshot, restore, sync (push, pull) | lost replies and resends; late pushes; conflict policies; restarts from old snapshots |
| Replicated data types (`crdt.rs`) | counters, registers, maps, sets, sequences | local edits, merge | copies lost, doubled, reordered; concurrent edits |
| Live sessions (`live.rs`) | client state, outbound queue, sessions and their map, connections | connect, send, acknowledge, attach, detach, reap, drain | detach of an old connection after a new attach; resends; drains and crashes |
| Message bus, MQTT (`bus.rs`, `mqtt.rs`) | sessions, retained messages, exactly-once ids, deliveries in flight | connect, subscribe, publish, acknowledge, requeue, lost | reconnect and takeover; packet ids that start again; keep-alive |
| Queries and mutations (`rustnative-data/src/query.rs`, `mutation.rs`) | slots and metas of the cache, fetch tasks, observers, sends, offline queue in memory and in the state store | use_query, prefetch, invalidate, fetch_next_page, mutate, set_online, replay | invalidation during a fetch; optimistic updates and roll-backs; replay against failing sends; restart |
| Component tree, reconciliation, layout, style, animation, navigation | trees, geometry | render, diff, measure | sequential; data rather than protocol |
| Backends (Windows, web, headless), server HTTP, tools, macros | platform objects, files | platform calls | I/O and code generation |

A component owns a `TaskScope`. The scope spawns through the `Scheduler` on an
executor (worker threads) or on the `LocalPool` (UI thread). A finished task pushes
its result on the scheduler's queue and calls the host's waker; the host calls
`ComponentTree::pump_tasks`, which drains the queue and delivers. A `QueryClient` runs
its fetches and sends as local tasks of the tree and keeps its offline queue in a
`StateStore`. The durable crate and the job queue run in server processes that share
only an SQLite database; an event's handler typically enqueues a job. A
`SyncedCollection` calls a `SyncServer` through a transport; a `LiveClient` and an MQTT
client each hold one connection at a time to a server that keeps a session for them.

What makes each correct: the registry is exactly the unsettled tasks; nothing
outlives its component; no result is lost, doubled or delivered after cancellation;
no wake-up is missed. Transactional effects and signals happen exactly once, a timer
is never passed early, replay follows the journal, a failed workflow is compensated
once and in order. An actor id has one instance, no update is lost, every ask
returns. A job that has ended stays ended, dead letters agree with events, published
work is done or reported. Replicas converge and a cursor never runs ahead of what was
applied. A live client shows a growing prefix of its events. What a persistent
session owes is received. What a query shows as fresh is true, and an offline mutation
stays queued until it is answered.

## 2. Modules

| Module | What it is |
|---|---|
| `Scheduler`, `MCScheduler`, four `.cfg` | one component's scope, its tasks, the scheduler, local pool and pump |
| `SchedulerProofs` | types, registry, settlement, unmount, suspension, local wake-ups, order of results |
| `Workflow`, `MCWorkflow`, two `.cfg` | one execution of a durable workflow; two programs for TLC |
| `WorkflowProofs` | exactly-once effects and signals, timers, replay, compensation, outcome |
| `ActorSystem`, `MCActorSystem` | one id of a `LocalActorSystem` |
| `ActorSystemProofs` | one instance, no lost update, asks applied once |
| `Jobs`, `Events` | the job queue; the event queue with its dead letters |
| `Pipeline`, `MCPipeline` | both composed: an event's handler enqueues a job |
| `PipelineProofs` | types and the bound on attempts; ended jobs stay ended; dead letters agree |
| `Sync`, `MCSync` | one replicated collection, its server, clocks and transport |
| `Crdt` | the replicated data types. No TLC instance: replicas, stamps and copies are unbounded, and the theorems say it all |
| `ReplicationProofs` | cursors, settlement, the server's and the clocks' order of `Sync`; convergence of `Crdt` |
| `LiveDelivery` | abstract: what server-interactive mode promises about events |
| `Live`, `MCLive` | the client, connections, sessions and instances; implements `LiveDelivery` |
| `LiveProofs` | types, no session leaked, events applied once; `Live` implements `LiveDelivery` |
| `Bus`, `MCBus` | the broker's session of one MQTT client and both ends of its connections |
| `BusProofs` | what is owed is kept, what is acknowledged is gone |
| `QueryClient`, `MCQueryClient` | cached queries, observers, optimistic mutations, the offline queue |
| `QueryClientProofs` | fresh results are true, the queue keeps its own, invalidations are answered |

Definitions named `Mut...` are faulty variants of the definition that follows
them. No specification uses them; substituting one shows that a property can fail.

History variables (`clobbered`, `superseded`, `rewound`, `stale`, `unwelcomed`, `lost`, `overtaken`,
`uncounted`, `shared`, `halfway`, `doubled`, and `late` and `swallowed` of an entry) record
that something happened which the code does not guard against, and the properties
name it as their exception. Each is needed: TLC finds a counterexample without it.

### Scheduler

Every lock region and every atomic access that another thread can see is one
action. `run[t]` is where the executor is with task `t`: `polling`, then `value` (the
future returned), `push`, `wake`, `settle`, `calling` (inside the settlement
callback), `finished`; a gated task may be `parked`. `ui` is where the UI thread is:
between spawn and registration, between set_waker's three steps, or within
`pump_tasks` (`local`, `drain`, `deliver`, `handling`). `TaskHandle::cancel` is four
steps (flag, abort, once-flag, callback) and runs on the UI thread and on another
thread at once. The registry entry of a task is absent, a live handle or the
tombstone of a task that settled before it was registered.

Kinds: `Complete`, `Cancel`, `Defer` are the `SuspendRule`s of `spawn_with`, `Collect`
is `collect` (through `spawn_posting`), `Local` is `spawn_local`.

Abstractions:
- message contents are left out; a result is its task and its number;
- a task waits for its event (`waiting`) and the event may come at any time (`Woken`),
  also if the task never asked for one;
- resume takes the wakers and wakes the tasks in one step, because a later wake looks
  like a worker that polls later;
- the local pool restarts its sweep after each task it made progress with;
- a handler of a delivered message may cancel; what else it does (spawning through a
  stored scope) touches only new tasks and is modelled after the pump. Unmounting comes
  with the render pass that ends the pump. A panicking handler, which the tree catches
  and reports, is not modelled;
- the waker is installed once; replacing it is not modelled;
- a panic in a pool future ends the task without settlement, as in the code. A
  panic in a local future unwinds into the host and is not modelled;
- the executor is external: it polls ready tasks, and drops aborted ones when it
  is not polling them.

### Workflow

The workflow's code is the constant `Program`, run from the top on every pick-up. One
statement or transaction is one action. A runner is a process calling
`run_until_idle`: it selects the execution, and comes to it later (`selected`), when
another runner may have run it. A process death (`Crash`) leaves only the database.

Abstractions:
- a step's work outside the database and the recording of its result are one action:
  dying between them leaves the database as dying before them does, and the code
  promises at-least-once for such a step;
- steps in `MayFail` fail always or never, decided at the start; steps in `Flaky` may
  differ from one run to the next;
- results and payloads are left out, and with them the failure to decode a recorded one;
- `since` marks an operation that exists only in the new behaviour of a `version()`
  change; `Deploy` happens when no runner is in the middle of a run;
- a second row at a position is refused by the primary key and the run fails, which
  is also what a busy database does;
- the clock does not go back;
- a program has distinct names, no branches (but those of `version`), and asks each
  `version()` before the operations it governs (`ProgramAssumption`).

### ActorSystem

One id. A mailbox is its index; `inst[i]` follows the task from `starting` through
`up`, `handling`, `put` to `closing` and `gone`. The actor is the ordinary stateful one: it
loads its state when it starts, each input updates the copy in memory and puts it
back. `ask`'s match keeps its sender alive until the answer has come (`held`), which
delays the end of a displaced instance. A place of a mailbox nobody refers to is used
again. `Gone` is also a panicking handler. The history variable `clobbered` records that
`ask` removed a mailbox other than the one it found closed.

`Alarms` are calls of `set_alarm`. The row `alarm` holds the last of them (`superseded`
are those written over) and is `due` once its time has come, at once or at a later `Tick`.
One timer calls `fire_alarms`, which returns before the next call: it selects the row if
it is due, deletes whatever the row holds by then, and sends `Input::Alarm`. `lost` are
the alarms whose row is gone and that do not fire at their time: set for later over one
already selected, so that the `DELETE`, which names only the actor, takes it too; gone
down with the process, or with a closed or panicking instance; sent to one that had
ended. Apart from these four, an alarm that is not superseded is handled, not before
its time, by a new instance when none runs (`AlarmsFire`).

### Jobs, Events and Pipeline

Each SQL statement is one action. A worker selects a job, claims it (the claim's
`WHERE` repeats the status, not the attempt), runs it and records the outcome over
whatever the row has become. Opening the queue puts running jobs back. A runner takes
a batch without claiming it, handles its events, then records them one statement at a
time; a dead letter takes two. `Pipeline` gives each process a worker and perhaps a
runner on one database, and lets it die between any two statements. Time is left
out: a row may be due now or later.

Exceptions: `overtaken` (a process opened the queue while a live worker was running the
job, which is put back and may run twice, its first outcome overwritten); `uncounted`
(an attempt made from a selection older than another attempt, or whose process died,
is not held against the maximum); `shared` (two runners had the event in hand);
`halfway` (the runner died between the letter and the status).

### Sync

`sync` is four actions (push, its answer, pull, its answer). A write is
identified by the set of writes it builds on, and `Merge` is the union. The transport
may fail before or after the server has served the request, and a push may arrive after
its sender has given up. A restart takes the last snapshot and a new clock. `setup`
chooses policy, filters, schema versions and bounds at the start.

Exceptions: a write made on top of another not yet accepted has base 0 and is refused by
`ServerAuthority` even if nobody else wrote (`SettledFairly`); after a restart the clock
starts again and may stamp an edit earlier than what it edits (`rewound`).

### Crdt

Replicas edit their copy, send it, and merge any copy that was ever sent, any number
of times. Each copy goes with the edits it is to reflect. Two assumptions about the
application are built into the module: a replica continues from its newest copy, and
stamps come from one clock per replica. `value`, `iter` and `to_vec` are functions of
the copy and left out.

### Live

The client's `maintain` task (connect, resend, send, receive), a handler per
connection, a thread per session, `drain`, `reap`, a network that breaks connections
and instances that die. The state is the sequence of applied events; the tree
shows all but `Silent` ones. `InOrder` is the refinement: with `shown` the first
occurrences in the client's snapshot, `Live` implements `LiveDelivery`. A session may be
reaped, once it is marked detached, by its own client's hello (`Greet`) or at any time by another client's or by
`sessions()` (`Reap`), also between a handler's lookup and its attach. `Send` draws the
number and queues the event in one step: one thread, the UI's, calls `LiveClient::send`.
Two threads could queue their numbers in the other order; that is not modelled.

Exceptions: `stale` (an event still in the outbound queue is sent after a resend of it
was acknowledged, to a session that has never seen it, and is applied again);
`unwelcomed` (`accept` returns when the Welcome cannot be sent, after `detached_at` was
cleared: nothing reaps the session).

### Bus

One client, publishing and subscribing to one topic, next to a publisher in the
broker's process. Each `Broker` method is one action, and so is each packet read or
written at either end, with the three QoS flows, retained messages, clean and
persistent sessions, takeover and the keep-alive.

Exceptions (`lost`): what was in the channel of a connection that ended, and an
exactly-once publication whose packet id an earlier connection had used. Also seen:
a retained message is delivered again to each subscription; an old connection's `lost()`
takes the session of the new one offline until it connects again; the client never
sends PINGREQ, so an idle connection ends.

### QueryClient

Everything of the client runs on the UI thread, so a call and a resumption of a future
are one action each. An entry is a key's `Meta` and `Slot`; what a result contains is
the set of this client's mutations visible in it, `server` the set the server accepted.
`known` are the components counted as observers, `holds` those whose last render kept an
`Observer`, `leaving` the `settle_observer` tasks that have not run. A send is one of
`MaxSends` futures; a replayed one is the head of the queue. `Restart` loses everything
but the state store.

Abstractions: a result may turn stale, a retention timer fire and an interval pass at
any time; retries of a fetch are one request, answered once; a mutation edits and
invalidates one query; the payload, and what `Merge` makes of it, are left out; saving
the queue succeeds.

Exceptions: `swallowed` (an invalidation that finds a request in flight is deduplicated
against it, and forgotten when the older answer settles; a next page clears
`invalidated` although the earlier pages are as old as they were); `doubled` (a
mutation sent while a replay is under way finds the server unreachable and clears
`replaying`, `mutation.rs:333`; the next `set_online` starts a second replay beside the
first, each removes the first entry whatever it has sent, and a mutation is dropped
unsent although `docs/data.md` says "An entry leaves the queue only once it is sent").

## 3. Runs

| Run | Instance | Result |
|---|---|---|
| `sched_safety` | 2 tasks, every pair of kinds that interacts, waker at any time for Local and Collect, either thread cancels; 4.7 million states | exact registry, single settlement, nothing left after unmount, suspension rules, order of results, no lost local wake |
| `sched_live` | 2 tasks, Complete and Local, the UI thread cancels, fairness | with the waker installed first every result is collected, every cancelled task released |
| `sched_missed` | 1 task, waker at any time | **violated**: a completion in set_waker's window is missed |
| `sched_batch` | 2 tasks, a handler cancels | **violated**: a cancelled result of the same batch is delivered |
| `workflow` | program `Order`, 2 engines, 1 crash, 2 signals, a deployment, `ship` may fail, fairness; 234 thousand states | exactly-once effects and signals, timers, no divergence, compensation, termination |
| `workflow_flaky` | program `Payment`, 1 engine, 1 crash, `ship` flaky | **violated**: a compensation runs twice |
| `actors` | 2 callers, 2 asks, 3 mailboxes, 2 alarms, 1 crash, fairness; 571 thousand states | one instance and no lost update unless a mailbox was clobbered, asks applied once at most, every ask returns, every alarm fires, not before its time, or is superseded or lost in one of four known ways |
| `pipeline` | 2 processes with worker and runner, 1 event, 2 attempts each, 2 deaths, fairness; 355 thousand states | types and attempt bounds, ended jobs stay ended, letters agree, published work is done or reported |
| `sync` | 2 replicas, 13 setups (policies with faults, restarts, batches; clocks; filter; newer schema), at most 3 writes, fairness; 371 thousand states | cursor, fair settlement, server moves forward, edits are later, convergence |
| `live` | 2 events, one silent, 2 instances, 2 connections, 2 sessions, 1 fault, fairness; 296 thousand states | implements `LiveDelivery`, double application only if stale, no leaked session, every event reflected |
| `bus` | two messages published exactly once, the second retained, subscriptions at least once and exactly once, clean and persistent sessions, 2 connections, 1 break, fairness | nothing lost, acknowledged is finished, what is owed is received |
| `queries` | 1 paged query, 1 component, 2 mutations, 2 sends, 3 calls or deaths, conflicts retried; 2.0 million states | the queue keeps what is unanswered, fresh is true, an observed query flagged as invalidated is being fetched or its last fetch failed |

The violated runs are the findings of `PROJECT.json`:

1. `Scheduler::set_waker` says a racing completion costs "at most one extra wake, never a
   missed one"; one that pushes after the sample and reads the waker before it is
   published is missed (`scheduler/mod.rs:380`).
2. `TaskHandle::cancel` "prevents the task's result from ever being delivered"; `drain`
   looks at the flag once per batch (`scheduler/mod.rs:540`, `component/tree.rs:992`).
3. Compensations run "each once"; a failing step leaves a gap in the journal, and a crash
   while compensating followed by a successful replay compensates again
   (`workflow.rs:531`).

Other places where the code does not keep what it or its documents say are the named
exceptions of passing properties; TLC finds a counterexample to the property without
its exception and none with it. The code does not guard against these cases, and no
property catches them:

- an event is applied twice (`stale`, `DoubledOnlyIfStale`), although `docs/sync.md:70-72`
  says "the server applies each number once. Nothing is lost or doubled" and
  `live.rs:577` "the server applies each once": the event is still in the outbound queue
  when a resend of it is acknowledged, and goes out again to a session that has no
  record of it;
- an alarm is lost in one of four ways (`lost`, `AlarmsFire`), although `actor.rs:191-192`
  calls it durable;
- an actor has "one instance at a time", but `ask` removes whatever mailbox the map holds
  (`actor.rs:307`, `clobbered`);
- an offline mutation is dropped unsent by overlapping replays (`doubled`, `QueueKept`),
  against `docs/data.md:150`;
- an invalidation is forgotten when the answer of an older request settles, its flag
  cleared (`swallowed`, `FreshIsTrue`; `InvalidationAnswered` holds of the flag);
- a session whose Welcome cannot be sent is never reaped (`unwelcomed`,
  `SessionsAccounted`);
- a job that kills its process is attempted beyond its maximum (`uncounted`, `TypeOK` of
  `Pipeline`); an event with a dead letter is handled again (`shared`, `halfway`,
  `LettersAgree`);
- an exactly-once publication whose packet id an earlier connection used is taken for a
  repetition (`lost` of `Bus`, `NothingLost`).

### Bounds

Two tasks are enough for the scheduler's races: each race is between actors on one
task, or between two results in one batch. The kinds are split into mixes because
gated, cancelled and local tasks interact with different actors (the suspension, the
canceller, the pump). One stream item is enough to have an item and its end in flight;
two tasks put two entries in one queue. `WakerFirst` separates the behaviour before the
host is ready from the rest, so that finding 1 does not hide other lost wake-ups.
`Order` contains each operation of a context once, a compensation before and after the
wait, and a change in between; two engines and a crash give every pair of a stale run
and a fresh one. `MaxClock = 0` lets the clock pass only while a sleep waits for it. Two
signals cover an early and a superfluous one. Two callers and the timer are the
smallest set that clobbers a mailbox. Three mailboxes leave a new one free whenever one
is created: a fourth adds no state. Two alarms give one set over another, selected or not. Two processes and two deaths give a job taken over, finished by another
and overwritten, and a runner dead at every statement. Jobs and events of different
keys share nothing but batches. Two replicas suffice for each conflict: the server
settles writes one at a time against one record. In `live` one fault of any kind (a
break, a drain, dropped connections, a crash) and reaps at any time already gives a session and its
successor, with an old connection's detach after the new attach. In `bus` one break
gives a takeover and packet ids used again. In `queries`, keys do not interact but
through the queue and the sends, two mutations are a replay and a send beside it, and
three calls are enough for each exception to be needed; the proof covers any number.

### Deadlock and fairness

Deadlock is checked for the scheduler, workflow, actors and sync: `Quiescent`, `Done` and
`Idle` are the states in which each system has nothing left to do. `live`, `bus`,
`pipeline` and `queries` may stop, when their bounded users have nothing more to ask and
every server waits for them, so it is not checked there; liveness properties say what
must have happened by then.

- *Scheduler*: workers keep polling and a poll ends; a thread inside a call finishes it;
  the host loop serves its messages, so a wake is answered although the application keeps
  calling (strong fairness for the UI thread); `parking_lot` mutexes are eventually fair,
  so a worker gets the queue although drains repeat (strong fairness for a worker). The
  host installs its waker. Nothing makes the application act, or an awaited event come.
- *Workflow*: time passes, and something keeps calling `run_until_idle`, as its
  documentation asks. Signals, deployments and crashes are not fair.
- *ActorSystem*: tokio polls every task, handlers return, time passes, and `fire_alarms` is
  called on a timer, as its documentation asks. Asking, setting alarms, timing out, panicking and dying are not fair.
- *Pipeline*: processes are started again, and their runners and workers poll, as
  `run` and `run_until_idle` do. Events, deaths and the outcome of handlers and jobs are
  not fair.
- *Sync*: the application keeps calling `sync`. Writes, restarts, failures and late
  arrivals are not fair.
- *Live*: tasks and threads run; `maintain` reconnects. Users, breaks, drains, reaps
  and deaths are not fair.
- *Bus*: the broker's tasks and the client's reader run, and the application connects
  again.
- *QueryClient*: no liveness is stated.

## 4. Proofs

All theorems hold for every value of the constants under the named assumptions of the
modules, which only give the constants their types (`ProgramAssumption` of `Workflow`
also shapes the program, as said above).

**`SchedulerProofs`**: `TypeCorrect`, `RegistryCorrect`, `SettlementOnce`, `UnmountCorrect`,
`SuspensionCancels`, `ResumeWakesAll`, `LocalWakesKept`, `PublishAloneMisses`,
`EarlyWakerMissesNothing`, `ResultsDelivered`, `CancellationHolds`. The first four
properties are not inductive by themselves. The registry's content depends on who won
the once-flag, so `RegistryConsistent` needs `SettledOnce`: if two actors could be inside
the callback of a task, the second would turn the removed entry into a tombstone.
Both need `Spawned`: no list of handles contains a task not yet spawned.
`UnmountCancelsAll` speaks of the time after Drop has returned; `UnmountCovers` extends it
to the time when handles are still in `toCancel`, and holds at the unmount itself
because the registry is exact at that moment. Most actions touch none of these
variables: `FramePreserves` proves once that such a step keeps the invariant, the others
have a lemma each. `Gate` gives the rules of suspension their form while `suspend` is
still cancelling: a task it must cancel is on its list, cancelled, or among those it is
about to cancel, and the gate turns a poll away only in a suspended scope. A local task
that is polled behind the back of the sweep is still to be visited by it, so a sweep never
ends over a wake nobody heard. `NoMissedCompletion` is false (`sched_missed`), and two
theorems say how far: `PublishAloneMisses` proves that no step but `set_waker`'s publish
after an empty sample can take a queued result's wake away (`MissedOnlyAtPublish`), so
workers, sweeps, drains and cancellations are cleared; `EarlyWakerMissesNothing` proves
the property itself where every task is spawned after the waker is installed
(`WakerFirst = Kinds`), because then nothing is queued while the waker is missing
(`Early`). `ResultsInOrder` is inductive with the types alone, once
the order of one task's entries is followed through queue, batch and delivery.
`CancelledNeverDelivered` is false (`sched_batch`); `CancellationHolds` says how far: the
batch is empty outside a pump (`BatchOfPump`), and a task cancelled while the batch holds
none of its results stays cancelled, never enters a later batch and has nothing more
delivered (`CancelHolds`). So only a cancellation made inside a pump, by a message handler
or by another thread, can come too late, and only for results drained before it.

**`WorkflowProofs`**: `TypeCorrect`, `TransactionsOnce`, `SignalsKept`, `TimersHonoured`,
`ReplayNeverDiverges`, `CompensationsOnce`, `OutcomesTrue`. A row's
position does not name its operation, and `version()` changes which operations there
are. The invariant says where rows can be: an operation's row is at its place in the
behaviour that the recorded answers select (`Placed`), and `version()` answers newest
only while no row lies beyond the question (`NothingBeyond`), so a place once used never
moves. Hence an operation has at most one row, and the primary key makes its effect
happen once. `SignalsConserved` counts rows and waiting signals through the same places;
a timer is honoured because whatever lies behind it was written after its row was due.

The last three are about steps that fail always or never (`Flaky = {}`) and executions one
engine has at a time (`~overlapped` in the properties); finding 3 shows that the first
condition is needed. Then every run of the behaviour the answers of `version()` select
stops at the same first doomed operation (`Stops`), ordinary rows never belong to a doomed
one (`SureRows`), and each compensation has one place behind it, by its rank
(`UndoPlace`). Since `version()` answers newest only with nothing beyond, a deployment
moves none of these places while rows are there, and a replay finds its own rows or none.

**`ActorSystemProofs`**: `TypeCorrect`, `OneInstanceCorrect`, `UpdatesKept`, `AskedOnce`. Until
the map is clobbered, every task alive is the one the map holds (`OnlyRunning`), and what
it has loaded is what is stored (`MemoryFresh`). `AskedOnce` needs no such condition: a
message is in one mailbox, once, and its asker waits on exactly that mailbox.

**`PipelineProofs`**: `TypeCorrect`, `JobsSettle`, `LettersCorrect`. The types bound a job's
attempts, for any finite set of events. A job not overtaken has at most one
runner, and one only while its row says running (`RunnerIsAlone`); an event held by one
runner alone has its letter exactly when it is dead or its runner is between the two
statements. Each half is proved over its own steps; `NextSteps` maps every step of the
composition to a step or stutter of each.

**`QueryClientProofs`**: `TypeCorrect`, `QueueCorrect`, `FreshCorrect`, `InvalidationsAnswered`,
`SpinnersHonest`. The data of an entry says too little: a request in flight will overwrite
it. `Claims` collects what an entry counts as fresh and what the request in flight will
make count as fresh. No operator on entries adds a claim but the server's answer, true
when given (one lemma per operator); a mutation that becomes decided invalidates its
query, which removes every claim. A mutation is decided only when it is neither queued
nor on its way, which is where the queue's invariant comes in: until replays overlap
there is one replay, of the first entry (`OneReplay`), so what is removed is what was
answered.

**`ReplicationProofs`** (`Sync`): `TypeCorrect`, `CursorHonest`, `FairlySettled`, `ServerForward`,
`EditsLater`. `Reach` says of each copy, each saved one and each answer on its way what
it holds of the records its cursor covers: the server's copy, or a change the server
gave a later number. `History` is about all changes of a record there are, wherever they
are: their numbers come from the server (`Numbered`), and under `ServerAuthority` a
change contains whatever it was made from (`Lineage`), so what is based on the server's
copy adds one write to it, and what is older lacks one (`Descends`). Hence a write that
is refused had not seen the server's copy, or is contained in it already. `Clocked`: no
clock is behind the records of its replica. The newest change of a list is found by the
well-foundedness of the subset order on finite sets.

**`ReplicationProofs`** (`Crdt`): `Convergence`, `AddsWin`, `TextAnchored`. Every copy, on a
replica or under way, is a function of the edits it reflects (`Reflects`); each replica has
seen its own edits, so what it stamps next is new to everybody. Convergence follows,
since copies of the same edits are equal.

**`LiveProofs`**: `NoSessionLeaked`, `AppliedOnce`, `PrefixShown`. A handler serves a session of its own
instance while that runs (`Homed`), and a session is in the map and marked, served or
unwelcomed, or has been told to end (`Kept`). `Once` needs no order of messages: what the
client has acknowledged only grows; a state anywhere in the system contains only events
known, to the client or to its sender, to be reflected; and an event on its way to a
session is new to it or was sent again. Every step moves states and events only to where
that is still so.

`PrefixShown` is the refinement of `LiveDelivery`, and does need the order (`Ordered`). Every
state in the system is a `Prefix` of the events: each has its first occurrence behind
smaller ones only. An event on its way to a session comes next to, or is among, those
the session will have by then: from the state its connection starts with (`Gapless`) or from
the commands before it (`Sound`). Only its serving handler feeds a session (`Linked`), and the
queue of the client goes on where what it has handed over ends (`Following`). Snapshots
on their way to the client only grow, and the session the client will name next has all
of them (`Framed`, `Reading`), so a resend into a session of less is never shown. The
mapping, `Firsts`, drops repeated occurrences, and of a prefix it is `1..n`; every step then
shows the same prefix or a longer one.

**`BusProofs`**: `AtLeastOnce`, `AcknowledgedIsGone`. Within one connection packet ids are used
once, so an answer the broker reads is about the delivery it keeps under that id, and
the client answers only what its application has (`Answered`): what is owed is received
or held (`Owing`), whoever takes the session over. `AcknowledgedIsGone` looks at all
connections and the queue: a message that is not retained has one place among the
queue, the channels, the deliveries in flight and the packets on their way (`Placed`), so
that when its delivery is acknowledged there is no other copy.

Every safety property of a passing run is a theorem, and so is the refinement. Only
model-checked is liveness under fairness (`WF_` needs `ENABLED`), which is outside the
prover's reach. Nothing here needs induction over data but through the library's theorems
on finite sets: orders are stated by positions and sets, never by recursion.


## 5. Not modelled

`PROJECT.json` lists every component with the reason. Platform backends, HTTP,
generators and macros are I/O or code generation; layout, style, animation and input
are floating-point functions; the component tree and reconciliation are sequential
and data-heavy, and their results are drawing commands; operations, edge functions and
durable supervision are thin layers over the modelled journal and hosted services.
These are by far the largest part of the repository.

## 6. What could follow

- `Scheduler`: restart policies of `supervise`, background tasks, and the host executor,
  whose tasks polled before `set_wake` keep a waker that wakes nobody.
- `QueryClient`: liveness (a request that keeps failing aside, an observed stale query is
  fetched), several edits per mutation, a state store that fails.
- Navigation (stack, guards and deep links).
