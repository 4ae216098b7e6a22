--------------------------- MODULE SchedulerProofs ---------------------------
(***************************************************************************)
(* Theorems about Scheduler, for any number of tasks, any kinds, any       *)
(* cancellers: the registry of a task scope is exact, settlement runs      *)
(* once, dropping the scope cancels every task that has not settled,       *)
(* suspension cancels or parks what it must, no wake of a local task is    *)
(* lost, a completion is missed only at set_waker's publish, results       *)
(* arrive in order, and a cancellation comes too late only for the batch   *)
(* of the running pump.                                                    *)
(***************************************************************************)
EXTENDS Scheduler, SequenceTheorems, TLAPS

\* Every place a task identity can be stored holds a task already spawned,
\* and a task not spawned yet has neither run nor settled.
Spawned ==
    /\ current < next_id
    /\ \A t \in Tasks : t >= next_id => run[t] = "none" /\ ~fired[t]
    /\ \A t \in cancel_on_suspend : t < next_id
    /\ \A th \in Threads : cancelling[th] < next_id
    /\ \A th \in Threads : \A t \in toCancel[th] : t < next_id

\* UnmountCancelsAll while Drop is still cancelling.
UnmountCovers ==
    ~mounted => \A t \in Tasks :
        t < next_id => cancelled[t] \/ fired[t] \/ t \in toCancel["ui"]

\* The inductive invariant.
IInv ==
    /\ TypeOK
    /\ Spawned
    /\ SettledOnce
    /\ RegistryConsistent
    /\ UnmountCovers

USE ConstantsAssumption DEF Tasks, Threads, CanAllocate, Registered, Settled, AlreadyFired, Unparked,
    LiveHandles, CancelNow, AbortWakes, WakeHost, MissRecorded, DropCancelled

-----------------------------------------------------------------------------
(* Type correctness. *)

\* A new scheduler and an empty scope have the right types.
LEMMA InitType == Init => TypeOK
<1> SUFFICES ASSUME Init PROVE TypeOK
    OBVIOUS
<1> USE DEF Init
<1>1. next_id \in 1..(MaxTasks + 1) /\ current \in Tasks \union {0}
    OBVIOUS
<1>2. completed \in Seq(Entries) /\ batch \in Seq(Entries)
    OBVIOUS
<1>3. kind \in [Tasks -> Kinds \union {"none"}] /\ run \in [Tasks -> RunStates]
    BY DEF RunStates
<1>4. items \in [Tasks -> Nat] /\ delivered \in [Tasks -> Nat]
    OBVIOUS
<1>5. /\ cancelled \in [Tasks -> BOOLEAN]
      /\ aborted \in [Tasks -> BOOLEAN]
      /\ fired \in [Tasks -> BOOLEAN]
    OBVIOUS
<1>6. /\ toCancel \in [Threads -> SUBSET Tasks]
      /\ cancelPc \in [Threads -> {"none", "abort", "swap", "calling"}]
      /\ cancelling \in [Threads -> Tasks \union {0}]
    OBVIOUS
<1>7. tasks \in [Tasks -> {"absent", "live", "tombstone"}]
    OBVIOUS
<1>. QED
    BY <1>1, <1>2, <1>3, <1>4, <1>5, <1>6, <1>7 DEF TypeOK, UiStates

\* Every step of the UI thread's own preserves the types.
LEMMA UiType == TypeOK /\ UiStep => TypeOK'
<1> SUFFICES ASSUME TypeOK, UiStep PROVE TypeOK'
    OBVIOUS
<1> USE DEF TypeOK, UiAt, UiStates, scopeVars, taskVars, wakeVars, cancelVars, uiVars
<1>1. CASE Register
    BY <1>1 DEF Register
<1>2. CASE Track
  <2>1. cancel_on_suspend' \in SUBSET Tasks
      BY <1>2 DEF Track, Spawned
  <2>2. toCancel' \in [Threads -> SUBSET Tasks]
      BY <1>2 DEF Track
  <2>. QED
      BY <1>2, <2>1, <2>2 DEF Track
<1>3. CASE PublishWaker
    BY <1>3 DEF PublishWaker
<1>4. CASE CatchUp
    BY <1>4 DEF CatchUp
<1>5. CASE PumpTasks
    BY <1>5 DEF PumpTasks, LocalsAlive
<1>6. CASE \E t \in Tasks : SweepSkips(t)
    BY <1>6 DEF SweepSkips
<1>7. CASE SweepStalls
    BY <1>7 DEF SweepStalls
<1>8. CASE Drain
  <2>1. CASE completed = <<>>
      BY <1>8, <2>1 DEF Drain
  <2>2. CASE completed # <<>>
    <3>1. Head(completed) \in Entries /\ Tail(completed) \in Seq(Entries)
        BY <2>2
    <3>2. Append(batch, Head(completed)) \in Seq(Entries)
        BY <3>1
    <3>3. /\ completed' = Tail(completed)
          /\ batch' = batch \/ batch' = Append(batch, Head(completed))
        BY <1>8, <2>2 DEF Drain
    <3>4. completed' \in Seq(Entries) /\ batch' \in Seq(Entries)
        BY <3>1, <3>2, <3>3
    <3>. QED
        BY <1>8, <2>2, <3>4 DEF Drain
  <2>. QED
      BY <2>1, <2>2
<1>9. CASE Deliver
  <2>1. Head(batch) \in Entries /\ Tail(batch) \in Seq(Entries)
      BY <1>9 DEF Deliver
  <2>2. Head(batch).task \in Tasks
      BY <2>1 DEF Entries
  <2>3. batch' \in Seq(Entries)
      BY <1>9, <2>1 DEF Deliver
  <2>4. /\ \/ delivered' = [delivered EXCEPT ![Head(batch).task] = @ + 1]
           \/ delivered' = delivered
        /\ ui' \in {"handling", "deliver"}
      BY <1>9 DEF Deliver
  <2>5. delivered' \in [Tasks -> Nat]
    <3>1. delivered \in [Tasks -> Nat]
        OBVIOUS
    <3> HIDE DEF TypeOK, Tasks
    <3>. QED
        BY <2>2, <2>4, <3>1
  <2>. QED
      BY <1>9, <2>3, <2>4, <2>5 DEF Deliver
<1>10. CASE HandlerReturns
    BY <1>10 DEF HandlerReturns
<1>11. CASE PumpReturns
    BY <1>11 DEF PumpReturns
<1>. QED
    BY <1>1, <1>2, <1>3, <1>4, <1>5, <1>6, <1>7, <1>8, <1>9, <1>10, <1>11 DEF UiStep

\* So does every call the application makes.
LEMMA AppType == TypeOK /\ AppStep => TypeOK'
<1> SUFFICES ASSUME TypeOK, AppStep PROVE TypeOK'
    OBVIOUS
<1> USE DEF TypeOK, UiAt, UiStates, RunStates, Idle, scopeVars, taskVars, wakeVars, cancelVars, uiVars
<1>1. CASE \E k \in Kinds : Spawn(k)
  <2>1. PICK k \in Kinds : Spawn(k)
      BY <1>1
  <2>2. next_id \in Tasks
      BY <2>1 DEF Spawn
  <2>3. next_id' \in 1..(MaxTasks + 1) /\ current' \in Tasks /\ ui' = "register"
      BY <2>1, <2>2 DEF Spawn
  <2>4. kind' \in [Tasks -> Kinds \union {"none"}]
      BY <2>1, <2>2 DEF Spawn
  <2>5. run' \in [Tasks -> RunStates]
      BY <2>1, <2>2 DEF Spawn
  <2>6. wakes' \in SUBSET Tasks
    <3>1. wakes' = wakes \/ wakes' = wakes \union {next_id}
        BY <2>1 DEF Spawn
    <3>2. wakes \in SUBSET Tasks
        OBVIOUS
    <3> HIDE DEF TypeOK, Tasks
    <3>. QED
        BY <2>2, <3>1, <3>2
  <2>. QED
      BY <2>1, <2>3, <2>4, <2>5, <2>6 DEF Spawn
<1>2. CASE Suspend
    BY <1>2 DEF Suspend
<1>3. CASE Resume
    BY <1>3 DEF Resume
<1>4. CASE CancelAll
    BY <1>4 DEF CancelAll, LiveHandles
<1>5. CASE Unmount
    BY <1>5 DEF Unmount, LiveHandles
<1>6. CASE SetWaker
    BY <1>6 DEF SetWaker
<1>7. CASE \E th \in Threads, t \in Tasks : CancelHandle(th, t)
  <2>1. PICK th \in Threads, t \in Tasks : CancelHandle(th, t)
      BY <1>7
  <2>2. toCancel' \in [Threads -> SUBSET Tasks]
      BY <2>1 DEF CancelHandle
  <2>3. UNCHANGED <<next_id, taskVars, scopeVars, completed, wakeVars, uiVars, cancelPc, cancelling>>
      BY <2>1 DEF CancelHandle
  <2> HIDE DEF RunStates, Idle, UiStates, Tasks, Threads
  <2>. QED
      BY <2>2, <2>3
<1>8. CASE \E t \in Tasks : Woken(t)
  <2>1. PICK t \in Tasks : Woken(t)
      BY <1>8
  <2>2. run' \in [Tasks -> RunStates]
      BY <2>1 DEF Woken, SetRun
  <2>3. wakes' \in SUBSET Tasks
      BY <2>1 DEF Woken
  <2>4. UNCHANGED <<next_id, kind, items, cancelled, aborted, fired, scopeVars, completed,
                    waker, missed_wake, hostWake, uiVars, cancelVars>>
      BY <2>1 DEF Woken
  <2> HIDE DEF RunStates, Idle, UiStates, Tasks, Threads
  <2>. QED
      BY <2>2, <2>3, <2>4
<1>. QED
    BY <1>1, <1>2, <1>3, <1>4, <1>5, <1>6, <1>7, <1>8 DEF AppStep

\* So does every step of a poll.
LEMMA WorkerType ==
    ASSUME NEW t \in Tasks, TypeOK, WorkerStep(t) \/ HostWaker(t)
    PROVE  TypeOK'
<1> USE DEF TypeOK, RunStates, Idle, Busy, Ended, SetRun, scopeVars, taskVars, wakeVars,
            cancelVars, uiVars
<1>1. CASE Poll(t)
  <2>1. run' \in [Tasks -> RunStates]
    <3>1. run' = [run EXCEPT ![t] = "parked"] \/ run' = [run EXCEPT ![t] = "polling"]
        BY <1>1 DEF Poll
    <3>2. run \in [Tasks -> RunStates] /\ {"parked", "polling"} \subseteq RunStates
        OBVIOUS
    <3> HIDE DEF TypeOK, Tasks, RunStates
    <3>. QED
        BY <3>1, <3>2
  <2>2. parked' \in SUBSET Tasks
    <3>1. parked' = parked \/ parked' = parked \union {t}
        BY <1>1 DEF Poll
    <3>2. parked \in SUBSET Tasks
        OBVIOUS
    <3> HIDE DEF TypeOK, Tasks
    <3>. QED
        BY <3>1, <3>2
  <2>3. unswept' \in SUBSET Tasks
      BY <1>1 DEF Poll, LocalsAlive
  <2>. QED
      BY <1>1, <2>1, <2>2, <2>3 DEF Poll
<1>2. CASE PollPending(t)
    BY <1>2 DEF PollPending
<1>3. CASE PollReady(t)
    BY <1>3 DEF PollReady
<1>4. CASE PollPanics(t)
    BY <1>4 DEF PollPanics
<1>5. CASE StreamYields(t)
    BY <1>5 DEF StreamYields
<1>6. CASE CheckCancelled(t)
    BY <1>6 DEF CheckCancelled
<1>7. CASE Push(t)
  <2>1. [task |-> t, item |-> items[t] + 1] \in Entries
      BY DEF Entries
  <2>2. completed' \in Seq(Entries)
      BY <1>7, <2>1 DEF Push
  <2>3. items' \in [Tasks -> Nat] /\ run' \in [Tasks -> RunStates]
      BY <1>7 DEF Push
  <2>. QED
      BY <1>7, <2>2, <2>3 DEF Push
<1>8. CASE Wake(t)
    BY <1>8 DEF Wake
<1>9. CASE SettleSwap(t)
    BY <1>9 DEF SettleSwap
<1>10. CASE SettleCall(t)
    BY <1>10 DEF SettleCall
<1>11. CASE DropAborted(t)
    BY <1>11 DEF DropAborted, LocalsAlive
<1>12. CASE HostWaker(t)
    BY <1>12 DEF HostWaker
<1>. QED
    BY <1>1, <1>2, <1>3, <1>4, <1>5, <1>6, <1>7, <1>8, <1>9, <1>10, <1>11, <1>12
    DEF WorkerStep

\* So does every step of TaskHandle::cancel.
LEMMA CancelType ==
    ASSUME NEW th \in Threads, TypeOK, CancelStep(th)
    PROVE  TypeOK'
<1> USE DEF TypeOK, scopeVars, taskVars, wakeVars, cancelVars, uiVars
<1>1. CASE \E t \in Tasks : CancelFlag(th, t)
  <2>1. PICK t \in Tasks : CancelFlag(th, t)
      BY <1>1
  <2>2. cancelled' \in [Tasks -> BOOLEAN] /\ toCancel' \in [Threads -> SUBSET Tasks]
      BY <2>1 DEF CancelFlag
  <2>3. /\ cancelling' \in [Threads -> Tasks \union {0}]
        /\ cancelPc' \in [Threads -> {"none", "abort", "swap", "calling"}]
      BY <2>1 DEF CancelFlag
  <2>. QED
      BY <2>1, <2>2, <2>3 DEF CancelFlag
<1>2. CASE CancelAbort(th)
  <2>1. aborted' \in [Tasks -> BOOLEAN]
      BY <1>2 DEF CancelAbort
  <2>2. wakes' \in SUBSET Tasks
    <3>1. cancelling[th] \in Tasks
        BY <1>2 DEF CancelAbort
    <3>2. AbortWakes(cancelling[th]) \subseteq Tasks
        BY <3>1 DEF AbortWakes
    <3>3. wakes' = wakes \union AbortWakes(cancelling[th]) /\ wakes \subseteq Tasks
        BY <1>2 DEF CancelAbort
    <3> HIDE DEF AbortWakes
    <3>. QED
        BY <3>2, <3>3
  <2>3. cancelPc' \in [Threads -> {"none", "abort", "swap", "calling"}]
      BY <1>2 DEF CancelAbort
  <2>. QED
      BY <1>2, <2>1, <2>2, <2>3 DEF CancelAbort
<1>3. CASE CancelSwap(th)
    BY <1>3 DEF CancelSwap
<1>4. CASE CancelSettle(th)
    BY <1>4 DEF CancelSettle
<1>. QED
    BY <1>1, <1>2, <1>3, <1>4 DEF CancelStep

\* Every step of every actor preserves the types.
LEMMA NextType == TypeOK /\ [Next]_vars => TypeOK'
<1>1. ASSUME TypeOK, UNCHANGED vars PROVE TypeOK'
    BY <1>1 DEF TypeOK, vars, scopeVars, taskVars, wakeVars, cancelVars, uiVars
<1>. QED
    BY <1>1, UiType, AppType, WorkerType, CancelType DEF Next, Quiescent

\* The variables keep their types, for every number of tasks.
THEOREM TypeCorrect == Spec => []TypeOK
<1>. QED
    BY InitType, NextType, PTL DEF Spec

-----------------------------------------------------------------------------
(* The registry.  The invariant speaks of next_id, fired, run = "calling", *)
(* tasks, ui = "register", current and the threads inside the callback;    *)
(* most steps touch none of them.                                          *)

\* What a step must leave alone to leave the registry invariant alone.
Frame ==
    /\ UNCHANGED <<next_id, fired, tasks, mounted, cancelling>>
    /\ \A t \in Tasks : (run'[t] = "calling") <=> (run[t] = "calling")
    /\ \A t \in Tasks : run[t] = "none" => run'[t] = "none"
    /\ \A t \in Tasks : cancelled[t] => cancelled'[t]
    /\ \A th \in Threads : (cancelPc'[th] = "calling") <=> (cancelPc[th] = "calling")
    /\ \A t \in Tasks : Registering(t)' <=> Registering(t)
    /\ current' \in {current, 0}
    /\ \A t \in cancel_on_suspend' : t < next_id
    /\ toCancel["ui"] \subseteq toCancel'["ui"] \/ mounted
    /\ \A th \in Threads : \A t \in toCancel'[th] : t < next_id

\* A step that leaves the registry, the once-flags and the identities alone
\* preserves the inductive invariant.
LEMMA FramePreserves ==
    ASSUME IInv, TypeOK', Frame
    PROVE  IInv'
<1>1. \A t \in Tasks : Settling(t)' <=> Settling(t)
    BY DEF Frame, Settling
<1>2. SettledOnce'
    BY <1>1 DEF IInv, Frame, SettledOnce
<1>3. RegistryConsistent'
    BY <1>1 DEF IInv, Frame, RegistryConsistent
<1>4. Spawned'
  <2>1. current' < next_id' /\ \A th \in Threads : cancelling'[th] < next_id'
      BY DEF IInv, Frame, Spawned, TypeOK
  <2>2. \A t \in Tasks : t >= next_id' => run'[t] = "none" /\ ~fired'[t]
      BY DEF IInv, Frame, Spawned
  <2>3. /\ \A t \in cancel_on_suspend' : t < next_id'
        /\ \A th \in Threads : \A t \in toCancel'[th] : t < next_id'
      BY DEF Frame
  <2>. QED
      BY <2>1, <2>2, <2>3 DEF Spawned
<1>5. UnmountCovers'
    BY DEF IInv, Frame, UnmountCovers, TypeOK
<1>. QED
    BY <1>2, <1>3, <1>4, <1>5 DEF IInv

\* The UI thread's steps outside register leave the registry alone.
LEMMA UiFrames ==
    ASSUME IInv, UiStep, ~Register
    PROVE  Frame
<1> USE DEF IInv, TypeOK, Spawned, Frame, Registering, UiAt, taskVars, scopeVars,
            wakeVars, cancelVars, uiVars
<1>1. CASE Track
    BY <1>1 DEF Track
<1>2. CASE PublishWaker
    BY <1>2 DEF PublishWaker
<1>3. CASE CatchUp
    BY <1>3 DEF CatchUp
<1>4. CASE PumpTasks
    BY <1>4 DEF PumpTasks
<1>5. CASE \E t \in Tasks : SweepSkips(t)
    BY <1>5 DEF SweepSkips
<1>6. CASE SweepStalls
    BY <1>6 DEF SweepStalls
<1>7. CASE Drain
    BY <1>7 DEF Drain
<1>8. CASE Deliver
    BY <1>8 DEF Deliver
<1>9. CASE HandlerReturns
    BY <1>9 DEF HandlerReturns
<1>10. CASE PumpReturns
    BY <1>10 DEF PumpReturns
<1>. QED
    BY <1>1, <1>2, <1>3, <1>4, <1>5, <1>6, <1>7, <1>8, <1>9, <1>10 DEF UiStep

\* So do the application's calls other than spawn and unmount.
LEMMA AppFrames ==
    ASSUME IInv, AppStep, ~Unmount, ~ \E k \in Kinds : Spawn(k)
    PROVE  Frame
<1> USE DEF IInv, TypeOK, Spawned, Frame, Registering, UiAt, taskVars, scopeVars,
            wakeVars, cancelVars, uiVars
<1>1. CASE Suspend
    BY <1>1 DEF Suspend
<1>2. CASE Resume
    BY <1>2 DEF Resume
<1>3. CASE CancelAll
  <2>1. \A t \in LiveHandles : t < next_id
      BY <1>3 DEF LiveHandles, RegistryConsistent, CancelAll
  <2>. QED
      BY <1>3, <2>1 DEF CancelAll
<1>4. CASE SetWaker
    BY <1>4 DEF SetWaker
<1>5. CASE \E th \in Threads, t \in Tasks : CancelHandle(th, t)
    BY <1>5 DEF CancelHandle, Held
<1>6. CASE \E t \in Tasks : Woken(t)
    BY <1>6 DEF Woken, SetRun
<1>. QED
    BY <1>1, <1>2, <1>3, <1>4, <1>5, <1>6 DEF AppStep

\* So do the worker's steps before and after its settlement, and the abort.
LEMMA WorkerFrames ==
    ASSUME IInv, NEW t \in Tasks, WorkerStep(t) \/ HostWaker(t),
           ~SettleSwap(t), ~SettleCall(t)
    PROVE  Frame
<1> USE DEF IInv, TypeOK, Spawned, Frame, Registering, SetRun, Idle, taskVars, scopeVars,
            wakeVars, cancelVars, uiVars
<1>1. CASE Poll(t)
    BY <1>1 DEF Poll
<1>2. CASE PollPending(t)
    BY <1>2 DEF PollPending
<1>3. CASE PollReady(t)
    BY <1>3 DEF PollReady
<1>4. CASE PollPanics(t)
    BY <1>4 DEF PollPanics
<1>5. CASE StreamYields(t)
    BY <1>5 DEF StreamYields
<1>6. CASE CheckCancelled(t)
    BY <1>6 DEF CheckCancelled
<1>7. CASE Push(t)
    BY <1>7 DEF Push
<1>8. CASE Wake(t)
    BY <1>8 DEF Wake
<1>9. CASE DropAborted(t)
    BY <1>9 DEF DropAborted
<1>10. CASE HostWaker(t)
    BY <1>10 DEF HostWaker
<1>. QED
    BY <1>1, <1>2, <1>3, <1>4, <1>5, <1>6, <1>7, <1>8, <1>9, <1>10 DEF WorkerStep

\* ExecutorHandle::abort, in the middle of a cancel, is such a step.
LEMMA AbortFrames ==
    ASSUME IInv, NEW th \in Threads, CancelAbort(th)
    PROVE  Frame
  BY DEF CancelAbort, IInv, TypeOK, Spawned, Frame, Registering, taskVars, scopeVars,
         wakeVars, cancelVars, uiVars

\* A new task starts unregistered and unsettled.
LEMMA SpawnPreserves ==
    ASSUME IInv, TypeOK', NEW k \in Kinds, Spawn(k)
    PROVE  IInv'
<1> USE DEF IInv, TypeOK, Spawn, UiAt, taskVars, scopeVars, wakeVars, cancelVars, uiVars
<1>1. Spawned'
  <2>1. next_id \in Tasks /\ next_id' = next_id + 1 /\ current' = next_id
      OBVIOUS
  <2>2. \A u \in Tasks : u >= next_id' => run'[u] = "none" /\ ~fired'[u]
      BY <2>1 DEF Spawned
  <2>3. \A u \in cancel_on_suspend' : u < next_id'
      BY <2>1 DEF Spawned
  <2>4. \A th \in Threads : cancelling'[th] < next_id'
      BY <2>1 DEF Spawned
  <2>5. \A th \in Threads : \A u \in toCancel'[th] : u < next_id'
      BY <2>1 DEF Spawned
  <2> HIDE DEF IInv, TypeOK, Spawn
  <2>. QED
      BY <2>1, <2>2, <2>3, <2>4, <2>5 DEF Spawned
<1>2. SettledOnce'
  <2>1. /\ next_id \in Tasks /\ run[next_id] = "none" /\ run' = [run EXCEPT ![next_id] = "ready"]
        /\ UNCHANGED <<fired, cancelPc, cancelling>>
      BY DEF Spawned
  <2>2. \A u \in Tasks : run'[u] = "calling" <=> run[u] = "calling"
      BY <2>1
  <2>3. SettledOnce
      OBVIOUS
  <2> HIDE DEF IInv, TypeOK, Spawn
  <2>. QED
      BY <2>1, <2>2, <2>3 DEF SettledOnce, Settling
<1>3. RegistryConsistent'
    BY DEF RegistryConsistent, SettledOnce, Settling, Registering, Spawned
<1>4. UnmountCovers'
    BY DEF UnmountCovers, Spawned
<1> HIDE DEF TypeOK, Spawn
<1>. QED
    BY <1>1, <1>2, <1>3, <1>4

\* register inserts the handle, or takes away the tombstone it finds.
LEMMA RegisterPreserves ==
    ASSUME IInv, TypeOK', Register
    PROVE  IInv'
<1> USE DEF IInv, TypeOK, Register, UiAt, taskVars, scopeVars, wakeVars, cancelVars, uiVars
<1>1. Spawned'
    BY DEF Spawned
<1>2. SettledOnce'
    BY DEF SettledOnce, Settling, Spawned
<1>3. RegistryConsistent'
    BY DEF RegistryConsistent, SettledOnce, Settling, Registering, Spawned
<1>4. UnmountCovers'
    BY DEF UnmountCovers, Spawned
<1> HIDE DEF TypeOK, Register
<1>. QED
    BY <1>1, <1>2, <1>3, <1>4

\* Drop collects every live handle: what is not live has settled.
LEMMA UnmountPreserves ==
    ASSUME IInv, TypeOK', Unmount
    PROVE  IInv'
<1> USE DEF IInv, TypeOK, Unmount, UiAt, LiveHandles, taskVars, scopeVars, wakeVars, cancelVars, uiVars
<1>1. Spawned'
    BY DEF Spawned, RegistryConsistent
<1>2. SettledOnce'
    BY DEF SettledOnce, Settling, Spawned
<1>3. RegistryConsistent'
    BY DEF RegistryConsistent, SettledOnce, Settling, Registering, Spawned
<1>4. UnmountCovers'
    BY DEF UnmountCovers, RegistryConsistent, Registering
<1> HIDE DEF TypeOK, Unmount
<1>. QED
    BY <1>1, <1>2, <1>3, <1>4

\* The worker wins the once-flag, or finds it taken and ends.
LEMMA SettleSwapPreserves ==
    ASSUME IInv, TypeOK', NEW t \in Tasks, SettleSwap(t)
    PROVE  IInv'
<1> USE DEF IInv, TypeOK, SettleSwap, SetRun, taskVars, scopeVars, wakeVars, cancelVars, uiVars
<1>1. Spawned'
    BY DEF Spawned
<1>2. SettledOnce'
    BY DEF SettledOnce, Settling, Spawned
<1>3. RegistryConsistent'
    BY DEF RegistryConsistent, SettledOnce, Settling, Registering, Spawned
<1>4. UnmountCovers'
    BY DEF UnmountCovers, Spawned
<1> HIDE DEF TypeOK, SettleSwap
<1>. QED
    BY <1>1, <1>2, <1>3, <1>4

\* The worker's callback removes the handle, or leaves the tombstone.
LEMMA SettleCallPreserves ==
    ASSUME IInv, TypeOK', NEW t \in Tasks, SettleCall(t)
    PROVE  IInv'
<1> USE DEF IInv, TypeOK, SettleCall, SetRun, taskVars, scopeVars, wakeVars, cancelVars, uiVars
<1>1. Spawned'
    BY DEF Spawned
<1>2. SettledOnce'
    BY DEF SettledOnce, Settling, Spawned
<1>3. RegistryConsistent'
    BY DEF RegistryConsistent, SettledOnce, Settling, Registering, Spawned
<1>4. UnmountCovers'
    BY DEF UnmountCovers, Spawned
<1> HIDE DEF TypeOK, SettleCall
<1>. QED
    BY <1>1, <1>2, <1>3, <1>4

\* A cancel begins on a handle the thread holds.
LEMMA CancelFlagPreserves ==
    ASSUME IInv, TypeOK', NEW th \in Threads, NEW t \in Tasks, CancelFlag(th, t)
    PROVE  IInv'
<1> USE DEF IInv, TypeOK, CancelFlag, taskVars, scopeVars, wakeVars, cancelVars, uiVars
<1>1. Spawned'
    BY DEF Spawned
<1>2. SettledOnce'
    BY DEF SettledOnce, Settling, Spawned
<1>3. RegistryConsistent'
    BY DEF RegistryConsistent, SettledOnce, Settling, Registering, Spawned
<1>4. UnmountCovers'
    BY DEF UnmountCovers, Spawned
<1> HIDE DEF TypeOK, CancelFlag
<1>. QED
    BY <1>1, <1>2, <1>3, <1>4

\* The canceller wins the once-flag, or finds it taken and returns.
LEMMA CancelSwapPreserves ==
    ASSUME IInv, TypeOK', NEW th \in Threads, CancelSwap(th)
    PROVE  IInv'
<1> USE DEF IInv, TypeOK, CancelSwap, taskVars, scopeVars, wakeVars, cancelVars, uiVars
<1>1. Spawned'
    BY DEF Spawned
<1>2. SettledOnce'
    BY DEF SettledOnce, Settling, Spawned
<1>3. RegistryConsistent'
    BY DEF RegistryConsistent, SettledOnce, Settling, Registering, Spawned
<1>4. UnmountCovers'
    BY DEF UnmountCovers, Spawned
<1> HIDE DEF TypeOK, CancelSwap
<1>. QED
    BY <1>1, <1>2, <1>3, <1>4

\* The canceller's callback removes the handle, or leaves the tombstone.
LEMMA CancelSettlePreserves ==
    ASSUME IInv, TypeOK', NEW th \in Threads, CancelSettle(th)
    PROVE  IInv'
<1> USE DEF IInv, TypeOK, CancelSettle, taskVars, scopeVars, wakeVars, cancelVars, uiVars
<1>1. Spawned'
    BY DEF Spawned
<1>2. SettledOnce'
    BY DEF SettledOnce, Settling, Spawned
<1>3. RegistryConsistent'
  <2>0. PICK u \in Tasks : u = cancelling[th]
      OBVIOUS
  <2>1. Settling(u) /\ fired[u]
      BY <2>0 DEF Settling, SettledOnce
  <2>2. ~Settling(u)'
      BY <2>0, <2>1 DEF Settling, SettledOnce
  <2>3. \A t \in Tasks \ {u} : Settling(t)' <=> Settling(t)
      BY <2>0, <2>1 DEF Settling
  <2>4. \A t \in Tasks \ {u} : tasks'[t] = tasks[t]
      BY <2>0, <2>1
  <2>5. u < next_id
      BY <2>0, <2>1 DEF Spawned
  <2>6. tasks'[u] = IF Registering(u) THEN "tombstone" ELSE "absent"
      BY <2>0, <2>1, <2>5 DEF RegistryConsistent
  <2> HIDE DEF TypeOK
  <2>. QED
      BY <2>1, <2>2, <2>3, <2>4, <2>5, <2>6 DEF RegistryConsistent, Registering
<1>4. UnmountCovers'
    BY DEF UnmountCovers, Spawned
<1> HIDE DEF TypeOK, CancelSettle
<1>. QED
    BY <1>1, <1>2, <1>3, <1>4

\* The inductive invariant holds of a new scheduler and an empty scope.
LEMMA InitIInv == Init => IInv
<1> SUFFICES ASSUME Init PROVE IInv
    OBVIOUS
<1>1. TypeOK
    BY InitType
<1>2. Spawned /\ SettledOnce /\ UnmountCovers
    BY DEF Init, Spawned, SettledOnce, Settling, UnmountCovers
<1>3. RegistryConsistent
    BY DEF Init, RegistryConsistent, Registering
<1>. QED
    BY <1>1, <1>2, <1>3 DEF IInv

\* Every step of every actor preserves the inductive invariant.
LEMMA NextIInv == IInv /\ [Next]_vars => IInv'
<1> SUFFICES ASSUME IInv, [Next]_vars PROVE IInv'
    OBVIOUS
<1>1. TypeOK'
    BY NextType DEF IInv
<1>2. CASE UiStep
    BY <1>1, <1>2, UiFrames, RegisterPreserves, FramePreserves
<1>3. CASE AppStep
    BY <1>1, <1>3, AppFrames, SpawnPreserves, UnmountPreserves, FramePreserves
<1>4. CASE \E t \in Tasks : WorkerStep(t) \/ HostWaker(t)
    BY <1>1, <1>4, WorkerFrames, SettleSwapPreserves, SettleCallPreserves, FramePreserves
<1>5. CASE \E th \in Threads : CancelStep(th)
    BY <1>1, <1>5, AbortFrames, CancelFlagPreserves, CancelSwapPreserves,
       CancelSettlePreserves, FramePreserves DEF CancelStep
<1>6. CASE UNCHANGED vars
  <2>1. Frame
      BY <1>6 DEF Frame, IInv, Spawned, Registering, vars, taskVars, scopeVars, wakeVars,
         cancelVars, uiVars
  <2>. QED
      BY <1>1, <2>1, FramePreserves
<1>. QED
    BY <1>2, <1>3, <1>4, <1>5, <1>6 DEF Next, Quiescent

\* The registry of a task scope holds exactly the unsettled tasks, and no
\* tombstone outlives the register call it is for.
THEOREM RegistryCorrect == Spec => []RegistryConsistent
<1>1. IInv => RegistryConsistent
    BY DEF IInv
<1>. QED
    BY <1>1, InitIInv, NextIInv, PTL DEF Spec

\* The settlement callback of a task is never run by two actors.
THEOREM SettlementOnce == Spec => []SettledOnce
<1>1. IInv => SettledOnce
    BY DEF IInv
<1>. QED
    BY <1>1, InitIInv, NextIInv, PTL DEF Spec

\* An unmounted component leaves no task that is neither cancelled nor
\* settled.
THEOREM UnmountCorrect == Spec => []UnmountCancelsAll
<1>1. IInv => UnmountCancelsAll
    BY DEF IInv, UnmountCovers, UnmountCancelsAll
<1>. QED
    BY <1>1, InitIInv, NextIInv, PTL DEF Spec

-----------------------------------------------------------------------------
(* Suspension.  SuspendCancels while suspend is still cancelling, and in a *)
(* scope that is shown: a task the scope must cancel when it is suspended  *)
(* is in cancel_on_suspend, unless it is cancelled or has ended.           *)

SuspendCovers ==
    \A t \in Tasks : kind[t] = "Cancel" /\ Held(t) =>
        \/ cancelled[t] \/ run[t] \in Ended \/ t \in toCancel["ui"]
        \/ ~suspended /\ t \in cancel_on_suspend

\* The gate turns away only what resume will wake again.
GatedParked == \A t \in Tasks : run[t] = "parked" => Gated(t)

Gate == SuspendCovers /\ ParkedOnlyWhileSuspended /\ GatedParked

\* What a step must leave alone to leave the rules of suspension alone.
GateFrame ==
    /\ UNCHANGED <<kind, suspended, parked, cancel_on_suspend>>
    /\ \A t \in Tasks : run[t] \in Ended => run'[t] \in Ended
    /\ \A t \in Tasks : run'[t] = "parked" => run[t] = "parked"
    /\ \A t \in Tasks : cancelled[t] => cancelled'[t]
    /\ \A t \in Tasks : kind[t] = "Cancel" /\ Held(t)' => Held(t)
    /\ \A t \in toCancel["ui"] : t \in toCancel'["ui"] \/ cancelled'[t]

LEMMA GateFramePreserves ==
    ASSUME Gate, GateFrame
    PROVE  Gate'
<1>1. SuspendCovers'
    BY DEF Gate, GateFrame, SuspendCovers
<1>2. ParkedOnlyWhileSuspended'
    BY DEF Gate, GateFrame, ParkedOnlyWhileSuspended
<1>3. GatedParked'
    BY DEF Gate, GateFrame, GatedParked, Gated
<1>. QED
    BY <1>1, <1>2, <1>3 DEF Gate

\* The UI thread's steps outside track leave the rules alone: register gives
\* out no handle of a Cancel task.
LEMMA UiGate ==
    ASSUME TypeOK, UiStep, ~Track
    PROVE  GateFrame
<1> USE DEF TypeOK, GateFrame, Held, UiAt, taskVars, scopeVars, wakeVars, cancelVars, uiVars
<1>1. CASE Register
    BY <1>1 DEF Register
<1>2. CASE PublishWaker
    BY <1>2 DEF PublishWaker
<1>3. CASE CatchUp
    BY <1>3 DEF CatchUp
<1>4. CASE PumpTasks
    BY <1>4 DEF PumpTasks
<1>5. CASE \E t \in Tasks : SweepSkips(t)
    BY <1>5 DEF SweepSkips
<1>6. CASE SweepStalls
    BY <1>6 DEF SweepStalls
<1>7. CASE Drain
    BY <1>7 DEF Drain
<1>8. CASE Deliver
    BY <1>8 DEF Deliver
<1>9. CASE HandlerReturns
    BY <1>9 DEF HandlerReturns
<1>10. CASE PumpReturns
    BY <1>10 DEF PumpReturns
<1>. QED
    BY <1>1, <1>2, <1>3, <1>4, <1>5, <1>6, <1>7, <1>8, <1>9, <1>10 DEF UiStep

\* So do the application's calls other than spawn, suspend and resume.
LEMMA AppGate ==
    ASSUME TypeOK, AppStep, ~Suspend, ~Resume, ~ \E k \in Kinds : Spawn(k)
    PROVE  GateFrame
<1> USE DEF TypeOK, GateFrame, Held, UiAt, taskVars, scopeVars, wakeVars, cancelVars, uiVars
<1>1. CASE CancelAll
    BY <1>1 DEF CancelAll
<1>2. CASE Unmount
    BY <1>2 DEF Unmount
<1>3. CASE SetWaker
    BY <1>3 DEF SetWaker
<1>4. CASE \E th \in Threads, t \in Tasks : CancelHandle(th, t)
    BY <1>4 DEF CancelHandle
<1>5. CASE \E t \in Tasks : Woken(t)
    BY <1>5 DEF Woken, SetRun, Ended
<1>. QED
    BY <1>1, <1>2, <1>3, <1>4, <1>5 DEF AppStep

\* So do a worker's steps other than the poll's beginning.
LEMMA WorkerGate ==
    ASSUME TypeOK, NEW t \in Tasks, WorkerStep(t) \/ HostWaker(t), ~Poll(t)
    PROVE  GateFrame
<1> USE DEF TypeOK, GateFrame, Held, SetRun, Idle, Ended, taskVars, scopeVars, wakeVars,
            cancelVars, uiVars
<1>1. CASE PollPending(t)
    BY <1>1 DEF PollPending
<1>2. CASE PollReady(t)
    BY <1>2 DEF PollReady
<1>3. CASE PollPanics(t)
    BY <1>3 DEF PollPanics
<1>4. CASE StreamYields(t)
    BY <1>4 DEF StreamYields
<1>5. CASE CheckCancelled(t)
    BY <1>5 DEF CheckCancelled
<1>6. CASE Push(t)
    BY <1>6 DEF Push
<1>7. CASE Wake(t)
    BY <1>7 DEF Wake
<1>8. CASE SettleSwap(t)
    BY <1>8 DEF SettleSwap
<1>9. CASE SettleCall(t)
    BY <1>9 DEF SettleCall
<1>10. CASE DropAborted(t)
    BY <1>10 DEF DropAborted
<1>11. CASE HostWaker(t)
    BY <1>11 DEF HostWaker
<1>. QED
    BY <1>1, <1>2, <1>3, <1>4, <1>5, <1>6, <1>7, <1>8, <1>9, <1>10, <1>11 DEF WorkerStep

\* So do a canceller's steps: what leaves its list has been cancelled.
LEMMA CancelGate ==
    ASSUME TypeOK, NEW th \in Threads, CancelStep(th)
    PROVE  GateFrame
<1> USE DEF TypeOK, GateFrame, Held, taskVars, scopeVars, wakeVars, cancelVars, uiVars
<1>1. CASE \E t \in Tasks : CancelFlag(th, t)
    BY <1>1 DEF CancelFlag
<1>2. CASE CancelAbort(th)
    BY <1>2 DEF CancelAbort
<1>3. CASE CancelSwap(th)
    BY <1>3 DEF CancelSwap
<1>4. CASE CancelSettle(th)
    BY <1>4 DEF CancelSettle
<1>. QED
    BY <1>1, <1>2, <1>3, <1>4 DEF CancelStep

\* spawn_with enters a Cancel task in cancel_on_suspend before it gives out
\* the handle, cancels it at once in a suspended scope, and removes no task
\* that is still due.
LEMMA TrackGate ==
    ASSUME IInv, Gate, Track
    PROVE  Gate'
<1> USE DEF IInv, TypeOK, Track, UiAt, taskVars, scopeVars, wakeVars, cancelVars, uiVars
<1>1. SuspendCovers'
    BY DEF Gate, SuspendCovers, Held, IsFinished, Local
<1>2. ParkedOnlyWhileSuspended'
    BY DEF Gate, ParkedOnlyWhileSuspended, GatedParked, Gated
<1>3. GatedParked'
    BY DEF Gate, GatedParked, Gated
<1>. QED
    BY <1>1, <1>2, <1>3 DEF Gate

\* A task just spawned is not parked, and its handle is not out.
LEMMA SpawnGate ==
    ASSUME IInv, Gate, NEW k \in Kinds, Spawn(k)
    PROVE  Gate'
<1> USE DEF IInv, TypeOK, Spawn, UiAt, taskVars, scopeVars, wakeVars, cancelVars, uiVars
<1>1. SuspendCovers'
    BY DEF Gate, SuspendCovers, Held
<1>2. ParkedOnlyWhileSuspended'
    BY DEF Gate, ParkedOnlyWhileSuspended
<1>3. GatedParked'
    BY DEF Gate, GatedParked, Gated
<1>. QED
    BY <1>1, <1>2, <1>3 DEF Gate

\* suspend takes the whole list.
LEMMA SuspendGate ==
    ASSUME IInv, Gate, Suspend
    PROVE  Gate'
<1> USE DEF IInv, TypeOK, Suspend, UiAt, taskVars, scopeVars, wakeVars, cancelVars, uiVars
<1>1. SuspendCovers'
    BY DEF Gate, SuspendCovers, Held
<1>2. ParkedOnlyWhileSuspended'
    BY DEF Gate, ParkedOnlyWhileSuspended, GatedParked, Gated
<1>3. GatedParked'
    BY DEF Gate, GatedParked, Gated
<1>. QED
    BY <1>1, <1>2, <1>3 DEF Gate

\* resume wakes every parked task.
LEMMA ResumeGate ==
    ASSUME IInv, Gate, Resume
    PROVE  Gate'
<1> USE DEF IInv, TypeOK, Resume, UiAt, taskVars, scopeVars, wakeVars, cancelVars, uiVars
<1>1. SuspendCovers'
    BY DEF Gate, SuspendCovers, Held, Ended
<1>2. ParkedOnlyWhileSuspended'
    BY DEF Gate, ParkedOnlyWhileSuspended, GatedParked, Gated
<1>3. GatedParked'
    BY DEF Gate, GatedParked, Gated
<1>. QED
    BY <1>1, <1>2, <1>3 DEF Gate

\* The gate parks a task only in a suspended scope.
LEMMA PollGate ==
    ASSUME IInv, Gate, NEW t \in Tasks, Poll(t)
    PROVE  Gate'
<1> USE DEF IInv, TypeOK, Poll, SetRun, taskVars, scopeVars, wakeVars, cancelVars, uiVars
<1>1. SuspendCovers'
    BY DEF Gate, SuspendCovers, Held, Ended
<1>2. ParkedOnlyWhileSuspended'
    BY DEF Gate, ParkedOnlyWhileSuspended, GatedParked, Gated
<1>3. GatedParked'
    BY DEF Gate, GatedParked, Gated
<1>. QED
    BY <1>1, <1>2, <1>3 DEF Gate

LEMMA GateInvariant == Spec => []Gate
<1>1. Init => Gate
    BY DEF Init, Gate, SuspendCovers, ParkedOnlyWhileSuspended, GatedParked
<1>2. IInv /\ Gate /\ [Next]_vars => Gate'
  <2> SUFFICES ASSUME IInv, Gate, [Next]_vars PROVE Gate'
      OBVIOUS
  <2>1. TypeOK
      BY DEF IInv
  <2>2. CASE UiStep
      BY <2>1, <2>2, UiGate, TrackGate, GateFramePreserves
  <2>3. CASE AppStep
      BY <2>1, <2>3, AppGate, SpawnGate, SuspendGate, ResumeGate, GateFramePreserves
  <2>4. CASE \E t \in Tasks : WorkerStep(t) \/ HostWaker(t)
      BY <2>1, <2>4, WorkerGate, PollGate, GateFramePreserves
  <2>5. CASE \E th \in Threads : CancelStep(th)
      BY <2>1, <2>5, CancelGate, GateFramePreserves
  <2>6. CASE UNCHANGED vars
    <3>1. GateFrame
        BY <2>6 DEF GateFrame, Held, vars, taskVars, scopeVars, cancelVars, uiVars
    <3>. QED
        BY <3>1, GateFramePreserves
  <2>. QED
      BY <2>2, <2>3, <2>4, <2>5, <2>6 DEF Next, Quiescent
<1>. QED
    BY <1>1, <1>2, InitIInv, NextIInv, PTL DEF Spec

\* Once suspend has returned, no task spawned with SuspendRule::Cancel is
\* still due to deliver, also one spawned in a scope already suspended.
THEOREM SuspensionCancels == Spec => []SuspendCancels
<1>1. Gate => SuspendCancels
    BY DEF Gate, SuspendCovers, SuspendCancels
<1>. QED
    BY <1>1, GateInvariant, PTL

\* No Defer or stream task stays parked in a scope that is shown.
THEOREM ResumeWakesAll == Spec => []ParkedOnlyWhileSuspended
<1>1. Gate => ParkedOnlyWhileSuspended
    BY DEF Gate
<1>. QED
    BY <1>1, GateInvariant, PTL

-----------------------------------------------------------------------------
(* Wakes of local tasks.  While a local task is being polled the UI thread *)
(* is in the sweep, and the sweep has still to visit that task.            *)

Swept == \A t \in Tasks : Local(t) /\ run[t] \in Busy => ui = "local" /\ t \in unswept

\* A local task is never turned away by the gate.
Woke == Swept /\ GatedParked /\ NoMissedLocalWake

\* Steps of the UI thread: a sweep ends only when nothing is left in it, and
\* set_waker picks up the wake that came before the waker.
LEMMA UiWoke ==
    ASSUME IInv, Woke, UiStep
    PROVE  Woke'
<1> USE DEF IInv, TypeOK, Woke, Swept, GatedParked, Gated, Local, UiAt, LocalRunning,
            taskVars, scopeVars, wakeVars, cancelVars, uiVars
<1>1. CASE Register
    BY <1>1 DEF Register, NoMissedLocalWake
<1>2. CASE Track
    BY <1>2 DEF Track, NoMissedLocalWake
<1>3. CASE PublishWaker
    BY <1>3 DEF PublishWaker, NoMissedLocalWake
<1>4. CASE CatchUp
    BY <1>4 DEF CatchUp, NoMissedLocalWake
<1>5. CASE PumpTasks
    BY <1>5 DEF PumpTasks, LocalsAlive, Idle, Ended, NoMissedLocalWake
<1>6. CASE \E t \in Tasks : SweepSkips(t)
    BY <1>6 DEF SweepSkips, Idle, Busy, Ended, NoMissedLocalWake
<1>7. CASE SweepStalls
    BY <1>7 DEF SweepStalls, NoMissedLocalWake
<1>8. CASE Drain
    BY <1>8 DEF Drain, NoMissedLocalWake
<1>9. CASE Deliver
    BY <1>9 DEF Deliver, NoMissedLocalWake
<1>10. CASE HandlerReturns
    BY <1>10 DEF HandlerReturns, NoMissedLocalWake
<1>11. CASE PumpReturns
    BY <1>11 DEF PumpReturns, NoMissedLocalWake
<1>. QED
    BY <1>1, <1>2, <1>3, <1>4, <1>5, <1>6, <1>7, <1>8, <1>9, <1>10, <1>11 DEF UiStep

\* The application's calls: a local task that is spawned or woken asks for a
\* wake.
LEMMA AppWoke ==
    ASSUME IInv, Woke, AppStep
    PROVE  Woke'
<1> USE DEF IInv, TypeOK, Woke, Swept, GatedParked, Gated, Local, UiAt, Idle, Busy,
            NoMissedLocalWake, taskVars, scopeVars, wakeVars, cancelVars, uiVars
<1>1. CASE \E k \in Kinds : Spawn(k)
    BY <1>1 DEF Spawn, Spawned
<1>2. CASE Suspend
    BY <1>2 DEF Suspend
<1>3. CASE Resume
    BY <1>3 DEF Resume
<1>4. CASE CancelAll
    BY <1>4 DEF CancelAll
<1>5. CASE Unmount
    BY <1>5 DEF Unmount
<1>6. CASE SetWaker
    BY <1>6 DEF SetWaker
<1>7. CASE \E th \in Threads, t \in Tasks : CancelHandle(th, t)
    BY <1>7 DEF CancelHandle
<1>8. CASE \E t \in Tasks : Woken(t)
    BY <1>8 DEF Woken, SetRun
<1>. QED
    BY <1>1, <1>2, <1>3, <1>4, <1>5, <1>6, <1>7, <1>8 DEF AppStep

\* A worker's steps, which for a local task are the sweep's: what became
\* ready, or was aborted, behind the back of the sweep is visited by it.
LEMMA WorkerWoke ==
    ASSUME IInv, Woke, NEW t \in Tasks, WorkerStep(t) \/ HostWaker(t)
    PROVE  Woke'
<1> USE DEF IInv, TypeOK, Woke, Swept, GatedParked, Gated, Local, UiAt, Idle, Busy, Ended,
            LocalsAlive, LocalRunning, OnThread, SetRun, NoMissedLocalWake,
            taskVars, scopeVars, wakeVars, cancelVars, uiVars
<1>1. CASE Poll(t)
  <2>0. run \in [Tasks -> RunStates]
      OBVIOUS
  <2>1. /\ run[t] = "ready" /\ run' = [run EXCEPT ![t] = run'[t]]
        /\ run'[t] \in {"parked", "polling"}
        /\ run'[t] = "parked" => Gated(t)
        /\ Local(t) => ui = "local" /\ unswept' = LocalsAlive /\ ~LocalRunning
        /\ ~Local(t) => unswept' = unswept
        /\ UNCHANGED <<kind, aborted, waker, missed_wake, hostWake, wakes, ui, sampled>>
      BY <1>1 DEF Poll
  <2> HIDE DEF IInv, TypeOK, LocalsAlive
  <2>2. \A u \in Tasks : Local(u) /\ run[u] \notin Ended => u \in LocalsAlive
      BY DEF LocalsAlive
  <2>3. Swept'
      BY <2>0, <2>1, <2>2
  <2>4. GatedParked'
      BY <2>0, <2>1
  <2>5. NoMissedLocalWake'
      BY <2>0, <2>1, <2>2
  <2>. QED
      BY <2>3, <2>4, <2>5
<1>2. CASE PollPending(t)
    BY <1>2 DEF PollPending
<1>3. CASE PollReady(t)
    BY <1>3 DEF PollReady
<1>4. CASE PollPanics(t)
    BY <1>4 DEF PollPanics
<1>5. CASE StreamYields(t)
    BY <1>5 DEF StreamYields
<1>6. CASE CheckCancelled(t)
    BY <1>6 DEF CheckCancelled
<1>7. CASE Push(t)
    BY <1>7 DEF Push
<1>8. CASE Wake(t)
    BY <1>8 DEF Wake
<1>9. CASE SettleSwap(t)
    BY <1>9 DEF SettleSwap
<1>10. CASE SettleCall(t)
    BY <1>10 DEF SettleCall
<1>11. CASE DropAborted(t)
    BY <1>11 DEF DropAborted
<1>12. CASE HostWaker(t)
    BY <1>12 DEF HostWaker
<1>. QED
    BY <1>1, <1>2, <1>3, <1>4, <1>5, <1>6, <1>7, <1>8, <1>9, <1>10, <1>11, <1>12
    DEF WorkerStep

\* A canceller's steps: the abort of a local task asks for a wake.
LEMMA CancelWoke ==
    ASSUME IInv, Woke, NEW th \in Threads, CancelStep(th)
    PROVE  Woke'
<1> USE DEF IInv, TypeOK, Woke, Swept, GatedParked, Gated, Local, NoMissedLocalWake,
            taskVars, scopeVars, wakeVars, cancelVars, uiVars
<1>1. CASE \E t \in Tasks : CancelFlag(th, t)
    BY <1>1 DEF CancelFlag
<1>2. CASE CancelAbort(th)
    BY <1>2 DEF CancelAbort
<1>3. CASE CancelSwap(th)
    BY <1>3 DEF CancelSwap
<1>4. CASE CancelSettle(th)
    BY <1>4 DEF CancelSettle
<1>. QED
    BY <1>1, <1>2, <1>3, <1>4 DEF CancelStep

\* No wake of a local task is lost, also when host_waker is called before a
\* waker exists, from another thread, or in the middle of a sweep.
THEOREM LocalWakesKept == Spec => []NoMissedLocalWake
<1>1. Init => Woke
    BY DEF Init, Woke, Swept, GatedParked, NoMissedLocalWake, Local
<1>2. IInv /\ Woke /\ [Next]_vars => Woke'
  <2> SUFFICES ASSUME IInv, Woke, [Next]_vars PROVE Woke'
      OBVIOUS
  <2>1. CASE UNCHANGED vars
      BY <2>1 DEF Woke, Swept, GatedParked, Gated, Local, NoMissedLocalWake,
         vars, taskVars, scopeVars, wakeVars, uiVars
  <2>. QED
      BY <2>1, UiWoke, AppWoke, WorkerWoke, CancelWoke DEF Next, Quiescent
<1>3. Woke => NoMissedLocalWake
    BY DEF Woke
<1>. QED
    BY <1>1, <1>2, <1>3, InitIInv, NextIInv, PTL DEF Spec

-----------------------------------------------------------------------------
(* Wakes for completions.  NoMissedCompletion fails: set_waker samples the *)
(* queue before it publishes the waker.  These theorems say how far the    *)
(* damage reaches: no other step loses a completion, and a host that       *)
(* installs its waker before anything is spawned loses none.               *)

\* set_waker's publish after a sample that saw an empty queue, with no local
\* wake missed either: the catch-up call that follows does nothing.
EmptyPublish == PublishWaker /\ ~sampled /\ ~missed_wake

\* The only step that can leave a queued result without a wake for it is the
\* publish of set_waker after an empty sample: not a worker, not a sweep, a
\* drain or the end of a pump, not a cancellation.
MissedOnlyAtPublish == [][NoMissedCompletion /\ ~NoMissedCompletion' => EmptyPublish]_vars

\* Steps that touch none of what NoMissedCompletion reads, save that a task
\* not about to wake the host may move.
CompletionFrame ==
    /\ UNCHANGED <<completed, waker, hostWake, ui, sampled>>
    /\ \A t \in Tasks : run[t] = "wake" => run'[t] = "wake"

LEMMA CompletionFrameKeeps ==
    ASSUME NoMissedCompletion, CompletionFrame
    PROVE  NoMissedCompletion'
BY DEF NoMissedCompletion, CompletionFrame, WakeOwed

\* Steps of the UI thread: a pump answers a wake only by draining the queue.
LEMMA UiCompletion ==
    ASSUME IInv, NoMissedCompletion, UiStep, ~EmptyPublish
    PROVE  NoMissedCompletion'
<1> USE DEF UiAt, NoMissedCompletion, WakeOwed, taskVars, scopeVars, wakeVars, cancelVars, uiVars
<1>1. CASE Register
    BY <1>1 DEF Register
<1>2. CASE Track
    BY <1>2 DEF Track
<1>3. CASE PublishWaker
    BY <1>3 DEF PublishWaker, EmptyPublish
<1>4. CASE CatchUp
    BY <1>4 DEF CatchUp
<1>5. CASE PumpTasks
    BY <1>5 DEF PumpTasks
<1>6. CASE \E t \in Tasks : SweepSkips(t)
    BY <1>6 DEF SweepSkips
<1>7. CASE SweepStalls
    BY <1>7 DEF SweepStalls
<1>8. CASE Drain
    BY <1>8 DEF Drain
<1>9. CASE Deliver
    BY <1>9 DEF Deliver
<1>10. CASE HandlerReturns
    BY <1>10 DEF HandlerReturns
<1>11. CASE PumpReturns
    BY <1>11 DEF PumpReturns
<1>. QED
    BY <1>1, <1>2, <1>3, <1>4, <1>5, <1>6, <1>7, <1>8, <1>9, <1>10, <1>11 DEF UiStep

\* The application's calls leave the queue and the waker alone.
LEMMA AppCompletion ==
    ASSUME IInv, NoMissedCompletion, AppStep
    PROVE  NoMissedCompletion'
<1>1. run \in [Tasks -> RunStates] /\ next_id \in 1..(MaxTasks + 1)
    BY DEF IInv, TypeOK
<1> USE DEF UiAt, taskVars, scopeVars, wakeVars, cancelVars, uiVars
<1>2. CASE \E k \in Kinds : Spawn(k)
  <2>1. PICK k \in Kinds : Spawn(k)
      BY <1>2
  <2>2. run[next_id] = "none" /\ run' = [run EXCEPT ![next_id] = "ready"]
      BY <1>1, <2>1 DEF IInv, Spawned, Spawn
  <2>. QED
      BY <1>1, <2>1, <2>2 DEF Spawn, NoMissedCompletion, WakeOwed
<1>3. CASE Resume
  <2>1. \A t \in Tasks : run[t] = "wake" => run'[t] = "wake"
      BY <1>1, <1>3 DEF Resume
  <2>. QED
      BY <1>3, <2>1, CompletionFrameKeeps DEF Resume, CompletionFrame
<1>4. CASE SetWaker
    BY <1>4 DEF SetWaker, NoMissedCompletion, WakeOwed
<1>5. CASE Suspend \/ CancelAll \/ Unmount \/ \E th \in Threads, t \in Tasks : CancelHandle(th, t)
    BY <1>5, CompletionFrameKeeps DEF Suspend, CancelAll, Unmount, CancelHandle, CompletionFrame
<1>6. CASE \E t \in Tasks : Woken(t)
  <2>1. PICK t \in Tasks : Woken(t)
      BY <1>6
  <2>. QED
      BY <1>1, <2>1, CompletionFrameKeeps DEF Woken, SetRun, CompletionFrame
<1>. QED
    BY <1>2, <1>3, <1>4, <1>5, <1>6 DEF AppStep

\* A worker that queued a result wakes the host before it goes on.
LEMMA WorkerCompletion ==
    ASSUME IInv, NoMissedCompletion, NEW t \in Tasks, WorkerStep(t) \/ HostWaker(t)
    PROVE  NoMissedCompletion'
<1>1. run \in [Tasks -> RunStates]
    BY DEF IInv, TypeOK
<1> USE DEF SetRun, Idle, taskVars, scopeVars, wakeVars, cancelVars, uiVars
<1>2. CASE Push(t)
  <2>1. run'[t] = "wake"
      BY <1>1, <1>2 DEF Push
  <2>. QED
      BY <2>1 DEF NoMissedCompletion
<1>3. CASE Wake(t)
    BY <1>1, <1>3 DEF Wake, NoMissedCompletion, WakeOwed
<1>4. CASE HostWaker(t)
    BY <1>4 DEF HostWaker, NoMissedCompletion, WakeOwed
<1>5. CASE Poll(t) \/ PollPending(t) \/ PollReady(t) \/ PollPanics(t) \/ StreamYields(t)
    BY <1>1, <1>5, CompletionFrameKeeps
    DEF Poll, PollPending, PollReady, PollPanics, StreamYields, CompletionFrame
<1>6. CASE CheckCancelled(t) \/ SettleSwap(t) \/ SettleCall(t) \/ DropAborted(t)
    BY <1>1, <1>6, CompletionFrameKeeps
    DEF CheckCancelled, SettleSwap, SettleCall, DropAborted, CompletionFrame
<1>. QED
    BY <1>2, <1>3, <1>4, <1>5, <1>6 DEF WorkerStep

\* A canceller neither queues nor wakes.
LEMMA CancelCompletion ==
    ASSUME IInv, NoMissedCompletion, NEW th \in Threads, CancelStep(th)
    PROVE  NoMissedCompletion'
BY CompletionFrameKeeps DEF CancelStep, CancelFlag, CancelAbort, CancelSwap, CancelSettle,
   CompletionFrame, taskVars, scopeVars, wakeVars, cancelVars, uiVars

LEMMA NextCompletion ==
    ASSUME IInv, NoMissedCompletion, [Next]_vars, ~EmptyPublish
    PROVE  NoMissedCompletion'
<1>1. CASE UNCHANGED vars
    BY <1>1, CompletionFrameKeeps DEF vars, CompletionFrame, taskVars, scopeVars, wakeVars, uiVars
<1>. QED
    BY <1>1, UiCompletion, AppCompletion, WorkerCompletion, CancelCompletion DEF Next, Quiescent

\* A completion is missed at set_waker's publish or not at all.
THEOREM PublishAloneMisses == Spec => MissedOnlyAtPublish
<1>1. IInv /\ [Next]_vars => [NoMissedCompletion /\ ~NoMissedCompletion' => EmptyPublish]_vars
    BY NextCompletion
<1>. QED
    BY <1>1, InitIInv, NextIInv, PTL DEF Spec, MissedOnlyAtPublish

\* Before the host has installed its waker nothing has been spawned.
Early == waker \/ (next_id = 1 /\ completed = <<>>)

\* Where every task is spawned after the host has installed its waker, every
\* queued result has its wake: the missed completion needs an early task.
THEOREM EarlyWakerMissesNothing ==
    ASSUME WakerFirst = Kinds
    PROVE  Spec => []NoMissedCompletion
<1>1. Init => Early /\ NoMissedCompletion
    BY DEF Init, Early, NoMissedCompletion
<1>2. IInv /\ Early /\ [Next]_vars => Early'
  <2> SUFFICES ASSUME IInv, Early, [Next]_vars PROVE Early'
      OBVIOUS
  <2>1. CASE waker
    <3>1. waker'
        BY <2>1 DEF Next, UiStep, AppStep, WorkerStep, CancelStep, Quiescent, vars,
           taskVars, scopeVars, wakeVars, cancelVars, uiVars, Register, Track, PublishWaker,
           CatchUp, PumpTasks, SweepSkips, SweepStalls, Drain, Deliver, HandlerReturns,
           PumpReturns, Spawn, Suspend, Resume, CancelAll, Unmount, SetWaker, CancelHandle,
           Woken, Poll, PollPending, PollReady, PollPanics, StreamYields, CheckCancelled,
           Push, Wake, SettleSwap, SettleCall, DropAborted, HostWaker, CancelFlag,
           CancelAbort, CancelSwap, CancelSettle
    <3>. QED
        BY <3>1 DEF Early
  <2>2. CASE ~waker
    <3>1. next_id = 1 /\ completed = <<>> /\ \A t \in Tasks : run[t] = "none"
        BY <2>2 DEF Early, IInv, Spawned
    <3>2. \A k \in Kinds : ~Spawn(k)
        BY <2>2 DEF Spawn
    <3>3. \A t \in Tasks : ~Push(t)
        BY <3>1 DEF Push
    <3>4. next_id' = next_id /\ completed' = completed
        BY <3>1, <3>2, <3>3
        DEF Next, UiStep, AppStep, WorkerStep, CancelStep, Quiescent, vars,
           taskVars, scopeVars, wakeVars, cancelVars, uiVars, Register, Track, PublishWaker,
           CatchUp, PumpTasks, SweepSkips, SweepStalls, Drain, Deliver, HandlerReturns,
           PumpReturns, Suspend, Resume, CancelAll, Unmount, SetWaker, CancelHandle,
           Woken, Poll, PollPending, PollReady, PollPanics, StreamYields, CheckCancelled,
           Wake, SettleSwap, SettleCall, DropAborted, HostWaker, CancelFlag,
           CancelAbort, CancelSwap, CancelSettle
    <3>. QED
        BY <3>1, <3>4 DEF Early
  <2>. QED
      BY <2>1, <2>2
<1>3. IInv /\ Early /\ NoMissedCompletion /\ [Next]_vars => NoMissedCompletion'
  <2> SUFFICES ASSUME IInv, Early, NoMissedCompletion, [Next]_vars PROVE NoMissedCompletion'
      OBVIOUS
  <2>1. CASE EmptyPublish
      BY <2>1 DEF EmptyPublish, PublishWaker, Early, NoMissedCompletion, WakeOwed, UiAt, taskVars
  <2>2. CASE ~EmptyPublish
      BY <2>2, NextCompletion
  <2>. QED
      BY <2>1, <2>2
<1>. QED
    BY <1>1, <1>2, <1>3, InitIInv, NextIInv, PTL DEF Spec

-----------------------------------------------------------------------------
(* Results.  The entries of a task that are queued, in the tree's batch    *)
(* and then in completed, are the ones it pushed and the tree has not      *)
(* delivered, in order; ResultsInOrder is inductive with the types.        *)

Queue == batch \o completed

\* The entries of t in the queue, once it has pushed n and had d delivered.
Ordered(queue, t, d, n) ==
    /\ \A k \in DOMAIN queue : queue[k].task = t => queue[k].item \in (d + 1)..n
    /\ \A i \in (d + 1)..n : \E k \in DOMAIN queue : queue[k] = [task |-> t, item |-> i]
    /\ \A j, k \in DOMAIN queue :
           j < k /\ queue[j].task = t /\ queue[k].task = t => queue[j].item < queue[k].item

\* The next entry of a task comes at the end of the queue.
LEMMA OrderedPush ==
    ASSUME NEW queue \in Seq(Entries), NEW t \in Tasks, NEW d \in Nat, NEW n \in Nat, d <= n,
           Ordered(queue, t, d, n)
    PROVE  Ordered(Append(queue, [task |-> t, item |-> n + 1]), t, d, n + 1)
<1> DEFINE e == [task |-> t, item |-> n + 1]
           more == Append(queue, e)
<1>1. /\ DOMAIN queue = 1..Len(queue) /\ DOMAIN more = 1..(Len(queue) + 1) /\ Len(queue) \in Nat
      /\ \A k \in 1..Len(queue) : more[k] = queue[k] /\ queue[k] \in Entries
      /\ more[Len(queue) + 1] = e
    OBVIOUS
<1>2. e.task = t /\ e.item = n + 1
    OBVIOUS
<1>3. \A k \in 1..Len(queue) : queue[k].item \in Nat
    BY <1>1 DEF Entries
<1> HIDE DEF more, e
<1>4. \A k \in DOMAIN more : more[k].task = t => more[k].item \in (d + 1)..(n + 1)
    BY <1>1, <1>2 DEF Ordered
<1>5. ASSUME NEW i \in (d + 1)..(n + 1)
      PROVE  \E k \in DOMAIN more : more[k] = [task |-> t, item |-> i]
  <2>1. CASE i = n + 1
      BY <1>1, <2>1 DEF e
  <2>2. CASE i # n + 1
    <3>1. i \in (d + 1)..n
        BY <2>2
    <3>2. PICK k \in 1..Len(queue) : queue[k] = [task |-> t, item |-> i]
        BY <1>1, <3>1 DEF Ordered
    <3>. QED
        BY <1>1, <3>2
  <2>. QED
      BY <2>1, <2>2
<1>6. ASSUME NEW j \in DOMAIN more, NEW k \in DOMAIN more, j < k,
             more[j].task = t, more[k].task = t
      PROVE  more[j].item < more[k].item
  <2>1. j \in 1..Len(queue) /\ more[j] = queue[j]
      BY <1>1, <1>6
  <2>2. CASE k \in 1..Len(queue)
      BY <1>1, <1>6, <2>1, <2>2 DEF Ordered
  <2>3. CASE k = Len(queue) + 1
    <3>1. queue[j].item \in (d + 1)..n
        BY <1>1, <1>6, <2>1 DEF Ordered
    <3>2. more[k].item = n + 1
        BY <1>1, <1>2, <2>3
    <3>. QED
        BY <2>1, <3>1, <3>2
  <2>. QED
      BY <1>1, <1>6, <2>2, <2>3
<1>. QED
    BY <1>4, <1>5, <1>6 DEF Ordered, more, e

\* An entry of another task changes nothing for t, wherever it is inserted
\* or taken out: shorter is longer without its place p.
LEMMA OrderedWithout ==
    ASSUME NEW longer \in Seq(Entries), NEW shorter \in Seq(Entries), NEW p \in DOMAIN longer,
           Len(longer) = Len(shorter) + 1,
           \A k \in DOMAIN shorter : shorter[k] = longer[IF k < p THEN k ELSE k + 1],
           NEW t \in Tasks, longer[p].task # t, NEW d \in Nat, NEW n \in Nat
    PROVE  Ordered(longer, t, d, n) <=> Ordered(shorter, t, d, n)
<1> DEFINE At(k) == IF k < p THEN k ELSE k + 1
<1>1. /\ DOMAIN longer = 1..Len(longer) /\ DOMAIN shorter = 1..Len(shorter)
      /\ Len(shorter) \in Nat /\ p \in 1..Len(longer)
    OBVIOUS
<1>2. \A k \in DOMAIN shorter : At(k) \in DOMAIN longer /\ shorter[k] = longer[At(k)]
    BY <1>1
<1>3. ASSUME NEW k \in DOMAIN longer, k # p
      PROVE  \E l \in DOMAIN shorter : k = At(l)
  <2>1. CASE k < p
      BY <1>1, <2>1
  <2>2. CASE k > p
    <3>1. k - 1 \in DOMAIN shorter /\ k = At(k - 1)
        BY <1>1, <2>2
    <3>. QED
        BY <3>1
  <2>. QED
      BY <1>1, <1>3, <2>1, <2>2
<1>4. \A j, k \in DOMAIN shorter : j < k <=> At(j) < At(k)
    BY <1>1
<1>5. DOMAIN longer \subseteq Int /\ DOMAIN shorter \subseteq Int
    BY <1>1
<1> HIDE DEF At
<1>6. ASSUME Ordered(longer, t, d, n) PROVE Ordered(shorter, t, d, n)
  <2>1. \A k \in DOMAIN shorter : shorter[k].task = t => shorter[k].item \in (d + 1)..n
      BY <1>2, <1>6 DEF Ordered
  <2>2. ASSUME NEW i \in (d + 1)..n
        PROVE  \E k \in DOMAIN shorter : shorter[k] = [task |-> t, item |-> i]
    <3>1. PICK k \in DOMAIN longer : longer[k] = [task |-> t, item |-> i]
        BY <1>6 DEF Ordered
    <3>2. k # p
        BY <3>1
    <3>. QED
        BY <1>2, <1>3, <3>1, <3>2
  <2>3. \A j, k \in DOMAIN shorter :
           j < k /\ shorter[j].task = t /\ shorter[k].task = t => shorter[j].item < shorter[k].item
      BY <1>2, <1>4, <1>6 DEF Ordered
  <2>. QED
      BY <2>1, <2>2, <2>3 DEF Ordered
<1>7. ASSUME Ordered(shorter, t, d, n) PROVE Ordered(longer, t, d, n)
  <2>1. \A k \in DOMAIN longer : longer[k].task = t => longer[k].item \in (d + 1)..n
      BY <1>2, <1>3, <1>7 DEF Ordered
  <2>2. ASSUME NEW i \in (d + 1)..n
        PROVE  \E k \in DOMAIN longer : longer[k] = [task |-> t, item |-> i]
      BY <1>2, <1>7 DEF Ordered
  <2>3. ASSUME NEW j \in DOMAIN longer, NEW k \in DOMAIN longer,
               j < k, longer[j].task = t, longer[k].task = t
        PROVE  longer[j].item < longer[k].item
    <3>1. PICK a \in DOMAIN shorter : j = At(a)
        BY <1>3, <2>3
    <3>2. PICK b \in DOMAIN shorter : k = At(b)
        BY <1>3, <2>3
    <3>3. a < b /\ shorter[a] = longer[j] /\ shorter[b] = longer[k]
        BY <1>2, <1>4, <2>3, <3>1, <3>2
    <3>. QED
        BY <1>7, <2>3, <3>3 DEF Ordered
  <2>. QED
      BY <2>1, <2>2, <2>3 DEF Ordered
<1>. QED
    BY <1>6, <1>7

\* The first entry of the queue, when it is one of t, is the one due next.
LEMMA OrderedDeliver ==
    ASSUME NEW queue \in Seq(Entries), queue # <<>>, NEW t \in Tasks, Head(queue).task = t,
           NEW d \in Nat, NEW n \in Nat, d <= n, Ordered(queue, t, d, n)
    PROVE  d + 1 <= n /\ Ordered(Tail(queue), t, d + 1, n)
<1> DEFINE rest == Tail(queue)
<1>1. /\ Len(queue) \in Nat \ {0} /\ DOMAIN queue = 1..Len(queue)
      /\ DOMAIN rest = 1..(Len(queue) - 1)
      /\ \A k \in DOMAIN rest : rest[k] = queue[k + 1]
      /\ \A k \in DOMAIN queue : queue[k] \in Entries
      /\ Head(queue) = queue[1] /\ 1 \in DOMAIN queue
    OBVIOUS
<1>2. \A k \in DOMAIN queue : queue[k].item \in Nat
    BY <1>1 DEF Entries
<1> HIDE DEF rest
<1>3. queue[1].item \in (d + 1)..n
    BY <1>1 DEF Ordered
<1>4. queue[1].item = d + 1
  <2>1. PICK k \in DOMAIN queue : queue[k] = [task |-> t, item |-> d + 1]
      BY <1>3 DEF Ordered
  <2>2. queue[k].task = t /\ queue[k].item = d + 1
      BY <2>1
  <2>3. k = 1 \/ 1 < k
      BY <1>1
  <2>4. 1 < k => queue[1].item < d + 1
      BY <1>1, <2>2 DEF Ordered
  <2>. QED
      BY <1>3, <2>2, <2>3, <2>4
<1>5. ASSUME NEW k \in DOMAIN rest, rest[k].task = t
      PROVE  rest[k].item \in (d + 2)..n
  <2>1. /\ k + 1 \in DOMAIN queue /\ 1 < k + 1 /\ rest[k] = queue[k + 1]
        /\ queue[1].task = t
      BY <1>1
  <2>2. queue[k + 1].item \in (d + 1)..n /\ queue[1].item < queue[k + 1].item
      BY <1>1, <1>5, <2>1 DEF Ordered
  <2>. QED
      BY <1>4, <2>1, <2>2
<1>6. ASSUME NEW i \in (d + 2)..n
      PROVE  \E k \in DOMAIN rest : rest[k] = [task |-> t, item |-> i]
  <2>1. PICK k \in DOMAIN queue : queue[k] = [task |-> t, item |-> i]
      BY DEF Ordered
  <2>2. k # 1
    <3>1. queue[k].item = i
        BY <2>1
    <3>. QED
        BY <1>4, <3>1
  <2>3. k - 1 \in DOMAIN rest /\ rest[k - 1] = queue[k]
      BY <1>1, <2>2
  <2>. QED
      BY <2>1, <2>3
<1>7. ASSUME NEW j \in DOMAIN rest, NEW k \in DOMAIN rest,
             j < k, rest[j].task = t, rest[k].task = t
      PROVE  rest[j].item < rest[k].item
  <2>1. j + 1 \in DOMAIN queue /\ k + 1 \in DOMAIN queue /\ j + 1 < k + 1
      BY <1>1, <1>7
  <2>2. rest[j] = queue[j + 1] /\ rest[k] = queue[k + 1]
      BY <1>1
  <2>. QED
      BY <1>7, <2>1, <2>2 DEF Ordered
<1>. QED
    BY <1>3, <1>5, <1>6, <1>7 DEF Ordered, rest

\* Two sequences laid end to end.
LEMMA Joined ==
    ASSUME NEW S, NEW b \in Seq(S), NEW c \in Seq(S), NEW q, q = b \o c
    PROVE  /\ q \in Seq(S) /\ Len(q) = Len(b) + Len(c) /\ DOMAIN q = 1..(Len(b) + Len(c))
           /\ \A i \in 1..Len(b) : q[i] = b[i]
           /\ \A i \in 1..Len(c) : q[Len(b) + i] = c[i]
<1> DEFINE m == Len(b)
           n == Len(c)
<1>1. m \in Nat /\ n \in Nat
    BY LenProperties
<1>2. /\ q \in Seq(S) /\ Len(q) = m + n
      /\ \A i \in 1..(m + n) : q[i] = IF i <= m THEN b[i] ELSE c[i - m]
    BY ConcatProperties
<1>3. DOMAIN q = 1..(m + n)
    BY <1>2, LenProperties
<1> HIDE DEF m, n
<1>4. ASSUME NEW i \in 1..m PROVE q[i] = b[i]
  <2>1. i \in 1..(m + n) /\ i <= m
      BY <1>1
  <2>. QED
      BY <1>2, <2>1
<1>5. ASSUME NEW i \in 1..n PROVE q[m + i] = c[i]
  <2> DEFINE k == m + i
  <2>1. k \in 1..(m + n) /\ ~(k <= m) /\ k - m = i
      BY <1>1
  <2> HIDE DEF k
  <2>2. q[k] = IF k <= m THEN b[k] ELSE c[k - m]
      BY <1>2, <2>1
  <2>. QED
      BY <2>1, <2>2 DEF k
<1>. QED
    BY <1>2, <1>3, <1>4, <1>5 DEF m, n

\* The head of the second one is dropped.
LEMMA SecondHeadDropped ==
    ASSUME NEW S, NEW b \in Seq(S), NEW c \in Seq(S), c # <<>>,
           NEW q, NEW r, q = b \o c, r = b \o Tail(c)
    PROVE  /\ q \in Seq(S) /\ r \in Seq(S)
           /\ Len(q) = Len(r) + 1 /\ Len(b) + 1 \in DOMAIN q /\ q[Len(b) + 1] = Head(c)
           /\ \A k \in DOMAIN r : r[k] = q[IF k < Len(b) + 1 THEN k ELSE k + 1]
<1> DEFINE m == Len(b)
           n == Len(c)
           t == Tail(c)
<1>1. /\ t \in Seq(S) /\ m \in Nat /\ n \in Nat \ {0} /\ Len(t) = n - 1 /\ Head(c) = c[1]
      /\ \A i \in 1..(n - 1) : t[i] = c[i + 1]
    BY HeadTailProperties, LenProperties, EmptySeq
<1>2. /\ q \in Seq(S) /\ Len(q) = m + n /\ DOMAIN q = 1..(m + n)
      /\ \A i \in 1..m : q[i] = b[i]
      /\ \A i \in 1..n : q[m + i] = c[i]
    BY Joined
<1>3. /\ r \in Seq(S) /\ Len(r) = m + (n - 1) /\ DOMAIN r = 1..(m + (n - 1))
      /\ \A i \in 1..m : r[i] = b[i]
      /\ \A i \in 1..(n - 1) : r[m + i] = t[i]
    BY <1>1, Joined
<1> HIDE DEF m, n, t
<1>4. q[m + 1] = Head(c) /\ m + 1 \in DOMAIN q /\ Len(q) = Len(r) + 1
  <2>1. 1 \in 1..n /\ m + 1 \in 1..(m + n) /\ m + n = m + (n - 1) + 1
      BY <1>1
  <2>. QED
      BY <1>1, <1>2, <1>3, <2>1
<1>5. ASSUME NEW k \in DOMAIN r
      PROVE  r[k] = q[IF k < m + 1 THEN k ELSE k + 1]
  <2>1. CASE k \in 1..m
    <3>1. k < m + 1
        BY <1>1, <2>1
    <3>. QED
        BY <1>2, <1>3, <2>1, <3>1
  <2>2. CASE k \notin 1..m
    <3>1. PICK i \in 1..(n - 1) : k = m + i
      <4>1. k - m \in 1..(n - 1) /\ k = m + (k - m)
          BY <1>1, <1>3, <2>2
      <4>. QED
          BY <4>1
    <3>2. i + 1 \in 1..n /\ m + (i + 1) = k + 1 /\ ~(k < m + 1)
        BY <1>1, <3>1
    <3>3. q[m + (i + 1)] = c[i + 1]
        BY <1>2, <3>2
    <3>4. r[k] = c[i + 1]
        BY <1>1, <1>3, <3>1
    <3>. QED
        BY <3>2, <3>3, <3>4
  <2>. QED
      BY <2>1, <2>2
<1>. QED
    BY <1>2, <1>3, <1>4, <1>5 DEF m

\* Or that of the first one.
LEMMA FirstHeadDropped ==
    ASSUME NEW S, NEW b \in Seq(S), NEW c \in Seq(S), b # <<>>,
           NEW q, NEW r, q = b \o c, r = Tail(b) \o c
    PROVE  q \in Seq(S) /\ q # <<>> /\ Head(q) = Head(b) /\ r = Tail(q)
<1> DEFINE m == Len(b)
           n == Len(c)
           t == Tail(b)
           u == Tail(q)
<1>1. /\ t \in Seq(S) /\ m \in Nat \ {0} /\ n \in Nat /\ Len(t) = m - 1 /\ Head(b) = b[1]
      /\ \A i \in 1..(m - 1) : t[i] = b[i + 1]
    BY HeadTailProperties, LenProperties, EmptySeq
<1>2. /\ q \in Seq(S) /\ Len(q) = m + n
      /\ \A i \in 1..m : q[i] = b[i]
      /\ \A i \in 1..n : q[m + i] = c[i]
    BY Joined
<1>3. /\ r \in Seq(S) /\ Len(r) = m - 1 + n
      /\ \A i \in 1..(m - 1) : r[i] = t[i]
      /\ \A i \in 1..n : r[m - 1 + i] = c[i]
    BY <1>1, Joined
<1>4. q # <<>>
  <2>1. m + n # 0
      BY <1>1
  <2>. QED
      BY <1>2, <2>1, EmptySeq
<1>5. Head(q) = q[1]
    BY <1>2, <1>4
<1>6. u \in Seq(S) /\ Len(u) = m + n - 1 /\ \A i \in 1..(m + n - 1) : u[i] = q[i + 1]
    BY <1>2, <1>4, HeadTailProperties
<1> HIDE DEF m, n, t, u
<1>7. Head(q) = Head(b)
  <2>1. 1 \in 1..m
      BY <1>1
  <2>. QED
      BY <1>1, <1>2, <1>5, <2>1
<1>8. ASSUME NEW k \in 1..(m - 1 + n) PROVE r[k] = u[k]
  <2>1. u[k] = q[k + 1]
    <3>1. k \in 1..(m + n - 1)
        BY <1>1
    <3>. QED
        BY <1>6, <3>1
  <2>2. CASE k \in 1..(m - 1)
    <3>1. k + 1 \in 1..m
        BY <1>1, <2>2
    <3>2. q[k + 1] = b[k + 1]
        BY <1>2, <3>1
    <3>3. r[k] = t[k] /\ t[k] = b[k + 1]
        BY <1>1, <1>3, <2>2
    <3>. QED
        BY <2>1, <3>2, <3>3
  <2>3. CASE k \notin 1..(m - 1)
    <3>1. PICK i \in 1..n : k = m - 1 + i
      <4>1. k - (m - 1) \in 1..n /\ k = m - 1 + (k - (m - 1))
          BY <1>1, <2>3
      <4>. QED
          BY <4>1
    <3>2. m + i = k + 1
        BY <1>1, <3>1
    <3>3. q[m + i] = c[i] /\ r[m - 1 + i] = c[i]
        BY <1>2, <1>3
    <3>. QED
        BY <2>1, <3>1, <3>2, <3>3
  <2>. QED
      BY <2>2, <2>3
<1>9. r = u
  <2>1. m - 1 + n = m + n - 1
      BY <1>1
  <2>2. Len(r) = Len(u) /\ \A i \in 1..Len(r) : r[i] = u[i]
      BY <1>3, <1>6, <1>8, <2>1
  <2>3. r \in Seq(S) /\ u \in Seq(S)
      BY <1>3, <1>6
  <2>. QED
      BY ONLY <2>2, <2>3, SeqEqual
<1>10. r = Tail(q)
    BY <1>9 DEF u
<1>. QED
    BY <1>2, <1>4, <1>7, <1>10

\* ResultsInOrder, and no more deliveries than entries.
Results ==
    \A t \in Tasks : mounted /\ ~cancelled[t] =>
        delivered[t] <= items[t] /\ Ordered(Queue, t, delivered[t], items[t])

LEMMA ResultsStated == TypeOK /\ Results => ResultsInOrder
  BY DEF Results, ResultsInOrder, Ordered, Queue

\* A step that leaves the queue alone leaves the results alone.
LEMMA ResultsFrame ==
    ASSUME TypeOK, Results, UNCHANGED <<items, completed, batch, delivered>>,
           mounted' => mounted, \A t \in Tasks : cancelled[t] => cancelled'[t]
    PROVE  Results'
  BY DEF TypeOK, Results, Queue

\* A worker's push, under the lock of the queue.
LEMMA PushResults ==
    ASSUME TypeOK, Results, NEW u \in Tasks, Push(u)
    PROVE  Results'
<1> DEFINE e == [task |-> u, item |-> items[u] + 1]
<1>1. /\ Queue \in Seq(Entries) /\ e \in Entries /\ items[u] \in Nat
      /\ \A t \in Tasks : items[t] \in Nat /\ delivered[t] \in Nat
      /\ batch \in Seq(Entries) /\ completed \in Seq(Entries)
    BY DEF TypeOK, Queue, Entries
<1>2. /\ completed' = Append(completed, e) /\ items' = [items EXCEPT ![u] = @ + 1]
      /\ UNCHANGED <<batch, delivered, mounted, cancelled>>
    BY DEF Push, taskVars, scopeVars, uiVars
<1>3. Queue' = Append(Queue, e)
  <2> HIDE DEF e
  <2>1. batch \o Append(completed, e) = Append(batch \o completed, e)
      BY <1>1
  <2>. QED
      BY <1>2, <2>1 DEF Queue
<1>4. \A t \in Tasks : items'[t] = IF t = u THEN items[u] + 1 ELSE items[t]
  <2>1. items \in [Tasks -> Nat]
      BY DEF TypeOK
  <2>. QED
      BY <1>2, <2>1
<1> SUFFICES ASSUME NEW t \in Tasks, mounted, ~cancelled[t]
             PROVE  delivered[t] <= items'[t] /\ Ordered(Queue', t, delivered[t], items'[t])
    BY <1>2 DEF Results
<1>5. delivered[t] <= items[t] /\ Ordered(Queue, t, delivered[t], items[t])
    BY DEF Results
<1>6. CASE t = u
    BY <1>1, <1>3, <1>4, <1>5, <1>6, OrderedPush
<1>7. CASE t # u
  <2>1. /\ Queue' \in Seq(Entries) /\ Len(Queue') = Len(Queue) + 1
        /\ Len(Queue') \in DOMAIN Queue' /\ Queue'[Len(Queue')] = e
        /\ \A k \in DOMAIN Queue : k < Len(Queue') /\ Queue[k] = Queue'[k]
      BY <1>1, <1>3
  <2>2. e.task # t
      BY <1>7
  <2>3. Ordered(Queue', t, delivered[t], items[t]) <=> Ordered(Queue, t, delivered[t], items[t])
    <3> HIDE DEF e
    <3>. QED
        BY <1>1, <2>1, <2>2, OrderedWithout
  <2>. QED
      BY <1>4, <1>5, <1>7, <2>3
<1>. QED
    BY <1>6, <1>7

\* drain moves the head of completed to the end of the batch, or drops it
\* because its task was cancelled.
LEMMA DrainResults ==
    ASSUME TypeOK, Results, Drain
    PROVE  Results'
<1>1. UNCHANGED <<items, delivered, mounted, cancelled>>
    BY DEF Drain, taskVars, scopeVars
<1>2. CASE completed = <<>>
    BY <1>1, <1>2, ResultsFrame DEF Drain
<1>3. CASE completed # <<>>
  <2> DEFINE e == Head(completed)
  <2>1. /\ completed \in Seq(Entries) /\ batch \in Seq(Entries) /\ e \in Entries
        /\ e.task \in Tasks
    <3>1. completed \in Seq(Entries) /\ batch \in Seq(Entries)
        BY DEF TypeOK
    <3>2. e \in Entries
        BY <1>3, <3>1
    <3>. QED
        BY <3>1, <3>2 DEF Entries
  <2>2. completed' = Tail(completed)
      BY <1>3 DEF Drain
  <2>3. CASE ~cancelled[e.task]
    <3>1. batch' = Append(batch, e)
        BY <1>3, <2>3 DEF Drain
    <3>2. Queue' = Queue
      <4>1. Append(batch, e) \o Tail(completed) = batch \o completed
          BY <1>3, <2>1
      <4>. QED
          BY <2>2, <3>1, <4>1 DEF Queue
    <3>. QED
        BY <1>1, <3>2 DEF Results
  <2>4. CASE cancelled[e.task]
    <3>1. batch' = batch
        BY <1>3, <2>4 DEF Drain
    <3>2. /\ Queue \in Seq(Entries) /\ Queue' \in Seq(Entries)
          /\ Len(Queue) = Len(Queue') + 1 /\ Len(batch) + 1 \in DOMAIN Queue
          /\ Queue[Len(batch) + 1] = e
          /\ \A k \in DOMAIN Queue' : Queue'[k] = Queue[IF k < Len(batch) + 1 THEN k ELSE k + 1]
      <4>1. Queue = batch \o completed /\ Queue' = batch \o Tail(completed)
          BY <2>2, <3>1 DEF Queue
      <4>2. completed # <<>> /\ completed \in Seq(Entries) /\ batch \in Seq(Entries)
          BY <1>3, <2>1
      <4>3. \A q, r : q = batch \o completed /\ r = batch \o Tail(completed) =>
              /\ q \in Seq(Entries) /\ r \in Seq(Entries)
              /\ Len(q) = Len(r) + 1 /\ Len(batch) + 1 \in DOMAIN q
              /\ q[Len(batch) + 1] = e
              /\ \A k \in DOMAIN r : r[k] = q[IF k < Len(batch) + 1 THEN k ELSE k + 1]
          BY ONLY <4>2, SecondHeadDropped
      <4>. QED
          BY ONLY <4>1, <4>3
    <3> HIDE DEF e
    <3>3. ASSUME NEW t \in Tasks, mounted, ~cancelled[t]
          PROVE  Ordered(Queue', t, delivered[t], items[t])
      <4>1. e.task # t
          BY <2>4, <3>3
      <4>2. Ordered(Queue, t, delivered[t], items[t]) /\ delivered[t] \in Nat /\ items[t] \in Nat
          BY <3>3 DEF Results, TypeOK
      <4>. QED
          BY <3>2, <4>1, <4>2, OrderedWithout
    <3>. QED
        BY <1>1, <3>3 DEF Results
  <2>. QED
      BY <2>3, <2>4
<1>. QED
    BY <1>2, <1>3

\* The tree delivers the head of its batch, or drops it with the component.
LEMMA DeliverResults ==
    ASSUME TypeOK, Results, Deliver
    PROVE  Results'
<1> DEFINE u == Head(batch).task
<1>1. UNCHANGED <<items, completed, mounted, cancelled>> /\ batch' = Tail(batch) /\ batch # <<>>
    BY DEF Deliver, taskVars, scopeVars
<1>2. /\ completed \in Seq(Entries) /\ batch \in Seq(Entries) /\ Head(batch) \in Entries
      /\ u \in Tasks
  <2>1. completed \in Seq(Entries) /\ batch \in Seq(Entries)
      BY DEF TypeOK
  <2>2. Head(batch) \in Entries
      BY <1>1, <2>1
  <2>. QED
      BY <2>1, <2>2 DEF Entries
<1>3. /\ Queue \in Seq(Entries) /\ Queue # <<>> /\ Head(Queue) = Head(batch)
      /\ Queue' = Tail(Queue)
  <2>1. /\ batch \in Seq(Entries) /\ completed \in Seq(Entries)
        /\ batch' = Tail(batch) /\ completed' = completed
      BY <1>1 DEF TypeOK
  <2>2. Queue = batch \o completed /\ Queue' = Tail(batch) \o completed
      BY <2>1 DEF Queue
  <2>. QED
      BY <1>1, <2>1, <2>2, FirstHeadDropped
<1>4. mounted => delivered' = [delivered EXCEPT ![u] = @ + 1]
    BY DEF Deliver
<1>5. \A t \in Tasks : delivered[t] \in Nat /\ items[t] \in Nat
    BY DEF TypeOK
<1>6. mounted => \A t \in Tasks : delivered'[t] = IF t = u THEN delivered[u] + 1 ELSE delivered[t]
  <2>1. delivered \in [Tasks -> Nat]
      BY DEF TypeOK
  <2>. QED
      BY <1>4, <2>1
<1> HIDE DEF u
<1>7. ASSUME NEW t \in Tasks, mounted, ~cancelled[t]
      PROVE  delivered'[t] <= items[t] /\ Ordered(Queue', t, delivered'[t], items[t])
  <2>1. delivered[t] <= items[t] /\ Ordered(Queue, t, delivered[t], items[t])
      BY <1>7 DEF Results
  <2>2. CASE t = u
    <3>1. Head(Queue).task = t
        BY <1>3, <2>2 DEF u
    <3>2. delivered[t] + 1 <= items[t] /\ Ordered(Tail(Queue), t, delivered[t] + 1, items[t])
        BY <1>3, <1>5, <2>1, <3>1, OrderedDeliver
    <3>. QED
        BY <1>3, <1>6, <1>7, <2>2, <3>2
  <2>3. CASE t # u
    <3>1. /\ Queue' \in Seq(Entries) /\ Len(Queue) = Len(Queue') + 1 /\ 1 \in DOMAIN Queue
          /\ Queue[1].task = u
          /\ \A k \in DOMAIN Queue' : Queue'[k] = Queue[IF k < 1 THEN k ELSE k + 1]
        BY <1>2, <1>3 DEF u
    <3>2. Ordered(Queue, t, delivered[t], items[t]) <=> Ordered(Queue', t, delivered[t], items[t])
        BY <1>3, <1>5, <2>3, <3>1, OrderedWithout
    <3>. QED
        BY <1>6, <1>7, <2>1, <2>3, <3>2
  <2>. QED
      BY <2>2, <2>3
<1>. QED
    BY <1>1, <1>7 DEF Results

\* The UI thread's other steps leave the queue alone.
LEMMA UiResults ==
    ASSUME TypeOK, Results, UiStep
    PROVE  Results'
<1> USE ResultsFrame DEF UiAt, taskVars, scopeVars, uiVars
<1>1. CASE Register
    BY <1>1 DEF Register
<1>2. CASE Track
    BY <1>2 DEF Track
<1>3. CASE PublishWaker
    BY <1>3 DEF PublishWaker
<1>4. CASE CatchUp
    BY <1>4 DEF CatchUp
<1>5. CASE PumpTasks
    BY <1>5 DEF PumpTasks
<1>6. CASE \E t \in Tasks : SweepSkips(t)
    BY <1>6 DEF SweepSkips
<1>7. CASE SweepStalls
    BY <1>7 DEF SweepStalls
<1>8. CASE HandlerReturns
    BY <1>8 DEF HandlerReturns
<1>9. CASE PumpReturns
    BY <1>9 DEF PumpReturns
<1>. QED
    BY <1>1, <1>2, <1>3, <1>4, <1>5, <1>6, <1>7, <1>8, <1>9, DrainResults, DeliverResults
    DEF UiStep

\* So do the application's calls.
LEMMA AppResults ==
    ASSUME TypeOK, Results, AppStep
    PROVE  Results'
<1> USE ResultsFrame DEF taskVars, scopeVars, uiVars
<1>1. CASE \E k \in Kinds : Spawn(k)
    BY <1>1 DEF Spawn
<1>2. CASE Suspend
    BY <1>2 DEF Suspend
<1>3. CASE Resume
    BY <1>3 DEF Resume
<1>4. CASE CancelAll
    BY <1>4 DEF CancelAll
<1>5. CASE Unmount
    BY <1>5 DEF Unmount
<1>6. CASE SetWaker
    BY <1>6 DEF SetWaker
<1>7. CASE \E th \in Threads, t \in Tasks : CancelHandle(th, t)
    BY <1>7 DEF CancelHandle
<1>8. CASE \E t \in Tasks : Woken(t)
    BY <1>8 DEF Woken
<1>. QED
    BY <1>1, <1>2, <1>3, <1>4, <1>5, <1>6, <1>7, <1>8 DEF AppStep

\* So do a worker's other steps.
LEMMA WorkerResults ==
    ASSUME TypeOK, Results, NEW t \in Tasks, WorkerStep(t) \/ HostWaker(t)
    PROVE  Results'
<1> USE ResultsFrame DEF taskVars, scopeVars, uiVars
<1>1. CASE Poll(t)
    BY <1>1 DEF Poll
<1>2. CASE PollPending(t)
    BY <1>2 DEF PollPending
<1>3. CASE PollReady(t)
    BY <1>3 DEF PollReady
<1>4. CASE PollPanics(t)
    BY <1>4 DEF PollPanics
<1>5. CASE StreamYields(t)
    BY <1>5 DEF StreamYields
<1>6. CASE CheckCancelled(t)
    BY <1>6 DEF CheckCancelled
<1>7. CASE Wake(t)
    BY <1>7 DEF Wake
<1>8. CASE SettleSwap(t)
    BY <1>8 DEF SettleSwap
<1>9. CASE SettleCall(t)
    BY <1>9 DEF SettleCall
<1>10. CASE DropAborted(t)
    BY <1>10 DEF DropAborted
<1>11. CASE HostWaker(t)
    BY <1>11 DEF HostWaker
<1>. QED
    BY <1>1, <1>2, <1>3, <1>4, <1>5, <1>6, <1>7, <1>8, <1>9, <1>10, <1>11, PushResults
    DEF WorkerStep

\* So do a canceller's.
LEMMA CancelResults ==
    ASSUME TypeOK, Results, NEW th \in Threads, CancelStep(th)
    PROVE  Results'
<1> USE ResultsFrame DEF taskVars, scopeVars, uiVars
<1>1. CASE \E t \in Tasks : CancelFlag(th, t)
  <2>1. PICK t \in Tasks : CancelFlag(th, t)
      BY <1>1
  <2>2. \A u \in Tasks : cancelled[u] => cancelled'[u]
      BY <2>1 DEF CancelFlag, TypeOK
  <2>. QED
      BY <2>1, <2>2 DEF CancelFlag
<1>2. CASE CancelAbort(th)
    BY <1>2 DEF CancelAbort
<1>3. CASE CancelSwap(th)
    BY <1>3 DEF CancelSwap
<1>4. CASE CancelSettle(th)
    BY <1>4 DEF CancelSettle
<1>. QED
    BY <1>1, <1>2, <1>3, <1>4 DEF CancelStep

\* No result or stream item is lost, doubled or reordered between the worker
\* and the component, while nobody cancels the task: for any number of tasks
\* and items, however pushes, drains and deliveries interleave.
THEOREM ResultsDelivered == Spec => []ResultsInOrder
<1>1. Init => Results
  <2> SUFFICES ASSUME Init PROVE Results
      OBVIOUS
  <2>1. Queue = <<>> /\ \A t \in Tasks : delivered[t] = 0 /\ items[t] = 0
      BY DEF Init, Queue
  <2>. QED
      BY <2>1 DEF Results, Ordered
<1>2. TypeOK /\ Results /\ [Next]_vars => Results'
  <2> SUFFICES ASSUME TypeOK, Results, [Next]_vars PROVE Results'
      OBVIOUS
  <2>1. CASE UNCHANGED vars
      BY <2>1, ResultsFrame DEF vars, taskVars, scopeVars, uiVars
  <2>. QED
      BY <2>1, UiResults, AppResults, WorkerResults, CancelResults DEF Next, Quiescent
<1>. QED
    BY <1>1, <1>2, TypeCorrect, ResultsStated, PTL DEF Spec

-----------------------------------------------------------------------------
(* Late cancellations.  CancelledNeverDelivered fails: a batch is filtered *)
(* once, when it is drained.  These theorems say how far that goes: the    *)
(* batch exists only inside a pump, and a task that is cancelled while the *)
(* batch holds none of its results is never heard of again.                *)

Batched(t) == \E k \in DOMAIN batch : batch[k].task = t

Pumping == ui \in {"drain", "deliver", "handling"}

\* Between pumps no result is on its way past the filter.
BatchOfPump == batch # <<>> => Pumping

\* A cancellation holds from the moment the running batch, if there is one,
\* has no result of the task left: it is not withdrawn, no later drain lets a
\* result through and none is delivered.
Holds(t) ==
    cancelled[t] /\ ~Batched(t) => cancelled'[t] /\ ~Batched(t)' /\ delivered'[t] = delivered[t]

CancelHolds == [][\A t \in Tasks : Holds(t)]_vars

\* Steps that deliver nothing and drain nothing.
HoldsFrame ==
    /\ UNCHANGED <<batch, delivered>>
    /\ \A t \in Tasks : cancelled[t] => cancelled'[t]
    /\ Pumping => Pumping'

LEMMA HoldsFrameKeeps ==
    ASSUME BatchOfPump, HoldsFrame
    PROVE  BatchOfPump' /\ \A t \in Tasks : Holds(t)
BY DEF BatchOfPump, HoldsFrame, Holds, Batched

\* The filter: an entry enters the batch only if its task is not cancelled.
LEMMA DrainHolds ==
    ASSUME TypeOK, BatchOfPump, Drain
    PROVE  BatchOfPump' /\ \A t \in Tasks : Holds(t)
<1>1. batch \in Seq(Entries) /\ completed \in Seq(Entries) /\ UNCHANGED <<cancelled, delivered>>
    BY DEF TypeOK, Drain, taskVars
<1>2. Pumping'
    BY DEF Drain, UiAt, Pumping
<1>3. CASE batch' = batch
    BY <1>1, <1>2, <1>3, HoldsFrameKeeps DEF HoldsFrame
<1>4. CASE batch' # batch
  <2> DEFINE e == Head(completed)
  <2>1. completed # <<>> /\ ~cancelled[e.task] /\ batch' = Append(batch, e)
      BY <1>4 DEF Drain
  <2>2. e \in Entries
      BY <1>1, <2>1
  <2> HIDE DEF e
  <2>3. /\ DOMAIN batch' = 1..(Len(batch) + 1) /\ DOMAIN batch = 1..Len(batch)
        /\ Len(batch) \in Nat /\ batch'[Len(batch) + 1] = e
        /\ \A k \in 1..Len(batch) : batch'[k] = batch[k]
      BY <1>1, <2>1, <2>2
  <2>4. ASSUME NEW t \in Tasks, cancelled[t], ~Batched(t)
        PROVE  ~Batched(t)'
    <3>1. t # e.task
        BY <2>1, <2>4
    <3>2. \A k \in DOMAIN batch' : k \in 1..Len(batch) \/ k = Len(batch) + 1
        BY <2>3
    <3>. QED
        BY <2>3, <2>4, <3>1, <3>2 DEF Batched
  <2>. QED
      BY <1>1, <1>2, <2>4 DEF BatchOfPump, Holds
<1>. QED
    BY <1>3, <1>4

\* A delivery is of a task that has an entry in the batch.
LEMMA DeliverHolds ==
    ASSUME TypeOK, BatchOfPump, Deliver
    PROVE  BatchOfPump' /\ \A t \in Tasks : Holds(t)
<1>1. /\ batch \in Seq(Entries) /\ batch # <<>> /\ delivered \in [Tasks -> Nat]
      /\ batch' = Tail(batch) /\ UNCHANGED cancelled
    BY DEF TypeOK, Deliver, taskVars
<1>2. Pumping'
    BY DEF Deliver, UiAt, Pumping
<1>3. /\ 1 \in DOMAIN batch /\ Head(batch) = batch[1]
      /\ \A k \in DOMAIN batch' : k + 1 \in DOMAIN batch /\ batch'[k] = batch[k + 1]
    BY <1>1
<1>4. \A t \in Tasks : ~Batched(t) => ~Batched(t)' /\ t # Head(batch).task
    BY <1>3 DEF Batched
<1>5. \A t \in Tasks : t # Head(batch).task => delivered'[t] = delivered[t]
    BY <1>1 DEF Deliver
<1>. QED
    BY <1>1, <1>2, <1>4, <1>5 DEF BatchOfPump, Holds

\* Of the other steps of the UI thread only the end of a pump leaves it, with
\* the batch empty.
LEMMA UiHolds ==
    ASSUME TypeOK, BatchOfPump, UiStep
    PROVE  BatchOfPump' /\ \A t \in Tasks : Holds(t)
<1> USE HoldsFrameKeeps DEF HoldsFrame, Pumping, UiAt, taskVars, scopeVars, uiVars
<1>1. CASE Register \/ Track \/ PublishWaker \/ CatchUp \/ PumpTasks
    BY <1>1 DEF Register, Track, PublishWaker, CatchUp, PumpTasks
<1>2. CASE (\E t \in Tasks : SweepSkips(t)) \/ SweepStalls \/ HandlerReturns
    BY <1>2 DEF SweepSkips, SweepStalls, HandlerReturns
<1>3. CASE PumpReturns
    BY <1>3 DEF PumpReturns, BatchOfPump, Holds, Batched
<1>. QED
    BY <1>1, <1>2, <1>3, DrainHolds, DeliverHolds DEF UiStep

\* The application, the workers and the cancellers touch neither the batch
\* nor what was delivered, and nobody withdraws a cancellation.
LEMMA OthersHold ==
    ASSUME TypeOK, BatchOfPump,
           \/ AppStep
           \/ \E t \in Tasks : WorkerStep(t) \/ HostWaker(t)
           \/ \E th \in Threads : CancelStep(th)
    PROVE  BatchOfPump' /\ \A t \in Tasks : Holds(t)
<1> USE HoldsFrameKeeps DEF HoldsFrame, Pumping, UiAt, taskVars, scopeVars, uiVars
<1>1. CASE \E k \in Kinds : Spawn(k)
    BY <1>1 DEF Spawn
<1>2. CASE Suspend \/ Resume \/ CancelAll \/ Unmount \/ SetWaker
    BY <1>2 DEF Suspend, Resume, CancelAll, Unmount, SetWaker
<1>3. CASE (\E th \in Threads, t \in Tasks : CancelHandle(th, t)) \/ \E t \in Tasks : Woken(t)
    BY <1>3 DEF CancelHandle, Woken
<1>4. CASE \E t \in Tasks : WorkerStep(t) \/ HostWaker(t)
    BY <1>4 DEF WorkerStep, Poll, PollPending, PollReady, PollPanics, StreamYields,
       CheckCancelled, Push, Wake, SettleSwap, SettleCall, DropAborted, HostWaker
<1>5. CASE \E th \in Threads, t \in Tasks : CancelFlag(th, t)
  <2>1. PICK th \in Threads, t \in Tasks : CancelFlag(th, t)
      BY <1>5
  <2>2. \A u \in Tasks : cancelled[u] => cancelled'[u]
      BY <2>1 DEF CancelFlag, TypeOK
  <2>. QED
      BY <2>1, <2>2 DEF CancelFlag
<1>6. CASE \E th \in Threads : CancelAbort(th) \/ CancelSwap(th) \/ CancelSettle(th)
    BY <1>6 DEF CancelAbort, CancelSwap, CancelSettle
<1>. QED
    BY <1>1, <1>2, <1>3, <1>4, <1>5, <1>6 DEF AppStep, CancelStep

LEMMA NextHolds ==
    ASSUME TypeOK, BatchOfPump, [Next]_vars
    PROVE  BatchOfPump' /\ \A t \in Tasks : Holds(t)
<1>1. CASE UNCHANGED vars
    BY <1>1, HoldsFrameKeeps DEF vars, HoldsFrame, Pumping, taskVars, uiVars
<1>. QED
    BY <1>1, UiHolds, OthersHold DEF Next, Quiescent

\* A cancellation can come too late only for results the running pump had
\* already drained: outside a pump there are none, and from then on it holds.
THEOREM CancellationHolds == Spec => []BatchOfPump /\ CancelHolds
<1>1. Init => BatchOfPump
    BY DEF Init, BatchOfPump
<1>2. TypeOK /\ BatchOfPump /\ [Next]_vars => BatchOfPump'
    BY NextHolds
<1>3. TypeOK /\ BatchOfPump /\ [Next]_vars => [\A t \in Tasks : Holds(t)]_vars
    BY NextHolds
<1>4. Spec => []BatchOfPump
    BY <1>1, <1>2, TypeCorrect, PTL DEF Spec
<1>5. Spec => CancelHolds
    BY <1>3, <1>4, TypeCorrect, PTL DEF Spec, CancelHolds
<1>. QED
    BY <1>4, <1>5
=============================================================================
