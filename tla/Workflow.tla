------------------------------- MODULE Workflow -------------------------------
(***************************************************************************)
(* One execution of a durable workflow on the local engine                 *)
(* (rustnative-durable, workflow.rs): the journal in SQLite, the context   *)
(* that replays it, timers, signals, compensation, versions, and the       *)
(* processes that run it and may die between any two statements.           *)
(*                                                                         *)
(* The workflow's code is the constant Program, a sequence of operations   *)
(* on the context, run from the top each time; an operation with a "since" *)
(* is in the new behaviour of that change only.  now() and random() are    *)
(* steps.  The journal has at most one row per position (its primary key); *)
(* a failed step uses up a position without a row.  A statement or         *)
(* transaction on the database is one step.  A status update the database  *)
(* refuses leaves the row as it was, like a crash just before it.          *)
(***************************************************************************)
EXTENDS Integers, Sequences, FiniteSets

CONSTANTS
    Program,      \* the workflow: operations [op, name, since]
    Runners,      \* processes that call run_until_idle
    MayFail,      \* names of steps whose work fails, always or never
    Flaky,        \* names of steps whose work may fail now and succeed later
    SleepLength,  \* how long a sleep lasts
    MaxClock,     \* bound: the clock goes no further unless a sleep waits for it
    MaxSignals,   \* bound: signals sent
    MaxCrashes    \* bound: process deaths

Ops == {"step", "tx", "sleep", "signal", "compensate", "version"}
Names == {Program[i].name : i \in DOMAIN Program}
Named(op) == {Program[i].name : i \in {j \in DOMAIN Program : Program[j].op = op}}

\* A workflow asks version() before it takes the new behaviour, always.
ASSUME ProgramAssumption ==
    /\ Program \in Seq([op : Ops, name : Names, since : Named("version") \union {"none"}])
    /\ Program # <<>>
    /\ \A i, j \in DOMAIN Program : Program[i].name = Program[j].name => i = j
    /\ \A i, j \in DOMAIN Program : Program[i].since = Program[j].name => j < i
    /\ \A i \in DOMAIN Program : Program[i].op = "version" => Program[i].since = "none"
ASSUME BoundsAssumption ==
    /\ SleepLength \in Nat /\ MaxClock \in Nat /\ MaxSignals \in Nat /\ MaxCrashes \in Nat
    /\ MayFail \subseteq Names /\ Flaky \subseteq Names

VARIABLES
    status,       \* _workflows.status ("absent": not started)
    wake_at,      \* _workflows.wake_at
    journal,      \* _workflow_steps: position -> entry
    signals,      \* _workflow_signals: rows waiting
    versions,     \* _workflow_versions: change -> "oldest" or "newest"
    clock,        \* the engine's clock
    deployed,     \* the code with the changes is the code that runs
    fails,        \* the steps of MayFail whose work does fail
    pc,           \* where each runner is
    ip,           \* the operation of Program each runner is at
    position,     \* WorkflowContext.position
    compensations,\* WorkflowContext.compensations, newest last
    now,          \* WorkflowContext.now
    \* What the outside world has seen, for the properties.
    effects,      \* database effects committed by each transactional step
    undoFailed,   \* compensations whose undo failed
    sent,         \* signals sent
    crashes,      \* process deaths so far
    overlapped,   \* two runners have run the execution at the same time
    diverged      \* a replay has found another operation's row

dbVars == <<status, wake_at, journal, signals, versions>>
runVars == <<pc, ip, position, compensations, now>>
worldVars == <<clock, deployed, fails>>
historyVars == <<effects, undoFailed, sent, crashes, overlapped, diverged>>
vars == <<dbVars, runVars, worldVars, historyVars>>

Empty == [kind |-> "none", name |-> "none", value |-> 0]
Entry(kind, name, value) == [kind |-> kind, name |-> name, value |-> value]

\* A run uses at most one position per journaled operation and compensation.
Positions == 1..Cardinality({i \in DOMAIN Program : Program[i].op # "version"})

PcStates == {"idle", "selected", "exec", "oldest", "newest", "work",
             "suspend", "undo", "undoing", "complete"}

TypeOK ==
    /\ status \in {"absent", "running", "completed", "failed"}
    /\ wake_at \in Nat /\ signals \in Nat /\ clock \in Nat
    /\ journal \in [Positions -> [kind : Ops \union {"none"}, name : Names \union {"none"},
                                  value : Nat]]
    /\ versions \in [Named("version") -> {"unset", "oldest", "newest"}]
    /\ deployed \in BOOLEAN /\ overlapped \in BOOLEAN /\ diverged \in BOOLEAN
    /\ fails \in SUBSET MayFail
    /\ pc \in [Runners -> PcStates]
    /\ ip \in [Runners -> 1..(Len(Program) + 1)]
    /\ position \in [Runners -> Nat]
    /\ compensations \in [Runners -> Seq(Names)]
    /\ now \in [Runners -> Nat]
    /\ effects \in [Named("tx") -> Nat]
    /\ undoFailed \in SUBSET Names
    /\ sent \in Nat /\ crashes \in Nat

Init ==
    /\ status = "absent"
    /\ wake_at = 0
    /\ journal = [p \in Positions |-> Empty]
    /\ signals = 0
    /\ versions = [n \in Named("version") |-> "unset"]
    /\ clock = 0
    /\ deployed \in BOOLEAN
    /\ fails \in SUBSET MayFail
    /\ pc = [r \in Runners |-> "idle"]
    /\ ip = [r \in Runners |-> 1]
    /\ position = [r \in Runners |-> 0]
    /\ compensations = [r \in Runners |-> <<>>]
    /\ now = [r \in Runners |-> 0]
    /\ effects = [n \in Named("tx") |-> 0]
    /\ undoFailed = {}
    /\ sent = 0
    /\ crashes = 0
    /\ overlapped = FALSE
    /\ diverged = FALSE

-----------------------------------------------------------------------------
(* Helpers. *)

Op(r) == Program[ip[r]]
Free(p) == journal[p] = Empty

\* Whether a step's work may come out this way now.
CanSucceed(n) == n \notin fails
CanFail(n) == n \in fails \/ n \in Flaky

SetPc(r, s) == pc' = [pc EXCEPT ![r] = s]

\* The runner lets go of its context.
Release(r) ==
    /\ SetPc(r, "idle")
    /\ ip' = [ip EXCEPT ![r] = 1]
    /\ position' = [position EXCEPT ![r] = 0]
    /\ compensations' = [compensations EXCEPT ![r] = <<>>]
    /\ now' = [now EXCEPT ![r] = 0]

\* The operation returned: on to the next one.
Advance(r) ==
    /\ SetPc(r, IF ip[r] = Len(Program) THEN "complete" ELSE "exec")
    /\ ip' = [ip EXCEPT ![r] = @ + 1]

\* The running behaviour has operation o; the one a runner is at.
Chosen(o) == o.since # "none" => versions[o.since] = "newest"
Active(r) == Chosen(Op(r))

\* record() inserts, so it refuses a position that has a row.
MutInserts(p) == TRUE
Inserts(p) == Free(p)

\* A step that fails keeps the position next() gave it.
MutAfterFailure(r) == position[r] - 1
AfterFailure(r) == position[r]

\* signal() goes on only if it found a row, and deletes that row.
Signalled == signals > 0
MutSignalsLeft == signals
SignalsLeft == signals - 1

\* WorkflowContext::next found a row with this name.
Replays(r, row) == row.name = Op(r).name /\ row.kind = Op(r).op

\* Which answer version() gives an execution that has none recorded.
MutVersionFor(p) == "newest"
VersionFor(p) == IF \E q \in Positions : q > p /\ ~Free(q) THEN "oldest" ELSE "newest"

\* The wake time sleep records, and whether it has come.
Wake(r) == now[r] + SleepLength
MutDue(r, wake) == clock >= 0
Due(r, wake) == now[r] >= wake

\* The executions run_until_idle selects.
MutRunnable == status = "running" /\ wake_at = 0
Runnable == status = "running" /\ wake_at <= clock

\* compensate adds to the context's; run_one goes through them in reverse.
MutRegistered(r) == <<Op(r).name>> \o compensations[r]
Registered(r) == Append(compensations[r], Op(r).name)
Newest(r) == compensations[r][Len(compensations[r])]
Popped(r) == SubSeq(compensations[r], 1, Len(compensations[r]) - 1)

-----------------------------------------------------------------------------
(* The engine's callers and the environment. *)

\* start_raw: INSERT OR IGNORE.
Start ==
    /\ status = "absent"
    /\ status' = "running"
    /\ UNCHANGED <<wake_at, journal, signals, versions, runVars, worldVars, historyVars>>

\* signal_raw, also before the start: the row, then wake_at reset, unless the
\* caller dies between.
SendSignal ==
    /\ sent < MaxSignals
    /\ sent' = sent + 1
    /\ signals' = signals + 1
    /\ wake_at' \in {0, wake_at}
    /\ UNCHANGED <<status, journal, versions, runVars, worldVars,
                   effects, undoFailed, crashes, overlapped, diverged>>

Tick ==
    /\ clock < MaxClock \/ clock < wake_at
    /\ clock' = clock + 1
    /\ UNCHANGED <<dbVars, runVars, deployed, fails, historyVars>>

\* The process dies: the database keeps what was committed.
Crash(r) ==
    /\ pc[r] # "idle"
    /\ crashes < MaxCrashes
    /\ crashes' = crashes + 1
    /\ Release(r)
    /\ UNCHANGED <<dbVars, worldVars, effects, undoFailed, sent, overlapped, diverged>>

\* The code with the changes replaces the code without them.
Deploy ==
    /\ ~deployed
    /\ \A r \in Runners : pc[r] = "idle"
    /\ deployed' = TRUE
    /\ UNCHANGED <<dbVars, runVars, clock, fails, historyVars>>

-----------------------------------------------------------------------------
(* run_until_idle and run_one: pick the execution up and run the code. *)

\* run_until_idle selects what can run, and comes to each one later.
Select(r) ==
    /\ pc[r] = "idle"
    /\ Runnable
    /\ SetPc(r, "selected")
    /\ UNCHANGED <<dbVars, ip, position, compensations, now, worldVars, historyVars>>

RunOne(r) ==
    /\ pc[r] = "selected"
    /\ SetPc(r, "exec")
    /\ now' = [now EXCEPT ![r] = clock]
    /\ overlapped' = (overlapped \/ \E o \in Runners \ {r} : pc[o] # "idle")
    /\ UNCHANGED <<dbVars, ip, position, compensations, worldVars,
                   effects, undoFailed, sent, crashes, diverged>>

\* An operation the running behaviour does not have.
Skip(r) ==
    /\ pc[r] = "exec" /\ ~Active(r)
    /\ Advance(r)
    /\ UNCHANGED <<dbVars, position, compensations, now, worldVars, historyVars>>

\* context.compensate: remembered, never journaled.
Compensate(r) ==
    /\ pc[r] = "exec" /\ Active(r) /\ Op(r).op = "compensate"
    /\ compensations' = [compensations EXCEPT ![r] = Registered(r)]
    /\ Advance(r)
    /\ UNCHANGED <<dbVars, position, now, worldVars, historyVars>>

\* context.version: the recorded answer, or the one the journal implies.
\* The code before the change has no such call.
Version(r) ==
    /\ pc[r] = "exec" /\ Op(r).op = "version"
    /\ IF deployed /\ versions[Op(r).name] = "unset"
         THEN SetPc(r, VersionFor(position[r])) /\ UNCHANGED ip
         ELSE Advance(r)
    /\ UNCHANGED <<dbVars, position, compensations, now, worldVars, historyVars>>

\* version() records its answer; the table refuses a second one.
RecordVersion(r) ==
    LET n == Op(r).name IN
    /\ pc[r] \in {"oldest", "newest"}
    /\ IF versions[n] = "unset"
         THEN versions' = [versions EXCEPT ![n] = pc[r]] /\ Advance(r)
         ELSE SetPc(r, "undo") /\ UNCHANGED <<versions, ip>>
    /\ UNCHANGED <<status, wake_at, journal, signals, position, compensations, now,
                   worldVars, historyVars>>

Journaled(o) == o.op \notin {"compensate", "version"}

\* WorkflowContext::next: replay the row, run the work, or diverge.  A sleep
\* whose recorded time has not come suspends again.
NextOp(r) ==
    LET p == position[r] + 1
        row == journal[p]
    IN
    /\ pc[r] = "exec" /\ Active(r) /\ Journaled(Op(r))
    /\ position' = [position EXCEPT ![r] = p]
    /\ \/ /\ ~Free(p) /\ Replays(r, row)
          /\ IF Op(r).op = "sleep" /\ ~Due(r, row.value)
               THEN SetPc(r, "suspend") /\ UNCHANGED ip
               ELSE Advance(r)
          /\ UNCHANGED diverged
       \/ /\ ~Free(p) /\ ~Replays(r, row)
          /\ diverged' = TRUE
          /\ SetPc(r, "undo")
          /\ UNCHANGED ip
       \/ /\ Free(p)
          /\ SetPc(r, "work")
          /\ UNCHANGED <<ip, diverged>>
    /\ UNCHANGED <<dbVars, compensations, now, worldVars,
                   effects, undoFailed, sent, crashes, overlapped>>

\* step, and through it now, random and sleep: the work succeeds and its
\* result is recorded.  Its effect is outside the database, so dying between
\* the two leaves what dying before them leaves.  record() refuses a second
\* row at the position, and the run fails.
Step(r) ==
    LET p == position[r] IN
    /\ pc[r] = "work" /\ Op(r).op \in {"step", "sleep"}
    /\ CanSucceed(Op(r).name)
    /\ IF Inserts(p)
         THEN /\ journal' = [journal EXCEPT ![p] = Entry(Op(r).op, Op(r).name,
                                 IF Op(r).op = "sleep" THEN Wake(r) ELSE 0)]
              /\ IF Op(r).op = "sleep" /\ ~Due(r, Wake(r))
                   THEN SetPc(r, "suspend") /\ ip' = ip
                   ELSE Advance(r)
         ELSE /\ SetPc(r, "undo")
              /\ UNCHANGED <<journal, ip>>
    /\ UNCHANGED <<status, wake_at, signals, versions, position, compensations, now,
                   worldVars, historyVars>>

\* sleep, its wake time recorded, sets wake_at and suspends.
Suspend(r) ==
    /\ pc[r] = "suspend"
    /\ wake_at' = journal[position[r]].value
    /\ Release(r)
    /\ UNCHANGED <<status, journal, signals, versions, worldVars, historyVars>>

\* transactional_step: effect and row commit together or not at all.
Transaction(r) ==
    LET p == position[r] IN
    /\ pc[r] = "work" /\ Op(r).op = "tx"
    /\ CanSucceed(Op(r).name)
    /\ IF Inserts(p)
         THEN /\ journal' = [journal EXCEPT ![p] = Entry("tx", Op(r).name, 0)]
              /\ effects' = [effects EXCEPT ![Op(r).name] = @ + 1]
              /\ Advance(r)
         ELSE /\ SetPc(r, "undo")
              /\ UNCHANGED <<journal, effects, ip>>
    /\ UNCHANGED <<status, wake_at, signals, versions, position, compensations, now,
                   worldVars, undoFailed, sent, crashes, overlapped, diverged>>

\* signal: the oldest row is deleted and journaled in one transaction, or
\* the position is given back and the run suspends.
TakeSignal(r) ==
    LET p == position[r] IN
    /\ pc[r] = "work" /\ Op(r).op = "signal"
    /\ \/ /\ Signalled /\ Inserts(p)
          /\ signals' = SignalsLeft
          /\ journal' = [journal EXCEPT ![p] = Entry("signal", Op(r).name, 0)]
          /\ Advance(r)
          /\ UNCHANGED <<position, compensations, now>>
       \/ /\ Signalled /\ ~Inserts(p)
          /\ SetPc(r, "undo")
          /\ UNCHANGED <<signals, journal, ip, position, compensations, now>>
       \/ /\ ~Signalled
          /\ Release(r)
          /\ UNCHANGED <<signals, journal>>
    /\ UNCHANGED <<status, wake_at, versions, worldVars, historyVars>>

\* The work fails: nothing is recorded at its position.
WorkFails(r) ==
    /\ pc[r] = "work" /\ Op(r).op \in {"step", "tx"}
    /\ CanFail(Op(r).name)
    /\ position' = [position EXCEPT ![r] = AfterFailure(r)]
    /\ SetPc(r, "undo")
    /\ UNCHANGED <<dbVars, ip, compensations, now, worldVars, historyVars>>

-----------------------------------------------------------------------------
(* run_one's ending: completion, or compensation newest first, each a      *)
(* journaled step whose error is ignored.                                  *)

Complete(r) ==
    /\ pc[r] = "complete"
    /\ status' = "completed"
    /\ Release(r)
    /\ UNCHANGED <<wake_at, journal, signals, versions, worldVars, historyVars>>

\* The next compensation: its row is there, another row is there (the
\* divergence is ignored), or it has to run.
UndoNext(r) ==
    LET p == position[r] + 1 IN
    /\ pc[r] = "undo" /\ compensations[r] # <<>>
    /\ position' = [position EXCEPT ![r] = p]
    /\ IF Free(p)
         THEN SetPc(r, "undoing") /\ UNCHANGED compensations
         ELSE /\ compensations' = [compensations EXCEPT ![r] = Popped(r)]
              /\ UNCHANGED pc
    /\ UNCHANGED <<dbVars, ip, now, worldVars, historyVars>>

Undo(r) ==
    LET p == position[r] IN
    /\ pc[r] = "undoing"
    /\ journal' = IF Inserts(p)
                    THEN [journal EXCEPT ![p] = Entry("compensate", Newest(r), 0)]
                    ELSE journal
    /\ compensations' = [compensations EXCEPT ![r] = Popped(r)]
    /\ SetPc(r, "undo")
    /\ UNCHANGED <<status, wake_at, signals, versions, ip, position, now, worldVars,
                   historyVars>>

UndoFails(r) ==
    /\ pc[r] = "undoing"
    /\ undoFailed' = undoFailed \union {Newest(r)}
    /\ compensations' = [compensations EXCEPT ![r] = Popped(r)]
    /\ SetPc(r, "undo")
    /\ UNCHANGED <<dbVars, ip, position, now, worldVars,
                   effects, sent, crashes, overlapped, diverged>>

Fail(r) ==
    /\ pc[r] = "undo" /\ compensations[r] = <<>>
    /\ status' = "failed"
    /\ Release(r)
    /\ UNCHANGED <<wake_at, journal, signals, versions, worldVars, historyVars>>

-----------------------------------------------------------------------------
RunnerStep(r) ==
    \/ Select(r) \/ RunOne(r) \/ Skip(r) \/ Compensate(r)
    \/ Version(r) \/ RecordVersion(r)
    \/ NextOp(r) \/ Step(r) \/ Suspend(r)
    \/ Transaction(r) \/ TakeSignal(r) \/ WorkFails(r)
    \/ Complete(r) \/ UndoNext(r) \/ Undo(r) \/ UndoFails(r) \/ Fail(r)

Ended == status \in {"completed", "failed"}

\* Nothing is left to do once the execution has ended.
Done ==
    /\ Ended /\ \A r \in Runners : pc[r] = "idle"
    /\ UNCHANGED vars

Next ==
    \/ Start \/ SendSignal \/ Tick \/ Deploy \/ Done
    \/ \E r \in Runners : RunnerStep(r) \/ Crash(r)

Spec == Init /\ [][Next]_vars

\* Something keeps calling run_until_idle, and time passes.
Fairness == WF_vars(Tick) /\ \A r \in Runners : WF_vars(RunnerStep(r))

FairSpec == Spec /\ Fairness

-----------------------------------------------------------------------------
(* Properties. *)

RowsOf(kind, n) == {p \in Positions : journal[p].kind = kind /\ journal[p].name = n}
Recorded(o) == RowsOf(o.op, o.name) # {}
Prior(i) == {Program[j] : j \in 1..(i - 1)}
Undos == {i \in DOMAIN Program : Program[i].op = "compensate"}

\* transactional_step happens exactly once, whatever the process does and
\* however many engines run the execution: its effect is in the database
\* exactly when its row is.
TxExactlyOnce ==
    \A n \in Named("tx") : effects[n] = Cardinality(RowsOf("tx", n)) /\ effects[n] <= 1

\* A signal is waiting or it has been received by one signal() call: none is
\* lost to a crash and none is received twice.
SignalsConserved ==
    sent = signals + Cardinality({p \in Positions : journal[p].kind = "signal"})

\* Nothing after a sleep is recorded before its recorded wake time has come,
\* early wake-ups by signals and restarts included.
SleepHonoured ==
    \A p, q \in Positions :
        (journal[p].kind = "sleep" /\ q > p /\ ~Free(q) /\ journal[q].kind # "compensate")
            => clock >= journal[p].value

\* One engine, code as deterministic as the journal asks: a replay never
\* diverges, whenever the process dies and whenever a change guarded by
\* version() is deployed.
NeverDiverges == ~overlapped => ~diverged

\* "compensations run newest first, each once": no compensation is journaled
\* twice.
CompensatedOnce ==
    ~overlapped => \A i \in Undos : Cardinality(RowsOf("compensate", Program[i].name)) <= 1

\* An execution that completed undid nothing; one that failed undid every
\* compensation of its behaviour whose earlier steps are all recorded (unless
\* the undo itself failed), newest first.
OutcomeMatchesJournal ==
    ~overlapped =>
    /\ status = "completed" => \A i \in Undos : ~Recorded(Program[i])
    /\ status = "failed" =>
         \A i \in Undos :
            Chosen(Program[i]) /\ (\A o \in Prior(i) : Journaled(o) /\ Chosen(o) => Recorded(o))
                => Recorded(Program[i]) \/ Program[i].name \in undoFailed
    /\ \A i, j \in Undos : \A p \in RowsOf("compensate", Program[i].name),
                               q \in RowsOf("compensate", Program[j].name) :
            p < q => i > j

\* An execution that was sent its signal ends, crashes, sleeps and
\* deployments notwithstanding.
Finishes == (status = "running" /\ sent > 0) ~> Ended

=============================================================================
