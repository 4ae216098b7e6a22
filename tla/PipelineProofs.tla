---------------------------- MODULE PipelineProofs ----------------------------
(***************************************************************************)
(* Theorems about Pipeline, for any processes, events and bounds: no job   *)
(* or event is tried beyond its limit, a job that has ended stays ended,   *)
(* and the dead letters agree with the events.                             *)
(***************************************************************************)
EXTENDS Pipeline, FiniteSetTheorems, TLAPS

-----------------------------------------------------------------------------
(* Jobs: a job not overtaken has one runner, and has one exactly while its   *)
(* row says so or the runner's process has died.                             *)

JobRows == [Keys -> [status : {"absent", "queued", "running", "done", "dead"}, attempts : Nat]]

Workers ==
    [Procs -> {Down, Idle}
                \union [at : {"selected", "running"}, key : Keys, attempt : Nat \ {0}]]

Running(p, k) == worker[p].at = "running" /\ worker[p].key = k

RunnerIsAlone ==
    \A k \in Keys \ overtaken : \A p, q \in Procs :
        Running(p, k) => /\ jobs[k].status = "running"
                         /\ Running(q, k) => q = p

JobsInv == jobs \in JobRows /\ worker \in Workers /\ overtaken \subseteq Keys /\ RunnerIsAlone

JobsStep ==
    \/ \E p \in Procs : JobsOpen(p) \/ WorkerStep(p) \/ WorkerDies(p)
    \/ \E k \in Keys : Enqueue(k)

SettledKept == \A k \in Keys : jobs[k].status \in Settled /\ k \notin overtaken => jobs'[k] = jobs[k]

LEMMA JobsInitially == JobsInit => JobsInv
BY DEF JobsInit, JobsInv, JobRows, Workers, NoJob, Down, Idle, RunnerIsAlone, Running

\* A worker that has something selected or running has a job of Keys.
LEMMA Busy ==
    ASSUME JobsInv, NEW p \in Procs, worker[p].at \in {"selected", "running"}
    PROVE  worker[p] \in [at : {"selected", "running"}, key : Keys, attempt : Nat \ {0}]
BY DEF JobsInv, Workers, Down, Idle

LEMMA OpenKeeps ==
    ASSUME JobsInv, NEW p \in Procs, JobsOpen(p)
    PROVE  JobsInv' /\ SettledKept
<1>1. jobs' \in JobRows
  BY DEF JobsInv, JobsOpen, JobRows, Requeued
<1>2. worker' \in Workers
  BY DEF JobsInv, JobsOpen, Workers
<1>3. overtaken' \subseteq Keys
  BY DEF JobsInv, JobsOpen
<1>4. RunnerIsAlone'
  \* Whatever runs is overtaken now, and p runs nothing.
  <2> SUFFICES ASSUME NEW k \in Keys \ overtaken', NEW q \in Procs, Running(q, k)'
               PROVE  FALSE
    BY DEF RunnerIsAlone
  <2>1. q # p
    BY DEF JobsOpen, Running, Idle, JobsInv, Workers
  <2>2. Running(q, k)
    BY <2>1 DEF JobsOpen, Running, JobsInv, Workers
  <2> QED  BY <2>2 DEF JobsOpen, Running
<1>5. SettledKept
  BY DEF JobsInv, JobRows, JobsOpen, SettledKept, Settled, Requeued
<1> QED  BY <1>1, <1>2, <1>3, <1>4, <1>5 DEF JobsInv

LEMMA EnqueueKeeps ==
    ASSUME JobsInv, NEW k \in Keys, Enqueue(k)
    PROVE  JobsInv' /\ SettledKept
<1>1. jobs' \in JobRows
  BY DEF JobsInv, Enqueue, JobRows, Inserted, NoJob
<1>2. \A l \in Keys : jobs[l].status # "absent" => jobs'[l] = jobs[l]
  BY DEF JobsInv, JobRows, Enqueue, Inserted
<1>3. RunnerIsAlone'
  BY <1>2 DEF JobsInv, RunnerIsAlone, Running, Enqueue
<1> QED  BY <1>1, <1>2, <1>3 DEF JobsInv, Enqueue, SettledKept, Settled

LEMMA SelectKeeps ==
    ASSUME JobsInv, NEW p \in Procs, Select(p)
    PROVE  JobsInv' /\ SettledKept
<1>1. worker' \in Workers
  BY DEF JobsInv, Select, Workers, JobRows
<1>2. \A q \in Procs, k \in Keys : Running(q, k)' => Running(q, k)
  BY DEF Select, Running, JobsInv, Workers
<1> QED  BY <1>1, <1>2 DEF JobsInv, Select, RunnerIsAlone, SettledKept

LEMMA ClaimKeeps ==
    ASSUME JobsInv, NEW p \in Procs, Claim(p)
    PROVE  JobsInv' /\ SettledKept
<1> DEFINE k == worker[p].key
<1>1. worker[p] \in [at : {"selected", "running"}, key : Keys, attempt : Nat \ {0}]
  BY Busy DEF Claim
<1>2. jobs' \in JobRows /\ worker' \in Workers /\ overtaken' = overtaken
  BY <1>1 DEF JobsInv, Claim, JobRows, Workers, Claimable
<1>3. CASE ~Claimable(k)
  <2>1. jobs' = jobs /\ \A q \in Procs, l \in Keys : Running(q, l)' => Running(q, l)
    BY <1>3 DEF Claim, Running, JobsInv, Workers, Idle
  <2> QED  BY <1>2, <2>1 DEF JobsInv, RunnerIsAlone, SettledKept
<1>4. CASE Claimable(k)
  \* The job was queued, so that nobody ran it.
  <2>1. k \notin overtaken => \A q \in Procs : ~Running(q, k)
    BY <1>1, <1>4 DEF JobsInv, RunnerIsAlone, Claimable
  <2>2. \A q \in Procs, l \in Keys : Running(q, l)' => Running(q, l) \/ (q = p /\ l = k)
    BY <1>1, <1>4 DEF Claim, Running, JobsInv, Workers
  <2>3. \A l \in Keys : l # k => jobs'[l] = jobs[l]
    BY <1>1, <1>4 DEF Claim, JobsInv, JobRows
  <2>4. jobs'[k].status = "running" /\ jobs[k].status = "queued"
    BY <1>1, <1>4 DEF Claim, JobsInv, JobRows, Claimable
  <2>5. RunnerIsAlone'
    BY <1>1, <1>2, <2>1, <2>2, <2>3, <2>4 DEF JobsInv, RunnerIsAlone
  <2> QED  BY <1>2, <2>3, <2>4, <2>5 DEF JobsInv, SettledKept, Settled
<1> QED  BY <1>3, <1>4

LEMMA EndKeeps ==
    ASSUME JobsInv, NEW p \in Procs, JobSucceeds(p) \/ JobFails(p)
    PROVE  JobsInv' /\ SettledKept
<1> DEFINE k == worker[p].key
<1>1. /\ Running(p, k)
      /\ worker[p] \in [at : {"selected", "running"}, key : Keys, attempt : Nat \ {0}]
  BY Busy DEF JobSucceeds, JobFails, JobEnds, Running
<1>2. jobs' \in JobRows /\ worker' \in Workers /\ overtaken' = overtaken
  <2>1. PICK s \in {"done", "dead", "queued"} :
            jobs' = [jobs EXCEPT ![k] = [jobs[k] EXCEPT !.status = s]]
    BY DEF JobSucceeds, JobFails, JobEnds, Completed, Failed
  <2>2. jobs' \in JobRows
    BY <1>1, <2>1 DEF JobsInv, JobRows
  <2>3. worker' \in Workers /\ overtaken' = overtaken
    BY DEF JobsInv, JobSucceeds, JobFails, JobEnds, Workers
  <2> QED  BY <2>2, <2>3
<1>3. \A l \in Keys : l # k => jobs'[l] = jobs[l]
  BY <1>1 DEF JobsInv, JobSucceeds, JobFails, JobEnds, JobRows
<1>4. \A q \in Procs, l \in Keys : Running(q, l)' => Running(q, l) /\ q # p
  BY <1>1 DEF JobsInv, JobSucceeds, JobFails, JobEnds, Workers, Idle, Running
<1>5. RunnerIsAlone'
  \* Nobody but p ran k.
  BY <1>1, <1>2, <1>3, <1>4 DEF JobsInv, RunnerIsAlone
<1>6. SettledKept
  BY <1>1, <1>3 DEF JobsInv, RunnerIsAlone, SettledKept, Settled
<1> QED  BY <1>2, <1>5, <1>6 DEF JobsInv

LEMMA WorkerDeathKeeps ==
    ASSUME JobsInv, NEW p \in Procs, WorkerDies(p)
    PROVE  JobsInv' /\ SettledKept
<1>1. worker' \in Workers
  BY DEF JobsInv, WorkerDies, Workers
<1>2. \A q \in Procs, k \in Keys : Running(q, k)' => Running(q, k)
  BY DEF WorkerDies, Running, JobsInv, Workers, Down
<1> QED  BY <1>1, <1>2 DEF JobsInv, WorkerDies, RunnerIsAlone, SettledKept

LEMMA JobsKeep ==
    ASSUME JobsInv, [JobsStep]_jobsVars
    PROVE  JobsInv' /\ SettledKept
<1>1. CASE UNCHANGED jobsVars
  BY <1>1 DEF JobsInv, jobsVars, RunnerIsAlone, Running, SettledKept
<1>2. ASSUME NEW p \in Procs, JobsOpen(p) \/ WorkerStep(p) \/ WorkerDies(p)
      PROVE  JobsInv' /\ SettledKept
  BY <1>2, OpenKeeps, SelectKeeps, ClaimKeeps, EndKeeps, WorkerDeathKeeps DEF WorkerStep
<1>3. ASSUME NEW k \in Keys, Enqueue(k)
      PROVE  JobsInv' /\ SettledKept
  BY <1>3, EnqueueKeeps
<1> QED  BY <1>1, <1>2, <1>3 DEF JobsStep

-----------------------------------------------------------------------------
(* Attempts at a job.  A claim is an attempt; what makes another possible    *)
(* is a failure of an attempt below the limit, or an opening of the queue    *)
(* while the job runs.  Budget counts the attempts made and to come: each    *)
(* running attempt below the limit may put the job back in the queue, and    *)
(* each number below the limit may still be used by an attempt.              *)

Low(k) == {p \in Procs : Running(p, k) /\ worker[p].attempt < MaxJobAttempts}
ToCome(k) == IF jobs[k].attempts < MaxJobAttempts THEN MaxJobAttempts - 1 - jobs[k].attempts ELSE 0
Waiting(k) == IF jobs[k].status = "queued" THEN 1 ELSE 0

Budget(k) ==
    jobs[k].attempts + Waiting(k) + Cardinality(Low(k)) + ToCome(k) <= MaxJobAttempts + uncounted[k]

\* What a worker has selected or runs is in the table, and its attempt is not
\* ahead of the row's.
InTurn(p) ==
    LET k == worker[p].key IN
    /\ jobs[k].status # "absent" /\ worker[p].attempt <= jobs[k].attempts + 1
    /\ worker[p].attempt <= MaxJobAttempts + uncounted[k]

RunsOrDied(k) ==
    jobs[k].status = "running" => (\E p \in Procs : Running(p, k)) \/ \E p \in Procs : ~Up(p)

JobsLimits ==
    /\ uncounted \in [Keys -> Nat]
    /\ \A k \in Keys : /\ IsFiniteSet(Low(k)) /\ Budget(k) /\ RunsOrDied(k)
                       /\ jobs[k].status = "absent" => jobs[k].attempts = 0
    /\ \A p \in Procs : worker[p].at \in {"selected", "running"} => InTurn(p)

LEMMA JobsTyped == JobsInv /\ JobsLimits => JobsTypeOK
<1> SUFFICES ASSUME JobsInv, JobsLimits PROVE JobsTypeOK
  OBVIOUS
<1>1. ASSUME NEW p \in Procs
      PROVE  \/ worker[p] \in {Down, Idle}
             \/ /\ worker[p] \in [at : {"selected", "running"}, key : Keys, attempt : Nat \ {0}]
                /\ worker[p].attempt <= MaxJobAttempts + uncounted[worker[p].key]
  BY DEF JobsInv, Workers, JobsLimits, InTurn
<1>2. ASSUME NEW k \in Keys PROVE jobs[k].attempts <= MaxJobAttempts + uncounted[k]
  <2>1. Cardinality(Low(k)) \in Nat /\ jobs[k].attempts \in Nat /\ uncounted[k] \in Nat
    BY FS_CardinalityType DEF JobsLimits, JobsInv, JobRows
  <2> QED  BY <2>1, JobsAssumption DEF JobsLimits, Budget, Waiting, ToCome
<1> QED  BY <1>1, <1>2 DEF JobsTypeOK, JobsInv, JobRows, JobsLimits, RunsOrDied, Running

LEMMA LimitsInitially == JobsInit => JobsLimits
<1> SUFFICES ASSUME JobsInit PROVE JobsLimits
  OBVIOUS
<1>1. \A k \in Keys : Low(k) = {}
  BY DEF JobsInit, Low, Running, Down
<1>2. IsFiniteSet({}) /\ Cardinality({}) = 0
  BY FS_EmptySet
<1> QED  BY <1>1, <1>2, JobsAssumption DEF JobsInit, JobsLimits, NoJob, Down, Budget, Waiting, ToCome,
                                     RunsOrDied

\* The cardinality of a set of workers that one joins or leaves.
LEMMA OneMore ==
    ASSUME NEW S, IsFiniteSet(S), NEW p
    PROVE  /\ Cardinality(S) \in Nat
           /\ IsFiniteSet(S \union {p}) /\ Cardinality(S \union {p}) <= Cardinality(S) + 1
           /\ IsFiniteSet(S \ {p}) /\ Cardinality(S \ {p}) \in Nat
           /\ Cardinality(S \ {p}) = IF p \in S THEN Cardinality(S) - 1 ELSE Cardinality(S)
BY FS_CardinalityType, FS_AddElement, FS_RemoveElement

\* Opening the queue is counted for each job it puts back.
LEMMA OpenLimits ==
    ASSUME JobsInv, JobsLimits, NEW p \in Procs, JobsOpen(p)
    PROVE  JobsLimits'
<1>1. \A q \in Procs : worker'[q] = IF q = p THEN Idle ELSE worker[q]
  BY DEF JobsOpen, JobsInv, Workers
<1>2. \A k \in Keys : Low(k)' = Low(k)
  BY <1>1 DEF JobsOpen, Low, Running, Idle, Down, JobsInv, Workers, Up
<1>3. \A k \in Keys : /\ jobs'[k] = Requeued(jobs[k])
                      /\ uncounted'[k] = uncounted[k] + (IF jobs[k].status = "running" THEN 1 ELSE 0)
                      /\ uncounted[k] \in Nat /\ uncounted'[k] \in Nat
  BY DEF JobsOpen, JobsLimits
<1>4. uncounted' \in [Keys -> Nat]
  BY <1>3 DEF JobsOpen
<1>5. ASSUME NEW k \in Keys
      PROVE  /\ jobs'[k].attempts = jobs[k].attempts /\ jobs[k].attempts \in Nat
             /\ jobs'[k].status = IF jobs[k].status = "running" THEN "queued" ELSE jobs[k].status
  BY <1>3 DEF JobsInv, JobRows, Requeued
<1>6. ASSUME NEW k \in Keys
      PROVE  /\ IsFiniteSet(Low(k))' /\ Budget(k)' /\ RunsOrDied(k)'
             /\ jobs'[k].status = "absent" => jobs'[k].attempts = 0
  <2>1. IsFiniteSet(Low(k)) /\ Budget(k) /\ Cardinality(Low(k)) \in Nat
    BY FS_CardinalityType DEF JobsLimits
  <2>2. Budget(k)'
    BY <1>2, <1>3, <1>5, <2>1, JobsAssumption DEF Budget, Waiting, ToCome
  <2> QED  BY <1>2, <1>5, <2>1, <2>2 DEF RunsOrDied, JobsLimits
<1>7. ASSUME NEW q \in Procs, worker'[q].at \in {"selected", "running"}
      PROVE  InTurn(q)'
  <2>1. q # p /\ worker'[q] = worker[q]
    BY <1>1, <1>7 DEF Idle
  <2>2. worker[q].key \in Keys /\ worker[q].attempt \in Nat /\ InTurn(q)
    BY <1>7, <2>1, Busy DEF JobsLimits
  <2> QED  BY <1>3, <1>5, <2>1, <2>2, JobsAssumption DEF InTurn
<1> QED  BY <1>4, <1>6, <1>7 DEF JobsLimits

\* A job just enqueued has all its attempts to come.
LEMMA EnqueueLimits ==
    ASSUME JobsInv, JobsLimits, NEW k \in Keys, Enqueue(k)
    PROVE  JobsLimits'
<1>1. UNCHANGED <<worker, uncounted>> /\ \A l \in Keys : Low(l)' = Low(l)
  BY DEF Enqueue, Low, Running
<1>2. \A l \in Keys : l # k \/ jobs[k].status # "absent" => jobs'[l] = jobs[l]
  BY DEF Enqueue, Inserted, JobsInv, JobRows
<1>3. jobs[k].status = "absent" =>
          jobs'[k].status = "queued" /\ jobs'[k].attempts = 0 /\ jobs[k].attempts = 0
  BY DEF Enqueue, Inserted, NoJob, JobsInv, JobRows, JobsLimits
<1>4. jobs[k].attempts \in Nat /\ uncounted[k] \in Nat
  BY DEF JobsInv, JobRows, JobsLimits
<1>5. jobs[k].status = "absent" => Low(k) = {}
  BY DEF Low, Running, JobsLimits, InTurn
<1>6. Budget(k)'
  <2>1. CASE jobs[k].status = "absent"
    <3>1. Cardinality(Low(k)') = 0
      BY <1>1, <1>5, <2>1, FS_EmptySet
    <3>2. Waiting(k)' = 1 /\ ToCome(k)' = MaxJobAttempts - 1
      BY <1>3, <2>1, JobsAssumption DEF Waiting, ToCome
    <3> QED  BY <1>1, <1>3, <1>4, <2>1, <3>1, <3>2, JobsAssumption DEF Budget
  <2>2. CASE jobs[k].status # "absent"
    BY <1>1, <1>2, <2>2 DEF Budget, Waiting, ToCome, JobsLimits
  <2> QED  BY <2>1, <2>2
<1>7. ASSUME NEW l \in Keys
      PROVE  /\ IsFiniteSet(Low(l))' /\ Budget(l)' /\ RunsOrDied(l)'
             /\ jobs'[l].status = "absent" => jobs'[l].attempts = 0
  <2>1. CASE l # k \/ jobs[k].status # "absent"
    <3>1. jobs'[l] = jobs[l]
      BY <1>2, <2>1
    <3> QED  BY <1>1, <3>1 DEF JobsLimits, Budget, Waiting, ToCome, RunsOrDied, Running, Up
  <2>2. CASE l = k /\ jobs[k].status = "absent"
    BY <1>1, <1>3, <1>6, <2>2 DEF JobsLimits, RunsOrDied
  <2> QED  BY <2>1, <2>2
<1>8. ASSUME NEW q \in Procs, worker'[q].at \in {"selected", "running"}
      PROVE  InTurn(q)'
  <2>1. worker[q].key \in Keys /\ InTurn(q)
    BY <1>1, <1>8, Busy DEF JobsLimits
  <2> QED  BY <1>1, <1>2, <2>1 DEF InTurn
<1> QED  BY <1>1, <1>7, <1>8 DEF JobsLimits

\* A queued job is selected for an attempt within the limit.
LEMMA SelectLimits ==
    ASSUME JobsInv, JobsLimits, NEW p \in Procs, Select(p)
    PROVE  JobsLimits'
<1> PICK k \in Keys : /\ jobs[k].status = "queued"
                      /\ worker' = [worker EXCEPT ![p] =
                             [at |-> "selected", key |-> k, attempt |-> jobs[k].attempts + 1]]
  BY DEF Select
<1>1. UNCHANGED <<jobs, uncounted>> /\ worker[p].at = "idle"
  BY DEF Select
<1>2. \A q \in Procs : worker'[q] = IF q = p
          THEN [at |-> "selected", key |-> k, attempt |-> jobs[k].attempts + 1] ELSE worker[q]
  BY DEF JobsInv, Workers
<1>3. \A l \in Keys : Low(l)' = Low(l) /\ \A q \in Procs : Running(q, l)' <=> Running(q, l)
  BY <1>1, <1>2 DEF Low, Running
<1>4. \A q \in Procs : Up(q)' <=> Up(q)
  BY <1>1, <1>2 DEF Up
<1>5. jobs[k].attempts + 1 <= MaxJobAttempts + uncounted[k]
  <2>1. Cardinality(Low(k)) \in Nat /\ jobs[k].attempts \in Nat /\ uncounted[k] \in Nat
    BY FS_CardinalityType DEF JobsLimits, JobsInv, JobRows
  <2> QED  BY <2>1, JobsAssumption DEF JobsLimits, Budget, Waiting, ToCome
<1>6. ASSUME NEW q \in Procs, worker'[q].at \in {"selected", "running"}
      PROVE  InTurn(q)'
  <2>1. CASE q = p
    BY <1>1, <1>2, <1>5, <2>1 DEF InTurn, JobsInv, JobRows
  <2>2. CASE q # p
    BY <1>1, <1>2, <1>6, <2>2 DEF InTurn, JobsLimits
  <2> QED  BY <2>1, <2>2
<1> QED  BY <1>1, <1>3, <1>4, <1>6 DEF JobsLimits, Budget, Waiting, ToCome, RunsOrDied

\* A claim of a row selected earlier counts the attempts made since.
LEMMA ClaimLimits ==
    ASSUME JobsInv, JobsLimits, NEW p \in Procs, Claim(p)
    PROVE  JobsLimits'
<1>1. PICK k \in Keys, a \in Nat \ {0} :
          worker[p].key = k /\ worker[p].attempt = a /\ worker[p].at = "selected" /\ InTurn(p)
  BY Busy DEF Claim, JobsLimits
<1>2. CASE ~Claimable(k)
  <2>1. UNCHANGED <<jobs, uncounted>>
        /\ \A q \in Procs : worker'[q] = IF q = p THEN Idle ELSE worker[q]
    BY <1>1, <1>2 DEF Claim, JobsInv, Workers
  <2>2. /\ \A q \in Procs : Up(q)' <=> Up(q)
        /\ \A l \in Keys : Low(l)' = Low(l) /\ \A q \in Procs : Running(q, l)' <=> Running(q, l)
    BY <1>1, <2>1 DEF Low, Running, Up, Idle
  <2>3. ASSUME NEW q \in Procs, worker'[q].at \in {"selected", "running"}
        PROVE  InTurn(q)'
    <3>1. q # p /\ worker'[q] = worker[q]
      BY <2>1, <2>3 DEF Idle
    <3> QED  BY <2>1, <2>3, <3>1 DEF InTurn, JobsLimits
  <2> QED  BY <2>1, <2>2, <2>3 DEF JobsLimits, Budget, Waiting, ToCome, RunsOrDied
<1>3. CASE Claimable(k)
  <2>1. /\ worker' = [worker EXCEPT ![p].at = "running"]
        /\ jobs' = [jobs EXCEPT ![k].status = "running", ![k].attempts = @ + 1]
        /\ uncounted' = [uncounted EXCEPT ![k] = @ + (jobs[k].attempts + 1 - a)]
    BY <1>1, <1>3 DEF Claim
  <2>2. jobs[k].attempts \in Nat /\ uncounted[k] \in Nat /\ a <= jobs[k].attempts + 1
    BY <1>1 DEF JobsInv, JobRows, JobsLimits, InTurn
  <2>3. /\ jobs[k].status = "queued"
        /\ jobs'[k].status = "running" /\ jobs'[k].attempts = jobs[k].attempts + 1
        /\ \A l \in Keys : l # k => jobs'[l] = jobs[l] /\ uncounted'[l] = uncounted[l]
        /\ uncounted'[k] = uncounted[k] + (jobs[k].attempts + 1 - a)
        /\ uncounted'[k] \in Nat
    BY <1>1, <1>3, <2>1, <2>2 DEF JobsInv, JobRows, JobsLimits, Claimable
  <2>4. uncounted' \in [Keys -> Nat]
    BY <2>1, <2>3 DEF JobsLimits
  <2>5. /\ \A q \in Procs : q # p => worker'[q] = worker[q]
        /\ worker'[p].at = "running" /\ worker'[p].key = k /\ worker'[p].attempt = a
    <3>1. worker[p] \in [at : {"selected", "running"}, key : Keys, attempt : Nat \ {0}]
      BY <1>1, Busy
    <3> QED  BY <1>1, <2>1, <3>1 DEF JobsInv, Workers
  <2>6. /\ \A l \in Keys : l # k => Low(l)' = Low(l)
        /\ Low(k)' = IF a < MaxJobAttempts THEN Low(k) \union {p} ELSE Low(k)
    BY <1>1, <2>5 DEF Low, Running
  <2>7. IsFiniteSet(Low(k)) /\ Budget(k) /\ Cardinality(Low(k)) \in Nat
    BY FS_CardinalityType, <1>1 DEF JobsLimits
  <2>8. IsFiniteSet(Low(k))' /\ Budget(k)'
    <3>1. CASE a < MaxJobAttempts
      <4>1. /\ IsFiniteSet(Low(k) \union {p}) /\ Cardinality(Low(k) \union {p}) \in Nat
            /\ Cardinality(Low(k) \union {p}) <= Cardinality(Low(k)) + 1
        BY <2>7, OneMore, FS_CardinalityType
      <4>2. Cardinality(Low(k)') = Cardinality(Low(k) \union {p})
        BY <2>6, <3>1
      <4> QED  BY <1>1, <2>2, <2>3, <2>6, <2>7, <3>1, <4>1, <4>2, JobsAssumption
               DEF Budget, Waiting, ToCome
    <3>2. CASE ~(a < MaxJobAttempts)
      <4>1. Cardinality(Low(k)') = Cardinality(Low(k))
        BY <2>6, <3>2
      <4> QED  BY <1>1, <2>2, <2>3, <2>6, <2>7, <3>2, <4>1, JobsAssumption
               DEF Budget, Waiting, ToCome
    <3> QED  BY <3>1, <3>2
  <2>9. ASSUME NEW l \in Keys
        PROVE  /\ IsFiniteSet(Low(l))' /\ Budget(l)' /\ RunsOrDied(l)'
               /\ jobs'[l].status = "absent" => jobs'[l].attempts = 0
    <3>1. CASE l = k
      BY <2>3, <2>5, <2>8, <3>1 DEF RunsOrDied, Running
    <3>2. CASE l # k
      <4>1. RunsOrDied(l)'
        BY <1>1, <2>3, <2>5, <3>2 DEF JobsLimits, RunsOrDied, Running, Up
      <4> QED  BY <2>3, <2>6, <3>2, <4>1 DEF JobsLimits, Budget, Waiting, ToCome
    <3> QED  BY <3>1, <3>2
  <2>10. ASSUME NEW q \in Procs, worker'[q].at \in {"selected", "running"}
         PROVE  InTurn(q)'
    <3>1. worker'[q].key = worker[q].key /\ worker'[q].attempt = worker[q].attempt
      BY <1>1, <2>5
    <3>2. worker[q].at \in {"selected", "running"}
      BY <1>1, <2>5, <2>10
    <3>3. worker[q].key \in Keys /\ worker[q].attempt \in Nat /\ InTurn(q)
      BY <3>2, Busy DEF JobsLimits
    <3>4. CASE worker[q].key = k
      BY <1>1, <2>2, <2>3, <3>1, <3>3, <3>4, JobsAssumption DEF InTurn
    <3>5. CASE worker[q].key # k
      BY <2>3, <3>1, <3>3, <3>5 DEF InTurn
    <3> QED  BY <3>4, <3>5
  <2> QED  BY <2>4, <2>9, <2>10 DEF JobsLimits
<1> QED  BY <1>2, <1>3

\* A failure below the limit puts the job back, and its worker is done.
LEMMA EndLimits ==
    ASSUME JobsInv, JobsLimits, NEW p \in Procs, JobSucceeds(p) \/ JobFails(p)
    PROVE  JobsLimits'
<1>1. PICK k \in Keys, a \in Nat \ {0} :
          /\ worker[p].key = k /\ worker[p].attempt = a
          /\ Running(p, k) /\ jobs[k].status # "absent"
  BY Busy DEF JobSucceeds, JobFails, JobEnds, Running, JobsLimits, InTurn
<1>2. PICK s \in {"done", "dead", "queued"} :
          /\ jobs' = [jobs EXCEPT ![k] = [jobs[k] EXCEPT !.status = s]]
          /\ s = "queued" => a < MaxJobAttempts
  BY <1>1, JobsAssumption DEF JobSucceeds, JobFails, JobEnds, Completed, Failed
<1>3. /\ jobs'[k].status = s /\ jobs'[k].attempts = jobs[k].attempts /\ jobs[k].attempts \in Nat
      /\ \A l \in Keys : l # k => jobs'[l] = jobs[l]
  BY <1>1, <1>2 DEF JobsInv, JobRows
<1>4. UNCHANGED uncounted /\ \A q \in Procs : worker'[q] = IF q = p THEN Idle ELSE worker[q]
  BY DEF JobSucceeds, JobFails, JobEnds, JobsInv, Workers
<1>5. /\ \A l \in Keys : l # k => Low(l)' = Low(l)
      /\ Low(k)' = Low(k) \ {p}
      /\ p \in Low(k) <=> a < MaxJobAttempts
  <2>1. \A q \in Procs, l \in Keys : Running(q, l)' <=> Running(q, l) /\ q # p
    BY <1>4 DEF Running, Idle
  <2>2. \A q \in Procs : q # p => worker'[q] = worker[q]
    BY <1>4
  <2>3. \A l \in Keys : l # k => ~Running(p, l)
    BY <1>1 DEF Running
  <2> QED  BY <1>1, <2>1, <2>2, <2>3 DEF Low
<1>6. IsFiniteSet(Low(k)) /\ Budget(k) /\ uncounted[k] \in Nat
  BY <1>1 DEF JobsLimits
<1>7. IsFiniteSet(Low(k))' /\ Budget(k)'
  <2>1. /\ Cardinality(Low(k)) \in Nat /\ IsFiniteSet(Low(k) \ {p})
        /\ Cardinality(Low(k) \ {p}) \in Nat
        /\ Cardinality(Low(k) \ {p}) =
              IF p \in Low(k) THEN Cardinality(Low(k)) - 1 ELSE Cardinality(Low(k))
    BY <1>6, OneMore
  <2>2. Cardinality(Low(k)') = Cardinality(Low(k) \ {p}) /\ IsFiniteSet(Low(k)')
    BY <1>5, <2>1
  <2>3. Waiting(k)' = (IF s = "queued" THEN 1 ELSE 0) /\ ToCome(k)' = ToCome(k)
    BY <1>3 DEF Waiting, ToCome
  <2>4. ToCome(k) \in Nat /\ Waiting(k) \in Nat /\ uncounted'[k] = uncounted[k]
    BY <1>3, <1>4, JobsAssumption DEF ToCome, Waiting
  <2> QED  BY <1>2, <1>3, <1>5, <1>6, <2>1, <2>2, <2>3, <2>4, JobsAssumption DEF Budget
<1>8. ASSUME NEW l \in Keys
      PROVE  /\ IsFiniteSet(Low(l))' /\ Budget(l)' /\ RunsOrDied(l)'
             /\ jobs'[l].status = "absent" => jobs'[l].attempts = 0
  <2>1. CASE l = k
    <3>1. jobs'[k].status # "absent" /\ jobs'[k].status # "running"
      BY <1>2, <1>3
    <3> QED  BY <1>7, <2>1, <3>1 DEF RunsOrDied
  <2>2. CASE l # k
    <3>1. \A q \in Procs : (Running(q, l) => Running(q, l)') /\ (~Up(q) => ~Up(q)')
      BY <1>1, <1>4, <2>2 DEF Running, Up, Idle
    <3> QED  BY <1>3, <1>4, <1>5, <2>2, <3>1 DEF JobsLimits, Budget, Waiting, ToCome, RunsOrDied
  <2> QED  BY <2>1, <2>2
<1>9. ASSUME NEW q \in Procs, worker'[q].at \in {"selected", "running"}
      PROVE  InTurn(q)'
  <2>1. q # p /\ worker'[q] = worker[q]
    BY <1>4, <1>9 DEF Idle
  <2>2. worker[q].key \in Keys /\ InTurn(q)
    BY <1>9, <2>1, Busy DEF JobsLimits
  <2>3. jobs'[worker[q].key].attempts = jobs[worker[q].key].attempts
        /\ jobs'[worker[q].key].status # "absent"
    BY <1>2, <1>3, <2>2 DEF InTurn
  <2> QED  BY <1>4, <2>1, <2>2, <2>3 DEF InTurn
<1> QED  BY <1>4, <1>8, <1>9 DEF JobsLimits

\* A dead worker puts nothing back.
LEMMA WorkerDeathLimits ==
    ASSUME JobsInv, JobsLimits, NEW p \in Procs, WorkerDies(p)
    PROVE  JobsLimits'
<1>1. UNCHANGED <<jobs, uncounted>>
      /\ \A q \in Procs : worker'[q] = IF q = p THEN Down ELSE worker[q]
  BY DEF WorkerDies, JobsInv, Workers
<1>2. \A k \in Keys : Low(k)' = Low(k) \ {p}
  BY <1>1 DEF Low, Running, Down
<1>3. ASSUME NEW k \in Keys
      PROVE  /\ IsFiniteSet(Low(k))' /\ Budget(k)' /\ RunsOrDied(k)'
             /\ jobs'[k].status = "absent" => jobs'[k].attempts = 0
  <2>1. IsFiniteSet(Low(k)) /\ Budget(k) /\ uncounted[k] \in Nat /\ jobs[k].attempts \in Nat
    BY DEF JobsLimits, JobsInv, JobRows
  <2>2. /\ Cardinality(Low(k)) \in Nat /\ IsFiniteSet(Low(k) \ {p})
        /\ Cardinality(Low(k) \ {p}) \in Nat
        /\ Cardinality(Low(k) \ {p}) =
              IF p \in Low(k) THEN Cardinality(Low(k)) - 1 ELSE Cardinality(Low(k))
    BY <2>1, OneMore
  <2>3. Budget(k)'
    <3>1. Cardinality(Low(k)') = Cardinality(Low(k) \ {p})
      BY <1>2
    <3>2. Waiting(k)' = Waiting(k) /\ ToCome(k)' = ToCome(k)
      BY <1>1 DEF Waiting, ToCome
    <3>3. ToCome(k) \in Nat /\ Waiting(k) \in Nat
      BY <2>1, JobsAssumption DEF Waiting, ToCome
    <3> QED  BY <1>1, <2>1, <2>2, <3>1, <3>2, <3>3, JobsAssumption DEF Budget
  <2>4. RunsOrDied(k)'
    BY <1>1 DEF RunsOrDied, Up, Down
  <2> QED  BY <1>1, <1>2, <2>2, <2>3, <2>4 DEF JobsLimits
<1>4. ASSUME NEW q \in Procs, worker'[q].at \in {"selected", "running"}
      PROVE  InTurn(q)'
  <2>1. q # p /\ worker'[q] = worker[q]
    BY <1>1, <1>4 DEF Down
  <2> QED  BY <1>1, <1>4, <2>1 DEF InTurn, JobsLimits
<1> QED  BY <1>1, <1>3, <1>4 DEF JobsLimits

LEMMA LimitsKeep ==
    ASSUME JobsInv, JobsLimits, [JobsStep]_jobsVars
    PROVE  JobsLimits'
<1>1. CASE UNCHANGED jobsVars
  <2>1. UNCHANGED <<jobs, worker, uncounted>>
    BY <1>1 DEF jobsVars
  <2>2. \A k \in Keys : Low(k)' = Low(k) /\ (RunsOrDied(k)' <=> RunsOrDied(k))
    BY <2>1 DEF Low, Running, RunsOrDied, Up
  <2> QED  BY <2>1, <2>2 DEF JobsLimits, Budget, Waiting, ToCome, InTurn
<1>2. ASSUME NEW p \in Procs, JobsOpen(p) \/ WorkerStep(p) \/ WorkerDies(p)
      PROVE  JobsLimits'
  BY <1>2, OpenLimits, SelectLimits, ClaimLimits, EndLimits, WorkerDeathLimits DEF WorkerStep
<1>3. ASSUME NEW k \in Keys, Enqueue(k)
      PROVE  JobsLimits'
  BY <1>3, EnqueueLimits
<1> QED  BY <1>1, <1>2, <1>3 DEF JobsStep

-----------------------------------------------------------------------------
(* Events: an event not shared is held by one runner, is ready while it is,  *)
(* and is in one stage of the batch.                                         *)

EventRows == [Events -> [status : {"absent", "ready", "done", "dead"}, attempts : Nat]]

EventRunner ==
    [at : {"idle", "batch"}, handling : SUBSET Events, recording : SUBSET Events,
     attempt : UNION {[E -> Nat] : E \in SUBSET Events}, failed : SUBSET Events,
     letter : SUBSET Events]

Tried(p) == Batched(p) \subseteq DOMAIN runner[p].attempt

\* A runner inserts one letter at a time, in the last stage.
Staged(p) ==
    /\ runner[p].at = "idle" => Batched(p) = {}
    /\ runner[p].handling \intersect runner[p].recording = {}
    /\ runner[p].letter # {} =>
           runner[p].handling = {} /\ \E e \in Events : runner[p].letter = {e} /\ e \notin runner[p].recording

HolderIsAlone ==
    \A e \in Events \ shared : \A p, q \in Runners :
        e \in Batched(p) => /\ events[e].status = "ready"
                            /\ e \in Batched(q) => q = p

EventsInv ==
    /\ events \in EventRows /\ runner \in [Runners -> EventRunner]
    /\ \A p \in Runners : Tried(p) /\ Staged(p)
    /\ HolderIsAlone
    /\ LettersAgree

EventsStep ==
    \/ \E e \in Events : Publish(e)
    \/ \E p \in Runners : TakeBatch(p) \/ RunnerDies(p)
    \/ \E p \in Runners, e \in Events : Record(p, e) \/ \E ok \in BOOLEAN : Handle(p, e, ok)

LEMMA EventsInitially == EventsInit => EventsInv
<1> SUFFICES ASSUME EventsInit PROVE EventsInv
  OBVIOUS
<1>1. [e \in {} |-> 0] \in UNION {[E -> Nat] : E \in SUBSET Events}
  <2>1. [e \in {} |-> 0] \in [{} -> Nat] /\ {} \in SUBSET Events
    OBVIOUS
  <2> QED  BY <2>1, Zenon
<1>2. Between \in EventRunner
  BY <1>1 DEF Between, EventRunner
<1>3. events \in EventRows /\ runner \in [Runners -> EventRunner]
  BY <1>2 DEF EventsInit, EventRows, NoEvent
<1>4. \A p \in Runners : Batched(p) = {} /\ runner[p].letter = {} /\ runner[p].recording = {}
  BY DEF EventsInit, Batched, Between
<1> QED  BY <1>3, <1>4 DEF EventsInit, EventsInv, Tried, Staged, HolderIsAlone, LettersAgree, NoEvent

LEMMA PublishKeeps ==
    ASSUME EventsInv, NEW e \in Events, Publish(e)
    PROVE  EventsInv'
<1>1. events' \in EventRows /\ \A f \in Events : events[f].status # "absent" => events'[f] = events[f]
  BY DEF EventsInv, EventRows, Publish
<1>2. \A f \in Events : events'[f].status = "dead" <=> events[f].status = "dead"
  BY DEF EventsInv, EventRows, Publish
<1>3. UNCHANGED <<dead_letters, runner, shared, halfway>>
  BY DEF Publish
<1>4. HolderIsAlone'
  BY <1>1, <1>3 DEF EventsInv, HolderIsAlone, Batched
<1>5. LettersAgree'
  BY <1>2, <1>3 DEF EventsInv, LettersAgree
<1> QED  BY <1>1, <1>3, <1>4, <1>5 DEF EventsInv, Tried, Staged, Batched

LEMMA TakeKeeps ==
    ASSUME EventsInv, NEW p \in Runners, TakeBatch(p)
    PROVE  EventsInv'
<1> PICK batch \in SUBSET Ready \ {{}} :
        /\ runner' = [runner EXCEPT ![p] = [Between EXCEPT
               !.at = "batch", !.handling = batch,
               !.attempt = [e \in batch |-> events[e].attempts + 1]]]
        /\ shared' = shared \union {e \in batch : \E q \in Runners : e \in Batched(q)}
  BY DEF TakeBatch
<1>1. UNCHANGED <<events, dead_letters, halfway>> /\ runner[p].at = "idle"
  BY DEF TakeBatch
<1>2. batch \subseteq Events /\ \A e \in batch : events[e].status = "ready"
  BY DEF Ready
<1>3. [e \in batch |-> events[e].attempts + 1] \in UNION {[E -> Nat] : E \in SUBSET Events}
  <2>1. [e \in batch |-> events[e].attempts + 1] \in [batch -> Nat]
    BY <1>2 DEF EventsInv, EventRows
  <2> QED  BY <2>1, <1>2, Zenon
<1>4. /\ runner'[p] \in EventRunner
      /\ runner'[p].handling = batch /\ runner'[p].recording = {} /\ runner'[p].letter = {}
      /\ DOMAIN runner'[p].attempt = batch
      /\ \A q \in Runners : q # p => runner'[q] = runner[q]
  BY <1>2, <1>3 DEF EventsInv, EventRunner, Between
<1>5. runner' \in [Runners -> EventRunner]
  BY <1>4 DEF EventsInv
<1>6. \A q \in Runners : Batched(q)' = IF q = p THEN batch ELSE Batched(q)
  BY <1>4 DEF Batched
<1>7. \A q \in Runners : Tried(q)' /\ Staged(q)'
  BY <1>4, <1>6 DEF EventsInv, Tried, Staged, Batched
<1>8. HolderIsAlone'
  BY <1>1, <1>2, <1>6 DEF EventsInv, HolderIsAlone
<1>9. LettersAgree'
  \* A runner that takes a batch holds none.
  <2>1. \A q \in Runners : runner'[q].letter = runner[q].letter
    BY <1>1, <1>4 DEF EventsInv, Staged, Batched
  <2> QED  BY <1>1, <2>1 DEF EventsInv, LettersAgree
<1> QED  BY <1>1, <1>5, <1>7, <1>8, <1>9 DEF EventsInv

\* What the other steps have in common: p holds what it held or less, and only
\* events it lets go of change.
LEMMA LetsGo ==
    ASSUME EventsInv, NEW p \in Runners, NEW r \in EventRunner,
           runner' = [runner EXCEPT ![p] = r], UNCHANGED shared,
           events' \in EventRows,
           Batched(p)' \subseteq Batched(p),
           \A e \in Events : events'[e] = events[e] \/ e \in Batched(p) \ Batched(p)',
           Tried(p)', Staged(p)'
    PROVE  /\ events' \in EventRows /\ runner' \in [Runners -> EventRunner]
           /\ \A q \in Runners : Tried(q)' /\ Staged(q)'
           /\ HolderIsAlone'
<1>1. runner' \in [Runners -> EventRunner] /\ \A q \in Runners : q # p => runner'[q] = runner[q]
  BY DEF EventsInv
<1>2. \A q \in Runners : q # p => Batched(q)' = Batched(q)
  BY <1>1 DEF Batched
<1>3. \A q \in Runners : Tried(q)' /\ Staged(q)'
  <2> SUFFICES ASSUME NEW q \in Runners, q # p PROVE Tried(q)' /\ Staged(q)'
    OBVIOUS
  <2> QED  BY <1>1, <1>2 DEF EventsInv, Tried, Staged
<1>4. HolderIsAlone'
  <2> SUFFICES ASSUME NEW e \in Events \ shared, NEW q \in Runners, e \in Batched(q)'
               PROVE  /\ events'[e].status = "ready"
                      /\ \A o \in Runners : e \in Batched(o)' => o = q
    BY DEF HolderIsAlone
  <2>1. \A o \in Runners : Batched(o)' \subseteq Batched(o)
    BY <1>2
  <2>2. e \in Batched(q) /\ events[e].status = "ready" /\ \A o \in Runners : e \in Batched(o) => o = q
    BY <2>1 DEF EventsInv, HolderIsAlone
  <2>3. events'[e] = events[e]
    BY <2>2
  <2> QED  BY <2>1, <2>2, <2>3
<1> QED  BY <1>1, <1>3, <1>4

LEMMA HandleKeeps ==
    ASSUME EventsInv, NEW p \in Runners, NEW e \in Events, NEW ok \in BOOLEAN, Handle(p, e, ok)
    PROVE  EventsInv'
<1> DEFINE r == [runner[p] EXCEPT !.handling = @ \ {e}, !.recording = @ \union {e},
                                  !.failed = IF ok THEN @ ELSE @ \union {e}]
<1>1. runner[p] \in EventRunner /\ e \in runner[p].handling
  BY DEF EventsInv, Handle
<1>2. /\ r \in EventRunner
      /\ r.at = runner[p].at /\ r.letter = runner[p].letter /\ r.attempt = runner[p].attempt
      /\ r.handling = runner[p].handling \ {e} /\ r.recording = runner[p].recording \union {e}
  BY <1>1 DEF EventRunner
<1>3. runner' = [runner EXCEPT ![p] = r] /\ UNCHANGED <<events, dead_letters, shared, halfway>>
  BY <1>1 DEF Handle, EventRunner
<1>4. runner'[p] = r /\ \A q \in Runners : runner'[q].letter = runner[q].letter
  BY <1>2, <1>3 DEF EventsInv
<1>5. Batched(p)' = Batched(p)
  BY <1>1, <1>2, <1>4 DEF Batched
<1>6. Tried(p)' /\ Staged(p)'
  BY <1>1, <1>2, <1>4, <1>5 DEF EventsInv, Tried, Staged
<1>7. LettersAgree'
  BY <1>3, <1>4 DEF EventsInv, LettersAgree
<1> HIDE DEF r
<1>8. events' \in EventRows
  BY <1>3 DEF EventsInv
<1> QED  BY <1>2, <1>3, <1>5, <1>6, <1>7, <1>8, LetsGo DEF EventsInv

LEMMA DeathKeeps ==
    ASSUME EventsInv, NEW p \in Runners, RunnerDies(p)
    PROVE  EventsInv'
<1>1. Between \in EventRunner
  <2>1. [e \in {} |-> 0] \in [{} -> Nat] /\ {} \in SUBSET Events
    OBVIOUS
  <2>2. [e \in {} |-> 0] \in UNION {[E -> Nat] : E \in SUBSET Events}
    BY <2>1, Zenon
  <2> QED  BY <2>2 DEF Between, EventRunner
<1>2. /\ runner' = [runner EXCEPT ![p] = Between] /\ UNCHANGED <<events, dead_letters, shared>>
      /\ halfway' = halfway \union runner[p].letter
  BY DEF RunnerDies
<1>3. runner'[p] = Between /\ \A q \in Runners : q # p => runner'[q] = runner[q]
  BY <1>2 DEF EventsInv
<1>4. Batched(p)' = {} /\ Between.letter = {}
  BY <1>3 DEF Batched, Between
<1>5. Tried(p)' /\ Staged(p)'
  BY <1>3, <1>4 DEF Tried, Staged, Between
<1>6. LettersAgree'
  BY <1>2, <1>3, <1>4 DEF EventsInv, LettersAgree
<1>7. events' \in EventRows
  BY <1>2 DEF EventsInv
<1> QED  BY <1>1, <1>2, <1>4, <1>5, <1>6, <1>7, LetsGo DEF EventsInv

LEMMA InsertKeeps ==
    ASSUME EventsInv, NEW p \in Runners, NEW e \in Events, InsertLetter(p, e)
    PROVE  EventsInv'
<1> DEFINE r == [runner[p] EXCEPT !.recording = @ \ {e}, !.letter = {e}]
<1>1. /\ runner[p] \in EventRunner
      /\ e \in runner[p].recording /\ runner[p].handling = {} /\ runner[p].letter = {}
  BY DEF EventsInv, InsertLetter, Recordable
<1>2. /\ r \in EventRunner
      /\ r.at = runner[p].at /\ r.letter = {e} /\ r.attempt = runner[p].attempt
      /\ r.handling = {} /\ r.recording = runner[p].recording \ {e}
  BY <1>1 DEF EventRunner
<1>3. /\ runner' = [runner EXCEPT ![p] = r] /\ UNCHANGED <<events, shared, halfway>>
      /\ dead_letters' = dead_letters \union {e}
  BY <1>1 DEF InsertLetter, EventRunner
<1>4. runner'[p] = r /\ \A q \in Runners : q # p => runner'[q] = runner[q]
  BY <1>2, <1>3 DEF EventsInv
<1>5. Batched(p)' = Batched(p)
  BY <1>1, <1>2, <1>4 DEF Batched
<1>6. Tried(p)' /\ Staged(p)'
  BY <1>1, <1>2, <1>4, <1>5 DEF EventsInv, Tried, Staged
<1>7. LettersAgree'
  BY <1>1, <1>2, <1>3, <1>4 DEF EventsInv, LettersAgree
<1> HIDE DEF r
<1>8. events' \in EventRows
  BY <1>3 DEF EventsInv
<1> QED  BY <1>2, <1>3, <1>5, <1>6, <1>7, <1>8, LetsGo DEF EventsInv

\* The last statement about an event: p lets go of it.
LEMMA RecordedRunner ==
    ASSUME EventsInv, NEW p \in Runners, NEW e \in Events,
           e \in runner[p].recording \/ e \in runner[p].letter,
           runner[p].letter \subseteq {e}, runner' = Recorded(p, e)
    PROVE  \E r \in EventRunner :
              /\ runner' = [runner EXCEPT ![p] = r]
              /\ runner'[p] = r /\ r.letter = {}
              /\ Batched(p)' = Batched(p) \ {e}
              /\ Tried(p)' /\ Staged(p)'
<1>1. runner[p] \in EventRunner /\ Tried(p) /\ Staged(p) /\ e \in Batched(p)
  BY DEF EventsInv, Batched
<1>2. CASE Batched(p) = {e}
  <2>1. Between \in EventRunner
    <3>1. [f \in {} |-> 0] \in [{} -> Nat] /\ {} \in SUBSET Events
      OBVIOUS
    <3>2. [f \in {} |-> 0] \in UNION {[E -> Nat] : E \in SUBSET Events}
      BY <3>1, Zenon
    <3> QED  BY <3>2 DEF Between, EventRunner
  <2>2. runner' = [runner EXCEPT ![p] = Between] /\ runner'[p] = Between
    BY <1>2 DEF EventsInv, Recorded, LetGo
  <2>3. Batched(p)' = {} /\ Between.letter = {}
    BY <2>2 DEF Batched, Between
  <2>4. Tried(p)' /\ Staged(p)'
    BY <2>2, <2>3 DEF Tried, Staged, Between
  <2> QED  BY <1>2, <2>1, <2>2, <2>3, <2>4
<1>3. CASE Batched(p) # {e}
  <2> DEFINE r == [runner[p] EXCEPT !.recording = @ \ {e}, !.letter = {}]
  <2>1. /\ r \in EventRunner
        /\ r.at = runner[p].at /\ r.letter = {} /\ r.attempt = runner[p].attempt
        /\ r.handling = runner[p].handling /\ r.recording = runner[p].recording \ {e}
    BY <1>1 DEF EventRunner
  <2>2. runner' = [runner EXCEPT ![p] = r]
    BY <1>3 DEF Recorded, LetGo
  <2>3. runner'[p] = r
    BY <2>2 DEF EventsInv
  <2>4. Batched(p)' = Batched(p) \ {e}
    BY <1>1, <2>1, <2>3 DEF Batched, Staged
  <2>5. Tried(p)' /\ Staged(p)'
    BY <1>1, <2>1, <2>3, <2>4 DEF Tried, Staged
  <2> HIDE DEF r
  <2> QED  BY <2>1, <2>2, <2>3, <2>4, <2>5
<1> QED  BY <1>2, <1>3

LEMMA RecordKeeps ==
    ASSUME EventsInv, NEW p \in Runners, NEW e \in Events,
           RecordDone(p, e) \/ RecordRetry(p, e) \/ MarkDead(p, e)
    PROVE  EventsInv'
<1>1. /\ e \in runner[p].recording \/ e \in runner[p].letter
      /\ runner[p].letter \subseteq {e}
      /\ runner' = Recorded(p, e)
      /\ UNCHANGED <<dead_letters, shared, halfway>>
  BY DEF EventsInv, Staged, RecordDone, RecordRetry, MarkDead, Recordable
<1>2. PICK r \in EventRunner :
          /\ runner' = [runner EXCEPT ![p] = r]
          /\ runner'[p] = r /\ r.letter = {}
          /\ Batched(p)' = Batched(p) \ {e}
          /\ Tried(p)' /\ Staged(p)'
  BY <1>1, RecordedRunner
<1>3. e \in Batched(p) /\ \A q \in Runners : q # p => runner'[q] = runner[q]
  BY <1>1, <1>2 DEF EventsInv, Batched
<1>4. runner[p].attempt[e] \in Nat
  <2>1. runner[p].attempt \in UNION {[E -> Nat] : E \in SUBSET Events}
    BY DEF EventsInv, EventRunner
  <2>2. PICK E \in SUBSET Events : runner[p].attempt \in [E -> Nat]
    BY <2>1, Zenon
  <2> QED  BY <1>3, <2>2 DEF EventsInv, Tried
<1>5. /\ events' \in EventRows /\ \A f \in Events : f # e => events'[f] = events[f]
      /\ events'[e].status = CASE RecordDone(p, e) -> "done"
                               [] MarkDead(p, e) -> "dead"
                               [] OTHER -> events[e].status
  <2>1. CASE RecordDone(p, e)
    <3>1. ~MarkDead(p, e)
      BY <2>1 DEF RecordDone, MarkDead, Recordable
    <3> QED  BY <1>4, <2>1, <3>1 DEF EventsInv, EventRows, RecordDone
  <2>2. CASE MarkDead(p, e)
    \* The letter is p's, so that p has nothing else to record.
    BY <1>4, <2>2 DEF EventsInv, EventRows, MarkDead, Dead, RecordDone, Recordable
  <2>3. CASE RecordRetry(p, e) /\ ~MarkDead(p, e)
    BY <1>4, <2>3 DEF EventsInv, EventRows, RecordRetry, RecordDone
  <2> QED  BY <2>1, <2>2, <2>3
<1>6. LettersAgree'
  <2> SUFFICES ASSUME NEW f \in Events \ (shared \union halfway)
               PROVE  f \in dead_letters <=>
                         events'[f].status = "dead" \/ \E q \in Runners : f \in runner'[q].letter
    BY <1>1 DEF LettersAgree
  <2>1. f \in dead_letters <=>
            events[f].status = "dead" \/ \E q \in Runners : f \in runner[q].letter
    BY DEF EventsInv, LettersAgree
  <2>2. CASE f # e
    BY <1>1, <1>2, <1>3, <1>5, <2>1, <2>2
  <2>3. CASE f = e
    <3>1. events[e].status = "ready" /\ \A q \in Runners : q # p => e \notin Batched(q)
      BY <1>3, <2>3 DEF EventsInv, HolderIsAlone
    <3>2. \A q \in Runners : q # p => e \notin runner'[q].letter
      BY <1>3, <3>1 DEF Batched
    <3>3. ~\E q \in Runners : e \in runner'[q].letter
      BY <1>2, <3>2
    <3>4. CASE MarkDead(p, e)
      BY <1>5, <2>1, <2>3, <3>4 DEF MarkDead, RecordDone, Recordable
    <3>5. CASE ~MarkDead(p, e)
      <4>1. e \notin runner[p].letter /\ events'[e].status # "dead"
        BY <1>5, <3>1, <3>5 DEF RecordDone, RecordRetry, Recordable
      <4> QED  BY <2>1, <2>3, <3>1, <3>3, <4>1 DEF Batched
    <3> QED  BY <3>4, <3>5
  <2> QED  BY <2>2, <2>3
<1> QED  BY <1>1, <1>2, <1>3, <1>5, <1>6, LetsGo DEF EventsInv

LEMMA EventsKeep ==
    ASSUME EventsInv, [EventsStep]_eventsVars
    PROVE  EventsInv'
<1>1. CASE UNCHANGED eventsVars
  BY <1>1 DEF EventsInv, eventsVars, Tried, Staged, HolderIsAlone, LettersAgree, Batched
<1>2. ASSUME NEW e \in Events, Publish(e) PROVE EventsInv'
  BY <1>2, PublishKeeps
<1>3. ASSUME NEW p \in Runners, TakeBatch(p) \/ RunnerDies(p) PROVE EventsInv'
  BY <1>3, TakeKeeps, DeathKeeps
<1>4. ASSUME NEW p \in Runners, NEW e \in Events, Record(p, e) PROVE EventsInv'
  BY <1>4, RecordKeeps, InsertKeeps DEF Record
<1>5. ASSUME NEW p \in Runners, NEW e \in Events, NEW ok \in BOOLEAN, Handle(p, e, ok) PROVE EventsInv'
  BY <1>5, HandleKeeps
<1> QED  BY <1>1, <1>2, <1>3, <1>4, <1>5 DEF EventsStep

-----------------------------------------------------------------------------
(* Attempts at an event.  What is ready has attempts left, whoever recorded  *)
(* the last one: a retry is recorded below the limit only.                   *)

AttemptsLeft ==
    \A e \in Events : /\ events[e].attempts <= MaxEventAttempts
                      /\ events[e].status = "ready" => events[e].attempts < MaxEventAttempts

EventsLimits ==
    /\ AttemptsLeft
    /\ \A p \in Runners :
           /\ \A e \in DOMAIN runner[p].attempt : runner[p].attempt[e] \in 1..MaxEventAttempts
           /\ Cardinality(Batched(p)) <= Batch
           /\ \A e \in Batched(p) : events[e].status # "absent"

LEMMA EventsTyped == EventsInv /\ EventsLimits => EventsTypeOK
<1> SUFFICES ASSUME EventsInv, EventsLimits PROVE EventsTypeOK
  OBVIOUS
<1>1. events \in [Events -> [status : {"absent", "ready", "done", "dead"},
                             attempts : 0..MaxEventAttempts]]
  BY EventsAssumption DEF EventsInv, EventRows, EventsLimits, AttemptsLeft
<1>2. ASSUME NEW p \in Runners
      PROVE  /\ runner[p].at \in {"idle", "batch"} /\ runner[p].failed \subseteq Events
             /\ DOMAIN runner[p].attempt \subseteq Events
  <2>1. /\ runner[p].at \in {"idle", "batch"} /\ runner[p].failed \subseteq Events
        /\ runner[p].attempt \in UNION {[E -> Nat] : E \in SUBSET Events}
    BY DEF EventsInv, EventRunner
  <2>2. PICK E \in SUBSET Events : runner[p].attempt \in [E -> Nat]
    BY <2>1, Zenon
  <2> QED  BY <2>1, <2>2
<1> QED  BY <1>1, <1>2 DEF EventsTypeOK, EventsLimits

LEMMA EventsLimitsInitially == EventsInit => EventsLimits
<1> SUFFICES ASSUME EventsInit PROVE EventsLimits
  OBVIOUS
<1>1. \A p \in Runners : Batched(p) = {} /\ DOMAIN runner[p].attempt = {}
  BY DEF EventsInit, Batched, Between
<1> QED  BY <1>1, FS_EmptySet, EventsAssumption DEF EventsInit, EventsLimits, AttemptsLeft, NoEvent

LEMMA BatchedFinite ==
    ASSUME EventsInv, NEW p \in Runners, NEW S, S \subseteq Batched(p)
    PROVE  IsFiniteSet(S) /\ Cardinality(S) \in Nat /\ Cardinality(S) <= Cardinality(Batched(p))
           /\ Cardinality(Batched(p)) \in Nat
<1>1. Batched(p) \subseteq Events
  BY DEF EventsInv, EventRunner, Batched
<1>2. IsFiniteSet(Batched(p))
  BY <1>1, FS_Subset, EventsAssumption
<1> QED  BY <1>2, FS_Subset, FS_CardinalityType

\* What the steps but TakeBatch have in common: runners hold what they held or
\* less, at the attempts they took it for.
LEMMA LimitsOnLess ==
    ASSUME EventsInv, EventsLimits, AttemptsLeft',
           \A q \in Runners : /\ Batched(q)' \subseteq Batched(q)
                              /\ runner'[q].attempt \in {runner[q].attempt, Between.attempt},
           \A e \in Events : events[e].status # "absent" => events'[e].status # "absent"
    PROVE  EventsLimits'
<1> SUFFICES ASSUME NEW p \in Runners
             PROVE  /\ \A e \in DOMAIN runner'[p].attempt : runner'[p].attempt[e] \in 1..MaxEventAttempts
                    /\ Cardinality(Batched(p)') <= Batch
                    /\ \A e \in Batched(p)' : events'[e].status # "absent"
  BY DEF EventsLimits
<1>1. \A e \in DOMAIN runner'[p].attempt : runner'[p].attempt[e] \in 1..MaxEventAttempts
  BY DEF EventsLimits, Between
<1>2. Cardinality(Batched(p)') <= Batch
  <2>1. Cardinality(Batched(p)') \in Nat /\ Cardinality(Batched(p)) \in Nat
        /\ Cardinality(Batched(p)') <= Cardinality(Batched(p)) /\ Cardinality(Batched(p)) <= Batch
    BY BatchedFinite DEF EventsLimits
  <2> QED  BY <2>1, EventsAssumption
<1>3. Batched(p) \subseteq Events
  BY DEF EventsInv, EventRunner, Batched
<1> QED  BY <1>1, <1>2, <1>3 DEF EventsLimits

LEMMA TakeLimits ==
    ASSUME EventsInv, EventsLimits, NEW p \in Runners, TakeBatch(p)
    PROVE  EventsLimits'
<1> PICK batch \in SUBSET Ready \ {{}} :
        /\ Cardinality(batch) <= Batch
        /\ runner' = [runner EXCEPT ![p] = [Between EXCEPT
               !.at = "batch", !.handling = batch,
               !.attempt = [e \in batch |-> events[e].attempts + 1]]]
  BY DEF TakeBatch
<1>1. UNCHANGED events /\ batch \subseteq Events /\ \A e \in batch : events[e].status = "ready"
  BY DEF TakeBatch, Ready
<1>2. /\ runner'[p].attempt = [e \in batch |-> events[e].attempts + 1]
      /\ \A q \in Runners : q # p => runner'[q] = runner[q]
  BY DEF EventsInv, Between
<1>3. \A q \in Runners : Batched(q)' = IF q = p THEN batch ELSE Batched(q)
  BY <1>2 DEF EventsInv, Batched, Between
<1>4. \A e \in batch : events[e].attempts + 1 \in 1..MaxEventAttempts
  BY <1>1, EventsAssumption DEF EventsInv, EventRows, EventsLimits, AttemptsLeft
<1> QED  BY <1>1, <1>2, <1>3, <1>4 DEF EventsLimits, AttemptsLeft

LEMMA RecordLimits ==
    ASSUME EventsInv, EventsLimits, NEW p \in Runners, NEW e \in Events, Record(p, e)
    PROVE  EventsLimits'
<1>1. /\ e \in runner[p].recording \/ e \in runner[p].letter
      /\ e \in Batched(p) /\ runner[p].letter \subseteq {e}
  BY DEF EventsInv, Staged, Record, RecordDone, RecordRetry, InsertLetter, MarkDead, Recordable, Batched
<1>2. events[e].status # "absent" /\ runner[p].attempt[e] \in 1..MaxEventAttempts
  BY <1>1 DEF EventsLimits, EventsInv, Tried
<1>3. runner' = Recorded(p, e) \/ InsertLetter(p, e)
  BY DEF Record, RecordDone, RecordRetry, MarkDead
<1>4. ASSUME NEW q \in Runners
      PROVE  /\ Batched(q)' \subseteq Batched(q)
             /\ runner'[q].attempt \in {runner[q].attempt, Between.attempt}
  <2>1. CASE q # p
    BY <1>3, <2>1 DEF EventsInv, Recorded, InsertLetter, Batched
  <2>2. CASE q = p /\ InsertLetter(p, e)
    BY <1>1, <2>2 DEF EventsInv, EventRunner, InsertLetter, Batched
  <2>3. CASE q = p /\ runner' = Recorded(p, e)
    BY <1>1, <2>3 DEF EventsInv, EventRunner, Recorded, LetGo, Batched, Between
  <2> QED  BY <1>3, <2>1, <2>2, <2>3
<1>5. /\ \A f \in Events : f # e => events'[f] = events[f]
      /\ \/ events'[e] = events[e]
         \/ /\ events'[e].attempts = runner[p].attempt[e]
            /\ events'[e].status # "absent"
            /\ events'[e].status = "ready" => runner[p].attempt[e] < MaxEventAttempts
  <2>1. CASE RecordDone(p, e)
    BY <1>2, <2>1 DEF EventsInv, EventRows, RecordDone
  <2>2. CASE RecordRetry(p, e)
    BY <1>2, <2>2, EventsAssumption DEF EventsInv, EventRows, RecordRetry, Last
  <2>3. CASE InsertLetter(p, e)
    BY <2>3 DEF InsertLetter
  <2>4. CASE MarkDead(p, e)
    BY <1>2, <2>4 DEF EventsInv, EventRows, MarkDead, Dead
  <2> QED  BY <2>1, <2>2, <2>3, <2>4 DEF Record
<1>6. AttemptsLeft'
  BY <1>2, <1>5, EventsAssumption DEF EventsLimits, AttemptsLeft
<1>7. \A f \in Events : events[f].status # "absent" => events'[f].status # "absent"
  BY <1>5
<1> QED  BY <1>4, <1>6, <1>7, LimitsOnLess

LEMMA EventsLimitsKeep ==
    ASSUME EventsInv, EventsLimits, [EventsStep]_eventsVars
    PROVE  EventsLimits'
<1>1. CASE UNCHANGED eventsVars
  BY <1>1 DEF EventsLimits, AttemptsLeft, Batched, eventsVars
<1>2. ASSUME NEW e \in Events, Publish(e) PROVE EventsLimits'
  <2>1. \A q \in Runners : Batched(q)' \subseteq Batched(q) /\ runner'[q] = runner[q]
    BY <1>2 DEF Publish, Batched
  <2>2. AttemptsLeft' /\ \A f \in Events : events[f].status # "absent" => events'[f].status # "absent"
    BY <1>2, EventsAssumption DEF Publish, EventsInv, EventRows, EventsLimits, AttemptsLeft
  <2> QED  BY <2>1, <2>2, LimitsOnLess
<1>3. ASSUME NEW p \in Runners, RunnerDies(p) PROVE EventsLimits'
  <2>1. /\ \A q \in Runners : runner'[q] = IF q = p THEN Between ELSE runner[q]
        /\ UNCHANGED events
    BY <1>3 DEF EventsInv, RunnerDies
  <2>2. \A q \in Runners : Batched(q)' \subseteq Batched(q)
    BY <2>1 DEF Batched, Between
  <2> QED  BY <2>1, <2>2, LimitsOnLess DEF EventsLimits, AttemptsLeft
<1>4. ASSUME NEW p \in Runners, NEW e \in Events, NEW ok \in BOOLEAN, Handle(p, e, ok)
      PROVE  EventsLimits'
  <2>1. /\ \A q \in Runners : q # p => runner'[q] = runner[q]
        /\ runner'[p].handling = runner[p].handling \ {e}
        /\ runner'[p].recording = runner[p].recording \union {e}
        /\ runner'[p].letter = runner[p].letter /\ runner'[p].attempt = runner[p].attempt
        /\ UNCHANGED events /\ e \in runner[p].handling
    BY <1>4 DEF EventsInv, EventRunner, Handle
  <2>2. \A q \in Runners : Batched(q)' \subseteq Batched(q)
    BY <2>1 DEF Batched
  <2>3. \A q \in Runners : runner'[q].attempt = runner[q].attempt
    BY <2>1
  <2> QED  BY <2>1, <2>2, <2>3, LimitsOnLess DEF EventsLimits, AttemptsLeft
<1> QED  BY <1>1, <1>2, <1>3, <1>4, TakeLimits, RecordLimits DEF EventsStep

-----------------------------------------------------------------------------
(* The pipeline. *)

LEMMA NextSteps ==
    ASSUME [Next]_vars
    PROVE  [JobsStep]_jobsVars /\ [EventsStep]_eventsVars
<1>1. CASE UNCHANGED vars
  BY <1>1 DEF vars
<1>2. ASSUME NEW p \in Procs, Start(p) \/ Die(p) \/ Work(p)
      PROVE  [JobsStep]_jobsVars /\ [EventsStep]_eventsVars
  BY <1>2 DEF Start, Die, Work, JobsStep, EventsStep
<1>3. ASSUME NEW p \in Runners, RunnerStep(p)
      PROVE  [JobsStep]_jobsVars /\ [EventsStep]_eventsVars
  <2>1. Runners \subseteq Procs /\ Keys = Events
    BY PipelineAssumption DEF PipelineAssumption
  <2>2. CASE Take(p)
    BY <2>2 DEF Take, EventsStep
  <2>3. ASSUME NEW e \in Events, HandlerEnqueues(p, e)
        PROVE  JobsStep /\ EventsStep
    BY <2>1, <2>3 DEF HandlerEnqueues, JobsStep, EventsStep
  <2>4. ASSUME NEW e \in Events, HandlerFails(p, e)
        PROVE  UNCHANGED jobsVars /\ EventsStep
    BY <2>4 DEF HandlerFails, EventsStep
  <2>5. ASSUME NEW e \in Events, Record(p, e), UNCHANGED <<jobsVars, deaths>>
        PROVE  UNCHANGED jobsVars /\ EventsStep
    BY <2>5 DEF EventsStep
  <2> QED  BY <1>3, <2>2, <2>3, <2>4, <2>5 DEF RunnerStep
<1>4. ASSUME NEW e \in Events, Arrives(e)
      PROVE  [JobsStep]_jobsVars /\ [EventsStep]_eventsVars
  BY <1>4 DEF Arrives, EventsStep
<1> QED  BY <1>1, <1>2, <1>3, <1>4 DEF Next

\* Rows, workers and runners have their types, and nothing is tried beyond its
\* limit: an event never, a job only as often as the history counts an opening
\* of the queue or a claim of a stale row.  A job that is marked running has a
\* worker, unless a process is down.
THEOREM TypeCorrect == Spec => []TypeOK
<1> DEFINE Inv == /\ JobsInv /\ JobsLimits /\ EventsInv /\ EventsLimits
                  /\ deaths \in 0..MaxDeaths
<1>1. Init => Inv
  BY JobsInitially, LimitsInitially, EventsInitially, EventsLimitsInitially, PipelineAssumption
     DEF Init
<1>2. Inv /\ [Next]_vars => Inv'
  <2> SUFFICES ASSUME Inv, [Next]_vars PROVE Inv'
    OBVIOUS
  <2>1. [JobsStep]_jobsVars /\ [EventsStep]_eventsVars
    BY NextSteps
  <2>2. deaths' \in 0..MaxDeaths
    <3>1. deaths' = deaths \/ \E p \in Procs : Die(p)
      BY DEF Next, Start, Work, RunnerStep, Take, HandlerEnqueues, HandlerFails, Arrives, vars
    <3>2. ASSUME NEW p \in Procs, Die(p) PROVE deaths' = deaths + 1 /\ deaths < MaxDeaths
      BY <3>2 DEF Die
    <3> QED  BY <3>1, <3>2, PipelineAssumption
  <2> QED  BY <2>1, <2>2, JobsKeep, LimitsKeep, EventsKeep, EventsLimitsKeep
<1>3. Inv => TypeOK
  BY JobsTyped, EventsTyped DEF TypeOK
<1> QED  BY <1>1, <1>2, <1>3, PTL DEF Spec

\* A job that is done or dead stays so, however often processes die, start,
\* select stale rows and enqueue its key again, unless the queue was opened
\* while a live process was running it.
THEOREM JobsSettle == Spec => SettledStays
<1>1. Init => JobsInv
  BY JobsInitially DEF Init
<1>2. JobsInv /\ [Next]_vars => JobsInv' /\ SettledKept
  BY NextSteps, JobsKeep
<1>3. SettledStays <=> [][SettledKept]_jobsVars
  BY PTL DEF SettledStays, SettledKept
<1> QED  BY <1>1, <1>2, <1>3, PTL DEF Spec

\* An event is dead exactly if its letter is among the dead ones, between the
\* two statements apart, for any number of runners, events and deaths; except
\* events two runners have held at once or whose runner died in between.
THEOREM LettersCorrect == Spec => []LettersAgree
<1>1. Init => EventsInv
  BY EventsInitially DEF Init
<1>2. EventsInv /\ [Next]_vars => EventsInv'
  BY NextSteps, EventsKeep
<1>3. EventsInv => LettersAgree
  BY DEF EventsInv
<1> QED  BY <1>1, <1>2, <1>3, PTL DEF Spec
=============================================================================
