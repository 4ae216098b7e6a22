--------------------------------- MODULE Jobs ---------------------------------
(***************************************************************************)
(* The job queue (rustnative-server, jobs.rs): the table _jobs, and the    *)
(* worker of each process that opens it.                                   *)
(*                                                                         *)
(* A process opens the queue (Jobs::new), enqueues under idempotency keys, *)
(* and works one job at a time; it may die at any point.  Several          *)
(* processes share the table.  Each SQL statement is one step.  A job is   *)
(* named by its key.  Time is left out: a queued job may be due at once or *)
(* later, and which of the due jobs is oldest is open.                     *)
(***************************************************************************)
EXTENDS Integers

CONSTANTS
    Procs,          \* processes
    Keys,           \* idempotency keys
    MaxJobAttempts  \* Job::MAX_ATTEMPTS

ASSUME JobsAssumption == MaxJobAttempts \in Nat \ {0}

VARIABLES
    jobs,       \* the table: each job's status and attempts
    worker,     \* each process: the job it has selected or runs, and its attempt
    overtaken,  \* history: jobs queued again while a live worker ran them
    uncounted   \* history: attempts of a job its limit does not count

jobsVars == <<jobs, worker, overtaken, uncounted>>

NoJob == [status |-> "absent", attempts |-> 0]
Settled == {"done", "dead"}
Down == [at |-> "down"]
Idle == [at |-> "idle"]

Up(p) == worker[p].at # "down"

JobsTypeOK ==
    /\ jobs \in [Keys -> [status : {"absent", "queued", "running", "done", "dead"},
                          attempts : Nat]]
    /\ \A p \in Procs :
           \/ worker[p] \in {Down, Idle}
           \/ /\ worker[p] \in [at : {"selected", "running"}, key : Keys, attempt : Nat \ {0}]
              /\ worker[p].attempt <= MaxJobAttempts + uncounted[worker[p].key]
    /\ \A k \in Keys : jobs[k].attempts <= MaxJobAttempts + uncounted[k]
    /\ \A k \in Keys : jobs[k].status = "running" =>
           (\E p \in Procs : worker[p].at = "running" /\ worker[p].key = k)
             \/ \E p \in Procs : ~Up(p)

JobsInit ==
    /\ jobs = [k \in Keys |-> NoJob]
    /\ worker = [p \in Procs |-> Down]
    /\ overtaken = {} /\ uncounted = [k \in Keys |-> 0]

\* Jobs::new puts what is running back in the queue, whoever runs it.
MutRequeued(row) == row
Requeued(row) == IF row.status = "running" THEN [row EXCEPT !.status = "queued"] ELSE row

JobsOpen(p) ==
    /\ ~Up(p)
    /\ worker' = [worker EXCEPT ![p] = Idle]
    /\ jobs' = [k \in Keys |-> Requeued(jobs[k])]
    /\ overtaken' = overtaken \union
           {k \in Keys : \E q \in Procs : worker[q].at = "running" /\ worker[q].key = k}
    /\ uncounted' = [k \in Keys |-> uncounted[k] + (IF jobs[k].status = "running" THEN 1 ELSE 0)]

\* enqueue: INSERT OR IGNORE.
MutInserted(k) == [NoJob EXCEPT !.status = "queued"]
Inserted(k) == IF jobs[k].status = "absent"
                 THEN [NoJob EXCEPT !.status = "queued"] ELSE jobs[k]

Enqueue(k) ==
    /\ jobs' = [jobs EXCEPT ![k] = Inserted(k)]
    /\ UNCHANGED <<worker, overtaken, uncounted>>

\* work_one selects a due job,
Select(p) ==
    /\ worker[p].at = "idle"
    /\ \E k \in Keys :
           /\ jobs[k].status = "queued"
           /\ worker' = [worker EXCEPT ![p] =
                  [at |-> "selected", key |-> k, attempt |-> jobs[k].attempts + 1]]
    /\ UNCHANGED <<jobs, overtaken, uncounted>>

\* claims it, unless another worker has by now,
Claimable(k) == jobs[k].status = "queued"

Claim(p) ==
    LET k == worker[p].key IN
    /\ worker[p].at = "selected"
    /\ IF Claimable(k)
         THEN /\ worker' = [worker EXCEPT ![p].at = "running"]
              /\ jobs' = [jobs EXCEPT ![k].status = "running", ![k].attempts = @ + 1]
              /\ uncounted' = [uncounted EXCEPT ![k] =
                     @ + (jobs[k].attempts + 1 - worker[p].attempt)]
         ELSE /\ worker' = [worker EXCEPT ![p] = Idle]
              /\ UNCHANGED <<jobs, uncounted>>
    /\ UNCHANGED overtaken

\* runs it, and records how that went, whatever has become of the job.
Completed(p) == [jobs[worker[p].key] EXCEPT !.status = "done"]
MutFailed(p) == [jobs[worker[p].key] EXCEPT !.status = "queued"]
Failed(p) == IF worker[p].attempt >= MaxJobAttempts
               THEN [jobs[worker[p].key] EXCEPT !.status = "dead"]
               ELSE [jobs[worker[p].key] EXCEPT !.status = "queued"]

JobEnds(p, row) ==
    /\ worker[p].at = "running"
    /\ jobs' = [jobs EXCEPT ![worker[p].key] = row]
    /\ worker' = [worker EXCEPT ![p] = Idle]
    /\ UNCHANGED <<overtaken, uncounted>>

JobSucceeds(p) == JobEnds(p, Completed(p))
JobFails(p) == JobEnds(p, Failed(p))

WorkerDies(p) ==
    /\ Up(p)
    /\ worker' = [worker EXCEPT ![p] = Down]
    /\ UNCHANGED <<jobs, overtaken, uncounted>>

WorkerStep(p) == Select(p) \/ Claim(p) \/ JobSucceeds(p) \/ JobFails(p)

-----------------------------------------------------------------------------
(* Properties. *)

\* A job that is done or dead stays so, and is not run again: however often
\* its key is enqueued, it is one job.  Except when a process opened the
\* queue while another was running it.
SettledStays ==
    [][\A k \in Keys : jobs[k].status \in Settled /\ k \notin overtaken => jobs'[k] = jobs[k]]_jobsVars
=============================================================================
