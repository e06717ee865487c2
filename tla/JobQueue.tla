------------------------------ MODULE JobQueue ------------------------------
(***************************************************************************)
(* The durable job queue: the PostgreSQL table `jobs` (migration 0017),    *)
(* the statements that work on it (jobs.rs), the workers that run jobs     *)
(* (job_worker.rs), and the life of the processes that host the workers    *)
(* (main.rs).                                                              *)
(*                                                                         *)
(* One SQL statement, or one transaction, is one step; a worker is a       *)
(* program counter that moves over the awaits of worker_loop and run_job,  *)
(* so every interleaving of the statements of two workers is a behaviour.  *)
(*                                                                         *)
(* Time is abstracted to what the statements compare: a lease is live or   *)
(* expired, a backoff has elapsed or not.  A lease may expire under a      *)
(* worker that still runs the job (stalled task, unreachable database,     *)
(* clock skew, a drain longer than the lease: heartbeats stop on           *)
(* shutdown); `overrun' remembers for which jobs that happened.            *)
(***************************************************************************)
EXTENDS Integers

CONSTANTS
    Workers,      \* worker tasks
    Procs,        \* server processes that spawn workers (API or WORKER_ONLY)
    Home,         \* the process of each worker
    Jobs,         \* the row ids that can ever be inserted
    Refs,         \* (kind, ref_id) pairs
    MaxAttempts,  \* jobs.max_attempts
    Messages,     \* classes of error message a failing job can carry
    FaultLimit,   \* bound: database errors, crashes, shutdowns, and leases
                  \* that expire under a running worker
    NoJob, NoRef  \* "nothing held", "row not inserted"

\* How an error message meets the byte offsets at which it is cut: nowhere
\* inside a character, inside one at byte 500, inside one at byte 2000.
MessageClasses == {"short", "split500", "split2000"}

ASSUME ConstantsAssumption ==
    /\ Home \in [Workers -> Procs]
    /\ Jobs \subseteq Nat
    /\ MaxAttempts \in Nat \ {0}
    /\ Messages \subseteq MessageClasses
    /\ FaultLimit \in Nat
    /\ NoJob \notin Jobs
    /\ NoRef \notin Refs

VARIABLES
    jobs,     \* the table: row id -> row
    events,   \* job_events: row id -> the events recorded for it
    clock,    \* the second created_at is stamped with
    proc,     \* state of each process
    pc,       \* where each worker is in worker_loop / run_job
    held,     \* the job each worker works on
    seen,     \* the attempts fail_job read, per worker
    message,  \* class of the error message, per worker
    faults,   \* faults used up
    overrun   \* history: jobs whose lease expired under a running worker

tableVars  == <<jobs, events, clock>>
workerVars == <<pc, held, seen, message>>
ghostVars  == <<faults, overrun>>
vars == <<tableVars, proc, workerVars, ghostVars>>

-----------------------------------------------------------------------------
Active  == {"pending", "claimed", "processing"}  \* idx_jobs_active_unique
Leased  == {"claimed", "processing"}
Settled == {"succeeded", "dead"}
Status  == {"none"} \cup Active \cup Settled
Lease   == {"null", "live", "expired"}
Events  == {"started", "succeeded", "failed"}

Row == [status   : Status,
        ref      : Refs \cup {NoRef},
        attempts : Nat,
        lease    : Lease,
        due      : BOOLEAN,      \* next_run_at <= now
        created  : Nat]

NoRow == [status |-> "none", ref |-> NoRef, attempts |-> 0,
          lease |-> "null", due |-> FALSE, created |-> 0]

NewRow(r, t) == [status |-> "pending", ref |-> r, attempts |-> 0,
                 lease |-> "null", due |-> TRUE, created |-> t]

\* The assignments the UPDATE statements make to a row.
Move(row, s, l) == [row EXCEPT !.status = s, !.lease = l]
WithLease(row, l) == [row EXCEPT !.lease = l]
Die(row, n) ==
    [row EXCEPT !.status = "dead", !.lease = "null", !.attempts = n]
Retry(row, n) ==
    [row EXCEPT !.status = "pending", !.lease = "null", !.attempts = n,
                !.due = FALSE]
MakeDue(row) == [row EXCEPT !.due = TRUE]

\* The worker has a job in memory and has yet to write the job's outcome.
Executing == {"claimed", "marked", "running", "done", "failing", "deciding"}
\* The worker holds a job or a row lock.
Holding   == {"locking", "logOk", "logErr"} \cup Executing
WorkerPc  == {"down", "panicked", "stopped", "idle", "polling"} \cup Holding

TypeOK ==
    /\ jobs    \in [Jobs -> Row]
    /\ events  \in [Jobs -> SUBSET Events]
    /\ clock   \in Nat
    /\ proc    \in [Procs -> {"down", "up", "draining"}]
    /\ pc      \in [Workers -> WorkerPc]
    /\ held    \in [Workers -> Jobs \cup {NoJob}]
    /\ seen    \in [Workers -> Nat]
    /\ message \in [Workers -> MessageClasses]
    /\ faults  \in 0..FaultLimit
    /\ overrun \in SUBSET Jobs
    /\ \A w \in Workers : pc[w] \in Holding => held[w] \in Jobs

Init ==
    /\ jobs    = [j \in Jobs |-> NoRow]
    /\ events  = [j \in Jobs |-> {}]
    /\ clock   = 0
    /\ proc    = [p \in Procs |-> "down"]
    /\ pc      = [w \in Workers |-> "down"]
    /\ held    = [w \in Workers |-> NoJob]
    /\ seen    = [w \in Workers |-> 0]
    /\ message = [w \in Workers |-> "short"]
    /\ faults  = 0
    /\ overrun = {}

-----------------------------------------------------------------------------
(* Helpers *)

Executors(j) == {w \in Workers : held[w] = j /\ pc[w] \in Executing}

\* The row is locked by the open claim transaction of a worker other than w.
LockedByOther(w, j) ==
    \E v \in Workers \ {w} : pc[v] = "locking" /\ held[v] = j

\* Faulty: the index leaves out the rows that are being processed.
ActiveSiblingPending(j, r) ==
    \E k \in Jobs \ {j} : jobs[k].status = "pending" /\ jobs[k].ref = r

\* Another row of the same (kind, ref_id) is in the partial unique index.
ActiveSibling(j, r) ==
    \E k \in Jobs \ {j} : jobs[k].status \in Active /\ jobs[k].ref = r

\* ORDER BY created_at, id: second resolution, ties broken by a random id.
Older(i, j) ==
    \/ jobs[i].created < jobs[j].created
    \/ jobs[i].created = jobs[j].created /\ i < j

\* Faulty: next_run_at is not looked at.
ClaimableEarly(w) ==
    {j \in Jobs : jobs[j].status = "pending" /\ ~LockedByOther(w, j)}

\* What claim_next_job's SELECT can return to worker w: due, pending, and
\* not skipped because another transaction has it locked.
Claimable(w) ==
    {j \in Jobs : /\ jobs[j].status = "pending" /\ jobs[j].due
                  /\ ~LockedByOther(w, j)}

Fault == faults < FaultLimit /\ faults' = faults + 1

Goto(w, where) == pc' = [pc EXCEPT ![w] = where]

\* The worker drops the job it has in memory and goes to `where'.
Drop(w, where) ==
    /\ Goto(w, where)
    /\ held' = [held EXCEPT ![w] = NoJob]

\* Faulty sweeps: of every held row, whatever its lease; with the lease left in
\* place; with an attempt charged; of processing rows only.
ResetHeld ==
    jobs' = [j \in Jobs |-> IF jobs[j].status \in Leased
                            THEN Move(jobs[j], "pending", "null")
                            ELSE jobs[j]]
ResetKeepsLease ==
    jobs' = [j \in Jobs |-> IF jobs[j].lease = "expired"
                            THEN Move(jobs[j], "pending", "expired")
                            ELSE jobs[j]]
ResetBurnsBudget ==
    jobs' = [j \in Jobs |-> IF jobs[j].lease = "expired"
                            THEN Retry(jobs[j], jobs[j].attempts + 1)
                            ELSE jobs[j]]
ResetProcessingOnly ==
    jobs' = [j \in Jobs |->
               IF jobs[j].status = "processing" /\ jobs[j].lease = "expired"
               THEN Move(jobs[j], "pending", "null")
               ELSE jobs[j]]

\* reset_stale_jobs: every expired lease back to pending, attempts kept.
ResetStale ==
    jobs' = [j \in Jobs |->
               IF jobs[j].status \in Leased /\ jobs[j].lease = "expired"
               THEN Move(jobs[j], "pending", "null")
               ELSE jobs[j]]

-----------------------------------------------------------------------------
(* Producers *)

\* enqueue_job inserts a row unless the (kind, ref_id) has an active one; on
\* conflict nothing happens, and the caller gets `false'.
Enqueue(r, j) ==
    /\ jobs[j].status = "none"
    /\ ~ActiveSibling(j, r)
    /\ clock' \in {clock, clock + 1}
    /\ jobs' = [jobs EXCEPT ![j] = NewRow(r, clock')]
    /\ UNCHANGED <<events, proc, workerVars, ghostVars>>

-----------------------------------------------------------------------------
(* worker_loop *)

\* Top of the loop: shutdown is looked at here and nowhere else.
Poll(w) ==
    /\ pc[w] = "idle" /\ proc[Home[w]] = "up"
    /\ Goto(w, "polling")
    /\ UNCHANGED <<tableVars, proc, held, seen, message, ghostVars>>

WorkerStop(w) ==
    /\ pc[w] = "idle" /\ proc[Home[w]] = "draining"
    /\ Goto(w, "stopped")
    /\ UNCHANGED <<tableVars, proc, held, seen, message, ghostVars>>

\* One cycle in STALE_SWEEP_EVERY sweeps before it claims.
Sweep(w) ==
    /\ pc[w] = "polling"
    /\ \E j \in Jobs : jobs[j].lease = "expired"
    /\ ResetStale
    /\ UNCHANGED <<events, clock, proc, workerVars, ghostVars>>

\* Faulty: the worker keeps no record of the row it locked.
ClaimSelectForgetful(w, j) ==
    /\ pc[w] = "polling" /\ j \in Claimable(w)
    /\ Goto(w, "locking")
    /\ UNCHANGED <<tableVars, proc, held, seen, message, ghostVars>>

\* claim_next_job, first statement: lock the oldest claimable row.
ClaimSelect(w, j) ==
    /\ pc[w] = "polling"
    /\ j \in Claimable(w)
    /\ \A i \in Claimable(w) \ {j} : Older(j, i)
    /\ Goto(w, "locking")
    /\ held' = [held EXCEPT ![w] = j]
    /\ UNCHANGED <<tableVars, proc, seen, message, ghostVars>>

\* Nothing to claim: sleep POLL_INTERVAL.
ClaimNone(w) ==
    /\ pc[w] = "polling"
    /\ Claimable(w) = {}
    /\ Goto(w, "idle")
    /\ UNCHANGED <<tableVars, proc, held, seen, message, ghostVars>>

\* claim_next_job, second statement and commit.
ClaimCommit(w) ==
    LET j == held[w] IN
    /\ pc[w] = "locking"
    /\ IF jobs[j].status = "pending"
       THEN /\ jobs' = [jobs EXCEPT ![j] = Move(@, "claimed", "live")]
            /\ Goto(w, "claimed")
            /\ UNCHANGED held
       ELSE Drop(w, "idle") /\ UNCHANGED jobs
    /\ UNCHANGED <<events, clock, proc, seen, message, ghostVars>>

-----------------------------------------------------------------------------
(* run_job *)

\* Faulty: the `started' event is not recorded.
MarkRunningSilent(w) ==
    /\ pc[w] = "claimed"
    /\ jobs' = [jobs EXCEPT ![held[w]] = Move(@, "processing", "live")]
    /\ Goto(w, "running")
    /\ UNCHANGED <<events, clock, proc, held, seen, message, ghostVars>>

MarkRunning(w) ==
    LET j == held[w] IN
    /\ pc[w] = "claimed"
    /\ ~LockedByOther(w, j)
    /\ jobs' = IF jobs[j].status = "claimed"
               THEN [jobs EXCEPT ![j] = Move(@, "processing", "live")]
               ELSE jobs
    /\ Goto(w, "marked")
    /\ UNCHANGED <<events, clock, proc, held, seen, message, ghostVars>>

RecordStarted(w) ==
    /\ pc[w] = "marked"
    /\ events' = [events EXCEPT ![held[w]] = @ \cup {"started"}]
    /\ Goto(w, "running")
    /\ UNCHANGED <<jobs, clock, proc, held, seen, message, ghostVars>>

\* heartbeat_job, from the task run_job spawns; the task ends on shutdown.
\* It names the job, not the worker that claimed it.  Renewing a lease that is
\* still live changes nothing here, so the step is that of an expired one.
Heartbeat(w) ==
    LET j == held[w] IN
    /\ pc[w] = "running" /\ proc[Home[w]] = "up"
    /\ jobs[j].status = "processing"
    /\ jobs[j].lease = "expired"
    /\ jobs' = [jobs EXCEPT ![j] = WithLease(@, "live")]
    /\ UNCHANGED <<events, clock, proc, workerVars, ghostVars>>

\* run_parse_job / run_translate_job returns, and the heartbeat is aborted.
FinishOk(w) ==
    /\ pc[w] = "running"
    /\ Goto(w, "done")
    /\ UNCHANGED <<tableVars, proc, held, seen, message, ghostVars>>

FinishErr(w) ==
    /\ pc[w] = "running"
    /\ \E m \in Messages : message' = [message EXCEPT ![w] = m]
    /\ Goto(w, "failing")
    /\ UNCHANGED <<tableVars, proc, held, seen, ghostVars>>

Complete(w) ==
    LET j == held[w] IN
    /\ pc[w] = "done"
    /\ ~LockedByOther(w, j)
    /\ jobs' = IF jobs[j].status \in Leased
               THEN [jobs EXCEPT ![j] = Move(@, "succeeded", "null")]
               ELSE jobs
    /\ Goto(w, "logOk")
    /\ UNCHANGED <<events, clock, proc, held, seen, message, ghostVars>>

RecordSucceeded(w) ==
    /\ pc[w] = "logOk"
    /\ events' = [events EXCEPT ![held[w]] = @ \cup {"succeeded"}]
    /\ Drop(w, "idle")
    /\ UNCHANGED <<jobs, clock, proc, seen, message, ghostVars>>

\* fail_job reads attempts and max_attempts ...
FailRead(w) ==
    /\ pc[w] = "failing"
    /\ seen' = [seen EXCEPT ![w] = jobs[held[w]].attempts]
    /\ Goto(w, "deciding")
    /\ UNCHANGED <<tableVars, proc, held, message, ghostVars>>

\* Faulty: one attempt too many.
FailWriteLate(w) ==
    LET next == seen[w] + 1 IN
    /\ pc[w] = "deciding" /\ message[w] # "split2000"
    /\ seen' = [seen EXCEPT ![w] = 0]
    /\ jobs' = [jobs EXCEPT ![held[w]] =
                  IF next > MaxAttempts THEN Die(@, next) ELSE Retry(@, next)]
    /\ Goto(w, "logErr")
    /\ UNCHANGED <<held, message, events, clock, proc, ghostVars>>

\* ... and writes what it computed from them, whatever the status is by then.
\* A row that goes back to pending beside an active sibling is refused by the
\* unique index: fail_job returns the error, and so does run_job.
FailWrite(w) ==
    LET j == held[w]
        next == seen[w] + 1
        dies == next >= MaxAttempts
        refused == ~dies /\ ActiveSibling(j, jobs[j].ref)
    IN
    /\ pc[w] = "deciding" /\ message[w] # "split2000"
    /\ ~LockedByOther(w, j)
    /\ seen' = [seen EXCEPT ![w] = 0]
    /\ IF refused
       THEN /\ Drop(w, "idle")
            /\ message' = [message EXCEPT ![w] = "short"]
            /\ UNCHANGED jobs
       ELSE /\ jobs' = [jobs EXCEPT ![j] =
                          IF dies THEN Die(@, next) ELSE Retry(@, next)]
            /\ Goto(w, "logErr")
            /\ UNCHANGED <<held, message>>
    /\ UNCHANGED <<events, clock, proc, ghostVars>>

RecordFailed(w) ==
    /\ pc[w] = "logErr" /\ message[w] # "split500"
    /\ events' = [events EXCEPT ![held[w]] = @ \cup {"failed"}]
    /\ Drop(w, "idle")
    /\ message' = [message EXCEPT ![w] = "short"]
    /\ UNCHANGED <<jobs, clock, proc, seen, ghostVars>>

\* String::truncate(2000) before fail_job's UPDATE, or the slice [..500] of
\* the message after it, cuts a character in two: the worker task panics.
Panic(w) ==
    /\ \/ pc[w] = "deciding" /\ message[w] = "split2000"
       \/ pc[w] = "logErr" /\ message[w] = "split500"
    /\ Drop(w, "panicked")
    /\ seen' = [seen EXCEPT ![w] = 0]
    /\ message' = [message EXCEPT ![w] = "short"]
    /\ UNCHANGED <<tableVars, proc, ghostVars>>

\* A statement fails: `?' leaves run_job (an open transaction rolls back) and
\* the loop goes on; the row stays as it is.
Abandon(w) ==
    /\ pc[w] \in Holding \ {"running"}
    /\ Fault
    /\ Drop(w, "idle")
    /\ seen' = [seen EXCEPT ![w] = 0]
    /\ message' = [message EXCEPT ![w] = "short"]
    /\ UNCHANGED <<tableVars, proc, overrun>>

-----------------------------------------------------------------------------
(* The passing of time *)

\* A lease nobody works under runs out.
LeaseExpires(j) ==
    /\ jobs[j].lease = "live"
    /\ Executors(j) = {}
    /\ jobs' = [jobs EXCEPT ![j] = WithLease(@, "expired")]
    /\ UNCHANGED <<events, clock, proc, workerVars, ghostVars>>

\* A lease runs out although a worker still executes the job.
LeaseOverrun(j) ==
    /\ jobs[j].lease = "live"
    /\ Executors(j) # {}
    /\ Fault
    /\ jobs' = [jobs EXCEPT ![j] = WithLease(@, "expired")]
    /\ overrun' = overrun \cup {j}
    /\ UNCHANGED <<events, clock, proc, workerVars>>

BackoffElapses(j) ==
    /\ jobs[j].status = "pending" /\ ~jobs[j].due
    /\ jobs' = [jobs EXCEPT ![j] = MakeDue(@)]
    /\ UNCHANGED <<events, clock, proc, workerVars, ghostVars>>

-----------------------------------------------------------------------------
(* Processes *)

\* All that the workers of p have in memory goes; open transactions roll back.
KillWorkers(p) ==
    LET gone(w) == Home[w] = p IN
    /\ pc' = [w \in Workers |-> IF gone(w) THEN "down" ELSE pc[w]]
    /\ held' = [w \in Workers |-> IF gone(w) THEN NoJob ELSE held[w]]
    /\ seen' = [w \in Workers |-> IF gone(w) THEN 0 ELSE seen[w]]
    /\ message' = [w \in Workers |-> IF gone(w) THEN "short" ELSE message[w]]

\* main sweeps the table once (a failed sweep is only logged) and spawns the
\* worker tasks.
Start(p) ==
    /\ proc[p] = "down"
    /\ \/ ResetStale /\ UNCHANGED faults
       \/ Fault /\ UNCHANGED jobs
    /\ proc' = [proc EXCEPT ![p] = "up"]
    /\ pc' = [w \in Workers |-> IF Home[w] = p THEN "idle" ELSE pc[w]]
    /\ UNCHANGED <<events, clock, held, seen, message, overrun>>

\* SIGINT or SIGTERM cancels the token.
Shutdown(p) ==
    /\ proc[p] = "up"
    /\ Fault
    /\ proc' = [proc EXCEPT ![p] = "draining"]
    /\ UNCHANGED <<tableVars, workerVars, overrun>>

\* main returns once the workers have ended or 60 seconds have passed.
Exit(p) ==
    /\ proc[p] = "draining"
    /\ proc' = [proc EXCEPT ![p] = "down"]
    /\ KillWorkers(p)
    /\ UNCHANGED <<tableVars, ghostVars>>

Crash(p) ==
    /\ proc[p] # "down"
    /\ Fault
    /\ proc' = [proc EXCEPT ![p] = "down"]
    /\ KillWorkers(p)
    /\ UNCHANGED <<tableVars, overrun>>

-----------------------------------------------------------------------------
\* The steps that carry a worker through its loop when no fault strikes.
Advance(w) ==
    \/ Poll(w) \/ WorkerStop(w)
    \/ (\E j \in Jobs : ClaimSelect(w, j)) \/ ClaimNone(w) \/ ClaimCommit(w)
    \/ MarkRunning(w) \/ RecordStarted(w)
    \/ FinishOk(w) \/ FinishErr(w)
    \/ Complete(w) \/ RecordSucceeded(w)
    \/ FailRead(w) \/ FailWrite(w) \/ RecordFailed(w) \/ Panic(w)

Next ==
    \/ \E r \in Refs, j \in Jobs : Enqueue(r, j)
    \/ \E w \in Workers : Advance(w) \/ Sweep(w) \/ Heartbeat(w) \/ Abandon(w)
    \/ \E j \in Jobs : LeaseExpires(j) \/ LeaseOverrun(j) \/ BackoffElapses(j)
    \/ \E p \in Procs : Start(p) \/ Shutdown(p) \/ Exit(p) \/ Crash(p)

Spec == Init /\ [][Next]_vars

\* Workers keep running, the work of a job ends, one cycle in fifteen sweeps
\* (so a worker that is at the sweep again and again does sweep), clocks
\* advance, and a process that is down is started again by its supervisor.
Fairness ==
    /\ \A w \in Workers : WF_vars(Advance(w)) /\ SF_vars(Sweep(w))
    /\ \A j \in Jobs : WF_vars(LeaseExpires(j)) /\ WF_vars(BackoffElapses(j))
    /\ \A p \in Procs : WF_vars(Start(p)) /\ WF_vars(Exit(p))

FairSpec == Spec /\ Fairness

-----------------------------------------------------------------------------
(* Safety *)

\* At most one row of a (kind, ref_id) is active: the promise of
\* idx_jobs_active_unique, which every statement that makes a row active has
\* to live with.
ActiveUnique ==
    \A i, j \in Jobs :
        /\ jobs[i].status \in Active /\ jobs[j].status \in Active
        /\ jobs[i].ref = jobs[j].ref
        => i = j

\* A row carries a lease exactly while it is claimed or processing, so
\* whatever a crash, an error or a panic leaves behind is visible to
\* reset_stale_jobs.
LeaseIffHeld ==
    \A j \in Jobs : jobs[j].lease # "null" <=> jobs[j].status \in Leased

\* While no lease of j has run out under a running worker, at most one worker
\* executes j, and the row says so.
SoleExecutor ==
    \A j \in Jobs \ overrun : \A v, w \in Executors(j) :
        /\ v = w
        /\ jobs[j].status \in Leased
        /\ jobs[j].lease = "live"

\* The attempts of a job never pass max_attempts, and it is dead exactly when
\* it has used them up.
BudgetExact ==
    \A j \in Jobs \ overrun :
        /\ jobs[j].attempts <= MaxAttempts
        /\ jobs[j].status = "dead" <=> jobs[j].attempts = MaxAttempts

\* fail_job computes the new attempts from a value it read in an earlier
\* statement; while the lease holds, that value is still the row's.
SeenCurrent ==
    \A w \in Workers :
        pc[w] = "deciding" /\ held[w] \notin overrun
            => seen[w] = jobs[held[w]].attempts

\* The event trail agrees with the table: a settled job was started, only a
\* succeeded one is reported succeeded, only one that was charged an attempt
\* is reported failed.
TrailTruthful ==
    \A j \in Jobs \ overrun :
        /\ jobs[j].status \in Settled => "started" \in events[j]
        /\ "succeeded" \in events[j] => jobs[j].status = "succeeded"
        /\ "failed" \in events[j] => jobs[j].attempts > 0

-----------------------------------------------------------------------------
(* Action properties *)

\* A job that succeeded or died keeps that outcome.
OutcomeFinal ==
    [][\A j \in Jobs \ overrun :
          jobs[j].status \in Settled => jobs'[j].status = jobs[j].status]_vars

\* The attempts of a job change only one at a time and only under its own live
\* lease: recovery by reset_stale_jobs does not burn the retry budget.
ChargedOncePerFailure ==
    [][\A j \in Jobs \ overrun :
          jobs'[j].attempts # jobs[j].attempts =>
              /\ jobs'[j].attempts = jobs[j].attempts + 1
              /\ jobs[j].lease = "live"
              /\ jobs'[j].lease = "null"]_vars

\* A backoff is never cut short: a pending job that is not yet due stays
\* pending, and nobody works on it, until its backoff has elapsed.
BackoffRespected ==
    [][\A j \in Jobs \ overrun :
          jobs[j].status = "pending" /\ ~jobs[j].due =>
              /\ jobs'[j].status = "pending"
              /\ Executors(j) = {}]_vars

-----------------------------------------------------------------------------
(* Liveness *)

\* Every job that was queued eventually succeeds or dies, whatever crashes,
\* drains and errors happen in between (finitely many).
JobsSettle ==
    \A j \in Jobs :
        jobs[j].status = "pending" ~> jobs[j].status \in Settled

-----------------------------------------------------------------------------
(* Refinement *)

PhaseOf(status) == CASE status \in Leased  -> "held"
                     [] status = "pending" -> "queued"
                     [] OTHER              -> status

Life == INSTANCE JobLifecycle WITH
    phase    <- [j \in Jobs |-> PhaseOf(jobs[j].status)],
    ref      <- [j \in Jobs |-> jobs[j].ref],
    attempts <- [j \in Jobs |-> IF jobs[j].attempts < MaxAttempts
                                THEN jobs[j].attempts ELSE MaxAttempts],
    exec     <- [w \in Workers |-> IF pc[w] \in Executing
                                   THEN held[w] ELSE NoJob],
    loose    <- overrun

\* The table, the workers and the processes together keep the promise of
\* JobLifecycle: every step of theirs is one of its steps, or none.
ImplementsLifecycle == Life!LifeSpec

-----------------------------------------------------------------------------
(* What the documentation says without the condition on leases *)

\* jobs.rs: workers of several processes can safely compete for jobs, and
\* docs/FINAL_ACCEPTANCE.md: SKIP LOCKED guarantees that a task is not executed
\* again.  So an outcome, once written, stays.
OutcomeFinalAlways ==
    [][\A j \in Jobs :
          jobs[j].status \in Settled => jobs'[j].status = jobs[j].status]_vars
=============================================================================
