-------------------------- MODULE JobQueueRefinement --------------------------
(***************************************************************************)
(* JobQueue implements JobLifecycle, for every value of the constants:     *)
(* seen through PhaseOf, the cut-off count of attempts and the jobs of the *)
(* workers that execute, every step of the table, the workers and the      *)
(* processes is a step of the abstract life of jobs, or none.              *)
(***************************************************************************)
EXTENDS JobQueueProofs

-----------------------------------------------------------------------------
(* The refinement mapping, by name *)

Charged(n) == IF n < MaxAttempts THEN n ELSE MaxAttempts

AbsPhase    == [j \in Jobs |-> PhaseOf(jobs[j].status)]
AbsRef      == [j \in Jobs |-> jobs[j].ref]
AbsAttempts == [j \in Jobs |-> Charged(jobs[j].attempts)]
AbsExec     == [w \in Workers |-> IF pc[w] \in Executing
                                  THEN held[w] ELSE NoJob]
AbsTable == <<AbsPhase, AbsRef, AbsAttempts>>

\* The steps of JobLifecycle in these terms.  A step that shows nothing:
LEMMA AbsStutter ==
    ASSUME UNCHANGED <<AbsTable, AbsExec, overrun>>
    PROVE  UNCHANGED Life!lifeVars
  BY DEF AbsTable, AbsPhase, AbsRef, AbsAttempts, AbsExec, Charged,
         Life!lifeVars

\* A job is accepted:
LEMMA AbsSubmit ==
    ASSUME NEW r \in Refs, NEW j \in Jobs,
           AbsPhase[j] = "none",
           \A i \in Jobs : AbsPhase[i] \in {"queued", "held"} => AbsRef[i] # r,
           AbsPhase' = [AbsPhase EXCEPT ![j] = "queued"],
           AbsRef' = [AbsRef EXCEPT ![j] = r],
           UNCHANGED <<AbsAttempts, AbsExec, overrun>>
    PROVE  Life!Submit(r, j)
  BY DEF AbsPhase, AbsRef, AbsAttempts, AbsExec, Charged,
         Life!Submit, Life!LiveJob, Life!Live

\* An execution begins:
LEMMA AbsBegin ==
    ASSUME NEW w \in Workers, NEW j \in Jobs,
           AbsExec[w] = NoJob, AbsPhase[j] = "queued",
           j \in overrun \/ \A v \in Workers : AbsExec[v] # j,
           AbsPhase' = [AbsPhase EXCEPT ![j] = "held"],
           AbsExec' = [AbsExec EXCEPT ![w] = j],
           UNCHANGED <<AbsRef, AbsAttempts, overrun>>
    PROVE  Life!Begin(w, j)
  BY DEF AbsPhase, AbsRef, AbsAttempts, AbsExec, Charged, Life!Begin

\* An execution ends well:
LEMMA AbsSucceed ==
    ASSUME NEW w \in Workers, NEW j \in Jobs,
           AbsExec[w] = j,
           AbsPhase[j] = "held" \/ j \in overrun,
           AbsPhase' = IF AbsPhase[j] = "held"
                       THEN [AbsPhase EXCEPT ![j] = "succeeded"] ELSE AbsPhase,
           AbsExec' = [AbsExec EXCEPT ![w] = NoJob],
           UNCHANGED <<AbsRef, AbsAttempts, overrun>>
    PROVE  Life!Succeed(w, j)
  BY DEF AbsPhase, AbsRef, AbsAttempts, AbsExec, Charged, Life!Succeed

\* An execution ends badly:
LEMMA AbsFail ==
    ASSUME NEW w \in Workers, NEW j \in Jobs,
           AbsExec[w] = j, AbsPhase[j] = "held", j \notin overrun,
           AbsAttempts' = [AbsAttempts EXCEPT ![j] = @ + 1],
           AbsPhase' = [AbsPhase EXCEPT ![j] = IF AbsAttempts'[j] = MaxAttempts
                                               THEN "dead" ELSE "queued"],
           AbsExec' = [AbsExec EXCEPT ![w] = NoJob],
           UNCHANGED <<AbsRef, overrun>>
    PROVE  Life!Fail(w, j)
  BY DEF AbsPhase, AbsRef, AbsAttempts, AbsExec, Charged, Life!Fail

\* An execution of a job that may have several ends badly:
LEMMA AbsFailLoose ==
    ASSUME NEW w \in Workers, NEW j \in Jobs,
           AbsExec[w] = j, j \in overrun,
           \/ UNCHANGED <<AbsPhase, AbsAttempts>>
           \/ /\ \A i \in Jobs \ {j} :
                    AbsPhase[i] \in {"queued", "held"} => AbsRef[i] # AbsRef[j]
              /\ AbsPhase' = [AbsPhase EXCEPT ![j] = "queued"]
              /\ \E n \in 1 .. MaxAttempts - 1 :
                    AbsAttempts' = [AbsAttempts EXCEPT ![j] = n]
           \/ /\ AbsPhase' = [AbsPhase EXCEPT ![j] = "dead"]
              /\ AbsAttempts' = [AbsAttempts EXCEPT ![j] = MaxAttempts],
           AbsExec' = [AbsExec EXCEPT ![w] = NoJob],
           UNCHANGED <<AbsRef, overrun>>
    PROVE  Life!FailLoose(w, j)
  BY DEF AbsPhase, AbsRef, AbsAttempts, AbsExec, Charged, Life!FailLoose,
         Life!Live

\* Executions are lost:
LEMMA AbsLose ==
    ASSUME NEW W \in SUBSET Workers,
           AbsExec' = [w \in Workers |-> IF w \in W THEN NoJob ELSE AbsExec[w]],
           UNCHANGED <<AbsTable, overrun>>
    PROVE  Life!Lose(W)
  BY DEF AbsTable, AbsPhase, AbsRef, AbsAttempts, AbsExec, Charged, Life!Lose

\* Held jobs are queued again:
LEMMA AbsRequeue ==
    ASSUME NEW J \in SUBSET Jobs,
           \A j \in J : /\ AbsPhase[j] = "held"
                        /\ j \in overrun \/ \A w \in Workers : AbsExec[w] # j,
           AbsPhase' = [j \in Jobs |-> IF j \in J THEN "queued" ELSE AbsPhase[j]],
           UNCHANGED <<AbsRef, AbsAttempts, AbsExec, overrun>>
    PROVE  Life!Requeue(J)
  BY DEF AbsPhase, AbsRef, AbsAttempts, AbsExec, Charged, Life!Requeue

\* The lease of a job runs out under an execution:
LEMMA AbsLoosen ==
    ASSUME NEW j \in Jobs,
           AbsPhase[j] = "held", \E w \in Workers : AbsExec[w] = j,
           overrun' = overrun \cup {j},
           UNCHANGED <<AbsTable, AbsExec>>
    PROVE  Life!Loosen(j)
  BY DEF AbsTable, AbsPhase, AbsRef, AbsAttempts, AbsExec, Charged, Life!Loosen

-----------------------------------------------------------------------------
(* What the mapping makes of the table and of the workers *)

\* The phase that each status stands for.
LEMMA Phases ==
    ASSUME NEW s \in Status
    PROVE  /\ PhaseOf(s) = "held" <=> s \in Leased
           /\ PhaseOf(s) = "queued" <=> s = "pending"
           /\ s \notin Leased \cup {"pending"} => PhaseOf(s) = s
<1> USE DEF PhaseOf, Status, Active, Settled, Leased
<1>1. CASE s \in {"claimed", "processing"}
  BY <1>1
<1>2. CASE s = "pending"
  BY <1>2
<1>3. CASE s \in {"none", "succeeded", "dead"}
  BY <1>3
<1> QED
  BY <1>1, <1>2, <1>3

\* A row that is replaced is a job that is replaced.
LEMMA TableView ==
    ASSUME TypeOK, NEW j \in Jobs, NEW row \in Row, Replaces(j, row)
    PROVE  /\ AbsPhase' = [AbsPhase EXCEPT ![j] = PhaseOf(row.status)]
           /\ AbsRef' = [AbsRef EXCEPT ![j] = row.ref]
           /\ AbsAttempts' = [AbsAttempts EXCEPT ![j] = Charged(row.attempts)]
  BY RowReplaced DEF AbsPhase, AbsRef, AbsAttempts

\* A row that keeps its reference, its attempts and the phase of its status
\* shows nothing.
LEMMA RowUnseen ==
    ASSUME TypeOK, NEW j \in Jobs, NEW row \in Row, Replaces(j, row),
           Keeps(j, row), PhaseOf(row.status) = PhaseOf(jobs[j].status)
    PROVE  UNCHANGED AbsTable
<1>1. \A i \in Jobs : /\ PhaseOf(jobs'[i].status) = PhaseOf(jobs[i].status)
                      /\ jobs'[i].ref = jobs[i].ref
                      /\ jobs'[i].attempts = jobs[i].attempts
  BY RowReplaced DEF Keeps
<1>2. UNCHANGED AbsPhase
  BY <1>1 DEF AbsPhase
<1>3. UNCHANGED <<AbsRef, AbsAttempts>>
  BY <1>1 DEF AbsRef, AbsAttempts, Charged
<1> QED
  BY <1>2, <1>3 DEF AbsTable

\* Only the table is seen of the table.
LEMMA TableUnseen ==
    ASSUME UNCHANGED jobs
    PROVE  UNCHANGED AbsTable
  BY DEF AbsTable, AbsPhase, AbsRef, AbsAttempts, Charged

\* A worker that moves shows what it executes afterwards.
LEMMA WorkerView ==
    ASSUME TypeOK, NEW w \in Workers, NEW s, NEW h,
           pc' = [pc EXCEPT ![w] = s], held' = [held EXCEPT ![w] = h]
    PROVE  AbsExec' = [AbsExec EXCEPT ![w] =
                          IF s \in Executing THEN h ELSE NoJob]
<1>1. /\ pc'[w] = s /\ held'[w] = h
      /\ \A v \in Workers \ {w} : pc'[v] = pc[v] /\ held'[v] = held[v]
  BY DEF TypeOK
<1> QED
  BY <1>1 DEF AbsExec

\* A worker that goes on with the job it executes, or that goes on without
\* executing one, shows nothing.
LEMMA WorkerUnseen ==
    ASSUME \A w \in Workers :
              /\ pc'[w] \in Executing <=> pc[w] \in Executing
              /\ pc[w] \in Executing => held'[w] = held[w]
    PROVE  UNCHANGED AbsExec
  BY DEF AbsExec

\* The phases that the statements of jobs.rs write.
LEMMA PhaseValues ==
    /\ PhaseOf("none") = "none" /\ PhaseOf("pending") = "queued"
    /\ PhaseOf("claimed") = "held" /\ PhaseOf("processing") = "held"
    /\ PhaseOf("succeeded") = "succeeded" /\ PhaseOf("dead") = "dead"
  BY Phases DEF Status, Active, Settled, Leased

\* What the mapping shows of the status of a row.
LEMMA PhaseSeen ==
    ASSUME TypeOK, NEW j \in Jobs
    PROVE  /\ AbsPhase[j] = "held" <=> jobs[j].status \in Leased
           /\ AbsPhase[j] = "queued" <=> jobs[j].status = "pending"
           /\ jobs[j].status \notin Leased \cup {"pending"}
                 => AbsPhase[j] = jobs[j].status
<1>1. jobs[j].status \in Status
  BY DEF TypeOK, Row
<1>2. AbsPhase[j] = PhaseOf(jobs[j].status)
  BY DEF AbsPhase
<1> QED
  BY <1>1, <1>2, Phases

\* What the mapping shows of a worker that executes, and of a job whose lease
\* never ran out under one.
LEMMA ExecView ==
    ASSUME IInv, NEW w \in Workers, pc[w] \in Executing
    PROVE  /\ held[w] \in Jobs /\ AbsExec[w] = held[w]
           /\ held[w] \notin overrun => /\ AbsPhase[held[w]] = "held"
                                        /\ jobs[held[w]].status \in Leased
<1>1. held[w] \in Jobs /\ AbsExec[w] = held[w]
  BY DEF IInv, TypeOK, Holding, AbsExec
<1>2. held[w] \notin overrun => jobs[held[w]].status \in Leased
  BY <1>1 DEF IInv, ExecInv, SoleExecutor, Executors
<1>3. jobs[held[w]].status \in Leased => AbsPhase[held[w]] = "held"
  BY <1>1, PhaseSeen DEF IInv
<1> QED
  BY <1>1, <1>2, <1>3

-----------------------------------------------------------------------------
(* The steps *)

\* A process that is down has no workers: what Start spawns, it spawns anew.
ProcsDown == \A w \in Workers : proc[Home[w]] = "down" => pc[w] = "down"

\* A worker that is down stays down until its process starts.
LEMMA ProcsDownStep ==
    ASSUME TypeOK, ProcsDown, [Next]_vars
    PROVE  ProcsDown'
<1> USE ConstantsAssumption DEF ProcsDown, TypeOK
<1>1. ASSUME NEW v \in Workers, Advance(v)
      PROVE  /\ proc' = proc /\ pc[v] # "down"
             /\ \A w \in Workers \ {v} : pc'[w] = pc[w]
  BY <1>1
     DEF Advance, Poll, WorkerStop, ClaimSelect, ClaimNone, ClaimCommit,
         MarkRunning, RecordStarted, FinishOk, FinishErr, Complete,
         RecordSucceeded, FailRead, FailWrite, RecordFailed, Panic, Goto, Drop
<1>2. ASSUME NEW v \in Workers, Sweep(v) \/ Heartbeat(v) \/ Abandon(v)
      PROVE  /\ proc' = proc /\ pc[v] # "down"
             /\ \A w \in Workers \ {v} : pc'[w] = pc[w]
  BY <1>2 DEF Sweep, Heartbeat, Abandon, Holding, Executing, Goto, Drop,
              workerVars
<1>3. ASSUME NEW p \in Procs, Start(p) \/ Shutdown(p) \/ Exit(p) \/ Crash(p)
      PROVE  ProcsDown'
  BY <1>3 DEF Start, Shutdown, Exit, Crash, KillWorkers, workerVars
<1>4. CASE UNCHANGED <<proc, pc>>
  BY <1>4
<1>5. \/ \E v \in Workers : Advance(v) \/ Sweep(v) \/ Heartbeat(v) \/ Abandon(v)
      \/ \E p \in Procs : Start(p) \/ Shutdown(p) \/ Exit(p) \/ Crash(p)
      \/ UNCHANGED <<proc, pc>>
  BY DEF Next, Enqueue, LeaseExpires, LeaseOverrun, BackoffElapses, workerVars,
         vars
<1> QED
  BY <1>1, <1>2, <1>3, <1>4, <1>5

\* A step of JobQueue, seen through the mapping.
LifeStep == [Life!LifeNext]_(Life!lifeVars)

\* enqueue_job submits.
LEMMA EnqueueRefines ==
    ASSUME IInv, NEW r \in Refs, NEW j \in Jobs, Enqueue(r, j)
    PROVE  LifeStep
<1>1. TypeOK /\ FreshRows
  BY DEF IInv, TableInv
<1>2. PICK row \in Row :
        /\ Replaces(j, row) /\ row.ref = r /\ row.attempts = 0
        /\ row.status = "pending"
        /\ jobs[j].status = "none" /\ ~ActiveSibling(j, r)
  BY <1>1, EnqueueEffect
<1>3. /\ AbsPhase' = [AbsPhase EXCEPT ![j] = "queued"]
      /\ AbsRef' = [AbsRef EXCEPT ![j] = r]
  BY <1>1, <1>2, TableView DEF PhaseOf, Leased
<1>4. UNCHANGED AbsAttempts
  <2>1. \A i \in Jobs : jobs'[i].attempts = jobs[i].attempts
    BY <1>1, <1>2, RowReplaced DEF FreshRows
  <2> QED
    BY <2>1 DEF AbsAttempts, Charged
<1>5. UNCHANGED <<AbsExec, overrun>>
  BY WorkerUnseen DEF Enqueue, workerVars, ghostVars
<1>6. AbsPhase[j] = "none"
  BY <1>1, <1>2, PhaseSeen DEF Leased
<1>7. \A i \in Jobs : AbsPhase[i] \in {"queued", "held"} => AbsRef[i] # r
  <2>1. \A i \in Jobs : jobs[i].status \in Active => jobs[i].ref # r
    BY <1>2 DEF ActiveSibling, Active
  <2>2. \A i \in Jobs :
           AbsPhase[i] \in {"queued", "held"} => jobs[i].status \in Active
    BY <1>1, PhaseSeen DEF Leased, Active
  <2> QED
    BY <2>1, <2>2 DEF AbsRef
<1> QED
  BY <1>3, <1>4, <1>5, <1>6, <1>7, AbsSubmit DEF LifeStep, Life!LifeNext

\* The second statement of claim_next_job begins an execution.
LEMMA ClaimRefines ==
    ASSUME IInv, NEW w \in Workers, ClaimCommit(w)
    PROVE  LifeStep
<1> DEFINE j == held[w]
<1>1. TypeOK /\ j \in Jobs /\ overrun' = overrun /\ pc[w] = "locking"
  BY ClaimCommitEffect DEF IInv, ClaimCommit, ghostVars
<1>2. CASE UNCHANGED jobs
  <2>1. UNCHANGED AbsExec
    <3>1. pc'[w] \notin Executing \/ UNCHANGED jobs
      BY <1>2
    <3> QED
      BY <1>1, <1>2, ClaimCommitEffect, RowReplaced, WorkerUnseen
         DEF TypeOK, Executing
  <2> QED
    BY <1>1, <1>2, <2>1, TableUnseen, AbsStutter DEF LifeStep
<1>3. ASSUME NEW row \in Row, Replaces(j, row), Keeps(j, row),
             row.status = "claimed", jobs[j].status = "pending",
             pc' = [pc EXCEPT ![w] = "claimed"], held' = held
      PROVE  LifeStep
  <2>1. /\ AbsPhase' = [AbsPhase EXCEPT ![j] = "held"]
        /\ UNCHANGED <<AbsRef, AbsAttempts>>
    <3>1. AbsPhase' = [AbsPhase EXCEPT ![j] = "held"]
      BY <1>1, <1>3, TableView DEF PhaseOf, Leased
    <3>2. \A i \in Jobs : /\ jobs'[i].ref = jobs[i].ref
                          /\ jobs'[i].attempts = jobs[i].attempts
      BY <1>1, <1>3, RowReplaced DEF Keeps
    <3> QED
      BY <3>1, <3>2 DEF AbsRef, AbsAttempts, Charged
  <2>2. AbsExec' = [AbsExec EXCEPT ![w] = j] /\ AbsExec[w] = NoJob
    <3>1. held' = [held EXCEPT ![w] = j]
      BY <1>1, <1>3 DEF TypeOK
    <3>2. AbsExec' = [AbsExec EXCEPT ![w] = IF "claimed" \in Executing
                                            THEN j ELSE NoJob]
      BY <1>1, <1>3, <3>1, WorkerView
    <3> QED
      BY <1>1, <3>2 DEF AbsExec, Executing
  <2>3. AbsPhase[j] = "queued"
    BY <1>1, <1>3, PhaseSeen
  <2>4. j \in overrun \/ \A v \in Workers : AbsExec[v] # j
    <3>1. j \in overrun \/ \A v \in Workers : pc[v] \in Executing => held[v] # j
      BY <1>1, <1>3 DEF IInv, ExecInv, SoleExecutor, Executors, Leased
    <3>2. j # NoJob
      BY <1>1, ConstantsAssumption
    <3> QED
      BY <3>1, <3>2 DEF AbsExec
  <2> QED
    BY <1>1, <2>1, <2>2, <2>3, <2>4, AbsBegin DEF LifeStep, Life!LifeNext
<1> QED
  BY <1>1, <1>2, <1>3, ClaimCommitEffect

\* complete_job ends an execution well.
LEMMA CompleteRefines ==
    ASSUME IInv, NEW w \in Workers, Complete(w)
    PROVE  LifeStep
<1> DEFINE j == held[w]
<1>1. /\ TypeOK /\ overrun' = overrun /\ pc[w] = "done"
      /\ pc' = [pc EXCEPT ![w] = "logOk"] /\ held' = held
  BY DEF IInv, Complete, Goto, ghostVars
<1>2. /\ j \in Jobs /\ AbsExec[w] = j
      /\ AbsPhase[j] = "held" \/ j \in overrun
  BY <1>1, ExecView DEF Executing
<1>3. AbsExec' = [AbsExec EXCEPT ![w] = NoJob]
  <2>1. held' = [held EXCEPT ![w] = j]
    BY <1>1 DEF TypeOK
  <2> QED
    BY <1>1, <2>1, WorkerView DEF Executing
<1>4. AbsPhase[j] = "held" <=> jobs[j].status \in Leased
  BY <1>1, <1>2, PhaseSeen
<1>5. /\ AbsPhase' = IF AbsPhase[j] = "held"
                     THEN [AbsPhase EXCEPT ![j] = "succeeded"] ELSE AbsPhase
      /\ UNCHANGED <<AbsRef, AbsAttempts>>
  <2>1. CASE jobs[j].status \notin Leased
    BY <1>4, <2>1, TableUnseen DEF Complete, AbsTable
  <2>2. CASE jobs[j].status \in Leased
    <3>1. jobs' = [jobs EXCEPT ![j] = Move(jobs[j], "succeeded", "null")]
      BY <2>2 DEF Complete
    <3>2. jobs[j] \in Row
      BY <1>1, <1>2 DEF TypeOK
    <3>3. \A i \in Jobs : /\ jobs'[i].ref = jobs[i].ref
                          /\ jobs'[i].attempts = jobs[i].attempts
                          /\ jobs'[i].status = IF i = j THEN "succeeded"
                                               ELSE jobs[i].status
      BY <1>1, <3>1, <3>2 DEF Move, Row, TypeOK
    <3>4. AbsPhase' = [AbsPhase EXCEPT ![j] = "succeeded"]
      <4>1. \A i \in Jobs : AbsPhase'[i] = IF i = j THEN "succeeded"
                                           ELSE AbsPhase[i]
        BY <3>3, PhaseValues DEF AbsPhase
      <4> QED
        BY <4>1 DEF AbsPhase
    <3> QED
      BY <1>4, <2>2, <3>3, <3>4 DEF AbsRef, AbsAttempts, Charged
  <2> QED
    BY <2>1, <2>2
<1> QED
  BY <1>1, <1>2, <1>3, <1>5, AbsSucceed DEF LifeStep, Life!LifeNext

\* fail_job ends an execution badly.
LEMMA FailRefines ==
    ASSUME IInv, NEW w \in Workers, FailWrite(w)
    PROVE  LifeStep
<1> DEFINE j == held[w]
<1>1. /\ TypeOK /\ overrun' = overrun /\ pc[w] = "deciding"
      /\ seen[w] \in Nat /\ MaxAttempts \in Nat \ {0}
  BY ConstantsAssumption DEF IInv, FailWrite, ghostVars, TypeOK
<1>2. /\ j \in Jobs /\ AbsExec[w] = j
      /\ j \notin overrun => /\ AbsPhase[j] = "held"
                             /\ jobs[j].status \in Leased
  BY <1>1, ExecView DEF Executing
<1>3. AbsExec' = [AbsExec EXCEPT ![w] = NoJob]
  <2>1. held' = [held EXCEPT ![w] = j] \/ held' = [held EXCEPT ![w] = NoJob]
    BY <1>1, FailWriteEffect DEF TypeOK
  <2>2. \/ pc' = [pc EXCEPT ![w] = "logErr"]
        \/ pc' = [pc EXCEPT ![w] = "idle"]
    BY <1>1, FailWriteEffect
  <2> QED
    BY <1>1, <2>1, <2>2, WorkerView DEF Executing
<1>4. CASE j \notin overrun
  <2>1. ~ActiveSibling(j, jobs[j].ref)
    BY <1>2, <1>4 DEF IInv, TableInv, ActiveUnique, ActiveSibling, Leased, Active
  <2>2. pc' = [pc EXCEPT ![w] = "logErr"] /\ pc'[w] # "idle"
    BY <1>1, <2>1 DEF FailWrite, Goto, TypeOK
  <2>3. PICK row \in Row :
          /\ Replaces(j, row)
          /\ row.ref = jobs[j].ref /\ row.attempts = seen[w] + 1
          /\ row.status = IF seen[w] + 1 >= MaxAttempts
                          THEN "dead" ELSE "pending"
    BY <1>1, <2>2, FailWriteEffect DEF TypeOK
  <2>4. seen[w] = jobs[j].attempts /\ seen[w] < MaxAttempts
    <3>1. seen[w] = jobs[j].attempts
      BY <1>1, <1>4 DEF IInv, ExecInv, SeenCurrent
    <3>2. jobs[j].attempts <= MaxAttempts /\ jobs[j].attempts # MaxAttempts
      BY <1>2, <1>4 DEF IInv, ExecInv, BudgetExact, Leased
    <3> QED
      BY <1>1, <3>1, <3>2
  <2>5. AbsAttempts[j] = seen[w] /\ AbsAttempts'[j] = seen[w] + 1
    BY <1>1, <1>2, <2>3, <2>4, RowReplaced DEF AbsAttempts, Charged
  <2>6. AbsAttempts' = [AbsAttempts EXCEPT ![j] = @ + 1]
    <3>1. AbsAttempts' = [AbsAttempts EXCEPT ![j] = Charged(seen[w] + 1)]
      BY <1>1, <1>2, <2>3, TableView
    <3>2. Charged(seen[w] + 1) = AbsAttempts[j] + 1
      BY <1>1, <2>4, <2>5 DEF Charged
    <3> HIDE DEF j
    <3> QED
      BY <3>1, <3>2
  <2>7. AbsPhase' = [AbsPhase EXCEPT ![j] =
                       IF AbsAttempts'[j] = MaxAttempts
                       THEN "dead" ELSE "queued"]
    BY <1>1, <1>2, <2>3, <2>4, <2>5, TableView, PhaseValues
  <2>8. UNCHANGED AbsRef
    BY <1>1, <1>2, <2>3, TableView DEF AbsRef
  <2> QED
    BY <1>1, <1>2, <1>3, <1>4, <2>6, <2>7, <2>8, AbsFail
       DEF LifeStep, Life!LifeNext
<1>5. CASE j \in overrun
  <2>1. UNCHANGED AbsRef
    <3>1. \A i \in Jobs : jobs'[i].ref = jobs[i].ref
      BY <1>1, <1>2, FailWriteEffect, RowReplaced
    <3> QED
      BY <3>1 DEF AbsRef
  <2>2. \/ UNCHANGED <<AbsPhase, AbsAttempts>>
        \/ /\ \A i \in Jobs \ {j} :
                 AbsPhase[i] \in {"queued", "held"} => AbsRef[i] # AbsRef[j]
           /\ AbsPhase' = [AbsPhase EXCEPT ![j] = "queued"]
           /\ \E n \in 1 .. MaxAttempts - 1 :
                 AbsAttempts' = [AbsAttempts EXCEPT ![j] = n]
        \/ /\ AbsPhase' = [AbsPhase EXCEPT ![j] = "dead"]
           /\ AbsAttempts' = [AbsAttempts EXCEPT ![j] = MaxAttempts]
    <3>1. CASE UNCHANGED jobs
      BY <3>1, TableUnseen DEF AbsTable
    <3>2. ASSUME NEW row \in Row, Replaces(j, row), row.attempts = seen[w] + 1
          PROVE  /\ AbsPhase' = [AbsPhase EXCEPT ![j] = PhaseOf(row.status)]
                 /\ AbsAttempts' = [AbsAttempts EXCEPT ![j] =
                                      Charged(seen[w] + 1)]
      BY <1>1, <1>2, <3>2, TableView
    <3>3. seen[w] + 1 >= MaxAttempts => Charged(seen[w] + 1) = MaxAttempts
      BY <1>1 DEF Charged
    <3>4. ~(seen[w] + 1 >= MaxAttempts)
             => Charged(seen[w] + 1) \in 1 .. MaxAttempts - 1
      BY <1>1 DEF Charged
    <3>5. ~ActiveSibling(j, jobs[j].ref) =>
             \A i \in Jobs \ {j} :
                AbsPhase[i] \in {"queued", "held"} => AbsRef[i] # AbsRef[j]
      <4>1. \A i \in Jobs :
               AbsPhase[i] \in {"queued", "held"} => jobs[i].status \in Active
        BY <1>1, PhaseSeen DEF Leased, Active
      <4> QED
        BY <1>2, <4>1 DEF ActiveSibling, AbsRef
    <3> QED
      BY <1>1, <3>1, <3>2, <3>3, <3>4, <3>5, FailWriteEffect, PhaseValues
  <2> QED
    BY <1>1, <1>2, <1>3, <1>5, <2>1, <2>2, AbsFailLoose
       DEF LifeStep, Life!LifeNext
<1> QED
  BY <1>4, <1>5

\* The rows that a sweep returns to the queue are held, and executed by nobody
\* unless their lease ran out under a worker: their jobs are queued again.
LEMMA ResetRefines ==
    ASSUME IInv, ResetStale, UNCHANGED <<AbsExec, overrun>>
    PROVE  LifeStep
<1> DEFINE J == {j \in Jobs : /\ jobs[j].status \in Leased
                              /\ jobs[j].lease = "expired"}
<1>1. TypeOK
  BY DEF IInv
<1>2. ASSUME NEW j \in J
      PROVE  /\ AbsPhase[j] = "held"
             /\ j \in overrun \/ \A w \in Workers : AbsExec[w] # j
  <2>1. AbsPhase[j] = "held"
    BY <1>1, PhaseSeen
  <2>2. j \in overrun \/ \A w \in Workers : pc[w] \in Executing => held[w] # j
    BY DEF IInv, ExecInv, SoleExecutor, Executors
  <2>3. j # NoJob
    BY ConstantsAssumption
  <2> QED
    BY <2>1, <2>2, <2>3 DEF AbsExec
<1>3. \A j \in Jobs : /\ jobs'[j].status = IF j \in J THEN "pending"
                                           ELSE jobs[j].status
                      /\ jobs'[j].ref = jobs[j].ref
                      /\ jobs'[j].attempts = jobs[j].attempts
  <2>1. \A j \in Jobs : jobs[j] \in Row
    BY <1>1 DEF TypeOK
  <2> QED
    BY <2>1 DEF ResetStale, Move, Row
<1>4. AbsPhase' = [j \in Jobs |-> IF j \in J THEN "queued" ELSE AbsPhase[j]]
  <2>1. \A j \in Jobs : PhaseOf(jobs'[j].status) =
                           IF j \in J THEN "queued" ELSE PhaseOf(jobs[j].status)
    BY <1>3, PhaseValues
  <2> HIDE DEF J
  <2> QED
    BY <2>1 DEF AbsPhase
<1>5. UNCHANGED <<AbsRef, AbsAttempts>>
  BY <1>3 DEF AbsRef, AbsAttempts, Charged
<1>6. J \in SUBSET Jobs
  OBVIOUS
<1> HIDE DEF J
<1>7. Life!Requeue(J)
  BY <1>2, <1>4, <1>5, <1>6, AbsRequeue
<1> QED
  BY <1>6, <1>7 DEF LifeStep, Life!LifeNext

\* A panic or a failed statement loses the execution of one worker.
LEMMA WorkerLostRefines ==
    ASSUME IInv, NEW w \in Workers, Panic(w) \/ Abandon(w)
    PROVE  LifeStep
<1>1. TypeOK /\ UNCHANGED jobs /\ overrun' = overrun
  BY DEF IInv, Panic, Abandon, ghostVars, tableVars
<1>2. /\ pc' = [pc EXCEPT ![w] = "idle"] \/ pc' = [pc EXCEPT ![w] = "panicked"]
      /\ held' = [held EXCEPT ![w] = NoJob]
  BY DEF Panic, Abandon, Drop, Goto
<1>3. AbsExec' = [AbsExec EXCEPT ![w] = NoJob]
  BY <1>1, <1>2, WorkerView DEF Executing
<1>4. AbsExec' = [v \in Workers |-> IF v \in {w} THEN NoJob ELSE AbsExec[v]]
  BY <1>3 DEF AbsExec
<1>5. {w} \in SUBSET Workers
  OBVIOUS
<1> QED
  BY <1>1, <1>4, <1>5, TableUnseen, AbsLose DEF LifeStep, Life!LifeNext

\* The end of a process loses the executions of its workers.
LEMMA ProcessLostRefines ==
    ASSUME NEW p \in Procs, Exit(p) \/ Crash(p)
    PROVE  LifeStep
<1> DEFINE W == {w \in Workers : Home[w] = p}
<1>1. UNCHANGED jobs /\ overrun' = overrun /\ KillWorkers(p)
  BY DEF Exit, Crash, ghostVars, tableVars
<1>2. AbsExec' = [w \in Workers |-> IF w \in W THEN NoJob ELSE AbsExec[w]]
  BY <1>1 DEF KillWorkers, AbsExec, Executing
<1>3. W \in SUBSET Workers
  OBVIOUS
<1> HIDE DEF W
<1> QED
  BY <1>1, <1>2, <1>3, TableUnseen, AbsLose DEF LifeStep, Life!LifeNext

\* A lease that runs out under a worker makes the job loose.
LEMMA OverrunRefines ==
    ASSUME IInv, NEW j \in Jobs, LeaseOverrun(j)
    PROVE  LifeStep
<1>1. TypeOK /\ overrun' = overrun \cup {j} /\ UNCHANGED AbsExec
  BY WorkerUnseen DEF IInv, LeaseOverrun, workerVars
<1>2. PICK row \in Row :
        /\ Replaces(j, row) /\ Keeps(j, row)
        /\ row.status = jobs[j].status /\ jobs[j].lease = "live"
  BY <1>1, ExpiryEffect
<1>3. UNCHANGED AbsTable
  BY <1>1, <1>2, RowUnseen
<1>4. AbsPhase[j] = "held"
  BY <1>1, <1>2, PhaseSeen DEF IInv, TableInv, LeaseIffHeld
<1>5. \E w \in Workers : AbsExec[w] = j
  BY DEF LeaseOverrun, Executors, AbsExec
<1> QED
  BY <1>1, <1>3, <1>4, <1>5, AbsLoosen DEF LifeStep, Life!LifeNext

\* A process that starts sweeps, or does nothing that shows: its workers were
\* down.
LEMMA StartRefines ==
    ASSUME IInv, ProcsDown, NEW p \in Procs, Start(p)
    PROVE  LifeStep
<1>1. UNCHANGED <<AbsExec, overrun>>
  BY WorkerUnseen DEF Start, ProcsDown, IInv, TypeOK, Executing
<1>2. ResetStale \/ UNCHANGED jobs
  BY DEF Start
<1> QED
  BY <1>1, <1>2, ResetRefines, TableUnseen, AbsStutter DEF LifeStep

\* The other steps of a worker do not show: they change what the mapping
\* leaves out (row locks, places, events, leases).
LEMMA WorkerQuietRefines ==
    ASSUME IInv, NEW w \in Workers,
           \/ Poll(w) \/ WorkerStop(w) \/ (\E j \in Jobs : ClaimSelect(w, j))
           \/ ClaimNone(w) \/ MarkRunning(w) \/ RecordStarted(w)
           \/ FinishOk(w) \/ FinishErr(w) \/ RecordSucceeded(w)
           \/ FailRead(w) \/ RecordFailed(w) \/ Heartbeat(w)
    PROVE  LifeStep
<1>1. TypeOK
  BY DEF IInv
<1>2. UNCHANGED <<AbsExec, overrun>>
  <2>1. \A v \in Workers :
           /\ pc'[v] \in Executing <=> pc[v] \in Executing
           /\ pc[v] \in Executing => held'[v] = held[v]
    BY <1>1
       DEF Poll, WorkerStop, ClaimSelect, ClaimNone, MarkRunning, RecordStarted,
           FinishOk, FinishErr, RecordSucceeded, FailRead, RecordFailed,
           Heartbeat, Goto, Drop, TypeOK, Executing, workerVars
  <2>2. UNCHANGED overrun
    BY DEF Poll, WorkerStop, ClaimSelect, ClaimNone, MarkRunning, RecordStarted,
           FinishOk, FinishErr, RecordSucceeded, FailRead, RecordFailed,
           Heartbeat, ghostVars
  <2> QED
    BY <2>1, <2>2, WorkerUnseen
<1>3. UNCHANGED AbsTable
  <2>1. CASE UNCHANGED jobs
    BY <2>1, TableUnseen
  <2>2. CASE MarkRunning(w) /\ ~UNCHANGED jobs
    BY <1>1, <2>2, MarkRunningEffect, RowUnseen, PhaseValues DEF Replaces
  <2>3. CASE Heartbeat(w)
    BY <1>1, <2>3, HeartbeatEffect, RowUnseen DEF Replaces
  <2> QED
    BY <2>1, <2>2, <2>3
       DEF Poll, WorkerStop, ClaimSelect, ClaimNone, RecordStarted, FinishOk,
           FinishErr, RecordSucceeded, FailRead, RecordFailed, tableVars
<1> QED
  BY <1>2, <1>3, AbsStutter DEF LifeStep

\* The passing of time and a shutdown do not show.
LEMMA QuietRefines ==
    ASSUME IInv,
           \/ \E j \in Jobs : LeaseExpires(j) \/ BackoffElapses(j)
           \/ \E p \in Procs : Shutdown(p)
           \/ UNCHANGED vars
    PROVE  LifeStep
<1>1. TypeOK
  BY DEF IInv
<1>2. UNCHANGED <<AbsExec, overrun>>
  BY WorkerUnseen
     DEF LeaseExpires, BackoffElapses, Shutdown, workerVars, ghostVars, vars
<1>3. ASSUME NEW j \in Jobs, LeaseExpires(j) \/ BackoffElapses(j)
      PROVE  UNCHANGED AbsTable
  BY <1>1, <1>3, ExpiryEffect, BackoffEffect, RowUnseen
<1>4. (\E p \in Procs : Shutdown(p)) \/ UNCHANGED vars => UNCHANGED AbsTable
  BY TableUnseen DEF Shutdown, vars, tableVars
<1> QED
  BY <1>2, <1>3, <1>4, AbsStutter DEF LifeStep

\* Every step of JobQueue is a step of JobLifecycle, or none.
LEMMA StepRefines ==
    ASSUME IInv, ProcsDown, [Next]_vars
    PROVE  LifeStep
<1>1. ASSUME NEW r \in Refs, NEW j \in Jobs, Enqueue(r, j)
      PROVE  LifeStep
  BY <1>1, EnqueueRefines
<1>2. ASSUME NEW w \in Workers, Advance(w)
      PROVE  LifeStep
  BY <1>2, ClaimRefines, CompleteRefines, FailRefines, WorkerLostRefines,
     WorkerQuietRefines DEF Advance
<1>3. ASSUME NEW w \in Workers, Sweep(w)
      PROVE  LifeStep
  BY <1>3, ResetRefines, WorkerUnseen DEF Sweep, workerVars, ghostVars
<1>4. ASSUME NEW w \in Workers, Heartbeat(w) \/ Abandon(w)
      PROVE  LifeStep
  BY <1>4, WorkerQuietRefines, WorkerLostRefines
<1>5. ASSUME NEW j \in Jobs,
             LeaseExpires(j) \/ LeaseOverrun(j) \/ BackoffElapses(j)
      PROVE  LifeStep
  BY <1>5, OverrunRefines, QuietRefines
<1>6. ASSUME NEW p \in Procs, Start(p) \/ Shutdown(p) \/ Exit(p) \/ Crash(p)
      PROVE  LifeStep
  BY <1>6, StartRefines, ProcessLostRefines, QuietRefines
<1>7. CASE UNCHANGED vars
  BY <1>7, QuietRefines
<1> QED
  BY <1>1, <1>2, <1>3, <1>4, <1>5, <1>6, <1>7 DEF Next

-----------------------------------------------------------------------------
(* The theorem *)

\* The empty table, with nobody at work, is the beginning of JobLifecycle.
LEMMA InitRefines == Init => Life!LifeInit
<1> SUFFICES ASSUME Init
             PROVE  Life!LifeInit
  OBVIOUS
<1>1. AbsPhase = [j \in Jobs |-> "none"]
  BY PhaseValues DEF AbsPhase, Init, NoRow
<1>2. /\ AbsRef = [j \in Jobs |-> NoRef]
      /\ AbsAttempts = [j \in Jobs |-> 0]
      /\ AbsExec = [w \in Workers |-> NoJob]
      /\ overrun = {}
  BY ConstantsAssumption
     DEF AbsRef, AbsAttempts, AbsExec, Charged, Init, NoRow, Executing
<1> QED
  BY <1>1, <1>2
     DEF Life!LifeInit, AbsPhase, AbsRef, AbsAttempts, AbsExec, Charged

\* The table, its statements, the workers and the processes keep the promise
\* of JobLifecycle to whoever submits jobs: with any number of workers and
\* processes, through crashes, failed statements and leases that run out.
THEOREM QueueImplementsLifecycle == Spec => ImplementsLifecycle
<1>1. Init => IInv /\ ProcsDown
  BY InitIInv DEF Init, ProcsDown
<1>2. IInv /\ ProcsDown /\ [Next]_vars => (IInv /\ ProcsDown)'
  BY NextIInv, ProcsDownStep DEF IInv
<1>3. IInv /\ ProcsDown /\ [Next]_vars => [Life!LifeNext]_(Life!lifeVars)
  BY StepRefines DEF LifeStep
<1> QED
  BY <1>1, <1>2, <1>3, InitRefines, PTL DEF Spec, ImplementsLifecycle, Life!LifeSpec
=============================================================================
