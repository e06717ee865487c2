--------------------------- MODULE JobQueueProofs ---------------------------
(***************************************************************************)
(* Proofs about JobQueue for every number of workers, processes, rows and  *)
(* references, every retry budget and every number of faults.              *)
(***************************************************************************)
EXTENDS JobQueue, TLAPS

-----------------------------------------------------------------------------
(* What each action does to the table: the row it touches, and the fields  *)
(* of the row it writes that the invariants speak of.                      *)

\* `row' takes the place of row j.
Replaces(j, row) == j \in Jobs /\ row \in Row /\ jobs' = [jobs EXCEPT ![j] = row]

\* `row' keeps the identity and the attempts of row j.
Keeps(j, row) == row.ref = jobs[j].ref /\ row.attempts = jobs[j].attempts

\* A worker that holds a job has a row of the table in hand.
LEMMA HeldRow ==
    ASSUME TypeOK, NEW w \in Workers, pc[w] \in Holding
    PROVE  held[w] \in Jobs /\ jobs[held[w]] \in Row
  BY DEF TypeOK

\* What enqueue_job's INSERT does to the table: one row, pending, active alone.
LEMMA EnqueueEffect ==
    ASSUME TypeOK, NEW r \in Refs, NEW j \in Jobs, Enqueue(r, j)
    PROVE  /\ clock' \in Nat
           /\ jobs[j].status = "none" /\ ~ActiveSibling(j, r)
           /\ \E row \in Row :
                /\ Replaces(j, row)
                /\ row.ref = r /\ row.attempts = 0
                /\ row.status = "pending" /\ row.lease = "null"
<1> DEFINE row == NewRow(r, clock')
<1>1. clock' \in Nat
  BY DEF Enqueue, TypeOK
<1>2. /\ row \in Row /\ row.ref = r /\ row.attempts = 0
      /\ row.status = "pending" /\ row.lease = "null"
  BY <1>1 DEF NewRow, Row, Status, Active, Lease
<1>3. /\ jobs' = [jobs EXCEPT ![j] = row]
      /\ jobs[j].status = "none" /\ ~ActiveSibling(j, r)
  BY DEF Enqueue
<1> HIDE DEF row
<1> QED
  BY <1>1, <1>2, <1>3 DEF Replaces

\* What the UPDATE of claim_next_job does: nothing, or its row gets a lease.
LEMMA ClaimCommitEffect ==
    ASSUME TypeOK, NEW w \in Workers, ClaimCommit(w)
    PROVE  /\ held[w] \in Jobs
           /\ \/ /\ jobs[held[w]].status = "pending"
                 /\ \E row \in Row :
                      /\ Replaces(held[w], row) /\ Keeps(held[w], row)
                      /\ row.status = "claimed" /\ row.lease = "live"
                 /\ pc' = [pc EXCEPT ![w] = "claimed"]
                 /\ held' = held
              \/ /\ UNCHANGED jobs
                 /\ pc' = [pc EXCEPT ![w] = "idle"]
                 /\ held' = [held EXCEPT ![w] = NoJob]
<1> DEFINE row == Move(jobs[held[w]], "claimed", "live")
<1>1. held[w] \in Jobs /\ jobs[held[w]] \in Row
  BY HeldRow DEF ClaimCommit, Holding
<1>2. /\ row \in Row /\ row.status = "claimed" /\ row.lease = "live"
      /\ row.ref = jobs[held[w]].ref
      /\ row.attempts = jobs[held[w]].attempts
  BY <1>1 DEF Move, Row, Status, Active, Lease
<1>3. \/ /\ jobs[held[w]].status = "pending"
         /\ jobs' = [jobs EXCEPT ![held[w]] = row]
         /\ pc' = [pc EXCEPT ![w] = "claimed"]
         /\ held' = held
      \/ /\ UNCHANGED jobs
         /\ pc' = [pc EXCEPT ![w] = "idle"]
         /\ held' = [held EXCEPT ![w] = NoJob]
  BY DEF ClaimCommit, Goto, Drop
<1> HIDE DEF row
<1> QED
  BY <1>1, <1>2, <1>3 DEF Replaces, Keeps

\* What mark_running does: a claimed row is processing under a fresh lease.
LEMMA MarkRunningEffect ==
    ASSUME TypeOK, NEW w \in Workers, MarkRunning(w)
    PROVE  \/ /\ jobs[held[w]].status = "claimed"
              /\ \E row \in Row :
                   /\ Replaces(held[w], row) /\ Keeps(held[w], row)
                   /\ row.status = "processing" /\ row.lease = "live"
           \/ UNCHANGED jobs
<1> DEFINE row == Move(jobs[held[w]], "processing", "live")
<1>1. held[w] \in Jobs /\ jobs[held[w]] \in Row
  BY HeldRow DEF MarkRunning, Holding, Executing
<1>2. /\ row \in Row /\ row.status = "processing" /\ row.lease = "live"
      /\ row.ref = jobs[held[w]].ref
      /\ row.attempts = jobs[held[w]].attempts
  BY <1>1 DEF Move, Row, Status, Active, Lease
<1>3. \/ /\ jobs[held[w]].status = "claimed"
         /\ jobs' = [jobs EXCEPT ![held[w]] = row]
      \/ UNCHANGED jobs
  BY DEF MarkRunning
<1> HIDE DEF row
<1> QED
  BY <1>1, <1>2, <1>3 DEF Replaces, Keeps

\* What complete_job does: a held row succeeds and loses its lease.
LEMMA CompleteEffect ==
    ASSUME TypeOK, NEW w \in Workers, Complete(w)
    PROVE  \/ /\ jobs[held[w]].status \in Leased
              /\ \E row \in Row :
                   /\ Replaces(held[w], row) /\ Keeps(held[w], row)
                   /\ row.status = "succeeded" /\ row.lease = "null"
           \/ UNCHANGED jobs
<1> DEFINE row == Move(jobs[held[w]], "succeeded", "null")
<1>1. held[w] \in Jobs /\ jobs[held[w]] \in Row
  BY HeldRow DEF Complete, Holding, Executing
<1>2. /\ row \in Row /\ row.status = "succeeded" /\ row.lease = "null"
      /\ row.ref = jobs[held[w]].ref
      /\ row.attempts = jobs[held[w]].attempts
  BY <1>1 DEF Move, Row, Status, Settled, Lease
<1>3. \/ /\ jobs[held[w]].status \in Leased
         /\ jobs' = [jobs EXCEPT ![held[w]] = row]
      \/ UNCHANGED jobs
  BY DEF Complete
<1> HIDE DEF row
<1> QED
  BY <1>1, <1>2, <1>3 DEF Replaces, Keeps

\* What heartbeat_job does: the lease of a processing row is live again.
LEMMA HeartbeatEffect ==
    ASSUME TypeOK, NEW w \in Workers, Heartbeat(w)
    PROVE  \E row \in Row :
             /\ Replaces(held[w], row) /\ Keeps(held[w], row)
             /\ jobs[held[w]].status = "processing"
             /\ row.status = "processing" /\ row.lease = "live"
<1> DEFINE row == WithLease(jobs[held[w]], "live")
<1>1. held[w] \in Jobs /\ jobs[held[w]] \in Row
  BY HeldRow DEF Heartbeat, Holding, Executing
<1>2. /\ row \in Row /\ row.status = jobs[held[w]].status
      /\ row.lease = "live"
      /\ row.ref = jobs[held[w]].ref
      /\ row.attempts = jobs[held[w]].attempts
  BY <1>1 DEF WithLease, Row, Lease
<1>3. /\ jobs[held[w]].status = "processing"
      /\ jobs' = [jobs EXCEPT ![held[w]] = row]
  BY DEF Heartbeat
<1> HIDE DEF row
<1> QED
  BY <1>1, <1>2, <1>3 DEF Replaces, Keeps

\* What fail_job's UPDATE does: the row dies, is queued again, or is refused.
LEMMA FailWriteEffect ==
    ASSUME TypeOK, NEW w \in Workers, FailWrite(w)
    PROVE  /\ held[w] \in Jobs
           /\ \/ /\ UNCHANGED jobs
                 /\ pc' = [pc EXCEPT ![w] = "idle"]
                 /\ held' = [held EXCEPT ![w] = NoJob]
              \/ /\ \E row \in Row :
                      /\ Replaces(held[w], row)
                      /\ row.ref = jobs[held[w]].ref
                      /\ row.attempts = seen[w] + 1
                      /\ row.lease = "null"
                      /\ \/ /\ row.status = "dead"
                            /\ seen[w] + 1 >= MaxAttempts
                         \/ /\ row.status = "pending"
                            /\ ~(seen[w] + 1 >= MaxAttempts)
                            /\ ~ActiveSibling(held[w], row.ref)
                 /\ pc' = [pc EXCEPT ![w] = "logErr"]
                 /\ held' = held
<1> DEFINE dead == Die(jobs[held[w]], seen[w] + 1)
           again == Retry(jobs[held[w]], seen[w] + 1)
           dies == seen[w] + 1 >= MaxAttempts
<1>1. held[w] \in Jobs /\ jobs[held[w]] \in Row
  BY HeldRow DEF FailWrite, Holding, Executing
<1>2. seen[w] + 1 \in Nat
  BY DEF TypeOK
<1>3. /\ dead \in Row /\ dead.status = "dead" /\ dead.lease = "null"
      /\ dead.ref = jobs[held[w]].ref /\ dead.attempts = seen[w] + 1
  BY <1>1, <1>2 DEF Die, Row, Status, Settled, Lease
<1>4. /\ again \in Row /\ again.status = "pending" /\ again.lease = "null"
      /\ again.ref = jobs[held[w]].ref /\ again.attempts = seen[w] + 1
  BY <1>1, <1>2 DEF Retry, Row, Status, Active, Lease
<1>5. CASE ~dies /\ ActiveSibling(held[w], jobs[held[w]].ref)
  BY <1>1, <1>5 DEF FailWrite, Drop, Goto
<1>6. CASE dies
  <2>1. /\ jobs' = [jobs EXCEPT ![held[w]] = dead]
        /\ pc' = [pc EXCEPT ![w] = "logErr"]
        /\ held' = held
    BY <1>6 DEF FailWrite, Goto
  <2> HIDE DEF dead
  <2> QED
    BY <1>1, <1>3, <1>6, <2>1 DEF Replaces
<1>7. CASE ~dies /\ ~ActiveSibling(held[w], jobs[held[w]].ref)
  <2>1. /\ jobs' = [jobs EXCEPT ![held[w]] = again]
        /\ pc' = [pc EXCEPT ![w] = "logErr"]
        /\ held' = held
    BY <1>7 DEF FailWrite, Goto
  <2> HIDE DEF again
  <2> QED
    BY <1>1, <1>4, <1>7, <2>1 DEF Replaces
<1> QED
  BY <1>5, <1>6, <1>7

\* What the passing of time does to a lease: the row keeps all the rest.
LEMMA ExpiryEffect ==
    ASSUME TypeOK, NEW j \in Jobs, LeaseExpires(j) \/ LeaseOverrun(j)
    PROVE  \E row \in Row :
             /\ Replaces(j, row) /\ Keeps(j, row)
             /\ jobs[j].lease = "live"
             /\ row.status = jobs[j].status /\ row.lease = "expired"
<1> DEFINE row == WithLease(jobs[j], "expired")
<1>1. jobs[j] \in Row
  BY DEF TypeOK
<1>2. /\ row \in Row /\ row.status = jobs[j].status
      /\ row.lease = "expired"
      /\ row.ref = jobs[j].ref /\ row.attempts = jobs[j].attempts
  BY <1>1 DEF WithLease, Row, Lease
<1>3. jobs[j].lease = "live" /\ jobs' = [jobs EXCEPT ![j] = row]
  BY DEF LeaseExpires, LeaseOverrun
<1> HIDE DEF row
<1> QED
  BY <1>1, <1>2, <1>3 DEF Replaces, Keeps

\* What the passing of time does to a backoff: the row keeps all the rest.
LEMMA BackoffEffect ==
    ASSUME TypeOK, NEW j \in Jobs, BackoffElapses(j)
    PROVE  \E row \in Row :
             /\ Replaces(j, row) /\ Keeps(j, row)
             /\ jobs[j].status = "pending"
             /\ row.status = "pending" /\ row.lease = jobs[j].lease
<1> DEFINE row == MakeDue(jobs[j])
<1>1. jobs[j] \in Row
  BY DEF TypeOK
<1>2. /\ row \in Row /\ row.status = jobs[j].status
      /\ row.lease = jobs[j].lease
      /\ row.ref = jobs[j].ref /\ row.attempts = jobs[j].attempts
  BY <1>1 DEF MakeDue, Row
<1>3. jobs[j].status = "pending" /\ jobs' = [jobs EXCEPT ![j] = row]
  BY DEF BackoffElapses
<1> HIDE DEF row
<1> QED
  BY <1>1, <1>2, <1>3 DEF Replaces, Keeps

\* What reset_stale_jobs does: expired rows are pending, the others stay.
LEMMA ResetStaleEffect ==
    ASSUME TypeOK, ResetStale
    PROVE  /\ jobs' \in [Jobs -> Row]
           /\ \A j \in Jobs :
                \/ jobs'[j] = jobs[j]
                \/ /\ jobs[j].status \in Leased
                   /\ jobs[j].lease = "expired"
                   /\ jobs'[j].status = "pending"
                   /\ jobs'[j].lease = "null"
                   /\ jobs'[j].ref = jobs[j].ref
                   /\ jobs'[j].attempts = jobs[j].attempts
<1> DEFINE row(j) == Move(jobs[j], "pending", "null")
<1>1. \A j \in Jobs : jobs[j] \in Row
  BY DEF TypeOK
<1>2. ASSUME NEW j \in Jobs
      PROVE  /\ row(j) \in Row
             /\ row(j).status = "pending" /\ row(j).lease = "null"
             /\ row(j).ref = jobs[j].ref
             /\ row(j).attempts = jobs[j].attempts
  BY <1>1 DEF Move, Row, Status, Active, Lease
<1>3. jobs' = [j \in Jobs |->
                 IF jobs[j].status \in Leased /\ jobs[j].lease = "expired"
                 THEN row(j) ELSE jobs[j]]
  BY DEF ResetStale
<1> HIDE DEF row
<1> QED
  BY <1>1, <1>2, <1>3

\* One row is replaced by another: the others stay, the table keeps its type.
LEMMA RowReplaced ==
    ASSUME TypeOK, NEW j \in Jobs, NEW row \in Row, Replaces(j, row)
    PROVE  /\ jobs' \in [Jobs -> Row]
           /\ jobs'[j] = row
           /\ \A i \in Jobs \ {j} : jobs'[i] = jobs[i]
  BY DEF TypeOK, Replaces

-----------------------------------------------------------------------------
(* Type correctness *)

\* What a step of the worker part must do to keep its type.
WorkerTypeOK ==
    /\ pc      \in [Workers -> WorkerPc]
    /\ held    \in [Workers -> Jobs \cup {NoJob}]
    /\ seen    \in [Workers -> Nat]
    /\ message \in [Workers -> MessageClasses]
    /\ \A w \in Workers : pc[w] \in Holding => held[w] \in Jobs

\* Moving a worker over worker_loop keeps the types of the worker's state.
LEMMA WorkerStepType ==
    ASSUME TypeOK, NEW w \in Workers, Advance(w) \/ Abandon(w)
    PROVE  WorkerTypeOK'
<1> USE ConstantsAssumption
        DEF TypeOK, WorkerTypeOK, WorkerPc, Holding, Executing, Goto, Drop,
            MessageClasses
<1>1. CASE Poll(w) \/ WorkerStop(w) \/ ClaimNone(w)
  BY <1>1 DEF Poll, WorkerStop, ClaimNone
<1>2. ASSUME NEW j \in Jobs, ClaimSelect(w, j)
      PROVE  WorkerTypeOK'
  BY <1>2 DEF ClaimSelect
<1>3. CASE ClaimCommit(w)
  BY <1>3 DEF ClaimCommit
<1>4. CASE MarkRunning(w) \/ RecordStarted(w) \/ Complete(w)
  BY <1>4 DEF MarkRunning, RecordStarted, Complete
<1>5. CASE FinishOk(w) \/ FinishErr(w)
  BY <1>5 DEF FinishOk, FinishErr
<1>6. CASE RecordSucceeded(w) \/ RecordFailed(w)
  BY <1>6 DEF RecordSucceeded, RecordFailed
<1>7. CASE FailRead(w)
  <2>1. jobs[held[w]].attempts \in Nat
    BY <1>7 DEF FailRead, Row
  <2> QED
    BY <1>7, <2>1 DEF FailRead
<1>8. CASE FailWrite(w)
  BY <1>8 DEF FailWrite
<1>9. CASE Panic(w)
  BY <1>9 DEF Panic
<1>10. CASE Abandon(w)
  BY <1>10 DEF Abandon
<1> QED
  BY <1>1, <1>2, <1>3, <1>4, <1>5, <1>6, <1>7, <1>8, <1>9, <1>10 DEF Advance

\* Start, drain, exit and crash of a process keep the types of its workers.
LEMMA ProcessStepType ==
    ASSUME TypeOK, NEW p \in Procs,
           Start(p) \/ Shutdown(p) \/ Exit(p) \/ Crash(p)
    PROVE  WorkerTypeOK' /\ proc' \in [Procs -> {"down", "up", "draining"}]
<1> USE ConstantsAssumption
        DEF TypeOK, WorkerTypeOK, WorkerPc, Holding, Executing,
            MessageClasses, workerVars
<1>1. CASE Start(p)
  BY <1>1 DEF Start
<1>2. CASE Shutdown(p)
  BY <1>2 DEF Shutdown
<1>3. CASE Exit(p)
  BY <1>3 DEF Exit, KillWorkers
<1>4. CASE Crash(p)
  BY <1>4 DEF Crash, KillWorkers
<1> QED
  BY <1>1, <1>2, <1>3, <1>4

\* Every statement of jobs.rs keeps the type of the table.
LEMMA TableStepType ==
    ASSUME TypeOK, [Next]_vars
    PROVE  jobs' \in [Jobs -> Row]
<1>0. jobs \in [Jobs -> Row]
  BY DEF TypeOK
<1>00. ASSUME NEW j \in Jobs, NEW row \in Row, Replaces(j, row)
       PROVE  jobs' \in [Jobs -> Row]
  BY <1>00, RowReplaced
<1>1. ASSUME NEW r \in Refs, NEW j \in Jobs, Enqueue(r, j)
      PROVE  jobs' \in [Jobs -> Row]
  BY <1>00, <1>1, EnqueueEffect
<1>2. ASSUME NEW w \in Workers, ClaimCommit(w)
      PROVE  jobs' \in [Jobs -> Row]
  BY <1>0, <1>00, <1>2, ClaimCommitEffect
<1>3. ASSUME NEW w \in Workers, MarkRunning(w)
      PROVE  jobs' \in [Jobs -> Row]
  BY <1>0, <1>00, <1>3, MarkRunningEffect DEF Replaces
<1>4. ASSUME NEW w \in Workers, Complete(w)
      PROVE  jobs' \in [Jobs -> Row]
  BY <1>0, <1>00, <1>4, CompleteEffect DEF Replaces
<1>5. ASSUME NEW w \in Workers, Heartbeat(w)
      PROVE  jobs' \in [Jobs -> Row]
  BY <1>00, <1>5, HeartbeatEffect DEF Replaces
<1>6. ASSUME NEW w \in Workers, FailWrite(w)
      PROVE  jobs' \in [Jobs -> Row]
  BY <1>0, <1>00, <1>6, FailWriteEffect
<1>7. ASSUME NEW j \in Jobs,
             LeaseExpires(j) \/ LeaseOverrun(j) \/ BackoffElapses(j)
      PROVE  jobs' \in [Jobs -> Row]
  BY <1>00, <1>7, ExpiryEffect, BackoffEffect
<1>8. CASE ResetStale
  BY <1>8, ResetStaleEffect
<1>9. CASE UNCHANGED jobs
  BY <1>0, <1>9
<1>10. ASSUME NEW w \in Workers, Advance(w)
       PROVE  \/ ClaimCommit(w) \/ MarkRunning(w) \/ Complete(w)
              \/ FailWrite(w) \/ UNCHANGED jobs
  BY <1>10 DEF Advance, Poll, WorkerStop, ClaimSelect, ClaimNone,
               RecordStarted, FinishOk, FinishErr, RecordSucceeded, FailRead,
               RecordFailed, Panic, tableVars
<1>11. ASSUME NEW w \in Workers, Sweep(w) \/ Heartbeat(w) \/ Abandon(w)
       PROVE  ResetStale \/ Heartbeat(w) \/ UNCHANGED jobs
  BY <1>11 DEF Sweep, Abandon, tableVars
<1>12. ASSUME NEW p \in Procs, Start(p) \/ Shutdown(p) \/ Exit(p) \/ Crash(p)
       PROVE  ResetStale \/ UNCHANGED jobs
  BY <1>12 DEF Start, Shutdown, Exit, Crash, tableVars
<1>13. CASE UNCHANGED vars
  BY <1>9, <1>13 DEF vars, tableVars
<1>14. CASE Next
  BY <1>1, <1>2, <1>3, <1>4, <1>5, <1>6, <1>7, <1>8, <1>9, <1>10, <1>11,
     <1>12, <1>14 DEF Next
<1> QED
  BY <1>13, <1>14

\* Every step of the system keeps TypeOK.
LEMMA TypeStep ==
    ASSUME TypeOK, [Next]_vars
    PROVE  TypeOK'
<1>1. jobs' \in [Jobs -> Row]
  BY TableStepType
<1>2. WorkerTypeOK' /\ proc' \in [Procs -> {"down", "up", "draining"}]
  <2>0. WorkerTypeOK /\ proc \in [Procs -> {"down", "up", "draining"}]
    BY DEF TypeOK, WorkerTypeOK
  <2>1. ASSUME NEW w \in Workers, Advance(w) \/ Abandon(w)
        PROVE  /\ WorkerTypeOK'
               /\ proc' = proc
    BY <2>1, WorkerStepType
       DEF Advance, Abandon, Poll, WorkerStop, ClaimSelect, ClaimNone,
           ClaimCommit, MarkRunning, RecordStarted, FinishOk, FinishErr,
           Complete, RecordSucceeded, FailRead, FailWrite, RecordFailed,
           Panic
  <2>2. ASSUME NEW p \in Procs,
               Start(p) \/ Shutdown(p) \/ Exit(p) \/ Crash(p)
        PROVE  /\ WorkerTypeOK'
               /\ proc' \in [Procs -> {"down", "up", "draining"}]
    BY <2>2, ProcessStepType
  <2>3. CASE UNCHANGED <<proc, workerVars>>
    BY <2>0, <2>3 DEF WorkerTypeOK, workerVars
  <2>4. CASE UNCHANGED vars
    BY <2>3, <2>4 DEF vars
  <2>5. ASSUME NEW w \in Workers, Sweep(w) \/ Heartbeat(w)
        PROVE  UNCHANGED <<proc, workerVars>>
    BY <2>5 DEF Sweep, Heartbeat
  <2>6. ASSUME NEW r \in Refs, NEW j \in Jobs, Enqueue(r, j)
        PROVE  UNCHANGED <<proc, workerVars>>
    BY <2>6 DEF Enqueue
  <2>7. ASSUME NEW j \in Jobs,
               LeaseExpires(j) \/ LeaseOverrun(j) \/ BackoffElapses(j)
        PROVE  UNCHANGED <<proc, workerVars>>
    BY <2>7 DEF LeaseExpires, LeaseOverrun, BackoffElapses
  <2> QED
    BY <2>0, <2>1, <2>2, <2>3, <2>4, <2>5, <2>6, <2>7 DEF Next
<1>3. events' \in [Jobs -> SUBSET Events]
  <2>1. ASSUME NEW w \in Workers, RecordStarted(w)
        PROVE  events' \in [Jobs -> SUBSET Events]
    BY <2>1 DEF RecordStarted, TypeOK, Events
  <2>2. ASSUME NEW w \in Workers, RecordSucceeded(w)
        PROVE  events' \in [Jobs -> SUBSET Events]
    BY <2>2 DEF RecordSucceeded, TypeOK, Events
  <2>3. ASSUME NEW w \in Workers, RecordFailed(w)
        PROVE  events' \in [Jobs -> SUBSET Events]
    BY <2>3 DEF RecordFailed, TypeOK, Events
  <2>4. \/ UNCHANGED events
        \/ \E w \in Workers : \/ RecordStarted(w) \/ RecordSucceeded(w)
                              \/ RecordFailed(w)
    BY DEF Next, vars, tableVars, Advance, Abandon, Poll, WorkerStop,
           ClaimSelect, ClaimNone, ClaimCommit, MarkRunning, FinishOk,
           FinishErr, Complete, FailRead, FailWrite, Panic, Sweep, Heartbeat,
           Enqueue, LeaseExpires, LeaseOverrun, BackoffElapses, Start,
           Shutdown, Exit, Crash
  <2> QED
    BY <2>1, <2>2, <2>3, <2>4 DEF TypeOK
<1>4. clock' \in Nat
  <2>1. \/ clock' = clock
        \/ \E r \in Refs, j \in Jobs : Enqueue(r, j)
    BY DEF Next, vars, tableVars, Advance, Abandon, Poll, WorkerStop,
           ClaimSelect, ClaimNone, ClaimCommit, MarkRunning, FinishOk,
           FinishErr, Complete, FailRead, FailWrite, Panic, Sweep, Heartbeat,
           RecordStarted, RecordSucceeded, RecordFailed, LeaseExpires,
           LeaseOverrun, BackoffElapses, Start, Shutdown, Exit, Crash
  <2> QED
    BY <2>1, EnqueueEffect DEF TypeOK
<1>5. faults' \in 0..FaultLimit
  <2>1. faults' = faults \/ Fault
    BY DEF Next, vars, ghostVars, Advance, Abandon, Poll, WorkerStop,
           ClaimSelect, ClaimNone, ClaimCommit, MarkRunning, FinishOk,
           FinishErr, Complete, FailRead, FailWrite, Panic, Sweep, Heartbeat,
           RecordStarted, RecordSucceeded, RecordFailed, Enqueue,
           LeaseExpires, LeaseOverrun, BackoffElapses, Start, Shutdown, Exit,
           Crash
  <2> QED
    BY <2>1, ConstantsAssumption DEF Fault, TypeOK
<1>6. overrun' \in SUBSET Jobs
  <2>1. \/ overrun' = overrun
        \/ \E j \in Jobs : overrun' = overrun \cup {j}
    BY DEF Next, vars, ghostVars, Advance, Abandon, Poll, WorkerStop,
           ClaimSelect, ClaimNone, ClaimCommit, MarkRunning, FinishOk,
           FinishErr, Complete, FailRead, FailWrite, Panic, Sweep, Heartbeat,
           RecordStarted, RecordSucceeded, RecordFailed, Enqueue,
           LeaseExpires, LeaseOverrun, BackoffElapses, Start, Shutdown, Exit,
           Crash
  <2> QED
    BY <2>1 DEF TypeOK
<1> QED
  BY <1>1, <1>2, <1>3, <1>4, <1>5, <1>6 DEF TypeOK, WorkerTypeOK

\* TypeOK holds before the first process starts.
LEMMA TypeInit == Init => TypeOK
  BY ConstantsAssumption
     DEF Init, TypeOK, NoRow, Row, Status, Active, Settled, Lease, Events,
         WorkerPc, Holding, Executing, MessageClasses

-----------------------------------------------------------------------------
(* Leases and the unique index *)

\* A row that was not inserted yet has no attempts.
FreshRows ==
    \A j \in Jobs : jobs[j].status = "none" => jobs[j].attempts = 0

TableInv == LeaseIffHeld /\ ActiveUnique /\ FreshRows

\* A statement that replaces one row keeps the table's invariants if the new
\* row has a lease exactly when it is held, and is active only if the row was
\* active already or the unique index admits it.
LEMMA OneRowTableInv ==
    ASSUME TypeOK, TableInv,
           NEW j \in Jobs, NEW row \in Row, Replaces(j, row),
           row.status # "none",
           row.lease # "null" <=> row.status \in Leased,
           row.status \in Active =>
               \/ jobs[j].status \in Active /\ row.ref = jobs[j].ref
               \/ ~ActiveSibling(j, row.ref)
    PROVE  TableInv'
<1>1. jobs'[j] = row /\ \A i \in Jobs \ {j} : jobs'[i] = jobs[i]
  BY RowReplaced
<1>2. LeaseIffHeld'
  BY <1>1 DEF TableInv, LeaseIffHeld
<1>3. ActiveUnique'
  BY <1>1 DEF TableInv, ActiveUnique, ActiveSibling
<1>4. FreshRows'
  BY <1>1 DEF TableInv, FreshRows
<1> QED
  BY <1>2, <1>3, <1>4 DEF TableInv

\* The sweep keeps the table's part of the invariant: it makes no row active.
LEMMA ResetTableInv ==
    ASSUME TypeOK, TableInv, ResetStale
    PROVE  TableInv'
<1>1. LeaseIffHeld'
  BY ResetStaleEffect DEF TableInv, LeaseIffHeld, Leased
<1>2. ActiveUnique'
  BY ResetStaleEffect DEF TableInv, ActiveUnique, Active, Leased
<1>3. FreshRows'
  BY ResetStaleEffect DEF TableInv, FreshRows
<1> QED
  BY <1>1, <1>2, <1>3 DEF TableInv

\* Every step keeps the table's part of the invariant.
LEMMA TableInvStep ==
    ASSUME TypeOK, TableInv, [Next]_vars
    PROVE  TableInv'
<1>1. ASSUME NEW r \in Refs, NEW j \in Jobs, Enqueue(r, j)
      PROVE  TableInv'
  BY <1>1, EnqueueEffect, OneRowTableInv DEF Leased
<1>2. ASSUME NEW w \in Workers, ClaimCommit(w), ~UNCHANGED jobs
      PROVE  TableInv'
  <2>1. PICK row \in Row :
          /\ Replaces(held[w], row) /\ Keeps(held[w], row)
          /\ row.status = "claimed" /\ row.lease = "live"
          /\ jobs[held[w]].status = "pending"
    BY <1>2, ClaimCommitEffect
  <2> QED
    BY <2>1, OneRowTableInv DEF Leased, Active, Keeps, Replaces
<1>3. ASSUME NEW w \in Workers, MarkRunning(w), ~UNCHANGED jobs
      PROVE  TableInv'
  <2>1. PICK row \in Row :
          /\ Replaces(held[w], row) /\ Keeps(held[w], row)
          /\ row.status = "processing" /\ row.lease = "live"
          /\ jobs[held[w]].status = "claimed"
    BY <1>3, MarkRunningEffect
  <2> QED
    BY <2>1, OneRowTableInv DEF Leased, Active, Keeps, Replaces
<1>4. ASSUME NEW w \in Workers, Complete(w), ~UNCHANGED jobs
      PROVE  TableInv'
  <2>1. PICK row \in Row :
          /\ Replaces(held[w], row)
          /\ row.status = "succeeded" /\ row.lease = "null"
    BY <1>4, CompleteEffect
  <2> QED
    BY <2>1, OneRowTableInv DEF Leased, Active, Replaces
<1>5. ASSUME NEW w \in Workers, Heartbeat(w)
      PROVE  TableInv'
  <2>1. PICK row \in Row :
          /\ Replaces(held[w], row) /\ Keeps(held[w], row)
          /\ row.status = "processing" /\ row.lease = "live"
          /\ jobs[held[w]].status = "processing"
    BY <1>5, HeartbeatEffect
  <2> QED
    BY <2>1, OneRowTableInv DEF Leased, Active, Keeps, Replaces
<1>6. ASSUME NEW w \in Workers, FailWrite(w), ~UNCHANGED jobs
      PROVE  TableInv'
  <2>1. PICK row \in Row :
          /\ Replaces(held[w], row) /\ row.lease = "null"
          /\ \/ row.status = "dead"
             \/ row.status = "pending" /\ ~ActiveSibling(held[w], row.ref)
    BY <1>6, FailWriteEffect
  <2> QED
    BY <2>1, OneRowTableInv DEF Leased, Active, Replaces
<1>7. ASSUME NEW j \in Jobs, LeaseExpires(j) \/ LeaseOverrun(j)
      PROVE  TableInv'
  <2>1. PICK row \in Row :
          /\ Replaces(j, row) /\ Keeps(j, row)
          /\ jobs[j].lease = "live"
          /\ row.status = jobs[j].status /\ row.lease = "expired"
    BY <1>7, ExpiryEffect
  <2>2. jobs[j].status \in Leased
    BY <2>1 DEF TableInv, LeaseIffHeld
  <2> QED
    BY <2>1, <2>2, OneRowTableInv DEF Leased, Active, Keeps
<1>8. ASSUME NEW j \in Jobs, BackoffElapses(j)
      PROVE  TableInv'
  <2>1. PICK row \in Row :
          /\ Replaces(j, row) /\ Keeps(j, row)
          /\ jobs[j].status = "pending"
          /\ row.status = "pending" /\ row.lease = jobs[j].lease
    BY <1>8, BackoffEffect
  <2>2. row.lease # "null" <=> row.status \in Leased
    BY <2>1 DEF TableInv, LeaseIffHeld
  <2> QED
    BY <2>1, <2>2, OneRowTableInv DEF Active, Keeps
<1>9. CASE UNCHANGED jobs
  BY <1>9 DEF TableInv, LeaseIffHeld, ActiveUnique, FreshRows
<1>10. ASSUME NEW w \in Workers, Advance(w)
       PROVE  \/ ClaimCommit(w) \/ MarkRunning(w) \/ Complete(w)
              \/ FailWrite(w) \/ UNCHANGED jobs
  BY <1>10 DEF Advance, Poll, WorkerStop, ClaimSelect, ClaimNone,
               RecordStarted, FinishOk, FinishErr, RecordSucceeded, FailRead,
               RecordFailed, Panic, tableVars
<1>11. ASSUME NEW w \in Workers, Sweep(w) \/ Heartbeat(w) \/ Abandon(w)
       PROVE  ResetStale \/ Heartbeat(w) \/ UNCHANGED jobs
  BY <1>11 DEF Sweep, Abandon, tableVars
<1>12. ASSUME NEW p \in Procs, Start(p) \/ Shutdown(p) \/ Exit(p) \/ Crash(p)
       PROVE  ResetStale \/ UNCHANGED jobs
  BY <1>12 DEF Start, Shutdown, Exit, Crash, tableVars
<1>13. CASE UNCHANGED vars
  BY <1>9, <1>13 DEF vars, tableVars
<1>14. CASE Next
  BY <1>1, <1>2, <1>3, <1>4, <1>5, <1>6, <1>7, <1>8, <1>9, <1>10, <1>11,
     <1>12, <1>14, ResetTableInv DEF Next
<1> QED
  BY <1>13, <1>14

-----------------------------------------------------------------------------
(* One executor per job, and the budget *)

ExecInv == SoleExecutor /\ SeenCurrent /\ BudgetExact

\* No worker starts to execute, and no worker that executes changes its job.
NobodyStarts ==
    \A v \in Workers : pc'[v] \in Executing =>
        pc[v] \in Executing /\ held'[v] = held[v]

\* What fail_job has read stays with the worker, or was read in this step.
SeenFromRow ==
    \A v \in Workers : pc'[v] = "deciding" =>
        \/ pc[v] = "deciding" /\ seen'[v] = seen[v]
        \/ seen'[v] = jobs[held[v]].attempts

\* Worker steps that leave the table alone.
LEMMA QuietStep ==
    ASSUME TypeOK, ExecInv, UNCHANGED jobs, overrun \subseteq overrun',
           NobodyStarts, SeenFromRow
    PROVE  ExecInv'
<1>1. SoleExecutor'
  BY DEF ExecInv, SoleExecutor, Executors, NobodyStarts
<1>2. SeenCurrent'
  BY DEF ExecInv, SeenCurrent, NobodyStarts, SeenFromRow, Executing
<1>3. BudgetExact'
  BY DEF ExecInv, BudgetExact
<1> QED
  BY <1>1, <1>2, <1>3 DEF ExecInv

\* Steps that replace one row by a row with the same attempts, that is held
\* under a live lease if anybody executes it afterwards, and that is dead
\* exactly when the old one was.
LEMMA LoudStep ==
    ASSUME TypeOK, ExecInv, overrun \subseteq overrun',
           NobodyStarts, UNCHANGED seen,
           \A v \in Workers : pc'[v] = "deciding" => pc[v] = "deciding",
           NEW j \in Jobs, NEW row \in Row, Replaces(j, row),
           row.attempts = jobs[j].attempts,
           row.status = "dead" <=> jobs[j].status = "dead",
           j \notin overrun' =>
               \A v \in Workers : pc'[v] \in Executing /\ held'[v] = j =>
                   row.status \in Leased /\ row.lease = "live"
    PROVE  ExecInv'
<1>1. jobs'[j] = row /\ \A i \in Jobs \ {j} : jobs'[i] = jobs[i]
  BY RowReplaced
<1>2. SoleExecutor'
  BY <1>1 DEF ExecInv, SoleExecutor, Executors, NobodyStarts
<1>3. SeenCurrent'
  <2>1. \A i \in Jobs : jobs'[i].attempts = jobs[i].attempts
    BY <1>1
  <2> QED
    BY <2>1 DEF ExecInv, SeenCurrent, NobodyStarts, Executing, Holding, TypeOK
<1>4. BudgetExact'
  BY <1>1 DEF ExecInv, BudgetExact
<1> QED
  BY <1>2, <1>3, <1>4 DEF ExecInv

\* The sweep keeps the executions' part: no row that is executed has expired.
LEMMA ResetExec ==
    ASSUME TypeOK, ExecInv, ResetStale, UNCHANGED <<overrun, seen>>,
           NobodyStarts,
           \A v \in Workers : pc'[v] = "deciding" => pc[v] = "deciding"
    PROVE  ExecInv'
<1>1. SoleExecutor'
  BY ResetStaleEffect
     DEF ExecInv, SoleExecutor, Executors, NobodyStarts
<1>2. SeenCurrent'
  BY ResetStaleEffect
     DEF ExecInv, SeenCurrent, NobodyStarts, Executing, Holding, TypeOK
<1>3. BudgetExact'
  BY ResetStaleEffect DEF ExecInv, BudgetExact, Leased
<1> QED
  BY <1>1, <1>2, <1>3 DEF ExecInv

\* The claim: the row was pending, so nobody executed it.
LEMMA ClaimExec ==
    ASSUME TypeOK, ExecInv, NEW w \in Workers, ClaimCommit(w),
           ~UNCHANGED jobs
    PROVE  ExecInv'
<1>1. PICK row \in Row :
        /\ Replaces(held[w], row) /\ Keeps(held[w], row)
        /\ row.status = "claimed" /\ row.lease = "live"
        /\ jobs[held[w]].status = "pending"
  BY ClaimCommitEffect
<1>2. /\ held[w] \in Jobs
      /\ pc' = [pc EXCEPT ![w] = "claimed"] /\ held' = held
      /\ UNCHANGED <<seen, overrun>>
  BY ClaimCommitEffect DEF ClaimCommit, ghostVars
<1>3. /\ jobs'[held[w]] = row
      /\ \A i \in Jobs \ {held[w]} : jobs'[i] = jobs[i]
  BY <1>1, <1>2, RowReplaced
<1>4. pc \in [Workers -> WorkerPc]
  BY DEF TypeOK
<1>5. held[w] \notin overrun => Executors(held[w]) = {}
  BY <1>1, <1>2 DEF ExecInv, SoleExecutor, Leased, Executors
<1>6. SoleExecutor'
  BY <1>1, <1>2, <1>3, <1>4, <1>5
     DEF ExecInv, SoleExecutor, Executors, Leased
<1>7. SeenCurrent'
  BY <1>1, <1>2, <1>3, <1>4
     DEF ExecInv, SeenCurrent, Keeps, Executing, Holding, TypeOK
<1>8. BudgetExact'
  BY <1>1, <1>2, <1>3 DEF ExecInv, BudgetExact, Keeps
<1> QED
  BY <1>6, <1>7, <1>8 DEF ExecInv

\* fail_job's UPDATE: the worker is the only executor, the row is still held
\* and unchanged since it was read, so exactly one attempt is charged.
LEMMA FailExec ==
    ASSUME TypeOK, ExecInv, NEW w \in Workers, FailWrite(w),
           ~UNCHANGED jobs
    PROVE  ExecInv'
<1>1. PICK row \in Row :
        /\ Replaces(held[w], row)
        /\ row.attempts = seen[w] + 1
        /\ \/ row.status = "dead" /\ seen[w] + 1 >= MaxAttempts
           \/ row.status = "pending" /\ ~(seen[w] + 1 >= MaxAttempts)
  BY FailWriteEffect
<1>2. /\ held[w] \in Jobs
      /\ pc' = [pc EXCEPT ![w] = "logErr"] /\ held' = held
      /\ seen' = [seen EXCEPT ![w] = 0] /\ overrun' = overrun
      /\ pc[w] = "deciding"
  BY FailWriteEffect DEF FailWrite, ghostVars
<1>3. /\ jobs'[held[w]] = row
      /\ \A i \in Jobs \ {held[w]} : jobs'[i] = jobs[i]
  BY <1>1, <1>2, RowReplaced
<1>4. pc \in [Workers -> WorkerPc] /\ seen \in [Workers -> Nat]
  BY DEF TypeOK
<1>5. held[w] \notin overrun =>
        /\ Executors(held[w]) = {w}
        /\ jobs[held[w]].status \in Leased
        /\ seen[w] = jobs[held[w]].attempts
  BY <1>2 DEF ExecInv, SoleExecutor, SeenCurrent, Executors, Executing
<1>6. SoleExecutor'
  BY <1>2, <1>3, <1>4, <1>5
     DEF ExecInv, SoleExecutor, Executors, Executing
<1>7. SeenCurrent'
  BY <1>2, <1>3, <1>4, <1>5
     DEF ExecInv, SeenCurrent, Executors, Executing, Holding, TypeOK
<1>8. BudgetExact'
  <2>1. ASSUME held[w] \notin overrun
        PROVE  /\ row.attempts <= MaxAttempts
               /\ row.status = "dead" <=> row.attempts = MaxAttempts
    <3>1. /\ jobs[held[w]].attempts <= MaxAttempts
          /\ jobs[held[w]].attempts # MaxAttempts
      BY <1>2, <1>5, <2>1 DEF ExecInv, BudgetExact, Leased
    <3>2. seen[w] \in Nat /\ MaxAttempts \in Nat
      BY <1>4, ConstantsAssumption
    <3> QED
      BY <1>1, <1>5, <2>1, <3>1, <3>2
  <2> QED
    BY <1>2, <1>3, <2>1 DEF ExecInv, BudgetExact
<1> QED
  BY <1>6, <1>7, <1>8 DEF ExecInv

\* A new row has no execution, so the executions' part is kept.
LEMMA EnqueueExec ==
    ASSUME TypeOK, ExecInv, NEW r \in Refs, NEW j \in Jobs, Enqueue(r, j)
    PROVE  ExecInv'
<1>1. PICK row \in Row :
        /\ Replaces(j, row) /\ row.attempts = 0 /\ row.status = "pending"
        /\ jobs[j].status = "none"
  BY EnqueueEffect
<1>2. UNCHANGED <<pc, held, seen, overrun>>
  BY DEF Enqueue, workerVars, ghostVars
<1>3. jobs'[j] = row /\ \A i \in Jobs \ {j} : jobs'[i] = jobs[i]
  BY <1>1, RowReplaced
<1>4. j \notin overrun => Executors(j) = {}
  BY <1>1 DEF ExecInv, SoleExecutor, Leased, Executors
<1>5. SoleExecutor'
  BY <1>2, <1>3, <1>4 DEF ExecInv, SoleExecutor, Executors
<1>6. SeenCurrent'
  BY <1>2, <1>3, <1>4
     DEF ExecInv, SeenCurrent, Executors, Executing, Holding, TypeOK
<1>7. BudgetExact'
  BY <1>1, <1>2, <1>3, ConstantsAssumption DEF ExecInv, BudgetExact
<1> QED
  BY <1>5, <1>6, <1>7 DEF ExecInv

\* The steps of a worker that leave the table alone.
LEMMA WorkerQuietExec ==
    ASSUME TypeOK, ExecInv, NEW w \in Workers, Advance(w) \/ Abandon(w),
           UNCHANGED jobs
    PROVE  ExecInv'
<1> USE DEF NobodyStarts, SeenFromRow, Executing, Goto, Drop, TypeOK, ghostVars
<1>1. CASE Poll(w) \/ WorkerStop(w) \/ ClaimNone(w)
  BY <1>1, QuietStep DEF Poll, WorkerStop, ClaimNone
<1>2. ASSUME NEW j \in Jobs, ClaimSelect(w, j)
      PROVE  ExecInv'
  BY <1>2, QuietStep DEF ClaimSelect
<1>3. CASE ClaimCommit(w)
  <2>1. jobs[held[w]].status # "pending"
    <3>1. SUFFICES ASSUME jobs[held[w]].status = "pending"
                   PROVE  FALSE
      OBVIOUS
    <3>2. held[w] \in Jobs
      BY <1>3, ClaimCommitEffect
    <3>3. jobs' = [jobs EXCEPT ![held[w]] =
                     Move(jobs[held[w]], "claimed", "live")]
      BY <1>3, <3>1 DEF ClaimCommit
    <3>4. jobs'[held[w]].status = "claimed"
      <4>1. jobs'[held[w]] = Move(jobs[held[w]], "claimed", "live")
        BY <3>2, <3>3
      <4>2. jobs[held[w]] \in Row
        BY <3>2
      <4> QED
        BY <4>1, <4>2 DEF Move, Row
    <3> QED
      BY <3>1, <3>4
  <2> QED
    BY <1>3, <2>1, QuietStep DEF ClaimCommit
<1>4. CASE MarkRunning(w) \/ RecordStarted(w) \/ Complete(w)
  BY <1>4, QuietStep DEF MarkRunning, RecordStarted, Complete
<1>5. CASE FinishOk(w) \/ FinishErr(w)
  BY <1>5, QuietStep DEF FinishOk, FinishErr
<1>6. CASE RecordSucceeded(w) \/ RecordFailed(w)
  BY <1>6, QuietStep DEF RecordSucceeded, RecordFailed
<1>7. CASE FailRead(w)
  BY <1>7, QuietStep DEF FailRead
<1>8. CASE FailWrite(w)
  <2>1. overrun \subseteq overrun' /\ SeenFromRow /\ NobodyStarts
    BY <1>8, FailWriteEffect DEF FailWrite
  <2> QED
    BY <2>1, QuietStep
<1>9. CASE Panic(w)
  BY <1>9, QuietStep DEF Panic
<1>10. CASE Abandon(w)
  BY <1>10, QuietStep DEF Abandon
<1> QED
  BY <1>1, <1>2, <1>3, <1>4, <1>5, <1>6, <1>7, <1>8, <1>9, <1>10 DEF Advance

\* mark_running finds the row its worker claimed, still held for it.
LEMMA MarkRunningExec ==
    ASSUME TypeOK, ExecInv, NEW w \in Workers, MarkRunning(w),
           ~UNCHANGED jobs
    PROVE  ExecInv'
<1>1. PICK row \in Row :
        /\ Replaces(held[w], row) /\ Keeps(held[w], row)
        /\ row.status = "processing" /\ row.lease = "live"
        /\ jobs[held[w]].status = "claimed"
  BY MarkRunningEffect
<1>2. NobodyStarts /\ UNCHANGED <<seen, overrun>>
  BY DEF MarkRunning, NobodyStarts, Executing, Goto, TypeOK, ghostVars
<1>3. \A v \in Workers : pc'[v] = "deciding" => pc[v] = "deciding"
  BY DEF MarkRunning, Goto, TypeOK
<1> QED
  BY <1>1, <1>2, <1>3, LoudStep DEF Replaces, Keeps, Leased

\* complete_job: the worker was the only executor, and leaves.
LEMMA CompleteExec ==
    ASSUME TypeOK, ExecInv, NEW w \in Workers, Complete(w),
           ~UNCHANGED jobs
    PROVE  ExecInv'
<1>1. PICK row \in Row :
        /\ Replaces(held[w], row) /\ Keeps(held[w], row)
        /\ row.status = "succeeded"
        /\ jobs[held[w]].status \in Leased
  BY CompleteEffect
<1>2. NobodyStarts /\ UNCHANGED <<seen, overrun, held>>
  BY DEF Complete, NobodyStarts, Executing, Goto, TypeOK, ghostVars
<1>3. /\ \A v \in Workers : pc'[v] = "deciding" => pc[v] = "deciding"
      /\ pc[w] = "done" /\ pc'[w] = "logOk"
  BY DEF Complete, Goto, TypeOK
<1>4. held[w] \notin overrun =>
        \A v \in Workers : ~(pc'[v] \in Executing /\ held'[v] = held[w])
  BY <1>1, <1>2, <1>3
     DEF ExecInv, SoleExecutor, Executors, NobodyStarts, Executing, Replaces
<1> QED
  BY <1>1, <1>2, <1>3, <1>4, LoudStep DEF Replaces, Keeps, Leased

\* A heartbeat renews a lease that expired under its worker: an overrun job.
LEMMA HeartbeatExec ==
    ASSUME TypeOK, ExecInv, NEW w \in Workers, Heartbeat(w)
    PROVE  ExecInv'
<1>1. PICK row \in Row :
        /\ Replaces(held[w], row) /\ Keeps(held[w], row)
        /\ row.status = "processing" /\ row.lease = "live"
        /\ jobs[held[w]].status = "processing"
  BY HeartbeatEffect
<1>2. UNCHANGED <<pc, held, seen, overrun>>
  BY DEF Heartbeat, workerVars, ghostVars
<1> QED
  BY <1>1, <1>2, LoudStep DEF Replaces, Keeps, Leased, NobodyStarts

\* Leases that expire and backoffs that elapse keep the executions' part.
LEMMA TimeExec ==
    ASSUME TypeOK, ExecInv, NEW j \in Jobs,
           LeaseExpires(j) \/ LeaseOverrun(j) \/ BackoffElapses(j)
    PROVE  ExecInv'
<1>1. UNCHANGED <<pc, held, seen>> /\ overrun \subseteq overrun'
  BY DEF LeaseExpires, LeaseOverrun, BackoffElapses, workerVars, ghostVars
<1>2. NobodyStarts
  BY <1>1 DEF NobodyStarts
<1>3. CASE LeaseExpires(j) \/ LeaseOverrun(j)
  <2>1. PICK row \in Row :
          /\ Replaces(j, row) /\ Keeps(j, row) /\ row.status = jobs[j].status
    BY <1>3, ExpiryEffect
  <2>2. j \in overrun' \/ Executors(j) = {}
    BY <1>3 DEF LeaseExpires, LeaseOverrun
  <2> QED
    BY <1>1, <1>2, <2>1, <2>2, LoudStep DEF Keeps, Executors
<1>4. CASE BackoffElapses(j)
  <2>1. PICK row \in Row :
          /\ Replaces(j, row) /\ Keeps(j, row)
          /\ jobs[j].status = "pending" /\ row.status = "pending"
    BY <1>4, BackoffEffect
  <2>2. j \notin overrun => Executors(j) = {}
    BY <2>1 DEF ExecInv, SoleExecutor, Leased, Executors
  <2> QED
    BY <1>1, <1>2, <2>1, <2>2, LoudStep DEF Keeps, Executors
<1> QED
  BY <1>3, <1>4

\* A process that starts or ends keeps the executions' part.
LEMMA ProcessExec ==
    ASSUME TypeOK, ExecInv, NEW p \in Procs,
           Start(p) \/ Shutdown(p) \/ Exit(p) \/ Crash(p)
    PROVE  ExecInv'
<1>1. /\ NobodyStarts /\ overrun' = overrun
      /\ \A v \in Workers : pc'[v] = "deciding" =>
            pc[v] = "deciding" /\ seen'[v] = seen[v]
  BY DEF Start, Shutdown, Exit, Crash, KillWorkers, NobodyStarts, Executing,
         TypeOK, workerVars, ghostVars
<1>2. CASE UNCHANGED jobs
  BY <1>1, <1>2, QuietStep DEF SeenFromRow
<1>3. CASE ~UNCHANGED jobs
  <2>1. ResetStale /\ UNCHANGED seen
    BY <1>3 DEF Start, Shutdown, Exit, Crash, tableVars
  <2> QED
    BY <1>1, <2>1, ResetExec
<1> QED
  BY <1>2, <1>3

\* Every step keeps the executions' part of the invariant.
LEMMA ExecStep ==
    ASSUME TypeOK, ExecInv, [Next]_vars
    PROVE  ExecInv'
<1>1. ASSUME NEW r \in Refs, NEW j \in Jobs, Enqueue(r, j)
      PROVE  ExecInv'
  BY <1>1, EnqueueExec
<1>2. ASSUME NEW w \in Workers, Advance(w)
      PROVE  ExecInv'
  <2>1. \/ ClaimCommit(w) \/ MarkRunning(w) \/ Complete(w)
        \/ FailWrite(w) \/ UNCHANGED jobs
    BY <1>2 DEF Advance, Poll, WorkerStop, ClaimSelect, ClaimNone,
                RecordStarted, FinishOk, FinishErr, RecordSucceeded, FailRead,
                RecordFailed, Panic, tableVars
  <2> QED
    BY <1>2, <2>1, WorkerQuietExec, ClaimExec, MarkRunningExec, CompleteExec,
       FailExec
<1>3. ASSUME NEW w \in Workers, Sweep(w)
      PROVE  ExecInv'
  <2>1. ResetStale /\ UNCHANGED <<pc, held, seen, overrun>>
    BY <1>3 DEF Sweep, workerVars, ghostVars
  <2> QED
    BY <2>1, ResetExec DEF NobodyStarts
<1>4. ASSUME NEW w \in Workers, Heartbeat(w)
      PROVE  ExecInv'
  BY <1>4, HeartbeatExec
<1>5. ASSUME NEW w \in Workers, Abandon(w)
      PROVE  ExecInv'
  BY <1>5, WorkerQuietExec DEF Abandon, tableVars
<1>6. ASSUME NEW j \in Jobs,
             LeaseExpires(j) \/ LeaseOverrun(j) \/ BackoffElapses(j)
      PROVE  ExecInv'
  BY <1>6, TimeExec
<1>7. ASSUME NEW p \in Procs, Start(p) \/ Shutdown(p) \/ Exit(p) \/ Crash(p)
      PROVE  ExecInv'
  BY <1>7, ProcessExec
<1>8. CASE UNCHANGED vars
  BY <1>8, QuietStep
     DEF vars, tableVars, workerVars, ghostVars, NobodyStarts, SeenFromRow
<1> QED
  BY <1>1, <1>2, <1>3, <1>4, <1>5, <1>6, <1>7, <1>8 DEF Next

-----------------------------------------------------------------------------
(* The theorems *)

\* The inductive invariant.  None of SoleExecutor, SeenCurrent and BudgetExact
\* is inductive alone: that an attempt is charged exactly once needs the value
\* fail_job read to be current, which needs the reader to be alone, which
\* needs the row to be held under a live lease.
IInv == TypeOK /\ TableInv /\ ExecInv

\* Before the first process starts (empty table, nobody at work) IInv holds.
THEOREM InitIInv == Init => IInv
<1> SUFFICES ASSUME Init
             PROVE  IInv
  OBVIOUS
<1>1. TypeOK
  BY TypeInit
<1>2. /\ \A j \in Jobs : /\ jobs[j].status = "none" /\ jobs[j].lease = "null"
                         /\ jobs[j].attempts = 0
      /\ \A w \in Workers : pc[w] = "down"
  BY DEF Init, NoRow
<1>3. TableInv
  BY <1>2
     DEF TableInv, LeaseIffHeld, ActiveUnique, FreshRows, Leased, Active
<1>4. ExecInv
  <2>1. SoleExecutor /\ SeenCurrent
    BY <1>2 DEF SoleExecutor, SeenCurrent, Executors, Executing
  <2>2. BudgetExact
    BY <1>2, ConstantsAssumption DEF BudgetExact
  <2> QED
    BY <2>1, <2>2 DEF ExecInv
<1> QED
  BY <1>1, <1>3, <1>4 DEF IInv

\* Every statement, step of a worker, passing of time and crash keeps IInv.
THEOREM NextIInv == IInv /\ [Next]_vars => IInv'
  BY TypeStep, TableInvStep, ExecStep DEF IInv

\* IInv, and so each of its parts, holds in every reachable state.
THEOREM Invariance == Spec => []IInv
  BY InitIInv, NextIInv, PTL DEF Spec

\* Every variable keeps its type, and a worker that is in the middle of a job
\* holds one (worker_loop, run_job).
THEOREM TypeCorrect == Spec => []TypeOK
  BY Invariance, PTL DEF IInv

\* A row has a lease exactly while it is claimed or processing: nothing that a
\* crash, an error or a panic leaves behind escapes reset_stale_jobs.
THEOREM LeasesAreSweepable == Spec => []LeaseIffHeld
  BY Invariance, PTL DEF IInv, TableInv

\* The statements of jobs.rs never make two rows of one (kind, ref_id) active.
THEOREM OneActiveRow == Spec => []ActiveUnique
  BY Invariance, PTL DEF IInv, TableInv

\* With any number of workers and processes, a job whose lease has not run out
\* under a worker has at most one executor, and the row is held for it.
THEOREM MutualExclusion == Spec => []SoleExecutor
  BY Invariance, PTL DEF IInv, ExecInv

\* The attempts of such a job never pass max_attempts, and the job is dead
\* exactly when they reach it (fail_job).
THEOREM RetryBudget == Spec => []BudgetExact
  BY Invariance, PTL DEF IInv, ExecInv

\* The two statements of fail_job lose no update to such a job.
THEOREM NoLostUpdate == Spec => []SeenCurrent
  BY Invariance, PTL DEF IInv, ExecInv

-----------------------------------------------------------------------------
(* Action properties *)

KeepsOutcome ==
    \A j \in Jobs \ overrun :
        jobs[j].status \in Settled => jobs'[j].status = jobs[j].status

ChargesOnce ==
    \A j \in Jobs \ overrun :
        jobs'[j].attempts # jobs[j].attempts =>
            /\ jobs'[j].attempts = jobs[j].attempts + 1
            /\ jobs[j].lease = "live"
            /\ jobs'[j].lease = "null"

\* A step that replaces row j does to it what both properties allow, if the
\* job had no outcome yet and is charged at most once, under its live lease.
LEMMA RowActionStep ==
    ASSUME TypeOK, NEW j \in Jobs, NEW row \in Row, Replaces(j, row),
           j \in overrun \/ jobs[j].status \notin Settled,
           \/ j \in overrun
           \/ row.attempts = jobs[j].attempts
           \/ /\ row.attempts = jobs[j].attempts + 1
              /\ jobs[j].lease = "live" /\ row.lease = "null"
    PROVE  KeepsOutcome /\ ChargesOnce
<1>1. jobs'[j] = row /\ \A i \in Jobs \ {j} : jobs'[i] = jobs[i]
  BY RowReplaced
<1>2. KeepsOutcome
  BY <1>1 DEF KeepsOutcome
<1>3. ChargesOnce
  BY <1>1 DEF ChargesOnce
<1> QED
  BY <1>2, <1>3

\* What a step may do to a job whose lease never ran out under a worker.
LEMMA ActionStep ==
    ASSUME IInv, [Next]_vars
    PROVE  KeepsOutcome /\ ChargesOnce
<1> USE DEF IInv
<1>1. ASSUME NEW r \in Refs, NEW j \in Jobs, Enqueue(r, j)
      PROVE  KeepsOutcome /\ ChargesOnce
  <2>1. PICK row \in Row :
          /\ Replaces(j, row) /\ row.attempts = 0 /\ jobs[j].status = "none"
    BY <1>1, EnqueueEffect
  <2>2. jobs[j].attempts = 0
    BY <2>1 DEF TableInv, FreshRows
  <2> QED
    BY <2>1, <2>2, RowActionStep DEF Settled
<1>2. ASSUME NEW w \in Workers, ClaimCommit(w), ~UNCHANGED jobs
      PROVE  KeepsOutcome /\ ChargesOnce
  <2>1. PICK row \in Row :
          /\ Replaces(held[w], row) /\ Keeps(held[w], row)
          /\ jobs[held[w]].status = "pending"
    BY <1>2, ClaimCommitEffect
  <2> QED
    BY <2>1, RowActionStep DEF Replaces, Keeps, Settled
<1>3. ASSUME NEW w \in Workers, MarkRunning(w), ~UNCHANGED jobs
      PROVE  KeepsOutcome /\ ChargesOnce
  <2>1. PICK row \in Row :
          /\ Replaces(held[w], row) /\ Keeps(held[w], row)
          /\ jobs[held[w]].status = "claimed"
    BY <1>3, MarkRunningEffect
  <2> QED
    BY <2>1, RowActionStep DEF Replaces, Keeps, Settled
<1>4. ASSUME NEW w \in Workers, Complete(w), ~UNCHANGED jobs
      PROVE  KeepsOutcome /\ ChargesOnce
  <2>1. PICK row \in Row :
          /\ Replaces(held[w], row) /\ Keeps(held[w], row)
          /\ jobs[held[w]].status \in Leased
    BY <1>4, CompleteEffect
  <2> QED
    BY <2>1, RowActionStep DEF Replaces, Keeps, Settled, Leased
<1>5. ASSUME NEW w \in Workers, Heartbeat(w)
      PROVE  KeepsOutcome /\ ChargesOnce
  <2>1. PICK row \in Row :
          /\ Replaces(held[w], row) /\ Keeps(held[w], row)
          /\ jobs[held[w]].status = "processing"
    BY <1>5, HeartbeatEffect
  <2> QED
    BY <2>1, RowActionStep DEF Replaces, Keeps, Settled
<1>6. ASSUME NEW w \in Workers, FailWrite(w), ~UNCHANGED jobs
      PROVE  KeepsOutcome /\ ChargesOnce
  <2>1. PICK row \in Row :
          /\ Replaces(held[w], row) /\ row.attempts = seen[w] + 1
          /\ row.lease = "null"
    BY <1>6, FailWriteEffect
  <2>2. pc[w] = "deciding"
    BY <1>6 DEF FailWrite
  <2>3. held[w] \notin overrun =>
          /\ jobs[held[w]].status \in Leased
          /\ jobs[held[w]].lease = "live"
          /\ seen[w] = jobs[held[w]].attempts
    BY <2>1, <2>2
       DEF ExecInv, SoleExecutor, SeenCurrent, Executors, Executing, Replaces
  <2> QED
    BY <2>1, <2>3, RowActionStep DEF Replaces, Settled, Leased
<1>7. ASSUME NEW j \in Jobs, LeaseExpires(j) \/ LeaseOverrun(j)
      PROVE  KeepsOutcome /\ ChargesOnce
  <2>1. PICK row \in Row :
          /\ Replaces(j, row) /\ Keeps(j, row) /\ jobs[j].lease = "live"
    BY <1>7, ExpiryEffect
  <2>2. jobs[j].status \in Leased
    BY <2>1 DEF TableInv, LeaseIffHeld
  <2> QED
    BY <2>1, <2>2, RowActionStep DEF Keeps, Settled, Leased
<1>8. ASSUME NEW j \in Jobs, BackoffElapses(j)
      PROVE  KeepsOutcome /\ ChargesOnce
  <2>1. PICK row \in Row :
          /\ Replaces(j, row) /\ Keeps(j, row) /\ jobs[j].status = "pending"
    BY <1>8, BackoffEffect
  <2> QED
    BY <2>1, RowActionStep DEF Keeps, Settled
<1>9. CASE ResetStale
  BY <1>9, ResetStaleEffect DEF KeepsOutcome, ChargesOnce, Settled, Leased
<1>10. CASE UNCHANGED jobs
  BY <1>10 DEF KeepsOutcome, ChargesOnce
<1>11. ASSUME NEW w \in Workers, Advance(w)
       PROVE  \/ ClaimCommit(w) \/ MarkRunning(w) \/ Complete(w)
              \/ FailWrite(w) \/ UNCHANGED jobs
  BY <1>11 DEF Advance, Poll, WorkerStop, ClaimSelect, ClaimNone,
               RecordStarted, FinishOk, FinishErr, RecordSucceeded, FailRead,
               RecordFailed, Panic, tableVars
<1>12. ASSUME NEW w \in Workers, Sweep(w) \/ Heartbeat(w) \/ Abandon(w)
       PROVE  ResetStale \/ Heartbeat(w) \/ UNCHANGED jobs
  BY <1>12 DEF Sweep, Abandon, tableVars
<1>13. ASSUME NEW p \in Procs, Start(p) \/ Shutdown(p) \/ Exit(p) \/ Crash(p)
       PROVE  ResetStale \/ UNCHANGED jobs
  BY <1>13 DEF Start, Shutdown, Exit, Crash, tableVars
<1>14. CASE UNCHANGED vars
  BY <1>10, <1>14 DEF vars, tableVars
<1>15. CASE Next
  BY <1>1, <1>2, <1>3, <1>4, <1>5, <1>6, <1>7, <1>8, <1>9, <1>10, <1>11,
     <1>12, <1>13, <1>15 DEF Next
<1> QED
  BY <1>14, <1>15

\* Once a job has succeeded or died it stays so, unless its lease once ran out
\* under a worker: fail_job's UPDATE has no guard on the status, and it is the
\* leases alone that keep a late failure from undoing an outcome.
THEOREM OutcomesStay == Spec => OutcomeFinal
<1>1. IInv /\ [Next]_vars =>
        [\A j \in Jobs \ overrun :
            jobs[j].status \in Settled => jobs'[j].status = jobs[j].status]_vars
  BY ActionStep DEF KeepsOutcome
<1> QED
  BY <1>1, Invariance, PTL DEF Spec, OutcomeFinal

\* An attempt is charged only by the failure of an execution under a live
\* lease, one at a time: crash recovery is free (reset_stale_jobs).
THEOREM RecoveryIsFree == Spec => ChargedOncePerFailure
<1>1. IInv /\ [Next]_vars =>
        [\A j \in Jobs \ overrun :
            jobs'[j].attempts # jobs[j].attempts =>
                /\ jobs'[j].attempts = jobs[j].attempts + 1
                /\ jobs[j].lease = "live"
                /\ jobs'[j].lease = "null"]_vars
  BY ActionStep DEF ChargesOnce
<1> QED
  BY <1>1, Invariance, PTL DEF Spec, ChargedOncePerFailure

-----------------------------------------------------------------------------
(***************************************************************************)
(* What JobQueue remembers: the row locks of open claims, the backoff of a *)
(* row, and the trail of events.                                           *)
(***************************************************************************)

\* The steps that write to the table.
LEMMA TableSteps ==
    ASSUME [Next]_vars
    PROVE  \/ \E r \in Refs, j \in Jobs : Enqueue(r, j)
           \/ \E w \in Workers : \/ ClaimCommit(w) \/ MarkRunning(w)
                                 \/ Complete(w) \/ FailWrite(w) \/ Heartbeat(w)
           \/ \E j \in Jobs : \/ LeaseExpires(j) \/ LeaseOverrun(j)
                              \/ BackoffElapses(j)
           \/ ResetStale
           \/ UNCHANGED jobs
<1>1. ASSUME NEW w \in Workers, Advance(w)
      PROVE  \/ ClaimCommit(w) \/ MarkRunning(w) \/ Complete(w)
             \/ FailWrite(w) \/ UNCHANGED jobs
  BY <1>1 DEF Advance, Poll, WorkerStop, ClaimSelect, ClaimNone,
              RecordStarted, FinishOk, FinishErr, RecordSucceeded, FailRead,
              RecordFailed, Panic, tableVars
<1>2. ASSUME NEW w \in Workers, Sweep(w) \/ Heartbeat(w) \/ Abandon(w)
      PROVE  ResetStale \/ Heartbeat(w) \/ UNCHANGED jobs
  BY <1>2 DEF Sweep, Abandon, tableVars
<1>3. ASSUME NEW p \in Procs, Start(p) \/ Shutdown(p) \/ Exit(p) \/ Crash(p)
      PROVE  ResetStale \/ UNCHANGED jobs
  BY <1>3 DEF Start, Shutdown, Exit, Crash, tableVars
<1>4. CASE UNCHANGED vars
  BY <1>4 DEF vars, tableVars
<1> QED
  BY <1>1, <1>2, <1>3, <1>4 DEF Next

-----------------------------------------------------------------------------
(* The row lock of an open claim *)

\* The row that a claim transaction has selected and not yet updated: it is
\* what the SELECT saw, and no second transaction has it.
LocksHold ==
    \A w \in Workers : pc[w] = "locking" =>
        /\ jobs[held[w]].status = "pending" /\ jobs[held[w]].due
        /\ ~LockedByOther(w, held[w])

\* A worker waits with a lock because it did before, or because it selects.
LEMMA LockEntry ==
    ASSUME TypeOK, [Next]_vars, NEW w \in Workers, pc'[w] = "locking"
    PROVE  \/ pc[w] = "locking" /\ held'[w] = held[w]
           \/ \E j \in Jobs : ClaimSelect(w, j)
<1> USE DEF TypeOK, Goto, Drop
<1>1. ASSUME NEW v \in Workers, Advance(v), pc[w] # "locking"
      PROVE  \E j \in Jobs : ClaimSelect(w, j)
  BY <1>1
     DEF Advance, Poll, WorkerStop, ClaimSelect, ClaimNone, ClaimCommit,
         MarkRunning, RecordStarted, FinishOk, FinishErr, Complete,
         RecordSucceeded, FailRead, FailWrite, RecordFailed, Panic
<1>2. ASSUME NEW v \in Workers, Advance(v), pc[w] = "locking"
      PROVE  held'[w] = held[w]
  BY <1>2
     DEF Advance, Poll, WorkerStop, ClaimSelect, ClaimNone, ClaimCommit,
         MarkRunning, RecordStarted, FinishOk, FinishErr, Complete,
         RecordSucceeded, FailRead, FailWrite, RecordFailed, Panic
<1>3. ASSUME NEW v \in Workers, Sweep(v) \/ Heartbeat(v) \/ Abandon(v)
      PROVE  pc[w] = "locking" /\ held'[w] = held[w]
  BY <1>3 DEF Sweep, Heartbeat, Abandon, workerVars
<1>4. ASSUME NEW p \in Procs, Start(p) \/ Shutdown(p) \/ Exit(p) \/ Crash(p)
      PROVE  pc[w] = "locking" /\ held'[w] = held[w]
  BY <1>4 DEF Start, Shutdown, Exit, Crash, KillWorkers, workerVars
<1>5. CASE UNCHANGED <<pc, held>>
  BY <1>5
<1>6. ASSUME NEW j \in Jobs,
             LeaseExpires(j) \/ LeaseOverrun(j) \/ BackoffElapses(j)
      PROVE  UNCHANGED <<pc, held>>
  BY <1>6 DEF LeaseExpires, LeaseOverrun, BackoffElapses, workerVars
<1>7. ASSUME NEW r \in Refs, NEW j \in Jobs, Enqueue(r, j)
      PROVE  UNCHANGED <<pc, held>>
  BY <1>7 DEF Enqueue, workerVars
<1>8. CASE UNCHANGED vars
  BY <1>5, <1>8 DEF vars, workerVars
<1> QED
  BY <1>1, <1>2, <1>3, <1>4, <1>5, <1>6, <1>7, <1>8 DEF Next

\* Nobody writes to a row another worker has locked (SELECT ... FOR UPDATE SKIP
\* LOCKED): the statements that would either skip it, wait, or ask for a row
\* in another state.
LEMMA LockedRowKept ==
    ASSUME TypeOK, TableInv, LocksHold, [Next]_vars,
           NEW w \in Workers, pc[w] = "locking", pc'[w] = "locking"
    PROVE  jobs'[held[w]] = jobs[held[w]]
<1>1. /\ held[w] \in Jobs
      /\ jobs[held[w]].status = "pending" /\ jobs[held[w]].due
      /\ \A v \in Workers \ {w} : pc[v] = "locking" => held[v] # held[w]
  BY HeldRow DEF Holding, LocksHold, LockedByOther
<1>2. ASSUME NEW j \in Jobs, NEW row \in Row, Replaces(j, row), j # held[w]
      PROVE  jobs'[held[w]] = jobs[held[w]]
  BY <1>1, <1>2, RowReplaced
<1>3. ASSUME NEW r \in Refs, NEW j \in Jobs, Enqueue(r, j)
      PROVE  jobs'[held[w]] = jobs[held[w]]
  BY <1>1, <1>2, <1>3, EnqueueEffect
<1>4. ASSUME NEW v \in Workers, ClaimCommit(v)
      PROVE  jobs'[held[w]] = jobs[held[w]]
  <2>1. v # w
    BY <1>4 DEF ClaimCommit, Goto, Drop, TypeOK
  <2> QED
    BY <1>1, <1>2, <1>4, <2>1, ClaimCommitEffect DEF ClaimCommit
<1>5. ASSUME NEW v \in Workers, MarkRunning(v)
      PROVE  jobs'[held[w]] = jobs[held[w]]
  BY <1>1, <1>2, <1>5, MarkRunningEffect DEF Replaces
<1>6. ASSUME NEW v \in Workers, Complete(v)
      PROVE  jobs'[held[w]] = jobs[held[w]]
  BY <1>1, <1>2, <1>6, CompleteEffect DEF Replaces, Leased
<1>7. ASSUME NEW v \in Workers, Heartbeat(v)
      PROVE  jobs'[held[w]] = jobs[held[w]]
  BY <1>1, <1>2, <1>7, HeartbeatEffect DEF Replaces
<1>8. ASSUME NEW v \in Workers, FailWrite(v)
      PROVE  jobs'[held[w]] = jobs[held[w]]
  <2>1. v # w /\ ~LockedByOther(v, held[v])
    BY <1>8 DEF FailWrite
  <2>2. held[v] # held[w]
    BY <2>1 DEF LockedByOther
  <2> QED
    BY <1>1, <1>2, <1>8, <2>2, FailWriteEffect
<1>9. ASSUME NEW j \in Jobs, LeaseExpires(j) \/ LeaseOverrun(j)
      PROVE  jobs'[held[w]] = jobs[held[w]]
  <2>1. jobs[j].status \in Leased
    BY <1>9, ExpiryEffect DEF TableInv, LeaseIffHeld
  <2> QED
    BY <1>1, <1>2, <1>9, <2>1, ExpiryEffect DEF Leased
<1>10. ASSUME NEW j \in Jobs, BackoffElapses(j)
       PROVE  jobs'[held[w]] = jobs[held[w]]
  BY <1>1, <1>2, <1>10, BackoffEffect DEF BackoffElapses
<1>11. CASE ResetStale
  BY <1>1, <1>11, ResetStaleEffect DEF Leased
<1>12. CASE UNCHANGED jobs
  BY <1>12
<1> QED
  BY <1>3, <1>4, <1>5, <1>6, <1>7, <1>8, <1>9, <1>10, <1>11, <1>12, TableSteps

\* Before the first process starts no claim is open; every step keeps LocksHold.
LEMMA LocksInit == Init => LocksHold
  BY DEF Init, LocksHold

\* Every step keeps LocksHold: a row that is locked stays pending and due, and no
\* second worker is let through.
LEMMA LocksStep ==
    ASSUME TypeOK, TableInv, LocksHold, [Next]_vars
    PROVE  LocksHold'
<1> SUFFICES ASSUME NEW w \in Workers, pc'[w] = "locking"
             PROVE  /\ jobs'[held'[w]].status = "pending" /\ jobs'[held'[w]].due
                    /\ ~LockedByOther(w, held[w])'
  BY DEF LocksHold
<1>1. CASE pc[w] = "locking" /\ held'[w] = held[w]
  <2>1. ASSUME NEW v \in Workers \ {w}, pc'[v] = "locking",
               held'[v] = held[w]
        PROVE  FALSE
    <3>1. pc[v] = "locking" => held'[v] = held[v]
      BY <2>1, LockEntry DEF ClaimSelect
    <3>2. pc[v] # "locking"
      BY <1>1, <2>1, <3>1 DEF LocksHold, LockedByOther
    <3>3. PICK j \in Jobs : ClaimSelect(v, j)
      BY <2>1, <3>2, LockEntry
    <3>4. j = held[w]
      BY <2>1, <3>3 DEF ClaimSelect, TypeOK
    <3> QED
      BY <1>1, <3>3, <3>4 DEF ClaimSelect, Claimable, LockedByOther
  <2>2. jobs'[held[w]] = jobs[held[w]]
    BY <1>1, LockedRowKept
  <2>3. jobs[held[w]].status = "pending" /\ jobs[held[w]].due
    BY <1>1 DEF LocksHold
  <2>4. ~LockedByOther(w, held[w])'
    <3>1. \A v \in Workers \ {w} : ~(pc'[v] = "locking" /\ held'[v] = held'[w])
      BY <1>1, <2>1
    <3> QED
      BY <3>1 DEF LockedByOther
  <2> QED
    BY <1>1, <2>2, <2>3, <2>4
<1>2. ASSUME NEW j \in Jobs, ClaimSelect(w, j)
      PROVE  /\ jobs'[held'[w]].status = "pending" /\ jobs'[held'[w]].due
             /\ ~LockedByOther(w, held[w])'
  <2>1. held'[w] = j /\ UNCHANGED jobs /\ j \in Claimable(w)
    BY <1>2 DEF ClaimSelect, TypeOK, tableVars
  <2>2. \A v \in Workers \ {w} : pc'[v] = pc[v] /\ held'[v] = held[v]
    BY <1>2 DEF ClaimSelect, Goto, TypeOK
  <2> QED
    BY <2>1, <2>2 DEF Claimable, LockedByOther
<1> QED
  BY <1>1, <1>2, LockEntry

-----------------------------------------------------------------------------
(* The trail of events *)

\* The places of run_job behind the event `started'.
Started == {"running", "done", "failing", "deciding"}

\* What a worker that holds a job is about to record, or to build upon, is
\* true of the row.
TrailAhead ==
    \A w \in Workers : held[w] \in Jobs \ overrun =>
        /\ pc[w] \in Started => "started" \in events[held[w]]
        /\ pc[w] = "logOk"   => jobs[held[w]].status = "succeeded"
        /\ pc[w] = "logErr"  => jobs[held[w]].attempts > 0

TrailInv == TrailTruthful /\ TrailAhead

\* The trail only grows, and it grows by what the recording worker stands for
\* (record_job_event, called by run_job).
LEMMA EventsGrow ==
    ASSUME TypeOK, [Next]_vars, NEW j \in Jobs
    PROVE  /\ events[j] \subseteq events'[j]
           /\ \A e \in events'[j] \ events[j] :
                 /\ UNCHANGED jobs
                 /\ \E w \in Workers :
                       /\ held[w] = j
                       /\ \/ e = "started"
                          \/ e = "succeeded" /\ pc[w] = "logOk"
                          \/ e = "failed" /\ pc[w] = "logErr"
<1>1. ASSUME NEW w \in Workers,
             RecordStarted(w) \/ RecordSucceeded(w) \/ RecordFailed(w)
      PROVE  /\ events[j] \subseteq events'[j]
             /\ \A e \in events'[j] \ events[j] :
                   /\ UNCHANGED jobs
                   /\ held[w] = j
                   /\ \/ e = "started"
                      \/ e = "succeeded" /\ pc[w] = "logOk"
                      \/ e = "failed" /\ pc[w] = "logErr"
  BY <1>1 DEF RecordStarted, RecordSucceeded, RecordFailed, TypeOK
<1>2. CASE UNCHANGED events
  BY <1>2
<1>3. ASSUME NEW w \in Workers, Advance(w)
      PROVE  \/ RecordStarted(w) \/ RecordSucceeded(w) \/ RecordFailed(w)
             \/ UNCHANGED events
  BY <1>3 DEF Advance, Poll, WorkerStop, ClaimSelect, ClaimNone, ClaimCommit,
              MarkRunning, FinishOk, FinishErr, Complete, FailRead, FailWrite,
              Panic, tableVars
<1>4. \/ \E w \in Workers : Advance(w)
      \/ UNCHANGED events
  BY DEF Next, Enqueue, Sweep, Heartbeat, Abandon, LeaseExpires, LeaseOverrun,
         BackoffElapses, Start, Shutdown, Exit, Crash, vars, tableVars
<1> QED
  BY <1>1, <1>2, <1>3, <1>4

\* A job gets its outcome from a worker that executes it (complete_job,
\* fail_job).
LEMMA NewOutcome ==
    ASSUME TypeOK, [Next]_vars, NEW j \in Jobs,
           jobs'[j].status \in Settled, jobs[j].status \notin Settled
    PROVE  \E w \in Workers : held[w] = j /\ pc[w] \in Started
<1> USE DEF Settled
<1>1. ASSUME NEW i \in Jobs, NEW row \in Row, Replaces(i, row)
      PROVE  jobs'[j] = IF i = j THEN row ELSE jobs[j]
  BY <1>1, RowReplaced
<1>2. ASSUME NEW w \in Workers, Complete(w) \/ FailWrite(w)
      PROVE  held[w] = j /\ pc[w] \in Started
  <2>1. pc[w] \in Started
    BY <1>2 DEF Complete, FailWrite, Started
  <2>2. CASE Complete(w)
    BY <1>1, <2>1, <2>2, CompleteEffect DEF Replaces
  <2>3. CASE FailWrite(w)
    BY <1>1, <2>1, <2>3, FailWriteEffect
  <2> QED
    BY <1>2, <2>2, <2>3
<1>3. ASSUME NEW r \in Refs, NEW i \in Jobs, Enqueue(r, i)
      PROVE  FALSE
  BY <1>1, <1>3, EnqueueEffect
<1>4. ASSUME NEW w \in Workers, ClaimCommit(w)
      PROVE  FALSE
  BY <1>1, <1>4, ClaimCommitEffect
<1>5. ASSUME NEW w \in Workers, MarkRunning(w)
      PROVE  FALSE
  BY <1>1, <1>5, MarkRunningEffect DEF Replaces
<1>6. ASSUME NEW w \in Workers, Heartbeat(w)
      PROVE  FALSE
  BY <1>1, <1>6, HeartbeatEffect DEF Replaces
<1>7. ASSUME NEW i \in Jobs,
             LeaseExpires(i) \/ LeaseOverrun(i) \/ BackoffElapses(i)
      PROVE  FALSE
  BY <1>1, <1>7, ExpiryEffect, BackoffEffect
<1>8. CASE ResetStale
  BY <1>8, ResetStaleEffect
<1> QED
  BY <1>2, <1>3, <1>4, <1>5, <1>6, <1>7, <1>8, TableSteps

\* A worker gets to a place the trail speaks of from such a place, or by the
\* statement that makes it true.
LEMMA PlaceEntry ==
    ASSUME TypeOK, [Next]_vars, NEW w \in Workers,
           pc'[w] \in Started \cup {"logOk", "logErr"}
    PROVE  /\ held'[w] = held[w]
           /\ \/ pc'[w] \in Started /\ pc[w] \in Started
              \/ pc'[w] = pc[w]
              \/ RecordStarted(w) \/ Complete(w) \/ FailWrite(w)
<1> USE DEF TypeOK, Goto, Drop, Started
<1>1. ASSUME NEW v \in Workers, Advance(v), v # w
      PROVE  pc'[w] = pc[w] /\ held'[w] = held[w]
  BY <1>1
     DEF Advance, Poll, WorkerStop, ClaimSelect, ClaimNone, ClaimCommit,
         MarkRunning, RecordStarted, FinishOk, FinishErr, Complete,
         RecordSucceeded, FailRead, FailWrite, RecordFailed, Panic
<1>2. CASE Advance(w)
  <2>1. \/ RecordStarted(w) \/ FinishOk(w) \/ FinishErr(w) \/ Complete(w)
        \/ FailRead(w) \/ FailWrite(w)
    BY <1>2 DEF Advance, Poll, WorkerStop, ClaimSelect, ClaimNone, ClaimCommit,
                MarkRunning, RecordSucceeded, RecordFailed, Panic
  <2>2. CASE RecordStarted(w) \/ Complete(w)
    BY <2>2 DEF RecordStarted, Complete
  <2>3. CASE FailWrite(w)
    BY <2>3 DEF FailWrite
  <2>4. CASE FinishOk(w) \/ FinishErr(w) \/ FailRead(w)
    BY <2>4 DEF FinishOk, FinishErr, FailRead
  <2> QED
    BY <2>1, <2>2, <2>3, <2>4
<1>3. ASSUME NEW v \in Workers, Sweep(v) \/ Heartbeat(v) \/ Abandon(v)
      PROVE  pc'[w] = pc[w] /\ held'[w] = held[w]
  BY <1>3 DEF Sweep, Heartbeat, Abandon, workerVars
<1>4. ASSUME NEW p \in Procs, Start(p) \/ Shutdown(p) \/ Exit(p) \/ Crash(p)
      PROVE  pc'[w] = pc[w] /\ held'[w] = held[w]
  BY <1>4 DEF Start, Shutdown, Exit, Crash, KillWorkers, workerVars
<1>5. CASE UNCHANGED <<pc, held>>
  BY <1>5
<1>6. (\E r \in Refs, j \in Jobs : Enqueue(r, j))
      \/ (\E j \in Jobs : LeaseExpires(j) \/ LeaseOverrun(j)
                          \/ BackoffElapses(j))
      \/ UNCHANGED vars
      => UNCHANGED <<pc, held>>
  BY DEF Enqueue, LeaseExpires, LeaseOverrun, BackoffElapses, workerVars, vars
<1> QED
  BY <1>1, <1>2, <1>3, <1>4, <1>5, <1>6 DEF Next

\* Before the first process starts nothing is recorded.
LEMMA TrailInit == Init => TrailInv
  BY DEF Init, NoRow, TrailInv, TrailTruthful, TrailAhead, Settled, Started

\* The history of overruns only grows.
LEMMA OverrunGrows ==
    ASSUME [Next]_vars
    PROVE  overrun \subseteq overrun'
  BY DEF Next, Enqueue, Advance, Poll, WorkerStop, ClaimSelect, ClaimNone,
         ClaimCommit, MarkRunning, RecordStarted, FinishOk, FinishErr, Complete,
         RecordSucceeded, FailRead, FailWrite, RecordFailed, Panic, Sweep,
         Heartbeat, Abandon, LeaseExpires, LeaseOverrun, BackoffElapses, Start,
         Shutdown, Exit, Crash, vars, ghostVars

\* Every step keeps the trail true to the table.
LEMMA TrailTruthfulStep ==
    ASSUME IInv, TrailInv, [Next]_vars
    PROVE  TrailTruthful'
<1> SUFFICES ASSUME NEW j \in Jobs, j \notin overrun'
             PROVE  /\ jobs'[j].status \in Settled => "started" \in events'[j]
                    /\ "succeeded" \in events'[j]
                          => jobs'[j].status = "succeeded"
                    /\ "failed" \in events'[j] => jobs'[j].attempts > 0
  BY DEF TrailTruthful
<1>1. TypeOK /\ j \notin overrun /\ KeepsOutcome /\ ChargesOnce
  BY OverrunGrows, ActionStep DEF IInv
<1>2. jobs'[j].attempts >= jobs[j].attempts
  <2>1. jobs[j].attempts \in Nat
    BY <1>1 DEF TypeOK, Row
  <2> QED
    BY <1>1, <2>1 DEF ChargesOnce
<1>3. jobs[j].attempts \in Nat /\ jobs'[j].attempts \in Nat
  BY <1>1, TableStepType DEF TypeOK, Row
<1>4. jobs'[j].status \in Settled => "started" \in events'[j]
  <2>1. CASE jobs[j].status \in Settled
    BY <1>1, <2>1, EventsGrow DEF TrailInv, TrailTruthful
  <2>2. CASE jobs'[j].status \in Settled /\ jobs[j].status \notin Settled
    BY <1>1, <2>2, NewOutcome, EventsGrow DEF TrailInv, TrailAhead
  <2> QED
    BY <2>1, <2>2
<1>5. "succeeded" \in events'[j] => jobs'[j].status = "succeeded"
  <2>1. CASE "succeeded" \in events[j]
    BY <1>1, <2>1 DEF TrailInv, TrailTruthful, KeepsOutcome, Settled
  <2>2. CASE "succeeded" \in events'[j] \ events[j]
    BY <1>1, <2>2, EventsGrow DEF TrailInv, TrailAhead
  <2> QED
    BY <2>1, <2>2
<1>6. "failed" \in events'[j] => jobs'[j].attempts > 0
  <2>1. CASE "failed" \in events[j]
    BY <1>1, <1>2, <1>3, <2>1 DEF TrailInv, TrailTruthful
  <2>2. CASE "failed" \in events'[j] \ events[j]
    BY <1>1, <1>2, <1>3, <2>2, EventsGrow DEF TrailInv, TrailAhead
  <2> QED
    BY <2>1, <2>2
<1> QED
  BY <1>4, <1>5, <1>6

\* Every step keeps true what the workers are about to record.
LEMMA TrailAheadStep ==
    ASSUME IInv, TrailInv, [Next]_vars
    PROVE  TrailAhead'
<1> SUFFICES ASSUME NEW w \in Workers, held'[w] \in Jobs, held'[w] \notin overrun',
                    pc'[w] \in Started \cup {"logOk", "logErr"}
             PROVE  /\ pc'[w] \in Started => "started" \in events'[held'[w]]
                    /\ pc'[w] = "logOk"
                          => jobs'[held'[w]].status = "succeeded"
                    /\ pc'[w] = "logErr" => jobs'[held'[w]].attempts > 0
  BY DEF TrailAhead
<1> DEFINE j == held[w]
<1>1. /\ TypeOK /\ ExecInv /\ KeepsOutcome /\ ChargesOnce
      /\ held'[w] = j /\ j \in Jobs /\ j \notin overrun
  BY OverrunGrows, ActionStep, PlaceEntry DEF IInv
<1> HIDE DEF j
<1>2. jobs[j].attempts \in Nat /\ jobs'[j].attempts \in Nat
  BY <1>1, TableStepType DEF TypeOK, Row
<1>3. jobs'[j].attempts >= jobs[j].attempts
  BY <1>1, <1>2 DEF ChargesOnce
<1>4. CASE pc'[w] \in Started /\ pc[w] \in Started
  BY <1>1, <1>4, EventsGrow DEF TrailInv, TrailAhead, Started, j
<1>5. CASE pc'[w] = pc[w] /\ pc[w] = "logOk"
  BY <1>1, <1>5 DEF TrailInv, TrailAhead, KeepsOutcome, Settled, Started, j
<1>6. CASE pc'[w] = pc[w] /\ pc[w] = "logErr"
  BY <1>1, <1>2, <1>3, <1>6 DEF TrailInv, TrailAhead, Started, j
<1>7. CASE RecordStarted(w)
  BY <1>1, <1>7 DEF RecordStarted, Goto, TypeOK, Started, j
<1>8. CASE Complete(w)
  <2>1. pc'[w] = "logOk" /\ pc[w] = "done"
    BY <1>1, <1>8 DEF Complete, Goto, TypeOK
  <2>2. jobs[j].status \in Leased
    BY <1>1, <2>1 DEF ExecInv, SoleExecutor, Executors, Executing, j
  <2>3. jobs'[j] = Move(jobs[j], "succeeded", "null") /\ jobs[j] \in Row
    BY <1>1, <1>8, <2>2 DEF Complete, TypeOK, j
  <2>4. jobs'[j].status = "succeeded"
    BY <2>3 DEF Move, Row
  <2> QED
    BY <1>1, <2>1, <2>4 DEF Started
<1>9. CASE FailWrite(w)
  <2>1. pc'[w] = "logErr" /\ ~(pc'[w] = "idle") /\ seen[w] \in Nat
    BY <1>1, <1>9, FailWriteEffect DEF TypeOK, Started
  <2>2. PICK row \in Row : Replaces(j, row) /\ row.attempts = seen[w] + 1
    BY <1>1, <1>9, <2>1, FailWriteEffect DEF TypeOK, j
  <2>3. jobs'[j].attempts > 0
    BY <1>1, <2>1, <2>2, RowReplaced
  <2> QED
    BY <1>1, <2>1, <2>3 DEF Started
<1>10. \/ pc'[w] \in Started /\ pc[w] \in Started
       \/ pc'[w] = pc[w] /\ pc[w] = "logOk"
       \/ pc'[w] = pc[w] /\ pc[w] = "logErr"
       \/ RecordStarted(w) \/ Complete(w) \/ FailWrite(w)
  BY <1>1, PlaceEntry
<1> QED
  BY <1>4, <1>5, <1>6, <1>7, <1>8, <1>9, <1>10

-----------------------------------------------------------------------------
(* The theorems *)

\* What the table, the executions, the locks and the trail keep together.
FullInv == IInv /\ LocksHold /\ TrailInv

\* FullInv holds in every reachable state.
THEOREM FullInvariance == Spec => []FullInv
<1>1. Init => FullInv
  BY InitIInv, LocksInit, TrailInit DEF FullInv
<1>2. FullInv /\ [Next]_vars => FullInv'
  BY NextIInv, LocksStep, TrailTruthfulStep, TrailAheadStep
     DEF FullInv, IInv, TrailInv
<1> QED
  BY <1>1, <1>2, PTL DEF Spec

\* The event trail never contradicts the table (record_job_event is a statement
\* of its own, before or after the one that changes the row).
THEOREM TrailIsTruthful == Spec => []TrailTruthful
  BY FullInvariance, PTL DEF FullInv, TrailInv

\* A row that a claim has locked is still what its SELECT saw (pending, due),
\* and nobody else has it: the two statements of claim_next_job are one.
THEOREM ClaimIsAtomic == Spec => []LocksHold
  BY FullInvariance, PTL DEF FullInv

\* A pending job that is not due stays pending, and nobody executes it.
LEMMA BackoffStep ==
    ASSUME IInv, LocksHold, [Next]_vars, NEW j \in Jobs, j \notin overrun,
           jobs[j].status = "pending", ~jobs[j].due
    PROVE  jobs'[j].status = "pending" /\ Executors(j) = {}
<1>0. TypeOK /\ TableInv /\ ExecInv
  BY DEF IInv
<1>1. Executors(j) = {}
  BY <1>0 DEF ExecInv, SoleExecutor, Leased, Executors
<1>2. ASSUME NEW i \in Jobs, NEW row \in Row, Replaces(i, row), i # j
      PROVE  jobs'[j].status = "pending"
  BY <1>0, <1>2, RowReplaced
<1>3. ASSUME NEW r \in Refs, NEW i \in Jobs, Enqueue(r, i)
      PROVE  jobs'[j].status = "pending"
  BY <1>0, <1>2, <1>3, EnqueueEffect
<1>4. ASSUME NEW w \in Workers, ClaimCommit(w)
      PROVE  jobs'[j].status = "pending"
  <2>1. pc[w] = "locking" /\ held[w] # j
    BY <1>4 DEF ClaimCommit, LocksHold
  <2> QED
    BY <1>0, <1>2, <1>4, <2>1, ClaimCommitEffect
<1>5. ASSUME NEW w \in Workers, MarkRunning(w)
      PROVE  jobs'[j].status = "pending"
  BY <1>0, <1>2, <1>5, MarkRunningEffect DEF Replaces
<1>6. ASSUME NEW w \in Workers, Complete(w)
      PROVE  jobs'[j].status = "pending"
  BY <1>0, <1>2, <1>6, CompleteEffect DEF Replaces, Leased
<1>7. ASSUME NEW w \in Workers, Heartbeat(w)
      PROVE  jobs'[j].status = "pending"
  BY <1>0, <1>2, <1>7, HeartbeatEffect DEF Replaces
<1>8. ASSUME NEW w \in Workers, FailWrite(w)
      PROVE  jobs'[j].status = "pending"
  <2>1. held[w] # j
    BY <1>1, <1>8 DEF FailWrite, Executors, Executing
  <2> QED
    BY <1>0, <1>2, <1>8, <2>1, FailWriteEffect
<1>9. ASSUME NEW i \in Jobs, LeaseExpires(i) \/ LeaseOverrun(i)
      PROVE  jobs'[j].status = "pending"
  <2>1. jobs[i].status \in Leased
    BY <1>0, <1>9, ExpiryEffect DEF TableInv, LeaseIffHeld
  <2> QED
    BY <1>0, <1>2, <1>9, <2>1, ExpiryEffect DEF Leased
<1>10. ASSUME NEW i \in Jobs, BackoffElapses(i)
       PROVE  jobs'[j].status = "pending"
  BY <1>0, <1>2, <1>10, BackoffEffect, RowReplaced
<1>11. CASE ResetStale
  BY <1>0, <1>1, <1>11, ResetStaleEffect DEF Leased
<1>12. CASE UNCHANGED jobs
  BY <1>1, <1>12
<1> QED
  BY <1>1, <1>3, <1>4, <1>5, <1>6, <1>7, <1>8, <1>9, <1>10, <1>11, <1>12,
     TableSteps

\* A backoff is never cut short, by any interleaving of claims, sweeps and
\* failures: only a claim could, and the row it has locked is due.
THEOREM BackoffsHold == Spec => BackoffRespected
<1>1. FullInv /\ [Next]_vars =>
        [\A j \in Jobs \ overrun :
            jobs[j].status = "pending" /\ ~jobs[j].due =>
                /\ jobs'[j].status = "pending"
                /\ Executors(j) = {}]_vars
  BY BackoffStep DEF FullInv
<1> QED
  BY <1>1, FullInvariance, PTL DEF Spec, BackoffRespected
=============================================================================
