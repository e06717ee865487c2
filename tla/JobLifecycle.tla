---------------------------- MODULE JobLifecycle ----------------------------
(***************************************************************************)
(* What the durable queue promises to the code that submits jobs and to    *)
(* the code that executes them, without leases, row locks, processes or    *)
(* program counters: a job is queued, is held by an execution, and ends    *)
(* succeeded or dead.  JobQueue implements this specification.             *)
(*                                                                         *)
(* Executions are identified by the worker that runs them.  The promise of *)
(* a single execution, of a final outcome and of an exact count of         *)
(* attempts is made for the jobs that are not in `loose', the jobs whose   *)
(* lease once ran out under an execution.                                  *)
(***************************************************************************)
EXTENDS Integers

CONSTANTS Workers, Jobs, Refs, MaxAttempts, NoJob, NoRef

VARIABLES
    phase,    \* job -> where it is in its life
    ref,      \* job -> the (kind, ref_id) it is for
    attempts, \* job -> attempts charged, up to the last one allowed
    exec,     \* worker -> the job it executes
    loose     \* jobs that may have overlapping executions

lifeVars == <<phase, ref, attempts, exec, loose>>

Phases == {"none", "queued", "held", "succeeded", "dead"}
Live   == {"queued", "held"}

LifeTypeOK ==
    /\ phase    \in [Jobs -> Phases]
    /\ ref      \in [Jobs -> Refs \cup {NoRef}]
    /\ attempts \in [Jobs -> 0..MaxAttempts]
    /\ exec     \in [Workers -> Jobs \cup {NoJob}]
    /\ loose    \in SUBSET Jobs

LifeInit ==
    /\ phase    = [j \in Jobs |-> "none"]
    /\ ref      = [j \in Jobs |-> NoRef]
    /\ attempts = [j \in Jobs |-> 0]
    /\ exec     = [w \in Workers |-> NoJob]
    /\ loose    = {}

LiveJob(r) == \E j \in Jobs : phase[j] \in Live /\ ref[j] = r

\* Faulty: a job is accepted beside one that is held.
SubmitBesideHeld(r, j) ==
    /\ phase[j] = "none"
    /\ ~\E i \in Jobs : phase[i] = "queued" /\ ref[i] = r
    /\ phase' = [phase EXCEPT ![j] = "queued"]
    /\ ref' = [ref EXCEPT ![j] = r]
    /\ UNCHANGED <<attempts, exec, loose>>

\* A job is accepted unless one is live for the same reference.
Submit(r, j) ==
    /\ phase[j] = "none"
    /\ ~LiveJob(r)
    /\ phase' = [phase EXCEPT ![j] = "queued"]
    /\ ref' = [ref EXCEPT ![j] = r]
    /\ UNCHANGED <<attempts, exec, loose>>

\* An execution begins: the only one, if the job is not loose.
Begin(w, j) ==
    /\ exec[w] = NoJob /\ phase[j] = "queued"
    /\ j \in loose \/ \A v \in Workers : exec[v] # j
    /\ phase' = [phase EXCEPT ![j] = "held"]
    /\ exec' = [exec EXCEPT ![w] = j]
    /\ UNCHANGED <<ref, attempts, loose>>

\* An execution ends well.  One that was overtaken may find the job elsewhere.
Succeed(w, j) ==
    /\ exec[w] = j
    /\ phase[j] = "held" \/ j \in loose
    /\ phase' = IF phase[j] = "held"
                THEN [phase EXCEPT ![j] = "succeeded"] ELSE phase
    /\ exec' = [exec EXCEPT ![w] = NoJob]
    /\ UNCHANGED <<ref, attempts, loose>>

\* An execution ends badly: one attempt is charged, the last one kills.
Fail(w, j) ==
    /\ exec[w] = j /\ phase[j] = "held" /\ j \notin loose
    /\ attempts' = [attempts EXCEPT ![j] = @ + 1]
    /\ phase' = [phase EXCEPT ![j] = IF attempts'[j] = MaxAttempts
                                     THEN "dead" ELSE "queued"]
    /\ exec' = [exec EXCEPT ![w] = NoJob]
    /\ UNCHANGED <<ref, loose>>

\* The overlapping execution of a loose job ends badly: it may overwrite
\* whatever the job has become, unless another job of its reference is live.
FailLoose(w, j) ==
    /\ exec[w] = j /\ j \in loose
    /\ \/ UNCHANGED <<phase, attempts>>
       \/ /\ \A i \in Jobs \ {j} : phase[i] \in Live => ref[i] # ref[j]
          /\ phase' = [phase EXCEPT ![j] = "queued"]
          /\ \E n \in 1 .. MaxAttempts - 1 :
                attempts' = [attempts EXCEPT ![j] = n]
       \/ /\ phase' = [phase EXCEPT ![j] = "dead"]
          /\ attempts' = [attempts EXCEPT ![j] = MaxAttempts]
    /\ exec' = [exec EXCEPT ![w] = NoJob]
    /\ UNCHANGED <<ref, loose>>

\* Executions are lost (crash, error, panic); their jobs stay held.
Lose(W) ==
    /\ exec' = [w \in Workers |-> IF w \in W THEN NoJob ELSE exec[w]]
    /\ UNCHANGED <<phase, ref, attempts, loose>>

\* Held jobs are queued again, at no charge.  Only a loose one can still have
\* an execution.
Requeue(J) ==
    /\ \A j \in J : /\ phase[j] = "held"
                    /\ j \in loose \/ \A w \in Workers : exec[w] # j
    /\ phase' = [j \in Jobs |-> IF j \in J THEN "queued" ELSE phase[j]]
    /\ UNCHANGED <<ref, attempts, exec, loose>>

\* The lease of a job runs out under an execution.
Loosen(j) ==
    /\ phase[j] = "held" /\ \E w \in Workers : exec[w] = j
    /\ loose' = loose \cup {j}
    /\ UNCHANGED <<phase, ref, attempts, exec>>

LifeNext ==
    \/ \E r \in Refs, j \in Jobs : Submit(r, j)
    \/ \E w \in Workers, j \in Jobs :
          Begin(w, j) \/ Succeed(w, j) \/ Fail(w, j) \/ FailLoose(w, j)
    \/ \E W \in SUBSET Workers : Lose(W)
    \/ \E J \in SUBSET Jobs : Requeue(J)
    \/ \E j \in Jobs : Loosen(j)

LifeSpec == LifeInit /\ [][LifeNext]_lifeVars
=============================================================================
