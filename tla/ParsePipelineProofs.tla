------------------------- MODULE ParsePipelineProofs -------------------------
(***************************************************************************)
(* Proofs about ParsePipeline for every number of requests, workers, files *)
(* and jobs: what the file shows is what its job did, whatever requests,   *)
(* deletions, failures and lost executions happen in between.  They begin  *)
(* with what JobLifecycle alone is worth: the invariant that every code    *)
(* which submits and executes jobs may count on.                           *)
(***************************************************************************)
EXTENDS ParsePipeline, TLAPS

\* What the lemmas ask of the constants.
LifeConstants ==
    /\ MaxAttempts \in Nat \ {0}
    /\ NoJob \notin Jobs
    /\ NoRef \notin Refs

-----------------------------------------------------------------------------
\* Of the jobs of a reference, one at most is live.
OneLive ==
    \A i, j \in Jobs :
        phase[i] \in Live /\ phase[j] \in Live /\ ref[i] = ref[j] => i = j

\* A job that is not loose has one execution at most, and is held for it.
OneExecution ==
    \A j \in Jobs \ loose : \A v, w \in Workers :
        exec[v] = j /\ exec[w] = j => v = w /\ phase[j] = "held"

\* It is dead exactly when its attempts are used up.
ExactBudget ==
    \A j \in Jobs \ loose : phase[j] = "dead" <=> attempts[j] = MaxAttempts

\* A job has a reference exactly when it was submitted, and only then it is
\* executed or becomes loose.
Submitted ==
    /\ \A j \in Jobs : phase[j] = "none" <=> ref[j] = NoRef
    /\ \A j \in loose : phase[j] # "none"
    /\ \A w \in Workers : exec[w] # NoJob => phase[exec[w]] # "none"

LifeInv == LifeTypeOK /\ OneLive /\ OneExecution /\ ExactBudget /\ Submitted

-----------------------------------------------------------------------------
\* At the beginning there are no jobs.
LEMMA LifeInitInv ==
    ASSUME LifeConstants, LifeInit
    PROVE  LifeInv
<1> USE DEF LifeConstants, LifeInit
<1>1. LifeTypeOK
  BY DEF LifeTypeOK, Phases
<1>2. OneLive /\ OneExecution /\ ExactBudget /\ Submitted
  BY DEF OneLive, OneExecution, ExactBudget, Submitted, Live
<1> QED
  BY <1>1, <1>2 DEF LifeInv

\* A job is accepted.
LEMMA SubmitInv ==
    ASSUME LifeConstants, LifeInv, NEW r \in Refs, NEW j \in Jobs, Submit(r, j)
    PROVE  LifeInv'
<1> USE DEF LifeConstants, LifeInv, Submit, LifeTypeOK
<1>1. LifeTypeOK'
  BY DEF Phases
<1>2. OneLive'
  BY DEF OneLive, LiveJob, Live
<1>3. OneExecution' /\ ExactBudget'
  BY DEF OneExecution, ExactBudget
<1>4. Submitted'
  BY DEF Submitted
<1> QED
  BY <1>1, <1>2, <1>3, <1>4

\* An execution begins.
LEMMA BeginInv ==
    ASSUME LifeConstants, LifeInv, NEW w \in Workers, NEW j \in Jobs, Begin(w, j)
    PROVE  LifeInv'
<1> USE DEF LifeConstants, LifeInv, Begin, LifeTypeOK
<1>1. LifeTypeOK'
  BY DEF Phases
<1>2. OneLive'
  BY DEF OneLive, Live
<1>3. OneExecution' /\ ExactBudget'
  BY DEF OneExecution, ExactBudget
<1>4. Submitted'
  BY DEF Submitted
<1> QED
  BY <1>1, <1>2, <1>3, <1>4

\* An execution ends well.
LEMMA SucceedInv ==
    ASSUME LifeConstants, LifeInv, NEW w \in Workers, NEW j \in Jobs,
           Succeed(w, j)
    PROVE  LifeInv'
<1> USE DEF LifeConstants, LifeInv, Succeed, LifeTypeOK
<1>1. LifeTypeOK'
  BY DEF Phases
<1>2. OneLive'
  BY DEF OneLive, Live
<1>3. OneExecution' /\ ExactBudget'
  BY DEF OneExecution, ExactBudget
<1>4. Submitted'
  BY DEF Submitted
<1> QED
  BY <1>1, <1>2, <1>3, <1>4

\* An execution ends badly: that an attempt is left to be charged follows from
\* ExactBudget, for a held job is not dead.
LEMMA FailInv ==
    ASSUME LifeConstants, LifeInv, NEW w \in Workers, NEW j \in Jobs, Fail(w, j)
    PROVE  LifeInv'
<1> USE DEF LifeConstants, LifeInv, Fail, LifeTypeOK
<1>0. attempts[j] \in 0 .. MaxAttempts /\ attempts[j] # MaxAttempts
  BY DEF ExactBudget
<1>1. LifeTypeOK'
  BY <1>0 DEF Phases
<1>2. OneLive'
  BY DEF OneLive, Live
<1>3. OneExecution'
  BY DEF OneExecution
<1>4. ExactBudget'
  BY <1>0 DEF ExactBudget
<1>5. Submitted'
  BY DEF Submitted
<1> QED
  BY <1>1, <1>2, <1>3, <1>4, <1>5

\* An execution of a loose job ends badly.
LEMMA FailLooseInv ==
    ASSUME LifeConstants, LifeInv, NEW w \in Workers, NEW j \in Jobs,
           FailLoose(w, j)
    PROVE  LifeInv'
<1> USE DEF LifeConstants, LifeInv, FailLoose, LifeTypeOK
<1>1. LifeTypeOK'
  BY DEF Phases
<1>2. OneLive'
  BY DEF OneLive, Live
<1>3. OneExecution' /\ ExactBudget'
  BY DEF OneExecution, ExactBudget
<1>4. Submitted'
  BY DEF Submitted
<1> QED
  BY <1>1, <1>2, <1>3, <1>4

\* Executions are lost.
LEMMA LoseInv ==
    ASSUME LifeConstants, LifeInv, NEW W \in SUBSET Workers, Lose(W)
    PROVE  LifeInv'
<1> USE DEF LifeConstants, LifeInv, Lose, LifeTypeOK
<1>1. LifeTypeOK' /\ OneLive'
  BY DEF OneLive
<1>2. OneExecution' /\ ExactBudget' /\ Submitted'
  BY DEF OneExecution, ExactBudget, Submitted
<1> QED
  BY <1>1, <1>2

\* Held jobs are queued again.
LEMMA RequeueInv ==
    ASSUME LifeConstants, LifeInv, NEW J \in SUBSET Jobs, Requeue(J)
    PROVE  LifeInv'
<1> USE DEF LifeConstants, LifeInv, Requeue, LifeTypeOK
<1>1. LifeTypeOK'
  BY DEF Phases
<1>2. OneLive'
  BY DEF OneLive, Live
<1>3. OneExecution' /\ ExactBudget'
  BY DEF OneExecution, ExactBudget
<1>4. Submitted'
  BY DEF Submitted
<1> QED
  BY <1>1, <1>2, <1>3, <1>4

\* A job becomes loose.
LEMMA LoosenInv ==
    ASSUME LifeConstants, LifeInv, NEW j \in Jobs, Loosen(j)
    PROVE  LifeInv'
<1> USE DEF LifeConstants, LifeInv, Loosen, LifeTypeOK
<1>1. LifeTypeOK' /\ OneLive'
  BY DEF OneLive
<1>2. OneExecution' /\ ExactBudget' /\ Submitted'
  BY DEF OneExecution, ExactBudget, Submitted
<1> QED
  BY <1>1, <1>2

\* Every step keeps the invariant.
LEMMA LifeStepInv ==
    ASSUME LifeConstants, LifeInv, [LifeNext]_lifeVars
    PROVE  LifeInv'
<1>1. CASE UNCHANGED lifeVars
  BY <1>1 DEF lifeVars, LifeInv, LifeTypeOK, OneLive, OneExecution, ExactBudget,
              Submitted
<1> QED
  BY <1>1, SubmitInv, BeginInv, SucceedInv, FailInv, FailLooseInv, LoseInv,
     RequeueInv, LoosenInv DEF LifeNext

\* The promise of the queue, as the code that relies on it may read it: one live
\* job per reference, one execution of a job, an exact budget (jobs.rs; that
\* JobQueue keeps it is QueueImplementsLifecycle).
THEOREM LifecyclePromise ==
    ASSUME LifeConstants
    PROVE  LifeSpec => []LifeInv
<1>1. LifeInit => LifeInv
  BY LifeInitInv
<1>2. LifeInv /\ [LifeNext]_lifeVars => LifeInv'
  BY LifeStepInv
<1> QED
  BY <1>1, <1>2, PTL DEF LifeSpec

-----------------------------------------------------------------------------
(* Facts for the components that rely on the queue *)

\* A reference never changes, and a loose job stays loose.
LEMMA LooseGrows ==
    ASSUME LifeInv, [LifeNext]_lifeVars
    PROVE  /\ loose \subseteq loose'
           /\ \A j \in Jobs : phase[j] # "none" =>
                 phase'[j] # "none" /\ ref'[j] = ref[j]
<1> USE DEF LifeInv, LifeTypeOK
<1>1. ASSUME NEW r \in Refs, NEW j \in Jobs, Submit(r, j)
      PROVE  /\ loose' = loose
             /\ \A i \in Jobs : phase[i] # "none" =>
                   phase'[i] # "none" /\ ref'[i] = ref[i]
  BY <1>1 DEF Submit
<1>2. ASSUME NEW w \in Workers, NEW j \in Jobs,
             Begin(w, j) \/ Succeed(w, j) \/ Fail(w, j) \/ FailLoose(w, j)
      PROVE  /\ loose' = loose /\ ref' = ref
             /\ \A i \in Jobs : phase[i] # "none" => phase'[i] # "none"
  BY <1>2 DEF Begin, Succeed, Fail, FailLoose
<1>3. ASSUME NEW J \in SUBSET Jobs, Requeue(J)
      PROVE  /\ loose' = loose /\ ref' = ref
             /\ \A i \in Jobs : phase[i] # "none" => phase'[i] # "none"
  BY <1>3 DEF Requeue
<1>4. ASSUME NEW W \in SUBSET Workers, Lose(W)
      PROVE  loose' = loose /\ ref' = ref /\ phase' = phase
  BY <1>4 DEF Lose
<1>5. ASSUME NEW j \in Jobs, Loosen(j)
      PROVE  loose \subseteq loose' /\ ref' = ref /\ phase' = phase
  BY <1>5 DEF Loosen
<1>6. CASE UNCHANGED lifeVars
  BY <1>6 DEF lifeVars
<1> QED
  BY <1>1, <1>2, <1>3, <1>4, <1>5, <1>6 DEF LifeNext

-----------------------------------------------------------------------------
(* The inductive invariants *)

\* Nobody is bound to write the status of a file again: a file that is still
\* processing although an execution is past its last write is astray.
LateIsWritten ==
    \A w \in Workers :
        step[w] \in Late /\ parse[FileOf(w)] = "processing" =>
            FileOf(w) \in deleted \cup astray

\* An execution that is about to persist has written its artifact.
HasArtifact ==
    \A f \in Files : \A w \in Parsers(f) :
        Tidy(f) /\ step[w] = "persist" => f \in artifact

\* What the place of an execution in run_parse_job says of the file.
WrittenSoFar(w, f) ==
    /\ step[w] \in {"translate", "ok"} => f \in artifact /\ parse[f] = "done"
    /\ step[w] = "ok" => f \in asked
    /\ step[w] = "err" => parse[f] = "failed"

Progress ==
    \A f \in Files \ (deleted \cup astray) : \A w \in Parsers(f) :
        Tidy(f) => WrittenSoFar(w, f)

\* Only files that were uploaded are deleted.
DeletedWasThere == \A f \in deleted : parse[f] # "absent"

PipeInv ==
    /\ PipeTypeOK /\ LifeInv
    /\ ProcessingServed /\ LateIsWritten
    /\ HasArtifact /\ Progress /\ DoneIsComplete
    /\ DeletedWasThere

-----------------------------------------------------------------------------
(* The pipeline uses the queue as JobLifecycle lets it *)

\* The constants are as the life of jobs expects them.
LEMMA PipeConstants == LifeConstants
  BY PipelineAssumption DEF LifeConstants

\* A worker that is at work has a job, and the job a file.
LEMMA AtWork ==
    ASSUME PipeTypeOK, NEW w \in Workers, step[w] # "none"
    PROVE  exec[w] \in Jobs /\ FileOf(w) \in Files
  BY DEF PipeTypeOK, LifeTypeOK

\* Every step of the pipeline takes the queue through a step of its life.
LEMMA PipeIsLife ==
    ASSUME PipeTypeOK, [PipeNext]_pipeVars
    PROVE  [LifeNext]_lifeVars
<1>1. ASSUME NEW u \in Requesters, EnqueueParse(u)
      PROVE  [LifeNext]_lifeVars
  BY <1>1 DEF EnqueueParse, LifeNext, PipeTypeOK, Files
<1>2. ASSUME NEW w \in Workers, NEW j \in Jobs, BeginParse(w, j)
      PROVE  LifeNext
  BY <1>2 DEF BeginParse, LifeNext
<1>3. ASSUME NEW w \in Workers, ReportOk(w) \/ ReportErr(w)
      PROVE  LifeNext
  BY <1>3, AtWork DEF ReportOk, ReportErr, LifeNext
<1>4. ASSUME NEW w \in Workers, LoseExecution(w)
      PROVE  LifeNext
  <2>1. {w} \in SUBSET Workers
    OBVIOUS
  <2> QED
    BY <1>4, <2>1 DEF LoseExecution, LifeNext
<1>5. ASSUME NEW j \in Jobs, RequeueJob(j)
      PROVE  LifeNext
  <2>1. {j} \in SUBSET Jobs
    OBVIOUS
  <2> QED
    BY <1>5, <2>1 DEF RequeueJob, LifeNext
<1>6. ASSUME NEW j \in Jobs, LeaseOverrun(j)
      PROVE  LifeNext
  BY <1>6 DEF LeaseOverrun, LifeNext
<1>7. \/ \E u \in Requesters : EnqueueParse(u)
      \/ \E w \in Workers : \/ \E j \in Jobs : BeginParse(w, j)
                            \/ ReportOk(w) \/ ReportErr(w) \/ LoseExecution(w)
      \/ \E j \in Jobs : RequeueJob(j) \/ LeaseOverrun(j)
      \/ UNCHANGED lifeVars
  BY DEF PipeNext, Execute, Upload, AskParse, MarkProcessing, RequestFails,
         DeleteFile, FetchRow, ParseFails, WriteArtifact, Persist,
         StartTranslation, MarkFailed, PersistFails, StatementFails, pipeVars
<1> QED
  BY <1>1, <1>2, <1>3, <1>4, <1>5, <1>6, <1>7

-----------------------------------------------------------------------------
(* Type correctness *)

\* The part of PipeTypeOK that JobLifecycle does not give.
OwnTypeOK ==
    /\ parse    \in [Files -> Statuses]
    /\ deleted  \in SUBSET Files
    /\ artifact \in SUBSET Files
    /\ asked    \in SUBSET Files
    /\ step     \in [Workers -> Steps]
    /\ asking   \in [Requesters -> {"idle", "asked", "marked"}]
    /\ target   \in [Requesters -> Files \cup {NoFile}]
    /\ faults   \in 0..FaultLimit
    /\ astray   \in SUBSET Files
    /\ \A w \in Workers : exec[w] = NoJob <=> step[w] = "none"
    /\ \A u \in Requesters : asking[u] # "idle" => target[u] \in Files

\* A request keeps the types.
LEMMA RequestType ==
    ASSUME PipeTypeOK, NEW u \in Requesters,
           \/ \E f \in Files : Upload(u, f) \/ AskParse(u, f)
           \/ MarkProcessing(u) \/ EnqueueParse(u) \/ RequestFails(u)
    PROVE  OwnTypeOK'
<1> USE PipelineAssumption
        DEF PipeTypeOK, OwnTypeOK, Ask, AskDone, SetParse, fileVars,
            Statuses, lifeVars, Files
<1>1. ASSUME NEW f \in Files, Upload(u, f) \/ AskParse(u, f)
      PROVE  OwnTypeOK'
  BY <1>1 DEF Upload, AskParse
<1>2. CASE MarkProcessing(u)
  BY <1>2 DEF MarkProcessing
<1>3. CASE EnqueueParse(u)
  BY <1>3 DEF EnqueueParse, Submit
<1>4. CASE RequestFails(u)
  BY <1>4 DEF RequestFails, Fault
<1> QED
  BY <1>1, <1>2, <1>3, <1>4

\* An execution keeps the types.
LEMMA WorkerType ==
    ASSUME PipeTypeOK, NEW w \in Workers,
           Execute(w) \/ PersistFails(w) \/ StatementFails(w) \/ LoseExecution(w)
    PROVE  OwnTypeOK'
<1> USE PipelineAssumption
        DEF PipeTypeOK, OwnTypeOK, GoStep, SetParse, Steps, Early, Late,
            Statuses, fileVars, requestVars, lifeVars
<1>0. step[w] # "none" => FileOf(w) \in Files /\ exec[w] \in Jobs
  BY AtWork
<1>1. ASSUME NEW j \in Jobs, BeginParse(w, j)
      PROVE  OwnTypeOK'
  BY <1>1 DEF BeginParse, Begin, LifeTypeOK
<1>2. CASE FetchRow(w) \/ ParseFails(w) \/ WriteArtifact(w)
           \/ StartTranslation(w)
  BY <1>0, <1>2 DEF FetchRow, ParseFails, WriteArtifact, StartTranslation
<1>3. CASE Persist(w) \/ MarkFailed(w)
  BY <1>0, <1>3 DEF Persist, MarkFailed, Fault
<1>4. CASE ReportOk(w) \/ ReportErr(w)
  BY <1>4 DEF ReportOk, ReportErr, Succeed, Fail, FailLoose, LifeTypeOK
<1>5. CASE PersistFails(w) \/ StatementFails(w)
  BY <1>0, <1>5 DEF PersistFails, StatementFails, Fault
<1>6. CASE LoseExecution(w)
  BY <1>6 DEF LoseExecution, Lose, Fault, LifeTypeOK
<1> QED
  BY <1>1, <1>2, <1>3, <1>4, <1>5, <1>6 DEF Execute

\* Every step keeps the types.
LEMMA PipeTypeStep ==
    ASSUME PipeTypeOK, LifeInv, [PipeNext]_pipeVars
    PROVE  PipeTypeOK' /\ LifeInv'
<1>1. LifeInv'
  BY PipeConstants, PipeIsLife, LifeStepInv
<1>2. OwnTypeOK'
  <2>1. ASSUME NEW f \in Files, DeleteFile(f)
        PROVE  OwnTypeOK'
    BY <2>1 DEF DeleteFile, PipeTypeOK, OwnTypeOK, lifeVars, requestVars
  <2>2. ASSUME NEW j \in Jobs, RequeueJob(j) \/ LeaseOverrun(j)
        PROVE  OwnTypeOK'
    BY <2>2, PipelineAssumption
       DEF RequeueJob, LeaseOverrun, Requeue, Loosen, Fault, PipeTypeOK,
           OwnTypeOK, fileVars, requestVars
  <2>3. CASE UNCHANGED pipeVars
    BY <2>3 DEF pipeVars, PipeTypeOK, OwnTypeOK, lifeVars, fileVars, requestVars
  <2> QED
    BY <2>1, <2>2, <2>3, RequestType, WorkerType DEF PipeNext
<1>3. PipeTypeOK' <=> OwnTypeOK'
  BY <1>1 DEF PipeTypeOK, OwnTypeOK, LifeInv, LifeTypeOK, Submitted, FileOf, Files
<1> QED
  BY <1>1, <1>2, <1>3

-----------------------------------------------------------------------------
(* What stays in place *)

\* A worker that keeps its job keeps its file, a file that has an untidy job
\* keeps it, and a tidy file has one execution at most, of a held job.
LEMMA FilesStay ==
    ASSUME PipeTypeOK, LifeInv, [PipeNext]_pipeVars
    PROVE  /\ \A w \in Workers :
                 exec[w] # NoJob /\ exec'[w] = exec[w] => FileOf(w)' = FileOf(w)
           /\ \A f \in Files : Tidy(f)' => Tidy(f)
<1>1. /\ loose \subseteq loose' /\ loose \subseteq Jobs
      /\ \A j \in Jobs : phase[j] # "none" => ref'[j] = ref[j]
  BY PipeIsLife, LooseGrows DEF LifeInv, LifeTypeOK
<1>2. ASSUME NEW w \in Workers, exec[w] # NoJob, exec'[w] = exec[w]
      PROVE  FileOf(w)' = FileOf(w)
  BY <1>1, <1>2 DEF LifeInv, LifeTypeOK, Submitted, FileOf
<1>3. ASSUME NEW f \in Files, Tidy(f)'
      PROVE  Tidy(f)
  BY <1>1, <1>3 DEF LifeInv, Submitted, Tidy
<1> QED
  BY <1>2, <1>3

\* A tidy file has at most one execution, of a job that is held for it.
LEMMA TidySole ==
    ASSUME PipeTypeOK, LifeInv, NEW f \in Files, Tidy(f)
    PROVE  \A v, w \in Parsers(f) :
              v = w /\ phase[exec[w]] = "held" /\ LiveJob(f)
<1> SUFFICES ASSUME NEW v \in Parsers(f), NEW w \in Parsers(f)
             PROVE  v = w /\ phase[exec[w]] = "held" /\ LiveJob(f)
  OBVIOUS
<1>1. /\ exec[v] \in Jobs \ loose /\ ref[exec[v]] = f
      /\ exec[w] \in Jobs \ loose /\ ref[exec[w]] = f
  BY DEF Parsers, Tidy, LifeInv, LifeTypeOK
<1>2. phase[exec[v]] = "held" /\ phase[exec[w]] = "held"
  BY <1>1 DEF LifeInv, OneExecution, Parsers
<1>3. exec[v] = exec[w]
  BY <1>1, <1>2 DEF LifeInv, OneLive, Live
<1>4. v = w
  BY <1>1, <1>3 DEF LifeInv, OneExecution, Parsers
<1> QED
  BY <1>1, <1>2, <1>4 DEF LiveJob, Live

-----------------------------------------------------------------------------
(* A file that is processing is served *)

\* How parse_status changes: by the upload, by an execution's last write, or by
\* mark_processing.
LEMMA StatusStep ==
    ASSUME PipeTypeOK, [PipeNext]_pipeVars, NEW f \in Files,
           parse'[f] # parse[f]
    PROVE  \/ parse[f] = "absent" /\ parse'[f] = "pending"
           \/ /\ parse'[f] \in {"done", "failed"}
              /\ \E w \in Workers : FileOf(w) = f /\ (Persist(w) \/ MarkFailed(w))
           \/ /\ parse'[f] = "processing" /\ f \notin deleted
              /\ \E u \in Requesters :
                    MarkProcessing(u) /\ asking'[u] = "marked" /\ target'[u] = f
<1> USE DEF PipeTypeOK, SetParse, Ask
<1>1. ASSUME NEW u \in Requesters, NEW g \in Files, Upload(u, g)
      PROVE  parse'[f] = "pending" /\ parse[f] = "absent"
  BY <1>1 DEF Upload
<1>2. ASSUME NEW u \in Requesters, MarkProcessing(u)
      PROVE  /\ f \notin deleted /\ parse'[f] = "processing"
             /\ asking'[u] = "marked" /\ target'[u] = f
  BY <1>2 DEF MarkProcessing
<1>3. ASSUME NEW w \in Workers, Persist(w) \/ MarkFailed(w)
      PROVE  parse'[f] \in {"done", "failed"} /\ FileOf(w) = f
  BY <1>3, AtWork DEF Persist, MarkFailed
<1>4. \/ \E u \in Requesters :
            (\E g \in Files : Upload(u, g)) \/ MarkProcessing(u)
      \/ \E w \in Workers : Persist(w) \/ MarkFailed(w)
  BY DEF PipeNext, Execute, AskParse, EnqueueParse, RequestFails, DeleteFile,
         BeginParse, FetchRow, ParseFails, WriteArtifact, StartTranslation,
         ReportOk, ReportErr, PersistFails, StatementFails, LoseExecution,
         RequeueJob, LeaseOverrun, pipeVars, fileVars
<1> QED
  BY <1>1, <1>2, <1>3, <1>4

\* A deleted file stays deleted, and a file is no longer astray only when an
\* execution writes its status.
LEMMA AstrayStep ==
    ASSUME PipeTypeOK, [PipeNext]_pipeVars, NEW f \in Files
    PROVE  /\ f \in deleted => f \in deleted'
           /\ f \in astray /\ f \notin astray' =>
                 /\ parse'[f] \in {"done", "failed"}
                 /\ \E w \in Workers :
                       FileOf(w) = f /\ (Persist(w) \/ MarkFailed(w))
<1> USE DEF PipeTypeOK, SetParse
<1>1. ASSUME NEW w \in Workers, Persist(w) \/ MarkFailed(w),
             f \in astray, f \notin astray'
      PROVE  parse'[f] \in {"done", "failed"} /\ FileOf(w) = f
  BY <1>1, AtWork DEF Persist, MarkFailed
<1>2. \/ astray \subseteq astray'
      \/ \E w \in Workers : Persist(w) \/ MarkFailed(w)
  BY DEF PipeNext, Execute, Upload, AskParse, MarkProcessing, EnqueueParse,
         RequestFails, DeleteFile, BeginParse, FetchRow, ParseFails,
         WriteArtifact, StartTranslation, ReportOk, ReportErr, PersistFails,
         StatementFails, LoseExecution, RequeueJob, LeaseOverrun, pipeVars
<1>3. deleted \subseteq deleted'
  BY DEF PipeNext, Execute, Upload, AskParse, MarkProcessing, EnqueueParse,
         RequestFails, DeleteFile, BeginParse, FetchRow, ParseFails,
         WriteArtifact, Persist, StartTranslation, MarkFailed, ReportOk,
         ReportErr, PersistFails, StatementFails, LoseExecution, RequeueJob,
         LeaseOverrun, pipeVars, fileVars
<1> QED
  BY <1>1, <1>2, <1>3

\* A live job stays live until an execution of it reports.
LEMMA LiveStep ==
    ASSUME PipeTypeOK, LifeInv, [PipeNext]_pipeVars,
           NEW j \in Jobs, phase[j] \in Live
    PROVE  \/ phase'[j] \in Live /\ ref'[j] = ref[j]
           \/ \E w \in Workers : exec[w] = j /\ (ReportOk(w) \/ ReportErr(w))
<1> USE DEF LifeInv, LifeTypeOK, Live
<1>1. ref'[j] = ref[j]
  BY PipeIsLife, LooseGrows
<1>2. ASSUME NEW r \in Refs, NEW i \in Jobs, Submit(r, i)
      PROVE  phase'[j] \in Live
  BY <1>2 DEF Submit
<1>3. ASSUME NEW w \in Workers, NEW i \in Jobs, Begin(w, i)
      PROVE  phase'[j] \in Live
  BY <1>3 DEF Begin
<1>4. ASSUME NEW i \in Jobs, RequeueJob(i)
      PROVE  phase'[j] \in Live
  BY <1>4 DEF RequeueJob, Requeue
<1>5. ASSUME NEW w \in Workers, ReportOk(w) \/ ReportErr(w), exec[w] # j
      PROVE  phase'[j] \in Live
  BY <1>5, AtWork DEF ReportOk, ReportErr, Succeed, Fail, FailLoose
<1>6. CASE UNCHANGED phase
  BY <1>1, <1>6
<1>7. \/ \E r \in Refs, i \in Jobs : Submit(r, i)
      \/ \E w \in Workers, i \in Jobs : Begin(w, i)
      \/ \E i \in Jobs : RequeueJob(i)
      \/ \E w \in Workers : ReportOk(w) \/ ReportErr(w)
      \/ UNCHANGED phase
  BY DEF PipeTypeOK, Files, PipeNext, Execute, Upload, AskParse,
         MarkProcessing, EnqueueParse, RequestFails, DeleteFile, BeginParse,
         FetchRow, ParseFails, WriteArtifact, Persist, StartTranslation,
         MarkFailed, PersistFails, StatementFails, LoseExecution, Lose,
         LeaseOverrun, Loosen, pipeVars, lifeVars
<1> QED
  BY <1>1, <1>2, <1>3, <1>4, <1>5, <1>6, <1>7

\* A request that has marked its file goes on to queue a job, or is lost.
LEMMA MarkedStep ==
    ASSUME PipeTypeOK, [PipeNext]_pipeVars,
           NEW u \in Requesters, asking[u] = "marked"
    PROVE  \/ asking'[u] = "marked" /\ target'[u] = target[u]
           \/ EnqueueParse(u) \/ RequestFails(u)
<1> USE DEF PipeTypeOK, Ask, AskDone
<1>1. ASSUME NEW v \in Requesters, v # u,
             \/ \E f \in Files : Upload(v, f) \/ AskParse(v, f)
             \/ MarkProcessing(v) \/ EnqueueParse(v) \/ RequestFails(v)
      PROVE  asking'[u] = asking[u] /\ target'[u] = target[u]
  BY <1>1 DEF Upload, AskParse, MarkProcessing, EnqueueParse, RequestFails
<1>2. ~(\E f \in Files : Upload(u, f) \/ AskParse(u, f)) /\ ~MarkProcessing(u)
  BY DEF Upload, AskParse, MarkProcessing
<1>3. \/ \E v \in Requesters :
            \/ \E f \in Files : Upload(v, f) \/ AskParse(v, f)
            \/ MarkProcessing(v) \/ EnqueueParse(v) \/ RequestFails(v)
      \/ UNCHANGED requestVars
  BY DEF PipeNext, Execute, DeleteFile, BeginParse, FetchRow, ParseFails,
         WriteArtifact, Persist, StartTranslation, MarkFailed, ReportOk,
         ReportErr, PersistFails, StatementFails, LoseExecution, RequeueJob,
         LeaseOverrun, pipeVars
<1> QED
  BY <1>1, <1>2, <1>3 DEF requestVars

\* Every step leaves a processing file to somebody.
LEMMA ServedStep ==
    ASSUME PipeTypeOK, LifeInv, ProcessingServed, LateIsWritten,
           [PipeNext]_pipeVars
    PROVE  ProcessingServed'
<1> SUFFICES ASSUME NEW f \in Files, f \notin deleted' \cup astray',
                    parse'[f] = "processing"
             PROVE  \/ LiveJob(f)'
                    \/ \E u \in Requesters :
                          asking'[u] = "marked" /\ target'[u] = f
  BY DEF ProcessingServed
<1>1. CASE parse[f] # "processing"
  BY <1>1, StatusStep
<1>2. CASE parse[f] = "processing"
  <2>1. f \notin deleted \cup astray
    BY AstrayStep
  <2>2. ASSUME NEW u \in Requesters, asking[u] = "marked", target[u] = f
        PROVE  \/ LiveJob(f)'
               \/ asking'[u] = "marked" /\ target'[u] = f
    <3>1. CASE EnqueueParse(u)
      <4>1. CASE \E j \in Jobs : Submit(f, j)
        BY <4>1 DEF Submit, LiveJob, Live, LifeInv, LifeTypeOK
      <4>2. CASE LiveJob(f) /\ UNCHANGED lifeVars
        BY <4>2 DEF LiveJob, lifeVars
      <4> QED
        BY <2>2, <3>1, <4>1, <4>2 DEF EnqueueParse
    <3>2. CASE RequestFails(u)
      BY <2>2, <3>2 DEF RequestFails
    <3> QED
      BY <2>2, <3>1, <3>2, MarkedStep
  <2>3. CASE LiveJob(f)
    <3>1. PICK j \in Jobs : phase[j] \in Live /\ ref[j] = f
      BY <2>3 DEF LiveJob
    <3>2. ASSUME NEW w \in Workers, exec[w] = j, ReportOk(w) \/ ReportErr(w)
          PROVE  FALSE
      BY <1>2, <2>1, <3>1, <3>2
         DEF ReportOk, ReportErr, LateIsWritten, Late, FileOf
    <3> QED
      BY <3>1, <3>2, LiveStep DEF LiveJob
  <2> QED
    BY <1>2, <2>1, <2>2, <2>3 DEF ProcessingServed
<1> QED
  BY <1>1, <1>2

\* An execution that is about to persist, or past its last write, was so before
\* or got there by its own step.
LEMMA PlaceStep ==
    ASSUME PipeTypeOK, LifeInv, [PipeNext]_pipeVars,
           NEW w \in Workers, step'[w] \in Late \cup {"persist"}
    PROVE  /\ exec'[w] = exec[w] /\ step[w] # "none"
           /\ FileOf(w)' = FileOf(w) /\ FileOf(w) \in Files
           /\ \/ step'[w] = step[w]
              \/ FetchRow(w) \/ WriteArtifact(w) \/ Persist(w)
              \/ StartTranslation(w) \/ MarkFailed(w)
<1>1. /\ exec'[w] = exec[w] /\ step[w] # "none"
      /\ \/ step'[w] = step[w]
         \/ FetchRow(w) \/ WriteArtifact(w) \/ Persist(w)
         \/ StartTranslation(w) \/ MarkFailed(w)
  <2> USE DEF PipeTypeOK, GoStep, Late, Early, LifeTypeOK
  <2>1. ASSUME NEW v \in Workers, v # w,
               Execute(v) \/ PersistFails(v) \/ StatementFails(v)
                          \/ LoseExecution(v)
        PROVE  exec'[w] = exec[w] /\ step'[w] = step[w]
    BY <2>1
       DEF Execute, BeginParse, Begin, FetchRow, ParseFails, WriteArtifact,
           Persist, StartTranslation, MarkFailed, ReportOk, Succeed, ReportErr,
           Fail, FailLoose, PersistFails, StatementFails, LoseExecution, Lose,
           lifeVars
  <2>2. CASE Execute(w) \/ PersistFails(w) \/ StatementFails(w)
                        \/ LoseExecution(w)
    BY <2>2
       DEF Execute, BeginParse, FetchRow, ParseFails, WriteArtifact,
           Persist, StartTranslation, MarkFailed, ReportOk, ReportErr,
           PersistFails, StatementFails, LoseExecution, lifeVars
  <2>3. \/ \E v \in Workers : Execute(v) \/ PersistFails(v)
                              \/ StatementFails(v) \/ LoseExecution(v)
        \/ UNCHANGED <<exec, step>>
    BY DEF PipeNext, Upload, AskParse, MarkProcessing, EnqueueParse, Submit,
           RequestFails, DeleteFile, RequeueJob, Requeue, LeaseOverrun, Loosen,
           pipeVars, lifeVars
  <2> QED
    BY <2>1, <2>2, <2>3 DEF Late
<1> QED
  BY <1>1, AtWork, FilesStay DEF PipeTypeOK

\* A request that marks a file whose execution is past its last write leaves it
\* astray.
LEMMA MarkedLate ==
    ASSUME PipeTypeOK, LifeInv, [PipeNext]_pipeVars,
           NEW w \in Workers, step[w] \in Late,
           parse[FileOf(w)] # "processing", parse'[FileOf(w)] = "processing"
    PROVE  FileOf(w) \in astray'
<1> DEFINE f == FileOf(w)
<1>1. f \in Files /\ w \in Parsers(f)
  BY AtWork DEF Late, Parsers, FileOf, PipeTypeOK
<1> HIDE DEF f
<1>2. PICK u \in Requesters :
        MarkProcessing(u) /\ asking'[u] = "marked" /\ target'[u] = f
  BY <1>1, StatusStep DEF f
<1>3. target[u] = f
  BY <1>2 DEF MarkProcessing, Ask, AskDone, PipeTypeOK
<1> QED
  BY <1>1, <1>2, <1>3 DEF MarkProcessing, AskDone, Ask, PipeTypeOK, f

\* An execution gets past its last write by the step that makes it its last.
LEMMA LateStep ==
    ASSUME PipeTypeOK, LifeInv, LateIsWritten, [PipeNext]_pipeVars
    PROVE  LateIsWritten'
<1> SUFFICES ASSUME NEW w \in Workers, step'[w] \in Late,
                    parse'[FileOf(w)'] = "processing"
             PROVE  FileOf(w)' \in deleted' \cup astray'
  BY DEF LateIsWritten
<1> DEFINE f == FileOf(w)
<1>1. /\ FileOf(w)' = f /\ f \in Files
      /\ \/ step'[w] = step[w]
         \/ FetchRow(w) \/ WriteArtifact(w) \/ Persist(w)
         \/ StartTranslation(w) \/ MarkFailed(w)
  BY PlaceStep
<1>2. f \in deleted \cup astray => f \in deleted' \cup astray'
  BY <1>1, AstrayStep
<1>3. CASE step[w] \in Late
  BY <1>1, <1>2, <1>3, MarkedLate DEF LateIsWritten
<1>4. CASE FetchRow(w)
  BY <1>1, <1>2, <1>4 DEF FetchRow, GoStep, Late, PipeTypeOK
<1>5. CASE Persist(w) \/ MarkFailed(w)
  BY <1>1, <1>5 DEF Persist, MarkFailed, SetParse, PipeTypeOK
<1>6. CASE WriteArtifact(w)
  BY <1>6 DEF WriteArtifact, GoStep, Late, PipeTypeOK
<1> QED
  BY <1>1, <1>3, <1>4, <1>5, <1>6 DEF StartTranslation, Late

\* Only files that were uploaded are deleted, and no file is un-uploaded.
LEMMA DeletedStep ==
    ASSUME PipeTypeOK, DeletedWasThere, [PipeNext]_pipeVars
    PROVE  DeletedWasThere'
<1> SUFFICES ASSUME NEW f \in Files, f \in deleted'
             PROVE  parse'[f] # "absent"
  <2>1. deleted' \subseteq Files
    BY DEF PipeNext, Execute, Upload, AskParse, MarkProcessing, EnqueueParse,
           RequestFails, DeleteFile, BeginParse, FetchRow, ParseFails,
           WriteArtifact, Persist, StartTranslation, MarkFailed, ReportOk,
           ReportErr, PersistFails, StatementFails, LoseExecution, RequeueJob,
           LeaseOverrun, pipeVars, fileVars, PipeTypeOK
  <2> QED
    BY <2>1 DEF DeletedWasThere
<1>1. parse[f] # "absent"
  BY DEF PipeNext, Execute, Upload, AskParse, MarkProcessing, EnqueueParse,
         RequestFails, DeleteFile, BeginParse, FetchRow, ParseFails,
         WriteArtifact, Persist, StartTranslation, MarkFailed, ReportOk,
         ReportErr, PersistFails, StatementFails, LoseExecution, RequeueJob,
         LeaseOverrun, pipeVars, fileVars, DeletedWasThere
<1> QED
  BY <1>1, StatusStep

-----------------------------------------------------------------------------
(* The three writes of an execution *)

\* Only an execution of its own takes back a file's artifact, or the question
\* for its translation.
LEMMA WritesStay ==
    ASSUME PipeTypeOK, [PipeNext]_pipeVars, NEW f \in Files
    PROVE  /\ f \in artifact /\ f \notin artifact' =>
                 \E w \in Workers : FileOf(w) = f /\ PersistFails(w)
           /\ f \in asked /\ f \notin asked' =>
                 \E w \in Workers : FileOf(w) = f /\ Persist(w)
<1>1. \/ artifact \subseteq artifact'
      \/ \E w \in Workers : PersistFails(w)
  BY DEF PipeNext, Execute, Upload, AskParse, MarkProcessing, EnqueueParse,
         RequestFails, DeleteFile, BeginParse, FetchRow, ParseFails,
         WriteArtifact, Persist, StartTranslation, MarkFailed, ReportOk,
         ReportErr, StatementFails, LoseExecution, RequeueJob, LeaseOverrun,
         pipeVars, fileVars
<1>2. \/ asked \subseteq asked'
      \/ \E w \in Workers : Persist(w)
  BY DEF PipeNext, Execute, Upload, AskParse, MarkProcessing, EnqueueParse,
         RequestFails, DeleteFile, BeginParse, FetchRow, ParseFails,
         WriteArtifact, StartTranslation, MarkFailed, PersistFails, ReportOk,
         ReportErr, StatementFails, LoseExecution, RequeueJob, LeaseOverrun,
         pipeVars, fileVars
<1> QED
  BY <1>1, <1>2 DEF PersistFails, Persist

\* The execution of a tidy file does all the writing there is.
LEMMA OwnWrites ==
    ASSUME PipeTypeOK, LifeInv, [PipeNext]_pipeVars,
           NEW f \in Files, Tidy(f)', NEW v \in Workers, FileOf(v) = f,
           PersistFails(v) \/ Persist(v) \/ MarkFailed(v)
    PROVE  v \in Parsers(f) /\ Parsers(f) = {v} /\ Tidy(f) /\ LiveJob(f)
<1>1. Tidy(f)
  BY FilesStay
<1>2. v \in Parsers(f)
  BY AtWork DEF PersistFails, Persist, MarkFailed, Parsers, FileOf, PipeTypeOK
<1> QED
  BY <1>1, <1>2, TidySole

\* Every step keeps HasArtifact.
LEMMA ArtifactStep ==
    ASSUME PipeTypeOK, LifeInv, HasArtifact, [PipeNext]_pipeVars
    PROVE  HasArtifact'
<1> SUFFICES ASSUME NEW f \in Files, NEW w \in Workers, exec'[w] # NoJob,
                    FileOf(w)' = f, Tidy(f)', step'[w] = "persist"
             PROVE  f \in artifact'
  BY DEF HasArtifact, Parsers, FileOf
<1>1. /\ exec'[w] = exec[w] /\ FileOf(w) = f
      /\ step'[w] = step[w] \/ WriteArtifact(w)
  BY PlaceStep DEF FetchRow, Persist, StartTranslation, MarkFailed, GoStep,
                   PipeTypeOK
<1>2. w \in Parsers(f) /\ Tidy(f)
  BY <1>1, FilesStay DEF Parsers, FileOf
<1>3. CASE step[w] = "persist"
  <2>1. f \in artifact
    BY <1>2, <1>3 DEF HasArtifact
  <2>2. ~PersistFails(w)
    BY <1>3 DEF PersistFails, GoStep, PipeTypeOK
  <2> QED
    BY <1>2, <2>1, <2>2, WritesStay, OwnWrites
<1>4. CASE WriteArtifact(w)
  BY <1>1, <1>4 DEF WriteArtifact
<1> QED
  BY <1>1, <1>3, <1>4

\* Every step keeps Progress.
LEMMA ProgressStep ==
    ASSUME PipeTypeOK, LifeInv, HasArtifact, Progress, [PipeNext]_pipeVars
    PROVE  Progress'
<1> SUFFICES ASSUME NEW f \in Files, f \notin deleted' \cup astray',
                    NEW w \in Workers, exec'[w] # NoJob, FileOf(w)' = f,
                    Tidy(f)', step'[w] \in Late
             PROVE  WrittenSoFar(w, f)'
  BY DEF Progress, WrittenSoFar, Parsers, FileOf, Late
<1>1. /\ exec'[w] = exec[w] /\ FileOf(w) = f
      /\ \/ step'[w] = step[w]
         \/ FetchRow(w) \/ Persist(w) \/ StartTranslation(w) \/ MarkFailed(w)
  BY PlaceStep DEF WriteArtifact, GoStep, PipeTypeOK, Late
<1>2. w \in Parsers(f) /\ Tidy(f) /\ f \notin deleted
  BY <1>1, FilesStay, AstrayStep DEF Parsers, FileOf
<1>3. CASE step'[w] = step[w]
  <2>1. ~PersistFails(w) /\ ~Persist(w) /\ ~MarkFailed(w)
    BY <1>3 DEF PersistFails, Persist, MarkFailed, GoStep, PipeTypeOK, Late
  <2>2. \A v \in Workers :
           FileOf(v) = f => ~PersistFails(v) /\ ~Persist(v) /\ ~MarkFailed(v)
    BY <1>2, <2>1, OwnWrites
  <2>3. f \notin astray
    BY <2>2, AstrayStep
  <2>4. WrittenSoFar(w, f)
    BY <1>2, <2>3 DEF Progress
  <2>5. parse'[f] = parse[f]
    <3>1. ~(parse[f] = "absent" /\ parse'[f] = "pending")
      BY <1>3, <2>4 DEF WrittenSoFar, Late
    <3>2. ~(parse[f] # "processing" /\ parse'[f] = "processing")
      BY <1>1, <1>3, MarkedLate
    <3> QED
      BY <2>2, <3>1, <3>2, StatusStep
  <2>6. /\ f \in artifact => f \in artifact'
        /\ f \in asked => f \in asked'
    BY <2>2, WritesStay
  <2> QED
    BY <1>3, <2>4, <2>5, <2>6 DEF WrittenSoFar
<1>4. CASE FetchRow(w)
  BY <1>1, <1>2, <1>4 DEF FetchRow, GoStep, PipeTypeOK, Late
<1>5. CASE Persist(w)
  BY <1>1, <1>2, <1>5
     DEF Persist, SetParse, GoStep, PipeTypeOK, HasArtifact, WrittenSoFar
<1>6. CASE StartTranslation(w)
  BY <1>1, <1>2, <1>6
     DEF StartTranslation, GoStep, PipeTypeOK, Progress, WrittenSoFar
<1>7. CASE MarkFailed(w)
  BY <1>1, <1>7 DEF MarkFailed, SetParse, GoStep, PipeTypeOK, WrittenSoFar
<1> QED
  BY <1>1, <1>3, <1>4, <1>5, <1>6, <1>7

\* A job that reports leaves a file that shows its outcome.
LEMMA ReportShown ==
    ASSUME PipeTypeOK, LifeInv, Progress,
           NEW f \in Files, f \notin deleted \cup astray, Tidy(f),
           NEW w \in Workers, exec[w] # NoJob, FileOf(w) = f
    PROVE  /\ ReportOk(w) => f \in artifact /\ f \in asked /\ parse[f] = "done"
           /\ ReportErr(w) => parse[f] = "failed"
<1>1. WrittenSoFar(w, f)
  BY DEF Progress, Parsers, FileOf
<1> QED
  BY <1>1 DEF WrittenSoFar, ReportOk, ReportErr

\* Every step keeps DoneIsComplete.
LEMMA DoneStep ==
    ASSUME PipeTypeOK, LifeInv, Progress, DoneIsComplete, [PipeNext]_pipeVars
    PROVE  DoneIsComplete'
<1> SUFFICES ASSUME NEW f \in Files, f \notin deleted' \cup astray',
                    parse'[f] = "done", ~LiveJob(f)', Tidy(f)'
             PROVE  f \in artifact' /\ f \in asked'
  BY DEF DoneIsComplete
<1>1. Tidy(f) /\ f \notin deleted
  BY FilesStay, AstrayStep
<1>2. CASE LiveJob(f)
  <2>1. PICK j \in Jobs : phase[j] \in Live /\ ref[j] = f
    BY <1>2 DEF LiveJob
  <2>2. PICK w \in Workers : exec[w] = j /\ (ReportOk(w) \/ ReportErr(w))
    BY <2>1, LiveStep DEF LiveJob
  <2>3. UNCHANGED <<fileVars, astray>> /\ exec[w] # NoJob /\ FileOf(w) = f
    BY <2>1, <2>2, PipelineAssumption DEF ReportOk, ReportErr, FileOf
  <2> QED
    BY <1>1, <2>2, <2>3, ReportShown DEF fileVars
<1>3. CASE ~LiveJob(f)
  <2>1. \A v \in Workers :
           FileOf(v) = f => ~PersistFails(v) /\ ~Persist(v) /\ ~MarkFailed(v)
    BY <1>3, OwnWrites
  <2>2. f \notin astray /\ parse[f] = "done"
    BY <2>1, AstrayStep, StatusStep
  <2>3. f \in artifact /\ f \in asked
    BY <1>1, <1>3, <2>2 DEF DoneIsComplete
  <2> QED
    BY <2>1, <2>3, WritesStay
<1> QED
  BY <1>2, <1>3

-----------------------------------------------------------------------------
(* The theorems *)

\* Before the first upload there are no files and no jobs.
LEMMA PipeInitInv == PipeInit => PipeInv
<1> SUFFICES ASSUME PipeInit
             PROVE  PipeInv
  OBVIOUS
<1>1. LifeInv
  BY PipeConstants, LifeInitInv DEF PipeInit
<1>2. PipeTypeOK
  BY <1>1, PipelineAssumption
     DEF PipeInit, LifeInit, PipeTypeOK, LifeInv, Statuses, Steps, Files, FileOf
<1>3. ProcessingServed /\ LateIsWritten /\ DeletedWasThere
  BY DEF PipeInit, ProcessingServed, LateIsWritten, DeletedWasThere, Late, FileOf
<1>4. HasArtifact /\ Progress /\ DoneIsComplete
  BY DEF PipeInit, LifeInit, HasArtifact, Progress, DoneIsComplete, Parsers
<1> QED
  BY <1>1, <1>2, <1>3, <1>4 DEF PipeInv

\* PipeInv holds in every reachable state.
THEOREM PipeInvariance == PipeSpec => []PipeInv
<1>1. PipeInv /\ [PipeNext]_pipeVars => PipeInv'
  BY PipeTypeStep, ServedStep, LateStep, ArtifactStep, ProgressStep, DoneStep,
     DeletedStep DEF PipeInv
<1> QED
  BY <1>1, PipeInitInv, PTL DEF PipeSpec

\* Every variable keeps its type, and a worker is in run_parse_job exactly
\* while it has a job of a known file.
THEOREM PipeTypeCorrect == PipeSpec => []PipeTypeOK
  BY PipeInvariance, PTL DEF PipeInv

\* An in-flight parse is never double-run, however many requests force one:
\* the queue accepts one live job per file (parser.rs, enqueue_parse).
THEOREM OneParser == PipeSpec => []SoleParser
<1>1. PipeInv => SoleParser
  BY TidySole DEF PipeInv, SoleParser
<1> QED
  BY <1>1, PipeInvariance, PTL

\* A file that is processing is somebody's to finish, unless it is astray.
THEOREM ProcessingIsServed == PipeSpec => []ProcessingServed
  BY PipeInvariance, PTL DEF PipeInv

\* A finished file that is done has its artifact and its translation asked for.
THEOREM DoneFilesComplete == PipeSpec => []DoneIsComplete
  BY PipeInvariance, PTL DEF PipeInv

\* A job that ends leaves a file that shows how it ended.
THEOREM OutcomesShow == PipeSpec => OutcomeShown
<1>1. ASSUME PipeInv, [PipeNext]_pipeVars,
             NEW j \in Jobs, phase[j] = "held", phase'[j] # "held",
             Tidy(ref[j]), ref[j] \notin deleted \cup astray
      PROVE  /\ phase'[j] = "succeeded" => parse[ref[j]] \in {"done", "processing"}
             /\ phase'[j] = "dead" => parse[ref[j]] \in {"failed", "processing"}
  <2> USE <1>1 DEF PipeInv
  <2>1. /\ ref[j] \in Files /\ j \notin loose /\ phase \in [Jobs -> Phases]
        /\ j # NoJob
    BY PipelineAssumption DEF LifeInv, LifeTypeOK, Submitted, Files, Tidy
  <2>2. ASSUME NEW w \in Workers, exec[w] = j, ReportOk(w) \/ ReportErr(w)
        PROVE  /\ phase'[j] = "succeeded" => parse[ref[j]] = "done"
               /\ phase'[j] = "dead" => parse[ref[j]] = "failed"
    <3>1. /\ ReportOk(w) => parse[ref[j]] = "done"
          /\ ReportErr(w) => parse[ref[j]] = "failed"
      BY <2>1, <2>2, ReportShown DEF FileOf
    <3>2. /\ ReportOk(w) => phase'[j] # "dead"
          /\ ReportErr(w) => phase'[j] # "succeeded"
      BY <2>1, <2>2 DEF ReportOk, ReportErr, Succeed, Fail, FailLoose
    <3> QED
      BY <2>2, <3>1, <3>2
  <2> QED
    BY <2>2, LiveStep DEF Live
<1>2. PipeInv /\ [PipeNext]_pipeVars =>
        [\A j \in Jobs :
            LET f == ref[j] IN
            phase[j] = "held" /\ phase'[j] # "held" /\ Tidy(f)
                              /\ f \notin deleted \cup astray =>
                /\ phase'[j] = "succeeded" => parse[f] \in {"done", "processing"}
                /\ phase'[j] = "dead" => parse[f] \in {"failed", "processing"}]_pipeVars
  BY <1>1
<1> QED
  BY <1>2, PipeInvariance, PTL DEF PipeSpec, OutcomeShown

\* No request and no execution that comes later writes to a deleted file.
THEOREM DeletedStayQuiet == PipeSpec => DeletedQuiet
<1>1. ASSUME PipeInv, [PipeNext]_pipeVars, NEW f \in deleted,
             \A w \in Parsers(f) : step[w] \in {"fetch", "ok", "err"}
      PROVE  parse'[f] = parse[f]
  <2>1. f \in Files /\ parse[f] # "absent" /\ PipeTypeOK
    BY <1>1 DEF PipeInv, PipeTypeOK, DeletedWasThere
  <2>2. ASSUME NEW w \in Workers, FileOf(w) = f, Persist(w) \/ MarkFailed(w)
        PROVE  FALSE
    <3>1. step[w] \in {"persist", "mark"}
      BY <2>2 DEF Persist, MarkFailed
    <3>2. w \in Parsers(f)
      BY <2>1, <2>2, <3>1, AtWork DEF Parsers, FileOf, PipeTypeOK
    <3> QED
      BY <1>1, <3>1, <3>2
  <2> QED
    BY <1>1, <2>1, <2>2, StatusStep
<1>2. PipeInv /\ [PipeNext]_pipeVars =>
        [\A f \in deleted :
            (\A w \in Parsers(f) : step[w] \in {"fetch", "ok", "err"}) =>
                parse'[f] = parse[f]]_pipeVars
  BY <1>1
<1> QED
  BY <1>2, PipeInvariance, PTL DEF PipeSpec, DeletedQuiet
=============================================================================
