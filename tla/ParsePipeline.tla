---------------------------- MODULE ParsePipeline ----------------------------
(***************************************************************************)
(* Parsing of evidence files: the column evidence_files.parse_status, the  *)
(* requests that set it to `processing' and queue a job (upload, POST      *)
(* /files/{id}/parse, the agent's parse_file tool), and the executions of  *)
(* the job (parser.rs), which write it again when they end.                *)
(*                                                                         *)
(* The queue is the one JobLifecycle promises and JobQueue implements; the *)
(* references of its jobs are the files.  Status and job are written by    *)
(* separate statements, so requests, executions, deletions and failures    *)
(* interleave between any two of them.                                     *)
(***************************************************************************)
EXTENDS JobLifecycle, FiniteSets

CONSTANTS
    Requesters,  \* HTTP requests and agent tool calls being handled
    FaultLimit,  \* bound: failed statements, lost executions and requests,
                 \* leases that expire under an execution
    NoFile       \* "no file in hand"

Files == Refs

ASSUME PipelineAssumption ==
    /\ MaxAttempts \in Nat \ {0}
    /\ FaultLimit \in Nat
    /\ NoJob \notin Jobs
    /\ NoRef \notin Refs
    /\ NoFile \notin Refs

VARIABLES
    parse,    \* evidence_files.parse_status; "absent" before the upload
    deleted,  \* files with status = 'deleted'
    artifact, \* files whose parsed/<case>/<id>.json is on disk
    asked,    \* files whose present chunks start_file_translation was asked for
    step,     \* worker -> where its execution is in run_parse_job
    asking,   \* requester -> where it is in enqueue_parse
    target,   \* requester -> the file it asks for
    faults,   \* faults used up
    astray    \* history: files whose status an error or a late request left
              \* to nobody, see MarkProcessing

fileVars    == <<parse, deleted, artifact, asked>>
requestVars == <<asking, target>>
pipeVars == <<lifeVars, fileVars, step, requestVars, faults, astray>>

-----------------------------------------------------------------------------
Statuses == {"absent", "pending", "processing", "done", "failed"}
Early    == {"fetch", "parse", "persist"}  \* a status is still to be written
Late     == {"translate", "ok", "err"}     \* the last one may be written
Steps    == {"none", "mark"} \cup Early \cup Late

FileOf(w) == ref[exec[w]]

\* Executions of jobs of file f.
Parsers(f) == {w \in Workers : exec[w] # NoJob /\ ref[exec[w]] = f}

\* No job of f ever lost its lease under an execution.
Tidy(f) == \A j \in loose : ref[j] # f

PipeTypeOK ==
    /\ LifeTypeOK
    /\ parse    \in [Files -> Statuses]
    /\ deleted  \in SUBSET Files
    /\ artifact \in SUBSET Files
    /\ asked    \in SUBSET Files
    /\ step     \in [Workers -> Steps]
    /\ asking   \in [Requesters -> {"idle", "asked", "marked"}]
    /\ target   \in [Requesters -> Files \cup {NoFile}]
    /\ faults   \in 0..FaultLimit
    /\ astray   \in SUBSET Files
    /\ \A w \in Workers : /\ exec[w] = NoJob <=> step[w] = "none"
                          /\ exec[w] # NoJob => FileOf(w) \in Files
    /\ \A u \in Requesters : asking[u] # "idle" => target[u] \in Files

PipeInit ==
    /\ LifeInit
    /\ parse    = [f \in Files |-> "absent"]
    /\ deleted  = {}
    /\ artifact = {}
    /\ asked    = {}
    /\ step     = [w \in Workers |-> "none"]
    /\ asking   = [u \in Requesters |-> "idle"]
    /\ target   = [u \in Requesters |-> NoFile]
    /\ faults   = 0
    /\ astray   = {}

Fault == faults < FaultLimit /\ faults' = faults + 1

GoStep(w, s) == step' = [step EXCEPT ![w] = s]
SetParse(f, s) == parse' = [parse EXCEPT ![f] = s]
Ask(u, s, f) ==
    /\ asking' = [asking EXCEPT ![u] = s]
    /\ target' = [target EXCEPT ![u] = f]
AskDone(u) == Ask(u, "idle", NoFile)

\* Bound: every request that is under way can still insert a job.
RowsLeft ==
    Cardinality({u \in Requesters : asking[u] # "idle"})
        < Cardinality({j \in Jobs : phase[j] = "none"})

-----------------------------------------------------------------------------
(* Requests *)

\* The upload inserts the row, with the default parse_status, and asks for it
\* to be parsed.
Upload(u, f) ==
    /\ asking[u] = "idle" /\ RowsLeft
    /\ parse[f] = "absent"
    /\ SetParse(f, "pending")
    /\ Ask(u, "asked", f)
    /\ UNCHANGED <<lifeVars, deleted, artifact, asked, step, faults, astray>>

\* POST /files/{id}/parse and the agent's tool look the row up.  The route
\* refuses a file it sees processing, the tool does not look.
AskParse(u, f) ==
    /\ asking[u] = "idle" /\ RowsLeft
    /\ parse[f] # "absent" /\ f \notin deleted
    /\ Ask(u, "asked", f)
    /\ UNCHANGED <<lifeVars, fileVars, step, faults, astray>>

\* Faulty: a file that was deleted meanwhile is marked all the same.
MarkProcessingDeleted(u) ==
    /\ asking[u] = "asked"
    /\ SetParse(target[u], "processing")
    /\ Ask(u, "marked", target[u])
    /\ UNCHANGED <<lifeVars, deleted, artifact, asked, step, faults, astray>>

\* mark_processing; every caller forces.  The file goes astray if an execution
\* of it is past its own last write: nobody is bound to write the status again.
MarkProcessing(u) ==
    LET f == target[u] IN
    /\ asking[u] = "asked"
    /\ IF f \notin deleted /\ parse[f] # "processing"
       THEN /\ SetParse(f, "processing")
            /\ Ask(u, "marked", f)
            /\ astray' = IF \E w \in Parsers(f) : step[w] \in Late
                         THEN astray \cup {f} ELSE astray
       ELSE AskDone(u) /\ UNCHANGED <<parse, astray>>
    /\ UNCHANGED <<lifeVars, deleted, artifact, asked, step, faults>>

\* enqueue_job; on conflict with the active job nothing is inserted, and
\* enqueue_parse returns Ok(true) either way.
EnqueueParse(u) ==
    /\ asking[u] = "marked"
    /\ \/ \E j \in Jobs : Submit(target[u], j)
       \/ LiveJob(target[u]) /\ UNCHANGED lifeVars
    /\ AskDone(u)
    /\ UNCHANGED <<fileVars, step, faults, astray>>

\* A statement of the request fails, or the process dies under it.
RequestFails(u) ==
    /\ asking[u] # "idle"
    /\ Fault
    /\ astray' = IF asking[u] = "marked" THEN astray \cup {target[u]} ELSE astray
    /\ AskDone(u)
    /\ UNCHANGED <<lifeVars, fileVars, step>>

\* delete_file: soft, and without a look at parse_status.
DeleteFile(f) ==
    /\ parse[f] # "absent" /\ f \notin deleted
    /\ deleted' = deleted \cup {f}
    /\ UNCHANGED <<lifeVars, parse, artifact, asked, step, requestVars, faults,
                   astray>>

-----------------------------------------------------------------------------
(* run_parse_job *)

BeginParse(w, j) ==
    /\ Begin(w, j)
    /\ GoStep(w, "fetch")
    /\ UNCHANGED <<fileVars, requestVars, faults, astray>>

\* A deleted file is no work: the job succeeds.
FetchRow(w) ==
    /\ step[w] = "fetch"
    /\ GoStep(w, IF FileOf(w) \in deleted THEN "ok" ELSE "parse")
    /\ UNCHANGED <<lifeVars, fileVars, requestVars, faults, astray>>

\* The contents cannot be parsed, or the artifact cannot be written.
ParseFails(w) ==
    /\ step[w] = "parse"
    /\ GoStep(w, "mark")
    /\ UNCHANGED <<lifeVars, fileVars, requestVars, faults, astray>>

WriteArtifact(w) ==
    /\ step[w] = "parse"
    /\ artifact' = artifact \cup {FileOf(w)}
    /\ GoStep(w, "persist")
    /\ UNCHANGED <<lifeVars, parse, deleted, asked, requestVars, faults, astray>>

\* Faulty: the file is done before its translation was asked for, and the
\* execution ends there.
PersistOnly(w) ==
    /\ step[w] = "persist"
    /\ SetParse(FileOf(w), "done")
    /\ asked' = asked \ {FileOf(w)}
    /\ astray' = astray \ {FileOf(w)}
    /\ GoStep(w, "ok")
    /\ UNCHANGED <<lifeVars, deleted, artifact, requestVars, faults>>

\* persist_chunks_and_mark_done: new chunks and parse_status = 'done' in one
\* transaction, whatever became of the row since it was fetched.
Persist(w) ==
    /\ step[w] = "persist"
    /\ SetParse(FileOf(w), "done")
    /\ asked' = asked \ {FileOf(w)}
    /\ astray' = astray \ {FileOf(w)}
    /\ GoStep(w, "translate")
    /\ UNCHANGED <<lifeVars, deleted, artifact, requestVars, faults>>

PersistFails(w) ==
    /\ step[w] = "persist"
    /\ Fault
    /\ artifact' = artifact \ {FileOf(w)}
    /\ GoStep(w, "mark")
    /\ UNCHANGED <<lifeVars, parse, deleted, asked, requestVars, astray>>

StartTranslation(w) ==
    /\ step[w] = "translate"
    /\ asked' = asked \cup {FileOf(w)}
    /\ GoStep(w, "ok")
    /\ UNCHANGED <<lifeVars, parse, deleted, artifact, requestVars, faults,
                   astray>>

\* The row cannot be read, or the translate job cannot be inserted.
StatementFails(w) ==
    /\ step[w] \in {"fetch", "translate"}
    /\ Fault
    /\ GoStep(w, "mark")
    /\ UNCHANGED <<lifeVars, fileVars, requestVars, astray>>

\* Faulty: the status of the file is left as it is.
MarkFailedSkipped(w) ==
    /\ step[w] = "mark"
    /\ GoStep(w, "err")
    /\ UNCHANGED <<lifeVars, fileVars, requestVars, faults, astray>>

\* mark_failed, with no condition on the row; its own error is ignored.
MarkFailed(w) ==
    /\ step[w] = "mark"
    /\ \/ /\ SetParse(FileOf(w), "failed")
          /\ astray' = astray \ {FileOf(w)}
          /\ UNCHANGED faults
       \/ Fault /\ astray' = astray \cup {FileOf(w)} /\ UNCHANGED parse
    /\ GoStep(w, "err")
    /\ UNCHANGED <<lifeVars, deleted, artifact, asked, requestVars>>

\* Faulty: the execution is not over when its success is reported.
ReportOkAgain(w) ==
    /\ step[w] = "ok"
    /\ Succeed(w, exec[w])
    /\ UNCHANGED <<fileVars, step, requestVars, faults, astray>>

\* complete_job and fail_job.
ReportOk(w) ==
    /\ step[w] = "ok"
    /\ Succeed(w, exec[w])
    /\ GoStep(w, "none")
    /\ UNCHANGED <<fileVars, requestVars, faults, astray>>

ReportErr(w) ==
    /\ step[w] = "err"
    /\ Fail(w, exec[w]) \/ FailLoose(w, exec[w])
    /\ GoStep(w, "none")
    /\ UNCHANGED <<fileVars, requestVars, faults, astray>>

\* The worker dies, or a statement of the queue fails under it.
LoseExecution(w) ==
    /\ exec[w] # NoJob
    /\ Fault
    /\ Lose({w})
    /\ GoStep(w, "none")
    /\ UNCHANGED <<fileVars, requestVars, astray>>

\* Faulty: the job of a file that is processing is taken to be at work.
RequeueUnfailed(j) ==
    /\ phase[j] = "held" /\ parse[ref[j]] # "processing"
    /\ Requeue({j})
    /\ UNCHANGED <<fileVars, step, requestVars, faults, astray>>

\* reset_stale_jobs.
RequeueJob(j) ==
    /\ Requeue({j})
    /\ UNCHANGED <<fileVars, step, requestVars, faults, astray>>

LeaseOverrun(j) ==
    /\ j \notin loose
    /\ Fault
    /\ Loosen(j)
    /\ UNCHANGED <<fileVars, step, requestVars, astray>>

-----------------------------------------------------------------------------
Execute(w) ==
    \/ (\E j \in Jobs : BeginParse(w, j))
    \/ FetchRow(w) \/ ParseFails(w) \/ WriteArtifact(w) \/ Persist(w)
    \/ StartTranslation(w) \/ MarkFailed(w) \/ ReportOk(w) \/ ReportErr(w)

PipeNext ==
    \/ \E u \in Requesters :
          \/ \E f \in Files : Upload(u, f) \/ AskParse(u, f)
          \/ MarkProcessing(u) \/ EnqueueParse(u) \/ RequestFails(u)
    \/ \E f \in Files : DeleteFile(f)
    \/ \E w \in Workers : \/ Execute(w) \/ PersistFails(w)
                          \/ StatementFails(w) \/ LoseExecution(w)
    \/ \E j \in Jobs : RequeueJob(j) \/ LeaseOverrun(j)

PipeSpec == PipeInit /\ [][PipeNext]_pipeVars

\* Requests run to their end, workers take jobs and finish them, and the sweep
\* returns the jobs of lost executions (JobQueue's fairness).
PipeFairness ==
    /\ \A u \in Requesters : WF_pipeVars(MarkProcessing(u) \/ EnqueueParse(u))
    /\ \A w \in Workers : WF_pipeVars(Execute(w))
    /\ \A j \in Jobs : WF_pipeVars(RequeueJob(j))

PipeFairSpec == PipeSpec /\ PipeFairness

-----------------------------------------------------------------------------
(* Properties *)

\* parser.rs: an in-flight parse is never double-run, however many requests
\* force one (as long as no lease of the file's jobs runs out under its worker).
SoleParser ==
    \A f \in Files : Tidy(f) =>
        \A v, w \in Parsers(f) : v = w

\* A file shown as processing has a job that will write its status again, or
\* the request that is about to queue one; the only files without are those a
\* request or a failure left astray.
ProcessingServed ==
    \A f \in Files \ (deleted \cup astray) :
        parse[f] = "processing" =>
            \/ LiveJob(f)
            \/ \E u \in Requesters : asking[u] = "marked" /\ target[u] = f

\* Once nobody works on it any more, a file that is done has its artifact and
\* had its translation asked for: no failure between the three writes shows.
DoneIsComplete ==
    \A f \in Files \ (deleted \cup astray) :
        parse[f] = "done" /\ ~LiveJob(f) /\ Tidy(f) =>
            f \in artifact /\ f \in asked

\* The outcome of the job is the outcome the file shows, unless a new request
\* has just marked it.
OutcomeShown ==
    [][\A j \in Jobs :
          LET f == ref[j] IN
          phase[j] = "held" /\ phase'[j] # "held" /\ Tidy(f)
                            /\ f \notin deleted \cup astray =>
              /\ phase'[j] = "succeeded" => parse[f] \in {"done", "processing"}
              /\ phase'[j] = "dead" => parse[f] \in {"failed", "processing"}]_pipeVars

\* Nothing is written to a deleted file except by an execution that fetched
\* the row before the deletion, or could not fetch it.
DeletedQuiet ==
    [][\A f \in deleted :
          (\A w \in Parsers(f) : step[w] \in {"fetch", "ok", "err"}) =>
              parse'[f] = parse[f]]_pipeVars

\* A file that is processing gets done or failed in the end.
ParseSettles ==
    \A f \in Files :
        parse[f] = "processing" ~>
            \/ parse[f] \in {"done", "failed"}
            \/ f \in deleted \cup astray

-----------------------------------------------------------------------------
(* What the documentation says *)

\* The design of the translation feature: parse = processing means that a parse
\* is in progress (here: running, queued, or about to be queued).
ProcessingMeansParsing ==
    \A f \in Files \ deleted :
        parse[f] = "processing" =>
            \/ LiveJob(f)
            \/ \E u \in Requesters : asking[u] = "marked" /\ target[u] = f
=============================================================================
