----------------------------- MODULE Translation -----------------------------
(***************************************************************************)
(* Translation of one evidence file: its chunks (evidence_file_chunks),    *)
(* the columns of evidence_files that translation.rs reads and writes, the *)
(* translate jobs and retry pollers that run a translation session on it,  *)
(* and the three parties that interfere: the parser, which replaces the    *)
(* chunks, the retry endpoint, and the deletion of the file.               *)
(*                                                                         *)
(* Each SQL statement, or transaction, is one step.  A session is bound to *)
(* the parsed_at it read (`key'); a result is bound to the attempt that    *)
(* asked for it by the time of the claim, last_attempt_at.  Only whether   *)
(* that still is the row's matters, so a task carries `current' instead.   *)
(***************************************************************************)
EXTENDS Integers, FiniteSets

CONSTANTS
    Workers,      \* worker tasks that execute translate jobs
    Pollers,      \* retry pollers, one in each process
    NChunks,      \* the most chunks a parse can yield
    Sizes,        \* the numbers of chunks a parse can yield
    MaxRetries,   \* evidence_file_chunks.max_retries
    Concurrency,  \* translation.max_concurrency, at least 1
    Providers,    \* provider/model configurations a process can have
    Disabled,     \* those whose provider is disabled
    Usual,        \* the configuration processes have at first
    NoProvider,
    EventLimit    \* bound: parses after the first, requests to retry, the
                  \* deletion, lost sessions, stalled calls,
                  \* restarts with another configuration

Chunks  == 1 .. NChunks
Runners == Workers \cup Pollers
Keys    == 0 .. 2 * EventLimit + 1

ASSUME TranslationAssumption ==
    /\ NChunks \in Nat /\ Sizes \subseteq 0 .. NChunks
    /\ MaxRetries \in Nat /\ Concurrency \in Nat \ {0}
    /\ Disabled \subseteq Providers /\ Usual \in Providers
    /\ NoProvider \notin Providers
    /\ EventLimit \in Nat
    /\ Workers \cap Pollers = {}

VARIABLES
    file,     \* the row of evidence_files
    chunk,    \* the rows of evidence_file_chunks, by chunk_index
    job,      \* the translate job of the file, as JobLifecycle promises it
    owed,     \* the parser has yet to ask for the translation
    pc,       \* runner -> where it is
    config,   \* runner -> the configuration of its process
    session,  \* runner -> the parsed_at of its session
    picked,   \* runner -> the chunk claim_next_due_chunk selected
    spawned,  \* runner -> tasks spawned in this round
    view,     \* runner -> the aggregate it read
    tasks,    \* chunks being translated
    retry,    \* the request to retry_file_translation
    events,   \* how much of EventLimit is used up
    detached, \* history: chunks taken from a task that still ran
    crossed   \* history: the aggregate shown is of chunks that are gone

runnerVars == <<pc, config, session, picked, spawned, view>>
vars == <<file, chunk, job, owed, runnerVars, tasks, retry, events,
          detached, crossed>>

-----------------------------------------------------------------------------
ChunkStatus == {"none", "pending", "processing", "done", "failed"}
Shown == {"pending", "processing", "done", "partial", "failed"}
View  == [shown : Shown, done : 0 .. NChunks, failed : 0 .. NChunks]

File == [parsed : BOOLEAN,                       \* parse_status = 'done'
         deleted : BOOLEAN,
         key : Keys,                    \* parsed_at
         rows : Keys,                   \* the parse the chunks are of
         lock : Providers \cup {NoProvider},
         agg : View]

Chunk == [status : ChunkStatus,
          retries : 0 .. MaxRetries + 1,
          attempt : {"null", "recent", "old"},   \* last_attempt_at
          next : {"null", "later", "now"},       \* next_retry_at
          error : {"none", "provider", "config"},
          text : Keys]                  \* the parse it translates

Task == [runner : Runners, chunk : Chunks, rows : Keys,
         retries : 0 .. MaxRetries, current : BOOLEAN]

Places == {"idle", "reset", "ensure", "lock", "stop", "stopRead", "stopWrite",
           "disable", "init", "loop", "select", "claim", "join", "read", "write"}

NoView == [shown |-> "pending", done |-> 0, failed |-> 0]
NoChunk == [status |-> "none", retries |-> 0, attempt |-> "null",
            next |-> "null", error |-> "none", text |-> 0]
FreshChunk == [NoChunk EXCEPT !.status = "pending"]
NoPick == [chunk |-> 0, retries |-> 0]
NoRetry == [at |-> "none", chunks |-> {}, rows |-> 0, any |-> FALSE,
            view |-> NoView]

TransTypeOK ==
    /\ file     \in File
    /\ chunk    \in [Chunks -> Chunk]
    /\ job      \in {"none", "queued", "held"}
    /\ owed     \in BOOLEAN
    /\ pc       \in [Runners -> Places]
    /\ config   \in [Runners -> Providers]
    /\ session  \in [Runners -> Keys]
    /\ picked   \in [Runners -> [chunk : {0} \cup Chunks,
                                 retries : 0 .. MaxRetries]]
    /\ spawned  \in [Runners -> 0 .. Concurrency]
    /\ view     \in [Runners -> View]
    /\ tasks    \subseteq Task
    /\ retry    \in [at : {"none", "asked", "picked", "reset", "read", "start"},
                     chunks : SUBSET Chunks, rows : Keys,
                     any : BOOLEAN, view : View]
    /\ events   \in 0 .. EventLimit
    /\ detached \subseteq Chunks
    /\ crossed  \in BOOLEAN

Init ==
    /\ file = [parsed |-> FALSE, deleted |-> FALSE, key |-> 0, rows |-> 0,
               lock |-> NoProvider, agg |-> NoView]
    /\ chunk    = [c \in Chunks |-> NoChunk]
    /\ job      = "none" /\ owed = FALSE
    /\ pc       = [r \in Runners |-> "idle"]
    /\ config   = [r \in Runners |-> Usual]
    /\ session  = [r \in Runners |-> 0]
    /\ picked   = [r \in Runners |-> NoPick]
    /\ spawned  = [r \in Runners |-> 0]
    /\ view     = [r \in Runners |-> NoView]
    /\ tasks    = {}
    /\ retry    = NoRetry
    /\ events   = 0
    /\ detached = {} /\ crossed = FALSE

-----------------------------------------------------------------------------
(* Conditions and assignments of the statements *)

Translatable == file.parsed /\ ~file.deleted

\* The session is of the present parse.
Valid(r) == Translatable /\ file.key = session[r]

\* Faulty: only chunks that were never tried.
DueRowFresh(row) == row.status = "pending" /\ row.retries = 0

\* What claim_next_due_chunk and find_due_file_ids look for.
DueRow(row) ==
    \/ row.status = "pending" /\ row.retries = 0
    \/ /\ row.status \in {"pending", "failed"}
       /\ row.retries <= MaxRetries /\ row.next = "now"

Due == {c \in Chunks : DueRow(chunk[c])}

\* `processing' for ten minutes.
Stale == {c \in Chunks :
            chunk[c].status = "processing" /\ chunk[c].attempt = "old"}

\* Faulty: no retry is scheduled for a first failure.
FailedRowFinal(row, n) ==
    [row EXCEPT !.status = "failed", !.retries = n, !.next = "null",
                !.error = "provider"]

\* The assignments of mark_chunk_failed.
FailedRow(row, n) ==
    [row EXCEPT !.status = "failed", !.retries = n, !.error = "provider",
                !.next = IF n > MaxRetries THEN "null" ELSE "later"]

\* The assignments of the two statements that reset stale chunks.
TimedOutRow(row) ==
    LET n == row.retries + 1
        over == n > MaxRetries
    IN [row EXCEPT !.retries = n,
                   !.status = IF over THEN "failed" ELSE "pending",
                   !.next = IF over THEN "null" ELSE "later",
                   !.error = IF @ = "none" THEN "provider" ELSE @]

\* Every chunk that is not done fails, and nothing retries it.
StoppedRow(row) ==
    IF row.status \in {"none", "done"} THEN [row EXCEPT !.next = "null"]
    ELSE [row EXCEPT !.status = "failed", !.next = "null", !.error = "config"]

\* Chunks whose claim this step ends although a task works on them.
Detach ==
    detached' = detached \cup
        {c \in Chunks : /\ chunk[c].status = "processing"
                        /\ chunk'[c].status # "processing"
                        /\ \E t \in tasks : t.chunk = c /\ t.rows = file.rows}

CountOf(s) == Cardinality({c \in Chunks : chunk[c].status = s})

\* The aggregate query and the status derived from its counts.
Aggregate ==
    LET done == CountOf("done")
        failed == CountOf("failed")
        open == CountOf("pending") + CountOf("processing")
    IN [shown |-> CASE open > 0                           -> "processing"
                    [] open = 0 /\ failed = 0             -> "done"
                    [] open = 0 /\ failed > 0 /\ done > 0 -> "partial"
                    [] OTHER                              -> "failed",
        done |-> done, failed |-> failed]

\* enqueue_job: nothing happens if the file has a live translate job.
EnqueueTranslate == job' = IF job = "none" THEN "queued" ELSE job

Event == events < EventLimit /\ events' = events + 1

Goto(r, where) == pc' = [pc EXCEPT ![r] = where]

-----------------------------------------------------------------------------
(* The parser, and the deletion of the file *)

\* A new parse begins.
MarkParsing ==
    /\ file.parsed
    /\ Event
    /\ file' = [file EXCEPT !.parsed = FALSE]
    /\ UNCHANGED <<chunk, job, owed, runnerVars, tasks, retry, detached, crossed>>

\* It fails: parsed_at changes all the same, and the old chunks stay.
ParseFails ==
    /\ Event
    /\ file' = [file EXCEPT !.parsed = FALSE, !.key = @ + 1]
    /\ UNCHANGED <<chunk, job, owed, runnerVars, tasks, retry, detached, crossed>>

\* It ends well: new chunks, no provider, translation `pending'.  A parse that
\* nobody marked is a repeated execution of the parse job.
PersistChunks ==
    /\ IF file.parsed THEN Event ELSE UNCHANGED events
    /\ file' = [file EXCEPT !.parsed = TRUE, !.key = @ + 1, !.rows = file.key + 1,
                            !.lock = NoProvider, !.agg = NoView]
    /\ \E n \in Sizes :
          chunk' = [c \in Chunks |-> IF c <= n THEN FreshChunk ELSE NoChunk]
    /\ tasks' = {[t EXCEPT !.current = FALSE] : t \in tasks}
    /\ owed' = TRUE
    /\ detached' = {} /\ crossed' = FALSE
    /\ UNCHANGED <<job, runnerVars, retry>>

\* start_file_translation, or the parser is lost before it.
StartTranslation ==
    /\ owed
    /\ owed' = FALSE
    /\ \/ EnqueueTranslate /\ UNCHANGED events
       \/ Event /\ UNCHANGED job
    /\ UNCHANGED <<file, chunk, runnerVars, tasks, retry, detached,
                   crossed>>

DeleteFile ==
    /\ ~file.deleted
    /\ Event
    /\ file' = [file EXCEPT !.deleted = TRUE]
    /\ UNCHANGED <<chunk, job, owed, runnerVars, tasks, retry, detached, crossed>>

-----------------------------------------------------------------------------
(* Runners: the job worker and the retry poller *)

\* The worker takes the translate job.
TakeJob(w) ==
    /\ pc[w] = "idle" /\ job = "queued"
    /\ job' = "held"
    /\ Goto(w, "ensure")
    /\ UNCHANGED <<file, chunk, owed, config, session, picked, spawned, view,
                   tasks, retry, events, detached, crossed>>

\* run_retry_cycle_once finds the file for its stale chunks ...
FindStale(p) ==
    /\ pc[p] = "idle" /\ Translatable /\ Stale # {}
    /\ Goto(p, "reset")
    /\ UNCHANGED <<file, chunk, job, owed, config, session, picked, spawned,
                   view, tasks, retry, events, detached, crossed>>

\* ... which it resets without a look at the file, ...
ResetStaleOfFile(p) ==
    /\ pc[p] = "reset"
    /\ chunk' = [c \in Chunks |-> IF c \in Stale THEN TimedOutRow(chunk[c])
                                  ELSE chunk[c]]
    /\ Detach
    /\ Goto(p, "ensure")
    /\ UNCHANGED <<file, job, owed, config, session, picked, spawned, view,
                   tasks, retry, events, crossed>>

\* ... or for chunks that are due.
FindDue(p) ==
    /\ pc[p] = "idle" /\ Translatable /\ Due # {}
    /\ Goto(p, "ensure")
    /\ UNCHANGED <<file, chunk, job, owed, config, session, picked, spawned,
                   view, tasks, retry, events, detached, crossed>>

\* The runner is through; a translate job succeeds, or is queued again or dead.
Leave(r, jobAfter) ==
    /\ Goto(r, "idle")
    /\ session' = [session EXCEPT ![r] = 0]
    /\ picked' = [picked EXCEPT ![r] = NoPick]
    /\ spawned' = [spawned EXCEPT ![r] = 0]
    /\ view' = [view EXCEPT ![r] = NoView]
    /\ IF r \in Workers THEN job' \in jobAfter ELSE UNCHANGED job

LeaveOk(r)  == Leave(r, {"none"})
LeaveErr(r) == Leave(r, {"queued", "none"})

\* A disabled provider translates nothing.
Begin(r) == IF config[r] \in Disabled THEN "disable" ELSE "init"

\* ensure_file_translation_session reads the row: the file may have no lock,
\* the one of this process, or another's.
EnsureSession(r) ==
    /\ pc[r] = "ensure" /\ Translatable
    /\ session' = [session EXCEPT ![r] = file.key]
    /\ Goto(r, CASE file.lock = NoProvider -> "lock"
                 [] file.lock = config[r]  -> Begin(r)
                 [] OTHER                  -> "stop")
    /\ UNCHANGED <<file, chunk, job, owed, config, picked, spawned, view,
                   tasks, retry, events, detached, crossed>>

EnsureFails(r) ==
    /\ pc[r] = "ensure" /\ ~Translatable
    /\ LeaveErr(r)
    /\ UNCHANGED <<file, chunk, owed, config, tasks, retry, events, detached,
                   crossed>>

\* The lock is taken unless somebody else took it, or the file changed.  The
\* runner then reads again.
TakeLock(r) ==
    /\ pc[r] = "lock"
    /\ IF Valid(r) /\ file.lock = NoProvider
       THEN /\ file' = [file EXCEPT !.lock = config[r]]
            /\ Goto(r, Begin(r))
            /\ UNCHANGED session
       ELSE /\ Goto(r, "ensure")
            /\ session' = [session EXCEPT ![r] = 0]
            /\ UNCHANGED file
    /\ UNCHANGED <<chunk, job, owed, config, picked, spawned, view, tasks,
                   retry, events, detached, crossed>>

\* stop_file_translation_for_mismatch.
StopForMismatch(r) ==
    /\ pc[r] = "stop"
    /\ chunk' = IF Valid(r) THEN [c \in Chunks |-> StoppedRow(chunk[c])] ELSE chunk
    /\ Detach
    /\ Goto(r, "stopRead")
    /\ UNCHANGED <<file, job, owed, config, session, picked, spawned, view,
                   tasks, retry, events, crossed>>

\* mark_file_translation_disabled: one transaction, chunks and file.  Neither
\* of its statements looks at parse_status.
MarkDisabled(r) ==
    LET same == file.key = session[r] IN
    /\ pc[r] = "disable"
    /\ chunk' = IF same /\ ~file.deleted
                THEN [c \in Chunks |-> StoppedRow(chunk[c])] ELSE chunk
    /\ file' = IF same
               THEN [file EXCEPT !.agg =
                       [shown |-> "failed", done |-> CountOf("done"),
                        failed |-> CountOf("failed")']]
               ELSE file
    /\ Detach
    /\ crossed' = (crossed /\ ~same)
    /\ LeaveOk(r)
    /\ UNCHANGED <<owed, config, tasks, retry, events>>

\* initialize_file_translation.
Initialize(r) ==
    /\ pc[r] = "init"
    /\ file' = IF Valid(r)
               THEN [file EXCEPT !.agg.shown =
                       IF CountOf("none") = NChunks THEN "done" ELSE "processing"]
               ELSE file
    /\ Goto(r, "loop")
    /\ UNCHANGED <<chunk, job, owed, config, session, picked, spawned, view,
                   tasks, retry, events, detached, crossed>>

-----------------------------------------------------------------------------
(* process_file_translation: rounds of claims, tasks and an aggregate *)

\* reset_stale_processing_chunks_for_session.
ResetStaleOfSession(r) ==
    /\ pc[r] = "loop"
    /\ chunk' = [c \in Chunks |-> IF Valid(r) /\ c \in Stale
                                  THEN TimedOutRow(chunk[c]) ELSE chunk[c]]
    /\ Detach
    /\ Goto(r, "select")
    /\ spawned' = [spawned EXCEPT ![r] = 0]
    /\ UNCHANGED <<file, job, owed, config, session, picked, view, tasks,
                   retry, events, crossed>>

\* Faulty: max_concurrency is not looked at.
SelectChunkUnbounded(r) ==
    /\ pc[r] = "select" /\ Valid(r)
    /\ \E c \in Due :
          picked' = [picked EXCEPT ![r] =
                       [chunk |-> c, retries |-> chunk[c].retries]]
    /\ Goto(r, "claim")
    /\ UNCHANGED <<file, chunk, job, owed, config, session, spawned, view,
                   tasks, retry, events, detached, crossed>>

\* claim_next_due_chunk selects the first due chunk ...
SelectChunk(r) ==
    /\ pc[r] = "select" /\ spawned[r] < Concurrency
    /\ Valid(r)
    /\ \E c \in Due :
          /\ \A d \in Due : c <= d
          /\ picked' = [picked EXCEPT ![r] =
                          [chunk |-> c, retries |-> chunk[c].retries]]
    /\ Goto(r, "claim")
    /\ UNCHANGED <<file, chunk, job, owed, config, session, spawned, view,
                   tasks, retry, events, detached, crossed>>

\* ... or finds none, or the round is full.
RoundEnds(r) ==
    /\ pc[r] = "select"
    /\ spawned[r] = Concurrency \/ ~Valid(r) \/ Due = {}
    /\ Goto(r, "join")
    /\ UNCHANGED <<file, chunk, job, owed, config, session, picked, spawned,
                   view, tasks, retry, events, detached, crossed>>

\* Faulty: the row is claimed in whatever state it is by now.
ClaimChunkBlind(r) ==
    LET c == picked[r].chunk IN
    /\ pc[r] = "claim"
    /\ Valid(r)
    /\ chunk' = [chunk EXCEPT ![c].status = "processing", ![c].attempt = "recent",
                              ![c].next = "null", ![c].error = "none"]
    /\ tasks' = tasks \cup
                {[runner |-> r, chunk |-> c, rows |-> file.rows,
                  retries |-> picked[r].retries, current |-> TRUE]}
    /\ spawned' = [spawned EXCEPT ![r] = @ + 1]
    /\ picked' = [picked EXCEPT ![r] = NoPick]
    /\ Goto(r, "select")
    /\ UNCHANGED <<file, job, owed, config, session, view, retry, events,
                   detached, crossed>>

\* ... and claims it if it still is due; a task is spawned with the retry_count
\* of the SELECT.  Otherwise it selects again.
ClaimChunk(r) ==
    LET c == picked[r].chunk IN
    /\ pc[r] = "claim"
    /\ IF Valid(r) /\ DueRow(chunk[c])
       THEN /\ chunk' = [chunk EXCEPT ![c].status = "processing",
                                      ![c].attempt = "recent",
                                      ![c].next = "null", ![c].error = "none"]
            /\ tasks' = {[t EXCEPT !.current = @ /\ t.chunk # c] : t \in tasks}
                        \cup {[runner |-> r, chunk |-> c, rows |-> file.rows,
                               retries |-> picked[r].retries, current |-> TRUE]}
            /\ spawned' = [spawned EXCEPT ![r] = @ + 1]
       ELSE UNCHANGED <<chunk, tasks, spawned>>
    /\ picked' = [picked EXCEPT ![r] = NoPick]
    /\ Goto(r, "select")
    /\ UNCHANGED <<file, job, owed, config, session, view, retry, events,
                   detached, crossed>>

\* The row is as the task claimed it.
Mine(t) ==
    /\ t.current /\ chunk[t.chunk].status = "processing"
    /\ Valid(t.runner)

\* translate_claimed_chunk: the provider answers (mark_chunk_done) ...
TaskDone(t) ==
    LET c == t.chunk IN
    /\ chunk' = IF Mine(t)
                THEN [chunk EXCEPT ![c].status = "done", ![c].next = "null",
                                   ![c].error = "none", ![c].text = t.rows]
                ELSE chunk
    /\ tasks' = tasks \ {t}
    /\ UNCHANGED <<file, job, owed, runnerVars, retry, events, detached,
                   crossed>>

\* Faulty: the failure is recorded whatever the row has become.
TaskFailedLate(t) ==
    /\ chunk' = IF Valid(t.runner)
                THEN [chunk EXCEPT ![t.chunk] = FailedRow(@, t.retries + 1)]
                ELSE chunk
    /\ tasks' = tasks \ {t}
    /\ UNCHANGED <<file, job, owed, runnerVars, retry, events, detached,
                   crossed>>

\* ... or fails, or the text does not match its hash (mark_chunk_failed).
TaskFailed(t) ==
    /\ chunk' = IF Mine(t)
                THEN [chunk EXCEPT ![t.chunk] = FailedRow(@, t.retries + 1)]
                ELSE chunk
    /\ tasks' = tasks \ {t}
    /\ UNCHANGED <<file, job, owed, runnerVars, retry, events, detached,
                   crossed>>

\* All tasks of the round are joined.
Join(r) ==
    /\ pc[r] = "join"
    /\ \A t \in tasks : t.runner # r
    /\ Goto(r, "read")
    /\ UNCHANGED <<file, chunk, job, owed, config, session, picked, spawned,
                   view, tasks, retry, events, detached, crossed>>

\* refresh_file_translation_aggregate_for_session: the counts are read, ...
ReadAggregate(r) ==
    /\ pc[r] \in {"read", "stopRead"}
    /\ view' = [view EXCEPT ![r] = Aggregate]
    /\ Goto(r, IF pc[r] = "read" THEN "write" ELSE "stopWrite")
    /\ UNCHANGED <<file, chunk, job, owed, config, session, picked, spawned,
                   tasks, retry, events, detached, crossed>>

\* Faulty: whatever parse the file is of by now.
WriteViewAnyParse(r) ==
    /\ file' = [file EXCEPT !.agg = view[r]]
    /\ crossed' = FALSE

\* ... and written, unless the file was parsed again.
WriteView(r) ==
    LET same == file.key = session[r] IN
    /\ file' = IF same THEN [file EXCEPT !.agg = view[r]] ELSE file
    /\ crossed' = (crossed /\ ~same)

\* A round without a task is the last one.
WriteAggregate(r) ==
    /\ pc[r] = "write"
    /\ WriteView(r)
    /\ IF spawned[r] = 0
       THEN LeaveOk(r)
       ELSE /\ Goto(r, "loop")
            /\ view' = [view EXCEPT ![r] = NoView]
            /\ UNCHANGED <<job, session, picked, spawned>>
    /\ UNCHANGED <<chunk, owed, config, tasks, retry, events, detached>>

\* After a mismatch the session ends with an error.
WriteStopped(r) ==
    /\ pc[r] = "stopWrite"
    /\ WriteView(r)
    /\ LeaveErr(r)
    /\ UNCHANGED <<chunk, owed, config, tasks, retry, events, detached>>

\* The process of an idle runner was restarted with another configuration.
Reconfigure(r) ==
    /\ pc[r] = "idle"
    /\ Event
    /\ \E p \in Providers \ {config[r]} : config' = [config EXCEPT ![r] = p]
    /\ UNCHANGED <<file, chunk, job, owed, pc, session, picked, spawned, view,
                   tasks, retry, detached, crossed>>

\* A statement fails, or the process dies: the tasks are aborted.
Abandon(r) ==
    /\ pc[r] # "idle"
    /\ Event
    /\ tasks' = {t \in tasks : t.runner # r}
    /\ LeaveErr(r)
    /\ UNCHANGED <<file, chunk, owed, config, retry, detached, crossed>>

-----------------------------------------------------------------------------
(* retry_file_translation *)

AskRetry ==
    /\ retry.at = "none"
    /\ Translatable
    /\ retry' = [NoRetry EXCEPT !.at = "asked"]
    /\ Event
    /\ UNCHANGED <<file, chunk, job, owed, runnerVars, tasks, detached,
                   crossed>>

\* The ids of the chunks, all of them or those of the request.
PickChunks ==
    /\ retry.at = "asked"
    /\ \E S \in SUBSET {c \in Chunks : chunk[c].status # "none"} :
          retry' = [retry EXCEPT !.at = "picked", !.chunks = S,
                                 !.rows = file.rows]
    /\ UNCHANGED <<file, chunk, job, owed, runnerVars, tasks, events,
                   detached, crossed>>

\* One transaction; ids of an earlier parse name no row any more.
ResetPicked ==
    LET reset == {c \in retry.chunks : /\ retry.rows = file.rows
                                       /\ chunk[c].status \in {"pending", "failed"}}
    IN
    /\ retry.at = "picked"
    /\ chunk' = [c \in Chunks |->
                   IF c \in reset
                   THEN [chunk[c] EXCEPT !.status = "pending", !.retries = 0,
                                         !.attempt = "null", !.next = "now",
                                         !.error = "none"]
                   ELSE chunk[c]]
    /\ tasks' = {[t EXCEPT !.current = @ /\ t.chunk \notin reset] : t \in tasks}
    /\ retry' = [retry EXCEPT !.at = "reset", !.any = reset # {}, !.chunks = {}]
    /\ UNCHANGED <<file, job, owed, runnerVars, events, detached, crossed>>

\* refresh_file_translation_snapshot: like the aggregate of a session, but the
\* write does not ask of which parse the file is.
ReadSnapshot ==
    /\ retry.at = "reset"
    /\ retry' = [retry EXCEPT !.at = "read", !.view = Aggregate,
                              !.rows = file.rows]
    /\ UNCHANGED <<file, chunk, job, owed, runnerVars, tasks, events,
                   detached, crossed>>

WriteSnapshot ==
    /\ retry.at = "read"
    /\ file' = IF file.deleted THEN file ELSE [file EXCEPT !.agg = retry.view]
    /\ crossed' = IF file.deleted THEN crossed ELSE retry.rows # file.rows
    /\ retry' = IF retry.any THEN [NoRetry EXCEPT !.at = "start"] ELSE NoRetry
    /\ UNCHANGED <<chunk, job, owed, runnerVars, tasks, events, detached>>

StartRetry ==
    /\ retry.at = "start"
    /\ EnqueueTranslate
    /\ retry' = NoRetry
    /\ UNCHANGED <<file, chunk, owed, runnerVars, tasks, events,
                   detached, crossed>>

\* A statement of the request fails, or the process dies under it.
RetryLost ==
    /\ retry.at # "none"
    /\ retry' = NoRetry
    /\ UNCHANGED <<file, chunk, job, owed, runnerVars, tasks, events,
                   detached, crossed>>

-----------------------------------------------------------------------------
(* The passing of time *)

\* A claim gets ten minutes old: its task is gone, or the call to the provider
\* takes that long.
ClaimAges(c) ==
    /\ chunk[c].status = "processing" /\ chunk[c].attempt = "recent"
    /\ IF \E t \in tasks : t.chunk = c /\ t.current THEN Event ELSE UNCHANGED events
    /\ chunk' = [chunk EXCEPT ![c].attempt = "old"]
    /\ UNCHANGED <<file, job, owed, runnerVars, tasks, retry, detached,
                   crossed>>

BackoffElapses(c) ==
    /\ chunk[c].next = "later"
    /\ chunk' = [chunk EXCEPT ![c].next = "now"]
    /\ UNCHANGED <<file, job, owed, runnerVars, tasks, retry, events,
                   detached, crossed>>

-----------------------------------------------------------------------------
RunnerSteps(r) ==
    \/ EnsureSession(r) \/ EnsureFails(r) \/ TakeLock(r) \/ StopForMismatch(r)
    \/ MarkDisabled(r) \/ Initialize(r) \/ ResetStaleOfSession(r)
    \/ SelectChunk(r) \/ RoundEnds(r) \/ ClaimChunk(r) \/ Join(r)
    \/ ReadAggregate(r) \/ WriteAggregate(r) \/ WriteStopped(r)

PollSteps(p) == FindStale(p) \/ ResetStaleOfFile(p) \/ FindDue(p)

TaskEnds(r) == \E t \in tasks : t.runner = r /\ (TaskDone(t) \/ TaskFailed(t))

ParserSteps == MarkParsing \/ ParseFails \/ PersistChunks \/ StartTranslation

RetrySteps == PickChunks \/ ResetPicked \/ ReadSnapshot \/ WriteSnapshot \/ StartRetry

Next ==
    \/ ParserSteps \/ DeleteFile
    \/ AskRetry \/ RetrySteps \/ RetryLost
    \/ \E w \in Workers : TakeJob(w)
    \/ \E p \in Pollers : PollSteps(p)
    \/ \E r \in Runners : RunnerSteps(r) \/ TaskEnds(r) \/ Abandon(r) \/ Reconfigure(r)
    \/ \E c \in Chunks : ClaimAges(c) \/ BackoffElapses(c)

Spec == Init /\ [][Next]_vars

\* Workers and pollers keep running, calls to the provider end, clocks advance.
Fairness ==
    /\ \A w \in Workers : WF_vars(TakeJob(w))
    /\ \A p \in Pollers : WF_vars(PollSteps(p))
    /\ \A r \in Runners : WF_vars(RunnerSteps(r)) /\ WF_vars(TaskEnds(r))
    /\ \A c \in Chunks : WF_vars(ClaimAges(c)) /\ WF_vars(BackoffElapses(c))

FairSpec == Spec /\ Fairness

-----------------------------------------------------------------------------
(* Properties *)

\* A chunk is sent to the provider by one task at a time, however many sessions
\* of workers and pollers run on the file, unless its claim timed out or was
\* stopped under a task (claim_next_due_chunk).
SoleTranslator ==
    \A c \in Chunks \ detached :
        Cardinality({t \in tasks : t.chunk = c /\ t.rows = file.rows}) <= 1

\* A file is shown as translated only if every one of its present chunks is,
\* from the present parse: no late aggregate of an earlier state, or of an
\* earlier parse, says otherwise (except the retry endpoint's, see `crossed').
DoneMeansTranslated ==
    file.agg.shown = "done" /\ ~crossed =>
        \A c \in Chunks : chunk[c].status # "none" =>
            chunk[c].status = "done" /\ chunk[c].text = file.rows

\* No chunk is stranded: it is done, or some query for due or stale chunks will
\* find it, or it failed for good, having used up its retries or because of
\* the configuration, and only then.
ChunkRecoverable ==
    \A c \in Chunks :
        LET row == chunk[c] IN
        /\ row.status = "pending" => row.retries = 0 \/ row.next # "null"
        /\ row.status = "processing" => row.attempt # "null"
        /\ row.status \in {"pending", "processing"} => row.retries <= MaxRetries
        /\ row.status = "failed" =>
              (row.next = "null" <=> row.retries > MaxRetries \/ row.error = "config")

\* A finished translation is never undone or overwritten, by a late task, a
\* stale sweep, a stop or a retry; only a new parse replaces it.
DoneStays ==
    [][file'.rows = file.rows =>
          \A c \in Chunks : chunk[c].status = "done" => chunk'[c].status = "done"]_vars

\* Every chunk of a parsed file is translated or fails for good in the end,
\* unless a new parse or the deletion of the file ends it first.
ChunksSettle ==
    \A c \in Chunks :
        Translatable /\ chunk[c].status # "none" ~>
            \/ ~Translatable
            \/ chunk[c].status \in {"none", "done"}
            \/ chunk[c].status = "failed" /\ chunk[c].next = "null"

-----------------------------------------------------------------------------
(* What the documentation says *)

\* Nobody works on the file, and nothing will without a new request.
Quiet ==
    /\ \A r \in Runners : pc[r] = "idle"
    /\ job = "none" /\ ~owed /\ retry.at = "none"

\* The design of the feature: when all chunks are translated, the file is
\* `done'.
AllDoneIsShown ==
    Quiet /\ Translatable /\ (\A c \in Chunks : chunk[c].status = "done")
        => file.agg.shown = "done"
=============================================================================
