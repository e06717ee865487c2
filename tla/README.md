# TLA+ models of LegalGenie-Agent

LegalGenie-Agent is a server (Rust, axum, PostgreSQL) that keeps legal cases,
their evidence files, persons and timelines.  Files are parsed and translated in
the background by workers that share a durable job queue; an agent proposes
actions that a human confirms.  This directory holds TLA+ specifications of the
parts of the server whose correctness depends on the order in which several
parties act, the TLC configurations that check them, and TLAPS proofs about all
of them.  There are two families: the background work (queue, parse,
translation) and the workspace (the request handlers over cases, persons,
timeline, agent and accounts).

    tlc -config JobQueueSafety.cfg MCJobQueue.tla        model-check a run
    tlapm JobQueueProofs.tla                             check the proofs

`PROJECT.json` lists the components, the runs, the source lines every definition
stands for, the hazards of the code with the properties that watch over them,
the findings and the theorems.

## 1. Inventory

| Component (source) | State | Operations | What is hard |
|---|---|---|---|
| Job queue (`jobs.rs`, migration 0017) | tables `jobs`, `job_events` | enqueue, claim, mark running, heartbeat, complete, fail, reset stale | several processes compete; leases run out; each operation is one or two statements |
| Job workers (`job_worker.rs`) | the job in memory, a heartbeat task | poll, sweep, run a job, report | errors between statements, panics, drain, crash |
| Process (`main.rs`) | cancellation token, worker tasks | startup sweep, spawn, drain for 60 s, exit | sweeps and claims of other processes meanwhile |
| Parse pipeline (`parser.rs`) | `evidence_files.parse_status`, chunks, the artifact on disk | request, fetch, parse, write artifact, persist, mark failed | status, artifact, chunks and job are four separate writes |
| Evidence files API (`files.rs`, `case_files.rs`) | the same rows | upload, forced parse, retry of translations, soft delete | any of it beside a running job |
| Translation (`translation.rs`, migration 0014) | chunk states, provider lock, aggregate on the file | sessions of the job worker and of the retry poller | two sessions of one file, re-parses, late answers, a non-atomic aggregate |
| Agent (`agent/`, migration 0018) | sessions, `agent_tool_calls` | post a message, run a tool, confirm, reject, archive | two decisions on one approval, crash after the decision |
| Idempotency keys (`idempotency.rs`, 0016) | recorded responses | look up, run the handler, record | a retry during the first request, or after a failure past its write |
| Authentication (`auth.rs`, `context.rs`, 0013) | users, refresh token versions | register, login, refresh, logout, change the password | a login or a second change beside a change of the password |
| Cases, members, access (`cases.rs`, `case_members.rs`, `access.rs`) | cases, membership and roles | create, update, delete; add, change, remove members; four checks | writes after stale checks, a status written back after a deletion |
| Persons (`case_persons.rs`, `persons.rs`) | persons, links, relationships | create, update, delete, link, relate, merge | the merge: seven kinds of statement, two constraints, row locks, deadlocks |
| Timeline (`timeline.rs`, `case_timeline.rs`) | nodes with `sort_order`, links to evidence | create, update, move, delete, link, unlink | positions read in one statement and used in the next; a day numbered again row by row |
| Rate limiting (`rate_limit.rs`, 0019) | fixed-window counters | count and check, reset | attempts that overlap a reset or the end of a window |
| Audit log, search, exports, upload checks, object store, configuration, web client | | | read-only, best-effort inserts, stateless, or pure I/O |

Interaction: a request handler writes the status of a file and inserts a job;
workers and processes share nothing but the database; a parse job, when it ends,
inserts a translate job; the retry poller of each process runs translation
sessions itself, beside the job worker.  Requests meet each other only in the
tables, too: nearly every handler checks the access to its case, in statements of
its own, before the statements that write.  There is no lock other than row locks
inside a statement or a transaction, and the in-memory row a handler has read is
never re-read.  Hence the granularity of all models: **one SQL statement, or one
transaction, is one step; everything between two awaits of a task can interleave
with every other task.**

## 2. Modules

| Module | What it is |
|---|---|
| `JobLifecycle` | abstract: what the queue promises to those who submit and execute jobs |
| `JobQueue` | the table, the workers await by await, the processes, the passing of time |
| `MCJobQueue` | its constant values for TLC |
| `JobQueueProofs` | the inductive invariant of `JobQueue` and its theorems; row locks, backoff, the trail of events |
| `JobQueueRefinement` | extends it: `JobQueue` implements `JobLifecycle`, proved |
| `ParsePipeline`, `MCParsePipeline` | parse status, artifact, chunks and translate request of a file, on top of `JobLifecycle` |
| `ParsePipelineProofs` | extends `ParsePipeline`: the invariant of `JobLifecycle`, on which the pipeline rests, and the theorems of the pipeline |
| `Translation`, `MCTranslation` | chunks, sessions, aggregate, retries of one file |
| `TranslationProofs` | its theorems |
| `Requests` | requests in flight, the idempotency middleware, the checks of the access |
| `Cases` | extends `Requests`: cases and members |
| `Persons` | extends `Cases`: persons, links, relationships, the merge |
| `Timeline` | extends `Persons`: nodes, the order of a day, links to evidence |
| `Agent` | extends `Timeline`: sessions, tool calls, approvals |
| `Accounts` | extends `Requests`: accounts, refresh tokens, the limit of attempts |
| `Workspace`, `MCWorkspace` | composes `Agent` and `Accounts`: the API; its menus and seeds for TLC |
| `WorkspaceProofs` | every handler stays on its course; retries and replays |
| `WorkspaceSafety` | extends it: accounts, tokens, guesses, access, membership, the agent's calls |
| `WorkspaceGraph` | extends that: persons, relationships and merges |
| `WorkspaceTimeline` | extends that: the types of all tables, the order of the days, moves |

`ParsePipeline` composes with the *abstract* queue: it extends `JobLifecycle` and
conjoins its actions (`Submit`, `Begin`, `Succeed`, `Fail`, `Lose`, `Requeue`,
`Loosen`).  That is sound because `JobQueue` implements `JobLifecycle` (property
`ImplementsLifecycle`, theorem `QueueImplementsLifecycle`), and the proofs about
`ParsePipeline` take from it no more than `LifecyclePromise`.  `Translation` needs less of the queue, one job of one
reference, and keeps it as the variable `job`.

Definitions whose name begins with `Faulty`, or whose comment begins with
`Faulty:`, are no part of a specification.
Each is a variant of the definition below it with a plausible bug; putting it in
the place of that definition makes TLC report the property that is meant to catch
the bug (`mutants` in `PROJECT.json`).

### JobQueue

*Table.* `jobs[j]` is a row of `jobs`; status `none` is a row not yet inserted.
Of the times in a row only what the statements compare is kept: `lease` is null,
live or expired, `due` says whether `next_run_at` has passed, `created` is the
second of `created_at`, which orders claims and ties (the id, random in the code,
breaks them).  `events[j]` is the set of events recorded in `job_events`.

*Worker.* `pc[w]` is the await at which `worker_loop` or `run_job` stands:
`idle`, `polling`, `locking` (the row lock of `claim_next_job` is held),
`claimed`, `marked`, `running`, `done`/`failing`, `deciding` (between the SELECT
and the UPDATE of `fail_job`), `logOk`/`logErr`.  `held`, `seen` and `message`
are what the task has in memory.  A process is `down`, `up` or `draining`.

| Action | Code |
|---|---|
| `Enqueue` | `enqueue_job`, ON CONFLICT DO NOTHING against `idx_jobs_active_unique` |
| `Poll`, `WorkerStop`, `Sweep`, `ClaimNone` | the loop of `worker_loop`; shutdown is looked at only at its top |
| `ClaimSelect`, `ClaimCommit` | the transaction of `claim_next_job` (FOR UPDATE SKIP LOCKED) |
| `MarkRunning`, `RecordStarted`, `Heartbeat`, `FinishOk`, `FinishErr`, `Complete`, `RecordSucceeded`, `FailRead`, `FailWrite`, `RecordFailed` | `run_job` and the statements it calls |
| `Panic` | the two byte-offset cuts of an error message |
| `Abandon` | an error of any statement: `?` leaves `run_job`, the row stays |
| `LeaseExpires`, `LeaseOverrun`, `BackoffElapses` | time; an *overrun* is a lease that expires although a worker still executes the job |
| `Start`, `Shutdown`, `Exit`, `Crash` | `main`: startup sweep (its failure is only logged), token, 60 s drain |

`overrun` is a history variable: the jobs whose lease once ran out under an
execution.  The code's guarantees hold for all other jobs, and most properties say
so; what happens to the others is the finding of `JobQueueResurrect`.

### ParsePipeline

`parse[f]` is `parse_status`, `artifact` the files whose JSON is on disk, `asked`
the files whose present chunks had their translation requested, `step[w]` where
an execution of `run_parse_job` is, `asking[u]` where a request in `enqueue_parse`
is.  `mark_processing` and `enqueue_job` are two steps, and so are fetching the
row, writing the artifact, the transaction of `persist_chunks_and_mark_done`,
`start_file_translation`, `mark_failed` and the report to the queue.  `astray` is
a history variable: the files whose status a failure, or a request that came while
the execution was past its last write, left to nobody.

### Translation

`file` is the row of `evidence_files` (parsed or not, `parsed_at` as `key`, the
parse its chunks come from, the provider lock, the aggregate shown), `chunk[c]` a
row of `evidence_file_chunks`, `tasks` the chunks at the provider.
`last_attempt_at` is unique to a claim, so instead of comparing times a task
carries `current`: whether the row's value still is its own.  A runner is a job
worker (its session is started by the translate job) or a retry poller.  `pc[r]`
follows `process_file_translation`: ensure the session and its lock, stop on a
mismatch or a disabled provider, initialize, then rounds of reset stale, select,
claim, join, read the aggregate, write it.  `retry` is a request of
`retry_file_translation`, whose snapshot is read and written like the aggregate,
but without the condition on `parsed_at`.  `detached` and `crossed` are history
variables: chunks whose claim ended under a running task, and a snapshot that
was written over a newer parse.

### Requests

A handler keeps nothing between two statements but local variables and an open
transaction, so a request is a record in `req[p]`: the operation `op`, the place
`at` in its handler, its user, case, path and body (`arg`), what it has read
(`saw`), and what its transaction has written (`tx`), which `Seen` lays over the
tables and `Locked` keeps others from writing.  `Slots` bounds the requests in
flight; the processes behind them do not matter, since they share nothing.

| Action | Code |
|---|---|
| `Send` (with each module's `Send...`) | a client: with a key it may be a retry, with the same token or a renewed one |
| `Replay`, `LookupMiss`, `LookupFails` | the look-up of `idempotency_middleware`; when it fails the request goes on unprotected |
| `Record`, `RecordFails` | the insert after a success; a duplicate or a failure is a warning |
| `CheckCase`, `CheckMember` | `ensure_case_access`, `..._write_access`, `..._owner`, `ensure_operation`: the case, then the membership |
| `CutShort` | the client goes away, the process dies or the next statement fails; the transaction is rolled back |

The key of a record hashes method, path, header and Authorization header, not the
body: `RequestKey` is operation, path, user and token.  `Goto`, `Learn`, `Check`,
`Carry`, `Succeed`, `Refuse` and their combinations are the ways a handler goes
on; `Deny` is where a failed check leads (a tool of the agent turns it into its
result).

History variables: `keys` has, beside the records, which keyed operations were
carried out, which of them twice, and which lost their protection for a reason
the middleware accepts; `may` in a request collects the rights its user has had
since it was sent (whoever changes roles or cases applies `Informed`); `crossed`
the pairs of operations that overlapped on a case; `broken` where requests were
cut short.  `menu`, `left` and `faults` bound the behaviours: a *menu* says which
operations a behaviour may request, how many, by whom, with a key or without, and
with how many faults.

### Cases, Persons, Timeline, Agent, Accounts

One action per statement, named for what the statement does, in the order of the
handler; a comment above the first names the route.

* `Cases`: `cases` and `members` are the tables.  `ReadCase`, the check and
  `WriteCase` are `update_case`, which writes back name and status as it read
  them.  `UpsertMember`, `UpsertOwner`, `RefuseMember` split `add_member`.
* `Persons`: `links` and `rels` are functions on the columns of their UNIQUE
  constraints (one `rel_type`), `persons` has status and name.  `CheckSource` to
  `MergeCommit` is `merge_case_persons`: links are taken over one by one
  (`TakeLink`, `FillLink`), relationships re-pointed by two updates (`MoveFrom`,
  `MoveTo`, which fail when `Allowed` says that a constraint would be violated),
  the rest dropped, the source unlinked.  Each waits for rows that another merge
  has written; `MergeDeadlock` is the database ending one of two that wait for
  each other.
* `Timeline`: node ids are in the order of `created_at`.  `FetchNode` to
  `CommitNode` is `update_node` and `move_node`; `ReadDay` and `NumberRow` are
  `resequence_day_orders`, first for the new day, then for the old one.
  `DeleteEvidence` is `delete_file` as far as links go.
* `Agent`: `calls` is `agent_tool_calls`; a call of a tool that needs approval is
  inserted as pending (`InsertPending`), then `Decide`, `ApproveRow` or
  `RejectRow`, the tool (`CheckOperation`, `ToolSort`, `ToolInsert`), and
  `ConfirmedDone` or `ConfirmedFailed`; any other call runs first and gets its row
  at the end (`RecordCall`).  A session may have no case: then `Decidable` is
  false, because the handler decodes the case as text and fails on null.  `ran`
  counts what each call's tool has written.
* `Accounts`: `tokens` is a history of the refresh tokens given out, each with the
  password that was verified for it; `counters` the counts of the limiter,
  `guesses` the passwords verified since a counter began, `straddled` the counters
  that began again while an attempt ran.  A window that ends is a counter at zero
  (`WindowEnds`), which is what the statement makes of an old one.

## 3. Runs

| Run | Bounds | Shows |
|---|---|---|
| `JobQueueSafety` | 2 workers in 2 processes, 2 rows of 1 reference, 2 attempts, 3 message classes, 2 faults | see below |
| `JobQueueLive` | 2 workers in 1 process, 2 references, 2 attempts, 1 fault | `JobsSettle` under fairness |
| `JobQueueResurrect` | 1 row, 1 fault | violates `OutcomeFinalAlways` |
| `JobQueuePoison` | 1 row, a message cut inside a character, no fault | violates `JobsSettle` |
| `ParsePipeline` | 1 file, 2 workers, 2 requesters, 3 job rows, 3 faults | see below |
| `ParsePipelineLive` | the same, 1 fault | `ParseSettles` under fairness |
| `ParseStuck` | the same, no fault | violates `ProcessingMeansParsing` |
| `Translation` | worker and poller, 2 chunks, 2 tasks a round, 1 retry, 1 disturbance | see below |
| `TranslationLive` | 0 or 1 chunk, 1 task, 1 disturbance | `ChunksSettle` under fairness |
| `TranslationStale` | 2 chunks, no disturbance | violates `AllDoneIsShown` |
| `Workspace` | 2 slots, 2 users, 2 cases, 3 persons, 3 nodes on 2 days, 4 calls; thirteen menus of 2 or 3 requests and up to 1 fault | see below |
| `MergeEdges` | one merge that runs alone, 3 persons, 2 relationships | violates `MergeCompletes` |

A *fault* is a failed statement, a crash, a shutdown, a lost request or a lease that
expires under an execution (`FaultLimit`).  A *disturbance* of a translation
(`EventLimit`) is a new or failed parse, a retry request, the deletion of the file,
a lost session, a call that takes ten minutes, or a restart with another provider.
The first parse is free.  With one disturbance a snapshot cannot cross a parse
(that takes a retry and a parse), so the exception `crossed` in
`DoneMeansTranslated` is not exercised by the runs.

**Job queue.** `ActiveUnique`: at most one active row of a (kind, ref_id), through
claims, failures and sweeps.  `LeaseIffHeld`: whatever a crash leaves behind has a
lease, so the sweep sees it.  `SoleExecutor`: one executor per job, with the lease.
`BudgetExact`, `ChargedOncePerFailure`: attempts are charged by failures alone, one
at a time, and kill the job exactly at `max_attempts`; recovery is free.
`SeenCurrent`: the two statements of `fail_job` lose no update.  `TrailTruthful`:
the events agree with the outcome.  `OutcomeFinal`: no step undoes an outcome.
`BackoffRespected`: nobody works on a job before its backoff has elapsed.
`ImplementsLifecycle`: `JobLifecycle` holds under the refinement mapping `Life`
(claimed and processing are *held*; an execution is a worker that has a job in
memory and has not written its outcome; attempts count up to the last allowed).

**Parse pipeline.** `SoleParser`: one execution per file, however many requests
force one.  `ProcessingServed`: a file in `processing` has a job that will write
the status, or a request about to insert one.  `DoneIsComplete`: when the work is
over, `done` comes with artifact and translation request.  `OutcomeShown`: job and
file end alike.  `DeletedQuiet`: after a deletion only an execution under way
writes.  `ParseSettles`: `processing` ends.

**Translation.** `SoleTranslator`: a chunk is at the provider once, with worker
and poller both on the file.  `DoneMeansTranslated`: a file shown done has all its
present chunks translated from the present parse.  `ChunkRecoverable`: every state
a session can leave a chunk in is final or is found by a query of the poller.
`DoneStays`: no late task, sweep, stop or retry undoes a translation.
`ChunksSettle`: each chunk is translated or fails for good.

**Workspace.** One run checks all handlers, menu by menu; a menu's seeds are the
tables its behaviours start from (`MCWorkspace`).

| Property | What it says, and its exception |
|---|---|
| `RetryAppliesOnce` | a retry under a key applies nothing twice; except where the middleware gave its protection up (`astray`) |
| `ReplayMeansDone` | a replayed answer belongs to an operation of the same user and path that was carried out |
| `AuthorisedWrites` | whoever is about to write to a case was let through to it since the request was sent: at some moment the case was there, and at some moment the user had the role; the two are read by two statements and need not have been true together, and checks are made before the writes, so no more than that holds |
| `MembershipAgrees` | `list_cases`, `get_case`, `get_my_membership` and `list_members` agree, and the owner stays an owner; except after a `create_case` cut short before its second statement |
| `DeletedReturns` | only an `update_case` that had read the case before its deletion brings it back |
| `MergeUnites` | a merge nobody overlaps loses and invents no role, detail or relationship |
| `GraphClosed` | shown relationships join shown persons; except when a merge overlapped a merge or a new relationship |
| `DayOrderUnambiguous` | `list_nodes` orders any two nodes; except when two requests that place nodes overlapped |
| `MoveKeepsOrder` | an update or move nobody overlaps puts the node where it was asked to, numbers both days 100, 200, ..., and keeps the order of the others |
| `ExecutedOnce` | a tool that waits for approval writes once per call; except when two confirmations overlapped |
| `DecisionHolds` | the status of a call tells whether its tool has written; `approved` lasts only while it is executed, or after the request was cut short; same exception, and a rejection beside a confirmation |
| `TokenProvesPassword` | an accepted refresh token was given for the present password; except when a login overlapped the change |
| `ChangeKnowsPassword` | a password changes at the hand of a request that knew it; except when two changes overlapped |
| `GuessesBounded` | at most `MaxAttempts` passwords are verified for an identifier since its counter began; except for attempts under way when it began again |

The exceptions are what the code leaves open, and each is needed: without it the
property fails in the run.  They make these properties weaker than a reader may
wish: what they except is caught by no property, and the hazards in `PROJECT.json`
say so in their notes.  What remains checked is that nothing else leads to the
same end.  Excepted are attempts under one key in flight together and a record lost
after its write, overlapping decisions on a call and an approved call left behind by
a request cut short, merges that overlap a merge or a new relationship, an overtaken
`update_case`, placements of nodes that overlap, a login or a second change beside a
change of password, and a write whose check has become stale.

Three of the exceptions contradict what the code says of itself.  The trace of each
is what TLC finds when the exception is taken out:

* `RetryAppliesOnce` without `astray`: a retry that arrives while the first request
  is in its handler (`idempotency.rs:89`; the record is inserted after it) applies
  the operation again under the same key and token.  The module's comment says
  "network-level retries cannot create duplicates" (`idempotency.rs:6`).
* `ExecutedOnce` without its exception: the status of an approval is read in one
  statement, compared (`agent/routes.rs:496`) and set by an update whose only
  condition is the id (`:531`), so two confirmations that both read `pending` both
  run the tool.  The test says "Double confirm is rejected (already decided)."
  (`agent_smoke.rs:153`); it confirms one after the other.
* `DecisionHolds` without its first two disjuncts: for the same reason a rejection
  (`:504`) can overwrite an approval.  Its user is told that nothing was written
  (`:511`), and the tool writes.  The test `reject_approval_does_not_execute`
  (`agent_smoke.rs:166`) has no confirmation under way.

**Disagreements found** (details in `findings`):

1. `fail_job` writes without a condition on status or lease: a worker whose lease
   ran out (heartbeats end when a drain starts) can take a succeeded job back to
   pending (`JobQueueResurrect`).
2. `truncate_error` and a slice in `run_job` cut error texts at byte offsets; a
   text cut inside a character panics each worker that fails the job
   (`JobQueuePoison`).
3. A forced parse between the last status write of a job and its completion leaves
   the file in `processing` with no job (`ParseStuck`).
4. Two sessions of a file refresh the aggregate by a read and a later write: the
   slower one can leave `processing` on a file whose chunks are all done, and no
   query finds it again (`TranslationStale`).
5. The two updates of `merge_case_persons` that re-point relationships meet the
   constraints their comments mean to avoid: a merge of two related persons, or of
   one whose relationship the target once had, always fails (`MergeEdges`).

**Why the bounds are enough.** The interesting races have two parties on one row:
two workers on a job, request and execution on a file, worker and poller on a
chunk.  Two job rows of one reference give the unique index something to refuse;
three rows let a file be requested again after a settled job while two requests
are under way.  Two attempts distinguish a retry from the last failure; one retry
of a chunk does the same.  Two chunks make partial aggregates, and two tasks a
round let a claim meet a running task of the same session.  Faults are counted
together, so any mix up to the bound occurs: two suffice for a lease overrun and a
crash of the process that retook the job.  Deadlock is not checked where a
system may rightly stop: all rows used, all workers stopped by a panic or a
drain, all chunks settled.

In `Workspace` two slots let any two statements of two requests interleave, and a
third request comes after both or beside one: a retry that finds what the first
two left, a decision on a call that was just inserted, a token used after the
change of a password.  The menus pair the operations that touch the same rows;
operations on disjoint tables meet only in `cases` and `members`, which the menus
of agent and evidence change meanwhile.  One fault cuts a request at any statement
or fails the look-up, the record, the count or the reset.  `MaxAttempts` is 2
instead of 5, so that three attempts pass it.  Three persons give a merge a third
party on either side of a relationship; three nodes on two days give a move
neighbours on both.  `Slots` is a symmetry set: no definition tells slots apart.

**Fairness.** `JobQueue`: a worker that can go on does (tokio runs its tasks), the
work of a job ends, one loop in fifteen sweeps (hence strong fairness of `Sweep`,
which other workers' steps may disable for a while), clocks advance, a process
that is down is restarted by its supervisor.  No fairness for faults, heartbeats
or shutdown.  `ParsePipeline`: requests run to their end, executions advance, the
sweep returns lost jobs, as `JobQueue` has it.  `Translation`: workers and
pollers advance, calls to the provider end, clocks advance.  That a call ends is
an assumption: the HTTP client has no time limit of its own.  `Workspace` states
safety only and needs no fairness; that a request ends is the client's concern, and
deadlock is checked: two requests that wait for each other's rows are ended by the
database.

## 4. Proofs

Every theorem below holds for every value of the constants that satisfies the
assumptions named in the modules (`ConstantsAssumption`, `PipelineAssumption`,
`RequestsAssumption`, `WorkspaceAssumption`, `AgentAssumption`, ...).  They say what a number of
attempts or a set of slots is, that a null value is no identifier, and what rows a
behaviour may start from; each is evaluated by a run.

### Job queue

| Theorem | Statement |
|---|---|
| `TypeCorrect`, `LeasesAreSweepable`, `OneActiveRow` | `TypeOK`, `LeaseIffHeld`, `ActiveUnique` |
| `MutualExclusion`, `RetryBudget`, `NoLostUpdate` | `SoleExecutor`, `BudgetExact`, `SeenCurrent` |
| `OutcomesStay`, `RecoveryIsFree` | `OutcomeFinal`, `ChargedOncePerFailure` |
| `TrailIsTruthful`, `BackoffsHold`, `ClaimIsAtomic` | `TrailTruthful`, `BackoffRespected`, and the row lock of an open claim |
| `QueueImplementsLifecycle` | `Spec => ImplementsLifecycle` |
| `LifecyclePromise` | `LifeSpec => []LifeInv` |

The inductive invariant is `IInv == TypeOK /\ TableInv /\ ExecInv`.  `TableInv`
speaks of the table alone: `LeaseIffHeld`, `ActiveUnique`, and `FreshRows` (a row
not inserted has no attempts).  `ExecInv` relates workers and table:
`SoleExecutor`, `SeenCurrent`, `BudgetExact`.  None of the three is inductive on
its own.  `SeenCurrent` survives another worker's `FailWrite` because
`SoleExecutor` excludes that worker; `SoleExecutor` survives the sweep because an
executed job that was not overrun has a live lease; `BudgetExact` survives
`FailWrite` because of `SeenCurrent`, and needs `FreshRows` for `Enqueue`.

The argument has three layers.  An *Effect* lemma per statement says what it does
to the table: replace one row by another with stated properties (or, for the
sweep, expired rows by pending ones).  `OneRowTableInv`, `QuietStep`, `LoudStep`
and `RowActionStep` say, once each, what such a replacement preserves.
`TypeStep`, `TableInvStep`, `ExecStep` and `ActionStep` put the two together, one
case per action.

`BackoffRespected` and `TrailTruthful` need `LocksHold` on top: the row a claim has
selected stays pending and due until its UPDATE, because every writer of the table
either leaves pending rows alone or is kept off by the lock.  `TrailTruthful` is
not inductive either: an event of an outcome follows the outcome, in a statement
of its own, so the invariant says which worker still owes which event.

The refinement names the mapping (`AbsPhase`, `AbsRef`, `AbsAttempts`, `AbsExec`)
and has one lemma per abstract action (`AbsSubmit`, `AbsBegin`, ...), then one per
concrete action that says which of them it is.  A `FailWrite` is a `Fail` only
because of `SeenCurrent` and `BudgetExact`; a `ClaimCommit` is a `Begin` only because
of `LocksHold` and `SoleExecutor`.  `LifeInv` collects what users of the queue may
rely on: one live job per reference, one execution of a job that is not loose, the
exact budget, and that only submitted jobs are executed.

### Parse pipeline

`PipeTypeCorrect`, `OneParser`, `ProcessingIsServed`, `DoneFilesComplete`,
`OutcomesShow`, `DeletedStayQuiet` prove `PipeTypeOK`, `SoleParser`,
`ProcessingServed`, `DoneIsComplete`, `OutcomeShown`, `DeletedQuiet`.

`PipeIsLife` shows once that each step of the pipeline is a step of the abstract
queue, so `LifeInv` comes for free.  `PipeInv` adds what the place of an execution
says of its file (`Progress`, `HasArtifact`): without it `DoneIsComplete` does not
survive the end of the job.  `LateIsWritten` says that a file still `processing`
behind its execution's last write is astray; it is what `ProcessingServed` needs
when that execution reports.

### Translation

`TransTypeCorrect`, `OneTranslator`, `ShownIsTranslated`, `NoChunkStranded`,
`TranslationsStay` prove `TransTypeOK`, `SoleTranslator`, `DoneMeansTranslated`,
`ChunkRecoverable`, `DoneStays`, for any number of runners, chunks, retries and
events.

`TransInv`: `KeysKnown` (nobody knows a parse later than the file's), `ClaimReady`,
`RowsClean` (a chunk done has its text from the present parse), `CurrentIsPresent`
and `TaskHolds` (a task that kept its claim is the only one of its chunk), and
`ViewsTrue` and `ShownTrue`.  `DoneMeansTranslated` rests on the last two: an
aggregate is read in one statement and written in a later one, so what a runner
holds must stay true of the chunks until it writes, and does because no step
takes a chunk out of `done` except a new parse, which changes `parsed_at`, the
condition of the write.  `crossed` is exactly where that condition is missing (the
snapshot of a retry).  The run's bounds never reach `crossed`; the theorem covers
it.

### Workspace

A request is at a place of its handler, and each of some seventy actions moves one
request.  The proofs go by the *ways* a handler goes on (`Goto`, `Learn`, `Carry`,
`Succeed`, `Refuse`, ...), which are few: a lemma per way, then one case per
action that says which way it takes and what it does to the tables.

| Theorem | Statement |
|---|---|
| `HandlersStayOnCourse` | `Spec => []FlowInv`: a request stands only at places of its operation, and a check under way knows what it needs and where it leads |
| `RetriesApplyOnce`, `ReplaysAreEarned` | `RetryAppliesOnce`, `ReplayMeansDone` |
| `TokensProvePasswords`, `ChangesKnowPasswords` | `TokenProvesPassword`, `ChangeKnowsPassword` |
| `GuessesAreBounded`, `AccountsAreTyped` | `GuessesBounded`; the accounts' part of `WorkTypeOK` |
| `WritesAreAuthorised` | `AuthorisedWrites` |
| `MembersAgree`, `ReturnsAreOvertaken` | `MembershipAgrees`, `DeletedReturns` |
| `CallsRunOnce`, `DecisionsTellTruth` | `ExecutedOnce`, `DecisionHolds` |
| `CallsAreTyped` | the agent's part of `WorkTypeOK` |
| `GraphsAreClosed`, `MergesUnite` | `GraphClosed`, `MergeUnites` |
| `TypesHold` | `WorkTypeOK`, of all components |
| `DaysAreOrdered`, `MovesKeepOrder` | `DayOrderUnambiguous`, `MoveKeepsOrder` |

* *Retries.* `KeyInv` says of a request past its look-up whether its operation is
  among the applied ones, and that two such requests of one identity have lost
  their protection; of an applied operation, that it is astray, or still carried
  by a request, or recorded.  The middle case is why the invariant must look at the
  requests: between the write and the record nothing in the tables tells.
* *Accounts.* `AccountFlow` (two requests of accounts in flight have crossed) is
  what makes the exceptions of the properties usable; `TokenInv` keeps for every
  request what it has verified against the version it will issue; `GuessInv` counts
  the attempts under way (`Trying`) together with those verified, since the count
  is raised before the password is looked at.
* *Access.* `AccessInv` has the typed tables; `CaseOK`: a case has one owner, no
  one else is a member as owner, and he has his row, unless its `create_case` was
  cut short; `Entitles`: at a place that writes, the rights needed are among those the user
  has had since the request was sent (`Needed` agrees with `AllWrites`, the table
  of the property); `Equipped`: what the request has read is fit to be written
  back; `Overtaken`: an update let through to a case that is deleted by now has
  crossed a deletion or another update; `CrossPairs`: so has any pair in flight.
  `Entitles` must hold at the check, too, hence its second and third conjunct:
  rights are collected as the tables change, not when they are read.
* *Agent.* Neither `ExecutedOnce` nor `DecisionHolds` is inductive: `confirm` reads
  the status of the call in one statement, sets it in another, and the tool writes
  and marks it in two more.  `AgentInv` ties the call to the place of the request
  that decides on it (`Decides`: at `approve_row` the tool has not run; from there on
  the call is `approved`, and has run exactly if the request carries its success)
  and keeps in `CallOK` what must hold when no request is left to ask.  What a
  request knows of its call stays true because a second decision in flight on the
  same call has crossed it (`CrossPairs`), and behaviours in which
  that happened are excepted: two confirmations from both properties, a rejection
  beside a confirmation from `DecisionHolds` only.  `Executed` is why an `approved` call has somebody behind it.
  `Armed` says what a request was sent with and that its call stays in the case the
  access was checked for; `RowsLeft`, by counting, that a message always finds an id
  nobody has.  `AgentAssumption`: a call seeded belongs to a session that is there,
  and none is seeded as approved or executed, since nobody would have executed it.
* *Persons.* `GraphInv` says what a request was sent with and where it is bound
  (`Asked`), which rows a merge may have written at each place of its transaction
  (`Buffered`), and, as long as no merge met a merge or a new relationship
  (`Apart`), what the requests in flight know (`Knows`) and that both ends of every
  live relationship are linked (`Ties`).  `GraphClosed` alone is not inductive: a
  relationship is inserted two statements after its second person was looked up,
  and a merge unlinks the source in a transaction whose earlier statements have
  dropped his relationships, so the invariant speaks of the tables as the
  transaction sees them (`Sight`).  Deleting a person is one transaction and cannot
  come in between.  `MergeInv` follows a merge that met nobody (`Single`): each link of
  the source is either still to be taken (`Pending`) or united with the target's
  (`United`), and after `MoveFrom` and `MoveTo` the target has, on that side, the
  relationships of both (`RelsMerged`).  `MergeCommit` then is what `MergeUnites`
  asks.  Other requests disturb neither, because a request of the same case would
  have crossed the merge and one of another case writes keys of that case
  (`Foreign...`).  `PersonsAssumption` says that a behaviour begins with live
  relationships of linked persons only, and that the keys of the two tables differ.

* *Types.* `TimeInv` says of a request to the timeline what it was sent with
  (`Bound`), what it has read (`Reads`) and that its transaction has written rows of
  its own case only, all of nodes that are there (`Written`).  `PlacesLeft` counts:
  the requests that may still insert a node are no more than the ids nobody has,
  so that `InsertNode` always finds one.  With the invariants above and `CountInv`
  this gives `WorkTypeOK`.
* *Order of a day.* `StepKinds` sorts the seventy actions by what they do to the
  order: a few handle it, the rest leave the nodes alone.  `OrderInv` says, as long
  as no two requests that place nodes met (`PlaceApart`), that the nodes of a day
  have distinct places (`Distinct`) and what a request has of it in hand (`Placed`).
  `DayOrderUnambiguous` is not inductive for two reasons.  A place is read one
  statement before it is used, so it must still be above all others of the day then
  (`Above`).  And a transaction that moves a node leaves a day in disorder until it
  has numbered it: `Torn` names that day, and `Listed` says that the list it numbers
  by covers the day, names nobody twice, and is numbered as far as it says.  That
  such a list exists (`SequenceLists`) follows from ranks: each node stands behind as
  many as `Before` puts ahead of it, and the ranks of a finite set fill an interval.
  `TimelineAssumption`: a behaviour begins with days whose places are distinct, and
  ids of nodes are ordered.
* *Moves.* `KeepInv` compares what the transaction sees (`View`) with the nodes as
  they would be if it had done no more than put the node in its place (`Moved`): a
  node of a day not entered yet is as there; a finished day is numbered 100, 200, ...
  along a list sorted by `Before` (`DayNumbered`); a day being numbered is so up to
  `done` (`Numbered`).  `NumberedDay` turns a list into a statement about its rows:
  after the numbering one node is before another exactly if `Before` had it so.
  The row read by `fetch_node` is still the row that is written, and the rows
  numbered are still those listed, because a request that changes nodes of the same
  case would have crossed (`CrossPairs`), and one of another case touches none of
  them (`OtherKeeps`).  `ShiftLeaves`: no step but the commit leads from
  `commit_node` to `refetch`.

### What the proofs corrected

* `Translation`: the guards of two CASEs (`Aggregate`, `EnsureSession`) overlapped;
  each case now excludes those the code tries before it.
* `Persons`: `rels` has no pairs of a person with himself (the table's CHECK), and
  the deletion of a relationship already deleted is carried out and answers as such.
* `Agent`: a new call has an id nobody has; `SendPost`, `SendDecision` and the sends
  of the timeline address rows that are there.
* `AuthorisedWrites` had asked for case and role at one moment.  `ensure_case_access`
  reads them in two statements, and they may never have held together.
* `Requests`, `Persons`, `Timeline`: what a transaction has written is a function
  built row by row (`Row`, `Writes`), and the order of a day is any list that is
  sorted (`DaySequence`), instead of operators of TLC and of the community modules
  that compute the same and cannot be reasoned about.
* A tool of the agent that only reads carries the operation with its answer; requests
  without a token (register, login, refresh) carry no key.

### Model-checked only

Every invariant and action property that a passing run checks is stated by a
theorem.  Liveness (`JobsSettle`, `ParseSettles`, `ChunksSettle`) rests on fairness
and ENABLED, which the prover does not handle, and stays with TLC, as do the runs
that end in a violation.

## 5. What is not modelled

* Text extraction, OCR, audio and the derivation of chunks: a parse ends well or
  badly.  The call to the translation provider likewise.
* A panic inside an extraction library, after which the detached heartbeat task
  keeps the lease of a job nobody runs alive.
* Two claims of one chunk in the same microsecond (`last_attempt_at` would not
  tell them apart), and languages and error texts of the aggregate.
* A transaction is atomic and a statement reads the present state: READ COMMITTED
  re-evaluates the row an UPDATE waited for, and no modelled statement depends on a
  stale snapshot of a second row for longer than itself.
* Of the workspace: the chat messages of the agent, the export of the evidence
  list, and the tools that `parse_intent` never names; titles, descriptions, tags
  and the other fields that no decision reads; pages and filters of the lists;
  bodies that fail validation before the first statement; changes of the
  `permissions` table, which no route makes; password hashing, the coding of
  tokens and their expiry; a user who is deactivated, which no route does.
* A move to an explicit `new_sort_order` of zero or below, which the handler takes
  as it is (`timeline.rs:276`): `Orders` are positive.  The node would come before
  all others of its day until the day is numbered again, in the same transaction.
* Locks are on the keys of rows; a lock a merge takes on rows it leaves unchanged,
  and waits on the foreign keys of a table, are not modelled.
* The components of section 1 without a module; `PROJECT.json` has the reasons.

## 6. Plan

In this order:

1. A panic during the work of a job, with its surviving heartbeat, as an action of
   `JobQueue`; the chat messages of the agent beside the calls they report.
2. The access matrix, the backoff schedules and the split into chunks as pure
   functions against reference definitions; the records of exports.
