-------------------------- MODULE TranslationProofs --------------------------
(***************************************************************************)
(* Proofs about Translation for every number of workers, pollers, chunks,  *)
(* retries and events.                                                     *)
(***************************************************************************)
EXTENDS Translation, FiniteSetTheorems, TLAPS

-----------------------------------------------------------------------------
(* The inductive invariant *)

\* parsed_at only grows: nobody can know of a parse later than the file's, and
\* the bound on events bounds it.
KeysKnown ==
    /\ file.key + (IF file.parsed THEN 0 ELSE 1) <= 2 * events + 1
    /\ file.rows <= file.key
    /\ retry.rows <= file.key
    /\ \A r \in Runners : session[r] <= file.key
    /\ \A t \in tasks : t.rows <= file.key

\* A runner about to claim has a chunk and a place in its round.
ClaimReady ==
    \A r \in Runners :
        pc[r] = "claim" => picked[r].chunk \in Chunks /\ spawned[r] < Concurrency

\* A claim wipes out the error of the attempt before, and a finished chunk
\* has a translation from the present parse.
RowsClean ==
    \A c \in Chunks :
        /\ chunk[c].status = "processing" => chunk[c].error = "none"
        /\ chunk[c].status = "done" => chunk[c].text = file.rows

\* A task that still has its claim works on a chunk of the present parse.
CurrentIsPresent == \A t \in tasks : t.current => t.rows = file.rows

\* The tasks that work on a chunk of the present parse.
Present(c) == {t \in tasks : t.chunk = c /\ t.rows = file.rows}

\* Unless a claim was taken from it, the task of a chunk is its only one, and
\* the chunk is processing.
TaskHolds ==
    \A c \in Chunks \ detached : \A t \in Present(c) :
        /\ chunk[c].status = "processing"
        /\ \A u \in Present(c) : u = t

\* Every chunk the file has is translated.
AllDone == \A c \in Chunks : chunk[c].status \in {"none", "done"}

\* An aggregate that somebody has read and not yet written is still true of the
\* chunks, or belongs to a parse that is over.
ViewsTrue ==
    /\ \A r \in Runners :
          pc[r] \in {"write", "stopWrite"} /\ session[r] = file.key =>
              (view[r].shown = "done" => AllDone)
    /\ retry.at = "read" /\ retry.rows = file.rows =>
          (retry.view.shown = "done" => AllDone)

\* What the file shows is true of the chunks.
ShownTrue == file.agg.shown = "done" /\ ~crossed => AllDone

TransInv ==
    /\ TransTypeOK /\ KeysKnown /\ ClaimReady
    /\ ChunkRecoverable /\ RowsClean
    /\ CurrentIsPresent /\ TaskHolds
    /\ ViewsTrue /\ ShownTrue

-----------------------------------------------------------------------------
(* The rows of the chunks *)

\* What ClaimChunk, TaskDone, ResetPicked, ClaimAges and BackoffElapses make of
\* a row.
ClaimedRow(row)   == [row EXCEPT !.status = "processing", !.attempt = "recent",
                                 !.next = "null", !.error = "none"]
DoneRow(row, k)   == [row EXCEPT !.status = "done", !.next = "null",
                                 !.error = "none", !.text = k]
RequeuedRow(row)  == [row EXCEPT !.status = "pending", !.retries = 0,
                                 !.attempt = "null", !.next = "now",
                                 !.error = "none"]
AgedRow(row)      == [row EXCEPT !.attempt = "old"]
WaitedRow(row)    == [row EXCEPT !.next = "now"]

\* The invariants of a row: its type, ChunkRecoverable and RowsClean.
Recoverable(row) ==
    /\ row.status = "pending" => row.retries = 0 \/ row.next # "null"
    /\ row.status = "processing" => row.attempt # "null"
    /\ row.status \in {"pending", "processing"} => row.retries <= MaxRetries
    /\ row.status = "failed" =>
          (row.next = "null" <=> row.retries > MaxRetries \/ row.error = "config")

RowOK(row) ==
    /\ row \in Chunk /\ Recoverable(row)
    /\ row.status = "processing" => row.error = "none"

\* The rows of a new parse, and those that are left over, are in order.
LEMMA NewRows == RowOK(FreshChunk) /\ RowOK(NoChunk)
  BY TranslationAssumption
     DEF RowOK, Recoverable, Chunk, ChunkStatus, FreshChunk, NoChunk, Keys

\* What a failure assigns keeps the type of the row.
LEMMA FailureType ==
    ASSUME NEW row \in Chunk, NEW n \in 0 .. MaxRetries + 1,
           NEW s \in {"pending", "failed"}, NEW x \in {"null", "later"}
    PROVE  /\ [row EXCEPT !.retries = n, !.status = s, !.next = x,
                          !.error = "provider"] \in Chunk
           /\ [row EXCEPT !.status = s, !.retries = n, !.error = "provider",
                          !.next = x] \in Chunk
  BY DEF Chunk, ChunkStatus

\* A timed out claim leaves the row for a retry, unless it was the last.
LEMMA TimedOutKeeps ==
    ASSUME NEW row, RowOK(row), row.status = "processing"
    PROVE  /\ RowOK(TimedOutRow(row))
           /\ TimedOutRow(row).status \in {"pending", "failed"}
           /\ TimedOutRow(row).text = row.text
<1> DEFINE n == row.retries + 1
           s == IF n > MaxRetries THEN "failed" ELSE "pending"
           x == IF n > MaxRetries THEN "null" ELSE "later"
           new == [row EXCEPT !.retries = n, !.status = s, !.next = x,
                              !.error = "provider"]
<1>1. n \in 1 .. MaxRetries + 1 /\ row.error = "none" /\ row \in Chunk
  BY TranslationAssumption DEF RowOK, Recoverable, Chunk
<1>2. TimedOutRow(row) = new
  BY <1>1 DEF TimedOutRow, Chunk
<1>3. n \in 0 .. MaxRetries + 1 /\ s \in {"pending", "failed"} /\ x \in {"null", "later"}
  BY <1>1, TranslationAssumption
<1>4. new \in Chunk
  <2> HIDE DEF n, s, x
  <2> QED
    BY <1>1, <1>3, FailureType, ZenonT(60)
<1>5. /\ new.status = s /\ new.next = x /\ new.retries = n
      /\ new.error = "provider" /\ new.text = row.text
  <2> HIDE DEF n, s, x
  <2> QED
    BY <1>1 DEF Chunk
<1>6. RowOK(new)
  <2> HIDE DEF new
  <2> QED
    BY <1>1, <1>4, <1>5, TranslationAssumption DEF RowOK, Recoverable
<1> HIDE DEF new
<1> QED
  BY <1>2, <1>3, <1>5, <1>6

\* A stop finishes every row for good and leaves the translated ones.
LEMMA StoppedKeeps ==
    ASSUME NEW row, RowOK(row)
    PROVE  /\ RowOK(StoppedRow(row))
           /\ StoppedRow(row).status # "processing"
           /\ StoppedRow(row).status \in {"none", "done"} =>
                 /\ StoppedRow(row).status = row.status
                 /\ StoppedRow(row).text = row.text
           /\ row.status = "done" => StoppedRow(row).status = "done"
  BY TranslationAssumption DEF StoppedRow, RowOK, Recoverable, Chunk, ChunkStatus

\* A claim of a due row.
LEMMA ClaimedKeeps ==
    ASSUME NEW row, RowOK(row), DueRow(row)
    PROVE  RowOK(ClaimedRow(row))
  BY TranslationAssumption
     DEF ClaimedRow, DueRow, RowOK, Recoverable, Chunk, ChunkStatus

\* The end of a task: the translation is stored, ...
LEMMA DoneKeeps ==
    ASSUME NEW row, RowOK(row), NEW k \in Keys
    PROVE  RowOK(DoneRow(row, k))
  BY DEF DoneRow, RowOK, Recoverable, Chunk, ChunkStatus

\* ... or the failure is.
LEMMA FailedKeeps ==
    ASSUME NEW row, RowOK(row), NEW n \in 1 .. MaxRetries + 1
    PROVE  /\ RowOK(FailedRow(row, n))
           /\ FailedRow(row, n).status = "failed"
<1> DEFINE x == IF n > MaxRetries THEN "null" ELSE "later"
           new == [row EXCEPT !.status = "failed", !.retries = n,
                              !.error = "provider", !.next = x]
<1>1. row \in Chunk /\ n \in 0 .. MaxRetries + 1 /\ x \in {"null", "later"}
  BY TranslationAssumption DEF RowOK
<1>2. FailedRow(row, n) = new
  BY DEF FailedRow
<1>3. new \in Chunk
  <2> HIDE DEF x
  <2> QED
    BY <1>1, FailureType, ZenonT(60)
<1>4. /\ new.status = "failed" /\ new.next = x /\ new.retries = n
      /\ new.error = "provider"
  <2> HIDE DEF x
  <2> QED
    BY <1>1 DEF Chunk
<1>5. RowOK(new)
  <2> HIDE DEF new
  <2>1. x = "null" <=> n > MaxRetries
    OBVIOUS
  <2> QED
    BY <1>3, <1>4, <2>1 DEF RowOK, Recoverable
<1> HIDE DEF new
<1> QED
  BY <1>2, <1>4, <1>5

\* A retry by request, and the passing of time.
LEMMA OtherKeeps ==
    ASSUME NEW row, RowOK(row)
    PROVE  /\ RowOK(RequeuedRow(row))
           /\ row.status = "processing" => RowOK(AgedRow(row))
           /\ row.next = "later" => RowOK(WaitedRow(row))
<1>1. RowOK(RequeuedRow(row))
  <2>1. 0 \in 0 .. MaxRetries + 1 /\ 0 <= MaxRetries
    BY TranslationAssumption
  <2>2. RequeuedRow(row) \in Chunk
    BY <2>1 DEF RequeuedRow, RowOK, Chunk, ChunkStatus
  <2>3. /\ RequeuedRow(row).status = "pending" /\ RequeuedRow(row).retries = 0
        /\ RequeuedRow(row).next = "now"
    BY DEF RequeuedRow, RowOK, Chunk
  <2> QED
    BY <2>1, <2>2, <2>3 DEF RowOK, Recoverable
<1>2. row.status = "processing" => RowOK(AgedRow(row))
  BY TranslationAssumption DEF AgedRow, RowOK, Recoverable, Chunk, ChunkStatus
<1>3. row.next = "later" => RowOK(WaitedRow(row))
  BY TranslationAssumption DEF WaitedRow, RowOK, Recoverable, Chunk, ChunkStatus
<1> QED
  BY <1>1, <1>2, <1>3

-----------------------------------------------------------------------------
(* Counts *)

\* A count of chunks is a number of at most NChunks, it is 0 if there are none
\* and NChunks if they all are.
LEMMA CountFacts ==
    ASSUME NEW S \in SUBSET Chunks
    PROVE  /\ Cardinality(S) \in 0 .. NChunks
           /\ Cardinality(S) = 0 => S = {}
           /\ Cardinality(S) = NChunks => S = Chunks
<1>1. IsFiniteSet(Chunks) /\ Cardinality(Chunks) = NChunks
  BY FS_Interval, TranslationAssumption DEF Chunks
<1>2. /\ IsFiniteSet(S) /\ Cardinality(S) <= NChunks
      /\ Cardinality(S) = NChunks => S = Chunks
  BY <1>1, FS_Subset
<1>3. Cardinality(S) \in Nat /\ (Cardinality(S) = 0 => S = {})
  BY <1>2, FS_CardinalityType, FS_EmptySet
<1> QED
  BY <1>2, <1>3, TranslationAssumption

\* The aggregate has its type, and says `done' only if every chunk is.
LEMMA AggregateFacts ==
    ASSUME TransTypeOK
    PROVE  /\ Aggregate \in View
           /\ Aggregate.shown = "done" => AllDone
<1> DEFINE done == CountOf("done")
           failed == CountOf("failed")
           pending == CountOf("pending")
           processing == CountOf("processing")
           open == pending + processing
           shown == CASE open > 0                           -> "processing"
                      [] open = 0 /\ failed = 0             -> "done"
                      [] open = 0 /\ failed > 0 /\ done > 0 -> "partial"
                      [] OTHER                              -> "failed"
<1>1. \A s : /\ CountOf(s) \in 0 .. NChunks
             /\ CountOf(s) = 0 => \A c \in Chunks : chunk[c].status # s
  <2> TAKE s
  <2> DEFINE S == {c \in Chunks : chunk[c].status = s}
  <2>1. S \in SUBSET Chunks
    OBVIOUS
  <2>2. Cardinality(S) \in 0 .. NChunks /\ (Cardinality(S) = 0 => S = {})
    BY <2>1, CountFacts
  <2> QED
    BY <2>2 DEF CountOf
<1>2. /\ done \in 0 .. NChunks /\ failed \in 0 .. NChunks
      /\ pending \in 0 .. NChunks /\ processing \in 0 .. NChunks
  BY <1>1
<1>3. Aggregate = [shown |-> shown, done |-> done, failed |-> failed]
  BY DEF Aggregate
<1>4. shown \in Shown /\ (shown = "done" => pending = 0 /\ processing = 0 /\ failed = 0)
  <2> HIDE DEF done, failed, pending, processing
  <2> QED
    BY <1>2, TranslationAssumption DEF Shown
<1>5. Aggregate \in View
  <2> HIDE DEF done, failed, shown
  <2> QED
    BY <1>2, <1>3, <1>4 DEF View
<1>6. ASSUME Aggregate.shown = "done", NEW c \in Chunks
      PROVE  chunk[c].status \in {"none", "done"}
  <2>1. pending = 0 /\ processing = 0 /\ failed = 0
    <3> HIDE DEF done, failed, pending, processing, shown
    <3> QED
      BY <1>3, <1>4, <1>6
  <2> QED
    BY <1>1, <2>1 DEF TransTypeOK, Chunk, ChunkStatus
<1> QED
  BY <1>5, <1>6 DEF AllDone

-----------------------------------------------------------------------------
(* The parse the file is of *)

\* parsed_at, and the parse the chunks are of, change with the parser only.
LEMMA KeyStep ==
    ASSUME TransTypeOK, [Next]_vars
    PROVE  \/ MarkParsing \/ ParseFails \/ PersistChunks
           \/ /\ file'.key = file.key /\ file'.rows = file.rows
              /\ file'.parsed = file.parsed
              /\ events' \in events .. EventLimit
<1> DEFINE Same == /\ file'.key = file.key /\ file'.rows = file.rows
                   /\ file'.parsed = file.parsed
           Counted == events' \in events .. EventLimit
<1>0. ASSUME UNCHANGED <<file, events>>
      PROVE  Same /\ Counted
  BY <1>0, TranslationAssumption DEF TransTypeOK
<1>1. ASSUME \/ StartTranslation \/ DeleteFile \/ AskRetry \/ RetrySteps \/ RetryLost
      PROVE  Same /\ Counted
  <2>1. CASE StartTranslation \/ AskRetry
    BY <2>1, TranslationAssumption DEF StartTranslation, AskRetry, Event, TransTypeOK
  <2>2. CASE DeleteFile
    BY <2>2, TranslationAssumption DEF DeleteFile, Event, TransTypeOK, File
  <2>3. CASE WriteSnapshot
    BY <2>3, TranslationAssumption DEF WriteSnapshot, TransTypeOK, File
  <2>4. CASE PickChunks \/ ResetPicked \/ ReadSnapshot \/ StartRetry \/ RetryLost
    BY <1>0, <2>4 DEF PickChunks, ResetPicked, ReadSnapshot, StartRetry, RetryLost
  <2> QED
    BY <1>1, <2>1, <2>2, <2>3, <2>4 DEF RetrySteps
<1>2. ASSUME NEW r \in Runners,
             RunnerSteps(r) \/ TaskEnds(r) \/ Abandon(r) \/ Reconfigure(r)
             \/ TakeJob(r) \/ PollSteps(r)
      PROVE  Same /\ Counted
  <2>1. CASE TakeLock(r) \/ Initialize(r)
    BY <2>1 DEF TakeLock, Initialize, TransTypeOK, File
  <2>2. CASE MarkDisabled(r)
    BY <2>2 DEF MarkDisabled, TransTypeOK, File
  <2>3. CASE WriteAggregate(r) \/ WriteStopped(r)
    BY <2>3 DEF WriteAggregate, WriteStopped, WriteView, TransTypeOK, File
  <2>4. CASE Abandon(r) \/ Reconfigure(r)
    BY <2>4, TranslationAssumption DEF Abandon, Reconfigure, Event, TransTypeOK
  <2>5. CASE EnsureSession(r) \/ EnsureFails(r) \/ StopForMismatch(r)
             \/ ResetStaleOfSession(r) \/ SelectChunk(r) \/ RoundEnds(r)
             \/ ClaimChunk(r) \/ Join(r) \/ ReadAggregate(r) \/ TaskEnds(r)
             \/ TakeJob(r) \/ PollSteps(r)
    BY <1>0, <2>5, ZenonT(60)
       DEF EnsureSession, EnsureFails, StopForMismatch, ResetStaleOfSession,
           SelectChunk, RoundEnds, ClaimChunk, Join, ReadAggregate, TaskEnds,
           TaskDone, TaskFailed, TakeJob, PollSteps, FindStale, ResetStaleOfFile,
           FindDue
  <2> QED
    BY <1>2, <2>1, <2>2, <2>3, <2>4, <2>5 DEF RunnerSteps
<1>3. ASSUME NEW c \in Chunks, ClaimAges(c) \/ BackoffElapses(c)
      PROVE  Same /\ Counted
  BY <1>3, TranslationAssumption DEF ClaimAges, BackoffElapses, Event, TransTypeOK
<1>4. CASE UNCHANGED vars
  BY <1>4, TranslationAssumption DEF vars, TransTypeOK
<1> QED
  BY <1>1, <1>2, <1>3, <1>4 DEF Next, ParserSteps, Runners

-----------------------------------------------------------------------------
(* How a row changes *)

\* What a step other than a new parse can make of the row of a chunk.
RowChange(c) ==
    \/ /\ chunk[c].status = "processing"
       /\ chunk'[c] = TimedOutRow(chunk[c]) /\ Detach
    \/ chunk'[c] = StoppedRow(chunk[c]) /\ Detach
    \/ DueRow(chunk[c]) /\ chunk'[c] = ClaimedRow(chunk[c])
    \/ \E t \in tasks :
          /\ t.chunk = c /\ Mine(t) /\ tasks' = tasks \ {t}
          /\ chunk'[c] \in {DoneRow(chunk[c], t.rows),
                            FailedRow(chunk[c], t.retries + 1)}
    \/ /\ chunk[c].status \in {"pending", "failed"}
       /\ chunk'[c] = RequeuedRow(chunk[c])
    \/ chunk[c].status = "processing" /\ chunk'[c] = AgedRow(chunk[c])
    \/ chunk[c].next = "later" /\ chunk'[c] = WaitedRow(chunk[c])

\* The steps of a runner, its tasks included.
LEMMA RunnerRow ==
    ASSUME TransTypeOK, ClaimReady, NEW c \in Chunks, chunk'[c] # chunk[c],
           NEW r \in Runners,
           RunnerSteps(r) \/ TaskEnds(r) \/ Abandon(r) \/ Reconfigure(r)
           \/ TakeJob(r) \/ PollSteps(r)
    PROVE  RowChange(c)
<1>1. CASE ResetStaleOfFile(r) \/ ResetStaleOfSession(r)
  BY <1>1 DEF ResetStaleOfFile, ResetStaleOfSession, Stale, RowChange
<1>2. CASE StopForMismatch(r) \/ MarkDisabled(r)
  BY <1>2 DEF StopForMismatch, MarkDisabled, RowChange
<1>3. CASE ClaimChunk(r)
  <2> DEFINE d == picked[r].chunk
  <2>1. /\ d \in Chunks /\ DueRow(chunk[d])
        /\ chunk' = [chunk EXCEPT ![d].status = "processing",
                                  ![d].attempt = "recent",
                                  ![d].next = "null", ![d].error = "none"]
    BY <1>3 DEF ClaimChunk, ClaimReady
  <2>2. c = d /\ chunk'[c] = ClaimedRow(chunk[c])
    BY <2>1 DEF TransTypeOK, ClaimedRow
  <2> QED
    BY <2>1, <2>2 DEF RowChange
<1>4. CASE TaskEnds(r)
  <2>1. PICK t \in tasks : TaskDone(t) \/ TaskFailed(t)
    BY <1>4 DEF TaskEnds
  <2>2. t.chunk = c /\ Mine(t) /\ tasks' = tasks \ {t}
    BY <2>1 DEF TaskDone, TaskFailed, TransTypeOK
  <2>3. TaskDone(t) => chunk'[c] = DoneRow(chunk[c], t.rows)
    BY <2>2 DEF TaskDone, DoneRow, TransTypeOK
  <2>4. TaskFailed(t) => chunk'[c] = FailedRow(chunk[c], t.retries + 1)
    BY <2>2 DEF TaskFailed, TransTypeOK
  <2> QED
    BY <2>1, <2>2, <2>3, <2>4 DEF RowChange
<1>5. CASE UNCHANGED chunk
  BY <1>5
<1> QED
  BY <1>1, <1>2, <1>3, <1>4, <1>5
     DEF RunnerSteps, EnsureSession, EnsureFails, TakeLock, Initialize, SelectChunk,
         RoundEnds, Join, ReadAggregate, WriteAggregate, WriteStopped, Abandon,
         Reconfigure, TakeJob, PollSteps, FindStale, FindDue

\* Every step.
LEMMA RowStep ==
    ASSUME TransTypeOK, ClaimReady, [Next]_vars, NEW c \in Chunks,
           chunk'[c] # chunk[c]
    PROVE  \/ PersistChunks /\ chunk'[c] \in {FreshChunk, NoChunk}
           \/ RowChange(c)
<1>1. CASE PersistChunks
  BY <1>1 DEF PersistChunks
<1>2. CASE ResetPicked
  BY <1>2 DEF ResetPicked, RowChange, RequeuedRow
<1>3. ASSUME NEW d \in Chunks, ClaimAges(d)
      PROVE  RowChange(c)
  BY <1>3 DEF ClaimAges, RowChange, AgedRow, TransTypeOK
<1>4. ASSUME NEW d \in Chunks, BackoffElapses(d)
      PROVE  RowChange(c)
  BY <1>4 DEF BackoffElapses, RowChange, WaitedRow, TransTypeOK
<1>5. ASSUME NEW r \in Runners,
             RunnerSteps(r) \/ TaskEnds(r) \/ Abandon(r) \/ Reconfigure(r)
             \/ TakeJob(r) \/ PollSteps(r)
      PROVE  RowChange(c)
  BY <1>5, RunnerRow
<1>6. CASE UNCHANGED chunk
  BY <1>6
<1> QED
  BY <1>1, <1>2, <1>3, <1>4, <1>5, <1>6
     DEF Next, ParserSteps, RetrySteps, Runners, MarkParsing, ParseFails,
         StartTranslation, DeleteFile, AskRetry, RetryLost, PickChunks,
         ReadSnapshot, WriteSnapshot, StartRetry, vars

\* A row that changes stays in order, a chunk that is translated stays so, and
\* what becomes translated is from the present parse.
LEMMA RowOutcome ==
    ASSUME TransTypeOK, RowsClean, CurrentIsPresent, NEW c \in Chunks,
           RowOK(chunk[c]), RowChange(c)
    PROVE  /\ RowOK(chunk'[c])
           /\ chunk[c].status \in {"none", "done"} =>
                 chunk'[c].status = chunk[c].status
           /\ chunk'[c].status = "done" => chunk'[c].text = file.rows
<1> DEFINE old == chunk[c]
           new == chunk'[c]
           Good == /\ RowOK(new)
                   /\ old.status \in {"none", "done"} => new.status = old.status
                   /\ new.status = "done" => new.text = file.rows
<1>0. old \in Chunk /\ (old.status = "done" => old.text = file.rows)
  BY DEF TransTypeOK, RowsClean
<1>1. ASSUME old.status = "processing", new = TimedOutRow(old)
      PROVE  Good
  BY <1>1, TimedOutKeeps
<1>2. ASSUME new = StoppedRow(old)
      PROVE  Good
  <2>1. old.status = "none" => new.status = "none"
    BY <1>0, <1>2 DEF StoppedRow, Chunk
  <2> QED
    BY <1>0, <1>2, <2>1, StoppedKeeps
<1>3. ASSUME DueRow(old), new = ClaimedRow(old)
      PROVE  Good
  <2>1. new.status = "processing" /\ old.status \notin {"none", "done"}
    BY <1>0, <1>3 DEF ClaimedRow, DueRow, Chunk
  <2> QED
    BY <1>3, <2>1, ClaimedKeeps
<1>4. ASSUME NEW t \in tasks, t.chunk = c, Mine(t),
             new \in {DoneRow(old, t.rows), FailedRow(old, t.retries + 1)}
      PROVE  Good
  <2>1. /\ t.rows \in Keys /\ t.retries + 1 \in 1 .. MaxRetries + 1
        /\ t.rows = file.rows /\ old.status = "processing"
    BY <1>4, TranslationAssumption DEF TransTypeOK, Task, Mine, CurrentIsPresent
  <2>2. CASE new = DoneRow(old, t.rows)
    <3>1. new.text = t.rows
      BY <1>0, <2>2 DEF DoneRow, Chunk
    <3> QED
      BY <2>1, <2>2, <3>1, DoneKeeps
  <2>3. CASE new = FailedRow(old, t.retries + 1)
    BY <2>1, <2>3, FailedKeeps
  <2> QED
    BY <1>4, <2>2, <2>3
<1>5. ASSUME old.status \in {"pending", "failed"}, new = RequeuedRow(old)
      PROVE  Good
  <2>1. new.status = "pending"
    BY <1>0, <1>5 DEF RequeuedRow, Chunk
  <2> QED
    BY <1>5, <2>1, OtherKeeps
<1>6. ASSUME old.status = "processing", new = AgedRow(old)
      PROVE  Good
  <2>1. new.status = old.status
    BY <1>0, <1>6 DEF AgedRow, Chunk
  <2> QED
    BY <1>6, <2>1, OtherKeeps
<1>7. ASSUME old.next = "later", new = WaitedRow(old)
      PROVE  Good
  <2>1. new.status = old.status /\ new.text = old.text
    BY <1>0, <1>7 DEF WaitedRow, Chunk
  <2> QED
    BY <1>0, <1>7, <2>1, OtherKeeps
<1> QED
  BY <1>1, <1>2, <1>3, <1>4, <1>5, <1>6, <1>7 DEF RowChange

\* The invariants of the rows say of each that it is in order.
LEMMA RowsOK ==
    ASSUME TransTypeOK, ChunkRecoverable, RowsClean
    PROVE  \A c \in Chunks : RowOK(chunk[c])
  BY DEF TransTypeOK, ChunkRecoverable, RowsClean, RowOK, Recoverable

\* No step adds a chunk beyond those a parse can yield.
LEMMA ChunkDomain ==
    ASSUME TransTypeOK, [Next]_vars
    PROVE  chunk' = [c \in Chunks |-> chunk'[c]]
<1>1. CASE PersistChunks
  BY <1>1 DEF PersistChunks
<1>2. CASE ResetPicked
  BY <1>2 DEF ResetPicked
<1>3. ASSUME NEW d \in Chunks, ClaimAges(d) \/ BackoffElapses(d)
      PROVE  chunk' = [c \in Chunks |-> chunk'[c]]
  BY <1>3 DEF ClaimAges, BackoffElapses, TransTypeOK
<1>4. ASSUME NEW r \in Runners,
             \/ ResetStaleOfFile(r) \/ ResetStaleOfSession(r) \/ StopForMismatch(r)
             \/ MarkDisabled(r) \/ ClaimChunk(r) \/ TaskEnds(r)
      PROVE  chunk' = [c \in Chunks |-> chunk'[c]]
  BY <1>4, ZenonT(60)
     DEF ResetStaleOfFile, ResetStaleOfSession, StopForMismatch, MarkDisabled,
         ClaimChunk, TaskEnds, TaskDone, TaskFailed, TransTypeOK
<1>5. CASE UNCHANGED chunk
  BY <1>5 DEF TransTypeOK
<1> QED
  BY <1>1, <1>2, <1>3, <1>4, <1>5
     DEF Next, ParserSteps, RetrySteps, Runners, MarkParsing, ParseFails,
         StartTranslation, DeleteFile, AskRetry, RetryLost, PickChunks,
         ReadSnapshot, WriteSnapshot, StartRetry, vars, RunnerSteps,
         EnsureSession, EnsureFails, TakeLock, Initialize, SelectChunk,
         RoundEnds, Join, ReadAggregate, WriteAggregate, WriteStopped, Abandon,
         Reconfigure, TakeJob, PollSteps, FindStale, FindDue

\* Every step keeps the rows in order.
LEMMA RowsStep ==
    ASSUME TransTypeOK, ClaimReady, ChunkRecoverable, RowsClean,
           CurrentIsPresent, [Next]_vars
    PROVE  /\ (chunk \in [Chunks -> Chunk])'
           /\ ChunkRecoverable' /\ RowsClean'
<1>1. ASSUME NEW c \in Chunks
      PROVE  /\ RowOK(chunk'[c])
             /\ chunk'[c].status = "done" => chunk'[c].text = file'.rows
  <2>1. CASE PersistChunks
    <3>1. chunk'[c] \in {FreshChunk, NoChunk}
      BY <2>1 DEF PersistChunks
    <3>2. chunk'[c].status # "done"
      BY <3>1 DEF FreshChunk, NoChunk
    <3> QED
      BY <3>1, <3>2, NewRows
  <2>2. CASE ~PersistChunks
    <3>1. file'.rows = file.rows
      BY <2>2, KeyStep DEF MarkParsing, ParseFails, TransTypeOK, File
    <3>2. CASE chunk'[c] = chunk[c]
      BY <3>1, <3>2, RowsOK DEF RowsClean
    <3>3. CASE chunk'[c] # chunk[c]
      BY <2>2, <3>1, <3>3, RowsOK, RowStep, RowOutcome
    <3> QED
      BY <3>2, <3>3
  <2> QED
    BY <2>1, <2>2
<1>2. \A c \in Chunks : chunk'[c] \in Chunk /\ Recoverable(chunk'[c])
  BY <1>1 DEF RowOK
<1>3. (chunk \in [Chunks -> Chunk])'
  BY <1>2, ChunkDomain
<1> QED
  BY <1>1, <1>2, <1>3 DEF ChunkRecoverable, Recoverable, RowsClean, RowOK

-----------------------------------------------------------------------------
(* The types *)

\* The keys of the file grow within the bound.
LEMMA KeysStep ==
    ASSUME TransTypeOK, KeysKnown, [Next]_vars
    PROVE  /\ file'.key + (IF file'.parsed THEN 0 ELSE 1) <= 2 * events' + 1
           /\ events' \in 0 .. EventLimit
           /\ file'.key \in Keys /\ file'.key >= file.key
           /\ file'.rows \in Keys /\ file'.rows <= file'.key
           /\ \/ file'.rows = file.rows /\ ~PersistChunks
              \/ /\ PersistChunks /\ file'.rows = file.key + 1
                 /\ file'.key = file.key + 1
<1> DEFINE b == IF file.parsed THEN 0 ELSE 1
           bb == IF file'.parsed THEN 0 ELSE 1
<1>1. /\ file.key \in Nat /\ file.rows \in Nat /\ file.rows <= file.key
      /\ file.parsed \in BOOLEAN /\ file.key + b <= 2 * events + 1
      /\ events \in 0 .. EventLimit /\ EventLimit \in Nat
  BY TranslationAssumption DEF TransTypeOK, File, Keys, KeysKnown
<1>2. CASE PersistChunks
  <2>1. /\ file'.key = file.key + 1 /\ file'.rows = file.key + 1
        /\ file'.parsed = TRUE
        /\ IF file.parsed THEN events < EventLimit /\ events' = events + 1
                          ELSE events' = events
    BY <1>2 DEF PersistChunks, Event, TransTypeOK, File
  <2>2. file'.key + bb <= 2 * events' + 1 /\ events' \in 0 .. EventLimit
    BY <1>1, <2>1
  <2> QED
    BY <1>1, <1>2, <2>1, <2>2 DEF Keys
<1>3. CASE MarkParsing /\ ~PersistChunks
  <2>1. /\ file'.key = file.key /\ file'.rows = file.rows /\ file'.parsed = FALSE
        /\ file.parsed /\ events < EventLimit /\ events' = events + 1
    BY <1>3 DEF MarkParsing, Event, TransTypeOK, File
  <2> QED
    BY <1>1, <1>3, <2>1 DEF Keys
<1>4. CASE ParseFails /\ ~PersistChunks
  <2>1. /\ file'.key = file.key + 1 /\ file'.rows = file.rows
        /\ file'.parsed = FALSE
        /\ events < EventLimit /\ events' = events + 1
    BY <1>4 DEF ParseFails, Event, TransTypeOK, File
  <2> QED
    BY <1>1, <1>4, <2>1 DEF Keys
<1>5. CASE ~(MarkParsing \/ ParseFails \/ PersistChunks)
  <2>1. /\ file'.key = file.key /\ file'.rows = file.rows
        /\ file'.parsed = file.parsed /\ events' \in events .. EventLimit
    BY <1>5, KeyStep
  <2> QED
    BY <1>1, <1>5, <2>1 DEF Keys
<1> QED
  BY <1>2, <1>3, <1>4, <1>5

\* The variables of the runners, and the place where a claim is prepared.
RunnerOK ==
    /\ pc       \in [Runners -> Places]
    /\ config   \in [Runners -> Providers]
    /\ session  \in [Runners -> Keys]
    /\ picked   \in [Runners -> [chunk : {0} \cup Chunks, retries : 0 .. MaxRetries]]
    /\ spawned  \in [Runners -> 0 .. Concurrency]
    /\ view     \in [Runners -> View]
    /\ ClaimReady
    /\ \A r \in Runners : session[r] <= file.key

\* Values that runners start with, or go back to.
LEMMA InitialValues ==
    /\ 0 \in Keys /\ NoView \in View
    /\ NoPick \in [chunk : {0} \cup Chunks, retries : 0 .. MaxRetries]
    /\ 0 \in 0 .. Concurrency
  BY TranslationAssumption DEF Keys, NoView, View, Shown, NoPick

\* A runner that leaves forgets its session.
LEMMA LeaveKeeps ==
    ASSUME RunnerOK, file.key \in Keys, NEW r \in Runners, NEW S, Leave(r, S),
           config' = config, file'.key = file.key
    PROVE  RunnerOK'
<1>1. "idle" \in Places /\ file.key >= 0
  BY TranslationAssumption DEF Places, Keys
<1>2. ClaimReady'
  BY <1>1 DEF RunnerOK, ClaimReady, Leave, Goto
<1>3. \A q \in Runners : session'[q] <= file'.key
  BY <1>1 DEF RunnerOK, Leave
<1> QED
  BY <1>1, <1>2, <1>3, InitialValues DEF RunnerOK, Leave, Goto

\* A step of a runner keeps them.
LEMMA RunnerKeeps ==
    ASSUME TransTypeOK, KeysKnown, ClaimReady, NEW r \in Runners,
           RunnerSteps(r) \/ Abandon(r) \/ Reconfigure(r) \/ TakeJob(r) \/ PollSteps(r),
           file'.key = file.key
    PROVE  RunnerOK'
<1>0. /\ RunnerOK /\ file.key \in Keys /\ config[r] \in Providers
      /\ Concurrency \in Nat \ {0}
  BY TranslationAssumption DEF TransTypeOK, KeysKnown, RunnerOK, File
<1>1. CASE EnsureFails(r) \/ MarkDisabled(r) \/ WriteStopped(r) \/ Abandon(r)
  BY <1>0, <1>1, LeaveKeeps
     DEF EnsureFails, MarkDisabled, WriteStopped, Abandon, LeaveOk, LeaveErr
<1>2. CASE WriteAggregate(r)
  <2>1. CASE spawned[r] = 0
    BY <1>0, <1>2, <2>1, LeaveKeeps DEF WriteAggregate, LeaveOk
  <2>2. CASE spawned[r] # 0
    BY <1>0, <1>2, <2>2, InitialValues
       DEF WriteAggregate, Goto, RunnerOK, ClaimReady, Places
  <2> QED
    BY <2>1, <2>2
<1>3. CASE EnsureSession(r)
  <2> DEFINE p == CASE file.lock = NoProvider -> "lock"
                    [] file.lock = config[r]  -> Begin(r)
                    [] OTHER                  -> "stop"
  <2>1. p \in Places /\ p # "claim"
    BY DEF Begin, Places
  <2>2. /\ pc' = [pc EXCEPT ![r] = p]
        /\ session' = [session EXCEPT ![r] = file.key]
        /\ UNCHANGED <<config, picked, spawned, view>>
    BY <1>3 DEF EnsureSession, Goto
  <2>3. file.key <= file.key
    BY <1>0 DEF Keys
  <2> HIDE DEF p
  <2> QED
    BY <1>0, <2>1, <2>2, <2>3 DEF RunnerOK, ClaimReady
<1>4. CASE TakeLock(r)
  <2>1. Begin(r) \in Places /\ Begin(r) # "claim" /\ "ensure" \in Places
    BY DEF Begin, Places
  <2>2. \E p \in Places, k \in {session[r], 0} :
          /\ p # "claim" /\ pc' = [pc EXCEPT ![r] = p]
          /\ session' = [session EXCEPT ![r] = k]
          /\ UNCHANGED <<config, picked, spawned, view>>
    <3>1. session = [session EXCEPT ![r] = session[r]]
      BY <1>0 DEF RunnerOK
    <3> QED
      BY <1>4, <2>1, <3>1 DEF TakeLock, Goto
  <2>3. 0 <= file.key
    BY <1>0 DEF Keys
  <2> QED
    BY <1>0, <2>2, <2>3, InitialValues DEF RunnerOK, ClaimReady
<1>5. CASE SelectChunk(r)
  <2>1. PICK c \in Due :
          picked' = [picked EXCEPT ![r] = [chunk |-> c, retries |-> chunk[c].retries]]
    BY <1>5 DEF SelectChunk
  <2>2. c \in Chunks /\ chunk[c].retries \in 0 .. MaxRetries
    BY TranslationAssumption DEF Due, DueRow, TransTypeOK, Chunk
  <2>3. /\ pc' = [pc EXCEPT ![r] = "claim"] /\ spawned[r] < Concurrency
        /\ UNCHANGED <<config, session, spawned, view>>
    BY <1>5 DEF SelectChunk, Goto
  <2> QED
    BY <1>0, <2>1, <2>2, <2>3 DEF RunnerOK, ClaimReady, Places
<1>6. CASE ClaimChunk(r)
  <2>1. /\ pc' = [pc EXCEPT ![r] = "select"]
        /\ picked' = [picked EXCEPT ![r] = NoPick]
        /\ spawned' \in {spawned, [spawned EXCEPT ![r] = @ + 1]}
        /\ spawned[r] < Concurrency
        /\ UNCHANGED <<config, session, view>>
    BY <1>6 DEF ClaimChunk, Goto, ClaimReady
  <2>2. spawned' \in [Runners -> 0 .. Concurrency]
    BY <1>0, <2>1 DEF RunnerOK
  <2>3. ClaimReady'
    BY <1>0, <2>1 DEF RunnerOK, ClaimReady
  <2> QED
    BY <1>0, <2>1, <2>2, <2>3, InitialValues DEF RunnerOK, Places
<1>7. CASE ResetStaleOfSession(r)
  BY <1>0, <1>7, InitialValues DEF ResetStaleOfSession, Goto, RunnerOK, ClaimReady, Places
<1>8. CASE ReadAggregate(r)
  BY <1>0, <1>8, AggregateFacts DEF ReadAggregate, Goto, RunnerOK, ClaimReady, Places
<1>9. CASE Reconfigure(r)
  BY <1>0, <1>9 DEF Reconfigure, RunnerOK, ClaimReady
<1>10. CASE \/ TakeJob(r) \/ PollSteps(r) \/ StopForMismatch(r) \/ Initialize(r)
            \/ RoundEnds(r) \/ Join(r)
  BY <1>0, <1>10
     DEF TakeJob, PollSteps, FindStale, ResetStaleOfFile, FindDue,
         StopForMismatch, Initialize, RoundEnds, Join, Goto, RunnerOK,
         ClaimReady, Places
<1> QED
  BY <1>1, <1>2, <1>3, <1>4, <1>5, <1>6, <1>7, <1>8, <1>9, <1>10 DEF RunnerSteps

\* A runner does not change the parse.
LEMMA RunnerLeavesKey ==
    ASSUME TransTypeOK, NEW r \in Runners,
           \/ RunnerSteps(r) \/ Abandon(r) \/ Reconfigure(r)
           \/ TakeJob(r) \/ PollSteps(r)
    PROVE  file'.key = file.key
<1>1. CASE TakeLock(r) \/ Initialize(r)
  BY <1>1 DEF TakeLock, Initialize, TransTypeOK, File
<1>2. CASE MarkDisabled(r) \/ WriteAggregate(r) \/ WriteStopped(r)
  BY <1>2 DEF MarkDisabled, WriteAggregate, WriteStopped, WriteView, TransTypeOK, File
<1>3. CASE UNCHANGED file
  BY <1>3
<1> QED
  BY <1>1, <1>2, <1>3
     DEF RunnerSteps, EnsureSession, EnsureFails, StopForMismatch,
         ResetStaleOfSession, SelectChunk, RoundEnds, ClaimChunk, Join,
         ReadAggregate, Abandon, Reconfigure, TakeJob, PollSteps, FindStale,
         ResetStaleOfFile, FindDue

\* Every step keeps the variables of the runners in order.
LEMMA RunnersStep ==
    ASSUME TransTypeOK, KeysKnown, ClaimReady, [Next]_vars
    PROVE  RunnerOK'
<1>1. CASE UNCHANGED runnerVars
  BY <1>1, KeysStep DEF TransTypeOK, KeysKnown, RunnerOK, ClaimReady, runnerVars,
                        File, Keys
<1>2. ASSUME NEW r \in Runners,
             \/ RunnerSteps(r) \/ Abandon(r) \/ Reconfigure(r)
             \/ TakeJob(r) \/ PollSteps(r)
      PROVE  RunnerOK'
  <2>1. file'.key = file.key
    BY <1>2, RunnerLeavesKey
  <2> QED
    BY <1>2, <2>1, RunnerKeeps
<1> QED
  BY <1>1, <1>2, ZenonT(60)
     DEF Next, ParserSteps, RetrySteps, Runners, MarkParsing, ParseFails,
         PersistChunks, StartTranslation, DeleteFile, AskRetry, RetryLost,
         PickChunks, ResetPicked, ReadSnapshot, WriteSnapshot, StartRetry,
         TaskEnds, TaskDone, TaskFailed, ClaimAges, BackoffElapses, vars

-----------------------------------------------------------------------------
(* The tasks *)

\* A task whose claim is taken is otherwise the same.
LEMMA ShedTask ==
    ASSUME NEW u \in Task, NEW b \in BOOLEAN
    PROVE  /\ [u EXCEPT !.current = b] \in Task
           /\ [u EXCEPT !.current = b].chunk = u.chunk
           /\ [u EXCEPT !.current = b].rows = u.rows
           /\ [u EXCEPT !.current = b].current = b
  BY DEF Task

\* What a claim makes of the other tasks of its chunk, and the task it adds.
Shed(u, c) == [u EXCEPT !.current = @ /\ u.chunk # c]

NewTask(r) == [runner |-> r, chunk |-> picked[r].chunk, rows |-> file.rows,
               retries |-> picked[r].retries, current |-> TRUE]

\* Where the tasks come from.
LEMMA TaskStep ==
    ASSUME TransTypeOK, ClaimReady, [Next]_vars
    PROVE  \/ PersistChunks /\ tasks' = {[u EXCEPT !.current = FALSE] : u \in tasks}
           \/ /\ ResetPicked
              /\ \E S \in SUBSET Chunks :
                    /\ \A c \in S : chunk[c].status # "processing"
                    /\ tasks' = {[u EXCEPT !.current = @ /\ u.chunk \notin S] : u \in tasks}
           \/ tasks' \subseteq tasks
           \/ \E r \in Runners :
                 /\ ClaimChunk(r) /\ DueRow(chunk[picked[r].chunk])
                 /\ tasks' = {Shed(u, picked[r].chunk) : u \in tasks} \cup {NewTask(r)}
<1>1. CASE PersistChunks
  BY <1>1 DEF PersistChunks
<1>2. CASE ResetPicked
  <2> DEFINE S == {c \in retry.chunks : /\ retry.rows = file.rows
                                        /\ chunk[c].status \in {"pending", "failed"}}
  <2>1. S \in SUBSET Chunks /\ \A c \in S : chunk[c].status # "processing"
    BY DEF TransTypeOK
  <2>2. tasks' = {[u EXCEPT !.current = @ /\ u.chunk \notin S] : u \in tasks}
    BY <1>2 DEF ResetPicked
  <2> HIDE DEF S
  <2> QED
    BY <1>2, <2>1, <2>2
<1>3. ASSUME NEW r \in Runners, ClaimChunk(r)
      PROVE  \/ tasks' = tasks
             \/ /\ DueRow(chunk[picked[r].chunk])
                /\ tasks' = {Shed(u, picked[r].chunk) : u \in tasks} \cup {NewTask(r)}
  BY <1>3 DEF ClaimChunk, Shed, NewTask
<1>4. \/ PersistChunks \/ ResetPicked \/ tasks' \subseteq tasks
      \/ \E r \in Runners : ClaimChunk(r)
  BY ZenonT(60) DEF Next, ParserSteps, RetrySteps, Runners, MarkParsing, ParseFails,
         StartTranslation, DeleteFile, AskRetry, RetryLost, PickChunks,
         ReadSnapshot, WriteSnapshot, StartRetry, vars, RunnerSteps,
         EnsureSession, EnsureFails, TakeLock, StopForMismatch, MarkDisabled,
         Initialize, ResetStaleOfSession, SelectChunk, RoundEnds, Join,
         ReadAggregate, WriteAggregate, WriteStopped, Abandon, TaskEnds, TaskDone,
         TaskFailed, Reconfigure, TakeJob, PollSteps, FindStale, ResetStaleOfFile,
         FindDue, ClaimAges, BackoffElapses
<1> QED
  BY <1>1, <1>2, <1>3, <1>4

\* Every task has its type, and knows of no parse but one the file has had; one
\* that has its claim is of the present parse.
TasksOK ==
    /\ tasks \subseteq Task
    /\ \A t \in tasks : t.rows <= file.key
    /\ CurrentIsPresent

\* Every step keeps the tasks in order.
LEMMA TasksKeep ==
    ASSUME TransTypeOK, KeysKnown, ClaimReady, CurrentIsPresent, [Next]_vars
    PROVE  TasksOK'
<1>0. /\ tasks \subseteq Task /\ \A t \in tasks : t.rows <= file.key /\ t.rows \in Nat
      /\ file.rows \in Keys /\ file.rows <= file.key /\ file.rows \in Nat
      /\ file.key \in Nat
  BY DEF TransTypeOK, KeysKnown, File, Task, Keys
<1>1. /\ file'.key >= file.key /\ file'.key \in Nat
      /\ ~PersistChunks => file'.rows = file.rows
  BY KeysStep DEF Keys
<1> SUFFICES ASSUME NEW t \in tasks'
             PROVE  /\ t \in Task /\ t.rows <= file.key /\ t.rows \in Nat
                    /\ t.current => t.rows = file'.rows
  BY <1>0, <1>1 DEF TasksOK, CurrentIsPresent
<1>2. CASE PersistChunks
  <2>1. PICK u \in tasks : t = [u EXCEPT !.current = FALSE]
    BY <1>2 DEF PersistChunks
  <2> QED
    BY <1>0, <2>1, ShedTask
<1>3. CASE ~PersistChunks
  <2>1. ASSUME NEW S \in SUBSET Chunks,
               tasks' = {[u EXCEPT !.current = @ /\ u.chunk \notin S] : u \in tasks}
        PROVE  /\ t \in Task /\ t.rows <= file.key /\ t.rows \in Nat
               /\ t.current => t.rows = file.rows
    <3>1. PICK u \in tasks : t = [u EXCEPT !.current = u.current /\ u.chunk \notin S]
      BY <2>1
    <3> DEFINE b == u.current /\ u.chunk \notin S
    <3>2. u \in Task /\ b \in BOOLEAN /\ (b => u.current)
      BY <1>0 DEF Task
    <3>3. t = [u EXCEPT !.current = b]
      BY <3>1
    <3> HIDE DEF b
    <3>4. t \in Task /\ t.chunk = u.chunk /\ t.rows = u.rows /\ t.current = b
      BY <3>2, <3>3, ShedTask
    <3> QED
      BY <1>0, <3>2, <3>4 DEF CurrentIsPresent
  <2>2. ASSUME NEW r \in Runners, ClaimChunk(r),
               tasks' = {Shed(u, picked[r].chunk) : u \in tasks} \cup {NewTask(r)}
        PROVE  /\ t \in Task /\ t.rows <= file.key /\ t.rows \in Nat
               /\ t.current => t.rows = file.rows
    <3>1. CASE t = NewTask(r)
      <4>1. picked[r].chunk \in Chunks /\ picked[r].retries \in 0 .. MaxRetries
        BY <2>2 DEF ClaimChunk, ClaimReady, TransTypeOK
      <4> QED
        BY <1>0, <3>1, <4>1 DEF NewTask, Task
    <3>2. CASE t # NewTask(r)
      <4>1. PICK u \in tasks :
              t = [u EXCEPT !.current = u.current /\ u.chunk # picked[r].chunk]
        BY <2>2, <3>2 DEF Shed
      <4> DEFINE b == u.current /\ u.chunk # picked[r].chunk
      <4>2. u \in Task /\ b \in BOOLEAN /\ (b => u.current)
        BY <1>0 DEF Task
      <4>3. t = [u EXCEPT !.current = b]
        BY <4>1
      <4> HIDE DEF b
      <4>4. t \in Task /\ t.chunk = u.chunk /\ t.rows = u.rows /\ t.current = b
        BY <4>2, <4>3, ShedTask
      <4> QED
        BY <1>0, <4>2, <4>4 DEF CurrentIsPresent
    <3> QED
      BY <3>1, <3>2
  <2>3. CASE tasks' \subseteq tasks
    BY <1>0, <1>1, <1>3, <2>3 DEF CurrentIsPresent
  <2> QED
    BY <1>1, <1>3, <2>1, <2>2, <2>3, TaskStep
<1> QED
  BY <1>2, <1>3

-----------------------------------------------------------------------------
(* One task for a chunk *)

\* A claim is taken from a task on record only.
LEMMA DetachedStep ==
    ASSUME [Next]_vars
    PROVE  detached \subseteq detached' \/ PersistChunks
  BY ZenonT(60) DEF Next, ParserSteps, RetrySteps, Runners, MarkParsing, ParseFails,
         StartTranslation, DeleteFile, AskRetry, RetryLost, PickChunks,
         ResetPicked, ReadSnapshot, WriteSnapshot, StartRetry, vars, RunnerSteps,
         EnsureSession, EnsureFails, TakeLock, StopForMismatch, MarkDisabled,
         Initialize, ResetStaleOfSession, SelectChunk, RoundEnds, ClaimChunk, Join,
         ReadAggregate, WriteAggregate, WriteStopped, Abandon, TaskEnds, TaskDone,
         TaskFailed, Reconfigure, TakeJob, PollSteps, FindStale, ResetStaleOfFile,
         FindDue, ClaimAges, BackoffElapses, Detach

\* A chunk that a task works on is processing until the task ends, or its claim
\* is taken from it.
LEMMA HeldStays ==
    ASSUME TransTypeOK, ClaimReady, CurrentIsPresent, TaskHolds, [Next]_vars,
           ~PersistChunks, NEW c \in Chunks, c \notin detached',
           NEW t \in Present(c), t \in tasks' \/ ~(tasks' \subseteq tasks)
    PROVE  chunk'[c].status = "processing"
<1>1. /\ c \notin detached /\ t \in tasks /\ t.chunk = c /\ t.rows = file.rows
      /\ chunk[c].status = "processing" /\ \A u \in Present(c) : u = t
  BY DetachedStep DEF TaskHolds, Present
<1>2. CASE chunk'[c] = chunk[c]
  BY <1>1, <1>2
<1>3. CASE chunk'[c] # chunk[c]
  <2>1. RowChange(c)
    BY <1>3, RowStep
  <2>2. ~Detach \/ chunk'[c].status = "processing"
    BY <1>1 DEF Detach
  <2>3. ~DueRow(chunk[c])
    BY <1>1 DEF DueRow
  <2>4. ASSUME NEW u \in tasks, u.chunk = c, Mine(u), tasks' = tasks \ {u}
        PROVE  FALSE
    <3>1. u \in Present(c)
      BY <2>4 DEF Mine, CurrentIsPresent, Present
    <3> QED
      BY <1>1, <2>4, <3>1
  <2>5. AgedRow(chunk[c]).status = chunk[c].status
    BY DEF AgedRow, TransTypeOK, Chunk
  <2>6. WaitedRow(chunk[c]).status = chunk[c].status
    BY DEF WaitedRow, TransTypeOK, Chunk
  <2> QED
    BY <1>1, <2>1, <2>2, <2>3, <2>4, <2>5, <2>6 DEF RowChange
<1> QED
  BY <1>2, <1>3

\* Every step keeps TaskHolds.
LEMMA HoldsStep ==
    ASSUME TransTypeOK, KeysKnown, ClaimReady, CurrentIsPresent, TaskHolds,
           [Next]_vars
    PROVE  TaskHolds'
<1> SUFFICES ASSUME NEW c \in Chunks, c \notin detached',
                    NEW t \in tasks', t.chunk = c, t.rows = file'.rows
             PROVE  /\ chunk'[c].status = "processing"
                    /\ \A u \in tasks' :
                          u.chunk = c /\ u.rows = file'.rows => u = t
  BY DEF TaskHolds, Present
<1>0. tasks \subseteq Task /\ \A u \in tasks : u.rows <= file.key /\ u.rows \in Nat
  BY DEF TransTypeOK, KeysKnown, Task, Keys
<1>1. CASE PersistChunks
  <2>1. PICK u \in tasks : t = [u EXCEPT !.current = FALSE]
    BY <1>1 DEF PersistChunks
  <2>2. t.rows = u.rows
    BY <1>0, <2>1, ShedTask
  <2>3. file'.rows = file.key + 1 /\ file.key \in Nat
    BY <1>1, KeysStep DEF TransTypeOK, File, Keys
  <2>4. u.rows <= file.key /\ u.rows \in Nat
    BY <1>0
  <2>5. file.key + 1 <= file.key
    BY <2>2, <2>3, <2>4
  <2> QED
    BY <2>3, <2>5
<1>2. CASE ~PersistChunks
  <2>1. file'.rows = file.rows /\ c \notin detached
    BY <1>2, KeysStep, DetachedStep
  <2>2. CASE tasks' \subseteq tasks
    BY <1>2, <2>1, <2>2, HeldStays DEF TaskHolds, Present
  <2>3. ASSUME NEW S \in SUBSET Chunks, \A d \in S : chunk[d].status # "processing",
               tasks' = {[u EXCEPT !.current = @ /\ u.chunk \notin S] : u \in tasks},
               ResetPicked
        PROVE  /\ chunk'[c].status = "processing"
               /\ \A u \in tasks' : u.chunk = c /\ u.rows = file'.rows => u = t
    <3>1. ASSUME NEW v \in tasks', v.chunk = c, v.rows = file'.rows
          PROVE  \E u \in Present(c) : v = [u EXCEPT !.current = u.current /\ u.chunk \notin S]
      <4>1. PICK u \in tasks : v = [u EXCEPT !.current = u.current /\ u.chunk \notin S]
        BY <2>3
      <4> DEFINE b == u.current /\ u.chunk \notin S
      <4>2. b \in BOOLEAN /\ u \in Task /\ v = [u EXCEPT !.current = b]
        BY <1>0, <4>1 DEF Task
      <4> HIDE DEF b
      <4>3. u.chunk = c /\ u.rows = file.rows
        BY <2>1, <3>1, <4>2, ShedTask
      <4> QED
        BY <4>1, <4>3 DEF Present
    <3>2. PICK u \in Present(c) : t = [u EXCEPT !.current = u.current /\ u.chunk \notin S]
      BY <3>1
    <3>3. chunk[c].status = "processing" /\ \A v \in Present(c) : v = u
      BY <2>1, <3>2 DEF TaskHolds
    <3>4. chunk'[c] = chunk[c]
      BY <2>3, <3>3 DEF ResetPicked
    <3> QED
      BY <3>1, <3>2, <3>3, <3>4
  <2>4. ASSUME NEW r \in Runners, ClaimChunk(r), DueRow(chunk[picked[r].chunk]),
               tasks' = {Shed(u, picked[r].chunk) : u \in tasks} \cup {NewTask(r)}
        PROVE  /\ chunk'[c].status = "processing"
               /\ \A u \in tasks' : u.chunk = c /\ u.rows = file'.rows => u = t
    <3> DEFINE d == picked[r].chunk
    <3>1. /\ d \in Chunks /\ chunk[d].status # "processing"
          /\ tasks' = tasks \/ Valid(r)
      BY <2>4 DEF ClaimChunk, ClaimReady, DueRow
    <3>2. ASSUME NEW v \in tasks', v.chunk = c, v.rows = file'.rows, v # NewTask(r)
          PROVE  \E u \in Present(c) : v = Shed(u, d)
      <4>1. PICK u \in tasks : v = [u EXCEPT !.current = u.current /\ u.chunk # d]
        BY <2>4, <3>2 DEF Shed
      <4> DEFINE b == u.current /\ u.chunk # d
      <4>2. b \in BOOLEAN /\ u \in Task /\ v = [u EXCEPT !.current = b]
        BY <1>0, <4>1 DEF Task
      <4> HIDE DEF b
      <4>3. u.chunk = c /\ u.rows = file.rows
        BY <2>1, <3>2, <4>2, ShedTask
      <4> QED
        BY <4>1, <4>3 DEF Present, Shed
    <3>3. \A u \in Present(c) : chunk[c].status = "processing" /\ \A v \in Present(c) : v = u
      BY <2>1 DEF TaskHolds
    <3>4. CASE c = d
      <4>1. Present(c) = {}
        BY <3>1, <3>3, <3>4
      <4>2. t = NewTask(r) /\ \A u \in tasks' : u.chunk = c /\ u.rows = file'.rows => u = t
        BY <3>2, <4>1
      <4>3. tasks' # tasks
        BY <2>1, <4>1 DEF Present
      <4>4. chunk'[c] = ClaimedRow(chunk[c])
        <5>1. chunk' = [chunk EXCEPT ![d].status = "processing",
                                     ![d].attempt = "recent",
                                     ![d].next = "null", ![d].error = "none"]
          BY <2>4, <4>3 DEF ClaimChunk
        <5> QED
          BY <3>1, <3>4, <5>1 DEF ClaimedRow, TransTypeOK
      <4> QED
        BY <4>2, <4>4 DEF ClaimedRow, TransTypeOK, Chunk
    <3>5. CASE c # d
      <4>1. \A v \in tasks' : v.chunk = c => v # NewTask(r)
        BY <3>5 DEF NewTask
      <4>2. PICK u \in Present(c) : t = Shed(u, d)
        BY <3>2, <4>1
      <4>3. chunk'[c] = chunk[c]
        BY <2>4, <3>1, <3>5 DEF ClaimChunk, TransTypeOK
      <4> QED
        BY <3>2, <3>3, <4>1, <4>2, <4>3
    <3> QED
      BY <3>4, <3>5
  <2> QED
    BY <1>2, <2>2, <2>3, <2>4, TaskStep
<1> QED
  BY <1>1, <1>2

-----------------------------------------------------------------------------
(* The remaining types *)

\* The row of the file.
LEMMA FileKeeps ==
    ASSUME TransTypeOK, KeysKnown, [Next]_vars
    PROVE  file' \in File
<1>0. /\ file \in File /\ file.key \in Nat
      /\ file'.key \in Keys /\ NoView \in View /\ TRUE \in BOOLEAN
  BY KeysStep, InitialValues DEF TransTypeOK, File, Keys
<1>1. ASSUME NEW v \in View
      PROVE  [file EXCEPT !.agg = v] \in File
  BY <1>0 DEF File
<1>2. CASE MarkParsing \/ DeleteFile
  BY <1>0, <1>2 DEF MarkParsing, DeleteFile, File
<1>3. CASE ParseFails
  <2>1. file'.key = file.key + 1
    BY <1>0, <1>3 DEF ParseFails, File
  <2> QED
    BY <1>0, <1>3, <2>1 DEF ParseFails, File
<1>4. CASE PersistChunks
  <2>1. file'.key = file.key + 1
    BY <1>0, <1>4 DEF PersistChunks, File
  <2> QED
    BY <1>0, <1>4, <2>1 DEF PersistChunks, File
<1>5. ASSUME NEW r \in Runners, TakeLock(r)
      PROVE  file' \in File
  BY <1>0, <1>5 DEF TakeLock, File, TransTypeOK
<1>6. ASSUME NEW r \in Runners, MarkDisabled(r)
      PROVE  file' \in File
  <2> DEFINE v == [shown |-> "failed", done |-> CountOf("done"),
                   failed |-> CountOf("failed")']
  <2>1. /\ {c \in Chunks : chunk[c].status = "done"} \in SUBSET Chunks
        /\ {c \in Chunks : chunk'[c].status = "failed"} \in SUBSET Chunks
    OBVIOUS
  <2>2. CountOf("done") \in 0 .. NChunks /\ CountOf("failed")' \in 0 .. NChunks
    BY <2>1, CountFacts DEF CountOf
  <2>3. v \in View
    BY <2>2 DEF View, Shown
  <2>4. file' = [file EXCEPT !.agg = v] \/ file' = file
    BY <1>6 DEF MarkDisabled
  <2> HIDE DEF v
  <2> QED
    BY <1>0, <1>1, <2>3, <2>4
<1>7. ASSUME NEW r \in Runners, Initialize(r)
      PROVE  file' \in File
  BY <1>0, <1>7 DEF Initialize, File, View, Shown
<1>8. ASSUME NEW r \in Runners, WriteAggregate(r) \/ WriteStopped(r)
      PROVE  file' \in File
  <2>1. view[r] \in View
    BY DEF TransTypeOK
  <2> QED
    BY <1>0, <1>1, <1>8, <2>1 DEF WriteAggregate, WriteStopped, WriteView
<1>9. CASE WriteSnapshot
  <2>1. retry.view \in View
    BY DEF TransTypeOK
  <2> QED
    BY <1>0, <1>1, <1>9, <2>1 DEF WriteSnapshot
<1>10. CASE UNCHANGED file
  BY <1>0, <1>10
<1> QED
  BY <1>2, <1>3, <1>4, <1>5, <1>6, <1>7, <1>8, <1>9, <1>10, ZenonT(60)
     DEF Next, ParserSteps, RetrySteps, Runners, StartTranslation, AskRetry,
         RetryLost, PickChunks, ResetPicked, ReadSnapshot, StartRetry, vars,
         RunnerSteps, EnsureSession, EnsureFails, StopForMismatch,
         ResetStaleOfSession, SelectChunk, RoundEnds, ClaimChunk, Join,
         ReadAggregate, Abandon, TaskEnds, TaskDone, TaskFailed, Reconfigure,
         TakeJob, PollSteps, FindStale, ResetStaleOfFile, FindDue, ClaimAges,
         BackoffElapses

\* The request to retry.
RetryOK ==
    /\ retry \in [at : {"none", "asked", "picked", "reset", "read", "start"},
                  chunks : SUBSET Chunks, rows : Keys, any : BOOLEAN, view : View]
    /\ retry.rows <= file.key

\* Every step keeps it in order.
LEMMA RetryKeeps ==
    ASSUME TransTypeOK, KeysKnown, [Next]_vars
    PROVE  RetryOK'
<1>0. /\ RetryOK /\ file.rows \in Keys /\ file.rows <= file.key /\ NoView \in View
      /\ 0 \in Keys /\ Aggregate \in View /\ file.key \in Nat
      /\ file'.key \in Nat /\ file'.key >= file.key /\ retry.rows \in Nat
      /\ file.rows \in Nat
  BY KeysStep, InitialValues, AggregateFacts
     DEF TransTypeOK, KeysKnown, RetryOK, File, Keys
<1>1. CASE AskRetry \/ StartRetry \/ RetryLost
  <2>1. /\ NoRetry \in [at : {"none"}, chunks : SUBSET Chunks, rows : Keys,
                        any : BOOLEAN, view : View]
        /\ NoRetry.rows = 0
    BY <1>0 DEF NoRetry
  <2>2. retry' = NoRetry \/ retry' = [NoRetry EXCEPT !.at = "asked"]
    BY <1>1 DEF AskRetry, StartRetry, RetryLost
  <2> QED
    BY <1>0, <2>1, <2>2 DEF RetryOK
<1>2. CASE PickChunks
  BY <1>0, <1>2 DEF PickChunks, RetryOK
<1>3. CASE ResetPicked
  BY <1>0, <1>3 DEF ResetPicked, RetryOK
<1>4. CASE ReadSnapshot
  BY <1>0, <1>4 DEF ReadSnapshot, RetryOK
<1>5. CASE WriteSnapshot
  <2>1. /\ NoRetry \in [at : {"none"}, chunks : SUBSET Chunks, rows : Keys,
                        any : BOOLEAN, view : View]
        /\ NoRetry.rows = 0
    BY <1>0 DEF NoRetry
  <2>2. retry' = NoRetry \/ retry' = [NoRetry EXCEPT !.at = "start"]
    BY <1>5 DEF WriteSnapshot
  <2> QED
    BY <1>0, <2>1, <2>2 DEF RetryOK
<1>6. CASE UNCHANGED retry
  BY <1>0, <1>6 DEF RetryOK
<1> QED
  BY <1>1, <1>2, <1>3, <1>4, <1>5, <1>6, ZenonT(60)
     DEF Next, ParserSteps, RetrySteps, Runners, MarkParsing, ParseFails,
         PersistChunks, StartTranslation, DeleteFile, vars, RunnerSteps,
         EnsureSession, EnsureFails, TakeLock, StopForMismatch, MarkDisabled,
         Initialize, ResetStaleOfSession, SelectChunk, RoundEnds, ClaimChunk, Join,
         ReadAggregate, WriteAggregate, WriteStopped, Abandon, TaskEnds, TaskDone,
         TaskFailed, Reconfigure, TakeJob, PollSteps, FindStale, ResetStaleOfFile,
         FindDue, ClaimAges, BackoffElapses

\* The job, and the variables of one value.
LEMMA FlagsKeep ==
    ASSUME TransTypeOK, [Next]_vars
    PROVE  /\ job' \in {"none", "queued", "held"} /\ owed' \in BOOLEAN
           /\ detached' \subseteq Chunks /\ crossed' \in BOOLEAN
<1>1. job' \in {"none", "queued", "held"} /\ owed' \in BOOLEAN
  <2>1. EnqueueTranslate => job' \in {"none", "queued", "held"}
    BY DEF EnqueueTranslate, TransTypeOK
  <2>2. \A r \in Runners :
           LeaveOk(r) \/ LeaveErr(r) => job' \in {"none", "queued", "held"}
    BY DEF LeaveOk, LeaveErr, Leave, TransTypeOK
  <2>3. \/ EnqueueTranslate \/ job' = job
        \/ \E r \in Runners : LeaveOk(r) \/ LeaveErr(r) \/ TakeJob(r)
    BY ZenonT(60) DEF Next, ParserSteps, RetrySteps, Runners, MarkParsing, ParseFails,
           PersistChunks, StartTranslation, DeleteFile, AskRetry, RetryLost,
           PickChunks, ResetPicked, ReadSnapshot, WriteSnapshot, StartRetry, vars,
           RunnerSteps, EnsureSession, EnsureFails, TakeLock, StopForMismatch,
           MarkDisabled, Initialize, ResetStaleOfSession, SelectChunk, RoundEnds,
           ClaimChunk, Join, ReadAggregate, WriteAggregate, WriteStopped, Abandon,
           TaskEnds, TaskDone, TaskFailed, Reconfigure, PollSteps, FindStale,
           ResetStaleOfFile, FindDue, ClaimAges, BackoffElapses
  <2>4. owed' = owed \/ PersistChunks \/ StartTranslation
    BY ZenonT(60) DEF Next, ParserSteps, RetrySteps, Runners, MarkParsing, ParseFails,
           DeleteFile, AskRetry, RetryLost, PickChunks, ResetPicked, ReadSnapshot,
           WriteSnapshot, StartRetry, vars, RunnerSteps, EnsureSession,
           EnsureFails, TakeLock, StopForMismatch, MarkDisabled, Initialize,
           ResetStaleOfSession, SelectChunk, RoundEnds, ClaimChunk, Join,
           ReadAggregate, WriteAggregate, WriteStopped, Abandon, TaskEnds,
           TaskDone, TaskFailed, Reconfigure, TakeJob, PollSteps, FindStale,
           ResetStaleOfFile, FindDue, ClaimAges, BackoffElapses
  <2> QED
    BY <2>1, <2>2, <2>3, <2>4 DEF TakeJob, PersistChunks, StartTranslation, TransTypeOK
<1>2. detached' \subseteq Chunks
  <2>1. Detach => detached' \subseteq Chunks
    BY DEF Detach, TransTypeOK
  <2>2. PersistChunks => detached' \subseteq Chunks
    BY DEF PersistChunks
  <2> QED
    BY <2>1, <2>2, ZenonT(60)
    DEF TransTypeOK, Next, ParserSteps, RetrySteps, Runners, MarkParsing, ParseFails,
         StartTranslation, DeleteFile, AskRetry, RetryLost, PickChunks,
         ResetPicked, ReadSnapshot, WriteSnapshot, StartRetry, vars, RunnerSteps,
         EnsureSession, EnsureFails, TakeLock, StopForMismatch, MarkDisabled,
         Initialize, ResetStaleOfSession, SelectChunk, RoundEnds, ClaimChunk, Join,
         ReadAggregate, WriteAggregate, WriteStopped, Abandon, TaskEnds, TaskDone,
         TaskFailed, Reconfigure, TakeJob, PollSteps, FindStale, ResetStaleOfFile,
         FindDue, ClaimAges, BackoffElapses
<1>3. crossed' \in BOOLEAN
  BY ZenonT(60) DEF TransTypeOK, Next, ParserSteps, RetrySteps, Runners, MarkParsing, ParseFails,
         PersistChunks, StartTranslation, DeleteFile, AskRetry, RetryLost, PickChunks,
         ResetPicked, ReadSnapshot, WriteSnapshot, StartRetry, vars, RunnerSteps,
         EnsureSession, EnsureFails, TakeLock, StopForMismatch, MarkDisabled,
         Initialize, ResetStaleOfSession, SelectChunk, RoundEnds, ClaimChunk, Join,
         ReadAggregate, WriteAggregate, WriteStopped, WriteView, Abandon, TaskEnds,
         TaskDone, TaskFailed, Reconfigure, TakeJob, PollSteps, FindStale,
         ResetStaleOfFile, FindDue, ClaimAges, BackoffElapses
<1> QED
  BY <1>1, <1>2, <1>3

-----------------------------------------------------------------------------
(* What the file shows *)

\* A file of which every chunk is translated stays so until the next parse.
LEMMA AllDoneStays ==
    ASSUME TransTypeOK, ClaimReady, ChunkRecoverable, RowsClean,
           CurrentIsPresent, [Next]_vars, ~PersistChunks, AllDone
    PROVE  AllDone'
<1> SUFFICES ASSUME NEW c \in Chunks
             PROVE  chunk'[c].status \in {"none", "done"}
  BY DEF AllDone
<1>1. chunk[c].status \in {"none", "done"} /\ RowOK(chunk[c])
  BY RowsOK DEF AllDone
<1>2. chunk'[c] # chunk[c] => RowChange(c)
  BY RowStep
<1> QED
  BY <1>1, <1>2, RowOutcome

\* What a runner is about to write it has just read, or had before.
LEMMA ViewSource ==
    ASSUME TransTypeOK, [Next]_vars, NEW r \in Runners,
           pc'[r] \in {"write", "stopWrite"}
    PROVE  \/ ReadAggregate(r)
           \/ /\ pc'[r] = pc[r] /\ session'[r] = session[r] /\ view'[r] = view[r]
<1> DEFINE Same == pc'[r] = pc[r] /\ session'[r] = session[r] /\ view'[r] = view[r]
<1>1. ASSUME NEW q \in Runners, Leave(q, {"none"}) \/ Leave(q, {"queued", "none"})
      PROVE  Same
  BY <1>1 DEF Leave, Goto, TransTypeOK
<1>2. ASSUME NEW q \in Runners, WriteAggregate(q)
      PROVE  Same
  BY <1>1, <1>2 DEF WriteAggregate, LeaveOk, Goto, TransTypeOK
<1>3. ASSUME NEW q \in Runners, EnsureSession(q) \/ TakeLock(q)
      PROVE  Same
  <2>1. PICK p \in {"disable", "init", "lock", "stop", "ensure"} :
          pc' = [pc EXCEPT ![q] = p]
    BY <1>3 DEF EnsureSession, TakeLock, Goto, Begin
  <2>2. q # r
    BY <2>1 DEF TransTypeOK
  <2>3. \/ session' = session \/ session' = [session EXCEPT ![q] = 0]
        \/ session' = [session EXCEPT ![q] = file.key]
    BY <1>3 DEF EnsureSession, TakeLock
  <2>4. view' = view
    BY <1>3 DEF EnsureSession, TakeLock
  <2> QED
    BY <2>1, <2>2, <2>3, <2>4 DEF TransTypeOK
<1>4. ASSUME NEW q \in Runners, ReadAggregate(q), q # r
      PROVE  Same
  BY <1>4 DEF ReadAggregate, Goto, TransTypeOK
<1>5. ASSUME NEW q \in Runners, NEW p \in Places \ {"write", "stopWrite"},
             pc' = [pc EXCEPT ![q] = p], session' = session, view' = view
      PROVE  Same
  BY <1>5 DEF TransTypeOK
<1>6. ASSUME NEW q \in Runners,
             \/ TakeJob(q) \/ PollSteps(q) \/ StopForMismatch(q) \/ Initialize(q)
             \/ ResetStaleOfSession(q) \/ SelectChunk(q) \/ RoundEnds(q)
             \/ ClaimChunk(q) \/ Join(q)
      PROVE  Same
  <2>1. PICK p \in Places \ {"write", "stopWrite"} : pc' = [pc EXCEPT ![q] = p]
    BY <1>6
       DEF TakeJob, PollSteps, FindStale, ResetStaleOfFile, FindDue,
           StopForMismatch, Initialize, ResetStaleOfSession, SelectChunk,
           RoundEnds, ClaimChunk, Join, Goto, Places
  <2>2. session' = session /\ view' = view
    BY <1>6
       DEF TakeJob, PollSteps, FindStale, ResetStaleOfFile, FindDue,
           StopForMismatch, Initialize, ResetStaleOfSession, SelectChunk,
           RoundEnds, ClaimChunk, Join
  <2> QED
    BY <1>5, <2>1, <2>2
<1>7. ASSUME UNCHANGED <<pc, session, view>>
      PROVE  Same
  BY <1>7
<1>8. \/ UNCHANGED <<pc, session, view>>
      \/ \E q \in Runners :
            \/ WriteAggregate(q) \/ EnsureSession(q) \/ TakeLock(q)
            \/ ReadAggregate(q)
            \/ TakeJob(q) \/ PollSteps(q) \/ StopForMismatch(q) \/ Initialize(q)
            \/ ResetStaleOfSession(q) \/ SelectChunk(q) \/ RoundEnds(q)
            \/ ClaimChunk(q) \/ Join(q)
            \/ Leave(q, {"none"}) \/ Leave(q, {"queued", "none"})
  BY ZenonT(60) DEF Next, ParserSteps, RetrySteps, Runners, MarkParsing, ParseFails,
         PersistChunks, StartTranslation, DeleteFile, AskRetry, RetryLost,
         PickChunks, ResetPicked, ReadSnapshot, WriteSnapshot, StartRetry, vars,
         runnerVars, RunnerSteps, EnsureFails, MarkDisabled, WriteStopped,
         Abandon, TaskEnds, TaskDone, TaskFailed, Reconfigure, ClaimAges,
         BackoffElapses, LeaveOk, LeaveErr
<1> QED
  BY <1>1, <1>2, <1>3, <1>4, <1>6, <1>7, <1>8

\* So is what the retry endpoint is about to write.
LEMMA SnapshotSource ==
    ASSUME TransTypeOK, [Next]_vars, retry'.at = "read"
    PROVE  ReadSnapshot \/ retry' = retry
<1>1. CASE AskRetry \/ WriteSnapshot \/ StartRetry \/ RetryLost
  <2>1. PICK a \in {"none", "asked", "start"} : retry' = [NoRetry EXCEPT !.at = a]
    BY <1>1 DEF AskRetry, WriteSnapshot, StartRetry, RetryLost, NoRetry
  <2> QED
    BY <2>1 DEF NoRetry
<1>3. CASE PickChunks \/ ResetPicked
  BY <1>3 DEF PickChunks, ResetPicked, TransTypeOK
<1>2. CASE UNCHANGED retry
  BY <1>2
<1> QED
  BY <1>1, <1>2, <1>3, ZenonT(60)
     DEF Next, ParserSteps, RetrySteps, Runners, MarkParsing, ParseFails, PersistChunks,
         StartTranslation, DeleteFile, vars, RunnerSteps, EnsureSession,
         EnsureFails, TakeLock, StopForMismatch, MarkDisabled, Initialize,
         ResetStaleOfSession, SelectChunk, RoundEnds, ClaimChunk, Join,
         ReadAggregate, WriteAggregate, WriteStopped, Abandon, TaskEnds, TaskDone,
         TaskFailed, Reconfigure, TakeJob, PollSteps, FindStale, ResetStaleOfFile,
         FindDue, ClaimAges, BackoffElapses

\* Every step keeps ViewsTrue.
LEMMA ViewsStep ==
    ASSUME TransInv, [Next]_vars
    PROVE  ViewsTrue'
<1> USE DEF TransInv
<1>a. /\ file.key \in Nat /\ file.rows \in Nat /\ file.rows <= file.key
      /\ \A r \in Runners : session[r] <= file.key /\ session[r] \in Nat
      /\ retry.rows <= file.key /\ retry.rows \in Nat
  <2>1. /\ file \in File /\ session \in [Runners -> Keys] /\ retry.rows \in Keys
    BY DEF TransTypeOK
  <2>2. \A k \in Keys : k \in Nat
    BY DEF Keys
  <2> QED
    BY <2>1, <2>2 DEF File, KeysKnown
<1>0. /\ file'.key >= file.key /\ file.key \in Nat /\ file.rows \in Nat
      /\ PersistChunks => file'.rows = file.key + 1 /\ file'.key = file.key + 1
      /\ ~PersistChunks => file'.rows = file.rows
      /\ file'.key \in Nat /\ file.rows <= file.key
  <2>1. /\ file'.key \in Keys /\ file'.key >= file.key
        /\ \/ file'.rows = file.rows /\ ~PersistChunks
           \/ /\ PersistChunks /\ file'.rows = file.key + 1
              /\ file'.key = file.key + 1
    BY KeysStep
  <2> QED
    BY <1>a, <2>1 DEF Keys
<1>1. ASSUME NEW r \in Runners, pc'[r] \in {"write", "stopWrite"},
             session'[r] = file'.key, view'[r].shown = "done"
      PROVE  AllDone'
  <2>1. CASE ReadAggregate(r)
    <3>1. view'[r] = Aggregate /\ chunk' = chunk
      BY <2>1 DEF ReadAggregate, TransTypeOK
    <3> QED
      BY <1>1, <3>1, AggregateFacts DEF AllDone
  <2>2. CASE /\ pc'[r] = pc[r] /\ session'[r] = session[r] /\ view'[r] = view[r]
    <3>1. session[r] = file.key /\ file'.key = file.key
      BY <1>a, <1>0, <1>1, <2>2
    <3>2. ~PersistChunks
      BY <1>0, <3>1
    <3>3. AllDone
      BY <1>1, <2>2, <3>1 DEF ViewsTrue
    <3> QED
      BY <3>2, <3>3, AllDoneStays
  <2> QED
    BY <1>1, <2>1, <2>2, ViewSource
<1>2. ASSUME retry'.at = "read", retry'.rows = file'.rows,
             retry'.view.shown = "done"
      PROVE  AllDone'
  <2>1. CASE ReadSnapshot
    <3>1. retry'.view = Aggregate /\ chunk' = chunk
      BY <2>1 DEF ReadSnapshot, TransTypeOK
    <3> QED
      BY <1>2, <3>1, AggregateFacts DEF AllDone
  <2>2. CASE retry' = retry
    <3>1. retry.rows <= file.key /\ retry.rows \in Nat
      BY <1>a
    <3>2. ~PersistChunks /\ retry.rows = file.rows
      BY <1>0, <1>2, <2>2, <3>1
    <3>3. AllDone
      BY <1>2, <2>2, <3>2 DEF ViewsTrue
    <3> QED
      BY <3>2, <3>3, AllDoneStays
  <2> QED
    BY <1>2, <2>1, <2>2, SnapshotSource
<1> QED
  BY <1>1, <1>2 DEF ViewsTrue

\* How the file comes to show `done': it did, or somebody writes it who knows.
LEMMA ShownSource ==
    ASSUME TransInv, [Next]_vars, file'.agg.shown = "done", ~crossed'
    PROVE  AllDone /\ ~PersistChunks
<1>0. file \in File /\ TransTypeOK /\ ViewsTrue /\ ShownTrue
  BY DEF TransInv, TransTypeOK
<1>7. ~PersistChunks
  <2>1. PersistChunks => file'.agg = NoView
    BY <1>0 DEF PersistChunks, File
  <2> QED
    BY <2>1 DEF NoView
<1> SUFFICES AllDone
  BY <1>7
<1>1. ASSUME file'.agg.shown = file.agg.shown, crossed' = crossed
      PROVE  AllDone
  BY <1>0, <1>1 DEF ShownTrue
<1>2. ASSUME NEW r \in Runners, WriteAggregate(r) \/ WriteStopped(r)
      PROVE  AllDone
  <2>1. CASE file.key = session[r]
    <3>1. file'.agg = view[r] /\ pc[r] \in {"write", "stopWrite"}
      BY <1>0, <1>2, <2>1 DEF WriteAggregate, WriteStopped, WriteView, File
    <3> QED
      BY <1>0, <2>1, <3>1 DEF ViewsTrue
  <2>2. CASE file.key # session[r]
    <3>1. file' = file /\ ~crossed
      BY <1>2, <2>2 DEF WriteAggregate, WriteStopped, WriteView
    <3> QED
      BY <1>0, <3>1 DEF ShownTrue
  <2> QED
    BY <2>1, <2>2
<1>3. ASSUME NEW r \in Runners, MarkDisabled(r)
      PROVE  AllDone
  <2>1. file.key # session[r]
    BY <1>0, <1>3 DEF MarkDisabled, File
  <2>2. file' = file /\ ~crossed
    BY <1>3, <2>1 DEF MarkDisabled
  <2> QED
    BY <1>0, <2>2 DEF ShownTrue
<1>4. ASSUME NEW r \in Runners, Initialize(r)
      PROVE  AllDone
  <2>1. CASE file' = file
    BY <1>0, <1>4, <2>1 DEF Initialize, ShownTrue
  <2>2. CASE file' # file
    <3>1. CountOf("none") = NChunks
      BY <1>0, <1>4, <2>2 DEF Initialize, File, View
    <3> DEFINE S == {c \in Chunks : chunk[c].status = "none"}
    <3>2. S \in SUBSET Chunks /\ Cardinality(S) = NChunks
      BY <3>1 DEF CountOf
    <3>3. S = Chunks
      BY <3>2, CountFacts
    <3> QED
      BY <3>3 DEF AllDone
  <2> QED
    BY <2>1, <2>2
<1>5. CASE WriteSnapshot
  <2>1. CASE file.deleted
    BY <1>0, <1>1, <1>5, <2>1 DEF WriteSnapshot
  <2>2. CASE ~file.deleted
    <3>1. file'.agg = retry.view /\ retry.rows = file.rows /\ retry.at = "read"
      BY <1>0, <1>5, <2>2 DEF WriteSnapshot, File
    <3> QED
      BY <1>0, <3>1 DEF ViewsTrue
  <2> QED
    BY <2>1, <2>2
<1>6. CASE MarkParsing \/ ParseFails \/ DeleteFile
  BY <1>0, <1>1, <1>6 DEF MarkParsing, ParseFails, DeleteFile, File
<1>8. ASSUME NEW r \in Runners, TakeLock(r)
      PROVE  AllDone
  BY <1>0, <1>1, <1>8 DEF TakeLock, File
<1>9. CASE UNCHANGED <<file, crossed>>
  BY <1>1, <1>9
<1> QED
  BY <1>2, <1>3, <1>4, <1>5, <1>6, <1>7, <1>8, <1>9, ZenonT(60)
     DEF Next, ParserSteps, RetrySteps, Runners, StartTranslation, AskRetry,
         RetryLost, PickChunks, ResetPicked, ReadSnapshot, StartRetry, vars,
         RunnerSteps, EnsureSession, EnsureFails, StopForMismatch,
         ResetStaleOfSession, SelectChunk, RoundEnds, ClaimChunk, Join,
         ReadAggregate, Abandon, TaskEnds, TaskDone, TaskFailed, Reconfigure,
         TakeJob, PollSteps, FindStale, ResetStaleOfFile, FindDue, ClaimAges,
         BackoffElapses

-----------------------------------------------------------------------------
(* The theorems *)

\* Before the first parse there are no chunks and no sessions.
LEMMA TransInit == Init => TransInv
<1> SUFFICES ASSUME Init
             PROVE  TransInv
  OBVIOUS
<1>1. TransTypeOK
  <2>1. file \in File
    BY InitialValues DEF Init, File
  <2>2. chunk \in [Chunks -> Chunk]
    BY NewRows DEF Init, RowOK
  <2>3. retry \in [at : {"none", "asked", "picked", "reset", "read", "start"},
                   chunks : SUBSET Chunks, rows : Keys, any : BOOLEAN, view : View]
    BY InitialValues DEF Init, NoRetry
  <2>4. /\ pc \in [Runners -> Places] /\ config \in [Runners -> Providers]
        /\ session \in [Runners -> Keys] /\ spawned \in [Runners -> 0 .. Concurrency]
        /\ view \in [Runners -> View]
        /\ picked \in [Runners -> [chunk : {0} \cup Chunks, retries : 0 .. MaxRetries]]
    BY InitialValues, TranslationAssumption DEF Init, Places
  <2>5. /\ job \in {"none", "queued", "held"} /\ owed \in BOOLEAN
        /\ tasks \subseteq Task /\ events \in 0 .. EventLimit
        /\ detached \subseteq Chunks /\ crossed \in BOOLEAN
    <3>1. 0 \in 0 .. EventLimit
      BY TranslationAssumption
    <3> QED
      BY <3>1 DEF Init
  <2> QED
    BY <2>1, <2>2, <2>3, <2>4, <2>5 DEF TransTypeOK
<1>2. KeysKnown /\ ClaimReady
  BY DEF Init, KeysKnown, ClaimReady, NoRetry
<1>3. ChunkRecoverable /\ RowsClean
  BY DEF Init, ChunkRecoverable, RowsClean, NoChunk
<1>4. CurrentIsPresent /\ TaskHolds
  BY DEF Init, CurrentIsPresent, TaskHolds, Present
<1>5. ViewsTrue /\ ShownTrue
  BY DEF Init, ViewsTrue, ShownTrue, NoRetry, NoView
<1> QED
  BY <1>1, <1>2, <1>3, <1>4, <1>5 DEF TransInv

\* Every step keeps TransInv.
LEMMA TransStep ==
    ASSUME TransInv, [Next]_vars
    PROVE  TransInv'
<1>0. /\ TransTypeOK /\ KeysKnown /\ ClaimReady /\ ChunkRecoverable
      /\ RowsClean /\ CurrentIsPresent /\ TaskHolds
  BY DEF TransInv
<1>1. /\ (chunk \in [Chunks -> Chunk])' /\ ChunkRecoverable' /\ RowsClean'
      /\ RunnerOK' /\ RetryOK' /\ TasksOK'
  BY <1>0, RowsStep, RunnersStep, RetryKeeps, TasksKeep
<1>2. /\ file' \in File /\ events' \in 0 .. EventLimit
      /\ file'.key + (IF file'.parsed THEN 0 ELSE 1) <= 2 * events' + 1
      /\ file'.rows <= file'.key
  BY <1>0, FileKeeps, KeysStep
<1>3. TransTypeOK'
  BY <1>0, <1>1, <1>2, FlagsKeep DEF TransTypeOK, RunnerOK, RetryOK, TasksOK
<1>4. KeysKnown' /\ ClaimReady' /\ CurrentIsPresent'
  <2>1. \A t \in tasks' : t.rows <= file'.key
    BY <1>1 DEF TasksOK
  <2> QED
    BY <1>1, <1>2, <2>1 DEF KeysKnown, RunnerOK, RetryOK, TasksOK
<1>5. TaskHolds'
  BY <1>0, HoldsStep
<1>6. ViewsTrue'
  BY ViewsStep
<1>7. ShownTrue'
  <2> SUFFICES ASSUME file'.agg.shown = "done", ~crossed'
               PROVE  AllDone'
    BY DEF ShownTrue
  <2> QED
    BY <1>0, ShownSource, AllDoneStays
<1> QED
  BY <1>1, <1>3, <1>4, <1>5, <1>6, <1>7 DEF TransInv

\* TransInv holds in every reachable state.
THEOREM TransInvariance == Spec => []TransInv
  BY TransInit, TransStep, PTL DEF Spec

\* Every variable keeps its type, whatever parses, retries, lost sessions and
\* restarts happen.
THEOREM TransTypeCorrect == Spec => []TransTypeOK
  BY TransInvariance, PTL DEF TransInv

\* However many sessions of workers and pollers run on a file, one task at a
\* time sends a chunk to the provider (claim_next_due_chunk).
THEOREM OneTranslator == Spec => []SoleTranslator
<1>1. ASSUME TransInv
      PROVE  SoleTranslator
  <2> SUFFICES ASSUME NEW c \in Chunks \ detached
               PROVE  Cardinality(Present(c)) <= 1
    BY DEF SoleTranslator, Present
  <2>1. CASE Present(c) = {}
    BY <2>1, FS_EmptySet
  <2>2. CASE Present(c) # {}
    <3>1. PICK t : t \in Present(c)
      BY <2>2
    <3>2. Present(c) = {t}
      BY <1>1, <3>1 DEF TransInv, TaskHolds
    <3>3. Cardinality({t}) = 1
      BY FS_Singleton
    <3> QED
      BY <3>2, <3>3
  <2> QED
    BY <2>1, <2>2
<1> QED
  BY <1>1, TransInvariance, PTL

\* A file that shows `done' has every one of its chunks translated, from the
\* present parse (refresh_file_translation_aggregate_for_session).
THEOREM ShownIsTranslated == Spec => []DoneMeansTranslated
<1>1. TransInv => DoneMeansTranslated
  BY DEF TransInv, ShownTrue, AllDone, RowsClean, DoneMeansTranslated
<1> QED
  BY <1>1, TransInvariance, PTL

\* No chunk is stranded in a status that no query looks for.
THEOREM NoChunkStranded == Spec => []ChunkRecoverable
  BY TransInvariance, PTL DEF TransInv

\* A finished translation stays until the next parse.
THEOREM TranslationsStay == Spec => DoneStays
<1>1. ASSUME TransInv, [Next]_vars, file'.rows = file.rows,
             NEW c \in Chunks, chunk[c].status = "done"
      PROVE  chunk'[c].status = "done"
  <2>1. ~PersistChunks
    <3>1. file.rows \in Nat /\ file.key \in Nat /\ file.rows <= file.key
      <4>1. file \in File /\ file.rows <= file.key
        BY <1>1 DEF TransInv, TransTypeOK, KeysKnown
      <4> QED
        BY <4>1 DEF File, Keys
    <3>2. (file'.rows = file.rows /\ ~PersistChunks) \/ file'.rows = file.key + 1
      BY <1>1, KeysStep DEF TransInv
    <3> QED
      BY <1>1, <3>1, <3>2
  <2>2. chunk'[c] # chunk[c] => RowChange(c)
    BY <1>1, <2>1, RowStep DEF TransInv
  <2>3. RowOK(chunk[c])
    BY <1>1, RowsOK DEF TransInv
  <2> QED
    BY <1>1, <2>2, <2>3, RowOutcome DEF TransInv
<1>2. TransInv /\ [Next]_vars =>
        [file'.rows = file.rows =>
            \A c \in Chunks : chunk[c].status = "done" => chunk'[c].status = "done"]_vars
  BY <1>1
<1> QED
  BY <1>2, TransInvariance, PTL DEF Spec, DoneStays
=============================================================================
