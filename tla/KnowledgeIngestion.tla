-------------------------- MODULE KnowledgeIngestion --------------------------
(***************************************************************************)
(* Asynchronous ingestion of knowledge PDFs: the upload request (object    *)
(* store, then row, then job), the Redis list of jobs, the worker          *)
(* processes with their claim, their atomic replacement of the chunks and  *)
(* their retry bookkeeping, and the cascade that removes a bot's rows.     *)
(*                                                                         *)
(* One action is one step that other processes can see: a committed        *)
(* database transaction, one Redis command or one object store call.  A    *)
(* file stands for the one upload request (or seeded template) that        *)
(* creates it, since its identifier is a fresh uuid4.                      *)
(***************************************************************************)
EXTENDS Naturals, Sequences, FiniteSets

CONSTANTS
  Files,           \* identifiers of knowledge files
  Bots,            \* bots
  Workers,         \* worker processes
  BotOf,           \* the bot each file is uploaded to
  NoFile,          \* what an idle worker holds
  MaxAttempts,     \* settings.knowledge_ingestion_max_attempts
  MaxFiles,        \* settings.knowledge_max_files_per_bot, or the plan's pdf_files_max
  FaultKinds,      \* the faults that may happen, among AllFaults
  MaxResends       \* bound: LPUSH commands the Redis client may send twice

AllFaults == {"crash", "exception", "enqueue", "database"}

ASSUME IngestionAssumption ==
  /\ BotOf \in [Files -> Bots]
  /\ NoFile \notin Files
  /\ MaxAttempts \in Nat \ {0}
  /\ MaxFiles \in Nat \ {0}
  /\ FaultKinds \subseteq AllFaults
  /\ MaxResends \in Nat

VARIABLES
  bot,             \* life of each bot
  upload,          \* where each upload request stands
  status,          \* knowledge_files.processing_status, "none" without a row
  failures,        \* knowledge_files.ingestion_failure_count
  chunks,          \* the files that have rows in knowledge_chunks
  blobs,           \* the files whose bytes are in the object store
  queue,           \* the Redis list, next job first
  pc,              \* where each worker stands in its loop
  job,             \* the file each worker took from the queue
  runs,            \* history: processing runs started for each file
  lost,            \* history: files whose job a fault dropped
  resent           \* history: LPUSH commands that reached Redis twice

dbVars     == <<status, failures, chunks>>
workerVars == <<pc, job>>
history    == <<runs, lost, resent>>
vars == <<bot, upload, dbVars, blobs, queue, workerVars, history>>

BotStates    == {"none", "live", "deleted"}
UploadStates == {"none", "admitted", "stored", "committed", "done"}
Statuses     == {"none", "uploaded", "processing", "failed", "ready", "dead_letter"}
Running      == {"claimed", "extracted"}             \* inside process_file
Holding      == {"popped", "failed", "retry"} \cup Running
WorkerStates == {"idle", "down"} \cup Holding

TypeOK ==
  /\ bot \in [Bots -> BotStates]
  /\ upload \in [Files -> UploadStates]
  /\ status \in [Files -> Statuses]
  /\ failures \in [Files -> Nat]
  /\ chunks \in SUBSET Files
  /\ blobs \in SUBSET Files
  /\ queue \in Seq(Files)
  /\ pc \in [Workers -> WorkerStates]
  /\ job \in [Workers -> Files \cup {NoFile}]
  /\ \A w \in Workers : pc[w] \in Holding <=> job[w] # NoFile
  /\ runs \in [Files -> Nat]
  /\ lost \in SUBSET Files
  /\ resent \in Nat

Init ==
  /\ bot = [b \in Bots |-> "none"]
  /\ upload = [f \in Files |-> "none"]
  /\ status = [f \in Files |-> "none"]
  /\ failures = [f \in Files |-> 0]
  /\ chunks = {}
  /\ blobs = {}
  /\ queue = <<>>
  /\ pc = [w \in Workers |-> "idle"]
  /\ job = [w \in Workers |-> NoFile]
  /\ runs = [f \in Files |-> 0]
  /\ lost = {}
  /\ resent = 0

FilesOf(b) == {f \in Files : BotOf[f] = b}
RowsOf(b)  == {f \in FilesOf(b) : status[f] # "none"}

-----------------------------------------------------------------------------
(* The Redis list *)

\* LPUSH one job.  The client library may send the command again when the
\* connection drops before the reply, and then the job is there twice.
Push(f) ==
  \/ queue' = Append(queue, f) /\ UNCHANGED resent
  \/ /\ resent < MaxResends
     /\ queue' = queue \o <<f, f>>
     /\ resent' = resent + 1

\* A push that raises: the command may or may not have reached Redis.
PushRaises(f) ==
  /\ "enqueue" \in FaultKinds
  /\ queue' \in {queue, Append(queue, f)}
  /\ lost' = lost \cup {f}
  /\ UNCHANGED <<runs, resent>>

-----------------------------------------------------------------------------
(* Bots, their templates and their removal *)

\* A bot is created with at most one template file, ready from the start.
CreateBot(b, T) ==
  /\ bot[b] = "none"
  /\ T \subseteq {f \in FilesOf(b) : upload[f] = "none"}
  /\ \A f, g \in T : f = g
  /\ bot' = [bot EXCEPT ![b] = "live"]
  /\ upload' = [f \in Files |-> IF f \in T THEN "done" ELSE upload[f]]
  /\ status' = [f \in Files |-> IF f \in T THEN "ready" ELSE status[f]]
  /\ chunks' = chunks \cup T
  /\ UNCHANGED <<failures, blobs, queue, workerVars, history>>

\* Rows and chunks go with the bot; objects, jobs and running workers stay.
DeleteBot(b) ==
  /\ bot[b] = "live"
  /\ bot' = [bot EXCEPT ![b] = "deleted"]
  /\ status' = [f \in Files |-> IF f \in FilesOf(b) THEN "none" ELSE status[f]]
  /\ failures' = [f \in Files |-> IF f \in FilesOf(b) THEN 0 ELSE failures[f]]
  /\ chunks' = chunks \ FilesOf(b)
  /\ UNCHANGED <<upload, blobs, queue, workerVars, history>>

-----------------------------------------------------------------------------
(* The upload request *)

UploadStep(f, from, to) ==
  /\ upload[f] = from
  /\ upload' = [upload EXCEPT ![f] = to]

\* The bot exists and is below its file limit: the count is read here and
\* nothing is locked until the row is inserted.
AdmitUpload(f) ==
  /\ bot[BotOf[f]] = "live"
  /\ Cardinality(RowsOf(BotOf[f])) < MaxFiles
  /\ UploadStep(f, "none", "admitted")
  /\ UNCHANGED <<bot, dbVars, blobs, queue, workerVars, history>>

StoreBlob(f) ==
  /\ UploadStep(f, "admitted", "stored")
  /\ blobs' = blobs \cup {f}
  /\ UNCHANGED <<bot, dbVars, queue, workerVars, history>>

StoreFails(f) ==
  /\ UploadStep(f, "admitted", "done")
  /\ UNCHANGED <<bot, dbVars, blobs, queue, workerVars, history>>

\* Mutant of InsertRow: the object store is not waited for.
InsertRowFirst(f) ==
  /\ bot[BotOf[f]] = "live"
  /\ upload[f] \in {"admitted", "stored"}
  /\ upload' = [upload EXCEPT ![f] = "committed"]
  /\ status' = [status EXCEPT ![f] = "uploaded"]
  /\ failures' = [failures EXCEPT ![f] = 0]
  /\ UNCHANGED <<bot, chunks, blobs, queue, workerVars, history>>

InsertRow(f) ==
  /\ bot[BotOf[f]] = "live"
  /\ UploadStep(f, "stored", "committed")
  /\ status' = [status EXCEPT ![f] = "uploaded"]
  /\ failures' = [failures EXCEPT ![f] = 0]
  /\ UNCHANGED <<bot, chunks, blobs, queue, workerVars, history>>

\* The insert violates the foreign key to the bot, or the database fails: the
\* object is deleted, unless that fails too.
InsertFails(f) ==
  /\ bot[BotOf[f]] # "live" \/ "database" \in FaultKinds
  /\ UploadStep(f, "stored", "done")
  /\ blobs' \in {blobs, blobs \ {f}}
  /\ UNCHANGED <<bot, dbVars, queue, workerVars, history>>

Schedule(f) ==
  /\ UploadStep(f, "committed", "done")
  /\ Push(f)
  /\ UNCHANGED <<bot, dbVars, blobs, workerVars, runs, lost>>

\* Redis is missing or raises: the upload succeeds all the same.
ScheduleFails(f) ==
  /\ UploadStep(f, "committed", "done")
  /\ PushRaises(f)
  /\ UNCHANGED <<bot, dbVars, blobs, workerVars>>

\* The API process stops in the middle of the request.
ApiCrash(f) ==
  /\ "crash" \in FaultKinds
  /\ upload[f] \in {"admitted", "stored", "committed"}
  /\ upload' = [upload EXCEPT ![f] = "done"]
  /\ lost' = IF upload[f] = "committed" THEN lost \cup {f} ELSE lost
  /\ UNCHANGED <<bot, dbVars, blobs, queue, workerVars, runs, resent>>

-----------------------------------------------------------------------------
(* The worker *)

At(w, stage)      == pc[w] = stage
Goto(w, stage)    == pc' = [pc EXCEPT ![w] = stage] /\ UNCHANGED job
Leave(w, stage)   == /\ pc' = [pc EXCEPT ![w] = stage]
                     /\ job' = [job EXCEPT ![w] = NoFile]

\* BRPOP: the job is in no place but this worker's memory from here on.
Pop(w) ==
  /\ At(w, "idle")
  /\ queue # <<>>
  /\ queue' = Tail(queue)
  /\ pc' = [pc EXCEPT ![w] = "popped"]
  /\ job' = [job EXCEPT ![w] = Head(queue)]
  /\ UNCHANGED <<bot, upload, dbVars, blobs, history>>

\* Mutants of Claimable: a stuck row is taken over; a failed row is not retried.
ClaimableStuck == {"uploaded", "failed", "processing"}
ClaimableFresh == {"uploaded"}

Claimable == {"uploaded", "failed"}

\* UPDATE ... WHERE status IN ('uploaded','failed'), committed at once.
Claim(w) ==
  /\ At(w, "popped")
  /\ status[job[w]] \in Claimable
  /\ status' = [status EXCEPT ![job[w]] = "processing"]
  /\ runs' = [runs EXCEPT ![job[w]] = @ + 1]
  /\ Goto(w, "claimed")
  /\ UNCHANGED <<bot, upload, failures, chunks, blobs, queue, lost, resent>>

\* The row is gone, in another worker's hands, or settled: the job is dropped.
Skip(w) ==
  /\ At(w, "popped")
  /\ status[job[w]] \notin Claimable
  /\ Leave(w, "idle")
  /\ UNCHANGED <<bot, upload, dbVars, blobs, queue, history>>

\* The object is read, the text extracted and cut into chunks, in memory.
Extract(w) ==
  /\ At(w, "claimed")
  /\ job[w] \in blobs
  /\ Goto(w, "extracted")
  /\ UNCHANGED <<bot, upload, dbVars, blobs, queue, history>>

\* Mutant of MarkFailed: an upsert instead of an UPDATE.
MarkFailedUpsert(f) == [status EXCEPT ![f] = "failed"]

MarkFailed(f) == IF status[f] = "none" THEN status ELSE [status EXCEPT ![f] = "failed"]

\* No storage, a bad object, an unreadable PDF, or a transaction rolled back
\* while the chunks were replaced: the row, if it is still there, is failed.
FailRun(w) ==
  /\ pc[w] \in Running
  /\ status' = MarkFailed(job[w])
  /\ Goto(w, "failed")
  /\ UNCHANGED <<bot, upload, failures, chunks, blobs, queue, history>>

\* One transaction deletes the old chunks, inserts the new ones and marks the
\* row ready.  Without a row only a document without text gets through.
Persist(w) ==
  /\ At(w, "extracted")
  /\ \E text \in SUBSET {job[w]} :
       /\ status[job[w]] = "none" => text = {}
       /\ chunks' = (chunks \ {job[w]}) \cup text
  /\ IF status[job[w]] = "none"
     THEN UNCHANGED <<status, failures>>
     ELSE /\ status' = [status EXCEPT ![job[w]] = "ready"]
          /\ failures' = [failures EXCEPT ![job[w]] = 0]
  /\ Leave(w, "idle")
  /\ UNCHANGED <<bot, upload, blobs, queue, history>>

\* Mutant of MarkDeadLetter: the status is not compared.
MarkDeadLetterAlways(f) == [status EXCEPT ![f] = "dead_letter"]

MarkDeadLetter(f) ==
  IF status[f] = "failed" THEN [status EXCEPT ![f] = "dead_letter"] ELSE status

\* Mutant: one attempt more.
GivesUpLate(n) == n > MaxAttempts

GivesUp(n) == n >= MaxAttempts

\* Bookkeeping of a failed run, in a transaction of its own: count it, and at
\* the limit give the file up unless its status moved on meanwhile.
Record(w) ==
  LET f == job[w]
      n == failures[f] + 1
  IN /\ At(w, "failed")
     /\ \/ /\ status[f] = "none"
           /\ UNCHANGED <<status, failures>>
           /\ Leave(w, "idle")
        \/ /\ status[f] # "none" /\ GivesUp(n)
           /\ failures' = [failures EXCEPT ![f] = n]
           /\ status' = MarkDeadLetter(f)
           /\ Leave(w, "idle")
        \/ /\ status[f] # "none" /\ ~GivesUp(n)
           /\ failures' = [failures EXCEPT ![f] = n]
           /\ UNCHANGED status
           /\ Goto(w, "retry")
     /\ UNCHANGED <<bot, upload, chunks, blobs, queue, history>>

\* The retry is queued after the count was committed.
Requeue(w) ==
  /\ At(w, "retry")
  /\ Push(job[w])
  /\ Leave(w, "idle")
  /\ UNCHANGED <<bot, upload, dbVars, blobs, runs, lost>>

RequeueFails(w) ==
  /\ At(w, "retry")
  /\ PushRaises(job[w])
  /\ Leave(w, "idle")
  /\ UNCHANGED <<bot, upload, dbVars, blobs>>

\* Any other exception is logged by the loop, which goes on to the next job.
\* A transaction that was open is rolled back.
Abandon(w) ==
  /\ "exception" \in FaultKinds
  /\ pc[w] \in Holding
  /\ lost' = lost \cup {job[w]}
  /\ Leave(w, "idle")
  /\ UNCHANGED <<bot, upload, dbVars, blobs, queue, runs, resent>>

\* The process dies, or BRPOP itself raises, which the loop does not catch.
Crash(w) ==
  /\ "crash" \in FaultKinds
  /\ pc[w] # "down"
  /\ lost' = IF pc[w] \in Holding THEN lost \cup {job[w]} ELSE lost
  /\ Leave(w, "down")
  /\ UNCHANGED <<bot, upload, dbVars, blobs, queue, runs, resent>>

Restart(w) ==
  /\ At(w, "down")
  /\ Goto(w, "idle")
  /\ UNCHANGED <<bot, upload, dbVars, blobs, queue, history>>

-----------------------------------------------------------------------------
UploadOf(f) ==
  \/ AdmitUpload(f) \/ StoreBlob(f) \/ StoreFails(f) \/ InsertRow(f) \/ InsertFails(f)
  \/ Schedule(f) \/ ScheduleFails(f) \/ ApiCrash(f)

\* What the loop does with the job it holds.
HandleJob(w) ==
  \/ Claim(w) \/ Skip(w) \/ Extract(w) \/ FailRun(w) \/ Persist(w)
  \/ Record(w) \/ Requeue(w) \/ RequeueFails(w)

WorkerOf(w) == Pop(w) \/ HandleJob(w) \/ Abandon(w) \/ Crash(w) \/ Restart(w)

Next ==
  \/ \E b \in Bots, T \in SUBSET Files : CreateBot(b, T)
  \/ \E b \in Bots : DeleteBot(b)
  \/ \E f \in Files : UploadOf(f)
  \/ \E w \in Workers : WorkerOf(w)

Spec == Init /\ [][Next]_vars

\* A request that committed its row goes on to schedule it, a worker keeps
\* popping while there are jobs, and finishes the job it holds.
Fairness ==
  /\ \A f \in Files : WF_vars(Schedule(f))
  /\ \A w \in Workers : WF_vars(Pop(w)) /\ WF_vars(HandleJob(w))

FairSpec == Spec /\ Fairness

-----------------------------------------------------------------------------
(* Properties *)

Queued == {queue[i] : i \in DOMAIN queue}
Held   == {job[w] : w \in {v \in Workers : pc[v] \in Holding}}
InHand == Queued \cup Held

\* At most one worker is inside process_file for a file, and while it is, the
\* row says so or was deleted.  This is what the conditional UPDATE of
\* try_claim_for_processing has to give, with duplicate jobs about.
ClaimExclusive ==
  /\ \A w1, w2 \in Workers :
       pc[w1] \in Running /\ pc[w2] \in Running /\ job[w1] = job[w2] => w1 = w2
  /\ \A w \in Workers : pc[w] \in Running => status[job[w]] \in {"processing", "none"}

\* Chunk rows exist only under a row that is ready: a retrieval that joins on
\* the status, or a listing that does not, never sees half a document, the
\* chunks of a failed run, or chunks of a bot that is gone.
ChunksOnlyWhenReady == \A f \in chunks : status[f] = "ready"

\* Whoever holds a job finds the object: it was stored before the row was
\* committed, the row before the job was pushed, and the clean-up of a failed
\* insert never deletes an object that a job refers to.
JobHasBlob == InHand \subseteq blobs

\* Row, object, job and chunks live in three stores and agree, whatever fails.
StoresAgree == ChunksOnlyWhenReady /\ JobHasBlob

\* A file that still has work to do is never just forgotten: it is queued, in
\* the hands of a worker or about to be scheduled, or a recorded fault dropped
\* its job.  One failed run that did not lead to a retry would break this.
NoSilentStall ==
  \A f \in Files :
    status[f] \in {"uploaded", "processing", "failed"} =>
      f \in InHand \cup lost \/ upload[f] = "committed"

\* Failures are counted one by one: a file is run at most MaxAttempts times,
\* plus once for each job that reached the queue twice, whatever crashes.
RunsBounded == \A f \in Files : runs[f] <= MaxAttempts + resent

\* ready and dead_letter are final until the bot is deleted: a late failure of
\* another run, or its bookkeeping, changes neither.
Settled == {"ready", "dead_letter"}
SettledIsFinal ==
  [][\A f \in Files : status[f] \in Settled => status'[f] \in {status[f], "none"}]_vars

\* Every uploaded file is settled in the end or deleted: no retry is forgotten
\* and no queue discipline starves it, unless a fault dropped a job of it, so
\* long as one worker stays up in the end.
EventuallySettled ==
  (\E w \in Workers : <>[](pc[w] # "down")) =>
    \A f \in Files : (status[f] = "uploaded") ~> (status[f] \in Settled \cup {"none"} \/ f \in lost)

\* The inductive strengthening that the proofs use.
RowFollowsRequest == \A f \in Files : status[f] # "none" => upload[f] \in {"committed", "done"}
BlobFollowsRequest == \A f \in Files : upload[f] \in {"stored", "committed"} => f \in blobs
JobFollowsRequest == \A f \in InHand : upload[f] = "done"
ProcessingIsRun ==
  \A f \in Files : status[f] = "processing" =>
    f \in lost \/ \E w \in Workers : pc[w] \in Running /\ job[w] = f
FailedRunHasRun == \A w \in Workers : pc[w] \in {"failed", "retry"} => status[job[w]] # "uploaded"

IngestionInv ==
  /\ RowFollowsRequest
  /\ BlobFollowsRequest
  /\ JobFollowsRequest
  /\ ProcessingIsRun
  /\ FailedRunHasRun
  /\ ClaimExclusive
  /\ ChunksOnlyWhenReady
  /\ JobHasBlob
  /\ NoSilentStall

\* The inductive strengthening of RunsBounded: every job of a file that can still start a
\* run, and every run that was started, is its first job, a retry of a counted failure or
\* a job that reached the queue twice.
Places(q, f) == {i \in DOMAIN q : q[i] = f}
Waiting(at, holds, f) == {w \in Workers : at[w] \in {"popped", "retry"} /\ holds[w] = f}
ToSchedule(f) == IF upload[f] = "done" THEN 0 ELSE 1
Jobs(f) == Cardinality(Places(queue, f)) + Cardinality(Waiting(pc, job, f)) + ToSchedule(f)
Retries(f) == IF failures[f] < MaxAttempts THEN failures[f] ELSE MaxAttempts - 1
Unsettled == {"uploaded", "processing", "failed"}

RunsInv ==
  /\ RunsBounded
  /\ \A f \in Files : upload[f] # "done" => runs[f] = 0
  /\ \A f \in Files : status[f] \in Unsettled => runs[f] + Jobs(f) <= 1 + resent + Retries(f)

\* The lifecycle a file is promised, read off the row and the upload request.
LifecycleState(f) ==
  CASE status[f] = "uploaded"    -> "pending"
    [] status[f] = "processing"  -> "working"
    [] status[f] = "failed"      -> "failed"
    [] status[f] = "ready"       -> "available"
    [] status[f] = "dead_letter" -> "abandoned"
    [] status[f] = "none"        -> IF upload[f] \in {"committed", "done"} THEN "gone" ELSE "absent"

\* The text a retrieval can return: chunks joined with ready files.
Searchable == {f \in chunks : status[f] = "ready"}

Lifecycle == INSTANCE KnowledgeFileLifecycle
               WITH state <- [f \in Files |-> LifecycleState(f)], searchable <- Searchable

\* Queue, claims, retries, duplicates, crashes and cascades together give each
\* file the simple lifecycle of KnowledgeFileLifecycle: no file is resurrected,
\* skips a stage, or is searchable before it is ready.
ImplementsLifecycle == Lifecycle!Spec

=============================================================================
