----------------------- MODULE KnowledgeIngestionProofs -----------------------
(***************************************************************************)
(* Proofs about KnowledgeIngestion for any number of files, bots, workers, *)
(* attempts, faults and duplicated jobs, and about KnowledgeText for texts *)
(* of any length and any limits.                                           *)
(***************************************************************************)
EXTENDS KnowledgeIngestion, KnowledgeText, WellFoundedInduction, SequenceTheorems, FiniteSetTheorems, TLAPS

USE IngestionAssumption

-----------------------------------------------------------------------------
(* The queue *)

\* Pushing a job, once or twice, adds that file to the queue and no other.
LEMMA PushAdds ==
  ASSUME NEW f \in Files, queue \in Seq(Files), resent \in Nat, Push(f)
  PROVE  /\ queue' \in Seq(Files)
         /\ resent' \in Nat
         /\ Queued' = Queued \cup {f}
<1>1. CASE queue' = Append(queue, f) /\ UNCHANGED resent
  BY <1>1, AppendProperties, LenProperties DEF Queued
<1>2. CASE queue' = queue \o <<f, f>> /\ resent' = resent + 1
  <2>1. <<f, f>> \in Seq(Files) /\ Len(<<f, f>>) = 2  OBVIOUS
  <2>2. /\ queue' \in Seq(Files)
        /\ Len(queue') = Len(queue) + 2
        /\ \A i \in 1 .. Len(queue) + 2 :
             queue'[i] = IF i <= Len(queue) THEN queue[i] ELSE <<f, f>>[i - Len(queue)]
    BY <1>2, <2>1, ConcatProperties
  <2>3. /\ DOMAIN queue = 1 .. Len(queue) /\ Len(queue) \in Nat
        /\ DOMAIN queue' = 1 .. Len(queue')
    BY <2>2, LenProperties
  <2>4. \A i \in DOMAIN queue' : queue'[i] = IF i <= Len(queue) THEN queue[i] ELSE f  BY <2>2, <2>3
  <2>5. Queued' \subseteq Queued \cup {f}  BY <2>3, <2>4 DEF Queued
  <2>6. Queued \subseteq Queued'  BY <2>2, <2>3, <2>4 DEF Queued
  <2>7. queue'[Len(queue) + 1] = f /\ Len(queue) + 1 \in DOMAIN queue'  BY <2>2, <2>3, <2>4
  <2>8. f \in Queued'  BY <2>7 DEF Queued
  <2>9. QED  BY <1>2, <2>2, <2>5, <2>6, <2>8
<1>3. QED BY <1>1, <1>2 DEF Push

\* A push that raises adds the file or nothing, and records the job as lost.
LEMMA PushRaisesAdds ==
  ASSUME NEW f \in Files, queue \in Seq(Files), PushRaises(f)
  PROVE  /\ queue' \in Seq(Files)
         /\ Queued' \in {Queued, Queued \cup {f}}
<1>1. CASE queue' = queue  BY <1>1 DEF Queued
<1>2. CASE queue' = Append(queue, f)  BY <1>2, AppendProperties, LenProperties, SMTT(30) DEF Queued
<1>3. QED BY <1>1, <1>2 DEF PushRaises

\* Popping takes the head out and keeps every other job.
LEMMA PopTakes ==
  ASSUME queue \in Seq(Files), queue # <<>>, queue' = Tail(queue)
  PROVE  /\ queue' \in Seq(Files)
         /\ Head(queue) \in Files
         /\ Queued = Queued' \cup {Head(queue)}
<1>1. /\ Head(queue) \in Files /\ Head(queue) = queue[1]
      /\ queue' \in Seq(Files)
      /\ Len(queue') = Len(queue) - 1
      /\ \A i \in 1 .. Len(queue') : queue'[i] = queue[i + 1]
  BY HeadTailProperties
<1>2. /\ DOMAIN queue = 1 .. Len(queue) /\ Len(queue) \in Nat \ {0}
      /\ DOMAIN queue' = 1 .. Len(queue')
  BY <1>1, LenProperties, EmptySeq
<1>3. \A i \in DOMAIN queue : i = 1 \/ (i - 1 \in DOMAIN queue' /\ queue'[i - 1] = queue[i])
  BY <1>1, <1>2
<1>4. \A i \in DOMAIN queue' : i + 1 \in DOMAIN queue  BY <1>1, <1>2
<1>5. Queued \subseteq Queued' \cup {Head(queue)}
  <2> SUFFICES ASSUME NEW i \in DOMAIN queue PROVE queue[i] \in Queued' \cup {queue[1]}
    BY <1>1 DEF Queued
  <2>1. CASE i = 1  BY <2>1
  <2>2. CASE i - 1 \in DOMAIN queue' /\ queue'[i - 1] = queue[i]  BY <2>2 DEF Queued
  <2>3. QED BY <1>3, <2>1, <2>2
<1>6. Queued' \cup {Head(queue)} \subseteq Queued  BY <1>1, <1>2, <1>4 DEF Queued
<1>7. QED BY <1>1, <1>5, <1>6

-----------------------------------------------------------------------------
(***************************************************************************)
(* The type invariant: every handler leaves every part of the state in its *)
(* declared range.                                                         *)
(***************************************************************************)
THEOREM TypeCorrect == Spec => []TypeOK
<1>1. Init => TypeOK
  BY DEF Init, TypeOK, BotStates, UploadStates, Statuses, WorkerStates, Holding, Running
<1>2. TypeOK /\ [Next]_vars => TypeOK'
  <2> SUFFICES ASSUME TypeOK, [Next]_vars PROVE TypeOK'  OBVIOUS
  <2> USE DEF TypeOK, BotStates, UploadStates, Statuses, WorkerStates, Holding, Running,
              dbVars, workerVars, history
  <2>1. ASSUME NEW b \in Bots, NEW T \in SUBSET Files, CreateBot(b, T) PROVE TypeOK'
    BY <2>1 DEF CreateBot
  <2>2. ASSUME NEW b \in Bots, DeleteBot(b) PROVE TypeOK'  BY <2>2 DEF DeleteBot
  <2>3. ASSUME NEW f \in Files, UploadOf(f) PROVE TypeOK'
    <3>1. CASE AdmitUpload(f)   BY <3>1 DEF AdmitUpload, UploadStep
    <3>2. CASE StoreBlob(f)     BY <3>2 DEF StoreBlob, UploadStep
    <3>3. CASE StoreFails(f)    BY <3>3 DEF StoreFails, UploadStep
    <3>4. CASE InsertRow(f)     BY <3>4 DEF InsertRow, UploadStep
    <3>5. CASE InsertFails(f)   BY <3>5 DEF InsertFails, UploadStep
    <3>6. CASE Schedule(f)      BY <3>6, PushAdds DEF Schedule, UploadStep
    <3>7. CASE ScheduleFails(f) BY <3>7, PushRaisesAdds DEF ScheduleFails, UploadStep, PushRaises
    <3>8. CASE ApiCrash(f)      BY <3>8 DEF ApiCrash
    <3>9. QED BY <2>3, <3>1, <3>2, <3>3, <3>4, <3>5, <3>6, <3>7, <3>8 DEF UploadOf
  <2>4. ASSUME NEW w \in Workers, WorkerOf(w) PROVE TypeOK'
    <3> USE DEF At, Goto, Leave
    <3>1. CASE Pop(w)          BY <3>1, HeadTailProperties DEF Pop
    <3>2. CASE Claim(w)        BY <3>2 DEF Claim
    <3>3. CASE Skip(w)         BY <3>3 DEF Skip
    <3>4. CASE Extract(w)      BY <3>4 DEF Extract
    <3>5. CASE FailRun(w)      BY <3>5 DEF FailRun, MarkFailed
    <3>6. CASE Persist(w)
      <4>1. /\ pc' \in [Workers -> WorkerStates]
            /\ job' \in [Workers -> Files \cup {NoFile}]
            /\ \A v \in Workers : pc'[v] \in Holding <=> job'[v] # NoFile
        BY <3>6 DEF Persist
      <4>2. status' \in [Files -> Statuses] /\ failures' \in [Files -> Nat]
        <5>1. CASE status[job[w]] = "none"  BY <3>6, <5>1 DEF Persist
        <5>2. CASE status[job[w]] # "none"
          <6>1. /\ status' = [status EXCEPT ![job[w]] = "ready"]
                /\ failures' = [failures EXCEPT ![job[w]] = 0]
            BY <3>6, <5>2 DEF Persist
          <6>2. QED BY <6>1
        <5>3. QED BY <5>1, <5>2
      <4>3. chunks' \in SUBSET Files  BY <3>6 DEF Persist
      <4>4. QED BY <3>6, <4>1, <4>2, <4>3 DEF Persist
    <3>7. CASE Record(w)
      <4>1. /\ pc' \in [Workers -> WorkerStates]
            /\ job' \in [Workers -> Files \cup {NoFile}]
            /\ \A v \in Workers : pc'[v] \in Holding <=> job'[v] # NoFile
        <5>1. CASE Leave(w, "idle")  BY <5>1
        <5>2. CASE pc[w] = "failed" /\ Goto(w, "retry")  BY <5>2
        <5>3. QED BY <3>7, <5>1, <5>2 DEF Record
      <4>2. status' \in [Files -> Statuses]  BY <3>7 DEF Record, MarkDeadLetter
      <4>3. failures' \in [Files -> Nat]  BY <3>7 DEF Record
      <4>4. QED BY <3>7, <4>1, <4>2, <4>3 DEF Record
    <3>8. CASE Requeue(w)      BY <3>8, PushAdds DEF Requeue
    <3>9. CASE RequeueFails(w) BY <3>9, PushRaisesAdds DEF RequeueFails, PushRaises
    <3>10. CASE Abandon(w)     BY <3>10 DEF Abandon
    <3>11. CASE Crash(w)       BY <3>11 DEF Crash
    <3>12. CASE Restart(w)     BY <3>12 DEF Restart
    <3>13. QED  BY <2>4, <3>1, <3>2, <3>3, <3>4, <3>5, <3>6, <3>7, <3>8, <3>9, <3>10, <3>11, <3>12
      DEF WorkerOf, HandleJob
  <2>5. Next => TypeOK'  BY <2>1, <2>2, <2>3, <2>4 DEF Next
  <2>6. UNCHANGED vars => TypeOK'  BY DEF vars
  <2>7. QED BY <2>5, <2>6
<1>3. QED BY <1>1, <1>2, PTL DEF Spec

-----------------------------------------------------------------------------
(* Jobs, in the queue or in the hands of a worker *)

\* A step of a worker that keeps its job changes nothing about who holds what.
LEMMA GotoKeepsHeld ==
  ASSUME TypeOK, NEW w \in Workers, NEW stage \in Holding,
         pc[w] \in Holding, Goto(w, stage)
  PROVE  Held' = Held
BY DEF TypeOK, Goto, Held

\* A worker that lets go of its job gives up that file at most, and gets none.
LEMMA LeaveDrops ==
  ASSUME TypeOK, NEW w \in Workers, NEW stage \in {"idle", "down"}, Leave(w, stage)
  PROVE  /\ Held' \subseteq Held
         /\ pc[w] \in Holding => Held \subseteq Held' \cup {job[w]}
         /\ pc[w] \notin Holding => Held \subseteq Held'
<1>1. "idle" \notin Holding /\ "down" \notin Holding  BY DEF Holding, Running
<1>2. \A v \in Workers : v # w => pc'[v] = pc[v] /\ job'[v] = job[v]  BY DEF TypeOK, Leave
<1>3. pc'[w] \notin Holding  BY <1>1 DEF TypeOK, Leave
<1>4. QED BY <1>2, <1>3 DEF Held

\* A worker that pops a job holds that file too.
LEMMA PopHolds ==
  ASSUME TypeOK, NEW w \in Workers, Pop(w)
  PROVE  Held' = Held \cup {Head(queue)}
<1>1. "idle" \notin Holding /\ "popped" \in Holding  BY DEF Holding, Running
<1>2. \A v \in Workers : v # w => pc'[v] = pc[v] /\ job'[v] = job[v]  BY DEF TypeOK, Pop
<1>3. pc'[w] = "popped" /\ job'[w] = Head(queue) /\ pc[w] = "idle"  BY DEF TypeOK, Pop, At
<1>4. QED BY <1>1, <1>2, <1>3 DEF Held

-----------------------------------------------------------------------------
(* Runs, and what the row says while there is one *)

RunsAgree == ProcessingIsRun /\ FailedRunHasRun /\ ClaimExclusive

\* A worker that lets go of its job ends its run: the rest of the workers run
\* what they ran, and the row of that file is settled, or its job is lost.
LEMMA LeaveKeepsRuns ==
  ASSUME TypeOK, RunsAgree, NEW w \in Workers, NEW stage \in {"idle", "down"}, Leave(w, stage),
         lost \subseteq lost',
         \A f \in Files : \/ status'[f] = status[f]
                          \/ /\ status'[f] \in {"ready", "dead_letter"}
                             /\ status[f] = "failed" \/ (pc[w] \in Running /\ f = job[w]),
         pc[w] \in Running => status'[job[w]] # "processing" \/ job[w] \in lost'
  PROVE  RunsAgree'
<1>1. \A v \in Workers : v # w => pc'[v] = pc[v] /\ job'[v] = job[v]  BY DEF TypeOK, Leave
<1>2. pc'[w] \notin Running /\ pc'[w] \notin {"failed", "retry"}  BY DEF TypeOK, Leave, Running
<1>3. \A v \in Workers : pc[v] \in Running \/ pc[v] \in {"failed", "retry"} => job[v] \in Files
  BY DEF TypeOK, Holding
<1>4. ClaimExclusive'  BY <1>1, <1>2, <1>3 DEF RunsAgree, ClaimExclusive
<1>5. ProcessingIsRun'  BY <1>1, <1>2, <1>3 DEF RunsAgree, ProcessingIsRun
<1>6. FailedRunHasRun'  BY <1>1, <1>2, <1>3 DEF RunsAgree, FailedRunHasRun
<1>7. QED BY <1>4, <1>5, <1>6 DEF RunsAgree

\* Nothing a request does to the rows disturbs a run: rows of files that a
\* worker holds are removed at most.
LEMMA RequestKeepsRuns ==
  ASSUME TypeOK, RunsAgree, UNCHANGED workerVars, lost \subseteq lost',
         \A f \in Files : \/ status'[f] = status[f]
                          \/ status'[f] = "none"
                          \/ status'[f] # "processing" /\ f \notin Held
  PROVE  RunsAgree'
<1>1. \A v \in Workers : pc'[v] = pc[v] /\ job'[v] = job[v]  BY DEF workerVars
<1>2. \A v \in Workers : pc[v] \in Running \/ pc[v] \in {"failed", "retry"} =>
        job[v] \in Files /\ job[v] \in Held
  BY DEF TypeOK, Holding, Held
<1>3. ClaimExclusive'  BY <1>1, <1>2 DEF RunsAgree, ClaimExclusive
<1>4. ProcessingIsRun'  BY <1>1, <1>2 DEF RunsAgree, ProcessingIsRun
<1>5. FailedRunHasRun'  BY <1>1, <1>2 DEF RunsAgree, FailedRunHasRun
<1>6. QED BY <1>3, <1>4, <1>5 DEF RunsAgree

\* A claim takes a row that no run has: there is one run of the file after it.
LEMMA ClaimKeepsRuns ==
  ASSUME TypeOK, RunsAgree, NEW w \in Workers, Claim(w)
  PROVE  RunsAgree'
<1>1. /\ \A v \in Workers : v # w => pc'[v] = pc[v] /\ job'[v] = job[v]
      /\ pc[w] = "popped" /\ pc'[w] = "claimed" /\ job'[w] = job[w]
  BY DEF TypeOK, Claim, At, Goto
<1>2. /\ job[w] \in Files /\ lost' = lost
      /\ status[job[w]] \in {"uploaded", "failed"} /\ status'[job[w]] = "processing"
      /\ \A f \in Files : f # job[w] => status'[f] = status[f]
  BY DEF TypeOK, Claim, At, Claimable, Holding
<1>3. \A v \in Workers : pc[v] \in Running \/ pc[v] \in {"failed", "retry"} => job[v] \in Files
  BY DEF TypeOK, Holding
<1>4. "popped" \notin Running /\ "claimed" \in Running  BY DEF Running
<1>5. \A v \in Workers : pc[v] \in Running => job[v] # job[w]  BY <1>2 DEF RunsAgree, ClaimExclusive
<1>6. ClaimExclusive'  BY <1>1, <1>2, <1>3, <1>4, <1>5 DEF RunsAgree, ClaimExclusive
<1>7. ProcessingIsRun'  BY <1>1, <1>2, <1>4 DEF RunsAgree, ProcessingIsRun
<1>8. FailedRunHasRun'  BY <1>1, <1>2, <1>3 DEF RunsAgree, FailedRunHasRun
<1>9. QED BY <1>6, <1>7, <1>8 DEF RunsAgree

\* A run that goes on or fails takes no other file, and a failed one says so.
LEMMA RunKeepsRuns ==
  ASSUME TypeOK, RunsAgree, NEW w \in Workers, NEW stage \in {"extracted", "failed", "retry"},
         Goto(w, stage), UNCHANGED lost,
         \/ stage = "extracted" /\ pc[w] \in Running /\ UNCHANGED status
         \/ stage = "failed" /\ pc[w] \in Running /\ status' = MarkFailed(job[w])
         \/ stage = "retry" /\ pc[w] = "failed" /\ UNCHANGED status
  PROVE  RunsAgree'
<1>1. /\ \A v \in Workers : v # w => pc'[v] = pc[v] /\ job'[v] = job[v]
      /\ pc'[w] = stage /\ job'[w] = job[w]
  BY DEF TypeOK, Goto
<1>2. "extracted" \in Running /\ "failed" \notin Running /\ "retry" \notin Running  BY DEF Running
<1>3. \A v \in Workers : pc[v] \in Running \/ pc[v] \in {"failed", "retry"} => job[v] \in Files
  BY DEF TypeOK, Holding
<1>4. \A f \in Files : \/ status'[f] = status[f]
                       \/ f = job[w] /\ status'[f] = "failed" /\ stage = "failed"
  BY DEF TypeOK, MarkFailed
<1>5. stage = "failed" => status'[job[w]] \in {"failed", "none"}  BY <1>2, <1>3 DEF TypeOK, MarkFailed
<1>6. ClaimExclusive'  BY <1>1, <1>2, <1>3, <1>4 DEF RunsAgree, ClaimExclusive
<1>7. ProcessingIsRun'  BY <1>1, <1>2, <1>3, <1>4, <1>5 DEF RunsAgree, ProcessingIsRun
<1>8. FailedRunHasRun'  BY <1>1, <1>2, <1>3, <1>4, <1>5 DEF RunsAgree, FailedRunHasRun
<1>9. QED BY <1>6, <1>7, <1>8 DEF RunsAgree

-----------------------------------------------------------------------------
(* The inductive invariant *)

\* Whoever holds a job is counted, before a step and after it.
LEMMA HolderInHand ==
  /\ \A w \in Workers : pc[w] \in Holding => job[w] \in InHand
  /\ \A w \in Workers : pc'[w] \in Holding => job'[w] \in InHand'
BY DEF InHand, Held

(***************************************************************************)
(* Claims are exclusive, chunks are complete, jobs have their object and   *)
(* no file is silently stalled, in every reachable state: the conjuncts of *)
(* IngestionInv are preserved together by every step.                      *)
(***************************************************************************)
THEOREM InvariantCorrect == Spec => []IngestionInv
<1>1. Init => IngestionInv
  BY DEF Init, IngestionInv, RowFollowsRequest, BlobFollowsRequest, JobFollowsRequest,
         ProcessingIsRun, FailedRunHasRun, ClaimExclusive, ChunksOnlyWhenReady, JobHasBlob,
         NoSilentStall, InHand, Held, Queued, Holding, Running
<1>2. TypeOK /\ IngestionInv /\ [Next]_vars => IngestionInv'
  <2> SUFFICES ASSUME TypeOK, IngestionInv, [Next]_vars PROVE IngestionInv'  OBVIOUS
  <2> DEFINE Requests == RowFollowsRequest /\ BlobFollowsRequest /\ JobFollowsRequest
             Stored   == ChunksOnlyWhenReady /\ JobHasBlob
  <2>0. Requests /\ RunsAgree /\ Stored /\ NoSilentStall  BY DEF IngestionInv, RunsAgree
  <2>a. ASSUME Requests', RunsAgree', Stored', NoSilentStall' PROVE IngestionInv'
    BY <2>a DEF IngestionInv, RunsAgree
  <2> HIDE DEF Requests, Stored
  <2>1. ASSUME NEW b \in Bots, NEW T \in SUBSET Files, CreateBot(b, T) PROVE IngestionInv'
    <3>1. InHand' = InHand  BY <2>1 DEF CreateBot, FilesOf, InHand, Held, Queued, workerVars
    <3>2. RunsAgree'
      BY <2>0, <2>1, RequestKeepsRuns DEF CreateBot, FilesOf, Requests,
         RowFollowsRequest, JobFollowsRequest, InHand, TypeOK, dbVars, workerVars,
         history
    <3>3. Requests'
      <4>1. \A f \in Files : /\ f \in T => upload[f] = "none" /\ upload'[f] = "done"
                             /\ f \notin T => upload'[f] = upload[f] /\ status'[f] = status[f]
        BY <2>1 DEF CreateBot
      <4>2. blobs' = blobs  BY <2>1 DEF CreateBot
      <4>3. InHand \subseteq Files  BY DEF TypeOK, InHand, Held, Queued, Holding
      <4>4. QED BY <2>0, <3>1, <4>1, <4>2, <4>3
        DEF Requests, RowFollowsRequest, BlobFollowsRequest, JobFollowsRequest
    <3>4. Stored'
      BY <2>0, <2>1, <3>1 DEF CreateBot, FilesOf, Stored, ChunksOnlyWhenReady,
         JobHasBlob, Requests, RowFollowsRequest, BlobFollowsRequest,
         JobFollowsRequest, RunsAgree, ClaimExclusive, TypeOK, dbVars, workerVars,
         history, Running
    <3>5. NoSilentStall'
      BY <2>0, <2>1, <3>1 DEF CreateBot, FilesOf, NoSilentStall, Requests,
         RowFollowsRequest, TypeOK, dbVars, workerVars, history
    <3>6. QED BY <2>a, <3>2, <3>3, <3>4, <3>5
  <2>2. ASSUME NEW b \in Bots, DeleteBot(b) PROVE IngestionInv'
    <3>1. InHand' = InHand  BY <2>2 DEF DeleteBot, FilesOf, InHand, Held, Queued, workerVars
    <3>2. RunsAgree'
      BY <2>0, <2>2, RequestKeepsRuns DEF DeleteBot, FilesOf, Requests,
         RowFollowsRequest, JobFollowsRequest, InHand, TypeOK, dbVars, workerVars,
         history
    <3>3. Requests'
      BY <2>0, <2>2, <3>1 DEF DeleteBot, FilesOf, Requests, RowFollowsRequest,
         BlobFollowsRequest, JobFollowsRequest, TypeOK, dbVars, workerVars, history
    <3>4. Stored'
      BY <2>0, <2>2, <3>1 DEF DeleteBot, FilesOf, Stored, ChunksOnlyWhenReady,
         JobHasBlob, Requests, RowFollowsRequest, BlobFollowsRequest,
         JobFollowsRequest, RunsAgree, ClaimExclusive, TypeOK, dbVars, workerVars,
         history, Running
    <3>5. NoSilentStall'
      BY <2>0, <2>2, <3>1 DEF DeleteBot, FilesOf, NoSilentStall, Requests,
         RowFollowsRequest, TypeOK, dbVars, workerVars, history
    <3>6. QED BY <2>a, <3>2, <3>3, <3>4, <3>5
  <2>3. ASSUME NEW f \in Files, UploadOf(f) PROVE IngestionInv'
    <3>1. CASE AdmitUpload(f)
      <4>1. InHand' = InHand  BY <3>1 DEF AdmitUpload, UploadStep, InHand, Held, Queued, workerVars
      <4>2. RunsAgree'
        BY <2>0, <3>1, RequestKeepsRuns DEF AdmitUpload, UploadStep, Requests,
           RowFollowsRequest, JobFollowsRequest, InHand, TypeOK, dbVars, workerVars,
           history
      <4>3. Requests'
        BY <2>0, <3>1, <4>1 DEF AdmitUpload, UploadStep, Requests,
           RowFollowsRequest, BlobFollowsRequest, JobFollowsRequest, TypeOK, dbVars,
           workerVars, history
      <4>4. Stored'
        BY <2>0, <3>1, <4>1 DEF AdmitUpload, UploadStep, Stored,
           ChunksOnlyWhenReady, JobHasBlob, Requests, RowFollowsRequest,
           BlobFollowsRequest, JobFollowsRequest, RunsAgree, ClaimExclusive, TypeOK,
           dbVars, workerVars, history, Running
      <4>5. NoSilentStall'
        BY <2>0, <3>1, <4>1 DEF AdmitUpload, UploadStep, NoSilentStall, Requests,
           RowFollowsRequest, TypeOK, dbVars, workerVars, history
      <4>6. QED BY <2>a, <4>2, <4>3, <4>4, <4>5
    <3>2. CASE StoreBlob(f)
      <4>1. InHand' = InHand  BY <3>2 DEF StoreBlob, UploadStep, InHand, Held, Queued, workerVars
      <4>2. RunsAgree'
        BY <2>0, <3>2, RequestKeepsRuns DEF StoreBlob, UploadStep, Requests,
           RowFollowsRequest, JobFollowsRequest, InHand, TypeOK, dbVars, workerVars,
           history
      <4>3. Requests'
        BY <2>0, <3>2, <4>1 DEF StoreBlob, UploadStep, Requests, RowFollowsRequest,
           BlobFollowsRequest, JobFollowsRequest, TypeOK, dbVars, workerVars,
           history
      <4>4. Stored'
        BY <2>0, <3>2, <4>1 DEF StoreBlob, UploadStep, Stored, ChunksOnlyWhenReady,
           JobHasBlob, Requests, RowFollowsRequest, BlobFollowsRequest,
           JobFollowsRequest, RunsAgree, ClaimExclusive, TypeOK, dbVars, workerVars,
           history, Running
      <4>5. NoSilentStall'
        BY <2>0, <3>2, <4>1 DEF StoreBlob, UploadStep, NoSilentStall, Requests,
           RowFollowsRequest, TypeOK, dbVars, workerVars, history
      <4>6. QED BY <2>a, <4>2, <4>3, <4>4, <4>5
    <3>3. CASE StoreFails(f)
      <4>1. InHand' = InHand  BY <3>3 DEF StoreFails, UploadStep, InHand, Held, Queued, workerVars
      <4>2. RunsAgree'
        BY <2>0, <3>3, RequestKeepsRuns DEF StoreFails, UploadStep, Requests,
           RowFollowsRequest, JobFollowsRequest, InHand, TypeOK, dbVars, workerVars,
           history
      <4>3. Requests'
        BY <2>0, <3>3, <4>1 DEF StoreFails, UploadStep, Requests, RowFollowsRequest,
           BlobFollowsRequest, JobFollowsRequest, TypeOK, dbVars, workerVars,
           history
      <4>4. Stored'
        BY <2>0, <3>3, <4>1 DEF StoreFails, UploadStep, Stored, ChunksOnlyWhenReady,
           JobHasBlob, Requests, RowFollowsRequest, BlobFollowsRequest,
           JobFollowsRequest, RunsAgree, ClaimExclusive, TypeOK, dbVars, workerVars,
           history, Running
      <4>5. NoSilentStall'
        BY <2>0, <3>3, <4>1 DEF StoreFails, UploadStep, NoSilentStall, Requests,
           RowFollowsRequest, TypeOK, dbVars, workerVars, history
      <4>6. QED BY <2>a, <4>2, <4>3, <4>4, <4>5
    <3>4. CASE InsertRow(f)
      <4>1. InHand' = InHand  BY <3>4 DEF InsertRow, UploadStep, InHand, Held, Queued, workerVars
      <4>2. RunsAgree'
        BY <2>0, <3>4, RequestKeepsRuns DEF InsertRow, UploadStep, Requests,
           RowFollowsRequest, JobFollowsRequest, InHand, TypeOK, dbVars, workerVars,
           history
      <4>3. Requests'
        BY <2>0, <3>4, <4>1 DEF InsertRow, UploadStep, Requests, RowFollowsRequest,
           BlobFollowsRequest, JobFollowsRequest, TypeOK, dbVars, workerVars,
           history
      <4>4. Stored'
        BY <2>0, <3>4, <4>1 DEF InsertRow, UploadStep, Stored, ChunksOnlyWhenReady,
           JobHasBlob, Requests, RowFollowsRequest, BlobFollowsRequest,
           JobFollowsRequest, RunsAgree, ClaimExclusive, TypeOK, dbVars, workerVars,
           history, Running
      <4>5. NoSilentStall'
        BY <2>0, <3>4, <4>1 DEF InsertRow, UploadStep, NoSilentStall, Requests,
           RowFollowsRequest, TypeOK, dbVars, workerVars, history
      <4>6. QED BY <2>a, <4>2, <4>3, <4>4, <4>5
    <3>5. CASE InsertFails(f)
      <4>1. InHand' = InHand  BY <3>5 DEF InsertFails, UploadStep, InHand, Held, Queued, workerVars
      <4>2. RunsAgree'
        BY <2>0, <3>5, RequestKeepsRuns DEF InsertFails, UploadStep, Requests,
           RowFollowsRequest, JobFollowsRequest, InHand, TypeOK, dbVars, workerVars,
           history
      <4>3. Requests'
        BY <2>0, <3>5, <4>1 DEF InsertFails, UploadStep, Requests,
           RowFollowsRequest, BlobFollowsRequest, JobFollowsRequest, TypeOK, dbVars,
           workerVars, history
      <4>4. Stored'
        BY <2>0, <3>5, <4>1 DEF InsertFails, UploadStep, Stored,
           ChunksOnlyWhenReady, JobHasBlob, Requests, RowFollowsRequest,
           BlobFollowsRequest, JobFollowsRequest, RunsAgree, ClaimExclusive, TypeOK,
           dbVars, workerVars, history, Running
      <4>5. NoSilentStall'
        BY <2>0, <3>5, <4>1 DEF InsertFails, UploadStep, NoSilentStall, Requests,
           RowFollowsRequest, TypeOK, dbVars, workerVars, history
      <4>6. QED BY <2>a, <4>2, <4>3, <4>4, <4>5
    <3>6. CASE Schedule(f)
      <4>1. InHand' = InHand \cup {f}
        BY <3>6, PushAdds DEF Schedule, InHand, Held, TypeOK, dbVars, workerVars,
           history
      <4>2. RunsAgree'
        BY <2>0, <3>6, RequestKeepsRuns DEF Schedule, UploadStep, Requests,
           RowFollowsRequest, JobFollowsRequest, InHand, TypeOK, dbVars, workerVars,
           history
      <4>3. Requests'
        BY <2>0, <3>6, <4>1 DEF Schedule, UploadStep, Requests, RowFollowsRequest,
           BlobFollowsRequest, JobFollowsRequest, TypeOK, dbVars, workerVars,
           history
      <4>4. Stored'
        BY <2>0, <3>6, <4>1 DEF Schedule, UploadStep, Stored, ChunksOnlyWhenReady,
           JobHasBlob, Requests, RowFollowsRequest, BlobFollowsRequest,
           JobFollowsRequest, RunsAgree, ClaimExclusive, TypeOK, dbVars, workerVars,
           history, Running
      <4>5. NoSilentStall'
        BY <2>0, <3>6, <4>1 DEF Schedule, UploadStep, NoSilentStall, Requests,
           RowFollowsRequest, TypeOK, dbVars, workerVars, history
      <4>6. QED BY <2>a, <4>2, <4>3, <4>4, <4>5
    <3>7. CASE ScheduleFails(f)
      <4>1. InHand \subseteq InHand' /\ InHand' \subseteq InHand \cup {f}
        BY <3>7, PushRaisesAdds DEF ScheduleFails, InHand, Held, TypeOK, dbVars,
           workerVars, history
      <4>2. RunsAgree'
        BY <2>0, <3>7, RequestKeepsRuns DEF ScheduleFails, PushRaises, UploadStep,
           Requests, RowFollowsRequest, JobFollowsRequest, InHand, TypeOK, dbVars,
           workerVars, history
      <4>3. Requests'
        BY <2>0, <3>7, <4>1 DEF ScheduleFails, PushRaises, UploadStep, Requests,
           RowFollowsRequest, BlobFollowsRequest, JobFollowsRequest, TypeOK, dbVars,
           workerVars, history
      <4>4. Stored'
        BY <2>0, <3>7, <4>1 DEF ScheduleFails, PushRaises, UploadStep, Stored,
           ChunksOnlyWhenReady, JobHasBlob, Requests, RowFollowsRequest,
           BlobFollowsRequest, JobFollowsRequest, RunsAgree, ClaimExclusive, TypeOK,
           dbVars, workerVars, history, Running
      <4>5. NoSilentStall'
        BY <2>0, <3>7, <4>1 DEF ScheduleFails, PushRaises, UploadStep,
           NoSilentStall, Requests, RowFollowsRequest, TypeOK, dbVars, workerVars,
           history
      <4>6. QED BY <2>a, <4>2, <4>3, <4>4, <4>5
    <3>8. CASE ApiCrash(f)
      <4>1. InHand' = InHand  BY <3>8 DEF ApiCrash, InHand, Held, Queued, workerVars
      <4>2. RunsAgree'
        BY <2>0, <3>8, RequestKeepsRuns DEF ApiCrash, Requests, RowFollowsRequest,
           JobFollowsRequest, InHand, TypeOK, dbVars, workerVars, history
      <4>3. Requests'
        BY <2>0, <3>8, <4>1 DEF ApiCrash, Requests, RowFollowsRequest,
           BlobFollowsRequest, JobFollowsRequest, TypeOK, dbVars, workerVars,
           history
      <4>4. Stored'
        BY <2>0, <3>8, <4>1 DEF ApiCrash, Stored, ChunksOnlyWhenReady, JobHasBlob,
           Requests, RowFollowsRequest, BlobFollowsRequest, JobFollowsRequest,
           RunsAgree, ClaimExclusive, TypeOK, dbVars, workerVars, history, Running
      <4>5. NoSilentStall'
        BY <2>0, <3>8, <4>1 DEF ApiCrash, NoSilentStall, Requests,
           RowFollowsRequest, TypeOK, dbVars, workerVars, history
      <4>6. QED BY <2>a, <4>2, <4>3, <4>4, <4>5
    <3>9. QED BY <2>3, <3>1, <3>2, <3>3, <3>4, <3>5, <3>6, <3>7, <3>8 DEF UploadOf
  <2>4. ASSUME NEW w \in Workers, WorkerOf(w) PROVE IngestionInv'
    <3>0. pc[w] \in Holding <=> job[w] \in Files  BY IngestionAssumption DEF TypeOK
    <3>1. CASE Pop(w)
      <4>1. InHand' = InHand  BY <3>1, PopTakes, PopHolds DEF Pop, InHand, TypeOK
      <4>2. RunsAgree'
        <5>1. \A v \in Workers : v # w => pc'[v] = pc[v] /\ job'[v] = job[v]  BY <3>1 DEF Pop, TypeOK
        <5>2. pc[w] = "idle" /\ pc'[w] = "popped" /\ status' = status /\ lost' = lost
          BY <3>1 DEF Pop, At, TypeOK, dbVars, history
        <5>3. "idle" \notin Running /\ "popped" \notin Running  BY DEF Running
        <5>4. ClaimExclusive'  BY <2>0, <5>1, <5>2, <5>3 DEF RunsAgree, ClaimExclusive
        <5>5. ProcessingIsRun'  BY <2>0, <5>1, <5>2, <5>3 DEF RunsAgree, ProcessingIsRun
        <5>6. FailedRunHasRun'  BY <2>0, <5>1, <5>2 DEF RunsAgree, FailedRunHasRun
        <5>7. QED BY <5>4, <5>5, <5>6 DEF RunsAgree
      <4>3. Requests'
        BY <2>0, <3>1, <3>0, <4>1 DEF Pop, At, Requests, RowFollowsRequest,
           BlobFollowsRequest, JobFollowsRequest, TypeOK, dbVars, workerVars,
           history
      <4>4. Stored'
        BY <2>0, <3>1, <3>0, <4>1 DEF Pop, At, Stored, ChunksOnlyWhenReady,
           JobHasBlob, Requests, RowFollowsRequest, BlobFollowsRequest,
           JobFollowsRequest, RunsAgree, ClaimExclusive, TypeOK, dbVars, workerVars,
           history, Running
      <4>5. NoSilentStall'
        BY <2>0, <3>1, <3>0, <4>1 DEF Pop, At, NoSilentStall, Requests,
           RowFollowsRequest, TypeOK, dbVars, workerVars, history
      <4>6. QED BY <2>a, <4>2, <4>3, <4>4, <4>5
    <3>2. CASE Claim(w)
      <4>1. InHand' = InHand  BY <3>2, GotoKeepsHeld DEF Claim, At, InHand, Queued, Holding, Running
      <4>2. RunsAgree'  BY <2>0, <3>2, ClaimKeepsRuns DEF Claim
      <4>3. Requests'
        BY <2>0, <3>2, <3>0, <4>1 DEF Claim, At, Claimable, Requests,
           RowFollowsRequest, BlobFollowsRequest, JobFollowsRequest, TypeOK, dbVars,
           workerVars, history
      <4>4. Stored'
        BY <2>0, <3>2, <3>0, <4>1 DEF Claim, At, Claimable, Stored,
           ChunksOnlyWhenReady, JobHasBlob, Requests, RowFollowsRequest,
           BlobFollowsRequest, JobFollowsRequest, RunsAgree, ClaimExclusive, TypeOK,
           dbVars, workerVars, history, Running
      <4>5. NoSilentStall'
        BY <2>0, <3>2, <3>0, <4>1 DEF Claim, At, Claimable, NoSilentStall, Requests,
           RowFollowsRequest, TypeOK, dbVars, workerVars, history
      <4>6. QED BY <2>a, <4>2, <4>3, <4>4, <4>5
    <3>3. CASE Extract(w)
      <4>1. InHand' = InHand  BY <3>3, GotoKeepsHeld DEF Extract, At, InHand, Queued, Holding, Running
      <4>2. RunsAgree'  BY <2>0, <3>3, RunKeepsRuns DEF Extract, At, Running, dbVars, history
      <4>3. Requests'
        BY <2>0, <3>3, <3>0, <4>1 DEF Extract, At, Requests, RowFollowsRequest,
           BlobFollowsRequest, JobFollowsRequest, TypeOK, dbVars, workerVars,
           history
      <4>4. Stored'
        BY <2>0, <3>3, <3>0, <4>1 DEF Extract, At, Stored, ChunksOnlyWhenReady,
           JobHasBlob, Requests, RowFollowsRequest, BlobFollowsRequest,
           JobFollowsRequest, RunsAgree, ClaimExclusive, TypeOK, dbVars, workerVars,
           history, Running
      <4>5. NoSilentStall'
        BY <2>0, <3>3, <3>0, <4>1 DEF Extract, At, NoSilentStall, Requests,
           RowFollowsRequest, TypeOK, dbVars, workerVars, history
      <4>6. QED BY <2>a, <4>2, <4>3, <4>4, <4>5
    <3>4. CASE FailRun(w)
      <4>1. InHand' = InHand  BY <3>4, GotoKeepsHeld DEF FailRun, At, InHand, Queued, Holding, Running
      <4>2. RunsAgree'  BY <2>0, <3>4, RunKeepsRuns DEF FailRun, At, history
      <4>3. Requests'
        BY <2>0, <3>4, <3>0, <4>1 DEF FailRun, At, MarkFailed, Requests,
           RowFollowsRequest, BlobFollowsRequest, JobFollowsRequest, TypeOK, dbVars,
           workerVars, history
      <4>4. Stored'
        BY <2>0, <3>4, <3>0, <4>1 DEF FailRun, At, MarkFailed, Stored,
           ChunksOnlyWhenReady, JobHasBlob, Requests, RowFollowsRequest,
           BlobFollowsRequest, JobFollowsRequest, RunsAgree, ClaimExclusive, TypeOK,
           dbVars, workerVars, history, Running
      <4>5. NoSilentStall'
        <5>1. job[w] \in InHand' /\ lost' = lost /\ upload' = upload
          BY <3>4, <3>0, <4>1, HolderInHand DEF FailRun, Holding, history
        <5>2. \A f \in Files : status'[f] = status[f] \/ f = job[w]
          BY <3>4, <3>0 DEF FailRun, MarkFailed, TypeOK
        <5>3. QED BY <2>0, <4>1, <5>1, <5>2 DEF NoSilentStall
      <4>6. QED BY <2>a, <4>2, <4>3, <4>4, <4>5
    <3>5. CASE Skip(w)
      <4>1. /\ InHand' \subseteq InHand
            /\ InHand \subseteq InHand' \cup {job[w]}
        BY <3>5, LeaveDrops DEF Skip, At, InHand, Queued, Holding
      <4>2. RunsAgree'  BY <2>0, <3>5, LeaveKeepsRuns DEF Skip, At, Running, dbVars, history
      <4>3. Requests'
        BY <2>0, <3>5, <3>0, <4>1 DEF Skip, At, Leave, Claimable, Requests,
           RowFollowsRequest, BlobFollowsRequest, JobFollowsRequest, TypeOK, dbVars,
           workerVars, history
      <4>4. Stored'
        BY <2>0, <3>5, <3>0, <4>1 DEF Skip, At, Leave, Claimable, Stored,
           ChunksOnlyWhenReady, JobHasBlob, Requests, RowFollowsRequest,
           BlobFollowsRequest, JobFollowsRequest, RunsAgree, ClaimExclusive, TypeOK,
           dbVars, workerVars, history, Running
      <4>5. NoSilentStall'
        <5>1. \A f \in Files : status[f] = "processing" => f \in lost \/ f \in InHand'
          <6>1. \A v \in Workers : pc[v] \in Running => pc'[v] \in Holding /\ job'[v] = job[v]
            BY <3>5, <3>0 DEF Skip, At, Leave, TypeOK, Holding, Running
          <6>2. QED BY <2>0, <6>1, HolderInHand DEF RunsAgree, ProcessingIsRun
        <5>2. QED BY <2>0, <3>5, <3>0, <4>1, <5>1 DEF Skip, At, Claimable, NoSilentStall, TypeOK, dbVars, history
      <4>6. QED BY <2>a, <4>2, <4>3, <4>4, <4>5
    <3>6. CASE Persist(w)
      <4>1. /\ InHand' \subseteq InHand
            /\ InHand \subseteq InHand' \cup {job[w]}
        BY <3>6, LeaveDrops DEF Persist, At, InHand, Queued, Holding
      <4>2. RunsAgree'
        <5>1. job[w] \in Files /\ pc[w] \in Running /\ Leave(w, "idle") /\ lost' = lost
          BY <3>6, <3>0 DEF Persist, At, Holding, Running, history
        <5>2. /\ \A f \in Files : status'[f] = status[f] \/ (status'[f] = "ready" /\ f = job[w])
              /\ status'[job[w]] \in {"ready", "none"}
          BY <3>6, <5>1 DEF Persist, TypeOK
        <5>3. QED BY <2>0, <5>1, <5>2, LeaveKeepsRuns
      <4>3. Requests'
        BY <2>0, <3>6, <3>0, <4>1 DEF Persist, At, Leave, Requests,
           RowFollowsRequest, BlobFollowsRequest, JobFollowsRequest, TypeOK, dbVars,
           workerVars, history
      <4>4. Stored'
        <5>1. /\ \A f \in Files : f # job[w] => status'[f] = status[f] /\ (f \in chunks' <=> f \in chunks)
              /\ chunks' \subseteq Files /\ blobs' = blobs
              /\ job[w] \in chunks' => status'[job[w]] = "ready"
          BY <3>6, <3>0 DEF Persist, TypeOK, At, Holding, Running
        <5>2. QED BY <2>0, <4>1, <5>1 DEF Stored, ChunksOnlyWhenReady, JobHasBlob
      <4>5. NoSilentStall'
        BY <2>0, <3>6, <3>0, <4>1 DEF Persist, At, Leave, NoSilentStall, Requests,
           RowFollowsRequest, TypeOK, dbVars, workerVars, history
      <4>6. QED BY <2>a, <4>2, <4>3, <4>4, <4>5
    <3>7. CASE Abandon(w)
      <4>1. /\ InHand' \subseteq InHand
            /\ InHand \subseteq InHand' \cup {job[w]}
        BY <3>7, LeaveDrops DEF Abandon, At, InHand, Queued, Holding
      <4>2. RunsAgree'
        BY <2>0, <3>7, LeaveKeepsRuns DEF Abandon, At, Running, TypeOK, dbVars,
           workerVars, history
      <4>3. Requests'
        BY <2>0, <3>7, <3>0, <4>1 DEF Abandon, At, Leave, Requests,
           RowFollowsRequest, BlobFollowsRequest, JobFollowsRequest, TypeOK, dbVars,
           workerVars, history
      <4>4. Stored'
        BY <2>0, <3>7, <3>0, <4>1 DEF Abandon, At, Leave, Stored,
           ChunksOnlyWhenReady, JobHasBlob, Requests, RowFollowsRequest,
           BlobFollowsRequest, JobFollowsRequest, RunsAgree, ClaimExclusive, TypeOK,
           dbVars, workerVars, history, Running
      <4>5. NoSilentStall'
        BY <2>0, <3>7, <3>0, <4>1 DEF Abandon, At, Leave, NoSilentStall, Requests,
           RowFollowsRequest, TypeOK, dbVars, workerVars, history
      <4>6. QED BY <2>a, <4>2, <4>3, <4>4, <4>5
    <3>8. CASE Crash(w)
      <4>1. /\ InHand' \subseteq InHand
            /\ InHand \subseteq InHand' \cup {job[w]}
            /\ pc[w] \notin Holding => InHand' = InHand
        BY <3>8, LeaveDrops DEF Crash, At, InHand, Queued, Holding
      <4>2. RunsAgree'  BY <2>0, <3>8, LeaveKeepsRuns DEF Crash, Holding, Running, dbVars, history
      <4>3. Requests'
        BY <2>0, <3>8, <3>0, <4>1 DEF Crash, At, Leave, Requests, RowFollowsRequest,
           BlobFollowsRequest, JobFollowsRequest, TypeOK, dbVars, workerVars,
           history
      <4>4. Stored'
        BY <2>0, <3>8, <3>0, <4>1 DEF Crash, At, Leave, Stored, ChunksOnlyWhenReady,
           JobHasBlob, Requests, RowFollowsRequest, BlobFollowsRequest,
           JobFollowsRequest, RunsAgree, ClaimExclusive, TypeOK, dbVars, workerVars,
           history, Running
      <4>5. NoSilentStall'
        BY <2>0, <3>8, <3>0, <4>1 DEF Crash, At, Leave, NoSilentStall, Requests,
           RowFollowsRequest, TypeOK, dbVars, workerVars, history
      <4>6. QED BY <2>a, <4>2, <4>3, <4>4, <4>5
    <3>9. CASE Record(w)
      <4>1. /\ InHand' \subseteq InHand
            /\ InHand \subseteq InHand' \cup {job[w]}
            /\ pc'[w] = "retry" => InHand' = InHand
        <5>1. CASE Leave(w, "idle")
          <6>1. pc'[w] = "idle"  BY <5>1 DEF Leave, TypeOK
          <6>2. QED BY <3>9, <5>1, <6>1, LeaveDrops DEF Record, At, Queued, InHand
        <5>2. CASE Goto(w, "retry")
          BY <3>9, <5>2, GotoKeepsHeld DEF Record, At, Queued, InHand, Holding
        <5>3. QED BY <3>9, <5>1, <5>2 DEF Record
      <4>2. RunsAgree'
        <5>1. lost' = lost /\ pc[w] = "failed" /\ "failed" \notin Running
          BY <3>9 DEF Record, At, history, Running
        <5>2. \A f \in Files : status'[f] = status[f] \/ (status'[f] = "dead_letter" /\ status[f] = "failed")
          BY <3>9 DEF Record, MarkDeadLetter, TypeOK
        <5>3. CASE Leave(w, "idle")  BY <2>0, <5>1, <5>2, <5>3, LeaveKeepsRuns
        <5>4. CASE UNCHANGED status /\ Goto(w, "retry")  BY <2>0, <5>1, <5>4, RunKeepsRuns
        <5>5. QED BY <3>9, <5>3, <5>4 DEF Record
      <4>3. Requests'
        BY <2>0, <3>9, <3>0, <4>1 DEF Record, At, Leave, MarkDeadLetter, Requests,
           RowFollowsRequest, BlobFollowsRequest, JobFollowsRequest, TypeOK, dbVars,
           workerVars, history
      <4>4. Stored'
        BY <2>0, <3>9, <3>0, <4>1 DEF Record, At, Leave, MarkDeadLetter, Stored,
           ChunksOnlyWhenReady, JobHasBlob, Requests, RowFollowsRequest,
           BlobFollowsRequest, JobFollowsRequest, RunsAgree, ClaimExclusive, TypeOK,
           dbVars, workerVars, history, Running
      <4>5. NoSilentStall'
        <5>1. \A f \in Files : status[f] = "processing" => f \in lost \/ f \in InHand'
          <6>1. \A v \in Workers : pc[v] \in Running => pc'[v] \in Holding /\ job'[v] = job[v]
            <7>1. pc[w] \notin Running /\ \A v \in Workers : v # w => pc'[v] = pc[v] /\ job'[v] = job[v]
              BY <3>9, <3>0 DEF Record, At, Leave, Goto, TypeOK, Running
            <7>2. QED BY <7>1 DEF Holding, TypeOK
          <6>2. QED BY <2>0, <6>1, HolderInHand DEF RunsAgree, ProcessingIsRun
        <5>2. status[job[w]] # "uploaded" /\ (pc'[w] = "retry" \/ status'[job[w]] \in {status[job[w]], "dead_letter"})
          BY <2>0, <3>9, <3>0 DEF Record, At, MarkDeadLetter, RunsAgree, FailedRunHasRun, TypeOK, Goto
        <5>3. QED BY <2>0, <3>9, <3>0, <4>1, <5>1, <5>2 DEF Record, At, MarkDeadLetter, Leave, Goto, NoSilentStall, TypeOK, history
      <4>6. QED BY <2>a, <4>2, <4>3, <4>4, <4>5
    <3>10. CASE Requeue(w)
      <4>1. InHand' = InHand
        <5>1. job[w] \in Files /\ pc[w] \in Holding  BY <3>10, <3>0 DEF Requeue, At, Holding
        <5>2. Queued' = Queued \cup {job[w]}  BY <3>10, <5>1, PushAdds DEF Requeue, TypeOK
        <5>3. QED BY <3>10, <5>1, <5>2, LeaveDrops, HolderInHand DEF Requeue, InHand
      <4>2. RunsAgree'  BY <2>0, <3>10, LeaveKeepsRuns DEF Requeue, At, Running, dbVars, history
      <4>3. Requests'
        BY <2>0, <3>10, <3>0, <4>1 DEF Requeue, At, Leave, Requests,
           RowFollowsRequest, BlobFollowsRequest, JobFollowsRequest, TypeOK, dbVars,
           workerVars, history
      <4>4. Stored'
        BY <2>0, <3>10, <3>0, <4>1 DEF Requeue, At, Leave, Stored,
           ChunksOnlyWhenReady, JobHasBlob, Requests, RowFollowsRequest,
           BlobFollowsRequest, JobFollowsRequest, RunsAgree, ClaimExclusive, TypeOK,
           dbVars, workerVars, history, Running
      <4>5. NoSilentStall'
        BY <2>0, <3>10, <3>0, <4>1 DEF Requeue, At, Leave, NoSilentStall, Requests,
           RowFollowsRequest, TypeOK, dbVars, workerVars, history
      <4>6. QED BY <2>a, <4>2, <4>3, <4>4, <4>5
    <3>11. CASE RequeueFails(w)
      <4>1. /\ InHand' \subseteq InHand
            /\ InHand \subseteq InHand' \cup {job[w]}
        <5>1. job[w] \in Files /\ pc[w] \in Holding  BY <3>11, <3>0 DEF RequeueFails, At, Holding
        <5>2. Queued' \subseteq Queued \cup {job[w]} /\ Queued \subseteq Queued'
          BY <3>11, <5>1, PushRaisesAdds DEF RequeueFails, TypeOK
        <5>3. QED BY <3>11, <5>1, <5>2, LeaveDrops, HolderInHand DEF RequeueFails, InHand
      <4>2. RunsAgree'
        BY <2>0, <3>11, LeaveKeepsRuns DEF RequeueFails, PushRaises, At, Running,
           dbVars, history
      <4>3. Requests'
        BY <2>0, <3>11, <3>0, <4>1 DEF RequeueFails, At, Leave, PushRaises,
           Requests, RowFollowsRequest, BlobFollowsRequest, JobFollowsRequest,
           TypeOK, dbVars, workerVars, history
      <4>4. Stored'
        BY <2>0, <3>11, <3>0, <4>1 DEF RequeueFails, At, Leave, PushRaises, Stored,
           ChunksOnlyWhenReady, JobHasBlob, Requests, RowFollowsRequest,
           BlobFollowsRequest, JobFollowsRequest, RunsAgree, ClaimExclusive, TypeOK,
           dbVars, workerVars, history, Running
      <4>5. NoSilentStall'
        BY <2>0, <3>11, <3>0, <4>1 DEF RequeueFails, At, Leave, PushRaises,
           NoSilentStall, Requests, RowFollowsRequest, TypeOK, dbVars, workerVars,
           history
      <4>6. QED BY <2>a, <4>2, <4>3, <4>4, <4>5
    <3>12. CASE Restart(w)
      <4>1. InHand' = InHand
        BY <3>12 DEF Restart, At, Goto, InHand, Held, Queued, TypeOK, Holding,
           Running
      <4>2. RunsAgree'
        <5>1. \A v \in Workers : v # w => pc'[v] = pc[v] /\ job'[v] = job[v]
          BY <3>12 DEF Restart, Goto, TypeOK
        <5>2. pc[w] = "down" /\ pc'[w] = "idle" /\ status' = status /\ lost' = lost
          BY <3>12 DEF Restart, Goto, At, TypeOK, dbVars, history
        <5>3. "idle" \notin Running /\ "down" \notin Running  BY DEF Running
        <5>4. ClaimExclusive'  BY <2>0, <5>1, <5>2, <5>3 DEF RunsAgree, ClaimExclusive
        <5>5. ProcessingIsRun'  BY <2>0, <5>1, <5>2, <5>3 DEF RunsAgree, ProcessingIsRun
        <5>6. FailedRunHasRun'  BY <2>0, <5>1, <5>2 DEF RunsAgree, FailedRunHasRun
        <5>7. QED BY <5>4, <5>5, <5>6 DEF RunsAgree
      <4>3. Requests'
        BY <2>0, <3>12, <3>0, <4>1 DEF Restart, At, Goto, Requests,
           RowFollowsRequest, BlobFollowsRequest, JobFollowsRequest, TypeOK, dbVars,
           workerVars, history
      <4>4. Stored'
        BY <2>0, <3>12, <3>0, <4>1 DEF Restart, At, Goto, Stored,
           ChunksOnlyWhenReady, JobHasBlob, Requests, RowFollowsRequest,
           BlobFollowsRequest, JobFollowsRequest, RunsAgree, ClaimExclusive, TypeOK,
           dbVars, workerVars, history, Running
      <4>5. NoSilentStall'
        BY <2>0, <3>12, <3>0, <4>1 DEF Restart, At, Goto, NoSilentStall, Requests,
           RowFollowsRequest, TypeOK, dbVars, workerVars, history
      <4>6. QED BY <2>a, <4>2, <4>3, <4>4, <4>5
    <3>13. QED  BY <2>4, <3>1, <3>2, <3>3, <3>4, <3>5, <3>6, <3>7, <3>8, <3>9, <3>10, <3>11, <3>12
      DEF WorkerOf, HandleJob
  <2>5. CASE UNCHANGED vars
    BY <2>5 DEF vars, dbVars, workerVars, history, IngestionInv, RowFollowsRequest,
       BlobFollowsRequest, JobFollowsRequest, ProcessingIsRun, FailedRunHasRun, ClaimExclusive,
       ChunksOnlyWhenReady, JobHasBlob, NoSilentStall, InHand, Held, Queued
  <2>6. Next => IngestionInv'  BY <2>1, <2>2, <2>3, <2>4 DEF Next
  <2>7. QED BY <2>5, <2>6
<1>3. QED BY <1>1, <1>2, TypeCorrect, PTL DEF Spec

\* At most one worker processes a file, whatever jobs are doubled.
THEOREM ClaimsAreExclusive == Spec => []ClaimExclusive
<1>1. IngestionInv => ClaimExclusive  BY DEF IngestionInv
<1>2. QED BY <1>1, InvariantCorrect, PTL

\* Chunk rows exist only under a row that is ready.
THEOREM ChunksAreComplete == Spec => []ChunksOnlyWhenReady
<1>1. IngestionInv => ChunksOnlyWhenReady  BY DEF IngestionInv
<1>2. QED BY <1>1, InvariantCorrect, PTL

\* Whoever holds a job finds the object of its file.
THEOREM JobsHaveBlobs == Spec => []JobHasBlob
<1>1. IngestionInv => JobHasBlob  BY DEF IngestionInv
<1>2. QED BY <1>1, InvariantCorrect, PTL

\* Rows, objects, jobs and chunks agree whatever fails.
THEOREM StoresAlwaysAgree == Spec => []StoresAgree
<1>1. IngestionInv => StoresAgree  BY DEF IngestionInv, StoresAgree
<1>2. QED BY <1>1, InvariantCorrect, PTL

\* A file with work to do has a job, or a recorded fault dropped it.
THEOREM NoFileStalls == Spec => []NoSilentStall
<1>1. IngestionInv => NoSilentStall  BY DEF IngestionInv
<1>2. QED BY <1>1, InvariantCorrect, PTL

-----------------------------------------------------------------------------
(* What a step may do to a row *)

\* The moves a row can make in one step: only a claim, a failed run, a finished
\* run, the dead letter, an insert and a cascade write a status, and each of
\* them starts from the statuses named here.
RowMoves ==
  {<<"none", "uploaded">>, <<"none", "ready">>, <<"uploaded", "processing">>,
   <<"failed", "processing">>, <<"processing", "failed">>, <<"processing", "ready">>,
   <<"failed", "dead_letter">>}

LEMMA RowStep ==
  ASSUME TypeOK, IngestionInv, Next, NEW f \in Files
  PROVE  \/ status'[f] = status[f]
         \/ status'[f] = "none"
         \/ <<status[f], status'[f]>> \in RowMoves
<1> DEFINE Goal == \/ status'[f] = status[f]
                   \/ status'[f] = "none"
                   \/ <<status[f], status'[f]>> \in RowMoves
<1>1. \A g \in Files : upload[g] \in {"none", "admitted", "stored"} => status[g] = "none"
  BY DEF IngestionInv, RowFollowsRequest
<1>2. \A w \in Workers : pc[w] \in Running => job[w] \in Files /\ status[job[w]] \in {"processing", "none"}
  BY DEF IngestionInv, ClaimExclusive, TypeOK, Holding
<1>3. ASSUME NEW b \in Bots, NEW T \in SUBSET Files, CreateBot(b, T) PROVE Goal
  BY <1>1, <1>3 DEF CreateBot, RowMoves
<1>4. ASSUME NEW b \in Bots, DeleteBot(b) PROVE Goal  BY <1>4 DEF DeleteBot
<1>5. ASSUME NEW g \in Files, UploadOf(g) PROVE Goal
  BY <1>1, <1>5 DEF UploadOf, AdmitUpload, StoreBlob, StoreFails, InsertRow, InsertFails, Schedule,
     ScheduleFails, ApiCrash, UploadStep, dbVars, TypeOK, RowMoves
<1>6. ASSUME NEW w \in Workers, WorkerOf(w) PROVE Goal
  <2>1. CASE Claim(w)  BY <2>1 DEF Claim, Claimable, TypeOK, RowMoves
  <2>2. CASE FailRun(w)  BY <1>2, <2>2 DEF FailRun, MarkFailed, TypeOK, RowMoves
  <2>3. CASE Persist(w)  BY <1>2, <2>3 DEF Persist, At, Running, TypeOK, RowMoves
  <2>4. CASE Record(w)  BY <2>4 DEF Record, MarkDeadLetter, TypeOK, RowMoves
  <2>5. CASE UNCHANGED status  BY <2>5
  <2>6. QED  BY <1>6, <2>1, <2>2, <2>3, <2>4, <2>5
    DEF WorkerOf, HandleJob, Pop, Skip, Extract, Requeue, RequeueFails, Abandon, Crash, Restart, dbVars
<1>7. QED BY <1>3, <1>4, <1>5, <1>6 DEF Next

\* ready and dead_letter are final until the bot is deleted.
THEOREM SettledStays == Spec => SettledIsFinal
<1>1. ASSUME TypeOK, IngestionInv, [Next]_vars
      PROVE  [\A f \in Files : status[f] \in Settled => status'[f] \in {status[f], "none"}]_vars
  <2>1. CASE Next  BY <1>1, <2>1, RowStep DEF RowMoves, Settled
  <2>2. CASE UNCHANGED vars  BY <2>2
  <2>3. QED BY <1>1, <2>1, <2>2
<1>2. QED BY <1>1, TypeCorrect, InvariantCorrect, PTL DEF Spec, SettledIsFinal

-----------------------------------------------------------------------------
(* The refinement of KnowledgeFileLifecycle *)

\* What LifecycleState says, before a step and after it, status by status.
Reads(st, up, ls) ==
  /\ st = "uploaded"    <=> ls = "pending"
  /\ st = "processing"  <=> ls = "working"
  /\ st = "failed"      <=> ls = "failed"
  /\ st = "ready"       <=> ls = "available"
  /\ st = "dead_letter" <=> ls = "abandoned"
  /\ st = "none" /\ up \in {"committed", "done"} <=> ls = "gone"
  /\ st = "none" /\ up \notin {"committed", "done"} <=> ls = "absent"

LEMMA StateReads ==
  ASSUME TypeOK, TypeOK', NEW f \in Files
  PROVE  /\ Reads(status[f], upload[f], LifecycleState(f))
         /\ Reads(status'[f], upload'[f], LifecycleState(f)')
<1>1. status[f] \in Statuses /\ status'[f] \in Statuses  BY DEF TypeOK
<1>2. QED BY <1>1 DEF Reads, LifecycleState, Statuses

\* A file whose row and request stay as they are stays where it is.
LEMMA SameState ==
  ASSUME NEW f \in Files, status'[f] = status[f],
         upload'[f] = upload[f] \/ status[f] # "none" \/
           (upload[f] \in {"committed", "done"} <=> upload'[f] \in {"committed", "done"})
  PROVE  LifecycleState(f)' = LifecycleState(f)
BY DEF LifecycleState

\* A step that touches the row or the request of one file moves that file only.
LEMMA MoveOne ==
  ASSUME NEW f \in Files, NEW from, NEW to,
         \A g \in Files \ {f} : status'[g] = status[g] /\ upload'[g] = upload[g],
         LifecycleState(f) \in from, LifecycleState(f)' = to
  PROVE  Lifecycle!Move(f, from, to)
<1>1. \A g \in Files \ {f} : LifecycleState(g)' = LifecycleState(g)  BY SameState
<1>2. QED BY <1>1 DEF Lifecycle!Move

\* Chunks are searchable as long as they are there.
LEMMA SearchableChunks ==
  ASSUME IngestionInv, IngestionInv'
  PROVE  Searchable = chunks /\ Searchable' = chunks'
BY DEF IngestionInv, ChunksOnlyWhenReady, Searchable

AbstractVars == <<[f \in Files |-> LifecycleState(f)], Searchable>>
AbstractStutter == UNCHANGED AbstractVars

\* Steps that leave the rows and the chunks alone, and each request on its side
\* of the commit, are not seen by the abstract specification.
LEMMA StutterStep ==
  ASSUME IngestionInv, IngestionInv', UNCHANGED <<status, chunks>>,
         \A f \in Files : \/ upload'[f] = upload[f] \/ status[f] # "none"
                          \/ upload[f] \in {"committed", "done"} <=> upload'[f] \in {"committed", "done"}
  PROVE  AbstractStutter
<1>1. \A f \in Files : LifecycleState(f)' = LifecycleState(f)  BY SameState
<1>2. QED BY <1>1, SearchableChunks DEF AbstractStutter, AbstractVars

\* Each step of an upload request registers, declines, or changes nothing visible.
LEMMA RequestRefines ==
  ASSUME TypeOK, TypeOK', IngestionInv, IngestionInv', NEW f \in Files, UploadOf(f)
  PROVE  Lifecycle!Next \/ AbstractStutter
<1> USE DEF dbVars, workerVars, history, UploadStep
<1>0. /\ upload[f] \in {"admitted", "stored"} => status[f] = "none"
      /\ status[f] = "none" /\ upload[f] \in {"admitted", "stored"} <=>
           LifecycleState(f) = "absent" /\ upload[f] # "none"
  BY StateReads DEF IngestionInv, RowFollowsRequest, Reads, TypeOK, UploadStates
<1>1. CASE AdmitUpload(f)  BY <1>1, StutterStep DEF AdmitUpload, TypeOK
<1>2. CASE StoreBlob(f)  BY <1>2, StutterStep DEF StoreBlob, TypeOK
<1>3. CASE InsertRow(f)
  <2>1. LifecycleState(f) = "absent" /\ LifecycleState(f)' = "pending"
    BY <1>0, <1>3, StateReads DEF InsertRow, TypeOK, Reads
  <2>2. Lifecycle!Move(f, {"absent"}, "pending")  BY <1>3, <2>1, MoveOne DEF InsertRow, TypeOK
  <2>3. QED BY <1>3, <2>2, SearchableChunks DEF InsertRow, Lifecycle!Next, Lifecycle!Register
<1>4. CASE StoreFails(f) \/ InsertFails(f) \/ (ApiCrash(f) /\ upload[f] # "committed")
  <2>1. LifecycleState(f) = "absent" /\ LifecycleState(f)' = "gone"
    BY <1>0, <1>4, StateReads DEF StoreFails, InsertFails, ApiCrash, TypeOK, Reads
  <2>2. Lifecycle!Move(f, {"absent"}, "gone")
    BY <1>4, <2>1, MoveOne DEF StoreFails, InsertFails, ApiCrash, TypeOK
  <2>3. UNCHANGED chunks  BY <1>4 DEF StoreFails, InsertFails, ApiCrash
  <2>4. QED BY <2>2, <2>3, SearchableChunks DEF Lifecycle!Next, Lifecycle!Decline
<1>5. CASE Schedule(f) \/ ScheduleFails(f) \/ (ApiCrash(f) /\ upload[f] = "committed")
  BY <1>5, StutterStep DEF Schedule, ScheduleFails, ApiCrash, TypeOK
<1>6. QED BY <1>1, <1>2, <1>3, <1>4, <1>5 DEF UploadOf

\* Each step of a worker starts, finishes, fails or gives up a file, or nothing.
LEMMA WorkerRefines ==
  ASSUME TypeOK, TypeOK', IngestionInv, IngestionInv', NEW w \in Workers, WorkerOf(w)
  PROVE  Lifecycle!Next \/ AbstractStutter
<1> USE DEF dbVars, workerVars, history
<1>0. pc[w] \in Holding => job[w] \in Files  BY DEF TypeOK
<1>1. CASE Claim(w)
  <2>1. PICK f \in Files : f = job[w]  BY <1>0, <1>1 DEF Claim, At, Holding
  <2>2. LifecycleState(f) \in {"pending", "failed"} /\ LifecycleState(f)' = "working"
    <3>1. status[f] \in {"uploaded", "failed"} /\ status'[f] = "processing"
      BY <1>1, <2>1 DEF Claim, Claimable, TypeOK
    <3>2. QED BY <2>1, <3>1 DEF LifecycleState
  <2>3. Lifecycle!Move(f, {"pending", "failed"}, "working")
    BY <1>1, <2>1, <2>2, MoveOne DEF Claim, TypeOK
  <2>4. QED BY <1>1, <2>1, <2>3, SearchableChunks DEF Claim, Lifecycle!Next, Lifecycle!Start
<1>2. CASE FailRun(w)
  <2>0. PICK f \in Files : f = job[w]  BY <1>0, <1>2 DEF FailRun, Holding
  <2>1. f = job[w] /\ status[f] \in {"processing", "none"} /\ chunks' = chunks
    BY <2>0, <1>2 DEF FailRun, Holding, IngestionInv, ClaimExclusive
  <2>2. CASE status[f] = "none"  BY <1>2, <2>1, <2>2, StutterStep DEF FailRun, MarkFailed
  <2>3. CASE status[f] = "processing"
    <3>1. status'[f] = "failed"  BY <1>2, <2>1, <2>3 DEF FailRun, MarkFailed, TypeOK
    <3>2. LifecycleState(f) = "working" /\ LifecycleState(f)' = "failed"
      BY <2>3, <3>1 DEF LifecycleState
    <3>3. Lifecycle!Move(f, {"working"}, "failed")
      BY <1>2, <2>1, <3>2, MoveOne DEF FailRun, MarkFailed, TypeOK
    <3>4. QED BY <2>1, <3>3, SearchableChunks DEF Lifecycle!Next, Lifecycle!Fail
  <2>4. QED BY <2>1, <2>2, <2>3
<1>3. CASE Persist(w)
  <2>0. PICK f \in Files : f = job[w]  BY <1>0, <1>3 DEF Persist, At, Holding, Running
  <2>1. f = job[w] /\ status[f] \in {"processing", "none"} /\ f \notin chunks
    BY <2>0, <1>3 DEF Persist, At, Holding, Running, IngestionInv, ClaimExclusive, ChunksOnlyWhenReady
  <2>2. CASE status[f] = "none"
    <3>1. chunks' = chunks /\ status' = status  BY <1>3, <2>1, <2>2 DEF Persist
    <3>2. QED BY <1>3, <3>1, StutterStep DEF Persist
  <2>3. CASE status[f] = "processing"
    <3>1. status'[f] = "ready" /\ chunks' \in {chunks, chunks \cup {f}}
      BY <1>3, <2>1, <2>3 DEF Persist, TypeOK
    <3>2. LifecycleState(f) = "working" /\ LifecycleState(f)' = "available"
      BY <2>3, <3>1 DEF LifecycleState
    <3>3. Lifecycle!Move(f, {"working"}, "available")
      BY <1>3, <2>1, <2>3, <3>2, MoveOne DEF Persist, TypeOK
    <3>4. QED BY <2>1, <3>1, <3>3, SearchableChunks DEF Lifecycle!Next, Lifecycle!Finish
  <2>4. QED BY <2>1, <2>2, <2>3
<1>4. CASE Record(w)
  <2>0. PICK f \in Files : f = job[w]  BY <1>0, <1>4 DEF Record, At, Holding
  <2>1. f = job[w] /\ chunks' = chunks /\ upload' = upload  BY <2>0, <1>4 DEF Record
  <2>2. CASE status' = status  BY <2>1, <2>2, StutterStep
  <2>3. CASE status' = MarkDeadLetter(f) /\ status[f] = "failed"
    <3>1. status'[f] = "dead_letter"  BY <2>1, <2>3 DEF MarkDeadLetter, TypeOK
    <3>2. LifecycleState(f) = "failed" /\ LifecycleState(f)' = "abandoned"
      BY <2>3, <3>1 DEF LifecycleState
    <3>3. Lifecycle!Move(f, {"failed"}, "abandoned")
      BY <2>1, <2>3, <3>2, MoveOne DEF MarkDeadLetter, TypeOK
    <3>4. QED BY <2>1, <3>3, SearchableChunks DEF Lifecycle!Next, Lifecycle!GiveUp
  <2>4. QED BY <1>4, <2>1, <2>2, <2>3 DEF Record, MarkDeadLetter
<1>5. CASE UNCHANGED <<status, chunks, upload>>  BY <1>5, StutterStep
<1>6. QED  BY <1>1, <1>2, <1>3, <1>4, <1>5
  DEF WorkerOf, HandleJob, Pop, Skip, Extract, Requeue, RequeueFails, Abandon, Crash, Restart

\* Creating a bot seeds its template; deleting it erases its files.
LEMMA BotRefines ==
  ASSUME TypeOK, TypeOK', IngestionInv, IngestionInv', NEW b \in Bots
  PROVE  /\ DeleteBot(b) => Lifecycle!Next \/ AbstractStutter
         /\ \A T \in SUBSET Files : CreateBot(b, T) => Lifecycle!Next \/ AbstractStutter
<1>1. ASSUME DeleteBot(b) PROVE Lifecycle!Next
  <2> DEFINE F == {f \in FilesOf(b) : LifecycleState(f) # "absent"}
  <2>1. F \in SUBSET Files  BY DEF FilesOf
  <2>2. \A f \in Files : LifecycleState(f)' = IF f \in F THEN "gone" ELSE LifecycleState(f)
    <3>1. \A f \in Files : /\ upload'[f] = upload[f]
                           /\ f \in FilesOf(b) => status'[f] = "none"
                           /\ f \notin FilesOf(b) => status'[f] = status[f]
      BY <1>1 DEF DeleteBot
    <3>2. \A f \in Files : status[f] # "none" => upload[f] \in {"committed", "done"}
      BY DEF IngestionInv, RowFollowsRequest
    <3> SUFFICES ASSUME NEW f \in Files
                 PROVE  LifecycleState(f)' = IF f \in F THEN "gone" ELSE LifecycleState(f)
      OBVIOUS
    <3>3. CASE f \in F
      <4>1. upload'[f] \in {"committed", "done"} /\ status'[f] = "none"
        BY <3>1, <3>2, <3>3, StateReads DEF Reads
      <4>2. QED BY <3>3, <4>1 DEF LifecycleState
    <3>4. CASE f \in FilesOf(b) \ F
      <4>1. status[f] = "none" /\ status'[f] = "none" /\ upload'[f] = upload[f]
        BY <3>1, <3>4, StateReads DEF Reads
      <4>2. QED BY <3>4, <4>1, SameState
    <3>5. CASE f \notin FilesOf(b)  BY <3>1, <3>5, SameState
    <3>6. QED BY <3>3, <3>4, <3>5
  <2>3. chunks' = chunks \ F
    <3>1. \A f \in chunks : f \in Files /\ status[f] = "ready"
      BY DEF IngestionInv, ChunksOnlyWhenReady, TypeOK
    <3>2. \A f \in chunks : LifecycleState(f) # "absent"  BY <3>1, StateReads DEF Reads
    <3>3. QED BY <1>1, <3>2 DEF DeleteBot
  <2>4. Lifecycle!Erase(F)  BY <2>1, <2>2, <2>3, SearchableChunks DEF Lifecycle!Erase, FilesOf
  <2>5. QED BY <2>1, <2>4 DEF Lifecycle!Next
<1>2. ASSUME NEW T \in SUBSET Files, CreateBot(b, T) PROVE Lifecycle!Next \/ AbstractStutter
  <2>1. /\ \A f, g \in T : f = g
        /\ \A f \in T : upload[f] = "none" /\ upload'[f] = "done" /\ status'[f] = "ready"
        /\ \A f \in Files \ T : upload'[f] = upload[f] /\ status'[f] = status[f]
        /\ chunks' = chunks \cup T
    BY <1>2 DEF CreateBot
  <2>2. CASE T = {}  BY <2>1, <2>2, StutterStep DEF TypeOK
  <2>3. ASSUME NEW f \in Files, T = {f} PROVE Lifecycle!Next
    <3>1. LifecycleState(f) = "absent" /\ LifecycleState(f)' = "available"
      BY <2>1, <2>3, StateReads DEF IngestionInv, RowFollowsRequest, Reads
    <3>2. Lifecycle!Move(f, {"absent"}, "available")  BY <2>1, <2>3, <3>1, MoveOne
    <3>3. QED BY <2>1, <2>3, <3>2, SearchableChunks DEF Lifecycle!Next, Lifecycle!Seed
  <2>4. T # {} => \E f \in Files : T = {f}  BY <2>1
  <2>5. QED BY <2>2, <2>3, <2>4
<1>3. QED BY <1>1, <1>2

\* Queue, workers, retries, crashes and cascades give every file the lifecycle
\* of KnowledgeFileLifecycle: each step is one of its steps, or none.
THEOREM LifecycleImplemented == Spec => ImplementsLifecycle
<1>1. Init => Lifecycle!Init  BY DEF Init, Lifecycle!Init, LifecycleState, Searchable
<1>2. ASSUME TypeOK, TypeOK', IngestionInv, IngestionInv', [Next]_vars
      PROVE  Lifecycle!Next \/ UNCHANGED Lifecycle!vars
  <2>1. CASE UNCHANGED vars
    BY <1>2, <2>1, StutterStep DEF vars, dbVars, AbstractStutter, AbstractVars, Lifecycle!vars
  <2>2. CASE Next  BY <1>2, <2>2, BotRefines, RequestRefines, WorkerRefines
    DEF Next, AbstractStutter, AbstractVars, Lifecycle!vars
  <2>3. QED BY <1>2, <2>1, <2>2
<1>3. QED BY <1>1, <1>2, TypeCorrect, InvariantCorrect, PTL DEF Spec, ImplementsLifecycle, Lifecycle!Spec

-----------------------------------------------------------------------------
(***************************************************************************)
(* Runs are bounded: the jobs that can still start a run are counted.      *)
(***************************************************************************)

\* The places of a file in a list are so many as its length at most.
LEMMA PlacesFinite ==
  ASSUME NEW q \in Seq(Files), NEW f
  PROVE  IsFiniteSet(Places(q, f)) /\ Cardinality(Places(q, f)) \in Nat
<1>1. DOMAIN q = 1 .. Len(q) /\ Len(q) \in Nat  BY LenProperties
<1>2. IsFiniteSet(1 .. Len(q)) /\ Places(q, f) \subseteq 1 .. Len(q)  BY <1>1, FS_Interval DEF Places
<1>3. IsFiniteSet(Places(q, f))  BY <1>2, FS_Subset
<1>4. QED BY <1>3, FS_CardinalityType

LEMMA AppendPlaces ==
  ASSUME NEW q \in Seq(Files), NEW g \in Files, NEW f \in Files
  PROVE  Cardinality(Places(Append(q, g), f)) = Cardinality(Places(q, f)) + (IF f = g THEN 1 ELSE 0)
<1>1. DOMAIN q = 1 .. Len(q) /\ Len(q) \in Nat  BY LenProperties
<1>2. /\ DOMAIN Append(q, g) = 1 .. Len(q) + 1
      /\ \A i \in 1 .. Len(q) : Append(q, g)[i] = q[i]
      /\ Append(q, g)[Len(q) + 1] = g
  BY <1>1, AppendProperties, LenProperties
<1>3. IsFiniteSet(Places(q, f)) /\ Cardinality(Places(q, f)) \in Nat  BY PlacesFinite
<1>4. CASE f = g
  <2>1. Places(Append(q, g), f) = Places(q, f) \cup {Len(q) + 1}  BY <1>1, <1>2, <1>4 DEF Places
  <2>2. Len(q) + 1 \notin Places(q, f)  BY <1>1 DEF Places
  <2>3. QED BY <1>3, <1>4, <2>1, <2>2, FS_AddElement
<1>5. CASE f # g
  <2>1. Places(Append(q, g), f) = Places(q, f)  BY <1>1, <1>2, <1>5 DEF Places
  <2>2. QED BY <1>3, <1>5, <2>1
<1>6. QED BY <1>4, <1>5

\* Taking the head away leaves one place less of its file, and no more of any.
LEMMA TailPlaces ==
  ASSUME NEW q \in Seq(Files), q # <<>>, NEW f \in Files
  PROVE  Cardinality(Places(Tail(q), f)) + (IF f = Head(q) THEN 1 ELSE 0) <= Cardinality(Places(q, f))
<1>1. /\ Head(q) = q[1] /\ Tail(q) \in Seq(Files) /\ Len(Tail(q)) = Len(q) - 1
      /\ \A i \in 1 .. Len(Tail(q)) : Tail(q)[i] = q[i + 1]
  BY HeadTailProperties
<1>2. /\ DOMAIN q = 1 .. Len(q) /\ Len(q) \in Nat \ {0} /\ DOMAIN Tail(q) = 1 .. Len(Tail(q))
  BY <1>1, LenProperties, EmptySeq
<1> DEFINE S == Places(Tail(q), f)
           T == Places(q, f) \ {1}
           shift == [i \in S |-> i + 1]
<1>3. IsFiniteSet(Places(q, f)) /\ Cardinality(Places(q, f)) \in Nat  BY PlacesFinite
<1>4. IsFiniteSet(T) /\ Cardinality(T) = IF 1 \in Places(q, f) THEN Cardinality(Places(q, f)) - 1
                                         ELSE Cardinality(Places(q, f))
  BY <1>3, FS_RemoveElement
<1>5. \A i \in S : i \in Nat /\ i + 1 \in T  BY <1>1, <1>2 DEF Places
<1>6. shift \in Injection(S, T)
  <2>1. shift \in [S -> T]  BY <1>5
  <2>2. \A i, j \in S : shift[i] = shift[j] => i = j  BY <1>5
  <2>3. QED BY <2>1, <2>2 DEF Injection, IsInjective
<1>7. Cardinality(S) <= Cardinality(T)
  <2> HIDE DEF S, T, shift
  <2>1. QED BY <1>4, <1>6, FS_Injection
<1>8. f = Head(q) <=> 1 \in Places(q, f)  BY <1>1, <1>2 DEF Places
<1>9. Cardinality(S) \in Nat  BY <1>1, PlacesFinite
<1>10. QED BY <1>3, <1>4, <1>7, <1>8, <1>9

\* A push adds one job, and one more for each job that it is resent.
LEMMA PushPlaces ==
  ASSUME NEW g \in Files, queue \in Seq(Files), resent \in Nat, Push(g), NEW f \in Files
  PROVE  /\ resent' \in Nat /\ resent <= resent'
         /\ Cardinality(Places(queue', f)) + resent
              <= Cardinality(Places(queue, f)) + (IF f = g THEN 1 ELSE 0) + resent'
<1>1. CASE queue' = Append(queue, g) /\ UNCHANGED resent
  <2>1. Cardinality(Places(queue', f)) = Cardinality(Places(queue, f)) + (IF f = g THEN 1 ELSE 0)
    BY <1>1, AppendPlaces
  <2>2. Cardinality(Places(queue, f)) \in Nat  BY PlacesFinite
  <2>3. QED BY <1>1, <2>1, <2>2
<1>2. CASE queue' = queue \o <<g, g>> /\ resent' = resent + 1
  <2> DEFINE one == Append(queue, g)
  <2>1. one \in Seq(Files) /\ queue' = Append(one, g)
    <3>1. one \in Seq(Files)  BY AppendProperties
    <3>2. queue \o <<g, g>> = Append(one, g)  OBVIOUS
    <3>3. QED BY <1>2, <3>1, <3>2
  <2>2. Cardinality(Places(one, f)) = Cardinality(Places(queue, f)) + (IF f = g THEN 1 ELSE 0)
    BY AppendPlaces
  <2> HIDE DEF one
  <2>3. Cardinality(Places(queue', f)) = Cardinality(Places(one, f)) + (IF f = g THEN 1 ELSE 0)
    BY <2>1, AppendPlaces
  <2>4. Cardinality(Places(queue, f)) \in Nat  BY PlacesFinite
  <2>5. QED BY <1>2, <2>2, <2>3, <2>4
<1>3. resent' \in Nat /\ resent <= resent'  BY DEF Push
<1>4. QED BY <1>1, <1>2, <1>3 DEF Push

LEMMA PushRaisesPlaces ==
  ASSUME NEW g \in Files, queue \in Seq(Files), PushRaises(g), NEW f \in Files
  PROVE  Cardinality(Places(queue', f)) <= Cardinality(Places(queue, f)) + (IF f = g THEN 1 ELSE 0)
<1>1. Cardinality(Places(queue, f)) \in Nat  BY PlacesFinite
<1>2. CASE queue' = queue  BY <1>1, <1>2
<1>3. CASE queue' = Append(queue, g)
  <2>1. Cardinality(Places(queue', f)) = Cardinality(Places(queue, f)) + (IF f = g THEN 1 ELSE 0)
    BY <1>3, AppendPlaces
  <2>2. QED BY <1>1, <2>1
<1>4. QED BY <1>2, <1>3 DEF PushRaises

\* What one worker does changes only whether it is itself among those with a job to run.
Waits(at, holds, w, f) == IF at[w] \in {"popped", "retry"} /\ holds[w] = f THEN 1 ELSE 0

LEMMA WaitingMoves ==
  ASSUME IsFiniteSet(Workers), NEW w \in Workers, NEW f, NEW at, NEW holds, NEW at2, NEW holds2,
         \A v \in Workers : v # w => at2[v] = at[v] /\ holds2[v] = holds[v]
  PROVE  /\ Cardinality(Waiting(at, holds, f)) \in Nat /\ Cardinality(Waiting(at2, holds2, f)) \in Nat
         /\ Cardinality(Waiting(at2, holds2, f)) + Waits(at, holds, w, f)
              = Cardinality(Waiting(at, holds, f)) + Waits(at2, holds2, w, f)
<1> DEFINE A == Waiting(at, holds, f)
           B == Waiting(at2, holds2, f)
<1>1. A \ {w} = B \ {w}  BY DEF Waiting
<1>2. IsFiniteSet(A) /\ IsFiniteSet(B)  BY FS_Subset DEF Waiting
<1>3. /\ Waits(at, holds, w, f) = IF w \in A THEN 1 ELSE 0
      /\ Waits(at2, holds2, w, f) = IF w \in B THEN 1 ELSE 0
  BY DEF Waits, Waiting
<1> HIDE DEF A, B
<1>4. Cardinality(A) \in Nat /\ Cardinality(B) \in Nat  BY <1>2, FS_CardinalityType
<1>5. Cardinality(A \ {w}) = IF w \in A THEN Cardinality(A) - 1 ELSE Cardinality(A)
  BY <1>2, FS_RemoveElement
<1>6. Cardinality(B \ {w}) = IF w \in B THEN Cardinality(B) - 1 ELSE Cardinality(B)
  BY <1>2, FS_RemoveElement
<1>7. Cardinality(B) + Waits(at, holds, w, f) = Cardinality(A) + Waits(at2, holds2, w, f)
  BY <1>1, <1>3, <1>4, <1>5, <1>6, SMTT(30)
<1>8. QED BY <1>4, <1>7 DEF A, B

\* The jobs of a file after a step, which may not be more than before but for resent ones.
ScheduleAfter(f) == IF upload'[f] = "done" THEN 0 ELSE 1
JobsAfter(f) == Cardinality(Places(queue', f)) + Cardinality(Waiting(pc', job', f)) + ScheduleAfter(f)

NoMoreJobs ==
  /\ UNCHANGED runs /\ resent' \in Nat /\ resent <= resent'
  /\ \A f \in Files :
       /\ upload'[f] # "done" => upload[f] # "done"
       /\ status'[f] \in Unsettled => status[f] \in Unsettled /\ failures'[f] = failures[f]
       /\ status'[f] \in Unsettled => JobsAfter(f) + resent <= Jobs(f) + resent'

\* The same with the retries that a step has counted.
RetriesAfter(f) == IF failures'[f] < MaxAttempts THEN failures'[f] ELSE MaxAttempts - 1

JobsCounted ==
  /\ UNCHANGED runs /\ resent' \in Nat /\ resent <= resent'
  /\ \A f \in Files :
       /\ upload'[f] # "done" => upload[f] # "done"
       /\ status'[f] \in Unsettled =>
            /\ status[f] \in Unsettled
            /\ JobsAfter(f) + resent + Retries(f) <= Jobs(f) + resent' + RetriesAfter(f)

LEMMA JobsAreNumbers ==
  ASSUME TypeOK, IsFiniteSet(Workers), NEW f
  PROVE  /\ Cardinality(Places(queue, f)) \in Nat /\ Cardinality(Waiting(pc, job, f)) \in Nat
         /\ Jobs(f) \in Nat
<1>1. Cardinality(Places(queue, f)) \in Nat  BY PlacesFinite DEF TypeOK
<1>2. IsFiniteSet(Waiting(pc, job, f))  BY FS_Subset DEF Waiting
<1>3. Cardinality(Waiting(pc, job, f)) \in Nat  BY <1>2, FS_CardinalityType
<1>4. QED BY <1>1, <1>3 DEF Jobs, ToSchedule

LEMMA RetriesBounded ==
  ASSUME TypeOK, NEW f \in Files
  PROVE  Retries(f) \in Nat /\ Retries(f) <= MaxAttempts - 1
BY DEF TypeOK, Retries

LEMMA JobsAfterAreNumbers ==
  ASSUME TypeOK', IsFiniteSet(Workers), NEW f
  PROVE  JobsAfter(f) \in Nat
<1>1. queue' \in Seq(Files)  BY DEF TypeOK
<1>2. Cardinality(Places(queue', f)) \in Nat  BY <1>1, PlacesFinite
<1>3. IsFiniteSet(Waiting(pc', job', f))  BY FS_Subset DEF Waiting
<1>4. Cardinality(Waiting(pc', job', f)) \in Nat  BY <1>3, FS_CardinalityType
<1>5. QED BY <1>2, <1>4 DEF JobsAfter, ScheduleAfter

LEMMA NoMoreIsCounted ==
  ASSUME TypeOK, TypeOK', IsFiniteSet(Workers), NoMoreJobs
  PROVE  JobsCounted
<1>1. ASSUME NEW f \in Files, status'[f] \in Unsettled
      PROVE  JobsAfter(f) + resent + Retries(f) <= Jobs(f) + resent' + RetriesAfter(f)
  <2>1. JobsAfter(f) + resent <= Jobs(f) + resent' /\ RetriesAfter(f) = Retries(f)
    BY <1>1 DEF NoMoreJobs, Retries, RetriesAfter
  <2>2. JobsAfter(f) \in Nat /\ Jobs(f) \in Nat /\ Retries(f) \in Nat
    BY JobsAfterAreNumbers, JobsAreNumbers, RetriesBounded
  <2>3. resent \in Nat /\ resent' \in Nat  BY DEF TypeOK
  <2>4. QED BY <2>1, <2>2, <2>3
<1>2. QED BY <1>1 DEF NoMoreJobs, JobsCounted

LEMMA RunsStay ==
  ASSUME TypeOK, TypeOK', IsFiniteSet(Workers), RunsInv, JobsCounted
  PROVE  RunsInv'
<1>1. /\ resent \in Nat /\ resent' \in Nat /\ resent <= resent' /\ runs' = runs
      /\ \A f \in Files : runs[f] \in Nat /\ failures'[f] \in Nat
  BY DEF TypeOK, JobsCounted
<1>2. ASSUME NEW f \in Files PROVE runs'[f] <= MaxAttempts + resent'  BY <1>1 DEF RunsInv, RunsBounded
<1>3. ASSUME NEW f \in Files, upload'[f] # "done" PROVE runs'[f] = 0
  BY <1>1, <1>3 DEF RunsInv, JobsCounted
<1>4. ASSUME NEW f \in Files, status'[f] \in Unsettled
      PROVE  runs'[f] + JobsAfter(f) <= 1 + resent' + RetriesAfter(f)
  <2>1. /\ runs[f] + Jobs(f) <= 1 + resent + Retries(f)
        /\ JobsAfter(f) + resent + Retries(f) <= Jobs(f) + resent' + RetriesAfter(f)
    BY <1>4 DEF RunsInv, JobsCounted
  <2>2. Jobs(f) \in Nat /\ Retries(f) \in Nat /\ JobsAfter(f) \in Nat
    BY JobsAreNumbers, RetriesBounded, JobsAfterAreNumbers
  <2>3. RetriesAfter(f) \in Nat  BY <1>1 DEF RetriesAfter
  <2>4. QED BY <1>1, <2>1, <2>2, <2>3
<1>5. QED BY <1>2, <1>3, <1>4
          DEF RunsInv, RunsBounded, Jobs, JobsAfter, ToSchedule, ScheduleAfter, Retries, RetriesAfter

\* The request: a push takes the place of the job that was to be scheduled.
LEMMA RequestJobs ==
  ASSUME TypeOK, IsFiniteSet(Workers), NEW g \in Files,
         \/ AdmitUpload(g) \/ StoreBlob(g) \/ StoreFails(g) \/ InsertFails(g)
         \/ Schedule(g) \/ ScheduleFails(g) \/ ApiCrash(g)
  PROVE  NoMoreJobs
<1>1. /\ UNCHANGED <<runs, status, failures, pc, job>> /\ resent' \in Nat /\ resent <= resent' /\ resent \in Nat
      /\ \A f \in Files : upload'[f] # "done" => upload[f] # "done"
  <2>1. CASE AdmitUpload(g) \/ StoreBlob(g) \/ StoreFails(g) \/ InsertFails(g) \/ ApiCrash(g)
    BY <2>1 DEF AdmitUpload, StoreBlob, StoreFails, InsertFails, ApiCrash, UploadStep, TypeOK,
                dbVars, workerVars, history
  <2>2. CASE Schedule(g) \/ ScheduleFails(g)
    BY <2>2 DEF Schedule, ScheduleFails, Push, PushRaises, UploadStep, TypeOK, dbVars, workerVars
  <2>3. QED BY <2>1, <2>2
<1>2. ASSUME NEW f \in Files PROVE JobsAfter(f) + resent <= Jobs(f) + resent'
  <2>1. /\ Cardinality(Places(queue, f)) \in Nat /\ Cardinality(Waiting(pc, job, f)) \in Nat
    BY JobsAreNumbers
  <2>2. ScheduleAfter(f) <= ToSchedule(f) /\ ScheduleAfter(f) \in Nat /\ ToSchedule(f) \in Nat
    BY <1>1 DEF ScheduleAfter, ToSchedule
  <2>3. CASE AdmitUpload(g) \/ StoreBlob(g) \/ StoreFails(g) \/ InsertFails(g) \/ ApiCrash(g)
    <3>1. queue' = queue
      BY <2>3 DEF AdmitUpload, StoreBlob, StoreFails, InsertFails, ApiCrash, dbVars, workerVars, history
    <3>2. QED BY <1>1, <2>1, <2>2, <3>1 DEF JobsAfter, Jobs
  <2>4. CASE Schedule(g) \/ ScheduleFails(g)
    <3>1. f = g => ScheduleAfter(f) = 0 /\ ToSchedule(f) = 1
      BY <2>4 DEF Schedule, ScheduleFails, UploadStep, TypeOK, ScheduleAfter, ToSchedule
    <3>2. Cardinality(Places(queue', f)) + resent <= Cardinality(Places(queue, f)) + (IF f = g THEN 1 ELSE 0) + resent'
      <4>1. CASE Schedule(g)
        <5>1. Push(g) /\ queue \in Seq(Files) /\ resent \in Nat  BY <4>1 DEF Schedule, TypeOK
        <5>2. QED BY <5>1, PushPlaces
      <4>2. CASE ScheduleFails(g)
        <5>1. PushRaises(g) /\ queue \in Seq(Files) /\ resent' = resent
          BY <4>2 DEF ScheduleFails, PushRaises, TypeOK
        <5>2. Cardinality(Places(queue', f)) <= Cardinality(Places(queue, f)) + (IF f = g THEN 1 ELSE 0)
          BY <5>1, PushRaisesPlaces
        <5>3. Cardinality(Places(queue', f)) \in Nat
          <6>1. queue' \in Seq(Files)  BY <5>1, PushRaisesAdds
          <6>2. QED BY <6>1, PlacesFinite
        <5>4. QED BY <1>1, <2>1, <5>1, <5>2, <5>3
      <4>3. QED BY <2>4, <4>1, <4>2
    <3>3. Cardinality(Places(queue', f)) \in Nat
      <4>1. queue' \in Seq(Files)  BY <2>4, PushAdds, PushRaisesAdds DEF Schedule, ScheduleFails, TypeOK
      <4>2. QED BY <4>1, PlacesFinite
    <3>4. QED BY <1>1, <2>1, <2>2, <3>1, <3>2, <3>3 DEF JobsAfter, Jobs
  <2>5. QED BY <2>3, <2>4
<1>3. QED BY <1>1, <1>2 DEF NoMoreJobs

\* Bots: their rows are settled or gone.
LEMMA BotJobs ==
  ASSUME TypeOK, IsFiniteSet(Workers), NEW b \in Bots, NEW T \in SUBSET Files, CreateBot(b, T) \/ DeleteBot(b)
  PROVE  NoMoreJobs
<1>1. /\ UNCHANGED <<runs, resent, queue, pc, job>> /\ resent \in Nat
      /\ \A f \in Files : upload'[f] # "done" => upload[f] # "done"
      /\ \A f \in Files : status'[f] \in Unsettled => status'[f] = status[f] /\ failures'[f] = failures[f]
  <2>1. CASE CreateBot(b, T)  BY <2>1 DEF CreateBot, TypeOK, workerVars, history, Unsettled
  <2>2. CASE DeleteBot(b)  BY <2>2 DEF DeleteBot, TypeOK, workerVars, history, Unsettled
  <2>3. QED BY <2>1, <2>2
<1>2. ASSUME NEW f \in Files PROVE JobsAfter(f) <= Jobs(f) /\ JobsAfter(f) \in Nat /\ Jobs(f) \in Nat
  <2>1. /\ Cardinality(Places(queue, f)) \in Nat /\ Cardinality(Waiting(pc, job, f)) \in Nat
    BY JobsAreNumbers
  <2>2. ScheduleAfter(f) <= ToSchedule(f) /\ ScheduleAfter(f) \in Nat /\ ToSchedule(f) \in Nat
    BY <1>1 DEF ScheduleAfter, ToSchedule
  <2>3. QED BY <1>1, <2>1, <2>2 DEF JobsAfter, Jobs
<1>3. QED BY <1>1, <1>2 DEF NoMoreJobs

\* A worker's step: what it takes from the queue it has in hand, what it gives back it has not.
LEMMA WorkerJobs ==
  ASSUME TypeOK, IngestionInv, IsFiniteSet(Workers), NEW w \in Workers,
         \/ Pop(w) \/ Skip(w) \/ Extract(w) \/ FailRun(w) \/ Persist(w)
         \/ Requeue(w) \/ RequeueFails(w) \/ Abandon(w) \/ Crash(w) \/ Restart(w)
  PROVE  NoMoreJobs
<1> USE DEF At, Goto, Leave
<1>1. \A v \in Workers : v # w => pc'[v] = pc[v] /\ job'[v] = job[v]
  BY DEF TypeOK, Pop, Skip, Extract, FailRun, Persist, Requeue, RequeueFails, Abandon, Crash, Restart
<1>2. UNCHANGED <<runs, upload>> /\ resent' \in Nat /\ resent <= resent' /\ resent \in Nat
  <2>1. CASE Requeue(w) \/ RequeueFails(w)  BY <2>1 DEF Requeue, RequeueFails, Push, PushRaises, TypeOK
  <2>2. CASE \/ Pop(w) \/ Skip(w) \/ Extract(w) \/ FailRun(w) \/ Persist(w)
             \/ Abandon(w) \/ Crash(w) \/ Restart(w)
    BY <2>2 DEF Pop, Skip, Extract, FailRun, Persist, Abandon, Crash, Restart, history, TypeOK
  <2>3. QED BY <2>1, <2>2
<1>3. ASSUME NEW f \in Files, status'[f] \in Unsettled
      PROVE  status[f] \in Unsettled /\ failures'[f] = failures[f]
  <2>1. CASE FailRun(w)
    <3>1. status[job[w]] \in {"processing", "none"} /\ failures' = failures
      BY <2>1 DEF FailRun, IngestionInv, ClaimExclusive
    <3>2. QED BY <1>3, <2>1, <3>1 DEF FailRun, MarkFailed, TypeOK, Unsettled
  <2>2. CASE Persist(w)  BY <1>3, <2>2 DEF Persist, TypeOK, Unsettled
  <2>3. CASE \/ Pop(w) \/ Skip(w) \/ Extract(w) \/ Requeue(w) \/ RequeueFails(w)
             \/ Abandon(w) \/ Crash(w) \/ Restart(w)
    BY <1>3, <2>3 DEF Pop, Skip, Extract, Requeue, RequeueFails, Abandon, Crash, Restart, dbVars
  <2>4. QED BY <2>1, <2>2, <2>3
<1>4. ASSUME NEW f \in Files PROVE JobsAfter(f) + resent <= Jobs(f) + resent'
  <2> DEFINE Q == Cardinality(Places(queue, f))
             Qn == Cardinality(Places(queue', f))
             W == Cardinality(Waiting(pc, job, f))
             Wn == Cardinality(Waiting(pc', job', f))
             before == Waits(pc, job, w, f)
             after == Waits(pc', job', w, f)
  <2>1. W \in Nat /\ Wn \in Nat /\ Wn + before = W + after  BY <1>1, WaitingMoves
  <2>2. Q \in Nat  BY JobsAreNumbers
  <2>3. before \in {0, 1} /\ after \in {0, 1}  BY DEF Waits
  <2>4. ScheduleAfter(f) = ToSchedule(f) /\ ToSchedule(f) \in {0, 1}
    BY <1>2 DEF ScheduleAfter, ToSchedule
  <2>5. CASE Pop(w)
    <3>1. queue \in Seq(Files) /\ queue # << >> /\ queue' = Tail(queue) /\ resent' = resent
      BY <2>5 DEF Pop, TypeOK, history
    <3>2. Qn + (IF f = Head(queue) THEN 1 ELSE 0) <= Q  BY <3>1, TailPlaces
    <3>3. after = IF f = Head(queue) THEN 1 ELSE 0  BY <2>5 DEF Pop, TypeOK, Waits
    <3>4. queue' \in Seq(Files)  BY <3>1, PopTakes
    <3>5. Qn \in Nat  BY <3>4, PlacesFinite
    <3> HIDE DEF Q, Qn, W, Wn, before, after
    <3>6. QED BY <1>2, <2>1, <2>2, <2>3, <2>4, <3>1, <3>2, <3>3, <3>5, SMTT(30) DEF JobsAfter, Jobs, Q, Qn, W, Wn
  <2>6. CASE Requeue(w) \/ RequeueFails(w)
    <3>1. before = (IF f = job[w] THEN 1 ELSE 0) /\ after = 0
      <4>1. pc'[w] = "idle" /\ pc[w] = "retry"  BY <2>6 DEF Requeue, RequeueFails, TypeOK
      <4>2. QED BY <4>1 DEF Waits
    <3>2. job[w] \in Files /\ queue \in Seq(Files)  BY <2>6 DEF Requeue, RequeueFails, TypeOK, Holding
    <3>3. queue' \in Seq(Files)
      BY <2>6, <3>2, PushAdds, PushRaisesAdds DEF Requeue, RequeueFails, TypeOK
    <3>4. Qn \in Nat  BY <3>3, PlacesFinite
    <3>5. Qn + resent <= Q + (IF f = job[w] THEN 1 ELSE 0) + resent'
      <4>1. CASE Requeue(w)  BY <1>2, <3>2, <4>1, PushPlaces DEF Requeue
      <4>2. CASE RequeueFails(w)
        <5>1. PushRaises(job[w]) /\ resent' = resent  BY <4>2 DEF RequeueFails, PushRaises
        <5>2. Qn <= Q + (IF f = job[w] THEN 1 ELSE 0)  BY <3>2, <5>1, PushRaisesPlaces
        <5> HIDE DEF Q, Qn
        <5>3. QED BY <1>2, <2>2, <3>4, <5>1, <5>2
      <4>3. QED BY <2>6, <4>1, <4>2
    <3> HIDE DEF Q, Qn, W, Wn, before, after
    <3>6. QED BY <1>2, <2>1, <2>2, <2>4, <3>1, <3>4, <3>5 DEF JobsAfter, Jobs, Q, Qn, W, Wn
  <2>7. CASE \/ Skip(w) \/ Extract(w) \/ FailRun(w) \/ Persist(w) \/ Abandon(w) \/ Crash(w) \/ Restart(w)
    <3>1. queue' = queue /\ pc'[w] \in {"idle", "extracted", "failed", "down"}
      BY <2>7 DEF Skip, Extract, FailRun, Persist, Abandon, Crash, Restart, TypeOK
    <3>2. after = 0 /\ Qn = Q  BY <3>1 DEF Waits
    <3> HIDE DEF Q, Qn, W, Wn, before, after
    <3>3. QED BY <1>2, <2>1, <2>2, <2>3, <2>4, <3>2 DEF JobsAfter, Jobs, Q, Qn, W, Wn
  <2>8. QED BY <2>5, <2>6, <2>7
<1>5. QED BY <1>2, <1>3, <1>4 DEF NoMoreJobs

\* The bookkeeping of a failed run: a retry is one job more, and a counted failure.
LEMMA RecordJobs ==
  ASSUME TypeOK, TypeOK', IsFiniteSet(Workers), NEW w \in Workers, Record(w)
  PROVE  JobsCounted
<1> USE DEF At, Goto, Leave
<1> DEFINE g == job[w]
           n == failures[g] + 1
<1>1. /\ \A v \in Workers : v # w => pc'[v] = pc[v] /\ job'[v] = job[v]
      /\ UNCHANGED <<runs, upload, resent, queue>> /\ resent \in Nat /\ pc[w] = "failed" /\ g \in Files
      /\ failures[g] \in Nat
  BY DEF Record, TypeOK, history, Holding
<1>2. ASSUME NEW f \in Files, status'[f] \in Unsettled PROVE status[f] \in Unsettled
  BY <1>2 DEF Record, MarkDeadLetter, TypeOK, Unsettled
<1>3. ASSUME NEW f \in Files
      PROVE  JobsAfter(f) + Retries(f) <= Jobs(f) + RetriesAfter(f)
  <2> DEFINE Q == Cardinality(Places(queue, f))
             W == Cardinality(Waiting(pc, job, f))
             Wn == Cardinality(Waiting(pc', job', f))
             before == Waits(pc, job, w, f)
             after == Waits(pc', job', w, f)
  <2>1. W \in Nat /\ Wn \in Nat /\ Wn + before = W + after /\ before = 0
    BY <1>1, WaitingMoves DEF Waits
  <2>2. Q \in Nat /\ Retries(f) \in Nat  BY JobsAreNumbers, RetriesBounded
  <2>3. ScheduleAfter(f) = ToSchedule(f) /\ ToSchedule(f) \in {0, 1}
    BY <1>1 DEF ScheduleAfter, ToSchedule
  <2>4. Retries(f) + after <= RetriesAfter(f) /\ RetriesAfter(f) \in Nat /\ after \in Nat
    <3>1. failures[f] \in Nat /\ failures'[f] \in Nat /\ MaxAttempts \in Nat \ {0}  BY DEF TypeOK
    <3>2. CASE after = 0
      <4>1. failures' = failures \/ failures' = [failures EXCEPT ![g] = n]  BY DEF Record
      <4>2. failures[f] <= failures'[f]
        <5>1. CASE failures' = failures  BY <3>1, <5>1
        <5>2. CASE failures' = [failures EXCEPT ![g] = n]
          <6>1. failures \in [Files -> Nat]  BY DEF TypeOK
          <6>2. failures'[f] = (IF f = g THEN failures[g] + 1 ELSE failures[f])  BY <5>2, <6>1
          <6>3. QED BY <3>1, <6>2
        <5>3. QED BY <4>1, <5>1, <5>2
      <4>3. QED BY <3>1, <3>2, <4>2 DEF Retries, RetriesAfter
    <3>3. CASE after # 0
      <4>1. pc'[w] \in {"popped", "retry"} /\ job'[w] = f /\ after = 1  BY <3>3 DEF Waits
      <4>2. pc'[w] = "retry" /\ job'[w] = job[w] /\ ~ GivesUp(n) /\ failures' = [failures EXCEPT ![g] = n]
        BY <1>1, <4>1 DEF Record, TypeOK
      <4>3. f = g /\ failures'[f] = failures[f] + 1 /\ failures[f] + 1 < MaxAttempts
        BY <1>1, <3>1, <4>1, <4>2 DEF GivesUp, TypeOK
      <4>4. QED BY <3>1, <4>1, <4>3 DEF Retries, RetriesAfter
    <3>4. QED BY <3>2, <3>3
  <2> HIDE DEF Q, W, Wn, before, after
  <2>5. JobsAfter(f) = Q + Wn + ToSchedule(f) /\ Jobs(f) = Q + W + ToSchedule(f)
    BY <1>1, <2>3 DEF JobsAfter, Jobs, Q, W, Wn
  <2>6. QED BY <2>1, <2>2, <2>3, <2>4, <2>5
<1>4. ASSUME NEW f \in Files
      PROVE  JobsAfter(f) + resent + Retries(f) <= Jobs(f) + resent' + RetriesAfter(f)
  <2>1. JobsAfter(f) \in Nat /\ Jobs(f) \in Nat /\ Retries(f) \in Nat
    BY JobsAfterAreNumbers, JobsAreNumbers, RetriesBounded
  <2>2. RetriesAfter(f) \in Nat  BY DEF RetriesAfter, TypeOK
  <2>3. QED BY <1>1, <1>3, <2>1, <2>2
<1>5. QED BY <1>1, <1>2, <1>4 DEF JobsCounted

\* A claim starts the run of one of the jobs.
LEMMA ClaimCounts ==
  ASSUME TypeOK, TypeOK', IngestionInv, RunsInv, IsFiniteSet(Workers), NEW w \in Workers, Claim(w)
  PROVE  RunsInv'
<1> USE DEF At, Goto
<1> DEFINE g == job[w]
<1>1. /\ \A v \in Workers : v # w => pc'[v] = pc[v] /\ job'[v] = job[v]
      /\ UNCHANGED <<upload, resent, queue, failures>> /\ resent \in Nat
      /\ pc[w] = "popped" /\ pc'[w] = "claimed" /\ g \in Files
      /\ \A f \in Files : runs[f] \in Nat /\ runs'[f] = IF f = g THEN runs[f] + 1 ELSE runs[f]
      /\ status[g] \in Unsettled /\ \A f \in Files : f # g => status'[f] = status[f]
  BY DEF Claim, TypeOK, Holding, Claimable, Unsettled
<1>2. upload[g] = "done"
  <2>1. g \in InHand  BY <1>1 DEF InHand, Held, Holding
  <2>2. QED BY <1>1, <2>1 DEF IngestionInv, JobFollowsRequest
<1>3. ASSUME NEW f \in Files PROVE JobsAfter(f) + (IF f = g THEN 1 ELSE 0) = Jobs(f)
  <2> DEFINE Q == Cardinality(Places(queue, f))
             W == Cardinality(Waiting(pc, job, f))
             Wn == Cardinality(Waiting(pc', job', f))
             before == Waits(pc, job, w, f)
             after == Waits(pc', job', w, f)
  <2>1. W \in Nat /\ Wn \in Nat /\ Wn + before = W + after /\ after = 0  BY <1>1, WaitingMoves DEF Waits
  <2>2. Q \in Nat /\ before = IF f = g THEN 1 ELSE 0  BY <1>1, JobsAreNumbers DEF Waits
  <2>3. ScheduleAfter(f) = ToSchedule(f) /\ ToSchedule(f) \in {0, 1}
    BY <1>1 DEF ScheduleAfter, ToSchedule
  <2> HIDE DEF Q, W, Wn, before, after, g
  <2>4. JobsAfter(f) = Q + Wn + ToSchedule(f) /\ Jobs(f) = Q + W + ToSchedule(f)
    BY <1>1, <2>3 DEF JobsAfter, Jobs, Q, W, Wn
  <2>5. QED BY <2>1, <2>2, <2>3, <2>4
<1>4. ASSUME NEW f \in Files, status'[f] \in Unsettled
      PROVE  /\ runs'[f] + JobsAfter(f) <= 1 + resent' + RetriesAfter(f)
             /\ f = g => runs'[f] <= MaxAttempts + resent'
  <2>1. status[f] \in Unsettled  BY <1>1, <1>4
  <2>2. runs[f] + Jobs(f) <= 1 + resent + Retries(f)  BY <2>1 DEF RunsInv
  <2>3. JobsAfter(f) \in Nat /\ Jobs(f) \in Nat /\ Retries(f) \in Nat /\ Retries(f) <= MaxAttempts - 1
    BY JobsAfterAreNumbers, JobsAreNumbers, RetriesBounded
  <2>4. RetriesAfter(f) = Retries(f)  BY <1>1 DEF Retries, RetriesAfter
  <2> HIDE DEF g
  <2>5. QED BY <1>1, <1>3, <2>2, <2>3, <2>4
<1>5. ASSUME NEW f \in Files PROVE runs'[f] <= MaxAttempts + resent'
  <2>1. CASE f = g
    <3>1. status'[f] \in Unsettled  BY <1>1, <2>1 DEF Claim, TypeOK, Unsettled
    <3>2. QED BY <1>4, <2>1, <3>1
  <2>2. CASE f # g  BY <1>1, <2>2 DEF RunsInv, RunsBounded
  <2>3. QED BY <2>1, <2>2
<1>6. ASSUME NEW f \in Files, upload'[f] # "done" PROVE runs'[f] = 0  BY <1>1, <1>2, <1>6 DEF RunsInv
<1>7. QED BY <1>4, <1>5, <1>6
          DEF RunsInv, RunsBounded, Jobs, JobsAfter, ToSchedule, ScheduleAfter, Retries, RetriesAfter

\* A new row has one job to come, and no other.
LEMMA InsertCounts ==
  ASSUME TypeOK, TypeOK', IngestionInv, RunsInv, IsFiniteSet(Workers), NEW g \in Files, InsertRow(g)
  PROVE  RunsInv'
<1>1. /\ UNCHANGED <<resent, queue, pc, job, runs>> /\ resent \in Nat
      /\ upload[g] = "stored" /\ \A f \in Files : f # g => upload'[f] = upload[f] /\ status'[f] = status[f]
                                                          /\ failures'[f] = failures[f]
      /\ \A f \in Files : runs[f] \in Nat
  BY DEF InsertRow, UploadStep, TypeOK, workerVars, history
<1>2. Places(queue, g) = {} /\ Waiting(pc, job, g) = {}
  <2>1. g \notin InHand  BY <1>1 DEF IngestionInv, JobFollowsRequest
  <2>2. QED BY <2>1 DEF InHand, Queued, Held, Holding, Places, Waiting
<1>3. runs[g] = 0  BY <1>1 DEF RunsInv
<1>4. ASSUME NEW f \in Files PROVE runs'[f] <= MaxAttempts + resent'  BY <1>1 DEF RunsInv, RunsBounded
<1>5. ASSUME NEW f \in Files, upload'[f] # "done" PROVE runs'[f] = 0  BY <1>1, <1>3, <1>5 DEF RunsInv
<1>6. ASSUME NEW f \in Files, status'[f] \in Unsettled
      PROVE  runs'[f] + JobsAfter(f) <= 1 + resent' + RetriesAfter(f)
  <2>1. CASE f = g
    <3>1. Cardinality(Places(queue', g)) = 0 /\ Cardinality(Waiting(pc', job', g)) = 0
      BY <1>1, <1>2, FS_EmptySet
    <3>2. JobsAfter(g) \in {0, 1}  BY <3>1 DEF JobsAfter, ScheduleAfter
    <3>3. RetriesAfter(g) \in Nat  BY DEF RetriesAfter, TypeOK
    <3>4. QED BY <1>1, <1>3, <2>1, <3>2, <3>3
  <2>2. CASE f # g
    <3>1. JobsAfter(f) = Jobs(f) /\ RetriesAfter(f) = Retries(f) /\ status[f] \in Unsettled
      BY <1>1, <1>6, <2>2 DEF JobsAfter, Jobs, ScheduleAfter, ToSchedule, Retries, RetriesAfter
    <3>2. QED BY <1>1, <3>1 DEF RunsInv
  <2>3. QED BY <2>1, <2>2
<1>7. QED BY <1>4, <1>5, <1>6
          DEF RunsInv, RunsBounded, Jobs, JobsAfter, ToSchedule, ScheduleAfter, Retries, RetriesAfter

LEMMA RunsInductive ==
  ASSUME TypeOK, TypeOK', IngestionInv, RunsInv, IsFiniteSet(Workers), [Next]_vars
  PROVE  RunsInv'
<1>1. CASE UNCHANGED vars
  BY <1>1 DEF vars, dbVars, workerVars, history, RunsInv, RunsBounded, Jobs, ToSchedule, Retries
<1>2. ASSUME NEW b \in Bots, NEW T \in SUBSET Files, CreateBot(b, T) \/ DeleteBot(b) PROVE RunsInv'
  <2>1. NoMoreJobs  BY <1>2, BotJobs
  <2>2. QED BY <2>1, NoMoreIsCounted, RunsStay
<1>3. ASSUME NEW g \in Files, UploadOf(g) PROVE RunsInv'
  <2>1. CASE InsertRow(g)  BY <2>1, InsertCounts
  <2>2. CASE \/ AdmitUpload(g) \/ StoreBlob(g) \/ StoreFails(g) \/ InsertFails(g)
             \/ Schedule(g) \/ ScheduleFails(g) \/ ApiCrash(g)
    <3>1. NoMoreJobs  BY <2>2, RequestJobs
    <3>2. QED BY <3>1, NoMoreIsCounted, RunsStay
  <2>3. QED BY <1>3, <2>1, <2>2 DEF UploadOf
<1>4. ASSUME NEW w \in Workers, WorkerOf(w) PROVE RunsInv'
  <2>1. CASE Claim(w)  BY <2>1, ClaimCounts
  <2>2. CASE Record(w)  BY <2>2, RecordJobs, RunsStay
  <2>3. CASE \/ Pop(w) \/ Skip(w) \/ Extract(w) \/ FailRun(w) \/ Persist(w)
             \/ Requeue(w) \/ RequeueFails(w) \/ Abandon(w) \/ Crash(w) \/ Restart(w)
    <3>1. NoMoreJobs  BY <2>3, WorkerJobs
    <3>2. QED BY <3>1, NoMoreIsCounted, RunsStay
  <2>4. QED BY <1>4, <2>1, <2>2, <2>3 DEF WorkerOf, HandleJob
<1>5. QED BY <1>1, <1>2, <1>3, <1>4 DEF Next

\* Whatever fails or reaches the queue twice, with any number of files and workers: a file
\* is run at most MaxAttempts times, and once more for each job that was resent.
THEOREM RunsStayBounded ==
  ASSUME IsFiniteSet(Workers)
  PROVE  Spec => []RunsBounded
<1>1. Init => RunsInv
  <2> SUFFICES ASSUME Init PROVE RunsInv  OBVIOUS
  <2>1. \A f \in Files : runs[f] = 0 /\ status[f] = "none"  BY DEF Init
  <2>2. resent = 0  BY DEF Init
  <2>3. QED BY <2>1, <2>2 DEF RunsInv, RunsBounded, Unsettled
<1>2. TypeOK /\ TypeOK' /\ IngestionInv /\ RunsInv /\ [Next]_vars => RunsInv'  BY RunsInductive
<1>3. RunsInv => RunsBounded  BY DEF RunsInv
<1>4. QED BY <1>1, <1>2, <1>3, TypeCorrect, InvariantCorrect, PTL DEF Spec

HIDE IngestionAssumption

-----------------------------------------------------------------------------
(* Numbers, recursive functions and sequences *)

\* A set of naturals has a least member.
LEMMA LeastOne ==
    ASSUME NEW T \in SUBSET Nat, T # {}
    PROVE  \E x \in T : \A y \in T : x <= y
<1> DEFINE Less == {w \in Nat \X Nat : w[1] < w[2]}
<1>1. IsWellFoundedOn(Less, Nat)  BY NatLessThanWellFounded DEF OpToRel
<1> HIDE DEF Less
<1>2. PICK x \in T : \A y \in T : ~ (<<y, x>> \in Less)  BY <1>1, WFMin
<1>3. ASSUME NEW y \in T PROVE x <= y
  <2>1. x \in Nat /\ y \in Nat  OBVIOUS
  <2>2. y < x => <<y, x>> \in Less  BY <2>1 DEF Less
  <2> QED  BY <1>2, <2>1, <2>2
<1> QED  BY <1>3

\* Induction up to n, over a set of numbers.
LEMMA Induct ==
    ASSUME NEW n \in Nat, NEW S, 0 \in S, \A i \in 0 .. n - 1 : i \in S => i + 1 \in S
    PROVE  \A i \in 0 .. n : i \in S
<1> SUFFICES ASSUME \E i \in 0 .. n : i \notin S PROVE FALSE  OBVIOUS
<1> DEFINE T == {i \in 0 .. n : i \notin S}
<1>1. PICK m \in T : \A i \in T : m <= i
  <2>1. T \in SUBSET Nat /\ T # {}  OBVIOUS
  <2> QED  BY <2>1, LeastOne
<1>2. m \in 0 .. n /\ m \notin S /\ m # 0  OBVIOUS
<1>3. m - 1 \in 0 .. n - 1 /\ (m - 1) + 1 = m /\ m - 1 \in 0 .. n /\ ~ (m <= m - 1)  BY <1>2
<1>4. m - 1 \in S  BY <1>1, <1>3
<1> QED  BY <1>2, <1>3, <1>4

\* What f holds after i steps of h, from a.
RunsTo(h, a, m, X, f) == f \in [0 .. m -> X] /\ f[0] = a /\ \A i \in 1 .. m : f[i] = h[<<i, f[i - 1]>>]

\* A function given by its start and its steps is there.
LEMMA Recursion ==
    ASSUME NEW n \in Nat, NEW X, NEW a \in X, NEW h \in [(1 .. n) \X X -> X]
    PROVE  \E f : RunsTo(h, a, n, X, f)
<1> DEFINE S == {m \in 0 .. n : \E f : RunsTo(h, a, m, X, f)}
<1>1. 0 \in S
  <2>1. RunsTo(h, a, 0, X, [i \in 0 .. 0 |-> a])  BY DEF RunsTo
  <2> QED  BY <2>1
<1>2. ASSUME NEW m \in 0 .. n - 1, m \in S PROVE m + 1 \in S
  <2>1. PICK f : RunsTo(h, a, m, X, f)  BY <1>2
  <2>2. m + 1 \in 1 .. n /\ m \in 0 .. m /\ f[m] \in X  BY <2>1 DEF RunsTo
  <2>3. PICK z \in X : z = h[<<m + 1, f[m]>>]  BY <2>2
  <2> DEFINE g == [i \in 0 .. m + 1 |-> IF i = m + 1 THEN z ELSE f[i]]
  <2>4. g \in [0 .. m + 1 -> X]  BY <2>1 DEF RunsTo
  <2>5. g[0] = a  BY <2>1 DEF RunsTo
  <2>6. ASSUME NEW i \in 1 .. m + 1 PROVE g[i] = h[<<i, g[i - 1]>>]
    <3>1. i - 1 \in 0 .. m /\ g[i - 1] = f[i - 1]  OBVIOUS
    <3>2. CASE i = m + 1
      <4>1. i - 1 = m /\ g[i] = z  BY <3>2
      <4> QED  BY <4>1, <3>1, <3>2, <2>3
    <3>3. CASE i # m + 1
      <4>1. i \in 1 .. m /\ g[i] = f[i]  BY <3>3
      <4> QED  BY <4>1, <3>1, <2>1 DEF RunsTo
    <3> QED  BY <3>2, <3>3
  <2>7. RunsTo(h, a, m + 1, X, g)  BY <2>4, <2>5, <2>6 DEF RunsTo
  <2>8. m + 1 \in 0 .. n  OBVIOUS
  <2> QED  BY <2>7, <2>8
<1>3. \A m \in 0 .. n : m \in S
  <2> HIDE DEF S
  <2> QED  BY <1>1, <1>2, Induct
<1> QED  BY <1>3


Alike(h, g, m, X) == \A i \in 1 .. m, x \in X : h[<<i, x>>] = g[<<i, x>>]

\* A run stays in the range, and each of its values follows from the one before.
LEMMA RunGoes ==
    ASSUME NEW n \in Nat, NEW X, NEW a, NEW h, NEW g, RunsTo(h, a, n, X, g)
    PROVE  /\ g = [i \in 0 .. n |-> g[i]] /\ g[0] = a
           /\ \A i \in 1 .. n : g[i] = h[<<i, g[i - 1]>>] /\ g[i - 1] \in X
           /\ \A i \in 0 .. n : i = 0 \/ i \in 1 .. n
<1>1. g \in [0 .. n -> X] /\ \A i \in 1 .. n : i - 1 \in 0 .. n  BY DEF RunsTo
<1> QED  BY <1>1 DEF RunsTo

\* What takes the steps as long as it stays in the range is that run.
LEMMA RunOf ==
    ASSUME NEW n \in Nat, NEW X, NEW a \in X, NEW h \in [(1 .. n) \X X -> X], NEW f, f = [i \in 0 .. n |-> f[i]], f[0] = a,
           \A i \in 1 .. n : f[i - 1] \in X => f[i] = h[<<i, f[i - 1]>>]
    PROVE  RunsTo(h, a, n, X, f)
<1> DEFINE S == {i \in 0 .. n : f[i] \in X}
<1>1. 0 \in S  OBVIOUS
<1>2. ASSUME NEW i \in 0 .. n - 1, i \in S PROVE i + 1 \in S
  <2>1. i + 1 \in 1 .. n /\ i + 1 \in 0 .. n /\ (i + 1) - 1 = i /\ f[i] \in X  BY <1>2
  <2>2. f[i + 1] = h[<<i + 1, f[i]>>]  BY <2>1
  <2> QED  BY <2>1, <2>2
<1> HIDE DEF S
<1>3. \A i \in 0 .. n : i \in S  BY <1>1, <1>2, Induct
<1>4. f \in [0 .. n -> X]  BY <1>3 DEF S
<1>5. \A i \in 1 .. n : f[i - 1] \in X
  <2>1. \A i \in 1 .. n : i - 1 \in 0 .. n  OBVIOUS
  <2> QED  BY <2>1, <1>4
<1> QED  BY <1>4, <1>5 DEF RunsTo

\* Two runs of the same steps hold the same.
LEMMA StepsAgree ==
    ASSUME NEW X, NEW a \in X, NEW m \in Nat, NEW n \in Nat, m <= n, NEW h, NEW g, NEW e, NEW f,
           RunsTo(h, a, m, X, e), RunsTo(g, a, n, X, f), Alike(h, g, m, X)
    PROVE  \A i \in 0 .. m : e[i] = f[i]
<1> DEFINE S == {i \in 0 .. m : e[i] = f[i]}
<1>1. /\ e \in [0 .. m -> X] /\ e[0] = a /\ \A i \in 1 .. m : e[i] = h[<<i, e[i - 1]>>]
      /\ f \in [0 .. n -> X] /\ f[0] = a /\ \A i \in 1 .. n : f[i] = g[<<i, f[i - 1]>>]
  BY DEF RunsTo
<1>2. 0 \in S  BY <1>1
<1>3. \A i \in 0 .. m - 1 : i \in S => i + 1 \in S
  <2> SUFFICES ASSUME NEW i \in 0 .. m - 1, i \in S PROVE i + 1 \in S  OBVIOUS
  <2>1. i + 1 \in 1 .. m /\ i + 1 \in 1 .. n /\ (i + 1) - 1 = i /\ i + 1 \in 0 .. m /\ i \in 0 .. m /\ i \in 0 .. n
    OBVIOUS
  <2>2. e[i + 1] = h[<<i + 1, e[i]>>] /\ f[i + 1] = g[<<i + 1, f[i]>>] /\ e[i] = f[i] /\ f[i] \in X
    BY <2>1, <1>1
  <2>3. h[<<i + 1, f[i]>>] = g[<<i + 1, f[i]>>]  BY <2>1, <2>2 DEF Alike
  <2> QED  BY <2>1, <2>2, <2>3
<1> HIDE DEF S
<1>4. \A i \in 0 .. m : i \in S  BY <1>2, <1>3, Induct
<1> QED  BY <1>4 DEF S

PrefixesOf(s, T, p) ==
    /\ p \in [0 .. Len(s) -> Seq(T)] /\ p[0] = << >> /\ p[Len(s)] = s
    /\ \A i \in 0 .. Len(s) - 1 : p[i + 1] = Append(p[i], s[i + 1]) /\ s[i + 1] \in T
    /\ \A i \in 0 .. Len(s) : p[i] = SubSeq(s, 1, i) /\ Len(p[i]) = i

\* A sequence grows from nothing, entry by entry.
LEMMA PrefixesAre ==
    ASSUME NEW T, NEW s \in Seq(T)
    PROVE  \E p : PrefixesOf(s, T, p)
<1>0. Len(s) \in Nat  OBVIOUS
<1>1. \A i \in 0 .. Len(s) : SubSeq(s, 1, i) \in Seq(T) /\ Len(SubSeq(s, 1, i)) = i  OBVIOUS
<1>2. PICK p : p = [i \in 0 .. Len(s) |-> SubSeq(s, 1, i)]  OBVIOUS
<1>3. p \in [0 .. Len(s) -> Seq(T)] /\ \A i \in 0 .. Len(s) : p[i] = SubSeq(s, 1, i) /\ Len(p[i]) = i
  BY <1>1, <1>2
<1>4. SubSeq(s, 1, 0) = << >>  BY SubSeqEmpty
<1>5. SubSeq(s, 1, Len(s)) = s  BY SubSeqFull
<1>6. 0 \in 0 .. Len(s) /\ Len(s) \in 0 .. Len(s)  BY <1>0
<1>7. ASSUME NEW i \in 0 .. Len(s) - 1 PROVE p[i + 1] = Append(p[i], s[i + 1]) /\ s[i + 1] \in T
  <2>1. p[i] \in Seq(T) /\ s[i + 1] \in T
    <3>1. i \in 0 .. Len(s) /\ i + 1 \in 1 .. Len(s)  BY <1>0
    <3> QED  BY <3>1, <1>3, ElementOfSeq
  <2>2. 1 \in 1 .. Len(s) /\ i + 1 \in 1 .. Len(s) /\ (i + 1) - 1 = i /\ i \in 0 .. Len(s) /\ i + 1 \in 0 .. Len(s)
    BY <1>0
  <2>3. SubSeq(s, 1, i + 1) = SubSeq(s, 1, i) \o <<s[i + 1]>>  BY <2>2, SubSeqRecursiveSecond
  <2>4. p[i + 1] = p[i] \o <<s[i + 1]>>  BY <2>2, <2>3, <1>3
  <2> QED  BY <2>1, <2>4, AppendIsConcat
<1> QED  BY <1>3, <1>4, <1>5, <1>6, <1>7 DEF PrefixesOf

\* Induction over the sequences of a set, which grow by an entry at their end.
LEMMA InductOnSequences ==
    ASSUME NEW T, NEW S, << >> \in S, \A s \in Seq(T), x \in T : s \in S => Append(s, x) \in S
    PROVE  \A s \in Seq(T) : s \in S
<1> TAKE s \in Seq(T)
<1>0. Len(s) \in Nat  OBVIOUS
<1>1. PICK p : PrefixesOf(s, T, p)  BY PrefixesAre
<1>2. /\ p \in [0 .. Len(s) -> Seq(T)] /\ p[0] = << >> /\ p[Len(s)] = s
      /\ \A i \in 0 .. Len(s) - 1 : p[i + 1] = Append(p[i], s[i + 1]) /\ s[i + 1] \in T
  BY <1>1 DEF PrefixesOf
<1> DEFINE N == {i \in 0 .. Len(s) : p[i] \in S}
<1>3. 0 \in N  BY <1>2, <1>0
<1>4. \A i \in 0 .. Len(s) - 1 : i \in N => i + 1 \in N
  <2> SUFFICES ASSUME NEW i \in 0 .. Len(s) - 1, i \in N PROVE i + 1 \in N  OBVIOUS
  <2>1. i \in 0 .. Len(s) /\ i + 1 \in 0 .. Len(s) /\ p[i] \in S /\ p[i] \in Seq(T)
    BY <1>0, <1>2, SMTT(30)
  <2>2. p[i + 1] = Append(p[i], s[i + 1]) /\ s[i + 1] \in T  BY <1>2
  <2>3. p[i + 1] \in S  BY <2>1, <2>2
  <2> QED  BY <2>1, <2>3
<1> HIDE DEF N
<1>5. \A i \in 0 .. Len(s) : i \in N  BY <1>0, <1>3, <1>4, Induct
<1>6. Len(s) \in N  BY <1>0, <1>5
<1> QED  BY <1>6, <1>2 DEF N

-----------------------------------------------------------------------------
(* What of a text is seen *)

\* What Kept does with each entry.
KeptStep(s, set, T) == [w \in (1 .. Len(s)) \X Seq(T) |-> IF s[w[1]] \in set THEN Append(w[2], s[w[1]]) ELSE w[2]]
KeptBy(s, set, T, f) == f = [i \in 0 .. Len(s) |-> IF i = 0 THEN << >> ELSE IF s[i] \in set THEN Append(f[i - 1], s[i]) ELSE f[i - 1]]

\* What Kept is, as a run of its steps.
LEMMA KeptIs ==
    ASSUME NEW T, NEW s \in Seq(T), NEW set
    PROVE  \E f : RunsTo(KeptStep(s, set, T), << >>, Len(s), Seq(T), f) /\ Kept(s, set) = f[Len(s)]
<1>0. Len(s) \in Nat /\ << >> \in Seq(T)  OBVIOUS
<1> DEFINE h == KeptStep(s, set, T)
<1>1. ASSUME NEW i \in 1 .. Len(s), NEW x \in Seq(T) PROVE (IF s[i] \in set THEN Append(x, s[i]) ELSE x) \in Seq(T)
  <2>1. s[i] \in T  OBVIOUS
  <2> QED  BY <2>1
<1>2. h \in [(1 .. Len(s)) \X Seq(T) -> Seq(T)]
  <2>1. \A w \in (1 .. Len(s)) \X Seq(T) : w[1] \in 1 .. Len(s) /\ w[2] \in Seq(T)  OBVIOUS
  <2> QED  BY <1>1, <2>1 DEF KeptStep
<1>3. \A i \in 1 .. Len(s), x \in Seq(T) : h[<<i, x>>] = IF s[i] \in set THEN Append(x, s[i]) ELSE x
  BY DEF KeptStep
<1> HIDE DEF h
<1>4. PICK g : RunsTo(h, << >>, Len(s), Seq(T), g)  BY <1>0, <1>2, Recursion
<1>5. KeptBy(s, set, T, g)
  <2>1. /\ g = [i \in 0 .. Len(s) |-> g[i]] /\ g[0] = << >>
        /\ \A i \in 1 .. Len(s) : g[i] = h[<<i, g[i - 1]>>] /\ g[i - 1] \in Seq(T)
        /\ \A i \in 0 .. Len(s) : i = 0 \/ i \in 1 .. Len(s)
    BY <1>0, <1>4, RunGoes
  <2>2. \A i \in 0 .. Len(s) : g[i] = IF i = 0 THEN << >> ELSE IF s[i] \in set THEN Append(g[i - 1], s[i]) ELSE g[i - 1]
    BY <2>1, <1>3
  <2> QED  BY <2>1, <2>2 DEF KeptBy
<1>6. PICK f : f = CHOOSE e : KeptBy(s, set, T, e)  OBVIOUS
<1>7. f = [i \in 0 .. Len(s) |-> IF i = 0 THEN << >> ELSE IF s[i] \in set THEN Append(f[i - 1], s[i]) ELSE f[i - 1]]
  BY <1>5, <1>6 DEF KeptBy
<1>8. Kept(s, set) = f[Len(s)]  BY <1>6 DEF Kept, KeptBy
<1>9. RunsTo(h, << >>, Len(s), Seq(T), f)
  <2>1. f = [i \in 0 .. Len(s) |-> f[i]] /\ \A i \in 0 .. Len(s) : f[i] = IF i = 0 THEN << >> ELSE IF s[i] \in set THEN Append(f[i - 1], s[i]) ELSE f[i - 1]
    BY ONLY <1>7
  <2>2. f[0] = << >> /\ \A i \in 1 .. Len(s) : f[i - 1] \in Seq(T) => f[i] = h[<<i, f[i - 1]>>]
    BY <1>0, <1>3, <2>1
  <2> QED  BY <1>0, <1>2, <2>1, <2>2, RunOf
<1> QED  BY <1>8, <1>9 DEF h

\* One more entry: it is kept, or nothing is added.
LEMMA KeptAppend ==
    ASSUME NEW T, NEW set
    PROVE  /\ Kept(<< >>, set) = << >>
           /\ \A s \in Seq(T), x \in T :
                /\ Kept(s, set) \in Seq(T)
                /\ Kept(Append(s, x), set) = IF x \in set THEN Append(Kept(s, set), x) ELSE Kept(s, set)
<1>1. Kept(<< >>, set) = << >>
  <2>1. << >> \in Seq(T) /\ Len(<< >>) = 0  OBVIOUS
  <2>2. PICK f : RunsTo(KeptStep(<< >>, set, T), << >>, Len(<< >>), Seq(T), f) /\ Kept(<< >>, set) = f[Len(<< >>)]
    BY <2>1, KeptIs
  <2> QED  BY <2>1, <2>2 DEF RunsTo
<1>2. ASSUME NEW s \in Seq(T), NEW x \in T
      PROVE  /\ Kept(s, set) \in Seq(T)
             /\ Kept(Append(s, x), set) = IF x \in set THEN Append(Kept(s, set), x) ELSE Kept(s, set)
  <2>1. PICK l : l = Append(s, x)  OBVIOUS
  <2>2. l \in Seq(T) /\ Len(l) = Len(s) + 1 /\ Len(s) \in Nat /\ l[Len(s) + 1] = x /\ \A i \in 1 .. Len(s) : l[i] = s[i]
    BY <2>1
  <2>3. PICK f : RunsTo(KeptStep(s, set, T), << >>, Len(s), Seq(T), f) /\ Kept(s, set) = f[Len(s)]
    BY KeptIs
  <2>4. PICK g : RunsTo(KeptStep(l, set, T), << >>, Len(l), Seq(T), g) /\ Kept(l, set) = g[Len(l)]
    BY <2>2, KeptIs
  <2>5. \A i \in 1 .. Len(s), y \in Seq(T) : KeptStep(s, set, T)[<<i, y>>] = KeptStep(l, set, T)[<<i, y>>]
    BY <2>2 DEF KeptStep
  <2>6. << >> \in Seq(T) /\ Len(s) \in Nat /\ Len(l) \in Nat /\ Len(s) <= Len(l) /\ Len(s) \in 0 .. Len(s)
    BY <2>2
  <2>7. f[Len(s)] = g[Len(s)]
    <3>1. RunsTo(KeptStep(s, set, T), << >>, Len(s), Seq(T), f) /\ RunsTo(KeptStep(l, set, T), << >>, Len(l), Seq(T), g)
      BY <2>3, <2>4
    <3>3. Alike(KeptStep(s, set, T), KeptStep(l, set, T), Len(s), Seq(T))  BY <2>5 DEF Alike
    <3>4. PICK X, a, m, n, h, e :
             X = Seq(T) /\ a = << >> /\ m = Len(s) /\ n = Len(l) /\ h = KeptStep(s, set, T) /\ e = KeptStep(l, set, T)
      OBVIOUS
    <3>5. a \in X /\ m \in Nat /\ n \in Nat /\ m <= n /\ RunsTo(h, a, m, X, f) /\ RunsTo(e, a, n, X, g) /\ Alike(h, e, m, X)
      BY <3>1, <3>3, <3>4, <2>6
    <3>6. \A i \in 0 .. m : f[i] = g[i]  BY ONLY <3>5, StepsAgree
    <3>2. \A i \in 0 .. Len(s) : f[i] = g[i]  BY <3>4, <3>6
    <3> QED  BY <3>2, <2>6
  <2>8. Kept(s, set) \in Seq(T)  BY <2>3, <2>6 DEF RunsTo
  <2>9. g[Len(s) + 1] = KeptStep(l, set, T)[<<Len(s) + 1, g[Len(s)]>>]
    <3>1. Len(s) + 1 \in 1 .. Len(l) /\ (Len(s) + 1) - 1 = Len(s)  BY <2>2
    <3> QED  BY <3>1, <2>4 DEF RunsTo
  <2>10. \A y \in Seq(T) : KeptStep(l, set, T)[<<Len(s) + 1, y>>] = IF x \in set THEN Append(y, x) ELSE y
    <3>1. Len(s) + 1 \in 1 .. Len(l)  BY <2>2
    <3> QED  BY <3>1, <2>2 DEF KeptStep
  <2> QED  BY <2>1, <2>2, <2>3, <2>4, <2>7, <2>8, <2>9, <2>10
<1> QED  BY <1>1, <1>2

\* Nothing is seen of an empty text, a character more is seen if it is visible.
LEMMA SeenEmpty == Seen(<< >>) = << >>
  BY KeptAppend DEF Seen

LEMMA SeenAppend ==
    ASSUME NEW t \in Seq(Int), NEW x \in Int
    PROVE  /\ Seen(t) \in Seq(Int)
           /\ Seen(Append(t, x)) = IF x > 0 THEN Append(Seen(t), x) ELSE Seen(t)
<1>1. x \in Nat \ {0} <=> x > 0  OBVIOUS
<1>2. \A s \in Seq(Int), y \in Int :
         /\ Kept(s, Nat \ {0}) \in Seq(Int)
         /\ Kept(Append(s, y), Nat \ {0}) = IF y \in Nat \ {0} THEN Append(Kept(s, Nat \ {0}), y) ELSE Kept(s, Nat \ {0})
  BY KeptAppend
<1> QED  BY <1>1, <1>2 DEF Seen

\* What is seen of a text is a text.
LEMMA SeenType == \A t \in Seq(Int) : Seen(t) \in Seq(Int)
<1> TAKE t \in Seq(Int)
<1>1. 0 \in Int  OBVIOUS
<1> QED  BY <1>1, SeenAppend

\* Two sequences, the second one longer by an entry.
LEMMA AppendAfter ==
    ASSUME NEW T, NEW s \in Seq(T), NEW t \in Seq(T), NEW x \in T
    PROVE  /\ s \o t \in Seq(T) /\ Append(t, x) \in Seq(T)
           /\ s \o Append(t, x) = Append(s \o t, x)
<1>1. s \o t \in Seq(T) /\ Append(t, x) \in Seq(T) /\ <<x>> \in Seq(T)  OBVIOUS
<1>2. Append(t, x) = t \o <<x>> /\ Append(s \o t, x) = (s \o t) \o <<x>>  BY <1>1, AppendIsConcat
<1> QED  BY <1>1, <1>2, ConcatAssociative

\* What is seen of two texts one after the other.
LEMMA SeenOfTwo ==
    ASSUME NEW s \in Seq(Int)
    PROVE  \A t \in Seq(Int) : Seen(s \o t) = Seen(s) \o Seen(t)
<1> DEFINE S == {t \in Seq(Int) : Seen(s \o t) = Seen(s) \o Seen(t)}
<1>1. << >> \in S
  <2>1. << >> \in Seq(Int) /\ Seen(s) \in Seq(Int)  BY SeenType
  <2>2. s \o << >> = s /\ Seen(s) \o << >> = Seen(s)  BY <2>1, ConcatEmptySeq
  <2> QED  BY <2>1, <2>2, SeenEmpty
<1>2. ASSUME NEW t \in Seq(Int), NEW x \in Int, t \in S PROVE Append(t, x) \in S
  <2>1. s \o t \in Seq(Int) /\ Append(t, x) \in Seq(Int) /\ s \o Append(t, x) = Append(s \o t, x)
    BY AppendAfter
  <2>2. Seen(t) \in Seq(Int) /\ Seen(Append(t, x)) = IF x > 0 THEN Append(Seen(t), x) ELSE Seen(t)
    BY SeenAppend
  <2>3. Seen(Append(s \o t, x)) = IF x > 0 THEN Append(Seen(s \o t), x) ELSE Seen(s \o t)
    BY <2>1, SeenAppend
  <2>4. Seen(s \o t) = Seen(s) \o Seen(t) /\ Seen(s) \in Seq(Int)  BY <1>2, SeenType
  <2>5. Seen(s) \o Append(Seen(t), x) = Append(Seen(s) \o Seen(t), x)
    BY <2>2, <2>4, AppendAfter, SMTT(30)
  <2> QED  BY <2>1, <2>2, <2>3, <2>4, <2>5
<1> HIDE DEF S
<1>3. \A t \in Seq(Int) : t \in S  BY <1>1, <1>2, InductOnSequences
<1> QED  BY <1>3 DEF S

\* Nothing is seen of white space.
LEMMA NothingSeen ==
    \A t \in Seq(Int) : (Seen(t) = << >>) <=> (Visible(t) = {})
<1> DEFINE S == {t \in Seq(Int) : (Seen(t) = << >>) <=> (Visible(t) = {})}
<1>1. << >> \in S
  <2>1. << >> \in Seq(Int) /\ DOMAIN << >> = {}  OBVIOUS
  <2> QED  BY <2>1, SeenEmpty DEF Visible
<1>2. ASSUME NEW t \in Seq(Int), NEW x \in Int, t \in S PROVE Append(t, x) \in S
  <2>1. PICK l : l = Append(t, x) /\ l \in Seq(Int)  BY AppendProperties
  <2>2. Len(l) = Len(t) + 1 /\ Len(t) \in Nat /\ DOMAIN l = 1 .. Len(t) + 1 /\ DOMAIN t = 1 .. Len(t)
        /\ l[Len(t) + 1] = x /\ \A i \in 1 .. Len(t) : l[i] = t[i]
    BY <2>1
  <2>3. Visible(l) = {} <=> Visible(t) = {} /\ ~ (x > 0)  BY <2>2, SMTT(30) DEF Visible
  <2>4. Seen(t) \in Seq(Int) /\ Seen(l) = IF x > 0 THEN Append(Seen(t), x) ELSE Seen(t)
    BY <2>1, SeenAppend
  <2>5. Append(Seen(t), x) # << >>
    <3>1. PICK m \in Seq(Int) : m = Seen(t)  BY <2>4
    <3> QED  BY <3>1, AppendProperties
  <2> QED  BY <1>2, <2>1, <2>3, <2>4, <2>5
<1> HIDE DEF S
<1>3. \A t \in Seq(Int) : t \in S  BY <1>1, <1>2, InductOnSequences
<1> QED  BY <1>3 DEF S

\* What is seen of a text are its visible characters.
LEMMA SeenAre ==
    \A t \in Seq(Int) : ToSet(Seen(t)) = {t[i] : i \in Visible(t)}
<1> DEFINE S == {t \in Seq(Int) : ToSet(Seen(t)) = {t[i] : i \in Visible(t)}}
<1>1. << >> \in S
  <2>1. << >> \in Seq(Int) /\ DOMAIN << >> = {}  OBVIOUS
  <2> QED  BY <2>1, SeenEmpty DEF Visible, ToSet
<1>2. ASSUME NEW t \in Seq(Int), NEW x \in Int, t \in S PROVE Append(t, x) \in S
  <2>1. PICK l : l = Append(t, x) /\ l \in Seq(Int)  BY AppendProperties
  <2>2. Len(l) = Len(t) + 1 /\ Len(t) \in Nat /\ DOMAIN l = 1 .. Len(t) + 1 /\ DOMAIN t = 1 .. Len(t)
        /\ l[Len(t) + 1] = x /\ \A i \in 1 .. Len(t) : l[i] = t[i]
    BY <2>1
  <2>3. {l[i] : i \in Visible(l)} = {t[i] : i \in Visible(t)} \cup (IF x > 0 THEN {x} ELSE {})
    <3>1. Visible(l) = Visible(t) \cup (IF x > 0 THEN {Len(t) + 1} ELSE {})  BY <2>2 DEF Visible
    <3>2. \A i \in Visible(t) : l[i] = t[i]  BY <2>2 DEF Visible
    <3> QED  BY <3>1, <3>2, <2>2
  <2>4. Seen(t) \in Seq(Int) /\ Seen(l) = IF x > 0 THEN Append(Seen(t), x) ELSE Seen(t)
    BY <2>1, SeenAppend
  <2>5. ToSet(Append(Seen(t), x)) = ToSet(Seen(t)) \cup {x}
    <3>1. PICK m \in Seq(Int) : m = Seen(t)  BY <2>4
    <3>2. DOMAIN m = 1 .. Len(m) /\ Len(m) \in Nat /\ DOMAIN Append(m, x) = 1 .. Len(m) + 1  OBVIOUS
    <3>3. Append(m, x)[Len(m) + 1] = x /\ \A i \in 1 .. Len(m) : Append(m, x)[i] = m[i]  OBVIOUS
    <3>4. 1 .. Len(m) + 1 = (1 .. Len(m)) \cup {Len(m) + 1}  BY <3>2
    <3> QED  BY <3>1, <3>2, <3>3, <3>4 DEF ToSet
  <2> QED  BY <1>2, <2>1, <2>3, <2>4, <2>5
<1> HIDE DEF S
<1>3. \A t \in Seq(Int) : t \in S  BY <1>1, <1>2, InductOnSequences
<1> QED  BY <1>3 DEF S

-----------------------------------------------------------------------------
(* Texts one after the other *)

\* What FlattenSeq does with each sequence.
FlatStep(ss, T) == [w \in (1 .. Len(ss)) \X Seq(T) |-> w[2] \o ss[w[1]]]
FlatBy(ss, f) == f = [i \in 1 .. Len(ss) |-> IF i = 1 THEN ss[i] ELSE f[i - 1] \o ss[i]]

\* What flattening is, as a run of its steps.
LEMMA FlatIs ==
    ASSUME NEW T, NEW ss \in Seq(Seq(T))
    PROVE  \E f : RunsTo(FlatStep(ss, T), << >>, Len(ss), Seq(T), f) /\ FlattenSeq(ss) = f[Len(ss)]
<1> DEFINE h == FlatStep(ss, T)
<1>0. PICK n \in Nat : n = Len(ss)  OBVIOUS
<1>1. PICK X : X = Seq(T)  OBVIOUS
<1>2. << >> \in X /\ \A i \in 1 .. n : ss[i] \in X  BY <1>0, <1>1
<1>3. \A i \in 1 .. n, x \in X : h[<<i, x>>] = x \o ss[i] /\ x \o ss[i] \in X
  <2>1. \A i \in 1 .. n, x \in X : x \o ss[i] \in X  BY <1>1, <1>2
  <2> QED  BY <2>1, <1>0, <1>1 DEF FlatStep
<1>4. h \in [(1 .. n) \X X -> X]
  <2>1. ASSUME NEW w \in (1 .. n) \X X PROVE w[2] \o ss[w[1]] \in X
    <3>1. w[1] \in 1 .. n /\ w[2] \in X  OBVIOUS
    <3> QED  BY <3>1, <1>1, <1>2
  <2> QED  BY <2>1, <1>0, <1>1 DEF FlatStep
<1> HIDE DEF h
<1>5. PICK g : RunsTo(h, << >>, n, X, g)  BY <1>2, <1>4, Recursion
<1>6. g \in [0 .. n -> X] /\ g[0] = << >> /\ \A i \in 1 .. n : g[i] = g[i - 1] \o ss[i]
  <2>1. g \in [0 .. n -> X] /\ g[0] = << >> /\ \A i \in 1 .. n : g[i] = h[<<i, g[i - 1]>>]
    BY <1>5 DEF RunsTo
  <2>2. \A i \in 1 .. n : i - 1 \in 0 .. n  OBVIOUS
  <2> QED  BY <2>1, <2>2, <1>3
<1>7. CASE n = 0
  <2>1. FlattenSeq(ss) = << >>
    <3>1. Len(ss) = 0 /\ ss = << >>  BY <1>7, <1>0
    <3> QED  BY <3>1 DEF FlattenSeq
  <2> QED  BY <2>1, <1>0, <1>1, <1>5, <1>6, <1>7 DEF h
<1>8. CASE n # 0
  <2>1. g[1] = ss[1]
    <3>1. 1 \in 1 .. n /\ 1 - 1 = 0  BY <1>8
    <3>2. g[1] = << >> \o ss[1] /\ ss[1] \in Seq(T)  BY <3>1, <1>1, <1>2, <1>6
    <3> QED  BY <3>2, ConcatEmptySeq
  <2>2. FlatBy(ss, [i \in 1 .. n |-> g[i]])
    <3>1. PICK e : e = [i \in 1 .. n |-> g[i]]  OBVIOUS
    <3>2. ASSUME NEW i \in 1 .. n PROVE e[i] = IF i = 1 THEN ss[i] ELSE e[i - 1] \o ss[i]
      <4>1. CASE i = 1  BY <4>1, <3>1, <2>1
      <4>2. CASE i # 1
        <5>1. i - 1 \in 1 .. n  BY <4>2
        <5> QED  BY <5>1, <4>2, <3>1, <1>6
      <4> QED  BY <4>1, <4>2
    <3>3. e = [i \in 1 .. n |-> IF i = 1 THEN ss[i] ELSE e[i - 1] \o ss[i]]
      <4>1. e = [i \in 1 .. n |-> e[i]]  BY <3>1
      <4> QED  BY <4>1, <3>2
    <3> QED  BY <3>1, <3>3, <1>0 DEF FlatBy
  <2>3. PICK f : f = CHOOSE e : FlatBy(ss, e)  OBVIOUS
  <2>4. FlatBy(ss, f)  BY <2>2, <2>3
  <2>5. FlattenSeq(ss) = f[n]  BY <2>3, <1>0, <1>8 DEF FlattenSeq, FlatBy
  <2>6. f = [i \in 1 .. n |-> IF i = 1 THEN ss[i] ELSE f[i - 1] \o ss[i]]  BY <2>4, <1>0 DEF FlatBy
  <2>7. \A i \in 1 .. n : f[i] = IF i = 1 THEN ss[i] ELSE f[i - 1] \o ss[i]  BY ONLY <2>6
  <2> DEFINE S == {i \in 0 .. n : i = 0 \/ f[i] = g[i]}
  <2>8. 0 \in S  OBVIOUS
  <2>9. \A i \in 0 .. n - 1 : i \in S => i + 1 \in S
    <3> SUFFICES ASSUME NEW i \in 0 .. n - 1, i \in S PROVE i + 1 \in S  OBVIOUS
    <3>1. i + 1 \in 1 .. n /\ (i + 1) - 1 = i /\ i + 1 \in 0 .. n  OBVIOUS
    <3>2. CASE i = 0  BY <3>1, <3>2, <2>1, <2>7
    <3>3. CASE i # 0
      <4>1. f[i] = g[i] /\ i + 1 # 1  BY <3>3
      <4> QED
        <5>1. f[i + 1] = f[i] \o ss[i + 1] /\ g[i + 1] = g[i] \o ss[i + 1]  BY <4>1, <3>1, <2>7, <1>6
        <5> QED  BY <5>1, <4>1, <3>1
    <3> QED  BY <3>2, <3>3
  <2> HIDE DEF S
  <2>10. n \in S
    <3>1. \A i \in 0 .. n : i \in S  BY <2>8, <2>9, Induct
    <3> QED  BY <3>1
  <2>11. f[n] = g[n]  BY <2>10, <1>8 DEF S
  <2> QED  BY <2>5, <2>11, <1>0, <1>1, <1>5 DEF h
<1> QED  BY <1>7, <1>8

\* One sequence more comes behind the others.
LEMMA FlatAppend ==
    ASSUME NEW T
    PROVE  /\ FlattenSeq(<< >>) = << >>
           /\ \A ss \in Seq(Seq(T)), u \in Seq(T) :
                /\ FlattenSeq(ss) \in Seq(T)
                /\ FlattenSeq(Append(ss, u)) = FlattenSeq(ss) \o u
<1>1. FlattenSeq(<< >>) = << >>  BY DEF FlattenSeq
<1>2. ASSUME NEW ss \in Seq(Seq(T)), NEW u \in Seq(T)
      PROVE  /\ FlattenSeq(ss) \in Seq(T)
             /\ FlattenSeq(Append(ss, u)) = FlattenSeq(ss) \o u
  <2>1. PICK l : l = Append(ss, u)  OBVIOUS
  <2>2. l \in Seq(Seq(T)) /\ Len(l) = Len(ss) + 1 /\ Len(ss) \in Nat /\ l[Len(ss) + 1] = u /\ \A i \in 1 .. Len(ss) : l[i] = ss[i]
    BY <2>1
  <2>3. PICK f : RunsTo(FlatStep(ss, T), << >>, Len(ss), Seq(T), f) /\ FlattenSeq(ss) = f[Len(ss)]
    BY FlatIs
  <2>4. PICK g : RunsTo(FlatStep(l, T), << >>, Len(l), Seq(T), g) /\ FlattenSeq(l) = g[Len(l)]
    BY <2>2, FlatIs
  <2>5. \A i \in 1 .. Len(ss), y \in Seq(T) : FlatStep(ss, T)[<<i, y>>] = FlatStep(l, T)[<<i, y>>]
    BY <2>2, SMTT(30) DEF FlatStep
  <2>6. << >> \in Seq(T) /\ Len(ss) \in Nat /\ Len(l) \in Nat /\ Len(ss) <= Len(l) /\ Len(ss) \in 0 .. Len(ss)
    BY <2>2
  <2>7. f[Len(ss)] = g[Len(ss)]
    <3>1. RunsTo(FlatStep(ss, T), << >>, Len(ss), Seq(T), f) /\ RunsTo(FlatStep(l, T), << >>, Len(l), Seq(T), g)
      BY <2>3, <2>4
    <3>2. Alike(FlatStep(ss, T), FlatStep(l, T), Len(ss), Seq(T))  BY <2>5 DEF Alike
    <3>3. PICK X, a, m, n, h, e :
             X = Seq(T) /\ a = << >> /\ m = Len(ss) /\ n = Len(l) /\ h = FlatStep(ss, T) /\ e = FlatStep(l, T)
      OBVIOUS
    <3>4. a \in X /\ m \in Nat /\ n \in Nat /\ m <= n /\ RunsTo(h, a, m, X, f) /\ RunsTo(e, a, n, X, g) /\ Alike(h, e, m, X)
      BY <3>1, <3>2, <3>3, <2>6
    <3>5. \A i \in 0 .. m : f[i] = g[i]  BY ONLY <3>4, StepsAgree
    <3> QED  BY <3>3, <3>5, <2>6
  <2>8. FlattenSeq(ss) \in Seq(T)  BY <2>3, <2>6 DEF RunsTo
  <2>9. g[Len(ss) + 1] = FlatStep(l, T)[<<Len(ss) + 1, g[Len(ss)]>>]
    <3>1. Len(ss) + 1 \in 1 .. Len(l) /\ (Len(ss) + 1) - 1 = Len(ss)  BY <2>2
    <3> QED  BY <3>1, <2>4 DEF RunsTo
  <2>10. \A y \in Seq(T) : FlatStep(l, T)[<<Len(ss) + 1, y>>] = y \o u
    <3>1. Len(ss) + 1 \in 1 .. Len(l)  BY <2>2
    <3> QED  BY <3>1, <2>2 DEF FlatStep
  <2> QED  BY <2>1, <2>2, <2>3, <2>4, <2>7, <2>8, <2>9, <2>10
<1> QED  BY <1>1, <1>2

Texts == Seq(Int)

\* What is seen of texts one after the other.
SeenAll(ss) == FlattenSeq([i \in DOMAIN ss |-> Seen(ss[i])])

\* What is seen of one text more.
LEMMA SeenAllAppend ==
    /\ SeenAll(<< >>) = << >>
    /\ \A ss \in Seq(Texts), u \in Texts :
         /\ SeenAll(ss) \in Texts
         /\ SeenAll(Append(ss, u)) = SeenAll(ss) \o Seen(u)
<1>1. SeenAll(<< >>) = << >>
  <2>1. [i \in DOMAIN << >> |-> Seen(<< >>[i])] = << >>  OBVIOUS
  <2> QED  BY <2>1, FlatAppend DEF SeenAll
<1>2. ASSUME NEW ss \in Seq(Texts), NEW u \in Texts
      PROVE  SeenAll(ss) \in Texts /\ SeenAll(Append(ss, u)) = SeenAll(ss) \o Seen(u)
  <2>0. Len(ss) \in Nat /\ DOMAIN ss = 1 .. Len(ss) /\ \A i \in 1 .. Len(ss) : Seen(ss[i]) \in Texts
    BY SeenType DEF Texts
  <2>1. PICK l : l = Append(ss, u)  OBVIOUS
  <2>2. DOMAIN l = 1 .. Len(ss) + 1 /\ l[Len(ss) + 1] = u /\ \A i \in 1 .. Len(ss) : l[i] = ss[i]
    BY <2>1
  <2>3. PICK s : s = [i \in 1 .. Len(ss) |-> Seen(ss[i])]  OBVIOUS
  <2>4. s \in Seq(Texts) /\ Len(s) = Len(ss) /\ \A i \in 1 .. Len(ss) : s[i] = Seen(ss[i])
    BY <2>0, <2>3
  <2>5. Seen(u) \in Texts  BY SeenType DEF Texts
  <2>6. [i \in 1 .. Len(ss) + 1 |-> Seen(l[i])] = Append(s, Seen(u))
    <3>1. PICK r : r = [i \in 1 .. Len(ss) + 1 |-> Seen(l[i])]  OBVIOUS
    <3>2. PICK q : q = Append(s, Seen(u))  OBVIOUS
    <3>3. q \in Seq(Texts) /\ Len(q) = Len(ss) + 1 /\ q[Len(ss) + 1] = Seen(u) /\ \A i \in 1 .. Len(ss) : q[i] = s[i]
      BY <2>4, <2>5, <3>2
    <3>4. \A i \in 1 .. Len(ss) + 1 : r[i] = q[i]
      <4> SUFFICES ASSUME NEW i \in 1 .. Len(ss) + 1 PROVE r[i] = q[i]  OBVIOUS
      <4>1. i \in 1 .. Len(ss) \/ i = Len(ss) + 1  BY <2>0
      <4> QED  BY <4>1, <3>1, <3>3, <2>2, <2>4
    <3>5. r \in Seq(Texts) /\ Len(r) = Len(ss) + 1
      <4>1. \A i \in 1 .. Len(ss) + 1 : r[i] \in Texts
        <5> SUFFICES ASSUME NEW i \in 1 .. Len(ss) + 1 PROVE q[i] \in Texts  BY <3>4
        <5> QED  BY <3>3, ElementOfSeq
      <4> QED  BY <4>1, <3>1, <2>0
    <3> QED  BY <3>1, <3>2, <3>3, <3>4, <3>5, SeqEqual
  <2>7. SeenAll(ss) = FlattenSeq(s) /\ SeenAll(l) = FlattenSeq(Append(s, Seen(u)))
    BY <2>0, <2>2, <2>3, <2>6 DEF SeenAll
  <2>8. \A ps \in Seq(Seq(Int)), p \in Seq(Int) : FlattenSeq(ps) \in Seq(Int) /\ FlattenSeq(Append(ps, p)) = FlattenSeq(ps) \o p
    BY FlatAppend
  <2> QED  BY <2>1, <2>4, <2>5, <2>7, <2>8 DEF Texts
<1> QED  BY <1>1, <1>2

\* What is seen of texts and more texts.
LEMMA SeenAllOfTwo ==
    ASSUME NEW ss \in Seq(Texts)
    PROVE  \A tt \in Seq(Texts) : SeenAll(ss \o tt) = SeenAll(ss) \o SeenAll(tt)
<1> DEFINE S == {tt \in Seq(Texts) : SeenAll(ss \o tt) = SeenAll(ss) \o SeenAll(tt)}
<1>0. \A ps \in Seq(Texts) : SeenAll(ps) \in Texts
  <2>1. << >> \in Texts  BY DEF Texts
  <2> QED  BY <2>1, SeenAllAppend
<1>1. << >> \in S
  <2>1. << >> \in Seq(Texts) /\ SeenAll(ss) \in Seq(Int)  BY <1>0 DEF Texts
  <2>2. ss \o << >> = ss /\ SeenAll(ss) \o << >> = SeenAll(ss)  BY <2>1, ConcatEmptySeq
  <2> QED  BY <2>1, <2>2, SeenAllAppend
<1>2. ASSUME NEW t \in Seq(Texts), NEW x \in Texts, t \in S PROVE Append(t, x) \in S
  <2>1. ss \o t \in Seq(Texts) /\ Append(t, x) \in Seq(Texts) /\ ss \o Append(t, x) = Append(ss \o t, x)
    BY AppendAfter
  <2>2. SeenAll(Append(t, x)) = SeenAll(t) \o Seen(x)  BY SeenAllAppend
  <2>3. SeenAll(Append(ss \o t, x)) = SeenAll(ss \o t) \o Seen(x)  BY <2>1, SeenAllAppend
  <2>4. SeenAll(ss \o t) = SeenAll(ss) \o SeenAll(t)  BY <1>2
  <2>5. SeenAll(ss) \in Seq(Int) /\ SeenAll(t) \in Seq(Int) /\ Seen(x) \in Seq(Int)
    BY <1>0, SeenType DEF Texts
  <2>6. (SeenAll(ss) \o SeenAll(t)) \o Seen(x) = SeenAll(ss) \o (SeenAll(t) \o Seen(x))
    BY <2>5, ConcatAssociative, SMTT(30)
  <2> QED  BY <2>1, <2>2, <2>3, <2>4, <2>6
<1> HIDE DEF S
<1>3. \A t \in Seq(Texts) : t \in S  BY <1>1, <1>2, InductOnSequences
<1> QED  BY <1>3 DEF S

-----------------------------------------------------------------------------
(* Stripped texts *)

\* The least and the greatest of some places.
LEMMA EndsAre ==
    ASSUME NEW n \in Nat, NEW S \in SUBSET (0 .. n), S # {}
    PROVE  /\ Min(S) \in S /\ \A x \in S : Min(S) <= x
           /\ Max(S) \in S /\ \A x \in S : x <= Max(S)
<1>1. Min(S) \in S /\ \A x \in S : Min(S) <= x
  <2>1. \E x \in S : \A y \in S : x <= y  BY LeastOne
  <2> QED  BY <2>1 DEF Min
<1>2. Max(S) \in S /\ \A x \in S : x <= Max(S)
  <2> DEFINE R == {n - x : x \in S}
  <2>1. R \in SUBSET Nat /\ R # {}  OBVIOUS
  <2>2. PICK r \in R : \A y \in R : r <= y  BY <2>1, LeastOne
  <2>3. PICK m \in S : r = n - m  BY <2>2
  <2>4. ASSUME NEW y \in S PROVE m >= y
    <3>1. n - y \in R /\ m \in 0 .. n /\ y \in 0 .. n  OBVIOUS
    <3>2. n - m <= n - y  BY <3>1, <2>2, <2>3
    <3> QED  BY <3>1, <3>2
  <2>5. \E x \in S : \A y \in S : x >= y  BY <2>4
  <2>6. PICK z : z = Max(S)  OBVIOUS
  <2>7. z \in S /\ \A y \in S : z >= y  BY <2>5, <2>6 DEF Max
  <2>8. \A y \in S : y <= z
    <3> SUFFICES ASSUME NEW y \in S PROVE y <= z  OBVIOUS
    <3>1. y \in Nat /\ z \in Nat /\ z >= y  BY <2>7
    <3> QED  BY <3>1
  <2> QED  BY <2>6, <2>7, <2>8
<1> QED  BY <1>1, <1>2

\* A text that begins and ends with what can be seen.
Clean(p) == p \in Texts /\ Len(p) >= 1 /\ p[1] > 0 /\ p[Len(p)] > 0

\* Strip takes white space from both ends and nothing else.
LEMMA StripIs ==
    ASSUME NEW t \in Texts
    PROVE  /\ Strip(t) \in Texts /\ Len(Strip(t)) <= Len(t) /\ Seen(Strip(t)) = Seen(t)
           /\ (Visible(t) = {} /\ Strip(t) = << >>) \/ (Visible(t) # {} /\ Clean(Strip(t)))
<1>0. t \in Seq(Int) /\ DOMAIN t = 1 .. Len(t)  BY SMTT(30) DEF Texts
<1>1. PICK n \in Nat : n = Len(t)  BY <1>0, LenProperties
<1>2. CASE Visible(t) = {}
  <2>1. Strip(t) = << >>  BY <1>2 DEF Strip
  <2>2. Seen(t) = << >>  BY <1>0, <1>2, NothingSeen
  <2>3. << >> \in Texts /\ Len(<< >>) = 0  BY DEF Texts
  <2> QED  BY <1>1, <1>2, <2>1, <2>2, <2>3, SeenEmpty
<1>3. CASE Visible(t) # {}
  <2>1. Visible(t) \in SUBSET (0 .. n)  BY <1>0, <1>1 DEF Visible
  <2>2. PICK a, b : a = Min(Visible(t)) /\ b = Max(Visible(t))  OBVIOUS
  <2>3. a \in Visible(t) /\ b \in Visible(t) /\ \A i \in Visible(t) : a <= i /\ i <= b
    BY <2>1, <2>2, <1>3, EndsAre
  <2>4. a \in 1 .. n /\ b \in 1 .. n /\ a <= b /\ t[a] > 0 /\ t[b] > 0  BY <2>3, <1>0, <1>1 DEF Visible
  <2>5. PICK m : m = SubSeq(t, a, b)  OBVIOUS
  <2>6. Strip(t) = m  BY <2>2, <2>5, <1>3 DEF Strip
  <2>7. m \in Seq(Int) /\ Len(m) = b - a + 1 /\ m[1] = t[a] /\ m[b - a + 1] = t[b]
    <3>1. m \in Seq(Int) /\ Len(m) = b - a + 1  BY <1>0, <1>1, <2>4, <2>5
    <3>2. \A i \in 1 .. b - a + 1 : m[i] = t[a + i - 1]  BY <1>0, <1>1, <2>4, <2>5
    <3>3. 1 \in 1 .. b - a + 1 /\ b - a + 1 \in 1 .. b - a + 1 /\ a + 1 - 1 = a /\ a + (b - a + 1) - 1 = b
      BY <2>4
    <3> QED  BY <3>1, <3>2, <3>3
  <2>8. Clean(m) /\ Len(m) <= Len(t)  BY <2>7, <2>4, <1>1 DEF Clean, Texts
  <2>9. Seen(t) = Seen(m)
    <3>1. PICK p, q : p = SubSeq(t, 1, a - 1) /\ q = SubSeq(t, b + 1, n)  OBVIOUS
    <3>2. p \in Seq(Int) /\ q \in Seq(Int)  BY <3>1, <1>0, <1>1, <2>4
    <3>3. Visible(p) = {}
      <4>1. DOMAIN p = 1 .. a - 1 /\ \A i \in 1 .. a - 1 : p[i] = t[i]  BY <3>1, <1>0, <1>1, <2>4
      <4>2. \A i \in 1 .. a - 1 : ~ (t[i] > 0)
        <5> SUFFICES ASSUME NEW i \in 1 .. a - 1, t[i] > 0 PROVE FALSE  OBVIOUS
        <5>1. i \in Visible(t)  BY <1>0, <1>1, <2>4 DEF Visible
        <5> QED  BY <5>1, <2>3, <2>4
      <4> QED  BY <4>1, <4>2 DEF Visible
    <3>4. Visible(q) = {}
      <4>1. DOMAIN q = 1 .. n - b /\ \A i \in 1 .. n - b : q[i] = t[b + i]
        <5>1. Len(q) = n - b /\ \A i \in 1 .. n - b : q[i] = t[(b + 1) + i - 1]
          <6>1. PICK c \in Int : c = b + 1  BY <2>4
          <6>2. \A i \in c .. n : t[i] \in Int
            <7> SUFFICES ASSUME NEW i \in c .. n PROVE t[i] \in Int  OBVIOUS
            <7>1. i \in 1 .. Len(t)  BY <6>1, <1>1, <2>4
            <7> QED  BY <7>1, <1>0, ElementOfSeq
          <6>3. n \in Int /\ n - c + 1 = n - b /\ (c <= n => n - c + 1 = n - b) /\ (~ (c <= n) => n - b = 0)
            BY <6>1, <1>1, <2>4
          <6>4. Len(q) = (IF c <= n THEN n - c + 1 ELSE 0) /\ \A i \in 1 .. n - c + 1 : q[i] = t[c + i - 1]
            BY <6>1, <6>2, <6>3, <3>1, SubSeqProperties
          <6> QED  BY <6>1, <6>3, <6>4
        <5>2. \A i \in 1 .. n - b : (b + 1) + i - 1 = b + i  BY <2>4
        <5> QED  BY <5>1, <5>2, <3>2
      <4>2. \A i \in 1 .. n - b : ~ (t[b + i] > 0)
        <5> SUFFICES ASSUME NEW i \in 1 .. n - b, t[b + i] > 0 PROVE FALSE  OBVIOUS
        <5>1. b + i \in Visible(t)  BY <1>0, <1>1, <2>4 DEF Visible
        <5> QED  BY <5>1, <2>3, <2>4
      <4> QED  BY <4>1, <4>2 DEF Visible
    <3>5. t = (p \o m) \o q
      <4>1. 1 \in 1 .. Len(t) + 1 /\ a - 1 \in 1 - 1 .. Len(t) /\ b \in a - 1 .. Len(t) /\ (a - 1) + 1 = a
            /\ b \in 1 - 1 .. Len(t) /\ n \in b .. Len(t)
        BY <1>1, <2>4
      <4>2. p \o m = SubSeq(t, 1, b)  BY <4>1, <3>1, <2>5, <1>0, ConcatAdjacentSubSeq
      <4>3. SubSeq(t, 1, b) \o q = SubSeq(t, 1, n)  BY <4>1, <3>1, <1>0, ConcatAdjacentSubSeq
      <4>4. SubSeq(t, 1, n) = t  BY <1>0, <1>1, SubSeqFull
      <4> QED  BY <4>2, <4>3, <4>4
    <3>6. Seen(p) = << >> /\ Seen(q) = << >>  BY <3>2, <3>3, <3>4, NothingSeen
    <3>7. p \o m \in Seq(Int) /\ Seen(m) \in Seq(Int)  BY <3>2, <2>7, SeenType
    <3>8. Seen(p \o m) = Seen(p) \o Seen(m) /\ Seen((p \o m) \o q) = Seen(p \o m) \o Seen(q)
      BY <3>2, <3>7, <2>7, SeenOfTwo
    <3>9. << >> \o Seen(m) = Seen(m) /\ Seen(m) \o << >> = Seen(m)  BY <3>7, ConcatEmptySeq
    <3> QED  BY <3>5, <3>6, <3>8, <3>9
  <2> QED  BY <2>6, <2>7, <2>8, <2>9, <1>3 DEF Texts
<1> QED  BY <1>2, <1>3

\* Nothing is to be stripped from a clean text.
LEMMA StripClean ==
    ASSUME NEW p, Clean(p)
    PROVE  Strip(p) = p
<1>1. p \in Seq(Int) /\ Len(p) >= 1 /\ p[1] > 0 /\ p[Len(p)] > 0  BY DEF Clean, Texts
<1>2. PICK n \in Nat : n = Len(p)  BY <1>1
<1>3. DOMAIN p = 1 .. n /\ 1 \in 1 .. n /\ n \in 1 .. n  BY <1>1, <1>2
<1>4. 1 \in Visible(p) /\ n \in Visible(p) /\ Visible(p) \in SUBSET (0 .. n) /\ Visible(p) \in SUBSET (1 .. n)
  BY <1>1, <1>2, <1>3 DEF Visible
<1>5. PICK a, b : a = Min(Visible(p)) /\ b = Max(Visible(p))  OBVIOUS
<1>6. a \in Visible(p) /\ b \in Visible(p) /\ a <= 1 /\ n <= b  BY <1>4, <1>5, EndsAre
<1>7. a = 1 /\ b = n
  <2>1. a \in 1 .. n /\ b \in 1 .. n  BY <1>6, <1>4
  <2> QED  BY <2>1, <1>6
<1>8. Strip(p) = SubSeq(p, 1, n)  BY <1>4, <1>5, <1>7 DEF Strip
<1> QED  BY <1>1, <1>2, <1>8, SubSeqFull

-----------------------------------------------------------------------------
(* An oversized unit is cut into windows *)

\* Chunks as they are to be: clean, and within the limit.
AllCut(parts, max) == parts \in Seq(Texts) /\ \A i \in 1 .. Len(parts) : Clean(parts[i]) /\ Len(parts[i]) <= max

\* Pieces that are clean and fit may be added.
LEMMA AllCutMore ==
    ASSUME NEW max, NEW parts, AllCut(parts, max)
    PROVE  /\ \A p \in Texts : Clean(p) /\ Len(p) <= max => AllCut(Append(parts, p), max)
           /\ \A more : AllCut(more, max) => AllCut(parts \o more, max)
<1>1. parts \in Seq(Texts) /\ \A i \in 1 .. Len(parts) : Clean(parts[i]) /\ Len(parts[i]) <= max
  BY DEF AllCut
<1>2. PICK n \in Nat : n = Len(parts)  BY <1>1, LenProperties
<1>3. ASSUME NEW p \in Texts, Clean(p), Len(p) <= max PROVE AllCut(Append(parts, p), max)
  <2>1. PICK l : l = Append(parts, p)  OBVIOUS
  <2>2. l \in Seq(Texts) /\ Len(l) = n + 1 /\ l[n + 1] = p /\ \A i \in 1 .. n : l[i] = parts[i]
    BY <2>1, <1>1, <1>2, AppendProperties
  <2>3. ASSUME NEW i \in 1 .. n + 1 PROVE Clean(l[i]) /\ Len(l[i]) <= max
    <3>1. i \in 1 .. n \/ i = n + 1  OBVIOUS
    <3> QED  BY <3>1, <2>2, <1>1, <1>2, <1>3
  <2> QED  BY <2>1, <2>2, <2>3 DEF AllCut
<1>4. ASSUME NEW more, AllCut(more, max) PROVE AllCut(parts \o more, max)
  <2>1. more \in Seq(Texts) /\ \A i \in 1 .. Len(more) : Clean(more[i]) /\ Len(more[i]) <= max
    BY <1>4 DEF AllCut
  <2>2. PICK m \in Nat : m = Len(more)  BY <2>1, LenProperties
  <2>3. PICK l : l = parts \o more  OBVIOUS
  <2>4. l \in Seq(Texts) /\ Len(l) = n + m /\ \A i \in 1 .. n + m : l[i] = IF i <= n THEN parts[i] ELSE more[i - n]
    BY <2>1, <2>2, <2>3, <1>1, <1>2, ConcatProperties
  <2>5. ASSUME NEW i \in 1 .. n + m PROVE Clean(l[i]) /\ Len(l[i]) <= max
    <3>1. CASE i <= n
      <4>1. i \in 1 .. n /\ l[i] = parts[i]  BY <3>1, <2>4
      <4> QED  BY <4>1, <1>1, <1>2
    <3>2. CASE ~ (i <= n)
      <4>1. i - n \in 1 .. m /\ l[i] = more[i - n]  BY <3>2, <2>4
      <4> QED  BY <4>1, <2>1, <2>2
    <3> QED  BY <3>1, <3>2
  <2> QED  BY <2>3, <2>4, <2>5 DEF AllCut
<1> QED  BY <1>3, <1>4

\* A window takes a character at least, and no more than the limit.
LEMMA WindowEndIs ==
    ASSUME NEW t \in Texts, NEW max \in Nat \ {0}, NEW start \in 0 .. Len(t) - 1
    PROVE  WindowEnd(t, start, max) \in start + 1 .. Len(t) /\ WindowEnd(t, start, max) <= start + max
<1>1. PICK n \in Nat : n = Len(t)  BY LenProperties DEF Texts
<1>2. PICK end : end = IF start + max < Len(t) THEN start + max ELSE Len(t)  OBVIOUS
<1>3. end \in start + 1 .. n /\ end <= start + max  BY <1>1, <1>2
<1>4. PICK breaks : breaks = {i \in 0 .. end - start - 1 : t[start + i + 1] = Newline}  OBVIOUS
<1>5. PICK nl : nl = IF breaks = {} THEN 0 ELSE Max(breaks)  OBVIOUS
<1>6. nl \in 0 .. end - start - 1
  <2>1. CASE breaks = {}  BY <2>1, <1>3, <1>5
  <2>2. CASE breaks # {}
    <3>1. end - start - 1 \in Nat /\ breaks \in SUBSET (0 .. end - start - 1)  BY <1>3, <1>4
    <3>2. Max(breaks) \in breaks  BY <3>1, <2>2, EndsAre
    <3> QED  BY <3>1, <3>2, <2>2, <1>5
  <2> QED  BY <2>1, <2>2
<1>7. Max({max \div 2, 1}) \in Nat
  <2>1. {max \div 2, 1} \in SUBSET (0 .. max + 1) /\ {max \div 2, 1} # {} /\ max + 1 \in Nat  OBVIOUS
  <2>2. Max({max \div 2, 1}) \in {max \div 2, 1}  BY <2>1, EndsAre
  <2> QED  BY <2>1, <2>2
<1>8. PICK least \in Nat : least = Max({max \div 2, 1})  BY <1>7
<1>9. WindowEnd(t, start, max) = IF end < n /\ nl > least /\ Visible(SubSeq(t, start + 1, start + nl)) # {} THEN start + nl ELSE end
  BY <1>1, <1>2, <1>4, <1>5, <1>8 DEF WindowEnd
<1>10. CASE end < n /\ nl > least /\ Visible(SubSeq(t, start + 1, start + nl)) # {}
  <2>1. WindowEnd(t, start, max) = start + nl  BY <1>9, <1>10
  <2> QED  BY <2>1, <1>1, <1>3, <1>6, <1>10
<1>11. CASE ~ (end < n /\ nl > least /\ Visible(SubSeq(t, start + 1, start + nl)) # {})
  <2>1. WindowEnd(t, start, max) = end  BY <1>9, <1>11
  <2> QED  BY <2>1, <1>1, <1>3
<1> QED  BY <1>10, <1>11

Windows(t) == [start : 0 .. Len(t), parts : Seq(Texts)]

\* What the windows up to now have shown, and how far they are.
WindowsFit(w, t, max) == AllCut(w.parts, max) /\ SeenAll(w.parts) = Seen(SubSeq(t, 1, w.start))

\* A window takes a character at least until all are taken, and keeps what windows promise.
LEMMA NextWindowIs ==
    ASSUME NEW t \in Texts, NEW max \in Nat \ {0}, NEW w \in Windows(t)
    PROVE  /\ NextWindow(w, t, max) \in Windows(t)
           /\ WindowsFit(w, t, max) => WindowsFit(NextWindow(w, t, max), t, max)
           /\ w.start = Len(t) => NextWindow(w, t, max).start = Len(t)
           /\ w.start < Len(t) => NextWindow(w, t, max).start > w.start
<1>1. PICK n \in Nat : n = Len(t)  BY LenProperties DEF Texts
<1>2. PICK s \in 0 .. n, parts \in Seq(Texts) : s = w.start /\ parts = w.parts  BY <1>1 DEF Windows
<1>3. PICK v : v = NextWindow(w, t, max)  OBVIOUS
<1>4. CASE s = n
  <2>1. v = w  BY <1>1, <1>2, <1>3, <1>4 DEF NextWindow
  <2> QED  BY <2>1, <1>1, <1>2, <1>3, <1>4
<1>5. CASE s # n
  <2>1. s \in 0 .. Len(t) - 1 /\ ~ (s >= n)  BY <1>1, <1>2, <1>5
  <2>2. PICK end \in s + 1 .. n : end = WindowEnd(t, s, max) /\ end <= s + max
    BY <2>1, <1>1, WindowEndIs
  <2>3. PICK m : m = SubSeq(t, s + 1, end)  OBVIOUS
  <2>4. PICK piece : piece = Strip(m)  OBVIOUS
  <2>5. v = [start |-> end, parts |-> IF piece = << >> THEN parts ELSE Append(parts, piece)]
    BY <1>1, <1>2, <1>3, <2>1, <2>2, <2>3, <2>4 DEF NextWindow
  <2>6. t \in Seq(Int)  BY DEF Texts
  <2>7. m \in Texts /\ Len(m) = end - s
    <3>1. PICK c \in 1 .. n : c = s + 1  BY <1>1, <2>1
    <3>2. end \in c .. n /\ end - c + 1 = end - s  BY <3>1, <2>2
    <3>3. m \in Seq(Int) /\ Len(m) = end - c + 1  BY <3>1, <3>2, <2>3, <2>6, <1>1
    <3> QED  BY <3>2, <3>3 DEF Texts
  <2>8. /\ piece \in Texts /\ Len(piece) <= Len(m) /\ Seen(piece) = Seen(m)
        /\ piece = << >> \/ Clean(piece)
    BY <2>7, <2>4, StripIs
  <2>9. Len(piece) <= max
    <3>1. Len(piece) \in Nat  BY <2>8, LenProperties DEF Texts
    <3> QED  BY <3>1, <2>2, <2>7, <2>8
  <2>10. v \in Windows(t) /\ v.start = end
    <3>1. Append(parts, piece) \in Seq(Texts)  BY <2>8, AppendProperties
    <3> QED  BY <3>1, <2>2, <2>5, <1>1 DEF Windows
  <2>11. ASSUME WindowsFit(w, t, max) PROVE WindowsFit(v, t, max)
    <3>1. AllCut(parts, max) /\ SeenAll(parts) = Seen(SubSeq(t, 1, s))  BY <2>11, <1>2 DEF WindowsFit
    <3>2. Seen(SubSeq(t, 1, end)) = Seen(SubSeq(t, 1, s)) \o Seen(m)
      <4>1. 1 \in 1 .. Len(t) + 1 /\ s \in 1 - 1 .. Len(t) /\ end \in s .. Len(t)  BY <1>1, <2>2
      <4>2. SubSeq(t, 1, s) \o m = SubSeq(t, 1, end)  BY <4>1, <2>3, <2>6, ConcatAdjacentSubSeq
      <4>3. SubSeq(t, 1, s) \in Seq(Int) /\ m \in Seq(Int)  BY <4>1, <2>6, <2>7 DEF Texts
      <4> QED  BY <4>2, <4>3, SeenOfTwo
    <3>3. CASE piece = << >>
      <4>1. v.parts = parts /\ v.start = end  BY <2>5, <3>3
      <4>2. Seen(m) = << >> /\ Seen(SubSeq(t, 1, s)) \in Seq(Int)
        <5>1. SubSeq(t, 1, s) \in Seq(Int)  BY <2>6, <1>1, <2>1
        <5> QED  BY <5>1, <3>3, <2>8, SeenEmpty, SeenType
      <4>3. Seen(SubSeq(t, 1, end)) = Seen(SubSeq(t, 1, s))  BY <3>2, <4>2, ConcatEmptySeq
      <4> QED  BY <4>1, <4>3, <3>1 DEF WindowsFit
    <3>4. CASE piece # << >>
      <4>1. v.parts = Append(parts, piece) /\ v.start = end  BY <2>5, <3>4
      <4>2. AllCut(v.parts, max)  BY <4>1, <3>1, <3>4, <2>8, <2>9, AllCutMore
      <4>3. SeenAll(v.parts) = SeenAll(parts) \o Seen(piece)  BY <4>1, <2>8, SeenAllAppend
      <4> QED  BY <4>1, <4>2, <4>3, <3>1, <3>2, <2>8 DEF WindowsFit
    <3> QED  BY <3>3, <3>4
  <2>12. w.start < Len(t) => v.start > w.start  BY <2>10, <2>2, <1>1, <1>2
  <2>13. ~ (w.start = Len(t))  BY <1>1, <1>2, <1>5
  <2> QED  BY <2>10, <2>11, <2>12, <2>13, <1>3
<1> QED  BY <1>4, <1>5

\* What SplitOversized does with each window.
SplitStep(t, max) == [w \in (1 .. Len(t)) \X Windows(t) |-> NextWindow(w[2], t, max)]
SplitBy(t, max, f) == f = [i \in 0 .. Len(t) |-> IF i = 0 THEN [start |-> 0, parts |-> << >>] ELSE NextWindow(f[i - 1], t, max)]

\* What SplitOversized does, as a run of its windows.
LEMMA SplitIs ==
    ASSUME NEW t \in Texts, NEW max \in Nat \ {0}
    PROVE  \E f : RunsTo(SplitStep(t, max), [start |-> 0, parts |-> << >>], Len(t), Windows(t), f) /\ SplitOversized(t, max) = f[Len(t)].parts
<1>0. Len(t) \in Nat /\ [start |-> 0, parts |-> << >>] \in Windows(t)
  BY LenProperties DEF Texts, Windows
<1> DEFINE h == SplitStep(t, max)
<1>1. ASSUME NEW i \in 1 .. Len(t), NEW x \in Windows(t) PROVE NextWindow(x, t, max) \in Windows(t)
  BY NextWindowIs
<1>2. h \in [(1 .. Len(t)) \X Windows(t) -> Windows(t)]
  <2>1. \A w \in (1 .. Len(t)) \X Windows(t) : w[1] \in 1 .. Len(t) /\ w[2] \in Windows(t)  OBVIOUS
  <2> QED  BY <1>1, <2>1 DEF SplitStep
<1>3. \A i \in 1 .. Len(t), x \in Windows(t) : h[<<i, x>>] = NextWindow(x, t, max)  BY DEF SplitStep
<1> HIDE DEF h
<1>4. PICK g : RunsTo(h, [start |-> 0, parts |-> << >>], Len(t), Windows(t), g)
  BY <1>0, <1>2, Recursion
<1>5. SplitBy(t, max, g)
  <2>1. /\ g = [i \in 0 .. Len(t) |-> g[i]] /\ g[0] = [start |-> 0, parts |-> << >>]
        /\ \A i \in 1 .. Len(t) : g[i] = h[<<i, g[i - 1]>>] /\ g[i - 1] \in Windows(t)
        /\ \A i \in 0 .. Len(t) : i = 0 \/ i \in 1 .. Len(t)
    BY <1>0, <1>4, RunGoes
  <2>2. \A i \in 0 .. Len(t) : g[i] = IF i = 0 THEN [start |-> 0, parts |-> << >>] ELSE NextWindow(g[i - 1], t, max)
    BY <2>1, <1>3
  <2> QED  BY <2>1, <2>2 DEF SplitBy
<1>6. PICK f : f = CHOOSE e : SplitBy(t, max, e)  OBVIOUS
<1>7. f = [i \in 0 .. Len(t) |-> IF i = 0 THEN [start |-> 0, parts |-> << >>] ELSE NextWindow(f[i - 1], t, max)]
  BY <1>5, <1>6 DEF SplitBy
<1>8. SplitOversized(t, max) = f[Len(t)].parts  BY <1>6 DEF SplitOversized, SplitBy
<1>9. RunsTo(h, [start |-> 0, parts |-> << >>], Len(t), Windows(t), f)
  <2>1. f = [i \in 0 .. Len(t) |-> f[i]] /\ \A i \in 0 .. Len(t) : f[i] = IF i = 0 THEN [start |-> 0, parts |-> << >>] ELSE NextWindow(f[i - 1], t, max)
    BY ONLY <1>7
  <2>2. f[0] = [start |-> 0, parts |-> << >>] /\ \A i \in 1 .. Len(t) : f[i - 1] \in Windows(t) => f[i] = h[<<i, f[i - 1]>>]
    <3>1. 0 \in 0 .. Len(t) /\ \A i \in 1 .. Len(t) : i \in 0 .. Len(t) /\ i # 0  BY <1>0
    <3>2. \A i \in 1 .. Len(t) : f[i] = NextWindow(f[i - 1], t, max)  BY ONLY <2>1, <3>1
    <3> QED  BY ONLY <1>3, <2>1, <3>1, <3>2
  <2> QED  BY <1>0, <1>2, <2>1, <2>2, RunOf
<1> QED  BY <1>8, <1>9 DEF h

\* A text that is too long is cut into clean pieces within the limit, which show all that it shows.
LEMMA SplitOversizedIs ==
    ASSUME NEW t \in Texts, NEW max \in Nat \ {0}
    PROVE  AllCut(SplitOversized(t, max), max) /\ SeenAll(SplitOversized(t, max)) = Seen(t)
<1>0. PICK n \in Nat : n = Len(t)  BY LenProperties DEF Texts
<1>1. PICK f : RunsTo(SplitStep(t, max), [start |-> 0, parts |-> << >>], n, Windows(t), f) /\ SplitOversized(t, max) = f[n].parts
  BY <1>0, SplitIs
<1>2. /\ f \in [0 .. n -> Windows(t)] /\ f[0] = [start |-> 0, parts |-> << >>]
      /\ \A i \in 1 .. n : f[i] = NextWindow(f[i - 1], t, max)
  <2>1. f \in [0 .. n -> Windows(t)] /\ f[0] = [start |-> 0, parts |-> << >>]
        /\ \A i \in 1 .. n : f[i] = SplitStep(t, max)[<<i, f[i - 1]>>]
    BY <1>1 DEF RunsTo
  <2>2. \A i \in 1 .. n : i - 1 \in 0 .. n  OBVIOUS
  <2>3. \A i \in 1 .. n, x \in Windows(t) : SplitStep(t, max)[<<i, x>>] = NextWindow(x, t, max)
    BY <1>0 DEF SplitStep
  <2> QED  BY <2>1, <2>2, <2>3
<1> DEFINE S == {i \in 0 .. n : WindowsFit(f[i], t, max) /\ f[i].start >= i}
<1>3. 0 \in S
  <2>1. f[0].start = 0 /\ f[0].parts = << >>  BY <1>2
  <2>2. SubSeq(t, 1, 0) = << >>  BY SubSeqEmpty
  <2>3. AllCut(<< >>, max)  BY DEF AllCut
  <2>4. SeenAll(<< >>) = Seen(SubSeq(t, 1, 0))  BY <2>2, SeenEmpty, SeenAllAppend
  <2>5. WindowsFit(f[0], t, max)  BY <2>1, <2>3, <2>4 DEF WindowsFit
  <2>6. 0 \in 0 .. n /\ f[0].start >= 0  BY <2>1
  <2> QED  BY <2>5, <2>6
<1>4. \A i \in 0 .. n - 1 : i \in S => i + 1 \in S
  <2> SUFFICES ASSUME NEW i \in 0 .. n - 1, i \in S PROVE i + 1 \in S  OBVIOUS
  <2>1. i + 1 \in 1 .. n /\ (i + 1) - 1 = i /\ i + 1 \in 0 .. n /\ i \in 0 .. n  OBVIOUS
  <2>2. f[i + 1] = NextWindow(f[i], t, max) /\ f[i] \in Windows(t) /\ WindowsFit(f[i], t, max) /\ f[i].start >= i
    BY <2>1, <1>2
  <2>3. f[i + 1] \in Windows(t)  BY <2>1, <1>2
  <2>4. PICK a \in 0 .. n, b \in 0 .. n : a = f[i].start /\ b = f[i + 1].start
    BY <2>2, <2>3, <1>0 DEF Windows
  <2>5. (a = n => b = n) /\ (a < n => b > a)  BY <2>2, <2>4, <1>0, NextWindowIs
  <2>6. b >= i + 1  BY <2>2, <2>4, <2>5
  <2>7. WindowsFit(f[i + 1], t, max)  BY <2>2, NextWindowIs
  <2> QED  BY <2>1, <2>4, <2>6, <2>7
<1> HIDE DEF S
<1>5. n \in S
  <2>1. \A i \in 0 .. n : i \in S  BY <1>3, <1>4, Induct
  <2> QED  BY <2>1
<1>6. WindowsFit(f[n], t, max) /\ f[n].start = n
  <2>1. f[n] \in Windows(t)  BY <1>2
  <2>2. f[n].start \in 0 .. n  BY <2>1, <1>0 DEF Windows
  <2> QED  BY <2>2, <1>5 DEF S
<1>7. SubSeq(t, 1, n) = t  BY <1>0, SubSeqFull DEF Texts
<1> QED  BY <1>1, <1>6, <1>7 DEF WindowsFit

-----------------------------------------------------------------------------
(* Paragraphs and lines *)

\* A sequence that is not empty is all but its last entry, and that.
LEMMA FrontAndLast ==
    ASSUME NEW T, NEW s \in Seq(T), s # << >>
    PROVE  Front(s) \in Seq(T) /\ Last(s) \in T /\ s = Append(Front(s), Last(s))
<1>1. PICK n \in Nat \ {0} : n = Len(s)  BY EmptySeq
<1>2. n \in 1 .. n /\ n - 1 \in 0 .. n /\ \A i \in 1 .. n : s[i] \in T  BY <1>1, ElementOfSeq
<1>3. PICK f : f = Front(s)  OBVIOUS
<1>4. f = SubSeq(s, 1, n - 1)  BY <1>1, <1>3 DEF Front
<1>5. Last(s) = s[n]  BY <1>1 DEF Last
<1>6. f \in Seq(T) /\ Len(f) = n - 1 /\ \A i \in 1 .. n - 1 : f[i] = s[i]
  <2>1. 1 \in Int /\ n - 1 \in Int /\ \A i \in 1 .. n - 1 : s[i] \in T  BY <1>2
  <2>2. f \in Seq(T) /\ Len(f) = (IF 1 <= n - 1 THEN (n - 1) - 1 + 1 ELSE 0) /\ \A i \in 1 .. (n - 1) - 1 + 1 : f[i] = s[1 + i - 1]
    BY <2>1, <1>4, SubSeqProperties
  <2> QED  BY <2>2
<1>7. PICK l : l = Append(f, s[n])  OBVIOUS
<1>8. l \in Seq(T) /\ Len(l) = n /\ l[n] = s[n] /\ \A i \in 1 .. n - 1 : l[i] = f[i]
  BY <1>2, <1>6, <1>7, AppendProperties
<1>9. \A i \in 1 .. n : l[i] = s[i]
  <2>1. \A i \in 1 .. n : i = n \/ i \in 1 .. n - 1  BY <1>1
  <2> QED  BY <2>1, <1>6, <1>8
<1>10. l = s  BY <1>1, <1>8, <1>9, SeqEqual
<1> QED  BY <1>2, <1>3, <1>5, <1>6, <1>7, <1>10

\* A piece that gets longer shows one character more, if it is visible.
LEMMA LongerIs ==
    ASSUME NEW ps \in Seq(Texts), NEW c \in Int
    PROVE  /\ Longer(ps, c) \in Seq(Texts)
           /\ ps # << >> => SeenAll(Longer(ps, c)) = IF c > 0 THEN Append(SeenAll(ps), c) ELSE SeenAll(ps)
<1>1. CASE ps = << >>
  <2>1. Longer(ps, c) = << >>  BY <1>1 DEF Longer
  <2> QED  BY <2>1, <1>1
<1>2. CASE ps # << >>
  <2>1. PICK f \in Seq(Texts), l \in Texts : f = Front(ps) /\ l = Last(ps) /\ ps = Append(f, l)
    BY <1>2, FrontAndLast
  <2>2. PICK e : e = Append(l, c)  OBVIOUS
  <2>3. e \in Texts /\ l \in Seq(Int) /\ e \in Seq(Int)  BY <2>1, <2>2, AppendProperties DEF Texts
  <2>4. Longer(ps, c) = Append(f, e)  BY <1>2, <2>1, <2>2 DEF Longer
  <2>5. Append(f, e) \in Seq(Texts)  BY <2>1, <2>3, AppendProperties
  <2>6. SeenAll(ps) = SeenAll(f) \o Seen(l) /\ SeenAll(Append(f, e)) = SeenAll(f) \o Seen(e) /\ SeenAll(f) \in Seq(Int)
    BY <2>1, <2>3, SeenAllAppend DEF Texts
  <2>7. Seen(l) \in Seq(Int) /\ Seen(e) = IF c > 0 THEN Append(Seen(l), c) ELSE Seen(l)
    BY <2>2, <2>3, SeenAppend
  <2>8. SeenAll(f) \o Append(Seen(l), c) = Append(SeenAll(f) \o Seen(l), c)
    BY <2>6, <2>7, AppendAfter, SMTT(30)
  <2> QED  BY <2>4, <2>5, <2>6, <2>7, <2>8
<1> QED  BY <1>1, <1>2

\* Every text of these shows something.
AllShow(ps) == \A i \in 1 .. Len(ps) : Visible(ps[i]) # {}

\* Pieces of which each shows something, and one more.
LEMMA AllShowMore ==
    ASSUME NEW ps \in Seq(Texts), AllShow(ps), NEW u \in Texts, Visible(u) # {}
    PROVE  AllShow(Append(ps, u))
<1>1. PICK n \in Nat : n = Len(ps)  BY LenProperties
<1>2. PICK l : l = Append(ps, u)  OBVIOUS
<1>3. Len(l) = n + 1 /\ l[n + 1] = u /\ \A i \in 1 .. n : l[i] = ps[i]  BY <1>1, <1>2, AppendProperties
<1>4. ASSUME NEW i \in 1 .. n + 1 PROVE Visible(l[i]) # {}
  <2>1. i \in 1 .. n \/ i = n + 1  OBVIOUS
  <2> QED  BY <2>1, <1>1, <1>3 DEF AllShow
<1> QED  BY <1>2, <1>3, <1>4 DEF AllShow

\* The same when the last piece gets longer.
LEMMA AllShowLonger ==
    ASSUME NEW ps \in Seq(Texts), AllShow(ps), NEW c \in Int
    PROVE  AllShow(Longer(ps, c))
<1>1. CASE ps = << >>  BY <1>1 DEF Longer
<1>2. CASE ps # << >>
  <2>1. PICK f \in Seq(Texts), l \in Texts : f = Front(ps) /\ l = Last(ps) /\ ps = Append(f, l)
    BY <1>2, FrontAndLast
  <2>2. PICK n \in Nat : n = Len(f)  BY LenProperties
  <2>3. Len(ps) = n + 1 /\ ps[n + 1] = l /\ \A i \in 1 .. n : ps[i] = f[i]
    BY <2>1, <2>2, AppendProperties
  <2>4. Visible(l) # {} /\ AllShow(f)
    <3>1. n + 1 \in 1 .. n + 1 /\ \A i \in 1 .. n : i \in 1 .. n + 1  OBVIOUS
    <3> QED  BY <3>1, <2>2, <2>3 DEF AllShow
  <2>5. PICK e : e = Append(l, c)  OBVIOUS
  <2>6. e \in Texts /\ l \in Seq(Int)  BY <2>1, <2>5, AppendProperties DEF Texts
  <2>7. Visible(e) # {}
    <3>1. PICK m \in Nat : m = Len(l)  BY <2>6, LenProperties
    <3>2. DOMAIN l = 1 .. m /\ DOMAIN e = 1 .. m + 1 /\ \A i \in 1 .. m : e[i] = l[i]
      BY <3>1, <2>5, <2>6, AppendProperties, LenProperties DEF Texts
    <3>3. PICK i \in 1 .. m : l[i] > 0  BY <3>2, <2>4 DEF Visible
    <3>4. i \in DOMAIN e /\ e[i] > 0  BY <3>2, <3>3
    <3> QED  BY <3>4 DEF Visible
  <2>8. Longer(ps, c) = Append(f, e)  BY <1>2, <2>1, <2>5 DEF Longer
  <2> QED  BY <2>4, <2>6, <2>7, <2>8, AllShowMore
<1> QED  BY <1>1, <1>2

\* What Pieces does with each character.
CutStep(t, starts) == [w \in (1 .. Len(t)) \X Seq(Texts) |-> IF w[1] \in starts THEN Append(w[2], <<t[w[1]]>>) ELSE Longer(w[2], t[w[1]])]
CutBy(t, starts, f) == f = [i \in 0 .. Len(t) |-> IF i = 0 THEN << >> ELSE IF i \in starts THEN Append(f[i - 1], <<t[i]>>) ELSE Longer(f[i - 1], t[i])]

\* What Pieces does, as a run of its characters.
LEMMA CutIs ==
    ASSUME NEW t \in Texts, NEW starts
    PROVE  \E f : RunsTo(CutStep(t, starts), << >>, Len(t), Seq(Texts), f) /\ Pieces(t, starts) = f[Len(t)]
<1>0. Len(t) \in Nat /\ << >> \in Seq(Texts)  BY LenProperties DEF Texts
<1> DEFINE h == CutStep(t, starts)
<1>1. ASSUME NEW i \in 1 .. Len(t), NEW x \in Seq(Texts) PROVE (IF i \in starts THEN Append(x, <<t[i]>>) ELSE Longer(x, t[i])) \in Seq(Texts)
  <2>1. t[i] \in Int /\ <<t[i]>> \in Texts  BY ElementOfSeq DEF Texts
  <2>2. Append(x, <<t[i]>>) \in Seq(Texts) /\ Longer(x, t[i]) \in Seq(Texts)
    BY <2>1, AppendProperties, LongerIs
  <2> QED  BY <2>2
<1>2. h \in [(1 .. Len(t)) \X Seq(Texts) -> Seq(Texts)]
  <2>1. \A w \in (1 .. Len(t)) \X Seq(Texts) : w[1] \in 1 .. Len(t) /\ w[2] \in Seq(Texts)  OBVIOUS
  <2> QED  BY <1>1, <2>1 DEF CutStep
<1>3. \A i \in 1 .. Len(t), x \in Seq(Texts) : h[<<i, x>>] = IF i \in starts THEN Append(x, <<t[i]>>) ELSE Longer(x, t[i])
  BY DEF CutStep
<1> HIDE DEF h
<1>4. PICK g : RunsTo(h, << >>, Len(t), Seq(Texts), g)  BY <1>0, <1>2, Recursion
<1>5. CutBy(t, starts, g)
  <2>1. /\ g = [i \in 0 .. Len(t) |-> g[i]] /\ g[0] = << >>
        /\ \A i \in 1 .. Len(t) : g[i] = h[<<i, g[i - 1]>>] /\ g[i - 1] \in Seq(Texts)
        /\ \A i \in 0 .. Len(t) : i = 0 \/ i \in 1 .. Len(t)
    BY <1>0, <1>4, RunGoes
  <2>2. \A i \in 0 .. Len(t) : g[i] = IF i = 0 THEN << >> ELSE IF i \in starts THEN Append(g[i - 1], <<t[i]>>) ELSE Longer(g[i - 1], t[i])
    BY <2>1, <1>3
  <2> QED  BY <2>1, <2>2 DEF CutBy
<1>6. PICK f : f = CHOOSE e : CutBy(t, starts, e)  OBVIOUS
<1>7. f = [i \in 0 .. Len(t) |-> IF i = 0 THEN << >> ELSE IF i \in starts THEN Append(f[i - 1], <<t[i]>>) ELSE Longer(f[i - 1], t[i])]
  BY <1>5, <1>6 DEF CutBy
<1>8. Pieces(t, starts) = f[Len(t)]  BY <1>6 DEF Pieces, CutBy
<1>9. RunsTo(h, << >>, Len(t), Seq(Texts), f)
  <2>1. f = [i \in 0 .. Len(t) |-> f[i]] /\ \A i \in 0 .. Len(t) : f[i] = IF i = 0 THEN << >> ELSE IF i \in starts THEN Append(f[i - 1], <<t[i]>>) ELSE Longer(f[i - 1], t[i])
    BY ONLY <1>7
  <2>2. f[0] = << >> /\ \A i \in 1 .. Len(t) : f[i - 1] \in Seq(Texts) => f[i] = h[<<i, f[i - 1]>>]
    BY <1>0, <1>3, <2>1
  <2> QED  BY <1>0, <1>2, <2>1, <2>2, RunOf
<1> QED  BY <1>8, <1>9 DEF h

\* Before a visible character at which no piece starts there is one at least.
SomeBefore(t, starts) == starts \in SUBSET Visible(t) /\ \A i \in Visible(t) \ starts : \E h \in Visible(t) : h < i

\* The pieces show what the text does, each of them something.
LEMMA PiecesShow ==
    ASSUME NEW t \in Texts, NEW starts, SomeBefore(t, starts)
    PROVE  Pieces(t, starts) \in Seq(Texts) /\ AllShow(Pieces(t, starts)) /\ SeenAll(Pieces(t, starts)) = Seen(t)
<1>0. PICK n \in Nat : n = Len(t)  BY LenProperties DEF Texts
<1>1. PICK f : RunsTo(CutStep(t, starts), << >>, n, Seq(Texts), f) /\ Pieces(t, starts) = f[n]
  BY <1>0, CutIs
<1>2. /\ f \in [0 .. n -> Seq(Texts)] /\ f[0] = << >>
      /\ \A i \in 1 .. n : f[i] = IF i \in starts THEN Append(f[i - 1], <<t[i]>>) ELSE Longer(f[i - 1], t[i])
  <2>1. f \in [0 .. n -> Seq(Texts)] /\ f[0] = << >>
        /\ \A i \in 1 .. n : f[i] = CutStep(t, starts)[<<i, f[i - 1]>>]
    BY <1>1 DEF RunsTo
  <2>2. \A i \in 1 .. n : i - 1 \in 0 .. n  OBVIOUS
  <2>3. \A i \in 1 .. n, x \in Seq(Texts) : CutStep(t, starts)[<<i, x>>] = IF i \in starts THEN Append(x, <<t[i]>>) ELSE Longer(x, t[i])
    BY <1>0 DEF CutStep
  <2> QED  BY <2>1, <2>2, <2>3
<1>3. t \in Seq(Int) /\ DOMAIN t = 1 .. n /\ \A i \in 1 .. n : t[i] \in Int
  BY <1>0, LenProperties, ElementOfSeq DEF Texts
<1>4. PICK p : PrefixesOf(t, Int, p)  BY <1>3, PrefixesAre
<1>5. /\ p \in [0 .. n -> Seq(Int)] /\ p[0] = << >> /\ p[n] = t
      /\ \A i \in 0 .. n - 1 : p[i + 1] = Append(p[i], t[i + 1])
      /\ \A i \in 0 .. n : Len(p[i]) = i /\ p[i] = SubSeq(t, 1, i)
  BY <1>0, <1>4 DEF PrefixesOf
<1> DEFINE S == {i \in 0 .. n : AllShow(f[i]) /\ SeenAll(f[i]) = Seen(p[i])}
<1>6. 0 \in S
  <2>1. AllShow(<< >>)  BY DEF AllShow
  <2>2. SeenAll(<< >>) = Seen(<< >>)  BY SeenEmpty, SeenAllAppend
  <2> QED  BY <2>1, <2>2, <1>2, <1>5
<1>7. \A i \in 0 .. n - 1 : i \in S => i + 1 \in S
  <2> SUFFICES ASSUME NEW i \in 0 .. n - 1, i \in S PROVE i + 1 \in S  OBVIOUS
  <2>1. i + 1 \in 1 .. n /\ (i + 1) - 1 = i /\ i + 1 \in 0 .. n /\ i \in 0 .. n  OBVIOUS
  <2>2. PICK c \in Int : c = t[i + 1]  BY <2>1, <1>3
  <2>3. PICK b \in Seq(Texts) : b = f[i] /\ AllShow(b) /\ SeenAll(b) = Seen(p[i])  BY <2>1, <1>2
  <2>4. PICK q \in Seq(Int) : q = p[i] /\ Seen(p[i + 1]) = (IF c > 0 THEN Append(Seen(q), c) ELSE Seen(q))
    <3>1. p[i] \in Seq(Int) /\ p[i + 1] = Append(p[i], c)  BY <2>1, <2>2, <1>5
    <3> QED  BY <3>1, SeenAppend
  <2>5. CASE i + 1 \in starts
    <3>1. f[i + 1] = Append(b, <<c>>)  BY <2>1, <2>2, <2>3, <2>5, <1>2
    <3>2. c > 0  BY <2>2, <2>5 DEF SomeBefore, Visible
    <3>3. <<c>> \in Texts /\ Visible(<<c>>) # {} /\ Seen(<<c>>) = <<c>>
      <4>1. <<c>> \in Seq(Int) /\ << >> \in Seq(Int) /\ <<c>> = Append(<< >>, c) /\ 1 \in DOMAIN <<c>> /\ <<c>>[1] = c
        OBVIOUS
      <4>2. Seen(Append(<< >>, c)) = Append(Seen(<< >>), c)  BY <4>1, <3>2, SeenAppend
      <4>3. 1 \in Visible(<<c>>)  BY <4>1, <3>2 DEF Visible
      <4> QED  BY <4>1, <4>2, <4>3, SeenEmpty DEF Texts
    <3>4. AllShow(f[i + 1])  BY <3>1, <3>3, <2>3, AllShowMore
    <3>5. SeenAll(f[i + 1]) = SeenAll(b) \o <<c>> /\ SeenAll(b) \in Seq(Int)
      BY <3>1, <3>3, <2>3, SeenAllAppend DEF Texts
    <3>6. SeenAll(b) \o <<c>> = Append(SeenAll(b), c)  BY <3>5, AppendIsConcat
    <3> QED  BY <3>2, <3>4, <3>5, <3>6, <2>1, <2>3, <2>4
  <2>6. CASE i + 1 \notin starts
    <3>1. f[i + 1] = Longer(b, c)  BY <2>1, <2>2, <2>3, <2>6, <1>2
    <3>2. AllShow(f[i + 1])  BY <3>1, <2>3, AllShowLonger
    <3>3. CASE b = << >>
      <4>1. Seen(q) = << >>  BY <3>3, <2>3, <2>4, SeenAllAppend
      <4>2. Visible(q) = {}  BY <4>1, NothingSeen
      <4>3. ~ (c > 0)
        <5> SUFFICES ASSUME c > 0 PROVE FALSE  OBVIOUS
        <5>1. i + 1 \in Visible(t) \ starts  BY <2>1, <2>2, <2>6, <1>3 DEF Visible
        <5>2. PICK h \in Visible(t) : h < i + 1  BY <5>1 DEF SomeBefore
        <5>3. h \in 1 .. n /\ t[h] > 0  BY <1>3 DEF Visible
        <5>4. h \in 1 .. i  BY <5>2, <5>3
        <5>5. Len(q) = i /\ q = SubSeq(t, 1, i)  BY <2>1, <2>4, <1>5
        <5>6. q[h] = t[h]
          <6>1. 1 \in Int /\ i \in Int /\ \A j \in 1 .. i : t[j] \in Int  BY <1>3, <2>1
          <6>2. \A j \in 1 .. i - 1 + 1 : q[j] = t[1 + j - 1]  BY <6>1, <5>5, SubSeqProperties
          <6>3. h \in 1 .. i - 1 + 1 /\ 1 + h - 1 = h  BY <5>4
          <6> QED  BY <6>2, <6>3
        <5>7. h \in DOMAIN q  BY <5>4, <5>5, LenProperties
        <5> QED  BY <5>3, <5>6, <5>7, <4>2 DEF Visible
      <4>4. f[i + 1] = << >>  BY <3>1, <3>3 DEF Longer
      <4>5. SeenAll(f[i + 1]) = Seen(p[i + 1])  BY <4>1, <4>3, <4>4, <2>4, SeenAllAppend
      <4> QED  BY <4>5, <3>2, <2>1
    <3>4. CASE b # << >>
      <4>1. SeenAll(f[i + 1]) = IF c > 0 THEN Append(SeenAll(b), c) ELSE SeenAll(b)
        BY <3>1, <3>4, LongerIs
      <4>2. SeenAll(f[i + 1]) = Seen(p[i + 1])  BY <4>1, <2>3, <2>4
      <4> QED  BY <4>2, <3>2, <2>1
    <3> QED  BY <3>3, <3>4
  <2> QED  BY <2>5, <2>6
<1> HIDE DEF S
<1>8. n \in S
  <2>1. \A i \in 0 .. n : i \in S  BY <1>6, <1>7, Induct
  <2> QED  BY <2>1
<1>9. n \in 0 .. n  OBVIOUS
<1> QED  BY <1>1, <1>2, <1>5, <1>8, <1>9 DEF S

\* Clean texts one after the other.
AllClean(ps) == ps \in Seq(Texts) /\ \A i \in 1 .. Len(ps) : Clean(ps[i])

\* Paragraphs and lines show what the text does, and are clean.
LEMMA SeparatedIs ==
    ASSUME NEW t \in Texts, NEW n \in Nat
    PROVE  AllClean(Separated(t, n)) /\ SeenAll(Separated(t, n)) = Seen(t)
<1>1. PICK starts : starts = {i \in Visible(t) : LET before == {h \in Visible(t) : h < i}
                               IN  before = {} \/ Cardinality({k \in Max(before) .. i : t[k] = Newline}) >= n}
  OBVIOUS
<1>2. SomeBefore(t, starts)  BY <1>1 DEF SomeBefore
<1>3. PICK ps \in Seq(Texts) : ps = Pieces(t, starts) /\ AllShow(ps) /\ SeenAll(ps) = Seen(t)
  BY <1>2, PiecesShow
<1>4. PICK m \in Nat : m = Len(ps) /\ DOMAIN ps = 1 .. m  BY LenProperties
<1>5. Separated(t, n) = [k \in 1 .. m |-> Strip(ps[k])]  BY <1>1, <1>3, <1>4 DEF Separated
<1>6. PICK r : r = [k \in 1 .. m |-> Strip(ps[k])]  OBVIOUS
<1>7. ASSUME NEW k \in 1 .. m PROVE r[k] \in Texts /\ Clean(r[k]) /\ Seen(r[k]) = Seen(ps[k])
  <2>1. ps[k] \in Texts /\ Visible(ps[k]) # {}  BY <1>3, <1>4, ElementOfSeq DEF AllShow
  <2>2. r[k] = Strip(ps[k])  BY <1>6
  <2> QED  BY <2>1, <2>2, StripIs
<1>8. r \in Seq(Texts) /\ Len(r) = m /\ DOMAIN r = 1 .. m  BY <1>6, <1>7
<1>9. AllClean(r)  BY <1>7, <1>8 DEF AllClean
<1>10. SeenAll(r) = SeenAll(ps)
  <2>1. [i \in DOMAIN r |-> Seen(r[i])] = [i \in DOMAIN ps |-> Seen(ps[i])]  BY <1>4, <1>7, <1>8
  <2> QED  BY <2>1 DEF SeenAll
<1> QED  BY <1>3, <1>5, <1>6, <1>9, <1>10

-----------------------------------------------------------------------------
(* Units are joined as long as they fit *)

\* What is in a sequence made of two is in one of them.
LEMMA ToSetOfTwo ==
    ASSUME NEW T, NEW s \in Seq(T), NEW t \in Seq(T)
    PROVE  ToSet(s \o t) = ToSet(s) \cup ToSet(t)
<1>1. PICK m \in Nat, n \in Nat : m = Len(s) /\ n = Len(t) /\ DOMAIN s = 1 .. m /\ DOMAIN t = 1 .. n
  BY LenProperties
<1>2. PICK l : l = s \o t  OBVIOUS
<1>3. DOMAIN l = 1 .. m + n /\ \A i \in 1 .. m + n : l[i] = IF i <= m THEN s[i] ELSE t[i - m]
  BY <1>1, <1>2, ConcatProperties, LenProperties
<1>4. ASSUME NEW x \in ToSet(l) PROVE x \in ToSet(s) \cup ToSet(t)
  <2>1. PICK i \in 1 .. m + n : x = l[i]  BY <1>3 DEF ToSet
  <2>2. CASE i <= m
    <3>1. i \in DOMAIN s /\ x = s[i]  BY <2>1, <2>2, <1>1, <1>3
    <3> QED  BY <3>1 DEF ToSet
  <2>3. CASE ~ (i <= m)
    <3>1. i - m \in DOMAIN t /\ x = t[i - m]  BY <2>1, <2>3, <1>1, <1>3
    <3> QED  BY <3>1 DEF ToSet
  <2> QED  BY <2>2, <2>3
<1>5. ASSUME NEW x \in ToSet(s) PROVE x \in ToSet(l)
  <2>1. PICK i \in 1 .. m : x = s[i]  BY <1>1 DEF ToSet
  <2>2. i \in DOMAIN l /\ x = l[i]  BY <2>1, <1>1, <1>3
  <2> QED  BY <2>2 DEF ToSet
<1>6. ASSUME NEW x \in ToSet(t) PROVE x \in ToSet(l)
  <2>1. PICK i \in 1 .. n : x = t[i]  BY <1>1 DEF ToSet
  <2>2. i + m \in 1 .. m + n /\ ~ (i + m <= m) /\ (i + m) - m = i  BY <1>1
  <2>3. i + m \in DOMAIN l /\ x = l[i + m]  BY <2>1, <2>2, <1>3
  <2> QED  BY <2>3 DEF ToSet
<1> QED  BY <1>2, <1>4, <1>5, <1>6

\* What is seen of a text is in it; the first character of a clean one is seen.
LEMMA SeenIn ==
    /\ \A t \in Texts : ToSet(Seen(t)) \subseteq ToSet(t)
    /\ \A p : Clean(p) => p[1] \in ToSet(Seen(p))
<1>1. \A t \in Texts : ToSet(Seen(t)) = {t[i] : i \in Visible(t)}  BY SeenAre DEF Texts
<1>2. \A p : Clean(p) => p \in Texts /\ 1 \in Visible(p)
  <2> SUFFICES ASSUME NEW p, Clean(p) PROVE p \in Texts /\ 1 \in Visible(p)  OBVIOUS
  <2>1. p \in Seq(Int) /\ Len(p) >= 1 /\ p[1] > 0  BY DEF Clean, Texts
  <2>2. 1 \in DOMAIN p  BY <2>1
  <2> QED  BY <2>1, <2>2 DEF Visible, Texts
<1> QED  BY <1>1, <1>2 DEF Visible, ToSet

\* What one of several texts shows, all of them do.
LEMMA SeenAmongAll ==
    ASSUME NEW ss \in Seq(Texts)
    PROVE  SeenAll(ss) \in Texts /\ \A h \in 1 .. Len(ss) : ToSet(Seen(ss[h])) \subseteq ToSet(SeenAll(ss))
<1> DEFINE S == {s \in Seq(Texts) : SeenAll(s) \in Texts /\ \A h \in 1 .. Len(s) : ToSet(Seen(s[h])) \subseteq ToSet(SeenAll(s))}
<1>1. << >> \in S
  <2>1. << >> \in Seq(Texts) /\ << >> \in Texts /\ Len(<< >>) = 0  BY DEF Texts
  <2>2. \A h \in 1 .. Len(<< >>) : FALSE  BY <2>1
  <2>3. SeenAll(<< >>) \in Texts  BY <2>1, SeenAllAppend
  <2> QED  BY <2>1, <2>2, <2>3
<1>2. ASSUME NEW s \in Seq(Texts), NEW u \in Texts, s \in S PROVE Append(s, u) \in S
  <2>1. PICK l : l = Append(s, u)  OBVIOUS
  <2>2. PICK n \in Nat : n = Len(s)  BY LenProperties
  <2>3. l \in Seq(Texts) /\ Len(l) = n + 1 /\ l[n + 1] = u /\ \A i \in 1 .. n : l[i] = s[i]
    BY <2>1, <2>2, AppendProperties
  <2>4. SeenAll(l) = SeenAll(s) \o Seen(u) /\ SeenAll(s) \in Seq(Int) /\ Seen(u) \in Seq(Int)
    BY <2>1, SeenAllAppend, SeenType DEF Texts
  <2>5. SeenAll(l) \in Texts /\ ToSet(SeenAll(l)) = ToSet(SeenAll(s)) \cup ToSet(Seen(u))
    BY <2>4, ToSetOfTwo, ConcatProperties DEF Texts
  <2>6. ASSUME NEW h \in 1 .. n + 1 PROVE ToSet(Seen(l[h])) \subseteq ToSet(SeenAll(l))
    <3>1. CASE h = n + 1  BY <3>1, <2>3, <2>5
    <3>2. CASE h # n + 1
      <4>1. h \in 1 .. n  BY <3>2
      <4>2. ToSet(Seen(s[h])) \subseteq ToSet(SeenAll(s))  BY <4>1, <2>2, <1>2
      <4> QED  BY <4>1, <4>2, <2>3, <2>5
    <3> QED  BY <3>1, <3>2
  <2> QED  BY <2>1, <2>3, <2>5, <2>6
<1> HIDE DEF S
<1>3. ss \in S  BY <1>1, <1>2, InductOnSequences
<1> QED  BY <1>3 DEF S

\* Two units with a separator between them.
LEMMA JoinIs ==
    ASSUME NEW a, Clean(a), NEW u, Clean(u), NEW separator \in Texts, Seen(separator) = << >>
    PROVE  LET j == a \o separator \o u IN
           /\ Clean(j) /\ Len(j) = Len(a) + Len(separator) + Len(u) /\ j[1] = a[1]
           /\ Seen(j) = Seen(a) \o Seen(u) /\ ToSet(a) \subseteq ToSet(j) /\ ToSet(u) \subseteq ToSet(j)
<1>0. a \in Seq(Int) /\ u \in Seq(Int) /\ separator \in Seq(Int)  BY DEF Clean, Texts
<1>1. PICK m \in Nat, k \in Nat, n \in Nat : m = Len(a) /\ k = Len(separator) /\ n = Len(u)
  BY <1>0, LenProperties
<1>2. m >= 1 /\ n >= 1 /\ a[1] > 0 /\ u[n] > 0  BY <1>1 DEF Clean
<1>3. PICK b : b = a \o separator  OBVIOUS
<1>4. b \in Seq(Int) /\ Len(b) = m + k /\ \A i \in 1 .. m + k : b[i] = IF i <= m THEN a[i] ELSE separator[i - m]
  BY <1>0, <1>1, <1>3, ConcatProperties
<1>5. PICK j : j = b \o u  OBVIOUS
<1>6. PICK l \in Nat : l = m + k  OBVIOUS
<1>7. j \in Seq(Int) /\ Len(j) = l + n /\ \A i \in 1 .. l + n : j[i] = IF i <= l THEN b[i] ELSE u[i - l]
  <2>1. Len(b) = l /\ b \in Seq(Int) /\ u \in Seq(Int)  BY <1>0, <1>4, <1>6
  <2>2. Len(b \o u) = Len(b) + Len(u) /\ b \o u \in Seq(Int)
        /\ \A i \in 1 .. Len(b) + Len(u) : (b \o u)[i] = IF i <= Len(b) THEN b[i] ELSE u[i - Len(b)]
    BY <2>1, ConcatProperties
  <2> QED  BY <2>1, <2>2, <1>1, <1>5
<1>8. j[1] = a[1]
  <2>1. 1 \in 1 .. l + n /\ 1 <= l /\ 1 \in 1 .. m + k /\ 1 <= m  BY <1>2, <1>6
  <2> QED  BY <2>1, <1>4, <1>7
<1>9. j[l + n] = u[n]
  <2>1. l + n \in 1 .. l + n /\ ~ (l + n <= l) /\ (l + n) - l = n  BY <1>2
  <2> QED  BY <2>1, <1>7
<1>10. Clean(j)  BY <1>2, <1>7, <1>8, <1>9 DEF Clean, Texts
<1>11. Seen(j) = Seen(a) \o Seen(u)
  <2>1. Seen(j) = Seen(b) \o Seen(u) /\ Seen(b) = Seen(a) \o Seen(separator)
    BY <1>0, <1>3, <1>4, <1>5, SeenOfTwo
  <2>2. Seen(a) \in Seq(Int)  BY <1>0, SeenType
  <2> QED  BY <2>1, <2>2, ConcatEmptySeq
<1>12. ToSet(j) = ToSet(b) \cup ToSet(u) /\ ToSet(b) = ToSet(a) \cup ToSet(separator)
  <2>1. ToSet(b \o u) = ToSet(b) \cup ToSet(u)  BY <1>0, <1>4, ToSetOfTwo
  <2>2. ToSet(a \o separator) = ToSet(a) \cup ToSet(separator)  BY <1>0, ToSetOfTwo
  <2> QED  BY <2>1, <2>2, <1>3, <1>5
<1> QED  BY <1>1, <1>3, <1>5, <1>6, <1>7, <1>8, <1>10, <1>11, <1>12

\* The beginning of no unit is seen in another.
Apart(units) == \A k, h \in 1 .. Len(units) : units[k][1] \in ToSet(Seen(units[h])) => k = h

\* Every unit that fits is whole in one of the parts.
Covers(parts, units, n, max) ==
    \A h \in 1 .. n : Len(units[h]) <= max => \E k \in 1 .. Len(parts) : ToSet(Seen(units[h])) \subseteq ToSet(parts[k])

\* No part could have taken the unit the next one begins with, unless a unit before was cut.
PackedFor(parts, units, max, gap, j) ==
    \A k \in 1 .. Len(units) :
        units[k][1] = parts[j][1] /\ Len(units[k]) <= max =>
            Len(parts[j - 1]) + gap + Len(units[k]) > max \/ \E h \in 1 .. k - 1 : Len(units[h]) > max

PackedBy(parts, units, max, gap) == \A j \in 2 .. Len(parts) : PackedFor(parts, units, max, gap, j)

Accs == [done : Seq(Texts), current : Texts]

\* What is packed up to the n-th unit.
PackFits(acc, units, n, max, gap) ==
    /\ acc.current = << >> \/ (Clean(acc.current) /\ Len(acc.current) <= max)
    /\ AllCut(Flushed(acc), max)
    /\ SeenAll(Flushed(acc)) = SeenAll(SubSeq(units, 1, n))
    /\ Covers(Flushed(acc), units, n, max)
    /\ Apart(units) => PackedBy(Flushed(acc), units, max, gap)
    /\ acc.current = << >> => acc.done = << >> \/ \E h \in 1 .. n : Len(units[h]) > max

\* A unit more gives texts again.
LEMMA AddUnitType ==
    ASSUME NEW acc \in Accs, NEW u \in Texts, NEW max \in Nat \ {0}, NEW separator \in Texts
    PROVE  AddUnit(acc, u, max, separator) \in Accs /\ Flushed(acc) \in Seq(Texts) /\ Joined(acc, u, separator) \in Texts
<1>1. PICK d \in Seq(Texts), c \in Texts : acc = [done |-> d, current |-> c] /\ acc.done = d /\ acc.current = c
  BY DEF Accs
<1>2. Flushed(acc) \in Seq(Texts)  BY <1>1, AppendProperties DEF Flushed
<1>3. Joined(acc, u, separator) \in Texts
  <2>1. c \o separator \in Seq(Int) /\ (c \o separator) \o u \in Seq(Int)  BY ConcatProperties DEF Texts
  <2> QED  BY <2>1, <1>1 DEF Joined, Texts
<1>4. PICK f \in Seq(Texts), j \in Texts : f = Flushed(acc) /\ j = Joined(acc, u, separator)
  BY <1>2, <1>3
<1>5. PICK s \in Seq(Texts) : s = SplitOversized(u, max)  BY SplitOversizedIs DEF AllCut
<1>6. AddUnit(acc, u, max, separator) =
        IF Len(u) > max THEN [done |-> f \o s, current |-> << >>]
        ELSE IF Len(j) > max THEN [done |-> f, current |-> u] ELSE [done |-> d, current |-> j]
  BY <1>1, <1>4, <1>5 DEF AddUnit
<1>7. f \o s \in Seq(Texts) /\ << >> \in Texts  BY ConcatProperties DEF Texts
<1> QED  BY <1>2, <1>3, <1>6, <1>7 DEF Accs

\* More parts, which hold what the ones before did, cover as much, and one unit more.
LEMMA CoversMore ==
    ASSUME NEW units, NEW n \in Nat, NEW max \in Nat, NEW parts, NEW more, Covers(parts, units, n, max),
           \A k \in 1 .. Len(parts) : \E j \in 1 .. Len(more) : ToSet(parts[k]) \subseteq ToSet(more[j]),
           Len(units[n + 1]) <= max => \E j \in 1 .. Len(more) : ToSet(Seen(units[n + 1])) \subseteq ToSet(more[j])
    PROVE  Covers(more, units, n + 1, max)
<1>1. ASSUME NEW h \in 1 .. n + 1, Len(units[h]) <= max
      PROVE  \E j \in 1 .. Len(more) : ToSet(Seen(units[h])) \subseteq ToSet(more[j])
  <2>1. CASE h = n + 1  BY <1>1, <2>1
  <2>2. CASE h # n + 1
    <3>1. h \in 1 .. n  BY <2>2
    <3>2. PICK k \in 1 .. Len(parts) : ToSet(Seen(units[h])) \subseteq ToSet(parts[k])
      BY <3>1, <1>1 DEF Covers
    <3>3. PICK j \in 1 .. Len(more) : ToSet(parts[k]) \subseteq ToSet(more[j])  OBVIOUS
    <3> QED  BY <3>2, <3>3
  <2> QED  BY <2>1, <2>2
<1> QED  BY <1>1 DEF Covers

\* The parts that were there are packed as they were.
LEMMA PackedMore ==
    ASSUME NEW units, NEW max, NEW gap, NEW parts, NEW more, PackedBy(parts, units, max, gap),
           \A j \in 2 .. Len(more) : \/ j \in 2 .. Len(parts) /\ more[j][1] = parts[j][1] /\ more[j - 1] = parts[j - 1]
                                     \/ PackedFor(more, units, max, gap, j)
    PROVE  PackedBy(more, units, max, gap)
<1>1. ASSUME NEW j \in 2 .. Len(more) PROVE PackedFor(more, units, max, gap, j)
  <2>1. CASE j \in 2 .. Len(parts) /\ more[j][1] = parts[j][1] /\ more[j - 1] = parts[j - 1]
    <3>1. PackedFor(parts, units, max, gap, j)  BY <2>1 DEF PackedBy
    <3> QED  BY <2>1, <3>1 DEF PackedFor
  <2> QED  BY <2>1
<1> QED  BY <1>1 DEF PackedBy

\* One unit more of what is to be packed.
OneMore(units, n, u) == n \in 0 .. Len(units) - 1 /\ u = units[n + 1] /\ AllClean(units)

\* One unit more shows what it has, after the others.
LEMMA OneMoreIs ==
    ASSUME NEW units, NEW n, NEW u, OneMore(units, n, u)
    PROVE  /\ n \in Nat /\ n + 1 \in 1 .. Len(units) /\ u = units[n + 1] /\ u \in Texts /\ Clean(u)
           /\ SeenAll(SubSeq(units, 1, n + 1)) = SeenAll(SubSeq(units, 1, n)) \o Seen(u)
           /\ SeenAll(SubSeq(units, 1, n)) \in Texts
           /\ Apart(units) => \A k \in 1 .. Len(units) : units[k][1] \in ToSet(Seen(u)) => k = n + 1
<1>1. units \in Seq(Texts) /\ \A i \in 1 .. Len(units) : Clean(units[i])  BY DEF OneMore, AllClean
<1>2. PICK m \in Nat : m = Len(units)  BY <1>1, LenProperties
<1>3. n \in 0 .. m - 1 /\ n + 1 \in 1 .. m /\ u = units[n + 1] /\ n \in Nat  BY <1>2 DEF OneMore
<1>4. Clean(u) /\ u \in Texts  BY <1>1, <1>2, <1>3 DEF Clean
<1>5. PICK p : PrefixesOf(units, Texts, p)  BY <1>1, PrefixesAre
<1>6. /\ p \in [0 .. m -> Seq(Texts)] /\ p[n + 1] = Append(p[n], u)
      /\ p[n] = SubSeq(units, 1, n) /\ p[n + 1] = SubSeq(units, 1, n + 1)
  <2>1. n \in 0 .. m /\ n + 1 \in 0 .. m  BY <1>3
  <2> QED  BY <2>1, <1>2, <1>3, <1>5 DEF PrefixesOf
<1>7. p[n] \in Seq(Texts)
  <2>1. n \in 0 .. m  BY <1>3
  <2> QED  BY <2>1, <1>6
<1>8. SeenAll(p[n + 1]) = SeenAll(p[n]) \o Seen(u) /\ SeenAll(p[n]) \in Texts
  BY <1>4, <1>6, <1>7, SeenAllAppend
<1>9. Apart(units) => \A k \in 1 .. m : units[k][1] \in ToSet(Seen(u)) => k = n + 1
  BY <1>2, <1>3 DEF Apart
<1> QED  BY <1>2, <1>3, <1>4, <1>6, <1>8, <1>9

\* A unit that is too long: the window pieces follow.
LEMMA OversizeKeeps ==
    ASSUME NEW units, NEW n, NEW u, OneMore(units, n, u), NEW max \in Nat \ {0}, NEW gap \in Nat,
           NEW acc \in Accs, PackFits(acc, units, n, max, gap), Len(u) > max,
           NEW new \in Accs, new.done = Flushed(acc) \o SplitOversized(u, max), new.current = << >>
    PROVE  PackFits(new, units, n + 1, max, gap)
<1>0. /\ n \in Nat /\ n + 1 \in 1 .. Len(units) /\ u = units[n + 1] /\ u \in Texts /\ Clean(u)
      /\ SeenAll(SubSeq(units, 1, n + 1)) = SeenAll(SubSeq(units, 1, n)) \o Seen(u)
      /\ Apart(units) => \A k \in 1 .. Len(units) : units[k][1] \in ToSet(Seen(u)) => k = n + 1
  BY OneMoreIs
<1>1. PICK f : f = Flushed(acc)  OBVIOUS
<1>2. PICK s : s = SplitOversized(u, max)  OBVIOUS
<1>3. AllCut(s, max) /\ SeenAll(s) = Seen(u) /\ s \in Seq(Texts)
  BY <1>0, <1>2, SplitOversizedIs DEF AllCut
<1>4. /\ AllCut(f, max) /\ f \in Seq(Texts) /\ SeenAll(f) = SeenAll(SubSeq(units, 1, n)) /\ Covers(f, units, n, max)
      /\ Apart(units) => PackedBy(f, units, max, gap)
  BY <1>1 DEF PackFits, AllCut
<1>5. PICK g : g = f \o s  OBVIOUS
<1>6. Flushed(new) = g  BY <1>1, <1>2, <1>5 DEF Flushed
<1>7. PICK m \in Nat, k \in Nat : m = Len(f) /\ k = Len(s)  BY <1>3, <1>4, LenProperties
<1>8. g \in Seq(Texts) /\ Len(g) = m + k /\ \A i \in 1 .. m + k : g[i] = IF i <= m THEN f[i] ELSE s[i - m]
  BY <1>3, <1>4, <1>5, <1>7, ConcatProperties
<1>9. AllCut(g, max)  BY <1>3, <1>4, <1>5, AllCutMore
<1>10. SeenAll(g) = SeenAll(SubSeq(units, 1, n + 1))  BY <1>0, <1>3, <1>4, <1>5, SeenAllOfTwo
<1>11. Covers(g, units, n + 1, max)
  <2>1. ASSUME NEW i \in 1 .. m PROVE \E j \in 1 .. Len(g) : ToSet(f[i]) \subseteq ToSet(g[j])
    <3>1. i \in 1 .. m + k /\ g[i] = f[i]  BY <1>8
    <3> QED  BY <3>1, <1>8
  <2>2. ~ (Len(units[n + 1]) <= max)
    <3>1. Len(u) \in Nat  BY <1>0, LenProperties DEF Texts
    <3> QED  BY <3>1, <1>0
  <2> QED  BY <2>1, <2>2, <1>0, <1>4, <1>7, CoversMore
<1>12. ASSUME Apart(units) PROVE PackedBy(g, units, max, gap)
  <2>1. ASSUME NEW j \in 2 .. m + k
        PROVE  \/ j \in 2 .. Len(f) /\ g[j][1] = f[j][1] /\ g[j - 1] = f[j - 1]
               \/ PackedFor(g, units, max, gap, j)
    <3>1. CASE j <= m
      <4>1. j \in 2 .. m /\ j \in 1 .. m + k /\ j - 1 \in 1 .. m + k /\ j - 1 <= m  BY <3>1
      <4> QED  BY <3>1, <4>1, <1>7, <1>8
    <3>2. CASE ~ (j <= m)
      <4>1. j - m \in 1 .. k /\ j \in 1 .. m + k  BY <3>2
      <4>2. PICK q : q = s[j - m]  OBVIOUS
      <4>3. g[j] = q /\ Clean(q)  BY <3>2, <4>1, <4>2, <1>3, <1>7, <1>8 DEF AllCut
      <4>4. q[1] \in ToSet(Seen(u))
        <5>1. ToSet(Seen(q)) \subseteq ToSet(SeenAll(s))  BY <4>1, <4>2, <1>3, <1>7, SeenAmongAll
        <5>2. q[1] \in ToSet(Seen(q))  BY <4>3, SeenIn
        <5> QED  BY <5>1, <5>2, <1>3
      <4>6. ASSUME NEW i \in 1 .. Len(units), units[i][1] = g[j][1] PROVE ~ (Len(units[i]) <= max)
        <5>1. i = n + 1  BY <4>3, <4>4, <4>6, <1>0, <1>12
        <5>2. Len(u) \in Nat  BY <1>0, LenProperties DEF Texts
        <5> QED  BY <5>1, <5>2, <1>0
      <4> QED  BY <4>6 DEF PackedFor
    <3> QED  BY <3>1, <3>2
  <2> QED  BY <2>1, <1>4, <1>8, <1>12, PackedMore
<1>13. \E h \in 1 .. n + 1 : Len(units[h]) > max
  <2>1. n + 1 \in 1 .. n + 1  BY <1>0
  <2> QED  BY <2>1, <1>0
<1> QED  BY <1>6, <1>9, <1>10, <1>11, <1>12, <1>13 DEF PackFits

\* A unit that begins a part: what was there is complete.
LEMMA BeginKeeps ==
    ASSUME NEW units, NEW n, NEW u, OneMore(units, n, u), NEW max \in Nat \ {0}, NEW gap \in Nat,
           NEW acc \in Accs, PackFits(acc, units, n, max, gap), Len(u) <= max,
           acc.current = << >> \/ Len(acc.current) + gap + Len(u) > max,
           NEW new \in Accs, new.done = Flushed(acc), new.current = u
    PROVE  PackFits(new, units, n + 1, max, gap)
<1>0. /\ n \in Nat /\ n + 1 \in 1 .. Len(units) /\ u = units[n + 1] /\ u \in Texts /\ Clean(u)
      /\ SeenAll(SubSeq(units, 1, n + 1)) = SeenAll(SubSeq(units, 1, n)) \o Seen(u)
      /\ Apart(units) => \A k \in 1 .. Len(units) : units[k][1] \in ToSet(Seen(u)) => k = n + 1
  BY OneMoreIs
<1>1. PICK f : f = Flushed(acc)  OBVIOUS
<1>2. PICK d \in Seq(Texts), c \in Texts : d = acc.done /\ c = acc.current  BY DEF Accs
<1>3. f = IF c = << >> THEN d ELSE Append(d, c)  BY <1>1, <1>2 DEF Flushed
<1>4. /\ AllCut(f, max) /\ f \in Seq(Texts) /\ SeenAll(f) = SeenAll(SubSeq(units, 1, n)) /\ Covers(f, units, n, max)
      /\ Apart(units) => PackedBy(f, units, max, gap)
      /\ c = << >> => d = << >> \/ \E h \in 1 .. n : Len(units[h]) > max
  BY <1>1, <1>2 DEF PackFits, AllCut
<1>5. PICK g : g = Append(f, u)  OBVIOUS
<1>6. Flushed(new) = g /\ u # << >>
  <2>1. u # << >>  BY <1>0 DEF Clean
  <2> QED  BY <2>1, <1>1, <1>5 DEF Flushed
<1>7. PICK m \in Nat : m = Len(f)  BY <1>4, LenProperties
<1>8. g \in Seq(Texts) /\ Len(g) = m + 1 /\ g[m + 1] = u /\ \A i \in 1 .. m : g[i] = f[i]
  BY <1>0, <1>4, <1>5, <1>7, AppendProperties
<1>9. AllCut(g, max)  BY <1>0, <1>4, <1>5, AllCutMore
<1>10. SeenAll(g) = SeenAll(SubSeq(units, 1, n + 1))  BY <1>0, <1>4, <1>5, SeenAllAppend
<1>11. Covers(g, units, n + 1, max)
  <2>1. ASSUME NEW i \in 1 .. m PROVE \E j \in 1 .. Len(g) : ToSet(f[i]) \subseteq ToSet(g[j])
    <3>1. i \in 1 .. m + 1 /\ g[i] = f[i]  BY <1>8
    <3> QED  BY <3>1, <1>8
  <2>2. \E j \in 1 .. Len(g) : ToSet(Seen(units[n + 1])) \subseteq ToSet(g[j])
    <3>1. m + 1 \in 1 .. m + 1 /\ ToSet(Seen(u)) \subseteq ToSet(u)  BY <1>0, SeenIn
    <3> QED  BY <3>1, <1>0, <1>8
  <2> QED  BY <2>1, <2>2, <1>0, <1>4, <1>7, CoversMore
<1>12. ASSUME Apart(units) PROVE PackedBy(g, units, max, gap)
  <2>1. ASSUME NEW j \in 2 .. m + 1
        PROVE  \/ j \in 2 .. Len(f) /\ g[j][1] = f[j][1] /\ g[j - 1] = f[j - 1]
               \/ PackedFor(g, units, max, gap, j)
    <3>1. CASE j <= m
      <4>1. j \in 2 .. m /\ j \in 1 .. m /\ j - 1 \in 1 .. m  BY <3>1
      <4> QED  BY <4>1, <1>7, <1>8
    <3>2. CASE ~ (j <= m)
      <4>1. j = m + 1 /\ m >= 1 /\ j - 1 = m /\ m \in 1 .. m  BY <3>2
      <4>2. u[1] \in ToSet(Seen(u))  BY <1>0, SeenIn
      <4>3. ASSUME NEW k \in 1 .. Len(units), units[k][1] = g[j][1]
            PROVE  Len(g[j - 1]) + gap + Len(units[k]) > max \/ \E h \in 1 .. k - 1 : Len(units[h]) > max
        <5>1. k = n + 1  BY <4>1, <4>2, <4>3, <1>0, <1>8, <1>12
        <5>2. CASE c = << >>
          <6>1. d # << >>  BY <5>2, <4>1, <1>3, <1>7
          <6>2. k - 1 = n  BY <5>1, <1>0
          <6> QED  BY <5>2, <6>1, <6>2, <1>4
        <5>3. CASE c # << >>
          <6>1. Len(c) + gap + Len(u) > max  BY <5>3, <1>2
          <6>2. PICK e \in Nat : e = Len(d)  BY LenProperties
          <6>3. f = Append(d, c) /\ Len(Append(d, c)) = e + 1 /\ Append(d, c)[e + 1] = c
            BY <5>3, <6>2, <1>3, AppendProperties
          <6>4. f[m] = c  BY <6>3, <1>7
          <6>5. g[j - 1] = c  BY <6>4, <4>1, <1>8
          <6> QED  BY <6>1, <6>5, <5>1, <1>0
        <5> QED  BY <5>2, <5>3
      <4> QED  BY <4>3 DEF PackedFor
    <3> QED  BY <3>1, <3>2
  <2> QED  BY <2>1, <1>4, <1>8, <1>12, PackedMore
<1> QED  BY <1>0, <1>6, <1>9, <1>10, <1>11, <1>12 DEF PackFits

\* A unit that joins those before.
LEMMA JoinKeeps ==
    ASSUME NEW units, NEW n, NEW u, OneMore(units, n, u), NEW max \in Nat \ {0}, NEW separator \in Texts, Seen(separator) = << >>,
           NEW acc \in Accs, PackFits(acc, units, n, max, Len(separator)), acc.current # << >>,
           Len(acc.current \o separator \o u) <= max,
           NEW new \in Accs, new.done = acc.done, new.current = acc.current \o separator \o u
    PROVE  PackFits(new, units, n + 1, max, Len(separator))
<1>0. /\ n \in Nat /\ n + 1 \in 1 .. Len(units) /\ u = units[n + 1] /\ u \in Texts /\ Clean(u)
      /\ SeenAll(SubSeq(units, 1, n + 1)) = SeenAll(SubSeq(units, 1, n)) \o Seen(u)
      /\ SeenAll(SubSeq(units, 1, n)) \in Texts
  BY OneMoreIs
<1>1. PICK d \in Seq(Texts), c \in Texts : d = acc.done /\ c = acc.current  BY DEF Accs
<1>2. PICK w : w = c \o separator \o u  OBVIOUS
<1>3. Clean(c) /\ c # << >>  BY <1>1 DEF PackFits
<1>4. /\ Clean(w) /\ w \in Texts /\ w[1] = c[1] /\ Len(w) <= max /\ w # << >>
      /\ Seen(w) = Seen(c) \o Seen(u) /\ ToSet(c) \subseteq ToSet(w) /\ ToSet(u) \subseteq ToSet(w)
  <2>1. /\ Clean(w) /\ w[1] = c[1]
        /\ Seen(w) = Seen(c) \o Seen(u) /\ ToSet(c) \subseteq ToSet(w) /\ ToSet(u) \subseteq ToSet(w)
    BY <1>0, <1>2, <1>3, JoinIs, ZenonT(60)
  <2> QED  BY <2>1, <1>1, <1>2 DEF Clean
<1>5. PICK f : f = Append(d, c)  OBVIOUS
<1>6. PICK g : g = Append(d, w)  OBVIOUS
<1>7. Flushed(acc) = f /\ Flushed(new) = g  BY <1>1, <1>2, <1>3, <1>4, <1>5, <1>6 DEF Flushed
<1>8. /\ AllCut(f, max) /\ f \in Seq(Texts) /\ SeenAll(f) = SeenAll(SubSeq(units, 1, n)) /\ Covers(f, units, n, max)
      /\ Apart(units) => PackedBy(f, units, max, Len(separator))
  BY <1>7 DEF PackFits, AllCut
<1>9. PICK m \in Nat : m = Len(d)  BY LenProperties
<1>10. /\ Len(f) = m + 1 /\ f[m + 1] = c /\ \A i \in 1 .. m : f[i] = d[i]
       /\ g \in Seq(Texts) /\ Len(g) = m + 1 /\ g[m + 1] = w /\ \A i \in 1 .. m : g[i] = d[i]
  BY <1>4, <1>5, <1>6, <1>9, AppendProperties
<1>11. AllCut(g, max)
  <2>1. ASSUME NEW i \in 1 .. m + 1 PROVE Clean(g[i]) /\ Len(g[i]) <= max
    <3>1. CASE i = m + 1  BY <3>1, <1>4, <1>10
    <3>2. CASE i # m + 1
      <4>1. i \in 1 .. m  BY <3>2
      <4> QED  BY <4>1, <1>8, <1>10 DEF AllCut
    <3> QED  BY <3>1, <3>2
  <2> QED  BY <2>1, <1>10 DEF AllCut
<1>12. SeenAll(g) = SeenAll(SubSeq(units, 1, n + 1))
  <2>1. SeenAll(f) = SeenAll(d) \o Seen(c) /\ SeenAll(g) = SeenAll(d) \o Seen(w) /\ SeenAll(d) \in Seq(Int)
    BY <1>4, <1>5, <1>6, SeenAllAppend DEF Texts
  <2>2. Seen(c) \in Seq(Int) /\ Seen(u) \in Seq(Int)  BY <1>0, SeenType DEF Texts
  <2>3. SeenAll(d) \o (Seen(c) \o Seen(u)) = (SeenAll(d) \o Seen(c)) \o Seen(u)
    <3>1. PICK T : T = Int  OBVIOUS
    <3>2. PICK x \in Seq(T), y \in Seq(T), z \in Seq(T) : x = SeenAll(d) /\ y = Seen(c) /\ z = Seen(u)
      BY <2>1, <2>2, <3>1
    <3>3. (x \o y) \o z = x \o (y \o z)  BY ConcatAssociative, SMTT(30)
    <3> QED  BY <3>2, <3>3
  <2> QED  BY <2>1, <2>3, <1>0, <1>4, <1>8
<1>13. Covers(g, units, n + 1, max)
  <2>1. ASSUME NEW i \in 1 .. m + 1 PROVE ToSet(f[i]) \subseteq ToSet(g[i])
    <3>1. CASE i = m + 1  BY <3>1, <1>4, <1>10
    <3>2. CASE i # m + 1
      <4>1. i \in 1 .. m  BY <3>2
      <4> QED  BY <4>1, <1>10
    <3> QED  BY <3>1, <3>2
  <2>2. \E j \in 1 .. Len(g) : ToSet(Seen(units[n + 1])) \subseteq ToSet(g[j])
    <3>1. m + 1 \in 1 .. m + 1 /\ ToSet(Seen(u)) \subseteq ToSet(u)  BY <1>0, SeenIn
    <3> QED  BY <3>1, <1>0, <1>4, <1>10
  <2>3. \A i \in 1 .. Len(f) : \E j \in 1 .. Len(g) : ToSet(f[i]) \subseteq ToSet(g[j])  BY <2>1, <1>10
  <2> QED  BY <2>2, <2>3, <1>0, <1>8, CoversMore
<1>14. ASSUME Apart(units) PROVE PackedBy(g, units, max, Len(separator))
  <2>1. ASSUME NEW j \in 2 .. m + 1
        PROVE  j \in 2 .. Len(f) /\ g[j][1] = f[j][1] /\ g[j - 1] = f[j - 1]
    <3>1. j - 1 \in 1 .. m  OBVIOUS
    <3>2. g[j][1] = f[j][1]
      <4>1. CASE j = m + 1  BY <4>1, <1>4, <1>10
      <4>2. CASE j # m + 1
        <5>1. j \in 1 .. m  BY <4>2
        <5> QED  BY <5>1, <1>10
      <4> QED  BY <4>1, <4>2
    <3> QED  BY <3>1, <3>2, <1>10
  <2>2. \A j \in 2 .. Len(g) : \/ j \in 2 .. Len(f) /\ g[j][1] = f[j][1] /\ g[j - 1] = f[j - 1]
                               \/ PackedFor(g, units, max, Len(separator), j)
    BY <2>1, <1>10
  <2> QED  BY <2>2, <1>8, <1>14, PackedMore
<1> QED  BY <1>1, <1>2, <1>4, <1>7, <1>11, <1>12, <1>13, <1>14 DEF PackFits

\* A unit more, whichever of the three ways it is added, keeps what packing promises.
LEMMA AddUnitKeeps ==
    ASSUME NEW units, NEW n, NEW u, OneMore(units, n, u), NEW max \in Nat \ {0}, NEW separator \in Texts, Seen(separator) = << >>,
           NEW acc \in Accs, PackFits(acc, units, n, max, Len(separator))
    PROVE  PackFits(AddUnit(acc, u, max, separator), units, n + 1, max, Len(separator))
<1>0. u \in Texts /\ Clean(u)  BY OneMoreIs
<1>1. PICK new \in Accs : new = AddUnit(acc, u, max, separator)  BY <1>0, AddUnitType
<1>2. PICK d \in Seq(Texts), c \in Texts : acc = [done |-> d, current |-> c] /\ acc.done = d /\ acc.current = c
  BY DEF Accs
<1>3. PICK k \in Nat, g \in Nat : k = Len(u) /\ g = Len(separator)  BY <1>0, LenProperties DEF Texts
<1>4. CASE k > max
  <2>1. new.done = Flushed(acc) \o SplitOversized(u, max) /\ new.current = << >>
    BY <1>1, <1>3, <1>4 DEF AddUnit
  <2> QED  BY <2>1, <1>1, <1>3, <1>4, OversizeKeeps
<1>5. CASE ~ (k > max) /\ c = << >>
  <2>1. Joined(acc, u, separator) = u /\ Flushed(acc) = d  BY <1>2, <1>5 DEF Joined, Flushed
  <2>2. new = [done |-> d, current |-> u]  BY <2>1, <1>1, <1>2, <1>3, <1>5 DEF AddUnit
  <2> QED  BY <2>1, <2>2, <1>1, <1>2, <1>3, <1>5, BeginKeeps
<1>6. CASE ~ (k > max) /\ c # << >>
  <2>1. PICK w : w = c \o separator \o u  OBVIOUS
  <2>2. Joined(acc, u, separator) = w  BY <2>1, <1>2, <1>6 DEF Joined
  <2>3. Clean(c) /\ c \in Texts  BY <1>2, <1>6 DEF PackFits
  <2>4. Len(w) = Len(c) + g + k /\ Len(w) \in Nat
    <3>1. Len(w) = Len(c) + g + k /\ Clean(w)  BY <2>1, <2>3, <1>0, <1>3, JoinIs
    <3> QED  BY <3>1, LenProperties DEF Clean, Texts
  <2>5. CASE Len(w) > max
    <3>1. new.done = Flushed(acc) /\ new.current = u  BY <2>2, <2>5, <1>1, <1>3, <1>6 DEF AddUnit
    <3> QED  BY <3>1, <2>4, <2>5, <1>1, <1>2, <1>3, <1>6, BeginKeeps, SMTT(30)
  <2>6. CASE ~ (Len(w) > max)
    <3>1. new = [done |-> d, current |-> w]  BY <2>2, <2>6, <1>1, <1>2, <1>3, <1>6 DEF AddUnit
    <3>2. new.done = acc.done /\ new.current = acc.current \o separator \o u /\ Len(acc.current \o separator \o u) <= max
      BY <3>1, <2>1, <2>4, <2>6, <1>2, SMTT(30)
    <3> QED  BY <3>2, <1>1, <1>2, <1>6, JoinKeeps
  <2> QED  BY <2>5, <2>6
<1> QED  BY <1>3, <1>4, <1>5, <1>6

\* What Pack does with each unit.
PackStep(units, max, separator) == [w \in (1 .. Len(units)) \X Accs |-> AddUnit(w[2], units[w[1]], max, separator)]
PackBy(units, max, separator, f) == f = [i \in 0 .. Len(units) |-> IF i = 0 THEN [done |-> << >>, current |-> << >>] ELSE AddUnit(f[i - 1], units[i], max, separator)]

\* What Pack does, as a run of its units.
LEMMA PackRuns ==
    ASSUME NEW units \in Seq(Texts), NEW max \in Nat \ {0}, NEW separator \in Texts
    PROVE  \E f : RunsTo(PackStep(units, max, separator), [done |-> << >>, current |-> << >>], Len(units), Accs, f) /\ Pack(units, max, separator) = Flushed(f[Len(units)])
<1>0. Len(units) \in Nat /\ [done |-> << >>, current |-> << >>] \in Accs
  BY LenProperties DEF Accs, Texts
<1> DEFINE h == PackStep(units, max, separator)
<1>1. ASSUME NEW i \in 1 .. Len(units), NEW x \in Accs PROVE AddUnit(x, units[i], max, separator) \in Accs
  <2>1. units[i] \in Texts  BY ElementOfSeq
  <2> QED  BY <2>1, AddUnitType
<1>2. h \in [(1 .. Len(units)) \X Accs -> Accs]
  <2>1. \A w \in (1 .. Len(units)) \X Accs : w[1] \in 1 .. Len(units) /\ w[2] \in Accs  OBVIOUS
  <2> QED  BY <1>1, <2>1 DEF PackStep
<1>3. \A i \in 1 .. Len(units), x \in Accs : h[<<i, x>>] = AddUnit(x, units[i], max, separator)
  BY DEF PackStep
<1> HIDE DEF h
<1>4. PICK g : RunsTo(h, [done |-> << >>, current |-> << >>], Len(units), Accs, g)
  BY <1>0, <1>2, Recursion
<1>5. PackBy(units, max, separator, g)
  <2>1. /\ g = [i \in 0 .. Len(units) |-> g[i]] /\ g[0] = [done |-> << >>, current |-> << >>]
        /\ \A i \in 1 .. Len(units) : g[i] = h[<<i, g[i - 1]>>] /\ g[i - 1] \in Accs
        /\ \A i \in 0 .. Len(units) : i = 0 \/ i \in 1 .. Len(units)
    BY <1>0, <1>4, RunGoes
  <2>2. \A i \in 0 .. Len(units) : g[i] = IF i = 0 THEN [done |-> << >>, current |-> << >>] ELSE AddUnit(g[i - 1], units[i], max, separator)
    BY <2>1, <1>3
  <2> QED  BY <2>1, <2>2 DEF PackBy
<1>6. PICK f : f = CHOOSE e : PackBy(units, max, separator, e)  OBVIOUS
<1>7. f = [i \in 0 .. Len(units) |-> IF i = 0 THEN [done |-> << >>, current |-> << >>] ELSE AddUnit(f[i - 1], units[i], max, separator)]
  BY <1>5, <1>6 DEF PackBy
<1>8. Pack(units, max, separator) = Flushed(f[Len(units)])  BY <1>6 DEF Pack, PackBy
<1>9. RunsTo(h, [done |-> << >>, current |-> << >>], Len(units), Accs, f)
  <2>1. f = [i \in 0 .. Len(units) |-> f[i]] /\ \A i \in 0 .. Len(units) : f[i] = IF i = 0 THEN [done |-> << >>, current |-> << >>] ELSE AddUnit(f[i - 1], units[i], max, separator)
    BY ONLY <1>7
  <2>2. f[0] = [done |-> << >>, current |-> << >>] /\ \A i \in 1 .. Len(units) : f[i - 1] \in Accs => f[i] = h[<<i, f[i - 1]>>]
    BY <1>0, <1>3, <2>1
  <2> QED  BY <1>0, <1>2, <2>1, <2>2, RunOf
<1> QED  BY <1>8, <1>9 DEF h

\* Packing shows all that the units do in clean parts within the limit, takes a unit
\* that fits whole, and as many into a part as it can.
LEMMA PackIs ==
    ASSUME NEW units, AllClean(units), NEW max \in Nat \ {0}, NEW separator \in Texts, Seen(separator) = << >>
    PROVE  /\ AllCut(Pack(units, max, separator), max) /\ SeenAll(Pack(units, max, separator)) = SeenAll(units)
           /\ Covers(Pack(units, max, separator), units, Len(units), max)
           /\ Apart(units) => PackedBy(Pack(units, max, separator), units, max, Len(separator))
<1>0. units \in Seq(Texts)  BY DEF AllClean
<1>1. PICK n \in Nat : n = Len(units)  BY <1>0, LenProperties
<1>2. PICK f : RunsTo(PackStep(units, max, separator), [done |-> << >>, current |-> << >>], n, Accs, f) /\ Pack(units, max, separator) = Flushed(f[n])
  BY <1>0, <1>1, PackRuns
<1>3. /\ f \in [0 .. n -> Accs] /\ f[0] = [done |-> << >>, current |-> << >>]
      /\ \A i \in 1 .. n : f[i] = AddUnit(f[i - 1], units[i], max, separator)
  <2>1. f \in [0 .. n -> Accs] /\ f[0] = [done |-> << >>, current |-> << >>]
        /\ \A i \in 1 .. n : f[i] = PackStep(units, max, separator)[<<i, f[i - 1]>>]
    BY <1>2 DEF RunsTo
  <2>2. \A i \in 1 .. n : i - 1 \in 0 .. n  OBVIOUS
  <2>3. \A i \in 1 .. n, x \in Accs : PackStep(units, max, separator)[<<i, x>>] = AddUnit(x, units[i], max, separator)
    BY <1>1 DEF PackStep
  <2> QED  BY <2>1, <2>2, <2>3
<1>4. PICK g : g = Len(separator)  OBVIOUS
<1> DEFINE S == {i \in 0 .. n : PackFits(f[i], units, i, max, g)}
<1>5. 0 \in S
  <2>1. Flushed(f[0]) = << >> /\ f[0].current = << >> /\ f[0].done = << >>  BY <1>3 DEF Flushed
  <2>2. SubSeq(units, 1, 0) = << >>  BY SubSeqEmpty
  <2>3. AllCut(<< >>, max) /\ Covers(<< >>, units, 0, max) /\ PackedBy(<< >>, units, max, g)
    BY DEF AllCut, Covers, PackedBy
  <2>4. PackFits(f[0], units, 0, max, g)  BY <2>1, <2>2, <2>3 DEF PackFits
  <2> QED  BY <2>4
<1>6. \A i \in 0 .. n - 1 : i \in S => i + 1 \in S
  <2> SUFFICES ASSUME NEW i \in 0 .. n - 1, i \in S PROVE i + 1 \in S  OBVIOUS
  <2>1. i + 1 \in 1 .. n /\ (i + 1) - 1 = i /\ i + 1 \in 0 .. n /\ i \in 0 .. n  OBVIOUS
  <2>2. f[i + 1] = AddUnit(f[i], units[i + 1], max, separator) /\ f[i] \in Accs /\ PackFits(f[i], units, i, max, Len(separator))
    BY <2>1, <1>3, <1>4
  <2>3. OneMore(units, i, units[i + 1])  BY <1>1 DEF OneMore
  <2>4. PackFits(f[i + 1], units, i + 1, max, Len(separator))  BY <2>2, <2>3, AddUnitKeeps
  <2> QED  BY <2>1, <2>4, <1>4
<1> HIDE DEF S
<1>7. n \in S
  <2>1. \A i \in 0 .. n : i \in S  BY <1>5, <1>6, Induct
  <2> QED  BY <2>1
<1>8. PackFits(f[n], units, n, max, g)  BY <1>7 DEF S
<1>9. SubSeq(units, 1, n) = units  BY <1>0, <1>1, SubSeqFull
<1> QED  BY <1>1, <1>2, <1>4, <1>8, <1>9 DEF PackFits

-----------------------------------------------------------------------------
(* The segments of a page *)

\* What is in two sequences, one after the other without a repetition, is in one of them.
LEMMA OnceInTwo ==
    ASSUME NEW T, NEW s \in Seq(T), NEW t \in Seq(T), IsInjective(s \o t)
    PROVE  IsInjective(s) /\ \A x \in ToSet(s) : x \notin ToSet(t)
<1>1. PICK m \in Nat, n \in Nat : m = Len(s) /\ n = Len(t) /\ DOMAIN s = 1 .. m /\ DOMAIN t = 1 .. n
  BY LenProperties
<1>2. PICK l : l = s \o t  OBVIOUS
<1>3. DOMAIN l = 1 .. m + n /\ \A i \in 1 .. m + n : l[i] = IF i <= m THEN s[i] ELSE t[i - m]
  BY <1>1, <1>2, ConcatProperties, LenProperties
<1>4. \A i, j \in 1 .. m + n : l[i] = l[j] => i = j  BY <1>2, <1>3 DEF IsInjective
<1>5. \A i \in 1 .. m : i \in 1 .. m + n /\ l[i] = s[i]  BY <1>3
<1>6. IsInjective(s)  BY <1>1, <1>4, <1>5 DEF IsInjective
<1>7. ASSUME NEW x \in ToSet(s), x \in ToSet(t) PROVE FALSE
  <2>1. PICK i \in 1 .. m : x = s[i]  BY <1>1 DEF ToSet
  <2>2. PICK j \in 1 .. n : x = t[j]  BY <1>1, <1>7 DEF ToSet
  <2>3. m + j \in 1 .. m + n /\ ~ (m + j <= m) /\ (m + j) - m = j  OBVIOUS
  <2>4. l[m + j] = t[j]  BY <2>3, <1>3
  <2>5. i = m + j  BY <2>1, <2>2, <2>3, <2>4, <1>4, <1>5
  <2> QED  BY <2>3, <2>5
<1> QED  BY <1>6, <1>7

\* One more that was not there before, and nothing is there twice.
LEMMA OnceAppend ==
    ASSUME NEW T, NEW s \in Seq(T), IsInjective(s), NEW x \in T, x \notin ToSet(s)
    PROVE  IsInjective(Append(s, x))
<1>1. PICK n \in Nat : n = Len(s) /\ DOMAIN s = 1 .. n  BY LenProperties
<1>2. PICK l : l = Append(s, x)  OBVIOUS
<1>3. l \in Seq(T) /\ Len(l) = n + 1 /\ l[n + 1] = x /\ \A i \in 1 .. n : l[i] = s[i]
  BY <1>1, <1>2, AppendProperties
<1>4. DOMAIN l = 1 .. n + 1  BY <1>3, LenProperties
<1>5. ASSUME NEW i \in 1 .. n + 1, NEW j \in 1 .. n + 1, l[i] = l[j] PROVE i = j
  <2>1. \A k \in 1 .. n : s[k] # x  BY <1>1 DEF ToSet
  <2>2. CASE i = n + 1 /\ j = n + 1  BY <2>2
  <2>3. CASE i = n + 1 /\ j # n + 1
    <3>1. j \in 1 .. n  BY <2>3
    <3> QED  BY <3>1, <2>1, <2>3, <1>3, <1>5
  <2>4. CASE i # n + 1 /\ j = n + 1
    <3>1. i \in 1 .. n  BY <2>4
    <3> QED  BY <3>1, <2>1, <2>4, <1>3, <1>5
  <2>5. CASE i # n + 1 /\ j # n + 1
    <3>1. i \in 1 .. n /\ j \in 1 .. n  BY <2>5
    <3>2. s[i] = s[j]  BY <3>1, <1>3, <1>5
    <3> QED  BY <3>1, <3>2, <1>1 DEF IsInjective
  <2> QED  BY <2>2, <2>3, <2>4, <2>5
<1> QED  BY <1>2, <1>4, <1>5 DEF IsInjective

\* No visible character is in a text twice.
NoTwice(t) == \A i, j \in Visible(t) : t[i] = t[j] => i = j

\* What is seen of a text in which no character is there twice has none twice.
LEMMA SeenOnce ==
    \A t \in Seq(Int) : NoTwice(t) => IsInjective(Seen(t))
<1> DEFINE S == {t \in Seq(Int) : NoTwice(t) => IsInjective(Seen(t))}
<1>1. << >> \in S
  <2>1. << >> \in Seq(Int) /\ DOMAIN << >> = {}  OBVIOUS
  <2> QED  BY <2>1, SeenEmpty DEF IsInjective
<1>2. ASSUME NEW t \in Seq(Int), NEW x \in Int, t \in S PROVE Append(t, x) \in S
  <2>1. PICK l : l = Append(t, x)  OBVIOUS
  <2>2. PICK n \in Nat : n = Len(t) /\ DOMAIN t = 1 .. n  BY LenProperties
  <2>3. l \in Seq(Int) /\ Len(l) = n + 1 /\ l[n + 1] = x /\ \A i \in 1 .. n : l[i] = t[i]
    BY <2>1, <2>2, AppendProperties
  <2>4. DOMAIN l = 1 .. n + 1  BY <2>3, LenProperties
  <2>5. Seen(t) \in Seq(Int) /\ Seen(l) = IF x > 0 THEN Append(Seen(t), x) ELSE Seen(t)
    BY <2>1, SeenAppend
  <2>6. ASSUME NoTwice(l) PROVE IsInjective(Seen(l))
    <3>1. \A i \in Visible(t) : i \in Visible(l) /\ l[i] = t[i] /\ i # n + 1
      BY <2>2, <2>3, <2>4 DEF Visible
    <3>2. NoTwice(t)  BY <3>1, <2>6 DEF NoTwice
    <3>3. IsInjective(Seen(t))  BY <3>2, <1>2
    <3>4. CASE x > 0
      <4>1. n + 1 \in Visible(l)  BY <3>4, <2>3, <2>4 DEF Visible
      <4>2. x \notin ToSet(Seen(t))
        <5>1. ToSet(Seen(t)) = {t[i] : i \in Visible(t)}  BY SeenAre
        <5>2. ASSUME NEW i \in Visible(t), t[i] = x PROVE FALSE
          BY <3>1, <4>1, <5>2, <2>3, <2>6 DEF NoTwice
        <5> QED  BY <5>1, <5>2
      <4>3. IsInjective(Append(Seen(t), x))  BY <4>2, <3>3, <2>5, OnceAppend
      <4> QED  BY <4>3, <3>4, <2>5
    <3> QED  BY <3>3, <3>4, <2>5
  <2> QED  BY <2>1, <2>3, <2>6
<1> HIDE DEF S
<1>3. \A t \in Seq(Int) : t \in S  BY <1>1, <1>2, InductOnSequences
<1> QED  BY <1>3 DEF S

\* What texts show that show nothing twice, no two of them show.
Disjoint(ss) == \A h, k \in 1 .. Len(ss) : h # k => \A x \in ToSet(Seen(ss[h])) : x \notin ToSet(Seen(ss[k]))

\* Two texts of one sequence show the same character only if they are the same one.
LEMMA SeenApart ==
    ASSUME NEW ss \in Seq(Texts), IsInjective(SeenAll(ss))
    PROVE  Disjoint(ss)
<1> DEFINE S == {s \in Seq(Texts) : IsInjective(SeenAll(s)) => Disjoint(s)}
<1>1. << >> \in S
  <2>1. << >> \in Seq(Texts) /\ Len(<< >>) = 0  OBVIOUS
  <2>2. \A h \in 1 .. Len(<< >>) : FALSE  BY <2>1
  <2>3. Disjoint(<< >>)  BY <2>2 DEF Disjoint
  <2> QED  BY <2>1, <2>3
<1>2. ASSUME NEW s \in Seq(Texts), NEW u \in Texts, s \in S PROVE Append(s, u) \in S
  <2>1. PICK l : l = Append(s, u)  OBVIOUS
  <2>2. PICK n \in Nat : n = Len(s)  BY LenProperties
  <2>3. l \in Seq(Texts) /\ Len(l) = n + 1 /\ l[n + 1] = u /\ \A i \in 1 .. n : l[i] = s[i]
    BY <2>1, <2>2, AppendProperties
  <2>4. SeenAll(l) = SeenAll(s) \o Seen(u) /\ SeenAll(s) \in Seq(Int) /\ Seen(u) \in Seq(Int)
    BY <2>1, SeenAllAppend, SeenType DEF Texts
  <2>5. ASSUME IsInjective(SeenAll(l)) PROVE Disjoint(l)
    <3>1. IsInjective(SeenAll(s)) /\ \A x \in ToSet(SeenAll(s)) : x \notin ToSet(Seen(u))
      <4>1. PICK a \in Seq(Int), b \in Seq(Int) : a = SeenAll(s) /\ b = Seen(u) /\ IsInjective(a \o b)
        BY <2>4, <2>5
      <4>2. IsInjective(a) /\ \A x \in ToSet(a) : x \notin ToSet(b)  BY <4>1, OnceInTwo
      <4> QED  BY <4>1, <4>2
    <3>2. Disjoint(s)  BY <3>1, <1>2
    <3>3. ASSUME NEW h \in 1 .. n + 1, NEW k \in 1 .. n + 1, h # k, NEW x \in ToSet(Seen(l[h])), x \in ToSet(Seen(l[k])) PROVE FALSE
      <4>1. CASE h # n + 1 /\ k # n + 1
        <5>1. h \in 1 .. n /\ k \in 1 .. n  BY <4>1
        <5> QED  BY <5>1, <3>2, <3>3, <2>2, <2>3 DEF Disjoint
      <4>2. CASE h = n + 1 /\ k # n + 1
        <5>1. k \in 1 .. n  BY <4>2
        <5>2. ToSet(Seen(s[k])) \subseteq ToSet(SeenAll(s))  BY <5>1, <2>2, SeenAmongAll
        <5> QED  BY <4>2, <5>1, <5>2, <3>1, <3>3, <2>3
      <4>3. CASE h # n + 1 /\ k = n + 1
        <5>1. h \in 1 .. n  BY <4>3
        <5>2. ToSet(Seen(s[h])) \subseteq ToSet(SeenAll(s))  BY <5>1, <2>2, SeenAmongAll
        <5> QED  BY <4>3, <5>1, <5>2, <3>1, <3>3, <2>3
      <4> QED  BY <4>1, <4>2, <4>3, <3>3
    <3> QED  BY <3>3, <2>3 DEF Disjoint
  <2> QED  BY <2>1, <2>3, <2>5
<1> HIDE DEF S
<1>3. ss \in S  BY <1>1, <1>2, InductOnSequences
<1> QED  BY <1>3 DEF S

\* So no text begins with a character that another shows.
LEMMA SeenOnceApart ==
    ASSUME NEW units, AllClean(units), IsInjective(SeenAll(units))
    PROVE  Apart(units)
<1>1. units \in Seq(Texts) /\ \A i \in 1 .. Len(units) : Clean(units[i])  BY DEF AllClean
<1>2. Disjoint(units)  BY <1>1, SeenApart
<1>3. \A i \in 1 .. Len(units) : units[i][1] \in ToSet(Seen(units[i]))  BY <1>1, SeenIn
<1> QED  BY <1>2, <1>3 DEF Apart, Disjoint

\* How a page is cut.
PageCutAs(segments, paragraphs, max) ==
    /\ AllCut(segments, max) /\ Covers(segments, paragraphs, Len(paragraphs), max)
    /\ PackedBy(segments, paragraphs, max, 2)

\* The segments of a page hold all of it, clean and within the limit, and packed.
LEMMA PageSegmentsAre ==
    ASSUME NEW t \in Texts, NoTwice(t), NEW max \in Nat \ {0}
    PROVE  PageCutAs(PageSegments(t, max), Paragraphs(t), max) /\ SeenAll(PageSegments(t, max)) = Seen(t)
           /\ AllClean(Paragraphs(t))
<1>1. PICK ps : ps = Paragraphs(t)  OBVIOUS
<1>2. AllClean(ps) /\ SeenAll(ps) = Seen(t) /\ ps \in Seq(Texts)
  BY <1>1, SeparatedIs DEF Paragraphs, AllClean
<1>3. PICK n \in Nat : n = Len(ps)  BY <1>2, LenProperties
<1>4. CASE n = 1 /\ Len(ps[1]) > max
  <2>1. PICK p : p = ps[1]  OBVIOUS
  <2>2. p \in Texts /\ Len(p) \in Nat /\ ~ (Len(p) <= max)
    <3>1. 1 \in 1 .. Len(ps)  BY <1>3, <1>4
    <3>2. p \in Texts  BY <3>1, <2>1, <1>2, ElementOfSeq
    <3> QED  BY <3>2, <2>1, <1>4, LenProperties DEF Texts
  <2>3. SeenAll(ps) = Seen(p)
    <3>1. PICK a \in Seq(Texts) : a = << >>
      <4>1. << >> \in Seq(Texts)  OBVIOUS
      <4> QED  BY <4>1
    <3>2. PICK q : q = Append(a, p)  OBVIOUS
    <3>3. q \in Seq(Texts) /\ Len(q) = 1 /\ q[1] = p  BY <3>1, <3>2, <2>2
    <3>4. ps = q
      <4>1. \A i \in 1 .. Len(ps) : ps[i] = q[i]  BY <3>3, <2>1, <1>3, <1>4
      <4> QED  BY <4>1, <3>3, <1>2, <1>3, <1>4, SeqEqual
    <3>5. SeenAll(q) = SeenAll(a) \o Seen(p) /\ SeenAll(a) = << >>  BY <3>1, <3>2, <2>2, SeenAllAppend
    <3>6. Seen(p) \in Seq(Int)  BY <2>2, SeenType DEF Texts
    <3>7. << >> \o Seen(p) = Seen(p)  BY <3>6, ConcatEmptySeq
    <3> QED  BY <3>4, <3>5, <3>7
  <2>4. PICK lines : lines = Lines(p)  OBVIOUS
  <2>5. AllClean(lines) /\ SeenAll(lines) = Seen(p)  BY <2>2, <2>4, SeparatedIs DEF Lines
  <2>6. PICK s : s = IF Len(lines) > 1 THEN Pack(lines, max, <<Newline>>) ELSE SplitOversized(p, max)
    OBVIOUS
  <2>7. PageSegments(t, max) = s  BY <2>1, <2>4, <2>6, <1>1, <1>3, <1>4 DEF PageSegments
  <2>8. AllCut(s, max) /\ SeenAll(s) = Seen(p)
    <3>1. CASE Len(lines) > 1
      <4>1. <<Newline>> \in Texts /\ Seen(<<Newline>>) = << >>
        <5>1. <<Newline>> \in Seq(Int) /\ << >> \in Seq(Int) /\ Newline \in Int /\ <<Newline>> = Append(<< >>, Newline) /\ ~ (Newline > 0)
          BY DEF Newline
        <5> QED  BY <5>1, SeenAppend, SeenEmpty DEF Texts
      <4> QED  BY <4>1, <3>1, <2>5, <2>6, PackIs
    <3>2. CASE ~ (Len(lines) > 1)  BY <3>2, <2>2, <2>6, SplitOversizedIs
    <3> QED  BY <3>1, <3>2
  <2>9. \A k \in 1 .. Len(ps) : ~ (Len(ps[k]) <= max)  BY <2>1, <2>2, <1>3, <1>4
  <2>10. Covers(s, ps, Len(ps), max) /\ PackedBy(s, ps, max, 2)  BY <2>9 DEF Covers, PackedBy, PackedFor
  <2> QED  BY <2>3, <2>7, <2>8, <2>10, <1>1, <1>2 DEF PageCutAs
<1>5. CASE ~ (n = 1 /\ Len(ps[1]) > max)
  <2>1. PICK sep : sep = <<Newline, Newline>>  OBVIOUS
  <2>2. PageSegments(t, max) = Pack(ps, max, sep)  BY <2>1, <1>1, <1>3, <1>5 DEF PageSegments
  <2>3. sep \in Texts /\ Seen(sep) = << >> /\ Len(sep) = 2
    <3>1. <<Newline>> \in Seq(Int) /\ << >> \in Seq(Int) /\ Newline \in Int /\ <<Newline>> = Append(<< >>, Newline) /\ ~ (Newline > 0)
          /\ sep = Append(<<Newline>>, Newline) /\ sep \in Seq(Int) /\ Len(sep) = 2
      BY <2>1 DEF Newline
    <3>2. Seen(sep) = Seen(<<Newline>>) /\ Seen(<<Newline>>) = Seen(<< >>)  BY <3>1, SeenAppend
    <3> QED  BY <3>1, <3>2, SeenEmpty DEF Texts
  <2>4. Apart(ps)
    <3>1. IsInjective(SeenAll(ps))  BY <1>2, SeenOnce DEF Texts
    <3> QED  BY <3>1, <1>2, SeenOnceApart
  <2>5. PICK s : s = Pack(ps, max, sep)  OBVIOUS
  <2>6. AllCut(s, max) /\ SeenAll(s) = SeenAll(ps) /\ Covers(s, ps, Len(ps), max) /\ PackedBy(s, ps, max, Len(sep))
    BY <2>3, <2>4, <2>5, <1>2, PackIs
  <2>7. PageCutAs(s, ps, max)  BY <2>3, <2>6 DEF PageCutAs
  <2> QED  BY <2>2, <2>5, <2>6, <2>7, <1>1, <1>2
<1> QED  BY <1>4, <1>5

-----------------------------------------------------------------------------
(* Tokens *)

\* Rounding up is the least that is enough.
LEMMA CeilDivIs ==
    ASSUME NEW a \in Nat, NEW b \in Nat \ {0}
    PROVE  /\ CeilDiv(a, b) \in Nat /\ CeilDiv(a, b) * b >= a
           /\ \A r \in Nat : r * b >= a => r >= CeilDiv(a, b)
<1>1. PICK q \in Int : q = (a + b - 1) \div b /\ b * q <= a + b - 1 /\ a + b - 1 < b * q + b
  <2>1. a + b - 1 \in Nat  OBVIOUS
  <2> QED  BY <2>1
<1>2. q \in Nat
  <2>1. q >= 0
    <3> SUFFICES ASSUME q <= -1 PROVE FALSE  OBVIOUS
    <3>1. b * (q + 1) <= 0
      <4>1. PICK e \in Nat : e = -(q + 1)  OBVIOUS
      <4>2. b * e >= 0 /\ b * (q + 1) = -(b * e)  BY <4>1
      <4> QED  BY <4>2
    <3>2. b * q + b = b * (q + 1)  OBVIOUS
    <3> QED  BY <3>1, <3>2, <1>1
  <2> QED  BY <2>1
<1>3. CeilDiv(a, b) = q  BY <1>1 DEF CeilDiv
<1>4. q * b >= a
  <2>1. q * b = b * q /\ b * q \in Int  OBVIOUS
  <2> QED  BY <2>1, <1>1
<1>5. ASSUME NEW r \in Nat, r * b >= a PROVE r >= q
  <2> SUFFICES ASSUME r + 1 <= q PROVE FALSE  BY <1>2
  <2>1. PICK e \in Nat : q = r + 1 + e
    <3>1. q - r - 1 \in Nat /\ q = r + 1 + (q - r - 1)  OBVIOUS
    <3> QED  BY <3>1
  <2>2. b * q = r * b + b + b * e /\ b * e >= 0 /\ r * b \in Nat /\ b * e \in Nat  BY <2>1
  <2> QED  BY <2>2, <1>1, <1>5
<1> QED  BY <1>2, <1>3, <1>4, <1>5

\* What is needed of products.
LEMMA Products ==
    /\ \A a, b, c \in Nat : a <= b => a * c <= b * c
    /\ \A a, b, c \in Nat : (a * b) * c = (a * c) * b
    /\ \A a, b \in Nat : a * b \in Nat
<1>1. ASSUME NEW a \in Nat, NEW b \in Nat, NEW c \in Nat, a <= b PROVE a * c <= b * c
  <2>1. PICK e \in Nat : b = a + e
    <3>1. b - a \in Nat /\ b = a + (b - a)  BY <1>1
    <3> QED  BY <3>1
  <2>2. b * c = a * c + e * c /\ e * c >= 0 /\ a * c \in Nat /\ e * c \in Nat  BY <2>1
  <2> QED  BY <2>2
<1>2. \A a, b, c \in Nat : (a * b) * c = (a * c) * b  OBVIOUS
<1>3. \A a, b \in Nat : a * b \in Nat  OBVIOUS
<1> QED  BY <1>1, <1>2, <1>3

\* At a lesser density there are no fewer tokens, and none are lost by counting a longer
\* text at the rate of its end.
LEMMA TokensEnough ==
    ASSUME NEW l \in Nat \ {0}, NEW t \in Nat, NEW d \in Nat \ {0}, NEW density \in Nat \ {0}, d <= density
    PROVE  /\ CeilDiv(2 * l, d) \in Nat /\ CeilDiv(2 * l, d) >= CeilDiv(2 * l, density)
           /\ CeilDiv(t * CeilDiv(2 * l, d), l) \in Nat /\ CeilDiv(t * CeilDiv(2 * l, d), l) >= CeilDiv(2 * t, density)
<1>1. PICK x \in Nat : x = 2 * l  OBVIOUS
<1>2. PICK k \in Nat : k = CeilDiv(x, d) /\ k * d >= x  BY CeilDivIs
<1>3. k * density >= x
  <2>1. d * k <= density * k /\ d * k = k * d /\ density * k = k * density  BY Products
  <2>2. k * d \in Nat /\ k * density \in Nat  OBVIOUS
  <2> QED  BY <2>1, <2>2, <1>2
<1>4. k >= CeilDiv(x, density)  BY <1>3, CeilDivIs
<1>5. PICK y \in Nat : y = t * k  BY Products
<1>6. PICK q \in Nat : q = CeilDiv(y, l) /\ q * l >= y  BY CeilDivIs
<1>7. PICK z \in Nat, p \in Nat : z = 2 * t /\ p = q * density  BY Products
<1>8. p >= z
  <2> SUFFICES ASSUME p + 1 <= z PROVE FALSE  BY <1>7
  <2>1. p * l = (q * l) * density  BY <1>7, Products
  <2>2. (q * l) * density >= y * density
    <3>1. q * l \in Nat  BY Products
    <3> QED  BY <3>1, <1>6, Products
  <2>3. y * density = (k * density) * t
    <3>1. y = k * t  BY <1>5
    <3> QED  BY <3>1, Products
  <2>4. (k * density) * t >= x * t
    <3>1. k * density \in Nat  BY Products
    <3> QED  BY <3>1, <1>3, Products
  <2>5. x * t = z * l  BY <1>1, <1>7
  <2>6. PICK a \in Nat, b \in Nat, c \in Nat, e \in Nat : a = p * l /\ b = y * density /\ c = x * t /\ e = z * l
    BY Products
  <2>7. a >= b /\ b >= c /\ c = e  BY <2>1, <2>2, <2>3, <2>4, <2>5, <2>6
  <2>8. (p + 1) * l <= z * l /\ (p + 1) * l = p * l + l
    <3>1. p + 1 \in Nat  OBVIOUS
    <3>2. (p + 1) * l <= z * l  BY <3>1, Products
    <3> QED  BY <3>2
  <2> QED  BY <2>6, <2>7, <2>8
<1>9. q >= CeilDiv(z, density)  BY <1>7, <1>8, CeilDivIs
<1> QED  BY <1>1, <1>2, <1>4, <1>5, <1>6, <1>7, <1>9

-----------------------------------------------------------------------------
(* The most of a page *)

Pages == [text : Texts, cjk : BOOLEAN]
Chunks == [page : Nat, own : Texts, text : Texts, tokens : Nat]

\* A density at which something is counted.
LEMMA DensityIs ==
    ASSUME NEW pg, NEW density \in Nat \ {0}
    PROVE  DensityOf(pg, density) \in Nat \ {0} /\ DensityOf(pg, density) <= density
<1>1. CjkDensity \in Nat \ {0}  BY TextAssumption
<1> QED  BY <1>1 DEF DensityOf

\* A chunk as it is cut: clean, within the limit, and counted.
CutChunk(c, pg, max, density) ==
    /\ Clean(c.own) /\ Len(c.own) <= max /\ c.text = c.own
    /\ c.tokens = CeilDiv(2 * Len(c.own), DensityOf(pg, density))

\* The chunks of a page are its segments, with its number.
LEMMA PageChunksAre ==
    ASSUME NEW pg \in Pages, NoTwice(pg.text), NEW n \in Nat, NEW max \in Nat \ {0}, NEW density \in Nat \ {0},
           NEW s, s = PageSegments(pg.text, max), NEW q, q = PageChunks(pg, n, max, density)
    PROVE  /\ s \in Seq(Texts) /\ q \in Seq(Chunks) /\ Len(q) = Len(s)
           /\ \A i \in 1 .. Len(s) : q[i].page = n /\ q[i].own = s[i] /\ CutChunk(q[i], pg, max, density)
<1>1. pg.text \in Texts  BY DEF Pages
<1>2. s \in Seq(Texts) /\ \A i \in 1 .. Len(s) : Clean(s[i]) /\ Len(s[i]) <= max
  BY <1>1, PageSegmentsAre DEF PageCutAs, AllCut
<1>3. PICK k \in Nat : k = Len(s) /\ DOMAIN s = 1 .. k  BY <1>2, LenProperties
<1>4. PICK d \in Nat \ {0} : d = DensityOf(pg, density)  BY DensityIs
<1>5. q = [i \in 1 .. k |-> [page |-> n, own |-> s[i], text |-> s[i], tokens |-> TokenCount(Len(s[i]), d)]]
  BY <1>3, <1>4 DEF PageChunks
<1>6. ASSUME NEW i \in 1 .. k PROVE q[i] \in Chunks /\ q[i].page = n /\ q[i].own = s[i] /\ CutChunk(q[i], pg, max, density)
  <2>1. PICK x \in Texts : x = s[i] /\ Clean(x) /\ Len(x) <= max  BY <1>2, <1>3, ElementOfSeq
  <2>2. PICK l \in Nat \ {0} : l = Len(x)
    <3>1. Len(x) \in Nat /\ Len(x) >= 1  BY <2>1, LenProperties DEF Clean, Texts
    <3> QED  BY <3>1
  <2>3. TokenCount(l, d) = CeilDiv(2 * l, d) /\ CeilDiv(2 * l, d) \in Nat
    <3>1. 2 * l \in Nat  OBVIOUS
    <3>2. CeilDiv(2 * l, d) \in Nat  BY <3>1, CeilDivIs
    <3> QED  BY <3>2, <2>2 DEF TokenCount
  <2>4. q[i] = [page |-> n, own |-> x, text |-> x, tokens |-> TokenCount(l, d)]  BY <1>5, <2>1, <2>2
  <2> QED  BY <2>1, <2>2, <2>3, <2>4, <1>4 DEF Chunks, CutChunk
<1>7. q \in Seq(Chunks) /\ Len(q) = k  BY <1>5, <1>6
<1> QED  BY <1>2, <1>3, <1>6, <1>7

\* What the chunks of a page show, those of other pages left out.
OfPage(c, n) == [i \in DOMAIN c |-> IF c[i].page = n THEN c[i].own ELSE << >>]

\* The texts of one page among all chunks.
LEMMA OfPageType ==
    ASSUME NEW c \in Seq(Chunks), NEW n
    PROVE  OfPage(c, n) \in Seq(Texts) /\ Len(OfPage(c, n)) = Len(c)
           /\ \A i \in 1 .. Len(c) : OfPage(c, n)[i] = IF c[i].page = n THEN c[i].own ELSE << >>
<1>1. PICK k \in Nat : k = Len(c) /\ DOMAIN c = 1 .. k  BY LenProperties
<1>2. PICK l : l = OfPage(c, n)  OBVIOUS
<1>3. l = [i \in 1 .. k |-> IF c[i].page = n THEN c[i].own ELSE << >>]  BY <1>1, <1>2 DEF OfPage
<1>4. \A i \in 1 .. k : l[i] \in Texts
  <2>1. \A i \in 1 .. k : c[i] \in Chunks  BY <1>1, ElementOfSeq
  <2>2. << >> \in Texts  BY DEF Texts
  <2> QED  BY <2>1, <2>2, <1>3 DEF Chunks
<1> QED  BY <1>1, <1>2, <1>3, <1>4

\* The same of chunks and more chunks.
LEMMA OfPageOfTwo ==
    ASSUME NEW c \in Seq(Chunks), NEW q \in Seq(Chunks), NEW n
    PROVE  OfPage(c \o q, n) = OfPage(c, n) \o OfPage(q, n)
<1>1. PICK k \in Nat, m \in Nat : k = Len(c) /\ m = Len(q)  BY LenProperties
<1>2. PICK l : l = c \o q  OBVIOUS
<1>3. l \in Seq(Chunks) /\ Len(l) = k + m /\ \A i \in 1 .. k + m : l[i] = IF i <= k THEN c[i] ELSE q[i - k]
  BY <1>1, <1>2, ConcatProperties
<1>4. PICK a, b, w : a = OfPage(c, n) /\ b = OfPage(q, n) /\ w = OfPage(l, n)  OBVIOUS
<1>5. /\ a \in Seq(Texts) /\ Len(a) = k /\ \A i \in 1 .. k : a[i] = IF c[i].page = n THEN c[i].own ELSE << >>
      /\ b \in Seq(Texts) /\ Len(b) = m /\ \A i \in 1 .. m : b[i] = IF q[i].page = n THEN q[i].own ELSE << >>
      /\ w \in Seq(Texts) /\ Len(w) = k + m /\ \A i \in 1 .. k + m : w[i] = IF l[i].page = n THEN l[i].own ELSE << >>
  BY <1>1, <1>3, <1>4, OfPageType
<1>6. PICK e : e = a \o b  OBVIOUS
<1>7. e \in Seq(Texts) /\ Len(e) = k + m /\ \A i \in 1 .. k + m : e[i] = IF i <= k THEN a[i] ELSE b[i - k]
  BY <1>5, <1>6, ConcatProperties
<1>8. ASSUME NEW i \in 1 .. k + m PROVE w[i] = e[i]
  <2>1. CASE i <= k
    <3>1. i \in 1 .. k  BY <2>1
    <3>2. l[i] = c[i] /\ e[i] = a[i]  BY <2>1, <1>3, <1>7
    <3>3. w[i] = IF l[i].page = n THEN l[i].own ELSE << >>  BY <1>5
    <3>4. a[i] = IF c[i].page = n THEN c[i].own ELSE << >>  BY <3>1, <1>5
    <3> QED  BY <3>2, <3>3, <3>4
  <2>2. CASE ~ (i <= k)
    <3>1. PICK j \in 1 .. m : j = i - k  BY <2>2
    <3>2. l[i] = q[j] /\ e[i] = b[j]  BY <3>1, <2>2, <1>3, <1>7
    <3>3. w[i] = IF l[i].page = n THEN l[i].own ELSE << >>  BY <1>5
    <3>4. b[j] = IF q[j].page = n THEN q[j].own ELSE << >>  BY <1>5
    <3> QED  BY <3>2, <3>3, <3>4
  <2> QED  BY <2>1, <2>2
<1>9. w = e
  <2>1. PICK T : T = Texts  OBVIOUS
  <2>2. w \in Seq(T) /\ e \in Seq(T) /\ Len(w) = Len(e) /\ \A i \in 1 .. Len(w) : w[i] = e[i]
    BY <2>1, <1>5, <1>7, <1>8
  <2> QED  BY <2>2, SeqEqual
<1> QED  BY <1>2, <1>4, <1>6, <1>9

\* Nothing is seen of texts that are empty.
LEMMA SeenOfNone ==
    ASSUME NEW ss \in Seq(Texts), \A i \in 1 .. Len(ss) : ss[i] = << >>
    PROVE  SeenAll(ss) = << >>
<1> DEFINE S == {s \in Seq(Texts) : (\A i \in 1 .. Len(s) : s[i] = << >>) => SeenAll(s) = << >>}
<1>1. << >> \in S
  <2>1. << >> \in Seq(Texts)  OBVIOUS
  <2> QED  BY <2>1, SeenAllAppend
<1>2. ASSUME NEW s \in Seq(Texts), NEW u \in Texts, s \in S PROVE Append(s, u) \in S
  <2>1. PICK l : l = Append(s, u)  OBVIOUS
  <2>2. PICK n \in Nat : n = Len(s)  BY LenProperties
  <2>3. l \in Seq(Texts) /\ Len(l) = n + 1 /\ l[n + 1] = u /\ \A i \in 1 .. n : l[i] = s[i]
    BY <2>1, <2>2, AppendProperties
  <2>4. SeenAll(l) = SeenAll(s) \o Seen(u)  BY <2>1, SeenAllAppend
  <2>5. ASSUME \A i \in 1 .. n + 1 : l[i] = << >> PROVE SeenAll(l) = << >>
    <3>1. \A i \in 1 .. n : i \in 1 .. n + 1 /\ n + 1 \in 1 .. n + 1  OBVIOUS
    <3>2. \A i \in 1 .. n : s[i] = << >>  BY <3>1, <2>3, <2>5
    <3>3. SeenAll(s) = << >>  BY <3>2, <2>2, <1>2
    <3>4. Seen(u) = << >>
      <4>1. n + 1 \in 1 .. n + 1  OBVIOUS
      <4> QED  BY <4>1, <2>3, <2>5, SeenEmpty
    <3>5. << >> \o << >> = << >>
      <4>1. << >> \in Seq(Int)  OBVIOUS
      <4> QED  BY <4>1, ConcatEmptySeq
    <3> QED  BY <3>3, <3>4, <3>5, <2>4
  <2> QED  BY <2>1, <2>3, <2>5
<1> HIDE DEF S
<1>3. ss \in S  BY <1>1, <1>2, InductOnSequences
<1> QED  BY <1>3 DEF S

-----------------------------------------------------------------------------
(* The most of one page more *)

PagesOk(pages) == pages \in Seq(Pages) /\ \A n \in 1 .. Len(pages) : NoTwice(pages[n].text)

ParagraphsOf(pages, n) == Paragraphs(pages[n].text)

\* A chunk and the one before it: in order, and packed if they are of one page.
Follows(c, i, pages, max) ==
    /\ c[i - 1].page <= c[i].page
    /\ c[i - 1].page = c[i].page =>
         \A k \in 1 .. Len(ParagraphsOf(pages, c[i].page)) :
            /\ ParagraphsOf(pages, c[i].page)[k][1] = c[i].own[1]
            /\ Len(ParagraphsOf(pages, c[i].page)[k]) <= max
            => \/ Len(c[i - 1].own) + 2 + Len(ParagraphsOf(pages, c[i].page)[k]) > max
               \/ \E h \in 1 .. k - 1 : Len(ParagraphsOf(pages, c[i].page)[h]) > max

\* Every paragraph of a page that fits is whole in one of the chunks.
Whole(c, pages, n, max) ==
    \A k \in 1 .. Len(ParagraphsOf(pages, n)) : Len(ParagraphsOf(pages, n)[k]) <= max =>
        \E i \in 1 .. Len(c) : ToSet(Seen(ParagraphsOf(pages, n)[k])) \subseteq ToSet(c[i].own)

\* What the first m pages have been cut into.
CutTo(c, pages, m, max, density) ==
    /\ c \in Seq(Chunks)
    /\ \A i \in 1 .. Len(c) : c[i].page \in 1 .. m /\ CutChunk(c[i], pages[c[i].page], max, density)
    /\ \A i \in 2 .. Len(c) : Follows(c, i, pages, max)
    /\ \A n \in 1 .. m : Whole(c, pages, n, max)
    /\ \A n \in 1 .. Len(pages) : SeenAll(OfPage(c, n)) = IF n <= m THEN Seen(pages[n].text) ELSE << >>

\* One page more.
LEMMA NextPageCut ==
    ASSUME NEW pages, PagesOk(pages), NEW m \in 0 .. Len(pages) - 1, NEW max \in Nat \ {0}, NEW density \in Nat \ {0},
           NEW c, CutTo(c, pages, m, max, density),
           NEW q, q = PageChunks(pages[m + 1], m + 1, max, density)
    PROVE  CutTo(c \o q, pages, m + 1, max, density)
<1>0. PICK np \in Nat : np = Len(pages)  BY LenProperties DEF PagesOk
<1>1. m \in 0 .. np - 1 /\ m \in Nat /\ m + 1 \in 1 .. np /\ m + 1 \in Nat  BY <1>0
<1>2. PICK pg \in Pages : pg = pages[m + 1] /\ NoTwice(pg.text)  BY <1>0, <1>1, ElementOfSeq DEF PagesOk
<1>3. PICK s : s = PageSegments(pg.text, max)  OBVIOUS
<1>4. /\ s \in Seq(Texts) /\ q \in Seq(Chunks) /\ Len(q) = Len(s)
      /\ \A i \in 1 .. Len(s) : q[i].page = m + 1 /\ q[i].own = s[i] /\ CutChunk(q[i], pg, max, density)
  BY <1>1, <1>2, <1>3, PageChunksAre, SMTT(30)
<1>5. PICK ps : ps = Paragraphs(pg.text) /\ ps = ParagraphsOf(pages, m + 1)  BY <1>2 DEF ParagraphsOf
<1>6. PageCutAs(s, ps, max) /\ SeenAll(s) = Seen(pg.text)
  BY <1>2, <1>3, <1>5, PageSegmentsAre DEF Pages
<1>7. /\ c \in Seq(Chunks)
      /\ \A i \in 1 .. Len(c) : c[i].page \in 1 .. m /\ CutChunk(c[i], pages[c[i].page], max, density)
      /\ \A i \in 2 .. Len(c) : Follows(c, i, pages, max)
      /\ \A n \in 1 .. m : Whole(c, pages, n, max)
      /\ \A n \in 1 .. np : SeenAll(OfPage(c, n)) = IF n <= m THEN Seen(pages[n].text) ELSE << >>
  BY <1>0 DEF CutTo
<1>8. PICK a \in Nat, b \in Nat : a = Len(c) /\ b = Len(q)  BY <1>4, <1>7, LenProperties
<1>9. PICK e : e = c \o q  OBVIOUS
<1>10. e \in Seq(Chunks) /\ Len(e) = a + b /\ \A i \in 1 .. a + b : e[i] = IF i <= a THEN c[i] ELSE q[i - a]
  <2>1. PICK T : T = Chunks  OBVIOUS
  <2>2. c \in Seq(T) /\ q \in Seq(T)
    <3>1. c \in Seq(Chunks)  BY ONLY <1>7
    <3>2. q \in Seq(Chunks)  BY ONLY <1>4
    <3> QED  BY ONLY <2>1, <3>1, <3>2
  <2>3. e \in Seq(T) /\ Len(e) = Len(c) + Len(q)
        /\ \A i \in 1 .. Len(c) + Len(q) : e[i] = IF i <= Len(c) THEN c[i] ELSE q[i - Len(c)]
    BY <2>2, <1>9, ConcatProperties
  <2> QED  BY <2>1, <2>3, <1>8
<1>11. /\ \A i \in 1 .. a : i \in 1 .. a + b /\ e[i] = c[i]
       /\ \A i \in 1 .. b : a + i \in 1 .. a + b /\ e[a + i] = q[i]
  <2>1. \A i \in 1 .. b : a + i \in 1 .. a + b /\ ~ (a + i <= a) /\ (a + i) - a = i  OBVIOUS
  <2>2. \A i \in 1 .. a : i \in 1 .. a + b /\ i <= a  OBVIOUS
  <2>3. \A i \in 1 .. a : e[i] = c[i]  BY <2>2, <1>10
  <2>4. \A i \in 1 .. b : e[a + i] = q[i]  BY <2>1, <1>10
  <2> QED  BY <2>1, <2>2, <2>3, <2>4
<1>12. \A i \in 1 .. a + b : i \in 1 .. a \/ \E j \in 1 .. b : i = a + j
  <2> TAKE i \in 1 .. a + b
  <2>1. CASE i <= a  BY <2>1
  <2>2. CASE ~ (i <= a)
    <3>1. i - a \in 1 .. b /\ i = a + (i - a)  BY <2>2
    <3> QED  BY <3>1
  <2> QED  BY <2>1, <2>2
<1>13. ASSUME NEW i \in 1 .. a + b
       PROVE  e[i].page \in 1 .. m + 1 /\ CutChunk(e[i], pages[e[i].page], max, density)
  <2>1. CASE i \in 1 .. a
    <3>1. e[i] = c[i] /\ c[i].page \in 1 .. m /\ CutChunk(c[i], pages[c[i].page], max, density)
      BY <2>1, <1>7, <1>8, <1>11
    <3>2. c[i].page \in 1 .. m + 1  BY <3>1, <1>1
    <3> QED  BY <3>1, <3>2
  <2>2. ASSUME NEW j \in 1 .. b, i = a + j PROVE e[i].page \in 1 .. m + 1 /\ CutChunk(e[i], pages[e[i].page], max, density)
    <3>1. e[i] = q[j] /\ q[j].page = m + 1 /\ CutChunk(q[j], pg, max, density)
      BY <2>2, <1>4, <1>8, <1>11
    <3>2. m + 1 \in 1 .. m + 1  BY <1>1
    <3> QED  BY <3>1, <3>2, <1>2
  <2> QED  BY <2>1, <2>2, <1>12
<1>14. ASSUME NEW i \in 2 .. a + b PROVE Follows(e, i, pages, max)
  <2>0. i - 1 \in 1 .. a + b /\ i \in 1 .. a + b  OBVIOUS
  <2>1. CASE i \in 1 .. a
    <3>1. i - 1 \in 1 .. a /\ i \in 2 .. a  BY <2>1
    <3>2. e[i] = c[i] /\ e[i - 1] = c[i - 1] /\ Follows(c, i, pages, max)
      BY <2>1, <3>1, <1>7, <1>8, <1>11
    <3> QED  BY <3>2 DEF Follows
  <2>2. ASSUME NEW j \in 1 .. b, i = a + j PROVE Follows(e, i, pages, max)
    <3>1. e[i] = q[j] /\ q[j].page = m + 1 /\ q[j].own = s[j] /\ j \in 1 .. Len(s)
      BY <2>2, <1>4, <1>8, <1>11
    <3>2. CASE j = 1
      <4>1. i - 1 \in 1 .. a  BY <2>2, <3>2
      <4>2. e[i - 1] = c[i - 1] /\ c[i - 1].page \in 1 .. m  BY <4>1, <1>7, <1>8, <1>11
      <4>3. e[i - 1].page <= e[i].page /\ e[i - 1].page # e[i].page  BY <4>2, <3>1, <1>1, SMTT(30)
      <4> QED  BY <4>3 DEF Follows
    <3>3. CASE j # 1
      <4>1. j - 1 \in 1 .. b /\ i - 1 = a + (j - 1) /\ j \in 2 .. b  BY <2>2, <3>3
      <4>2. e[i - 1] = q[j - 1] /\ q[j - 1].page = m + 1 /\ q[j - 1].own = s[j - 1]
        BY <4>1, <1>4, <1>8, <1>11
      <4>3. PackedFor(s, ps, max, 2, j)  BY <4>1, <1>4, <1>6, <1>8 DEF PageCutAs, PackedBy
      <4>4. /\ e[i - 1].page <= e[i].page /\ e[i].page = m + 1 /\ e[i].own = s[j] /\ e[i - 1].own = s[j - 1]
        BY <4>2, <3>1, <1>1
      <4> QED  BY <4>3, <4>4, <1>5 DEF Follows, PackedFor
    <3> QED  BY <3>2, <3>3
  <2> QED  BY <2>0, <2>1, <2>2, <1>12
<1>15. ASSUME NEW n \in 1 .. m + 1 PROVE Whole(e, pages, n, max)
  <2>1. CASE n <= m
    <3>1. Whole(c, pages, n, max)  BY <2>1, <1>1, <1>7
    <3>2. \A i \in 1 .. Len(c) : i \in 1 .. Len(e) /\ e[i] = c[i]  BY <1>8, <1>10, <1>11
    <3>3. ASSUME NEW k \in 1 .. Len(ParagraphsOf(pages, n)), Len(ParagraphsOf(pages, n)[k]) <= max
          PROVE  \E i \in 1 .. Len(e) : ToSet(Seen(ParagraphsOf(pages, n)[k])) \subseteq ToSet(e[i].own)
      <4>1. PICK i \in 1 .. Len(c) : ToSet(Seen(ParagraphsOf(pages, n)[k])) \subseteq ToSet(c[i].own)
        BY <3>1, <3>3 DEF Whole
      <4> QED  BY <4>1, <3>2
    <3> QED  BY <3>3 DEF Whole
  <2>2. CASE ~ (n <= m)
    <3>1. n = m + 1  BY <2>2, <1>1
    <3>2. ASSUME NEW k \in 1 .. Len(ps), Len(ps[k]) <= max
          PROVE  \E i \in 1 .. Len(e) : ToSet(Seen(ps[k])) \subseteq ToSet(e[i].own)
      <4>1. PICK j \in 1 .. Len(s) : ToSet(Seen(ps[k])) \subseteq ToSet(s[j])
        BY <3>2, <1>6 DEF PageCutAs, Covers
      <4>2. a + j \in 1 .. Len(e) /\ e[a + j].own = s[j]  BY <4>1, <1>4, <1>8, <1>10, <1>11
      <4> QED  BY <4>1, <4>2
    <3> QED  BY <3>1, <3>2, <1>5 DEF Whole
  <2> QED  BY <2>1, <2>2
<1>16. ASSUME NEW n \in 1 .. np
       PROVE  SeenAll(OfPage(e, n)) = IF n <= m + 1 THEN Seen(pages[n].text) ELSE << >>
  <2>1. PICK x \in Seq(Texts), y \in Seq(Texts) : x = OfPage(c, n) /\ y = OfPage(q, n) /\ Len(y) = b
                                                 /\ \A i \in 1 .. b : y[i] = IF q[i].page = n THEN q[i].own ELSE << >>
    BY <1>4, <1>7, <1>8, OfPageType
  <2>2. SeenAll(OfPage(e, n)) = SeenAll(x) \o SeenAll(y)
    <3>1. OfPage(e, n) = x \o y  BY <2>1, <1>4, <1>7, <1>9, OfPageOfTwo
    <3> QED  BY <3>1, SeenAllOfTwo
  <2>3. SeenAll(x) = IF n <= m THEN Seen(pages[n].text) ELSE << >>  BY <2>1, <1>7
  <2>4. CASE n = m + 1
    <3>1. y = s
      <4>1. \A i \in 1 .. b : y[i] = s[i]  BY <2>1, <2>4, <1>4, <1>8
      <4>2. PICK T : T = Texts  OBVIOUS
      <4>3. y \in Seq(T) /\ s \in Seq(T) /\ Len(y) = Len(s) /\ \A i \in 1 .. Len(y) : y[i] = s[i]
        BY <2>1, <4>1, <4>2, <1>4, <1>8
      <4> QED  BY <4>3, SeqEqual
    <3>2. SeenAll(x) = << >>  BY <2>3, <2>4, <1>1
    <3>3. << >> \o SeenAll(s) = SeenAll(s)
      <4>1. SeenAll(s) \in Seq(Int)  BY <1>4, SeenAmongAll DEF Texts
      <4> QED  BY <4>1, ConcatEmptySeq
    <3>4. n <= m + 1  BY <2>4, <1>1
    <3> QED  BY <2>2, <2>4, <3>1, <3>2, <3>3, <3>4, <1>2, <1>6
  <2>5. CASE n # m + 1
    <3>1. \A i \in 1 .. Len(y) : y[i] = << >>  BY <2>1, <2>5, <1>4, <1>8
    <3>2. SeenAll(y) = << >>  BY <2>1, <3>1, SeenOfNone
    <3>3. SeenAll(x) \o << >> = SeenAll(x)
      <4>1. SeenAll(x) \in Seq(Int)  BY <2>1, SeenAmongAll DEF Texts
      <4> QED  BY <4>1, ConcatEmptySeq
    <3>4. n <= m + 1 <=> n <= m  BY <2>5, <1>1
    <3> QED  BY <2>2, <2>3, <3>2, <3>3, <3>4
  <2> QED  BY <2>4, <2>5
<1> QED  BY <1>0, <1>9, <1>10, <1>13, <1>14, <1>15, <1>16 DEF CutTo

-----------------------------------------------------------------------------
(* The most of a file *)

\* Where all pages have been cut.
LEMMA AllPagesCut ==
    ASSUME NEW pages, PagesOk(pages), NEW max \in Nat \ {0}, NEW density \in Nat \ {0}
    PROVE  CutTo(FlattenSeq([n \in DOMAIN pages |-> PageChunks(pages[n], n, max, density)]), pages, Len(pages), max, density)
<1>1. PICK np \in Nat : np = Len(pages) /\ DOMAIN pages = 1 .. np  BY LenProperties DEF PagesOk
<1>2. PICK ss : ss = [n \in DOMAIN pages |-> PageChunks(pages[n], n, max, density)]  OBVIOUS
<1>3. ss \in Seq(Seq(Chunks)) /\ Len(ss) = np /\ \A n \in 1 .. np : ss[n] = PageChunks(pages[n], n, max, density)
  <2>1. ASSUME NEW n \in 1 .. np PROVE PageChunks(pages[n], n, max, density) \in Seq(Chunks)
    <3>1. pages[n] \in Pages /\ NoTwice(pages[n].text) /\ n \in Nat  BY <1>1, ElementOfSeq DEF PagesOk
    <3> QED  BY <3>1, PageChunksAre
  <2> QED  BY <2>1, <1>1, <1>2
<1>4. PICK p : PrefixesOf(ss, Seq(Chunks), p)  BY <1>3, PrefixesAre
<1>5. /\ p \in [0 .. np -> Seq(Seq(Chunks))] /\ p[0] = << >> /\ p[np] = ss
      /\ \A i \in 0 .. np - 1 : p[i + 1] = Append(p[i], ss[i + 1]) /\ ss[i + 1] \in Seq(Chunks)
  BY <1>3, <1>4 DEF PrefixesOf
<1> DEFINE S == {i \in 0 .. np : CutTo(FlattenSeq(p[i]), pages, i, max, density)}
<1>6. 0 \in S
  <2>1. FlattenSeq(p[0]) = << >>  BY <1>5, FlatAppend
  <2>2. \A n \in 1 .. np : SeenAll(OfPage(<< >>, n)) = << >>
    <3>1. << >> \in Seq(Chunks) /\ Len(<< >>) = 0  OBVIOUS
    <3> TAKE n \in 1 .. np
    <3>2. PICK o \in Seq(Texts) : o = OfPage(<< >>, n) /\ Len(o) = 0  BY <3>1, OfPageType
    <3>3. \A i \in 1 .. Len(o) : o[i] = << >>  BY <3>2
    <3> QED  BY <3>2, <3>3, SeenOfNone
  <2>3. \A n \in 1 .. np : ~ (n <= 0)  OBVIOUS
  <2>4. << >> \in Seq(Chunks) /\ Len(<< >>) = 0 /\ 1 .. 0 = {} /\ 2 .. 0 = {}  OBVIOUS
  <2>5. CutTo(<< >>, pages, 0, max, density)  BY <2>2, <2>3, <2>4, <1>1 DEF CutTo
  <2> QED  BY <2>1, <2>5
<1>7. \A i \in 0 .. np - 1 : i \in S => i + 1 \in S
  <2> SUFFICES ASSUME NEW i \in 0 .. np - 1, i \in S PROVE i + 1 \in S  OBVIOUS
  <2>1. i + 1 \in 1 .. np /\ i + 1 \in 0 .. np /\ i \in 0 .. np  OBVIOUS
  <2>2. PICK c, q : c = FlattenSeq(p[i]) /\ q = ss[i + 1]  OBVIOUS
  <2>3. q = PageChunks(pages[i + 1], i + 1, max, density) /\ CutTo(c, pages, i, max, density)
    BY <2>1, <2>2, <1>3
  <2>4. FlattenSeq(p[i + 1]) = c \o q
    <3>1. PICK T : T = Chunks  OBVIOUS
    <3>2. PICK u : u = p[i]  OBVIOUS
    <3>3. u \in Seq(Seq(T)) /\ q \in Seq(T) /\ p[i + 1] = Append(u, q)  BY <2>1, <2>2, <3>1, <3>2, <1>5
    <3>4. FlattenSeq(Append(u, q)) = FlattenSeq(u) \o q  BY <3>3, FlatAppend
    <3> QED  BY <3>2, <3>3, <3>4, <2>2
  <2>5. CutTo(c \o q, pages, i + 1, max, density)  BY <2>3, <1>1, NextPageCut
  <2> QED  BY <2>1, <2>4, <2>5
<1> HIDE DEF S
<1>8. np \in S
  <2>1. \A i \in 0 .. np : i \in S  BY <1>6, <1>7, Induct
  <2> QED  BY <2>1
<1> QED  BY <1>1, <1>2, <1>5, <1>8 DEF S

\* The tail that is repeated is not longer than the overlap.
LEMMA TailIs ==
    ASSUME NEW t \in Texts
    PROVE  Tail_(t) \in Texts /\ Len(Tail_(t)) \in Nat /\ Len(Tail_(t)) <= Overlap
<1>1. Overlap \in Nat  BY TextAssumption
<1>2. PICK n \in Nat : n = Len(t)  BY LenProperties DEF Texts
<1>3. PICK b \in 1 .. n + 1 : b = IF n > Overlap THEN n - Overlap + 1 ELSE 1
  <2>1. PICK o \in Nat : o = Overlap  BY <1>1
  <2>2. CASE n > o
    <3>1. n - o + 1 \in 1 .. n + 1  BY <2>2
    <3> QED  BY <3>1, <2>1, <2>2
  <2>3. CASE ~ (n > o)
    <3>1. 1 \in 1 .. n + 1  OBVIOUS
    <3> QED  BY <3>1, <2>1, <2>3
  <2> QED  BY <2>2, <2>3
<1>4. PICK s : s = SubSeq(t, b, n)  OBVIOUS
<1>5. s \in Seq(Int) /\ Len(s) \in Nat /\ Len(s) <= Overlap
  <2>1. \A i \in b .. n : t[i] \in Int
    <3>1. \A i \in b .. n : i \in 1 .. Len(t)  BY <1>2
    <3> QED  BY <3>1, ElementOfSeq DEF Texts
  <2>2. s \in Seq(Int) /\ Len(s) = IF b <= n THEN n - b + 1 ELSE 0  BY <2>1, <1>4, SubSeqProperties
  <2> QED  BY <2>2, <1>1, <1>3
<1>6. Tail_(t) = Strip(s)  BY <1>2, <1>3, <1>4 DEF Tail_
<1>7. Strip(s) \in Texts /\ Len(Strip(s)) <= Len(s)  BY <1>5, StripIs DEF Texts
<1>8. Len(Strip(s)) \in Nat  BY <1>7, LenProperties DEF Texts
<1> QED  BY <1>1, <1>5, <1>6, <1>7, <1>8

\* A chunk as it is stored.
StoredChunk(e, c, max, density) ==
    /\ e.page = c.page /\ e.own = c.own /\ Len(e.text) <= max + Overlap + 1
    /\ e.tokens >= TokenCount(Len(e.text), density)

\* A chunk counts enough tokens for its text, with the end of the one before it or without.
LEMMA CutChunkStored ==
    ASSUME NEW c \in Chunks, NEW pg, NEW max \in Nat \ {0}, NEW density \in Nat \ {0}, CutChunk(c, pg, max, density)
    PROVE  StoredChunk(c, c, max, density) /\ \A b \in Chunks : StoredChunk(Overlapped(b, c), c, max, density)
<1>0. Overlap \in Nat  BY TextAssumption
<1>1. PICK d \in Nat \ {0} : d = DensityOf(pg, density) /\ d <= density  BY DensityIs
<1>2. PICK o \in Texts : o = c.own /\ c.text = o /\ Clean(o)  BY DEF CutChunk, Chunks
<1>3. PICK l \in Nat \ {0} : l = Len(o) /\ l <= max
  <2>1. Len(o) \in Nat /\ Len(o) >= 1 /\ Len(o) <= max
    BY <1>2, LenProperties DEF Clean, Texts, CutChunk
  <2> QED  BY <2>1
<1>4. PICK k \in Nat : k = c.tokens /\ k = CeilDiv(2 * l, d)  BY <1>1, <1>2, <1>3 DEF CutChunk, Chunks
<1>5. StoredChunk(c, c, max, density)
  <2>1. k >= CeilDiv(2 * l, density)
    <3>1. CeilDiv(2 * l, d) >= CeilDiv(2 * l, density) /\ CeilDiv(l * CeilDiv(2 * l, d), l) >= CeilDiv(2 * l, density)
      BY <1>1, TokensEnough
    <3> QED  BY <3>1, <1>4
  <2>2. TokenCount(l, density) = CeilDiv(2 * l, density)  BY DEF TokenCount
  <2> QED  BY <2>1, <2>2, <1>0, <1>2, <1>3, <1>4 DEF StoredChunk
<1>6. ASSUME NEW b \in Chunks PROVE StoredChunk(Overlapped(b, c), c, max, density)
  <2>1. PICK t \in Texts : t = Tail_(b.own) /\ Len(t) \in Nat /\ Len(t) <= Overlap  BY TailIs DEF Chunks
  <2>2. CASE t = << >>  BY <2>1, <2>2, <1>5 DEF Overlapped
  <2>3. CASE t # << >>
    <3>1. PICK x : x = t \o <<Newline>> \o o  OBVIOUS
    <3>2. Len(x) = Len(t) + 1 + l
      <4>1. <<Newline>> \in Seq(Int) /\ Len(<<Newline>>) = 1 /\ t \in Seq(Int) /\ o \in Seq(Int)
        BY DEF Newline, Texts
      <4>2. PICK y : y = t \o <<Newline>>  OBVIOUS
      <4>3. y \in Seq(Int) /\ Len(y) = Len(t) + 1  BY <4>1, <4>2, ConcatProperties
      <4>4. Len(y \o o) = Len(y) + Len(o)  BY <4>1, <4>3, ConcatProperties
      <4> QED  BY <4>2, <4>3, <4>4, <3>1, <1>3
    <3>3. PICK m \in Nat : m = Len(x) /\ m <= max + Overlap + 1 /\ m # 0  BY <3>2, <2>1, <1>0, <1>3
    <3>4. PICK e : e = [c EXCEPT !.text = x, !.tokens = CeilDiv(m * k, l)]  OBVIOUS
    <3>5. Overlapped(b, c) = e  BY <3>1, <3>3, <3>4, <2>1, <2>3, <1>2, <1>3, <1>4 DEF Overlapped
    <3>6. e.page = c.page /\ e.own = c.own /\ e.text = x /\ e.tokens = CeilDiv(m * k, l)
      BY <3>4 DEF Chunks
    <3>7. CeilDiv(m * k, l) >= CeilDiv(2 * m, density)  BY <1>1, <1>4, TokensEnough
    <3>8. TokenCount(m, density) = CeilDiv(2 * m, density)  BY <3>3 DEF TokenCount
    <3> QED  BY <3>3, <3>5, <3>6, <3>7, <3>8 DEF StoredChunk
  <2> QED  BY <2>2, <2>3
<1> QED  BY <1>5, <1>6

\* The chunks of a file.
LEMMA ChunkSpecsAre ==
    ASSUME NEW pages, PagesOk(pages), NEW max \in Nat \ {0}, NEW density \in Nat \ {0},
           NEW items, items = ChunkSpecs(pages, max, density)
    PROVE  \E c : /\ CutTo(c, pages, Len(pages), max, density) /\ DOMAIN items = 1 .. Len(c) /\ Len(c) \in Nat
                  /\ \A i \in 1 .. Len(c) : StoredChunk(items[i], c[i], max, density)
<1>1. PICK c : c = FlattenSeq([n \in DOMAIN pages |-> PageChunks(pages[n], n, max, density)])  OBVIOUS
<1>2. CutTo(c, pages, Len(pages), max, density)  BY <1>1, AllPagesCut
<1>3. c \in Seq(Chunks) /\ \A i \in 1 .. Len(c) : CutChunk(c[i], pages[c[i].page], max, density)
  BY <1>2 DEF CutTo
<1>4. PICK k \in Nat : k = Len(c) /\ DOMAIN c = 1 .. k  BY <1>3, LenProperties
<1>5. items = [i \in 1 .. k |-> IF i = 1 THEN c[i] ELSE Overlapped(c[i - 1], c[i])]
  BY <1>1, <1>4 DEF ChunkSpecs
<1>6. \A i \in 1 .. k : c[i] \in Chunks  BY <1>3, <1>4, ElementOfSeq
<1>7. ASSUME NEW i \in 1 .. k PROVE StoredChunk(items[i], c[i], max, density)
  <2>1. c[i] \in Chunks /\ CutChunk(c[i], pages[c[i].page], max, density)  BY <1>3, <1>4, <1>6
  <2>2. CASE i = 1  BY <2>1, <2>2, <1>5, CutChunkStored
  <2>3. CASE i # 1
    <3>1. i - 1 \in 1 .. k  BY <2>3
    <3>2. c[i - 1] \in Chunks /\ items[i] = Overlapped(c[i - 1], c[i])  BY <3>1, <2>3, <1>5, <1>6
    <3> QED  BY <3>2, <2>1, CutChunkStored
  <2> QED  BY <2>2, <2>3
<1> QED  BY <1>2, <1>4, <1>5, <1>7

-----------------------------------------------------------------------------
(* What is stored for a file *)

\* The greatest of finitely many numbers is one of them.
LEMMA GreatestIs ==
    ASSUME NEW D \in SUBSET Nat, IsFiniteSet(D), D # {}
    PROVE  Max(D) \in D /\ \A x \in D : x <= Max(D)
<1>1. PICK n \in Nat : ExistsBijection(1 .. n, D)  BY FS_NatBijection
<1>2. PICK f \in [1 .. n -> D] : \A x \in D : \E i \in 1 .. n : f[i] = x
  BY <1>1 DEF ExistsBijection, Bijection, Surjection, Injection
<1> DEFINE S == {i \in 0 .. n : \E b \in Nat : \A j \in 1 .. i : f[j] <= b}
<1>3. 0 \in S
  <2>1. 0 \in Nat /\ 0 \in 0 .. n /\ \A j \in 1 .. 0 : f[j] <= 0  OBVIOUS
  <2> QED  BY <2>1
<1>4. \A i \in 0 .. n - 1 : i \in S => i + 1 \in S
  <2> SUFFICES ASSUME NEW i \in 0 .. n - 1, i \in S PROVE i + 1 \in S  OBVIOUS
  <2>1. PICK b \in Nat : \A j \in 1 .. i : f[j] <= b  OBVIOUS
  <2>2. i + 1 \in 1 .. n /\ i + 1 \in 0 .. n /\ f[i + 1] \in Nat
    <3>1. i + 1 \in 1 .. n /\ i + 1 \in 0 .. n  OBVIOUS
    <3>2. PICK k \in 1 .. n : k = i + 1  BY <3>1
    <3>3. f[k] \in D  OBVIOUS
    <3> QED  BY <3>1, <3>2, <3>3
  <2>3. PICK c \in Nat : c = b + f[i + 1]  BY <2>2
  <2>4. ASSUME NEW j \in 1 .. i + 1 PROVE f[j] <= c
    <3>1. CASE j = i + 1  BY <3>1, <2>2, <2>3
    <3>2. CASE j # i + 1
      <4>1. j \in 1 .. i /\ j \in 1 .. n  BY <3>2
      <4>2. f[j] \in Nat /\ f[j] <= b  BY <4>1, <2>1
      <4> QED  BY <4>2, <2>2, <2>3
    <3> QED  BY <3>1, <3>2
  <2> QED  BY <2>2, <2>4
<1> HIDE DEF S
<1>5. n \in S
  <2>1. \A i \in 0 .. n : i \in S  BY <1>3, <1>4, Induct
  <2> QED  BY <2>1
<1>6. PICK b \in Nat : \A j \in 1 .. n : f[j] <= b  BY <1>5 DEF S
<1>7. D \in SUBSET (0 .. b)  BY <1>2, <1>6
<1> QED  BY <1>7, EndsAre

\* What is seen of the chunks of a page, as NothingLost says it.
LEMMA SeenOfPages ==
    ASSUME NEW c \in Seq(Chunks), NEW n, NEW k \in Nat, k = Len(c)
    PROVE  SeenAll(OfPage(c, n)) = FlattenSeq([i \in 1 .. k |-> IF c[i].page = n THEN Seen(c[i].own) ELSE << >>])
<1>1. PICK o : o = OfPage(c, n)  OBVIOUS
<1>2. o \in Seq(Texts) /\ Len(o) = k /\ \A i \in 1 .. k : o[i] = IF c[i].page = n THEN c[i].own ELSE << >>
  BY <1>1, OfPageType
<1>3. DOMAIN o = 1 .. k  BY <1>2, LenProperties
<1>4. \A i \in 1 .. k : Seen(o[i]) = IF c[i].page = n THEN Seen(c[i].own) ELSE << >>  BY <1>2, SeenEmpty
<1>5. [i \in DOMAIN o |-> Seen(o[i])] = [i \in 1 .. k |-> IF c[i].page = n THEN Seen(c[i].own) ELSE << >>]
  BY <1>3, <1>4
<1> QED  BY <1>1, <1>5 DEF SeenAll

\* What is stored for the pages of a file holds all of it, cut well, packed and counted.
LEMMA ChunksAreRight ==
    ASSUME Chunked, PagesOk(task.pages), task.max \in Nat \ {0}, task.density \in Nat \ {0},
           Items = ChunkSpecs(task.pages, task.max, task.density)
    PROVE  NothingLost /\ CutWell /\ PackedAndCounted
<1>1. PICK pages, max, density, items : pages = task.pages /\ max = task.max /\ density = task.density /\ items = Items
  OBVIOUS
<1>2. PagesOk(pages) /\ max \in Nat \ {0} /\ density \in Nat \ {0} /\ items = ChunkSpecs(pages, max, density)
  BY <1>1
<1>3. PICK c : /\ CutTo(c, pages, Len(pages), max, density) /\ DOMAIN items = 1 .. Len(c) /\ Len(c) \in Nat
               /\ \A i \in 1 .. Len(c) : StoredChunk(items[i], c[i], max, density)
  BY <1>2, ChunkSpecsAre
<1>4. PICK k \in Nat : k = Len(c) /\ DOMAIN items = 1 .. k  BY <1>3
<1>5. PICK np \in Nat : np = Len(pages) /\ DOMAIN pages = 1 .. np  BY <1>2, LenProperties DEF PagesOk
<1>6. /\ c \in Seq(Chunks)
      /\ \A i \in 1 .. k : c[i].page \in 1 .. np /\ CutChunk(c[i], pages[c[i].page], max, density)
      /\ \A i \in 2 .. k : Follows(c, i, pages, max)
      /\ \A n \in 1 .. np : Whole(c, pages, n, max)
      /\ \A n \in 1 .. np : SeenAll(OfPage(c, n)) = Seen(pages[n].text)
  <2>1. \A n \in 1 .. np : n <= np  OBVIOUS
  <2> QED  BY <2>1, <1>3, <1>4, <1>5 DEF CutTo
<1>7. \A i \in 1 .. k : /\ items[i].page = c[i].page /\ items[i].own = c[i].own /\ Len(items[i].text) <= max + Overlap + 1
                        /\ items[i].tokens >= TokenCount(Len(items[i].text), density)
  BY <1>3, <1>4 DEF StoredChunk
<1>8. Own = [i \in 1 .. k |-> items[i].own] /\ \A i \in 1 .. k : Own[i] = c[i].own
  <2>1. Own = [i \in 1 .. k |-> items[i].own]  BY <1>1, <1>4 DEF Own
  <2> QED  BY <2>1, <1>7
<1>9. \A n \in 1 .. np : ParagraphsOf(pages, n) = Paragraphs(pages[n].text) /\ DOMAIN Paragraphs(pages[n].text) = 1 .. Len(ParagraphsOf(pages, n))
  <2> TAKE n \in 1 .. np
  <2>1. pages[n].text \in Texts
    <3>1. pages[n] \in Pages  BY <1>2, <1>5, ElementOfSeq DEF PagesOk
    <3> QED  BY <3>1 DEF Pages
  <2>2. PICK ps : ps = Paragraphs(pages[n].text)  OBVIOUS
  <2>3. ps \in Seq(Texts)  BY <2>1, <2>2, SeparatedIs DEF AllClean, Paragraphs
  <2>4. DOMAIN ps = 1 .. Len(ps)  BY <2>3, LenProperties
  <2> QED  BY <2>2, <2>4 DEF ParagraphsOf
<1>10. NothingLost
  <2>1. ASSUME NEW n \in 1 .. np
        PROVE  FlattenSeq([i \in 1 .. k |-> IF items[i].page = n THEN Seen(Own[i]) ELSE << >>]) = Seen(pages[n].text)
    <3>1. [i \in 1 .. k |-> IF items[i].page = n THEN Seen(Own[i]) ELSE << >>] = [i \in 1 .. k |-> IF c[i].page = n THEN Seen(c[i].own) ELSE << >>]
      BY <1>7, <1>8
    <3>2. SeenAll(OfPage(c, n)) = FlattenSeq([i \in 1 .. k |-> IF c[i].page = n THEN Seen(c[i].own) ELSE << >>])
      BY <1>4, <1>6, SeenOfPages
    <3> QED  BY <3>1, <3>2, <1>6
  <2> QED  BY <2>1, <1>1, <1>4, <1>5 DEF NothingLost
<1>11. CutWell
  <2>1. ASSUME NEW i \in 1 .. k
        PROVE  /\ Own[i] # << >> /\ Own[i] = Strip(Own[i]) /\ Len(Own[i]) <= max
               /\ Len(items[i].text) <= max + Overlap + 1
               /\ i > 1 => items[i - 1].page <= items[i].page
    <3>1. PICK o : o = Own[i] /\ o = c[i].own  BY <1>8
    <3>2. Clean(o) /\ Len(o) <= max  BY <3>1, <1>6 DEF CutChunk
    <3>3. o # << >>  BY <3>2 DEF Clean
    <3>4. Strip(o) = o  BY <3>2, StripClean
    <3>5. ASSUME i > 1 PROVE items[i - 1].page <= items[i].page
      <4>1. i \in 2 .. k /\ i - 1 \in 1 .. k  BY <3>5
      <4> QED  BY <4>1, <1>6, <1>7 DEF Follows
    <3> QED  BY <3>1, <3>2, <3>3, <3>4, <3>5, <1>7
  <2>2. ASSUME NEW n \in 1 .. np, NEW j \in DOMAIN Paragraphs(pages[n].text), Len(Paragraphs(pages[n].text)[j]) <= max
        PROVE  \E i \in 1 .. k : ToSet(Seen(Paragraphs(pages[n].text)[j])) \subseteq ToSet(Own[i])
    <3>1. PICK i \in 1 .. k : ToSet(Seen(ParagraphsOf(pages, n)[j])) \subseteq ToSet(c[i].own)
      BY <2>2, <1>4, <1>6, <1>9 DEF Whole
    <3> QED  BY <3>1, <1>8, <1>9
  <2> QED  BY <2>1, <2>2, <1>1, <1>4, <1>5 DEF CutWell
<1>12. PackedAndCounted
  <2>1. ASSUME NEW i \in 1 .. k, i > 1, items[i - 1].page = items[i].page,
               NEW j \in DOMAIN Paragraphs(pages[items[i].page].text),
               Paragraphs(pages[items[i].page].text)[j][1] = Own[i][1],
               Len(Paragraphs(pages[items[i].page].text)[j]) <= max
        PROVE  \/ Len(Own[i - 1]) + 2 + Len(Paragraphs(pages[items[i].page].text)[j]) > max
               \/ \E h \in 1 .. j - 1 : Len(Paragraphs(pages[items[i].page].text)[h]) > max
    <3>1. i \in 2 .. k /\ i - 1 \in 1 .. k  BY <2>1
    <3>2. PICK n \in 1 .. np : n = items[i].page /\ n = c[i].page /\ c[i - 1].page = n
      BY <3>1, <2>1, <1>6, <1>7
    <3>3. Follows(c, i, pages, max)  BY <3>1, <1>6
    <3>4. j \in 1 .. Len(ParagraphsOf(pages, n)) /\ Paragraphs(pages[n].text) = ParagraphsOf(pages, n)
      BY <2>1, <3>2, <1>9
    <3>5. Own[i] = c[i].own /\ Own[i - 1] = c[i - 1].own  BY <3>1, <1>8
    <3> QED  BY <2>1, <3>2, <3>3, <3>4, <3>5 DEF Follows
  <2> QED  BY <2>1, <1>1, <1>4, <1>7, ZenonT(60) DEF PackedAndCounted
<1> QED  BY <1>10, <1>11, <1>12

-----------------------------------------------------------------------------
(* The tokens of a selection *)

Hits == [chunk : Nat, tokens : Nat]

\* What TokensOf does with each chunk.
SumStep(items) == [w \in (1 .. Len(items)) \X Nat |-> w[2] + items[w[1]].tokens]
SumBy(items, f) == f = [i \in 0 .. Len(items) |-> IF i = 0 THEN 0 ELSE f[i - 1] + items[i].tokens]

\* What TokensOf is, as a run of its steps.
LEMMA SumIs ==
    ASSUME NEW items \in Seq(Hits)
    PROVE  \E f : RunsTo(SumStep(items), 0, Len(items), Nat, f) /\ TokensOf(items) = f[Len(items)]
<1>0. Len(items) \in Nat /\ 0 \in Nat  BY LenProperties
<1> DEFINE h == SumStep(items)
<1>1. ASSUME NEW i \in 1 .. Len(items), NEW x \in Nat PROVE (x + items[i].tokens) \in Nat
  <2>1. items[i] \in Hits  BY ElementOfSeq
  <2>2. items[i].tokens \in Nat  BY <2>1 DEF Hits
  <2> QED  BY <2>2
<1>2. h \in [(1 .. Len(items)) \X Nat -> Nat]
  <2>1. \A w \in (1 .. Len(items)) \X Nat : w[1] \in 1 .. Len(items) /\ w[2] \in Nat  OBVIOUS
  <2> QED  BY <1>1, <2>1 DEF SumStep
<1>3. \A i \in 1 .. Len(items), x \in Nat : h[<<i, x>>] = x + items[i].tokens  BY DEF SumStep
<1> HIDE DEF h
<1>4. PICK g : RunsTo(h, 0, Len(items), Nat, g)  BY <1>0, <1>2, Recursion
<1>5. SumBy(items, g)
  <2>1. /\ g = [i \in 0 .. Len(items) |-> g[i]] /\ g[0] = 0
        /\ \A i \in 1 .. Len(items) : g[i] = h[<<i, g[i - 1]>>] /\ g[i - 1] \in Nat
        /\ \A i \in 0 .. Len(items) : i = 0 \/ i \in 1 .. Len(items)
    BY <1>0, <1>4, RunGoes
  <2>2. \A i \in 0 .. Len(items) : g[i] = IF i = 0 THEN 0 ELSE g[i - 1] + items[i].tokens  BY <2>1, <1>3
  <2> QED  BY <2>1, <2>2 DEF SumBy
<1>6. PICK f : f = CHOOSE e : SumBy(items, e)  OBVIOUS
<1>7. f = [i \in 0 .. Len(items) |-> IF i = 0 THEN 0 ELSE f[i - 1] + items[i].tokens]
  BY <1>5, <1>6 DEF SumBy
<1>8. TokensOf(items) = f[Len(items)]  BY <1>6 DEF TokensOf, SumBy
<1>9. RunsTo(h, 0, Len(items), Nat, f)
  <2>1. f = [i \in 0 .. Len(items) |-> f[i]] /\ \A i \in 0 .. Len(items) : f[i] = IF i = 0 THEN 0 ELSE f[i - 1] + items[i].tokens
    BY ONLY <1>7
  <2>2. f[0] = 0 /\ \A i \in 1 .. Len(items) : f[i - 1] \in Nat => f[i] = h[<<i, f[i - 1]>>]
    BY <1>0, <1>3, <2>1
  <2> QED  BY <1>0, <1>2, <2>1, <2>2, RunOf
<1> QED  BY <1>8, <1>9 DEF h

\* One chunk more has its tokens more.
LEMMA TokensOfAppend ==
    /\ TokensOf(<< >>) = 0
    /\ \A s \in Seq(Hits), h \in Hits : TokensOf(s) \in Nat /\ TokensOf(Append(s, h)) = TokensOf(s) + h.tokens
<1>1. TokensOf(<< >>) = 0
  <2>1. << >> \in Seq(Hits) /\ Len(<< >>) = 0  OBVIOUS
  <2>2. PICK f : RunsTo(SumStep(<< >>), 0, Len(<< >>), Nat, f) /\ TokensOf(<< >>) = f[Len(<< >>)]
    BY <2>1, SumIs
  <2> QED  BY <2>1, <2>2 DEF RunsTo
<1>2. ASSUME NEW s \in Seq(Hits), NEW h \in Hits
      PROVE  TokensOf(s) \in Nat /\ TokensOf(Append(s, h)) = TokensOf(s) + h.tokens
  <2>1. PICK l : l = Append(s, h)  OBVIOUS
  <2>2. PICK n \in Nat : n = Len(s)  BY LenProperties
  <2>3. l \in Seq(Hits) /\ Len(l) = n + 1 /\ l[n + 1] = h /\ \A i \in 1 .. n : l[i] = s[i]
    BY <2>1, <2>2, AppendProperties
  <2>4. PICK f : RunsTo(SumStep(s), 0, n, Nat, f) /\ TokensOf(s) = f[n]  BY <2>2, SumIs
  <2>5. PICK g : RunsTo(SumStep(l), 0, n + 1, Nat, g) /\ TokensOf(l) = g[n + 1]  BY <2>3, SumIs
  <2>6. Alike(SumStep(s), SumStep(l), n, Nat)
    <3>1. \A i \in 1 .. n, x \in Nat : SumStep(s)[<<i, x>>] = x + s[i].tokens  BY <2>2 DEF SumStep
    <3>2. \A i \in 1 .. n, x \in Nat : SumStep(l)[<<i, x>>] = x + l[i].tokens  BY <2>3 DEF SumStep
    <3> QED  BY <3>1, <3>2, <2>3 DEF Alike
  <2>7. \A i \in 0 .. n : f[i] = g[i]
    <3>1. PICK a, X, m, k, e : a = 0 /\ X = Nat /\ m = n + 1 /\ k = SumStep(s) /\ e = SumStep(l)
      OBVIOUS
    <3>2. a \in X /\ m \in Nat /\ n <= m /\ RunsTo(k, a, n, X, f) /\ RunsTo(e, a, m, X, g) /\ Alike(k, e, n, X)
      BY <3>1, <2>4, <2>5, <2>6
    <3> QED  BY <3>2, StepsAgree
  <2>8. n \in 0 .. n /\ n + 1 \in 1 .. n + 1 /\ (n + 1) - 1 = n  OBVIOUS
  <2>9. f[n] \in Nat /\ f[n] = g[n] /\ g[n + 1] = SumStep(l)[<<n + 1, g[n]>>]
    BY <2>4, <2>5, <2>7, <2>8 DEF RunsTo
  <2>10. \A x \in Nat : SumStep(l)[<<n + 1, x>>] = x + l[n + 1].tokens  BY <2>3, <2>8 DEF SumStep
  <2> QED  BY <2>1, <2>3, <2>4, <2>5, <2>9, <2>10
<1> QED  BY <1>1, <1>2

\* More chunks have no fewer tokens.
LEMMA TokensGrow ==
    ASSUME NEW s \in Seq(Hits)
    PROVE  \A t \in Seq(Hits) : TokensOf(s \o t) \in Nat /\ TokensOf(s) <= TokensOf(s \o t)
<1>0. \A t \in Seq(Hits) : TokensOf(t) \in Nat
  <2>1. [chunk |-> 0, tokens |-> 0] \in Hits  BY DEF Hits
  <2> QED  BY <2>1, TokensOfAppend
<1> DEFINE S == {t \in Seq(Hits) : TokensOf(s) <= TokensOf(s \o t)}
<1>1. << >> \in S
  <2>1. << >> \in Seq(Hits) /\ s \o << >> = s  BY ConcatEmptySeq
  <2>2. PICK a \in Nat : a = TokensOf(s)  BY <1>0
  <2> QED  BY <2>1, <2>2
<1>2. ASSUME NEW t \in Seq(Hits), NEW x \in Hits, t \in S PROVE Append(t, x) \in S
  <2>1. s \o t \in Seq(Hits) /\ Append(t, x) \in Seq(Hits) /\ s \o Append(t, x) = Append(s \o t, x)
    BY AppendAfter
  <2>2. PICK a \in Nat, b \in Nat : a = TokensOf(s) /\ b = TokensOf(s \o t) /\ a <= b
    BY <2>1, <1>0, <1>2
  <2>3. TokensOf(Append(s \o t, x)) = b + x.tokens /\ x.tokens \in Nat
    BY <2>1, <2>2, TokensOfAppend DEF Hits
  <2>4. PICK l \in Seq(Hits) : l = Append(t, x)  BY <2>1
  <2>5. TokensOf(s \o l) = b + x.tokens  BY <2>1, <2>3, <2>4
  <2>6. TokensOf(s) <= TokensOf(s \o l)  BY <2>2, <2>3, <2>5
  <2> QED  BY <2>4, <2>6
<1> HIDE DEF S
<1>3. \A t \in Seq(Hits) : t \in S  BY <1>1, <1>2, InductOnSequences
<1>4. \A t \in Seq(Hits) : s \o t \in Seq(Hits)  BY ConcatProperties
<1> QED  BY <1>0, <1>3, <1>4 DEF S

Accounts == [items : Seq(Hits), total : Nat, over : BOOLEAN]

\* Within the budget, and all that there is, or as much as the budget takes.
BestOf(acc, hits, maxChunks, maxTokens) ==
    /\ acc.total = TokensOf(acc.items) /\ Len(acc.items) <= maxChunks /\ acc.total <= maxTokens
    /\ \E rest \in Seq(Hits) :
         /\ hits = acc.items \o rest /\ (acc.over <=> rest # << >>)
         /\ rest # << >> => Len(acc.items) >= maxChunks \/ acc.total + rest[1].tokens > maxTokens

\* One hit more.
LEMMA SelectHitIs ==
    ASSUME NEW acc \in Accounts, NEW h \in Hits, NEW hits \in Seq(Hits), NEW maxChunks \in Nat, NEW maxTokens \in Nat
    PROVE  /\ SelectHit(acc, h, maxChunks, maxTokens) \in Accounts
           /\ BestOf(acc, hits, maxChunks, maxTokens) =>
                BestOf(SelectHit(acc, h, maxChunks, maxTokens), IF h.tokens > 0 THEN Append(hits, h) ELSE hits, maxChunks, maxTokens)
<1>1. PICK items \in Seq(Hits), total \in Nat, over \in BOOLEAN : acc = [items |-> items, total |-> total, over |-> over]
                                        /\ items = acc.items /\ total = acc.total /\ over = acc.over
  BY DEF Accounts
<1>2. PICK k \in Nat, n \in Nat : k = h.tokens /\ n = Len(items)  BY LenProperties DEF Hits
<1>3. PICK new : new = SelectHit(acc, h, maxChunks, maxTokens)  OBVIOUS
<1>4. CASE k = 0
  <2>1. new = acc /\ ~ (h.tokens > 0)  BY <1>1, <1>2, <1>3, <1>4, SMTT(30) DEF SelectHit
  <2> QED  BY <2>1, <1>3
<1>5. CASE k # 0 /\ over
  <2>1. new = acc /\ h.tokens > 0  BY <1>1, <1>2, <1>3, <1>5 DEF SelectHit
  <2>2. ASSUME BestOf(acc, hits, maxChunks, maxTokens) PROVE BestOf(acc, Append(hits, h), maxChunks, maxTokens)
    <3>1. PICK rest \in Seq(Hits) : /\ hits = items \o rest /\ rest # << >>
                                    /\ n >= maxChunks \/ total + rest[1].tokens > maxTokens
      BY <2>2, <1>1, <1>2, <1>5 DEF BestOf
    <3>2. PICK more \in Seq(Hits) : more = Append(rest, h) /\ Append(hits, h) = items \o more
      <4>1. Append(rest, h) \in Seq(Hits) /\ items \o Append(rest, h) = Append(items \o rest, h)
        BY AppendAfter
      <4> QED  BY <4>1, <3>1
    <3>3. more # << >> /\ more[1] = rest[1]
      <4>1. 1 \in 1 .. Len(rest)  BY <3>1, EmptySeq
      <4> QED  BY <4>1, <3>2, AppendProperties
    <3> QED  BY <2>2, <3>1, <3>2, <3>3, <1>1, <1>2, <1>5 DEF BestOf
  <2> QED  BY <2>1, <2>2, <1>3
<1>6. CASE k # 0 /\ ~ over /\ (n >= maxChunks \/ total + k > maxTokens)
  <2>1. new = [items |-> items, total |-> total, over |-> TRUE] /\ h.tokens > 0
    <3>1. ~ (acc.over \/ h.tokens = 0)  BY <1>1, <1>2, <1>6
    <3>2. Len(acc.items) >= maxChunks \/ acc.total + h.tokens > maxTokens  BY <1>1, <1>2, <1>6
    <3>3. new = [acc EXCEPT !.over = TRUE]  BY <3>1, <3>2, <1>3 DEF SelectHit
    <3>4. k > 0  BY <1>6
    <3> QED  BY <3>3, <3>4, <1>1, <1>2
  <2>2. ASSUME BestOf(acc, hits, maxChunks, maxTokens) PROVE BestOf(new, Append(hits, h), maxChunks, maxTokens)
    <3>1. hits = items
      <4>1. PICK rest \in Seq(Hits) : hits = items \o rest /\ rest = << >>
        BY <2>2, <1>1, <1>6 DEF BestOf
      <4> QED  BY <4>1, ConcatEmptySeq
    <3>2. PICK rest \in Seq(Hits) : rest = <<h>> /\ rest # << >> /\ rest[1] = h /\ Append(hits, h) = items \o rest
      <4>1. <<h>> \in Seq(Hits) /\ <<h>> # << >> /\ <<h>>[1] = h  OBVIOUS
      <4>2. Append(hits, h) = items \o <<h>>  BY <3>1, AppendIsConcat
      <4> QED  BY <4>1, <4>2
    <3>3. n >= maxChunks \/ total + rest[1].tokens > maxTokens  BY <3>2, <1>2, <1>6
    <3> QED  BY <2>1, <2>2, <3>2, <3>3, <1>1, <1>2 DEF BestOf
  <2>3. new \in Accounts  BY <2>1 DEF Accounts
  <2> QED  BY <2>1, <2>2, <2>3, <1>3
<1>7. CASE k # 0 /\ ~ over /\ ~ (n >= maxChunks \/ total + k > maxTokens)
  <2>1. new = [items |-> Append(items, h), total |-> total + k, over |-> over] /\ h.tokens > 0
    <3>1. ~ (acc.over \/ h.tokens = 0)  BY <1>1, <1>2, <1>7
    <3>2. ~ (Len(acc.items) >= maxChunks \/ acc.total + h.tokens > maxTokens)  BY <1>1, <1>2, <1>7
    <3>3. new = [acc EXCEPT !.items = Append(acc.items, h), !.total = acc.total + h.tokens]
      BY <3>1, <3>2, <1>3 DEF SelectHit
    <3>4. k > 0  BY <1>7
    <3> QED  BY <3>3, <3>4, <1>1, <1>2
  <2>2. PICK more \in Seq(Hits) : more = Append(items, h) /\ Len(more) = n + 1
    BY <1>2, AppendProperties
  <2>3. ASSUME BestOf(acc, hits, maxChunks, maxTokens) PROVE BestOf(new, Append(hits, h), maxChunks, maxTokens)
    <3>1. hits = items
      <4>1. PICK rest \in Seq(Hits) : hits = items \o rest /\ rest = << >>
        BY <2>3, <1>1, <1>7 DEF BestOf
      <4> QED  BY <4>1, ConcatEmptySeq
    <3>2. TokensOf(more) = total + k
      <4>1. total = TokensOf(items)  BY <2>3, <1>1 DEF BestOf
      <4> QED  BY <4>1, <2>2, <1>2, TokensOfAppend
    <3>3. n + 1 <= maxChunks /\ total + k <= maxTokens  BY <1>7
    <3>4. PICK rest \in Seq(Hits) : rest = << >> /\ more = more \o rest
      <4>1. << >> \in Seq(Hits) /\ more = more \o << >>  BY ConcatEmptySeq
      <4> QED  BY <4>1
    <3>5. /\ new.total = TokensOf(new.items) /\ Len(new.items) <= maxChunks /\ new.total <= maxTokens
          /\ Append(hits, h) = new.items \o rest /\ ~ new.over
      BY <2>1, <2>2, <3>1, <3>2, <3>3, <3>4, <1>7
    <3> QED  BY <3>4, <3>5 DEF BestOf
  <2>4. new \in Accounts  BY <2>1, <2>2 DEF Accounts
  <2> QED  BY <2>1, <2>3, <2>4, <1>3
<1> QED  BY <1>4, <1>5, <1>6, <1>7

-----------------------------------------------------------------------------
(* The selection *)

\* What Selected does with each hit.
SelectStep(hits, maxChunks, maxTokens) == [w \in (1 .. Len(hits)) \X Accounts |-> SelectHit(w[2], hits[w[1]], maxChunks, maxTokens)]
SelectBy(hits, maxChunks, maxTokens, f) == f = [i \in 0 .. Len(hits) |-> IF i = 0 THEN Unselected ELSE SelectHit(f[i - 1], hits[i], maxChunks, maxTokens)]

\* What Selected is, as a run of its steps.
LEMMA SelectRuns ==
    ASSUME NEW hits \in Seq(Hits), NEW maxChunks \in Nat, NEW maxTokens \in Nat
    PROVE  \E f : RunsTo(SelectStep(hits, maxChunks, maxTokens), Unselected, Len(hits), Accounts, f) /\ Selected(hits, maxChunks, maxTokens) = f[Len(hits)]
<1>0. Len(hits) \in Nat /\ Unselected \in Accounts  BY LenProperties DEF Accounts, Unselected
<1> DEFINE h == SelectStep(hits, maxChunks, maxTokens)
<1>1. ASSUME NEW i \in 1 .. Len(hits), NEW x \in Accounts PROVE SelectHit(x, hits[i], maxChunks, maxTokens) \in Accounts
  <2>1. hits[i] \in Hits /\ << >> \in Seq(Hits)  BY ElementOfSeq
  <2> QED  BY <2>1, SelectHitIs
<1>2. h \in [(1 .. Len(hits)) \X Accounts -> Accounts]
  <2>1. \A w \in (1 .. Len(hits)) \X Accounts : w[1] \in 1 .. Len(hits) /\ w[2] \in Accounts  OBVIOUS
  <2> QED  BY <1>1, <2>1 DEF SelectStep
<1>3. \A i \in 1 .. Len(hits), x \in Accounts : h[<<i, x>>] = SelectHit(x, hits[i], maxChunks, maxTokens)
  BY DEF SelectStep
<1> HIDE DEF h
<1>4. PICK g : RunsTo(h, Unselected, Len(hits), Accounts, g)  BY <1>0, <1>2, Recursion
<1>5. SelectBy(hits, maxChunks, maxTokens, g)
  <2>1. /\ g = [i \in 0 .. Len(hits) |-> g[i]] /\ g[0] = Unselected
        /\ \A i \in 1 .. Len(hits) : g[i] = h[<<i, g[i - 1]>>] /\ g[i - 1] \in Accounts
        /\ \A i \in 0 .. Len(hits) : i = 0 \/ i \in 1 .. Len(hits)
    BY <1>0, <1>4, RunGoes
  <2>2. \A i \in 0 .. Len(hits) : g[i] = IF i = 0 THEN Unselected ELSE SelectHit(g[i - 1], hits[i], maxChunks, maxTokens)
    BY <2>1, <1>3
  <2> QED  BY <2>1, <2>2 DEF SelectBy
<1>6. PICK f : f = CHOOSE e : SelectBy(hits, maxChunks, maxTokens, e)  OBVIOUS
<1>7. f = [i \in 0 .. Len(hits) |-> IF i = 0 THEN Unselected ELSE SelectHit(f[i - 1], hits[i], maxChunks, maxTokens)]
  BY <1>5, <1>6 DEF SelectBy
<1>8. Selected(hits, maxChunks, maxTokens) = f[Len(hits)]  BY <1>6 DEF Selected, SelectBy
<1>9. RunsTo(h, Unselected, Len(hits), Accounts, f)
  <2>1. f = [i \in 0 .. Len(hits) |-> f[i]] /\ \A i \in 0 .. Len(hits) : f[i] = IF i = 0 THEN Unselected ELSE SelectHit(f[i - 1], hits[i], maxChunks, maxTokens)
    BY ONLY <1>7
  <2>2. f[0] = Unselected /\ \A i \in 1 .. Len(hits) : f[i - 1] \in Accounts => f[i] = h[<<i, f[i - 1]>>]
    BY <1>0, <1>3, <2>1
  <2> QED  BY <1>0, <1>2, <2>1, <2>2, RunOf
<1> QED  BY <1>8, <1>9 DEF h

\* Selected takes the best of the hits that have tokens.
LEMMA SelectedBest ==
    ASSUME NEW hits \in Seq(Hits), NEW maxChunks \in Nat, NEW maxTokens \in Nat
    PROVE  /\ Selected(hits, maxChunks, maxTokens) \in Accounts
           /\ BestOf(Selected(hits, maxChunks, maxTokens), Kept(hits, {h \in ToSet(hits) : h.tokens > 0}), maxChunks, maxTokens)
<1>0. PICK n \in Nat : n = Len(hits) /\ DOMAIN hits = 1 .. n  BY LenProperties
<1>1. PICK f : RunsTo(SelectStep(hits, maxChunks, maxTokens), Unselected, n, Accounts, f) /\ Selected(hits, maxChunks, maxTokens) = f[n]
  BY <1>0, SelectRuns
<1>2. /\ f \in [0 .. n -> Accounts] /\ f[0] = Unselected
      /\ \A i \in 1 .. n : f[i] = SelectHit(f[i - 1], hits[i], maxChunks, maxTokens)
  <2>1. f \in [0 .. n -> Accounts] /\ f[0] = Unselected
        /\ \A i \in 1 .. n : f[i] = SelectStep(hits, maxChunks, maxTokens)[<<i, f[i - 1]>>]
    BY <1>1 DEF RunsTo
  <2>2. \A i \in 1 .. n : i - 1 \in 0 .. n  OBVIOUS
  <2>3. \A i \in 1 .. n, x \in Accounts : SelectStep(hits, maxChunks, maxTokens)[<<i, x>>] = SelectHit(x, hits[i], maxChunks, maxTokens)
    BY <1>0 DEF SelectStep
  <2> QED  BY <2>1, <2>2, <2>3
<1>3. PICK pos : pos = {h \in ToSet(hits) : h.tokens > 0}  OBVIOUS
<1>4. PICK p : PrefixesOf(hits, Hits, p)  BY PrefixesAre
<1>5. /\ p \in [0 .. n -> Seq(Hits)] /\ p[0] = << >> /\ p[n] = hits
      /\ \A i \in 0 .. n - 1 : p[i + 1] = Append(p[i], hits[i + 1]) /\ hits[i + 1] \in Hits
  BY <1>0, <1>4 DEF PrefixesOf
<1> DEFINE S == {i \in 0 .. n : BestOf(f[i], Kept(p[i], pos), maxChunks, maxTokens)}
<1>6. 0 \in S
  <2>1. Kept(p[0], pos) = << >>  BY <1>5, KeptAppend
  <2>2. f[0] = [items |-> << >>, total |-> 0, over |-> FALSE]  BY <1>2 DEF Unselected
  <2>3. PICK r \in Seq(Hits) : r = << >> /\ r = r \o r
    <3>1. << >> \in Seq(Hits) /\ << >> \o << >> = << >>  BY ConcatEmptySeq
    <3> QED  BY <3>1
  <2>4. TokensOf(<< >>) = 0  BY TokensOfAppend
  <2>5. f[0].items = r /\ f[0].total = 0 /\ ~ f[0].over /\ Len(r) = 0  BY <2>2, <2>3
  <2>6. BestOf(f[0], r, maxChunks, maxTokens)
    <3>1. PICK x : x = f[0] /\ x.items = r /\ x.total = 0 /\ ~ x.over  BY <2>5
    <3>2. x.total = TokensOf(x.items) /\ Len(x.items) <= maxChunks /\ x.total <= maxTokens
      BY <3>1, <2>3, <2>4, <2>5
    <3>3. r \in Seq(Hits) /\ r = x.items \o r /\ ~ (r # << >>) /\ ~ x.over  BY <3>1, <2>3
    <3> QED  BY <3>1, <3>2, <3>3 DEF BestOf
  <2> QED  BY <2>1, <2>3, <2>6
<1>7. \A i \in 0 .. n - 1 : i \in S => i + 1 \in S
  <2> SUFFICES ASSUME NEW i \in 0 .. n - 1, i \in S PROVE i + 1 \in S  OBVIOUS
  <2>1. i + 1 \in 1 .. n /\ (i + 1) - 1 = i /\ i + 1 \in 0 .. n /\ i \in 0 .. n  OBVIOUS
  <2>2. PICK q \in Seq(Hits), h \in Hits : q = p[i] /\ h = hits[i + 1] /\ p[i + 1] = Append(q, h)
    BY <2>1, <1>5
  <2>3. Kept(q, pos) \in Seq(Hits) /\ Kept(Append(q, h), pos) = IF h \in pos THEN Append(Kept(q, pos), h) ELSE Kept(q, pos)
    BY KeptAppend
  <2>4. h \in pos <=> h.tokens > 0
    <3>1. h \in ToSet(hits)  BY <2>1, <2>2, <1>0 DEF ToSet
    <3> QED  BY <3>1, <1>3
  <2>5. PICK acc \in Accounts : acc = f[i] /\ BestOf(acc, Kept(q, pos), maxChunks, maxTokens)
    BY <2>1, <2>2, <1>2
  <2>6. f[i + 1] = SelectHit(acc, h, maxChunks, maxTokens)  BY <2>1, <2>2, <2>5, <1>2
  <2>7. BestOf(f[i + 1], IF h.tokens > 0 THEN Append(Kept(q, pos), h) ELSE Kept(q, pos), maxChunks, maxTokens)
    BY <2>3, <2>5, <2>6, SelectHitIs
  <2>8. BestOf(f[i + 1], Kept(p[i + 1], pos), maxChunks, maxTokens)  BY <2>2, <2>3, <2>4, <2>7
  <2> QED  BY <2>1, <2>8
<1> HIDE DEF S
<1>8. n \in S
  <2>1. \A i \in 0 .. n : i \in S  BY <1>6, <1>7, Induct
  <2> QED  BY <2>1
<1>9. BestOf(f[n], Kept(hits, pos), maxChunks, maxTokens)  BY <1>5, <1>8 DEF S
<1> QED  BY <1>1, <1>2, <1>3, <1>9

\* Two sequences of which the second is a part of more begin alike.
LEMMA PartOf ==
    ASSUME NEW T, NEW s \in Seq(T), NEW t \in Seq(T)
    PROVE  SubSeq(s \o t, 1, Len(s)) = s
<1>1. PICK n \in Nat : n = Len(s)  BY LenProperties
<1>2. CASE n = 0
  <2>1. s = << >>  BY <1>1, <1>2, EmptySeq
  <2> QED  BY <1>1, <1>2, <2>1, SubSeqEmpty
<1>3. CASE n # 0
  <2>1. 1 \in 1 .. Len(s) /\ Len(s) \in 1 .. Len(s)  BY <1>1, <1>3
  <2>2. SubSeq(s \o t, 1, Len(s)) = SubSeq(s, 1, Len(s))  BY <2>1, SubSeqOfConcat1
  <2> QED  BY <2>2, SubSeqFull
<1> QED  BY <1>2, <1>3

\* A smaller budget takes the beginning of what a greater one takes.
LEMMA LessTakesBeginning ==
    ASSUME NEW hits \in Seq(Hits), NEW m \in Nat, NEW small \in Nat, NEW great \in Nat, small <= great,
           NEW a \in Accounts, BestOf(a, hits, m, small), NEW b \in Accounts, BestOf(b, hits, m, great)
    PROVE  IsPrefix(a.items, b.items)
<1>1. PICK s \in Seq(Hits), t \in Seq(Hits) : s = a.items /\ t = b.items  BY DEF Accounts
<1>2. PICK n \in Nat, k \in Nat : n = Len(s) /\ k = Len(t)  BY LenProperties
<1>3. PICK more \in Seq(Hits) : hits = s \o more  BY <1>1 DEF BestOf
<1>4. PICK rest \in Seq(Hits) : hits = t \o rest /\ (rest # << >> => k >= m \/ b.total + rest[1].tokens > great)
  BY <1>1, <1>2 DEF BestOf
<1>5. TokensOf(s) <= small /\ n <= m /\ b.total = TokensOf(t) /\ a.total = TokensOf(s)
  BY <1>1, <1>2 DEF BestOf
<1>6. PICK o \in Nat, e \in Nat : o = Len(more) /\ e = Len(rest)  BY LenProperties
<1>7. /\ Len(hits) = n + o /\ \A i \in 1 .. n + o : hits[i] = IF i <= n THEN s[i] ELSE more[i - n]
      /\ Len(hits) = k + e /\ \A i \in 1 .. k + e : hits[i] = IF i <= k THEN t[i] ELSE rest[i - k]
  <2>1. /\ Len(s \o more) = n + o /\ \A i \in 1 .. n + o : (s \o more)[i] = IF i <= n THEN s[i] ELSE more[i - n]
    BY <1>2, <1>6, ConcatProperties
  <2>2. /\ Len(t \o rest) = k + e /\ \A i \in 1 .. k + e : (t \o rest)[i] = IF i <= k THEN t[i] ELSE rest[i - k]
    BY <1>2, <1>6, ConcatProperties
  <2> QED  BY <2>1, <2>2, <1>3, <1>4
<1>8. n <= k
  <2> SUFFICES ASSUME k + 1 <= n PROVE FALSE  OBVIOUS
  <2>1. e >= 1 /\ rest # << >>  BY <1>6, <1>7
  <2>2. PICK h \in Hits : h = rest[1]  BY <2>1, <1>6, ElementOfSeq
  <2>3. b.total + h.tokens > great  BY <2>2, <2>1, <1>4, <1>5
  <2>4. PICK u : u \in Seq(Hits) /\ u = Append(t, h) /\ Len(u) = k + 1 /\ u[k + 1] = h /\ \A i \in 1 .. k : u[i] = t[i]
    <3>1. PICK u : u = Append(t, h)  OBVIOUS
    <3>2. u \in Seq(Hits) /\ Len(u) = k + 1 /\ u[k + 1] = h /\ \A i \in 1 .. k : u[i] = t[i]
      BY <3>1, <1>2, AppendProperties
    <3> QED  BY <3>1, <3>2
  <2>5. PICK v \in Seq(Hits) : v = SubSeq(s, k + 2, n)
    <3>1. \A i \in k + 2 .. n : s[i] \in Hits
      <4>1. \A i \in k + 2 .. n : i \in 1 .. Len(s)  BY <1>2
      <4> QED  BY <4>1, ElementOfSeq
    <3>2. k + 2 \in Int /\ n \in Int  OBVIOUS
    <3> QED  BY <3>1, <3>2, SubSeqProperties
  <2>6. s = u \o v
    <3>1. SubSeq(s, 1, k + 1) = u
      <4>1. PICK w : w = SubSeq(s, 1, k + 1)  OBVIOUS
      <4>2. \A i \in 1 .. k + 1 : s[i] \in Hits
        <5>1. \A i \in 1 .. k + 1 : i \in 1 .. Len(s)  BY <1>2
        <5> QED  BY <5>1, ElementOfSeq
      <4>3. 1 \in Int /\ k + 1 \in Int  OBVIOUS
      <4>4. w \in Seq(Hits) /\ Len(w) = (IF 1 <= k + 1 THEN k + 1 - 1 + 1 ELSE 0) /\ \A i \in 1 .. k + 1 - 1 + 1 : w[i] = s[1 + i - 1]
        BY <4>1, <4>2, <4>3, SubSeqProperties, SMTT(30)
      <4>5. Len(w) = k + 1 /\ \A i \in 1 .. k + 1 : w[i] = s[i]
        <5>1. Len(w) = k + 1  BY <4>4
        <5>2. \A i \in 1 .. k + 1 : i \in 1 .. k + 1 - 1 + 1 /\ 1 + i - 1 = i  OBVIOUS
        <5>3. \A i \in 1 .. k + 1 - 1 + 1 : w[i] = s[1 + i - 1]  BY <4>4
        <5> QED  BY <5>1, <5>2, <5>3
      <4>6. \A i \in 1 .. k + 1 : s[i] = u[i]
        <5> TAKE i \in 1 .. k + 1
        <5>1. i \in 1 .. n + o /\ i <= n /\ i \in 1 .. k + e  BY <2>1
        <5>2. hits[i] = s[i]  BY <5>1, <1>7
        <5>3. CASE i = k + 1
          <6>1. ~ (i <= k) /\ i - k = 1  BY <5>3
          <6> QED  BY <5>1, <5>2, <5>3, <6>1, <2>2, <2>4, <1>7
        <5>4. CASE i # k + 1
          <6>1. i <= k /\ i \in 1 .. k  BY <5>4
          <6> QED  BY <5>1, <5>2, <6>1, <2>4, <1>7
        <5> QED  BY <5>3, <5>4
      <4>7. w = u  BY <4>4, <4>5, <4>6, <2>4, SeqEqual, SMTT(30)
      <4> QED  BY <4>1, <4>7
    <3>2. 1 \in 1 .. Len(s) + 1 /\ k + 1 \in 1 - 1 .. Len(s) /\ Len(s) \in k + 1 .. Len(s) /\ (k + 1) + 1 = k + 2
      BY <1>2
    <3>3. SubSeq(s, 1, k + 1) \o SubSeq(s, (k + 1) + 1, Len(s)) = SubSeq(s, 1, Len(s))
      BY <3>2, ConcatAdjacentSubSeq
    <3>4. SubSeq(s, 1, Len(s)) = s  BY SubSeqFull
    <3> QED  BY <3>1, <3>2, <3>3, <3>4, <2>5, <1>2
  <2>7. TokensOf(u) <= TokensOf(s)  BY <2>4, <2>5, <2>6, TokensGrow
  <2>8. TokensOf(u) = TokensOf(t) + h.tokens /\ TokensOf(t) \in Nat /\ h.tokens \in Nat
    BY <2>2, <2>4, TokensOfAppend DEF Hits
  <2>9. PICK x, y, z : x \in Nat /\ y \in Nat /\ x = TokensOf(t) /\ y = h.tokens /\ z = TokensOf(s)
    BY <2>8
  <2>10. x + y > great /\ x + y <= z /\ z <= small  BY <2>3, <2>7, <2>8, <2>9, <1>5
  <2>11. z \in Nat  BY <2>2, <2>9, TokensOfAppend
  <2>12. x \in Nat /\ y \in Nat  BY <2>9
  <2> QED  BY <2>10, <2>11, <2>12
<1>9. SubSeq(s, 1, n) = SubSeq(t, 1, n)
  <2>1. SubSeq(s, 1, n) = s  BY <1>2, SubSeqFull
  <2>2. \A i \in 1 .. n : t[i] = s[i] /\ t[i] \in Hits
    <3> TAKE i \in 1 .. n
    <3>1. i \in 1 .. n + o /\ i \in 1 .. k + e /\ i <= k /\ i \in 1 .. k  BY <1>8
    <3>2. t[i] \in Hits  BY <3>1, <1>2, ElementOfSeq
    <3> QED  BY <3>1, <3>2, <1>7
  <2>3. PICK w : w = SubSeq(t, 1, n)  OBVIOUS
  <2>4. 1 \in Int /\ n \in Int  OBVIOUS
  <2>5. w \in Seq(Hits) /\ Len(w) = (IF 1 <= n THEN n - 1 + 1 ELSE 0) /\ \A i \in 1 .. n - 1 + 1 : w[i] = t[1 + i - 1]
    <3>1. PICK T : T = Hits  OBVIOUS
    <3>2. \A i \in 1 .. n : t[i] \in T  BY <3>1, <2>2
    <3>3. w \in Seq(T) /\ Len(w) = (IF 1 <= n THEN n - 1 + 1 ELSE 0) /\ \A i \in 1 .. n - 1 + 1 : w[i] = t[1 + i - 1]
      BY <3>2, <2>3, <2>4, SubSeqProperties
    <3> QED  BY <3>1, <3>3
  <2>6. Len(w) = n /\ \A i \in 1 .. n : w[i] = s[i]
    <3>1. Len(w) = n
      <4>1. Len(w) = IF 1 <= n THEN n - 1 + 1 ELSE 0  BY <2>5
      <4>2. (IF 1 <= n THEN n - 1 + 1 ELSE 0) = n  OBVIOUS
      <4> QED  BY <4>1, <4>2
    <3>2. \A i \in 1 .. n : i \in 1 .. n - 1 + 1 /\ 1 + i - 1 = i  OBVIOUS
    <3>3. \A i \in 1 .. n - 1 + 1 : w[i] = t[1 + i - 1]  BY <2>5
    <3>4. \A i \in 1 .. n : w[i] = t[i]  BY <3>2, <3>3
    <3> QED  BY <3>1, <3>4, <2>2
  <2>7. w = s  BY <2>5, <2>6, <1>2, SeqEqual
  <2> QED  BY <2>1, <2>3, <2>7
<1> QED  BY <1>1, <1>2, <1>8, <1>9 DEF IsPrefix

-----------------------------------------------------------------------------
(* Files, searches and budgets *)

\* A pattern numbered is a text in which no character is there twice.
LEMMA NumberedIs ==
    ASSUME NEW k \in Nat, NEW p \in [1 .. k -> {1, Space, Newline}], NEW first \in Nat
    PROVE  Numbered(p, first) \in Texts /\ NoTwice(Numbered(p, first))
<1>1. PICK t : t = Numbered(p, first)  OBVIOUS
<1>2. t = [i \in 1 .. k |-> IF p[i] > 0 THEN first + i ELSE p[i]]  BY <1>1 DEF Numbered
<1>3. \A i \in 1 .. k : p[i] \in Int /\ ~ (p[i] > 0 /\ p[i] # 1)  BY DEF Space, Newline
<1>4. \A i \in 1 .. k : t[i] \in Int /\ (t[i] > 0 => t[i] = first + i)
  <2> TAKE i \in 1 .. k
  <2>1. t[i] = IF p[i] > 0 THEN first + i ELSE p[i]  BY <1>2
  <2> QED  BY <2>1, <1>3
<1>5. t \in [1 .. k -> Int]  BY <1>2, <1>4
<1>6. t \in Seq(Int)  BY <1>5
<1>7. DOMAIN t = 1 .. k  BY <1>2
<1>8. NoTwice(t)
  <2>1. ASSUME NEW i \in Visible(t), NEW j \in Visible(t), t[i] = t[j] PROVE i = j
    <3>1. i \in 1 .. k /\ j \in 1 .. k /\ t[i] > 0 /\ t[j] > 0  BY <1>7 DEF Visible
    <3>2. t[i] = first + i /\ t[j] = first + j  BY <3>1, <1>4
    <3>3. first + i = first + j  BY <3>2, <2>1
    <3> QED  BY <3>1, <3>3
  <2> QED  BY <2>1 DEF NoTwice
<1> QED  BY <1>1, <1>6, <1>8 DEF Texts

\* A page of a pattern.
LEMMA PageOfPattern ==
    ASSUME NEW n \in Nat, NEW p \in Patterns(n), NEW first \in Nat, NEW c \in BOOLEAN
    PROVE  LET page == [text |-> Numbered(p, first), cjk |-> c] IN page \in Pages /\ NoTwice(page.text)
<1>1. PICK k \in 0 .. n : p \in [1 .. k -> {1, Space, Newline}]  BY DEF Patterns
<1>2. Numbered(p, first) \in Texts /\ NoTwice(Numbered(p, first))  BY <1>1, NumberedIs
<1> QED  BY <1>2 DEF Pages

\* A pattern is a sequence.
LEMMA PatternLength ==
    ASSUME NEW n \in Nat, NEW p \in Patterns(n)
    PROVE  p \in Seq({1, Space, Newline}) /\ Len(p) \in Nat
<1>1. PICK k \in 0 .. n : p \in [1 .. k -> {1, Space, Newline}]  BY DEF Patterns
<1>2. PICK T : T = {1, Space, Newline}  OBVIOUS
<1>3. p \in Seq(T)  BY <1>1, <1>2
<1> QED  BY <1>2, <1>3, LenProperties

\* The files that are stored are pages of texts.
LEMMA FilesArePages ==
    \A pages \in OnePage \cup LongSecond \cup TwoPages : PagesOk(pages)
<1>0. PageLength \in Nat /\ PairLength \in Nat  BY TextAssumption
<1>1. ASSUME NEW page \in Pages, NoTwice(page.text) PROVE PagesOk(<<page>>)
  <2>1. <<page>> \in Seq(Pages) /\ Len(<<page>>) = 1 /\ <<page>>[1] = page  OBVIOUS
  <2>2. \A n \in 1 .. 1 : n = 1  OBVIOUS
  <2> QED  BY <2>1, <2>2, <1>1 DEF PagesOk
<1>2. ASSUME NEW page \in Pages, NoTwice(page.text), NEW second \in Pages, NoTwice(second.text) PROVE PagesOk(<<page, second>>)
  <2>1. <<page, second>> \in Seq(Pages) /\ Len(<<page, second>>) = 2 /\ <<page, second>>[1] = page /\ <<page, second>>[2] = second
    OBVIOUS
  <2>2. \A n \in 1 .. 2 : n = 1 \/ n = 2  OBVIOUS
  <2> QED  BY <2>1, <2>2, <1>2 DEF PagesOk
<1>3. ASSUME NEW pages \in OnePage PROVE PagesOk(pages)
  <2>1. PICK p \in Patterns(PageLength) : pages = <<[text |-> Numbered(p, 0), cjk |-> FALSE]>>
    BY <1>3 DEF OnePage
  <2> QED  BY <2>1, <1>0, <1>1, PageOfPattern
<1>4. ASSUME NEW pages \in LongSecond PROVE PagesOk(pages)
  <2>1. PICK p \in Patterns(PageLength) : pages = <<[text |-> Numbered(<<1, Newline, Newline, 1>> \o p, 0), cjk |-> FALSE]>>
    BY <1>4 DEF LongSecond
  <2>2. PICK q, T : q = <<1, Newline, Newline, 1>> \o p /\ T = {1, Space, Newline}  OBVIOUS
  <2>3. <<1, Newline, Newline, 1>> \in Seq(T)  BY <2>2
  <2>4. p \in Seq(T)  BY <2>2, <1>0, PatternLength
  <2>5. q \in Seq(T)  BY <2>2, <2>3, <2>4, ConcatProperties
  <2>6. Len(q) \in Nat /\ q \in [1 .. Len(q) -> T]  BY <2>5, LenProperties
  <2>7. Numbered(q, 0) \in Texts /\ NoTwice(Numbered(q, 0))  BY <2>2, <2>6, NumberedIs
  <2>8. PICK page : page = [text |-> Numbered(q, 0), cjk |-> FALSE]  OBVIOUS
  <2>9. page \in Pages /\ NoTwice(page.text) /\ pages = <<page>>  BY <2>1, <2>2, <2>7, <2>8 DEF Pages
  <2> QED  BY <2>9, <1>1
<1>5. ASSUME NEW pages \in TwoPages PROVE PagesOk(pages)
  <2>1. PICK p \in Patterns(PairLength), q \in Patterns(PairLength), c \in BOOLEAN, d \in BOOLEAN :
          pages = <<[text |-> Numbered(p, 0), cjk |-> c], [text |-> Numbered(q, Len(p)), cjk |-> d]>>
    BY <1>5 DEF TwoPages
  <2>2. Len(p) \in Nat  BY <1>0, PatternLength
  <2>3. PICK page, second : page = [text |-> Numbered(p, 0), cjk |-> c] /\ second = [text |-> Numbered(q, Len(p)), cjk |-> d]
    OBVIOUS
  <2>4. page \in Pages /\ NoTwice(page.text)  BY <2>3, <1>0, PageOfPattern
  <2>5. second \in Pages /\ NoTwice(second.text)  BY <2>2, <2>3, <1>0, PageOfPattern
  <2> QED  BY <2>1, <2>3, <2>4, <2>5, <1>2
<1> QED  BY <1>3, <1>4, <1>5

\* What a search finds, no more than was asked for.
LEMMA FoundIs ==
    ASSUME NEW a \in Seq(Hits), NEW b \in Seq(Hits), NEW c \in Seq(Hits), NEW limit \in Nat
    PROVE  Found(a, b, c, limit) \in Seq(Hits) /\ Len(Found(a, b, c, limit)) <= limit
<1>1. PICK rows \in Seq(Hits) : rows = IF a # << >> THEN a ELSE IF b # << >> THEN b ELSE c  OBVIOUS
<1>2. PICK n \in Nat : n = Len(rows)  BY LenProperties
<1>3. PICK m \in Nat : m = Clamped(limit, n) /\ m <= limit /\ m <= n  BY DEF Clamped
<1>4. \A i \in 1 .. m : rows[i] \in Hits
  <2>1. \A i \in 1 .. m : i \in 1 .. Len(rows)  BY <1>2, <1>3
  <2> QED  BY <2>1, ElementOfSeq
<1>5. PICK w : w = SubSeq(rows, 1, m)  OBVIOUS
<1>6. 1 \in Int /\ m \in Int  OBVIOUS
<1>7. w \in Seq(Hits) /\ Len(w) = IF 1 <= m THEN m - 1 + 1 ELSE 0  BY <1>4, <1>5, <1>6, SubSeqProperties
<1>8. Len(w) <= limit  BY <1>3, <1>7
<1>9. Found(a, b, c, limit) = w  BY <1>1, <1>2, <1>3, <1>5 DEF Found
<1> QED  BY <1>7, <1>8, <1>9

\* The rows of a search are hits.
LEMMA ResultsAreHits == \A rows \in Results_ : rows \in Seq(Hits)
<1> SUFFICES ASSUME NEW rows \in Results_ PROVE rows \in Seq(Hits)  OBVIOUS
<1>0. MaxFound \in Nat  BY TextAssumption
<1>1. PICK n \in 0 .. MaxFound : rows \in Rows_(n)  BY DEF Results_
<1>2. PICK c \in [1 .. n -> Costs] : rows = [i \in 1 .. n |-> [chunk |-> i, tokens |-> c[i]]]
  BY <1>1 DEF Rows_
<1>3. \A i \in 1 .. n : i \in Nat /\ c[i] \in Nat
  <2>1. \A x \in Costs : x \in Nat  BY TextAssumption
  <2>2. \A i \in 1 .. n : c[i] \in Costs /\ i \in Nat  BY <1>0, <1>1
  <2> QED  BY <2>1, <2>2
<1>4. \A i \in 1 .. n : [chunk |-> i, tokens |-> c[i]] \in Hits  BY <1>3 DEF Hits
<1>5. rows \in [1 .. n -> Hits]  BY <1>2, <1>4
<1> QED  BY <1>0, <1>1, <1>5

\* A turn has no more than the default budget, and no more than the ceiling.
LEMMA TurnBudgetIs ==
    ASSUME NEW base \in Nat, LeastBudget <= base, NEW percent \in 1 .. 100
    PROVE  TurnBudget(base, percent) \in Nat /\ TurnBudget(base, percent) <= Clamped(base, TokensCap)
<1>1. LeastBudget \in Nat /\ TokensCap \in Nat /\ LeastBudget <= TokensCap  BY TextAssumption
<1>2. PICK x : x = base * percent  OBVIOUS
<1>3. x \in Nat /\ x <= base * 100  BY <1>2, Products
<1>4. PICK d \in Nat : d = x \div 100 /\ d <= base  BY <1>3
<1>5. PICK n \in Nat : n = base + TokensCap + d  BY <1>1
<1>6. {d, TokensCap} \in SUBSET (0 .. n) /\ {d, TokensCap} # {}  BY <1>1, <1>4, <1>5
<1>7. PICK m : m = Min({d, TokensCap}) /\ m \in {d, TokensCap} /\ m <= d /\ m <= TokensCap
  BY <1>6, EndsAre
<1>8. {LeastBudget, m} \in SUBSET (0 .. n) /\ {LeastBudget, m} # {}  BY <1>1, <1>5, <1>7
<1>9. PICK g : g = Max({LeastBudget, m}) /\ g \in {LeastBudget, m}  BY <1>8, EndsAre
<1>10. TurnBudget(base, percent) = g  BY <1>2, <1>4, <1>7, <1>9 DEF TurnBudget
<1>11. g \in Nat /\ g <= base /\ g <= TokensCap  BY <1>1, <1>4, <1>7, <1>9
<1> QED  BY <1>1, <1>10, <1>11 DEF Clamped

-----------------------------------------------------------------------------
(* The text invariant *)

\* What the task and its outcome are, whichever it is: the pages of a file and their
\* chunks, or what a search found and the best of it.
ChunksTask ==
    /\ task.kind = "chunks" /\ PagesOk(task.pages) /\ task.max \in Nat \ {0} /\ task.density \in Nat \ {0}
    /\ Items = ChunkSpecs(task.pages, task.max, task.density)

SearchTask ==
    /\ task.kind \in {"retrieve", "turn"} /\ task.hits \in Seq(Hits) /\ Len(task.hits) <= LimitCap
    /\ task.chunks \in Nat /\ task.tokens \in Nat
    /\ outcome = Context(TRUE, task.hits, task.chunks, task.tokens)
    /\ task.kind = "turn" => task.base \in Nat /\ task.tokens <= Clamped(task.base, TokensCap)

TextInv == task.kind = "none" \/ ChunksTask \/ SearchTask

\* Nothing is selected of nothing.
LEMMA NothingSelected ==
    ASSUME NEW maxChunks \in Nat, NEW maxTokens \in Nat
    PROVE  Selected(<< >>, maxChunks, maxTokens) = Unselected
<1>1. << >> \in Seq(Hits) /\ Len(<< >>) = 0  OBVIOUS
<1>2. PICK f : RunsTo(SelectStep(<< >>, maxChunks, maxTokens), Unselected, Len(<< >>), Accounts, f)
               /\ Selected(<< >>, maxChunks, maxTokens) = f[Len(<< >>)]
  BY <1>1, SelectRuns
<1> QED  BY <1>1, <1>2 DEF RunsTo

\* A limit that is clamped is within both.
LEMMA ClampedIs ==
    ASSUME NEW asked \in Nat, NEW cap \in Nat
    PROVE  Clamped(asked, cap) \in Nat /\ Clamped(asked, cap) <= cap /\ Clamped(asked, cap) <= asked
  BY DEF Clamped

\* The best of what was found are within the budget, none is passed over.
LEMMA SearchIsRight ==
    ASSUME SearchTask
    PROVE  BestWithinBudget /\ TurnGetsTheBeginning
<1>1. PICK hits \in Seq(Hits), most \in Nat, tokens \in Nat :
        /\ hits = task.hits /\ most = Clamped(task.chunks, ChunksCap) /\ tokens = Clamped(task.tokens, TokensCap)
        /\ outcome = Selected(hits, most, tokens) /\ Len(hits) <= LimitCap
  <2>1. task.chunks \in Nat /\ task.tokens \in Nat /\ ChunksCap \in Nat /\ TokensCap \in Nat
    BY TextAssumption DEF SearchTask
  <2>2. Clamped(task.chunks, ChunksCap) \in Nat /\ Clamped(task.tokens, TokensCap) \in Nat
    BY <2>1, ClampedIs
  <2>3. outcome = Selected(task.hits, Clamped(task.chunks, ChunksCap), Clamped(task.tokens, TokensCap))
    BY DEF SearchTask, Context
  <2> QED  BY <2>2, <2>3 DEF SearchTask
<1>2. PICK best : best = Kept(hits, {h \in ToSet(hits) : h.tokens > 0})  OBVIOUS
<1>3. best \in Seq(Hits)
  <2>1. [chunk |-> 0, tokens |-> 0] \in Hits  BY DEF Hits
  <2> QED  BY <2>1, <1>2, KeptAppend
<1>4. outcome \in Accounts /\ BestOf(outcome, best, most, tokens)  BY <1>1, <1>2, SelectedBest
<1>5. PICK items \in Seq(Hits), n \in Nat : items = outcome.items /\ n = Len(items)
  BY <1>4, LenProperties DEF Accounts
<1>6. PICK rest \in Seq(Hits) : /\ best = items \o rest
                                /\ rest # << >> => n >= most \/ outcome.total + rest[1].tokens > tokens
  BY <1>4, <1>5 DEF BestOf
<1>7. outcome.total = TokensOf(items) /\ n <= most /\ outcome.total <= tokens  BY <1>4, <1>5 DEF BestOf
<1>8. items = SubSeq(best, 1, n)  BY <1>5, <1>6, PartOf
<1>9. n < Len(best) => n = most \/ outcome.total + best[n + 1].tokens > tokens
  <2> SUFFICES ASSUME n < Len(best) PROVE n = most \/ outcome.total + best[n + 1].tokens > tokens
    OBVIOUS
  <2>1. PICK e \in Nat : e = Len(rest)  BY LenProperties
  <2>2. Len(items \o rest) = n + e /\ \A i \in 1 .. n + e : (items \o rest)[i] = IF i <= n THEN items[i] ELSE rest[i - n]
    BY <2>1, <1>5, ConcatProperties
  <2>3. Len(best) = n + e /\ \A i \in 1 .. n + e : best[i] = IF i <= n THEN items[i] ELSE rest[i - n]
    BY <2>2, <1>6
  <2>4. e # 0 /\ n + 1 \in 1 .. n + e /\ ~ (n + 1 <= n) /\ (n + 1) - n = 1  BY <2>3
  <2>5. best[n + 1] = rest[1] /\ rest # << >>  BY <2>1, <2>3, <2>4
  <2>6. n >= most \/ outcome.total + best[n + 1].tokens > tokens  BY <2>5, <1>6
  <2>7. n >= most => n = most  BY <1>7, SMTT(30)
  <2> QED  BY <2>6, <2>7
<1>10. BestWithinBudget  BY <1>1, <1>2, <1>5, <1>7, <1>8, <1>9 DEF BestWithinBudget
<1>11. ASSUME task.kind = "turn"
       PROVE  task.tokens <= Clamped(task.base, TokensCap) /\ IsPrefix(outcome.items, Context(TRUE, task.hits, task.chunks, task.base).items)
  <2>1. PICK base \in Nat, asked \in Nat, cap \in Nat : base = task.base /\ asked = task.tokens /\ cap = TokensCap
    BY <1>11, TextAssumption DEF SearchTask
  <2>2. asked <= Clamped(base, cap)  BY <2>1, <1>11 DEF SearchTask
  <2>3. PICK great \in Nat : great = Clamped(base, cap)  BY <2>1, ClampedIs
  <2>4. tokens <= great
    <3>1. tokens = Clamped(asked, cap)  BY <2>1, <1>1
    <3>2. tokens <= asked  BY <3>1, ClampedIs
    <3>3. asked <= great  BY <2>2, <2>3
    <3> QED  BY <3>2, <3>3
  <2>5. PICK whole : whole = Selected(hits, most, great)  OBVIOUS
  <2>6. whole \in Accounts /\ BestOf(whole, best, most, great)  BY <2>5, <1>2, SelectedBest
  <2>7. IsPrefix(outcome.items, whole.items)  BY <2>4, <2>6, <1>3, <1>4, LessTakesBeginning
  <2>8. Context(TRUE, task.hits, task.chunks, task.base) = whole  BY <2>1, <2>3, <2>5, <1>1 DEF Context
  <2> QED  BY <2>1, <2>2, <2>7, <2>8
<1>12. TurnGetsTheBeginning  BY <1>11 DEF TurnGetsTheBeginning
<1> QED  BY <1>10, <1>12

\* What the invariant says is enough.
LEMMA TextInvHolds == TextInv => TextHolds
<1>1. CASE task.kind = "none"
  <2>1. ~ Chunked /\ task.kind # "turn" /\ task.kind \notin {"retrieve", "turn"}  BY <1>1 DEF Chunked
  <2> QED
    BY <2>1 DEF TextHolds, NothingLost, CutWell, PackedAndCounted, BestWithinBudget, TurnGetsTheBeginning
<1>2. CASE ChunksTask
  <2>1. Chunked /\ task.kind # "turn" /\ task.kind \notin {"retrieve", "turn"}
    BY <1>2 DEF Chunked, ChunksTask
  <2>2. NothingLost /\ CutWell /\ PackedAndCounted  BY <2>1, <1>2, ChunksAreRight DEF ChunksTask
  <2> QED  BY <2>1, <2>2 DEF TextHolds, BestWithinBudget, TurnGetsTheBeginning
<1>3. CASE SearchTask
  <2>1. ~ Chunked  BY <1>3 DEF Chunked, SearchTask
  <2>2. BestWithinBudget /\ TurnGetsTheBeginning  BY <1>3, SearchIsRight
  <2> QED  BY <2>1, <2>2 DEF TextHolds, NothingLost, CutWell, PackedAndCounted
<1> QED  BY <1>1, <1>2, <1>3 DEF TextInv

\* Each of the three actions keeps the invariant: the chunks of a file,
LEMMA StoreChunksInv ==
    ASSUME NEW pages, PagesOk(pages), NEW max \in Nat \ {0}, NEW density \in Nat \ {0}, StoreChunks(pages, max, density)
    PROVE  TextInv'
<1>1. /\ task' = [kind |-> "chunks", pages |-> pages, max |-> max, density |-> density]
      /\ outcome' = [items |-> ChunkSpecs(pages, max, density)]
  BY DEF StoreChunks
<1>2. task'.kind = "chunks" /\ task'.pages = pages /\ task'.max = max /\ task'.density = density
      /\ outcome'.items = ChunkSpecs(pages, max, density)
  BY <1>1
<1> QED  BY <1>2 DEF TextInv, ChunksTask, Items

\* a search of the owner,
LEMMA RetrieveInv ==
    ASSUME NEW a \in Seq(Hits), NEW b \in Seq(Hits), NEW c \in Seq(Hits), NEW limit \in Nat, NEW most \in Nat, NEW tokens \in Nat,
           Retrieve(a, b, c, limit, most, tokens)
    PROVE  TextInv'
<1>1. LimitCap \in Nat  BY TextAssumption
<1>2. PICK hits : hits = Found(a, b, c, Clamped(limit, LimitCap))  OBVIOUS
<1>3. hits \in Seq(Hits) /\ Len(hits) \in Nat /\ Len(hits) <= LimitCap
  <2>1. PICK n \in Nat : n = Clamped(limit, LimitCap) /\ n <= LimitCap  BY <1>1, ClampedIs
  <2>2. hits \in Seq(Hits) /\ Len(hits) <= n  BY <2>1, <1>2, FoundIs
  <2>3. Len(hits) \in Nat  BY <2>2, LenProperties
  <2> QED  BY <2>1, <2>2, <2>3, <1>1
<1>4. /\ task' = [kind |-> "retrieve", limit |-> limit, chunks |-> most, tokens |-> tokens, hits |-> hits]
      /\ outcome' = Context(TRUE, hits, most, tokens)
  BY <1>2 DEF Retrieve
<1>5. task'.kind = "retrieve" /\ task'.hits = hits /\ task'.chunks = most /\ task'.tokens = tokens
  BY <1>4
<1> QED  BY <1>3, <1>4, <1>5 DEF TextInv, SearchTask

\* and the search for a turn.
LEMMA TurnInv ==
    ASSUME NEW usable \in BOOLEAN, NEW rows \in Seq(Hits), NEW most \in Nat, NEW base \in Nat, LeastBudget <= base,
           NEW percent \in 1 .. 100, SearchForTurn(usable, rows, most, base, percent)
    PROVE  TextInv'
<1>1. LimitCap \in Nat /\ ChunksCap \in Nat /\ TokensCap \in Nat  BY TextAssumption
<1>2. PICK found, hits, tokens : /\ found = Found(rows, << >>, << >>, LimitCap) /\ tokens = TurnBudget(base, percent)
                                 /\ hits = IF usable THEN found ELSE << >>
  OBVIOUS
<1>3. hits \in Seq(Hits) /\ Len(hits) <= LimitCap
  <2>1. << >> \in Seq(Hits) /\ Len(<< >>) = 0  OBVIOUS
  <2>2. found \in Seq(Hits) /\ Len(found) <= LimitCap  BY <2>1, <1>1, <1>2, FoundIs
  <2> QED  BY <2>1, <2>2, <1>1, <1>2
<1>4. tokens \in Nat /\ tokens <= Clamped(base, TokensCap)  BY <1>2, TurnBudgetIs
<1>5. /\ task' = [kind |-> "turn", hits |-> hits, chunks |-> most, base |-> base, tokens |-> tokens]
      /\ outcome' = Context(usable, found, most, tokens)
  BY <1>2 DEF SearchForTurn
<1>6. outcome' = Context(TRUE, hits, most, tokens)
  <2>1. CASE usable  BY <2>1, <1>2, <1>5
  <2>2. CASE ~ usable
    <3>1. Clamped(most, ChunksCap) \in Nat /\ Clamped(tokens, TokensCap) \in Nat
      BY <1>1, <1>4, ClampedIs
    <3>2. Selected(hits, Clamped(most, ChunksCap), Clamped(tokens, TokensCap)) = Unselected
      BY <2>2, <3>1, <1>2, NothingSelected
    <3> QED  BY <2>2, <3>2, <1>5 DEF Context
  <2> QED  BY <2>1, <2>2
<1>7. task'.kind = "turn" /\ task'.hits = hits /\ task'.chunks = most /\ task'.tokens = tokens /\ task'.base = base
  BY <1>5
<1> QED  BY <1>3, <1>4, <1>6, <1>7 DEF TextInv, SearchTask

\* The task and its outcome are always what the actions make of them: the invariant of
\* KnowledgeText (build_chunk_specs_from_pages, select_knowledge_context).
THEOREM TextInvariant == TextSpec => []TextInv
<1>1. TextInit => TextInv
  <2>1. NoTask.kind = "none"  BY DEF NoTask
  <2> QED  BY <2>1 DEF TextInit, TextInv
<1>2. TextInv /\ [TextNext]_textVars => TextInv'
  <2> SUFFICES ASSUME TextInv, [TextNext]_textVars PROVE TextInv'  OBVIOUS
  <2>1. Max(Densities) \in Nat \ {0}
    <3>1. Densities \in SUBSET Nat /\ IsFiniteSet(Densities) /\ Densities # {} /\ 0 \notin Densities
      BY TextAssumption
    <3>2. Max(Densities) \in Densities  BY <3>1, GreatestIs
    <3> QED  BY <3>1, <3>2
  <2>2. ASSUME NEW pages \in OnePage \cup LongSecond, NEW max \in MaxChars, StoreChunks(pages, max, Max(Densities)) PROVE TextInv'
    <3>1. PagesOk(pages) /\ max \in Nat \ {0}  BY FilesArePages, TextAssumption
    <3> QED  BY <3>1, <2>1, <2>2, StoreChunksInv
  <2>3. ASSUME NEW pages \in TwoPages, NEW max \in MaxChars, NEW density \in Densities, StoreChunks(pages, max, density) PROVE TextInv'
    <3>1. PagesOk(pages) /\ max \in Nat \ {0} /\ density \in Nat \ {0}  BY FilesArePages, TextAssumption
    <3> QED  BY <3>1, <2>3, StoreChunksInv
  <2>4. << >> \in Seq(Hits)  OBVIOUS
  <2>5. ASSUME NEW rows \in Results_, NEW limit \in 1 .. LimitCap + 1, NEW most \in 1 .. ChunksCap + 1, NEW tokens \in 1 .. TokensCap + 1,
               \/ Retrieve(rows, << >>, << >>, limit, most, tokens)
               \/ Retrieve(<< >>, rows, << >>, limit, most, tokens)
               \/ Retrieve(<< >>, << >>, rows, limit, most, tokens)
        PROVE  TextInv'
    <3>1. rows \in Seq(Hits) /\ limit \in Nat /\ most \in Nat /\ tokens \in Nat
      BY ResultsAreHits, TextAssumption
    <3> QED  BY <3>1, <2>4, <2>5, RetrieveInv
  <2>6. ASSUME NEW rows \in Results_, NEW usable \in BOOLEAN, NEW most \in 1 .. ChunksCap, NEW base \in LeastBudget .. TokensCap + 1,
               NEW percent \in Fractions, SearchForTurn(usable, rows, most, base, percent)
        PROVE  TextInv'
    <3>1. rows \in Seq(Hits) /\ most \in Nat  BY ResultsAreHits, TextAssumption
    <3>2. LeastBudget \in Nat /\ TokensCap \in Nat /\ percent \in 1 .. 100  BY TextAssumption
    <3>3. base \in Nat /\ LeastBudget <= base  BY <3>2
    <3> QED  BY <3>1, <3>2, <3>3, <2>6, TurnInv
  <2>7. CASE UNCHANGED textVars
    <3>1. task' = task /\ outcome' = outcome  BY <2>7 DEF textVars
    <3> QED  BY <3>1 DEF TextInv, ChunksTask, SearchTask, Items
  <2> QED  BY <2>2, <2>3, <2>5, <2>6, <2>7 DEF TextNext
<1> QED  BY <1>1, <1>2, PTL DEF TextSpec

\* What a PDF says reaches the model in order, whole and within the budget, for texts of
\* any length and any limits: chunks lose no visible character and cut no paragraph that
\* fits, and a prompt gets the best that its budget holds (knowledge_text_chunking.py,
\* knowledge_context_selection.py).
THEOREM TextAlwaysHolds == TextSpec => []TextHolds
  BY TextInvariant, TextInvHolds, PTL
=============================================================================
