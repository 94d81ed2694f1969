-------------------------- MODULE SyncClient_proofs --------------------------
(***************************************************************************)
(* What the sync server promises a client that sends one batch at a time,  *)
(* for any number of paths, contents and batches: the queue's count, the   *)
(* revisions it is given, and what the two indexes answer.                 *)
(***************************************************************************)
EXTENDS SyncServer_proofs, SequenceTheorems, FiniteSetTheorems,
        WellFoundedInduction

-----------------------------------------------------------------------------
(* The client.                                                             *)

\* A change names a path as a file or as a delete, not as both.
Clean(c) == c.dels \cap Upserts(c) = {}

\* One batch at a time is handled; the bodies name a path once.
OneClient == \A r, s \in Requests : r = s
CleanBatches == \A b \in Batches : Clean(b)
ClientOK == \A r \in Requests : Clean(body[r]) /\ Clean(work[r])

\* No write fails and the process is not restarted.
Undisturbed == MaxFaults = 0 /\ MaxCrashes = 0

-----------------------------------------------------------------------------
(* What one step leaves alone.                                             *)

\* The steps of a batch's handler, and those of the worker or of a status
\* request.
BatchStep(r) == PostBatch(r) \/ RequestStep(r) \/ BatchFails(r)
IndexerStep(x) ==
    \/ IndexStep(x) \/ InterruptSemantic(x) \/ MarkFails(x)
    \/ x = Worker /\ (TakeJobs \/ FinishGroup \/ FailGroup)
    \/ x \in Pollers /\ (Poll(x) \/ PollStep(x) \/ SkipProbe(x))

\* Every step is one of these, or a restart.
LEMMA Steps ==
    ASSUME [Next]_vars
    PROVE  \/ \E r \in Requests : BatchStep(r)
           \/ \E x \in Indexers : IndexerStep(x)
           \/ Crash
           \/ UNCHANGED vars
BY ProcsFacts
   DEF Next, WorkerStep, BatchStep, IndexerStep, Indexers

\* The locals of y.
Same(y) ==
    /\ pc'[y] = pc[y] /\ work'[y] = work[y]
    /\ rev'[y] = rev[y] /\ seen'[y] = seen[y]

\* Moving on, or ending, concerns the locals of one process only.
LEMMA LocalSteps ==
    ASSUME TypeOK, NEW x \in Procs, NEW y \in Procs \ {x}
    PROVE  /\ \A label : Goto(x, label) => pc'[y] = pc[y]
           /\ Return(x) => Same(y)
BY DEF TypeOK, LocalTypes, Goto, Return, Same

\* A batch's handler writes neither the semantic index nor what the worker and
\* the status requests have; its work concerns no other process.
LEMMA BatchFrame ==
    ASSUME TypeOK, NEW r \in Requests, BatchStep(r)
    PROVE  /\ UNCHANGED <<storeIndexed, semantic, drained, running, crashes>>
           /\ \A y \in Procs \ {r} : Same(y)
           /\ loaded => loaded'
<1> USE ProcsFacts DEF TypeOK, LocalTypes, Goto, Return, EndBatch, Same,
        queueVars, indexVars, diskVars, stateVars, bounds
<1>1. CASE PostBatch(r)
  BY <1>1 DEF PostBatch
<1>2. CASE BatchFails(r)
  BY <1>2 DEF BatchFails
<1>3. CASE ReadStatus(r)
  BY <1>3 DEF ReadStatus
<1>4. CASE MergeStatus(r)
  BY <1>4 DEF MergeStatus, MergeSeen
<1>5. CASE ReadHashes(r)
  BY <1>5 DEF ReadHashes
<1>6. CASE Reserve(r)
  BY <1>6 DEF Reserve
<1>7. CASE ApplyBatch(r)
  BY <1>7 DEF ApplyBatch
<1>8. CASE SaveSummary(r)
  BY <1>8 DEF SaveSummary
<1>9. CASE UpdateExact(r)
  BY <1>9 DEF UpdateExact
<1>10. CASE Commit(r)
  BY <1>10 DEF Commit
<1>11. CASE PutJob(r)
  BY <1>11 DEF PutJob
<1>12. CASE Answer(r)
  BY <1>12 DEF Answer
<1> QED
  BY <1>1, <1>2, <1>3, <1>4, <1>5, <1>6, <1>7, <1>8, <1>9, <1>10, <1>11, <1>12
     DEF BatchStep, RequestStep

\* The worker and the status requests write neither the snapshot nor the exact
\* index, and acknowledge nothing.
LEMMA IndexerFrame ==
    ASSUME TypeOK, NEW x \in Indexers, IndexerStep(x)
    PROVE  /\ UNCHANGED <<snapshot, storeAccepted, exact, exactRevision, body,
                          acked, posts, crashes>>
           /\ \A y \in Procs \ {x} : Same(y)
           /\ loaded => loaded'
<1> USE ProcsFacts DEF TypeOK, LocalTypes, Goto, Return, Same,
        queueVars, indexVars, diskVars, stateVars, bounds
<1>1. CASE UpdateSemantic(x)
  BY <1>1 DEF UpdateSemantic
<1>2. CASE MarkIndexed(x)
  BY <1>2 DEF MarkIndexed
<1>3. CASE SaveSummary(x)
  BY <1>3 DEF SaveSummary
<1>4. CASE InterruptSemantic(x)
  BY <1>4 DEF InterruptSemantic
<1>5. CASE MarkFails(x)
  BY <1>5 DEF MarkFails
<1>6. CASE x = Worker /\ TakeJobs
  BY <1>6 DEF TakeJobs, StartGroup
<1>7. ASSUME x = Worker, NEW busy, NextGroup(busy)
      PROVE  \A y \in Procs \ {x} : Same(y)
  BY <1>7 DEF NextGroup, StartGroup
<1>8. CASE x = Worker /\ FinishGroup
  BY <1>7, <1>8 DEF FinishGroup
<1>9. CASE x = Worker /\ FailGroup
  BY <1>7, <1>9 DEF FailGroup
<1>10. CASE x \in Pollers /\ Poll(x)
  BY <1>10 DEF Poll
<1>11. CASE x \in Pollers /\ ReadStatus(x)
  BY <1>11 DEF ReadStatus
<1>12. CASE x \in Pollers /\ MergeStatus(x)
  BY <1>12 DEF MergeStatus, MergeSeen
<1>13. CASE x \in Pollers /\ CheckPasses(x)
  BY <1>13 DEF CheckPasses
<1>14. CASE x \in Pollers /\ Recover(x)
  BY <1>14 DEF Recover
<1>15. CASE x \in Pollers /\ FinishRecovery(x)
  BY <1>15 DEF FinishRecovery
<1>16. CASE x \in Pollers /\ FailRecovery(x)
  BY <1>16 DEF FailRecovery
<1>17. CASE x \in Pollers /\ SkipProbe(x)
  BY <1>17 DEF SkipProbe
<1>18. CASE x \in Pollers /\ AnswerStatus(x)
  BY <1>18 DEF AnswerStatus, MergeSeen
<1> QED
  BY <1>1, <1>2, <1>3, <1>4, <1>5, <1>6, <1>8, <1>9, <1>10, <1>11, <1>12,
     <1>13, <1>14, <1>15, <1>16, <1>17, <1>18
     DEF IndexerStep, IndexStep, PollStep

-----------------------------------------------------------------------------
(* The queue's count.                                                      *)

\* The handlers that wait for room in the queue.
Waiting == {r \in Requests : pc[r] = "put"}

\* The inductive invariant behind DepthCounts: a worker that waits for the
\* queue has nothing drained.
DepthOK ==
    /\ depth = Len(queue) + Len(drained) + Cardinality(Waiting)
    /\ running <=> pc[Worker] # "idle"
    /\ pc[Worker] = "idle" => drained = <<>>

\* The handlers that wait are finitely many, and one more or one less of them
\* counts as one: queue.put is entered and left by one handler at a time.
LEMMA WaitingCount ==
    ASSUME IsFiniteSet(Requests)
    PROVE  /\ Cardinality(Waiting) \in Nat
           /\ \A r \in Requests \ Waiting :
                 Cardinality(Waiting \cup {r}) = Cardinality(Waiting) + 1
           /\ \A r \in Waiting :
                 Cardinality(Waiting \ {r}) = Cardinality(Waiting) - 1
<1>1. IsFiniteSet(Waiting)
  BY FS_Subset DEF Waiting
<1> QED
  BY <1>1, FS_CardinalityType, FS_AddElement, FS_RemoveElement

\* A step of y that neither begins nor ends a wait leaves them as they are.
LEMMA WaitingKept ==
    ASSUME NEW y \in Procs, \A z \in Procs \ {y} : Same(z),
           \/ y \notin Requests
           \/ pc[y] # "put" /\ pc'[y] # "put"
    PROVE  Waiting' = Waiting
BY ProcsFacts DEF Waiting, Same

\* index_queue_depth follows a group out of the jobs that were taken.
LEMMA DepthStartGroup ==
    ASSUME TypeOK, NEW jobs \in Seq(Job), NEW n \in Nat, StartGroup(jobs),
           depth = Len(jobs) + n
    PROVE  /\ depth' = Len(drained') + n /\ running' = TRUE
           /\ pc'[Worker] = "index"
           /\ \A y \in Procs \ {Worker} : pc'[y] = pc[y]
<1>1. PICK k \in 1..Len(jobs) :
         /\ drained' = SubSeq(jobs, k + 1, Len(jobs))
         /\ depth' = DepthAfter(k) /\ running' = TRUE
         /\ Goto(Worker, "index")
  BY DEF StartGroup
<1>2. Len(jobs) \in Nat
  OBVIOUS
<1>3. Len(drained') = Len(jobs) - k
  BY <1>1
<1>4. /\ depth \in Nat /\ k \in Nat
      /\ depth - k = Len(drained') + n /\ depth - k >= 0
  BY <1>1, <1>2, <1>3
<1>5. depth' = DepthAfter(k)
  BY <1>1
<1>6. depth' = depth - k
  BY <1>4, <1>5 DEF DepthAfter, Larger
<1>7. pc'[Worker] = "index" /\ \A y \in Procs \ {Worker} : pc'[y] = pc[y]
  BY <1>1, ProcsFacts DEF Goto, TypeOK, LocalTypes
<1> QED
  BY <1>1, <1>4, <1>6, <1>7

\* The end of a group takes nothing from the queue.
LEMMA DepthNextGroup ==
    ASSUME TypeOK, IsFiniteSet(Requests), DepthOK, NEW busy, NextGroup(busy),
           pc[Worker] \in {"finish", "failed"}, UNCHANGED queue
    PROVE  DepthOK'
<1>1. Len(queue) \in Nat /\ Cardinality(Waiting) \in Nat
  BY WaitingCount DEF TypeOK, QueueTypes
<1>2. depth = Len(drained) + (Len(queue) + Cardinality(Waiting))
  BY <1>1 DEF DepthOK, TypeOK, QueueTypes
<1>3. CASE StartGroup(drained)
  <2>1. /\ depth' = Len(drained') + (Len(queue) + Cardinality(Waiting))
        /\ running' = TRUE /\ pc'[Worker] = "index"
        /\ \A y \in Procs \ {Worker} : pc'[y] = pc[y]
    <3> DEFINE n == Len(queue) + Cardinality(Waiting)
    <3>1. n \in Nat /\ depth = Len(drained) + n /\ drained \in Seq(Job)
      BY <1>1, <1>2 DEF TypeOK, QueueTypes
    <3> HIDE DEF n
    <3>2. /\ depth' = Len(drained') + n
          /\ running' = TRUE /\ pc'[Worker] = "index"
          /\ \A y \in Procs \ {Worker} : pc'[y] = pc[y]
      BY <1>3, <3>1, DepthStartGroup
    <3> QED
      BY <3>2 DEF n
  <2>2. Waiting' = Waiting
    BY <2>1, ProcsFacts, ConstantsAssumption DEF Waiting
  <2>3. Len(drained') \in Nat
    BY <1>3, TypeStartGroup DEF TypeOK, QueueTypes
  <2> QED
    BY <1>1, <2>1, <2>2, <2>3 DEF DepthOK
<1>4. CASE /\ running' = FALSE /\ Return(Worker) /\ drained = <<>>
           /\ UNCHANGED <<depth, drained>>
  <2>1. pc'[Worker] = "idle" /\ \A y \in Procs \ {Worker} : Same(y)
    BY <1>4, ProcsFacts, LocalSteps DEF Return, Goto, TypeOK, LocalTypes
  <2>2. Waiting' = Waiting
    BY <2>1, ConstantsAssumption, ProcsFacts, WaitingKept
  <2> QED
    BY <1>4, <2>1, <2>2 DEF DepthOK
<1> QED
  BY <1>3, <1>4 DEF NextGroup

\* Every step keeps the count: a commit adds the job and counts it, a wait that
\* ends moves it into the queue, and a group that starts takes its jobs out of
\* both.
LEMMA DepthNext ==
    ASSUME TypeOK, IsFiniteSet(Requests), Pollers = {}, DepthOK, [Next]_vars
    PROVE  DepthOK'
<1>0. /\ Cardinality(Waiting) \in Nat /\ Len(queue) \in Nat
      /\ Len(drained) \in Nat /\ Worker \notin Requests
      /\ Len(queue) = 0 <=> queue = <<>>
  BY WaitingCount, ConstantsAssumption DEF TypeOK, QueueTypes
<1>1. ASSUME UNCHANGED <<queue, drained, depth, running>>,
             Waiting' = Waiting,
             pc'[Worker] = "idle" <=> pc[Worker] = "idle"
      PROVE  DepthOK'
  BY <1>1 DEF DepthOK
<1>2. ASSUME NEW r \in Requests, Commit(r)
      PROVE  DepthOK'
  <2>1. /\ pc[r] = "commit" /\ depth' = depth + 1
        /\ UNCHANGED <<drained, running>>
        /\ \/ /\ pc'[r] = "idle" /\ Len(queue') = Len(queue) + 1
           \/ /\ pc'[r] = "put" /\ UNCHANGED queue
    BY <1>2, ProcsFacts
       DEF Commit, EndBatch, Return, Goto, TypeOK, LocalTypes, QueueTypes
  <2>2. \A y \in Procs \ {r} : pc'[y] = pc[y]
    BY <1>2, BatchFrame DEF BatchStep, RequestStep, Same
  <2>3. pc'[Worker] = pc[Worker]
    BY <1>0, <2>2, ProcsFacts
  <2>4. CASE pc'[r] = "idle" /\ Len(queue') = Len(queue) + 1
    <3>1. Waiting' = Waiting
      BY <2>1, <2>2, <2>4, ProcsFacts DEF Waiting
    <3> QED
      BY <1>0, <2>1, <2>3, <2>4, <3>1 DEF DepthOK
  <2>5. CASE pc'[r] = "put" /\ UNCHANGED queue
    <3>1. Waiting' = Waiting \cup {r} /\ r \in Requests \ Waiting
      BY <2>1, <2>2, <2>5, ProcsFacts DEF Waiting
    <3>2. Cardinality(Waiting') = Cardinality(Waiting) + 1
      BY <3>1, WaitingCount
    <3> QED
      BY <1>0, <2>1, <2>3, <2>5, <3>2 DEF DepthOK
  <2> QED
    BY <2>1, <2>4, <2>5
<1>3. ASSUME NEW r \in Requests, PutJob(r)
      PROVE  DepthOK'
  <2>1. /\ pc[r] = "put" /\ pc'[r] = "idle"
        /\ UNCHANGED <<drained, running, depth>>
        /\ Len(queue') = Len(queue) + 1
    BY <1>3, ProcsFacts
       DEF PutJob, EndBatch, Return, Goto, TypeOK, LocalTypes, QueueTypes,
           stateVars
  <2>2. \A y \in Procs \ {r} : pc'[y] = pc[y]
    BY <1>3, BatchFrame DEF BatchStep, RequestStep, Same
  <2>3. pc'[Worker] = pc[Worker]
    BY <1>0, <2>2, ProcsFacts
  <2>4. Waiting' = Waiting \ {r} /\ r \in Waiting
    BY <2>1, <2>2, ProcsFacts DEF Waiting
  <2>5. Cardinality(Waiting') = Cardinality(Waiting) - 1
    BY <2>4, WaitingCount
  <2> QED
    BY <1>0, <2>1, <2>3, <2>5 DEF DepthOK
<1>4. ASSUME NEW r \in Requests, BatchStep(r), ~Commit(r), ~PutJob(r)
      PROVE  DepthOK'
  <2>1. /\ UNCHANGED <<queue, drained, depth, running>>
        /\ pc[r] # "put" /\ pc'[r] # "put"
    <3> USE ProcsFacts DEF TypeOK, LocalTypes, Goto, Return, EndBatch,
            queueVars, indexVars, diskVars, stateVars, bounds
    <3>1. CASE PostBatch(r)
      BY <3>1 DEF PostBatch
    <3>2. CASE BatchFails(r)
      BY <3>2 DEF BatchFails
    <3>3. CASE ReadStatus(r)
      BY <3>3 DEF ReadStatus
    <3>4. CASE MergeStatus(r)
      BY <3>4, ConstantsAssumption DEF MergeStatus
    <3>5. CASE ReadHashes(r)
      BY <3>5 DEF ReadHashes
    <3>6. CASE Reserve(r)
      BY <3>6 DEF Reserve
    <3>7. CASE ApplyBatch(r)
      BY <3>7 DEF ApplyBatch
    <3>8. CASE SaveSummary(r)
      BY <3>8 DEF SaveSummary
    <3>9. CASE UpdateExact(r)
      BY <3>9 DEF UpdateExact
    <3>10. CASE Answer(r)
      BY <3>10 DEF Answer
    <3> QED
      BY <1>4, <3>1, <3>2, <3>3, <3>4, <3>5, <3>6, <3>7, <3>8, <3>9, <3>10
         DEF BatchStep, RequestStep
  <2>2. \A y \in Procs \ {r} : Same(y)
    BY <1>4, BatchFrame
  <2>3. Waiting' = Waiting
    BY <2>1, <2>2, ProcsFacts, WaitingKept
  <2>4. pc'[Worker] = pc[Worker]
    BY <1>0, <2>2, ProcsFacts DEF Same
  <2> QED
    BY <1>1, <2>1, <2>3, <2>4
<1>5. CASE TakeJobs
  <2>1. pc[Worker] = "idle" /\ drained = <<>> /\ queue' = <<>>
    BY <1>5 DEF TakeJobs, DepthOK
  <2>2. depth = Len(queue) + Cardinality(Waiting)
    BY <1>0, <2>1 DEF DepthOK
  <2>3. /\ depth' = Len(drained') + Cardinality(Waiting)
        /\ running' = TRUE /\ pc'[Worker] = "index"
        /\ \A y \in Procs \ {Worker} : pc'[y] = pc[y]
    BY <1>0, <1>5, <2>2, DepthStartGroup DEF TakeJobs, TypeOK, QueueTypes
  <2>4. Waiting' = Waiting
    BY <1>0, <2>3, ProcsFacts DEF Waiting
  <2>5. Len(drained') \in Nat /\ Len(queue') = 0
    BY <1>5, <2>1, TypeStartGroup DEF TakeJobs, TypeOK, QueueTypes
  <2> QED
    BY <1>0, <2>3, <2>4, <2>5 DEF DepthOK
<1>6. CASE FinishGroup
  BY <1>6, DepthNextGroup DEF FinishGroup
<1>7. CASE FailGroup
  BY <1>7, DepthNextGroup DEF FailGroup
<1>8. CASE IndexStep(Worker) \/ InterruptSemantic(Worker) \/ MarkFails(Worker)
  <2>1. /\ UNCHANGED <<queue, drained, depth, running>>
        /\ pc[Worker] # "idle" /\ pc'[Worker] # "idle"
        /\ \A y \in Procs \ {Worker} : pc'[y] = pc[y]
    <3> USE ProcsFacts DEF TypeOK, LocalTypes, Goto, queueVars, stateVars
    <3>1. CASE UpdateSemantic(Worker)
      BY <3>1 DEF UpdateSemantic
    <3>2. CASE MarkIndexed(Worker)
      BY <3>2 DEF MarkIndexed
    <3>3. CASE SaveSummary(Worker)
      BY <3>3 DEF SaveSummary
    <3>4. CASE InterruptSemantic(Worker)
      BY <3>4 DEF InterruptSemantic
    <3>5. CASE MarkFails(Worker)
      BY <3>5 DEF MarkFails
    <3> QED
      BY <1>8, <3>1, <3>2, <3>3, <3>4, <3>5 DEF IndexStep
  <2>2. Waiting' = Waiting
    BY <1>0, <2>1, ProcsFacts DEF Waiting
  <2> QED
    BY <1>1, <2>1, <2>2
<1>9. CASE Crash
  <2>1. /\ Waiting' = {} /\ queue' = <<>> /\ drained' = <<>> /\ depth' = 0
        /\ running' = FALSE /\ pc'[Worker] = "idle"
    BY <1>9, ProcsFacts DEF Crash, Waiting
  <2>2. Cardinality(Waiting') = 0
    BY <2>1, FS_EmptySet
  <2> QED
    BY <2>1, <2>2 DEF DepthOK
<1>10. CASE UNCHANGED vars
  BY <1>1, <1>10 DEF vars, Waiting
<1>11. Indexers = {Worker}
  BY DEF Indexers
<1> QED
  BY <1>2, <1>3, <1>4, <1>5, <1>6, <1>7, <1>8, <1>9, <1>10, <1>11, Steps
     DEF IndexerStep

\* At the start nothing is queued and nobody waits.
LEMMA DepthInit == ASSUME Init PROVE DepthOK
<1>1. Waiting = {}
  BY ProcsFacts DEF Init, Waiting
<1>2. Cardinality(Waiting) = 0
  BY <1>1, FS_EmptySet
<1> QED
  BY <1>2, ProcsFacts DEF Init, DepthOK

\* While no recovery runs, index_queue_depth counts the jobs that are queued,
\* drained or about to be queued, and index_worker_running says that a group is
\* being indexed, for any clients, faults and restarts.  A recovery resets
\* both, which is why there is none here.
THEOREM DepthIsCounted ==
    ASSUME IsFiniteSet(Requests), Pollers = {}
    PROVE  Spec => []DepthCounts
<1>1. Init => DepthOK
  BY DepthInit
<1>2. TypeOK /\ DepthOK /\ [Next]_vars => DepthOK'
  BY DepthNext
<1>3. TypeOK /\ DepthOK => DepthCounts
  BY DEF DepthOK, DepthCounts, Waiting, TypeOK, StateTypes
<1> QED
  BY <1>1, <1>2, <1>3, TypeCorrect, PTL DEF Spec

-----------------------------------------------------------------------------
(* The revisions that one client's batches are given.                      *)

\* What a poller or the worker does to the process state: the revisions that a
\* status request read are merged in.
LEMMA IndexerState ==
    ASSUME TypeOK, NEW x \in Indexers, IndexerStep(x)
    PROVE  \/ UNCHANGED <<accepted, loaded>>
           \/ /\ x \in Pollers /\ pc[x] \in {"merge", "final"} /\ loaded'
              /\ accepted' = Larger(accepted, seen[x].accepted)
<1>1. CASE IndexStep(x) \/ InterruptSemantic(x) \/ MarkFails(x)
  BY <1>1 DEF IndexStep, UpdateSemantic, MarkIndexed, SaveSummary,
     InterruptSemantic, MarkFails, stateVars
<1>2. CASE TakeJobs \/ FinishGroup \/ FailGroup
  BY <1>2 DEF TakeJobs, FinishGroup, FailGroup
<1>3. CASE x \in Pollers /\ (Poll(x) \/ SkipProbe(x))
  BY <1>3 DEF Poll, SkipProbe, stateVars
<1>4. CASE x \in Pollers /\ (MergeStatus(x) \/ AnswerStatus(x))
  BY <1>4 DEF MergeStatus, AnswerStatus, MergeSeen
<1>5. CASE ReadStatus(x) \/ CheckPasses(x) \/ Recover(x)
           \/ FinishRecovery(x) \/ FailRecovery(x)
  BY <1>5 DEF ReadStatus, CheckPasses, Recover, FinishRecovery, FailRecovery,
     stateVars
<1> QED
  BY <1>1, <1>2, <1>3, <1>4, <1>5 DEF IndexerStep, PollStep

\* A handler that has not merged what it read of the store.
Enters == {"idle", "load", "merge"}

\* _ensure_state_loaded: as long as the state is not loaded, a handler that
\* enters reads what a restart would load, and merging that loads the state.
LEMMA EntryFacts ==
    ASSUME TypeOK, NEW y \in Procs, pc[y] \in Enters, ~loaded,
           \/ y \in Requests /\ BatchStep(y)
           \/ y \in Pollers /\ IndexerStep(y)
    PROVE  \/ /\ pc[y] = "merge" /\ loaded'
              /\ accepted' = Larger(accepted, seen[y].accepted)
           \/ /\ UNCHANGED <<accepted, loaded>>
              /\ pc'[y] \in Enters /\ pc'[y] # "idle"
              /\ pc'[y] = "merge" => seen'[y].accepted = DurableAccepted
<1> USE DEF Enters, TypeOK, LocalTypes, Goto
<1>1. CASE PostBatch(y)
  BY <1>1 DEF PostBatch, stateVars
<1>2. CASE Poll(y)
  BY <1>2 DEF Poll, stateVars
<1>3. CASE ReadStatus(y)
  BY <1>3 DEF ReadStatus, stateVars, DurableAccepted
<1>4. CASE MergeStatus(y)
  BY <1>4 DEF MergeStatus, MergeSeen
<1>5. y \in Requests => BatchStep(y)
  BY ConstantsAssumption
<1>6. y \in Pollers => IndexerStep(y) /\ y # Worker
  BY ConstantsAssumption
<1>7. ASSUME y \in Requests, BatchStep(y)
      PROVE  PostBatch(y) \/ ReadStatus(y) \/ MergeStatus(y)
  BY <1>7 DEF BatchStep, RequestStep, BatchFails, ReadHashes, Reserve,
     ApplyBatch, SaveSummary, UpdateExact, Commit, PutJob, Answer
<1>8. ASSUME y \in Pollers, IndexerStep(y), y # Worker
      PROVE  Poll(y) \/ ReadStatus(y) \/ MergeStatus(y)
  BY <1>8 DEF IndexerStep, IndexStep, PollStep, UpdateSemantic, MarkIndexed,
     SaveSummary, InterruptSemantic, MarkFails, CheckPasses, Recover,
     FinishRecovery, FailRecovery, AnswerStatus, SkipProbe
<1> QED
  BY <1>1, <1>2, <1>3, <1>4, <1>5, <1>6, <1>7, <1>8

\* What the handler of one batch does between its entry and its end.
LEMMA BatchCourse ==
    ASSUME TypeOK, NEW r \in Requests, BatchStep(r), pc[r] \notin Enters
    PROVE  \/ /\ pc[r] = "hash" /\ pc'[r] = "reserve"
              /\ UNCHANGED <<accepted, loaded, storeAccepted, exactRevision>>
           \/ /\ pc[r] = "reserve" /\ pc'[r] \in {"apply", "answer"}
              /\ pc'[r] = "apply" => rev'[r] = NextRevision(r)
              /\ UNCHANGED <<accepted, loaded, storeAccepted, exactRevision>>
           \/ /\ pc[r] = "apply" /\ pc'[r] = "save"
              /\ storeAccepted' = Larger(storeAccepted, rev[r])
              /\ UNCHANGED <<accepted, loaded, exactRevision>>
              /\ rev'[r] = rev[r]
           \/ /\ pc[r] = "save" /\ pc'[r] = "exact"
              /\ UNCHANGED <<accepted, loaded, storeAccepted, exactRevision>>
              /\ rev'[r] = rev[r]
           \/ /\ pc[r] = "exact" /\ pc'[r] = "commit"
              /\ exactRevision' = Larger(exactRevision, rev[r])
              /\ UNCHANGED <<accepted, loaded, storeAccepted>>
              /\ rev'[r] = rev[r]
           \/ /\ pc[r] = "commit" /\ pc'[r] \in {"put", "idle"}
              /\ accepted' = rev[r] /\ loaded'
              /\ UNCHANGED <<storeAccepted, exactRevision>>
           \/ /\ pc[r] # "commit" /\ pc'[r] \in {"idle", "final", "finish"}
              /\ UNCHANGED <<accepted, loaded, storeAccepted, exactRevision>>
<1> USE ProcsFacts DEF Enters, TypeOK, LocalTypes, Goto, EndBatch, Return,
        stateVars, diskVars, indexVars
<1>1. CASE BatchFails(r)
  BY <1>1 DEF BatchFails
<1>2. CASE ReadStatus(r)
  BY <1>2 DEF ReadStatus
<1>3. CASE ReadHashes(r)
  BY <1>3 DEF ReadHashes
<1>4. CASE Reserve(r)
  BY <1>4 DEF Reserve
<1>5. CASE ApplyBatch(r)
  BY <1>5 DEF ApplyBatch, AcceptedAfter
<1>6. CASE SaveSummary(r)
  BY <1>6 DEF SaveSummary
<1>7. CASE UpdateExact(r)
  BY <1>7 DEF UpdateExact
<1>8. CASE Commit(r)
  BY <1>8 DEF Commit
<1>9. CASE PutJob(r) \/ Answer(r)
  BY <1>9 DEF PutJob, Answer
<1>10. ~PostBatch(r) /\ ~MergeStatus(r)
  BY DEF PostBatch, MergeStatus
<1> QED
  BY <1>1, <1>2, <1>3, <1>4, <1>5, <1>6, <1>7, <1>8, <1>9, <1>10
     DEF BatchStep, RequestStep

\* The inductive invariant behind FreshRevision: until its batch is committed
\* a revision that the exact index carries may exceed the accepted one, and a
\* handler that loads the state read a revision at least as large.
FreshOK ==
    /\ \A r \in Requests :
          /\ pc[r] = "commit" => exactRevision <= rev[r]
          /\ pc[r] \in {"apply", "save", "exact"} => exactRevision < rev[r]
    /\ loaded /\ (\A r \in Requests : pc[r] # "commit")
          => exactRevision <= accepted
    /\ ~loaded => \A y \in Requests \cup Pollers :
          /\ pc[y] \in Enters
          /\ pc[y] = "merge" => exactRevision <= seen[y].accepted

\* Every step keeps it.
LEMMA FreshNext ==
    ASSUME OneClient, IInv, FreshOK, [Next]_vars
    PROVE  FreshOK'
<1>0. /\ TypeOK /\ TypeOK' /\ exactRevision <= DurableAccepted
      /\ accepted \in Nat /\ accepted' \in Nat /\ exactRevision \in Nat
      /\ exactRevision' \in Nat /\ storeAccepted \in Nat
      /\ DurableAccepted \in Nat
      /\ \A y \in Procs : rev[y] \in Nat /\ rev'[y] \in Nat
      /\ \A y \in Procs : seen[y].accepted \in Nat
  BY SafeNext, LocalFacts, ProcsFacts
     DEF IInv, RestartSafe, TypeOK, StateTypes, IndexTypes, DiskTypes,
         LocalTypes
<1>1. ASSUME NEW r \in Requests, BatchStep(r)
      PROVE  FreshOK'
  <2>1. \A s \in Requests : s = r
    BY DEF OneClient
  <2>2. \A y \in Procs \ {r} : Same(y)
    BY <1>0, <1>1, BatchFrame
  <2>3. \A y \in Pollers : pc'[y] = pc[y] /\ seen'[y] = seen[y]
    BY <2>2, ProcsFacts, ConstantsAssumption DEF Same
  <2>4. r \in Procs
    BY ProcsFacts
  <2>5. CASE pc[r] \in Enters /\ ~loaded
    <3>1. exactRevision' = exactRevision
      <4>1. PostBatch(r) \/ ReadStatus(r) \/ MergeStatus(r)
        BY <1>1, <2>5
           DEF Enters, BatchStep, RequestStep, BatchFails, ReadHashes, Reserve,
           ApplyBatch, SaveSummary, UpdateExact, Commit, PutJob, Answer
      <4> QED
        BY <4>1 DEF PostBatch, ReadStatus, MergeStatus, indexVars
    <3>2. CASE /\ pc[r] = "merge" /\ loaded'
               /\ accepted' = Larger(accepted, seen[r].accepted)
      <4>1. pc'[r] = "hash"
        <5>1. MergeStatus(r)
          BY <1>1, <3>2
           DEF BatchStep, RequestStep, BatchFails, ReadHashes, Reserve,
           ApplyBatch, SaveSummary, UpdateExact, Commit, PutJob, Answer,
           PostBatch, ReadStatus
        <5> QED
          BY <1>0, <2>4, <5>1, ConstantsAssumption
             DEF MergeStatus, Goto, TypeOK, LocalTypes
      <4>2. exactRevision <= accepted'
        BY <1>0, <2>4, <2>5, <3>2 DEF FreshOK, Larger
      <4> QED
        BY <2>1, <3>1, <3>2, <4>1, <4>2 DEF FreshOK
    <3>3. CASE /\ UNCHANGED <<accepted, loaded>>
               /\ pc'[r] \in Enters
               /\ pc'[r] = "merge" => seen'[r].accepted = DurableAccepted
      BY <1>0, <2>1, <2>3, <2>5, <3>1, <3>3 DEF FreshOK, Enters
    <3> QED
      BY <1>0, <1>1, <2>4, <2>5, <3>2, <3>3, EntryFacts
  <2>6. CASE pc[r] \in Enters /\ loaded
    <3>1. /\ exactRevision' = exactRevision /\ loaded'
          /\ accepted <= accepted' /\ pc'[r] \in Enters \cup {"hash"}
      <4>1. PostBatch(r) \/ ReadStatus(r) \/ MergeStatus(r)
        BY <1>1, <2>6
           DEF Enters, BatchStep, RequestStep, BatchFails, ReadHashes, Reserve,
           ApplyBatch, SaveSummary, UpdateExact, Commit, PutJob, Answer
      <4> USE <1>0, <2>4, <2>6 DEF Goto, TypeOK, LocalTypes, Enters,
              indexVars, stateVars
      <4>2. CASE PostBatch(r)
        BY <4>2 DEF PostBatch
      <4>3. CASE ReadStatus(r)
        BY <4>3 DEF ReadStatus
      <4>4. CASE MergeStatus(r)
        BY <4>4, ConstantsAssumption DEF MergeStatus, MergeSeen, Larger
      <4> QED
        BY <4>1, <4>2, <4>3, <4>4
    <3> QED
      BY <1>0, <2>1, <2>6, <3>1 DEF FreshOK, Enters
  <2>7. CASE pc[r] \notin Enters
    <3>1. loaded /\ loaded'
      BY <1>0, <1>1, <2>7, BatchFrame DEF FreshOK
    <3>2. body[r].clientRevision \in Nat
      BY <1>0 DEF TypeOK, LocalTypes, Body
    <3> QED
      BY <1>0, <1>1, <2>1, <2>4, <2>7, <3>1, <3>2, BatchCourse
         DEF FreshOK, NextRevision, Larger
  <2> QED
    BY <2>5, <2>6, <2>7
<1>2. ASSUME NEW x \in Indexers, IndexerStep(x)
      PROVE  FreshOK'
  <2>1. /\ exactRevision' = exactRevision
        /\ \A y \in Procs \ {x} : Same(y)
        /\ loaded => loaded'
    BY <1>0, <1>2, IndexerFrame
  <2>2. \A r \in Requests : pc'[r] = pc[r] /\ rev'[r] = rev[r]
                            /\ seen'[r] = seen[r]
    BY <2>1, ProcsFacts, ConstantsAssumption DEF Same, Indexers
  <2>3. accepted <= accepted'
    BY <1>0, <1>2, IndexerState, ProcsFacts DEF Larger
  <2>4. CASE loaded
    BY <1>0, <2>1, <2>2, <2>3, <2>4 DEF FreshOK
  <2>5. CASE ~loaded /\ loaded'
    <3>1. /\ x \in Pollers /\ pc[x] = "merge"
          /\ accepted' = Larger(accepted, seen[x].accepted)
      BY <1>0, <1>2, <2>5, IndexerState DEF FreshOK, Enters
    <3>2. exactRevision <= accepted'
      BY <1>0, <2>5, <3>1, ProcsFacts DEF FreshOK, Larger
    <3>3. \A r \in Requests : pc'[r] \in Enters
      BY <2>2, <2>5 DEF FreshOK
    <3> QED
      BY <2>1, <2>5, <3>2, <3>3 DEF FreshOK, Enters
  <2>6. CASE ~loaded /\ ~loaded'
    <3>1. ASSUME NEW y \in Requests \cup Pollers
          PROVE  /\ pc'[y] \in Enters
                 /\ pc'[y] = "merge" => exactRevision <= seen'[y].accepted
      <4>1. CASE y = x
        <5>1. x \in Pollers /\ pc[x] \in Enters /\ x \in Procs
          BY <2>6, <3>1, <4>1, ConstantsAssumption, ProcsFacts
             DEF FreshOK, Indexers
        <5> QED
          BY <1>0, <1>2, <2>6, <4>1, <5>1, EntryFacts
      <4>2. CASE y # x
        BY <2>1, <2>6, <4>2, ProcsFacts DEF FreshOK, Same
      <4> QED
        BY <4>1, <4>2
    <3> QED
      BY <2>1, <2>6, <3>1 DEF FreshOK, Enters
  <2> QED
    BY <2>4, <2>5, <2>6
<1>3. CASE Crash
  <2>1. /\ ~loaded' /\ \A y \in Procs : pc'[y] = "idle"
    BY <1>3 DEF Crash
  <2> QED
    BY <2>1, ProcsFacts DEF FreshOK, Enters
<1>4. CASE UNCHANGED vars
  BY <1>4 DEF vars, FreshOK
<1> QED
  BY <1>1, <1>2, <1>3, <1>4, Steps

\* At the start the exact index carries no revision.
LEMMA FreshInit == ASSUME Init PROVE FreshOK
BY ProcsFacts DEF Init, FreshOK, Enters

\* A batch that is about to be applied has a revision that the exact index does
\* not carry yet, however many faults and restarts came before it: the client
\* sends its next batch after the answer, and no revision is computed from an
\* accepted revision that a restart lost.
THEOREM RevisionsAreFresh ==
    ASSUME OneClient
    PROVE  Spec => []FreshRevision
<1>1. Init => FreshOK
  BY FreshInit
<1>2. IInv /\ FreshOK /\ [Next]_vars => FreshOK'
  BY FreshNext
<1>3. FreshOK => FreshRevision
  BY DEF FreshOK, FreshRevision
<1> QED
  BY <1>1, <1>2, <1>3, IInvHolds, PTL DEF Spec

\* The handler of a batch that has a revision and is not committed.
Handling == {"apply", "save", "exact", "commit"}

\* Its revision is not below the accepted one.
AheadOK == \A r \in Requests : pc[r] \in Handling => accepted <= rev[r]

\* The numbers that the arguments about revisions compare.
LEMMA RevisionTypes ==
    ASSUME IInv, [Next]_vars
    PROVE  /\ TypeOK /\ TypeOK' /\ IInv'
           /\ accepted \in Nat /\ accepted' \in Nat
           /\ storeAccepted \in Nat /\ storeAccepted' \in Nat
           /\ DurableAccepted \in Nat /\ DurableAccepted' \in Nat
           /\ accepted <= DurableAccepted /\ DurableAccepted <= storeAccepted
           /\ DurableAccepted <= DurableAccepted'
           /\ \A y \in Procs :
                 /\ rev[y] \in Nat /\ rev'[y] \in Nat
                 /\ seen[y].accepted \in Nat /\ seen'[y].accepted \in Nat
<1>1. IInv' /\ DiskUp
  BY SafeNext, DiskNext
<1>2. ASSUME IInv
      PROVE  /\ accepted \in Nat /\ storeAccepted \in Nat
             /\ DurableAccepted \in Nat /\ accepted <= DurableAccepted
             /\ DurableAccepted <= storeAccepted
             /\ \A y \in Procs : rev[y] \in Nat /\ seen[y].accepted \in Nat
  BY <1>2, LocalFacts, ProcsFacts DEF IInv, TypeOK, StateTypes, RestartSafe
<1>3. /\ accepted' \in Nat /\ storeAccepted' \in Nat /\ DurableAccepted' \in Nat
      /\ \A y \in Procs : rev'[y] \in Nat /\ seen'[y].accepted \in Nat
  BY <1>1 DEF IInv, TypeOK, StateTypes, DiskTypes, LocalTypes, Revisions,
     DurableAccepted
<1> QED
  BY <1>1, <1>2, <1>3 DEF IInv, DiskUp

\* With that, only a restart takes the accepted revision back: the commit is
\* the one step that assigns it.
LEMMA AheadAdvances ==
    ASSUME IInv, AheadOK, [Next]_vars
    PROVE  accepted <= accepted' \/ crashes' > crashes
<1>0. /\ TypeOK /\ accepted \in Nat /\ accepted' \in Nat
      /\ \A y \in Procs : rev[y] \in Nat /\ seen[y].accepted \in Nat
  BY RevisionTypes
<1>1. ASSUME NEW r \in Requests, BatchStep(r)
      PROVE  accepted <= accepted'
  <2>1. CASE Commit(r)
    BY <1>0, <2>1, ProcsFacts DEF Commit, AheadOK, Handling
  <2>2. CASE MergeStatus(r)
    BY <1>0, <2>2, ProcsFacts DEF MergeStatus, MergeSeen, Larger
  <2>3. CASE ~Commit(r) /\ ~MergeStatus(r)
    BY <1>0, <1>1, <2>3
       DEF BatchStep, RequestStep, BatchFails, ReadHashes, Reserve,
           ApplyBatch, SaveSummary, UpdateExact, PutJob, Answer, PostBatch,
           ReadStatus, stateVars
  <2> QED
    BY <2>1, <2>2, <2>3
<1>2. ASSUME NEW x \in Indexers, IndexerStep(x)
      PROVE  accepted <= accepted'
  BY <1>0, <1>2, IndexerState, ProcsFacts DEF Larger
<1>3. CASE Crash
  BY <1>0, <1>3 DEF Crash, TypeOK, BoundTypes
<1>4. CASE UNCHANGED vars
  BY <1>0, <1>4 DEF vars
<1> QED
  BY <1>1, <1>2, <1>3, <1>4, Steps

\* Without pollers nobody but the batch raises the accepted revision between
\* its reservation and its commit.
LEMMA AloneNext ==
    ASSUME OneClient, Pollers = {}, IInv, AheadOK, [Next]_vars
    PROVE  AheadOK'
<1>0. /\ TypeOK /\ accepted \in Nat /\ accepted' \in Nat
      /\ \A y \in Procs : rev[y] \in Nat /\ rev'[y] \in Nat
  BY RevisionTypes
<1>1. ASSUME NEW r \in Requests, BatchStep(r)
      PROVE  AheadOK'
  <2>1. \A s \in Requests : s = r
    BY DEF OneClient
  <2>2. pc'[r] \in Handling => accepted' <= rev'[r]
    <3>1. CASE pc[r] \in Enters
      <4>1. pc'[r] \in Enters \cup {"hash", "final"}
        <5>1. PostBatch(r) \/ ReadStatus(r) \/ MergeStatus(r)
          BY <1>1, <3>1
             DEF Enters, BatchStep, RequestStep, BatchFails, ReadHashes,
             Reserve, ApplyBatch, SaveSummary, UpdateExact, Commit, PutJob,
             Answer
        <5> QED
          BY <1>0, <3>1, <5>1, ProcsFacts, ConstantsAssumption
             DEF PostBatch, ReadStatus, MergeStatus, Goto, TypeOK, LocalTypes,
                 Enters
      <4> QED
        BY <4>1 DEF Enters, Handling
    <3>2. CASE pc[r] \notin Enters
      <4>1. body[r].clientRevision \in Nat
        BY <1>0 DEF TypeOK, LocalTypes, Body
      <4> QED
        BY <1>0, <1>1, <3>2, <4>1, BatchCourse, ProcsFacts
           DEF AheadOK, Handling, NextRevision, Larger
    <3> QED
      BY <3>1, <3>2
  <2> QED
    BY <2>1, <2>2 DEF AheadOK
<1>2. ASSUME NEW x \in Indexers, IndexerStep(x)
      PROVE  AheadOK'
  <2>1. accepted' = accepted
    BY <1>0, <1>2, IndexerState
  <2>2. \A r \in Requests : pc'[r] = pc[r] /\ rev'[r] = rev[r]
    BY <1>0, <1>2, IndexerFrame, ProcsFacts, ConstantsAssumption
       DEF Same, Indexers
  <2> QED
    BY <2>1, <2>2 DEF AheadOK
<1>3. CASE Crash
  BY <1>3, ProcsFacts DEF Crash, AheadOK, Handling
<1>4. CASE UNCHANGED vars
  BY <1>4 DEF vars, AheadOK
<1> QED
  BY <1>1, <1>2, <1>3, <1>4, Steps

\* Every batch comes from a client at revision n.
ClientAt(n) == \A b \in Batches : b.clientRevision = n

\* The inductive invariant behind AcceptedAdvances when status requests merge
\* what they read: all batches come from clients at revision n, and index.json
\* is ahead of the process, or of what a restart loads, by the one batch whose
\* handler failed or was cut off, and no further than the next batch goes.
AheadBy(n) ==
    /\ \A r \in Requests :
          /\ pc[r] # "idle" => body[r].clientRevision = n
          /\ pc[r] \in Handling => /\ storeAccepted <= rev[r]
                                   /\ rev[r] <= Larger(accepted + 1, n)
    /\ loaded => storeAccepted <= Larger(accepted + 1, n)
    /\ ~loaded =>
          /\ storeAccepted <= Larger(DurableAccepted + 1, n)
          /\ \A y \in Requests \cup Pollers :
                /\ pc[y] \in Enters
                /\ pc[y] = "merge" =>
                      storeAccepted <= Larger(seen[y].accepted + 1, n)

\* The bound moves with the accepted revision.
LEMMA BoundMoves ==
    ASSUME NEW a \in Nat, NEW b \in Nat, NEW s \in Nat, NEW n \in Nat,
           a <= b, s <= Larger(a + 1, n)
    PROVE  s <= Larger(b + 1, n)
BY DEF Larger

\* Every step keeps it.
LEMMA AheadByNext ==
    ASSUME OneClient, NEW n \in Nat, ClientAt(n), IInv, AheadBy(n),
           [Next]_vars
    PROVE  AheadBy(n)'
<1>0. /\ TypeOK /\ TypeOK' /\ accepted \in Nat /\ accepted' \in Nat
      /\ storeAccepted \in Nat /\ storeAccepted' \in Nat
      /\ DurableAccepted \in Nat /\ DurableAccepted' \in Nat
      /\ accepted <= DurableAccepted /\ DurableAccepted <= storeAccepted
      /\ DurableAccepted <= DurableAccepted'
      /\ \A y \in Procs :
            /\ rev[y] \in Nat /\ rev'[y] \in Nat
            /\ seen[y].accepted \in Nat /\ seen'[y].accepted \in Nat
  BY RevisionTypes
<1>1. ASSUME NEW r \in Requests, BatchStep(r)
      PROVE  AheadBy(n)'
  <2>1. \A s \in Requests : s = r
    BY DEF OneClient
  <2>2. \A y \in Procs \ {r} : Same(y)
    BY <1>0, <1>1, BatchFrame
  <2>3. \A y \in Pollers : pc'[y] = pc[y] /\ seen'[y] = seen[y]
    BY <2>2, ProcsFacts, ConstantsAssumption DEF Same
  <2>4. r \in Procs
    BY ProcsFacts
  <2>5. pc'[r] # "idle" => body'[r].clientRevision = n
    <3>1. CASE PostBatch(r)
      <4>1. PICK b \in Batches : body' = [body EXCEPT ![r] = b]
        BY <3>1 DEF PostBatch
      <4>2. body'[r] = b
        BY <1>0, <4>1 DEF TypeOK, LocalTypes
      <4> QED
        BY <4>2 DEF ClientAt
    <3>2. CASE UNCHANGED body /\ pc[r] # "idle"
      BY <3>2 DEF AheadBy
    <3>3. CASE pc'[r] = "idle"
      BY <3>3
    <3>4. \/ UNCHANGED body /\ pc[r] # "idle"
          \/ pc'[r] = "idle"
          \/ PostBatch(r)
      <4> USE <1>0, <2>4 DEF TypeOK, LocalTypes, EndBatch, Return, Goto
      <4>1. CASE BatchFails(r) \/ PutJob(r) \/ Answer(r)
        BY <4>1 DEF BatchFails, PutJob, Answer
      <4>2. CASE Commit(r)
        BY <4>2 DEF Commit
      <4>3. CASE \/ ReadStatus(r) \/ MergeStatus(r) \/ ReadHashes(r)
                 \/ Reserve(r) \/ ApplyBatch(r) \/ SaveSummary(r)
                 \/ UpdateExact(r)
        BY <4>3 DEF ReadStatus, MergeStatus, ReadHashes, Reserve, ApplyBatch,
           SaveSummary, UpdateExact
      <4> QED
        BY <1>1, <4>1, <4>2, <4>3 DEF BatchStep, RequestStep
    <3> QED
      BY <3>1, <3>2, <3>3, <3>4
  <2>6. CASE pc[r] \in Enters
    <3>1. PostBatch(r) \/ ReadStatus(r) \/ MergeStatus(r)
      BY <1>1, <2>6
         DEF Enters, BatchStep, RequestStep, BatchFails, ReadHashes, Reserve,
         ApplyBatch, SaveSummary, UpdateExact, Commit, PutJob, Answer
    <3>2. UNCHANGED storeAccepted /\ pc'[r] \in Enters \cup {"hash"}
      BY <1>0, <2>4, <2>6, <3>1, ConstantsAssumption
         DEF PostBatch, ReadStatus, MergeStatus, Goto, TypeOK, LocalTypes,
             Enters, diskVars
    <3>3. CASE loaded
      <4>1. loaded' /\ accepted <= accepted'
        <5>1. CASE PostBatch(r) \/ ReadStatus(r)
          <6>1. accepted' = accepted
            BY <5>1 DEF PostBatch, ReadStatus, stateVars
          <6> QED
            BY <1>0, <1>1, <3>3, <6>1, BatchFrame
        <5>2. CASE MergeStatus(r)
          BY <1>0, <2>4, <5>2 DEF MergeStatus, MergeSeen, Larger
        <5> QED
          BY <3>1, <5>1, <5>2
      <4>2. storeAccepted' <= Larger(accepted' + 1, n)
        <5>1. storeAccepted <= Larger(accepted + 1, n)
          BY <3>3 DEF AheadBy
        <5> QED
          BY <1>0, <3>2, <4>1, <5>1, BoundMoves
      <4> QED
        BY <2>1, <2>5, <3>2, <4>1, <4>2 DEF AheadBy, Enters, Handling
    <3>4. CASE ~loaded
      <4>1. CASE /\ pc[r] = "merge" /\ loaded'
                 /\ accepted' = Larger(accepted, seen[r].accepted)
        <5>1. storeAccepted' <= Larger(accepted' + 1, n)
          BY <1>0, <2>4, <3>2, <3>4, <4>1 DEF AheadBy, Larger
        <5> QED
          BY <2>1, <2>5, <3>2, <4>1, <5>1 DEF AheadBy, Enters, Handling
      <4>2. CASE /\ UNCHANGED <<accepted, loaded>>
                 /\ pc'[r] \in Enters
                 /\ pc'[r] = "merge" => seen'[r].accepted = DurableAccepted
        <5>1. storeAccepted <= Larger(DurableAccepted + 1, n)
          BY <3>4 DEF AheadBy
        <5>2. storeAccepted' <= Larger(DurableAccepted' + 1, n)
          BY <1>0, <3>2, <5>1, BoundMoves
        <5>3. ASSUME NEW y \in Requests \cup Pollers
              PROVE  /\ pc'[y] \in Enters
                     /\ pc'[y] = "merge" =>
                           storeAccepted' <= Larger(seen'[y].accepted + 1, n)
          <6>1. CASE y = r
            BY <3>2, <4>2, <5>1, <6>1
          <6>2. CASE y # r
            BY <2>1, <2>3, <3>2, <3>4, <6>2 DEF AheadBy
          <6> QED
            BY <6>1, <6>2
        <5> QED
          BY <2>1, <2>5, <3>4, <4>2, <5>2, <5>3 DEF AheadBy, Enters, Handling
      <4> QED
        BY <1>0, <1>1, <2>4, <2>6, <3>4, <4>1, <4>2, EntryFacts
    <3> QED
      BY <3>3, <3>4
  <2>7. CASE pc[r] \notin Enters
    <3>1. loaded /\ loaded'
      BY <1>0, <1>1, <2>7, BatchFrame DEF AheadBy
    <3>2. /\ body[r].clientRevision = n
          /\ storeAccepted <= Larger(accepted + 1, n)
          /\ pc[r] \in Handling => /\ storeAccepted <= rev[r]
                                   /\ rev[r] <= Larger(accepted + 1, n)
      BY <2>7, <3>1 DEF AheadBy, Enters
    <3>3. /\ storeAccepted' <= Larger(accepted' + 1, n)
          /\ pc'[r] \in Handling => /\ storeAccepted' <= rev'[r]
                                    /\ rev'[r] <= Larger(accepted' + 1, n)
      <4> USE <1>0, <1>1, <2>4, <2>7, <3>2 DEF Handling
      <4>1. CASE pc[r] = "reserve"
        <5>1. UNCHANGED <<accepted, storeAccepted>>
              /\ (pc'[r] \in Handling => rev'[r] = Larger(accepted + 1, n))
          BY <4>1, BatchCourse DEF NextRevision
        <5> QED
          BY <5>1
      <4>2. CASE pc[r] = "apply"
        <5>1. accepted' = accepted
              /\ \/ storeAccepted' = storeAccepted /\ pc'[r] \notin Handling
                 \/ storeAccepted' = Larger(storeAccepted, rev[r])
                    /\ rev'[r] = rev[r]
          BY <4>2, BatchCourse
        <5> QED
          BY <4>2, <5>1 DEF Larger
      <4>3. CASE pc[r] \in {"save", "exact"}
        <5>1. UNCHANGED <<accepted, storeAccepted>>
              /\ (pc'[r] \in Handling => rev'[r] = rev[r])
          BY <4>3, BatchCourse
        <5> QED
          BY <4>3, <5>1
      <4>4. CASE pc[r] = "commit"
        <5>1. /\ accepted' = rev[r] /\ storeAccepted' = storeAccepted
              /\ pc'[r] \notin Handling
          BY <4>4, BatchCourse
        <5> QED
          BY <4>4, <5>1 DEF Larger
      <4>5. CASE pc[r] \notin Handling /\ pc[r] # "reserve"
        <5>1. UNCHANGED <<accepted, storeAccepted>> /\ pc'[r] \notin Handling
          BY <4>5, BatchCourse
        <5> QED
          BY <5>1
      <4> QED
        BY <4>1, <4>2, <4>3, <4>4, <4>5
    <3> QED
      BY <2>1, <2>5, <3>1, <3>3 DEF AheadBy
  <2> QED
    BY <2>6, <2>7
<1>2. ASSUME NEW x \in Indexers, IndexerStep(x)
      PROVE  AheadBy(n)'
  <2>1. /\ UNCHANGED <<storeAccepted, body>>
        /\ \A y \in Procs \ {x} : Same(y)
        /\ loaded => loaded'
    BY <1>0, <1>2, IndexerFrame
  <2>2. \A r \in Requests : pc'[r] = pc[r] /\ rev'[r] = rev[r]
                            /\ seen'[r] = seen[r]
    BY <2>1, ProcsFacts, ConstantsAssumption DEF Same, Indexers
  <2>3. accepted <= accepted'
    BY <1>0, <1>2, IndexerState, ProcsFacts DEF Larger
  <2>4. \A r \in Requests :
          /\ pc'[r] # "idle" => body'[r].clientRevision = n
          /\ pc'[r] \in Handling => /\ storeAccepted' <= rev'[r]
                                    /\ rev'[r] <= Larger(accepted' + 1, n)
    <3> TAKE r \in Requests
    <3>1. /\ pc'[r] = pc[r] /\ rev'[r] = rev[r] /\ body'[r] = body[r]
          /\ storeAccepted' = storeAccepted /\ rev[r] \in Nat
      BY <1>0, <2>1, <2>2, ProcsFacts
    <3>2. Larger(accepted + 1, n) <= Larger(accepted' + 1, n)
          /\ Larger(accepted + 1, n) \in Nat /\ Larger(accepted' + 1, n) \in Nat
      BY <1>0, <2>3 DEF Larger
    <3> QED
      BY <1>0, <3>1, <3>2 DEF AheadBy
  <2>5. CASE loaded
    <3>1. storeAccepted' <= Larger(accepted' + 1, n)
      BY <1>0, <2>1, <2>3, <2>5 DEF AheadBy, Larger
    <3> QED
      BY <2>1, <2>4, <2>5, <3>1 DEF AheadBy
  <2>6. CASE ~loaded /\ loaded'
    <3>1. /\ x \in Pollers /\ pc[x] = "merge"
          /\ accepted' = Larger(accepted, seen[x].accepted)
      BY <1>0, <1>2, <2>6, IndexerState DEF AheadBy, Enters
    <3>2. storeAccepted' <= Larger(accepted' + 1, n)
      BY <1>0, <2>1, <2>6, <3>1, ProcsFacts DEF AheadBy, Larger
    <3> QED
      BY <2>4, <2>6, <3>2 DEF AheadBy
  <2>7. CASE ~loaded /\ ~loaded'
    <3>1. storeAccepted <= Larger(DurableAccepted + 1, n)
      BY <2>7 DEF AheadBy
    <3>2. storeAccepted' <= Larger(DurableAccepted' + 1, n)
      <4>1. storeAccepted' = storeAccepted
        BY <2>1
      <4> QED
        BY <1>0, <3>1, <4>1 DEF Larger
    <3>3. ASSUME NEW y \in Requests \cup Pollers
          PROVE  /\ pc'[y] \in Enters
                 /\ pc'[y] = "merge" =>
                       storeAccepted' <= Larger(seen'[y].accepted + 1, n)
      <4>1. CASE y = x
        <5>1. x \in Pollers /\ pc[x] \in Enters /\ x \in Procs
          BY <2>7, <3>3, <4>1, ConstantsAssumption, ProcsFacts
             DEF AheadBy, Indexers
        <5>2. /\ pc'[x] \in Enters
              /\ pc'[x] = "merge" => seen'[x].accepted = DurableAccepted
          BY <1>0, <1>2, <2>7, <5>1, EntryFacts
        <5> QED
          BY <2>1, <3>1, <4>1, <5>2
      <4>2. CASE y # x
        BY <2>1, <2>7, <4>2, ProcsFacts DEF AheadBy, Same
      <4> QED
        BY <4>1, <4>2
    <3> QED
      BY <2>4, <2>7, <3>2, <3>3 DEF AheadBy
  <2> QED
    BY <2>5, <2>6, <2>7
<1>3. CASE Crash
  <2>1. /\ ~loaded' /\ \A y \in Procs : pc'[y] = "idle"
        /\ UNCHANGED <<storeAccepted, DurableAccepted>>
    BY <1>3 DEF Crash, diskVars, DurableAccepted
  <2>2. storeAccepted <= Larger(DurableAccepted + 1, n)
    BY <1>0 DEF AheadBy, Larger
  <2> QED
    BY <2>1, <2>2, ProcsFacts DEF AheadBy, Enters, Handling
<1>4. CASE UNCHANGED vars
  BY <1>4 DEF vars, AheadBy, DurableAccepted
<1> QED
  BY <1>1, <1>2, <1>3, <1>4, Steps

\* At the start nothing is accepted.
LEMMA AheadInit == ASSUME Init PROVE AheadOK /\ \A n \in Nat : AheadBy(n)
BY ProcsFacts
   DEF Init, AheadOK, AheadBy, Enters, Handling, DurableAccepted, Larger

\* accepted_revision does not go back while the process runs, although the
\* commit assigns the revision that was computed several awaits earlier: one
\* client sends its batches one after the other, and either no status request
\* merges a revision of the store in between, or the batches carry the same
\* client revision (the server takes the larger, so 0 stands for every client
\* at or behind the server).
THEOREM AcceptedNeverDrops ==
    ASSUME OneClient,
           Pollers = {} \/ \E n \in Nat : ClientAt(n)
    PROVE  Spec => AcceptedAdvances
<1>0. IInv /\ AheadOK /\ [Next]_vars
         => [accepted <= accepted' \/ crashes' > crashes]_vars
  BY AheadAdvances
<1>1. Init => AheadOK
  BY AheadInit
<1>2. ASSUME Pollers = {}
      PROVE  Spec => AcceptedAdvances
  <2>1. IInv /\ AheadOK /\ [Next]_vars => AheadOK'
    BY <1>2, AloneNext
  <2> QED
    BY <1>0, <1>1, <2>1, IInvHolds, PTL DEF Spec, AcceptedAdvances
<1>3. ASSUME NEW n \in Nat, ClientAt(n)
      PROVE  Spec => AcceptedAdvances
  <2>1. Init => AheadBy(n)
    BY AheadInit
  <2>2. IInv /\ AheadBy(n) /\ [Next]_vars => AheadBy(n)'
    BY <1>3, AheadByNext
  <2>3. IInv /\ AheadBy(n) => AheadOK
    <3> SUFFICES ASSUME IInv, AheadBy(n), NEW r \in Requests,
                        pc[r] \in Handling
                 PROVE  accepted <= rev[r]
      BY DEF AheadOK
    <3>1. /\ accepted \in Nat /\ storeAccepted \in Nat /\ rev[r] \in Nat
          /\ DurableAccepted \in Nat /\ DurableAccepted <= storeAccepted
          /\ accepted <= DurableAccepted /\ storeAccepted <= rev[r]
      BY LocalFacts, ProcsFacts
         DEF IInv, TypeOK, StateTypes, RestartSafe, AheadBy
    <3> QED
      BY <3>1
  <2> QED
    BY <1>0, <2>1, <2>2, <2>3, IInvHolds, PTL DEF Spec, AcceptedAdvances
<1> QED
  BY <1>2, <1>3

-----------------------------------------------------------------------------
(* The exact index.                                                        *)

\* Without faults and restarts a step is a handler's, the worker's or a status
\* request's, and none of them fails.
LEMMA UndisturbedSteps ==
    ASSUME TypeOK, Undisturbed, [Next]_vars
    PROVE  /\ \/ \E r \in Requests : PostBatch(r) \/ RequestStep(r)
              \/ \E x \in Indexers : IndexerStep(x)
              \/ UNCHANGED vars
           /\ \A r \in Requests : ~BatchFails(r)
           /\ \A x \in Indexers : ~InterruptSemantic(x) /\ ~MarkFails(x)
<1>1. ~Fault /\ ~Crash
  BY DEF Fault, Crash, Undisturbed, TypeOK, BoundTypes
<1> QED
  BY <1>1, Steps DEF BatchStep, BatchFails, InterruptSemantic, MarkFails

\* The bodies and the changes made from them name a path once.
LEMMA ClientStep ==
    ASSUME TypeOK, CleanBatches, ClientOK, [Next]_vars
    PROVE  ClientOK'
<1> USE ProcsFacts DEF TypeOK, LocalTypes
<1>1. Clean(NoBody) /\ Clean(NoChange)
  BY DEF Clean, NoBody, NoChange, NoFiles, Upserts
<1>2. ASSUME NEW r \in Requests, BatchStep(r)
      PROVE  ClientOK'
  <2>1. \A s \in Requests \ {r} : work'[s] = work[s]
    BY <1>2, BatchFrame DEF Same
  <2>2. \A s \in Requests \ {r} : body'[s] = body[s]
    BY <1>2
       DEF BatchStep, RequestStep, PostBatch, BatchFails, ReadStatus,
           MergeStatus, ReadHashes, Reserve, ApplyBatch, SaveSummary,
           UpdateExact, Commit, PutJob, Answer, EndBatch
  <2>3. Clean(body'[r]) /\ Clean(work'[r])
    <3>1. Clean(body[r]) /\ Clean(work[r])
      BY DEF ClientOK
    <3>2. CASE PostBatch(r)
      <4>1. PICK b \in Batches : body' = [body EXCEPT ![r] = b]
        BY <3>2 DEF PostBatch
      <4>2. body'[r] = b /\ work' = work
        BY <3>2, <4>1 DEF PostBatch
      <4> QED
        BY <3>1, <4>2 DEF CleanBatches
    <3>3. CASE BatchFails(r) \/ PutJob(r) \/ Answer(r)
      BY <1>1, <3>3 DEF BatchFails, PutJob, Answer, EndBatch, Return
    <3>4. CASE Commit(r)
      BY <1>1, <3>1, <3>4 DEF Commit, EndBatch, Return
    <3>5. CASE ReadHashes(r)
      <4>1. body' = body
        BY <3>5 DEF ReadHashes
      <4>2. /\ work'[r].dels = body[r].dels
            /\ \A p \in Paths : work'[r].files[p] # None
                  => body[r].files[p] # None
        BY <3>5 DEF ReadHashes
      <4> QED
        BY <3>1, <4>1, <4>2 DEF Clean, Upserts
    <3>6. CASE \/ ReadStatus(r) \/ MergeStatus(r) \/ Reserve(r)
               \/ ApplyBatch(r) \/ SaveSummary(r) \/ UpdateExact(r)
      <4>1. body' = body /\ work' = work
        BY <3>6, ConstantsAssumption
           DEF ReadStatus, MergeStatus, Reserve, ApplyBatch, SaveSummary,
               UpdateExact
      <4> QED
        BY <3>1, <4>1
    <3> QED
      BY <1>2, <3>2, <3>3, <3>4, <3>5, <3>6 DEF BatchStep, RequestStep
  <2>4. ASSUME NEW s \in Requests
        PROVE  Clean(body'[s]) /\ Clean(work'[s])
    <3>1. CASE s = r
      BY <2>3, <3>1
    <3>2. CASE s # r
      BY <2>1, <2>2, <3>2 DEF ClientOK
    <3> QED
      BY <3>1, <3>2
  <2> QED
    BY <2>4 DEF ClientOK, Clean, Upserts
<1>3. ASSUME NEW x \in Indexers, IndexerStep(x)
      PROVE  ClientOK'
  <2>1. \A r \in Requests : body'[r] = body[r] /\ work'[r] = work[r]
    BY <1>3, IndexerFrame, ConstantsAssumption DEF Same, Indexers
  <2> QED
    BY <2>1 DEF ClientOK, Clean, Upserts
<1>4. CASE Crash
  <2>1. \A r \in Requests : body'[r] = NoBody /\ work'[r] = NoChange
    BY <1>4 DEF Crash
  <2> QED
    BY <1>1, <2>1 DEF ClientOK, Clean, Upserts
<1>5. CASE UNCHANGED vars
  BY <1>5 DEF vars, ClientOK, Clean, Upserts
<1> QED
  BY <1>2, <1>3, <1>4, <1>5, Steps

\* The handler that has replaced index.json and has not acknowledged.
Written == {"save", "exact", "commit", "put"}
\* The handler that compared its batch with the recorded hashes.
Compared == Written \cup {"reserve", "apply", "answer"}

\* What is left of a batch are the files that differ from what was acknowledged
\* last.
DeltaOK(r) ==
    /\ work[r].dels = body[r].dels
    /\ \A p \in Paths : work[r].files[p] =
          IF body[r].files[p] = acked[p] THEN None ELSE body[r].files[p]

\* The inductive invariant behind ExactCurrent: with one client the snapshot
\* and the exact index differ from what is acknowledged by the one batch that
\* is being handled, first the one and then the other.
ExactOK ==
    /\ (\A r \in Requests : pc[r] \notin Written)
          => snapshot = acked /\ exact = acked
    /\ \A r \in Requests :
          /\ pc[r] \in {"save", "exact"} => exact = acked
          /\ pc[r] \in {"commit", "put"} => exact = snapshot
          /\ pc[r] \in Written => snapshot = FilesThenDeletes(acked, work[r])
          /\ pc[r] \in Compared => DeltaOK(r)
          /\ pc[r] = "answer" => ~Effective(work[r])

\* A change that names a path once may be written before or after its deletes
\* are taken; a change without effect writes nothing.
LEMMA TreeFacts ==
    ASSUME NEW t \in Tree, NEW c \in Change
    PROVE  /\ Clean(c) => DeletesThenFiles(t, c) = FilesThenDeletes(t, c)
           /\ ~Effective(c) => FilesThenDeletes(t, c) = t
<1>1. Clean(c) => DeletesThenFiles(t, c) = FilesThenDeletes(t, c)
  BY DEF Clean, Upserts, DeletesThenFiles, FilesThenDeletes
<1>2. ~Effective(c) => FilesThenDeletes(t, c) = t
  BY DEF Effective, FilesThenDeletes, Tree
<1> QED
  BY <1>1, <1>2

\* What is left of a batch comes to the same tree as the whole batch.
LEMMA DeltaFacts ==
    ASSUME TypeOK, NEW r \in Requests, DeltaOK(r)
    PROVE  FilesThenDeletes(acked, body[r]) = FilesThenDeletes(acked, work[r])
BY DEF DeltaOK, FilesThenDeletes

\* Every step keeps the invariant.
LEMMA ExactNext ==
    ASSUME OneClient, Undisturbed, TypeOK, ClientOK, ExactOK, [Next]_vars
    PROVE  ExactOK'
<1>1. ASSUME NEW r \in Requests, PostBatch(r) \/ RequestStep(r)
      PROVE  ExactOK'
  <2>1. \A s \in Requests : s = r
    BY DEF OneClient
  <2>2. /\ r \in Procs /\ acked \in Tree /\ exact \in Tree /\ snapshot \in Tree
        /\ work[r] \in Change /\ body[r] \in Body /\ pc \in [Procs -> Labels]
        /\ work \in [Procs -> Change] /\ Clean(work[r])
    BY ProcsFacts DEF TypeOK, LocalTypes, IndexTypes, DiskTypes, BoundTypes,
       ClientOK
  <2>3. ASSUME UNCHANGED <<snapshot, exact, acked>>,
               pc[r] \notin Written, pc'[r] \notin Compared
        PROVE  ExactOK'
    BY <2>1, <2>3 DEF ExactOK, Written, Compared
  <2>4. ASSUME UNCHANGED <<snapshot, exact, acked, body, work>>,
               pc[r] \in Compared, pc'[r] \in Compared,
               pc'[r] \in Written <=> pc[r] \in Written,
               pc'[r] \in {"save", "exact"} => pc[r] \in {"save", "exact"},
               pc'[r] \in {"commit", "put"} => pc[r] \in {"commit", "put"},
               pc'[r] = "answer" => ~Effective(work[r])
        PROVE  ExactOK'
    BY <2>1, <2>4 DEF ExactOK, DeltaOK, Effective
  <2>5. CASE PostBatch(r)
    BY <2>2, <2>3, <2>5 DEF PostBatch, Goto, Written, Compared, diskVars,
       indexVars
  <2>6. CASE ReadStatus(r)
    BY <2>2, <2>3, <2>6 DEF ReadStatus, Goto, Written, Compared, diskVars,
       indexVars
  <2>7. CASE MergeStatus(r)
    BY <2>2, <2>3, <2>7, ConstantsAssumption
       DEF MergeStatus, Goto, Written, Compared, diskVars, indexVars
  <2>8. CASE ReadHashes(r)
    <3>1. /\ pc[r] = "hash" /\ pc'[r] = "reserve"
          /\ UNCHANGED <<snapshot, exact, acked, body>>
          /\ work'[r] = [files |-> [p \in Paths |->
                                       IF body[r].files[p] = snapshot[p]
                                       THEN None ELSE body[r].files[p]],
                         dels |-> body[r].dels]
      BY <2>2, <2>8 DEF ReadHashes, Goto, diskVars, indexVars
    <3>2. snapshot = acked /\ exact = acked
      BY <2>1, <3>1 DEF ExactOK, Written
    <3>3. DeltaOK(r)'
      BY <3>1, <3>2 DEF DeltaOK
    <3> QED
      BY <2>1, <3>1, <3>2, <3>3 DEF ExactOK, Written
  <2>9. CASE Reserve(r)
    <3>1. UNCHANGED <<snapshot, exact, acked, body, work>>
      BY <2>9 DEF Reserve, diskVars, indexVars
    <3>2. /\ pc[r] = "reserve" /\ pc'[r] \in {"apply", "answer"}
          /\ pc'[r] = "answer" => ~Effective(work[r])
      BY <2>2, <2>9 DEF Reserve, Goto
    <3> QED
      BY <2>4, <3>1, <3>2 DEF Written, Compared
  <2>10. CASE ApplyBatch(r)
    <3>1. /\ pc[r] = "apply" /\ pc'[r] = "save"
          /\ UNCHANGED <<exact, acked, body, work>>
          /\ snapshot' = FilesThenDeletes(snapshot, work[r])
      BY <2>2, <2>10 DEF ApplyBatch, Goto, indexVars
    <3>2. snapshot = acked /\ exact = acked
      BY <2>1, <3>1 DEF ExactOK, Written
    <3>3. snapshot' = FilesThenDeletes(acked, work[r])
      BY <3>1, <3>2
    <3>4. snapshot' = FilesThenDeletes(acked', work'[r])
      BY <3>1, <3>3
    <3>5. DeltaOK(r)'
      BY <3>1 DEF DeltaOK, ExactOK, Compared
    <3> QED
      BY <2>1, <3>1, <3>2, <3>4, <3>5 DEF ExactOK, Written
  <2>11. CASE SaveSummary(r)
    <3>1. UNCHANGED <<snapshot, exact, acked, body, work>>
      BY <2>11 DEF SaveSummary, indexVars
    <3>2. \/ pc[r] = "save" /\ pc'[r] = "exact"
          \/ pc[r] = "savemark" /\ pc'[r] = "finish"
      BY <2>2, <2>11 DEF SaveSummary, Goto
    <3> QED
      BY <2>3, <2>4, <3>1, <3>2 DEF Written, Compared
  <2>12. CASE UpdateExact(r)
    <3>1. /\ pc[r] = "exact" /\ pc'[r] = "commit"
          /\ UNCHANGED <<snapshot, acked, body, work>>
          /\ exact' = DeletesThenFiles(exact, work[r])
      BY <2>2, <2>12 DEF UpdateExact, Goto, diskVars
    <3>2. exact = acked /\ snapshot = FilesThenDeletes(acked, work[r])
          /\ DeltaOK(r)
      BY <3>1 DEF ExactOK, Written, Compared
    <3>3. exact' = snapshot
      BY <2>2, <3>1, <3>2, TreeFacts
    <3>4. DeltaOK(r)'
      BY <3>1, <3>2 DEF DeltaOK
    <3>5. /\ exact' = snapshot'
          /\ snapshot' = FilesThenDeletes(acked', work'[r])
      BY <3>1, <3>2, <3>3
    <3> QED
      BY <2>1, <3>1, <3>4, <3>5 DEF ExactOK, Written
  <2>13. ASSUME UNCHANGED <<snapshot, exact>>, Acknowledge(r), pc'[r] = "idle",
                pc[r] \in {"commit", "put", "answer"}
         PROVE  ExactOK'
    <3>1. acked' = FilesThenDeletes(acked, work[r])
      BY <2>13, DeltaFacts DEF Acknowledge, ExactOK, Compared, Written
    <3>2. CASE pc[r] \in {"commit", "put"}
      <4>1. exact = snapshot /\ snapshot = acked'
        BY <3>1, <3>2 DEF ExactOK, Written
      <4> QED
        BY <2>1, <2>13, <4>1 DEF ExactOK, Written, Compared
    <3>3. CASE pc[r] = "answer"
      <4>1. acked' = acked /\ snapshot = acked /\ exact = acked
        BY <2>1, <2>2, <3>1, <3>3, TreeFacts DEF ExactOK, Written
      <4> QED
        BY <2>1, <2>13, <4>1 DEF ExactOK, Written, Compared
    <3> QED
      BY <2>13, <3>2, <3>3
  <2>14. CASE Commit(r)
    <3>1. pc[r] = "commit" /\ UNCHANGED <<snapshot, exact>>
      BY <2>14 DEF Commit, diskVars, indexVars
    <3>2. \/ Acknowledge(r) /\ pc'[r] = "idle"
          \/ pc'[r] = "put" /\ UNCHANGED <<acked, body, work>>
      BY <2>2, <2>14 DEF Commit, EndBatch, Return, Goto
    <3> QED
      BY <2>4, <2>13, <3>1, <3>2 DEF Written, Compared
  <2>15. CASE PutJob(r) \/ Answer(r)
    <3>1. /\ pc[r] \in {"put", "answer"} /\ UNCHANGED <<snapshot, exact>>
          /\ Acknowledge(r) /\ pc'[r] = "idle"
      BY <2>2, <2>15 DEF PutJob, Answer, EndBatch, Return, Goto, diskVars,
         indexVars
    <3> QED
      BY <2>13, <3>1
  <2> QED
    BY <1>1, <2>5, <2>6, <2>7, <2>8, <2>9, <2>10, <2>11, <2>12, <2>14, <2>15
       DEF RequestStep
<1>2. ASSUME NEW x \in Indexers, IndexerStep(x)
      PROVE  ExactOK'
  <2>1. UNCHANGED <<snapshot, exact, acked, body>>
    BY <1>2, IndexerFrame
  <2>2. \A r \in Requests : pc'[r] = pc[r] /\ work'[r] = work[r]
    BY <1>2, IndexerFrame, ProcsFacts, ConstantsAssumption DEF Same, Indexers
  <2> QED
    BY <2>1, <2>2 DEF ExactOK, DeltaOK, Effective
<1>3. CASE UNCHANGED vars
  BY <1>3 DEF vars, ExactOK, DeltaOK, Effective
<1> QED
  BY <1>1, <1>2, <1>3, UndisturbedSteps

\* At the start nothing is acknowledged.
LEMMA ExactInit == ASSUME Init PROVE ClientOK /\ ExactOK
BY ProcsFacts
   DEF Init, ClientOK, ExactOK, Clean, Upserts, NoBody, NoChange, NoFiles,
       Written, Compared

\* An acknowledged file is in the exact index: without faults, batches that
\* one client sends one after the other reach the exact index whole and before
\* they are acknowledged, although the batch's handler leaves out the files
\* whose hash is recorded already, and takes the deletes before the files where
\* the snapshot takes them after.  Status requests and recoveries may run.
THEOREM ExactAnswersForAcked ==
    ASSUME OneClient, CleanBatches, Undisturbed
    PROVE  Spec => []ExactCurrent
<1>1. Init => ClientOK /\ ExactOK
  BY ExactInit
<1>2. TypeOK /\ ClientOK /\ ExactOK /\ [Next]_vars => ClientOK' /\ ExactOK'
  BY ClientStep, ExactNext
<1>3. ExactOK => ExactCurrent
  BY DEF ExactOK, ExactCurrent, Written
<1> QED
  BY <1>1, <1>2, <1>3, TypeCorrect, PTL DEF Spec

-----------------------------------------------------------------------------
(* The changes on their way to the semantic index.                         *)

\* None is no content; what the semantic index includes is a content.
LEMMA IndexableFacts ==
    /\ Indexable \subseteq Entry /\ None \in Indexable
    /\ None \notin SemanticContents /\ SemanticContents \subseteq Indexable
    /\ NoFiles \in [Paths -> Indexable] /\ Upserts(NoChange) = {}
    /\ Worker \in Procs /\ Requests \subseteq Procs /\ Worker \notin Requests
BY ConstantsAssumption DEF Indexable, Entry, NoFiles, NoChange, Upserts, Procs,
   Indexers

\* A group of jobs names a path once, and has only contents that are indexed.
LEMMA GroupFacts ==
    ASSUME NEW changes \in Seq(Job), NEW k \in 1..Len(changes)
    PROVE  LET group == GroupChange(changes, k) IN
           /\ group.files \in [Paths -> Indexable]
           /\ Clean(group)
           /\ group.dels \subseteq Paths
           /\ \A p \in Paths : group.files[p] # None =>
                 LastIncluded(changes, k, p, group.files[p])
           /\ \A p \in Paths, c \in Contents :
                 LastIncluded(changes, k, p, c) => group.files[p] # None
<1> DEFINE Has(p) == \E c \in Contents : LastIncluded(changes, k, p, c)
           Pick(p) == CHOOSE c \in Contents : LastIncluded(changes, k, p, c)
           kept == [p \in Paths |-> IF Has(p) THEN Pick(p) ELSE None]
           dropped == DeletedPaths(changes, k)
<1>1. \A p \in Paths : Has(p) => /\ Pick(p) \in Contents
                                 /\ LastIncluded(changes, k, p, Pick(p))
  OBVIOUS
<1>2. \A p \in Paths : \A c : LastIncluded(changes, k, p, c) =>
                             c \in SemanticContents /\ p \notin dropped
  <2> SUFFICES ASSUME NEW p \in Paths, NEW c, LastIncluded(changes, k, p, c),
                      p \in dropped
               PROVE  c \in SemanticContents /\ FALSE
    BY DEF LastIncluded
  <2>1. PICK i \in 1..k :
           /\ changes[i].files[p] = c /\ c \in SemanticContents
           /\ \A n \in (i + 1)..k :
                 /\ changes[n].files[p] \notin SemanticContents
                 /\ p \notin changes[n].dels
    BY DEF LastIncluded
  <2>2. PICK j \in 1..k :
           /\ p \in changes[j].dels /\ changes[j].files[p] = None
           /\ \A n \in (j + 1)..k : changes[n].files[p] = None
    BY DEF DeletedPaths
  <2>3. j \notin (i + 1)..k /\ i \notin (j + 1)..k /\ i # j
    BY <2>1, <2>2, IndexableFacts
  <2> QED
    BY <2>3
<1> HIDE DEF Pick, Has
<1>3. kept \in [Paths -> Indexable]
  BY <1>1, <1>2 DEF Indexable
<1>4. dropped \subseteq Paths
  BY DEF DeletedPaths
<1>5. \A p \in Paths : kept[p] # None =>
         LastIncluded(changes, k, p, kept[p]) /\ p \notin dropped
  BY <1>1, <1>2
<1>6. \A p \in Paths, c \in Contents :
         LastIncluded(changes, k, p, c) => kept[p] # None
  <2> SUFFICES ASSUME NEW p \in Paths, NEW c \in Contents,
                      LastIncluded(changes, k, p, c)
               PROVE  kept[p] # None
    OBVIOUS
  <2>1. Has(p)
    BY DEF Has
  <2> QED
    BY <1>1, <2>1, ConstantsAssumption
<1> HIDE DEF kept, dropped
<1>7. GroupChange(changes, k) = [files |-> kept, dels |-> dropped]
  BY DEF GroupChange, kept, dropped, Has, Pick
<1>8. Clean(GroupChange(changes, k))
  BY <1>5, <1>7 DEF Clean, Upserts
<1> QED
  BY <1>3, <1>4, <1>5, <1>6, <1>7, <1>8

\* The worker starts a group.
LEMMA StartGroupFacts ==
    ASSUME TypeOK, NEW changes \in Seq(Job), StartGroup(changes)
    PROVE  \E k \in 1..Len(changes) :
              /\ work'[Worker] = GroupChange(changes, k)
              /\ drained' = SubSeq(changes, k + 1, Len(changes))
              /\ pc'[Worker] = "index"
              /\ \A r \in Requests : work'[r] = work[r] /\ pc'[r] = pc[r]
BY IndexableFacts DEF StartGroup, Goto, TypeOK, LocalTypes

\* What a step does to the worker's group, its drained jobs and the queue: it
\* leaves them alone, adds a job, writes the group, ends it, or starts one.
LEMMA RequestFrame ==
    ASSUME TypeOK, NEW r \in Requests,
           PostBatch(r) \/ RequestStep(r) \/ BatchFails(r)
    PROVE  /\ work'[Worker] = work[Worker] /\ pc'[Worker] = pc[Worker]
           /\ \A s \in Requests \ {r} : work'[s] = work[s] /\ pc'[s] = pc[s]
           /\ drained' = drained /\ semantic' = semantic
           /\ snapshot' = snapshot \/ ApplyBatch(r)
<1>1. BatchStep(r)
  BY DEF BatchStep
<1>2. snapshot' = snapshot \/ ApplyBatch(r)
  BY DEF RequestStep, PostBatch, BatchFails, ReadStatus, MergeStatus,
     ReadHashes, Reserve, SaveSummary, UpdateExact, Commit, PutJob, Answer,
     diskVars
<1> QED
  BY <1>1, <1>2, BatchFrame, IndexableFacts DEF Same

\* The end of a group, with or without another.
LEMMA NextGroupFacts ==
    ASSUME TypeOK, NEW busy, NextGroup(busy)
    PROVE  \/ StartGroup(drained)
           \/ /\ drained = <<>> /\ drained' = <<>> /\ pc'[Worker] = "idle"
              /\ work'[Worker] = NoChange
              /\ \A r \in Requests : work'[r] = work[r] /\ pc'[r] = pc[r]
BY IndexableFacts DEF NextGroup, Return, Goto, TypeOK, LocalTypes

\* A step of the worker that neither starts nor ends a group.
LEMMA IndexFrame ==
    ASSUME TypeOK,
           IndexStep(Worker) \/ MarkFails(Worker) \/ InterruptSemantic(Worker)
    PROVE  /\ UNCHANGED <<work, drained, queue, snapshot>>
           /\ \A r \in Requests : pc'[r] = pc[r]
           /\ pc'[Worker] \notin {"idle", "index"}
           /\ semantic' = semantic \/ UpdateSemantic(Worker)
                 \/ InterruptSemantic(Worker)
<1> USE IndexableFacts DEF TypeOK, LocalTypes, Goto, queueVars, indexVars,
        diskVars
<1>1. CASE UpdateSemantic(Worker)
  BY <1>1 DEF UpdateSemantic
<1>2. CASE MarkIndexed(Worker)
  BY <1>2 DEF MarkIndexed
<1>3. CASE SaveSummary(Worker)
  BY <1>3 DEF SaveSummary
<1>4. CASE MarkFails(Worker)
  BY <1>4 DEF MarkFails
<1>5. CASE InterruptSemantic(Worker)
  BY <1>5 DEF InterruptSemantic
<1> QED
  BY <1>1, <1>2, <1>3, <1>4, <1>5 DEF IndexStep

\* Once the changes are through, the rows of p are those of v.
Leaves(changes, rows, p, v) ==
    /\ \A i \in 1..Len(changes) :
          /\ p \in Touched(changes[i])
          /\ \A k \in (i + 1)..Len(changes) : p \notin Touched(changes[k])
          => changes[i].files[p] = v
    /\ (\A i \in 1..Len(changes) : p \notin Touched(changes[i]))
          => rows[p] = v

\* A set of positions has a last one.
LEMMA LastExists ==
    ASSUME NEW n \in Nat, NEW T \in SUBSET (1..n), T # {}
    PROVE  \E m \in T : \A k \in T : k <= m
<1> DEFINE D == {n - k : k \in T}
<1>1. D \subseteq Nat /\ D # {}
  <2>1. \A k \in T : n - k \in Nat
    OBVIOUS
  <2>2. PICK k \in T : TRUE
    OBVIOUS
  <2>3. n - k \in D
    OBVIOUS
  <2> QED
    BY <2>1, <2>3
<1>2. IsWellFoundedOn(OpToRel(<, Nat), Nat)
  BY NatLessThanWellFounded
<1>3. PICK d \in D : \A e \in D : ~(<<e, d>> \in OpToRel(<, Nat))
  BY <1>1, <1>2, WFMin
<1>4. \A e \in D : ~(e < d)
  BY <1>1, <1>3 DEF OpToRel
<1>5. PICK m \in T : d = n - m
  OBVIOUS
<1>6. \A k \in T : n - k \in D
  OBVIOUS
<1>7. \A k \in T : k <= m
  BY <1>4, <1>5, <1>6
<1> QED
  BY <1>7

\* A change joins the others at the end.
LEMMA LeavesAppended ==
    ASSUME NEW S, NEW changes \in Seq(S), NEW c \in S, NEW rows, NEW p, NEW v,
           \/ p \in Touched(c) /\ c.files[p] = v
           \/ p \notin Touched(c) /\ Leaves(changes, rows, p, v)
    PROVE  Leaves(Append(changes, c), rows, p, v)
<1> DEFINE all == Append(changes, c)
           n == Len(changes)
<1>1. /\ Len(all) = n + 1 /\ all[n + 1] = c /\ n \in Nat
      /\ \A i \in 1..n : all[i] = changes[i]
  OBVIOUS
<1> HIDE DEF all, n
<1>2. CASE p \in Touched(c) /\ c.files[p] = v
  BY <1>1, <1>2 DEF Leaves, all
<1>3. CASE p \notin Touched(c) /\ Leaves(changes, rows, p, v)
  <2>1. ASSUME NEW i \in 1..Len(all), p \in Touched(all[i]),
               \A k \in (i + 1)..Len(all) : p \notin Touched(all[k])
        PROVE  all[i].files[p] = v
    <3>1. i \in 1..n
      BY <1>1, <1>3, <2>1
    <3>2. \A k \in (i + 1)..n : p \notin Touched(changes[k])
      BY <1>1, <2>1, <3>1
    <3> QED
      BY <1>1, <1>3, <2>1, <3>1, <3>2 DEF Leaves, n
  <2>2. ASSUME \A i \in 1..Len(all) : p \notin Touched(all[i])
        PROVE  rows[p] = v
    BY <1>1, <1>3, <2>2 DEF Leaves, n
  <2> QED
    BY <2>1, <2>2 DEF Leaves, all
<1> QED
  BY <1>2, <1>3

\* The first change is written to the rows.
LEMMA LeavesWritten ==
    ASSUME NEW S, NEW c \in S, NEW rest \in Seq(S), NEW rows, NEW new,
           NEW p, NEW v, Leaves(<<c>> \o rest, rows, p, v),
           p \in Touched(c) => new[p] = c.files[p],
           p \notin Touched(c) => new[p] = rows[p]
    PROVE  Leaves(rest, new, p, v)
<1> DEFINE all == <<c>> \o rest
           n == Len(rest)
<1>1. /\ Len(all) = n + 1 /\ all[1] = c /\ n \in Nat
      /\ \A i \in 1..n : all[i + 1] = rest[i]
  OBVIOUS
<1>2. Leaves(all, rows, p, v)
  OBVIOUS
<1> HIDE DEF all, n
<1>3. \A k \in 2..Len(all) : k - 1 \in 1..n /\ all[k] = rest[k - 1]
  <2> TAKE k \in 2..Len(all)
  <2>1. k - 1 \in 1..n /\ (k - 1) + 1 = k
    BY <1>1
  <2> QED
    BY <1>1, <2>1
<1>4. ASSUME NEW i \in 1..n, p \in Touched(rest[i]),
             \A k \in (i + 1)..n : p \notin Touched(rest[k])
      PROVE  rest[i].files[p] = v
  <2>1. i + 1 \in 1..Len(all) /\ all[i + 1] = rest[i]
    BY <1>1
  <2>2. \A k \in ((i + 1) + 1)..Len(all) : p \notin Touched(all[k])
    BY <1>1, <1>3, <1>4
  <2> QED
    BY <1>2, <1>4, <2>1, <2>2 DEF Leaves
<1>5. ASSUME \A i \in 1..n : p \notin Touched(rest[i])
      PROVE  new[p] = v
  <2>1. \A k \in 2..Len(all) : p \notin Touched(all[k])
    BY <1>3, <1>5
  <2>2. CASE p \in Touched(c)
    <3>1. c.files[p] = v
      BY <1>1, <1>2, <2>1, <2>2 DEF Leaves
    <3> QED
      BY <2>2, <3>1
  <2>3. CASE p \notin Touched(c)
    <3>1. \A k \in 1..Len(all) : p \notin Touched(all[k])
      BY <1>1, <2>1, <2>3
    <3> QED
      BY <1>2, <2>3, <3>1 DEF Leaves
  <2> QED
    BY <2>2, <2>3
<1> QED
  BY <1>4, <1>5 DEF Leaves, n

\* A group does what its jobs do one after the other: it touches a path only if
\* one of them does, and the last that does brings the group's content.
LEMMA GroupTouches ==
    ASSUME NEW jobsTaken \in Seq(Job), NEW k \in 1..Len(jobsTaken),
           NEW p \in Paths, NEW v \in Indexable
    PROVE  LET group == GroupChange(jobsTaken, k) IN
           /\ p \in Touched(group) =>
                 \E i \in 1..k : p \in Touched(jobsTaken[i])
           /\ \A i \in 1..k :
                 /\ p \in Touched(jobsTaken[i]) /\ jobsTaken[i].files[p] = v
                 /\ \A n \in (i + 1)..k : p \notin Touched(jobsTaken[n])
                 => p \in Touched(group) /\ group.files[p] = v
<1> DEFINE group == GroupChange(jobsTaken, k)
<1>1. /\ Clean(group) /\ group.dels = DeletedPaths(jobsTaken, k)
      /\ group.files[p] # None =>
            LastIncluded(jobsTaken, k, p, group.files[p])
      /\ \A c \in Contents :
            LastIncluded(jobsTaken, k, p, c) => group.files[p] # None
  BY GroupFacts DEF GroupChange
<1> HIDE DEF group
<1>2. p \in Touched(group) <=> p \in group.dels \/ group.files[p] # None
  BY DEF Touched, Upserts
<1>3. \A i : p \in Touched(jobsTaken[i]) <=>
                p \in jobsTaken[i].dels \/ jobsTaken[i].files[p] # None
  BY DEF Touched, Upserts
<1>4. ASSUME p \in Touched(group)
      PROVE  \E i \in 1..k : p \in Touched(jobsTaken[i])
  <2>1. CASE p \in group.dels
    BY <1>1, <1>3, <2>1 DEF DeletedPaths
  <2>2. CASE group.files[p] # None
    BY <1>1, <1>3, <2>2, IndexableFacts DEF LastIncluded
  <2> QED
    BY <1>2, <1>4, <2>1, <2>2
<1>5. ASSUME NEW i \in 1..k, p \in Touched(jobsTaken[i]),
             jobsTaken[i].files[p] = v,
             \A n \in (i + 1)..k : p \notin Touched(jobsTaken[n])
      PROVE  p \in Touched(group) /\ group.files[p] = v
  <2>1. \A n \in (i + 1)..k :
           jobsTaken[n].files[p] = None /\ p \notin jobsTaken[n].dels
    BY <1>3, <1>5
  <2>2. CASE v \in SemanticContents
    <3>1. LastIncluded(jobsTaken, k, p, v)
      BY <1>5, <2>1, <2>2, IndexableFacts DEF LastIncluded
    <3>2. LastIncluded(jobsTaken, k, p, group.files[p])
          /\ group.files[p] # None
      BY <1>1, <2>2, <3>1, ConstantsAssumption
    <3>3. PICK j \in 1..k :
             /\ jobsTaken[j].files[p] = group.files[p]
             /\ \A n \in (j + 1)..k :
                   jobsTaken[n].files[p] \notin SemanticContents
      BY <3>2 DEF LastIncluded
    <3>4. j \notin (i + 1)..k /\ i \notin (j + 1)..k
      BY <1>5, <2>1, <2>2, <3>2, <3>3
    <3>5. j = i
      BY <3>4
    <3> QED
      BY <1>2, <1>5, <3>2, <3>3, <3>5
  <2>3. CASE v = None
    <3>1. p \in jobsTaken[i].dels
      BY <1>3, <1>5, <2>3
    <3>2. p \in group.dels
      BY <1>1, <1>5, <2>1, <2>3, <3>1 DEF DeletedPaths
    <3> QED
      BY <1>1, <1>2, <2>3, <3>2 DEF Clean, Upserts
  <2> QED
    BY <2>2, <2>3 DEF Indexable
<1> QED
  BY <1>4, <1>5 DEF group

\* A group in the place of its jobs, before the other changes.
LEMMA GroupLeaves ==
    ASSUME NEW jobsTaken \in Seq(Job), NEW rest \in Seq(Job),
           NEW k \in 1..Len(jobsTaken), NEW rows,
           NEW p \in Paths, NEW v \in Indexable,
           Leaves(jobsTaken \o rest, rows, p, v)
    PROVE  Leaves(<<GroupChange(jobsTaken, k)>>
                    \o SubSeq(jobsTaken, k + 1, Len(jobsTaken)) \o rest,
                  rows, p, v)
<1> DEFINE group == GroupChange(jobsTaken, k)
           before == jobsTaken \o rest
           after == <<group>> \o SubSeq(jobsTaken, k + 1, Len(jobsTaken))
                      \o rest
           others == SubSeq(jobsTaken, k + 1, Len(jobsTaken))
           n == Len(jobsTaken)
           m == Len(rest)
           T == {i \in 1..k : p \in Touched(jobsTaken[i])}
<1>1. /\ n \in Nat /\ m \in Nat /\ k \in Nat /\ 1 <= k /\ k <= n
      /\ Len(before) = n + m
      /\ \A i \in 1..k : before[i] = jobsTaken[i]
  OBVIOUS
<1>2. /\ others \in Seq(Job) /\ Len(others) = n - k
      /\ \A i \in 1..(n - k) : others[i] = jobsTaken[i + k]
  OBVIOUS
<1>3. Leaves(before, rows, p, v)
  OBVIOUS
<1> HIDE DEF group
<1>4. /\ Len(after) = 1 + (n - k) + m /\ after[1] = group
      /\ \A i \in 2..Len(after) :
            after[i] = before[i + k - 1] /\ i + k - 1 \in (k + 1)..Len(before)
  <2> DEFINE S == Job \cup {group}
  <2>1. <<group>> \in Seq(S) /\ others \in Seq(S) /\ rest \in Seq(S)
        /\ jobsTaken \in Seq(S)
    BY <1>2
  <2> HIDE DEF S, others
  <2> DEFINE front == <<group>> \o others
  <2>2. /\ front \in Seq(S) /\ Len(front) = 1 + (n - k)
        /\ front[1] = group
        /\ \A i \in 2..(1 + (n - k)) : front[i] = others[i - 1]
    BY <1>1, <1>2, <2>1
  <2> HIDE DEF front
  <2>3. /\ Len(front \o rest) = 1 + (n - k) + m
        /\ \A i \in 1..(1 + (n - k)) : (front \o rest)[i] = front[i]
        /\ \A i \in (2 + (n - k))..(1 + (n - k) + m) :
              (front \o rest)[i] = rest[i - (1 + (n - k))]
    <3>1. /\ Len(front \o rest) = Len(front) + m
          /\ \A i \in 1..(Len(front) + m) : (front \o rest)[i] =
                IF i <= Len(front) THEN front[i] ELSE rest[i - Len(front)]
      BY <2>1, <2>2, ConcatProperties
    <3> HIDE DEF n, m
    <3> QED
      BY <1>1, <2>2, <3>1
  <2>4. after = front \o rest
    BY DEF front, others
  <2>5. /\ \A i \in 1..n : before[i] = jobsTaken[i]
        /\ \A i \in (n + 1)..(n + m) : before[i] = rest[i - n]
    BY <1>1
  <2> HIDE DEF after, before, n, m
  <2>6. Len(after) = 1 + (n - k) + m /\ after[1] = group
    BY <1>1, <2>2, <2>3, <2>4
  <2>7. ASSUME NEW i \in 2..Len(after)
        PROVE  /\ after[i] = before[i + k - 1]
               /\ i + k - 1 \in (k + 1)..Len(before)
    <3>1. i + k - 1 \in (k + 1)..Len(before) /\ i \in Nat
      BY <1>1, <2>6
    <3>2. CASE i <= 1 + (n - k)
      <4>1. after[i] = others[i - 1] /\ i - 1 \in 1..(n - k)
        BY <1>1, <2>2, <2>3, <2>4, <3>2
      <4>2. others[i - 1] = jobsTaken[i + k - 1] /\ i + k - 1 \in 1..n
        <5>1. (i - 1) + k = i + k - 1
          BY <1>1, <3>1
        <5>2. others[i - 1] = jobsTaken[(i - 1) + k]
          BY <1>2, <4>1
        <5>3. i + k - 1 \in 1..n
          BY <1>1, <3>1, <3>2
        <5> QED
          BY <5>1, <5>2, <5>3
      <4> QED
        BY <2>5, <3>1, <4>1, <4>2
    <3>3. CASE i > 1 + (n - k)
      <4>1. i \in (2 + (n - k))..(1 + (n - k) + m)
        BY <1>1, <2>6, <3>3
      <4>2. after[i] = rest[i - (1 + (n - k))]
        BY <2>3, <2>4, <4>1
      <4>3. i + k - 1 \in (n + 1)..(n + m)
            /\ (i + k - 1) - n = i - (1 + (n - k))
        BY <1>1, <4>1
      <4> QED
        BY <2>5, <3>1, <4>2, <4>3
    <3> QED
      BY <1>1, <3>1, <3>2, <3>3
  <2> QED
    BY <2>6, <2>7
<1>5. \A i \in (k + 1)..Len(before) :
         i - k + 1 \in 2..Len(after) /\ before[i] = after[i - k + 1]
  <2> HIDE DEF before, after, n, m
  <2> TAKE i \in (k + 1)..Len(before)
  <2>1. i - k + 1 \in 2..Len(after) /\ (i - k + 1) + k - 1 = i
    BY <1>1, <1>4
  <2> QED
    BY <1>4, <2>1
<1> HIDE DEF before, after, n, m
<1>6. ASSUME \A i \in 2..Len(after) : p \notin Touched(after[i]), T # {}
      PROVE  p \in Touched(group) /\ group.files[p] = v
  <2>1. k \in Nat /\ T \in SUBSET (1..k)
    BY <1>1
  <2>2. PICK last \in T : \A i \in T : i <= last
    BY <1>6, <2>1, LastExists
  <2>3. last \in 1..k /\ \A i \in (last + 1)..k : i \notin T
    BY <2>1, <2>2
  <2>4. \A i \in (last + 1)..k : p \notin Touched(jobsTaken[i])
    BY <2>1, <2>3
  <2>5. \A i \in (k + 1)..Len(before) : p \notin Touched(before[i])
    BY <1>5, <1>6
  <2>6. \A i \in (last + 1)..Len(before) : p \notin Touched(before[i])
    BY <1>1, <2>3, <2>4, <2>5
  <2>7. before[last].files[p] = v /\ p \in Touched(jobsTaken[last])
        /\ before[last] = jobsTaken[last]
    BY <1>1, <1>3, <2>2, <2>3, <2>6 DEF Leaves
  <2> HIDE DEF T
  <2> QED
    BY <2>3, <2>4, <2>7, GroupTouches DEF group
<1>7. ASSUME NEW i \in 1..Len(after), p \in Touched(after[i]),
             \A j \in (i + 1)..Len(after) : p \notin Touched(after[j])
      PROVE  after[i].files[p] = v
  <2>1. CASE i = 1
    <3>1. p \in Touched(group)
      BY <1>4, <1>7, <2>1
    <3>2. T # {}
      BY <3>1, GroupTouches DEF group
    <3> QED
      BY <1>4, <1>6, <1>7, <2>1, <3>2
  <2>2. CASE i # 1
    <3>1. i \in 2..Len(after) /\ i + k - 1 \in 1..Len(before)
          /\ after[i] = before[i + k - 1]
      <4>1. i \in 2..Len(after)
        BY <1>1, <1>7, <2>2
      <4>2. after[i] = before[i + k - 1] /\ i + k - 1 \in (k + 1)..Len(before)
        BY <1>4, <4>1
      <4>3. i + k - 1 \in 1..Len(before)
        BY <1>1, <4>2
      <4> QED
        BY <4>1, <4>2, <4>3
    <3>2. ASSUME NEW j \in ((i + k - 1) + 1)..Len(before)
          PROVE  p \notin Touched(before[j])
      <4>1. j \in (k + 1)..Len(before) /\ j - k + 1 \in (i + 1)..Len(after)
        BY <1>1, <1>4, <3>1
      <4> QED
        BY <1>5, <1>7, <4>1
    <3> QED
      BY <1>3, <1>7, <3>1, <3>2 DEF Leaves
  <2> QED
    BY <2>1, <2>2
<1>8. ASSUME \A i \in 1..Len(after) : p \notin Touched(after[i])
      PROVE  rows[p] = v
  <2>1. 1 \in 1..Len(after) /\ after[1] = group
    BY <1>1, <1>4
  <2>2. T = {}
    BY <1>6, <1>8, <2>1
  <2>3. \A i \in (k + 1)..Len(before) : p \notin Touched(before[i])
    BY <1>5, <1>8
  <2>4. \A i \in 1..Len(before) : p \notin Touched(before[i])
    BY <1>1, <2>2, <2>3
  <2> QED
    BY <1>3, <2>4 DEF Leaves
<1>9. Leaves(after, rows, p, v)
  BY <1>7, <1>8 DEF Leaves
<1> QED
  BY <1>9 DEF after, group

\* The parts of what is on its way.
LEMMA UnderWayParts ==
    ASSUME NEW w \in Change, NEW d \in Seq(Job), NEW q \in Seq(Job)
    PROVE  /\ <<>> \o d \o q = d \o q
           /\ <<>> \o <<>> \o q = q
           /\ <<w>> \o d \o q = <<w>> \o (d \o q)
           /\ d \o q \in Seq(Job \cup Change)
           /\ <<w>> \o d \o q \in Seq(Job \cup Change)
           /\ \A j \in Job :
                 /\ <<w>> \o d \o Append(q, j) = Append(<<w>> \o d \o q, j)
                 /\ <<>> \o d \o Append(q, j) = Append(<<>> \o d \o q, j)
<1> DEFINE S == Job \cup Change
<1>1. /\ w \in S /\ <<w>> \in Seq(S) /\ <<>> \in Seq(S) /\ Job \subseteq S
      /\ d \in Seq(S) /\ q \in Seq(S)
  OBVIOUS
<1> HIDE DEF S
<1>2. <<>> \o d = d /\ <<>> \o q = q /\ <<>> \o <<>> = <<>>
  BY <1>1, ConcatEmptySeq
<1>3. d \o q \in Seq(S) /\ <<w>> \o d \in Seq(S)
      /\ (<<w>> \o d) \o q \in Seq(S)
  BY <1>1, ConcatProperties
<1>4. (<<w>> \o d) \o q = <<w>> \o (d \o q)
  BY <1>1, ConcatAssociative
<1>5. ASSUME NEW f \in Seq(S), NEW j \in Job
      PROVE  f \o Append(q, j) = Append(f \o q, j)
  <2>1. Append(q, j) = q \o <<j>> /\ <<j>> \in Seq(S) /\ j \in S
    BY <1>1, AppendIsConcat
  <2>2. f \o q \in Seq(S) /\ Append(f \o q, j) = (f \o q) \o <<j>>
    BY <1>1, <2>1, ConcatProperties, AppendIsConcat
  <2> QED
    BY <1>1, <2>1, <2>2, ConcatAssociative
<1> QED
  BY <1>2, <1>3, <1>4, <1>5, <1>1 DEF S

\* What is on its way when a job joins the queue.
LEMMA JobJoins ==
    ASSUME TypeOK, NEW j \in Job, queue' = Append(queue, j), drained' = drained,
           work'[Worker] = work[Worker], pc'[Worker] = pc[Worker]
    PROVE  UnderWay' = Append(UnderWay, j) /\ UnderWay \in Seq(Job \cup Change)
<1> DEFINE w == work[Worker]
<1>1. /\ <<>> \o drained \o queue = drained \o queue
      /\ drained \o queue \in Seq(Job \cup Change)
      /\ <<w>> \o drained \o queue \in Seq(Job \cup Change)
      /\ <<w>> \o drained \o Append(queue, j)
            = Append(<<w>> \o drained \o queue, j)
      /\ <<>> \o drained \o Append(queue, j)
            = Append(<<>> \o drained \o queue, j)
  <2>1. w \in Change /\ drained \in Seq(Job) /\ queue \in Seq(Job)
    BY IndexableFacts DEF TypeOK, LocalTypes, QueueTypes
  <2> HIDE DEF w
  <2> QED
    BY <2>1, UnderWayParts
<1>2. CASE pc[Worker] = "index"
  BY <1>1, <1>2 DEF UnderWay
<1>3. CASE pc[Worker] # "index"
  BY <1>1, <1>3 DEF UnderWay
<1> QED
  BY <1>2, <1>3

\* The group the worker has names a path once; a worker that waits for the
\* queue has nothing left.
GroupOK ==
    /\ Clean(work[Worker])
    /\ pc[Worker] = "idle" => drained = <<>>

\* Whatever leaves rows in the end still does when the worker starts a group
\* of the jobs it takes first,
LEMMA WayStartGroup ==
    ASSUME TypeOK, NEW changes \in Seq(Job), StartGroup(changes),
           queue' \in Seq(Job), UnderWay = changes \o queue',
           semantic' = semantic, NEW p \in Paths, NEW v \in Indexable,
           Leaves(UnderWay, semantic, p, v)
    PROVE  Leaves(UnderWay', semantic', p, v)
<1>1. PICK k \in 1..Len(changes) :
         /\ work'[Worker] = GroupChange(changes, k)
         /\ drained' = SubSeq(changes, k + 1, Len(changes))
         /\ pc'[Worker] = "index"
  BY StartGroupFacts
<1>2. UnderWay' = <<GroupChange(changes, k)>>
                    \o SubSeq(changes, k + 1, Len(changes)) \o queue'
  BY <1>1 DEF UnderWay
<1> QED
  BY <1>2, GroupLeaves

\* and with every other step of the worker: coalescing, writing and ending a
\* group.
LEMMA WayWorker ==
    ASSUME TypeOK, TypeOK', GroupOK, WorkerStep,
           NEW p \in Paths, NEW v \in Indexable,
           Leaves(UnderWay, semantic, p, v)
    PROVE  Leaves(UnderWay', semantic', p, v)
<1>1. /\ queue \in Seq(Job) /\ drained \in Seq(Job) /\ work[Worker] \in Change
      /\ queue' \in Seq(Job)
  BY IndexableFacts DEF TypeOK, QueueTypes, LocalTypes
<1>2. CASE TakeJobs
  <2>1. /\ pc[Worker] = "idle" /\ queue' = <<>> /\ StartGroup(queue)
        /\ semantic' = semantic
    BY <1>2 DEF TakeJobs, indexVars
  <2>2. UnderWay = <<>> \o <<>> \o queue
    BY <1>1, <2>1 DEF GroupOK, UnderWay
  <2>3. UnderWay = queue \o queue'
    BY <1>1, <2>1, <2>2, UnderWayParts, ConcatEmptySeq
  <2> QED
    BY <1>1, <2>1, <2>3, WayStartGroup
<1>3. CASE FinishGroup \/ FailGroup
  <2>1. PICK busy : NextGroup(busy)
    BY <1>3 DEF FinishGroup, FailGroup
  <2>2. /\ pc[Worker] # "index" /\ queue' = queue /\ semantic' = semantic
    BY <1>3 DEF FinishGroup, FailGroup, indexVars
  <2>3. UnderWay = drained \o queue'
    BY <1>1, <2>2, UnderWayParts DEF UnderWay
  <2>4. CASE StartGroup(drained)
    BY <1>1, <2>2, <2>3, <2>4, WayStartGroup
  <2>5. CASE drained = <<>> /\ drained' = <<>> /\ pc'[Worker] = "idle"
    <3>1. UnderWay' = UnderWay
      BY <2>2, <2>5 DEF UnderWay
    <3> QED
      BY <2>2, <3>1
  <2> QED
    BY <1>1, <2>1, <2>4, <2>5, NextGroupFacts
<1>4. CASE UpdateSemantic(Worker)
  <2> DEFINE w == work[Worker]
  <2>1. /\ UNCHANGED <<drained, queue>> /\ pc'[Worker] # "index"
        /\ pc[Worker] = "index" /\ semantic' = FilesThenDeletes(semantic, w)
    BY <1>4, IndexFrame DEF IndexStep, UpdateSemantic
  <2>2. UnderWay' = drained \o queue /\ UnderWay = <<w>> \o (drained \o queue)
    BY <1>1, <2>1, UnderWayParts DEF UnderWay
  <2>3. drained \o queue \in Seq(Job \cup Change) /\ w \in Job \cup Change
    BY <1>1, UnderWayParts
  <2>4. Clean(w)
    BY DEF GroupOK
  <2> HIDE DEF w
  <2>5. /\ p \in Touched(w) => semantic'[p] = w.files[p]
        /\ p \notin Touched(w) => semantic'[p] = semantic[p]
    BY <2>1, <2>4 DEF Clean, Touched, Upserts, FilesThenDeletes
  <2> QED
    BY <2>2, <2>3, <2>5, LeavesWritten
<1>5. CASE MarkIndexed(Worker) \/ SaveSummary(Worker)
  <2>1. /\ UNCHANGED <<work, drained, queue, semantic>>
        /\ pc[Worker] # "index" /\ pc'[Worker] # "index"
    BY <1>5, IndexFrame
       DEF IndexStep, MarkIndexed, SaveSummary, UpdateSemantic, indexVars
  <2>2. UnderWay' = UnderWay
    BY <2>1 DEF UnderWay
  <2> QED
    BY <2>1, <2>2
<1> QED
  BY <1>2, <1>3, <1>4, <1>5 DEF WorkerStep, IndexStep

-----------------------------------------------------------------------------
(* The semantic index, and what the barrier reports.                       *)

\* With no pollers a step that does not fail is a batch's or the worker's.
LEMMA ClientSteps ==
    ASSUME TypeOK, Undisturbed, Pollers = {}, [Next]_vars
    PROVE  \/ \E r \in Requests : PostBatch(r) \/ RequestStep(r)
           \/ WorkerStep
           \/ UNCHANGED vars
<1>1. Indexers = {Worker}
  BY DEF Indexers
<1>2. IndexerStep(Worker) => \/ WorkerStep \/ InterruptSemantic(Worker)
                             \/ MarkFails(Worker)
  BY DEF IndexerStep, WorkerStep
<1> QED
  BY <1>1, <1>2, UndisturbedSteps

\* Bounds of the revisions of the jobs q, and their order.
Above(q, n) == \A i \in 1..Len(q) : n < q[i].rev
UpTo(q, n) == \A i \in 1..Len(q) : q[i].rev <= n
Below(q, n) == \A i \in 1..Len(q) : q[i].rev < n
Rising(q) == \A i \in 1..Len(q) : \A k \in (i + 1)..Len(q) : q[i].rev < q[k].rev

\* The worker has a group whose revision is not marked.
Unmarked == pc[Worker] \in {"index", "mark"}

\* A handler that waits for room has the newest revision.
NewestOK(r) ==
    /\ rev[r] = accepted /\ storeIndexed < rev[r]
    /\ Below(drained, rev[r]) /\ Below(queue, rev[r])
    /\ Unmarked => rev[Worker] < rev[r]

\* The revisions between the indexed and the accepted one are those on their
\* way, in the order in which the worker gets to them.
RevsOK ==
    /\ storeIndexed <= accepted
    /\ Rising(drained) /\ Rising(queue)
    /\ Above(drained, storeIndexed) /\ UpTo(drained, accepted)
    /\ Above(queue, storeIndexed) /\ UpTo(queue, accepted)
    /\ \A i \in 1..Len(drained) : Above(queue, drained[i].rev)
    /\ Unmarked => /\ storeIndexed < rev[Worker] /\ rev[Worker] <= accepted
                   /\ Above(drained, rev[Worker]) /\ Above(queue, rev[Worker])
    /\ \A r \in Requests : /\ pc[r] \in Handling => accepted < rev[r]
                           /\ pc[r] = "put" => NewestOK(r)

\* The jobs' revisions compare as numbers do.
LEMMA RevBounds ==
    ASSUME NEW q \in Seq(Job), NEW m \in Nat, NEW n \in Nat
    PROVE  /\ Above(q, m) /\ n <= m => Above(q, n)
           /\ UpTo(q, m) /\ m <= n => UpTo(q, n)
           /\ UpTo(q, m) /\ m < n => Below(q, n)
BY JobRevs DEF Above, UpTo, Below

\* A job newer than all others joins them.
LEMMA RevAppend ==
    ASSUME NEW q \in Seq(Job), NEW j \in Job
    PROVE  /\ \A n \in Nat : Above(q, n) /\ n < j.rev => Above(Append(q, j), n)
           /\ \A n \in Nat : UpTo(q, n) /\ j.rev <= n => UpTo(Append(q, j), n)
           /\ Rising(q) /\ Below(q, j.rev) => Rising(Append(q, j))
<1> DEFINE all == Append(q, j)
           n == Len(q)
<1>1. /\ n \in Nat /\ Len(all) = n + 1 /\ all[n + 1] = j
      /\ \A i \in 1..n : all[i] = q[i]
  OBVIOUS
<1> HIDE DEF all
<1>2. \A m \in Nat : Above(q, m) /\ m < j.rev => Above(all, m)
  BY <1>1 DEF Above
<1>3. \A m \in Nat : UpTo(q, m) /\ j.rev <= m => UpTo(all, m)
  BY <1>1 DEF UpTo
<1>4. ASSUME Rising(q), Below(q, j.rev)
      PROVE  Rising(all)
  <2> SUFFICES ASSUME NEW i \in 1..Len(all), NEW k \in (i + 1)..Len(all)
               PROVE  all[i].rev < all[k].rev
    BY DEF Rising
  <2>1. i \in 1..n /\ all[i] = q[i]
    BY <1>1
  <2>2. CASE k = n + 1
    BY <1>1, <1>4, <2>1, <2>2 DEF Below
  <2>3. CASE k # n + 1
    <3>1. k \in (i + 1)..n /\ all[k] = q[k]
      BY <1>1, <2>1, <2>3
    <3> QED
      BY <1>4, <2>1, <3>1 DEF Rising
  <2> QED
    BY <2>2, <2>3
<1> QED
  BY <1>2, <1>3, <1>4 DEF all

\* A group has the newest revision of its jobs, and those left are newer.
LEMMA RevStartGroup ==
    ASSUME TypeOK, NEW q \in Seq(Job), Rising(q), StartGroup(q)
    PROVE  /\ pc'[Worker] = "index"
           /\ \A y \in Procs \ {Worker} : pc'[y] = pc[y] /\ rev'[y] = rev[y]
           /\ Rising(drained') /\ Above(drained', rev'[Worker])
           /\ \E i \in 1..Len(q) : rev'[Worker] = q[i].rev
           /\ \A i \in 1..Len(drained') :
                 \E k \in 1..Len(q) : drained'[i] = q[k]
<1>1. PICK k \in 1..Len(q), newest \in 1..Len(q) :
         /\ newest <= k /\ \A i \in 1..k : q[i].rev <= q[newest].rev
         /\ rev' = [rev EXCEPT ![Worker] = q[newest].rev]
         /\ drained' = SubSeq(q, k + 1, Len(q))
         /\ Goto(Worker, "index")
  <2>1. PICK k \in 1..Len(q) : \E newest \in 1..k :
           /\ \A i \in 1..k : q[i].rev <= q[newest].rev
           /\ rev' = [rev EXCEPT ![Worker] = q[newest].rev]
           /\ drained' = SubSeq(q, k + 1, Len(q))
           /\ Goto(Worker, "index")
    BY DEF StartGroup
  <2>2. PICK newest \in 1..k :
           /\ \A i \in 1..k : q[i].rev <= q[newest].rev
           /\ rev' = [rev EXCEPT ![Worker] = q[newest].rev]
           /\ drained' = SubSeq(q, k + 1, Len(q))
           /\ Goto(Worker, "index")
    BY <2>1
  <2>3. newest \in 1..Len(q) /\ newest <= k
    OBVIOUS
  <2> QED
    BY <2>2, <2>3
<1> DEFINE n == Len(q)
           d == drained'
<1>2. /\ n \in Nat /\ k \in Nat /\ 1 <= k /\ k <= n /\ newest \in 1..n
      /\ Len(d) = n - k /\ \A i \in 1..(n - k) : d[i] = q[i + k]
  BY <1>1
<1>3. /\ pc'[Worker] = "index" /\ rev'[Worker] = q[newest].rev
      /\ \A y \in Procs \ {Worker} : pc'[y] = pc[y] /\ rev'[y] = rev[y]
  BY <1>1, ProcsFacts DEF Goto, TypeOK, LocalTypes
<1> HIDE DEF n, d
<1>4. \A i \in 1..n : \A m \in (i + 1)..n : q[i].rev < q[m].rev
  BY DEF Rising, n
<1>5. Rising(d)
  <2> SUFFICES ASSUME NEW i \in 1..Len(d), NEW m \in (i + 1)..Len(d)
               PROVE  d[i].rev < d[m].rev
    BY DEF Rising
  <2>1. /\ d[i] = q[i + k] /\ d[m] = q[m + k]
        /\ i + k \in 1..n /\ m + k \in ((i + k) + 1)..n
    BY <1>2
  <2> QED
    BY <1>4, <2>1
<1>6. Above(d, q[newest].rev)
  <2> SUFFICES ASSUME NEW i \in 1..Len(d)
               PROVE  q[newest].rev < d[i].rev
    BY DEF Above
  <2>1. d[i] = q[i + k] /\ i + k \in (newest + 1)..n
    BY <1>1, <1>2
  <2> QED
    BY <1>2, <1>4, <2>1
<1>7. \A i \in 1..Len(d) : d[i] = q[i + k] /\ i + k \in 1..n
  BY <1>2
<1> QED
  BY <1>2, <1>3, <1>5, <1>6, <1>7 DEF n, d

\* A group that starts takes its revision and those left from the jobs the
\* worker had: every bound of theirs holds on.
LEMMA RevGroup ==
    ASSUME TypeOK, TypeOK', RevsOK, NEW q \in {drained, queue}, StartGroup(q),
           UNCHANGED <<storeIndexed, accepted>>,
           \/ q = queue /\ queue' = <<>>
           \/ q = drained /\ queue' = queue
    PROVE  RevsOK'
<1>1. /\ q \in Seq(Job) /\ queue' \in Seq(Job) /\ drained' \in Seq(Job)
      /\ storeIndexed \in Nat /\ accepted \in Nat
      /\ \A y \in Procs : rev[y] \in Nat /\ rev'[y] \in Nat
      /\ \A i \in 1..Len(q) : q[i].rev \in Nat
  BY JobRevs DEF TypeOK, QueueTypes, DiskTypes, StateTypes, LocalTypes
<1>2. /\ Rising(q) /\ Above(q, storeIndexed) /\ UpTo(q, accepted)
      /\ storeIndexed <= accepted
  BY DEF RevsOK
<1>3. /\ pc'[Worker] = "index"
      /\ \A y \in Procs \ {Worker} : pc'[y] = pc[y] /\ rev'[y] = rev[y]
      /\ Rising(drained') /\ Above(drained', rev'[Worker])
      /\ \E i \in 1..Len(q) : rev'[Worker] = q[i].rev
      /\ \A i \in 1..Len(drained') : \E k \in 1..Len(q) : drained'[i] = q[k]
  BY <1>1, <1>2, RevStartGroup
<1>4. /\ Above(drained', storeIndexed) /\ UpTo(drained', accepted)
      /\ storeIndexed < rev'[Worker] /\ rev'[Worker] <= accepted
  BY <1>2, <1>3 DEF Above, UpTo
<1>5. /\ Rising(queue') /\ Above(queue', storeIndexed) /\ UpTo(queue', accepted)
      /\ \A i \in 1..Len(drained') : Above(queue', drained'[i].rev)
      /\ Above(queue', rev'[Worker])
  <2>1. CASE queue' = <<>>
    BY <2>1 DEF Rising, Above, UpTo
  <2>2. CASE q = drained /\ queue' = queue
    <3>1. \A i \in 1..Len(q) : Above(queue', q[i].rev)
      BY <2>2 DEF RevsOK
    <3>2. Rising(queue') /\ Above(queue', storeIndexed)
          /\ UpTo(queue', accepted)
      BY <2>2 DEF RevsOK
    <3>3. \A i \in 1..Len(drained') : Above(queue', drained'[i].rev)
      BY <1>3, <3>1
    <3>4. Above(queue', rev'[Worker])
      BY <1>3, <3>1
    <3> QED
      BY <3>2, <3>3, <3>4
  <2> QED
    BY <2>1, <2>2
<1>6. ASSUME NEW r \in Requests, pc'[r] = "put"
      PROVE  NewestOK(r)'
  <2>1. /\ pc[r] = "put" /\ rev'[r] = rev[r]
    BY <1>3, <1>6, ProcsFacts, ConstantsAssumption
  <2>2. NewestOK(r)
    BY <2>1 DEF RevsOK
  <2>3. Below(q, rev[r]) /\ Below(queue', rev[r])
    BY <2>2 DEF NewestOK, Below
  <2>4. Below(drained', rev[r]) /\ rev'[Worker] < rev[r]
    BY <1>3, <2>3 DEF Below
  <2> QED
    BY <2>1, <2>2, <2>3, <2>4 DEF NewestOK
<1>7. \A r \in Requests : pc'[r] \in Handling => accepted < rev'[r]
  BY <1>3, ProcsFacts, ConstantsAssumption DEF RevsOK
<1> QED
  BY <1>2, <1>3, <1>4, <1>5, <1>6, <1>7 DEF RevsOK, Unmarked

\* A job joins the queue with the newest revision: at the commit, or when there
\* is room again.
LEMMA RevJoins ==
    ASSUME TypeOK, TypeOK', RevsOK, NEW r \in Requests, OneClient,
           NEW j \in Job, j.rev = rev[r], queue' = Append(queue, j),
           UNCHANGED <<drained, storeIndexed>>, accepted' = rev[r],
           accepted <= rev[r], storeIndexed < rev[r],
           Below(drained, rev[r]), Below(queue, rev[r]),
           Unmarked => rev[Worker] < rev[r],
           pc'[r] = "idle", pc'[Worker] = pc[Worker], rev'[Worker] = rev[Worker]
    PROVE  RevsOK'
<1>1. /\ queue \in Seq(Job) /\ drained \in Seq(Job)
      /\ storeIndexed \in Nat /\ accepted \in Nat
      /\ rev[r] \in Nat /\ rev[Worker] \in Nat
      /\ \A i \in 1..Len(drained) : drained[i].rev \in Nat
  BY JobRevs, ProcsFacts
     DEF TypeOK, QueueTypes, DiskTypes, StateTypes, LocalTypes
<1>2. /\ Rising(queue') /\ Above(queue', storeIndexed)
      /\ UpTo(queue', rev[r]) /\ UpTo(drained, rev[r])
  <2>1. UpTo(queue, rev[r]) /\ UpTo(drained, rev[r])
    BY <1>1, RevBounds DEF RevsOK
  <2> QED
    BY <1>1, <2>1, RevAppend DEF RevsOK
<1>3. \A i \in 1..Len(drained) : Above(queue', drained[i].rev)
  BY <1>1, RevAppend DEF RevsOK, Below
<1>4. Unmarked => /\ rev[Worker] <= rev[r] /\ Above(queue', rev[Worker])
                  /\ storeIndexed < rev[Worker] /\ Above(drained, rev[Worker])
  BY <1>1, RevAppend DEF RevsOK
<1>5. \A s \in Requests : s = r
  BY DEF OneClient
<1>6. Rising(drained) /\ Above(drained, storeIndexed) /\ storeIndexed <= rev[r]
  BY <1>1 DEF RevsOK
<1>7. Unmarked' <=> Unmarked
  BY DEF Unmarked
<1>8. UNCHANGED <<drained, storeIndexed>>
  OBVIOUS
<1>9. \A s \in Requests : pc'[s] = "idle"
  BY <1>5
<1> QED
  BY <1>2, <1>3, <1>4, <1>6, <1>7, <1>8, <1>9 DEF RevsOK, Handling

\* The steps of a batch keep the order of the revisions.
LEMMA RevBatch ==
    ASSUME OneClient, TypeOK, TypeOK', RevsOK, NEW r \in Requests,
           PostBatch(r) \/ RequestStep(r)
    PROVE  RevsOK'
<1>0. /\ storeIndexed \in Nat /\ accepted \in Nat /\ accepted' \in Nat
      /\ rev[r] \in Nat /\ rev'[r] \in Nat /\ r \in Procs
      /\ seen[r].accepted \in Nat /\ body[r].clientRevision \in Nat
      /\ queue \in Seq(Job) /\ drained \in Seq(Job)
  BY ProcsFacts
     DEF TypeOK, QueueTypes, DiskTypes, StateTypes, LocalTypes, Body, Revisions
<1>1. BatchStep(r)
  BY DEF BatchStep
<1>2. /\ UNCHANGED <<storeIndexed, drained>>
      /\ pc'[Worker] = pc[Worker] /\ rev'[Worker] = rev[Worker]
  BY <1>1, BatchFrame, IndexableFacts DEF Same
<1>3. \A s \in Requests : s = r
  BY DEF OneClient
<1>4. ASSUME queue' = queue, accepted <= accepted',
             pc'[r] \in Handling => accepted' < rev'[r],
             pc'[r] = "put" => NewestOK(r)'
      PROVE  RevsOK'
  <2>1. /\ storeIndexed <= accepted'
        /\ UpTo(drained, accepted') /\ UpTo(queue, accepted')
    BY <1>0, <1>4, RevBounds DEF RevsOK
  <2>2. Unmarked => rev[Worker] <= accepted'
    <3>1. rev[Worker] \in Nat
      BY ProcsFacts DEF TypeOK, LocalTypes
    <3> QED
      BY <1>0, <1>4, <3>1 DEF RevsOK
  <2> QED
    BY <1>2, <1>3, <1>4, <2>1, <2>2 DEF RevsOK, Unmarked
<1> DEFINE j == [rev |-> rev[r], files |-> work[r].files,
                 dels |-> work[r].dels]
<1>5. j \in Job /\ j.rev = rev[r]
  BY <1>0 DEF TypeOK, LocalTypes, Change, Job
<1> HIDE DEF j
<1>6. ASSUME EndBatch(r)
      PROVE  pc'[r] = "idle"
  BY <1>0, <1>6 DEF EndBatch, Return, Goto, TypeOK, LocalTypes
<1>7. CASE Commit(r)
  <2>1. pc[r] = "commit" /\ accepted' = rev[r] /\ accepted < rev[r]
    BY <1>7 DEF Commit, RevsOK, Handling
  <2>2. /\ storeIndexed < rev[r] /\ accepted <= rev[r]
        /\ Below(drained, rev[r]) /\ Below(queue, rev[r])
        /\ Unmarked => rev[Worker] < rev[r]
    <3>1. rev[Worker] \in Nat
      BY ProcsFacts DEF TypeOK, LocalTypes
    <3> QED
      BY <1>0, <2>1, <3>1, RevBounds DEF RevsOK
  <2>3. CASE queue' = Append(queue, j) /\ EndBatch(r)
    BY <1>2, <1>5, <1>6, <2>1, <2>2, <2>3, RevJoins
  <2>4. CASE Goto(r, "put") /\ UNCHANGED <<queue, rev>>
    <3>1. pc'[r] = "put"
      BY <1>0, <2>4 DEF Goto, TypeOK, LocalTypes
    <3>2. NewestOK(r)'
      <4>1. rev'[r] = rev[r] /\ rev'[r] = accepted'
        BY <2>1, <2>4
      <4> QED
        BY <1>2, <2>2, <2>4, <4>1 DEF NewestOK, Unmarked
    <3> QED
      BY <1>4, <2>1, <2>2, <2>4, <3>1, <3>2 DEF Handling
  <2>5. \/ queue' = Append(queue, j) /\ EndBatch(r)
        \/ Goto(r, "put") /\ UNCHANGED <<queue, rev>>
    BY <1>7 DEF Commit, j
  <2> QED
    BY <2>3, <2>4, <2>5
<1>8. CASE PutJob(r)
  <2>1. /\ pc[r] = "put" /\ queue' = Append(queue, j) /\ EndBatch(r)
        /\ accepted' = accepted
    BY <1>8 DEF PutJob, stateVars, j
  <2>2. NewestOK(r)
    BY <2>1 DEF RevsOK
  <2>3. /\ accepted' = rev[r] /\ accepted <= rev[r] /\ storeIndexed < rev[r]
        /\ Below(drained, rev[r]) /\ Below(queue, rev[r])
        /\ Unmarked => rev[Worker] < rev[r]
    BY <1>0, <2>1, <2>2 DEF NewestOK
  <2> QED
    BY <1>2, <1>5, <1>6, <2>1, <2>3, RevJoins
<1>9. CASE pc[r] \in Enters
  <2>1. PostBatch(r) \/ ReadStatus(r) \/ MergeStatus(r)
    BY <1>1, <1>9
       DEF Enters, BatchStep, RequestStep, BatchFails, ReadHashes, Reserve,
           ApplyBatch, SaveSummary, UpdateExact, Commit, PutJob, Answer
  <2>2. queue' = queue /\ pc'[r] \in Enters \cup {"hash", "final"}
    BY <1>0, <1>9, <2>1, ConstantsAssumption
       DEF PostBatch, ReadStatus, MergeStatus, Goto, TypeOK, LocalTypes,
           Enters, queueVars
  <2>3. accepted <= accepted'
    <3>1. CASE PostBatch(r) \/ ReadStatus(r)
      <4>1. accepted' = accepted
        BY <3>1 DEF PostBatch, ReadStatus, stateVars
      <4> QED
        BY <1>0, <4>1
    <3>2. CASE MergeStatus(r)
      BY <1>0, <3>2 DEF MergeStatus, MergeSeen, Larger
    <3> QED
      BY <2>1, <3>1, <3>2
  <2> QED
    BY <1>4, <2>2, <2>3 DEF Enters, Handling
<1>10. CASE pc[r] \notin Enters /\ ~Commit(r) /\ ~PutJob(r)
  <2>1. queue' = queue
    BY <1>10
       DEF RequestStep, PostBatch, ReadStatus, MergeStatus, ReadHashes,
           Reserve, ApplyBatch, SaveSummary, UpdateExact, Answer, queueVars
  <2>2. pc[r] \notin {"commit", "put"}
    BY <1>10
       DEF RequestStep, PostBatch, ReadStatus, MergeStatus, ReadHashes,
           Reserve, ApplyBatch, SaveSummary, UpdateExact, Answer
  <2>3. /\ accepted' = accepted
        /\ pc'[r] \in Handling => accepted' < rev'[r]
        /\ pc'[r] # "put"
    BY <1>0, <1>1, <1>10, <2>2, BatchCourse
       DEF RevsOK, Handling, NextRevision, Larger
  <2> QED
    BY <1>0, <1>4, <2>1, <2>3
<1> QED
  BY <1>7, <1>8, <1>9, <1>10

\* And so do those of the worker: what it marks is older than all that is left.
LEMMA RevWorker ==
    ASSUME TypeOK, TypeOK', RevsOK, GroupOK, WorkerStep
    PROVE  RevsOK'
<1>0. /\ storeIndexed \in Nat /\ accepted \in Nat /\ rev[Worker] \in Nat
      /\ queue \in Seq(Job) /\ drained \in Seq(Job)
  BY ProcsFacts DEF TypeOK, QueueTypes, DiskTypes, StateTypes, LocalTypes
<1>1. /\ IndexerStep(Worker) /\ Worker \in Indexers
  BY ProcsFacts DEF IndexerStep, WorkerStep
<1>2. /\ accepted' = accepted
      /\ \A r \in Requests : pc'[r] = pc[r] /\ rev'[r] = rev[r]
  BY <1>1, IndexerFrame, IndexerState, IndexableFacts, ConstantsAssumption
     DEF Same
<1>3. ASSUME UNCHANGED <<queue, drained, storeIndexed>>,
             Unmarked' => Unmarked /\ rev'[Worker] = rev[Worker]
      PROVE  RevsOK'
  BY <1>2, <1>3 DEF RevsOK, NewestOK
<1>4. CASE TakeJobs
  BY <1>2, <1>4, RevGroup DEF TakeJobs, diskVars
<1>5. ASSUME NEW busy, NextGroup(busy), UNCHANGED <<queue, storeIndexed>>
      PROVE  RevsOK'
  <2>1. CASE StartGroup(drained)
    BY <1>2, <1>5, <2>1, RevGroup
  <2>2. CASE drained = <<>> /\ drained' = <<>> /\ pc'[Worker] = "idle"
    BY <1>3, <1>5, <2>2 DEF Unmarked
  <2> QED
    BY <1>5, <2>1, <2>2, NextGroupFacts
<1>6. CASE FinishGroup
  BY <1>5, <1>6 DEF FinishGroup, diskVars
<1>7. CASE FailGroup
  BY <1>5, <1>7 DEF FailGroup, diskVars
<1>8. CASE UpdateSemantic(Worker)
  BY <1>3, <1>8 DEF UpdateSemantic, Unmarked, queueVars, diskVars
<1>9. CASE SaveSummary(Worker)
  <2>1. pc'[Worker] \in {"exact", "finish"}
    BY <1>9, ProcsFacts DEF SaveSummary, Goto, TypeOK, LocalTypes
  <2> QED
    BY <1>3, <1>9, <2>1 DEF SaveSummary, Unmarked, queueVars
<1>10. CASE MarkIndexed(Worker)
  <2>1. /\ pc[Worker] = "mark" /\ pc'[Worker] \in {"failed", "savemark"}
        /\ UNCHANGED <<queue, drained>>
        /\ storeIndexed' \in {storeIndexed, Larger(storeIndexed, rev[Worker])}
    BY <1>10, ProcsFacts DEF MarkIndexed, Goto, TypeOK, LocalTypes, queueVars
  <2>2. ~Unmarked' /\ Unmarked
    BY <2>1 DEF Unmarked
  <2>3. CASE storeIndexed' = storeIndexed
    BY <1>3, <2>1, <2>2, <2>3
  <2>4. CASE storeIndexed' = Larger(storeIndexed, rev[Worker])
    <3>1. storeIndexed' = rev[Worker]
      BY <1>0, <2>2, <2>4 DEF RevsOK, Larger
    <3>2. /\ Above(drained, storeIndexed') /\ Above(queue, storeIndexed')
          /\ storeIndexed' <= accepted
      BY <2>2, <3>1 DEF RevsOK
    <3>3. ASSUME NEW r \in Requests, pc'[r] = "put"
          PROVE  NewestOK(r)'
      <4>1. NewestOK(r) /\ rev'[r] = rev[r]
        BY <1>2, <3>3 DEF RevsOK
      <4> QED
        BY <1>2, <2>1, <2>2, <3>1, <4>1 DEF NewestOK
    <3> QED
      BY <1>2, <2>1, <2>2, <3>2, <3>3 DEF RevsOK
  <2> QED
    BY <2>1, <2>3, <2>4
<1> QED
  BY <1>4, <1>6, <1>7, <1>8, <1>9, <1>10 DEF WorkerStep, IndexStep

\* The worker's group is clean, and it has nothing left when it waits.
LEMMA GroupNext ==
    ASSUME TypeOK, Undisturbed, Pollers = {}, GroupOK, [Next]_vars
    PROVE  GroupOK'
<1>1. ASSUME work'[Worker] = work[Worker], drained' = drained,
             pc'[Worker] = "idle" => pc[Worker] = "idle"
      PROVE  GroupOK'
  BY <1>1 DEF GroupOK, Clean, Upserts
<1>2. ASSUME NEW changes \in Seq(Job), StartGroup(changes)
      PROVE  GroupOK'
  <2>1. PICK k \in 1..Len(changes) :
           work'[Worker] = GroupChange(changes, k) /\ pc'[Worker] = "index"
    BY <1>2, StartGroupFacts
  <2>2. Clean(work'[Worker])
    BY <2>1, GroupFacts
  <2> QED
    BY <2>1, <2>2 DEF GroupOK, Clean, Upserts
<1>3. ASSUME NEW busy, NextGroup(busy)
      PROVE  GroupOK'
  <2>1. CASE StartGroup(drained)
    BY <1>2, <2>1 DEF TypeOK, QueueTypes
  <2>2. CASE drained' = <<>> /\ work'[Worker] = NoChange
    BY <2>2, IndexableFacts DEF GroupOK, Clean, Upserts, NoChange
  <2> QED
    BY <1>3, <2>1, <2>2, NextGroupFacts
<1>4. ASSUME NEW r \in Requests, PostBatch(r) \/ RequestStep(r)
      PROVE  GroupOK'
  BY <1>1, <1>4, RequestFrame
<1>5. CASE WorkerStep
  <2>1. CASE IndexStep(Worker)
    BY <1>1, <2>1, IndexFrame
  <2>2. CASE TakeJobs
    BY <1>2, <2>2 DEF TakeJobs, TypeOK, QueueTypes
  <2>3. CASE FinishGroup \/ FailGroup
    BY <1>3, <2>3 DEF FinishGroup, FailGroup
  <2> QED
    BY <1>5, <2>1, <2>2, <2>3 DEF WorkerStep
<1>6. CASE UNCHANGED vars
  BY <1>1, <1>6 DEF vars
<1> QED
  BY <1>4, <1>5, <1>6, ClientSteps

\* What was acknowledged for a path is in the semantic index once the changes
\* on their way are through, unless it does not belong there.
AckedRows ==
    \A p \in Paths : acked[p] \in Indexable
        => Leaves(UnderWay, semantic, p, acked[p])

\* Every step keeps it: a batch is acknowledged in the step in which its job
\* joins the queue, and the worker works in the order of the queue.
LEMMA AckedNext ==
    ASSUME OneClient, Undisturbed, Pollers = {}, TypeOK, TypeOK', ClientOK,
           ExactOK, GroupOK, AckedRows, [Next]_vars
    PROVE  AckedRows'
<1>1. ASSUME UNCHANGED <<acked, semantic>>, UnderWay' = UnderWay
      PROVE  AckedRows'
  BY <1>1 DEF AckedRows
<1>2. ASSUME NEW r \in Requests, PostBatch(r) \/ RequestStep(r)
      PROVE  AckedRows'
  <2>1. /\ UNCHANGED <<drained, semantic>>
        /\ work'[Worker] = work[Worker] /\ pc'[Worker] = pc[Worker]
    BY <1>2, RequestFrame
  <2>2. /\ acked \in Tree /\ work[r] \in Change /\ Clean(work[r])
    BY ProcsFacts DEF TypeOK, BoundTypes, LocalTypes, ClientOK
  <2> DEFINE j == [rev |-> rev[r], files |-> work[r].files,
                   dels |-> work[r].dels]
  <2>3. /\ j \in Job
        /\ Touched(j) = Touched(work[r]) /\ j.files = work[r].files
    BY <2>2, ProcsFacts
       DEF TypeOK, LocalTypes, Change, Job, Touched, Upserts
  <2> HIDE DEF j
  <2>4. ASSUME queue' = Append(queue, j), Acknowledge(r),
               pc[r] \in {"commit", "put"}
        PROVE  AckedRows'
    <3>1. acked' = FilesThenDeletes(acked, work[r])
      BY <2>4, DeltaFacts DEF Acknowledge, ExactOK, Compared, Written
    <3>2. UnderWay' = Append(UnderWay, j)
          /\ UnderWay \in Seq(Job \cup Change) /\ j \in Job \cup Change
      BY <2>1, <2>3, <2>4, JobJoins
    <3> SUFFICES ASSUME NEW p \in Paths, acked'[p] \in Indexable
                 PROVE  Leaves(UnderWay', semantic', p, acked'[p])
      BY DEF AckedRows
    <3>3. p \in Touched(j) => j.files[p] = acked'[p]
      BY <2>2, <2>3, <3>1 DEF Clean, Touched, Upserts, FilesThenDeletes
    <3>4. p \notin Touched(j) => acked'[p] = acked[p]
      BY <2>3, <3>1 DEF Touched, Upserts, FilesThenDeletes
    <3>5. p \notin Touched(j) => Leaves(UnderWay, semantic, p, acked'[p])
      BY <3>4 DEF AckedRows
    <3>6. Leaves(Append(UnderWay, j), semantic, p, acked'[p])
      BY <3>2, <3>3, <3>5, LeavesAppended
    <3> QED
      BY <2>1, <3>2, <3>6
  <2>5. ASSUME UNCHANGED <<queue, acked>>
        PROVE  AckedRows'
    BY <1>1, <2>1, <2>5 DEF UnderWay
  <2>6. CASE Commit(r)
    BY <2>4, <2>5, <2>6 DEF Commit, j
  <2>7. CASE PutJob(r)
    BY <2>4, <2>7 DEF PutJob, j
  <2>8. CASE Answer(r)
    <3>1. pc[r] = "answer" /\ Acknowledge(r) /\ queue' = queue
      BY <2>8 DEF Answer, queueVars
    <3>2. acked' = FilesThenDeletes(acked, work[r])
      BY <3>1, DeltaFacts DEF Acknowledge, ExactOK, Compared
    <3>3. acked' = acked
      BY <2>2, <3>1, <3>2, TreeFacts DEF ExactOK
    <3> QED
      BY <2>5, <3>1, <3>3
  <2>9. CASE \/ PostBatch(r) \/ ReadStatus(r) \/ MergeStatus(r)
             \/ ReadHashes(r) \/ Reserve(r) \/ ApplyBatch(r) \/ SaveSummary(r)
             \/ UpdateExact(r)
    BY <2>5, <2>9
       DEF PostBatch, ReadStatus, MergeStatus, ReadHashes, Reserve, ApplyBatch,
           SaveSummary, UpdateExact, queueVars
  <2> QED
    BY <1>2, <2>6, <2>7, <2>8, <2>9 DEF RequestStep
<1>3. CASE WorkerStep
  <2>1. acked' = acked
    BY <1>3, IndexerFrame, ProcsFacts DEF IndexerStep, WorkerStep
  <2> QED
    BY <1>3, <2>1, WayWorker DEF AckedRows
<1>4. CASE UNCHANGED vars
  BY <1>1, <1>4 DEF vars, UnderWay
<1> QED
  BY <1>2, <1>3, <1>4, ClientSteps

\* What the proof of BarrierCurrent carries along.
BarrierOK ==
    /\ TypeOK /\ ClientOK /\ ExactOK /\ GroupOK /\ RevsOK /\ AckedRows

\* Every step keeps it.
LEMMA BarrierNext ==
    ASSUME OneClient, CleanBatches, Undisturbed, Pollers = {}, BarrierOK,
           [Next]_vars
    PROVE  BarrierOK'
<1>1. TypeOK' /\ ClientOK' /\ ExactOK' /\ GroupOK'
  BY TypeNext, ClientStep, ExactNext, GroupNext DEF BarrierOK
<1>2. AckedRows'
  BY <1>1, AckedNext DEF BarrierOK
<1>3. RevsOK'
  <2>1. ASSUME NEW r \in Requests, PostBatch(r) \/ RequestStep(r)
        PROVE  RevsOK'
    BY <1>1, <2>1, RevBatch DEF BarrierOK
  <2>2. CASE WorkerStep
    BY <1>1, <2>2, RevWorker DEF BarrierOK
  <2>3. CASE UNCHANGED vars
    BY <2>3 DEF vars, BarrierOK, RevsOK, NewestOK, Unmarked
  <2> QED
    BY <2>1, <2>2, <2>3, ClientSteps DEF BarrierOK
<1> QED
  BY <1>1, <1>2, <1>3 DEF BarrierOK

\* At the start nothing is on its way, and nothing is indexed.
LEMMA BarrierInit == ASSUME Init PROVE BarrierOK
<1>1. TypeOK /\ ClientOK /\ ExactOK
  BY TypeInit, ExactInit
<1>2. GroupOK
  BY IndexableFacts DEF Init, GroupOK, Clean, NoChange
<1>3. RevsOK
  BY ProcsFacts
     DEF Init, RevsOK, Rising, Above, UpTo, Unmarked, Handling
<1>4. AckedRows
  <2>1. UnderWay = <<>>
    BY ProcsFacts, UnderWayParts, TypeConstants DEF Init, UnderWay
  <2> QED
    BY <2>1 DEF Init, AckedRows, Leaves
<1> QED
  BY <1>1, <1>2, <1>3, <1>4 DEF BarrierOK

\* When indexed_revision has caught up with accepted_revision nothing is on its
\* way: every revision in the queue or with the worker is accepted and not
\* marked.
LEMMA NothingUnderWay ==
    ASSUME IInv, BarrierOK, indexed >= accepted
    PROVE  UnderWay = <<>>
<1>1. /\ indexed \in Nat /\ accepted \in Nat /\ storeIndexed \in Nat
      /\ DurableIndexed \in Nat /\ indexed <= DurableIndexed
      /\ DurableIndexed <= storeIndexed
      /\ queue \in Seq(Job) /\ drained \in Seq(Job) /\ rev[Worker] \in Nat
  BY LocalFacts, ProcsFacts
     DEF IInv, RestartSafe, TypeOK, StateTypes, QueueTypes
<1>2. accepted <= storeIndexed
  BY <1>1
<1>3. pc[Worker] # "index"
  BY <1>1, <1>2 DEF BarrierOK, RevsOK, Unmarked
<1>4. ASSUME NEW q \in Seq(Job), Above(q, storeIndexed), UpTo(q, accepted)
      PROVE  q = <<>>
  <2>1. Len(q) \in Nat
    BY <1>4
  <2>2. CASE Len(q) > 0
    <3>1. 1 \in 1..Len(q)
      BY <2>1, <2>2
    <3>2. storeIndexed < q[1].rev /\ q[1].rev <= accepted /\ q[1].rev \in Nat
      BY <1>4, <3>1, JobRevs DEF Above, UpTo
    <3> QED
      BY <1>1, <1>2, <3>2
  <2>3. CASE Len(q) = 0
    BY <1>4, <2>3
  <2> QED
    BY <2>1, <2>2, <2>3
<1>5. drained = <<>> /\ queue = <<>>
  BY <1>1, <1>4 DEF BarrierOK, RevsOK
<1> QED
  BY <1>3, <1>5 DEF UnderWay

\* A barrier that is ready answers for every acknowledged file: without faults,
\* with batches that one client sends one after the other and no recovery
\* beside them, a search finds each file as it was acknowledged, however the
\* jobs were coalesced into groups.
THEOREM BarrierAnswersForAcked ==
    ASSUME OneClient, CleanBatches, Undisturbed, Pollers = {}
    PROVE  Spec => []BarrierCurrent
<1>1. Init => BarrierOK
  BY BarrierInit
<1>2. BarrierOK /\ [Next]_vars => BarrierOK'
  BY BarrierNext
<1>3. IInv /\ BarrierOK => BarrierCurrent
  <2> SUFFICES ASSUME IInv, BarrierOK, indexed >= accepted,
                      NEW p \in Paths, acked[p] \in Indexable
               PROVE  semantic[p] = acked[p]
    BY DEF BarrierCurrent, Searchable
  <2>1. Leaves(<<>>, semantic, p, acked[p])
    BY NothingUnderWay DEF BarrierOK, AckedRows
  <2> QED
    BY <2>1 DEF Leaves
<1> QED
  BY <1>1, <1>2, <1>3, IInvHolds, PTL DEF Spec
=============================================================================
