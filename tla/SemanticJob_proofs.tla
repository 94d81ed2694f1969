------------------------- MODULE SemanticJob_proofs -------------------------
(***************************************************************************)
(* What SemanticJob promises, for any number of paths, contents, batches,  *)
(* jobs, faults and restarts.                                              *)
(***************************************************************************)
EXTENDS SemanticJob, SyncClient_proofs

-----------------------------------------------------------------------------
(* The inductive invariants. *)

\* What the active index holds, what the staged one, and what the one the
\* thread builds.
ActiveRows == Indexable \cup JobContents
StagedRows == JobContents \cup {None}
TargetRows == IF job.staged THEN StagedRows ELSE ActiveRows

\* A thread is at work on the job that the process reports.
Busy == jpc # "idle" => job.state \in {"running", "paused"}

\* The worker's group is in order, and has what belongs in the index.
WorkerOK == GroupOK /\ work[Worker].files \in [Paths -> Indexable]

\* What the thread is going to index is what the job's policy includes, what it
\* is going to delete was not listed, and both only while it scans.
ThreadOK ==
    /\ jpc # "scan" => todo = {} /\ gone = {}
    /\ \A p \in todo : listed[p].hash \in JobContents
    /\ \A p \in gone : listed[p].hash = None

TypesOK == TypeOK /\ JobTypeOK /\ Busy /\ WorkerOK /\ ThreadOK

\* The index that is built is right for p, or the job's policy leaves p out, or
\* p has no rows and its revision was trusted.
Found(rows, p) ==
    \/ rows[p] = snapshot[p]
    \/ snapshot[p] \in Contents \ JobContents
    \/ ~job.staged /\ ~job.force /\ rows[p] = None
\* Or p is beyond the limit.
Right(rows, p) == Found(rows, p) \/ (~job.staged /\ p \in cutOff)
RightBut(rows, paths) == \A p \in Paths \ paths : Right(rows, p)
\* An index built from nothing has rows of the snapshot and no others.
Fresh(rows) == Cleared => \A p \in Paths : rows[p] \in {snapshot[p], None}

\* What a job has achieved beside which nothing changed.
RepairOK ==
    /\ jpc = "idle" => ~calm
    /\ calm =>
       /\ jpc \in {"list", "survey"} /\ Cleared => Target = NoFiles
       /\ jpc \in {"survey", "scan", "activate", "mark", "finish"} =>
             \A p \in Paths : listed[p].hash = snapshot[p]
       /\ jpc = "scan" => RightBut(Target, todo \cup gone) /\ Fresh(Target)
       /\ jpc = "activate" =>
             job.staged /\ RightBut(staging, {}) /\ Fresh(staging)
       /\ jpc \in {"mark", "finish"} =>
             RightBut(semantic, {}) /\ Fresh(semantic)

-----------------------------------------------------------------------------
(* Types.                                                                  *)

\* The rows of the indexes are contents or nothing.
LEMMA RowFacts ==
    /\ StagedRows \subseteq ActiveRows /\ ActiveRows \subseteq Entry
    /\ None \in StagedRows /\ None \in ActiveRows /\ None \in TargetRows
    /\ JobContents \subseteq TargetRows
    /\ NoFiles \in [Paths -> TargetRows]
BY IndexableFacts, JobAssumption
   DEF StagedRows, ActiveRows, TargetRows, Entry, NoFiles

\* The initial state has the types.
LEMMA TypesInit == JobInit => TypesOK
<1> SUFFICES ASSUME JobInit PROVE TypesOK
  OBVIOUS
<1>1. TypeOK
  BY TypeInit DEF JobInit
<1>2. JobTypeOK
  BY RowFacts, IndexableFacts, TypeConstants
  DEF JobInit, Init, JobTypeOK, NoJob, JobRecord, States, NoList, ActiveRows,
      StagedRows, NoFiles
<1>3. Busy /\ ThreadOK
  BY DEF JobInit, Busy, ThreadOK
<1>4. WorkerOK
  BY IndexableFacts DEF JobInit, Init, WorkerOK, GroupOK, Clean, NoChange
<1> QED
  BY <1>1, <1>2, <1>3, <1>4 DEF TypesOK

\* The steps of the job and of the requests about it.
JobOnly ==
    \/ \E kind \in Kinds : StartJob(kind) \/ LaunchFails(kind)
    \/ RetryJob
    \/ Control("running", "paused") \/ Control("paused", "running")
    \/ Thread
    \/ JobFails

\* They leave the batches alone.
LEMMA JobFrame ==
    ASSUME JobOnly
    PROVE  UNCHANGED <<snapshot, queue, drained, pc, body, work, recordRev,
                       storeAccepted, exact, exactRevision, lock, started, rev,
                       seen, accepted, files, deleted, loaded, depth, running,
                       acked, posts, crashes>>
<1> USE DEF vars, serverVars, diskVars, stateVars, queueVars, bounds
<1>1. CASE \/ \E kind \in Kinds : StartJob(kind) \/ LaunchFails(kind)
           \/ RetryJob
           \/ Control("running", "paused") \/ Control("paused", "running")
  BY <1>1 DEF StartJob, RetryJob, Launch, LaunchFails, Control, indexVars, Fault
<1>2. CASE Prepare \/ ListRecords \/ Survey \/ EndScan
  BY <1>2 DEF Prepare, ListRecords, Survey, EndScan
<1>3. CASE Activate \/ MarkAll \/ Finish
  BY <1>3 DEF Activate, MarkAll, Finish, indexVars
<1>4. CASE \/ \E P \in NextFiles : IndexFiles(P) \/ SkipFiles(P)
           \/ \E p \in gone : DeleteRows(p)
  BY <1>4 DEF IndexFiles, SkipFiles, DeleteRows, Fault
<1>5. CASE JobFails
  BY <1>5 DEF JobFails, Fault
<1> QED
  BY <1>1, <1>2, <1>3, <1>4, <1>5 DEF JobOnly, Thread

\* The server's steps are steps of SyncServer, and leave the job alone unless
\* the process restarts.
LEMMA ServerFacts ==
    ASSUME ServerNext
    PROVE  /\ Next
           /\ \/ Restart
              \/ /\ UNCHANGED jobVars /\ RecordRevisions
                 /\ lost \subseteq lost'
                 /\ calm' = (calm /\ snapshot' = snapshot
                                  /\ semantic' = semantic)
                 /\ \/ \E r \in Requests :
                          PostBatch(r) \/ RequestStep(r) \/ BatchFails(r)
                    \/ WorkerStep \/ MarkFails(Worker)
                    \/ InterruptSemantic(Worker)
<1>1. ASSUME NEW r \in Requests,
             Server(PostBatch(r) \/ RequestStep(r), {}) \/ HandlerFails(r)
      PROVE  /\ PostBatch(r) \/ RequestStep(r) \/ BatchFails(r)
             /\ UNCHANGED jobVars /\ RecordRevisions /\ lost \subseteq lost'
             /\ calm' = (calm /\ snapshot' = snapshot /\ semantic' = semantic)
  BY <1>1 DEF Server, HandlerFails
<1>2. ASSUME \/ Server(WorkerStep \/ MarkFails(Worker), {})
             \/ GroupInterrupted
      PROVE  /\ \/ WorkerStep \/ MarkFails(Worker)
                \/ InterruptSemantic(Worker)
             /\ UNCHANGED jobVars /\ RecordRevisions /\ lost \subseteq lost'
             /\ calm' = (calm /\ snapshot' = snapshot /\ semantic' = semantic)
  BY <1>2 DEF Server, GroupInterrupted
<1>3. Worker \in Indexers
  BY DEF Indexers
<1> QED
  BY <1>1, <1>2, <1>3 DEF ServerNext, Next, Restart

\* Every step keeps what the worker is given clean.
LEMMA WorkerNext ==
    ASSUME TypeOK, WorkerOK, [JobNext]_allVars
    PROVE  WorkerOK'
<1>1. ASSUME work'[Worker] = work[Worker], drained' = drained,
             pc'[Worker] = "idle" => pc[Worker] = "idle"
      PROVE  WorkerOK'
  BY <1>1 DEF WorkerOK, GroupOK, Clean, Upserts
<1>2. ASSUME NEW changes \in Seq(Job), StartGroup(changes)
      PROVE  WorkerOK'
  <2>1. PICK k \in 1..Len(changes) :
           work'[Worker] = GroupChange(changes, k) /\ pc'[Worker] = "index"
    BY <1>2, StartGroupFacts
  <2>2. Clean(work'[Worker]) /\ work'[Worker].files \in [Paths -> Indexable]
    BY <2>1, GroupFacts
  <2> QED
    BY <2>1, <2>2 DEF WorkerOK, GroupOK, Clean, Upserts
<1>3. ASSUME NEW busy, NextGroup(busy)
      PROVE  WorkerOK'
  <2>1. CASE StartGroup(drained)
    BY <1>2, <2>1 DEF TypeOK, QueueTypes
  <2>2. CASE drained' = <<>> /\ work'[Worker] = NoChange
    BY <2>2, IndexableFacts DEF WorkerOK, GroupOK, Clean, Upserts, NoChange
  <2> QED
    BY <1>3, <2>1, <2>2, NextGroupFacts
<1>4. CASE ServerNext
  <2>1. ASSUME NEW r \in Requests,
               PostBatch(r) \/ RequestStep(r) \/ BatchFails(r)
        PROVE  WorkerOK'
    BY <1>1, <2>1, RequestFrame
  <2>2. CASE \/ IndexStep(Worker) \/ MarkFails(Worker)
             \/ InterruptSemantic(Worker)
    BY <1>1, <2>2, IndexFrame
  <2>3. CASE TakeJobs
    BY <1>2, <2>3 DEF TakeJobs, TypeOK, QueueTypes
  <2>4. CASE FinishGroup \/ FailGroup
    BY <1>3, <2>4 DEF FinishGroup, FailGroup
  <2>5. CASE Restart
    <3>1. drained' = <<>> /\ work'[Worker] = NoChange
      BY <2>5, IndexableFacts DEF Restart, Crash
    <3> QED
      BY <3>1, IndexableFacts DEF WorkerOK, GroupOK, Clean, Upserts, NoChange
  <2> QED
    BY <1>4, <2>1, <2>2, <2>3, <2>4, <2>5, ServerFacts DEF WorkerStep
<1>5. CASE JobOnly \/ UNCHANGED allVars
  BY <1>1, <1>5, JobFrame DEF allVars, vars
<1> QED
  BY <1>4, <1>5 DEF JobNext, JobOnly

\* No thread is started beside another.
LEMMA BusyNext ==
    ASSUME JobTypeOK, Busy, [JobNext]_allVars
    PROVE  Busy' /\ (jpc' = "prepare" /\ jpc # "prepare" => jpc = "idle")
<1> USE DEF Busy, jobVars
<1>1. CASE ServerNext
  BY <1>1, ServerFacts DEF Restart
<1>2. CASE \/ \E kind \in Kinds : StartJob(kind) \/ LaunchFails(kind)
           \/ RetryJob
  BY <1>2 DEF StartJob, RetryJob, Launch, LaunchFails, MayStart
<1>3. CASE Control("running", "paused") \/ Control("paused", "running")
  BY <1>3 DEF Control, JobTypeOK, JobRecord
<1>4. CASE Thread
  <2>1. CASE Prepare \/ ListRecords \/ Survey \/ EndScan \/ Activate \/ MarkAll
    BY <2>1 DEF Prepare, ListRecords, Survey, EndScan, Activate, MarkAll, GoesOn
  <2>2. CASE Finish
    BY <2>2 DEF Finish, EndJob
  <2>3. CASE \/ \E P \in NextFiles : IndexFiles(P) \/ SkipFiles(P)
             \/ \E p \in gone : DeleteRows(p)
    BY <2>3 DEF IndexFiles, SkipFiles, DeleteRows
  <2> QED
    BY <1>4, <2>1, <2>2, <2>3 DEF Thread
<1>5. CASE JobFails
  BY <1>5 DEF JobFails, EndJob
<1>6. CASE UNCHANGED allVars
  BY <1>6 DEF allVars
<1> QED
  BY <1>1, <1>2, <1>3, <1>4, <1>5, <1>6 DEF JobNext

\* The thread writes into the index it builds and into no other.
LEMMA BuildFacts ==
    ASSUME JobTypeOK, NEW rows \in [Paths -> TargetRows], Build(rows)
    PROVE  /\ semantic' \in [Paths -> ActiveRows]
           /\ staging' \in [Paths -> StagedRows]
BY DEF JobTypeOK, Build, TargetRows, ActiveRows, StagedRows

\* The server's steps keep the types of the job's variables.
LEMMA ServerTypes ==
    ASSUME TypesOK, TypeOK', ServerNext
    PROVE  JobTypeOK' /\ ThreadOK'
<1>1. TypeOK /\ JobTypeOK /\ WorkerOK /\ ThreadOK
  BY DEF TypesOK
<1>2. semantic' \in [Paths -> ActiveRows]
  <2>1. work[Worker].files \in [Paths -> ActiveRows]
        /\ semantic \in [Paths -> ActiveRows] /\ None \in ActiveRows
    BY <1>1, RowFacts DEF WorkerOK, GroupOK, JobTypeOK, ActiveRows
  <2>2. CASE UpdateSemantic(Worker)
    BY <2>1, <2>2 DEF UpdateSemantic, FilesThenDeletes
  <2>3. CASE InterruptSemantic(Worker)
    BY <2>1, <2>3 DEF InterruptSemantic
  <2>4. CASE semantic' = semantic
    BY <2>1, <2>4
  <2>5. ASSUME NEW r \in Requests,
               PostBatch(r) \/ RequestStep(r) \/ BatchFails(r)
        PROVE  semantic' = semantic
    BY <1>1, <2>5, RequestFrame
  <2>6. CASE WorkerStep \/ MarkFails(Worker)
    BY <1>1, <2>2, <2>3, <2>4, <2>6, IndexFrame
       DEF WorkerStep, TakeJobs, FinishGroup, FailGroup, indexVars
  <2>7. CASE Restart
    BY <2>4, <2>7 DEF Restart, Crash, indexVars
  <2> QED
    BY <2>3, <2>4, <2>5, <2>6, <2>7, ServerFacts
<1>3. recordRev' \in [Paths -> Nat]
  <2>1. storeAccepted' \in Nat /\ recordRev \in [Paths -> Nat]
    BY <1>1 DEF TypeOK, DiskTypes, JobTypeOK
  <2> QED
    <3>1. CASE Restart
      BY <2>1, <3>1 DEF Restart
    <3>2. CASE RecordRevisions
      BY <2>1, <3>2 DEF RecordRevisions
    <3> QED
      BY <3>1, <3>2, ServerFacts
<1>4. lost' \subseteq Paths
  <2>1. \A x \in Procs : Touched(work[x]) \subseteq Paths
    BY <1>1 DEF TypeOK, LocalTypes, Touched, Upserts, Change
  <2>2. Stale \subseteq Paths /\ lost \subseteq Paths
    BY <1>1 DEF Stale, JobTypeOK
  <2>3. ASSUME NEW step, NEW losing \in SUBSET Paths, lost' = lost \cup losing
        PROVE  lost' \subseteq Paths
    BY <2>2, <2>3
  <2> QED
    BY <2>1, <2>2, IndexableFacts
       DEF ServerNext, Server, HandlerFails, GroupInterrupted, Restart
<1>5. CASE Restart
  BY <1>1, <1>2, <1>3, <1>4, <1>5, TypeConstants
     DEF Restart, JobTypeOK, ThreadOK, NoJob, NoList, JobRecord, States,
         ActiveRows
<1>6. CASE UNCHANGED jobVars /\ calm' \in BOOLEAN
  BY <1>1, <1>2, <1>3, <1>4, <1>6 DEF jobVars, JobTypeOK, ThreadOK, ActiveRows
<1> QED
  BY <1>1, <1>5, <1>6, ServerFacts DEF JobTypeOK

\* So do the job's own, and they keep those of the server's variables.
LEMMA JobTypes ==
    ASSUME TypesOK, JobOnly
    PROVE  TypeOK' /\ JobTypeOK' /\ ThreadOK'
<1>1. TypeOK /\ JobTypeOK /\ ThreadOK
  BY DEF TypesOK
<1> USE DEF vars, serverVars, diskVars, stateVars, queueVars, bounds
<1>2. semantic \in [Paths -> ActiveRows] /\ staging \in [Paths -> StagedRows]
      /\ Target \in [Paths -> TargetRows]
  BY <1>1 DEF JobTypeOK, Target, TargetRows, ActiveRows, StagedRows
<1>3. Stale \subseteq Paths /\ Missed \subseteq Paths /\ Missed' \subseteq Paths
      /\ lost \subseteq Paths
  BY <1>1 DEF Stale, Missed, JobTypeOK
<1>4. \A p \in Paths : snapshot[p] \in Entry
  BY <1>1 DEF TypeOK, DiskTypes, Tree
<1>5. \A p \in todo : p \in Paths /\ listed[p].hash \in TargetRows
  BY <1>1, RowFacts DEF JobTypeOK, ThreadOK
<1>6. JobTypeOK' /\ ThreadOK'
  <2>0. ASSUME NEW staged \in BOOLEAN, NEW force \in BOOLEAN,
                NEW resume \in BOOLEAN, MayStart,
                job' = [state |-> "running", staged |-> staged,
                        force |-> force, resume |-> resume],
                saved' \in {saved, job'}, jpc' \in {jpc, "prepare"},
                jobs' = jobs + 1,
                UNCHANGED <<semantic, recordRev, staging, listed, todo, cutOff,
                            gone, lost, calm>>
         PROVE  JobTypeOK' /\ ThreadOK'
    <3>1. jpc = "idle"
      BY <2>0 DEF TypesOK, Busy, MayStart
    <3>2. job' \in JobRecord
      BY <2>0 DEF JobRecord, States
    <3>3. saved' \in JobRecord /\ jobs' \in Nat
      BY <1>1, <2>0, <3>2 DEF JobTypeOK
    <3>4. JobTypeOK'
      BY <1>1, <2>0, <3>1, <3>2, <3>3 DEF JobTypeOK
    <3> QED
      BY <1>1, <2>0, <3>1, <3>4 DEF ThreadOK
  <2>1. ASSUME NEW kind \in Kinds, StartJob(kind) \/ LaunchFails(kind)
        PROVE  JobTypeOK' /\ ThreadOK'
    <3>1. kind.staged \in BOOLEAN /\ kind.force \in BOOLEAN
      BY JobAssumption DEF Kind
    <3>2. CASE StartJob(kind)
      BY <2>0, <3>1, <3>2 DEF StartJob, Launch
    <3>3. CASE LaunchFails(kind)
      BY <2>0, <3>1, <3>3 DEF LaunchFails, indexVars
    <3> QED
      BY <2>1, <3>2, <3>3
  <2>2. CASE RetryJob
    <3>1. Previous \in JobRecord
      BY <1>1 DEF Previous, JobTypeOK
    <3>2. Previous.staged \in BOOLEAN /\ Previous.force \in BOOLEAN
      BY <3>1 DEF JobRecord
    <3> DEFINE kind == [staged |-> Previous.staged, force |-> Previous.force]
    <3>3. kind.staged \in BOOLEAN /\ kind.force \in BOOLEAN
      BY <3>2
    <3>4. Launch(kind, Previous.staged) /\ MayStart
      BY <2>2 DEF RetryJob
    <3> HIDE DEF kind
    <3> QED
      BY <2>0, <3>2, <3>3, <3>4 DEF Launch
  <2>3. CASE Control("running", "paused") \/ Control("paused", "running")
    BY <1>1, <2>3 DEF Control, JobTypeOK, ThreadOK, JobRecord, States
  <2>4. CASE Prepare
    <3>1. Build(IF Cleared THEN NoFiles ELSE Target)
      BY <2>4 DEF Prepare
    <3>2. (IF Cleared THEN NoFiles ELSE Target) \in [Paths -> TargetRows]
      BY <1>2, RowFacts
    <3>3. semantic' \in [Paths -> ActiveRows]
          /\ staging' \in [Paths -> StagedRows]
      BY <1>1, <3>1, <3>2, BuildFacts
    <3> QED
      BY <1>1, <1>3, <2>4, <3>3
         DEF Prepare, JobTypeOK, ThreadOK,
             ActiveRows, StagedRows
  <2>5. CASE ListRecords
    BY <1>1, <1>4, <2>5
       DEF ListRecords, JobTypeOK, ThreadOK, Row
  <2>6. CASE Survey
    <3>1. PICK P \in Selections : todo' = P /\ cutOff' = ToIndex \ P
      BY <2>6 DEF Survey
    <3>2. P \subseteq ToIndex
      BY DEF Selections
    <3> QED
      BY <1>1, <2>6, <3>1, <3>2
         DEF Survey, ToIndex, ToDelete, JobTypeOK, ThreadOK
  <2>7. CASE EndScan
    BY <1>1, <2>7 DEF EndScan, JobTypeOK, ThreadOK
  <2>8. CASE Activate
    <3>1. NoFiles \in [Paths -> StagedRows] /\ staging \in [Paths -> ActiveRows]
      BY <1>2, RowFacts DEF NoFiles
    <3> QED
      BY <1>1, <1>3, <2>8, <3>1
         DEF Activate, JobTypeOK, ThreadOK, ActiveRows, StagedRows
  <2>9. CASE MarkAll
    BY <1>1, <2>9 DEF MarkAll, JobTypeOK, ThreadOK, indexVars
  <2>10. ASSUME NEW state \in {"completed", "failed"}, EndJob(state)
         PROVE  /\ job' \in JobRecord /\ saved' \in JobRecord /\ jpc' = "idle"
                /\ calm' = FALSE /\ listed' \in [Paths -> Row]
                /\ todo' = {} /\ cutOff' = {} /\ gone' = {}
    BY <1>1, <2>10, TypeConstants
       DEF EndJob, JobTypeOK, JobRecord, States, NoList
  <2>11. CASE Finish
    BY <1>1, <2>10, <2>11 DEF Finish, JobTypeOK, ThreadOK
  <2>12. ASSUME NEW P \in NextFiles, IndexFiles(P) \/ SkipFiles(P)
         PROVE  JobTypeOK' /\ ThreadOK'
    <3>1. CASE IndexFiles(P)
      <4> DEFINE rows == [p \in Paths |-> IF p \in P THEN listed[p].hash
                                          ELSE Target[p]]
      <4>1. P \subseteq todo
        BY DEF NextFiles
      <4>2. rows \in [Paths -> TargetRows]
        BY <1>2, <1>5, <4>1
      <4>3. Build(rows)
        BY <3>1 DEF IndexFiles
      <4> HIDE DEF rows
      <4>4. semantic' \in [Paths -> ActiveRows]
            /\ staging' \in [Paths -> StagedRows]
        BY <1>1, <4>2, <4>3, BuildFacts
      <4> QED
        BY <1>1, <1>3, <3>1, <4>4
         DEF IndexFiles, JobTypeOK, ThreadOK,
             ActiveRows, StagedRows
    <3>2. CASE SkipFiles(P)
      BY <1>1, <3>2 DEF SkipFiles, JobTypeOK, ThreadOK
    <3> QED
      BY <2>12, <3>1, <3>2
  <2>13. ASSUME NEW p \in gone, DeleteRows(p)
         PROVE  JobTypeOK' /\ ThreadOK'
    <3>1. [Target EXCEPT ![p] = None] \in [Paths -> TargetRows]
      BY <1>2, RowFacts
    <3>2. semantic' \in [Paths -> ActiveRows]
          /\ staging' \in [Paths -> StagedRows]
      BY <1>1, <2>13, <3>1, BuildFacts DEF DeleteRows
    <3> QED
      BY <1>1, <1>3, <2>13, <3>2
         DEF DeleteRows, JobTypeOK, ThreadOK,
             ActiveRows, StagedRows
  <2>14. CASE JobFails
    <3>1. PICK P : Build([p \in Paths |-> IF p \in P THEN None ELSE Target[p]])
      BY <2>14 DEF JobFails
    <3>2. [p \in Paths |-> IF p \in P THEN None ELSE Target[p]]
             \in [Paths -> TargetRows]
      BY <1>2, RowFacts
    <3>3. semantic' \in [Paths -> ActiveRows]
          /\ staging' \in [Paths -> StagedRows]
      BY <1>1, <3>1, <3>2, BuildFacts
    <3> QED
      BY <1>1, <1>3, <2>10, <2>14, <3>3
         DEF JobFails, JobTypeOK, ThreadOK,
             ActiveRows, StagedRows
  <2> QED
    BY <2>1, <2>2, <2>3, <2>4, <2>5, <2>6, <2>7, <2>8, <2>9, <2>11, <2>12,
       <2>13, <2>14 DEF JobOnly, Thread
<1>7. TypeOK'
  <2>1. semantic' \in Tree
    BY <1>6, RowFacts DEF JobTypeOK, Tree, ActiveRows
  <2>2. /\ storeIndexed' \in Nat /\ indexed' \in Nat /\ faults' \in Nat
        /\ indexing' \in BOOLEAN /\ failed' \in BOOLEAN
        /\ summary' \in [written : BOOLEAN, accepted : Nat, indexed : Nat]
    <3>1. /\ storeIndexed \in Nat /\ storeAccepted \in Nat /\ indexed \in Nat
          /\ faults \in Nat /\ indexing \in BOOLEAN /\ failed \in BOOLEAN
          /\ accepted \in Nat /\ depth \in Nat
          /\ summary \in [written : BOOLEAN, accepted : Nat, indexed : Nat]
      BY <1>1 DEF TypeOK, DiskTypes, StateTypes, BoundTypes
    <3>2. CASE MarkAll
      BY <3>1, <3>2 DEF MarkAll, Larger
    <3>3. CASE UNCHANGED <<storeIndexed, indexed, indexing, failed, summary>>
                 /\ (faults' = faults \/ Fault)
      BY <3>1, <3>3 DEF Fault
    <3> QED
      BY <3>2, <3>3
         DEF JobOnly, Thread, StartJob, RetryJob, Launch, LaunchFails, Control,
             Prepare, ListRecords, Survey, EndScan, Activate, Finish,
             IndexFiles, SkipFiles, DeleteRows, JobFails
  <2> QED
    BY <1>1, <2>1, <2>2, JobFrame
       DEF TypeOK, DiskTypes, IndexTypes, StateTypes, QueueTypes, LocalTypes,
           BoundTypes
<1> QED
  BY <1>6, <1>7

\* Every step keeps all the types.
LEMMA TypesNext == TypesOK /\ [JobNext]_allVars => TypesOK'
<1> SUFFICES ASSUME TypesOK, [JobNext]_allVars PROVE TypesOK'
  OBVIOUS
<1>1. TypeOK /\ JobTypeOK /\ Busy /\ WorkerOK /\ ThreadOK
  BY DEF TypesOK
<1>2. WorkerOK' /\ Busy'
  BY <1>1, WorkerNext, BusyNext
<1>3. CASE ServerNext
  <2>1. TypeOK'
    BY <1>1, <1>3, ServerFacts, TypeNext
  <2> QED
    BY <1>2, <1>3, <2>1, ServerTypes DEF TypesOK
<1>4. CASE JobOnly
  BY <1>2, <1>4, JobTypes DEF TypesOK
<1>5. CASE UNCHANGED allVars
  <2>1. TypeOK'
    BY <1>1, <1>5, TypeNext DEF allVars
  <2>2. JobTypeOK' /\ ThreadOK'
    BY <1>1, <1>5 DEF allVars, vars, jobVars, JobTypeOK, ThreadOK
  <2> QED
    BY <1>2, <2>1, <2>2 DEF TypesOK
<1> QED
  BY <1>3, <1>4, <1>5 DEF JobNext, JobOnly

-----------------------------------------------------------------------------
(* What a job repairs.                                                     *)

\* A step that changes nothing the job looks at.
LEMMA RepairFrame ==
    ASSUME RepairOK, jpc' = jpc, calm' => calm,
           UNCHANGED <<listed, todo, cutOff, gone, staging>>,
           job'.staged = job.staged, job'.force = job.force,
           job'.resume = job.resume,
           calm' => snapshot' = snapshot /\ semantic' = semantic
    PROVE  RepairOK'
<1>1. CASE calm'
  <2>1. calm /\ snapshot' = snapshot /\ semantic' = semantic
    BY <1>1
  <2>2. Target' = Target /\ (Cleared' <=> Cleared)
    BY <2>1 DEF Target, Cleared
  <2>3. /\ RightBut(Target, todo \cup gone)' <=>
              RightBut(Target, todo \cup gone)
        /\ RightBut(staging, {})' <=> RightBut(staging, {})
        /\ RightBut(semantic, {})' <=> RightBut(semantic, {})
    BY <2>1, <2>2 DEF RightBut, Right, Found
  <2>4. /\ Fresh(Target)' <=> Fresh(Target)
        /\ Fresh(staging)' <=> Fresh(staging)
        /\ Fresh(semantic)' <=> Fresh(semantic)
    BY <2>1, <2>2 DEF Fresh
  <2> QED
    BY <2>1, <2>2, <2>3, <2>4 DEF RepairOK
<1>2. CASE ~calm'
  BY <1>2 DEF RepairOK
<1> QED
  BY <1>1, <1>2

\* The survey finds all there is to do: a record that is passed over has its
\* rows, or its revision was trusted.
LEMMA SurveyFinds ==
    ASSUME TypesOK, RepairOK, calm, Survey,
           NEW p \in Paths \ (ToIndex \cup ToDelete)
    PROVE  Found(Target, p)
<1>1. JobTypeOK /\ listed[p].hash = snapshot[p] /\ snapshot[p] \in Entry
  BY DEF TypesOK, TypeOK, DiskTypes, Tree, RepairOK, Survey
<1>2. ScanForced => Target = NoFiles
  BY DEF RepairOK, Survey, ScanForced, Cleared
<1>3. CASE snapshot[p] = None
  <2>1. CASE ScanForced
    BY <1>2, <1>3, <2>1 DEF Found, NoFiles
  <2>2. CASE ~ScanForced
    BY <1>1, <1>3, <2>2 DEF ToDelete, Found
  <2> QED
    BY <2>1, <2>2
<1>4. CASE snapshot[p] \in JobContents
  <2>1. PassedOver(p)
    BY <1>1, <1>4 DEF ToIndex
  <2> QED
    BY <1>1, <2>1 DEF PassedOver, TrustsRevision, Found
<1> QED
  BY <1>1, <1>3, <1>4 DEF Entry, Found

\* Every step keeps what a calm job has achieved.
LEMMA RepairNext ==
    ASSUME TypesOK, RepairOK, [JobNext]_allVars
    PROVE  RepairOK'
<1>1. JobTypeOK /\ Busy /\ ThreadOK
  BY DEF TypesOK
<1>2. CASE Restart
  BY <1>2 DEF Restart, RepairOK
<1>3. CASE ServerNext /\ ~Restart
  <2>1. /\ UNCHANGED jobVars
        /\ calm' = (calm /\ snapshot' = snapshot /\ semantic' = semantic)
    BY <1>3, ServerFacts
  <2> QED
    BY <2>1, RepairFrame DEF jobVars
<1>4. CASE \/ \E kind \in Kinds : StartJob(kind) \/ LaunchFails(kind)
           \/ RetryJob
  <2>1. jpc = "idle" /\ calm' = calm /\ jpc' \in {"idle", "prepare"}
    BY <1>1, <1>4 DEF StartJob, RetryJob, Launch, LaunchFails, MayStart, Busy
  <2> QED
    BY <2>1 DEF RepairOK
<1>5. CASE Control("running", "paused") \/ Control("paused", "running")
  <2>1. /\ job'.staged = job.staged /\ job'.force = job.force
        /\ job'.resume = job.resume
    BY <1>1, <1>5 DEF Control, JobTypeOK, JobRecord
  <2> QED
    BY <1>5, <2>1, RepairFrame DEF Control, vars
<1>6. CASE Prepare
  <2>1. /\ jpc' = "list" /\ job' = job
        /\ Build(IF Cleared THEN NoFiles ELSE Target)
    BY <1>6 DEF Prepare
  <2>2. Cleared' => Target' = NoFiles
    BY <2>1 DEF Cleared, Build, Target
  <2> QED
    BY <2>1, <2>2 DEF RepairOK
<1>7. CASE ListRecords
  <2>1. /\ jpc = "list" /\ jpc' = "survey" /\ calm' = calm
        /\ UNCHANGED <<job, semantic, staging, snapshot>>
    BY <1>7 DEF ListRecords, vars
  <2>2. \A p \in Paths : listed'[p].hash = snapshot[p]
    BY <1>7 DEF ListRecords
  <2> QED
    BY <2>1, <2>2 DEF RepairOK, Cleared, Target
<1>8. CASE Survey
  <2>1. /\ jpc = "survey" /\ jpc' = "scan" /\ calm' = calm
        /\ gone' = ToDelete
        /\ UNCHANGED <<job, semantic, snapshot, staging, listed>>
    BY <1>8 DEF Survey, vars
  <2>2. PICK P \in Selections : todo' = P /\ cutOff' = ToIndex \ P
    BY <1>8 DEF Survey
  <2>3. P \subseteq ToIndex /\ (job.staged => P = ToIndex)
    BY DEF Selections
  <2>4. ASSUME calm, NEW p \in Paths \ (todo' \cup gone')
        PROVE  Right(Target, p)'
    <3>1. CASE p \in ToIndex
      BY <2>1, <2>2, <2>3, <2>4, <3>1 DEF Right
    <3>2. CASE p \notin ToIndex
      <4>1. Found(Target, p)
        BY <1>8, <2>1, <2>4, <3>2, SurveyFinds
      <4>2. Target' = Target
        BY <2>1 DEF Target
      <4>3. Found(Target, p)'
        BY <2>1, <4>1, <4>2 DEF Found
      <4> QED
        BY <4>3 DEF Right
    <3> QED
      BY <3>1, <3>2
  <2>5. calm => RightBut(Target, todo \cup gone)'
    BY <2>4 DEF RightBut
  <2>6. calm => Fresh(Target)'
    BY <2>1 DEF RepairOK, Fresh, Cleared, Target, NoFiles
  <2> QED
    BY <2>1, <2>5, <2>6 DEF RepairOK
<1>9. ASSUME NEW P \in NextFiles, IndexFiles(P)
      PROVE  RepairOK'
  <2> DEFINE rows == [p \in Paths |-> IF p \in P THEN listed[p].hash
                                      ELSE Target[p]]
  <2>1. /\ jpc = "scan" /\ jpc' = "scan" /\ calm' = calm /\ Build(rows)
        /\ todo' = todo \ P
        /\ UNCHANGED <<job, snapshot, listed, cutOff, gone>>
    BY <1>9 DEF IndexFiles, GoesOn, serverVars, diskVars
  <2>2. Target' = rows
    BY <2>1 DEF Build, Target
  <2>3. calm => \A p \in Paths : listed[p].hash = snapshot[p]
    BY <2>1 DEF RepairOK
  <2>4. calm => RightBut(Target, todo \cup gone)
    BY <2>1 DEF RepairOK
  <2>5. ASSUME calm, NEW p \in Paths, p \notin todo' \cup gone'
        PROVE  Right(Target, p)'
    <3>1. CASE p \in P
      BY <2>1, <2>2, <2>3, <2>5, <3>1 DEF Right, Found
    <3>2. CASE p \notin P
      <4>1. Right(Target, p) /\ Target'[p] = Target[p]
        BY <2>1, <2>2, <2>4, <2>5, <3>2 DEF RightBut
      <4> QED
        BY <2>1, <4>1 DEF Right, Found
    <3> QED
      BY <3>1, <3>2
  <2>6. calm => Fresh(Target)'
    BY <2>1, <2>2, <2>3 DEF RepairOK, Fresh, Cleared
  <2> QED
    BY <2>1, <2>3, <2>5, <2>6 DEF RepairOK, RightBut
<1>10. ASSUME NEW p \in gone, DeleteRows(p)
       PROVE  RepairOK'
  <2>1. /\ jpc = "scan" /\ jpc' = "scan" /\ calm' = calm
        /\ Build([Target EXCEPT ![p] = None])
        /\ gone' = gone \ {p}
        /\ UNCHANGED <<job, snapshot, listed, cutOff, todo>>
    BY <1>10 DEF DeleteRows, GoesOn, serverVars, diskVars
  <2>2. Target' = [Target EXCEPT ![p] = None] /\ p \in Paths
        /\ Target \in [Paths -> TargetRows]
    BY <1>1, <2>1
       DEF Build, Target, JobTypeOK, TargetRows, ActiveRows, StagedRows
  <2>3. calm => \A q \in Paths : listed[q].hash = snapshot[q]
    BY <2>1 DEF RepairOK
  <2>4. calm => snapshot[p] = None
    BY <1>1, <2>2, <2>3 DEF ThreadOK
  <2>5. calm => RightBut(Target, todo \cup gone)
    BY <2>1 DEF RepairOK
  <2>6. ASSUME calm, NEW q \in Paths, q \notin todo' \cup gone'
        PROVE  Right(Target, q)'
    <3>1. CASE q = p
      BY <2>1, <2>2, <2>4, <2>6, <3>1 DEF Right, Found
    <3>2. CASE q # p
      <4>1. Right(Target, q) /\ Target'[q] = Target[q]
        BY <2>1, <2>2, <2>5, <2>6, <3>2 DEF RightBut
      <4> QED
        BY <2>1, <4>1 DEF Right, Found
    <3> QED
      BY <3>1, <3>2
  <2>7. calm => Fresh(Target)'
    BY <2>1, <2>2, <2>3 DEF RepairOK, Fresh, Cleared
  <2> QED
    BY <2>1, <2>3, <2>6, <2>7 DEF RepairOK, RightBut
<1>11. ASSUME NEW P \in NextFiles, SkipFiles(P)
       PROVE  RepairOK'
  BY <1>11 DEF SkipFiles, GoesOn, RepairOK
<1>12. CASE EndScan
  <2>1. /\ jpc = "scan" /\ todo = {} /\ gone = {} /\ calm' = calm
        /\ jpc' = IF job.staged THEN "activate" ELSE "mark"
        /\ UNCHANGED <<job, semantic, snapshot, staging, listed, cutOff>>
    BY <1>12 DEF EndScan, GoesOn, vars
  <2>2. calm => RightBut(Target, {}) /\ Fresh(Target)
    BY <2>1 DEF RepairOK
  <2>3. /\ calm /\ job.staged => RightBut(staging, {})' /\ Fresh(staging)'
        /\ calm /\ ~job.staged => RightBut(semantic, {})' /\ Fresh(semantic)'
    BY <2>1, <2>2 DEF RightBut, Right, Found, Fresh, Cleared, Target
  <2> QED
    BY <2>1, <2>3 DEF RepairOK
<1>13. CASE Activate
  <2>1. /\ jpc = "activate" /\ jpc' = "mark" /\ calm' = calm
        /\ semantic' = staging
        /\ UNCHANGED <<job, snapshot, listed, cutOff>>
    BY <1>13 DEF Activate, serverVars, diskVars
  <2>2. calm => RightBut(semantic, {})' /\ Fresh(semantic)'
    BY <2>1 DEF RepairOK, RightBut, Right, Found, Fresh, Cleared
  <2> QED
    BY <2>1, <2>2 DEF RepairOK
<1>14. CASE MarkAll
  <2>1. /\ jpc = "mark" /\ jpc' = "finish" /\ calm' = calm
        /\ UNCHANGED <<job, snapshot, semantic, listed, cutOff>>
    BY <1>14 DEF MarkAll, indexVars
  <2>2. calm => RightBut(semantic, {})' /\ Fresh(semantic)'
    BY <2>1 DEF RepairOK, RightBut, Right, Found, Fresh, Cleared
  <2> QED
    BY <2>1, <2>2 DEF RepairOK
<1>15. CASE Finish \/ JobFails
  BY <1>15 DEF Finish, JobFails, EndJob, RepairOK
<1>16. CASE UNCHANGED allVars
  BY <1>16, RepairFrame DEF allVars, jobVars, vars
<1> QED
  BY <1>2, <1>3, <1>4, <1>5, <1>6, <1>7, <1>8, <1>9, <1>10, <1>11, <1>12,
     <1>13, <1>14, <1>15, <1>16 DEF JobNext, Thread

-----------------------------------------------------------------------------
(* What is on its way to the index, with one client.                       *)

\* The content of p is on its way, in a handler or else in the queue.
OnItsWay(p) ==
    /\ \A r \in InHandler :
          p \in Touched(work[r]) => work[r].files[p] = snapshot[p]
    /\ (\A r \in InHandler : p \notin Touched(work[r]))
          => Leaves(UnderWay, semantic, p, snapshot[p])
\* Or it is not owed, or was lost.
RowOK(p) == snapshot[p] \in Indexable /\ p \notin lost => OnItsWay(p)
RowsOK == \A p \in Paths : RowOK(p)

\* The handlers name a path once: a change has no more than its body.
LEMMA ClientNext ==
    ASSUME TypeOK, CleanBatches, ClientOK, [JobNext]_allVars
    PROVE  ClientOK'
<1>1. CASE ServerNext
  BY <1>1, ClientStep, ServerFacts
<1>2. CASE JobOnly \/ UNCHANGED allVars
  <2>1. body' = body /\ work' = work
    BY <1>2, JobFrame DEF allVars, vars
  <2> QED
    BY <2>1 DEF ClientOK, Clean, Upserts
<1> QED
  BY <1>1, <1>2 DEF JobNext, JobOnly

\* The steps of a handler that leave what is on its way alone.
LEMMA HandlerFrame ==
    ASSUME TypeOK, NEW r \in Requests,
           \/ PostBatch(r) \/ ReadStatus(r) \/ MergeStatus(r) \/ ReadHashes(r)
           \/ Reserve(r) \/ SaveSummary(r) \/ UpdateExact(r) \/ Answer(r)
    PROVE  /\ InHandler' = InHandler
           /\ \A s \in InHandler : work'[s] = work[s]
           /\ queue' = queue /\ snapshot' = snapshot
<1> DEFINE H == {"save", "exact", "commit", "put"}
<1> USE IndexableFacts DEF TypeOK, LocalTypes, Goto, Return, EndBatch,
        queueVars, diskVars
<1>1. /\ \A s \in Requests \ {r} : pc'[s] = pc[s] /\ work'[s] = work[s]
      /\ pc[r] \in H <=> pc'[r] \in H
      /\ pc[r] \in H => work'[r] = work[r]
      /\ queue' = queue /\ snapshot' = snapshot
  <2>1. CASE PostBatch(r)
    BY <2>1 DEF PostBatch
  <2>2. CASE ReadStatus(r)
    BY <2>2 DEF ReadStatus
  <2>3. CASE MergeStatus(r)
    BY <2>3 DEF MergeStatus
  <2>4. CASE ReadHashes(r)
    BY <2>4 DEF ReadHashes
  <2>5. CASE Reserve(r)
    BY <2>5 DEF Reserve
  <2>6. CASE SaveSummary(r)
    BY <2>6 DEF SaveSummary
  <2>7. CASE UpdateExact(r)
    BY <2>7 DEF UpdateExact
  <2>8. CASE Answer(r)
    BY <2>8 DEF Answer
  <2> QED
    BY <2>1, <2>2, <2>3, <2>4, <2>5, <2>6, <2>7, <2>8
<1> QED
  BY <1>1 DEF InHandler

\* Every step keeps what is owed on its way, or counts it as lost.
LEMMA RowsNext ==
    ASSUME OneClient, TypesOK, TypesOK', ClientOK, RowsOK, [JobNext]_allVars
    PROVE  RowsOK'
<1>1. /\ TypeOK /\ TypeOK' /\ JobTypeOK /\ WorkerOK
      /\ queue \in Seq(Job) /\ drained \in Seq(Job) /\ work[Worker] \in Change
      /\ work'[Worker] \in Change /\ drained' \in Seq(Job)
      /\ queue' \in Seq(Job)
  BY IndexableFacts DEF TypesOK, TypeOK, QueueTypes, LocalTypes
<1>2. SUFFICES ASSUME NEW p \in Paths,
                      snapshot'[p] \in Indexable, p \notin lost'
               PROVE  OnItsWay(p)'
  BY DEF RowsOK, RowOK
<1>3. RowOK(p)
  BY DEF RowsOK
<1> DEFINE v == snapshot[p]
<1>4. ASSUME snapshot'[p] = snapshot[p], p \notin lost, InHandler' = InHandler,
             \A r \in InHandler : work'[r] = work[r],
             v \in Indexable /\ Leaves(UnderWay, semantic, p, v)
                => Leaves(UnderWay', semantic', p, v)
      PROVE  OnItsWay(p)'
  <2>1. v \in Indexable /\ OnItsWay(p)
    BY <1>2, <1>3, <1>4 DEF RowOK
  <2>2. \A r \in InHandler : Touched(work'[r]) = Touched(work[r])
    BY <1>4
  <2>3. \A r \in InHandler' : p \in Touched(work'[r])
                                => work'[r].files[p] = snapshot'[p]
    BY <1>4, <2>1, <2>2 DEF OnItsWay
  <2>4. (\A r \in InHandler' : p \notin Touched(work'[r]))
           => Leaves(UnderWay', semantic', p, snapshot'[p])
    BY <1>4, <2>1, <2>2 DEF OnItsWay
  <2> QED
    BY <2>3, <2>4 DEF OnItsWay, Touched, Upserts
<1>5. ASSUME queue' = queue, drained' = drained, semantic' = semantic,
             work'[Worker] = work[Worker],
             pc[Worker] = "index" <=> pc'[Worker] = "index"
      PROVE  UnderWay' = UnderWay /\ semantic' = semantic
  BY <1>5 DEF UnderWay
<1>6. ASSUME NEW r \in Requests, NEW c \in Change, c = work[r],
             NEW j \in Job, j.files = c.files, j.dels = c.dels,
             queue' = Append(queue, j), drained' = drained,
             semantic' = semantic, snapshot' = snapshot, p \notin lost,
             work'[Worker] = work[Worker], pc'[Worker] = pc[Worker],
             r \in InHandler, InHandler' = {}
      PROVE  OnItsWay(p)'
  <2>1. v \in Indexable /\ OnItsWay(p) /\ snapshot'[p] = v
    BY <1>2, <1>3, <1>6 DEF RowOK
  <2>2. Touched(j) = Touched(work[r])
    BY <1>6 DEF Touched, Upserts
  <2>3. \/ p \in Touched(j) /\ j.files[p] = v
        \/ p \notin Touched(j) /\ Leaves(UnderWay, semantic, p, v)
    BY <1>6, <2>1, <2>2 DEF OnItsWay, OneClient, InHandler
  <2>4. UnderWay' = Append(UnderWay, j) /\ UnderWay \in Seq(Job \cup Change)
    BY <1>1, <1>6, JobJoins
  <2>5. Leaves(UnderWay', semantic, p, v)
    BY <2>3, <2>4, LeavesAppended
  <2> QED
    BY <1>6, <2>1, <2>5 DEF OnItsWay
<1>7. ASSUME NEW r \in Requests, PostBatch(r) \/ RequestStep(r), p \notin lost
      PROVE  OnItsWay(p)'
  <2>1. /\ work'[Worker] = work[Worker] /\ pc'[Worker] = pc[Worker]
        /\ drained' = drained /\ semantic' = semantic
        /\ snapshot' = snapshot \/ ApplyBatch(r)
    BY <1>1, <1>7, RequestFrame
  <2>2. CASE \/ PostBatch(r) \/ ReadStatus(r) \/ MergeStatus(r)
             \/ ReadHashes(r) \/ Reserve(r) \/ SaveSummary(r) \/ UpdateExact(r)
             \/ Answer(r)
    <3>1. /\ InHandler' = InHandler
          /\ \A s \in InHandler : work'[s] = work[s]
          /\ queue' = queue /\ snapshot' = snapshot
      BY <1>1, <2>2, HandlerFrame
    <3>2. UnderWay' = UnderWay
      BY <1>5, <2>1, <3>1
    <3> QED
      BY <1>4, <1>7, <2>1, <3>1, <3>2
  <2>3. CASE ApplyBatch(r)
    <3>1. /\ InHandler = {} /\ InHandler' = {r} /\ work' = work
          /\ queue' = queue
          /\ snapshot' = FilesThenDeletes(snapshot, work[r])
      BY <1>1, <2>3, IndexableFacts
         DEF OneClient, ApplyBatch, InHandler, Goto, TypeOK, LocalTypes,
             queueVars
    <3>2. UnderWay' = UnderWay
      BY <1>5, <2>1, <3>1
    <3>3. Clean(work[r])
      BY DEF ClientOK
    <3>4. p \in Touched(work[r]) => work[r].files[p] = snapshot'[p]
      BY <3>1, <3>3 DEF Clean, Touched, Upserts, FilesThenDeletes
    <3>5. p \notin Touched(work[r]) => snapshot'[p] = snapshot[p]
      BY <3>1 DEF Touched, Upserts, FilesThenDeletes
    <3>6. p \notin Touched(work[r])
             => Leaves(UnderWay, semantic, p, snapshot'[p])
      BY <1>2, <1>3, <1>7, <3>1, <3>5 DEF RowOK, OnItsWay
    <3>7. Touched(work'[r]) = Touched(work[r])
      BY <3>1
    <3> QED
      BY <2>1, <3>1, <3>2, <3>4, <3>6, <3>7 DEF OnItsWay, Touched, Upserts
  <2> DEFINE j == [rev |-> rev[r], files |-> work[r].files,
                   dels |-> work[r].dels]
  <2>4. work[r] \in Change /\ j \in Job
    BY <1>1, IndexableFacts DEF TypeOK, LocalTypes, Change, Job
  <2>5. ASSUME EndBatch(r)
        PROVE  InHandler' = {}
    BY <1>1, <2>5, IndexableFacts
       DEF OneClient, EndBatch, Return, Goto, InHandler, TypeOK, LocalTypes
  <2>6. CASE Commit(r)
    <3>1. r \in InHandler /\ snapshot' = snapshot
      BY <2>6 DEF Commit, InHandler, diskVars
    <3>2. CASE queue' = Append(queue, j) /\ EndBatch(r)
      <4> HIDE DEF j
      <4>1. j.files = work[r].files /\ j.dels = work[r].dels
        BY DEF j
      <4> QED
        BY <1>6, <1>7, <2>1, <2>4, <2>5, <3>1, <3>2, <4>1
    <3>3. CASE Goto(r, "put") /\ UNCHANGED <<queue, work>>
      <4>1. InHandler' = InHandler
        BY <1>1, <3>1, <3>3, IndexableFacts
           DEF Goto, InHandler, TypeOK, LocalTypes
      <4>2. UnderWay' = UnderWay
        BY <1>5, <2>1, <3>3
      <4> QED
        BY <1>4, <1>7, <2>1, <3>1, <3>3, <4>1, <4>2
    <3> QED
      BY <2>6, <3>2, <3>3 DEF Commit
  <2>7. CASE PutJob(r)
    <3>1. r \in InHandler /\ snapshot' = snapshot /\ EndBatch(r)
          /\ queue' = Append(queue, j)
      BY <2>7 DEF PutJob, InHandler, diskVars
    <3> HIDE DEF j
    <3>2. j.files = work[r].files /\ j.dels = work[r].dels
      BY DEF j
    <3> QED
      BY <1>6, <1>7, <2>1, <2>4, <2>5, <3>1, <3>2
  <2> QED
    BY <1>7, <2>2, <2>3, <2>6, <2>7 DEF RequestStep
<1>8. ASSUME NEW r \in Requests, BatchFails(r), p \notin lost,
             pc[r] = "apply" \/ p \notin Touched(work[r])
      PROVE  OnItsWay(p)'
  <2>1. /\ work'[Worker] = work[Worker] /\ pc'[Worker] = pc[Worker]
        /\ drained' = drained /\ semantic' = semantic
        /\ snapshot' = snapshot /\ queue' = queue
    BY <1>1, <1>8, RequestFrame DEF BatchFails, diskVars, queueVars
  <2>2. UnderWay' = UnderWay
    BY <1>5, <2>1
  <2>3. InHandler' = {}
    BY <1>1, <1>8, IndexableFacts
       DEF BatchFails, OneClient, EndBatch, Return, Goto, InHandler, TypeOK,
           LocalTypes
  <2>4. \A s \in InHandler : p \notin Touched(work[s])
    BY <1>8 DEF InHandler, OneClient
  <2>5. Leaves(UnderWay, semantic, p, v)
    BY <1>2, <1>3, <1>8, <2>1, <2>4 DEF RowOK, OnItsWay
  <2> QED
    BY <2>1, <2>2, <2>3, <2>5 DEF OnItsWay
<1>9. ASSUME IndexerStep(Worker)
      PROVE  /\ snapshot' = snapshot /\ InHandler' = InHandler
             /\ \A r \in InHandler : work'[r] = work[r]
  <2>1. snapshot' = snapshot /\ \A r \in Requests : Same(r)
    BY <1>1, <1>9, IndexableFacts, IndexerFrame DEF Indexers
  <2> QED
    BY <2>1 DEF Same, InHandler
<1>10. CASE WorkerStep /\ p \notin lost
  <2>1. IndexerStep(Worker)
    BY <1>10 DEF WorkerStep, IndexerStep
  <2>2. ASSUME v \in Indexable, Leaves(UnderWay, semantic, p, v)
        PROVE  Leaves(UnderWay', semantic', p, v)
    <3> HIDE DEF v
    <3> QED
      BY <1>1, <1>10, <2>2, WayWorker DEF WorkerOK
  <2> QED
    BY <1>4, <1>9, <1>10, <2>1, <2>2
<1>11. CASE MarkFails(Worker) /\ p \notin lost
  <2>1. /\ UNCHANGED <<work, drained, queue, semantic>>
        /\ pc[Worker] # "index" /\ pc'[Worker] # "index"
    BY <1>1, <1>11, IndexFrame
       DEF MarkFails, UpdateSemantic, InterruptSemantic
  <2>2. UnderWay' = UnderWay /\ semantic' = semantic
    BY <1>5, <2>1
  <2> QED
    BY <1>4, <1>9, <1>11, <2>2 DEF IndexerStep
<1>12. CASE /\ InterruptSemantic(Worker) /\ p \notin Touched(work[Worker])
            /\ p \notin lost
  <2> DEFINE w == work[Worker]
  <2>1. /\ UNCHANGED <<drained, queue>>
        /\ pc[Worker] = "index" /\ pc'[Worker] # "index"
        /\ p \notin Touched(w) /\ semantic'[p] = semantic[p]
    BY <1>1, <1>12, IndexFrame DEF InterruptSemantic, Touched
  <2>2. UnderWay' = drained \o queue /\ UnderWay = <<w>> \o (drained \o queue)
    BY <1>1, <2>1, UnderWayParts DEF UnderWay
  <2>3. drained \o queue \in Seq(Job \cup Change) /\ w \in Job \cup Change
    BY <1>1, UnderWayParts
  <2>4. Leaves(UnderWay, semantic, p, v) => Leaves(UnderWay', semantic', p, v)
    <3> HIDE DEF w
    <3> QED
      BY <2>1, <2>2, <2>3, LeavesWritten
  <2> QED
    BY <1>4, <1>9, <1>12, <2>4 DEF IndexerStep
<1>13. CASE Restart
  <2>1. /\ InHandler' = {} /\ pc'[Worker] = "idle" /\ drained' = <<>>
        /\ queue' = <<>> /\ snapshot' = snapshot /\ semantic' = semantic
        /\ lost' = lost \cup Stale
    BY <1>13, IndexableFacts
       DEF Restart, Crash, InHandler, diskVars, indexVars
  <2>2. UnderWay' = <<>>
    BY <1>1, <2>1, UnderWayParts DEF UnderWay
  <2>3. semantic[p] = snapshot[p]
    BY <1>2, <2>1 DEF Stale
  <2> QED
    BY <2>1, <2>2, <2>3 DEF OnItsWay, Leaves
<1>14. CASE JobOnly
  <2>1. UNCHANGED <<snapshot, queue, drained, pc, work>>
    BY <1>14, JobFrame
  <2>2. UnderWay' = UnderWay /\ InHandler' = InHandler
    BY <2>1 DEF UnderWay, InHandler
  <2>3. \/ semantic' = semantic /\ lost' = lost
        \/ lost' = lost \cup Missed'
    BY <1>14
       DEF JobOnly, Thread, StartJob, RetryJob, Launch, LaunchFails, Control,
           Prepare, ListRecords, Survey, EndScan, Activate, MarkAll, Finish,
           IndexFiles, SkipFiles, DeleteRows, JobFails, vars, indexVars
  <2>4. p \notin lost
    BY <1>2, <2>3
  <2>5. CASE semantic' = semantic
    BY <1>4, <2>1, <2>2, <2>4, <2>5
  <2>6. CASE p \notin Missed'
    <3>1. v \in Indexable /\ OnItsWay(p)
      BY <1>2, <1>3, <2>1, <2>4 DEF RowOK
    <3>2. semantic'[p] = v \/ Coming(p, UnderWay)'
      BY <2>1, <2>6, <3>1 DEF Missed, Stale
    <3>3. ASSUME \A r \in InHandler : p \notin Touched(work[r]),
                 \A i \in 1..Len(UnderWay) : p \notin Touched(UnderWay[i])
          PROVE  semantic'[p] = v
      BY <2>1, <2>2, <3>2, <3>3 DEF Coming, Touched, Upserts
    <3>4. (\A r \in InHandler : p \notin Touched(work[r]))
             => Leaves(UnderWay, semantic', p, v)
      BY <3>1, <3>3 DEF OnItsWay, Leaves
    <3> QED
      BY <2>1, <2>2, <3>1, <3>4 DEF OnItsWay, Touched, Upserts
  <2> QED
    BY <1>2, <2>3, <2>5, <2>6
<1>15. CASE ServerNext
  <2>1. ASSUME NEW r \in Requests,
               Server(PostBatch(r) \/ RequestStep(r), {})
        PROVE  OnItsWay(p)'
    BY <1>2, <1>7, <2>1 DEF Server
  <2>2. ASSUME NEW r \in Requests, HandlerFails(r)
        PROVE  OnItsWay(p)'
    BY <1>2, <1>8, <2>2 DEF Server, HandlerFails
  <2>3. CASE Server(WorkerStep \/ MarkFails(Worker), {})
    <3>1. p \notin lost /\ (WorkerStep \/ MarkFails(Worker))
      BY <1>2, <2>3 DEF Server
    <3> QED
      BY <1>10, <1>11, <3>1
  <2>4. CASE GroupInterrupted
    BY <1>2, <1>12, <2>4 DEF Server, GroupInterrupted
  <2> QED
    BY <1>13, <1>15, <2>1, <2>2, <2>3, <2>4 DEF ServerNext
<1>16. CASE UNCHANGED allVars
  <2>1. p \notin lost /\ UnderWay' = UnderWay /\ InHandler' = InHandler
        /\ UNCHANGED <<snapshot, work, semantic>>
    BY <1>2, <1>16 DEF allVars, vars, UnderWay, InHandler
  <2> QED
    BY <1>4, <2>1
<1> QED
  BY <1>14, <1>15, <1>16 DEF JobNext, JobOnly

\* What is on its way brings the snapshot's content with the newest change: a
\* path without one is not stale.
LEMMA RowsImply ==
    ASSUME TypesOK, RowsOK
    PROVE  RowsAccounted
<1> SUFFICES ASSUME NEW p \in Stale, p \notin lost
             PROVE  Coming(p, UnderWay)
  BY DEF RowsAccounted, Missed
<1>1. p \in Paths /\ snapshot[p] \in Indexable /\ semantic[p] # snapshot[p]
  BY DEF Stale
<1>2. OnItsWay(p)
  BY <1>1 DEF RowsOK, RowOK
<1>3. \A c : c.files[p] = snapshot[p] => Brings(c, p)
  BY DEF Brings
<1>4. CASE \E r \in InHandler : p \in Touched(work[r])
  BY <1>2, <1>3, <1>4 DEF OnItsWay, Coming
<1>5. CASE \A r \in InHandler : p \notin Touched(work[r])
  <2> DEFINE n == Len(UnderWay)
             T == {i \in 1..n : p \in Touched(UnderWay[i])}
  <2>1. Leaves(UnderWay, semantic, p, snapshot[p])
    BY <1>2, <1>5 DEF OnItsWay
  <2>2. n \in Nat
    <3>1. /\ queue \in Seq(Job) /\ drained \in Seq(Job)
          /\ work[Worker] \in Change
      BY IndexableFacts DEF TypesOK, TypeOK, QueueTypes, LocalTypes
    <3>2. UnderWay \in Seq(Job \cup Change)
      BY <3>1, UnderWayParts DEF UnderWay
    <3> QED
      BY <3>2
  <2>3. T # {}
    BY <1>1, <2>1 DEF Leaves
  <2> HIDE DEF n
  <2>4. PICK m \in T : \A i \in T : i <= m
    BY <2>2, <2>3, LastExists
  <2>5. m \in 1..n /\ p \in Touched(UnderWay[m])
        /\ \A i \in (m + 1)..n : p \notin Touched(UnderWay[i])
    BY <2>2, <2>4
  <2>6. Brings(UnderWay[m], p)
    BY <1>3, <2>1, <2>5 DEF Leaves, n
  <2> QED
    BY <2>5, <2>6 DEF Coming, n
<1> QED
  BY <1>4, <1>5

-----------------------------------------------------------------------------
(* The theorems.                                                           *)

\* The job's variables keep their types; the staged index never holds a content
\* that semantic_index_decision leaves out in the job's phase, and the active
\* one none that it leaves out in the job's and in the worker's.
THEOREM JobTypeCorrect == JobSpec => []JobTypeOK
<1>1. JobInit => TypesOK
  BY TypesInit
<1>2. TypesOK /\ [JobNext]_allVars => TypesOK'
  BY TypesNext
<1>3. TypesOK => JobTypeOK
  BY DEF TypesOK
<1> QED
  BY <1>1, <1>2, <1>3, PTL DEF JobSpec

\* _start_snapshot_index_job and the retry never start a second thread beside
\* one that is at work on the staging directory and the active index.
THEOREM OneThread == JobSpec => OneRunner
<1>1. JobInit => TypesOK
  BY TypesInit
<1>2. TypesOK /\ [JobNext]_allVars => TypesOK'
  BY TypesNext
<1>3. TypesOK /\ [JobNext]_allVars
         => [jpc' = "prepare" /\ jpc # "prepare" => jpc = "idle"]_allVars
  BY BusyNext DEF TypesOK
<1> QED
  BY <1>1, <1>2, <1>3, PTL DEF JobSpec, OneRunner

\* A job of _run_snapshot_index_blocking beside which nothing changed leaves
\* each file as the snapshot has it, whatever was lost before, except for the
\* files the job's policy, its limit or a trusted revision leaves out; and after
\* a job that built the index from nothing those have no rows.
THEOREM JobsRepair == JobSpec => []JobRepairs
<1>1. JobInit => TypesOK /\ RepairOK
  BY TypesInit DEF JobInit, RepairOK
<1>2. TypesOK /\ RepairOK /\ [JobNext]_allVars => TypesOK' /\ RepairOK'
  BY TypesNext, RepairNext
<1>3. RepairOK => JobRepairs
  BY DEF RepairOK, RightBut, Right, Found, Fresh, JobRepairs
<1> QED
  BY <1>1, <1>2, <1>3, PTL DEF JobSpec

\* With one client whose batches name a path once, a file that the semantic
\* index does not have as the snapshot has it is on its way there through
\* _enqueue_index_update and _index_worker, or was lost in a way that is named.
THEOREM RowsAreAccounted ==
    ASSUME OneClient, CleanBatches
    PROVE  JobSpec => []RowsAccounted
<1>1. JobInit => TypesOK /\ ClientOK /\ RowsOK
  <2> SUFFICES ASSUME JobInit PROVE ClientOK /\ RowsOK
    BY TypesInit
  <2>1. ClientOK
    BY IndexableFacts
       DEF JobInit, Init, ClientOK, Clean, NoBody, NoChange, Upserts, NoFiles
  <2>2. /\ InHandler = {} /\ snapshot = NoFiles /\ semantic = NoFiles
        /\ UnderWay = <<>> \o <<>> \o <<>>
    BY IndexableFacts DEF JobInit, Init, InHandler, UnderWay
  <2>3. UnderWay = <<>>
    BY <2>2
  <2> QED
    BY <2>1, <2>2, <2>3 DEF RowsOK, RowOK, OnItsWay, Leaves
<1>2. TypesOK /\ ClientOK /\ RowsOK /\ [JobNext]_allVars
         => TypesOK' /\ ClientOK' /\ RowsOK'
  <2> SUFFICES ASSUME TypesOK, ClientOK, RowsOK, [JobNext]_allVars
               PROVE  TypesOK' /\ ClientOK' /\ RowsOK'
    OBVIOUS
  <2>1. TypesOK' /\ ClientOK'
    BY TypesNext, ClientNext DEF TypesOK
  <2> QED
    BY <2>1, RowsNext
<1>3. TypesOK /\ RowsOK => RowsAccounted
  BY RowsImply
<1> QED
  BY <1>1, <1>2, <1>3, PTL DEF JobSpec
=============================================================================
