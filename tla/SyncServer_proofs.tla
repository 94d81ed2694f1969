-------------------------- MODULE SyncServer_proofs --------------------------
(***************************************************************************)
(* Proofs about SyncServer, for every number of handlers, paths, contents, *)
(* batches, faults and restarts: its types, and the safety of the          *)
(* revisions on disk and of those a restart would load.                    *)
(***************************************************************************)
EXTENDS SyncServer, TLAPS

USE DEF Larger

\* The values that empty a local or a row have their types.
LEMMA TypeConstants ==
  /\ NoFiles \in Tree /\ NoChange \in Change /\ NoBody \in Body
  /\ Absent \in Row /\ [accepted |-> 0, indexed |-> 0] \in Revisions
  BY DEF NoFiles, Tree, Entry, NoChange, Change, NoBody, Body, Absent, Row,
         Revisions

\* Every handler and the worker is a process; pollers and the worker index.
LEMMA ProcsFacts ==
  /\ Requests \subseteq Procs /\ Pollers \subseteq Procs /\ Worker \in Procs
  /\ Indexers \subseteq Procs /\ Worker \in Indexers
  BY DEF Procs, Indexers

\* A group of variables that a step leaves alone keeps its types.
LEMMA TypeUnchanged ==
  /\ DiskTypes /\ UNCHANGED diskVars => DiskTypes'
  /\ IndexTypes /\ UNCHANGED indexVars => IndexTypes'
  /\ StateTypes /\ UNCHANGED stateVars => StateTypes'
  /\ QueueTypes /\ UNCHANGED queueVars => QueueTypes'
  /\ BoundTypes /\ UNCHANGED <<acked, bounds>> => BoundTypes'
  BY DEF DiskTypes, IndexTypes, StateTypes, QueueTypes, BoundTypes, diskVars,
         indexVars, stateVars, queueVars, bounds

\* Writing the files of a change and removing its deletes gives a tree again:
\* what the store, the exact index and the semantic index hold after a batch.
LEMMA TypeTree ==
  /\ \A t \in Tree, c \in Change : FilesThenDeletes(t, c) \in Tree
  /\ \A t \in Tree, c \in Change : DeletesThenFiles(t, c) \in Tree
  /\ \A t \in Tree, c \in Body : FilesThenDeletes(t, c) \in Tree
  BY DEF FilesThenDeletes, DeletesThenFiles, Tree, Entry, Change, Body

\* A handler that moves to another step, or ends, keeps its locals well typed.
LEMMA TypeLocals ==
  ASSUME LocalTypes, NEW x \in Procs
  PROVE  /\ \A label \in Labels : Goto(x, label) => pc' \in [Procs -> Labels]
         /\ Return(x) =>
              /\ pc' \in [Procs -> Labels] /\ work' \in [Procs -> Change]
              /\ rev' \in [Procs -> Nat] /\ seen' \in [Procs -> Revisions]
<1>1. ASSUME NEW label \in Labels, Goto(x, label)
      PROVE  pc' \in [Procs -> Labels]
  BY <1>1 DEF Goto, LocalTypes
<1>2. ASSUME Return(x)
      PROVE  /\ pc' \in [Procs -> Labels] /\ work' \in [Procs -> Change]
             /\ rev' \in [Procs -> Nat] /\ seen' \in [Procs -> Revisions]
 <2>1. pc' \in [Procs -> Labels]
   BY <1>1, <1>2 DEF Return, Labels
 <2>2. /\ work' \in [Procs -> Change] /\ rev' \in [Procs -> Nat]
       /\ seen' \in [Procs -> Revisions]
   BY <1>2, TypeConstants DEF Return, LocalTypes
 <2> QED
   BY <2>1, <2>2
<1> QED
  BY <1>1, <1>2

\* The index queue stays a sequence of jobs when it is emptied or gets a job.
LEMMA TypeAppend ==
  /\ \A q \in Seq(Job), j \in Job : Append(q, j) \in Seq(Job)
  /\ <<>> \in Seq(Job)
  OBVIOUS

\* A fresh process with an empty store is well typed.
LEMMA TypeInit == Init => TypeOK
<1> SUFFICES ASSUME Init PROVE TypeOK
  OBVIOUS
<1>1. DiskTypes /\ IndexTypes /\ BoundTypes
  BY TypeConstants DEF Init, DiskTypes, IndexTypes, BoundTypes
<1>2. StateTypes
  BY TypeConstants DEF Init, StateTypes
<1>3. QueueTypes
  BY TypeAppend DEF Init, QueueTypes
<1>4. LocalTypes
  BY TypeConstants DEF Init, LocalTypes, Labels
<1> QED
  BY <1>1, <1>2, <1>3, <1>4 DEF TypeOK

\* Starting a coalesced group (_coalesce_index_jobs) keeps the types, whatever
\* number of jobs the group has.
LEMMA TypeStartGroup ==
  ASSUME TypeOK, NEW jobs \in Seq(Job), StartGroup(jobs)
  PROVE  /\ work' \in [Procs -> Change] /\ rev' \in [Procs -> Nat]
         /\ pc' \in [Procs -> Labels]
         /\ drained' \in Seq(Job) /\ depth' \in Nat
         /\ running' \in BOOLEAN /\ indexing' \in BOOLEAN
<1>1. PICK k \in 1..Len(jobs) : \E newest \in 1..k :
        /\ work' = [work EXCEPT ![Worker] = GroupChange(jobs, k)]
        /\ rev' = [rev EXCEPT ![Worker] = jobs[newest].rev]
        /\ drained' = SubSeq(jobs, k + 1, Len(jobs))
        /\ depth' = DepthAfter(k)
        /\ running' = TRUE /\ indexing' = TRUE
        /\ Goto(Worker, "index")
  BY DEF StartGroup
<1>2. GroupChange(jobs, k) \in Change
  <2>1. ASSUME NEW p \in Paths, \E c \in Contents : LastIncluded(jobs, k, p, c)
        PROVE  (CHOOSE c \in Contents : LastIncluded(jobs, k, p, c))
                   \in Contents
    BY <2>1
  <2>2. DeletedPaths(jobs, k) \in SUBSET Paths
    BY DEF DeletedPaths
  <2> QED
    BY <2>1, <2>2 DEF GroupChange, Change, Tree, Entry
<1>3. \A i \in 1..k : jobs[i].rev \in Nat
  <2> TAKE i \in 1..k
  <2>1. i \in 1..Len(jobs)
    BY <1>1
  <2>2. jobs[i] \in Job
    BY <2>1
  <2> QED
    BY <2>2 DEF Job
<1>4. drained' \in Seq(Job)
  BY <1>1
<1>5. depth' \in Nat
  BY <1>1 DEF DepthAfter, TypeOK, StateTypes
<1>6. work' \in [Procs -> Change] /\ rev' \in [Procs -> Nat]
  BY <1>1, <1>2, <1>3 DEF TypeOK, LocalTypes
<1>7. pc' \in [Procs -> Labels]
  BY <1>1, TypeLocals, ProcsFacts DEF TypeOK, Labels
<1> QED
  BY <1>1, <1>4, <1>5, <1>6, <1>7

\* The worker's end of a group keeps the types, whether or not a group is left.
LEMMA TypeNextGroup ==
  ASSUME TypeOK, NEW busy \in BOOLEAN, NextGroup(busy)
  PROVE  /\ work' \in [Procs -> Change] /\ rev' \in [Procs -> Nat]
         /\ pc' \in [Procs -> Labels] /\ seen' \in [Procs -> Revisions]
         /\ drained' \in Seq(Job) /\ depth' \in Nat
         /\ running' \in BOOLEAN /\ indexing' \in BOOLEAN
<1>1. CASE StartGroup(drained) /\ UNCHANGED seen
  BY <1>1, TypeStartGroup DEF TypeOK, QueueTypes, LocalTypes
<1>2. CASE /\ running' = FALSE /\ indexing' = busy /\ Return(Worker)
           /\ UNCHANGED <<depth, drained>>
  BY <1>2, TypeLocals, ProcsFacts DEF TypeOK, QueueTypes, StateTypes
<1> QED
  BY <1>1, <1>2 DEF NextGroup

\* Every step keeps the types.
LEMMA TypeNext == TypeOK /\ [Next]_vars => TypeOK'
<1> SUFFICES ASSUME TypeOK, [Next]_vars PROVE TypeOK'
  OBVIOUS
<1>1. ASSUME NEW x \in Procs, ReadStatus(x) PROVE TypeOK'
  <2>1. DiskTypes' /\ IndexTypes' /\ StateTypes' /\ QueueTypes' /\ BoundTypes'
    BY <1>1, TypeUnchanged DEF ReadStatus, TypeOK
  <2>2. LocalTypes'
    BY <1>1, TypeLocals
       DEF ReadStatus, TypeOK, LocalTypes, Revisions, DiskTypes, Labels
  <2> QED
    BY <2>1, <2>2 DEF TypeOK
<1>2. ASSUME NEW x \in Procs, MergeStatus(x) PROVE TypeOK'
  <2>1. DiskTypes' /\ IndexTypes' /\ QueueTypes' /\ BoundTypes'
    BY <1>2, TypeUnchanged DEF MergeStatus, TypeOK
  <2>2. LocalTypes'
    BY <1>2, TypeLocals DEF MergeStatus, TypeOK, LocalTypes, Labels
  <2>3. StateTypes'
    BY <1>2
       DEF MergeStatus, TypeOK, StateTypes, MergeSeen, LocalTypes, Revisions
  <2> QED
    BY <2>1, <2>2, <2>3 DEF TypeOK
<1>3. ASSUME NEW r \in Requests, PostBatch(r) PROVE TypeOK'
  <2>1. DiskTypes' /\ IndexTypes' /\ StateTypes' /\ QueueTypes'
    BY <1>3, TypeUnchanged DEF PostBatch, TypeOK
  <2>2. body' \in [Requests -> Body]
    BY <1>3, ConstantsAssumption DEF PostBatch, TypeOK, LocalTypes
  <2>3. LocalTypes'
    BY <1>3, <2>2, TypeLocals, ProcsFacts
       DEF PostBatch, TypeOK, LocalTypes, Labels
  <2>4. BoundTypes'
    BY <1>3 DEF PostBatch, TypeOK, BoundTypes
  <2> QED
    BY <2>1, <2>2, <2>3, <2>4 DEF TypeOK
<1>4. ASSUME NEW r \in Requests, ReadHashes(r) PROVE TypeOK'
  <2>1. DiskTypes' /\ IndexTypes' /\ StateTypes' /\ QueueTypes' /\ BoundTypes'
    BY <1>4, TypeUnchanged DEF ReadHashes, TypeOK
  <2>2. LocalTypes'
    BY <1>4, TypeLocals, ProcsFacts
       DEF ReadHashes, TypeOK, LocalTypes, Change, Tree, Entry, Body, Labels
  <2> QED
    BY <2>1, <2>2 DEF TypeOK
<1>5. ASSUME NEW r \in Requests, Reserve(r) PROVE TypeOK'
  <2>1. DiskTypes' /\ IndexTypes' /\ StateTypes' /\ QueueTypes' /\ BoundTypes'
    BY <1>5, TypeUnchanged DEF Reserve, TypeOK
  <2>2. LocalTypes'
    BY <1>5, TypeLocals, ProcsFacts
       DEF Reserve, TypeOK, LocalTypes, NextRevision, Body, StateTypes, Labels
  <2> QED
    BY <2>1, <2>2 DEF TypeOK
<1>6. ASSUME NEW r \in Requests, ApplyBatch(r) PROVE TypeOK'
  <2>1. IndexTypes' /\ StateTypes' /\ QueueTypes' /\ BoundTypes'
    BY <1>6, TypeUnchanged DEF ApplyBatch, TypeOK
  <2>2. LocalTypes'
    BY <1>6, TypeLocals, ProcsFacts
       DEF ApplyBatch, TypeOK, LocalTypes, AcceptedAfter, DiskTypes, Revisions,
           Labels
  <2>3. DiskTypes'
    BY <1>6, TypeTree, ProcsFacts
       DEF ApplyBatch, TypeOK, DiskTypes, AcceptedAfter, LocalTypes
  <2> QED
    BY <2>1, <2>2, <2>3 DEF TypeOK
<1>7. ASSUME NEW x \in Procs, SaveSummary(x) PROVE TypeOK'
  <2>1. IndexTypes' /\ StateTypes' /\ QueueTypes' /\ BoundTypes'
    BY <1>7, TypeUnchanged DEF SaveSummary, TypeOK
  <2>2. LocalTypes'
    BY <1>7, TypeLocals DEF SaveSummary, TypeOK, LocalTypes, Labels
  <2>3. DiskTypes'
    BY <1>7 DEF SaveSummary, TypeOK, DiskTypes, StatusFromIndex
  <2> QED
    BY <2>1, <2>2, <2>3 DEF TypeOK
<1>8. ASSUME NEW r \in Requests, UpdateExact(r) PROVE TypeOK'
  <2>1. DiskTypes' /\ StateTypes' /\ QueueTypes' /\ BoundTypes'
    BY <1>8, TypeUnchanged DEF UpdateExact, TypeOK
  <2>2. LocalTypes'
    BY <1>8, TypeLocals, ProcsFacts DEF UpdateExact, TypeOK, LocalTypes, Labels
  <2>3. IndexTypes'
    BY <1>8, TypeTree, ProcsFacts
       DEF UpdateExact, TypeOK, IndexTypes, LocalTypes
  <2> QED
    BY <2>1, <2>2, <2>3 DEF TypeOK
<1>9. ASSUME NEW r \in Requests, BatchFails(r) PROVE TypeOK'
  <2>1. DiskTypes' /\ IndexTypes' /\ StateTypes' /\ QueueTypes'
    BY <1>9, TypeUnchanged DEF BatchFails, TypeOK
  <2>2. LocalTypes'
    BY <1>9, TypeLocals, ProcsFacts, TypeConstants
       DEF BatchFails, TypeOK, LocalTypes, EndBatch
  <2>3. BoundTypes'
    BY <1>9 DEF BatchFails, TypeOK, BoundTypes, Fault
  <2> QED
    BY <2>1, <2>2, <2>3 DEF TypeOK
<1>10. ASSUME NEW r \in Requests, Commit(r) PROVE TypeOK'
  <2>1. DiskTypes' /\ IndexTypes'
    BY <1>10, TypeUnchanged DEF Commit, TypeOK
  <2>2. LocalTypes'
    BY <1>10, TypeLocals, ProcsFacts, TypeConstants
       DEF Commit, TypeOK, LocalTypes, EndBatch, Labels
  <2>3. StateTypes'
    <3>1. files' \in [Paths -> Row]
      BY <1>10, TypeConstants, ProcsFacts
         DEF Commit, TypeOK, StateTypes, LocalTypes, Row, Change, Tree
    <3>2. deleted' \in SUBSET Paths
      BY <1>10, ProcsFacts DEF Commit, TypeOK, StateTypes, LocalTypes, Change
    <3>3. accepted' \in Nat /\ indexed' \in Nat /\ depth' \in Nat
      BY <1>10, ProcsFacts DEF Commit, TypeOK, StateTypes, LocalTypes
    <3>4. /\ loaded' \in BOOLEAN /\ running' \in BOOLEAN
          /\ indexing' \in BOOLEAN /\ failed' \in BOOLEAN
      BY <1>10 DEF Commit, TypeOK, StateTypes
    <3> QED
      BY <1>10, <3>1, <3>2, <3>3, <3>4 DEF StateTypes
  <2>4. QueueTypes'
    BY <1>10, TypeAppend, ProcsFacts
       DEF Commit, TypeOK, QueueTypes, Job, LocalTypes, Change
  <2>5. BoundTypes'
    BY <1>10, TypeTree
       DEF Commit, TypeOK, BoundTypes, Acknowledge, LocalTypes, bounds
  <2> QED
    BY <2>1, <2>2, <2>3, <2>4, <2>5 DEF TypeOK
<1>11. ASSUME NEW r \in Requests, PutJob(r) PROVE TypeOK'
  <2>1. DiskTypes' /\ IndexTypes' /\ StateTypes'
    BY <1>11, TypeUnchanged DEF PutJob, TypeOK
  <2>2. LocalTypes'
    BY <1>11, TypeLocals, ProcsFacts, TypeConstants
       DEF PutJob, TypeOK, LocalTypes, EndBatch
  <2>3. QueueTypes'
    BY <1>11, TypeAppend, ProcsFacts
       DEF PutJob, TypeOK, QueueTypes, Job, LocalTypes, Change
  <2>4. BoundTypes'
    BY <1>11, TypeTree
       DEF PutJob, TypeOK, BoundTypes, Acknowledge, LocalTypes, bounds
  <2> QED
    BY <2>1, <2>2, <2>3, <2>4 DEF TypeOK
<1>12. ASSUME NEW r \in Requests, Answer(r) PROVE TypeOK'
  <2>1. DiskTypes' /\ IndexTypes' /\ StateTypes' /\ QueueTypes'
    BY <1>12, TypeUnchanged DEF Answer, TypeOK
  <2>2. LocalTypes'
    BY <1>12, TypeLocals, ProcsFacts, TypeConstants
       DEF Answer, TypeOK, LocalTypes, EndBatch
  <2>3. BoundTypes'
    BY <1>12, TypeTree
       DEF Answer, TypeOK, BoundTypes, Acknowledge, LocalTypes, bounds
  <2> QED
    BY <2>1, <2>2, <2>3 DEF TypeOK
<1>13. ASSUME NEW x \in Indexers, UpdateSemantic(x) PROVE TypeOK'
  <2>1. DiskTypes' /\ StateTypes' /\ QueueTypes' /\ BoundTypes'
    BY <1>13, TypeUnchanged DEF UpdateSemantic, TypeOK
  <2>2. LocalTypes'
    BY <1>13, TypeLocals, ProcsFacts
       DEF UpdateSemantic, TypeOK, LocalTypes, Labels
  <2>3. IndexTypes'
    BY <1>13, TypeTree, ProcsFacts
       DEF UpdateSemantic, TypeOK, IndexTypes, LocalTypes
  <2> QED
    BY <2>1, <2>2, <2>3 DEF TypeOK
<1>14. ASSUME NEW x \in Indexers, InterruptSemantic(x) PROVE TypeOK'
  <2>1. DiskTypes' /\ StateTypes' /\ QueueTypes'
    BY <1>14, TypeUnchanged DEF InterruptSemantic, TypeOK
  <2>2. LocalTypes'
    BY <1>14, TypeLocals, ProcsFacts
       DEF InterruptSemantic, TypeOK, LocalTypes, Labels
  <2>3. IndexTypes'
    BY <1>14, ProcsFacts
       DEF InterruptSemantic, TypeOK, IndexTypes, Tree, Entry, LocalTypes,
           Change
  <2>4. BoundTypes'
    BY <1>14 DEF InterruptSemantic, TypeOK, BoundTypes, Fault
  <2> QED
    BY <2>1, <2>2, <2>3, <2>4 DEF TypeOK
<1>15. ASSUME NEW x \in Indexers, MarkIndexed(x) PROVE TypeOK'
  <2>1. IndexTypes' /\ StateTypes' /\ QueueTypes' /\ BoundTypes'
    BY <1>15, TypeUnchanged DEF MarkIndexed, TypeOK
  <2>2. storeIndexed' \in Nat
    BY <1>15, ProcsFacts DEF MarkIndexed, TypeOK, LocalTypes, DiskTypes
  <2>3. seen' \in [Procs -> Revisions]
    BY <1>15, <2>2 DEF MarkIndexed, TypeOK, LocalTypes, Revisions
  <2>4. LocalTypes'
    BY <1>15, <2>3, TypeLocals, ProcsFacts
       DEF MarkIndexed, TypeOK, LocalTypes, Labels
  <2>5. DiskTypes'
    BY <1>15, ProcsFacts DEF MarkIndexed, TypeOK, DiskTypes, LocalTypes
  <2> QED
    BY <2>1, <2>2, <2>3, <2>4, <2>5 DEF TypeOK
<1>16. ASSUME NEW x \in Indexers, MarkFails(x) PROVE TypeOK'
  <2>1. DiskTypes' /\ IndexTypes' /\ StateTypes' /\ QueueTypes'
    BY <1>16, TypeUnchanged DEF MarkFails, TypeOK
  <2>2. LocalTypes'
    BY <1>16, TypeLocals, ProcsFacts DEF MarkFails, TypeOK, LocalTypes, Labels
  <2>3. BoundTypes'
    BY <1>16 DEF MarkFails, TypeOK, BoundTypes, Fault
  <2> QED
    BY <2>1, <2>2, <2>3 DEF TypeOK
<1>17. ASSUME NEW k \in Pollers, Poll(k) PROVE TypeOK'
  <2>1. DiskTypes' /\ IndexTypes' /\ StateTypes' /\ QueueTypes' /\ BoundTypes'
    BY <1>17, TypeUnchanged DEF Poll, TypeOK
  <2>2. LocalTypes'
    BY <1>17, TypeLocals, ProcsFacts DEF Poll, TypeOK, LocalTypes, Labels
  <2> QED
    BY <2>1, <2>2 DEF TypeOK
<1>18. ASSUME NEW k \in Pollers, CheckPasses(k) PROVE TypeOK'
  <2>1. DiskTypes' /\ IndexTypes' /\ StateTypes' /\ QueueTypes' /\ BoundTypes'
    BY <1>18, TypeUnchanged DEF CheckPasses, TypeOK
  <2>2. LocalTypes'
    BY <1>18, TypeLocals, ProcsFacts DEF CheckPasses, TypeOK, LocalTypes, Labels
  <2> QED
    BY <2>1, <2>2 DEF TypeOK
<1>19. ASSUME NEW k \in Pollers, Recover(k) PROVE TypeOK'
  <2>1. DiskTypes' /\ IndexTypes' /\ QueueTypes' /\ BoundTypes'
    BY <1>19, TypeUnchanged DEF Recover, TypeOK
  <2>2. LocalTypes'
    BY <1>19, TypeLocals, ProcsFacts
       DEF Recover, TypeOK, LocalTypes, Change, Tree, Entry, StateTypes, Row,
           Labels
  <2>3. StateTypes'
    BY <1>19 DEF Recover, TypeOK, StateTypes
  <2> QED
    BY <2>1, <2>2, <2>3 DEF TypeOK
<1>20. ASSUME NEW k \in Pollers, FinishRecovery(k) PROVE TypeOK'
  <2>1. DiskTypes' /\ IndexTypes' /\ QueueTypes' /\ BoundTypes'
    BY <1>20, TypeUnchanged DEF FinishRecovery, TypeOK
  <2>2. LocalTypes'
    BY <1>20, TypeLocals, ProcsFacts
       DEF FinishRecovery, TypeOK, LocalTypes, Labels
  <2>3. StateTypes'
    <3>1. indexed' \in Nat /\ depth' \in Nat
      BY <1>20, ProcsFacts
         DEF FinishRecovery, TypeOK, StateTypes, LocalTypes, Revisions
    <3>2. indexing' \in BOOLEAN
      BY <1>20, <3>1, SMT DEF FinishRecovery
    <3> QED
      BY <1>20, <3>1, <3>2 DEF FinishRecovery, TypeOK, StateTypes
  <2> QED
    BY <2>1, <2>2, <2>3 DEF TypeOK
<1>21. ASSUME NEW k \in Pollers, FailRecovery(k) PROVE TypeOK'
  <2>1. DiskTypes' /\ IndexTypes' /\ QueueTypes' /\ BoundTypes'
    BY <1>21, TypeUnchanged DEF FailRecovery, TypeOK
  <2>2. LocalTypes'
    BY <1>21, TypeLocals, ProcsFacts
       DEF FailRecovery, TypeOK, LocalTypes, Labels
  <2>3. StateTypes'
    <3>1. indexing' \in BOOLEAN
      BY <1>21, SMT DEF FailRecovery
    <3> QED
      BY <1>21, <3>1 DEF FailRecovery, TypeOK, StateTypes
  <2> QED
    BY <2>1, <2>2, <2>3 DEF TypeOK
<1>22. ASSUME NEW k \in Pollers, SkipProbe(k) PROVE TypeOK'
  <2>1. DiskTypes' /\ IndexTypes' /\ StateTypes' /\ QueueTypes' /\ BoundTypes'
    BY <1>22, TypeUnchanged DEF SkipProbe, TypeOK
  <2>2. LocalTypes'
    BY <1>22, TypeLocals, ProcsFacts DEF SkipProbe, TypeOK, LocalTypes
  <2> QED
    BY <2>1, <2>2 DEF TypeOK
<1>23. ASSUME NEW k \in Pollers, AnswerStatus(k) PROVE TypeOK'
  <2>1. DiskTypes' /\ IndexTypes' /\ QueueTypes' /\ BoundTypes'
    BY <1>23, TypeUnchanged DEF AnswerStatus, TypeOK
  <2>2. LocalTypes'
    BY <1>23, TypeLocals, ProcsFacts DEF AnswerStatus, TypeOK, LocalTypes
  <2>3. StateTypes'
    BY <1>23, ProcsFacts
       DEF AnswerStatus, TypeOK, StateTypes, MergeSeen, LocalTypes, Revisions
  <2> QED
    BY <2>1, <2>2, <2>3 DEF TypeOK
<1>24. ASSUME TakeJobs PROVE TypeOK'
  <2>1. DiskTypes' /\ IndexTypes' /\ BoundTypes'
    BY <1>24, TypeUnchanged DEF TakeJobs, TypeOK
  <2>2. StartGroup(queue) /\ queue \in Seq(Job)
    BY <1>24 DEF TakeJobs, TypeOK, QueueTypes
  <2>3. StateTypes' /\ QueueTypes' /\ LocalTypes'
    BY <1>24, <2>2, TypeStartGroup
       DEF TakeJobs, TypeOK, StateTypes, QueueTypes, LocalTypes
  <2> QED
    BY <2>1, <2>2, <2>3 DEF TypeOK
<1>25. ASSUME FinishGroup PROVE TypeOK'
  <2>1. DiskTypes' /\ IndexTypes' /\ BoundTypes'
    BY <1>25, TypeUnchanged DEF FinishGroup, TypeOK
  <2>2. indexed' \in Nat
    BY <1>25, ProcsFacts DEF FinishGroup, TypeOK, LocalTypes, Revisions
  <2> DEFINE busy == depth > 0 \/ indexed' < accepted
  <2>3. busy \in BOOLEAN /\ NextGroup(busy)
    BY <1>25 DEF FinishGroup
  <2>4. StateTypes' /\ QueueTypes' /\ LocalTypes'
    <3> HIDE DEF busy
    <3> QED
      BY <1>25, <2>2, <2>3, TypeNextGroup
         DEF FinishGroup, TypeOK, StateTypes, QueueTypes, LocalTypes
  <2> QED
    BY <2>1, <2>4 DEF TypeOK
<1>26. ASSUME FailGroup PROVE TypeOK'
  <2>1. DiskTypes' /\ IndexTypes' /\ BoundTypes'
    BY <1>26, TypeUnchanged DEF FailGroup, TypeOK
  <2> DEFINE busy == depth > 0
  <2>2. busy \in BOOLEAN /\ NextGroup(busy)
    BY <1>26 DEF FailGroup
  <2>3. StateTypes' /\ QueueTypes' /\ LocalTypes'
    <3> HIDE DEF busy
    <3> QED
      BY <1>26, <2>2, TypeNextGroup
         DEF FailGroup, TypeOK, StateTypes, QueueTypes, LocalTypes
  <2> QED
    BY <2>1, <2>3 DEF TypeOK
<1>27. ASSUME Crash PROVE TypeOK'
  <2>1. DiskTypes' /\ IndexTypes'
    BY <1>27, TypeUnchanged DEF Crash, TypeOK
  <2>2. StateTypes'
    BY <1>27, TypeConstants DEF Crash, StateTypes
  <2>3. QueueTypes'
    BY <1>27, TypeAppend DEF Crash, QueueTypes
  <2>4. LocalTypes'
    BY <1>27, TypeConstants DEF Crash, LocalTypes, Labels
  <2>5. BoundTypes'
    BY <1>27 DEF Crash, BoundTypes, TypeOK
  <2> QED
    BY <2>1, <2>2, <2>3, <2>4, <2>5 DEF TypeOK
<1>28. ASSUME UNCHANGED vars PROVE TypeOK'
  BY <1>28
     DEF vars, TypeOK, DiskTypes, IndexTypes, StateTypes, QueueTypes,
         LocalTypes, BoundTypes
<1> QED
  <2>1. ASSUME NEW r \in Requests,
               PostBatch(r) \/ RequestStep(r) \/ BatchFails(r)
        PROVE  TypeOK'
    BY <2>1, <1>1, <1>2, <1>3, <1>4, <1>5, <1>6, <1>7, <1>8, <1>9, <1>10, <1>11,
       <1>12, ProcsFacts
       DEF RequestStep
  <2>2. ASSUME WorkerStep PROVE TypeOK'
    BY <2>2, <1>7, <1>13, <1>15, <1>24, <1>25, <1>26, ProcsFacts
       DEF WorkerStep, IndexStep
  <2>3. ASSUME NEW k \in Pollers, Poll(k) \/ PollStep(k) \/ SkipProbe(k)
        PROVE  TypeOK'
    <3>1. k \in Indexers
      BY DEF Indexers
    <3> QED
      BY <2>3, <3>1, <1>1, <1>2, <1>7, <1>13, <1>15, <1>17, <1>18, <1>19, <1>20,
         <1>21, <1>22, <1>23, ProcsFacts
         DEF PollStep, IndexStep
  <2>4. ASSUME NEW x \in Indexers, InterruptSemantic(x) \/ MarkFails(x)
        PROVE  TypeOK'
    BY <2>4, <1>14, <1>16
  <2> QED
    BY <2>1, <2>2, <2>3, <2>4, <1>27, <1>28 DEF Next

-----------------------------------------------------------------------------
(* The safety invariant. *)

\* No revision on disk is taken back.
DiskUp ==
    /\ storeAccepted <= storeAccepted' /\ storeIndexed <= storeIndexed'
    /\ DurableAccepted <= DurableAccepted' /\ DurableIndexed <= DurableIndexed'

\* A step of x leaves the locals of the other processes alone.
Others(x) ==
    \A y \in Procs \ {x} :
        pc'[y] = pc[y] /\ rev'[y] = rev[y] /\ seen'[y] = seen[y]

\* A step that writes neither index.json nor status.json keeps the order of the
\* revisions on disk.
LEMMA DiskKept ==
  ASSUME IInv, UNCHANGED diskVars
  PROVE  DiskUp /\ StoreOrder'
  BY DEF IInv, TypeOK, DiskTypes, StoreOrder, DiskUp, DurableAccepted,
         DurableIndexed, diskVars

\* No step takes back a revision of index.json, or what a restart would load,
\* and every step keeps status.json behind index.json: apply_batch and
\* mark_indexed only raise index.json, and _save_status_summary copies it.
LEMMA DiskNext ==
  ASSUME IInv, [Next]_vars
  PROVE  DiskUp /\ StoreOrder'
<1> USE DEF IInv, TypeOK, DiskTypes, LocalTypes, StoreOrder, DiskUp,
            DurableAccepted, DurableIndexed
<1>1. ASSUME NEW r \in Requests, ApplyBatch(r) PROVE DiskUp /\ StoreOrder'
  BY <1>1, ProcsFacts DEF ApplyBatch, AcceptedAfter
<1>2. ASSUME NEW x \in Procs, SaveSummary(x) PROVE DiskUp /\ StoreOrder'
  BY <1>2 DEF SaveSummary, StatusFromIndex
<1>3. ASSUME NEW x \in Indexers, MarkIndexed(x) PROVE DiskUp /\ StoreOrder'
  BY <1>3, ProcsFacts DEF MarkIndexed
<1>4. CASE UNCHANGED diskVars
  BY <1>4, DiskKept
<1> QED
  <2>1. ASSUME NEW r \in Requests,
               PostBatch(r) \/ RequestStep(r) \/ BatchFails(r)
        PROVE  DiskUp /\ StoreOrder'
    BY <2>1, <1>1, <1>2, <1>4, ProcsFacts
       DEF RequestStep, PostBatch, BatchFails, ReadStatus, MergeStatus,
           ReadHashes, Reserve, UpdateExact, Commit, PutJob, Answer
  <2>2. ASSUME WorkerStep PROVE DiskUp /\ StoreOrder'
    BY <2>2, <1>2, <1>3, <1>4, ProcsFacts
       DEF WorkerStep, IndexStep, TakeJobs, FinishGroup, FailGroup,
           UpdateSemantic
  <2>3. ASSUME NEW k \in Pollers, Poll(k) \/ PollStep(k) \/ SkipProbe(k)
        PROVE  DiskUp /\ StoreOrder'
    <3>1. k \in Indexers
      BY DEF Indexers
    <3> QED
    BY <2>3, <3>1, <1>2, <1>3, <1>4, ProcsFacts
       DEF PollStep, IndexStep, Poll, SkipProbe, ReadStatus, MergeStatus,
           CheckPasses, Recover, UpdateSemantic, FinishRecovery, FailRecovery,
           AnswerStatus
  <2>4. ASSUME NEW x \in Indexers, InterruptSemantic(x) \/ MarkFails(x)
        PROVE  DiskUp /\ StoreOrder'
    BY <2>4, <1>4 DEF InterruptSemantic, MarkFails
  <2>5. ASSUME Crash \/ UNCHANGED vars PROVE DiskUp /\ StoreOrder'
    <3>1. UNCHANGED diskVars
      BY <2>5 DEF Crash, diskVars, vars
    <3> QED
      BY <3>1, <1>4
  <2> QED
    BY <2>1, <2>2, <2>3, <2>4, <2>5 DEF Next

\* Moving a handler on concerns no other process.
LEMMA GotoFacts ==
  ASSUME TypeOK, NEW x \in Procs, NEW label, Goto(x, label)
  PROVE  /\ pc'[x] = label
         /\ \A y \in Procs \ {x} : pc'[y] = pc[y]
         /\ UNCHANGED <<rev, seen>> => Others(x)
  BY DEF Goto, TypeOK, LocalTypes, Others

\* The end of a handler concerns no other process.
LEMMA ReturnFacts ==
  ASSUME TypeOK, NEW x \in Procs, Return(x)
  PROVE  pc'[x] = "idle" /\ Others(x)
  BY DEF Goto, Return, TypeOK, LocalTypes, Others

\* What the invariant says of one process, with the types the arithmetic needs:
\* a restart never loads more than index.json has.
LEMMA LocalFacts ==
  ASSUME IInv, NEW x \in Procs
  PROVE  /\ rev[x] \in Nat
         /\ seen[x].accepted \in Nat /\ seen[x].indexed \in Nat
         /\ storeAccepted \in Nat /\ storeIndexed \in Nat
         /\ DurableAccepted \in Nat /\ DurableIndexed \in Nat
         /\ DurableAccepted <= storeAccepted /\ DurableIndexed <= storeIndexed
         /\ LocalOK(x)
<1>1. /\ rev[x] \in Nat /\ seen[x].accepted \in Nat /\ seen[x].indexed \in Nat
  BY DEF IInv, TypeOK, LocalTypes, Revisions
<1>2. /\ storeAccepted \in Nat /\ storeIndexed \in Nat
         /\ DurableAccepted \in Nat /\ DurableIndexed \in Nat
         /\ DurableAccepted <= storeAccepted /\ DurableIndexed <= storeIndexed
  BY DEF IInv, TypeOK, DiskTypes, StoreOrder, DurableAccepted, DurableIndexed
<1> QED
  BY <1>1, <1>2 DEF IInv, LocalsOK

\* A step that does not write the two files keeps what a restart would load.
LEMMA DurableKept ==
  ASSUME UNCHANGED diskVars
  PROVE  UNCHANGED <<storeAccepted, storeIndexed, DurableAccepted,
                     DurableIndexed>>
  BY DEF diskVars, DurableAccepted, DurableIndexed

\* A process that neither takes nor releases the workspace lock keeps LockOK.
LEMMA LockKept ==
  ASSUME IInv, NEW x \in Procs, Others(x), UNCHANGED lock,
         pc[x] \notin {"save", "savemark"}, pc'[x] \notin {"save", "savemark"}
  PROVE  LockOK'
  BY DEF IInv, LockOK, Others

\* Taking the free lock for a save keeps LockOK.
LEMMA LockTaken ==
  ASSUME IInv, NEW x \in Procs, Others(x), lock = Free, lock' = x,
         pc'[x] \in {"save", "savemark"}
  PROVE  LockOK'
  BY ConstantsAssumption DEF IInv, LockOK, Others

\* Releasing the lock after a save keeps LockOK.
LEMMA LockReleased ==
  ASSUME IInv, NEW x \in Procs, Others(x), pc[x] \in {"save", "savemark"},
         lock' = Free, pc'[x] \notin {"save", "savemark"}
  PROVE  LockOK'
  BY ConstantsAssumption DEF IInv, LockOK, Others

\* While the process state is left alone, a disk that only advances keeps a
\* restart safe.
LEMMA RestartFrame ==
  ASSUME IInv, TypeOK', DiskUp, UNCHANGED <<accepted, indexed, exactRevision>>
  PROVE  RestartSafe'
  BY DEF IInv, TypeOK, DiskTypes, StateTypes, IndexTypes, DiskUp, RestartSafe,
         DurableAccepted, DurableIndexed

\* The revision of a job in a queue is a number.
LEMMA JobRevs ==
  ASSUME NEW q \in Seq(Job), NEW i \in 1..Len(q) PROVE q[i].rev \in Nat
<1>1. q[i] \in Job
  OBVIOUS
<1> QED
  BY <1>1 DEF Job

\* While the queue is left alone, a disk that only advances keeps every job's
\* revision accepted.
LEMMA JobsFrame ==
  ASSUME IInv, TypeOK', DiskUp, UNCHANGED <<queue, drained>>
  PROVE  JobsOK'
<1>1. \A i \in 1..Len(queue) : queue[i].rev \in Nat
  BY JobRevs DEF TypeOK, QueueTypes
<1>2. \A i \in 1..Len(drained) : drained[i].rev \in Nat
  BY JobRevs DEF TypeOK, QueueTypes
<1> QED
  BY <1>1, <1>2 DEF IInv, TypeOK, DiskTypes, DiskUp, JobsOK

\* When one process moves and the disk only advances, the bounds of the others
\* hold as before: the invariant is to be shown for the process that moved.
LEMMA LocalsFrame ==
  ASSUME IInv, TypeOK', DiskUp, NEW x \in Procs, Others(x), LocalOK(x)'
  PROVE  LocalsOK'
<1> SUFFICES ASSUME NEW y \in Procs, y # x PROVE LocalOK(y)'
  BY DEF LocalsOK
<1>1. pc'[y] = pc[y] /\ rev'[y] = rev[y] /\ seen'[y] = seen[y]
  BY DEF Others
<1>2. /\ rev[y] \in Nat /\ seen[y].accepted \in Nat /\ seen[y].indexed \in Nat
      /\ storeAccepted \in Nat /\ storeIndexed \in Nat
      /\ storeAccepted' \in Nat /\ storeIndexed' \in Nat
      /\ DurableAccepted \in Nat /\ DurableIndexed \in Nat
      /\ DurableAccepted' \in Nat /\ DurableIndexed' \in Nat
  BY DEF IInv, TypeOK, LocalTypes, Revisions, DiskTypes, DurableAccepted,
         DurableIndexed
<1>3. LocalOK(y)
  BY DEF IInv, LocalsOK
<1> QED
  BY <1>1, <1>2, <1>3 DEF LocalOK, DiskUp

\* A step that changes only the locals of a process outside the lock keeps the
\* invariant when it keeps the bounds of that process.
LEMMA LocalFrame ==
  ASSUME IInv, TypeOK', DiskUp, StoreOrder',
         NEW x \in Procs, Others(x), LocalOK(x)',
         UNCHANGED <<accepted, indexed, exactRevision, queue, drained, lock>>,
         pc[x] \notin {"save", "savemark"}, pc'[x] \notin {"save", "savemark"}
  PROVE  IInv'
<1>1. RestartSafe'
  BY RestartFrame
<1>2. JobsOK'
  BY JobsFrame
<1>3. LocalsOK'
  BY LocalsFrame
<1>4. LockOK'
  BY LockKept
<1> QED
  BY <1>1, <1>2, <1>3, <1>4 DEF IInv

\* _enqueue_index_update puts a job whose revision the store has accepted.
LEMMA QueueAppend ==
  ASSUME IInv, TypeOK', DiskUp, NEW j \in Job, j.rev <= storeAccepted,
         queue' = Append(queue, j), UNCHANGED drained
  PROVE  JobsOK'
<1>1. /\ storeAccepted \in Nat /\ storeAccepted' \in Nat
      /\ storeAccepted <= storeAccepted'
  BY DEF IInv, TypeOK, DiskTypes, DiskUp
<1>2. ASSUME NEW i \in 1..Len(queue') PROVE queue'[i].rev <= storeAccepted'
  <2>1. j.rev \in Nat /\ queue \in Seq(Job)
    BY DEF Job, TypeOK, QueueTypes
  <2>2. CASE i \in 1..Len(queue)
    <3>1. queue'[i] = queue[i] 
      BY <2>1, <2>2
    <3>2. queue[i].rev \in Nat /\ queue[i].rev <= storeAccepted
      BY <2>1, <2>2, JobRevs DEF IInv, JobsOK
    <3> QED
      BY <1>1, <3>1, <3>2
  <2>3. CASE i = Len(queue) + 1
    <3>1. queue'[i] = j
      BY <2>1, <2>3
    <3> QED
      BY <1>1, <2>1, <3>1
  <2> QED
    BY <2>1, <2>2, <2>3
<1>3. ASSUME NEW i \in 1..Len(drained') PROVE drained'[i].rev <= storeAccepted'
  <2>1. drained[i].rev \in Nat /\ drained[i].rev <= storeAccepted
    BY <1>3, JobRevs DEF IInv, TypeOK, QueueTypes, JobsOK
  <2> QED
    BY <1>1, <2>1
<1> QED
  BY <1>2, <1>3 DEF JobsOK

\* A group takes the revision of one of its jobs, so the store has accepted it.
LEMMA SafeStartGroup ==
  ASSUME IInv, NEW jobs \in Seq(Job), StartGroup(jobs), UNCHANGED seen,
         \A i \in 1..Len(jobs) : jobs[i].rev <= storeAccepted
  PROVE  /\ Others(Worker) /\ pc'[Worker] = "index"
         /\ rev'[Worker] <= storeAccepted
         /\ \A i \in 1..Len(drained') : drained'[i].rev <= storeAccepted
<1>1. PICK k \in 1..Len(jobs) : \E newest \in 1..k :
        /\ rev' = [rev EXCEPT ![Worker] = jobs[newest].rev]
        /\ drained' = SubSeq(jobs, k + 1, Len(jobs))
        /\ Goto(Worker, "index")
  BY DEF StartGroup
<1>2. PICK newest \in 1..k : rev' = [rev EXCEPT ![Worker] = jobs[newest].rev]
  BY <1>1
<1>3. newest \in 1..Len(jobs)
  BY <1>1, <1>2
<1>4. rev'[Worker] <= storeAccepted
  BY <1>2, <1>3, ProcsFacts DEF IInv, TypeOK, LocalTypes
<1>5. \A i \in 1..Len(drained') : drained'[i].rev <= storeAccepted
  BY <1>1
<1>6. Others(Worker) /\ pc'[Worker] = "index"
  BY <1>1, <1>2, ProcsFacts DEF Others, Goto, IInv, TypeOK, LocalTypes
<1> QED
  BY <1>4, <1>5, <1>6

\* The worker's end of a group keeps the bounds of its locals and of the jobs
\* left.
LEMMA SafeNextGroup ==
  ASSUME IInv, TypeOK', DiskUp, NEW busy, NextGroup(busy),
         UNCHANGED <<diskVars, lock, queue>>,
         pc[Worker] \in {"finish", "failed"}
  PROVE  LocalsOK' /\ JobsOK' /\ LockOK'
<1>1. /\ Others(Worker) /\ pc'[Worker] \in {"idle", "index"}
      /\ pc'[Worker] = "index" => rev'[Worker] <= storeAccepted
      /\ \A i \in 1..Len(drained') : drained'[i].rev <= storeAccepted
  <2>1. CASE StartGroup(drained) /\ UNCHANGED seen
    <3>1. /\ drained \in Seq(Job)
          /\ \A i \in 1..Len(drained) : drained[i].rev <= storeAccepted
      BY DEF IInv, TypeOK, QueueTypes, JobsOK
    <3> QED
      BY <2>1, <3>1, SafeStartGroup
  <2>2. CASE Return(Worker) /\ UNCHANGED drained
    BY <2>2, ReturnFacts, ProcsFacts DEF IInv, JobsOK
  <2> QED
    BY <2>1, <2>2 DEF NextGroup
<1>2. LocalOK(Worker)'
  BY <1>1, DurableKept DEF LocalOK
<1>3. LocalsOK'
  BY <1>1, <1>2, LocalsFrame, ProcsFacts
<1>4. JobsOK'
  BY <1>1, DurableKept DEF IInv, JobsOK
<1>5. LockOK'
  BY <1>1, LockKept, ProcsFacts
<1> QED
  BY <1>3, <1>4, <1>5

\* Every step keeps the inductive invariant.
LEMMA SafeNext == IInv /\ [Next]_vars => IInv'
<1> SUFFICES ASSUME IInv, [Next]_vars PROVE IInv'
  OBVIOUS
<1>0. TypeOK' /\ DiskUp /\ StoreOrder'
  BY TypeNext, DiskNext DEF IInv
<1>1. ASSUME NEW x \in Procs, ReadStatus(x) PROVE IInv'
  <2>1. Others(x)
    BY <1>1 DEF ReadStatus, Others, Goto, IInv, TypeOK, LocalTypes
  <2>2. LocalOK(x)'
    <3>1. seen'[x] = [accepted |-> DurableAccepted, indexed |-> DurableIndexed]
      BY <1>1
         DEF ReadStatus, IInv, TypeOK, LocalTypes, DurableAccepted,
             DurableIndexed
    <3> QED
      BY <1>1, <3>1, LocalFacts, DurableKept, GotoFacts
         DEF ReadStatus, IInv, LocalOK
  <2> QED
    BY <1>1, <1>0, <2>1, <2>2, GotoFacts, LocalFrame
       DEF ReadStatus, IInv, stateVars, queueVars, indexVars
<1>2. ASSUME NEW x \in Procs, MergeStatus(x) PROVE IInv'
  <2>1. Others(x)
    BY <1>2, ReturnFacts, GotoFacts DEF MergeStatus, IInv
  <2>2. LocalOK(x)'
    BY <1>2, GotoFacts, ReturnFacts DEF MergeStatus, IInv, LocalOK
  <2>3. RestartSafe'
    BY <1>2, LocalFacts, DurableKept
       DEF MergeStatus, IInv, LocalOK, RestartSafe, indexVars, MergeSeen
  <2>4. JobsOK'
    BY <1>2, <1>0, JobsFrame DEF MergeStatus, queueVars
  <2>5. LockOK'
    BY <1>2, <2>1, GotoFacts, ReturnFacts, LockKept DEF MergeStatus, IInv
  <2> QED
    BY <1>0, <2>1, <2>2, <2>3, <2>4, <2>5, LocalsFrame DEF IInv
<1>3. ASSUME NEW r \in Requests, PostBatch(r) PROVE IInv'
  <2>1. Others(r)
    BY <1>3, ProcsFacts, GotoFacts DEF PostBatch, IInv
  <2>2. LocalOK(r)'
    BY <1>3, ProcsFacts, GotoFacts DEF PostBatch, IInv, LocalOK
  <2> QED
    BY <1>3, <1>0, <2>1, <2>2, GotoFacts, LocalFrame, ProcsFacts
       DEF PostBatch, IInv, stateVars, queueVars, indexVars
<1>4. ASSUME NEW r \in Requests, ReadHashes(r) PROVE IInv'
  <2>1. Others(r)
    BY <1>4, ProcsFacts, GotoFacts DEF ReadHashes, IInv
  <2>2. LocalOK(r)'
    BY <1>4, ProcsFacts, GotoFacts DEF ReadHashes, IInv, LocalOK
  <2> QED
    BY <1>4, <1>0, <2>1, <2>2, GotoFacts, LocalFrame, ProcsFacts
       DEF ReadHashes, IInv, stateVars, queueVars, indexVars
<1>5. ASSUME NEW r \in Requests, Reserve(r) PROVE IInv'
  <2>1. Others(r)
    BY <1>5 DEF Reserve, Others, Goto, IInv, TypeOK, LocalTypes
  <2>2. LocalOK(r)'
    BY <1>5, ProcsFacts, GotoFacts DEF Reserve, IInv, LocalOK
  <2> QED
    BY <1>5, <1>0, <2>1, <2>2, GotoFacts, LocalFrame, ProcsFacts
       DEF Reserve, IInv, stateVars, queueVars, indexVars
<1>6. ASSUME NEW r \in Requests, ApplyBatch(r) PROVE IInv'
  <2>1. Others(r)
    BY <1>6 DEF ApplyBatch, Others, Goto
  <2>2. LocalOK(r)'
    BY <1>6, ProcsFacts
       DEF ApplyBatch, Goto, IInv, TypeOK, LocalTypes, DiskTypes, AcceptedAfter,
           LocalOK
  <2>3. RestartSafe'
    BY <1>6, <1>0, RestartFrame DEF ApplyBatch, stateVars, indexVars
  <2>4. JobsOK'
    BY <1>6, <1>0, JobsFrame DEF ApplyBatch, queueVars
  <2>5. LockOK'
    BY <1>6, ProcsFacts, <2>1, GotoFacts, LockTaken DEF ApplyBatch, IInv
  <2> QED
    BY <1>0, <2>1, <2>2, <2>3, <2>4, <2>5, LocalsFrame, ProcsFacts DEF IInv
<1>7. ASSUME NEW x \in Procs, SaveSummary(x) PROVE IInv'
  <2>1. Others(x)
    BY <1>7, GotoFacts DEF SaveSummary, IInv
  <2>2. LocalOK(x)'
    BY <1>7, LocalFacts
       DEF SaveSummary, Goto, StatusFromIndex, LocalOK, DurableAccepted,
           DurableIndexed
  <2>3. RestartSafe'
    BY <1>7, <1>0, RestartFrame DEF SaveSummary, stateVars, indexVars
  <2>4. JobsOK'
    BY <1>7, <1>0, JobsFrame DEF SaveSummary, queueVars
  <2>5. LockOK'
    BY <1>7, <2>1, GotoFacts, LockReleased DEF SaveSummary, IInv
  <2> QED
    BY <1>0, <2>1, <2>2, <2>3, <2>4, <2>5, LocalsFrame DEF IInv
<1>8. ASSUME NEW r \in Requests, UpdateExact(r) PROVE IInv'
  <2>1. Others(r)
    BY <1>8, ProcsFacts, GotoFacts DEF UpdateExact, IInv
  <2>2. LocalOK(r)'
    BY <1>8, ProcsFacts, LocalFacts, DurableKept, GotoFacts
       DEF UpdateExact, IInv, LocalOK
  <2>3. RestartSafe'
    BY <1>8, ProcsFacts, LocalFacts, DurableKept
       DEF UpdateExact, IInv, LocalOK, RestartSafe, stateVars
  <2>4. JobsOK'
    BY <1>8, <1>0, JobsFrame DEF UpdateExact, queueVars
  <2>5. LockOK'
    BY <1>8, ProcsFacts, <2>1, GotoFacts, LockKept DEF UpdateExact, IInv
  <2> QED
    BY <1>0, <2>1, <2>2, <2>3, <2>4, <2>5, LocalsFrame, ProcsFacts DEF IInv
<1>9. ASSUME NEW r \in Requests, BatchFails(r) PROVE IInv'
  <2>1. Others(r)
    BY <1>9, ProcsFacts, ReturnFacts DEF BatchFails, EndBatch, IInv
  <2>2. LocalOK(r)'
    BY <1>9, ProcsFacts, ReturnFacts DEF BatchFails, EndBatch, IInv, LocalOK
  <2>3. RestartSafe'
    BY <1>9, <1>0, RestartFrame DEF BatchFails, stateVars, indexVars
  <2>4. JobsOK'
    BY <1>9, <1>0, JobsFrame DEF BatchFails, queueVars
  <2>5. LockOK'
    BY <1>9, ProcsFacts, <2>1, ReturnFacts, LockKept, LockReleased
       DEF BatchFails, EndBatch, IInv
  <2> QED
    BY <1>0, <2>1, <2>2, <2>3, <2>4, <2>5, LocalsFrame, ProcsFacts DEF IInv
<1>10. ASSUME NEW r \in Requests, Commit(r) PROVE IInv'
  <2>1. Others(r)
    BY <1>10, ProcsFacts, ReturnFacts, GotoFacts DEF Commit, EndBatch, IInv
  <2>2. LocalOK(r)'
    BY <1>10, ProcsFacts, LocalFacts, DurableKept, GotoFacts, ReturnFacts
       DEF Commit, EndBatch, IInv, LocalOK
  <2>3. RestartSafe'
    BY <1>10, ProcsFacts, LocalFacts, DurableKept
       DEF Commit, IInv, LocalOK, RestartSafe, indexVars
  <2>4. JobsOK'
    <3> DEFINE j == [rev |-> rev[r], files |-> work[r].files,
                     dels |-> work[r].dels]
    <3>1. j \in Job
      BY ProcsFacts DEF IInv, TypeOK, LocalTypes, Job, Change
    <3>2. j.rev <= storeAccepted
      BY <1>10, LocalFacts, ProcsFacts DEF Commit, LocalOK
    <3>3. UNCHANGED drained /\ (queue' = Append(queue, j) \/ UNCHANGED queue)
      BY <1>10 DEF Commit
    <3> QED
      BY <1>0, <3>1, <3>2, <3>3, QueueAppend, JobsFrame
  <2>5. LockOK'
    BY <1>10, ProcsFacts, <2>1, GotoFacts, ReturnFacts, LockKept
       DEF Commit, EndBatch, IInv
  <2> QED
    BY <1>0, <2>1, <2>2, <2>3, <2>4, <2>5, LocalsFrame, ProcsFacts DEF IInv
<1>11. ASSUME NEW r \in Requests, PutJob(r) PROVE IInv'
  <2>1. Others(r)
    BY <1>11, ProcsFacts, ReturnFacts DEF PutJob, EndBatch, IInv
  <2>2. LocalOK(r)'
    BY <1>11, <1>0
       DEF PutJob, Return, EndBatch, Goto, TypeOK, LocalTypes, LocalOK
  <2>3. RestartSafe'
    BY <1>11, <1>0, RestartFrame DEF PutJob, stateVars, indexVars
  <2>4. JobsOK'
    <3> DEFINE j == [rev |-> rev[r], files |-> work[r].files,
                     dels |-> work[r].dels]
    <3>1. j \in Job
      BY ProcsFacts DEF IInv, TypeOK, LocalTypes, Job, Change
    <3>2. j.rev <= storeAccepted
      BY <1>11, LocalFacts, ProcsFacts DEF PutJob, LocalOK
    <3>3. UNCHANGED drained /\ queue' = Append(queue, j)
      BY <1>11 DEF PutJob
    <3> QED
      BY <1>0, <3>1, <3>2, <3>3, QueueAppend
  <2>5. LockOK'
    BY <1>11, ProcsFacts, <2>1, ReturnFacts, LockKept DEF PutJob, EndBatch, IInv
  <2> QED
    BY <1>0, <2>1, <2>2, <2>3, <2>4, <2>5, LocalsFrame, ProcsFacts DEF IInv
<1>12. ASSUME NEW r \in Requests, Answer(r) PROVE IInv'
  <2>1. Others(r)
    BY <1>12, ProcsFacts, ReturnFacts DEF Answer, EndBatch, IInv
  <2>2. LocalOK(r)'
    BY <1>12, ProcsFacts, ReturnFacts DEF Answer, EndBatch, IInv, LocalOK
  <2> QED
    BY <1>12, <1>0, <2>1, <2>2, ReturnFacts, LocalFrame, ProcsFacts
       DEF Answer, EndBatch, IInv, stateVars, queueVars, indexVars
<1>13. ASSUME NEW x \in Indexers, UpdateSemantic(x) PROVE IInv'
  <2>1. Others(x)
    BY <1>13, ProcsFacts, GotoFacts DEF UpdateSemantic, IInv
  <2>2. LocalOK(x)'
    BY <1>13, ProcsFacts, LocalFacts, DurableKept, GotoFacts
       DEF UpdateSemantic, IInv, LocalOK
  <2> QED
    BY <1>13, <1>0, <2>1, <2>2, GotoFacts, LocalFrame, ProcsFacts
       DEF UpdateSemantic, IInv, stateVars, queueVars
<1>14. ASSUME NEW x \in Indexers, InterruptSemantic(x) PROVE IInv'
  <2>1. Others(x)
    BY <1>14, ProcsFacts, GotoFacts DEF InterruptSemantic, IInv
  <2>2. LocalOK(x)'
    BY <1>14, ProcsFacts, LocalFacts, DurableKept, GotoFacts
       DEF InterruptSemantic, IInv, LocalOK
  <2> QED
    BY <1>14, <1>0, <2>1, <2>2, GotoFacts, LocalFrame, ProcsFacts
       DEF InterruptSemantic, IInv, stateVars, queueVars
<1>15. ASSUME NEW x \in Indexers, MarkIndexed(x) PROVE IInv'
  <2>1. Others(x)
    BY <1>15 DEF MarkIndexed, Others, Goto, IInv, TypeOK, LocalTypes
  <2>2. LocalOK(x)'
    BY <1>15, ProcsFacts
       DEF MarkIndexed, Goto, IInv, TypeOK, LocalTypes, DiskTypes, Revisions,
           LocalOK
  <2>3. RestartSafe'
    BY <1>15, <1>0, RestartFrame DEF MarkIndexed, stateVars, indexVars
  <2>4. JobsOK'
    BY <1>15, <1>0, JobsFrame DEF MarkIndexed, queueVars
  <2>5. LockOK'
    BY <1>15, ProcsFacts, <2>1, GotoFacts, LockKept, LockTaken
       DEF MarkIndexed, IInv
  <2> QED
    BY <1>0, <2>1, <2>2, <2>3, <2>4, <2>5, LocalsFrame, ProcsFacts DEF IInv
<1>16. ASSUME NEW x \in Indexers, MarkFails(x) PROVE IInv'
  <2>1. Others(x)
    BY <1>16, ProcsFacts, GotoFacts DEF MarkFails, IInv
  <2>2. LocalOK(x)'
    BY <1>16, ProcsFacts, GotoFacts DEF MarkFails, IInv, LocalOK
  <2>3. RestartSafe'
    BY <1>16, <1>0, RestartFrame DEF MarkFails, stateVars, indexVars
  <2>4. JobsOK'
    BY <1>16, <1>0, JobsFrame DEF MarkFails, queueVars
  <2>5. LockOK'
    BY <1>16, ProcsFacts, <2>1, GotoFacts, LockKept, LockReleased
       DEF MarkFails, IInv
  <2> QED
    BY <1>0, <2>1, <2>2, <2>3, <2>4, <2>5, LocalsFrame, ProcsFacts DEF IInv
<1>17. ASSUME NEW k \in Pollers, Poll(k) PROVE IInv'
  <2>1. Others(k)
    BY <1>17, ProcsFacts, GotoFacts DEF Poll, IInv
  <2>2. LocalOK(k)'
    BY <1>17, ProcsFacts, GotoFacts DEF Poll, IInv, LocalOK
  <2> QED
    BY <1>17, <1>0, <2>1, <2>2, GotoFacts, LocalFrame, ProcsFacts
       DEF Poll, IInv, stateVars, queueVars, indexVars
<1>18. ASSUME NEW k \in Pollers, CheckPasses(k) PROVE IInv'
  <2>1. Others(k)
    BY <1>18, ProcsFacts, GotoFacts DEF CheckPasses, IInv
  <2>2. LocalOK(k)'
    BY <1>18, ProcsFacts, GotoFacts DEF CheckPasses, IInv, LocalOK
  <2> QED
    BY <1>18, <1>0, <2>1, <2>2, GotoFacts, LocalFrame, ProcsFacts
       DEF CheckPasses, IInv, stateVars, queueVars, indexVars
<1>19. ASSUME NEW k \in Pollers, Recover(k) PROVE IInv'
  <2>1. Others(k)
    BY <1>19 DEF Recover, Others, Goto
  <2>2. LocalOK(k)'
    BY <1>19, <1>0, LocalFacts, DurableKept, GotoFacts
       DEF Recover, LocalTypes, TypeOK, RestartSafe, IInv, LocalOK
  <2> QED
    BY <1>19, <1>0, <2>1, <2>2, GotoFacts, LocalFrame, ProcsFacts
       DEF Recover, IInv, queueVars, indexVars
<1>20. ASSUME NEW k \in Pollers, FinishRecovery(k) PROVE IInv'
  <2>1. Others(k)
    BY <1>20, ProcsFacts, GotoFacts DEF FinishRecovery, IInv
  <2>2. LocalOK(k)'
    BY <1>20, ProcsFacts, GotoFacts DEF FinishRecovery, IInv, LocalOK
  <2>3. RestartSafe'
    BY <1>20, ProcsFacts, LocalFacts, DurableKept
       DEF FinishRecovery, IInv, LocalOK, RestartSafe, indexVars
  <2>4. JobsOK'
    BY <1>20, <1>0, JobsFrame DEF FinishRecovery, queueVars
  <2>5. LockOK'
    BY <1>20, ProcsFacts, <2>1, GotoFacts, LockKept DEF FinishRecovery, IInv
  <2> QED
    BY <1>0, <2>1, <2>2, <2>3, <2>4, <2>5, LocalsFrame, ProcsFacts DEF IInv
<1>21. ASSUME NEW k \in Pollers, FailRecovery(k) PROVE IInv'
  <2>1. Others(k)
    BY <1>21, ProcsFacts, GotoFacts DEF FailRecovery, IInv
  <2>2. LocalOK(k)'
    BY <1>21, ProcsFacts, GotoFacts DEF FailRecovery, IInv, LocalOK
  <2> QED
    BY <1>21, <1>0, <2>1, <2>2, GotoFacts, LocalFrame, ProcsFacts
       DEF FailRecovery, IInv, queueVars, indexVars
<1>22. ASSUME NEW k \in Pollers, SkipProbe(k) PROVE IInv'
  <2>1. Others(k)
    BY <1>22, ProcsFacts, ReturnFacts DEF SkipProbe, IInv
  <2>2. LocalOK(k)'
    BY <1>22, ProcsFacts, ReturnFacts DEF SkipProbe, IInv, LocalOK
  <2> QED
    BY <1>22, <1>0, <2>1, <2>2, ReturnFacts, LocalFrame, ProcsFacts
       DEF SkipProbe, IInv, stateVars, queueVars, indexVars
<1>23. ASSUME NEW k \in Pollers, AnswerStatus(k) PROVE IInv'
  <2>1. Others(k)
    BY <1>23, ProcsFacts, ReturnFacts DEF AnswerStatus, IInv
  <2>2. LocalOK(k)'
    BY <1>23, ProcsFacts, ReturnFacts DEF AnswerStatus, IInv, LocalOK
  <2>3. RestartSafe'
    BY <1>23, ProcsFacts, LocalFacts, DurableKept
       DEF AnswerStatus, IInv, LocalOK, RestartSafe, indexVars, MergeSeen
  <2>4. JobsOK'
    BY <1>23, <1>0, JobsFrame DEF AnswerStatus, queueVars
  <2>5. LockOK'
    BY <1>23, ProcsFacts, <2>1, ReturnFacts, LockKept DEF AnswerStatus, IInv
  <2> QED
    BY <1>0, <2>1, <2>2, <2>3, <2>4, <2>5, LocalsFrame, ProcsFacts DEF IInv
<1>24. ASSUME TakeJobs PROVE IInv'
  <2>1. /\ queue \in Seq(Job)
        /\ \A i \in 1..Len(queue) : queue[i].rev <= storeAccepted
    BY DEF IInv, TypeOK, QueueTypes, JobsOK
  <2>2. /\ Others(Worker) /\ pc'[Worker] = "index"
        /\ rev'[Worker] <= storeAccepted
        /\ \A i \in 1..Len(drained') : drained'[i].rev <= storeAccepted
    BY <1>24, <2>1, SafeStartGroup DEF TakeJobs
  <2>3. LocalsOK'
    <3>1. LocalOK(Worker)'
      BY <1>24, <2>2, DurableKept DEF TakeJobs, LocalOK
    <3> QED
      BY <1>0, <2>2, <3>1, LocalsFrame, ProcsFacts
  <2>4. RestartSafe'
    BY <1>24, <1>0, RestartFrame DEF TakeJobs, indexVars
  <2>5. JobsOK'
    BY <1>24, <2>2, DurableKept DEF TakeJobs, JobsOK
  <2>6. LockOK'
    BY <1>24, <2>2, LockKept, ProcsFacts DEF TakeJobs
  <2> QED
    BY <1>0, <2>3, <2>4, <2>5, <2>6 DEF IInv
<1>25. ASSUME FinishGroup PROVE IInv'
  <2>1. LocalsOK' /\ JobsOK' /\ LockOK'
    <3>1. \E busy : NextGroup(busy)
      BY <1>25 DEF FinishGroup
    <3> QED
      BY <1>25, <1>0, <3>1, SafeNextGroup DEF FinishGroup
  <2>2. RestartSafe'
    BY <1>25, LocalFacts, DurableKept, ProcsFacts
       DEF FinishGroup, IInv, RestartSafe, LocalOK, indexVars
  <2> QED
    BY <1>0, <2>1, <2>2 DEF IInv
<1>26. ASSUME FailGroup PROVE IInv'
  <2>1. LocalsOK' /\ JobsOK' /\ LockOK'
    <3>1. \E busy : NextGroup(busy)
      BY <1>26 DEF FailGroup
    <3> QED
      BY <1>26, <1>0, <3>1, SafeNextGroup DEF FailGroup
  <2>2. RestartSafe'
    BY <1>26, <1>0, RestartFrame DEF FailGroup, indexVars
  <2> QED
    BY <1>0, <2>1, <2>2 DEF IInv
<1>27. ASSUME Crash PROVE IInv'
  <2>1. LocalsOK' /\ LockOK'
    <3>1. \A x \in Procs : pc'[x] = "idle" /\ lock' # x
      BY <1>27, ConstantsAssumption DEF Crash
    <3> QED
      BY <3>1 DEF LocalsOK, LocalOK, LockOK
  <2>2. RestartSafe'
    BY <1>27, LocalFacts, DurableKept, ProcsFacts
       DEF Crash, IInv, RestartSafe, indexVars
  <2>3. JobsOK'
    BY <1>27 DEF Crash, JobsOK
  <2> QED
    BY <1>0, <2>1, <2>2, <2>3 DEF IInv
<1>28. ASSUME UNCHANGED vars PROVE IInv'
  <2>1. UNCHANGED diskVars
    BY <1>28 DEF vars, diskVars
  <2>2. RestartSafe' /\ JobsOK'
    BY <1>28, <1>0, RestartFrame, JobsFrame DEF vars
  <2>3. LocalsOK' /\ LockOK'
    <3>1. \A x \in Procs : LocalOK(x)'
      BY <1>28, <2>1, DurableKept DEF vars, IInv, LocalsOK, LocalOK
    <3> QED
      BY <1>28, <3>1 DEF vars, IInv, LocalsOK, LockOK
  <2> QED
    BY <1>0, <2>2, <2>3 DEF IInv
<1> QED
  <2>1. ASSUME NEW r \in Requests,
               PostBatch(r) \/ RequestStep(r) \/ BatchFails(r)
        PROVE  IInv'
    BY <2>1, <1>1, <1>2, <1>3, <1>4, <1>5, <1>6, <1>7, <1>8, <1>9, <1>10, <1>11,
       <1>12, ProcsFacts
       DEF RequestStep
  <2>2. ASSUME WorkerStep PROVE IInv'
    BY <2>2, <1>7, <1>13, <1>15, <1>24, <1>25, <1>26, ProcsFacts
       DEF WorkerStep, IndexStep
  <2>3. ASSUME NEW k \in Pollers, Poll(k) \/ PollStep(k) \/ SkipProbe(k)
        PROVE  IInv'
    <3>1. k \in Indexers
      BY DEF Indexers
    <3> QED
      BY <2>3, <3>1, <1>1, <1>2, <1>7, <1>13, <1>15, <1>17, <1>18, <1>19, <1>20,
         <1>21, <1>22, <1>23, ProcsFacts
         DEF PollStep, IndexStep
  <2>4. ASSUME NEW x \in Indexers, InterruptSemantic(x) \/ MarkFails(x)
        PROVE  IInv'
    BY <2>4, <1>14, <1>16
  <2> QED
    BY <2>1, <2>2, <2>3, <2>4, <1>27, <1>28 DEF Next

\* The inductive invariant holds in a fresh process with an empty store.
LEMMA SafeInit == Init => IInv
<1> SUFFICES ASSUME Init PROVE IInv
  OBVIOUS
<1>1. TypeOK
  BY TypeInit
<1>2. StoreOrder /\ RestartSafe
  BY DEF Init, StoreOrder, RestartSafe, DurableAccepted, DurableIndexed
<1>3. LockOK /\ LocalsOK
  <2>1. \A x \in Procs : pc[x] = "idle" /\ lock # x
    BY ConstantsAssumption DEF Init
  <2> QED
    BY <2>1 DEF LockOK, LocalsOK, LocalOK
<1>4. JobsOK
  BY DEF Init, JobsOK
<1> QED
  BY <1>1, <1>2, <1>3, <1>4 DEF IInv

-----------------------------------------------------------------------------
(* The theorems. *)

\* Each variable keeps its type, for any number of handlers, paths, batches,
\* faults and restarts; index_queue_depth never becomes negative.
THEOREM TypeCorrect == Spec => []TypeOK
<1>1. Init => TypeOK
  BY TypeInit
<1>2. TypeOK /\ [Next]_vars => TypeOK'
  BY TypeNext
<1> QED
  BY <1>1, <1>2, PTL DEF Spec

\* The inductive invariant: what each handler carries between two awaits is
\* bounded by what is on disk.
THEOREM IInvHolds == Spec => []IInv
<1>1. Init => IInv
  BY SafeInit
<1>2. IInv /\ [Next]_vars => IInv'
  BY SafeNext
<1> QED
  BY <1>1, <1>2, PTL DEF Spec

\* No restart takes back a revision that the process reports or that the exact
\* index carries, although index.json and status.json are replaced one after
\* the other, whatever writes fail and wherever the process stops.
THEOREM RestartsAreSafe == Spec => []RestartSafe
<1>1. IInv => RestartSafe
  BY DEF IInv
<1> QED
  BY <1>1, IInvHolds, PTL

\* status.json never runs ahead of index.json, and indexed_revision never
\* exceeds accepted_revision in either file.
THEOREM StoreIsOrdered == Spec => []StoreOrder
<1>1. IInv => StoreOrder
  BY DEF IInv
<1> QED
  BY <1>1, IInvHolds, PTL

\* mark_indexed never raises because of a revision that was not accepted,
\* neither for the worker nor for a recovery.
THEOREM MarksAreAccepted == Spec => []MarkNotRefused
<1>1. IInv => MarkNotRefused
  BY ProcsFacts DEF IInv, LocalsOK, LocalOK, MarkNotRefused
<1> QED
  BY <1>1, IInvHolds, PTL

\* What _ensure_state_loaded would read after a restart never goes back.
THEOREM DurableRevisionsAdvance == Spec => DurableAdvances
<1>1. IInv /\ [Next]_vars => DiskUp
  BY DiskNext
<1>2. DiskUp => /\ DurableAccepted <= DurableAccepted'
                /\ DurableIndexed <= DurableIndexed'
  BY DEF DiskUp
<1>3. IInv /\ [Next]_vars => [/\ DurableAccepted <= DurableAccepted'
                              /\ DurableIndexed <= DurableIndexed']_vars
  BY <1>1, <1>2
<1> QED
  BY <1>3, IInvHolds, PTL DEF Spec, DurableAdvances
=============================================================================
