------------------------ MODULE SnapshotStore_proofs ------------------------
(***************************************************************************)
(* Whenever index.json loads, there is an object for every record (for any *)
(* number of instances).  With one instance it always loads, the store     *)
(* implements AtomicStore and its mirror shows what index.json records,    *)
(* but for the edits of a batch that broke off.                            *)
(***************************************************************************)
EXTENDS SnapshotStore, TLAPS

USE DEF Index, EmptyIndex, RevisionPair, NoRevisions

-----------------------------------------------------------------------------
(* Types. *)

\* A tree is a tree after a change.
LEMMA TreeAfterChange ==
    ASSUME NEW tree \in Tree, NEW c \in Change
    PROVE  FilesThenDeletes(tree, c) \in Tree
BY DEF Tree, Entry, Change, FilesThenDeletes

\* The paths a change names are paths.
LEMMA NamedArePaths == \A c \in Change : Named(c) \subseteq Paths
BY DEF Named, Change

\* A record of a loaded index is changed.
LEMMA RecordChanged ==
    ASSUME NEW l \in [Threads -> Index], NEW t \in Threads, NEW p \in Paths,
           NEW c \in Entry
    PROVE  [l EXCEPT ![t].files[p] = c] \in [Threads -> Index]
BY DEF Tree

\* The call of t ends: its locals keep their types.
LEMMA ReturnTypes ==
    ASSUME TypeOK, NEW t \in Threads, Return(t)
    PROVE  /\ pc' \in [Threads -> Labels] /\ change' \in [Threads -> Change]
           /\ revision' \in [Threads -> Nat]
           /\ todo' \in [Threads -> SUBSET Paths]
           /\ loaded' \in [Threads -> Index]
           /\ mixed' \in [Threads -> SUBSET Index]
<1>1. NoFiles \in Tree /\ NoChange \in Change
  BY DEF NoFiles, Tree, Entry, NoChange, Change
<1> QED
  BY <1>1 DEF TypeOK, Return, Goto, Labels

\* The initial values have their types.
LEMMA TypeInit == Init => TypeOK
<1>1. NoFiles \in Tree /\ NoChange \in Change
  BY DEF NoFiles, Tree, Entry, NoChange, Change
<1> QED
  BY <1>1, StoreAssumption DEF Init, TypeOK, Labels

\* Blends of indexes are indexes.
LEMMA BlendsAreIndexes ==
    ASSUME NEW S \in SUBSET Index, NEW b \in Blends(S)
    PROVE  b \in Index
BY DEF Blends, Tree

\* What a thread fills takes a value a file can have.
LEMMA FilledTypes ==
    ASSUME TypeOK, NEW t \in Threads, NEW i \in Index \cup {Torn},
           FileBecomes(t, i)
    PROVE  /\ index' \in Index \cup {Torn}
           /\ indexTmp' \in Index \cup {Missing, Torn}
BY DEF TypeOK, FileBecomes

\* Every step keeps the types, given that a call names what it has to write.
LEMMA TypeNext ==
    ASSUME TypeOK, \A t \in Threads : todo[t] \subseteq Named(change[t]),
           [Next]_vars
    PROVE  TypeOK'
<1> USE StoreAssumption
<1>0. NoFiles \in Tree /\ NoChange \in Change
  BY DEF NoFiles, Tree, Entry, NoChange, Change
<1>1. ASSUME NEW t \in Threads, ApplyBatch(t)
      PROVE  TypeOK'
  <2>1. PICK c \in Changes, r \in Revisions :
            /\ change' = [change EXCEPT ![t] = c]
            /\ revision' = [revision EXCEPT ![t] = r]
            /\ todo' = [todo EXCEPT ![t] = Named(c)]
    BY <1>1 DEF ApplyBatch
  <2>2. c \in Change /\ r \in Nat /\ Named(c) \in SUBSET Paths
    BY NamedArePaths
  <2>3. /\ change' \in [Threads -> Change] /\ revision' \in [Threads -> Nat]
        /\ todo' \in [Threads -> SUBSET Paths]
    BY <2>1, <2>2 DEF TypeOK
  <2>4. /\ loaded' \in [Threads -> Index] /\ pc' \in [Threads -> Labels]
        /\ lock' \in [Instances -> Threads \cup {Free}] /\ calls' \in Nat
    BY <1>1 DEF ApplyBatch, TypeOK, Goto, Labels, Acquire, Call
  <2> QED
    BY <1>1, <2>3, <2>4 DEF ApplyBatch, TypeOK, disk, history
<1>2. ASSUME NEW t \in Threads, WriteFile(t)
      PROVE  TypeOK'
  <2>1. PICK p \in FilesToWrite(t) :
            /\ objects' = WithObject(change[t].files[p])
            /\ mirror' = [mirror EXCEPT ![p] = change[t].files[p]]
            /\ loaded' = [loaded EXCEPT ![t].files[p] = change[t].files[p]]
            /\ todo' = [todo EXCEPT ![t] = todo[t] \ {p}]
    BY <1>2 DEF WriteFile
  <2>2. p \in Paths /\ change[t].files[p] \in Contents
    BY <2>1 DEF FilesToWrite, Named, TypeOK, Change, Tree, Entry
  <2>3. objects' \in SUBSET Contents /\ mirror' \in Tree
    BY <2>1, <2>2 DEF TypeOK, WithObject, Tree, Entry
  <2>4. loaded' \in [Threads -> Index]
    BY <2>1, <2>2, RecordChanged DEF TypeOK, Entry
  <2>5. todo' \in [Threads -> SUBSET Paths]
    BY <2>1 DEF TypeOK
  <2> QED
    BY <1>2, <2>3, <2>4, <2>5 DEF WriteFile, TypeOK, history, bounds
<1>3. ASSUME NEW t \in Threads, DeleteFile(t)
      PROVE  TypeOK'
  <2>1. PICK p \in todo[t] :
            /\ mirror' = MirrorWithout(p)
            /\ loaded' = [loaded EXCEPT ![t].files[p] = None]
            /\ todo' = [todo EXCEPT ![t] = todo[t] \ {p}]
    BY <1>3 DEF DeleteFile
  <2>2. mirror' \in Tree /\ todo' \in [Threads -> SUBSET Paths]
    BY <2>1 DEF TypeOK, MirrorWithout, Tree, Entry
  <2>3. loaded' \in [Threads -> Index]
    BY <2>1, RecordChanged DEF TypeOK, Entry
  <2> QED
    BY <1>3, <2>2, <2>3 DEF DeleteFile, TypeOK, history, bounds
<1>4. ASSUME NEW t \in Threads, OpenIndex(t)
      PROVE  TypeOK'
  <2>1. Accepted(loaded[t], revision[t]) \in Nat
    BY DEF TypeOK, Accepted, Larger
  <2>2. [loaded EXCEPT ![t].accepted = Accepted(loaded[t], revision[t])]
          \in [Threads -> Index]
    BY <2>1 DEF TypeOK
  <2>3. loaded' \in [Threads -> Index]
    BY <1>4, <2>2 DEF OpenIndex, TypeOK
  <2>4. /\ pc' \in [Threads -> Labels]
        /\ handle' \in [Threads -> {"none", "tmp", "index", "gone"}]
    BY <1>4 DEF OpenIndex, TypeOK, Goto, Labels
  <2>5. mixed' \in [Threads -> SUBSET Index]
    <3> DEFINE
          joined(u) ==
              IF u = t
              THEN {loaded[v] : v \in {w \in Threads : handle[w] = "tmp"}}
              ELSE IF handle[u] = "tmp" THEN mixed[u] \cup {loaded'[t]}
              ELSE mixed[u]
    <3>1. /\ loaded'[t] \in Index
          /\ \A u \in Threads : loaded[u] \in Index /\ mixed[u] \subseteq Index
      BY <2>3 DEF TypeOK
    <3>2. \A u \in Threads : joined(u) \in SUBSET Index
      BY <3>1
    <3>3. mixed' = [u \in Threads |-> joined(u)]
      BY <1>4 DEF OpenIndex
    <3> QED
      BY <3>2, <3>3
  <2>6. /\ indexTmp' = Torn
        /\ UNCHANGED <<index, summary, objects, mirror, lock, change, revision,
                       todo, history, bounds>>
    BY <1>4 DEF OpenIndex
  <2> QED
    BY <2>3, <2>4, <2>5, <2>6 DEF TypeOK, history, bounds
<1>12. ASSUME NEW t \in Threads, FillIndex(t)
       PROVE  TypeOK'
  <2>1. {loaded[t]} \cup mixed[t] \in SUBSET Index
    BY DEF TypeOK
  <2>2. PICK i \in Index \cup {Torn} : FileBecomes(t, i)
    BY <1>12, <2>1, BlendsAreIndexes DEF FillIndex
  <2>3. /\ pc' \in [Threads -> Labels]
        /\ handle' \in [Threads -> {"none", "tmp", "index", "gone"}]
        /\ mixed' \in [Threads -> SUBSET Index]
    BY <1>12 DEF FillIndex, TypeOK, Goto, Labels
  <2> QED
    BY <1>12, <2>2, <2>3, FilledTypes DEF FillIndex, TypeOK, history, bounds
<1>13. ASSUME NEW t \in Threads, FlushIndex(t)
       PROVE  TypeOK'
  BY <1>13, FilledTypes DEF FlushIndex, TypeOK, locals, history, bounds
<1>5. ASSUME NEW t \in Threads, MarkIndexed(t)
      PROVE  TypeOK'
  <2>1. PICK r \in Revisions : loaded' = [loaded EXCEPT ![t] =
                 [index EXCEPT !.indexed = Larger(index.indexed, r)]]
    BY <1>5 DEF MarkIndexed
  <2>5. index \in Index
    BY <1>5 DEF MarkIndexed, TypeOK
  <2>2. Larger(index.indexed, r) \in Nat
    BY <2>5 DEF Larger
  <2>3. loaded' \in [Threads -> Index]
    BY <2>1, <2>2, <2>5 DEF TypeOK
  <2>4. /\ pc' \in [Threads -> Labels] /\ calls' \in Nat
        /\ lock' \in [Instances -> Threads \cup {Free}]
    BY <1>5 DEF MarkIndexed, TypeOK, Goto, Labels, Acquire, Call
  <2> QED
    BY <1>5, <2>3, <2>4 DEF MarkIndexed, TypeOK, disk, history
<1>6. ASSUME NEW t \in Threads, ReplaceIndex(t)
      PROVE  TypeOK'
  <2>1. Named(change[t]) \subseteq Paths
    BY NamedArePaths DEF TypeOK
  <2>2. CASE indexTmp = Missing
    BY <1>6, <2>1, <2>2, ReturnTypes
    DEF ReplaceIndex, TypeOK, Release, bounds
  <2>3. CASE indexTmp # Missing
    <3>1. recorded' \in Tree /\ cut' \in SUBSET Paths
      BY <1>6, <2>1, <2>3, TreeAfterChange DEF ReplaceIndex, TypeOK
    <3>2. index' \in Index \cup {Torn} /\ indexTmp' = Missing
      BY <1>6, <2>3 DEF ReplaceIndex, TypeOK
    <3>3. pc' \in [Threads -> Labels]
      BY <1>6, <2>3 DEF ReplaceIndex, TypeOK, Goto, Labels
    <3>4. handle' \in [Threads -> {"none", "tmp", "index", "gone"}]
      <4> DEFINE moved(u) == CASE handle[u] = "tmp" -> "index"
                               [] handle[u] = "index" -> "gone"
                               [] OTHER -> handle[u]
      <4>1. \A u \in Threads : moved(u) \in {"none", "tmp", "index", "gone"}
        BY DEF TypeOK
      <4>2. handle' = [u \in Threads |-> moved(u)]
        BY <1>6, <2>3 DEF ReplaceIndex
      <4> QED
        BY <4>1, <4>2
    <3> QED
      BY <1>6, <2>3, <3>1, <3>2, <3>3, <3>4 DEF ReplaceIndex, TypeOK, bounds
  <2> QED
    BY <2>2, <2>3
<1>7. ASSUME NEW t \in Threads, SaveSummary(t)
      PROVE  TypeOK'
  BY <1>7, ReturnTypes DEF SaveSummary, TypeOK, Release, RevisionsOf, bounds
<1>8. ASSUME NEW t \in Threads, Fails(t)
      PROVE  TypeOK'
  <2>1. ASSUME NEW p \in FilesToWrite(t)
        PROVE  p \in Paths /\ change[t].files[p] \in Contents
    BY DEF FilesToWrite, Named, TypeOK, Change, Tree, Entry
  <2>2. objects' \in SUBSET Contents /\ mirror' \in Tree
    BY <1>8, <2>1 DEF Fails, TypeOK, WithObject, Tree, Entry
  <2>3. cut' \in SUBSET Paths
    BY <1>8, NamedArePaths DEF Fails, TypeOK
  <2>4. /\ lock' \in [Instances -> Threads \cup {Free}] /\ faults' \in Nat
        /\ handle' \in [Threads -> {"none", "tmp", "index", "gone"}]
    BY <1>8 DEF Fails, TypeOK, Release, Fault
  <2> QED
    BY <1>8, <2>2, <2>3, <2>4, ReturnTypes DEF Fails, TypeOK
<1>9. ASSUME NEW t \in Threads, Status(t)
      PROVE  TypeOK'
  <2>1. /\ index # Torn => RevisionsOf(index) \in RevisionPair
        /\ [accepted |-> summary.accepted, indexed |-> summary.indexed]
              \in RevisionPair
    BY DEF RevisionsOf, TypeOK
  <2>2. \E v \in RevisionPair : seen' = [seen EXCEPT ![t] = v]
    BY <1>9, <2>1 DEF Status
  <2>3. seen' \in [Threads -> RevisionPair]
    BY <2>2 DEF TypeOK
  <2> QED
    BY <1>9, <2>3 DEF Status, TypeOK, disk, locals, bounds
<1>10. CASE Crash
  <2>1. cut' \in SUBSET Paths
    BY <1>10, NamedArePaths DEF Crash, TypeOK
  <2> QED
    BY <1>10, <1>0, <2>1 DEF Crash, TypeOK, Labels, disk
<1>11. CASE UNCHANGED vars
  BY <1>11 DEF vars, TypeOK
<1> QED
  BY <1>1, <1>2, <1>3, <1>4, <1>5, <1>6, <1>7, <1>8, <1>9, <1>10, <1>11,
     <1>12, <1>13
  DEF Next

-----------------------------------------------------------------------------
(* Every record has its object, for any number of instances.               *)

\* No step removes an object.
LEMMA ObjectsStay == [Next]_vars => objects \subseteq objects'
BY DEF Next, vars, ApplyBatch, WriteFile, DeleteFile, OpenIndex, FillIndex,
       FlushIndex, MarkIndexed, ReplaceIndex, SaveSummary, Fails, Status, Crash,
       WithObject, disk

\* The locals of threads after the call of t has ended.
LEMMA ReturnObjects ==
    ASSUME TypeOK, ObjectsOK, NEW t \in Threads, Return(t),
           objects \subseteq objects'
    PROVE  \A u \in Threads : CallObjects(u)'
<1> SUFFICES ASSUME NEW u \in Threads
             PROVE  CallObjects(u)'
  OBVIOUS
<1>1. CASE u = t
  BY <1>1 DEF TypeOK, Return, CallObjects, HaveObjects, NoFiles
<1>2. CASE u # t
  <2>1. /\ loaded'[u] = loaded[u] /\ todo'[u] = todo[u]
        /\ change'[u] = change[u] /\ mixed'[u] = mixed[u]
    BY <1>2 DEF TypeOK, Return
  <2> QED
    BY <2>1 DEF ObjectsOK, CallObjects, HaveObjects
<1> QED
  BY <1>1, <1>2

\* Blends of indexes with an object for each record have one for each record.
LEMMA BlendsHaveObjects ==
    ASSUME NEW S, \A i \in S : HaveObjects(i.files), NEW b \in Blends(S)
    PROVE  HaveObjects(b.files)
BY DEF Blends, HaveObjects

\* The initial state has no records.
LEMMA ObjectsInit == Init => ObjectsOK
BY DEF Init, ObjectsOK, CallObjects, HaveObjects, NoFiles

\* Every step keeps an object for every record, on disk and in a call.
LEMMA ObjectsNext ==
    ASSUME TypeOK, ObjectsOK, [Next]_vars
    PROVE  ObjectsOK'
<1> USE StoreAssumption
<1>0. objects \subseteq objects'
  BY ObjectsStay
<1>1. ASSUME NEW t \in Threads, ApplyBatch(t)
      PROVE  ObjectsOK'
  <2>1. ASSUME NEW u \in Threads
        PROVE  CallObjects(u)'
    <3>1. CASE u = t
      BY <1>1, <3>1, <1>0
      DEF ApplyBatch, TypeOK, ObjectsOK, CallObjects, HaveObjects
    <3>2. CASE u # t
      <4>1. /\ loaded'[u] = loaded[u] /\ todo'[u] = todo[u]
            /\ change'[u] = change[u] /\ mixed'[u] = mixed[u]
        BY <1>1, <3>2 DEF ApplyBatch, TypeOK
      <4> QED
        BY <4>1, <1>0 DEF ObjectsOK, CallObjects, HaveObjects
    <3> QED
      BY <3>1, <3>2
  <2> QED
    BY <1>1, <2>1 DEF ApplyBatch, ObjectsOK, HaveObjects, disk
<1>2. ASSUME NEW t \in Threads, WriteFile(t)
      PROVE  ObjectsOK'
  <2>1. PICK p \in FilesToWrite(t) :
            /\ objects' = WithObject(change[t].files[p])
            /\ loaded' = [loaded EXCEPT ![t].files[p] = change[t].files[p]]
            /\ todo' = [todo EXCEPT ![t] = todo[t] \ {p}]
    BY <1>2 DEF WriteFile
  <2>2. change[t].files[p] \in objects'
    BY <2>1 DEF WithObject
  <2>3. ASSUME NEW u \in Threads
        PROVE  CallObjects(u)'
    <3>1. CASE u = t
      <4>1. loaded'[t].files =
              [loaded[t].files EXCEPT ![p] = change[t].files[p]]
        BY <2>1 DEF TypeOK
      <4>2. HaveObjects(loaded[t].files)'
        BY <4>1, <2>2, <1>0
        DEF TypeOK, Tree, ObjectsOK, CallObjects, HaveObjects
      <4> QED
        BY <1>0, <1>2, <2>1, <3>1, <4>2
        DEF WriteFile, TypeOK, ObjectsOK, CallObjects, HaveObjects
    <3>2. CASE u # t
      <4>1. /\ loaded'[u] = loaded[u] /\ todo'[u] = todo[u]
            /\ change'[u] = change[u] /\ mixed'[u] = mixed[u]
        BY <1>2, <2>1, <3>2 DEF WriteFile, TypeOK
      <4> QED
        BY <4>1, <1>0 DEF ObjectsOK, CallObjects, HaveObjects
    <3> QED
      BY <3>1, <3>2
  <2>4. UNCHANGED <<index, indexTmp>>
    BY <1>2 DEF WriteFile
  <2> QED
    BY <1>0, <2>3, <2>4 DEF ObjectsOK, HaveObjects
<1>3. ASSUME NEW t \in Threads, DeleteFile(t)
      PROVE  ObjectsOK'
  <2>1. PICK p \in todo[t] :
            /\ loaded' = [loaded EXCEPT ![t].files[p] = None]
            /\ todo' = [todo EXCEPT ![t] = todo[t] \ {p}]
    BY <1>3 DEF DeleteFile
  <2>2. ASSUME NEW u \in Threads
        PROVE  CallObjects(u)'
    <3>1. CASE u = t
      <4>1. loaded'[t].files = [loaded[t].files EXCEPT ![p] = None]
        BY <2>1 DEF TypeOK
      <4>2. HaveObjects(loaded[t].files)'
        BY <4>1, <1>0 DEF TypeOK, Tree, ObjectsOK, CallObjects, HaveObjects
      <4> QED
        BY <1>0, <1>3, <2>1, <3>1, <4>2
        DEF DeleteFile, TypeOK, ObjectsOK, CallObjects, HaveObjects
    <3>2. CASE u # t
      <4>1. /\ loaded'[u] = loaded[u] /\ todo'[u] = todo[u]
            /\ change'[u] = change[u] /\ mixed'[u] = mixed[u]
        BY <1>3, <2>1, <3>2 DEF DeleteFile, TypeOK
      <4> QED
        BY <4>1, <1>0 DEF ObjectsOK, CallObjects, HaveObjects
    <3> QED
      BY <3>1, <3>2
  <2>3. UNCHANGED <<index, indexTmp>>
    BY <1>3 DEF DeleteFile
  <2> QED
    BY <1>0, <2>2, <2>3 DEF ObjectsOK, HaveObjects
<1>4. ASSUME NEW t \in Threads, OpenIndex(t)
      PROVE  ObjectsOK'
  <2>1. ASSUME NEW u \in Threads
        PROVE  loaded'[u].files = loaded[u].files
    <3>1. CASE loaded' = loaded
      BY <3>1
    <3>2. CASE loaded' # loaded
      <4>1. loaded' = [loaded EXCEPT
                           ![t].accepted = Accepted(loaded[t], revision[t])]
        BY <1>4, <3>2 DEF OpenIndex
      <4> QED
        BY <4>1 DEF TypeOK
    <3> QED
      BY <3>1, <3>2
  <2>2. /\ indexTmp' = Torn /\ UNCHANGED <<index, objects, todo, change>>
    BY <1>4 DEF OpenIndex
  <2>3. \A u \in Threads : \A i \in mixed'[u] :
           i \in mixed[u] \/ \E v \in Threads : i \in {loaded[v], loaded'[v]}
    BY <1>4 DEF OpenIndex
  <2>4. \A u \in Threads : \A i \in mixed'[u] : HaveObjects(i.files)
    BY <2>1, <2>3 DEF ObjectsOK, CallObjects
  <2> QED
    BY <2>1, <2>2, <2>4 DEF ObjectsOK, CallObjects, HaveObjects
<1>12. ASSUME NEW t \in Threads, FillIndex(t)
       PROVE  ObjectsOK'
  <2>1. PICK i : /\ \/ i = Torn
                    \/ i \in Blends({loaded[t]} \cup mixed[t])
                 /\ FileBecomes(t, i)
    BY <1>12 DEF FillIndex
  <2>2. i # Torn => HaveObjects(i.files)
    BY <2>1, BlendsHaveObjects DEF ObjectsOK, CallObjects
  <2>3. /\ UNCHANGED <<objects, todo, change, loaded>>
        /\ \A u \in Threads : mixed'[u] \subseteq mixed[u]
    BY <1>12 DEF FillIndex, TypeOK
  <2> QED
    BY <2>1, <2>2, <2>3
    DEF FileBecomes, ObjectsOK, CallObjects, HaveObjects
<1>13. ASSUME NEW t \in Threads, FlushIndex(t)
       PROVE  ObjectsOK'
  BY <1>13
  DEF FlushIndex, FileBecomes, ObjectsOK, CallObjects, HaveObjects, locals
<1>5. ASSUME NEW t \in Threads, MarkIndexed(t)
      PROVE  ObjectsOK'
  <2>1. \A u \in Threads :
            loaded'[u].files \in {loaded[u].files, index.files}
    BY <1>5 DEF MarkIndexed, TypeOK
  <2>3. index # Torn
    BY <1>5 DEF MarkIndexed
  <2>2. UNCHANGED <<index, indexTmp, objects, todo, change, mixed>>
    BY <1>5 DEF MarkIndexed, disk
  <2> QED
    BY <2>1, <2>2, <2>3 DEF ObjectsOK, CallObjects, HaveObjects
<1>6. ASSUME NEW t \in Threads, ReplaceIndex(t)
      PROVE  ObjectsOK'
  <2>1. CASE indexTmp = Missing
    BY <1>0, <1>6, <2>1, ReturnObjects
    DEF ReplaceIndex, ObjectsOK, HaveObjects
  <2>2. CASE indexTmp # Missing
    BY <1>6, <2>2 DEF ReplaceIndex, ObjectsOK, CallObjects, HaveObjects
  <2> QED
    BY <2>1, <2>2
<1>7. ASSUME NEW t \in Threads, SaveSummary(t)
      PROVE  ObjectsOK'
  BY <1>0, <1>7, ReturnObjects DEF SaveSummary, ObjectsOK, HaveObjects
<1>8. ASSUME NEW t \in Threads, Fails(t)
      PROVE  ObjectsOK'
  <2>1. Return(t) /\ UNCHANGED <<index, indexTmp>>
    BY <1>8 DEF Fails
  <2> QED
    BY <1>0, <2>1, ReturnObjects DEF ObjectsOK, HaveObjects
<1>9. ASSUME NEW t \in Threads, Status(t)
      PROVE  ObjectsOK'
  BY <1>9 DEF Status, ObjectsOK, CallObjects, HaveObjects, disk, locals
<1>10. CASE Crash
  BY <1>10 DEF Crash, ObjectsOK, CallObjects, HaveObjects, NoFiles, disk
<1>11. CASE UNCHANGED vars
  BY <1>11 DEF vars, ObjectsOK, CallObjects, HaveObjects
<1> QED
  BY <1>1, <1>2, <1>3, <1>4, <1>5, <1>6, <1>7, <1>8, <1>9, <1>10, <1>11,
     <1>12, <1>13
  DEF Next

\* The variables have their types and every record its object, in any behaviour
\* of the store.
THEOREM TypesAndObjects == Spec => [](TypeOK /\ ObjectsOK)
<1>1. Init => TypeOK /\ ObjectsOK
  BY TypeInit, ObjectsInit
<1>2. TypeOK /\ ObjectsOK /\ [Next]_vars => (TypeOK /\ ObjectsOK)'
  BY TypeNext, ObjectsNext DEF ObjectsOK, CallObjects
<1> QED
  BY <1>1, <1>2, PTL DEF Spec

\* Whenever index.json can be loaded, each of its records can be read, whatever
\* was interrupted, however many instances of the store there are and however
\* their writes of index.json.tmp meet: no record gets into the file, whole or
\* blended with another's, before its object is there.
THEOREM RecordsAreReadable == Spec => []RecordsHaveObjects
<1>1. ObjectsOK => RecordsHaveObjects
  BY DEF ObjectsOK, HaveObjects, RecordsHaveObjects
<1> QED
  BY <1>1, TypesAndObjects, PTL

-----------------------------------------------------------------------------
(* With one instance the store implements AtomicStore.                     *)

\* The initial state has no calls.
LEMMA CallsInit == Init => LockOK /\ CallsOK
<1>1. EmptyIndex # Torn
  BY MissingAssumption DEF NoFiles, Tree, Entry
<1> QED
  BY <1>1 DEF Init, LockOK, CallsOK, CallOK

\* Every step keeps the lock with the thread in the call, of each instance.
LEMMA LockNext ==
    ASSUME TypeOK, LockOK, [Next]_vars
    PROVE  LockOK'
<1> USE StoreAssumption
<1>1. ASSUME NEW t \in Threads, Acquire(t), pc[t] = "idle",
             NEW label, Goto(t, label)
      PROVE  LockOK'
  BY <1>1 DEF Acquire, Goto, TypeOK, LockOK
<1>2. ASSUME NEW t \in Threads, Release(t), pc[t] # "idle", Goto(t, "idle")
      PROVE  LockOK'
  BY <1>2 DEF Release, Goto, TypeOK, LockOK
<1>3. ASSUME NEW t \in Threads, UNCHANGED lock, pc[t] # "idle",
             NEW label, Goto(t, label)
      PROVE  LockOK'
  BY <1>3 DEF Goto, TypeOK, LockOK
<1>4. ASSUME UNCHANGED <<lock, pc>>
      PROVE  LockOK'
  BY <1>4 DEF LockOK
<1>5. ASSUME NEW t \in Threads, ReplaceIndex(t)
      PROVE  LockOK'
  BY <1>2, <1>3, <1>5 DEF ReplaceIndex, Return
<1>6. CASE Crash
  BY <1>6 DEF Crash, LockOK
<1>7. ASSUME NEW t \in Threads, ApplyBatch(t) \/ MarkIndexed(t)
      PROVE  LockOK'
  BY <1>1, <1>7 DEF ApplyBatch, MarkIndexed
<1>8. ASSUME NEW t \in Threads, SaveSummary(t) \/ Fails(t)
      PROVE  LockOK'
  BY <1>2, <1>8 DEF SaveSummary, Fails, Return
<1>9. ASSUME NEW t \in Threads,
             \/ WriteFile(t) \/ DeleteFile(t) \/ Status(t) \/ OpenIndex(t)
             \/ FillIndex(t) \/ FlushIndex(t)
      PROVE  LockOK'
  BY <1>3, <1>4, <1>9
  DEF WriteFile, DeleteFile, Status, OpenIndex, FillIndex, FlushIndex, locals
<1> QED
  BY <1>4, <1>5, <1>6, <1>7, <1>8, <1>9 DEF Next, vars

\* With one instance, a thread that is in a call or gets the lock is the only
\* one.
LEMMA OthersIdle ==
    ASSUME TypeOK, OneInstance, LockOK, NEW t \in Threads,
           pc[t] # "idle" \/ Acquire(t), NEW u \in Threads, u # t
    PROVE  pc[u] = "idle"
BY StoreAssumption DEF TypeOK, OneInstance, LockOK, Acquire

\* What is left of a batch that has dealt with all its files.
LEMMA BatchDone ==
    ASSUME TypeOK, NEW t \in Threads, BatchOK(t), todo[t] = {}
    PROVE  [loaded[t] EXCEPT !.accepted = Accepted(loaded[t], revision[t])]
             = AfterBatch(change[t], revision[t])
<1>1. loaded[t].files = FilesThenDeletes(index.files, change[t])
  BY DEF TypeOK, BatchOK, FilesThenDeletes, Tree
<1> QED
  BY <1>1 DEF TypeOK, BatchOK, Accepted, AfterBatch

\* What a thread alone writes is what is in the file.
LEMMA OneBlend ==
    ASSUME NEW i \in Index, NEW b \in Blends({i})
    PROVE  b = i
<1>1. PICK from \in [Paths -> {i}] :
          b = [files |-> [p \in Paths |-> from[p].files[p]],
               accepted |-> i.accepted, indexed |-> i.indexed]
  BY DEF Blends
<1>2. [p \in Paths |-> from[p].files[p]] = i.files
  <2>1. \A p \in Paths : from[p] = i
    OBVIOUS
  <2>2. [p \in Paths |-> from[p].files[p]] = [p \in Paths |-> i.files[p]]
    BY <2>1
  <2> QED
    BY <2>2 DEF Tree
<1> QED
  BY <1>1, <1>2

\* Every step keeps what a call has read in index.json, with one instance.
LEMMA CallsNext ==
    ASSUME TypeOK, ObjectsOK, OneInstance, LockOK, CallsOK, [Next]_vars
    PROVE  CallsOK'
<1> USE StoreAssumption
\* The call of t is right, the others are idle and have no file open.
<1>0. ASSUME NEW t \in Threads, CallOK(t)', index' # Torn,
             \A u \in Threads \ {t} :
                pc'[u] = "idle" /\ handle'[u] = handle[u] /\ mixed'[u] = {},
             \A u \in Threads \ {t} : pc[u] = "idle"
      PROVE  CallsOK'
  BY <1>0 DEF CallsOK, CallOK
<1>1. ASSUME NEW t \in Threads, ApplyBatch(t)
      PROVE  CallsOK'
  <2>1. PICK c \in Changes, r \in Revisions :
            /\ change' = [change EXCEPT ![t] = c]
            /\ revision' = [revision EXCEPT ![t] = r]
            /\ todo' = [todo EXCEPT ![t] = Named(c)]
    BY <1>1 DEF ApplyBatch
  <2>2. /\ change'[t] = c /\ revision'[t] = r /\ todo'[t] = Named(c)
        /\ loaded'[t] = index /\ index' = index /\ pc'[t] = "apply"
        /\ pc[t] = "idle" /\ UNCHANGED <<handle, mixed>>
    BY <1>1, <2>1 DEF ApplyBatch, TypeOK, Goto, disk
  <2>3. ASSUME NEW p \in Paths, p \notin Named(c)
        PROVE  FilesThenDeletes(index.files, c)[p] = index.files[p]
    BY <2>3 DEF Named, FilesThenDeletes
  <2>4. BatchOK(t)'
    BY <2>2, <2>3 DEF BatchOK
  <2>5. \A u \in Threads \ {t} : pc[u] = "idle" /\ pc'[u] = "idle"
    BY <1>1, OthersIdle DEF ApplyBatch, TypeOK, Goto
  <2>6. CallOK(t)'
    BY <2>2, <2>4 DEF CallsOK, CallOK
  <2> QED
    BY <1>0, <2>2, <2>5, <2>6 DEF CallsOK, CallOK
<1>2. ASSUME NEW t \in Threads, WriteFile(t)
      PROVE  CallsOK'
  <2>1. PICK p \in FilesToWrite(t) :
            /\ loaded' = [loaded EXCEPT ![t].files[p] = change[t].files[p]]
            /\ todo' = [todo EXCEPT ![t] = todo[t] \ {p}]
    BY <1>2 DEF WriteFile
  <2>2. /\ pc[t] = "apply" /\ pc' = pc
        /\ UNCHANGED <<index, change, revision, handle, mixed>>
    BY <1>2 DEF WriteFile
  <2>3. /\ p \in Paths /\ change[t].files[p] # None /\ p \notin change[t].dels
    BY <2>1 DEF FilesToWrite, TypeOK, ObjectsOK, CallObjects, Named
  <2>4. /\ loaded'[t].files = [loaded[t].files EXCEPT ![p] = change[t].files[p]]
        /\ loaded'[t].accepted = loaded[t].accepted
        /\ loaded'[t].indexed = loaded[t].indexed
        /\ todo'[t] = todo[t] \ {p}
    BY <2>1 DEF TypeOK
  <2>5. BatchOK(t)
    BY <2>2 DEF CallsOK, CallOK
  <2>6. BatchOK(t)'
    BY <2>2, <2>3, <2>4, <2>5 DEF BatchOK, FilesThenDeletes, TypeOK, Tree
  <2>7. \A u \in Threads \ {t} : pc'[u] = "idle"
    BY <2>2, OthersIdle
  <2>8. CallOK(t)'
    BY <2>2, <2>6 DEF CallsOK, CallOK
  <2> QED
    BY <1>0, <2>2, <2>7, <2>8 DEF CallsOK, CallOK
<1>3. ASSUME NEW t \in Threads, DeleteFile(t)
      PROVE  CallsOK'
  <2>1. PICK p \in todo[t] :
            /\ loaded' = [loaded EXCEPT ![t].files[p] = None]
            /\ todo' = [todo EXCEPT ![t] = todo[t] \ {p}]
    BY <1>3 DEF DeleteFile
  <2>2. /\ pc[t] = "apply" /\ pc' = pc /\ FilesToWrite(t) = {}
        /\ UNCHANGED <<index, change, revision, handle, mixed>>
    BY <1>3 DEF DeleteFile
  <2>3. p \in Paths /\ p \in change[t].dels
    BY <2>1, <2>2 DEF FilesToWrite, TypeOK
  <2>4. /\ loaded'[t].files = [loaded[t].files EXCEPT ![p] = None]
        /\ loaded'[t].accepted = loaded[t].accepted
        /\ loaded'[t].indexed = loaded[t].indexed
        /\ todo'[t] = todo[t] \ {p}
    BY <2>1 DEF TypeOK
  <2>5. BatchOK(t)
    BY <2>2 DEF CallsOK, CallOK
  <2>6. BatchOK(t)'
    BY <2>2, <2>3, <2>4, <2>5 DEF BatchOK, FilesThenDeletes, TypeOK, Tree
  <2>7. \A u \in Threads \ {t} : pc'[u] = "idle"
    BY <2>2, OthersIdle
  <2>8. CallOK(t)'
    BY <2>2, <2>6 DEF CallsOK, CallOK
  <2> QED
    BY <1>0, <2>2, <2>7, <2>8 DEF CallsOK, CallOK
<1>4. ASSUME NEW t \in Threads, OpenIndex(t)
      PROVE  CallsOK'
  <2>1. /\ pc[t] \in {"apply", "mark"} /\ pc'[t] = "fill"
        /\ handle' = [handle EXCEPT ![t] = "tmp"] /\ index' = index
    BY <1>4 DEF OpenIndex, TypeOK, Goto
  <2>5. \A u \in Threads \ {t} : pc[u] = "idle" /\ pc'[u] = "idle"
    BY <1>4, <2>1, OthersIdle DEF OpenIndex, TypeOK, Goto
  <2>6. \A u \in Threads : handle[u] # "tmp" /\ mixed[u] = {}
    BY <2>1, <2>5 DEF CallsOK, CallOK
  <2>7. \A u \in Threads : mixed'[u] = {}
    BY <1>4, <2>6 DEF OpenIndex
  <2>8. handle'[t] = "tmp" /\ \A u \in Threads \ {t} : handle'[u] = handle[u]
    BY <2>1 DEF TypeOK
  <2>2. ASSUME pc[t] = "apply"
        PROVE  CallOK(t)'
    <3>1. BatchOK(t)
      BY <2>2 DEF CallsOK, CallOK
    <3>2. loaded'[t] = AfterBatch(change[t], revision[t])
      <4>1. loaded' = [loaded EXCEPT
                           ![t].accepted = Accepted(loaded[t], revision[t])]
        BY <1>4, <2>2 DEF OpenIndex
      <4>2. loaded'[t] = [loaded[t] EXCEPT
                              !.accepted = Accepted(loaded[t], revision[t])]
        BY <4>1 DEF TypeOK
      <4>3. todo[t] = {}
        BY <1>4, <2>2 DEF OpenIndex
      <4> QED
        BY <3>1, <4>2, <4>3, BatchDone
    <3>3. (\E c \in Changes, r \in Revisions : loaded[t] = AfterBatch(c, r))'
      BY <2>1, <3>1, <3>2 DEF BatchOK, AfterBatch
    <3> QED
      BY <2>1, <2>7, <2>8, <3>3 DEF CallOK
  <2>3. ASSUME pc[t] = "mark"
        PROVE  CallOK(t)'
    <3>1. IsMark(loaded[t]) /\ loaded' = loaded
      BY <1>4, <2>3 DEF OpenIndex, CallsOK, CallOK
    <3>2. IsMark(loaded[t])'
      BY <2>1, <3>1 DEF IsMark, AfterMark
    <3> QED
      BY <2>1, <2>7, <2>8, <3>2 DEF CallOK
  <2>4. CallOK(t)'
    BY <2>1, <2>2, <2>3
  <2> QED
    BY <1>0, <2>1, <2>4, <2>5, <2>7, <2>8 DEF CallsOK
<1>12. ASSUME NEW t \in Threads, FillIndex(t)
       PROVE  CallsOK'
  <2>1. /\ pc[t] = "fill" /\ handle[t] = "tmp" /\ mixed[t] = {}
    BY <1>12 DEF FillIndex, CallsOK, CallOK
  <2>2. PICK i \in Blends({loaded[t]}) : FileBecomes(t, i)
    BY <1>12, <2>1 DEF FillIndex
  <2>3. i = loaded[t]
    BY <2>2, OneBlend DEF TypeOK
  <2>4. indexTmp' = loaded[t] /\ index' = index
    BY <2>1, <2>2, <2>3 DEF FileBecomes
  <2>5. /\ pc'[t] = "replace" /\ handle'[t] = "none" /\ mixed'[t] = {}
        /\ loaded' = loaded
    BY <1>12 DEF FillIndex, TypeOK, Goto
  <2>6. CallOK(t)'
    BY <2>1, <2>4, <2>5 DEF CallsOK, CallOK, IsMark, AfterMark, AfterBatch
  <2>7. \A u \in Threads \ {t} : pc[u] = "idle"
    BY <2>1, OthersIdle
  <2>8. \A u \in Threads \ {t} :
           pc'[u] = "idle" /\ handle'[u] = handle[u] /\ mixed'[u] = {}
    BY <1>12, <2>7 DEF FillIndex, TypeOK, Goto, CallsOK, CallOK
  <2> QED
    BY <1>0, <2>4, <2>6, <2>7, <2>8 DEF CallsOK
<1>13. ASSUME NEW t \in Threads, FlushIndex(t)
       PROVE  CallsOK'
  <2>1. pc[t] = "fill" /\ handle[t] = "tmp"
    BY <1>13 DEF FlushIndex, CallsOK, CallOK
  <2>2. index' = index /\ UNCHANGED locals
    BY <1>13, <2>1 DEF FlushIndex, FileBecomes
  <2>3. \A u \in Threads \ {t} : pc[u] = "idle"
    BY <2>1, OthersIdle
  <2>4. CallOK(t)'
    BY <2>1, <2>2 DEF CallsOK, CallOK, IsMark, AfterMark, AfterBatch, locals
  <2> QED
    BY <1>0, <2>2, <2>3, <2>4 DEF CallsOK, CallOK, locals
<1>5. ASSUME NEW t \in Threads, MarkIndexed(t)
      PROVE  CallsOK'
  <2>1. PICK r \in Revisions :
            /\ r <= index.accepted
            /\ loaded' = [loaded EXCEPT ![t] =
                   [index EXCEPT !.indexed = Larger(index.indexed, r)]]
    BY <1>5 DEF MarkIndexed
  <2>2. loaded'[t] = AfterMark(r)
    BY <1>5, <2>1 DEF MarkIndexed, TypeOK, AfterMark
  <2>3. /\ pc'[t] = "mark" /\ pc[t] = "idle" /\ index' = index
        /\ UNCHANGED <<handle, mixed>>
    BY <1>5 DEF MarkIndexed, TypeOK, Goto, disk
  <2>4. CallOK(t)'
    BY <2>1, <2>2, <2>3 DEF CallsOK, CallOK, IsMark, AfterMark
  <2>5. \A u \in Threads \ {t} : pc[u] = "idle" /\ pc'[u] = "idle"
    BY <1>5, OthersIdle DEF MarkIndexed, TypeOK, Goto
  <2> QED
    BY <1>0, <2>3, <2>4, <2>5 DEF CallsOK, CallOK
<1>6. ASSUME NEW t \in Threads, ReplaceIndex(t)
      PROVE  CallsOK'
  <2>1. pc[t] = "replace" /\ indexTmp = loaded[t]
    BY <1>6 DEF ReplaceIndex, CallsOK, CallOK
  <2>2. indexTmp # Missing /\ indexTmp # Torn
    BY <2>1, MissingAssumption DEF TypeOK
  <2>3. /\ pc'[t] = "summary" /\ index' = indexTmp /\ loaded' = loaded
        /\ mixed' = mixed
    BY <1>6, <2>2 DEF ReplaceIndex, TypeOK, Goto
  <2>5. \A u \in Threads \ {t} : pc[u] = "idle" /\ pc'[u] = "idle"
    BY <1>6, <2>1, <2>2, OthersIdle DEF ReplaceIndex, TypeOK, Goto
  <2>6. \A u \in Threads : handle[u] = "none"
    BY <2>1, <2>5 DEF CallsOK, CallOK
  <2>7. handle' = handle
    BY <1>6, <2>2, <2>6 DEF ReplaceIndex, TypeOK
  <2>4. CallOK(t)'
    BY <2>1, <2>3, <2>6, <2>7 DEF CallsOK, CallOK
  <2> QED
    BY <1>0, <2>2, <2>3, <2>4, <2>5, <2>7 DEF CallsOK, CallOK
<1>7. ASSUME NEW t \in Threads, pc[t] # "idle", Return(t), index' = index,
             handle' \in {handle, [handle EXCEPT ![t] = "none"]},
             handle'[t] = "none"
      PROVE  CallsOK'
  <2>1. \A u \in Threads \ {t} : pc[u] = "idle"
    BY <1>7, OthersIdle
  <2>2. /\ pc'[t] = "idle" /\ mixed'[t] = {}
        /\ \A u \in Threads \ {t} : /\ pc'[u] = pc[u]
                                    /\ mixed'[u] = mixed[u]
                                    /\ handle'[u] = handle[u]
    BY <1>7 DEF Return, Goto, TypeOK
  <2> QED
    BY <1>7, <2>1, <2>2 DEF CallsOK, CallOK
<1>8. ASSUME NEW t \in Threads, SaveSummary(t) \/ Fails(t)
      PROVE  CallsOK'
  <2>1. handle' \in {handle, [handle EXCEPT ![t] = "none"]} /\ index' = index
        /\ pc[t] # "idle" /\ Return(t)
    BY <1>8 DEF SaveSummary, Fails
  <2>2. handle'[t] = "none"
    BY <1>8 DEF SaveSummary, Fails, CallsOK, CallOK, TypeOK
  <2> QED
    BY <1>7, <2>1, <2>2
<1>9. CASE Crash
  BY <1>9 DEF Crash, CallsOK, CallOK, disk
<1>10. ASSUME UNCHANGED <<index, indexTmp, locals>>
       PROVE  CallsOK'
  BY <1>10
  DEF CallsOK, CallOK, BatchOK, IsMark, AfterMark, AfterBatch, locals
<1>11. ASSUME NEW t \in Threads, Status(t)
       PROVE  CallsOK'
  BY <1>10, <1>11 DEF Status, disk
<1> QED
  BY <1>1, <1>2, <1>3, <1>4, <1>5, <1>6, <1>8, <1>9, <1>10, <1>11, <1>12, <1>13
  DEF Next, vars, locals

\* With one instance only a replacement changes index.json.
LEMMA IndexStays ==
    ASSUME CallsOK, NEW t \in Threads, FillIndex(t) \/ FlushIndex(t)
    PROVE  UNCHANGED <<index, summary, seen, mirror, change, todo, loaded, cut>>
<1>1. handle[t] = "tmp"
  BY DEF FillIndex, FlushIndex, CallsOK, CallOK
<1> QED
  BY <1>1 DEF FillIndex, FlushIndex, FileBecomes, locals, history

\* Every step of the store is a step of AtomicStore, or none.
LEMMA StepIsAtomic ==
    ASSUME TypeOK, CallsOK, [Next]_vars
    PROVE  [Atomic!Next]_Atomic!vars
<1>1. ASSUME UNCHANGED <<index, summary>>
      PROVE  UNCHANGED Atomic!vars
  BY <1>1 DEF Atomic!vars, Reported, RevisionsOf
<1>2. ASSUME NEW t \in Threads, ReplaceIndex(t)
      PROVE  Atomic!Next
  <2>1. pc[t] = "replace" /\ indexTmp = loaded[t]
    BY <1>2 DEF ReplaceIndex, CallsOK, CallOK
  <2>2. index' = loaded[t] /\ summary' = summary
    BY <1>2, <2>1, MissingAssumption DEF ReplaceIndex, TypeOK
  <2>3. Atomic!Publish
    BY <2>2 DEF Atomic!Publish, Reported, RevisionsOf
  <2>4. CASE IsMark(loaded[t])
    <3>1. PICK r \in Revisions : r <= index.accepted /\ loaded[t] = AfterMark(r)
      BY <2>4 DEF IsMark
    <3>2. Atomic!Mark(r)
      BY <2>2, <2>3, <3>1
      DEF Atomic!Mark, AfterMark, Atomic!Larger, Larger
    <3> QED
      BY <3>2 DEF Atomic!Next
  <2>5. ASSUME NEW c \in Changes, NEW r \in Revisions,
               loaded[t] = AfterBatch(c, r)
        PROVE  Atomic!Next
    <3>1. Atomic!Apply(c, r)
      BY <2>2, <2>3, <2>5
      DEF Atomic!Apply, AfterBatch, Atomic!Larger, Larger,
          Atomic!FilesThenDeletes, FilesThenDeletes
    <3> QED
      BY <3>1 DEF Atomic!Next
  <2> QED
    BY <2>1, <2>4, <2>5 DEF CallsOK, CallOK
<1>3. ASSUME NEW t \in Threads, SaveSummary(t)
      PROVE  Atomic!Next
  <2>1. index' = index /\ loaded[t] = index
    BY <1>3 DEF SaveSummary, CallsOK, CallOK
  <2>2. Reported' = RevisionsOf(index)
    BY <1>3, <2>1 DEF SaveSummary, Reported, RevisionsOf
  <2> QED
    BY <2>1, <2>2 DEF Atomic!Next, Atomic!CatchUp, Atomic!Publish, RevisionsOf
<1>4. ASSUME NEW t \in Threads,
             \/ ApplyBatch(t) \/ WriteFile(t) \/ DeleteFile(t) \/ OpenIndex(t)
             \/ FillIndex(t) \/ FlushIndex(t)
             \/ MarkIndexed(t) \/ Fails(t) \/ Status(t)
      PROVE  UNCHANGED Atomic!vars
  BY <1>1, <1>4, IndexStays
  DEF ApplyBatch, WriteFile, DeleteFile, OpenIndex, MarkIndexed, Fails, Status,
      disk
<1>5. CASE Crash
  BY <1>1, <1>5 DEF Crash, disk
<1>6. CASE UNCHANGED vars
  BY <1>1, <1>6 DEF vars
<1> QED
  BY <1>2, <1>3, <1>4, <1>5, <1>6 DEF Next

\* Every step moves what status() returns forward, and tells a thread just that.
LEMMA ReportNext ==
    ASSUME TypeOK, ObjectsOK, OneInstance, LockOK, CallsOK, ReportOK,
           [Next]_vars
    PROVE  /\ ReportOK'
           /\ \A t \in Threads : AtMost(seen[t], seen'[t])
<1>1. TypeOK'
  BY TypeNext DEF ObjectsOK, CallObjects
<1>2. AtMost(index, index')
  <2>1. ASSUME NEW t \in Threads, ReplaceIndex(t)
        PROVE  AtMost(index, index')
    <3>1. pc[t] = "replace" /\ indexTmp = loaded[t]
      BY <2>1 DEF ReplaceIndex, CallsOK, CallOK
    <3>2. index' = loaded[t]
      BY <2>1, <3>1, MissingAssumption DEF ReplaceIndex, TypeOK
    <3>5. index \in Index
      BY DEF CallsOK, TypeOK
    <3>3. CASE IsMark(loaded[t])
      BY <3>2, <3>3, <3>5, StoreAssumption
      DEF IsMark, AfterMark, AtMost, Larger
    <3>4. ASSUME NEW c \in Changes, NEW r \in Revisions,
                 loaded[t] = AfterBatch(c, r)
          PROVE  AtMost(index, index')
      <4>1. /\ index'.accepted = Larger(index.accepted, r)
            /\ index'.indexed = index.indexed
        BY <3>2, <3>4 DEF AfterBatch
      <4>2. r \in Nat /\ index.accepted \in Nat /\ index.indexed \in Nat
        BY <3>5, StoreAssumption
      <4> QED
        BY <4>1, <4>2 DEF AtMost, Larger
    <3> QED
      BY <3>1, <3>3, <3>4 DEF CallsOK, CallOK
  <2>2. CASE index' = index
    BY <2>2 DEF AtMost, TypeOK, CallsOK
  <2> QED
    BY <2>1, <2>2, IndexStays
    DEF Next, vars, ApplyBatch, WriteFile, DeleteFile, OpenIndex, MarkIndexed,
        SaveSummary, Fails, Status, Crash, disk
<1>3. ASSUME NEW t \in Threads, SaveSummary(t)
      PROVE  /\ Reported' = RevisionsOf(index')
             /\ seen' = [seen EXCEPT ![t] = Reported']
  <2>1. index' = index /\ loaded[t] = index
    BY <1>3 DEF SaveSummary, CallsOK, CallOK
  <2> QED
    BY <1>3, <2>1 DEF SaveSummary, Reported, RevisionsOf
<1>4. Reported' = Reported \/ Reported' = RevisionsOf(index')
  BY <1>3, IndexStays
  DEF Next, vars, ApplyBatch, WriteFile, DeleteFile, OpenIndex, MarkIndexed,
      ReplaceIndex, Fails, Status, Crash, disk, Reported
<1>5. ASSUME NEW t \in Threads, Status(t)
      PROVE  Reported' = Reported /\ seen' = [seen EXCEPT ![t] = Reported']
  <2>1. UNCHANGED <<index, summary>>
    BY <1>5 DEF Status, disk
  <2>2. Reported' = Reported
    BY <2>1 DEF Reported, RevisionsOf
  <2>3. seen' = [seen EXCEPT ![t] = Reported]
    BY <1>5 DEF Status, Reported, RevisionsOf
  <2> QED
    BY <2>2, <2>3
<1>6. ASSUME NEW t \in Threads
      PROVE  seen'[t] \in {seen[t], Reported'}
  BY <1>3, <1>5
  DEF TypeOK, Next, vars, ApplyBatch, WriteFile, DeleteFile, OpenIndex,
      FillIndex, FlushIndex, MarkIndexed, ReplaceIndex, Fails, Crash, history
<1>10. index \in Index /\ index' \in Index
  <2>1. index # Torn /\ index' # Torn
    BY CallsNext DEF CallsOK
  <2> QED
    BY <1>1, <2>1 DEF TypeOK
<1>7. /\ Reported \in RevisionPair /\ Reported' \in RevisionPair
      /\ \A t \in Threads : seen[t] \in RevisionPair
  BY <1>1, <1>10 DEF TypeOK, Reported, RevisionsOf
<1>8. /\ AtMost(Reported, Reported')
      /\ AtMost(Reported', index')
  BY <1>2, <1>4, <1>7, <1>10 DEF AtMost, ReportOK, RevisionsOf
<1>9. \A t \in Threads : /\ AtMost(seen[t], seen'[t])
                         /\ AtMost(seen'[t], Reported')
  BY <1>6, <1>7, <1>8 DEF AtMost, ReportOK
<1> QED
  BY <1>8, <1>9 DEF ReportOK, AtMost

\* With one instance, calls follow one another: what a call has read stays in
\* index.json until it has replaced it.
THEOREM CallsAreAlone ==
    ASSUME OneInstance
    PROVE  Spec => [](LockOK /\ CallsOK)
<1>1. Init => LockOK /\ CallsOK
  BY CallsInit
<1>2. TypeOK /\ LockOK /\ [Next]_vars => LockOK'
  BY LockNext
<1>3. TypeOK /\ ObjectsOK /\ LockOK /\ CallsOK /\ [Next]_vars => CallsOK'
  BY CallsNext
<1> QED
  BY <1>1, <1>2, <1>3, TypesAndObjects, PTL DEF Spec

\* With one instance index.json can always be loaded: wherever a write fails or
\* the process stops, only whole files replace it.
THEOREM IndexAlwaysLoads ==
    ASSUME OneInstance
    PROVE  Spec => []IndexLoads
<1>1. CallsOK => IndexLoads
  BY DEF CallsOK, IndexLoads
<1> QED
  BY <1>1, CallsAreAlone, PTL

\* With one instance, the store with its two files, its temporary file, failing
\* writes and restarts implements AtomicStore.
THEOREM StoreImplementsAtomic ==
    ASSUME OneInstance
    PROVE  Spec => StoreIsAtomic
<1>1. Init => Atomic!Init
  BY DEF Init, Atomic!Init, Atomic!NoFiles, NoFiles, Reported, RevisionsOf
<1>2. TypeOK /\ CallsOK /\ [Next]_vars => [Atomic!Next]_Atomic!vars
  BY StepIsAtomic
<1> QED
  BY <1>1, <1>2, TypesAndObjects, CallsAreAlone, PTL
  DEF Spec, StoreIsAtomic, Atomic!Spec

\* With one instance, no thread is told a revision older than one it was told
\* before, across failing writes and restarts.
THEOREM ReadingsNeverGoBack ==
    ASSUME OneInstance
    PROVE  Spec => ReadingsAdvance
<1>1. Init => ReportOK
  BY DEF Init, ReportOK, AtMost, Reported, RevisionsOf
<1>2. TypeOK /\ ObjectsOK /\ LockOK /\ CallsOK /\ ReportOK /\ [Next]_vars
        => ReportOK'
  BY ReportNext
<1>3. TypeOK /\ ObjectsOK /\ LockOK /\ CallsOK /\ ReportOK /\ [Next]_vars
        => [\A t \in Threads : /\ seen[t].accepted <= seen'[t].accepted
                               /\ seen[t].indexed <= seen'[t].indexed]_vars
  BY ReportNext DEF AtMost
<1> QED
  BY <1>1, <1>2, <1>3, TypesAndObjects, CallsAreAlone, PTL
  DEF Spec, ReadingsAdvance

-----------------------------------------------------------------------------
(* The mirror follows index.json, with one instance.                       *)

\* What a batch has dealt with is in the mirror as it is in its copy of the
\* index; what it does not name, its copy has as index.json has it.
MirrorCall(t) ==
    /\ pc[t] \in {"idle", "mark"} => Named(change[t]) = {}
    /\ pc[t] \in {"apply", "fill", "replace"} =>
           \A p \in Named(change[t]) \ todo[t] : mirror[p] = loaded[t].files[p]
    /\ pc[t] \in {"fill", "replace"} =>
           /\ todo[t] = {}
           /\ \A p \in Paths \ Named(change[t]) :
                 loaded[t].files[p] = index.files[p]
MirrorCalls == \A t \in Threads : MirrorCall(t)

\* A thread between two calls has nothing to write.
LEMMA IdleMirror ==
    ASSUME NEW t \in Threads, pc[t] = "idle", change[t] = NoChange
    PROVE  MirrorCall(t)
BY DEF MirrorCall, Named, NoChange, NoFiles

\* While t is in its call, the paths being written are those of its batch.
LEMMA WrittenByOne ==
    ASSUME NEW t \in Threads, \A u \in Threads \ {t} : pc[u] = "idle",
           NEW p \in Paths
    PROVE  BeingWritten(p) <=>
              pc[t] \in {"apply", "fill", "replace"} /\ p \in Named(change[t])
BY DEF BeingWritten

\* The call of t ends with what it had not put into index.json among the cut
\* paths: the mirror is right for the others.
LEMMA MirrorCutOff ==
    ASSUME TypeOK, TypeOK', OneInstance, LockOK, MirrorCalls, MirrorFollows,
           NEW t \in Threads, pc[t] # "idle", Return(t), index' = index,
           pc[t] = "summary" => cut' = cut,
           pc[t] # "summary" => cut' = cut \cup Named(change[t]),
           \A p \in Paths : mirror'[p] = mirror[p] \/ p \in cut'
    PROVE  MirrorCalls' /\ MirrorFollows'
<1>1. \A u \in Threads \ {t} : pc[u] = "idle"
  BY OthersIdle
<1>2. \A u \in Threads : pc'[u] = "idle" /\ Named(change[u])' = {}
  <2>1. pc'[t] = "idle" /\ change'[t] = NoChange
    BY DEF Return, Goto, TypeOK
  <2>2. \A u \in Threads \ {t} : pc'[u] = "idle" /\ change'[u] = change[u]
    BY <1>1 DEF Return, Goto, TypeOK
  <2>3. Named(NoChange) = {}
    BY DEF Named, NoChange, NoFiles
  <2> QED
    BY <1>1, <2>1, <2>2, <2>3 DEF MirrorCalls, MirrorCall, Named
<1>3. \A p \in Paths : p \in cut' \/ mirror'[p] = index'.files[p]
  BY <1>1, WrittenByOne DEF MirrorFollows
<1> QED
  BY <1>2, <1>3 DEF MirrorCalls, MirrorCall, MirrorFollows

\* The mirror is written before the record, and an interrupted batch is cut:
\* every step keeps the mirror behind index.json.
LEMMA MirrorNext ==
    ASSUME TypeOK, TypeOK', ObjectsOK, OneInstance, LockOK, CallsOK,
           MirrorCalls, MirrorFollows, [Next]_vars
    PROVE  MirrorCalls' /\ MirrorFollows'
<1> USE StoreAssumption
\* A step of t that leaves the others where they are.
<1>1. ASSUME NEW t \in Threads, \A u \in Threads \ {t} : pc[u] = "idle",
             \A u \in Threads \ {t} : pc'[u] = "idle" /\ change'[u] = change[u],
             MirrorCall(t)', pc'[t] \in {"apply", "fill", "replace"},
             index' = index, cut' = cut,
             \A p \in Paths \ Named(change'[t]) :
                 mirror'[p] = mirror[p] /\ p \notin Named(change[t])
      PROVE  MirrorCalls' /\ MirrorFollows'
  <2>1. \A u \in Threads \ {t} : MirrorCall(u)'
    BY <1>1 DEF MirrorCalls, MirrorCall, Named
  <2>2. \A p \in Named(change'[t]) : BeingWritten(p)'
    BY <1>1 DEF BeingWritten, Named
  <2>3. \A p \in Paths \ Named(change'[t]) : ~BeingWritten(p)
    BY <1>1, WrittenByOne
  <2> QED
    BY <1>1, <2>1, <2>2, <2>3 DEF MirrorCalls, MirrorFollows
<1>2. ASSUME NEW t \in Threads, ApplyBatch(t)
      PROVE  MirrorCalls' /\ MirrorFollows'
  <2>1. PICK c \in Changes :
            /\ change' = [change EXCEPT ![t] = c]
            /\ todo' = [todo EXCEPT ![t] = Named(c)]
    BY <1>2 DEF ApplyBatch
  <2>2. change'[t] = c /\ todo'[t] = Named(c) /\ pc'[t] = "apply"
    BY <1>2, <2>1 DEF ApplyBatch, TypeOK, Goto
  <2>3. \A u \in Threads \ {t} :
           pc[u] = "idle" /\ pc'[u] = "idle" /\ change'[u] = change[u]
    BY <1>2, <2>1, OthersIdle DEF ApplyBatch, TypeOK, Goto
  <2>4. Named(change[t]) = {}
    BY <1>2 DEF ApplyBatch, MirrorCalls, MirrorCall
  <2>5. MirrorCall(t)'
    BY <2>2 DEF MirrorCall, Named
  <2> QED
    BY <1>1, <1>2, <2>2, <2>3, <2>4, <2>5 DEF ApplyBatch, disk, history
<1>3. ASSUME NEW t \in Threads, WriteFile(t) \/ DeleteFile(t)
      PROVE  MirrorCalls' /\ MirrorFollows'
  <2>1. /\ pc[t] = "apply" /\ pc' = pc /\ change' = change
        /\ index' = index /\ cut' = cut
    BY <1>3 DEF WriteFile, DeleteFile, history
  <2>2. PICK p \in todo[t], c \in Entry :
            /\ mirror' = [mirror EXCEPT ![p] = c]
            /\ loaded' = [loaded EXCEPT ![t].files[p] = c]
            /\ todo' = [todo EXCEPT ![t] = todo[t] \ {p}]
    <3>1. CASE WriteFile(t)
      BY <3>1 DEF WriteFile, FilesToWrite, TypeOK, Change, Tree
    <3>2. CASE DeleteFile(t)
      BY <3>2 DEF DeleteFile, MirrorWithout, Entry
    <3> QED
      BY <1>3, <3>1, <3>2
  <2>3. p \in Named(change[t]) /\ p \in Paths
    BY <2>2 DEF ObjectsOK, CallObjects, TypeOK
  <2>4. /\ loaded'[t].files = [loaded[t].files EXCEPT ![p] = c]
        /\ todo'[t] = todo[t] \ {p}
    BY <2>2 DEF TypeOK
  <2>5. \A q \in Named(change[t]) \ todo'[t] : mirror'[q] = loaded'[t].files[q]
    <3>1. \A q \in Named(change[t]) \ todo[t] : mirror[q] = loaded[t].files[q]
      BY <2>1 DEF MirrorCalls, MirrorCall
    <3>2. Named(change[t]) \subseteq Paths
      BY NamedArePaths DEF TypeOK
    <3> QED
      BY <2>2, <2>3, <2>4, <3>1, <3>2 DEF TypeOK, Tree
  <2>6. MirrorCall(t)'
    BY <2>1, <2>5 DEF MirrorCall, Named
  <2>7. \A q \in Paths \ Named(change[t]) : mirror'[q] = mirror[q]
    BY <2>2, <2>3 DEF TypeOK, Tree
  <2>8. \A u \in Threads \ {t} : pc[u] = "idle"
    BY <2>1, OthersIdle
  <2> QED
    BY <1>1, <2>1, <2>6, <2>7, <2>8 DEF TypeOK
<1>4. ASSUME NEW t \in Threads, OpenIndex(t)
      PROVE  MirrorCalls' /\ MirrorFollows'
  <2>1. /\ pc[t] \in {"apply", "mark"} /\ pc'[t] = "fill"
        /\ UNCHANGED <<index, mirror, change, todo, cut>>
    BY <1>4 DEF OpenIndex, TypeOK, Goto, history
  <2>2. loaded'[t].files = loaded[t].files
    <3>1. CASE loaded' = loaded
      BY <3>1
    <3>2. CASE loaded' = [loaded EXCEPT
                              ![t].accepted = Accepted(loaded[t], revision[t])]
      BY <3>2 DEF TypeOK
    <3> QED
      BY <1>4, <3>1, <3>2 DEF OpenIndex
  <2>3. todo[t] = {}
    BY <1>4, <2>1 DEF OpenIndex, ObjectsOK, CallObjects, MirrorCalls, MirrorCall
  <2>4. ASSUME NEW p \in Paths \ Named(change[t])
        PROVE  loaded[t].files[p] = index.files[p]
    <3>1. CASE pc[t] = "apply"
      BY <2>3, <3>1 DEF CallsOK, CallOK, BatchOK, FilesThenDeletes, Named
    <3>2. CASE pc[t] = "mark"
      <4>1. PICK r \in Revisions : loaded[t] = AfterMark(r)
        BY <3>2 DEF CallsOK, CallOK, IsMark
      <4> QED
        BY <4>1 DEF AfterMark
    <3> QED
      BY <2>1, <3>1, <3>2
  <2>5. \A p \in Named(change[t]) : mirror[p] = loaded[t].files[p]
    BY <2>1, <2>3 DEF MirrorCalls, MirrorCall
  <2>6. MirrorCall(t)'
    BY <2>1, <2>2, <2>3, <2>4, <2>5 DEF MirrorCall, Named
  <2>7. \A u \in Threads \ {t} : pc[u] = "idle" /\ pc'[u] = "idle"
    BY <1>4, <2>1, OthersIdle DEF OpenIndex, TypeOK, Goto
  <2> QED
    BY <1>1, <2>1, <2>6, <2>7
<1>12. ASSUME NEW t \in Threads, FillIndex(t) \/ FlushIndex(t)
       PROVE  MirrorCalls' /\ MirrorFollows'
  <2>1. /\ pc[t] = "fill" /\ pc'[t] \in {"fill", "replace"}
        /\ \A u \in Threads \ {t} : pc'[u] = pc[u]
    BY <1>12 DEF FillIndex, FlushIndex, Goto, TypeOK, locals
  <2>2. UNCHANGED <<index, summary, seen, mirror, change, todo, loaded, cut>>
    BY <1>12, IndexStays
  <2>3. \A u \in Threads \ {t} : pc[u] = "idle" /\ pc'[u] = "idle"
    BY <2>1, OthersIdle
  <2>4. MirrorCall(t)'
    BY <2>1, <2>2 DEF MirrorCalls, MirrorCall, Named
  <2> QED
    BY <1>1, <2>1, <2>2, <2>3, <2>4
<1>5. ASSUME NEW t \in Threads, MarkIndexed(t)
      PROVE  MirrorCalls' /\ MirrorFollows'
  <2>1. /\ pc[t] = "idle" /\ pc'[t] = "mark"
        /\ UNCHANGED <<index, mirror, change, cut>>
    BY <1>5 DEF MarkIndexed, TypeOK, Goto, disk, history
  <2>2. \A u \in Threads \ {t} : pc[u] = "idle" /\ pc'[u] = "idle"
    BY <1>5, OthersIdle DEF MarkIndexed, TypeOK, Goto
  <2>3. \A u \in Threads : Named(change[u]) = {}
    BY <2>1, <2>2 DEF MirrorCalls, MirrorCall
  <2>4. MirrorCalls'
    BY <2>1, <2>2, <2>3 DEF MirrorCalls, MirrorCall, Named
  <2>5. \A p \in Paths : ~BeingWritten(p)
    BY <2>3 DEF BeingWritten
  <2> QED
    BY <2>1, <2>4, <2>5 DEF MirrorFollows
<1>6. ASSUME NEW t \in Threads, ReplaceIndex(t)
      PROVE  MirrorCalls' /\ MirrorFollows'
  <2>1. /\ pc[t] = "replace" /\ index' = loaded[t] /\ pc'[t] = "summary"
        /\ cut' = cut \ Named(change[t])
        /\ UNCHANGED <<mirror, change, todo, loaded>>
    BY <1>6, MissingAssumption
    DEF ReplaceIndex, CallsOK, CallOK, TypeOK, Goto
  <2>2. \A u \in Threads \ {t} : pc[u] = "idle" /\ pc'[u] = "idle"
    BY <1>6, <2>1, MissingAssumption, OthersIdle
    DEF ReplaceIndex, TypeOK, Goto, CallsOK, CallOK
  <2>3. /\ \A p \in Named(change[t]) : mirror[p] = loaded[t].files[p]
        /\ \A p \in Paths \ Named(change[t]) :
              loaded[t].files[p] = index.files[p]
    BY <2>1 DEF MirrorCalls, MirrorCall
  <2>4. \A p \in Paths : p \in cut' \/ mirror'[p] = index'.files[p]
    BY <2>1, <2>2, <2>3, WrittenByOne DEF MirrorFollows
  <2>5. MirrorCalls'
    BY <2>1, <2>2 DEF MirrorCalls, MirrorCall, Named
  <2> QED
    BY <2>4, <2>5 DEF MirrorFollows
<1>7. ASSUME NEW t \in Threads, SaveSummary(t)
      PROVE  MirrorCalls' /\ MirrorFollows'
  <2>1. /\ pc[t] = "summary" /\ Return(t)
        /\ UNCHANGED <<index, mirror, cut>>
    BY <1>7 DEF SaveSummary
  <2>2. \A p \in Paths : mirror'[p] = mirror[p]
    BY <2>1
  <2>3. /\ pc[t] # "idle" /\ index' = index
        /\ pc[t] = "summary" => cut' = cut
        /\ pc[t] # "summary" => cut' = cut \cup Named(change[t])
    BY <2>1
  <2> QED
    BY <2>1, <2>2, <2>3, MirrorCutOff
<1>8. ASSUME NEW t \in Threads, Fails(t)
      PROVE  MirrorCalls' /\ MirrorFollows'
  <2>1. \A p \in FilesToWrite(t) : p \in Named(change[t])
    BY DEF FilesToWrite, ObjectsOK, CallObjects
  <2>2. \A p \in Paths : mirror'[p] = mirror[p] \/ p \in cut'
    <3>1. \/ mirror' = mirror
          \/ /\ pc[t] = "apply"
             /\ \E p \in FilesToWrite(t) :
                   mirror' = [mirror EXCEPT ![p] = change[t].files[p]]
      BY <1>8 DEF Fails
    <3>2. CASE mirror' = mirror
      BY <3>2
    <3>3. ASSUME NEW p \in FilesToWrite(t), pc[t] = "apply",
                 mirror' = [mirror EXCEPT ![p] = change[t].files[p]]
          PROVE  \A q \in Paths : mirror'[q] = mirror[q] \/ q \in cut'
      <4>1. p \in cut'
        BY <1>8, <2>1, <3>3 DEF Fails
      <4> QED
        BY <3>3, <4>1 DEF TypeOK, Tree
    <3> QED
      BY <3>1, <3>2, <3>3
  <2>3. /\ pc[t] # "idle" /\ Return(t) /\ index' = index
        /\ pc[t] = "summary" => cut' = cut
        /\ pc[t] # "summary" => cut' = cut \cup Named(change[t])
    BY <1>8 DEF Fails
  <2> QED
    BY <2>2, <2>3, MirrorCutOff
<1>9. CASE Crash
  <2>1. \A p \in Paths : BeingWritten(p) => p \in cut'
    BY <1>9 DEF Crash, BeingWritten
  <2>2. cut \subseteq cut' /\ mirror' = mirror /\ index' = index
    BY <1>9 DEF Crash, disk
  <2>3. \A t \in Threads : pc'[t] = "idle" /\ change'[t] = NoChange
    BY <1>9 DEF Crash
  <2>4. Named(NoChange) = {}
    BY DEF Named, NoChange, NoFiles
  <2>5. MirrorCalls'
    BY <2>3, <2>4 DEF MirrorCalls, MirrorCall, Named
  <2> QED
    BY <2>1, <2>2, <2>5 DEF MirrorFollows
<1>10. ASSUME UNCHANGED <<index, mirror, pc, change, todo, loaded, cut>>
       PROVE  MirrorCalls' /\ MirrorFollows'
  BY <1>10
  DEF MirrorCalls, MirrorCall, MirrorFollows, BeingWritten, Named
<1>11. ASSUME NEW t \in Threads, Status(t)
       PROVE  MirrorCalls' /\ MirrorFollows'
  BY <1>10, <1>11 DEF Status, disk, locals
<1> QED
  BY <1>2, <1>3, <1>4, <1>5, <1>6, <1>7, <1>8, <1>9, <1>10, <1>11, <1>12
  DEF Next, vars

\* With one instance, the mirror that text search reads shows what index.json
\* records, but for paths that a batch is writing or was cut off at:
\* apply_batch changes the mirror before it replaces index.json, and no other
\* batch comes in between.
THEOREM MirrorIsCurrent ==
    ASSUME OneInstance
    PROVE  Spec => []MirrorFollows
<1>1. Init => MirrorCalls /\ MirrorFollows
  BY IdleMirror DEF Init, MirrorCalls, MirrorFollows
<1>2. TypeOK /\ ObjectsOK /\ TypeOK' /\ LockOK /\ CallsOK /\ MirrorCalls
        /\ MirrorFollows /\ [Next]_vars => MirrorCalls' /\ MirrorFollows'
  BY MirrorNext
<1> QED
  BY <1>1, <1>2, TypesAndObjects, CallsAreAlone, PTL DEF Spec
=============================================================================
