--------------------------- MODULE Patches_proofs ---------------------------
(***************************************************************************)
(* What Patches promises, for any number of paths, contents, payloads,     *)
(* keys, patches, edits and operations that break off.                     *)
(***************************************************************************)
EXTENDS Patches, TLAPS

-----------------------------------------------------------------------------
(* The inductive invariant. *)

Applies(a) == pc[a] # "idle" /\ op[a].kind = "apply"
Restores(a) == pc[a] # "idle" /\ op[a].kind = "rollback"
Payload(a) == <<op[a].path, op[a].new>>

\* The steps of an apply with an id, before its session is saved, after its
\* file is written, and after its session is saved.
Started == {"snapshot", "write", "save", "unlist", "answer"}
Unsaved == {"snapshot", "write", "save"}
Written == {"save", "unlist", "answer"}
Saved == {"unlist", "answer"}

\* Where an operation can be, and what it carries.
OpOK(a) ==
    /\ Applies(a) =>
          /\ pc[a] \in {"lookup", "read"} \cup Started
          /\ Payload(a) \in Payloads
          /\ pc[a] = "lookup" => a = Server /\ op[a].key # None
          /\ a = Tool => op[a].key = None
    /\ Restores(a) =>
          /\ pc[a] \in {"write", "save", "stat", "unlink"}
          /\ op[a].key = None
          /\ pc[a] \in {"stat", "unlink"} => a = Tool /\ op[a].new = Empty
          /\ pc[a] = "unlink" => op[a].orig = Empty
OpsOK == \A a \in Actors : OpOK(a)

\* Two patches that are applied at a time are different ones.
IdsOK ==
    Applies(Server) /\ Applies(Tool) /\ op[Server].id # 0
        => op[Server].id # op[Tool].id

\* What the disk holds of patch i when its session is there.
SessionOK(i) ==
    /\ i \in 1..Len(patches) /\ snaps[i] # None
    /\ i \in raced \/ snaps[i] = Text(patches[i].before)
SessionsOK ==
    /\ Len(patches) <= MaxPatches
    /\ \A i \in Ids : sessions[i] # "none" => SessionOK(i)
    /\ \A i \in Ids : i > Len(patches) => snaps[i] = None
    /\ \A i \in torn : sessions[i] # "none"

\* The session of patch i is there for who is given its id.
Known(i) == sessions[i] \in {"applied", "rolled_back"} \/ i \in torn

\* An apply that has its id: its snapshot is the text it has read, it becomes
\* known with its session, and nobody else previews its payload unnoticed.
ApplyOK(a) ==
    Applies(a) /\ pc[a] \in Started =>
        LET i == op[a].id IN
        /\ i \in 1..Len(patches)
        /\ patches[i].path = op[a].path /\ patches[i].new = op[a].new
        /\ snaps[i] = IF pc[a] = "snapshot" THEN None ELSE op[a].orig
        /\ pc[a] \in Unsaved => sessions[i] = "none"
        /\ pc[a] \in Written =>
              i \in raced \/ op[a].orig = Text(patches[i].before)
        /\ pc[a] \in Saved => Known(i)
        /\ pc[a] \in {"snapshot", "write"} /\ viewer[Payload(a)] = a =>
              baselines[Payload(a)] = op[a].orig
AppliesOK == \A a \in Actors : ApplyOK(a)

\* A rollback restores the snapshot of a session that is there.
RestoreOK(a) ==
    Restores(a) =>
        LET i == op[a].id IN
        /\ i \in Ids /\ sessions[i] # "none"
        /\ snaps[i] = op[a].new /\ patches[i].path = op[a].path
RestoresOK == \A a \in Actors : RestoreOK(a)

\* A preview that somebody made has its baseline.
PreviewsOK == \A x \in Payloads : viewer[x] # None => baselines[x] # None

\* What is known of a file by who has written it last.
FileOK(p) ==
    /\ last[p] = ByUser => TextAt(p) = edit[p]
    /\ \A i \in Nat : last[p] = <<"rollback", i>> =>
          /\ i \in Ids /\ sessions[i] # "none"
          /\ i \in raced \/ TextAt(p) = Text(patches[i].before)
FilesOK == \A p \in Paths : FileOK(p)

\* A key whose answer was not lost has applied its patch if the answer is
\* stored or its request has written the file, and else not.
Under(k) ==
    Applies(Server) /\ pc[Server] # "lookup" /\ op[Server].key = k
KeyOK(k) ==
    /\ Under(k) => cached[k] = None
    /\ runs[k] = IF \/ cached[k] # None
                    \/ Under(k) /\ pc[Server] \in Written
                 THEN 1 ELSE 0
KeysOK == \A k \in Keys : k \in unsure \/ KeyOK(k)

\* A stored answer names a patch with its payload, which is known.
AnswerOK(k) ==
    cached[k] # None =>
        /\ cached[k].id \in 1..Len(patches) /\ Known(cached[k].id)
        /\ cached[k].payload = <<patches[cached[k].id].path,
                                 patches[cached[k].id].new>>
CachedOK == \A k \in Keys : AnswerOK(k)

IInv ==
    /\ TypeOK /\ OpsOK /\ IdsOK /\ SessionsOK /\ AppliesOK /\ RestoresOK
    /\ PreviewsOK /\ FilesOK /\ EditsKept /\ KeysOK /\ CachedOK

-----------------------------------------------------------------------------
(* Types. *)

Patch == [path : Paths, new : Texts, before : Entry]

\* The three parts of TypeOK: the operations, the patches, and the rest.
OpTypes ==
    /\ pc \in [Actors -> Labels] /\ op \in [Actors -> Operation \cup {Nothing}]
    /\ \A a \in Actors :
          /\ op[a] = Nothing <=> pc[a] = "idle"
          /\ pc[a] # "idle" =>
                (op[a].id = 0 <=> pc[a] \in {"lookup", "read"})
PatchTypes == patches \in Seq(Patch)
DataTypes ==
    /\ disk \in Tree
    /\ snaps \in [Ids -> Texts \cup {None}]
    /\ sessions \in [Ids -> {"none", "torn", "applied", "rolled_back"}]
    /\ baselines \in [Payloads -> Texts \cup {None}]
    /\ cached \in [Keys -> Answer \cup {None}]
    /\ raced \subseteq Ids /\ lost \subseteq Paths /\ torn \subseteq Ids
    /\ last \in [Paths -> Writers]
    /\ edit \in [Paths -> Texts]
    /\ viewer \in [Payloads -> Actors \cup {None}]
    /\ runs \in [Keys -> Nat] /\ unsure \subseteq Keys
    /\ edits \in Nat /\ troubles \in Nat

LEMMA TypeParts == /\ TypeOK <=> OpTypes /\ PatchTypes /\ DataTypes
                   /\ TypeOK' <=> OpTypes' /\ PatchTypes' /\ DataTypes'
BY DEF TypeOK, OpTypes, PatchTypes, DataTypes, Patch

\* A text is the text of itself, and every file has one.
LEMMA TextsAreTexts ==
    /\ Empty \in Texts /\ None \notin Texts /\ Texts \subseteq Contents
    /\ \A c \in Entry : Text(c) \in Texts
    /\ \A c \in Texts : Text(c) = c /\ c \in Entry
    /\ Text(None) = Empty
BY PatchAssumption DEF Texts, Text, Entry

\* What an operation carries has its type.
LEMMA OpFields ==
    ASSUME OpTypes, NEW a \in Actors, pc[a] # "idle"
    PROVE  /\ op[a] \in Operation
           /\ op[a].path \in Paths /\ op[a].new \in Texts
           /\ op[a].orig \in Texts /\ op[a].id \in 0..MaxPatches
           /\ op[a].key \in Keys \cup {None}
           /\ op[a].kind \in {"apply", "rollback"}
           /\ Applies(a) <=> ~Restores(a)
BY DEF OpTypes, Operation, Applies, Restores

\* When the operation of a goes to a label with o, the other actor stays where
\* it is.
LEMMA Moves ==
    ASSUME OpTypes, NEW a \in Actors, NEW label, NEW o,
           pc' = [pc EXCEPT ![a] = label], op' = [op EXCEPT ![a] = o]
    PROVE  /\ pc'[a] = label /\ op'[a] = o
           /\ \A b \in Actors : b # a => pc'[b] = pc[b] /\ op'[b] = op[b]
BY DEF OpTypes

LEMMA Steps ==
    ASSUME OpTypes, NEW a \in Actors, NEW label \in Labels \ {"idle"},
           pc[a] # "idle", Goto(a, label), op' = op,
           op[a].id = 0 <=> label \in {"lookup", "read"}
    PROVE  /\ OpTypes' /\ pc'[a] = label /\ op'[a] = op[a]
           /\ \A b \in Actors : b # a => pc'[b] = pc[b] /\ op'[b] = op[b]
BY DEF OpTypes, Goto

LEMMA MoveTypes ==
    ASSUME OpTypes, NEW a \in Actors, NEW label \in Labels \ {"idle"},
           NEW o \in Operation, o.id = 0 <=> label \in {"lookup", "read"},
           pc' = [pc EXCEPT ![a] = label], op' = [op EXCEPT ![a] = o]
    PROVE  OpTypes'
<1>1. o # Nothing
  BY DEF Operation, Nothing
<1> QED
  BY <1>1 DEF OpTypes

LEMMA DoneTypes ==
    ASSUME OpTypes, NEW a \in Actors, Done(a)
    PROVE  /\ OpTypes' /\ pc'[a] = "idle" /\ op'[a] = Nothing
           /\ \A b \in Actors : b # a => pc'[b] = pc[b] /\ op'[b] = op[b]
BY DEF OpTypes, Done, Goto, Labels

\* Where Advance leads an operation.
LEMMA Advances ==
    ASSUME NEW a \in Actors, Advance(a)
    PROVE  /\ pc[a] = "snapshot" => Goto(a, "write") /\ op' = op
           /\ pc[a] = "write" => Goto(a, "save") /\ op' = op
           /\ pc[a] = "save" => Goto(a, "unlist") /\ op' = op
           /\ pc[a] = "unlist" => Goto(a, "answer") /\ op' = op
           /\ pc[a] = "answer" => Done(a)
<1> DEFINE at == CHOOSE n \in DOMAIN ApplyOrder : ApplyOrder[n] = pc[a]
<1>1. /\ DOMAIN ApplyOrder = 1..6 /\ Len(ApplyOrder) = 6
      /\ ApplyOrder[1] = "read" /\ ApplyOrder[2] = "snapshot"
      /\ ApplyOrder[3] = "write" /\ ApplyOrder[4] = "save"
      /\ ApplyOrder[5] = "unlist" /\ ApplyOrder[6] = "answer"
  BY DEF ApplyOrder
<1>2. IF at = 6 THEN Done(a)
      ELSE Goto(a, ApplyOrder[at + 1]) /\ op' = op
  BY <1>1 DEF Advance
<1>3. \A k \in 1..6 : pc[a] = ApplyOrder[k] => at = k
  BY <1>1
<1> HIDE DEF at
<1> QED
  BY <1>1, <1>2, <1>3

\* One more patch, and what a patch has overwritten.
LEMMA OneMore ==
    ASSUME PatchTypes, NEW r \in Patch, patches' = Append(patches, r)
    PROVE  /\ PatchTypes' /\ Len(patches) \in Nat
           /\ Len(patches') = Len(patches) + 1
           /\ patches'[Len(patches')] = r
           /\ \A i \in 1..Len(patches) : patches'[i] = patches[i]
BY DEF PatchTypes

LEMMA Overwritten ==
    ASSUME PatchTypes, NEW i \in 1..Len(patches), NEW c \in Entry,
           patches' = [patches EXCEPT ![i].before = c]
    PROVE  /\ PatchTypes' /\ Len(patches') = Len(patches)
           /\ patches'[i].before = c
           /\ \A j \in 1..Len(patches) :
                 /\ patches'[j].path = patches[j].path
                 /\ patches'[j].new = patches[j].new
                 /\ j # i => patches'[j] = patches[j]
<1>1. patches \in [1..Len(patches) -> Patch] /\ Len(patches) \in Nat
  BY DEF PatchTypes
<1>2. patches[i] \in Patch
  BY <1>1
<1>3. [patches[i] EXCEPT !.before = c] \in Patch
  BY <1>2 DEF Patch
<1>4. patches' = [patches EXCEPT ![i] = [patches[i] EXCEPT !.before = c]]
  OBVIOUS
<1>5. patches' \in Seq(Patch) /\ Len(patches') = Len(patches)
  BY <1>3, <1>4 DEF PatchTypes
<1>6. patches'[i] = [patches[i] EXCEPT !.before = c]
  BY <1>1, <1>4
<1>7. \A j \in 1..Len(patches) : j # i => patches'[j] = patches[j]
  BY <1>1, <1>4
<1> QED
  BY <1>2, <1>5, <1>6, <1>7 DEF PatchTypes, Patch

-----------------------------------------------------------------------------
(* The steps. *)

\* Each part of the invariant stays when its variables do.
LEMMA Frames ==
    ASSUME IInv
    PROVE  /\ UNCHANGED <<pc, op>> => OpTypes' /\ OpsOK' /\ IdsOK'
           /\ UNCHANGED patches => PatchTypes'
           /\ UNCHANGED <<sessions, patches, snaps, raced, torn>> => SessionsOK'
           /\ UNCHANGED <<pc, op, patches, snaps, sessions, raced, torn,
                          viewer, baselines>> => AppliesOK'
           /\ UNCHANGED <<pc, op, sessions, snaps, patches>> => RestoresOK'
           /\ UNCHANGED <<viewer, baselines>> => PreviewsOK'
           /\ UNCHANGED <<last, disk, edit, sessions, raced, patches>>
                 => FilesOK'
           /\ UNCHANGED <<last, lost, patches, snaps, edit>> => EditsKept'
           /\ UNCHANGED <<unsure, pc, op, cached, runs>> => KeysOK'
           /\ UNCHANGED <<cached, patches, sessions, torn>> => CachedOK'
<1> USE DEF IInv
<1>1. UNCHANGED <<pc, op>> => OpTypes' /\ OpsOK' /\ IdsOK'
  BY TypeParts DEF OpTypes, OpsOK, OpOK, IdsOK, Applies, Restores, Payload
<1>2. UNCHANGED patches => PatchTypes'
  BY TypeParts DEF PatchTypes
<1>3. UNCHANGED <<sessions, patches, snaps, raced, torn>> => SessionsOK'
  BY DEF SessionsOK, SessionOK, Text
<1>4. UNCHANGED <<pc, op, patches, snaps, sessions, raced, torn, viewer,
                  baselines>> => AppliesOK'
  BY DEF AppliesOK, ApplyOK, Applies, Payload, Known, Text
<1>5. UNCHANGED <<pc, op, sessions, snaps, patches>> => RestoresOK'
  BY DEF RestoresOK, RestoreOK, Restores
<1>6. UNCHANGED <<viewer, baselines>> => PreviewsOK'
  BY DEF PreviewsOK
<1>7. UNCHANGED <<last, disk, edit, sessions, raced, patches>> => FilesOK'
  BY DEF FilesOK, FileOK, TextAt, Text
<1>8. UNCHANGED <<last, lost, patches, snaps, edit>> => EditsKept'
  BY DEF EditsKept
<1>9. UNCHANGED <<unsure, pc, op, cached, runs>> => KeysOK'
  BY DEF KeysOK, KeyOK, Under, Applies
<1>10. UNCHANGED <<cached, patches, sessions, torn>> => CachedOK'
  BY DEF CachedOK, AnswerOK, Known
<1> QED
  BY <1>1, <1>2, <1>3, <1>4, <1>5, <1>6, <1>7, <1>8, <1>9, <1>10

\* The invariant after a step, from its parts.
LEMMA Parts ==
    /\ IInv => /\ OpTypes /\ PatchTypes /\ DataTypes /\ OpsOK /\ IdsOK
               /\ SessionsOK /\ AppliesOK /\ RestoresOK /\ PreviewsOK
               /\ FilesOK /\ EditsKept /\ KeysOK /\ CachedOK
    /\ (/\ OpTypes' /\ PatchTypes' /\ DataTypes' /\ OpsOK' /\ IdsOK'
        /\ SessionsOK' /\ AppliesOK' /\ RestoresOK' /\ PreviewsOK'
        /\ FilesOK' /\ EditsKept' /\ KeysOK' /\ CachedOK') => IInv'
BY TypeParts DEF IInv

\* An operation with the text it has read and its id.
LEMMA WithId ==
    ASSUME NEW q \in Operation, NEW t \in Texts, NEW i \in 0..MaxPatches,
           NEW o, o = [q EXCEPT !.orig = t, !.id = i]
    PROVE  /\ o \in Operation /\ o.id = i /\ o.orig = t /\ o.path = q.path
           /\ o.new = q.new /\ o.key = q.key /\ o.kind = q.kind
<1>1. o = [kind |-> q.kind, path |-> q.path, new |-> q.new, key |-> q.key,
           orig |-> t, id |-> i]
  BY DEF Operation
<1> QED
  BY <1>1 DEF Operation

\* An apply goes on as it was when nothing it depends on changes.
LEMMA ApplyStays ==
    ASSUME NEW b \in Actors, ApplyOK(b), pc'[b] = pc[b], op'[b] = op[b],
           raced \subseteq raced', torn \subseteq torn',
           op[b].id \in 1..Len(patches) =>
              /\ op[b].id \in 1..Len(patches')
              /\ patches'[op[b].id] = patches[op[b].id]
              /\ snaps'[op[b].id] = snaps[op[b].id]
              /\ sessions'[op[b].id] = sessions[op[b].id],
           viewer'[Payload(b)] = b => /\ viewer[Payload(b)] = b
                                      /\ baselines'[Payload(b)] =
                                             baselines[Payload(b)]
    PROVE  ApplyOK(b)'
<1>1. Payload(b)' = Payload(b)
  BY DEF Payload
<1> QED
  BY <1>1 DEF ApplyOK, Applies, Known

LEMMA PreviewKeeps ==
    ASSUME IInv, NEW a \in Actors, NEW x \in Payloads, Preview(a, x)
    PROVE  IInv'
<1>1. /\ OpTypes' /\ PatchTypes' /\ OpsOK' /\ IdsOK' /\ SessionsOK'
      /\ RestoresOK' /\ FilesOK' /\ EditsKept' /\ KeysOK' /\ CachedOK'
  BY Frames DEF Preview, fileHistory, keyHistory
<1>2. TextAt(x[1]) \in Texts /\ TextAt(x[1]) # None
  BY Parts, TextsAreTexts, PatchAssumption DEF DataTypes, TextAt, Tree
<1>3. DataTypes'
  BY <1>2, Parts DEF Preview, DataTypes, fileHistory, keyHistory, bounds
<1>4. AppliesOK'
  <2> SUFFICES ASSUME NEW b \in Actors PROVE ApplyOK(b)'
    BY DEF AppliesOK
  <2>1. CASE b = a
    BY <2>1 DEF Preview, ApplyOK, Applies
  <2>2. CASE b # a
    <3>1. viewer'[Payload(b)] = b =>
              /\ viewer[Payload(b)] = b
              /\ baselines'[Payload(b)] = baselines[Payload(b)]
      BY <2>2, Parts DEF Preview, DataTypes
    <3> QED
      BY <3>1, Parts DEF Preview, fileHistory, AppliesOK, ApplyOK, Applies,
                         Payload, Known, Text
  <2> QED
    BY <2>1, <2>2
<1>5. PreviewsOK'
  BY <1>2, Parts DEF Preview, PreviewsOK, DataTypes
<1> QED
  BY <1>1, <1>3, <1>4, <1>5, Parts

LEMMA AskKeeps ==
    ASSUME IInv, NEW a \in Actors, NEW x \in Payloads,
           NEW key \in Headers \cup {None}, Ask(a, x, key),
           a = Tool => key = None
    PROVE  IInv'
<1> DEFINE o == [kind |-> "apply", path |-> x[1], new |-> x[2], key |-> key,
                 orig |-> Empty, id |-> 0]
           label == IF key = None THEN "read" ELSE "lookup"
<1>1. /\ PatchTypes' /\ SessionsOK' /\ PreviewsOK' /\ FilesOK' /\ EditsKept'
      /\ CachedOK'
  BY Frames DEF Ask, dataVars, fileHistory, keyHistory
<1>2. DataTypes'
  BY Parts DEF Ask, DataTypes, dataVars, fileHistory, keyHistory, bounds
<1>3. o \in Operation /\ label \in Labels \ {"idle"}
  BY TextsAreTexts, PatchAssumption DEF Operation, Keys, Labels
<1>4. /\ pc' = [pc EXCEPT ![a] = label] /\ op' = [op EXCEPT ![a] = o]
      /\ pc[a] = "idle"
  BY DEF Ask, Goto
<1>5. OpTypes'
  BY <1>3, <1>4, Parts, MoveTypes
<1>6. /\ pc'[a] = label /\ op'[a] = o /\ label \in {"lookup", "read"}
      /\ \A b \in Actors : b # a => pc'[b] = pc[b] /\ op'[b] = op[b]
  BY <1>3, <1>4, Parts, Moves
<1>7. OpsOK'
  <2>1. OpOK(a)'
    BY <1>6, PatchAssumption DEF OpOK, Applies, Restores, Payload, Actors
  <2> QED
    BY <1>6, <2>1, Parts DEF OpsOK, OpOK, Applies, Restores, Payload
<1>8. IdsOK'
  <2>1. op'[Server].id # 0 /\ Applies(Server)' /\ Applies(Tool)' =>
            Server # a
    BY <1>6
  <2>2. \/ op'[Tool].id = 0 /\ op'[Server].id # 0
        \/ a # Tool \/ a = Server \/ op'[Server].id = 0
    BY <1>6 DEF Actors
  <2> QED
    BY <1>6, <2>1, <2>2, Parts DEF IdsOK, Applies, Actors
<1>9. AppliesOK'
  <2> SUFFICES ASSUME NEW b \in Actors PROVE ApplyOK(b)'
    BY DEF AppliesOK
  <2>1. CASE b = a
    BY <1>6, <2>1 DEF ApplyOK, Started
  <2>2. CASE b # a
    BY <1>6, <2>2, Parts DEF Ask, dataVars, fileHistory, AppliesOK, ApplyOK,
                             Applies, Payload, Known, Text
  <2> QED
    BY <2>1, <2>2
<1>10. RestoresOK'
  BY <1>6, Parts DEF Ask, dataVars, fileHistory, RestoresOK, RestoreOK, Restores
<1>11. KeysOK'
  <2> SUFFICES ASSUME NEW k \in Keys PROVE k \in unsure' \/ KeyOK(k)'
    BY DEF KeysOK
  <2>1. CASE a = Server
    <3>1. ~Under(k) /\ ~Under(k)'
      BY <1>4, <1>6, <2>1 DEF Under, Applies, Keys
    <3> QED
      BY <3>1, Parts DEF Ask, dataVars, keyHistory, KeysOK, KeyOK
  <2>2. CASE a # Server
    BY <1>6, <2>2, Parts
    DEF Ask, dataVars, keyHistory, KeysOK, KeyOK, Under, Applies, Actors
  <2> QED
    BY <2>1, <2>2
<1> QED
  BY <1>1, <1>2, <1>5, <1>7, <1>8, <1>9, <1>10, <1>11, Parts

LEMMA LookupKeeps ==
    ASSUME IInv, Lookup
    PROVE  IInv'
<1>1. /\ PatchTypes' /\ SessionsOK' /\ PreviewsOK' /\ FilesOK' /\ EditsKept'
      /\ CachedOK'
  BY Frames DEF Lookup, dataVars, fileHistory, keyHistory
<1>2. DataTypes'
  BY Parts DEF Lookup, DataTypes, dataVars, fileHistory, keyHistory, bounds
<1>3. /\ Server \in Actors /\ pc[Server] = "lookup"
      /\ Applies(Server) /\ op[Server].id = 0
  BY Parts, OpFields DEF Lookup, Actors, OpTypes, OpsOK, OpOK
<1>4. /\ OpTypes'
      /\ \/ pc'[Server] = "idle" /\ op'[Server] = Nothing
         \/ /\ pc'[Server] = "read" /\ op'[Server] = op[Server]
            /\ cached[op[Server].key] = None
      /\ \A b \in Actors : b # Server => pc'[b] = pc[b] /\ op'[b] = op[b]
  <2>1. CASE cached[op[Server].key] = None
    BY <1>3, <2>1, Parts, Steps DEF Lookup, Labels
  <2>2. CASE cached[op[Server].key] # None
    BY <1>3, <2>2, Parts, DoneTypes DEF Lookup
  <2> QED
    BY <2>1, <2>2
<1>5. OpsOK'
  BY <1>3, <1>4, Parts DEF OpsOK, OpOK, Applies, Restores, Payload, Nothing
<1>6. IdsOK'
  BY <1>3, <1>4, Parts, PatchAssumption DEF IdsOK, Applies, Actors
<1>7. AppliesOK'
  <2> SUFFICES ASSUME NEW b \in Actors PROVE ApplyOK(b)'
    BY DEF AppliesOK
  <2>1. CASE b = Server
    BY <1>4, <2>1 DEF ApplyOK, Started
  <2>2. CASE b # Server
    BY <1>4, <2>2, Parts DEF Lookup, dataVars, fileHistory, AppliesOK, ApplyOK,
                             Applies, Payload, Known, Text
  <2> QED
    BY <2>1, <2>2
<1>8. RestoresOK'
  BY <1>3, <1>4, Parts, OpFields
  DEF Lookup, dataVars, fileHistory, RestoresOK, RestoreOK, Restores, Applies
<1>9. KeysOK'
  <2> SUFFICES ASSUME NEW k \in Keys PROVE k \in unsure' \/ KeyOK(k)'
    BY DEF KeysOK
  <2> QED
    BY <1>3, <1>4, Parts
    DEF Lookup, dataVars, keyHistory, KeysOK, KeyOK, Under, Applies, Written
<1> QED
  BY <1>1, <1>2, <1>4, <1>5, <1>6, <1>7, <1>8, <1>9, Parts

LEMMA LookupFailsKeeps ==
    ASSUME IInv, LookupFails
    PROVE  IInv'
<1>1. /\ PatchTypes' /\ SessionsOK' /\ PreviewsOK' /\ FilesOK' /\ EditsKept'
      /\ CachedOK'
  BY Frames DEF LookupFails, dataVars, fileHistory
<1>2. /\ Server \in Actors /\ pc[Server] = "lookup"
      /\ Applies(Server) /\ op[Server].id = 0 /\ op[Server].key \in Keys
  BY Parts, OpFields DEF LookupFails, Actors, OpTypes, OpsOK, OpOK, Keys
<1>3. DataTypes'
  BY <1>2, Parts
  DEF LookupFails, DataTypes, dataVars, fileHistory, Trouble
<1>4. /\ OpTypes' /\ pc'[Server] = "read" /\ op'[Server] = op[Server]
      /\ \A b \in Actors : b # Server => pc'[b] = pc[b] /\ op'[b] = op[b]
  BY <1>2, Parts, Steps DEF LookupFails, Labels
<1>5. OpsOK'
  BY <1>2, <1>4, Parts DEF OpsOK, OpOK, Applies, Restores, Payload
<1>6. IdsOK'
  BY <1>2, <1>4, Parts, PatchAssumption DEF IdsOK, Applies, Actors
<1>7. AppliesOK'
  <2> SUFFICES ASSUME NEW b \in Actors PROVE ApplyOK(b)'
    BY DEF AppliesOK
  <2>1. CASE b = Server
    BY <1>4, <2>1 DEF ApplyOK, Started
  <2>2. CASE b # Server
    BY <1>4, <2>2, Parts DEF LookupFails, dataVars, fileHistory, AppliesOK,
                             ApplyOK, Applies, Payload, Known, Text
  <2> QED
    BY <2>1, <2>2
<1>8. RestoresOK'
  BY <1>2, <1>4, Parts, OpFields DEF LookupFails, dataVars, fileHistory,
     RestoresOK, RestoreOK, Restores, Applies
<1>9. KeysOK'
  BY <1>2, <1>4, Parts
  DEF LookupFails, dataVars, KeysOK, KeyOK, Under, Applies, Written
<1> QED
  BY <1>1, <1>3, <1>4, <1>5, <1>6, <1>7, <1>8, <1>9, Parts

LEMMA ExpireKeeps ==
    ASSUME IInv, NEW k \in Keys, Expire(k)
    PROVE  IInv'
<1>1. /\ OpTypes' /\ PatchTypes' /\ OpsOK' /\ IdsOK' /\ SessionsOK'
      /\ AppliesOK' /\ RestoresOK' /\ PreviewsOK' /\ FilesOK' /\ EditsKept'
  BY Frames DEF Expire, fileHistory
<1>2. DataTypes'
  BY Parts DEF Expire, DataTypes, fileHistory, Trouble
<1>3. KeysOK'
  BY Parts DEF Expire, DataTypes, KeysOK, KeyOK, Under, Applies
<1>4. CachedOK'
  BY Parts DEF Expire, DataTypes, fileHistory, CachedOK, AnswerOK, Known
<1> QED
  BY <1>1, <1>2, <1>3, <1>4, Parts

LEMMA EditKeeps ==
    ASSUME IInv, NEW p \in Paths, Edit(p)
    PROVE  IInv'
<1>1. /\ OpTypes' /\ PatchTypes' /\ OpsOK' /\ IdsOK' /\ SessionsOK'
      /\ AppliesOK' /\ RestoresOK' /\ PreviewsOK' /\ KeysOK' /\ CachedOK'
  BY Frames DEF Edit, dataVars, keyHistory
<1>2. PICK c \in Contents \cup {None} :
          /\ disk' = [disk EXCEPT ![p] = c]
          /\ edit' = [edit EXCEPT ![p] = Text(c)]
  BY DEF Edit
<1>3. c \in Entry /\ Text(c) \in Texts
  BY TextsAreTexts DEF Entry
<1>4. ByUser \in Writers /\ \A i \in Nat : ByUser # <<"rollback", i>>
  BY PatchAssumption DEF ByUser, Writers
<1>5. DataTypes'
  <2>1. disk' \in Tree /\ edit' \in [Paths -> Texts]
    BY <1>2, <1>3, Parts DEF DataTypes, Tree
  <2> QED
    BY <1>4, <2>1, Parts DEF Edit, DataTypes, dataVars, keyHistory
<1>6. /\ last'[p] = ByUser /\ disk'[p] = c /\ edit'[p] = Text(c)
      /\ \A q \in Paths : q # p => /\ last'[q] = last[q]
                                  /\ disk'[q] = disk[q] /\ edit'[q] = edit[q]
  BY <1>2, Parts DEF Edit, DataTypes, Tree
<1>7. FilesOK'
  <2> SUFFICES ASSUME NEW q \in Paths PROVE FileOK(q)'
    BY DEF FilesOK
  <2>1. CASE q = p
    BY <1>4, <1>6, <2>1 DEF FileOK, TextAt, Text
  <2>2. CASE q # p
    BY <1>6, <2>2, Parts DEF Edit, dataVars, FilesOK, FileOK, TextAt, Text
  <2> QED
    BY <2>1, <2>2
<1>8. EditsKept'
  BY <1>6, Parts DEF Edit, dataVars, EditsKept
<1> QED
  BY <1>1, <1>5, <1>7, <1>8, Parts

LEMMA ReadKeeps ==
    ASSUME IInv, NEW a \in Actors, Read(a)
    PROVE  IInv'
<1> DEFINE x == Payload(a)
           r == [path |-> op[a].path, new |-> op[a].new, before |-> None]
           n == Len(patches) + 1
<1>1. /\ PreviewsOK' /\ pc[a] = "read" /\ op[a].id = 0
      /\ UNCHANGED <<disk, snaps, sessions, baselines, cached, raced, last,
                     edit, lost, torn, viewer, runs, unsure>>
  BY Frames, Parts DEF Read, dataVars, keyHistory, OpTypes
<1>2. /\ op[a] \in Operation /\ op[a].path \in Paths /\ op[a].new \in Texts
      /\ Applies(a) /\ x \in Payloads
  BY <1>1, Parts, OpFields DEF OpsOK, OpOK
<1>3. DataTypes'
  BY Parts DEF Read, DataTypes, dataVars, keyHistory, bounds
<1>4. CASE Conflict(x)
  <2>1. patches' = patches /\ Done(a)
    BY <1>4 DEF Read, Payload
  <2>2. /\ OpTypes' /\ pc'[a] = "idle"
        /\ \A b \in Actors : b # a => pc'[b] = pc[b] /\ op'[b] = op[b]
    BY <2>1, Parts, DoneTypes
  <2>3. /\ PatchTypes' /\ SessionsOK' /\ FilesOK' /\ EditsKept' /\ CachedOK'
    BY <1>1, <2>1, Frames
  <2>4. OpsOK' /\ RestoresOK'
    BY <1>1, <2>1, <2>2, Parts DEF OpsOK, OpOK, RestoresOK, RestoreOK, Applies,
                                   Restores, Payload
  <2>5. IdsOK'
    BY <2>2, Parts DEF IdsOK, Applies, Actors
  <2>6. AppliesOK'
    <3> SUFFICES ASSUME NEW b \in Actors PROVE ApplyOK(b)'
      BY DEF AppliesOK
    <3>1. CASE b = a
      BY <2>2, <3>1 DEF ApplyOK, Applies
    <3>2. CASE b # a
      BY <1>1, <2>1, <2>2, <3>2, Parts, ApplyStays DEF AppliesOK
    <3> QED
      BY <3>1, <3>2
  <2>7. KeysOK'
    BY <1>1, <1>2, <2>2, Parts
    DEF KeysOK, KeyOK, Under, Applies, Written, Actors
  <2> QED
    BY <1>1, <1>3, <2>2, <2>3, <2>4, <2>5, <2>6, <2>7, Parts
<1>5. CASE ~Conflict(x)
  <2>0. PICK o : o = [op[a] EXCEPT !.orig = TextAt(op[a].path), !.id = n]
    OBVIOUS
  <2>1. /\ Len(patches) < MaxPatches /\ patches' = Append(patches, r)
        /\ Goto(a, "snapshot")
        /\ op' = [op EXCEPT ![a].orig = TextAt(op[a].path),
                            ![a].id = Len(patches')]
    BY <1>5 DEF Read, Payload, ApplyOrder
  <2>2. r \in Patch
    BY <1>2 DEF Patch, Entry
  <2>3. /\ PatchTypes' /\ Len(patches) \in Nat /\ Len(patches') = n
        /\ patches'[n] = r
        /\ \A i \in 1..Len(patches) : patches'[i] = patches[i]
    BY <2>1, <2>2, Parts, OneMore
  <2>4. /\ n \in Ids /\ n # 0 /\ snaps[n] = None /\ sessions[n] = "none"
        /\ Len(patches') <= MaxPatches
    BY <2>1, <2>3, Parts, PatchAssumption
    DEF Ids, SessionsOK, SessionOK, DataTypes
  <2>5. TextAt(op[a].path) \in Texts
    BY <1>2, Parts, TextsAreTexts DEF DataTypes, TextAt, Tree
  <2>6. o \in Operation /\ o.id = n /\ o.orig = TextAt(op[a].path)
        /\ o.path = op[a].path /\ o.new = op[a].new /\ o.key = op[a].key
        /\ o.kind = op[a].kind
    <3>1. n \in 0..MaxPatches
      BY <2>4 DEF Ids
    <3>2. \A q \in Operation, t \in Texts, i \in 0..MaxPatches :
              o = [q EXCEPT !.orig = t, !.id = i] =>
                  /\ o \in Operation /\ o.id = i /\ o.orig = t
                  /\ o.path = q.path /\ o.new = q.new /\ o.key = q.key
                  /\ o.kind = q.kind
      BY WithId
    <3>3. op[a] \in Operation /\ TextAt(op[a].path) \in Texts
      BY <1>2, <2>5
    <3> QED
      BY <2>0, <3>1, <3>2, <3>3, Zenon
  <2>7. op' = [op EXCEPT ![a] = o]
    BY <2>0, <2>1, <2>3
  <2>8. OpTypes'
    BY <2>1, <2>4, <2>6, <2>7, Parts, MoveTypes DEF Goto, Labels
  <2>9. /\ pc'[a] = "snapshot" /\ op'[a] = o
        /\ \A b \in Actors : b # a => pc'[b] = pc[b] /\ op'[b] = op[b]
    BY <2>1, <2>7, Parts, Moves DEF Goto
  <2> HIDE DEF n, r
  <2>10. OpsOK'
    BY <1>1, <1>2, <2>6, <2>9, Parts
    DEF OpsOK, OpOK, Applies, Restores, Payload, Started
  <2>11. \A b \in Actors \ {a} : Applies(b) /\ op[b].id # 0 => op[b].id # n
    <3> SUFFICES ASSUME NEW b \in Actors, Applies(b), op[b].id # 0
                 PROVE  op[b].id \in 1..Len(patches)
      BY <2>3 DEF n
    <3> QED
      BY Parts DEF AppliesOK, ApplyOK, OpsOK, OpOK, OpTypes, Applies
  <2>12. IdsOK'
    BY <1>2, <2>4, <2>6, <2>9, <2>11, PatchAssumption DEF IdsOK, Applies, Actors
  <2>13. SessionsOK'
    <3>1. \A i \in Ids : SessionOK(i) => SessionOK(i)'
      BY <1>1, <2>3 DEF SessionOK, Text, n
    <3>2. \A i \in Ids : i > Len(patches') => snaps'[i] = None
      BY <1>1, <2>3, Parts DEF SessionsOK, n, Ids
    <3> QED
      BY <1>1, <2>4, <3>1, <3>2, Parts DEF SessionsOK
  <2>14. AppliesOK'
    <3> SUFFICES ASSUME NEW b \in Actors PROVE ApplyOK(b)'
      BY DEF AppliesOK
    <3>1. CASE b = a
      <4>1. viewer[x] = a => baselines[x] = TextAt(op[a].path)
        <5> SUFFICES ASSUME viewer[x] = a PROVE baselines[x] # None
          BY <1>5 DEF Conflict, Payload
        <5> QED
          BY <1>2, Parts, PatchAssumption DEF PreviewsOK
      <4>2. Payload(a)' = x
        BY <2>6, <2>9 DEF Payload
      <4> QED
        BY <1>1, <2>3, <2>4, <2>6, <2>9, <3>1, <4>1, <4>2
        DEF ApplyOK, Unsaved, Written, Saved, n, r
    <3>2. CASE b # a
      BY <1>1, <2>3, <2>9, <3>2, Parts, ApplyStays DEF AppliesOK, n
    <3> QED
      BY <3>1, <3>2
  <2>15. RestoresOK'
    <3> SUFFICES ASSUME NEW b \in Actors, Restores(b)' PROVE RestoreOK(b)'
      BY DEF RestoresOK, RestoreOK
    <3>1. b # a
      BY <1>2, <2>6, <2>9 DEF Restores, Applies
    <3>2. Restores(b) /\ op[b].id \in 1..Len(patches)
      BY <2>9, <3>1, Parts
      DEF Restores, RestoresOK, RestoreOK, SessionsOK, SessionOK
    <3> QED
      BY <1>1, <2>3, <2>9, <3>1, <3>2, Parts DEF RestoresOK, RestoreOK
  <2>16. FilesOK'
    <3> SUFFICES ASSUME NEW p \in Paths PROVE FileOK(p)'
      BY DEF FilesOK
    <3>1. \A i \in Ids : sessions[i] # "none" => patches'[i] = patches[i]
      BY <2>3, Parts DEF SessionsOK, SessionOK
    <3> QED
      BY <1>1, <3>1, Parts DEF FilesOK, FileOK, TextAt, Text
  <2>17. EditsKept'
    BY <1>1, <2>3, Parts DEF EditsKept, n
  <2>18. KeysOK'
    BY <1>1, <1>2, <2>6, <2>9, Parts
    DEF KeysOK, KeyOK, Under, Applies, Written, Actors
  <2>19. CachedOK'
    BY <1>1, <2>3, Parts DEF CachedOK, AnswerOK, Known, n
  <2> QED
    BY <1>1, <1>3, <2>3, <2>8, <2>10, <2>12, <2>13, <2>14, <2>15, <2>16,
       <2>17, <2>18, <2>19, Parts
<1> QED
  BY <1>4, <1>5

\* What is known of an apply that has its id.
LEMMA ApplyFacts ==
    ASSUME IInv, NEW a \in Actors, pc[a] \in Started,
           pc[a] \in {"snapshot", "unlist", "answer"} \/ op[a].kind = "apply"
    PROVE  /\ op[a] \in Operation /\ op[a].path \in Paths
           /\ op[a].new \in Texts /\ op[a].orig \in Texts
           /\ op[a].key \in Keys \cup {None} /\ op[a].kind = "apply"
           /\ Payload(a) \in Payloads /\ pc[a] # "idle"
           /\ op[a].id # 0 /\ op[a].id \in Ids /\ op[a].id \in 1..Len(patches)
           /\ a = Tool => op[a].key = None
           /\ \A b \in Actors \ {a} : Applies(b) => op[b].id # op[a].id
           /\ \A b \in Actors : Restores(b) => op[b].id # op[a].id
                  \/ sessions[op[a].id] # "none"
<1>1. pc[a] # "idle" /\ Applies(a) /\ ~Restores(a)
  BY Parts, OpFields DEF OpsOK, OpOK, Started, Restores, Applies
<1>2. op[a].id # 0 /\ op[a].id \in 1..Len(patches)
  BY <1>1, Parts DEF AppliesOK, ApplyOK, OpTypes, Started
<1>3. \A b \in Actors \ {a} : Applies(b) => op[b].id # op[a].id
  <2> SUFFICES ASSUME NEW b \in Actors \ {a}, Applies(b)
               PROVE  op[b].id # op[a].id
    OBVIOUS
  <2>1. CASE op[b].id = 0
    BY <1>2, <2>1
  <2>2. CASE op[b].id # 0
    BY <1>1, <1>2, <2>2, Parts DEF IdsOK, Actors
  <2> QED
    BY <2>1, <2>2
<1>4. op[a].id \in Ids
  BY <1>1, <1>2, Parts, OpFields, PatchAssumption DEF Ids
<1>5. Payload(a) \in Payloads /\ (a = Tool => op[a].key = None)
  BY <1>1, Parts DEF OpsOK, OpOK
<1> QED
  BY <1>1, <1>2, <1>3, <1>4, <1>5, Parts, OpFields
  DEF RestoresOK, RestoreOK, Applies

\* A rollback goes on as it was when its session and snapshot stay.
LEMMA RestoreStays ==
    ASSUME NEW b \in Actors, RestoreOK(b), pc'[b] = pc[b], op'[b] = op[b],
           Restores(b) /\ op[b].id \in Ids /\ sessions[op[b].id] # "none" =>
              /\ sessions'[op[b].id] # "none"
              /\ snaps'[op[b].id] = snaps[op[b].id]
              /\ patches'[op[b].id].path = patches[op[b].id].path
    PROVE  RestoreOK(b)'
BY DEF RestoreOK, Restores

\* A key stays as it was when its request does.
LEMMA KeysStay ==
    ASSUME KeysOK, UNCHANGED <<cached, runs>>, unsure \subseteq unsure',
           \A k \in Keys \ unsure' :
              /\ Under(k)' <=> Under(k)
              /\ Under(k) =>
                    (pc'[Server] \in Written <=> pc[Server] \in Written)
    PROVE  KeysOK'
BY DEF KeysOK, KeyOK

LEMMA TakeSnapshotKeeps ==
    ASSUME IInv, NEW a \in Actors, TakeSnapshot(a)
    PROVE  IInv'
<1> DEFINE i == op[a].id
<1>1. /\ PatchTypes' /\ PreviewsOK' /\ FilesOK' /\ CachedOK'
      /\ UNCHANGED <<disk, sessions, baselines, cached, patches, raced, last,
                     edit, lost, torn, viewer, runs, unsure>>
      /\ pc[a] = "snapshot" /\ snaps' = [snaps EXCEPT ![i] = op[a].orig]
  BY Frames DEF TakeSnapshot, fileHistory, keyHistory, SnapshotText
<1>2. /\ op[a].orig \in Texts /\ op[a].kind = "apply"
      /\ i \in Ids /\ i \in 1..Len(patches) /\ i # 0
      /\ \A b \in Actors \ {a} : Applies(b) => op[b].id # i
  BY <1>1, ApplyFacts DEF Started
<1>3. /\ Goto(a, "write") /\ op' = op
  BY <1>1, Advances DEF TakeSnapshot
<1>4. /\ OpTypes' /\ pc'[a] = "write" /\ op'[a] = op[a]
      /\ \A b \in Actors : b # a => pc'[b] = pc[b] /\ op'[b] = op[b]
  BY <1>1, <1>2, <1>3, Parts, Steps DEF Labels
<1>5. ApplyOK(a) /\ Applies(a) /\ sessions[i] = "none" /\ snaps[i] = None
  BY <1>1, <1>2, Parts DEF AppliesOK, ApplyOK, Applies, Started, Unsaved
<1>6. /\ snaps'[i] = op[a].orig /\ snaps' \in [Ids -> Texts \cup {None}]
      /\ \A j \in Ids : j # i => snaps'[j] = snaps[j]
  BY <1>1, <1>2, Parts DEF DataTypes
<1>7. DataTypes'
  BY <1>6, Parts DEF TakeSnapshot, DataTypes, fileHistory, keyHistory, bounds
<1>8. OpsOK' /\ IdsOK'
  BY <1>1, <1>2, <1>3, <1>4, Parts
  DEF OpsOK, OpOK, IdsOK, Applies, Restores, Payload, Started, Actors
<1>9. SessionsOK'
  BY <1>1, <1>2, <1>5, <1>6, Parts DEF SessionsOK, SessionOK
<1>10. AppliesOK'
  <2> SUFFICES ASSUME NEW b \in Actors PROVE ApplyOK(b)'
    BY DEF AppliesOK
  <2>1. CASE b = a
    BY <1>1, <1>4, <1>5, <1>6, <2>1
    DEF ApplyOK, Applies, Payload, Started, Unsaved, Written, Saved
  <2>2. CASE b # a
    <3>1. CASE Applies(b)
      <4>1. op[b].id # i
        BY <1>2, <2>2, <3>1
      <4>2. op[b].id \in 1..Len(patches) => op[b].id \in Ids
        BY <3>1, Parts, OpFields, PatchAssumption DEF Ids, Applies
      <4> QED
        BY <1>1, <1>4, <1>6, <2>2, <4>1, <4>2, Parts, ApplyStays DEF AppliesOK
    <3>2. CASE ~Applies(b)
      BY <1>4, <2>2, <3>2 DEF ApplyOK, Applies
    <3> QED
      BY <3>1, <3>2
  <2> QED
    BY <2>1, <2>2
<1>11. RestoresOK'
  <2> SUFFICES ASSUME NEW b \in Actors PROVE RestoreOK(b)'
    BY DEF RestoresOK
  <2>1. CASE b = a
    BY <1>2, <1>4, <2>1 DEF RestoreOK, Restores
  <2>2. CASE b # a
    BY <1>1, <1>4, <1>5, <1>6, <2>2, Parts, RestoreStays DEF RestoresOK
  <2> QED
    BY <2>1, <2>2
<1>12. EditsKept'
  <2> SUFFICES ASSUME NEW p \in Paths, NEW j \in 1..Len(patches),
                      patches[j].path = p, snaps[j] = edit[p]
               PROVE  snaps'[j] = edit[p]
    BY <1>1, Parts DEF EditsKept
  <2>1. edit[p] # None
    BY Parts, TextsAreTexts DEF DataTypes
  <2>2. j \in Ids
    BY Parts, PatchAssumption DEF SessionsOK, Ids, PatchTypes
  <2> QED
    BY <1>5, <1>6, <2>1, <2>2
<1>13. KeysOK'
  BY <1>1, <1>3, <1>4, Parts, KeysStay DEF Under, Applies, Written, Actors
<1> QED
  BY <1>1, <1>4, <1>7, <1>8, <1>9, <1>10, <1>11, <1>12, <1>13, Parts

LEMMA SaveSessionKeeps ==
    ASSUME IInv, NEW a \in Actors, SaveSession(a)
    PROVE  IInv'
<1> DEFINE i == op[a].id
<1>1. /\ PatchTypes' /\ PreviewsOK' /\ EditsKept'
      /\ UNCHANGED <<disk, snaps, baselines, cached, patches, raced, last,
                     edit, lost, torn, viewer, runs, unsure>>
      /\ pc[a] = "save" /\ op[a].kind = "apply"
      /\ sessions' = [sessions EXCEPT ![i] = "applied"]
  BY Frames DEF SaveSession, fileHistory, keyHistory
<1>2. /\ op[a].orig \in Texts
      /\ i \in Ids /\ i \in 1..Len(patches) /\ i # 0
      /\ \A b \in Actors \ {a} : Applies(b) => op[b].id # i
  BY <1>1, ApplyFacts DEF Started
<1>3. /\ Goto(a, "unlist") /\ op' = op
  BY <1>1, Advances DEF SaveSession
<1>4. /\ OpTypes' /\ pc'[a] = "unlist" /\ op'[a] = op[a]
      /\ \A b \in Actors : b # a => pc'[b] = pc[b] /\ op'[b] = op[b]
  BY <1>1, <1>2, <1>3, Parts, Steps DEF Labels
<1>5. ApplyOK(a) /\ Applies(a) /\ sessions[i] = "none"
  BY <1>1, <1>2, Parts DEF AppliesOK, ApplyOK, Applies, Started, Unsaved
<1>6. /\ sessions'[i] = "applied"
      /\ sessions' \in [Ids -> {"none", "torn", "applied", "rolled_back"}]
      /\ \A j \in Ids : j # i => sessions'[j] = sessions[j]
  BY <1>1, <1>2, Parts DEF DataTypes
<1>7. DataTypes'
  BY <1>6, Parts DEF SaveSession, DataTypes, fileHistory, keyHistory, bounds
<1>8. OpsOK' /\ IdsOK'
  BY <1>1, <1>2, <1>3, <1>4, Parts
  DEF OpsOK, OpOK, IdsOK, Applies, Restores, Payload, Started, Actors
<1>9. SessionsOK'
  <2>1. SessionOK(i)'
    <3>1. snaps[i] = op[a].orig /\ (i \in raced \/
              op[a].orig = Text(patches[i].before))
      BY <1>1, <1>5 DEF ApplyOK, Started, Written
    <3> QED
      BY <1>1, <1>2, <1>3, <3>1, TextsAreTexts DEF SessionOK, Text
  <2>2. ASSUME NEW j \in Ids, sessions'[j] # "none"
        PROVE  SessionOK(j)'
    <3>1. CASE j = i
      BY <1>3, <2>1, <3>1
    <3>2. CASE j # i
      BY <1>1, <1>6, <2>2, <3>2, Parts DEF SessionsOK, SessionOK, Text
    <3> QED
      BY <3>1, <3>2
  <2>3. \A j \in torn' : sessions'[j] # "none"
    BY <1>1, <1>6, Parts DEF DataTypes, SessionsOK
  <2> QED
    BY <1>1, <2>2, <2>3, Parts DEF SessionsOK
<1>10. AppliesOK'
  <2> SUFFICES ASSUME NEW b \in Actors PROVE ApplyOK(b)'
    BY DEF AppliesOK
  <2>1. CASE b = a
    BY <1>1, <1>4, <1>5, <1>6, <2>1
    DEF ApplyOK, Applies, Started, Unsaved, Written, Saved, Known
  <2>2. CASE b # a
    <3>1. CASE Applies(b)
      <4>1. op[b].id # i
        BY <1>2, <2>2, <3>1
      <4>2. op[b].id \in 1..Len(patches) => op[b].id \in Ids
        BY <3>1, Parts, OpFields, PatchAssumption DEF Ids, Applies
      <4> QED
        BY <1>1, <1>4, <1>6, <2>2, <4>1, <4>2, Parts, ApplyStays DEF AppliesOK
    <3>2. CASE ~Applies(b)
      BY <1>4, <2>2, <3>2 DEF ApplyOK, Applies
    <3> QED
      BY <3>1, <3>2
  <2> QED
    BY <2>1, <2>2
<1>11. RestoresOK'
  <2> SUFFICES ASSUME NEW b \in Actors PROVE RestoreOK(b)'
    BY DEF RestoresOK
  <2>1. CASE b = a
    BY <1>1, <1>4, <2>1 DEF RestoreOK, Restores
  <2>2. CASE b # a
    BY <1>1, <1>4, <1>5, <1>6, <2>2, Parts, RestoreStays DEF RestoresOK
  <2> QED
    BY <2>1, <2>2
<1>12. FilesOK'
  <2> SUFFICES ASSUME NEW p \in Paths PROVE FileOK(p)'
    BY DEF FilesOK
  <2>1. \A j \in Ids : sessions[j] # "none" => sessions'[j] # "none"
    BY <1>6
  <2> QED
    BY <1>1, <2>1, Parts DEF FilesOK, FileOK, TextAt
<1>13. KeysOK'
  BY <1>1, <1>3, <1>4, Parts, KeysStay DEF Under, Applies, Written, Actors
<1>14. CachedOK'
  <2> SUFFICES ASSUME NEW k \in Keys PROVE AnswerOK(k)'
    BY DEF CachedOK
  <2>1. cached[k] # None => cached[k].id \in Ids
    BY Parts DEF DataTypes, Answer
  <2> QED
    BY <1>1, <1>6, <2>1, Parts DEF CachedOK, AnswerOK, Known
<1> QED
  BY <1>1, <1>4, <1>7, <1>8, <1>9, <1>10, <1>11, <1>12, <1>13, <1>14, Parts

LEMMA DropBaselineKeeps ==
    ASSUME IInv, NEW a \in Actors, DropBaseline(a)
    PROVE  IInv'
<1>1. /\ PatchTypes' /\ SessionsOK' /\ FilesOK' /\ EditsKept' /\ CachedOK'
      /\ UNCHANGED <<disk, snaps, sessions, cached, patches, raced, last,
                     edit, lost, torn, runs, unsure>>
      /\ pc[a] = "unlist"
      /\ baselines' = [baselines EXCEPT ![Payload(a)] = None]
      /\ viewer' = [viewer EXCEPT ![Payload(a)] = None]
  BY Frames DEF DropBaseline, fileHistory, keyHistory, Payload
<1>2. /\ Payload(a) \in Payloads /\ op[a].kind = "apply" /\ op[a].id # 0
  BY <1>1, ApplyFacts DEF Started
<1>3. Goto(a, "answer") /\ op' = op
  BY <1>1, Advances DEF DropBaseline
<1>4. /\ OpTypes' /\ pc'[a] = "answer" /\ op'[a] = op[a]
      /\ \A b \in Actors : b # a => pc'[b] = pc[b] /\ op'[b] = op[b]
  BY <1>1, <1>2, <1>3, Parts, Steps DEF Labels
<1>5. DataTypes'
  BY <1>2, Parts DEF DropBaseline, DataTypes, fileHistory, keyHistory, bounds,
                     Payload
<1>6. OpsOK' /\ IdsOK'
  BY <1>1, <1>2, <1>3, <1>4, Parts
  DEF OpsOK, OpOK, IdsOK, Applies, Restores, Payload, Started, Actors
<1>7. AppliesOK'
  <2> SUFFICES ASSUME NEW b \in Actors PROVE ApplyOK(b)'
    BY DEF AppliesOK
  <2>1. CASE b = a
    BY <1>1, <1>2, <1>4, <2>1, Parts
    DEF AppliesOK, ApplyOK, Applies, Started, Unsaved, Written, Saved, Known
  <2>2. CASE b # a
    <3>1. b # None
      BY PatchAssumption
    <3>2. viewer'[Payload(b)] = b =>
              /\ viewer[Payload(b)] = b
              /\ baselines'[Payload(b)] = baselines[Payload(b)]
      BY <1>1, <3>1, Parts DEF DataTypes
    <3> QED
      BY <1>1, <1>4, <2>2, <3>2, Parts, ApplyStays DEF AppliesOK
  <2> QED
    BY <2>1, <2>2
<1>8. RestoresOK'
  <2> SUFFICES ASSUME NEW b \in Actors PROVE RestoreOK(b)'
    BY DEF RestoresOK
  <2>1. CASE b = a
    BY <1>2, <1>4, <2>1 DEF RestoreOK, Restores
  <2>2. CASE b # a
    BY <1>1, <1>4, <2>2, Parts, RestoreStays DEF RestoresOK
  <2> QED
    BY <2>1, <2>2
<1>9. PreviewsOK'
  BY <1>1, Parts DEF PreviewsOK, DataTypes
<1>10. KeysOK'
  BY <1>1, <1>3, <1>4, Parts, KeysStay DEF Under, Applies, Written, Actors
<1> QED
  BY <1>1, <1>4, <1>5, <1>6, <1>7, <1>8, <1>9, <1>10, Parts

\* What holds of the operations when the one of a ends and the rest stays.
LEMMA OneLess ==
    ASSUME IInv, NEW a \in Actors, Done(a)
    PROVE  /\ OpTypes' /\ OpsOK' /\ IdsOK' /\ pc'[a] = "idle"
           /\ \A b \in Actors : b # a => pc'[b] = pc[b] /\ op'[b] = op[b]
           /\ ApplyOK(a)' /\ RestoreOK(a)'
<1>1. /\ OpTypes' /\ pc'[a] = "idle"
      /\ \A b \in Actors : b # a => pc'[b] = pc[b] /\ op'[b] = op[b]
  BY Parts, DoneTypes
<1>2. ApplyOK(a)' /\ RestoreOK(a)' /\ OpOK(a)'
  BY <1>1 DEF ApplyOK, RestoreOK, OpOK, Applies, Restores
<1>3. OpsOK'
  BY <1>1, <1>2, Parts DEF OpsOK, OpOK, Applies, Restores, Payload
<1>4. IdsOK'
  BY <1>1, Parts DEF IdsOK, Applies, Actors
<1> QED
  BY <1>1, <1>2, <1>3, <1>4

LEMMA AnswerApplyKeeps ==
    ASSUME IInv, NEW a \in Actors, AnswerApply(a)
    PROVE  IInv'
<1> DEFINE r == [payload |-> <<op[a].path, op[a].new>>, id |-> op[a].id]
<1>1. /\ PatchTypes' /\ SessionsOK' /\ PreviewsOK' /\ FilesOK' /\ EditsKept'
      /\ UNCHANGED <<disk, snaps, sessions, baselines, patches, raced, last,
                     edit, lost, torn, viewer, runs, unsure>>
      /\ pc[a] = "answer"
      /\ cached' = IF op[a].key # None THEN [cached EXCEPT ![op[a].key] = r]
                                       ELSE cached
  BY Frames DEF AnswerApply, fileHistory, keyHistory, Kept
<1>2. /\ Payload(a) \in Payloads /\ op[a].kind = "apply"
      /\ op[a].id \in Ids /\ op[a].id \in 1..Len(patches)
      /\ op[a].key \in Keys \cup {None} /\ (a = Tool => op[a].key = None)
  BY <1>1, ApplyFacts DEF Started
<1>3. Done(a)
  BY <1>1, Advances DEF AnswerApply
<1>4. /\ OpTypes' /\ OpsOK' /\ IdsOK' /\ pc'[a] = "idle"
      /\ \A b \in Actors : b # a => pc'[b] = pc[b] /\ op'[b] = op[b]
      /\ ApplyOK(a)' /\ RestoreOK(a)'
  BY <1>3, OneLess
<1>5. r \in Answer /\ r # None
  BY <1>2, PatchAssumption DEF Answer, Payload
<1>6. DataTypes'
  BY <1>1, <1>2, <1>5, Parts DEF AnswerApply, DataTypes, bounds
<1>7. AppliesOK' /\ RestoresOK'
  <2> SUFFICES ASSUME NEW b \in Actors PROVE ApplyOK(b)' /\ RestoreOK(b)'
    BY DEF AppliesOK, RestoresOK
  <2>1. CASE b = a
    BY <1>4, <2>1
  <2>2. CASE b # a
    BY <1>1, <1>4, <2>2, Parts, ApplyStays, RestoreStays
    DEF AppliesOK, RestoresOK
  <2> QED
    BY <2>1, <2>2
<1>8. ApplyOK(a) /\ Applies(a)
  BY <1>1, <1>2, Parts DEF AppliesOK, Applies
<1>9. KeysOK'
  <2> SUFFICES ASSUME NEW k \in Keys \ unsure PROVE KeyOK(k)'
    BY <1>1 DEF KeysOK
  <2>1. KeyOK(k)
    BY Parts DEF KeysOK
  <2>2. CASE a = Server /\ op[a].key = k
    <3>1. Under(k) /\ pc[Server] \in Written /\ k # None
      BY <1>1, <1>8, <2>2 DEF Under, Written, Keys
    <3>2. ~Under(k)' /\ cached'[k] # None
      BY <1>1, <1>4, <1>5, <2>2, <3>1, Parts
      DEF Under, Applies, DataTypes
    <3> QED
      BY <1>1, <2>1, <3>1, <3>2 DEF KeyOK
  <2>3. CASE ~(a = Server /\ op[a].key = k)
    <3>1. op[a].key # k
      BY <1>2, <2>3 DEF Actors, Keys
    <3>2. cached'[k] = cached[k]
      BY <1>1, <1>2, <3>1, Parts DEF DataTypes
    <3>3. /\ Under(k)' <=> Under(k)
          /\ Under(k) => pc'[Server] = pc[Server]
      BY <1>4, <2>3 DEF Under, Applies, Actors
    <3> QED
      BY <1>1, <2>1, <3>2, <3>3 DEF KeyOK
  <2> QED
    BY <2>2, <2>3
<1>10. CachedOK'
  <2> SUFFICES ASSUME NEW k \in Keys PROVE AnswerOK(k)'
    BY DEF CachedOK
  <2>1. CASE cached'[k] = cached[k]
    BY <1>1, <2>1, Parts DEF CachedOK, AnswerOK, Known
  <2>2. CASE cached'[k] # cached[k]
    <3>1. cached'[k] = r
      BY <1>1, <2>2, Parts DEF DataTypes
    <3>2. /\ patches[op[a].id].path = op[a].path
          /\ patches[op[a].id].new = op[a].new /\ Known(op[a].id)
      BY <1>1, <1>8 DEF ApplyOK, Started, Saved
    <3> QED
      BY <1>1, <1>2, <3>1, <3>2 DEF AnswerOK, Known
  <2> QED
    BY <2>1, <2>2
<1> QED
  BY <1>1, <1>4, <1>6, <1>7, <1>9, <1>10, Parts

LEMMA WriteFileKeeps ==
    ASSUME IInv, NEW a \in Actors, WriteFile(a)
    PROVE  IInv'
<1>0. PICK i, p : i = op[a].id /\ p = op[a].path
  OBVIOUS
<1>1. /\ PreviewsOK' /\ pc[a] = "write" /\ op[a].kind = "apply"
      /\ UNCHANGED <<snaps, sessions, baselines, cached, edit, torn, viewer,
                     unsure>>
  BY Frames DEF WriteFile, dataVars
<1>2. /\ op[a].new \in Texts /\ op[a].orig \in Texts /\ p \in Paths
      /\ i \in Ids /\ i \in 1..Len(patches) /\ i # 0
      /\ op[a].key \in Keys \cup {None} /\ (a = Tool => op[a].key = None)
      /\ \A b \in Actors \ {a} : Applies(b) => op[b].id # i
  BY <1>0, <1>1, ApplyFacts DEF Started
<1>3. /\ disk' = [disk EXCEPT ![p] = op[a].new]
      /\ patches' = [patches EXCEPT ![i].before = disk[p]]
      /\ raced' = IF TextAt(p) # op[a].orig THEN raced \cup {i} ELSE raced
      /\ lost' = IF last[p] = ByUser /\ TextAt(p) # op[a].orig
                 THEN lost \cup {p} ELSE lost
      /\ last' = [last EXCEPT ![p] = <<"apply", i>>]
      /\ runs' = [k \in Keys |-> IF k = op[a].key THEN runs[k] + 1
                                                 ELSE runs[k]]
  BY <1>0, <1>1 DEF WriteFile, Overwrite, LastWriter
<1>4. Goto(a, "save") /\ op' = op
  BY <1>1, Advances DEF WriteFile
<1>5. /\ OpTypes' /\ pc'[a] = "save" /\ op'[a] = op[a]
      /\ \A b \in Actors : b # a => pc'[b] = pc[b] /\ op'[b] = op[b]
  BY <1>0, <1>1, <1>2, <1>4, Parts, Steps DEF Labels
<1>6. /\ ApplyOK(a) /\ Applies(a) /\ sessions[i] = "none"
      /\ snaps[i] = op[a].orig /\ patches[i].path = p
      /\ patches[i].new = op[a].new
  BY <1>0, <1>1, <1>2, Parts DEF AppliesOK, ApplyOK, Applies, Started, Unsaved
<1>7. disk[p] \in Entry /\ disk \in [Paths -> Entry]
  BY <1>2, Parts DEF DataTypes, Tree
<1>8. /\ PatchTypes' /\ Len(patches') = Len(patches)
      /\ patches'[i].before = disk[p]
      /\ \A j \in 1..Len(patches) :
            /\ patches'[j].path = patches[j].path
            /\ patches'[j].new = patches[j].new
            /\ j # i => patches'[j] = patches[j]
  BY <1>2, <1>3, <1>7, Parts, Overwritten
<1>9. /\ disk'[p] = op[a].new /\ last'[p] = <<"apply", i>>
      /\ \A q \in Paths : q # p => disk'[q] = disk[q] /\ last'[q] = last[q]
      /\ raced \subseteq raced' /\ lost \subseteq lost'
  BY <1>2, <1>3, <1>7, Parts DEF DataTypes
<1>10. DataTypes'
  <2>1. disk' \in Tree
    BY <1>2, <1>3, <1>7, TextsAreTexts DEF Tree
  <2>2. last' \in [Paths -> Writers]
    BY <1>2, <1>3, Parts DEF DataTypes, Writers, Ids
  <2>3. raced' \subseteq Ids /\ lost' \subseteq Paths
    BY <1>2, <1>3, Parts DEF DataTypes
  <2>4. runs' \in [Keys -> Nat]
    BY <1>3, Parts DEF DataTypes
  <2> QED
    BY <1>1, <2>1, <2>2, <2>3, <2>4, Parts DEF WriteFile, DataTypes, bounds
<1>11. OpsOK' /\ IdsOK'
  BY <1>0, <1>1, <1>2, <1>4, <1>5, Parts
  DEF OpsOK, OpOK, IdsOK, Applies, Restores, Payload, Started, Actors
<1>12. SessionsOK'
  <2>1. ASSUME NEW j \in Ids, sessions'[j] # "none"
        PROVE  SessionOK(j)'
    BY <1>1, <1>6, <1>8, <1>9, <2>1, Parts DEF SessionsOK, SessionOK, Text
  <2> QED
    BY <1>1, <1>8, <2>1, Parts DEF SessionsOK
<1>13. AppliesOK'
  <2> SUFFICES ASSUME NEW b \in Actors PROVE ApplyOK(b)'
    BY DEF AppliesOK
  <2>1. CASE b = a
    <3>1. i \in raced' \/ op[a].orig = Text(patches'[i].before)
      BY <1>3, <1>8 DEF TextAt
    <3> QED
      BY <1>0, <1>1, <1>2, <1>5, <1>6, <1>8, <2>1, <3>1
      DEF ApplyOK, Applies, Started, Unsaved, Written, Saved, Text
  <2>2. CASE b # a
    <3>1. CASE Applies(b)
      <4>1. op[b].id # i
        BY <1>2, <2>2, <3>1
      <4> QED
        BY <1>1, <1>5, <1>8, <1>9, <2>2, <4>1, Parts, ApplyStays DEF AppliesOK
    <3>2. CASE ~Applies(b)
      BY <1>5, <2>2, <3>2 DEF ApplyOK, Applies
    <3> QED
      BY <3>1, <3>2
  <2> QED
    BY <2>1, <2>2
<1>14. RestoresOK'
  <2> SUFFICES ASSUME NEW b \in Actors PROVE RestoreOK(b)'
    BY DEF RestoresOK
  <2>1. CASE b = a
    BY <1>1, <1>5, <2>1 DEF RestoreOK, Restores
  <2>2. CASE b # a
    <3>1. op[b].id \in Ids /\ sessions[op[b].id] # "none" =>
              op[b].id \in 1..Len(patches)
      BY Parts DEF SessionsOK, SessionOK
    <3> QED
      BY <1>1, <1>5, <1>8, <2>2, <3>1, Parts, RestoreStays DEF RestoresOK
  <2> QED
    BY <2>1, <2>2
<1>15. FilesOK'
  <2> SUFFICES ASSUME NEW q \in Paths PROVE FileOK(q)'
    BY DEF FilesOK
  <2>1. CASE q = p
    BY <1>9, <2>1 DEF FileOK, ByUser
  <2>2. CASE q # p
    <3>1. \A j \in Ids : sessions[j] # "none" => patches'[j] = patches[j]
      BY <1>6, <1>8, Parts DEF SessionsOK, SessionOK
    <3> QED
      BY <1>1, <1>9, <2>2, <3>1, Parts DEF FilesOK, FileOK, TextAt, Text
  <2> QED
    BY <2>1, <2>2
<1>16. EditsKept'
  <2> SUFFICES ASSUME NEW q \in Paths
               PROVE  \/ last'[q] = ByUser \/ q \in lost'
                      \/ \E j \in 1..Len(patches) :
                            patches[j].path = q /\ snaps[j] = edit[q]
    BY <1>1, <1>8 DEF EditsKept
  <2>1. CASE q = p /\ last[p] = ByUser
    <3>1. TextAt(p) = edit[p]
      BY <1>2, <2>1, Parts DEF FilesOK, FileOK
    <3>2. CASE TextAt(p) # op[a].orig
      BY <1>3, <2>1, <3>2
    <3>3. CASE TextAt(p) = op[a].orig
      BY <1>2, <1>6, <2>1, <3>1, <3>3
    <3> QED
      BY <3>2, <3>3
  <2>2. CASE ~(q = p /\ last[p] = ByUser)
    BY <1>9, <2>2, Parts DEF EditsKept
  <2> QED
    BY <2>1, <2>2
<1>17. KeysOK'
  <2> SUFFICES ASSUME NEW k \in Keys \ unsure PROVE KeyOK(k)'
    BY <1>1 DEF KeysOK
  <2>1. KeyOK(k)
    BY Parts DEF KeysOK
  <2>2. CASE a = Server /\ op[a].key = k
    <3>1. Under(k) /\ pc[Server] \notin Written
      BY <1>1, <1>6, <2>2 DEF Under, Written
    <3>2. Under(k)' /\ pc'[Server] \in Written /\ runs'[k] = runs[k] + 1
      BY <1>1, <1>3, <1>5, <2>2 DEF Under, Applies, Written
    <3> QED
      BY <1>1, <2>1, <3>1, <3>2 DEF KeyOK
  <2>3. CASE ~(a = Server /\ op[a].key = k)
    <3>1. op[a].key # k
      BY <1>2, <2>3 DEF Actors, Keys
    <3>2. runs'[k] = runs[k]
      BY <1>3, <3>1
    <3>3. /\ Under(k)' <=> Under(k)
          /\ Under(k) => pc'[Server] = pc[Server]
      BY <1>1, <1>5, <2>3 DEF Under, Applies, Actors
    <3> QED
      BY <1>1, <2>1, <3>2, <3>3 DEF KeyOK
  <2> QED
    BY <2>2, <2>3
<1>18. CachedOK'
  BY <1>1, <1>8, Parts DEF CachedOK, AnswerOK, Known
<1> QED
  BY <1>1, <1>5, <1>8, <1>10, <1>11, <1>12, <1>13, <1>14, <1>15, <1>16,
     <1>17, <1>18, Parts

\* Steps of a rollback leave the applies and keys alone.
LEMMA KeysApart ==
    ASSUME IInv, NEW a \in Actors, ~Applies(a), ~Applies(a)',
           \A b \in Actors : b # a => pc'[b] = pc[b] /\ op'[b] = op[b],
           UNCHANGED <<cached, runs, unsure>>
    PROVE  KeysOK'
<1>1. \A k \in Keys : /\ Under(k)' <=> Under(k)
                      /\ Under(k) => pc'[Server] = pc[Server]
  BY DEF Under, Applies, Actors
<1> QED
  BY <1>1, Parts, KeysStay

LEMMA AskRollbackKeeps ==
    ASSUME IInv, NEW a \in Actors, NEW i \in Ids, AskRollback(a, i)
    PROVE  IInv'
<1>1. /\ PatchTypes' /\ SessionsOK' /\ PreviewsOK' /\ FilesOK' /\ EditsKept'
      /\ CachedOK'
      /\ UNCHANGED <<disk, snaps, sessions, baselines, cached, patches, raced,
                     last, edit, lost, torn, viewer, runs, unsure>>
      /\ pc[a] = "idle" /\ sessions[i] = "applied" /\ snaps[i] # None
  BY Frames DEF AskRollback, dataVars, fileHistory, keyHistory
<1>2. DataTypes'
  BY Parts DEF AskRollback, DataTypes, dataVars, fileHistory, keyHistory, bounds
<1>3. i \in 1..Len(patches) /\ snaps[i] \in Texts /\ patches[i].path \in Paths
  <2>1. SessionOK(i)
    BY <1>1, Parts DEF SessionsOK
  <2>2. patches[i] \in Patch
    BY <2>1, Parts DEF SessionOK, PatchTypes
  <2> QED
    BY <1>1, <2>1, <2>2, Parts DEF SessionOK, DataTypes, Patch
<1>4. PICK o : o = [kind |-> "rollback", path |-> patches[i].path,
                    new |-> snaps[i], key |-> None, orig |-> snaps[i],
                    id |-> i]
  OBVIOUS
<1>5. /\ o \in Operation /\ o.id = i /\ i # 0 /\ o.kind = "rollback"
      /\ o.new = snaps[i] /\ o.path = patches[i].path /\ o.key = None
  BY <1>3, <1>4, PatchAssumption DEF Operation, Ids
<1>6. pc' = [pc EXCEPT ![a] = "write"] /\ op' = [op EXCEPT ![a] = o]
  BY <1>4 DEF AskRollback, Goto
<1>7. OpTypes'
  BY <1>5, <1>6, Parts, MoveTypes DEF Labels
<1>8. /\ pc'[a] = "write" /\ op'[a] = o
      /\ \A b \in Actors : b # a => pc'[b] = pc[b] /\ op'[b] = op[b]
  BY <1>6, Parts, Moves
<1>9. ~Applies(a) /\ ~Applies(a)' /\ KeysOK'
  BY <1>1, <1>5, <1>8, KeysApart DEF Applies
<1>10. OpsOK'
  <2>1. OpOK(a)'
    BY <1>5, <1>8 DEF OpOK, Applies, Restores
  <2> QED
    BY <1>8, <2>1, Parts DEF OpsOK, OpOK, Applies, Restores, Payload
<1>11. IdsOK'
  BY <1>8, <1>9, Parts DEF IdsOK, Applies, Actors
<1>12. AppliesOK'
  <2> SUFFICES ASSUME NEW b \in Actors PROVE ApplyOK(b)'
    BY DEF AppliesOK
  <2>1. CASE b = a
    BY <1>9, <2>1 DEF ApplyOK
  <2>2. CASE b # a
    BY <1>1, <1>8, <2>2, Parts, ApplyStays DEF AppliesOK
  <2> QED
    BY <2>1, <2>2
<1>13. RestoresOK'
  <2> SUFFICES ASSUME NEW b \in Actors PROVE RestoreOK(b)'
    BY DEF RestoresOK
  <2>1. CASE b = a
    BY <1>1, <1>5, <1>8, <2>1 DEF RestoreOK
  <2>2. CASE b # a
    BY <1>1, <1>8, <2>2, Parts, RestoreStays DEF RestoresOK
  <2> QED
    BY <2>1, <2>2
<1> QED
  BY <1>1, <1>2, <1>7, <1>9, <1>10, <1>11, <1>12, <1>13, Parts

\* What is known of a rollback under way.
LEMMA RollbackFacts ==
    ASSUME IInv, NEW a \in Actors,
           \/ pc[a] \in {"stat", "unlink"}
           \/ pc[a] \in {"write", "save"} /\ op[a].kind = "rollback"
    PROVE  /\ Restores(a) /\ ~Applies(a) /\ pc[a] # "idle" /\ OpOK(a)
           /\ op[a].path \in Paths /\ op[a].new \in Texts
           /\ op[a].orig \in Texts /\ op[a].key = None
           /\ op[a].id \in Ids /\ op[a].id # 0 /\ op[a].id \in 1..Len(patches)
           /\ sessions[op[a].id] # "none" /\ snaps[op[a].id] = op[a].new
           /\ patches[op[a].id].path = op[a].path
           /\ op[a].id \in raced
                  \/ op[a].new = Text(patches[op[a].id].before)
<1>1. Restores(a) /\ ~Applies(a) /\ pc[a] # "idle" /\ OpOK(a)
  BY Parts, OpFields DEF OpsOK, OpOK, Started, Restores, Applies
<1>2. /\ op[a].id \in Ids /\ sessions[op[a].id] # "none"
      /\ snaps[op[a].id] = op[a].new /\ patches[op[a].id].path = op[a].path
  BY <1>1, Parts DEF RestoresOK, RestoreOK
<1>3. SessionOK(op[a].id)
  BY <1>2, Parts DEF SessionsOK
<1> QED
  BY <1>1, <1>2, <1>3, Parts, OpFields DEF OpOK, SessionOK, Ids

\* A rollback of a goes on, or is done, and the applies stay as they are.
LEMMA RollbackSteps ==
    ASSUME IInv, NEW a \in Actors, Restores(a), ~Applies(a),
           \/ Goto(a, "save") /\ op' = op
           \/ Goto(a, "stat") /\ op' = op /\ a = Tool /\ op[a].new = Empty
           \/ Done(a)
    PROVE  /\ OpTypes' /\ OpsOK' /\ IdsOK' /\ ~Applies(a)'
           /\ Restores(a)' => op'[a] = op[a]
           /\ \A b \in Actors : b # a => pc'[b] = pc[b] /\ op'[b] = op[b]
<1>1. CASE Done(a)
  <2>1. pc'[a] = "idle"
    BY <1>1, OneLess
  <2> QED
    BY <1>1, <2>1, OneLess DEF Applies, Restores
<1>2. ASSUME NEW label \in {"save", "stat"}, Goto(a, label), op' = op,
             label = "stat" => a = Tool /\ op[a].new = Empty
      PROVE  /\ OpTypes' /\ OpsOK' /\ IdsOK' /\ ~Applies(a)'
             /\ op'[a] = op[a]
             /\ \A b \in Actors : b # a => pc'[b] = pc[b] /\ op'[b] = op[b]
  <2>1. OpOK(a) /\ op[a].id # 0 /\ pc[a] # "idle" /\ op[a].kind # "apply"
    BY Parts, OpFields DEF OpsOK, OpOK, OpTypes, Restores, Applies
  <2>2. /\ OpTypes' /\ pc'[a] = label /\ op'[a] = op[a]
        /\ \A b \in Actors : b # a => pc'[b] = pc[b] /\ op'[b] = op[b]
    BY <1>2, <2>1, Parts, Steps DEF Labels
  <2>3. ~Applies(a)' /\ OpOK(a)'
    BY <1>2, <2>1, <2>2 DEF OpOK, Applies, Restores
  <2>4. OpsOK'
    BY <2>2, <2>3, Parts DEF OpsOK, OpOK, Applies, Restores, Payload
  <2>5. IdsOK'
    BY <2>2, <2>3, Parts DEF IdsOK, Applies, Actors
  <2> QED
    BY <2>2, <2>3, <2>4, <2>5
<1>3. CASE Goto(a, "save") /\ op' = op
  BY <1>2, <1>3
<1>4. CASE Goto(a, "stat") /\ op' = op /\ a = Tool /\ op[a].new = Empty
  BY <1>2, <1>4
<1> QED
  BY <1>1, <1>3, <1>4

LEMMA RestoreFileKeeps ==
    ASSUME IInv, NEW a \in Actors, RestoreFile(a)
    PROVE  IInv'
<1>0. PICK i, p : i = op[a].id /\ p = op[a].path
  OBVIOUS
<1>1. /\ PatchTypes' /\ SessionsOK' /\ PreviewsOK' /\ CachedOK'
      /\ UNCHANGED <<snaps, sessions, baselines, cached, patches, raced, edit,
                     torn, viewer, runs, unsure>>
      /\ pc[a] = "write" /\ op[a].kind = "rollback"
      /\ disk' = [disk EXCEPT ![p] = op[a].new]
      /\ last' = [last EXCEPT ![p] = <<"rollback", i>>]
      /\ lost' = IF last[p] = ByUser THEN lost \cup {p} ELSE lost
      /\ Goto(a, "save") /\ op' = op
  BY <1>0, Frames DEF RestoreFile, Overwrite, LastWriter, dataVars, keyHistory
<1>2. /\ Restores(a) /\ ~Applies(a) /\ p \in Paths /\ op[a].new \in Texts
      /\ i \in Ids /\ i \in 1..Len(patches) /\ sessions[i] # "none"
      /\ i \in raced \/ op[a].new = Text(patches[i].before)
  BY <1>0, <1>1, RollbackFacts
<1>3. /\ OpTypes' /\ OpsOK' /\ IdsOK' /\ ~Applies(a)'
      /\ Restores(a)' => op'[a] = op[a]
      /\ \A b \in Actors : b # a => pc'[b] = pc[b] /\ op'[b] = op[b]
  BY <1>1, <1>2, RollbackSteps
<1>4. /\ disk'[p] = op[a].new /\ last'[p] = <<"rollback", i>>
      /\ \A q \in Paths : q # p => disk'[q] = disk[q] /\ last'[q] = last[q]
      /\ lost \subseteq lost'
  BY <1>1, <1>2, Parts DEF DataTypes, Tree
<1>5. DataTypes'
  <2>1. disk' \in Tree
    BY <1>1, <1>2, Parts, TextsAreTexts DEF DataTypes, Tree
  <2>2. last' \in [Paths -> Writers] /\ lost' \subseteq Paths
    BY <1>1, <1>2, Parts DEF DataTypes, Writers, Ids
  <2> QED
    BY <1>1, <2>1, <2>2, Parts DEF RestoreFile, DataTypes, bounds
<1>6. AppliesOK' /\ RestoresOK'
  <2> SUFFICES ASSUME NEW b \in Actors PROVE ApplyOK(b)' /\ RestoreOK(b)'
    BY DEF AppliesOK, RestoresOK
  <2>1. CASE b = a
    BY <1>1, <1>2, <1>3, <2>1, Parts DEF ApplyOK, RestoresOK, RestoreOK
  <2>2. CASE b # a
    BY <1>1, <1>3, <2>2, Parts, ApplyStays, RestoreStays
    DEF AppliesOK, RestoresOK
  <2> QED
    BY <2>1, <2>2
<1>7. FilesOK'
  <2> SUFFICES ASSUME NEW q \in Paths PROVE FileOK(q)'
    BY DEF FilesOK
  <2>1. CASE q = p
    <3>1. TextAt(p)' = op[a].new
      BY <1>2, <1>4, TextsAreTexts DEF TextAt
    <3> QED
      BY <1>1, <1>2, <1>4, <2>1, <3>1 DEF FileOK, ByUser, Text
  <2>2. CASE q # p
    BY <1>1, <1>4, <2>2, Parts DEF FilesOK, FileOK, TextAt, Text
  <2> QED
    BY <2>1, <2>2
<1>8. EditsKept'
  BY <1>1, <1>4, Parts DEF EditsKept
<1>9. KeysOK'
  BY <1>1, <1>2, <1>3, KeysApart
<1> QED
  BY <1>1, <1>3, <1>5, <1>6, <1>7, <1>8, <1>9, Parts

LEMMA MarkRolledBackKeeps ==
    ASSUME IInv, NEW a \in Actors, MarkRolledBack(a)
    PROVE  IInv'
<1>0. PICK i : i = op[a].id
  OBVIOUS
<1>1. /\ PatchTypes' /\ PreviewsOK' /\ EditsKept'
      /\ UNCHANGED <<disk, snaps, baselines, cached, patches, raced, last,
                     edit, lost, torn, viewer, runs, unsure>>
      /\ pc[a] = "save" /\ op[a].kind = "rollback"
      /\ sessions' = [sessions EXCEPT ![i] = "rolled_back"]
      /\ \/ Goto(a, "stat") /\ op' = op /\ a = Tool /\ op[a].new = Empty
         \/ Done(a)
  BY <1>0, Frames DEF MarkRolledBack, fileHistory, keyHistory
<1>2. Restores(a) /\ ~Applies(a) /\ i \in Ids /\ sessions[i] # "none"
  BY <1>0, <1>1, RollbackFacts
<1>3. /\ OpTypes' /\ OpsOK' /\ IdsOK' /\ ~Applies(a)'
      /\ Restores(a)' => op'[a] = op[a]
      /\ \A b \in Actors : b # a => pc'[b] = pc[b] /\ op'[b] = op[b]
  BY <1>1, <1>2, RollbackSteps
<1>4. /\ sessions'[i] = "rolled_back"
      /\ \A j \in Ids : j # i => sessions'[j] = sessions[j]
  BY <1>1, <1>2, Parts DEF DataTypes
<1>5. \A j \in Ids : /\ sessions'[j] # "none" <=> sessions[j] # "none"
                     /\ Known(j) => Known(j)'
  BY <1>1, <1>2, <1>4 DEF Known
<1>6. DataTypes'
  BY <1>1, <1>2, Parts DEF MarkRolledBack, DataTypes, bounds
<1>7. SessionsOK'
  <2>1. ASSUME NEW j \in Ids, sessions'[j] # "none"
        PROVE  SessionOK(j)'
    BY <1>1, <1>5, <2>1, Parts DEF SessionsOK, SessionOK, Text
  <2>2. \A j \in torn' : sessions'[j] # "none"
    BY <1>1, <1>5, Parts DEF DataTypes, SessionsOK
  <2> QED
    BY <1>1, <2>1, <2>2, Parts DEF SessionsOK
<1>8. AppliesOK'
  <2> SUFFICES ASSUME NEW b \in Actors PROVE ApplyOK(b)'
    BY DEF AppliesOK
  <2>1. CASE b = a
    BY <1>3, <2>1 DEF ApplyOK
  <2>2. CASE b # a
    <3>1. ApplyOK(b)
      BY Parts DEF AppliesOK
    <3>2. CASE Applies(b) /\ pc[b] \in Started
      <4>1. op[b].id \in Ids
        <5>1. op[b].id \in 1..Len(patches)
          BY <3>1, <3>2 DEF ApplyOK
        <5> QED
          BY <3>2, <5>1, Parts, OpFields, PatchAssumption DEF Ids, Applies
      <4>2. Payload(b)' = Payload(b)
        BY <1>3, <2>2 DEF Payload
      <4> QED
        BY <1>1, <1>3, <1>5, <2>2, <3>1, <4>1, <4>2 DEF ApplyOK, Applies, Text
    <3>3. CASE ~(Applies(b) /\ pc[b] \in Started)
      BY <1>3, <2>2, <3>3 DEF ApplyOK, Applies
    <3> QED
      BY <3>2, <3>3
  <2> QED
    BY <2>1, <2>2
<1>9. RestoresOK'
  <2> SUFFICES ASSUME NEW b \in Actors PROVE RestoreOK(b)'
    BY DEF RestoresOK
  <2>1. CASE b = a
    BY <1>1, <1>2, <1>3, <1>5, <2>1, Parts DEF RestoresOK, RestoreOK
  <2>2. CASE b # a
    BY <1>1, <1>3, <1>5, <2>2, Parts, RestoreStays DEF RestoresOK
  <2> QED
    BY <2>1, <2>2
<1>10. FilesOK'
  BY <1>1, <1>5, Parts DEF FilesOK, FileOK, TextAt, Text
<1>11. KeysOK'
  BY <1>1, <1>2, <1>3, KeysApart
<1>12. CachedOK'
  <2>1. \A k \in Keys : cached[k] # None => cached[k].id \in Ids
    BY Parts DEF DataTypes, Answer
  <2> QED
    BY <1>1, <1>5, <2>1, Parts DEF CachedOK, AnswerOK
<1> QED
  BY <1>1, <1>3, <1>6, <1>7, <1>8, <1>9, <1>10, <1>11, <1>12, Parts

LEMMA StatKeeps ==
    ASSUME IInv, Stat
    PROVE  IInv'
<1>1. /\ PatchTypes' /\ SessionsOK' /\ PreviewsOK' /\ FilesOK' /\ EditsKept'
      /\ CachedOK'
      /\ UNCHANGED <<disk, snaps, sessions, baselines, cached, patches, raced,
                     last, edit, lost, torn, viewer, runs, unsure>>
      /\ Tool \in Actors /\ pc[Tool] = "stat"
  BY Frames DEF Stat, dataVars, fileHistory, keyHistory, Actors
<1>2. /\ Restores(Tool) /\ ~Applies(Tool) /\ op[Tool].path \in Paths
      /\ op[Tool].new = Empty /\ op[Tool].id # 0 /\ OpOK(Tool)
      /\ op[Tool] \in Operation /\ op[Tool].kind = "rollback"
      /\ op[Tool].key = None /\ RestoreOK(Tool)
  <2>1. /\ Restores(Tool) /\ ~Applies(Tool) /\ op[Tool].path \in Paths
        /\ op[Tool].id # 0 /\ OpOK(Tool) /\ op[Tool].key = None
    <3>1. Tool \in Actors /\ pc[Tool] \in {"stat", "unlink"}
      BY <1>1
    <3> QED
      BY <3>1, RollbackFacts
  <2>2. op[Tool].new = Empty /\ op[Tool].kind = "rollback"
    BY <1>1, <2>1 DEF OpOK, Restores
  <2> QED
    BY <1>1, <2>1, <2>2, Parts, OpFields DEF RestoresOK
<1>3. DataTypes'
  BY Parts DEF Stat, DataTypes, dataVars, fileHistory, keyHistory, bounds
<1>4. /\ OpTypes' /\ OpsOK' /\ IdsOK' /\ ~Applies(Tool)' /\ RestoreOK(Tool)'
      /\ \A b \in Actors : b # Tool => pc'[b] = pc[b] /\ op'[b] = op[b]
  <2>1. CASE Done(Tool)
    BY <1>1, <2>1, OneLess DEF Applies
  <2>2. CASE ~Done(Tool)
    <3>1. /\ IsStub(op[Tool].path)
          /\ op' = [op EXCEPT ![Tool].orig = TextAt(op[Tool].path)]
          /\ Goto(Tool, "unlink")
      BY <2>2 DEF Stat
    <3>2. TextAt(op[Tool].path) = Empty
      BY <3>1, PatchAssumption DEF IsStub, TextAt, Text
    <3>3. PICK o : o = [op[Tool] EXCEPT !.orig = Empty]
      OBVIOUS
    <3>4. o = [kind |-> op[Tool].kind, path |-> op[Tool].path,
               new |-> op[Tool].new, key |-> op[Tool].key, orig |-> Empty,
               id |-> op[Tool].id]
      BY <1>2, <3>3 DEF Operation
    <3>5. /\ o \in Operation /\ o.id = op[Tool].id /\ o.orig = Empty
          /\ o.path = op[Tool].path /\ o.new = op[Tool].new
          /\ o.key = None /\ o.kind = "rollback"
      BY <1>2, <3>4, TextsAreTexts DEF Operation
    <3>6. /\ pc' = [pc EXCEPT ![Tool] = "unlink"]
          /\ op' = [op EXCEPT ![Tool] = o]
      BY <3>1, <3>2, <3>3 DEF Goto
    <3>7. OpTypes'
      BY <1>1, <1>2, <3>5, <3>6, Parts, MoveTypes DEF Labels
    <3>8. /\ pc'[Tool] = "unlink" /\ op'[Tool] = o
          /\ \A b \in Actors : b # Tool => pc'[b] = pc[b] /\ op'[b] = op[b]
      BY <1>1, <3>6, Parts, Moves
    <3>9. ~Applies(Tool)' /\ OpOK(Tool)' /\ RestoreOK(Tool)'
      BY <1>1, <1>2, <3>5, <3>8 DEF OpOK, RestoreOK, Applies, Restores
    <3>10. OpsOK'
      BY <3>8, <3>9, Parts DEF OpsOK, OpOK, Applies, Restores, Payload
    <3>11. IdsOK'
      BY <3>9 DEF IdsOK
    <3> QED
      BY <3>7, <3>8, <3>9, <3>10, <3>11
  <2> QED
    BY <2>1, <2>2
<1>5. AppliesOK' /\ RestoresOK'
  <2> SUFFICES ASSUME NEW b \in Actors PROVE ApplyOK(b)' /\ RestoreOK(b)'
    BY DEF AppliesOK, RestoresOK
  <2>1. CASE b = Tool
    BY <1>4, <2>1 DEF ApplyOK
  <2>2. CASE b # Tool
    BY <1>1, <1>4, <2>2, Parts, ApplyStays, RestoreStays
    DEF AppliesOK, RestoresOK
  <2> QED
    BY <2>1, <2>2
<1>6. KeysOK'
  BY <1>1, <1>2, <1>4, KeysApart
<1> QED
  BY <1>1, <1>3, <1>4, <1>5, <1>6, Parts

LEMMA UnlinkKeeps ==
    ASSUME IInv, Unlink
    PROVE  IInv'
<1>0. PICK i, p : i = op[Tool].id /\ p = op[Tool].path
  OBVIOUS
<1>1. /\ PatchTypes' /\ SessionsOK' /\ PreviewsOK' /\ CachedOK'
      /\ UNCHANGED <<snaps, sessions, baselines, cached, patches, raced, edit,
                     torn, viewer, runs, unsure>>
      /\ Tool \in Actors /\ pc[Tool] = "unlink"
      /\ disk' = [disk EXCEPT ![p] = None]
      /\ last' = IF last[p] = <<"rollback", i>> THEN last
                 ELSE [last EXCEPT ![p] = <<"unlink", i>>]
      /\ lost' = IF last[p] = ByUser /\ TextAt(p) # op[Tool].orig
                 THEN lost \cup {p} ELSE lost
      /\ Done(Tool)
  BY <1>0, Frames DEF Unlink, LastWriter, dataVars, keyHistory, Actors
<1>2. /\ Restores(Tool) /\ ~Applies(Tool) /\ p \in Paths
      /\ op[Tool].new = Empty /\ op[Tool].orig = Empty
      /\ i \in Ids /\ i \in 1..Len(patches) /\ sessions[i] # "none"
      /\ snaps[i] = Empty /\ patches[i].path = p
      /\ i \in raced \/ Text(patches[i].before) = Empty
  <2>1. /\ Restores(Tool) /\ ~Applies(Tool) /\ OpOK(Tool)
        /\ p \in Paths /\ i \in Ids /\ i \in 1..Len(patches)
        /\ sessions[i] # "none" /\ snaps[i] = op[Tool].new
        /\ patches[i].path = p
        /\ i \in raced \/ op[Tool].new = Text(patches[i].before)
    <3>1. Tool \in Actors /\ pc[Tool] \in {"stat", "unlink"}
      BY <1>1
    <3> QED
      BY <1>0, <3>1, RollbackFacts
  <2>2. op[Tool].new = Empty /\ op[Tool].orig = Empty
    BY <1>1, <2>1 DEF OpOK
  <2> QED
    BY <2>1, <2>2
<1>3. /\ OpTypes' /\ OpsOK' /\ IdsOK' /\ pc'[Tool] = "idle"
      /\ ApplyOK(Tool)' /\ RestoreOK(Tool)'
      /\ \A b \in Actors : b # Tool => pc'[b] = pc[b] /\ op'[b] = op[b]
  BY <1>1, OneLess
<1>4. /\ disk'[p] = None /\ last'[p] \in {<<"rollback", i>>, <<"unlink", i>>}
      /\ \A q \in Paths : q # p => disk'[q] = disk[q] /\ last'[q] = last[q]
      /\ lost \subseteq lost'
  BY <1>1, <1>2, Parts DEF DataTypes, Tree
<1>5. DataTypes'
  <2>1. disk' \in Tree
    BY <1>1, <1>2, Parts DEF DataTypes, Tree, Entry
  <2>2. last' \in [Paths -> Writers] /\ lost' \subseteq Paths
    BY <1>1, <1>2, Parts DEF DataTypes, Writers, Ids
  <2> QED
    BY <1>1, <2>1, <2>2, Parts DEF Unlink, DataTypes, bounds
<1>6. AppliesOK' /\ RestoresOK'
  <2> SUFFICES ASSUME NEW b \in Actors PROVE ApplyOK(b)' /\ RestoreOK(b)'
    BY DEF AppliesOK, RestoresOK
  <2>1. CASE b = Tool
    BY <1>3, <2>1
  <2>2. CASE b # Tool
    BY <1>1, <1>3, <2>2, Parts, ApplyStays, RestoreStays
    DEF AppliesOK, RestoresOK
  <2> QED
    BY <2>1, <2>2
<1>7. FilesOK'
  <2> SUFFICES ASSUME NEW q \in Paths PROVE FileOK(q)'
    BY DEF FilesOK
  <2>1. CASE q = p
    <3>1. TextAt(p)' = Empty
      BY <1>4, TextsAreTexts DEF TextAt
    <3> QED
      BY <1>1, <1>2, <1>4, <2>1, <3>1 DEF FileOK, ByUser, Text
  <2>2. CASE q # p
    BY <1>1, <1>4, <2>2, Parts DEF FilesOK, FileOK, TextAt, Text
  <2> QED
    BY <2>1, <2>2
<1>8. EditsKept'
  <2> SUFFICES ASSUME NEW q \in Paths
               PROVE  \/ last'[q] = ByUser \/ q \in lost'
                      \/ \E j \in 1..Len(patches) :
                            patches[j].path = q /\ snaps[j] = edit[q]
    BY <1>1 DEF EditsKept
  <2>1. CASE q = p /\ last[p] = ByUser
    <3>1. TextAt(p) = edit[p]
      BY <1>2, <2>1, Parts DEF FilesOK, FileOK
    <3>2. CASE TextAt(p) # op[Tool].orig
      BY <1>1, <2>1, <3>2
    <3>3. CASE TextAt(p) = op[Tool].orig
      BY <1>2, <2>1, <3>1, <3>3
    <3> QED
      BY <3>2, <3>3
  <2>2. CASE ~(q = p /\ last[p] = ByUser)
    BY <1>4, <2>2, Parts DEF EditsKept
  <2> QED
    BY <2>1, <2>2
<1>9. KeysOK'
  <2>1. ~Applies(Tool)'
    BY <1>3 DEF Applies
  <2> QED
    BY <1>1, <1>2, <1>3, <2>1, KeysApart
<1> QED
  BY <1>1, <1>3, <1>5, <1>6, <1>7, <1>8, <1>9, Parts

\* The keys, and who else does something, when the operation of a breaks off.
LEMMA BreakOthers ==
    ASSUME IInv, NEW a \in Actors, Break(a)
    PROVE  /\ OpTypes' /\ OpsOK' /\ IdsOK' /\ PreviewsOK' /\ KeysOK'
           /\ ApplyOK(a)' /\ RestoreOK(a)'
           /\ \A b \in Actors : b # a => pc'[b] = pc[b] /\ op'[b] = op[b]
           /\ unsure' \subseteq Keys /\ troubles' \in Nat
           /\ UNCHANGED <<snaps, baselines, cached, viewer, runs, edits>>
<1>1. /\ OpTypes' /\ OpsOK' /\ IdsOK' /\ pc'[a] = "idle"
      /\ ApplyOK(a)' /\ RestoreOK(a)'
      /\ \A b \in Actors : b # a => pc'[b] = pc[b] /\ op'[b] = op[b]
  BY OneLess DEF Break
<1>2. /\ UNCHANGED <<snaps, baselines, cached, viewer, runs, edits>>
      /\ unsure' = unsure \cup ({op[a].key} \ {None}) /\ pc[a] # "idle"
      /\ PreviewsOK' /\ troubles' \in Nat
  BY Frames, Parts DEF Break, Trouble, DataTypes
<1>3. op[a].key \in Keys \cup {None} /\ unsure \subseteq Keys
  BY <1>2, Parts, OpFields DEF DataTypes
<1>4. \A k \in Keys \ unsure' : /\ Under(k)' <=> Under(k)
                                /\ Under(k) => pc'[Server] = pc[Server]
  <2> SUFFICES ASSUME NEW k \in Keys \ unsure'
               PROVE  /\ Under(k)' <=> Under(k)
                      /\ Under(k) => pc'[Server] = pc[Server]
    OBVIOUS
  <2>1. CASE a = Server
    <3>1. op[Server].key # k
      BY <1>2, <2>1 DEF Keys
    <3> QED
      BY <1>1, <2>1, <3>1 DEF Under, Applies
  <2>2. CASE a # Server
    BY <1>1, <2>2 DEF Under, Applies, Actors
  <2> QED
    BY <2>1, <2>2
<1>5. KeysOK'
  BY <1>2, <1>4, Parts, KeysStay
<1> QED
  BY <1>1, <1>2, <1>3, <1>5

\* An operation that breaks off before a step.
LEMMA PlainBreakKeeps ==
    ASSUME IInv, NEW a \in Actors, Break(a),
           UNCHANGED <<disk, sessions, fileHistory>>
    PROVE  IInv'
<1>1. /\ PatchTypes' /\ SessionsOK' /\ FilesOK' /\ EditsKept' /\ CachedOK'
  BY BreakOthers, Frames DEF fileHistory
<1>2. AppliesOK' /\ RestoresOK'
  <2> SUFFICES ASSUME NEW b \in Actors PROVE ApplyOK(b)' /\ RestoreOK(b)'
    BY DEF AppliesOK, RestoresOK
  <2>1. CASE b = a
    BY <2>1, BreakOthers
  <2>2. CASE b # a
    BY <2>2, BreakOthers, Parts, ApplyStays, RestoreStays
    DEF AppliesOK, RestoresOK, fileHistory
  <2> QED
    BY <2>1, <2>2
<1>3. DataTypes'
  BY BreakOthers, Parts DEF DataTypes, fileHistory
<1> QED
  BY <1>1, <1>2, <1>3, BreakOthers, Parts

\* One that breaks off while its session is being saved.
LEMMA BreakInSaveKeeps ==
    ASSUME IInv, NEW a \in Actors, Break(a), BreakInSave(a)
    PROVE  IInv'
<1>0. PICK i : i = op[a].id
  OBVIOUS
<1>1. /\ PatchTypes' /\ EditsKept' /\ pc[a] = "save"
      /\ UNCHANGED <<disk, patches, raced, last, edit, lost>>
      /\ sessions' = [sessions EXCEPT ![i] = "torn"]
      /\ torn' = IF op[a].kind = "rollback" THEN torn \cup {i} ELSE torn
  BY <1>0, BreakOthers, Frames DEF BreakInSave
<1>2. op[a].kind \in {"apply", "rollback"}
  BY <1>1, Parts, OpFields
<1>3. /\ i \in Ids /\ i \in 1..Len(patches) /\ SessionOK(i)
      /\ \A b \in Actors \ {a} : Applies(b) /\ pc[b] \in Started
            => op[b].id # i \/ sessions[i] # "none"
      /\ op[a].kind = "apply" =>
            /\ sessions[i] = "none"
            /\ \A b \in Actors \ {a} : Applies(b) => op[b].id # i
      /\ op[a].kind = "rollback" => sessions[i] # "none"
  <2>1. CASE op[a].kind = "apply"
    <3>1. /\ i \in Ids /\ i \in 1..Len(patches) /\ op[a].orig \in Texts
          /\ \A b \in Actors \ {a} : Applies(b) => op[b].id # i
      BY <1>0, <1>1, <2>1, ApplyFacts DEF Started
    <3>2. /\ sessions[i] = "none" /\ snaps[i] = op[a].orig
          /\ i \in raced \/ op[a].orig = Text(patches[i].before)
      BY <1>0, <1>1, <2>1, Parts
      DEF AppliesOK, ApplyOK, Applies, Started, Unsaved, Written
    <3>3. SessionOK(i)
      BY <3>1, <3>2, TextsAreTexts DEF SessionOK
    <3> QED
      BY <2>1, <3>1, <3>2, <3>3
  <2>2. CASE op[a].kind = "rollback"
    <3>1. i \in Ids /\ i \in 1..Len(patches) /\ sessions[i] # "none"
      BY <1>0, <1>1, <2>2, RollbackFacts
    <3> QED
      BY <2>2, <3>1, Parts DEF SessionsOK
  <2> QED
    BY <1>2, <2>1, <2>2
<1>4. /\ sessions'[i] = "torn"
      /\ \A j \in Ids : j # i => sessions'[j] = sessions[j]
      /\ torn \subseteq torn' /\ torn' \subseteq torn \cup {i}
  BY <1>1, <1>3, Parts DEF DataTypes
<1>5. \A j \in Ids : /\ sessions[j] # "none" => sessions'[j] # "none"
                     /\ Known(j) => Known(j)'
  <2>1. op[a].kind = "apply" => ~Known(i)
    BY <1>3, Parts DEF Known, SessionsOK
  <2> QED
    BY <1>1, <1>2, <1>3, <1>4, <2>1 DEF Known
<1>6. DataTypes'
  <2>1. /\ sessions' \in [Ids -> {"none", "torn", "applied", "rolled_back"}]
        /\ torn' \subseteq Ids
    BY <1>1, <1>3, Parts DEF DataTypes
  <2> QED
    BY <1>1, <2>1, BreakOthers, Parts DEF DataTypes
<1>7. SessionsOK'
  <2>1. ASSUME NEW j \in Ids, sessions'[j] # "none"
        PROVE  SessionOK(j)'
    BY <1>1, <1>3, <1>4, <2>1, BreakOthers, Parts
    DEF SessionsOK, SessionOK, Text
  <2>2. \A j \in torn' : sessions'[j] # "none"
    BY <1>3, <1>4, <1>5, Parts DEF DataTypes, SessionsOK
  <2> QED
    BY <1>1, <2>1, <2>2, BreakOthers, Parts DEF SessionsOK
<1>8. AppliesOK'
  <2> SUFFICES ASSUME NEW b \in Actors PROVE ApplyOK(b)'
    BY DEF AppliesOK
  <2>1. CASE b = a
    BY <2>1, BreakOthers
  <2>2. CASE b # a
    <3>0. ApplyOK(b) /\ pc'[b] = pc[b] /\ op'[b] = op[b]
      BY <2>2, BreakOthers, Parts DEF AppliesOK
    <3>1. CASE Applies(b) /\ pc[b] \in Started
      <4>1. op[b].id \in Ids
        <5>1. op[b].id \in 1..Len(patches)
          BY <3>0, <3>1 DEF ApplyOK
        <5> QED
          BY <3>1, <5>1, Parts, OpFields, PatchAssumption DEF Ids, Applies
      <4>2. pc[b] \in Unsaved => op[b].id # i
        BY <1>2, <1>3, <2>2, <3>0, <3>1 DEF ApplyOK
      <4>3. Payload(b)' = Payload(b)
        BY <3>0 DEF Payload
      <4> QED
        BY <1>1, <1>4, <1>5, <3>0, <4>1, <4>2, <4>3, BreakOthers
        DEF ApplyOK, Applies, Text
    <3>2. CASE ~(Applies(b) /\ pc[b] \in Started)
      BY <3>0, <3>2 DEF ApplyOK, Applies
    <3> QED
      BY <3>1, <3>2
  <2> QED
    BY <2>1, <2>2
<1>9. RestoresOK'
  <2> SUFFICES ASSUME NEW b \in Actors PROVE RestoreOK(b)'
    BY DEF RestoresOK
  <2>1. CASE b = a
    BY <2>1, BreakOthers
  <2>2. CASE b # a
    BY <1>1, <1>5, <2>2, BreakOthers, Parts, RestoreStays DEF RestoresOK
  <2> QED
    BY <2>1, <2>2
<1>10. FilesOK'
  BY <1>1, <1>5, Parts DEF FilesOK, FileOK, TextAt, Text
<1>11. CachedOK'
  <2>1. \A k \in Keys : cached[k] # None => cached[k].id \in Ids
    BY Parts DEF DataTypes, Answer
  <2> QED
    BY <1>1, <1>5, <2>1, BreakOthers, Parts DEF CachedOK, AnswerOK
<1> QED
  BY <1>1, <1>6, <1>7, <1>8, <1>9, <1>10, <1>11, BreakOthers, Parts

\* One that breaks off while it writes its file.
LEMMA BreakInWriteKeeps ==
    ASSUME IInv, NEW a \in Actors, Break(a), BreakInWrite(a)
    PROVE  IInv'
<1>0. PICK i, p : i = op[a].id /\ p = op[a].path
  OBVIOUS
<1> DEFINE missed == op[a].kind = "apply" => TextAt(p) # op[a].orig
<1>1. /\ pc[a] = "write" /\ UNCHANGED <<sessions, edit, torn>>
      /\ disk' = [disk EXCEPT ![p] = Empty]
      /\ patches' = IF op[a].kind = "apply"
                    THEN [patches EXCEPT ![i].before = disk[p]] ELSE patches
      /\ raced' = IF op[a].kind = "apply" /\ TextAt(p) # op[a].orig
                  THEN raced \cup {i} ELSE raced
      /\ lost' = IF last[p] = ByUser /\ missed THEN lost \cup {p} ELSE lost
      /\ last' = [last EXCEPT ![p] = <<"break", i>>]
  BY <1>0 DEF BreakInWrite, Overwrite, LastWriter
<1>2. op[a].kind \in {"apply", "rollback"}
  BY <1>1, Parts, OpFields
<1>3. /\ p \in Paths /\ i \in Ids /\ i \in 1..Len(patches)
      /\ op[a].kind = "apply" =>
            /\ sessions[i] = "none" /\ snaps[i] = op[a].orig
            /\ patches[i].path = p
            /\ \A b \in Actors \ {a} : Applies(b) => op[b].id # i
  <2>1. CASE op[a].kind = "apply"
    <3>1. /\ p \in Paths /\ i \in Ids /\ i \in 1..Len(patches)
          /\ \A b \in Actors \ {a} : Applies(b) => op[b].id # i
      BY <1>0, <1>1, <2>1, ApplyFacts DEF Started
    <3>2. /\ sessions[i] = "none" /\ snaps[i] = op[a].orig
          /\ patches[i].path = p
      BY <1>0, <1>1, <2>1, Parts
      DEF AppliesOK, ApplyOK, Applies, Started, Unsaved
    <3> QED
      BY <3>1, <3>2
  <2>2. CASE op[a].kind = "rollback"
    BY <1>0, <1>1, <2>2, RollbackFacts
  <2> QED
    BY <1>2, <2>1, <2>2
<1>4. disk[p] \in Entry /\ disk \in [Paths -> Entry]
  BY <1>3, Parts DEF DataTypes, Tree
<1>5. /\ PatchTypes' /\ Len(patches') = Len(patches)
      /\ \A j \in 1..Len(patches) :
            /\ patches'[j].path = patches[j].path
            /\ patches'[j].new = patches[j].new
            /\ j # i \/ op[a].kind # "apply" => patches'[j] = patches[j]
  <2>1. CASE op[a].kind = "apply"
    BY <1>1, <1>3, <1>4, <2>1, Parts, Overwritten
  <2>2. CASE op[a].kind # "apply"
    BY <1>1, <2>2, Frames
  <2> QED
    BY <2>1, <2>2
<1>6. /\ disk'[p] = Empty /\ last'[p] = <<"break", i>>
      /\ \A q \in Paths : q # p => disk'[q] = disk[q] /\ last'[q] = last[q]
      /\ raced \subseteq raced' /\ lost \subseteq lost'
  BY <1>1, <1>3, <1>4, Parts DEF DataTypes
<1>7. \A j \in Ids : sessions[j] # "none" => patches'[j] = patches[j]
  BY <1>3, <1>5, Parts DEF SessionsOK, SessionOK
<1>8. DataTypes'
  <2>1. disk' \in Tree
    BY <1>1, <1>3, <1>4, PatchAssumption DEF Tree, Entry
  <2>2. last' \in [Paths -> Writers]
    BY <1>1, <1>3, Parts DEF DataTypes, Writers, Ids
  <2>3. raced' \subseteq Ids /\ lost' \subseteq Paths
    BY <1>1, <1>3, Parts DEF DataTypes
  <2> QED
    BY <1>1, <2>1, <2>2, <2>3, BreakOthers, Parts DEF DataTypes
<1>9. SessionsOK'
  <2>1. ASSUME NEW j \in Ids, sessions'[j] # "none"
        PROVE  SessionOK(j)'
    <3>1. SessionOK(j) /\ patches'[j] = patches[j]
      BY <1>1, <1>7, <2>1, Parts DEF SessionsOK
    <3>2. snaps'[j] = snaps[j] /\ Len(patches') = Len(patches)
      BY <1>5, BreakOthers
    <3> QED
      BY <1>6, <3>1, <3>2 DEF SessionOK, Text
  <2> QED
    BY <1>1, <1>5, <2>1, BreakOthers, Parts DEF SessionsOK
<1>10. AppliesOK'
  <2> SUFFICES ASSUME NEW b \in Actors PROVE ApplyOK(b)'
    BY DEF AppliesOK
  <2>1. CASE b = a
    BY <2>1, BreakOthers
  <2>2. CASE b # a
    <3>0. ApplyOK(b) /\ pc'[b] = pc[b] /\ op'[b] = op[b]
      BY <2>2, BreakOthers, Parts DEF AppliesOK
    <3>1. CASE Applies(b)
      <4>1. op[a].kind = "apply" => op[b].id # i
        BY <1>3, <2>2, <3>1
      <4> QED
        BY <1>1, <1>5, <1>6, <3>0, <4>1, BreakOthers, ApplyStays
    <3>2. CASE ~Applies(b)
      BY <3>0, <3>2 DEF ApplyOK, Applies
    <3> QED
      BY <3>1, <3>2
  <2> QED
    BY <2>1, <2>2
<1>11. RestoresOK'
  <2> SUFFICES ASSUME NEW b \in Actors PROVE RestoreOK(b)'
    BY DEF RestoresOK
  <2>1. CASE b = a
    BY <2>1, BreakOthers
  <2>2. CASE b # a
    BY <1>1, <1>7, <2>2, BreakOthers, Parts, RestoreStays DEF RestoresOK
  <2> QED
    BY <2>1, <2>2
<1>12. FilesOK'
  <2> SUFFICES ASSUME NEW q \in Paths PROVE FileOK(q)'
    BY DEF FilesOK
  <2>1. CASE q = p
    BY <1>6, <2>1 DEF FileOK, ByUser
  <2>2. CASE q # p
    <3>1. /\ FileOK(q) /\ last'[q] = last[q] /\ disk'[q] = disk[q]
          /\ UNCHANGED <<sessions, edit>>
      BY <1>1, <1>6, <2>2, Parts DEF FilesOK
    <3> QED
      BY <1>6, <1>7, <3>1 DEF FileOK, TextAt, Text
  <2> QED
    BY <2>1, <2>2
<1>13. EditsKept'
  <2> SUFFICES ASSUME NEW q \in Paths
               PROVE  \/ last'[q] = ByUser \/ q \in lost'
                      \/ \E j \in 1..Len(patches) :
                            patches[j].path = q /\ snaps[j] = edit[q]
    BY <1>1, <1>5, BreakOthers DEF EditsKept
  <2>1. CASE q = p /\ last[p] = ByUser
    <3>1. TextAt(p) = edit[p]
      BY <1>3, <2>1, Parts DEF FilesOK, FileOK
    <3>2. CASE missed
      BY <1>1, <2>1, <3>2
    <3>3. CASE ~missed
      BY <1>3, <2>1, <3>1, <3>3
    <3> QED
      BY <3>2, <3>3
  <2>2. CASE ~(q = p /\ last[p] = ByUser)
    BY <1>6, <2>2, Parts DEF EditsKept
  <2> QED
    BY <2>1, <2>2
<1>14. CachedOK'
  BY <1>1, <1>5, BreakOthers, Parts DEF CachedOK, AnswerOK, Known
<1> QED
  BY <1>5, <1>8, <1>9, <1>10, <1>11, <1>12, <1>13, <1>14, BreakOthers, Parts

-----------------------------------------------------------------------------
(* The theorems. *)

LEMMA IInvInit == Init => IInv
<1> SUFFICES ASSUME Init PROVE IInv
  OBVIOUS
<1>1. /\ pc = [a \in Actors |-> "idle"] /\ op = [a \in Actors |-> Nothing]
      /\ patches = <<>> /\ Len(patches) = 0
      /\ snaps = [i \in Ids |-> None] /\ sessions = [i \in Ids |-> "none"]
      /\ baselines = [x \in Payloads |-> None]
      /\ cached = [k \in Keys |-> None] /\ viewer = [x \in Payloads |-> None]
      /\ last = [p \in Paths |-> ByUser] /\ disk \in Tree
      /\ edit = [p \in Paths |-> TextAt(p)] /\ runs = [k \in Keys |-> 0]
      /\ raced = {} /\ lost = {} /\ torn = {} /\ unsure = {}
  BY PatchAssumption DEF Init
<1>2. OpTypes /\ PatchTypes
  BY <1>1 DEF OpTypes, PatchTypes, Labels
<1>3. DataTypes
  <2>1. \A p \in Paths : TextAt(p) \in Texts
    BY <1>1, TextsAreTexts DEF Tree, TextAt
  <2>2. ByUser \in Writers
    BY PatchAssumption DEF ByUser, Writers
  <2> QED
    BY <1>1, <2>1, <2>2 DEF Init, DataTypes
<1>4. OpsOK /\ IdsOK /\ AppliesOK /\ RestoresOK
  BY <1>1 DEF OpsOK, OpOK, IdsOK, AppliesOK, ApplyOK, RestoresOK, RestoreOK,
              Applies, Restores, Actors
<1>5. SessionsOK /\ PreviewsOK /\ CachedOK
  BY <1>1, PatchAssumption DEF SessionsOK, PreviewsOK, CachedOK, AnswerOK
<1>6. FilesOK /\ EditsKept
  BY <1>1 DEF FilesOK, FileOK, EditsKept, ByUser
<1>7. KeysOK
  BY <1>1 DEF KeysOK, KeyOK, Under, Applies, Actors
<1> QED
  BY <1>2, <1>3, <1>4, <1>5, <1>6, <1>7, Parts, TypeParts DEF IInv

LEMMA IInvNext == IInv /\ [Next]_vars => IInv'
<1> SUFFICES ASSUME IInv, [Next]_vars PROVE IInv'
  OBVIOUS
<1>1. ASSUME NEW a \in Actors, Step(a) PROVE IInv'
  BY <1>1, ReadKeeps, TakeSnapshotKeeps, WriteFileKeeps, SaveSessionKeeps,
     DropBaselineKeeps, AnswerApplyKeeps, RestoreFileKeeps,
     MarkRolledBackKeeps DEF Step
<1>2. ASSUME NEW a \in Actors, NEW x \in Payloads,
             NEW key \in IF a = Server THEN Headers ELSE {None},
             Ask(a, x, key)
      PROVE  IInv'
  <2>1. key \in Headers \cup {None} /\ (a = Tool => key = None)
    BY PatchAssumption
  <2> QED
    BY <1>2, <2>1, AskKeeps
<1>3. ASSUME NEW a \in Actors, Break(a) PROVE IInv'
  BY <1>3, PlainBreakKeeps, BreakInSaveKeeps, BreakInWriteKeeps DEF Break
<1>4. CASE UNCHANGED vars
  <2>1. DataTypes'
    BY <1>4, Parts DEF DataTypes, vars
  <2> QED
    BY <1>4, <2>1, Parts, Frames DEF vars
<1>5. CASE Next
  BY <1>1, <1>2, <1>3, <1>5, PreviewKeeps, AskRollbackKeeps, LookupKeeps,
     LookupFailsKeeps, ExpireKeeps, StatKeeps, UnlinkKeeps, EditKeeps DEF Next
<1> QED
  BY <1>4, <1>5

LEMMA Invariance == Spec => []IInv
BY IInvInit, IInvNext, PTL DEF Spec

\* Every variable keeps its type: sessions, snapshots, keys and operations of
\* the server and the tool have the values the code gives them.
THEOREM Types == Spec => []TypeOK
<1>1. IInv => TypeOK
  BY DEF IInv
<1> QED
  BY <1>1, Invariance, PTL

\* Every edit session on disk has a snapshot with what its patch has
\* overwritten, for any number of patches, edits and operations that break off.
THEOREM Restoring == Spec => []SessionsRestore
<1>1. IInv => SessionsRestore
  BY DEF IInv, SessionsOK, SessionOK, SessionsRestore
<1> QED
  BY <1>1, Invariance, PTL

\* An edit of the user is lost only where the code overwrites without a look.
THEOREM Keeping == Spec => []EditsKept
<1>1. IInv => EditsKept
  BY DEF IInv
<1> QED
  BY <1>1, Invariance, PTL

\* A rollback gives back the text that its patch has overwritten.
THEOREM RollingBack == Spec => []RollbackRestores
<1>1. IInv => RollbackRestores
  <2> SUFFICES ASSUME IInv, NEW p \in Paths, NEW i \in 1..Len(patches),
                      last[p] = <<"rollback", i>>
               PROVE  i \in raced \/ TextAt(p) = Text(patches[i].before)
    BY DEF RollbackRestores
  <2>1. i \in Nat
    OBVIOUS
  <2> QED
    BY <2>1, Parts DEF FilesOK, FileOK
<1> QED
  BY <1>1, Invariance, PTL

\* A key applies its patch once, as long as its answer is there or its request
\* is under way.
THEOREM Once == Spec => []KeyAppliesOnce
<1>1. IInv => KeyAppliesOnce
  BY DEF IInv, KeysOK, KeyOK, KeyAppliesOnce
<1> QED
  BY <1>1, Invariance, PTL

\* A stored answer names a session of its patch that can be loaded.
THEOREM Answering == Spec => []AnswersHold
<1>1. IInv => AnswersHold
  BY DEF IInv, CachedOK, AnswerOK, Known, AnswersHold
<1> QED
  BY <1>1, Invariance, PTL

\* A patch overwrites what its preview has shown, or it is marked as one whose
\* file changed after it was read.
THEOREM Guarding == Spec => PreviewGuards
<1>1. ASSUME IInv, [Next]_vars,
             NEW a \in Actors, WriteFile(a),
             viewer[<<op[a].path, op[a].new>>] = a
      PROVE  \/ baselines[<<op[a].path, op[a].new>>] = TextAt(op[a].path)
             \/ op[a].id \in raced'
  <2>1. baselines[Payload(a)] = op[a].orig
    BY <1>1, Parts
    DEF WriteFile, AppliesOK, ApplyOK, Applies, Started, Payload
  <2>2. TextAt(op[a].path) # op[a].orig => op[a].id \in raced'
    BY <1>1 DEF WriteFile, Overwrite
  <2> QED
    BY <2>1, <2>2 DEF Payload
<1>2. IInv /\ [Next]_vars =>
          [\A a \in Actors : LET x == <<op[a].path, op[a].new>> IN
              WriteFile(a) /\ viewer[x] = a =>
                  baselines[x] = TextAt(x[1]) \/ op[a].id \in raced']_vars
  BY <1>1
<1> QED
  BY <1>2, Invariance, PTL DEF Spec, PreviewGuards

=============================================================================
